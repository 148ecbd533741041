------------------------- MODULE CloudLease_proofs -------------------------
(***************************************************************************)
(* The variables keep their types and the lease files stay valid, for any  *)
(* number of attempts, pods and crashes.                                   *)
(***************************************************************************)
EXTENDS CloudLease, FiniteSetTheorems, TLAPS

-----------------------------------------------------------------------------
(* The operators of LeaseRecord and CampaignAttempt return records of their *)
(* types.                                                                   *)

LEMMA RecordTypes ==
  ASSUME NEW r \in Rec!Leases
  PROVE  /\ Rec!PostIntent(r) \in Rec!Leases
         /\ Rec!CancelIntent(r) \in Rec!Leases
         /\ Rec!CancelPrepared(r) \in Rec!Leases
         /\ \A p \in Pod : Rec!CreateSuccess(r, p) \in Rec!Leases
         /\ Rec!RequestDestroy(r) \in Rec!Leases
         /\ Rec!StageBilling(r) \in Rec!Leases
         /\ Rec!BillingRecorded(r) \in Rec!Leases
         /\ Rec!AbsenceRevoked(r) \in Rec!Leases
         /\ [r EXCEPT !.st = "TERMINAL", !.proof = "expired"] \in Rec!Leases
  BY DEF Rec!Leases, Rec!States, Rec!Unresolved, Rec!Proofs, Rec!PostIntent,
         Rec!CancelIntent, Rec!CancelPrepared, Rec!CreateSuccess,
         Rec!RequestDestroy, Rec!StageBilling, Rec!BillingRecorded,
         Rec!AbsenceRevoked

LEMMA AbsenceCheckedType ==
  ASSUME NEW r \in Rec!Leases, NEW listing
  PROVE  Rec!AbsenceChecked(r, listing) \in Rec!Leases
  BY DEF Rec!Leases, Rec!States, Rec!Unresolved, Rec!AbsenceChecked

LEMMA UnbornTypes ==
  /\ Rec!Unborn \in Rec!Leases
  /\ \A listing \in SUBSET Pod : Rec!Prepared(listing) \in Rec!Leases
  BY DEF Rec!Leases, Rec!States, Rec!Unresolved, Rec!Proofs, Rec!Unborn,
         Rec!Prepared

LEMMA AmbiguousType ==
  ASSUME NEW r \in Rec!Leases, NEW candidates \in SUBSET Pod, NEW blockers
  PROVE  Rec!Ambiguous(r, candidates, blockers) \in Rec!Leases
  BY DEF Rec!Leases, Rec!States, Rec!Unresolved, Rec!Ambiguous

LEMMA PostCreateType ==
  ASSUME NEW r \in Rec!Leases, NEW listing \in SUBSET Pod, NEW own, NEW known
  PROVE  Rec!PostCreateBound(r, listing, own, known) \in Rec!Leases
<1>1. ((listing \ r.pre) \cap own) \cup r.ids \in SUBSET Pod
  BY DEF Rec!Leases
<1>2. QED
  BY <1>1, AmbiguousType DEF Rec!PostCreateBound

LEMMA LostReconciledType ==
  ASSUME NEW r \in Rec!Leases, NEW listing \in SUBSET Pod, NEW own,
         NEW answered \in SUBSET Pod, NEW known, NEW closed \in BOOLEAN,
         NEW outcome \in {"one", "ambiguous", "rejected", "expired", "zero"}
  PROVE  Rec!LostReconciled(r, listing, own, answered, known, closed, outcome)
           \in Rec!Leases
<1>1. Rec!LostCandidates(r, listing, own, answered) \in SUBSET Pod
  BY DEF Rec!Leases, Rec!LostCandidates
<1>2. Rec!Ambiguous(r, Rec!LostCandidates(r, listing, own, answered),
                    Rec!Blockers(r, listing, own, known) \ answered)
        \in Rec!Leases
  BY <1>1, AmbiguousType
<1>3. QED
  BY <1>1, <1>2 DEF Rec!LostReconciled, Rec!Leases, Rec!States,
                    Rec!Unresolved, Rec!Proofs

LEMMA LostOutcomes ==
  ASSUME NEW r, NEW listing, NEW own, NEW answered, NEW known, NEW rejected,
         NEW closed, NEW aged
  PROVE  Rec!LostOutcome(r, listing, own, answered, known, rejected, closed,
                         aged)
           \in {"one", "ambiguous", "rejected", "expired", "zero"}
  BY DEF Rec!LostOutcome

LEMMA AttemptTypes ==
  ASSUME NEW a \in Att!Attempts, NEW ids \in SUBSET Pod
  PROVE  /\ \A why \in Att!NoResourceAfterPost :
                Att!Cancelled(a, why) \in Att!Attempts
         /\ Att!MarkedCreating(a) \in Att!Attempts
         /\ Att!BoundForCleanup(a, ids) \in Att!Attempts
         /\ \A p \in Pod, accepted \in BOOLEAN :
                Att!QuoteBound(a, p, accepted) \in Att!Attempts
         /\ Att!TerminationRequested(a) \in Att!Attempts
         /\ Att!Projected(a, ids) \in Att!Attempts
         /\ Att!Unreserved \in Att!Attempts /\ Att!Reserved \in Att!Attempts
  BY DEF Att!Attempts, Att!Phases, Att!NoResourceAfterPost, Att!Cancelled,
         Att!MarkedCreating, Att!BoundForCleanup, Att!QuoteBound,
         Att!TerminationRequested, Att!Projected, Att!Unreserved,
         Att!Reserved

-----------------------------------------------------------------------------
(* The helpers that write variables keep them typed. *)

LEMMA WriteTypes ==
  ASSUME TypeOK, NEW l \in Lease, NEW new \in Rec!Leases
  PROVE  /\ CommitC(l, new) => lease' \in [Lease -> Rec!Leases]
                               /\ rref' \in [Lease -> BOOLEAN]
         /\ StoreR(l, new)  => lease' \in [Lease -> Rec!Leases]
                               /\ ctl' \in [Lease -> Controllers]
         /\ CommitR(l, new) => lease' \in [Lease -> Rec!Leases]
                               /\ ctl' \in [Lease -> Controllers]
                               /\ docs' \in [Lease -> Rec!Leases]
<1>1. CommitC(l, new) => lease' \in [Lease -> Rec!Leases]
                         /\ rref' \in [Lease -> BOOLEAN]
  BY DEF TypeOK, CommitC
<1>2. StoreR(l, new) => lease' \in [Lease -> Rec!Leases]
  BY DEF TypeOK, StoreR
<1>3. StoreR(l, new) => ctl' \in [Lease -> Controllers]
  <2>1. ctl[l] \in Controllers
    BY DEF TypeOK
  <2>2. [ctl[l] EXCEPT !.ref = FALSE] \in Controllers
    BY <2>1 DEF Controllers
  <2>3. QED
    BY <2>2 DEF TypeOK, StoreR
<1>4. CommitR(l, new) => docs' \in [Lease -> Rec!Leases]
  BY DEF TypeOK, CommitR
<1>5. QED
  BY <1>1, <1>2, <1>3, <1>4 DEF CommitR

LEMMA AttemptWriteType ==
  ASSUME TypeOK, NEW l \in Lease, NEW a \in Att!Attempts, SetAttempt(l, a)
  PROVE  attempt' \in [Lease -> Att!Attempts]
  BY DEF TypeOK, SetAttempt

LEMMA ControllerTypes ==
  ASSUME TypeOK, NEW l \in Lease
  PROVE  /\ \A step \in Steps : Goto(l, step) => ctl' \in [Lease -> Controllers]
         /\ \A step \in Steps : Look(l, step) => ctl' \in [Lease -> Controllers]
         /\ \A step \in Steps, pods \in SUBSET Pod :
              Take(l, step, pods) => ctl' \in [Lease -> Controllers]
         /\ LeaveCleanup(l) => ctl' \in [Lease -> Controllers]
         /\ RestartAge(l) => clock' \in [Lease -> Clocks]
<1>1. Listed \in SUBSET Pod
  BY DEF Listed
<1>2. {"end", "exit"} \subseteq Steps
  BY DEF Steps
<1>c. ctl[l] \in Controllers
  BY DEF TypeOK
<1>3. ASSUME NEW step \in Steps, Goto(l, step)
      PROVE  ctl' \in [Lease -> Controllers]
  <2>1. [at |-> "end", look |-> {}, pod |-> {}, ref |-> FALSE] \in Controllers
    BY <1>2 DEF Controllers
  <2>2. [ctl[l] EXCEPT !.at = step, !.look = {}] \in Controllers
    BY <1>c DEF Controllers
  <2>3. QED
    BY <1>3, <2>1, <2>2 DEF TypeOK, Goto
<1>4. ASSUME NEW step \in Steps, Look(l, step)
      PROVE  ctl' \in [Lease -> Controllers]
  <2>1. [ctl[l] EXCEPT !.at = step, !.look = Listed] \in Controllers
    BY <1>1, <1>c DEF Controllers
  <2>2. QED
    BY <1>4, <2>1 DEF TypeOK, Look
<1>5. ASSUME NEW step \in Steps, NEW pods \in SUBSET Pod, Take(l, step, pods)
      PROVE  ctl' \in [Lease -> Controllers]
  <2>1. [ctl[l] EXCEPT !.at = step, !.look = {}, !.pod = pods] \in Controllers
    BY <1>c DEF Controllers
  <2>2. QED
    BY <1>5, <2>1 DEF TypeOK, Take
<1>6. LeaveCleanup(l) => ctl' \in [Lease -> Controllers]
  <2>1. [ctl[l] EXCEPT !.at = IF ctl[l].pod = {} THEN "end" ELSE "exit",
                       !.look = {}, !.ref = FALSE] \in Controllers
    BY <1>2, <1>c DEF Controllers
  <2>2. QED
    BY <2>1 DEF TypeOK, LeaveCleanup
<1>7. RestartAge(l) => clock' \in [Lease -> Clocks]
  BY DEF TypeOK, RestartAge, StartClock, Clocks
<1>8. QED
  BY <1>3, <1>4, <1>5, <1>6, <1>7

Sweeps == [step : SweepSteps, todo : SUBSET Lease, ok : BOOLEAN,
           cur : Lease \cup {NoLease}]

LEMMA SweepTypes ==
  ASSUME TypeOK, NEW l \in Lease
  PROVE  /\ \A step \in SweepSteps : Step(step) => sweep' \in Sweeps
         /\ \A step \in SweepSteps : OrphanStep(step, l) => sweep' \in Sweeps
         /\ Forget(l) => /\ docs' \in [Lease -> Rec!Leases]
                         /\ asof' \in [Lease -> Clocks]
                         /\ rref' \in [Lease -> BOOLEAN]
         /\ Done(l) \/ Fail(l) => /\ sweep' \in Sweeps
                                  /\ docs' \in [Lease -> Rec!Leases]
                                  /\ asof' \in [Lease -> Clocks]
                                  /\ rref' \in [Lease -> BOOLEAN]
         /\ \A good \in BOOLEAN : OrphanEnds(l, good) => sweep' \in Sweeps
         /\ ForgetSweep => /\ sweep' \in Sweeps
                           /\ docs' \in [Lease -> Rec!Leases]
                           /\ seen' \in [ids : SUBSET Pod, exited : SUBSET Pod,
                                         fresh : SUBSET Pod]
                           /\ asof' \in [Lease -> Clocks]
                           /\ rref' \in [Lease -> BOOLEAN]
<1>1. StartClock \in Clocks
  BY DEF StartClock, Clocks
<1>2. sweep \in Sweeps
  BY DEF TypeOK, Sweeps
<1>3. {"pick", "list", "idle"} \subseteq SweepSteps
  BY DEF SweepSteps
<1>4. ASSUME NEW step \in SweepSteps, Step(step) \/ OrphanStep(step, l)
      PROVE  sweep' \in Sweeps
  BY <1>2, <1>4 DEF Sweeps, Step, OrphanStep
<1>5. Forget(l) => /\ docs' \in [Lease -> Rec!Leases]
                   /\ asof' \in [Lease -> Clocks]
                   /\ rref' \in [Lease -> BOOLEAN]
  BY <1>1, UnbornTypes DEF TypeOK, Forget
<1>6. Done(l) \/ Fail(l) => sweep' \in Sweeps
  BY <1>2, <1>3 DEF Sweeps, Done, Fail
<1>7. ASSUME NEW good \in BOOLEAN, OrphanEnds(l, good)
      PROVE  sweep' \in Sweeps
  BY <1>2, <1>3, <1>7 DEF Sweeps, OrphanEnds
<1>8. ForgetSweep => /\ sweep' \in Sweeps
                     /\ docs' \in [Lease -> Rec!Leases]
                     /\ seen' \in [ids : SUBSET Pod, exited : SUBSET Pod,
                                   fresh : SUBSET Pod]
                     /\ asof' \in [Lease -> Clocks]
                     /\ rref' \in [Lease -> BOOLEAN]
  BY <1>1, <1>3, UnbornTypes
     DEF ForgetSweep, Sweeps, Idle, NoDocs, Unseen, NoDeadline
<1>9. QED
  BY <1>4, <1>5, <1>6, <1>7, <1>8 DEF Done, Fail

-----------------------------------------------------------------------------
(* Every step of the controller of one attempt keeps the variables typed. *)

LEMMA BeforePostType ==
  ASSUME TypeOK, NEW l \in Lease, BeforePost(l)
  PROVE  TypeOK'
<1>1. lease[l] \in Rec!Leases /\ attempt[l] \in Att!Attempts
      /\ ctl[l].look \in SUBSET Pod
  BY DEF TypeOK, Controllers
<1>2. {"observed", "prepared", "reserved", "creating", "intent", "cancelIntent",
       "cancelLedger", "cancelClose", "end"} \subseteq Steps
  BY DEF Steps
<1>3. "PREPARED" \in Att!NoResourceAfterPost
  BY DEF Att!NoResourceAfterPost
<1>4. CASE ObserveAccount(l)
  BY <1>2, <1>4, ControllerTypes
     DEF TypeOK, ObserveAccount, store, provider, reaper
<1>5. CASE BeginCreate(l)
  <2>1. lease' \in [Lease -> Rec!Leases]
    BY <1>1, <1>5, UnbornTypes DEF BeginCreate, TypeOK
  <2>2. clock' \in [Lease -> Clocks]
    BY <1>5 DEF BeginCreate, TypeOK, StartClock, Clocks
  <2>3. ctl' \in [Lease -> Controllers]
    BY <1>2, <1>5 DEF BeginCreate, TypeOK, Controllers
  <2>4. QED
    BY <1>5, <2>1, <2>2, <2>3 DEF BeginCreate, TypeOK, provider, reaper
<1>6. CASE BeginRefused(l) \/ AbandonBeforePost(l)
  BY <1>2, <1>6, ControllerTypes
     DEF TypeOK, BeginRefused, AbandonBeforePost, store, provider, reaper
<1>7. CASE Reserve(l) \/ MarkCreating(l)
  BY <1>1, <1>2, <1>7, ControllerTypes, AttemptTypes, AttemptWriteType
     DEF TypeOK, Reserve, MarkCreating, provider, reaper
<1>8. CASE PostIntent(l) \/ CancelIntent(l) \/ CancelClose(l)
  BY <1>1, <1>2, <1>8, ControllerTypes, RecordTypes, WriteTypes
     DEF TypeOK, PostIntent, CancelIntent, CancelClose, provider, reaper
<1>9. CASE CancelLedger(l)
  <2>1. attempt' \in [Lease -> Att!Attempts]
    BY <1>1, <1>3, <1>9, AttemptTypes, AttemptWriteType
       DEF CancelLedger, LedgerCancels, TypeOK
  <2>2. QED
    BY <1>2, <1>9, <2>1, ControllerTypes
       DEF TypeOK, CancelLedger, provider, reaper
<1>10. QED
  BY <1>4, <1>5, <1>6, <1>7, <1>8, <1>9 DEF BeforePost

LEMMA PostType ==
  ASSUME TypeOK, NEW l \in Lease, Post(l)
  PROVE  TypeOK'
<1>1. lease[l] \in Rec!Leases /\ attempt[l] \in Att!Attempts
      /\ ctl[l] \in Controllers /\ ctl[l].pod \in SUBSET Pod
  BY DEF TypeOK, Controllers
<1>2. {"sent", "lost", "refused", "bound", "unrecorded", "exit", "end"}
        \subseteq Steps
  BY DEF Steps
<1>3. CASE Submit(l)
  <2>1. PICK made \in SUBSET {p \in Pod : pod[p] = "none"},
             hid \in SUBSET Pod :
          /\ pod' = [p \in Pod |-> IF p \in hid THEN "hidden"
                                   ELSE IF p \in made THEN "up" ELSE pod[p]]
          /\ owner' = [p \in Pod |-> IF p \in made THEN l ELSE owner[p]]
          /\ \/ \E p \in made : Take(l, "sent", {p})
             \/ Goto(l, "lost")
    BY <1>3 DEF Submit
  <2>2. pod' \in [Pod -> PodStates]
    BY <2>1 DEF TypeOK, PodStates
  <2>3. owner' \in [Pod -> Lease \cup {NoLease, Stranger}]
    BY <2>1 DEF TypeOK
  <2>4. ctl' \in [Lease -> Controllers]
    <3>1. \A p \in made : {p} \in SUBSET Pod
      OBVIOUS
    <3>2. QED
      BY <1>2, <2>1, <3>1, ControllerTypes
  <2>5. QED
    BY <1>3, <2>2, <2>3, <2>4 DEF Submit, TypeOK, store, reaper
<1>4. CASE SubmitNothing(l) \/ SubmitConflict(l) \/ RecordFails(l)
  BY <1>2, <1>4, ControllerTypes
     DEF TypeOK, SubmitNothing, SubmitConflict, RecordFails, store, provider,
         reaper
<1>5. CASE RecordCreated(l)
  <2>1. PICK p \in Pod : CommitC(l, Rec!CreateSuccess(lease[l], p))
    BY <1>1, <1>5 DEF RecordCreated
  <2>2. QED
    BY <1>1, <1>2, <1>5, <2>1, ControllerTypes, RecordTypes, WriteTypes
       DEF TypeOK, RecordCreated, provider, reaper
<1>6. CASE BindReturnedId(l)
  <2>1. attempt' \in [Lease -> Att!Attempts]
    BY <1>1, <1>6, AttemptTypes, AttemptWriteType DEF BindReturnedId, TypeOK
  <2>2. ctl' \in [Lease -> Controllers]
    <3>1. \A ref \in BOOLEAN :
            [ctl[l] EXCEPT !.at = "exit", !.ref = ref] \in Controllers
      BY <1>1, <1>2 DEF Controllers
    <3>2. PICK ref \in BOOLEAN :
            ctl' = [ctl EXCEPT ![l] = [ctl[l] EXCEPT !.at = "exit",
                                                     !.ref = ref]]
      <4>1. ctl[l].ref \in BOOLEAN
        BY <1>1 DEF Controllers
      <4>2. (ctl[l].ref \/ (lease[l].ids # {} /\ lease[l].ids = ctl[l].pod))
              \in BOOLEAN
        OBVIOUS
      <4>3. QED
        BY <1>6, <4>1, <4>2 DEF BindReturnedId
    <3>3. QED
      BY <3>1, <3>2 DEF TypeOK
  <2>3. QED
    BY <1>6, <2>1, <2>2 DEF TypeOK, BindReturnedId, provider, reaper
<1>7. QED
  BY <1>3, <1>4, <1>5, <1>6 DEF Post

LEMMA AfterLossType ==
  ASSUME TypeOK, NEW l \in Lease, AfterLoss(l)
  PROVE  TypeOK'
<1>1. lease[l] \in Rec!Leases /\ attempt[l] \in Att!Attempts
      /\ lease[l].ids \in SUBSET Pod /\ ctl[l].look \in SUBSET Pod
  BY DEF TypeOK, Controllers, Rec!Leases
<1>2. {"lostLook", "refusedLook", "reconciled", "release", "ambDestroy",
       "exit", "end"} \subseteq Steps
  BY DEF Steps
<1>3. CASE LookAfterLoss(l) \/ InventoryUnavailable(l)
  BY <1>2, <1>3, ControllerTypes
     DEF TypeOK, LookAfterLoss, InventoryUnavailable, store, provider, reaper
<1>4. CASE ReconcileLost(l)
  <2> DEFINE outcome == Rec!LostOutcome(lease[l], ctl[l].look, Own(l), {},
                          Siblings(l), ctl[l].at = "refusedLook", FALSE, FALSE)
             new == Rec!LostReconciled(lease[l], ctl[l].look, Own(l), {},
                          Siblings(l), FALSE, outcome)
  <2>1. outcome \in {"one", "ambiguous", "rejected", "expired", "zero"}
    BY LostOutcomes
  <2>2. new \in Rec!Leases
    BY <1>1, <2>1, LostReconciledType
  <2>3. \/ CommitC(l, new) /\ Goto(l, "reconciled")
        \/ Goto(l, "end") /\ UNCHANGED <<lease, rref>>
    BY <1>4 DEF ReconcileLost
  <2>4. QED
    BY <1>2, <1>4, <2>2, <2>3, ControllerTypes, WriteTypes
       DEF TypeOK, ReconcileLost, provider, reaper
<1>5. CASE BindLossIds(l)
  <2>1. attempt' \in [Lease -> Att!Attempts]
    BY <1>1, <1>5, AttemptTypes, AttemptWriteType DEF BindLossIds, TypeOK
  <2>2. ctl' \in [Lease -> Controllers]
    BY <1>1, <1>2, <1>5, ControllerTypes DEF BindLossIds
  <2>3. QED
    BY <1>5, <2>1, <2>2 DEF TypeOK, BindLossIds, provider, reaper
<1>6. CASE ReleaseRejected(l)
  <2>1. "PROVIDER_REJECTED_CREATE" \in Att!NoResourceAfterPost
    BY DEF Att!NoResourceAfterPost
  <2>2. attempt' \in [Lease -> Att!Attempts]
    BY <1>1, <1>6, <2>1, AttemptTypes, AttemptWriteType
       DEF ReleaseRejected, TypeOK
  <2>3. QED
    BY <1>2, <1>6, <2>2, ControllerTypes
       DEF TypeOK, ReleaseRejected, provider, reaper
<1>7. QED
  BY <1>3, <1>4, <1>5, <1>6 DEF AfterLoss

LEMMA QualifyType ==
  ASSUME TypeOK, NEW l \in Lease, Qualify(l)
  PROVE  TypeOK'
<1>1. lease[l] \in Rec!Leases /\ attempt[l] \in Att!Attempts
      /\ lease[l].ids \in SUBSET Pod /\ ctl[l].look \in SUBSET Pod
      /\ ctl[l].pod \in SUBSET Pod
  BY DEF TypeOK, Controllers, Rec!Leases
<1>2. {"postLook", "exit", "qualified", "unconverged", "delta", "ambDestroy",
       "attested", "working"} \subseteq Steps
  BY DEF Steps
<1>3. CASE ObserveCreated(l) \/ RunFails(l) \/ WorkEnds(l)
  BY <1>2, <1>3, ControllerTypes
     DEF TypeOK, ObserveCreated, RunFails, WorkEnds, store, provider, reaper
<1>4. CASE BindInventory(l)
  <2> DEFINE new == Rec!PostCreateBound(lease[l], ctl[l].look, Own(l),
                                        Siblings(l))
  <2>1. new \in Rec!Leases
    BY <1>1, PostCreateType
  <2>2. \/ CommitC(l, new) /\ Goto(l, "delta")
        \/ /\ Goto(l, "exit") \/ Goto(l, "qualified") \/ Goto(l, "unconverged")
           /\ UNCHANGED <<lease, rref>>
    BY <1>4 DEF BindInventory
  <2>3. QED
    BY <1>2, <1>4, <2>1, <2>2, ControllerTypes, WriteTypes
       DEF TypeOK, BindInventory, provider, reaper
<1>5. CASE BindDelta(l)
  <2>1. attempt' \in [Lease -> Att!Attempts]
    BY <1>1, <1>5, AttemptTypes, AttemptWriteType DEF BindDelta, TypeOK
  <2>2. ctl' \in [Lease -> Controllers]
    BY <1>2, <1>5, ControllerTypes DEF BindDelta
  <2>3. QED
    BY <1>5, <2>1, <2>2 DEF TypeOK, BindDelta, provider, reaper
<1>6. CASE Attest(l)
  BY <1>1, <1>2, <1>6, ControllerTypes, WriteTypes
     DEF TypeOK, Attest, provider, reaper
<1>7. CASE BindQuote(l)
  <2>1. attempt' \in [Lease -> Att!Attempts]
    BY <1>1, <1>7, AttemptTypes, AttemptWriteType DEF BindQuote, TypeOK
  <2>2. ctl' \in [Lease -> Controllers]
    BY <1>2, <1>7, ControllerTypes DEF BindQuote
  <2>3. QED
    BY <1>7, <2>1, <2>2 DEF TypeOK, BindQuote, provider, reaper
<1>8. QED
  BY <1>3, <1>4, <1>5, <1>6, <1>7 DEF Qualify

LEMMA DeletesType ==
  ASSUME TypeOK, NEW removed, Deletes(removed)
  PROVE  pod' \in [Pod -> PodStates]
  BY DEF TypeOK, Deletes, PodStates

LEMMA TearDownType ==
  ASSUME TypeOK, NEW l \in Lease, TearDown(l)
  PROVE  TypeOK'
<1>1. lease[l] \in Rec!Leases /\ attempt[l] \in Att!Attempts
      /\ lease[l].ids \in SUBSET Pod
  BY DEF TypeOK, Controllers, Rec!Leases
<1>2. {"destroy", "bindCleanup", "request", "delete", "confirm", "confirmLook",
       "billing", "finalize", "close", "ambDelete", "ambConfirm", "ambLook",
       "end"} \subseteq Steps
  BY DEF Steps
<1>3. CASE LookForAbsence(l) \/ GiveUp(l)
  BY <1>2, <1>3, ControllerTypes
     DEF TypeOK, LookForAbsence, GiveUp, store, provider, reaper
<1>4. CASE ExitWorkload(l)
  BY <1>1, <1>2, <1>4, ControllerTypes, WriteTypes
     DEF TypeOK, ExitWorkload, provider, reaper
<1>5. CASE RecordDestroyIntent(l) \/ SettleBilling(l) \/ CloseLease(l)
  BY <1>1, <1>2, <1>5, ControllerTypes, RecordTypes, WriteTypes
     DEF TypeOK, RecordDestroyIntent, SettleBilling, CloseLease, provider,
         reaper
<1>6. CASE BindCleanup(l) \/ RequestTermination(l) \/ FinalizeCampaign(l)
  <2>1. attempt' \in [Lease -> Att!Attempts]
    BY <1>1, <1>6, AttemptTypes, AttemptWriteType
       DEF BindCleanup, RequestTermination, FinalizeCampaign, TypeOK
  <2>2. ctl' \in [Lease -> Controllers]
    BY <1>2, <1>6, ControllerTypes
       DEF BindCleanup, RequestTermination, FinalizeCampaign
  <2>3. QED
    BY <1>6, <2>1, <2>2
       DEF TypeOK, BindCleanup, RequestTermination, FinalizeCampaign, provider,
           reaper
<1>7. CASE Delete(l) \/ AmbiguousDelete(l)
  BY <1>2, <1>7, ControllerTypes, DeletesType
     DEF TypeOK, Delete, AmbiguousDelete, store, reaper
<1>8. CASE ConfirmAbsence(l) \/ AmbiguousConfirm(l)
  BY <1>1, <1>2, <1>8, ControllerTypes, AbsenceCheckedType, WriteTypes
     DEF TypeOK, ConfirmAbsence, AmbiguousConfirm, provider, reaper
<1>9. CASE AmbiguousDestroy(l)
  BY <1>1, <1>2, <1>9, ControllerTypes, RecordTypes, WriteTypes
     DEF TypeOK, AmbiguousDestroy, provider, reaper
<1>10. QED
  BY <1>3, <1>4, <1>5, <1>6, <1>7, <1>8, <1>9 DEF TearDown

-----------------------------------------------------------------------------
(* So does every step of the reaper, of the provider and of the clock. *)

LEMMA CancelOrphansType ==
  ASSUME TypeOK, NEW l \in Lease, CancelOrphans(l)
  PROVE  TypeOK'
<1>1. lease[l] \in Rec!Leases /\ attempt[l] \in Att!Attempts
  BY DEF TypeOK
<1>2. {"orphanLedger", "orphanClose", "list"} \subseteq SweepSteps
  BY DEF SweepSteps
<1>3. "PREPARED" \in Att!NoResourceAfterPost
  BY DEF Att!NoResourceAfterPost
<1>4. CASE DeferPrepared(l)
  <2>1. sweep' \in Sweeps
    BY <1>4 DEF DeferPrepared, TypeOK, Sweeps
  <2>2. QED
    BY <1>4, <2>1, SweepTypes DEF TypeOK, DeferPrepared, Sweeps, store, provider
<1>5. CASE OrphanIntent(l)
  BY <1>1, <1>2, <1>5, SweepTypes, RecordTypes, WriteTypes
     DEF TypeOK, OrphanIntent, OrphanEnds, Sweeps, provider, memory
<1>6. CASE OrphanLedger(l)
  <2>1. attempt' \in [Lease -> Att!Attempts]
    BY <1>1, <1>3, <1>6, AttemptTypes, AttemptWriteType
       DEF OrphanLedger, LedgerCancels, TypeOK
  <2>2. QED
    BY <1>2, <1>6, <2>1, SweepTypes
       DEF TypeOK, OrphanLedger, OrphanEnds, Sweeps, provider, memory
<1>7. CASE OrphanClose(l)
  BY <1>1, <1>7, SweepTypes, RecordTypes, WriteTypes
     DEF TypeOK, OrphanClose, OrphanEnds, Sweeps, provider
<1>8. QED
  BY <1>4, <1>5, <1>6, <1>7 DEF CancelOrphans

LEMMA SweepType ==
  ASSUME TypeOK,
         SweepBegin \/ SweepList \/ SweepOutage \/ SweepEnd \/ ReaperDies
  PROVE  TypeOK'
<1>1. CASE SweepBegin
  <2>1. sweep' \in Sweeps
    BY <1>1 DEF SweepBegin, Sweeps, SweepSteps
  <2>2. /\ docs' \in [Lease -> Rec!Leases]
        /\ asof' \in [Lease -> Clocks]
        /\ rref' \in [Lease -> BOOLEAN]
    BY <1>1, UnbornTypes DEF SweepBegin, TypeOK, StartClock, Clocks
  <2>3. QED
    BY <1>1, <2>1, <2>2 DEF SweepBegin, TypeOK, Sweeps, store, provider
<1>2. CASE SweepList
  <2>1. sweep' \in Sweeps
    BY <1>2 DEF SweepList, TypeOK, Go, Step, Sweeps, SweepSteps
  <2>2. seen' \in [ids : SUBSET Pod, exited : SUBSET Pod, fresh : SUBSET Pod]
    BY <1>2 DEF SweepList, Listed
  <2>3. QED
    BY <1>2, <2>1, <2>2
       DEF SweepList, TypeOK, Go, Sweeps, memory, store, provider
<1>3. CASE SweepOutage
  <2>1. sweep' \in Sweeps
    BY <1>3 DEF SweepOutage, TypeOK, Sweeps, SweepSteps
  <2>2. QED
    BY <1>3, <2>1 DEF SweepOutage, TypeOK, Sweeps, memory, store, provider
<1>4. CASE SweepEnd \/ ReaperDies
  <2>1. ForgetSweep
    BY <1>4 DEF SweepEnd, ReaperDies
  <2>2. /\ sweep' \in Sweeps
        /\ docs' \in [Lease -> Rec!Leases]
        /\ seen' \in [ids : SUBSET Pod, exited : SUBSET Pod, fresh : SUBSET Pod]
        /\ asof' \in [Lease -> Clocks]
        /\ rref' \in [Lease -> BOOLEAN]
    <3>1. StartClock \in Clocks
      BY DEF StartClock, Clocks
    <3>2. QED
      BY <2>1, <3>1, UnbornTypes
         DEF ForgetSweep, Sweeps, SweepSteps, Idle, NoDocs, Unseen, NoDeadline
  <2>3. healthy' \in BOOLEAN /\ crashes' \in 0..MaxReaperCrashes
    BY <1>4, ConstantsAssumption DEF SweepEnd, ReaperDies, TypeOK
  <2>4. QED
    BY <1>4, <2>2, <2>3
       DEF SweepEnd, ReaperDies, TypeOK, Sweeps, store, provider
<1>5. QED
  BY <1>1, <1>2, <1>3, <1>4

LEMMA ReapWriteTypes ==
  ASSUME TypeOK, NEW l \in Lease, NEW new \in Rec!Leases,
         NEW next \in SweepSteps
  PROVE  /\ ReapWrite(l, new, next) /\ clock' \in [Lease -> Clocks] => TypeOK'
         /\ ReapAbsence(l, new, next) => TypeOK'
         /\ ReapWriteLast(l, new) => TypeOK'
<1>1. ReapWrite(l, new, next) /\ clock' \in [Lease -> Clocks] => TypeOK'
  BY SweepTypes, WriteTypes DEF ReapWrite, TypeOK, Sweeps, provider
<1>2. ReapAbsence(l, new, next) => TypeOK'
  BY <1>1, ControllerTypes DEF ReapAbsence, TypeOK
<1>3. ReapWriteLast(l, new) => TypeOK'
  BY SweepTypes, WriteTypes DEF ReapWriteLast, TypeOK, Sweeps, provider
<1>4. QED
  BY <1>1, <1>2, <1>3

LEMMA ByReaperType ==
  ASSUME TypeOK, NEW l \in Lease
  PROVE  ByReaper(l) \in Rec!Leases
<1>1. docs[l] \in Rec!Leases /\ seen.ids \in SUBSET Pod
      /\ (asof[l].win # "open") \in BOOLEAN
  BY DEF TypeOK
<1>2. AnsweredOnlyInLedger(l) \in SUBSET Pod
  BY DEF TypeOK, AnsweredOnlyInLedger, Att!Attempts
<1>3. LostByReaper(l) \in {"one", "ambiguous", "rejected", "expired", "zero"}
  BY LostOutcomes DEF LostByReaper
<1>4. QED
  BY <1>1, <1>2, <1>3, LostReconciledType DEF ByReaper

LEMMA VisitType ==
  ASSUME TypeOK, NEW l \in Lease, Visit(l)
  PROVE  TypeOK'
<1>1. docs[l] \in Rec!Leases /\ attempt[l] \in Att!Attempts
      /\ docs[l].ids \in SUBSET Pod
  BY DEF TypeOK, Rec!Leases
<1>2. {"visit", "expire", "expireClose", "relist", "confirm", "settle",
       "finalize", "close"} \subseteq SweepSteps
  BY DEF SweepSteps
<1>3. CASE Pick(l)
  <2>1. sweep' \in Sweeps
    BY <1>2, <1>3 DEF Pick, TypeOK, Sweeps
  <2>2. QED
    BY <1>3, <2>1 DEF Pick, TypeOK, Sweeps, memory, store, provider
<1>4. CASE VisitMoved(l) \/ VisitHeld(l) \/ VisitUnconfirmable(l)
           \/ VisitLive(l) \/ BillingPending(l) \/ VisitExpired(l)
  BY <1>2, <1>4, SweepTypes
     DEF VisitMoved, VisitHeld, VisitUnconfirmable, VisitLive, BillingPending,
         VisitExpired, Go, memory, ReadOnly, TypeOK, Sweeps, store, provider
<1>5. CASE VisitRevoke(l) \/ VisitAmbiguous(l) \/ VisitDestroy(l)
           \/ ReapStage(l)
  BY <1>1, <1>2, <1>5, RecordTypes, ReapWriteTypes
     DEF VisitRevoke, VisitAmbiguous, VisitDestroy, ReapStage, TypeOK
<1>6. CASE VisitCreating(l)
  BY <1>2, <1>6, ByReaperType, ReapWriteTypes, SweepTypes
     DEF VisitCreating, ReadOnly, TypeOK, Sweeps, store, provider
<1>7. CASE VisitWaiting(l) \/ CloseExpired(l) \/ ReapClose(l)
  BY <1>1, <1>2, <1>7, ByReaperType, RecordTypes, ReapWriteTypes
     DEF VisitWaiting, CloseExpired, ReapClose
<1>8. CASE VisitNotListed(l)
  BY <1>1, <1>2, <1>8, AbsenceCheckedType, ReapWriteTypes DEF VisitNotListed
<1>9. CASE ReleaseExpired(l) \/ ReapFinalize(l)
  <2>1. "LOST_CREATE_EXPIRED" \in Att!NoResourceAfterPost
    BY DEF Att!NoResourceAfterPost
  <2>2. attempt' \in [Lease -> Att!Attempts]
    BY <1>1, <1>9, <2>1, AttemptTypes, AttemptWriteType
       DEF ReleaseExpired, ReapFinalize, TypeOK
  <2>3. QED
    BY <1>2, <1>9, <2>2, SweepTypes
       DEF ReleaseExpired, ReapFinalize, Go, memory, TypeOK, Sweeps, provider
<1>10. CASE ReapDelete(l)
  BY <1>2, <1>10, DeletesType, SweepTypes
     DEF ReapDelete, Go, memory, TypeOK, Sweeps, store
<1>11. CASE ReapRelist(l)
  <2>1. seen' \in [ids : SUBSET Pod, exited : SUBSET Pod, fresh : SUBSET Pod]
    BY <1>11 DEF ReapRelist, TypeOK, Listed
  <2>2. QED
    BY <1>2, <1>11, <2>1, SweepTypes
       DEF ReapRelist, Go, memory, TypeOK, Sweeps, store, provider
<1>12. CASE ReapConfirm(l)
  <2>1. seen' \in [ids : SUBSET Pod, exited : SUBSET Pod, fresh : SUBSET Pod]
    BY <1>12 DEF ReapConfirm, TypeOK
  <2>2. Rec!AbsenceChecked(docs[l], seen.fresh) \in Rec!Leases
    BY <1>1, AbsenceCheckedType
  <2>3. QED
    BY <1>2, <1>12, <2>1, <2>2, ControllerTypes, SweepTypes, WriteTypes
       DEF ReapConfirm, TypeOK, Sweeps, provider
<1>13. QED
  BY <1>3, <1>4, <1>5, <1>6, <1>7, <1>8, <1>9, <1>10, <1>11, <1>12 DEF Visit

LEMMA EnvironmentType ==
  ASSUME TypeOK, Environment
  PROVE  TypeOK'
<1>1. ASSUME NEW p \in Pod,
             Appears(p) \/ Exits(p) \/ Vanishes(p) \/ StrangerArrives(p)
      PROVE  TypeOK'
  <2>1. pod' \in [Pod -> PodStates]
    BY <1>1 DEF Appears, Exits, Vanishes, StrangerArrives, Provider, TypeOK,
                PodStates
  <2>2. owner' \in [Pod -> Lease \cup {NoLease, Stranger}]
    BY <1>1 DEF Appears, Exits, Vanishes, StrangerArrives, TypeOK
  <2>3. QED
    BY <1>1, <2>1, <2>2
       DEF Appears, Exits, Vanishes, StrangerArrives, Provider, TypeOK, store,
           reaper
<1>2. ASSUME NEW l \in Lease,
             WindowCloses(l) \/ WindowExpires(l) \/ ReapDeadlinePasses(l)
             \/ AbsenceAges(l)
      PROVE  TypeOK'
  <2>1. clock' \in [Lease -> Clocks]
    <3>1. clock[l] \in Clocks
      BY DEF TypeOK
    <3>2. /\ [clock[l] EXCEPT !["win"] = "closed"] \in Clocks
          /\ [clock[l] EXCEPT !["win"] = "expired"] \in Clocks
          /\ [clock[l] EXCEPT !["due"] = TRUE] \in Clocks
          /\ [clock[l] EXCEPT !["aged"] = TRUE] \in Clocks
      BY <3>1 DEF Clocks
    <3>3. QED
      BY <1>2, <3>2 DEF WindowCloses, WindowExpires, ReapDeadlinePasses,
                        AbsenceAges, Tick, TypeOK
  <2>2. QED
    BY <1>2, <2>1
       DEF WindowCloses, WindowExpires, ReapDeadlinePasses, AbsenceAges, Tick,
           TypeOK, store, provider, reaper
<1>3. QED
  BY <1>1, <1>2 DEF Environment

LEMMA InitType == Init => TypeOK
<1>1. StartClock \in Clocks
  BY DEF StartClock, Clocks
<1>2. SUFFICES ASSUME Init PROVE TypeOK
  OBVIOUS
<1>3. ctl \in [Lease -> Controllers]
  BY <1>2 DEF Init, Controllers, Steps
<1>4. sweep \in Sweeps
  BY <1>2 DEF Init, Idle, Sweeps, SweepSteps
<1>5. crashes \in 0..MaxReaperCrashes
  BY <1>2, ConstantsAssumption DEF Init
<1>6. QED
  BY <1>1, <1>2, <1>3, <1>4, <1>5, UnbornTypes, AttemptTypes
     DEF Init, TypeOK, Sweeps, NoDocs, NoDeadline, Unseen, PodStates,
         Att!Unreserved, Att!Attempts, Att!Phases

LEMMA NextType == TypeOK /\ [Next]_vars => TypeOK'
<1>1. SUFFICES ASSUME TypeOK, [Next]_vars PROVE TypeOK'
  OBVIOUS
<1>2. ASSUME NEW l \in Lease, Controller(l)
      PROVE  TypeOK'
  BY <1>1, <1>2, BeforePostType, PostType, AfterLossType, QualifyType,
     TearDownType DEF Controller
<1>3. ASSUME NEW l \in Lease, ControllerDies(l)
      PROVE  TypeOK'
  <2>1. "end" \in Steps
    BY DEF Steps
  <2>2. QED
    BY <1>1, <1>3, <2>1, ControllerTypes
       DEF TypeOK, ControllerDies, store, provider, reaper
<1>4. ASSUME NEW l \in Lease, CancelOrphans(l) \/ Visit(l)
      PROVE  TypeOK'
  BY <1>1, <1>4, CancelOrphansType, VisitType
<1>5. CASE SweepBegin \/ SweepList \/ SweepOutage \/ SweepEnd \/ ReaperDies
  BY <1>1, <1>5, SweepType
<1>6. CASE Environment
  BY <1>1, <1>6, EnvironmentType
<1>7. CASE UNCHANGED vars
  BY <1>1, <1>7 DEF vars, TypeOK
<1>8. QED
  BY <1>1, <1>2, <1>3, <1>4, <1>5, <1>6, <1>7 DEF Next

(* TypeOK: every variable keeps its type in every behaviour, so no step of  *)
(* the two processes writes a record or a phase the files' schemas lack.    *)
THEOREM TypeCorrect == Spec => []TypeOK
  BY InitType, NextType, PTL DEF Spec

-----------------------------------------------------------------------------
(* The records on disk stay valid.  The inductive invariant Consistent says *)
(* how the record, the reaper's copy of it and the two references relate.   *)

(* A record not yet written is blank, and every other one is valid. *)
Recorded ==
  \A l \in Lease : /\ Rec!Valid(lease[l])
                   /\ lease[l].st = "NONE" => lease[l] = Rec!Unborn

(* A controller that has not begun has written nothing. *)
NotBegun ==
  \A l \in Lease : ctl[l].at \in {"idle", "observed"} => lease[l].st = "NONE"

(* A current reference of the controller is to a record; if that record is  *)
(* AMBIGUOUS without candidates, the controller has just written it.        *)
ControllerRefs ==
  \A l \in Lease : ctl[l].ref =>
    /\ lease[l].st # "NONE"
    /\ lease[l].st = "AMBIGUOUS" /\ lease[l].ids = {}
         => ctl[l].at = "reconciled"

(* While the reaper's reference is current its copy is the record. *)
ReaperRefs ==
  \A l \in Lease : rref[l] => /\ docs[l] = lease[l]
                              /\ lease[l].st \in Rec!Unresolved

(* A lease being settled is ABSENCE_CONFIRMED in the reaper's copy. *)
SettlesAbsent ==
  \A l \in Lease : sweep.step = "settle" /\ sweep.cur = l
                     => docs[l].st = "ABSENCE_CONFIRMED"

Consistent ==
  Recorded /\ NotBegun /\ ControllerRefs /\ ReaperRefs /\ SettlesAbsent

-----------------------------------------------------------------------------
(* What the operations of LeaseRecord write is valid. *)

LEMMA ValidWrites ==
  ASSUME NEW r \in Rec!Leases, Rec!Valid(r), r.st # "NONE"
  PROVE  /\ r.st = "PREPARED" => Rec!Valid(Rec!PostIntent(r))
         /\ Rec!Valid(Rec!CancelIntent(r))
         /\ Rec!Valid(Rec!CancelPrepared(r))
         /\ \A p \in Pod : Rec!MayWrite(r, Rec!CreateSuccess(r, p))
                             => Rec!Valid(Rec!CreateSuccess(r, p))
         /\ Rec!MayWrite(r, Rec!RequestDestroy(r)) /\ r.ids # {}
              /\ r.st # "ABSENCE_CONFIRMED" => Rec!Valid(Rec!RequestDestroy(r))
         /\ r.st = "ABSENCE_CONFIRMED" => /\ Rec!Valid(Rec!StageBilling(r))
                                          /\ Rec!Valid(Rec!AbsenceRevoked(r))
         /\ Rec!Valid(Rec!BillingRecorded(r))
         /\ Rec!Valid([r EXCEPT !.st = "TERMINAL", !.proof = "expired"])
<1> USE DEF Rec!Leases, Rec!States, Rec!Unresolved, Rec!Proofs, Rec!Valid
<1>1. /\ r.st = "PREPARED" => Rec!Valid(Rec!PostIntent(r))
      /\ Rec!Valid(Rec!CancelIntent(r))
      /\ Rec!Valid(Rec!CancelPrepared(r))
  BY DEF Rec!PostIntent, Rec!CancelIntent, Rec!CancelPrepared
<1>2. ASSUME NEW p \in Pod, Rec!MayWrite(r, Rec!CreateSuccess(r, p))
      PROVE  Rec!Valid(Rec!CreateSuccess(r, p))
  BY <1>2 DEF Rec!MayWrite, Rec!Allowed, Rec!CreateSuccess
<1>3. Rec!MayWrite(r, Rec!RequestDestroy(r)) /\ r.ids # {}
        /\ r.st # "ABSENCE_CONFIRMED" => Rec!Valid(Rec!RequestDestroy(r))
  BY DEF Rec!MayWrite, Rec!Allowed, Rec!RequestDestroy
<1>4. r.st = "ABSENCE_CONFIRMED" => /\ Rec!Valid(Rec!StageBilling(r))
                                    /\ Rec!Valid(Rec!AbsenceRevoked(r))
  BY DEF Rec!StageBilling, Rec!AbsenceRevoked
<1>5. /\ Rec!Valid(Rec!BillingRecorded(r))
      /\ Rec!Valid([r EXCEPT !.st = "TERMINAL", !.proof = "expired"])
  BY DEF Rec!BillingRecorded
<1>6. QED
  BY <1>1, <1>2, <1>3, <1>4, <1>5

LEMMA ValidAbsence ==
  ASSUME NEW r \in Rec!Leases, Rec!Valid(r), r.st # "NONE",
         NEW listing, Rec!MayConfirm(r),
         Rec!MayWrite(r, Rec!AbsenceChecked(r, listing))
  PROVE  Rec!Valid(Rec!AbsenceChecked(r, listing))
  BY DEF Rec!Leases, Rec!States, Rec!Unresolved, Rec!Proofs, Rec!Valid,
         Rec!MayConfirm, Rec!MayWrite, Rec!Allowed, Rec!AbsenceChecked

LEMMA ValidAmbiguous ==
  ASSUME NEW r \in Rec!Leases, Rec!Valid(r),
         r.st \in {"CREATING", "ACTIVE"},
         NEW candidates \in SUBSET Pod, NEW blockers,
         candidates # {} \/ blockers # {}
  PROVE  /\ Rec!Valid(Rec!Ambiguous(r, candidates, blockers))
         /\ Rec!Ambiguous(r, candidates, blockers).st = "AMBIGUOUS"
         /\ Rec!Ambiguous(r, candidates, blockers).ids = candidates
  BY DEF Rec!Leases, Rec!States, Rec!Unresolved, Rec!Proofs, Rec!Valid,
         Rec!Ambiguous

LEMMA ValidPostCreate ==
  ASSUME NEW r \in Rec!Leases, Rec!Valid(r), r.st = "ACTIVE",
         NEW listing \in SUBSET Pod, NEW own, NEW known
  PROVE  /\ Rec!Valid(Rec!PostCreateBound(r, listing, own, known))
         /\ Rec!PostCreateBound(r, listing, own, known).st
              \in {"ACTIVE", "AMBIGUOUS"}
         /\ Rec!PostCreateBound(r, listing, own, known).ids # {}
         /\ Rec!PostCreateBound(r, listing, own, known).ids
              \subseteq r.ids \cup own
<1> DEFINE new == Rec!PostCreateBound(r, listing, own, known)
<1>1. CASE Rec!PostCreateClean(r, listing, own, known)
  BY <1>1 DEF Rec!PostCreateBound, Rec!Valid
<1>2. CASE ~Rec!PostCreateClean(r, listing, own, known)
  <2> DEFINE ids == ((listing \ r.pre) \cap own) \cup r.ids
             blockers == Rec!Blockers(r, listing, own, known) \ r.ids
  <2>1. ids \in SUBSET Pod /\ ids # {}
    BY DEF Rec!Valid, Rec!Leases
  <2>2. new = Rec!Ambiguous(r, ids, blockers)
    BY <1>2 DEF Rec!PostCreateBound
  <2>3. Rec!Valid(new) /\ new.st = "AMBIGUOUS" /\ new.ids = ids
    <3>1. r.st \in {"CREATING", "ACTIVE"}
      OBVIOUS
    <3> HIDE DEF ids, blockers, new
    <3>2. /\ Rec!Valid(Rec!Ambiguous(r, ids, blockers))
          /\ Rec!Ambiguous(r, ids, blockers).st = "AMBIGUOUS"
          /\ Rec!Ambiguous(r, ids, blockers).ids = ids
      BY <2>1, <3>1, ValidAmbiguous, Zenon
    <3>3. QED
      BY <2>2, <3>2
  <2>4. ids \subseteq r.ids \cup own
    OBVIOUS
  <2> HIDE DEF ids, new
  <2>5. QED
    BY <2>1, <2>3, <2>4 DEF new
<1>3. QED
  BY <1>1, <1>2

(* What the decision of reconcile_response_lost rests on. *)
LEMMA OutcomeMeans ==
  ASSUME NEW r, NEW listing, NEW own, NEW answered, NEW known, NEW rejected,
         NEW closed, NEW aged
  PROVE  /\ Rec!LostOutcome(r, listing, own, answered, known, rejected, closed,
                            aged) = "one"
              => \E p \in Pod : Rec!LostCandidates(r, listing, own, answered)
                                 = {p}
         /\ Rec!LostOutcome(r, listing, own, answered, known, rejected, closed,
                            aged) = "ambiguous"
              => \/ Rec!LostCandidates(r, listing, own, answered) # {}
                 \/ Rec!Blockers(r, listing, own, known) \ answered # {}
<1> DEFINE outcome == Rec!LostOutcome(r, listing, own, answered, known,
                                      rejected, closed, aged)
           candidates == Rec!LostCandidates(r, listing, own, answered)
           exact == (listing \ r.pre) \cap own
           blockers == Rec!Blockers(r, listing, own, known) \ answered
<1>1. outcome =
        IF exact = candidates /\ blockers = {}
           /\ \E p \in Pod : candidates = {p}    THEN "one"
        ELSE IF candidates # {} \/ blockers # {} THEN "ambiguous"
        ELSE IF rejected                        THEN "rejected"
        ELSE IF closed /\ r.closedOnce /\ aged  THEN "expired"
        ELSE "zero"
  BY DEF Rec!LostOutcome
<1> HIDE DEF outcome, candidates, exact, blockers
<1>2. /\ outcome = "one" => \E p \in Pod : candidates = {p}
      /\ outcome = "ambiguous" => candidates # {} \/ blockers # {}
  BY <1>1
<1>3. QED
  BY <1>2 DEF outcome, candidates, blockers

(* What a record that reconcile_response_lost writes is like. *)
Reconciled(new, outcome, ids) ==
  /\ new \in Rec!Leases /\ Rec!Valid(new) /\ new.st # "NONE"
  /\ outcome \notin {"rejected", "expired"} => new.st \in Rec!Unresolved
  /\ new.ids \subseteq ids
  /\ new.st \notin {"ABSENCE_CONFIRMED", "DESTROYING"}
  /\ ~new.staged /\ new.proof # "settled"

LEMMA ValidLost ==
  ASSUME NEW r \in Rec!Leases, Rec!Valid(r), r.st = "CREATING",
         NEW listing \in SUBSET Pod, NEW own, NEW answered \in SUBSET Pod,
         NEW known, NEW closed \in BOOLEAN,
         NEW outcome \in {"one", "ambiguous", "rejected", "expired", "zero"},
         outcome = "one" =>
           \E p \in Pod : Rec!LostCandidates(r, listing, own, answered) = {p},
         outcome = "ambiguous" =>
           \/ Rec!LostCandidates(r, listing, own, answered) # {}
           \/ Rec!Blockers(r, listing, own, known) \ answered # {}
  PROVE  Reconciled(Rec!LostReconciled(r, listing, own, answered, known, closed,
                                       outcome), outcome, own \cup answered)
<1> DEFINE new == Rec!LostReconciled(r, listing, own, answered, known, closed,
                                     outcome)
<1>e. new \in Rec!Leases
  BY LostReconciledType
<1> DEFINE candidates == Rec!LostCandidates(r, listing, own, answered)
           blockers == Rec!Blockers(r, listing, own, known) \ answered
<1>1. candidates \in SUBSET Pod /\ candidates \subseteq own \cup answered
  BY DEF Rec!LostCandidates, Rec!Leases
<1>2. r.ids = {} /\ r.proof = "none" /\ ~r.staged /\ ~r.blocked
  BY DEF Rec!Valid, Rec!Leases
<1> DEFINE Goal == Reconciled(new, outcome, own \cup answered)
<1>3. CASE outcome = "one"
  <2>1. new = [r EXCEPT !.st = "ACTIVE", !.ids = candidates]
    BY <1>3 DEF Rec!LostReconciled
  <2>2. \E p \in Pod : candidates = {p}
    BY <1>3
  <2> HIDE DEF new, candidates
  <2>3. Goal
    BY <1>1, <1>2, <1>e, <2>1, <2>2 DEF Reconciled, Rec!Valid, Rec!Leases, Rec!Unresolved
  <2>4. QED
    BY <2>3 DEF new
<1>4. CASE outcome = "ambiguous"
  <2>1. candidates # {} \/ blockers # {}
    BY <1>4
  <2>2. new = Rec!Ambiguous(r, candidates, blockers)
    BY <1>4 DEF Rec!LostReconciled
  <2>0. r.st \in {"CREATING", "ACTIVE"}
    OBVIOUS
  <2> HIDE DEF candidates, blockers, new
  <2>3. Rec!Valid(new) /\ new.st = "AMBIGUOUS" /\ new.ids = candidates
    <3>1. /\ Rec!Valid(Rec!Ambiguous(r, candidates, blockers))
          /\ Rec!Ambiguous(r, candidates, blockers).st = "AMBIGUOUS"
          /\ Rec!Ambiguous(r, candidates, blockers).ids = candidates
      BY <1>1, <2>0, <2>1, ValidAmbiguous, Zenon
    <3>2. QED
      BY <2>2, <3>1
  <2>4. new.staged = r.staged /\ new.proof = r.proof
    BY <2>2 DEF Rec!Ambiguous, Rec!Leases
  <2>5. Goal
    BY <1>1, <1>2, <1>e, <2>3, <2>4 DEF Reconciled, Rec!Unresolved
  <2>6. QED
    BY <2>5 DEF new
<1>5. CASE outcome \in {"rejected", "expired", "zero"}
  <2>1. /\ outcome = "zero" => new = [r EXCEPT !.closedOnce = @ \/ closed]
        /\ outcome = "rejected" => new = [r EXCEPT !.st = "TERMINAL",
                                                   !.proof = "rejected"]
        /\ outcome = "expired" => new = [r EXCEPT !.st = "TERMINAL",
                                                  !.proof = "expired"]
    BY DEF Rec!LostReconciled
  <2> HIDE DEF new
  <2>2. Goal
    BY <1>2, <1>5, <1>e, <2>1
       DEF Reconciled, Rec!Valid, Rec!Leases, Rec!Proofs, Rec!Unresolved
  <2>3. QED
    BY <2>2 DEF new
<1>6. QED
  BY <1>3, <1>4, <1>5

LEMMA ReconciledLost ==
  ASSUME NEW r, NEW listing, NEW own, NEW answered, NEW known, NEW rejected,
         NEW closed, NEW aged,
         r \in Rec!Leases, Rec!Valid(r), r.st = "CREATING",
         listing \in SUBSET Pod, answered \in SUBSET Pod, closed \in BOOLEAN
  PROVE  LET outcome == Rec!LostOutcome(r, listing, own, answered, known,
                                        rejected, closed, aged)
         IN  Reconciled(Rec!LostReconciled(r, listing, own, answered, known,
                                           closed, outcome),
                        outcome, own \cup answered)
<1>1. PICK outcome :
        outcome = Rec!LostOutcome(r, listing, own, answered, known, rejected,
                                  closed, aged)
  OBVIOUS
<1>2. /\ outcome \in {"one", "ambiguous", "rejected", "expired", "zero"}
      /\ outcome = "one" =>
           \E p \in Pod : Rec!LostCandidates(r, listing, own, answered) = {p}
      /\ outcome = "ambiguous" =>
           \/ Rec!LostCandidates(r, listing, own, answered) # {}
           \/ Rec!Blockers(r, listing, own, known) \ answered # {}
  BY <1>1, LostOutcomes, OutcomeMeans
<1>3. Reconciled(Rec!LostReconciled(r, listing, own, answered, known, closed,
                                    outcome), outcome, own \cup answered)
  BY <1>2, ValidLost
<1>4. QED
  BY <1>1, <1>3

(* The record the controller leaves after a lost or refused create. *)
ByController(l) ==
  Rec!LostReconciled(lease[l], ctl[l].look, Own(l), {}, Siblings(l), FALSE,
    Rec!LostOutcome(lease[l], ctl[l].look, Own(l), {}, Siblings(l),
                    ctl[l].at = "refusedLook", FALSE, FALSE))

LEMMA ValidByController ==
  ASSUME NEW l \in Lease, lease[l] \in Rec!Leases, Rec!Valid(lease[l]),
         lease[l].st = "CREATING", ctl[l].look \in SUBSET Pod
  PROVE  \E outcome : Reconciled(ByController(l), outcome, Own(l))
<1>1. PICK r, look, own, no, known, rejected, f :
        /\ r = lease[l] /\ look = ctl[l].look /\ own = Own(l) /\ no = {}
        /\ known = Siblings(l) /\ rejected = (ctl[l].at = "refusedLook")
        /\ f = FALSE
  OBVIOUS
<1>2. /\ r \in Rec!Leases /\ Rec!Valid(r) /\ r.st = "CREATING"
      /\ look \in SUBSET Pod /\ no \in SUBSET Pod /\ f \in BOOLEAN
  BY <1>1
<1> DEFINE outcome == Rec!LostOutcome(r, look, own, no, known, rejected, f, f)
<1>3. Reconciled(Rec!LostReconciled(r, look, own, no, known, f, outcome),
                 outcome, own \cup no)
  BY <1>2, ReconciledLost
<1>4. Reconciled(ByController(l), outcome, Own(l))
  BY <1>1, <1>3 DEF ByController
<1>5. QED
  BY <1>4

LEMMA ValidByReaper ==
  ASSUME NEW l \in Lease, docs[l] \in Rec!Leases, Rec!Valid(docs[l]),
         docs[l].st = "CREATING", seen.ids \in SUBSET Pod,
         AnsweredOnlyInLedger(l) \in SUBSET Pod
  PROVE  Reconciled(ByReaper(l), LostByReaper(l),
                    Own(l) \cup AnsweredOnlyInLedger(l))
<1>1. PICK r, listing, own, answered, known, rejected, closed, aged :
        /\ r = docs[l] /\ listing = seen.ids /\ own = Own(l)
        /\ answered = AnsweredOnlyInLedger(l) /\ known = {}
        /\ rejected = FALSE /\ closed = (asof[l].win # "open")
        /\ aged = (asof[l].win = "expired")
  OBVIOUS
<1>2. /\ r \in Rec!Leases /\ Rec!Valid(r) /\ r.st = "CREATING"
      /\ listing \in SUBSET Pod /\ answered \in SUBSET Pod
      /\ closed \in BOOLEAN
  BY <1>1
<1> DEFINE outcome == Rec!LostOutcome(r, listing, own, answered, known,
                                      rejected, closed, aged)
<1>3. Reconciled(Rec!LostReconciled(r, listing, own, answered, known, closed,
                                    outcome), outcome, own \cup answered)
  BY <1>2, ReconciledLost
<1>4. LostByReaper(l) = outcome
  BY <1>1 DEF LostByReaper
<1>5. ByReaper(l) = Rec!LostReconciled(r, listing, own, answered, known,
                                       closed, outcome)
  BY <1>1, <1>4 DEF ByReaper
<1> HIDE DEF outcome
<1>6. QED
  BY <1>1, <1>3, <1>4, <1>5

-----------------------------------------------------------------------------
(* The ways a step touches records and references, and that each keeps them *)
(* Consistent.                                                              *)

LEMMA ConsistentFrame ==
  ASSUME Consistent, UNCHANGED <<lease, ctl, rref, docs, sweep>>
  PROVE  Consistent'
  BY DEF Consistent, Recorded, NotBegun, ControllerRefs, ReaperRefs,
         SettlesAbsent

(* The controller moves without writing the record. *)
LEMMA ControllerMoves ==
  ASSUME TypeOK, Consistent, NEW l \in Lease, NEW c,
         ctl' = [ctl EXCEPT ![l] = c],
         c.at \notin {"idle", "observed"} \/ lease[l].st = "NONE",
         c.ref => /\ lease[l].st # "NONE"
                  /\ lease[l].st = "AMBIGUOUS" /\ lease[l].ids = {}
                       => c.at = "reconciled",
         UNCHANGED <<lease, rref, docs, sweep>>
  PROVE  Consistent'
<1>1. \A k \in Lease : ctl'[k] = IF k = l THEN c ELSE ctl[k]
  BY DEF TypeOK
<1>2. Recorded' /\ ReaperRefs' /\ SettlesAbsent'
  BY DEF Consistent, Recorded, ReaperRefs, SettlesAbsent
<1>3. NotBegun'
  BY <1>1 DEF Consistent, NotBegun
<1>4. ControllerRefs'
  BY <1>1 DEF Consistent, ControllerRefs
<1>5. QED
  BY <1>2, <1>3, <1>4 DEF Consistent

LEMMA ControllerGoes ==
  ASSUME TypeOK, Consistent, NEW l \in Lease,
         NEW step \in Steps \ {"idle", "observed"}, Goto(l, step),
         \/ ctl[l].at # "reconciled" \/ step = "end"
         \/ lease[l].ids # {} \/ lease[l].st # "AMBIGUOUS",
         UNCHANGED <<lease, rref, docs, sweep>>
  PROVE  Consistent'
<1> DEFINE c == IF step = "end"
                THEN [at |-> "end", look |-> {}, pod |-> {}, ref |-> FALSE]
                ELSE [ctl[l] EXCEPT !.at = step, !.look = {}]
<1>1. ctl[l] \in Controllers
  BY DEF TypeOK
<1>2. c.at = step /\ (c.ref => ctl[l].ref /\ step # "end")
  BY <1>1 DEF Controllers
<1>3. ctl' = [ctl EXCEPT ![l] = c]
  BY DEF Goto
<1>4. ctl[l].ref => /\ lease[l].st # "NONE"
                    /\ lease[l].st = "AMBIGUOUS" /\ lease[l].ids = {}
                         => ctl[l].at = "reconciled"
  BY DEF Consistent, ControllerRefs
<1> HIDE DEF c
<1>5. QED
  BY <1>2, <1>3, <1>4, ControllerMoves

LEMMA ControllerLooks ==
  ASSUME TypeOK, Consistent, NEW l \in Lease, NEW step \in Steps,
         Look(l, step), step \notin {"idle", "observed"} \/ lease[l].st = "NONE",
         ctl[l].at # "reconciled",
         UNCHANGED <<lease, rref, docs, sweep>>
  PROVE  Consistent'
<1> DEFINE c == [ctl[l] EXCEPT !.at = step, !.look = Listed]
<1>1. ctl[l] \in Controllers
  BY DEF TypeOK
<1>2. c.at = step /\ c.ref = ctl[l].ref
  BY <1>1 DEF Controllers
<1>3. ctl' = [ctl EXCEPT ![l] = c]
  BY DEF Look
<1>4. ctl[l].ref => /\ lease[l].st # "NONE"
                    /\ lease[l].st = "AMBIGUOUS" /\ lease[l].ids = {}
                         => ctl[l].at = "reconciled"
  BY DEF Consistent, ControllerRefs
<1> HIDE DEF c
<1>5. QED
  BY <1>2, <1>3, <1>4, ControllerMoves

LEMMA ControllerTakes ==
  ASSUME TypeOK, Consistent, NEW l \in Lease,
         NEW step \in Steps \ {"idle", "observed"}, NEW pods,
         Take(l, step, pods), ctl[l].at # "reconciled" \/ lease[l].ids # {},
         UNCHANGED <<lease, rref, docs, sweep>>
  PROVE  Consistent'
<1> DEFINE c == [ctl[l] EXCEPT !.at = step, !.look = {}, !.pod = pods]
<1>1. ctl[l] \in Controllers
  BY DEF TypeOK
<1>2. c.at = step /\ c.ref = ctl[l].ref
  BY <1>1 DEF Controllers
<1>3. ctl' = [ctl EXCEPT ![l] = c]
  BY DEF Take
<1>4. ctl[l].ref => /\ lease[l].st # "NONE"
                    /\ lease[l].st = "AMBIGUOUS" /\ lease[l].ids = {}
                         => ctl[l].at = "reconciled"
  BY DEF Consistent, ControllerRefs
<1> HIDE DEF c
<1>5. QED
  BY <1>2, <1>3, <1>4, ControllerMoves

(* It leaves the ambiguous cleanup with a reference of no use. *)
LEMMA ControllerLeaves ==
  ASSUME TypeOK, Consistent, NEW l \in Lease, LeaveCleanup(l),
         UNCHANGED <<lease, rref, docs, sweep>>
  PROVE  Consistent'
<1> DEFINE c == [ctl[l] EXCEPT !.at = IF ctl[l].pod = {} THEN "end" ELSE "exit",
                               !.look = {}, !.ref = FALSE]
<1>1. ctl[l] \in Controllers
  BY DEF TypeOK
<1>2. c.at \in {"end", "exit"} /\ ~c.ref
  BY <1>1 DEF Controllers
<1>3. ctl' = [ctl EXCEPT ![l] = c]
  BY DEF LeaveCleanup
<1> HIDE DEF c
<1>4. QED
  BY <1>2, <1>3, ControllerMoves

(* The controller writes a valid record and moves. *)
LEMMA ControllerCommits ==
  ASSUME TypeOK, Consistent, NEW l \in Lease, NEW new \in Rec!Leases,
         CommitC(l, new), Rec!Valid(new), new.st # "NONE", NEW c,
         ctl' = [ctl EXCEPT ![l] = c],
         c.at \notin {"idle", "observed"},
         new.st = "AMBIGUOUS" /\ new.ids = {} => c.at = "reconciled",
         UNCHANGED <<docs, sweep>>
  PROVE  Consistent'
<1>1. \A k \in Lease : /\ lease'[k] = IF k = l THEN new ELSE lease[k]
                       /\ rref'[k] = IF k = l THEN FALSE ELSE rref[k]
                       /\ ctl'[k] = IF k = l THEN c ELSE ctl[k]
  BY DEF TypeOK, CommitC
<1>2. Recorded'
  BY <1>1 DEF Consistent, Recorded
<1>3. NotBegun'
  <2>1. SUFFICES ASSUME NEW k \in Lease, ctl'[k].at \in {"idle", "observed"}
                 PROVE  lease'[k].st = "NONE"
    BY DEF NotBegun
  <2>2. k # l /\ ctl[k].at \in {"idle", "observed"}
    BY <1>1, <2>1
  <2>3. QED
    BY <1>1, <2>2 DEF Consistent, NotBegun
<1>4. ControllerRefs'
  <2>1. SUFFICES ASSUME NEW k \in Lease, ctl'[k].ref
                 PROVE  /\ lease'[k].st # "NONE"
                        /\ lease'[k].st = "AMBIGUOUS" /\ lease'[k].ids = {}
                             => ctl'[k].at = "reconciled"
    BY DEF ControllerRefs
  <2>2. CASE k = l
    BY <1>1, <2>2
  <2>3. CASE k # l
    BY <1>1, <2>1, <2>3 DEF Consistent, ControllerRefs
  <2>4. QED
    BY <2>2, <2>3
<1>5. ReaperRefs'
  BY <1>1 DEF Consistent, ReaperRefs
<1>6. SettlesAbsent'
  BY DEF Consistent, SettlesAbsent
<1>7. QED
  BY <1>2, <1>3, <1>4, <1>5, <1>6 DEF Consistent

LEMMA ControllerCommitsAndGoes ==
  ASSUME TypeOK, Consistent, NEW l \in Lease, NEW new \in Rec!Leases,
         CommitC(l, new), Rec!Valid(new), new.st # "NONE",
         NEW step \in Steps \ {"idle", "observed"}, Goto(l, step),
         step = "reconciled" \/ new.st # "AMBIGUOUS" \/ new.ids # {},
         UNCHANGED <<docs, sweep>>
  PROVE  Consistent'
<1> DEFINE c == IF step = "end"
                THEN [at |-> "end", look |-> {}, pod |-> {}, ref |-> FALSE]
                ELSE [ctl[l] EXCEPT !.at = step, !.look = {}]
<1>1. ctl[l] \in Controllers
  BY DEF TypeOK
<1>2. c.at = step
  BY <1>1 DEF Controllers
<1>3. ctl' = [ctl EXCEPT ![l] = c]
  BY DEF Goto
<1> HIDE DEF c
<1>4. QED
  BY <1>2, <1>3, ControllerCommits

(* The reaper moves on without a write. *)
LEMMA ReaperMoves ==
  ASSUME Consistent, sweep'.step # "settle",
         UNCHANGED <<lease, ctl, rref, docs>>
  PROVE  Consistent'
  BY DEF Consistent, Recorded, NotBegun, ControllerRefs, ReaperRefs,
         SettlesAbsent

(* The reaper is through with a lease it does not write. *)
LEMMA ReaperForgets ==
  ASSUME TypeOK, Consistent, NEW l \in Lease, Forget(l),
         sweep'.step # "settle", UNCHANGED <<lease, ctl>>
  PROVE  Consistent'
<1>1. \A k \in Lease : /\ docs'[k] = IF k = l THEN Rec!Unborn ELSE docs[k]
                       /\ rref'[k] = IF k = l THEN FALSE ELSE rref[k]
  BY DEF TypeOK, Forget
<1>2. Recorded' /\ NotBegun' /\ ControllerRefs' /\ SettlesAbsent'
  BY DEF Consistent, Recorded, NotBegun, ControllerRefs, SettlesAbsent
<1>3. ReaperRefs'
  BY <1>1 DEF Consistent, ReaperRefs
<1>4. QED
  BY <1>2, <1>3 DEF Consistent

(* What a write of the reaper does to record and references. *)
LEMMA ReaperStores ==
  ASSUME TypeOK, Consistent, NEW l \in Lease, NEW new \in Rec!Leases,
         StoreR(l, new), rref[l], Rec!Valid(new), new.st # "NONE"
  PROVE  Recorded' /\ NotBegun' /\ ControllerRefs'
<1>1. \A k \in Lease : /\ lease'[k] = IF k = l THEN new ELSE lease[k]
                       /\ ctl'[k].at = ctl[k].at
                       /\ ctl'[k].ref => ctl[k].ref /\ k # l
  <2>1. \A k \in Lease : ctl[k] \in Controllers
    BY DEF TypeOK
  <2>2. \A k \in Lease : ctl'[k] = IF k = l THEN [ctl[l] EXCEPT !.ref = FALSE]
                                            ELSE ctl[k]
    BY DEF TypeOK, StoreR
  <2>3. [ctl[l] EXCEPT !.ref = FALSE].at = ctl[l].at
        /\ [ctl[l] EXCEPT !.ref = FALSE].ref = FALSE
    BY <2>1 DEF Controllers
  <2>4. \A k \in Lease : lease'[k] = IF k = l THEN new ELSE lease[k]
    BY DEF TypeOK, StoreR
  <2>5. QED
    BY <2>2, <2>3, <2>4
<1>2. lease[l].st # "NONE"
  BY DEF Consistent, ReaperRefs, Rec!Unresolved
<1>3. Recorded'
  BY <1>1 DEF Consistent, Recorded
<1>4. NotBegun'
  BY <1>1, <1>2 DEF Consistent, NotBegun
<1>5. ControllerRefs'
  BY <1>1 DEF Consistent, ControllerRefs
<1>6. QED
  BY <1>3, <1>4, <1>5

LEMMA ReaperCommits ==
  ASSUME TypeOK, Consistent, NEW l \in Lease, NEW new \in Rec!Leases,
         CommitR(l, new), rref[l], Rec!Valid(new), new.st \in Rec!Unresolved,
         sweep'.step = "settle" => sweep'.cur = l
                                   /\ new.st = "ABSENCE_CONFIRMED",
         UNCHANGED rref
  PROVE  Consistent'
<1>1. Recorded' /\ NotBegun' /\ ControllerRefs'
  BY ReaperStores DEF CommitR, Rec!Unresolved
<1>2. \A k \in Lease : /\ lease'[k] = IF k = l THEN new ELSE lease[k]
                       /\ docs'[k] = IF k = l THEN new ELSE docs[k]
  BY DEF TypeOK, CommitR, StoreR
<1>3. ReaperRefs'
  BY <1>2 DEF Consistent, ReaperRefs
<1>4. SettlesAbsent'
  BY <1>2 DEF SettlesAbsent
<1>5. QED
  BY <1>1, <1>3, <1>4 DEF Consistent

LEMMA ReaperStoresAndForgets ==
  ASSUME TypeOK, Consistent, NEW l \in Lease, NEW new \in Rec!Leases,
         StoreR(l, new), rref[l], Rec!Valid(new), new.st # "NONE",
         Forget(l), sweep'.step # "settle"
  PROVE  Consistent'
<1>1. Recorded' /\ NotBegun' /\ ControllerRefs'
  BY ReaperStores
<1>2. \A k \in Lease : /\ lease'[k] = IF k = l THEN new ELSE lease[k]
                       /\ docs'[k] = IF k = l THEN Rec!Unborn ELSE docs[k]
                       /\ rref'[k] = IF k = l THEN FALSE ELSE rref[k]
  BY DEF TypeOK, StoreR, Forget
<1>3. ReaperRefs'
  BY <1>2 DEF Consistent, ReaperRefs
<1>4. SettlesAbsent'
  BY DEF SettlesAbsent
<1>5. QED
  BY <1>1, <1>3, <1>4 DEF Consistent

-----------------------------------------------------------------------------
(* Every step keeps the records Consistent. *)

LEMMA WritesC ==
  ASSUME TypeOK, Consistent, NEW l \in Lease, NEW new, CanWriteC(l, new)
  PROVE  /\ lease[l] \in Rec!Leases /\ Rec!Valid(lease[l])
         /\ lease[l].st # "NONE" /\ Rec!MayWrite(lease[l], new)
         /\ lease[l].st = "AMBIGUOUS" /\ lease[l].ids = {}
              => ctl[l].at = "reconciled"
  BY DEF TypeOK, Consistent, Recorded, ControllerRefs, CanWriteC

LEMMA BeforePostConsistent ==
  ASSUME TypeOK, Consistent, NEW l \in Lease, BeforePost(l)
  PROVE  Consistent'
<1>1. {"observed", "prepared", "reserved", "creating", "intent", "cancelIntent",
       "cancelLedger", "cancelClose", "end"} \subseteq Steps
  BY DEF Steps
<1>2. CASE ObserveAccount(l)
  <2>1. lease[l].st = "NONE"
    BY <1>2 DEF ObserveAccount, Consistent, NotBegun
  <2>2. QED
    BY <1>1, <1>2, <2>1, ControllerLooks DEF ObserveAccount, store, reaper
<1>3. CASE BeginCreate(l)
  <2> DEFINE new == Rec!Prepared(ctl[l].look)
             c == [at |-> "prepared", look |-> {}, pod |-> {}, ref |-> TRUE]
  <2>1. new \in Rec!Leases /\ Rec!Valid(new) /\ new.st = "PREPARED"
    <3>1. ctl[l].look \in SUBSET Pod
      BY DEF TypeOK, Controllers
    <3>2. new \in Rec!Leases
      BY <3>1, UnbornTypes
    <3>3. QED
      BY <3>2 DEF Rec!Prepared, Rec!Unborn, Rec!Valid
  <2>2. \A k \in Lease : /\ lease'[k] = IF k = l THEN new ELSE lease[k]
                         /\ ctl'[k] = IF k = l THEN c ELSE ctl[k]
    BY <1>3 DEF BeginCreate, TypeOK
  <2>3. lease[l].st \notin Rec!Unresolved
    BY <1>3 DEF BeginCreate
  <2>4. ~rref[l]
    BY <2>3 DEF Consistent, ReaperRefs
  <2>5. UNCHANGED <<rref, docs, sweep>>
    BY <1>3 DEF BeginCreate, reaper
  <2> HIDE DEF new
  <2>6. QED
    BY <2>1, <2>2, <2>4, <2>5
       DEF Consistent, Recorded, NotBegun, ControllerRefs, ReaperRefs,
           SettlesAbsent
<1>4. CASE BeginRefused(l) \/ Reserve(l) \/ MarkCreating(l)
           \/ AbandonBeforePost(l) \/ CancelLedger(l)
  <2>1. PICK step \in Steps \ {"idle", "observed"} : Goto(l, step)
    BY <1>1, <1>4 DEF BeginRefused, Reserve, MarkCreating, AbandonBeforePost,
                      CancelLedger
  <2>2. ctl[l].at # "reconciled" /\ UNCHANGED <<lease, rref, docs, sweep>>
    BY <1>4 DEF BeginRefused, Reserve, MarkCreating, AbandonBeforePost,
                CancelLedger, store, reaper
  <2>3. QED
    BY <2>1, <2>2, ControllerGoes
<1>5. CASE PostIntent(l)
  <2> DEFINE new == Rec!PostIntent(lease[l])
  <2>1. CanWriteC(l, new) /\ CommitC(l, new) /\ Goto(l, "intent")
        /\ lease[l].st = "PREPARED" /\ UNCHANGED <<docs, sweep>>
    BY <1>5 DEF PostIntent, reaper
  <2>2. lease[l] \in Rec!Leases /\ Rec!Valid(lease[l])
    BY <2>1, WritesC
  <2>3. new \in Rec!Leases /\ Rec!Valid(new) /\ new.st = "CREATING"
    <3>1. new.st = "CREATING"
      BY <2>2 DEF Rec!PostIntent, Rec!Leases
    <3>2. QED
      BY <2>1, <2>2, <3>1, RecordTypes, ValidWrites
  <2> HIDE DEF new
  <2>4. QED
    BY <1>1, <2>1, <2>3, ControllerCommitsAndGoes
<1>6. CASE CancelIntent(l)
  <2> DEFINE new == Rec!CancelIntent(lease[l])
  <2>1. CASE CanWriteC(l, new)
    <3>1. CommitC(l, new) /\ Goto(l, "cancelLedger") /\ UNCHANGED <<docs, sweep>>
          /\ ctl[l].at = "cancelIntent"
      BY <1>6, <2>1 DEF CancelIntent, reaper
    <3>2. lease[l] \in Rec!Leases /\ Rec!Valid(lease[l])
          /\ lease[l].st # "NONE"
          /\ ~(lease[l].st = "AMBIGUOUS" /\ lease[l].ids = {})
      BY <2>1, <3>1, WritesC
    <3>3. new \in Rec!Leases /\ Rec!Valid(new)
          /\ new.st = lease[l].st /\ new.ids = lease[l].ids
      <4>1. new.st = lease[l].st /\ new.ids = lease[l].ids
        BY <3>2 DEF Rec!CancelIntent, Rec!Leases
      <4>2. QED
        BY <3>2, <4>1, RecordTypes, ValidWrites
    <3> HIDE DEF new
    <3>4. QED
      BY <1>1, <3>1, <3>2, <3>3, ControllerCommitsAndGoes
  <2>2. CASE ~CanWriteC(l, new)
    BY <1>1, <1>6, <2>2, ControllerGoes DEF CancelIntent, reaper
  <2>3. QED
    BY <2>1, <2>2
<1>7. CASE CancelClose(l)
  <2> DEFINE new == Rec!CancelPrepared(lease[l])
  <2>1. CASE CanWriteC(l, new)
    <3>1. CommitC(l, new) /\ Goto(l, "end") /\ UNCHANGED <<docs, sweep>>
      BY <1>7, <2>1 DEF CancelClose, reaper
    <3>2. lease[l] \in Rec!Leases /\ Rec!Valid(lease[l])
          /\ lease[l].st # "NONE"
      BY <2>1, WritesC
    <3>3. new \in Rec!Leases /\ Rec!Valid(new) /\ new.st = "TERMINAL"
      <4>1. new.st = "TERMINAL"
        BY <3>2 DEF Rec!CancelPrepared, Rec!Leases
      <4>2. QED
        BY <3>2, <4>1, RecordTypes, ValidWrites
    <3> HIDE DEF new
    <3>4. QED
      BY <1>1, <3>1, <3>3, ControllerCommitsAndGoes
  <2>2. CASE ~CanWriteC(l, new)
    BY <1>1, <1>7, <2>2, ControllerGoes DEF CancelClose, reaper
  <2>3. QED
    BY <2>1, <2>2
<1>8. QED
  BY <1>2, <1>3, <1>4, <1>5, <1>6, <1>7 DEF BeforePost

LEMMA PostConsistent ==
  ASSUME TypeOK, Consistent, NEW l \in Lease, Post(l)
  PROVE  Consistent'
<1>1. {"sent", "lost", "refused", "bound", "unrecorded", "exit"} \subseteq Steps
  BY DEF Steps
<1>2. CASE Submit(l)
  <2>1. ctl[l].at # "reconciled" /\ UNCHANGED <<lease, rref, docs, sweep>>
    BY <1>2 DEF Submit, MaySubmit, store, reaper
  <2>2. (\E pods : Take(l, "sent", pods)) \/ Goto(l, "lost")
    BY <1>2 DEF Submit
  <2>3. QED
    BY <1>1, <2>1, <2>2, ControllerGoes, ControllerTakes
<1>3. CASE SubmitNothing(l) \/ SubmitConflict(l) \/ RecordFails(l)
  <2>1. ctl[l].at # "reconciled" /\ UNCHANGED <<lease, rref, docs, sweep>>
    BY <1>3 DEF SubmitNothing, SubmitConflict, RecordFails, MaySubmit, store,
                reaper
  <2>2. Goto(l, "lost") \/ Goto(l, "refused") \/ Goto(l, "unrecorded")
    BY <1>3 DEF SubmitNothing, SubmitConflict, RecordFails
  <2>3. QED
    BY <1>1, <2>1, <2>2, ControllerGoes
<1>4. CASE RecordCreated(l)
  <2>1. ctl[l].pod \in SUBSET Pod
    BY DEF TypeOK, Controllers
  <2>2. PICK p \in Pod : /\ CanWriteC(l, Rec!CreateSuccess(lease[l], p))
                         /\ CommitC(l, Rec!CreateSuccess(lease[l], p))
    BY <1>4, <2>1 DEF RecordCreated
  <2> DEFINE new == Rec!CreateSuccess(lease[l], p)
  <2>3. lease[l] \in Rec!Leases /\ Rec!Valid(lease[l]) /\ lease[l].st # "NONE"
        /\ Rec!MayWrite(lease[l], new)
    BY <2>2, WritesC
  <2>4. new \in Rec!Leases /\ Rec!Valid(new) /\ new.st = "ACTIVE"
    <3>1. new.st = "ACTIVE"
      BY <2>3 DEF Rec!CreateSuccess, Rec!Leases
    <3>2. QED
      BY <2>3, <3>1, RecordTypes, ValidWrites
  <2>5. Goto(l, "bound") /\ UNCHANGED <<docs, sweep>> /\ CommitC(l, new)
    BY <1>4, <2>2 DEF RecordCreated, reaper
  <2> HIDE DEF new
  <2>6. QED
    BY <1>1, <2>4, <2>5, ControllerCommitsAndGoes
<1>5. CASE BindReturnedId(l)
  <2>1. ctl[l].at = "unrecorded" /\ UNCHANGED <<lease, rref, docs, sweep>>
    BY <1>5 DEF BindReturnedId, reaper
  <2>2. PICK ref \in BOOLEAN :
          /\ ctl' = [ctl EXCEPT ![l] = [ctl[l] EXCEPT !.at = "exit",
                                                     !.ref = ref]]
          /\ ref => ctl[l].ref \/ lease[l].ids # {}
    <3>1. ctl[l].ref \in BOOLEAN
      BY DEF TypeOK, Controllers
    <3>2. (ctl[l].ref \/ (lease[l].ids # {} /\ lease[l].ids = ctl[l].pod))
            \in BOOLEAN
      OBVIOUS
    <3>3. QED
      BY <1>5, <3>1, <3>2 DEF BindReturnedId
  <2> DEFINE c == [ctl[l] EXCEPT !.at = "exit", !.ref = ref]
  <2>3. c.at = "exit" /\ c.ref = ref
    BY DEF TypeOK, Controllers
  <2>4. lease[l].ids # {} => lease[l].st # "NONE"
    BY DEF Consistent, Recorded, Rec!Unborn
  <2>5. ctl[l].ref => /\ lease[l].st # "NONE"
                      /\ ~(lease[l].st = "AMBIGUOUS" /\ lease[l].ids = {})
    BY <2>1 DEF Consistent, ControllerRefs
  <2>6. ctl' = [ctl EXCEPT ![l] = c]
    BY <2>2
  <2> HIDE DEF c
  <2>7. QED
    BY <2>1, <2>2, <2>3, <2>4, <2>5, <2>6, ControllerMoves
<1>6. QED
  BY <1>2, <1>3, <1>4, <1>5 DEF Post

LEMMA AfterLossConsistent ==
  ASSUME TypeOK, Consistent, NEW l \in Lease, AfterLoss(l)
  PROVE  Consistent'
<1>1. {"lostLook", "refusedLook", "reconciled", "release", "ambDestroy",
       "exit", "end"} \subseteq Steps
  BY DEF Steps
<1>2. CASE LookAfterLoss(l)
  BY <1>1, <1>2, ControllerLooks DEF LookAfterLoss, store, reaper
<1>3. CASE InventoryUnavailable(l) \/ ReleaseRejected(l)
  BY <1>1, <1>3, ControllerGoes
     DEF InventoryUnavailable, ReleaseRejected, store, reaper
<1>4. CASE ReconcileLost(l)
  <2>1. ctl[l].at # "reconciled" /\ UNCHANGED <<docs, sweep>>
    BY <1>4 DEF ReconcileLost, reaper
  <2>2. \/ /\ lease[l].st = "CREATING" /\ CanWriteC(l, ByController(l))
           /\ CommitC(l, ByController(l)) /\ Goto(l, "reconciled")
        \/ Goto(l, "end") /\ UNCHANGED <<lease, rref>>
    BY <1>4 DEF ReconcileLost, ByController
  <2>3. CASE /\ lease[l].st = "CREATING" /\ CanWriteC(l, ByController(l))
             /\ CommitC(l, ByController(l)) /\ Goto(l, "reconciled")
    <3>1. lease[l] \in Rec!Leases /\ Rec!Valid(lease[l])
          /\ ctl[l].look \in SUBSET Pod
      BY <2>3, WritesC DEF TypeOK, Controllers
    <3>2. /\ ByController(l) \in Rec!Leases /\ Rec!Valid(ByController(l))
          /\ ByController(l).st # "NONE"
      BY <2>3, <3>1, ValidByController DEF Reconciled
    <3>3. QED
      BY <1>1, <2>1, <2>3, <3>2, ControllerCommitsAndGoes
  <2>4. QED
    BY <1>1, <2>1, <2>2, <2>3, ControllerGoes
<1>5. CASE BindLossIds(l)
  <2>1. UNCHANGED <<lease, rref, docs, sweep>>
    BY <1>5 DEF BindLossIds, reaper
  <2>2. \/ Goto(l, "end")
        \/ Goto(l, "release") /\ lease[l].st = "TERMINAL"
        \/ Goto(l, "ambDestroy") /\ lease[l].ids # {}
        \/ Take(l, "exit", lease[l].ids) /\ lease[l].ids # {}
    BY <1>5 DEF BindLossIds
  <2>3. QED
    BY <1>1, <2>1, <2>2, ControllerGoes, ControllerTakes
<1>6. QED
  BY <1>2, <1>3, <1>4, <1>5 DEF AfterLoss

LEMMA QualifyConsistent ==
  ASSUME TypeOK, Consistent, NEW l \in Lease, Qualify(l)
  PROVE  Consistent'
<1>1. {"postLook", "exit", "qualified", "unconverged", "delta", "ambDestroy",
       "attested", "working"} \subseteq Steps
  BY DEF Steps
<1>2. CASE ObserveCreated(l)
  BY <1>1, <1>2, ControllerLooks DEF ObserveCreated, store, reaper
<1>3. CASE RunFails(l) \/ WorkEnds(l)
  BY <1>1, <1>3, ControllerGoes DEF RunFails, WorkEnds, store, reaper
<1>4. CASE BindDelta(l) \/ BindQuote(l)
  <2>1. UNCHANGED <<lease, rref, docs, sweep>> /\ ctl[l].at # "reconciled"
    BY <1>4 DEF BindDelta, BindQuote, reaper
  <2>2. Goto(l, "ambDestroy") \/ Goto(l, "exit") \/ Goto(l, "working")
    BY <1>4 DEF BindDelta, BindQuote
  <2>3. QED
    BY <1>1, <2>1, <2>2, ControllerGoes
<1>5. CASE BindInventory(l)
  <2> DEFINE new == Rec!PostCreateBound(lease[l], ctl[l].look, Own(l),
                                        Siblings(l))
  <2>1. UNCHANGED <<docs, sweep>> /\ ctl[l].at # "reconciled"
    BY <1>5 DEF BindInventory, reaper
  <2>2. \/ /\ CommitC(l, new) /\ Goto(l, "delta")
           /\ ctl[l].ref /\ lease[l].st = "ACTIVE"
        \/ /\ Goto(l, "exit") \/ Goto(l, "qualified") \/ Goto(l, "unconverged")
           /\ UNCHANGED <<lease, rref>>
    BY <1>5 DEF BindInventory
  <2>3. CASE /\ CommitC(l, new) /\ Goto(l, "delta")
             /\ ctl[l].ref /\ lease[l].st = "ACTIVE"
    <3>1. lease[l] \in Rec!Leases /\ Rec!Valid(lease[l])
          /\ ctl[l].look \in SUBSET Pod
      BY DEF TypeOK, Controllers, Consistent, Recorded
    <3>2. new \in Rec!Leases
      BY <3>1, PostCreateType
    <3>3. Rec!Valid(new)
      BY <2>3, <3>1, ValidPostCreate
    <3>4. new.st \in {"ACTIVE", "AMBIGUOUS"}
      BY <2>3, <3>1, ValidPostCreate
    <3>5. new.ids # {}
      BY <2>3, <3>1, ValidPostCreate
    <3> HIDE DEF new
    <3>6. QED
      BY <1>1, <2>1, <2>3, <3>2, <3>3, <3>4, <3>5, ControllerCommitsAndGoes
  <2>4. QED
    BY <1>1, <2>1, <2>2, <2>3, ControllerGoes
<1>6. CASE Attest(l)
  <2>1. UNCHANGED <<docs, sweep>> /\ ctl[l].at # "reconciled"
    BY <1>6 DEF Attest, reaper
  <2>2. \/ CommitC(l, lease[l]) /\ Goto(l, "attested") /\ lease[l].st = "ACTIVE"
        \/ Goto(l, "exit") /\ UNCHANGED <<lease, rref>>
    BY <1>6 DEF Attest
  <2>3. lease[l] \in Rec!Leases /\ Rec!Valid(lease[l])
    BY DEF TypeOK, Consistent, Recorded
  <2>4. QED
    BY <1>1, <2>1, <2>2, <2>3, ControllerGoes, ControllerCommitsAndGoes
<1>7. QED
  BY <1>2, <1>3, <1>4, <1>5, <1>6 DEF Qualify

LEMMA TearDownConsistent ==
  ASSUME TypeOK, Consistent, NEW l \in Lease, TearDown(l)
  PROVE  Consistent'
<1>1. {"destroy", "bindCleanup", "request", "delete", "confirm", "confirmLook",
       "billing", "finalize", "close", "ambDelete", "ambConfirm", "ambLook",
       "end"} \subseteq Steps
  BY DEF Steps
<1>2. lease[l] \in Rec!Leases
  BY DEF TypeOK
<1>3. CASE ExitWorkload(l)
  <2>1. Goto(l, "destroy") /\ ctl[l].at # "reconciled"
        /\ UNCHANGED <<docs, sweep>>
    BY <1>3 DEF ExitWorkload, reaper
  <2>2. \/ lease[l].st = "ACTIVE" /\ CommitC(l, lease[l])
        \/ UNCHANGED <<lease, rref>>
    BY <1>3 DEF ExitWorkload
  <2>3. Rec!Valid(lease[l])
    BY DEF Consistent, Recorded
  <2>4. CASE lease[l].st = "ACTIVE" /\ CommitC(l, lease[l])
    BY <1>1, <1>2, <2>1, <2>3, <2>4, ControllerCommitsAndGoes
  <2>5. CASE UNCHANGED <<lease, rref>>
    BY <1>1, <2>1, <2>5, ControllerGoes
  <2>6. QED
    BY <2>2, <2>4, <2>5
<1>4. CASE RecordDestroyIntent(l) \/ AmbiguousDestroy(l)
  <2> DEFINE new == Rec!RequestDestroy(lease[l])
  <2>1. ctl[l].at # "reconciled" /\ UNCHANGED <<docs, sweep>>
    BY <1>4 DEF RecordDestroyIntent, AmbiguousDestroy, reaper
  <2>2. \/ /\ lease[l].st # "ABSENCE_CONFIRMED" /\ CanWriteC(l, new)
           /\ CommitC(l, new)
           /\ Goto(l, "bindCleanup") \/ Goto(l, "ambDelete")
        \/ /\ Goto(l, "bindCleanup") \/ Goto(l, "end") \/ Goto(l, "ambDelete")
              \/ LeaveCleanup(l)
           /\ UNCHANGED <<lease, rref>>
    BY <1>4 DEF RecordDestroyIntent, AmbiguousDestroy
  <2>3. CASE /\ lease[l].st # "ABSENCE_CONFIRMED" /\ CanWriteC(l, new)
             /\ CommitC(l, new)
             /\ Goto(l, "bindCleanup") \/ Goto(l, "ambDelete")
    <3>1. /\ Rec!Valid(lease[l]) /\ lease[l].st # "NONE"
          /\ Rec!MayWrite(lease[l], new)
          /\ ~(lease[l].st = "AMBIGUOUS" /\ lease[l].ids = {})
      BY <2>1, <2>3, WritesC
    <3>2. new.st = "DESTROYING" /\ new.ids = lease[l].ids
      BY <1>2 DEF Rec!RequestDestroy, Rec!Leases
    <3>3. lease[l].ids # {}
      <4> HIDE DEF new
      <4>1. "DESTROYING" \in Rec!Allowed(lease[l].st)
        BY <3>1, <3>2 DEF Rec!MayWrite
      <4>2. lease[l].st \in {"ACTIVE", "AMBIGUOUS", "DESTROYING",
                            "ABSENCE_CONFIRMED"}
        BY <1>2, <3>1, <4>1
           DEF Rec!Allowed, Rec!Leases, Rec!States, Rec!Unresolved
      <4>3. QED
        BY <3>1, <4>2 DEF Rec!Valid
    <3>4. new \in Rec!Leases
      BY <1>2, RecordTypes
    <3>5. Rec!Valid(new)
      BY <1>2, <2>3, <3>1, <3>3, ValidWrites
    <3> HIDE DEF new
    <3>6. QED
      BY <1>1, <2>1, <2>3, <3>2, <3>4, <3>5, ControllerCommitsAndGoes
  <2>4. CASE /\ Goto(l, "bindCleanup") \/ Goto(l, "end") \/ Goto(l, "ambDelete")
                \/ LeaveCleanup(l)
             /\ UNCHANGED <<lease, rref>>
    BY <1>1, <2>1, <2>4, ControllerGoes, ControllerLeaves
  <2>5. QED
    BY <2>2, <2>3, <2>4
<1>5. CASE BindCleanup(l) \/ RequestTermination(l) \/ Delete(l)
           \/ GiveUp(l) \/ FinalizeCampaign(l) \/ AmbiguousDelete(l)
  <2>1. UNCHANGED <<lease, rref, docs, sweep>> /\ ctl[l].at # "reconciled"
    BY <1>5 DEF BindCleanup, RequestTermination, Delete, GiveUp,
                FinalizeCampaign, AmbiguousDelete, store, reaper
  <2>2. PICK step \in Steps \ {"idle", "observed"} : Goto(l, step)
    <3>1. Goto(l, "request") \/ Goto(l, "end") \/ Goto(l, "delete")
          \/ Goto(l, "confirm") \/ Goto(l, "close") \/ Goto(l, "ambConfirm")
      BY <1>5 DEF BindCleanup, RequestTermination, Delete, GiveUp,
                  FinalizeCampaign, AmbiguousDelete
    <3>2. QED
      BY <1>1, <3>1
  <2>3. QED
    BY <2>1, <2>2, ControllerGoes
<1>6. CASE LookForAbsence(l)
  <2>1. UNCHANGED <<lease, rref, docs, sweep>> /\ ctl[l].at # "reconciled"
    BY <1>6 DEF LookForAbsence, store, reaper
  <2>2. Look(l, "confirmLook") \/ Look(l, "ambLook")
    BY <1>6 DEF LookForAbsence
  <2>3. QED
    BY <1>1, <2>1, <2>2, ControllerLooks
<1>7. CASE ConfirmAbsence(l) \/ AmbiguousConfirm(l)
  <2> DEFINE new == Rec!AbsenceChecked(lease[l], ctl[l].look)
  <2>1. ctl[l].at # "reconciled" /\ UNCHANGED <<docs, sweep>>
    BY <1>7 DEF ConfirmAbsence, AmbiguousConfirm, reaper
  <2>2. \/ /\ Rec!MayConfirm(lease[l]) /\ CanWriteC(l, new) /\ CommitC(l, new)
           /\ Goto(l, "billing") \/ Goto(l, "confirm") \/ Goto(l, "ambConfirm")
              \/ LeaveCleanup(l)
        \/ /\ Goto(l, "confirm") \/ LeaveCleanup(l)
           /\ UNCHANGED <<lease, rref>>
    BY <1>7 DEF ConfirmAbsence, AmbiguousConfirm, Confirms
  <2>3. CASE /\ Rec!MayConfirm(lease[l]) /\ CanWriteC(l, new) /\ CommitC(l, new)
             /\ Goto(l, "billing") \/ Goto(l, "confirm") \/ Goto(l, "ambConfirm")
                \/ LeaveCleanup(l)
    <3>1. /\ Rec!Valid(lease[l]) /\ lease[l].st # "NONE"
          /\ Rec!MayWrite(lease[l], new)
      BY <2>3, WritesC
    <3>2. new \in Rec!Leases
      BY <1>2, AbsenceCheckedType
    <3>3. Rec!Valid(new)
      BY <1>2, <2>3, <3>1, ValidAbsence
    <3>4. new.st # "NONE" /\ new.ids # {}
      BY <1>2, <2>3, <3>1 DEF Rec!AbsenceChecked, Rec!Leases, Rec!MayConfirm
    <3> HIDE DEF new
    <3>5. CASE Goto(l, "billing") \/ Goto(l, "confirm") \/ Goto(l, "ambConfirm")
      BY <1>1, <2>1, <2>3, <3>2, <3>3, <3>4, <3>5, ControllerCommitsAndGoes
    <3>6. CASE LeaveCleanup(l)
      <4> DEFINE c == [ctl[l] EXCEPT
                         !.at = IF ctl[l].pod = {} THEN "end" ELSE "exit",
                         !.look = {}, !.ref = FALSE]
      <4>1. ctl' = [ctl EXCEPT ![l] = c]
        BY <3>6 DEF LeaveCleanup
      <4>2. c.at \in {"end", "exit"}
        BY DEF TypeOK, Controllers
      <4> HIDE DEF c
      <4>3. QED
        BY <2>1, <2>3, <3>2, <3>3, <3>4, <4>1, <4>2, ControllerCommits
    <3>7. QED
      BY <2>3, <3>5, <3>6
  <2>4. CASE /\ Goto(l, "confirm") \/ LeaveCleanup(l)
             /\ UNCHANGED <<lease, rref>>
    BY <1>1, <2>1, <2>4, ControllerGoes, ControllerLeaves
  <2>5. QED
    BY <2>2, <2>3, <2>4
<1>8. CASE SettleBilling(l)
  <2> DEFINE new == Rec!StageBilling(lease[l])
  <2>1. ctl[l].at # "reconciled" /\ UNCHANGED <<docs, sweep>>
    BY <1>8 DEF SettleBilling, reaper
  <2>2. \/ /\ lease[l].st = "ABSENCE_CONFIRMED" /\ CommitC(l, new)
           /\ Goto(l, "finalize")
        \/ Goto(l, "end") /\ UNCHANGED <<lease, rref>>
    BY <1>8 DEF SettleBilling
  <2>3. Rec!Valid(lease[l])
    BY DEF Consistent, Recorded
  <2>4. CASE /\ lease[l].st = "ABSENCE_CONFIRMED" /\ CommitC(l, new)
             /\ Goto(l, "finalize")
    <3>1. new.st = "ABSENCE_CONFIRMED"
      BY <1>2, <2>4 DEF Rec!StageBilling, Rec!Leases
    <3>2. new \in Rec!Leases
      BY <1>2, RecordTypes
    <3>3. Rec!Valid(new)
      BY <1>2, <2>3, <2>4, ValidWrites
    <3> HIDE DEF new
    <3>4. QED
      BY <1>1, <2>1, <2>4, <3>1, <3>2, <3>3, ControllerCommitsAndGoes
  <2>5. QED
    BY <1>1, <2>1, <2>2, <2>4, ControllerGoes
<1>9. CASE CloseLease(l)
  <2> DEFINE new == Rec!BillingRecorded(lease[l])
  <2>1. ctl[l].at # "reconciled" /\ UNCHANGED <<docs, sweep>> /\ Goto(l, "end")
    BY <1>9 DEF CloseLease, reaper
  <2>2. \/ lease[l].st = "ABSENCE_CONFIRMED" /\ CommitC(l, new)
        \/ UNCHANGED <<lease, rref>>
    BY <1>9 DEF CloseLease
  <2>3. Rec!Valid(lease[l])
    BY DEF Consistent, Recorded
  <2>4. CASE lease[l].st = "ABSENCE_CONFIRMED" /\ CommitC(l, new)
    <3>1. new.st = "TERMINAL"
      BY <1>2 DEF Rec!BillingRecorded, Rec!Leases
    <3>2. new \in Rec!Leases
      BY <1>2, RecordTypes
    <3>3. Rec!Valid(new)
      BY <1>2, <2>3, <2>4, ValidWrites
    <3> HIDE DEF new
    <3>4. QED
      BY <1>1, <2>1, <2>4, <3>1, <3>2, <3>3, ControllerCommitsAndGoes
  <2>5. QED
    BY <1>1, <2>1, <2>2, <2>4, ControllerGoes
<1>10. QED
  BY <1>3, <1>4, <1>5, <1>6, <1>7, <1>8, <1>9 DEF TearDown

LEMMA ControllerConsistent ==
  ASSUME TypeOK, Consistent, NEW l \in Lease, Controller(l) \/ ControllerDies(l)
  PROVE  Consistent'
<1>1. CASE ControllerDies(l)
  <2>1. Goto(l, "end") /\ UNCHANGED <<lease, rref, docs, sweep>>
    BY <1>1 DEF ControllerDies, store, reaper
  <2>2. "end" \in Steps
    BY DEF Steps
  <2>3. QED
    BY <2>1, <2>2, ControllerGoes
<1>2. QED
  BY <1>1, BeforePostConsistent, PostConsistent, AfterLossConsistent,
     QualifyConsistent, TearDownConsistent DEF Controller

(* What the reaper knows of a record its reference is current for. *)
LEMMA WritesR ==
  ASSUME TypeOK, Consistent, NEW l \in Lease, NEW new, CanWriteR(l, new)
  PROVE  /\ rref[l] /\ docs[l] = lease[l] /\ lease[l] \in Rec!Leases
         /\ Rec!Valid(lease[l]) /\ lease[l].st \in Rec!Unresolved
         /\ lease[l].st # "NONE" /\ Rec!MayWrite(lease[l], new)
  BY DEF TypeOK, Consistent, Recorded, ReaperRefs, CanWriteR, Rec!Unresolved

LEMMA SweepStep ==
  ASSUME TypeOK, NEW step, Step(step)
  PROVE  sweep'.step = step /\ sweep'.cur = sweep.cur
  BY DEF TypeOK, Step

LEMMA ReaperGoes ==
  ASSUME TypeOK, Consistent, NEW step, Go(step), step # "settle",
         UNCHANGED <<lease, ctl>>
  PROVE  Consistent'
  BY SweepStep, ReaperMoves DEF Go, memory

LEMMA SweepPicks ==
  ASSUME TypeOK, NEW l \in Lease, Done(l) \/ Fail(l)
  PROVE  sweep'.step = "pick" /\ Forget(l)
  BY DEF TypeOK, Done, Fail

LEMMA ReaperEnds ==
  ASSUME TypeOK, Consistent, NEW l \in Lease, Done(l) \/ Fail(l),
         UNCHANGED <<lease, ctl>>
  PROVE  Consistent'
<1>1. sweep'.step = "pick" /\ Forget(l)
  BY SweepPicks
<1>2. QED
  BY <1>1, ReaperForgets

LEMMA ReapWriteConsistent ==
  ASSUME TypeOK, Consistent, NEW l \in Lease, NEW new \in Rec!Leases,
         NEW next, ReapWrite(l, new, next), sweep.cur = l,
         CanWriteR(l, new) =>
           /\ Rec!Valid(new) /\ new.st \in Rec!Unresolved
           /\ next = "settle" => new.st = "ABSENCE_CONFIRMED"
  PROVE  Consistent'
<1>1. CASE CanWriteR(l, new)
  <2>1. CommitR(l, new) /\ Step(next) /\ UNCHANGED rref /\ rref[l]
    BY <1>1 DEF ReapWrite, CanWriteR
  <2>2. sweep'.step = next /\ sweep'.cur = l
    BY <2>1, SweepStep
  <2>3. QED
    BY <1>1, <2>1, <2>2, ReaperCommits
<1>2. CASE ~CanWriteR(l, new)
  BY <1>2, ReaperEnds DEF ReapWrite
<1>3. QED
  BY <1>1, <1>2

LEMMA ReapWriteLastConsistent ==
  ASSUME TypeOK, Consistent, NEW l \in Lease, NEW new \in Rec!Leases,
         ReapWriteLast(l, new),
         CanWriteR(l, new) => Rec!Valid(new) /\ new.st # "NONE"
  PROVE  Consistent'
<1>1. CASE CanWriteR(l, new)
  <2>1. StoreR(l, new) /\ Done(l) /\ rref[l]
    BY <1>1 DEF ReapWriteLast, CanWriteR
  <2>2. sweep'.step = "pick" /\ Forget(l)
    BY <2>1, SweepPicks
  <2>3. QED
    BY <1>1, <2>1, <2>2, ReaperStoresAndForgets
<1>2. CASE ~CanWriteR(l, new)
  BY <1>2, ReaperEnds DEF ReapWriteLast
<1>3. QED
  BY <1>1, <1>2

LEMMA CancelOrphansConsistent ==
  ASSUME TypeOK, Consistent, NEW l \in Lease, CancelOrphans(l)
  PROVE  Consistent'
<1>1. ASSUME NEW good, OrphanEnds(l, good)
      PROVE  sweep'.step = "list" /\ Forget(l)
  BY <1>1 DEF OrphanEnds, TypeOK
<1>2. ASSUME NEW step, OrphanStep(step, l)
      PROVE  sweep'.step = step /\ sweep'.cur = l
  BY <1>2 DEF OrphanStep, TypeOK
<1>3. CASE DeferPrepared(l)
  <2>1. sweep'.step = "list" /\ Forget(l) /\ UNCHANGED <<lease, ctl>>
    BY <1>3 DEF DeferPrepared, TypeOK, store
  <2>2. QED
    BY <2>1, ReaperForgets
<1>4. CASE OrphanIntent(l)
  <2> DEFINE new == Rec!CancelIntent(lease[l])
  <2>1. CASE docs[l].cancelling
    BY <1>2, <1>4, <2>1, ReaperMoves DEF OrphanIntent, memory
  <2>2. CASE ~docs[l].cancelling /\ CanWriteR(l, new)
    <3>1. CommitR(l, new) /\ OrphanStep("orphanLedger", l) /\ UNCHANGED rref
      BY <1>4, <2>2 DEF OrphanIntent
    <3>2. /\ rref[l] /\ lease[l] \in Rec!Leases /\ Rec!Valid(lease[l])
          /\ lease[l].st \in Rec!Unresolved /\ lease[l].st # "NONE"
      BY <2>2, WritesR
    <3>3. new \in Rec!Leases
      BY <3>2, RecordTypes
    <3>4. Rec!Valid(new)
      BY <3>2, ValidWrites
    <3>5. new.st = lease[l].st
      BY <3>2 DEF Rec!CancelIntent, Rec!Leases
    <3> HIDE DEF new
    <3>6. sweep'.step = "orphanLedger"
      BY <1>2, <3>1
    <3>7. QED
      BY <3>1, <3>2, <3>3, <3>4, <3>5, <3>6, ReaperCommits
  <2>3. CASE ~docs[l].cancelling /\ ~CanWriteR(l, new)
    BY <1>1, <1>4, <2>3, ReaperForgets DEF OrphanIntent
  <2>4. QED
    BY <2>1, <2>2, <2>3
<1>5. CASE OrphanLedger(l)
  <2>1. UNCHANGED <<lease, ctl>>
    BY <1>5 DEF OrphanLedger
  <2>2. \/ OrphanStep("orphanClose", l) /\ UNCHANGED memory
        \/ OrphanEnds(l, FALSE)
    BY <1>5 DEF OrphanLedger
  <2>3. CASE OrphanStep("orphanClose", l) /\ UNCHANGED memory
    BY <1>2, <2>1, <2>3, ReaperMoves DEF memory
  <2>4. CASE OrphanEnds(l, FALSE)
    BY <1>1, <2>1, <2>4, ReaperForgets
  <2>5. QED
    BY <2>2, <2>3, <2>4
<1>6. CASE OrphanClose(l)
  <2> DEFINE new == Rec!CancelPrepared(lease[l])
  <2>1. CASE CanWriteR(l, new)
    <3>1. StoreR(l, new) /\ OrphanEnds(l, TRUE)
      BY <1>6, <2>1 DEF OrphanClose
    <3>2. /\ rref[l] /\ lease[l] \in Rec!Leases /\ Rec!Valid(lease[l])
          /\ lease[l].st # "NONE"
      BY <2>1, WritesR
    <3>3. new \in Rec!Leases
      BY <3>2, RecordTypes
    <3>4. Rec!Valid(new)
      BY <3>2, ValidWrites
    <3>5. new.st = "TERMINAL"
      BY <3>2 DEF Rec!CancelPrepared, Rec!Leases
    <3> HIDE DEF new
    <3>6. sweep'.step = "list" /\ Forget(l)
      BY <1>1, <3>1
    <3>7. QED
      BY <3>1, <3>2, <3>3, <3>4, <3>5, <3>6, ReaperStoresAndForgets
  <2>2. CASE ~CanWriteR(l, new)
    BY <1>1, <1>6, <2>2, ReaperForgets DEF OrphanClose
  <2>3. QED
    BY <2>1, <2>2
<1>7. QED
  BY <1>3, <1>4, <1>5, <1>6 DEF CancelOrphans

LEMMA SweepConsistent ==
  ASSUME TypeOK, Consistent,
         SweepBegin \/ SweepList \/ SweepOutage \/ SweepEnd \/ ReaperDies
  PROVE  Consistent'
<1>1. CASE SweepBegin
  <2> DEFINE open == {l \in Lease : lease[l].st \in Rec!Unresolved}
  <2>1. \A l \in Lease : /\ rref'[l] <=> l \in open
                         /\ l \in open => docs'[l] = lease[l]
    BY <1>1 DEF SweepBegin
  <2>2. sweep'.step = "list" /\ UNCHANGED <<lease, ctl>>
    BY <1>1 DEF SweepBegin, store
  <2>3. ReaperRefs'
    BY <2>1, <2>2 DEF ReaperRefs
  <2>4. QED
    BY <2>2, <2>3 DEF Consistent, Recorded, NotBegun, ControllerRefs,
                      SettlesAbsent
<1>2. CASE SweepList
  BY <1>2, ReaperGoes DEF SweepList, store
<1>3. CASE SweepOutage
  <2>1. sweep'.step = "pick" /\ UNCHANGED <<lease, ctl, rref, docs>>
    BY <1>3 DEF SweepOutage, TypeOK, store, memory
  <2>2. QED
    BY <2>1, ReaperMoves
<1>4. CASE SweepEnd \/ ReaperDies
  <2>1. /\ \A l \in Lease : ~rref'[l]
        /\ sweep'.step = "idle" /\ UNCHANGED <<lease, ctl>>
    BY <1>4 DEF SweepEnd, ReaperDies, ForgetSweep, Idle, store
  <2>2. QED
    BY <2>1 DEF Consistent, Recorded, NotBegun, ControllerRefs, ReaperRefs,
                SettlesAbsent
<1>5. QED
  BY <1>1, <1>2, <1>3, <1>4

LEMMA VisitConsistent ==
  ASSUME TypeOK, Consistent, NEW l \in Lease, Visit(l)
  PROVE  Consistent'
<1>1. docs[l] \in Rec!Leases /\ seen.ids \in SUBSET Pod
  BY DEF TypeOK
<1>2. rref[l] => /\ docs[l] = lease[l] /\ Rec!Valid(docs[l])
                 /\ docs[l].st \in Rec!Unresolved /\ docs[l].st # "NONE"
  BY DEF Consistent, Recorded, ReaperRefs, Rec!Unresolved
<1>3. ASSUME NEW new, CanWriteR(l, new)
      PROVE  /\ rref[l] /\ docs[l] = lease[l]
             /\ Rec!Valid(docs[l]) /\ docs[l].st # "NONE"
             /\ Rec!MayWrite(docs[l], new)
  BY <1>2, <1>3 DEF CanWriteR
<1>4. CASE Pick(l)
  <2>1. sweep'.step = "visit" /\ UNCHANGED <<lease, ctl, rref, docs>>
    BY <1>4 DEF Pick, TypeOK, store, memory
  <2>2. QED
    BY <2>1, ReaperMoves
<1>5. CASE VisitMoved(l) \/ VisitHeld(l) \/ VisitUnconfirmable(l)
           \/ VisitLive(l) \/ BillingPending(l)
  <2>1. (Done(l) \/ Fail(l)) /\ UNCHANGED <<lease, ctl>>
    BY <1>5 DEF VisitMoved, VisitHeld, VisitUnconfirmable, VisitLive,
                BillingPending, ReadOnly, store
  <2>2. QED
    BY <2>1, ReaperEnds
<1>6. CASE VisitExpired(l) \/ ReleaseExpired(l) \/ ReapDelete(l)
           \/ ReapRelist(l) \/ ReapFinalize(l)
  <2>1. UNCHANGED <<lease, ctl>>
    BY <1>6 DEF VisitExpired, ReleaseExpired, ReapDelete, ReapRelist,
                ReapFinalize, ReadOnly, store
  <2>2. \/ Fail(l) \/ Go("expire") \/ Go("expireClose") \/ Go("relist")
        \/ Go("confirm") \/ Go("close")
    BY <1>6 DEF VisitExpired, ReleaseExpired, ReapDelete, ReapRelist,
                ReapFinalize
  <2>3. QED
    BY <2>1, <2>2, ReaperGoes, ReaperEnds
<1>7. CASE VisitRevoke(l)
  <2> DEFINE new == Rec!AbsenceRevoked(docs[l])
  <2>1. ReapWrite(l, new, "visit") /\ sweep.cur = l
        /\ docs[l].st = "ABSENCE_CONFIRMED"
    BY <1>7 DEF VisitRevoke, Visiting
  <2>2. new \in Rec!Leases
    BY <1>1, RecordTypes
  <2>3. CanWriteR(l, new) => Rec!Valid(new)
    BY <1>1, <1>3, <2>1, ValidWrites
  <2>4. new.st \in Rec!Unresolved
    BY <1>1 DEF Rec!AbsenceRevoked, Rec!Leases, Rec!Unresolved
  <2> HIDE DEF new
  <2>5. QED
    BY <2>1, <2>2, <2>3, <2>4, ReapWriteConsistent
<1>8. CASE VisitCreating(l)
  <2>1. sweep.cur = l /\ docs[l].st = "CREATING" /\ rref[l]
    BY <1>8 DEF VisitCreating, Visiting
  <2>2. CASE AnswerUsable(l)
    <3>1. ReapWrite(l, ByReaper(l), "visit")
          /\ LostByReaper(l) \notin {"expired", "zero"}
      BY <1>8, <2>2 DEF VisitCreating
    <3>2. AnsweredOnlyInLedger(l) \in SUBSET Pod
      BY DEF TypeOK, AnsweredOnlyInLedger, Att!Attempts
    <3>3. Reconciled(ByReaper(l), LostByReaper(l),
                     Own(l) \cup AnsweredOnlyInLedger(l))
      BY <1>1, <1>2, <2>1, <3>2, ValidByReaper
    <3>4. LostByReaper(l) # "rejected"
      BY DEF LostByReaper, Rec!LostOutcome
    <3>5. /\ ByReaper(l) \in Rec!Leases /\ Rec!Valid(ByReaper(l))
          /\ ByReaper(l).st \in Rec!Unresolved
      BY <3>1, <3>3, <3>4 DEF Reconciled
    <3>6. QED
      BY <2>1, <3>1, <3>5, ReapWriteConsistent
  <2>3. CASE ~AnswerUsable(l)
    <3>1. Fail(l) /\ UNCHANGED <<lease, ctl>>
      BY <1>8, <2>3 DEF VisitCreating, ReadOnly, store
    <3>2. QED
      BY <3>1, ReaperEnds
  <2>4. QED
    BY <2>2, <2>3
<1>9. CASE VisitWaiting(l)
  <2>1. docs[l].st = "CREATING" /\ rref[l] /\ ReapWriteLast(l, ByReaper(l))
    BY <1>9 DEF VisitWaiting, Visiting
  <2>2. AnsweredOnlyInLedger(l) \in SUBSET Pod
    BY DEF TypeOK, AnsweredOnlyInLedger, Att!Attempts
  <2>3. Reconciled(ByReaper(l), LostByReaper(l),
                   Own(l) \cup AnsweredOnlyInLedger(l))
    BY <1>1, <1>2, <2>1, <2>2, ValidByReaper
  <2>4. /\ ByReaper(l) \in Rec!Leases /\ Rec!Valid(ByReaper(l))
        /\ ByReaper(l).st # "NONE"
    BY <2>3 DEF Reconciled
  <2>5. QED
    BY <2>1, <2>4, ReapWriteLastConsistent
<1>10. CASE CloseExpired(l)
  <2> DEFINE new == [docs[l] EXCEPT !.st = "TERMINAL", !.proof = "expired"]
  <2>1. ReapWriteLast(l, new)
    BY <1>10 DEF CloseExpired
  <2>2. new \in Rec!Leases
    BY <1>1, RecordTypes
  <2>3. CanWriteR(l, new) => Rec!Valid(new)
    BY <1>1, <1>3, ValidWrites
  <2>4. new.st = "TERMINAL"
    BY <1>1 DEF Rec!Leases
  <2> HIDE DEF new
  <2>5. QED
    BY <2>1, <2>2, <2>3, <2>4, ReapWriteLastConsistent
<1>11. CASE VisitAmbiguous(l) \/ VisitDestroy(l)
  <2> DEFINE new == Rec!RequestDestroy(docs[l])
  <2>1. /\ ReapWrite(l, new, "visit") /\ sweep.cur = l
        /\ docs[l].st \in {"AMBIGUOUS", "ACTIVE"}
        /\ docs[l].st = "AMBIGUOUS" => docs[l].ids # {}
    BY <1>11 DEF VisitAmbiguous, VisitDestroy, Visiting, Targeted
  <2>2. new \in Rec!Leases
    BY <1>1, RecordTypes
  <2>3. CanWriteR(l, new) => Rec!Valid(new)
    <3>1. SUFFICES ASSUME CanWriteR(l, new) PROVE Rec!Valid(new)
      OBVIOUS
    <3>2. Rec!Valid(docs[l]) /\ docs[l].st # "NONE"
          /\ Rec!MayWrite(docs[l], new)
      BY <1>3, <3>1
    <3>3. docs[l].ids # {}
      <4> HIDE DEF new
      <4>1. QED
        BY <2>1, <3>2 DEF Rec!Valid
    <3>4. QED
      BY <1>1, <2>1, <3>2, <3>3, ValidWrites
  <2>4. new.st \in Rec!Unresolved
    BY <1>1 DEF Rec!RequestDestroy, Rec!Leases, Rec!Unresolved
  <2> HIDE DEF new
  <2>5. QED
    BY <2>1, <2>2, <2>3, <2>4, ReapWriteConsistent
<1>12. CASE VisitNotListed(l)
  <2> DEFINE new == Rec!AbsenceChecked(docs[l], seen.ids)
  <2>1. ReapWrite(l, new, "settle") /\ sweep.cur = l /\ Rec!MayConfirm(docs[l])
        /\ docs[l].ids \cap seen.ids = {}
    BY <1>12 DEF VisitNotListed, Targeted, ReapAbsence, Present
  <2>2. new \in Rec!Leases
    BY <1>1, AbsenceCheckedType
  <2>3. CanWriteR(l, new) => Rec!Valid(new)
    BY <1>1, <1>3, <2>1, ValidAbsence
  <2>4. new.st = "ABSENCE_CONFIRMED"
    BY <1>1, <2>1 DEF Rec!AbsenceChecked, Rec!Leases
  <2> HIDE DEF new
  <2>5. QED
    BY <2>1, <2>2, <2>3, <2>4, ReapWriteConsistent DEF Rec!Unresolved
<1>13. CASE ReapConfirm(l)
  <2> DEFINE new == Rec!AbsenceChecked(docs[l], seen.fresh)
  <2>1. CASE ~Rec!MayConfirm(docs[l]) \/ ~CanWriteR(l, new)
    <3>1. Fail(l) /\ UNCHANGED <<lease, ctl>>
      BY <1>13, <2>1 DEF ReapConfirm
    <3>2. QED
      BY <3>1, ReaperEnds
  <2>2. CASE Rec!MayConfirm(docs[l]) /\ CanWriteR(l, new)
    <3>1. \/ /\ CommitR(l, new) /\ Step("settle") /\ UNCHANGED rref
             /\ new.st = "ABSENCE_CONFIRMED"
          \/ StoreR(l, new) /\ Fail(l)
      BY <1>13, <2>2 DEF ReapConfirm
    <3>2. sweep.cur = l
      BY <1>13 DEF ReapConfirm
    <3>3. /\ rref[l] /\ Rec!Valid(docs[l]) /\ docs[l].st # "NONE"
          /\ Rec!MayWrite(docs[l], new)
      BY <1>3, <2>2
    <3>4. new \in Rec!Leases
      BY <1>1, AbsenceCheckedType
    <3>5. Rec!Valid(new)
      BY <1>1, <2>2, <3>3, ValidAbsence
    <3>6. new.st # "NONE"
      BY <1>1, <3>3 DEF Rec!AbsenceChecked, Rec!Leases
    <3> HIDE DEF new
    <3>7. CASE /\ CommitR(l, new) /\ Step("settle") /\ UNCHANGED rref
               /\ new.st = "ABSENCE_CONFIRMED"
      <4>1. sweep'.step = "settle" /\ sweep'.cur = l
        BY <3>2, <3>7, SweepStep
      <4>2. QED
        BY <3>3, <3>4, <3>5, <3>7, <4>1, ReaperCommits DEF Rec!Unresolved
    <3>8. CASE StoreR(l, new) /\ Fail(l)
      <4>1. sweep'.step = "pick" /\ Forget(l)
        BY <3>8, SweepPicks
      <4>2. QED
        BY <3>3, <3>4, <3>5, <3>6, <3>8, <4>1, ReaperStoresAndForgets
    <3>9. QED
      BY <3>1, <3>7, <3>8
  <2>3. QED
    BY <2>1, <2>2
<1>14. CASE ReapStage(l)
  <2> DEFINE new == Rec!StageBilling(docs[l])
  <2>1. ReapWrite(l, new, "finalize") /\ sweep.cur = l
        /\ docs[l].st = "ABSENCE_CONFIRMED"
    BY <1>14 DEF ReapStage, Settling, Visiting, Consistent, SettlesAbsent
  <2>2. new \in Rec!Leases
    BY <1>1, RecordTypes
  <2>3. CanWriteR(l, new) => Rec!Valid(new)
    BY <1>1, <1>3, <2>1, ValidWrites
  <2>4. new.st \in Rec!Unresolved
    BY <1>1, <2>1 DEF Rec!StageBilling, Rec!Leases, Rec!Unresolved
  <2> HIDE DEF new
  <2>5. QED
    BY <2>1, <2>2, <2>3, <2>4, ReapWriteConsistent
<1>15. CASE ReapClose(l)
  <2> DEFINE new == Rec!BillingRecorded(docs[l])
  <2>1. ReapWriteLast(l, new)
    BY <1>15 DEF ReapClose
  <2>2. new \in Rec!Leases
    BY <1>1, RecordTypes
  <2>3. CanWriteR(l, new) => Rec!Valid(new)
    BY <1>1, <1>3, ValidWrites
  <2>4. new.st = "TERMINAL"
    BY <1>1 DEF Rec!BillingRecorded, Rec!Leases
  <2> HIDE DEF new
  <2>5. QED
    BY <2>1, <2>2, <2>3, <2>4, ReapWriteLastConsistent
<1>16. QED
  BY <1>4, <1>5, <1>6, <1>7, <1>8, <1>9, <1>10, <1>11, <1>12, <1>13, <1>14,
     <1>15 DEF Visit

LEMMA EnvironmentConsistent ==
  ASSUME Consistent, Environment \/ UNCHANGED vars
  PROVE  Consistent'
<1>1. UNCHANGED <<lease, ctl, rref, docs, sweep>>
  BY DEF Environment, Appears, Exits, Vanishes, StrangerArrives, Provider,
         WindowCloses, WindowExpires, ReapDeadlinePasses, AbsenceAges, Tick,
         store, reaper, vars
<1>2. QED
  BY <1>1, ConsistentFrame

LEMMA NextConsistent ==
  ASSUME TypeOK, Consistent, [Next]_vars
  PROVE  Consistent'
  BY ControllerConsistent, SweepConsistent, CancelOrphansConsistent,
     VisitConsistent, EnvironmentConsistent DEF Next

LEMMA InitConsistent == Init => Consistent
<1>1. SUFFICES ASSUME Init PROVE Consistent
  OBVIOUS
<1>2. Rec!Valid(Rec!Unborn) /\ Rec!Unborn.st = "NONE"
  BY DEF Rec!Valid, Rec!Unborn
<1>3. \A l \in Lease : /\ lease[l] = Rec!Unborn /\ ~rref[l]
                       /\ ctl[l].at = "idle" /\ ~ctl[l].ref
  BY <1>1 DEF Init, NoDocs
<1>4. sweep.step = "idle"
  BY <1>1 DEF Init, Idle
<1>5. QED
  BY <1>2, <1>3, <1>4 DEF Consistent, Recorded, NotBegun, ControllerRefs,
                          ReaperRefs, SettlesAbsent

(* Every lease file is valid at every moment, so the validator inside       *)
(* LeaseStore.transition never refuses a write of a cleanup under way.      *)
THEOREM RecordsStayValid == Spec => []RecordsValid
<1>1. Init => TypeOK /\ Consistent
  BY InitType, InitConsistent
<1>2. TypeOK /\ Consistent /\ [Next]_vars => (TypeOK /\ Consistent)'
  BY NextType, NextConsistent
<1>3. Consistent => RecordsValid
  BY DEF Consistent, Recorded, RecordsValid
<1>4. QED
  BY <1>1, <1>2, <1>3, PTL DEF Spec
=============================================================================
