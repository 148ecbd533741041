---------------------- MODULE CloudLeaseCovered_proofs ----------------------
(***************************************************************************)
(* An attempt that bills is open and its money held, a lease is closed and *)
(* the money given back only when nothing of the attempt bills or can bill *)
(* any more: CloudLease implements PaidAttempt, for any number of attempts,*)
(* retries, pods, strangers and crashes.  Two conditions are needed, and   *)
(* named below: OnePodPerPost and Punctual.  The last part is about what a *)
(* proven absence means: ABSENCE_CONFIRMED is true of the ids it names, and*)
(* the ledger can take its projection.                                     *)
(*                                                                         *)
(* The two files, the controllers, the reaper and the provider change one  *)
(* at a time.  The first part of the module says, for each of them, which  *)
(* operations change it and how; the invariants are proved from that.      *)
(***************************************************************************)
EXTENDS CloudLeaseSettled_proofs, FiniteSetTheorems

(* What has been written stays written: the stage a record has reached, its *)
(* pre-create listing and its two marks.                                    *)
Posted == Rec!States \ {"PREPARED"}

Follows(r, new) ==
  /\ r.st # "NONE" =>
       /\ \A stage \in {Rec!States, Posted, Late} : r.st \in stage => new.st \in stage
       /\ new.pre = r.pre
  /\ r.cancelling => new.cancelling
  /\ r.closedOnce => new.closedOnce

(* The reaper's copies are former records. *)
Former == \A l \in Lease : Follows(docs[l], lease[l])

(* The steps of a controller that has not sent its POST, and those of them  *)
(* at which nothing is posted, nothing reserved.                            *)
Early == {"idle", "observed", "prepared", "reserved", "creating"}
Unreserved == {"idle", "observed", "prepared"}

(* The POST of this attempt may still come. *)
MayPost(l) ==
  \/ ctl[l].at \in Early
  \/ ctl[l].at = "intent" /\ ctl[l].ref /\ lease[l].st = "CREATING"

Unbilled(l) == \A p \in Own(l) : ~Billed(p)

(* Nothing of the attempt bills, nor ever will. *)
Over(l) == ~MayPost(l) /\ Unbilled(l)

(* The ledger holds no money for the attempt, nor ever will again. *)
Free(l) == ~Att!Held(attempt[l]) /\ ctl[l].at \notin Unreserved

Orphaned == {"orphanLedger", "orphanClose"}
Expiring == {"expire", "expireClose"}

(* The phases of an attempt that has a pod, and those it may get one in. *)
Binding == {"LIVE", "TERMINATE_REQUIRED", "TERMINATE_REQUESTED"}
Bindable == {"CREATING"} \cup Binding

(* What the files say before the POST. *)
Begun ==
  \A l \in Lease :
    /\ ctl[l].at \in {"prepared", "reserved", "creating", "cancelIntent"}
         => lease[l].st = "PREPARED"
    /\ ctl[l].at \in Unreserved => attempt[l].phase = "NONE"
    /\ ctl[l].at \in {"reserved", "creating", "intent"}
         => attempt[l].phase # "NONE"
    /\ attempt[l].bound # {} => attempt[l].phase \in Binding \cup {"RECONCILED"}

(* What the reaper's step says about the lease at hand. *)
AtHand ==
  \A l \in Lease : sweep.cur = l =>
    /\ sweep.step \notin {"idle", "list", "pick"}
    /\ sweep.step \in Orphaned => docs[l].cancelling /\ ctl[l].at = "end"
    /\ sweep.step \in Expiring => docs[l].st = "CREATING"

(* A lease closed by expiry, cancellation or settlement holds no money, nor *)
(* does one whose close is the next step.                                   *)
Freed ==
  \A l \in Lease :
    /\ lease[l].proof \in {"expired", "cancelled", "settled"} => Free(l)
    /\ ctl[l].at \in {"cancelClose", "close"} => Free(l)
    /\ sweep.cur = l /\ sweep.step \in {"orphanClose", "expireClose", "close"}
         => Free(l)

(* No pod exists before the POST, nor of a lease that is being cancelled or *)
(* of which the ledger has heard nothing; a cancellation and a conclusion   *)
(* that nothing was created both exclude the POST.                          *)
Unposted ==
  \A l \in Lease :
    /\ MayPost(l) \/ lease[l].st \in {"NONE", "PREPARED"} \/ lease[l].cancelling
       \/ attempt[l].phase = "NONE" => Own(l) = {}
    /\ lease[l].cancelling \/ lease[l].closedOnce => ~MayPost(l)
    /\ ctl[l].at \in {"cancelLedger", "cancelClose"} => lease[l].cancelling

(* A POST creates one pod, and none that the pre-create listing shows. *)
OnePod == \A l \in Lease : \A p, q \in Own(l) : p = q

Fresh ==
  \A l \in Lease :
    /\ \A p \in ctl[l].look \cup lease[l].pre : pod[p] # "none"
    /\ lease[l].pre \cap Own(l) = {}

(* Nothing hides once the lost-create expiry has passed. *)
Expired ==
  /\ ~Lag => \A p \in Pod : pod[p] # "hidden"
  /\ \A l \in Lease : clock[l].win = "expired" \/ asof[l].win = "expired" =>
       /\ NoneHidden(l)
       /\ PromptPost => ctl[l].at \notin Early \cup {"intent"}

(* The sweep's listing of an expired create shows what bills. *)
Unlisted == {"idle", "list"} \cup Orphaned

SeenAll ==
  \A l \in Lease :
    /\ sweep.step \notin Unlisted /\ (l \in sweep.todo \/ l = sweep.cur)
    /\ docs[l].closedOnce /\ asof[l].win = "expired"
    => \A p \in Own(l) : Billed(p) => p \in seen.ids

(* Whoever has closed an attempt, released its money or is about to, does so*)
(* when it is over.                                                         *)
Concluded ==
  \A l \in Lease :
    /\ lease[l].st = "TERMINAL" \/ Att!Released(attempt[l]) => Over(l)
    /\ ctl[l].at \in {"refused", "refusedLook", "release", "close"} => Over(l)
    /\ sweep.cur = l /\ sweep.step \in Expiring \cup {"close"} => Over(l)

(* A controller about to delete has a durable intent. *)
Intended ==
  \A l \in Lease : ctl[l].at \in {"bindCleanup", "request", "delete", "ambDelete"}
                     => lease[l].st \in Late

(* The two conditions under which an attempt is covered, beyond those of the*)
(* program itself.  A POST that creates several pods under one name may     *)
(* hide some of them until after the lease was closed on the others; and a  *)
(* POST sent after the lost-create expiry may create a pod that no listing  *)
(* shows before the expiry is decided.                                      *)
OnePodPerPost == MaxPerPost = 1 /\ IsFiniteSet(Pod)
Punctual == PromptPost \/ ~Lag

(* One attempt of a job is open at a time. *)
Rivalless ==
  \A k, l \in Lease : JobOf[k] = JobOf[l] /\ lease[k].st \in Rec!Unresolved
                        /\ lease[l].st \in Rec!Unresolved => k = l

-----------------------------------------------------------------------------
(* What the operations of LeaseRecord leave alone. *)

(* A record that tends the pods of an attempt changes neither the evidence  *)
(* of its create nor whether it is open.                                    *)
Tends(r, new) ==
  /\ new.st \in {"ACTIVE", "AMBIGUOUS", "DESTROYING", "ABSENCE_CONFIRMED"}
  /\ new.pre = r.pre
  /\ new.cancelling = r.cancelling /\ new.closedOnce = r.closedOnce

LEMMA OperationsTend ==
  ASSUME NEW r \in Rec!Leases, Rec!Valid(r), r.st # "NONE"
  PROVE  /\ \A p : Tends(r, Rec!CreateSuccess(r, p))
         /\ Tends(r, Rec!RequestDestroy(r))
         /\ Tends(r, Rec!AbsenceRevoked(r))
         /\ r.st = "ABSENCE_CONFIRMED" => Tends(r, Rec!StageBilling(r))
         /\ r.st = "ACTIVE" => Tends(r, r)
         /\ \A listing : Rec!MayConfirm(r)
                         /\ Rec!MayWrite(r, Rec!AbsenceChecked(r, listing))
                           => Tends(r, Rec!AbsenceChecked(r, listing))
         /\ \A listing, own, known :
              r.st = "ACTIVE"
                => Tends(r, Rec!PostCreateBound(r, listing, own, known))
<1> USE DEF Tends, Rec!Leases
<1>1. /\ \A p : Tends(r, Rec!CreateSuccess(r, p))
      /\ Tends(r, Rec!RequestDestroy(r))
      /\ Tends(r, Rec!AbsenceRevoked(r))
      /\ r.st = "ABSENCE_CONFIRMED" => Tends(r, Rec!StageBilling(r))
      /\ r.st = "ACTIVE" => Tends(r, r)
  BY DEF Rec!CreateSuccess, Rec!RequestDestroy, Rec!AbsenceRevoked,
         Rec!StageBilling
<1>2. ASSUME NEW listing, Rec!MayConfirm(r),
             Rec!MayWrite(r, Rec!AbsenceChecked(r, listing))
      PROVE  Tends(r, Rec!AbsenceChecked(r, listing))
  <2>1. r.st \in {"ACTIVE", "AMBIGUOUS", "DESTROYING", "ABSENCE_CONFIRMED",
                  "TERMINAL"}
    BY <1>2 DEF Rec!MayConfirm, Rec!Valid, Rec!States, Rec!Unresolved
  <2>2. r.st # "TERMINAL"
    BY <1>2 DEF Rec!MayWrite, Rec!Allowed
  <2>3. QED
    BY <2>1, <2>2 DEF Rec!AbsenceChecked
<1>3. ASSUME NEW listing, NEW own, NEW known, r.st = "ACTIVE"
      PROVE  Tends(r, Rec!PostCreateBound(r, listing, own, known))
  BY <1>3 DEF Rec!PostCreateBound, Rec!Ambiguous
<1>4. QED
  BY <1>1, <1>2, <1>3

(* What reconcile_response_lost may write about a CREATING lease. *)
Rejected(r) == [r EXCEPT !.st = "TERMINAL", !.proof = "rejected"]
Expiration(r) == [r EXCEPT !.st = "TERMINAL", !.proof = "expired"]
Noted(r, closed) == [r EXCEPT !.closedOnce = @ \/ closed]

LEMMA LostWrites ==
  ASSUME NEW r \in Rec!Leases, NEW listing, NEW own, NEW answered, NEW known,
         NEW rejected, NEW closed, NEW aged
  PROVE  LET outcome == Rec!LostOutcome(r, listing, own, answered, known,
                                        rejected, closed, aged)
             new == Rec!LostReconciled(r, listing, own, answered, known, closed,
                                       outcome)
         IN  \/ outcome \in {"one", "ambiguous"} /\ Tends(r, new)
             \/ outcome = "rejected" /\ rejected /\ new = Rejected(r)
             \/ /\ outcome = "expired" /\ closed /\ aged /\ r.closedOnce
                /\ new = Expiration(r)
                /\ Rec!LostCandidates(r, listing, own, answered) = {}
             \/ outcome = "zero" /\ new = Noted(r, closed)
<1> DEFINE candidates == Rec!LostCandidates(r, listing, own, answered)
           exact == (listing \ r.pre) \cap own
           blockers == Rec!Blockers(r, listing, own, known) \ answered
           outcome == Rec!LostOutcome(r, listing, own, answered, known,
                                      rejected, closed, aged)
           new == Rec!LostReconciled(r, listing, own, answered, known, closed,
                                     outcome)
<1>1. outcome =
        IF exact = candidates /\ blockers = {}
           /\ \E p \in Pod : candidates = {p}    THEN "one"
        ELSE IF candidates # {} \/ blockers # {} THEN "ambiguous"
        ELSE IF rejected                        THEN "rejected"
        ELSE IF closed /\ r.closedOnce /\ aged  THEN "expired"
        ELSE "zero"
  BY DEF Rec!LostOutcome
<1>2. outcome \in {"one", "ambiguous", "rejected", "expired", "zero"}
  BY LostOutcomes
<1>r. /\ outcome = "rejected" => rejected
      /\ outcome = "expired" => /\ closed /\ aged /\ r.closedOnce
                                /\ candidates = {}
  <2> HIDE DEF candidates, exact, blockers, outcome
  <2>1. QED
    BY <1>1
<1>3. outcome \in {"one", "ambiguous"} => Tends(r, new)
  BY DEF Rec!LostReconciled, Rec!Ambiguous, Tends, Rec!Leases
<1>4. /\ outcome = "rejected" => new = Rejected(r)
      /\ outcome = "expired" => new = Expiration(r)
      /\ outcome = "zero" => new = Noted(r, closed)
  BY DEF Rec!LostReconciled, Rejected, Expiration, Noted
<1> HIDE DEF candidates, exact, blockers, outcome, new
<1>5. QED
  BY <1>2, <1>r, <1>3, <1>4 DEF candidates, outcome, new

-----------------------------------------------------------------------------
(* The operations of an attempt change that attempt's part of every file    *)
(* and every process.                                                       *)

Elsewhere(l) ==
  \A k \in Lease \ {l} : /\ lease'[k] = lease[k] /\ attempt'[k] = attempt[k]
                         /\ ctl'[k] = ctl[k] /\ docs'[k] = docs[k]
                         /\ asof'[k] = asof[k]

LEMMA ControllerElsewhere ==
  ASSUME TypeOK, NEW l \in Lease, Controller(l) \/ ControllerDies(l)
  PROVE  Elsewhere(l) /\ UNCHANGED <<sweep, docs, asof, seen>>
<1> USE DEF CommitC, SetAttempt, Goto, Look, Take, store, reaper
<1>1. CASE BeforePost(l) \/ ControllerDies(l)
  BY <1>1 DEF TypeOK, Elsewhere, BeforePost, ControllerDies, ObserveAccount,
         BeginCreate, BeginRefused, Reserve, MarkCreating, PostIntent,
         AbandonBeforePost, CancelIntent, CancelLedger, LedgerCancels,
         CancelClose
<1>2. CASE Post(l)
  BY <1>2 DEF TypeOK, Elsewhere, Post, Submit, SubmitNothing, SubmitConflict,
         RecordCreated, RecordFails, BindReturnedId
<1>3. CASE AfterLoss(l)
  BY <1>3 DEF TypeOK, Elsewhere, AfterLoss, LookAfterLoss, InventoryUnavailable,
         ReconcileLost, BindLossIds, ReleaseRejected
<1>4. CASE Qualify(l)
  BY <1>4 DEF TypeOK, Elsewhere, Qualify, ObserveCreated, RunFails, BindInventory,
         BindDelta, Attest, BindQuote, WorkEnds
<1>5. CASE TearDown(l)
  BY <1>5 DEF TypeOK, Elsewhere, TearDown, ExitWorkload, RecordDestroyIntent,
         BindCleanup, RequestTermination, Delete, LookForAbsence,
         ConfirmAbsence, GiveUp, SettleBilling, FinalizeCampaign, CloseLease,
         AmbiguousDestroy, AmbiguousDelete, AmbiguousConfirm, LeaveCleanup
<1>6. QED
  BY <1>1, <1>2, <1>3, <1>4, <1>5 DEF Controller

(* The reaper does the same; of the controller it changes the reference. *)
LEMMA ReaperElsewhere ==
  ASSUME TypeOK, NEW l \in Lease, CancelOrphans(l) \/ Visit(l)
  PROVE  /\ Elsewhere(l)
         /\ ctl'[l].at = ctl[l].at /\ ctl'[l].look = ctl[l].look
         /\ ctl'[l].ref => ctl[l].ref
         /\ lease'[l] # lease[l] => ~ctl'[l].ref
<1>1. /\ Elsewhere(l)
      /\ \/ UNCHANGED <<lease, ctl>>
         \/ ctl' = [ctl EXCEPT ![l].ref = FALSE]
  <2> USE DEF TypeOK, Elsewhere, StoreR, CommitR, SetAttempt, Forget, Fail, Done,
              Go, memory, store
  <2>1. CASE CancelOrphans(l)
    BY <2>1 DEF CancelOrphans, DeferPrepared, OrphanIntent, OrphanLedger,
           LedgerCancels, OrphanClose, OrphanEnds
  <2>2. CASE Pick(l) \/ VisitMoved(l) \/ VisitExpired(l) \/ ReleaseExpired(l)
             \/ VisitHeld(l) \/ VisitUnconfirmable(l) \/ VisitLive(l)
             \/ ReapDelete(l) \/ ReapRelist(l) \/ BillingPending(l)
             \/ ReapFinalize(l)
    BY <2>2 DEF Pick, VisitMoved, VisitExpired, ReleaseExpired, VisitHeld,
           VisitUnconfirmable, VisitLive, ReapDelete, ReapRelist,
           BillingPending, ReapFinalize, ReadOnly
  <2>3. CASE VisitRevoke(l) \/ VisitAmbiguous(l) \/ VisitDestroy(l)
             \/ ReapStage(l) \/ VisitNotListed(l) \/ VisitCreating(l)
    BY <2>3 DEF VisitRevoke, VisitAmbiguous, VisitDestroy, ReapStage,
           VisitNotListed, VisitCreating, ReapAbsence, ReapWrite, ReadOnly
  <2>4. CASE VisitWaiting(l) \/ CloseExpired(l) \/ ReapClose(l) \/ ReapConfirm(l)
    BY <2>4 DEF VisitWaiting, CloseExpired, ReapClose, ReapConfirm, ReapWriteLast
  <2>5. QED
    BY <2>1, <2>2, <2>3, <2>4 DEF Visit
<1>2. ctl[l] \in Controllers
  BY DEF TypeOK
<1>3. QED
  BY <1>1, <1>2 DEF TypeOK, Controllers

LEMMA SweepElsewhere ==
  ASSUME \/ SweepBegin \/ SweepList \/ SweepOutage \/ SweepEnd \/ ReaperDies
         \/ Environment \/ UNCHANGED vars
  PROVE  UNCHANGED <<lease, attempt, ctl>>
  BY DEF SweepBegin, SweepList, SweepOutage, SweepEnd, ReaperDies, Environment,
         Appears, Exits, Vanishes, StrangerArrives, Provider, WindowCloses,
         WindowExpires, ReapDeadlinePasses, AbsenceAges, Tick, store, vars

-----------------------------------------------------------------------------
(* How a step changes the record of an attempt, and by which operation.     *)

Changes(l) ==
  \/ lease'[l] = lease[l]
  \/ BeginCreate(l)
  \/ /\ lease[l].st # "NONE" /\ lease'[l].st \in Rec!Allowed(lease[l].st)
     /\ \/ PostIntent(l) /\ lease'[l] = Rec!PostIntent(lease[l])
        \/ /\ ctl[l].at = "cancelIntent" \/ OrphanIntent(l)
           /\ lease'[l] = Rec!CancelIntent(lease[l])
        \/ /\ CancelClose(l) \/ OrphanClose(l)
           /\ lease'[l] = Rec!CancelPrepared(lease[l])
        \/ /\ ctl[l].at = "refusedLook" /\ lease[l].st = "CREATING"
           /\ lease'[l] = Rejected(lease[l])
        \/ /\ ~ctl'[l].ref /\ lease[l].st = "CREATING"
           /\ lease'[l] = Noted(lease[l], TRUE)
        \/ CloseExpired(l) /\ lease'[l] = Expiration(lease[l])
        \/ /\ CloseLease(l) \/ ReapClose(l)
           /\ lease'[l] = Rec!BillingRecorded(lease[l])
        \/ Tends(lease[l], lease'[l])

LEMMA CommitIs ==
  ASSUME TypeOK, NEW l \in Lease, NEW new,
         CommitC(l, new) \/ StoreR(l, new) \/ CommitR(l, new)
  PROVE  lease'[l] = new
  BY DEF TypeOK, CommitC, StoreR, CommitR

LEMMA ByControllerChanges ==
  ASSUME TypeOK, Consistent, NEW l \in Lease
  PROVE  \/ Tends(lease[l], ByController(l))
         \/ ctl[l].at = "refusedLook" /\ ByController(l) = Rejected(lease[l])
         \/ ByController(l) = lease[l]
<1>1. PICK r, look, own, no, known, rejected, f :
        /\ r = lease[l] /\ look = ctl[l].look /\ own = Own(l) /\ no = {}
        /\ known = Siblings(l) /\ rejected = (ctl[l].at = "refusedLook")
        /\ f = FALSE
  OBVIOUS
<1> DEFINE outcome == Rec!LostOutcome(r, look, own, no, known, rejected, f, f)
           new == Rec!LostReconciled(r, look, own, no, known, f, outcome)
<1>2. r \in Rec!Leases
  BY <1>1 DEF TypeOK
<1>3. new = ByController(l)
  BY <1>1 DEF ByController
<1>4. \/ Tends(r, new)
      \/ rejected /\ new = Rejected(r)
      \/ f
      \/ new = Noted(r, f)
  BY <1>2, LostWrites
<1>5. Noted(r, f) = r
  BY <1>1, <1>2 DEF Noted, Rec!Leases
<1> HIDE DEF new
<1>6. QED
  BY <1>1, <1>3, <1>4, <1>5

LEMMA ByReaperChanges ==
  ASSUME TypeOK, Consistent, NEW l \in Lease, LostByReaper(l) # "expired"
  PROVE  \/ Tends(docs[l], ByReaper(l))
         \/ ByReaper(l) = docs[l]
         \/ ByReaper(l) = Noted(docs[l], TRUE)
<1>1. PICK r, listing, own, answered, known, rejected, closed, aged :
        /\ r = docs[l] /\ listing = seen.ids /\ own = Own(l)
        /\ answered = AnsweredOnlyInLedger(l) /\ known = {}
        /\ rejected = FALSE /\ closed = (asof[l].win # "open")
        /\ aged = (asof[l].win = "expired")
  OBVIOUS
<1> DEFINE outcome == Rec!LostOutcome(r, listing, own, answered, known,
                                      rejected, closed, aged)
           new == Rec!LostReconciled(r, listing, own, answered, known, closed,
                                     outcome)
<1>2. r \in Rec!Leases /\ closed \in BOOLEAN
  BY <1>1 DEF TypeOK
<1>3. new = ByReaper(l) /\ outcome = LostByReaper(l)
  BY <1>1 DEF ByReaper, LostByReaper
<1>4. \/ Tends(r, new)
      \/ rejected
      \/ outcome = "expired"
      \/ new = Noted(r, closed)
  BY <1>2, LostWrites
<1>5. Noted(r, FALSE) = r
  BY <1>2 DEF Noted, Rec!Leases
<1> HIDE DEF new, outcome
<1>6. QED
  BY <1>1, <1>2, <1>3, <1>4, <1>5

LEMMA ControllerChanges ==
  ASSUME TypeOK, Consistent, NEW l \in Lease, Controller(l)
  PROVE  Changes(l)
<1> SUFFICES ASSUME lease'[l] # lease[l], ~BeginCreate(l) PROVE Changes(l)
  BY DEF Changes
<1>r. lease[l] \in Rec!Leases /\ Rec!Valid(lease[l])
  BY DEF TypeOK, Consistent, Recorded
<1>1. CASE BeforePost(l)
  <2>1. \E new : /\ CommitC(l, new) /\ CanWriteC(l, new)
                 /\ \/ PostIntent(l) /\ new = Rec!PostIntent(lease[l])
                    \/ ctl[l].at = "cancelIntent" /\ new = Rec!CancelIntent(lease[l])
                    \/ CancelClose(l) /\ new = Rec!CancelPrepared(lease[l])
    BY <1>1 DEF BeforePost, ObserveAccount, BeginCreate, BeginRefused, Reserve,
           MarkCreating, PostIntent, AbandonBeforePost, CancelIntent,
           CancelLedger, CancelClose, store
  <2>2. QED
    BY <2>1, CommitIs, WritesC DEF Changes, Rec!MayWrite
<1>2. CASE Post(l) \/ AfterLoss(l)
  <2>1. \/ \E p \in ctl[l].pod : LET new == Rec!CreateSuccess(lease[l], p)
                                 IN  CommitC(l, new) /\ CanWriteC(l, new)
        \/ /\ CommitC(l, ByController(l)) /\ CanWriteC(l, ByController(l))
           /\ lease[l].st = "CREATING"
    BY <1>2 DEF Post, Submit, SubmitNothing, SubmitConflict,
           RecordCreated, RecordFails, BindReturnedId,
           AfterLoss, LookAfterLoss, InventoryUnavailable,
           ReconcileLost, BindLossIds, ReleaseRejected, ByController, store
  <2>2. ASSUME NEW p, CommitC(l, Rec!CreateSuccess(lease[l], p)),
               CanWriteC(l, Rec!CreateSuccess(lease[l], p))
        PROVE  Changes(l)
    BY <1>r, <2>2, CommitIs, WritesC, OperationsTend DEF Changes, Rec!MayWrite
  <2>3. ASSUME CommitC(l, ByController(l)), CanWriteC(l, ByController(l)),
               lease[l].st = "CREATING"
        PROVE  Changes(l)
    BY <2>3, CommitIs, WritesC, ByControllerChanges DEF Changes, Rec!MayWrite
  <2>4. QED
    BY <2>1, <2>2, <2>3
<1>3. CASE Qualify(l)
  <2>1. lease[l].st = "ACTIVE"
    BY <1>3 DEF Qualify, ObserveCreated, RunFails, BindInventory, BindDelta,
           Attest, BindQuote, WorkEnds, store
  <2>2. \/ CommitC(l, lease[l])
        \/ CommitC(l, Rec!PostCreateBound(lease[l], ctl[l].look, Own(l), Siblings(l)))
    BY <1>3 DEF Qualify, ObserveCreated, RunFails, BindInventory, BindDelta,
           Attest, BindQuote, WorkEnds, store
  <2>3. \/ lease'[l] = lease[l]
        \/ lease'[l] = Rec!PostCreateBound(lease[l], ctl[l].look, Own(l), Siblings(l))
    BY <2>2, CommitIs
  <2>4. ctl[l].look \in SUBSET Pod
    BY DEF TypeOK, Controllers
  <2>5. lease'[l].st \in {"ACTIVE", "AMBIGUOUS"}
    BY <1>r, <2>1, <2>3, <2>4, ValidPostCreate
  <2>6. Tends(lease[l], lease'[l])
    BY <1>r, <2>1, <2>3, OperationsTend
  <2>7. QED
    BY <2>1, <2>5, <2>6 DEF Changes, Rec!Allowed
<1>4. CASE TearDown(l)
  <2>1. \E new : /\ CommitC(l, new) /\ CanWriteC(l, new)
                 /\ \/ CloseLease(l) /\ new = Rec!BillingRecorded(lease[l])
                    \/ lease[l].st = "ACTIVE" /\ new = lease[l]
                    \/ new = Rec!RequestDestroy(lease[l])
                    \/ Rec!MayConfirm(lease[l])
                       /\ new = Rec!AbsenceChecked(lease[l], ctl[l].look)
                    \/ lease[l].st = "ABSENCE_CONFIRMED"
                       /\ new = Rec!StageBilling(lease[l])
    BY <1>4 DEF TearDown, ExitWorkload, RecordDestroyIntent,
           BindCleanup, RequestTermination, Delete, LookForAbsence,
           ConfirmAbsence, GiveUp, SettleBilling, FinalizeCampaign,
           CloseLease, AmbiguousDestroy, AmbiguousDelete, AmbiguousConfirm,
           Confirms, store
  <2>2. PICK new : /\ lease'[l] = new /\ CanWriteC(l, new)
                   /\ \/ CloseLease(l) /\ new = Rec!BillingRecorded(lease[l])
                      \/ lease[l].st = "ACTIVE" /\ new = lease[l]
                      \/ new = Rec!RequestDestroy(lease[l])
                      \/ Rec!MayConfirm(lease[l])
                         /\ new = Rec!AbsenceChecked(lease[l], ctl[l].look)
                      \/ lease[l].st = "ABSENCE_CONFIRMED"
                         /\ new = Rec!StageBilling(lease[l])
    BY <2>1, CommitIs
  <2>3. lease[l].st # "NONE" /\ Rec!MayWrite(lease[l], new)
    BY <2>2, WritesC
  <2>4. \/ CloseLease(l) /\ new = Rec!BillingRecorded(lease[l])
        \/ Tends(lease[l], new)
    BY <1>r, <2>2, <2>3, OperationsTend
  <2>5. QED
    BY <2>2, <2>3, <2>4 DEF Changes, Rec!MayWrite
<1>5. QED
  BY <1>1, <1>2, <1>3, <1>4 DEF Controller

LEMMA ReaperChanges ==
  ASSUME TypeOK, Consistent, NEW l \in Lease, CancelOrphans(l) \/ Visit(l)
  PROVE  Changes(l)
<1> SUFFICES ASSUME lease'[l] # lease[l] PROVE Changes(l)
  BY DEF Changes
<1>s. \E new : StoreR(l, new) /\ CanWriteR(l, new) /\ lease'[l] = new
             /\ \/ OrphanIntent(l) /\ new = Rec!CancelIntent(lease[l])
                \/ OrphanClose(l) /\ new = Rec!CancelPrepared(lease[l])
                \/ CloseExpired(l) /\ new = Expiration(docs[l])
                \/ ReapClose(l) /\ new = Rec!BillingRecorded(docs[l])
                \/ /\ docs[l].st = "CREATING" /\ LostByReaper(l) # "expired"
                   /\ new = ByReaper(l)
                \/ new \in {Rec!AbsenceRevoked(docs[l]), Rec!RequestDestroy(docs[l])}
                \/ /\ Rec!MayConfirm(docs[l])
                   /\ \E listing : new = Rec!AbsenceChecked(docs[l], listing)
                \/ docs[l].st = "ABSENCE_CONFIRMED" /\ new = Rec!StageBilling(docs[l])
  <2> USE CommitIs DEF CommitR
  <2>1. CASE CancelOrphans(l)
    BY <2>1 DEF CancelOrphans, DeferPrepared, OrphanIntent, OrphanLedger,
           OrphanClose, store
  <2>2. CASE Pick(l) \/ VisitMoved(l) \/ VisitExpired(l) \/ ReleaseExpired(l)
             \/ VisitHeld(l) \/ VisitUnconfirmable(l) \/ VisitLive(l)
             \/ ReapDelete(l) \/ ReapRelist(l) \/ BillingPending(l)
             \/ ReapFinalize(l)
    BY <2>2 DEF Pick, VisitMoved, VisitExpired, ReleaseExpired, VisitHeld,
           VisitUnconfirmable, VisitLive, ReapDelete, ReapRelist,
           BillingPending, ReapFinalize, ReadOnly, store
  <2>3. CASE VisitRevoke(l) \/ VisitAmbiguous(l) \/ VisitDestroy(l)
    BY <2>3 DEF VisitRevoke, VisitAmbiguous, VisitDestroy, ReapWrite
  <2>4. CASE VisitNotListed(l)
    BY <2>4 DEF VisitNotListed, ReapAbsence, ReapWrite
  <2>5. CASE VisitCreating(l) \/ VisitWaiting(l)
    BY <2>5 DEF VisitCreating, VisitWaiting, Visiting, ReapWrite, ReapWriteLast,
           ReadOnly, store
  <2>6. CASE CloseExpired(l) \/ ReapClose(l)
    BY <2>6 DEF CloseExpired, ReapClose, ReapWriteLast, Expiration
  <2>7. CASE ReapConfirm(l)
    BY <2>7 DEF ReapConfirm
  <2>8. CASE ReapStage(l)
    BY <2>8 DEF ReapStage, Settling, Visiting, ReapWrite, Consistent, SettlesAbsent
  <2>9. QED
    BY <2>1, <2>2, <2>3, <2>4, <2>5, <2>6, <2>7, <2>8 DEF Visit
<1>1. PICK new :
        /\ StoreR(l, new) /\ CanWriteR(l, new) /\ lease'[l] = new
        /\ \/ OrphanIntent(l) /\ new = Rec!CancelIntent(lease[l])
           \/ OrphanClose(l) /\ new = Rec!CancelPrepared(lease[l])
           \/ CloseExpired(l) /\ new = Expiration(docs[l])
           \/ ReapClose(l) /\ new = Rec!BillingRecorded(docs[l])
           \/ /\ docs[l].st = "CREATING" /\ LostByReaper(l) # "expired"
              /\ new = ByReaper(l)
           \/ new \in {Rec!AbsenceRevoked(docs[l]), Rec!RequestDestroy(docs[l])}
           \/ /\ Rec!MayConfirm(docs[l])
              /\ \E listing : new = Rec!AbsenceChecked(docs[l], listing)
           \/ docs[l].st = "ABSENCE_CONFIRMED" /\ new = Rec!StageBilling(docs[l])
  BY <1>s
<1>2. /\ docs[l] = lease[l] /\ lease[l] \in Rec!Leases /\ Rec!Valid(lease[l])
      /\ lease[l].st # "NONE" /\ Rec!MayWrite(lease[l], new)
  BY <1>1, WritesR
<1>3. ~ctl'[l].ref
  BY <1>1 DEF StoreR, TypeOK, Controllers
<1>4. CASE docs[l].st = "CREATING" /\ LostByReaper(l) # "expired" /\ new = ByReaper(l)
  BY <1>1, <1>2, <1>3, <1>4, ByReaperChanges DEF Changes, Rec!MayWrite
<1>5. CASE \/ OrphanIntent(l) /\ new = Rec!CancelIntent(lease[l])
           \/ OrphanClose(l) /\ new = Rec!CancelPrepared(lease[l])
           \/ CloseExpired(l) /\ new = Expiration(docs[l])
           \/ ReapClose(l) /\ new = Rec!BillingRecorded(docs[l])
  BY <1>1, <1>2, <1>5 DEF Changes, Rec!MayWrite
<1>6. CASE \/ new \in {Rec!AbsenceRevoked(docs[l]), Rec!RequestDestroy(docs[l])}
           \/ /\ Rec!MayConfirm(docs[l])
              /\ \E listing : new = Rec!AbsenceChecked(docs[l], listing)
           \/ docs[l].st = "ABSENCE_CONFIRMED" /\ new = Rec!StageBilling(docs[l])
  <2>1. Tends(lease[l], new)
    BY <1>2, <1>6, OperationsTend
  <2>2. QED
    BY <1>1, <1>2, <2>1 DEF Changes, Rec!MayWrite
<1>7. QED
  BY <1>1, <1>4, <1>5, <1>6

LEMMA NextChanges ==
  ASSUME TypeOK, Consistent, [Next]_vars, NEW l \in Lease
  PROVE  Changes(l)
<1>1. ASSUME NEW k \in Lease, k # l,
             Controller(k) \/ ControllerDies(k) \/ CancelOrphans(k) \/ Visit(k)
      PROVE  Changes(l)
  BY <1>1, ControllerElsewhere, ReaperElsewhere DEF Elsewhere, Changes
<1>2. CASE ControllerDies(l)
  BY <1>2 DEF ControllerDies, store, Changes
<1>3. QED
  BY <1>1, <1>2, ControllerChanges, ReaperChanges, SweepElsewhere
     DEF Next, Changes

(* The same of the reaper's copies. *)
LEMMA NextCopies ==
  ASSUME TypeOK, [Next]_vars
  PROVE  Copies
<1>1. ASSUME NEW l \in Lease, Controller(l) \/ ControllerDies(l)
      PROVE  Copies
  BY <1>1, ControllerElsewhere DEF Copies
<1>2. ASSUME NEW l \in Lease, CancelOrphans(l) \/ Visit(l)
      PROVE  docs'[l] \in {docs[l], Rec!Unborn, lease'[l]}
  <2> USE DEF TypeOK, CommitR, StoreR, Forget, Fail, Done, Go, memory
  <2>1. CASE CancelOrphans(l)
    BY <1>2, <2>1 DEF CancelOrphans, DeferPrepared, OrphanIntent, OrphanLedger,
           OrphanClose, OrphanEnds
  <2>2. CASE Pick(l) \/ VisitMoved(l) \/ VisitExpired(l) \/ ReleaseExpired(l)
             \/ VisitHeld(l) \/ VisitUnconfirmable(l) \/ VisitLive(l)
             \/ ReapDelete(l) \/ ReapRelist(l) \/ BillingPending(l)
             \/ ReapFinalize(l)
    BY <2>2 DEF Pick, VisitMoved, VisitExpired, ReleaseExpired, VisitHeld,
           VisitUnconfirmable, VisitLive, ReapDelete, ReapRelist,
           BillingPending, ReapFinalize
  <2>3. CASE VisitRevoke(l) \/ VisitAmbiguous(l) \/ VisitDestroy(l)
             \/ ReapStage(l) \/ VisitNotListed(l) \/ VisitCreating(l)
    BY <2>3 DEF VisitRevoke, VisitAmbiguous, VisitDestroy, ReapStage,
           VisitNotListed, VisitCreating, ReapAbsence, ReapWrite
  <2>4. CASE VisitWaiting(l) \/ CloseExpired(l) \/ ReapClose(l) \/ ReapConfirm(l)
    BY <2>4 DEF VisitWaiting, CloseExpired, ReapClose, ReapConfirm, ReapWriteLast
  <2>5. QED
    BY <1>2, <2>1, <2>2, <2>3, <2>4 DEF Visit
<1>3. CASE SweepBegin \/ SweepList \/ SweepOutage \/ SweepEnd \/ ReaperDies
           \/ Environment \/ UNCHANGED vars
  BY <1>3 DEF Copies, SweepBegin, SweepList, SweepOutage, SweepEnd, ReaperDies,
         Environment, Appears, Exits, Vanishes, StrangerArrives, Provider,
         WindowCloses, WindowExpires, ReapDeadlinePasses, AbsenceAges, Tick,
         ForgetSweep, NoDocs, Go, memory, reaper, vars, TypeOK
<1>4. QED
  BY <1>1, <1>2, <1>3, ReaperElsewhere DEF Next, Copies, Elsewhere

LEMMA NextFollows ==
  ASSUME TypeOK, Consistent, [Next]_vars, NEW l \in Lease
  PROVE  Follows(lease[l], lease'[l])
<1>1. Changes(l)
  BY NextChanges
<1>2. lease[l] \in Rec!Leases
  BY DEF TypeOK
<1>3. CASE BeginCreate(l)
  BY <1>3 DEF BeginCreate, Consistent, NotBegun, Recorded, Rec!Unborn, Follows
<1>4. CASE lease'[l].st \in Rec!Allowed(lease[l].st) /\ lease[l].st # "NONE"
           /\ ~BeginCreate(l) /\ lease'[l] # lease[l]
  <2>1. /\ lease'[l].pre = lease[l].pre
        /\ lease[l].cancelling => lease'[l].cancelling
        /\ lease[l].closedOnce => lease'[l].closedOnce
    BY <1>1, <1>2, <1>4
       DEF Changes, Rec!PostIntent, Rec!CancelIntent, Rec!CancelPrepared,
           Rejected, Noted, Expiration, Rec!BillingRecorded, Tends, Rec!Leases
  <2>2. \A stage \in {Rec!States, Posted, Late} :
          lease[l].st \in stage => lease'[l].st \in stage
    BY <1>4 DEF Rec!Allowed, Posted, Late, Rec!States, Rec!Unresolved
  <2>3. QED
    BY <2>1, <2>2 DEF Follows
<1>5. QED
  BY <1>1, <1>3, <1>4 DEF Changes, Follows

LEMMA NextFormer ==
  ASSUME TypeOK, Consistent, Former, [Next]_vars
  PROVE  Former'
<1> SUFFICES ASSUME NEW l \in Lease PROVE Follows(docs'[l], lease'[l])
  BY DEF Former
<1>1. docs'[l] \in {docs[l], Rec!Unborn, lease[l], lease'[l]}
  BY NextCopies DEF Copies
<1>2. Follows(lease[l], lease'[l]) /\ Follows(docs[l], lease[l])
  BY NextFollows DEF Former
<1>3. docs[l] \in Rec!Leases
  BY DEF TypeOK
<1>4. QED
  BY <1>1, <1>2, <1>3
     DEF Follows, Rec!Unborn, Rec!Leases, Rec!States, Rec!Unresolved

-----------------------------------------------------------------------------
(* How a step moves the controller of an attempt, and by which operation.   *)

Arrives(l) ==
  \/ /\ ctl'[l].at = ctl[l].at /\ ctl'[l].look = ctl[l].look
     /\ ctl'[l].ref => ctl[l].ref
     /\ lease'[l] # lease[l] => ~ctl'[l].ref
  \/ /\ Controller(l) \/ ControllerDies(l)
     /\ LET to == ctl'[l].at
        IN  /\ to # "idle"
            /\ to = "observed" => ObserveAccount(l)
            /\ to = "prepared" => BeginCreate(l)
            /\ to = "reserved" => Reserve(l)
            /\ to = "creating" => MarkCreating(l)
            /\ to = "intent" => PostIntent(l)
            /\ to = "cancelIntent" => AbandonBeforePost(l)
            /\ to = "cancelLedger" => CancelIntent(l)
            /\ to = "cancelClose" => CancelLedger(l)
            /\ to = "refused" => SubmitNothing(l)
            /\ to = "refusedLook" => ctl[l].at = "refused"
            /\ to = "release" => lease[l].st = "TERMINAL"
            /\ to = "close" => FinalizeCampaign(l)
            /\ to = "bindCleanup" => RecordDestroyIntent(l)
            /\ to = "request" => ctl[l].at = "bindCleanup"
            /\ to = "delete" => ctl[l].at = "request"
            /\ to = "ambDelete" => AmbiguousDestroy(l)
            /\ ctl'[l].look \subseteq Listed \cup ctl[l].look

LEMMA MovesTo ==
  ASSUME TypeOK, NEW l \in Lease
  PROVE  /\ \A step : Goto(l, step) => ctl'[l].at = step /\ ctl'[l].look = {}
         /\ \A step : Look(l, step) => ctl'[l].at = step /\ ctl'[l].look = Listed
         /\ \A step, pods : Take(l, step, pods)
                              => ctl'[l].at = step /\ ctl'[l].look = {}
         /\ LeaveCleanup(l) => /\ ctl'[l].at \in {"end", "exit"}
                               /\ ctl'[l].look = {}
<1>1. /\ ctl \in [Lease -> Controllers] /\ ctl[l] \in Controllers
      /\ ctl[l] \in [at : Steps, look : SUBSET Pod, pod : SUBSET Pod,
                     ref : BOOLEAN]
  BY DEF TypeOK, Controllers
<1>2. ASSUME NEW step, Goto(l, step)
      PROVE  ctl'[l].at = step /\ ctl'[l].look = {}
  <2> DEFINE c == IF step = "end"
                  THEN [at |-> "end", look |-> {}, pod |-> {}, ref |-> FALSE]
                  ELSE [ctl[l] EXCEPT !.at = step, !.look = {}]
  <2>1. c.at = step /\ c.look = {}
    BY <1>1
  <2>2. ctl' = [ctl EXCEPT ![l] = c]
    BY <1>2 DEF Goto
  <2> HIDE DEF c
  <2>3. QED
    BY <1>1, <2>1, <2>2
<1>3. ASSUME NEW step, Look(l, step)
      PROVE  ctl'[l].at = step /\ ctl'[l].look = Listed
  <2> DEFINE c == [ctl[l] EXCEPT !.at = step, !.look = Listed]
  <2>1. c.at = step /\ c.look = Listed
    BY <1>1
  <2>2. ctl' = [ctl EXCEPT ![l] = c]
    BY <1>3 DEF Look
  <2> HIDE DEF c
  <2>3. QED
    BY <1>1, <2>1, <2>2
<1>4. ASSUME NEW step, NEW pods, Take(l, step, pods)
      PROVE  ctl'[l].at = step /\ ctl'[l].look = {}
  <2> DEFINE c == [ctl[l] EXCEPT !.at = step, !.look = {}, !.pod = pods]
  <2>1. c.at = step /\ c.look = {}
    BY <1>1
  <2>2. ctl' = [ctl EXCEPT ![l] = c]
    BY <1>4 DEF Take
  <2> HIDE DEF c
  <2>3. QED
    BY <1>1, <2>1, <2>2
<1>5. ASSUME LeaveCleanup(l)
      PROVE  ctl'[l].at \in {"end", "exit"} /\ ctl'[l].look = {}
  <2> DEFINE c == [ctl[l] EXCEPT !.at = IF ctl[l].pod = {} THEN "end" ELSE "exit",
                                 !.look = {}, !.ref = FALSE]
  <2>1. c.at \in {"end", "exit"} /\ c.look = {}
    BY <1>1
  <2>2. ctl' = [ctl EXCEPT ![l] = c]
    BY <1>5 DEF LeaveCleanup
  <2> HIDE DEF c
  <2>3. QED
    BY <1>1, <2>1, <2>2
<1>6. QED
  BY <1>2, <1>3, <1>4, <1>5

(* BindReturnedId alone writes its process record by hand. *)
LEMMA ReturnedIdMoves ==
  ASSUME TypeOK, NEW l \in Lease, BindReturnedId(l)
  PROVE  ctl'[l].at = "exit" /\ ctl'[l].look = ctl[l].look
<1> DEFINE c == [ctl[l] EXCEPT !.at = "exit",
                   !.ref = \/ ctl[l].ref
                           \/ lease[l].ids # {} /\ lease[l].ids = ctl[l].pod]
<1>1. /\ ctl \in [Lease -> Controllers]
      /\ ctl[l] \in [at : Steps, look : SUBSET Pod, pod : SUBSET Pod,
                     ref : BOOLEAN]
  BY DEF TypeOK, Controllers
<1>2. c.at = "exit" /\ c.look = ctl[l].look
  BY <1>1
<1>3. ctl' = [ctl EXCEPT ![l] = c]
  BY DEF BindReturnedId
<1> HIDE DEF c
<1>4. QED
  BY <1>1, <1>2, <1>3

LEMMA ControllerArrives ==
  ASSUME TypeOK, NEW l \in Lease, Controller(l) \/ ControllerDies(l)
  PROVE  Arrives(l)
<1> DEFINE to == ctl'[l].at
<1> USE MovesTo
<1>1. CASE BeforePost(l) \/ ControllerDies(l)
  BY <1>1 DEF BeforePost, ControllerDies, ObserveAccount,
         BeginCreate, BeginRefused, Reserve, MarkCreating, PostIntent,
         AbandonBeforePost, CancelIntent, CancelLedger, CancelClose, Arrives, TypeOK
<1>2. CASE Post(l)
  <2>1. CASE Submit(l)
    <3>1. to \in {"sent", "lost"} /\ ctl'[l].look = {}
      BY <2>1 DEF Submit
    <3>2. QED
      BY <1>2, <3>1 DEF Controller, Arrives
  <2>2. CASE SubmitNothing(l)
    <3>1. to \in {"refused", "lost"} /\ ctl'[l].look = {}
      BY <2>2 DEF SubmitNothing
    <3>2. QED
      BY <1>2, <2>2, <3>1 DEF Controller, Arrives
  <2>3. CASE SubmitConflict(l) \/ RecordCreated(l) \/ RecordFails(l)
    <3>1. to \in {"lost", "bound", "unrecorded"} /\ ctl'[l].look = {}
      BY <2>3 DEF SubmitConflict, RecordCreated, RecordFails
    <3>2. QED
      BY <1>2, <3>1 DEF Controller, Arrives
  <2>4. CASE BindReturnedId(l)
    BY <1>2, <2>4, ReturnedIdMoves DEF Controller, Arrives
  <2>5. QED
    BY <1>2, <2>1, <2>2, <2>3, <2>4 DEF Post
<1>3. CASE LookAfterLoss(l)
  <2>1. /\ ctl'[l].at = IF ctl[l].at = "lost" THEN "lostLook" ELSE "refusedLook"
        /\ ctl'[l].look = Listed
    BY <1>3 DEF LookAfterLoss
  <2>2. QED
    BY <1>3, <2>1 DEF LookAfterLoss, Arrives
<1>4. CASE BindLossIds(l)
  <2>1. /\ ctl'[l].look = {}
        /\ \/ to \in {"end", "ambDestroy", "exit"}
           \/ to = "release" /\ lease[l].st = "TERMINAL"
    <3>1. CASE lease[l].ids = {}
      <4> DEFINE next == IF lease[l].st = "TERMINAL" THEN "release" ELSE "end"
      <4>1. Goto(l, next)
        BY <1>4, <3>1 DEF BindLossIds
      <4>2. to = next /\ ctl'[l].look = {}
        BY <4>1
      <4>3. QED
        BY <4>2
    <3>2. CASE lease[l].ids # {}
      BY <1>4, <3>2 DEF BindLossIds
    <3>3. QED
      BY <3>1, <3>2
  <2>2. QED
    BY <2>1 DEF Arrives
<1>5. CASE InventoryUnavailable(l) \/ ReconcileLost(l) \/ ReleaseRejected(l)
  <2>1. to \in {"end", "reconciled"} /\ ctl'[l].look = {}
    BY <1>5 DEF InventoryUnavailable, ReconcileLost, ReleaseRejected
  <2>2. QED
    BY <2>1 DEF Arrives
<1>6. CASE Qualify(l)
  BY <1>6 DEF Qualify, ObserveCreated, RunFails, BindInventory,
         BindDelta, Attest, BindQuote, WorkEnds, Arrives
<1>7. CASE TearDown(l)
  BY <1>7 DEF TearDown, ExitWorkload, RecordDestroyIntent,
         BindCleanup, RequestTermination, Delete, LookForAbsence,
         ConfirmAbsence, GiveUp, SettleBilling, FinalizeCampaign, CloseLease,
         AmbiguousDestroy, AmbiguousDelete, AmbiguousConfirm, Arrives
<1>8. QED
  BY <1>1, <1>2, <1>3, <1>4, <1>5, <1>6, <1>7 DEF Controller, AfterLoss


LEMMA NextArrives ==
  ASSUME TypeOK, [Next]_vars, NEW l \in Lease
  PROVE  Arrives(l)
<1>1. ASSUME NEW k \in Lease, k # l,
             Controller(k) \/ ControllerDies(k) \/ CancelOrphans(k) \/ Visit(k)
      PROVE  Arrives(l)
  BY <1>1, ControllerElsewhere, ReaperElsewhere DEF Elsewhere, Arrives
<1>2. ASSUME CancelOrphans(l) \/ Visit(l)
      PROVE  Arrives(l)
  BY <1>2, ReaperElsewhere DEF Arrives
<1>3. CASE SweepBegin \/ SweepList \/ SweepOutage \/ SweepEnd \/ ReaperDies
           \/ Environment \/ UNCHANGED vars
  BY <1>3, SweepElsewhere DEF Arrives
<1>4. QED
  BY <1>1, <1>2, <1>3, ControllerArrives DEF Next

-----------------------------------------------------------------------------
(* How a step changes the ledger's attempt, and by which operation.         *)

Pays(l) ==
  \/ attempt'[l] = attempt[l]
  \/ Reserve(l) /\ attempt'[l].phase = "RESERVED" /\ attempt'[l].bound = {}
  \/ /\ MarkCreating(l) /\ attempt[l].phase = "RESERVED"
     /\ attempt'[l].phase = "CREATING" /\ attempt'[l].bound = attempt[l].bound
  \/ /\ CancelLedger(l) \/ OrphanLedger(l) \/ ReleaseRejected(l)
        \/ ReleaseExpired(l)
     /\ attempt[l].phase \in {"RESERVED", "CREATING"} /\ attempt[l].bound = {}
     /\ attempt'[l].phase = "CANCELLED_BEFORE_CREATE" /\ attempt'[l].bound = {}
  \/ /\ FinalizeCampaign(l) \/ ReapFinalize(l)
     /\ attempt[l].phase = "CREATING" \/ attempt[l].bound # {}
     /\ attempt'[l].phase = "RECONCILED" /\ attempt'[l].bound # {}
  \/ /\ \/ BindReturnedId(l) \/ BindLossIds(l) \/ BindDelta(l) \/ BindQuote(l)
        \/ BindCleanup(l) \/ RequestTermination(l)
     /\ attempt[l].phase \in Bindable /\ attempt'[l].phase \in Binding
     /\ \/ attempt'[l].bound = attempt[l].bound
        \/ attempt'[l].bound \in {ctl[l].pod, lease[l].ids}
        \/ \E p \in ctl[l].pod : attempt'[l].bound = {p}

LEMMA AttemptIs ==
  ASSUME TypeOK, NEW l \in Lease, NEW a, SetAttempt(l, a)
  PROVE  attempt'[l] = a
  BY DEF TypeOK, SetAttempt

LEMMA PaymentsAre ==
  ASSUME NEW a \in Att!Attempts
  PROVE  /\ Att!Reserved.phase = "RESERVED" /\ Att!Reserved.bound = {}
         /\ Att!MarkedCreating(a).phase = "CREATING"
         /\ Att!MarkedCreating(a).bound = a.bound
         /\ \A why : Att!Cancelled(a, why).phase = "CANCELLED_BEFORE_CREATE"
                     /\ Att!Cancelled(a, why).bound = a.bound
         /\ \A ids : Att!Projected(a, ids).phase = "RECONCILED"
                     /\ Att!Projected(a, ids).bound = ids
         /\ \A ids : Att!BoundForCleanup(a, ids).phase = "TERMINATE_REQUIRED"
                     /\ Att!BoundForCleanup(a, ids).bound = ids
         /\ \A p, accepted : Att!QuoteBound(a, p, accepted).phase \in Binding
                             /\ Att!QuoteBound(a, p, accepted).bound = {p}
         /\ Att!TerminationRequested(a).phase = "TERMINATE_REQUESTED"
         /\ Att!TerminationRequested(a).bound = a.bound
  BY DEF Att!Attempts, Att!Reserved, Att!Unreserved, Att!MarkedCreating,
         Att!Cancelled, Att!Projected, Att!BoundForCleanup, Att!QuoteBound,
         Att!TerminationRequested, Binding, Bindable

LEMMA ControllerPays ==
  ASSUME TypeOK, NEW l \in Lease, Controller(l)
  PROVE  Pays(l)
<1> SUFFICES ASSUME attempt'[l] # attempt[l] PROVE Pays(l)
  BY DEF Pays
<1>a. attempt[l] \in Att!Attempts
  BY DEF TypeOK
<1> USE AttemptIs, PaymentsAre
<1>1. CASE BeforePost(l)
  <2>1. \/ Reserve(l) /\ attempt'[l] = Att!Reserved
        \/ /\ MarkCreating(l) /\ Att!MayMarkCreating(attempt[l])
           /\ attempt'[l] = Att!MarkedCreating(attempt[l])
        \/ /\ CancelLedger(l) /\ Att!MayCancel(attempt[l], "PREPARED")
           /\ attempt'[l] = Att!Cancelled(attempt[l], "PREPARED")
    BY <1>1 DEF BeforePost, ObserveAccount, BeginCreate, BeginRefused, Reserve,
           MarkCreating, PostIntent, AbandonBeforePost, CancelIntent,
           CancelLedger, LedgerCancels, CancelClose, store
  <2>2. QED
    BY <1>a, <2>1 DEF Pays, Att!MayMarkCreating, Att!MayCancel
<1>2. CASE Post(l)
  <2>1. /\ BindReturnedId(l) /\ Att!MayBindForCleanup(attempt[l], ctl[l].pod)
        /\ attempt'[l] = Att!BoundForCleanup(attempt[l], ctl[l].pod)
    BY <1>2 DEF Post, Submit, SubmitNothing, SubmitConflict, RecordCreated,
           RecordFails, BindReturnedId, store
  <2>2. QED
    BY <1>a, <2>1 DEF Pays, Att!MayBindForCleanup, Bindable, Binding
<1>3. CASE AfterLoss(l)
  <2>1. \/ /\ BindLossIds(l) /\ Att!MayBindForCleanup(attempt[l], lease[l].ids)
           /\ attempt'[l] = Att!BoundForCleanup(attempt[l], lease[l].ids)
        \/ /\ ReleaseRejected(l)
           /\ Att!MayCancel(attempt[l], "PROVIDER_REJECTED_CREATE")
           /\ attempt'[l] = Att!Cancelled(attempt[l], "PROVIDER_REJECTED_CREATE")
    BY <1>3 DEF AfterLoss, LookAfterLoss, InventoryUnavailable, ReconcileLost,
           BindLossIds, ReleaseRejected, store
  <2>2. QED
    BY <1>a, <2>1 DEF Pays, Att!MayCancel, Att!MayBindForCleanup, Bindable, Binding
<1>4. CASE Qualify(l)
  <2>1. \/ \E ids \in {ctl[l].pod, lease[l].ids} :
             /\ BindDelta(l) /\ Att!MayBindForCleanup(attempt[l], ids)
             /\ attempt'[l] = Att!BoundForCleanup(attempt[l], ids)
        \/ \E p \in ctl[l].pod, accepted \in BOOLEAN :
             /\ BindQuote(l) /\ Att!MayBindQuote(attempt[l])
             /\ attempt'[l] = Att!QuoteBound(attempt[l], p, accepted)
    BY <1>4 DEF Qualify, ObserveCreated, RunFails, BindInventory,
           BindDelta, Attest, BindQuote, WorkEnds, store
  <2>2. QED
    BY <1>a, <2>1 DEF Pays, Att!MayBindForCleanup, Att!MayBindQuote, Bindable,
           Binding
<1>5. CASE TearDown(l)
  <2>1. \/ /\ BindCleanup(l) /\ Att!MayBindForCleanup(attempt[l], lease[l].ids)
           /\ attempt'[l] = Att!BoundForCleanup(attempt[l], lease[l].ids)
        \/ /\ RequestTermination(l) /\ Att!MayRequestTermination(attempt[l])
           /\ attempt'[l] = Att!TerminationRequested(attempt[l])
        \/ /\ FinalizeCampaign(l) /\ MayFinalize(l, lease[l])
           /\ attempt'[l] = Att!Projected(attempt[l], lease[l].ids)
    BY <1>5 DEF TearDown, ExitWorkload, RecordDestroyIntent,
           BindCleanup, RequestTermination, Delete, LookForAbsence,
           ConfirmAbsence, GiveUp, SettleBilling, FinalizeCampaign, CloseLease,
           AmbiguousDestroy, AmbiguousDelete, AmbiguousConfirm, store
  <2>2. QED
    BY <1>a, <2>1 DEF Pays, MayFinalize, Att!MayProject, Att!MayBindForCleanup,
           Att!MayRequestTermination, Bindable, Binding
<1>6. QED
  BY <1>1, <1>2, <1>3, <1>4, <1>5 DEF Controller

LEMMA ReaperPays ==
  ASSUME TypeOK, NEW l \in Lease, CancelOrphans(l) \/ Visit(l)
  PROVE  Pays(l)
<1> SUFFICES ASSUME attempt'[l] # attempt[l] PROVE Pays(l)
  BY DEF Pays
<1>a. attempt[l] \in Att!Attempts
  BY DEF TypeOK
<1> USE AttemptIs, PaymentsAre
<1>1. \/ /\ OrphanLedger(l) /\ Att!MayCancel(attempt[l], "PREPARED")
         /\ attempt'[l] = Att!Cancelled(attempt[l], "PREPARED")
      \/ /\ ReleaseExpired(l) /\ Att!MayCancel(attempt[l], "LOST_CREATE_EXPIRED")
         /\ attempt'[l] = Att!Cancelled(attempt[l], "LOST_CREATE_EXPIRED")
      \/ /\ ReapFinalize(l) /\ MayFinalize(l, docs[l])
         /\ attempt'[l] = Att!Projected(attempt[l], docs[l].ids)
  <2>1. CASE CancelOrphans(l)
    BY <2>1 DEF CancelOrphans, DeferPrepared, OrphanIntent, OrphanLedger,
           LedgerCancels, OrphanClose, store
  <2>2. CASE Visit(l)
    BY <2>2 DEF Visit, Pick, VisitRevoke, VisitMoved, VisitCreating, VisitWaiting,
           VisitExpired, ReleaseExpired, CloseExpired, VisitHeld,
           VisitAmbiguous, VisitNotListed, VisitUnconfirmable, VisitLive,
           VisitDestroy, ReapDelete, ReapRelist, ReapConfirm,
           BillingPending, ReapStage, ReapFinalize, ReapClose,
           ReadOnly, ReapWrite, ReapWriteLast, ReapAbsence, store
  <2>3. QED
    BY <2>1, <2>2
<1>2. QED
  BY <1>a, <1>1 DEF Pays, MayFinalize, Att!MayProject, Att!MayCancel

LEMMA NextPays ==
  ASSUME TypeOK, [Next]_vars, NEW l \in Lease
  PROVE  Pays(l)
<1>1. ASSUME NEW k \in Lease, k # l,
             Controller(k) \/ ControllerDies(k) \/ CancelOrphans(k) \/ Visit(k)
      PROVE  Pays(l)
  BY <1>1, ControllerElsewhere, ReaperElsewhere DEF Elsewhere, Pays
<1>2. CASE ControllerDies(l)
  BY <1>2 DEF ControllerDies, store, Pays
<1>3. CASE SweepBegin \/ SweepList \/ SweepOutage \/ SweepEnd \/ ReaperDies
           \/ Environment \/ UNCHANGED vars
  BY <1>3, SweepElsewhere DEF Pays
<1>4. QED
  BY <1>1, <1>2, <1>3, ControllerPays, ReaperPays DEF Next

-----------------------------------------------------------------------------
(* How a step changes the pods of an attempt. *)

Quiet(l) ==
  /\ Own(l)' = Own(l)
  /\ \A p \in Own(l) : /\ Billed(p)' => Billed(p)
                       /\ pod'[p] = "hidden" => pod[p] = "hidden"

(* No pod is unmade, and without lag none goes into hiding. *)
Unveiled ==
  \A p \in Pod : /\ pod[p] # "none" => pod'[p] # "none"
                 /\ ~Lag /\ pod'[p] = "hidden" => pod[p] = "hidden"

LEMMA NextPods ==
  ASSUME TypeOK, Named, [Next]_vars
  PROVE  /\ \A l \in Lease : Quiet(l) \/ Submit(l)
         /\ Unveiled
<1>1. CASE UNCHANGED provider
  BY <1>1 DEF provider, Quiet, Unveiled, Own, Billed
<1>2. ASSUME NEW removed, Deletes(removed), UNCHANGED owner
      PROVE  /\ \A l \in Lease : Quiet(l)
             /\ Unveiled
  BY <1>2 DEF Deletes, Quiet, Unveiled, Own, Billed
<1>3. ASSUME NEW p \in Pod,
             Appears(p) \/ Exits(p) \/ Vanishes(p) \/ StrangerArrives(p)
      PROVE  /\ \A l \in Lease : Quiet(l)
             /\ Unveiled
  <2>1. \A q \in Pod : \/ pod'[q] = pod[q] /\ owner'[q] = owner[q]
                       \/ /\ pod[q] \in {"hidden", "up", "exited"}
                          /\ pod'[q] \notin {"none", "hidden"}
                          /\ owner'[q] = owner[q]
                       \/ /\ pod[q] = "none" /\ owner'[q] \notin Lease
                          /\ pod'[q] # "hidden"
    BY <1>3, ConstantsAssumption
       DEF Appears, Exits, Vanishes, StrangerArrives, TypeOK, Provider
  <2>2. QED
    BY <2>1 DEF Named, Quiet, Unveiled, Own, Billed
<1>4. ASSUME NEW l \in Lease, Submit(l)
      PROVE  /\ \A k \in Lease : k # l => Quiet(k)
             /\ Unveiled
  <2>1. PICK made \in SUBSET {p \in Pod : pod[p] = "none"} :
          /\ \E hid \in (IF Lag THEN SUBSET made ELSE {{}}) :
               pod' = [p \in Pod |-> IF p \in hid THEN "hidden"
                                     ELSE IF p \in made THEN "up" ELSE pod[p]]
          /\ owner' = [p \in Pod |-> IF p \in made THEN l ELSE owner[p]]
    BY <1>4 DEF Submit
  <2>2. \A p \in Pod : \/ pod'[p] = pod[p] /\ owner'[p] = owner[p]
                       \/ /\ pod[p] = "none" /\ pod'[p] # "none"
                          /\ owner'[p] = l /\ owner[p] \notin Lease
                          /\ ~Lag => pod'[p] # "hidden"
    BY <2>1 DEF Named
  <2>3. QED
    BY <2>2 DEF Quiet, Unveiled, Own, Billed
<1>5. ASSUME NEW l \in Lease, Controller(l)
      PROVE  \/ UNCHANGED provider
             \/ Submit(l)
             \/ \E removed : Deletes(removed) /\ UNCHANGED owner
  <2>1. CASE BeforePost(l)
    BY <2>1 DEF BeforePost, ObserveAccount, BeginCreate, BeginRefused, Reserve,
           MarkCreating, PostIntent, AbandonBeforePost, CancelIntent,
           CancelLedger, CancelClose
  <2>2. CASE Post(l)
    BY <2>2 DEF Post, SubmitNothing, SubmitConflict, RecordCreated,
           RecordFails, BindReturnedId
  <2>3. CASE AfterLoss(l)
    BY <2>3 DEF AfterLoss, LookAfterLoss, InventoryUnavailable, ReconcileLost,
           BindLossIds, ReleaseRejected
  <2>4. CASE Qualify(l)
    BY <2>4 DEF Qualify, ObserveCreated, RunFails, BindInventory,
           BindDelta, Attest, BindQuote, WorkEnds
  <2>5. CASE TearDown(l)
    BY <2>5 DEF TearDown, ExitWorkload, RecordDestroyIntent,
           BindCleanup, RequestTermination, Delete, LookForAbsence,
           ConfirmAbsence, GiveUp, SettleBilling, FinalizeCampaign, CloseLease,
           AmbiguousDestroy, AmbiguousDelete, AmbiguousConfirm
  <2>6. QED
    BY <1>5, <2>1, <2>2, <2>3, <2>4, <2>5 DEF Controller
<1>6. ASSUME NEW l \in Lease, CancelOrphans(l) \/ Visit(l)
      PROVE  \/ UNCHANGED provider
             \/ \E removed : Deletes(removed) /\ UNCHANGED owner
  <2>1. CASE CancelOrphans(l)
    BY <2>1 DEF CancelOrphans, DeferPrepared, OrphanIntent, OrphanLedger,
           OrphanClose
  <2>2. CASE Visit(l)
    BY <2>2 DEF Visit, Pick, VisitRevoke, VisitMoved, VisitCreating, VisitWaiting,
           VisitExpired, ReleaseExpired, CloseExpired, VisitHeld,
           VisitAmbiguous, VisitNotListed, VisitUnconfirmable, VisitLive,
           VisitDestroy, ReapDelete, ReapRelist, ReapConfirm,
           BillingPending, ReapStage, ReapFinalize, ReapClose,
           ReadOnly, ReapWrite, ReapWriteLast, ReapAbsence, provider
  <2>3. QED
    BY <1>6, <2>1, <2>2
<1>7. CASE SweepBegin \/ SweepList \/ SweepOutage \/ SweepEnd \/ ReaperDies
           \/ UNCHANGED vars
  BY <1>1, <1>7 DEF SweepBegin, SweepList, SweepOutage, SweepEnd, ReaperDies,
         provider, vars
<1>8. CASE Environment
  BY <1>1, <1>3, <1>8 DEF Environment, WindowCloses, WindowExpires,
         ReapDeadlinePasses, AbsenceAges, Tick
<1>9. ASSUME NEW l \in Lease, ControllerDies(l)
      PROVE  UNCHANGED provider
  BY <1>9 DEF ControllerDies
<1>10. ASSUME NEW l \in Lease, Submit(l)
       PROVE  \A k \in Lease : Quiet(k) \/ Submit(k)
  BY <1>4, <1>10
<1>11. QED
  BY <1>1, <1>2, <1>4, <1>5, <1>6, <1>7, <1>8, <1>9, <1>10 DEF Next

-----------------------------------------------------------------------------
(* How a step moves the reaper to a lease, and by which operation. *)

Between == {"idle", "list", "pick"}
NoneAtHand == sweep.step \in Between => sweep.cur \notin Lease

Handles(l) ==
  sweep'.cur = l =>
    \/ sweep.cur = l /\ sweep'.step = sweep.step /\ docs'[l] = docs[l]
    \/ /\ sweep'.step \notin Between
       /\ sweep'.step = "orphanLedger" => OrphanIntent(l) /\ docs'[l].cancelling
       /\ sweep'.step = "orphanClose" => OrphanLedger(l) /\ docs'[l] = docs[l]
       /\ sweep'.step = "expire" => VisitExpired(l) /\ docs'[l] = docs[l]
       /\ sweep'.step = "expireClose" => ReleaseExpired(l) /\ docs'[l] = docs[l]
       /\ sweep'.step = "close" => ReapFinalize(l) /\ docs'[l] = docs[l]

(* A lease the sweep has yet to deal with. *)
Ahead(l) == sweep.step \notin Unlisted /\ (l \in sweep.todo \/ sweep.cur = l)

Remembers(l) ==
  Ahead(l)' =>
    \/ SweepList
    \/ /\ Ahead(l) /\ seen'.ids = seen.ids
       /\ docs'[l].closedOnce => docs[l].closedOnce /\ asof'[l] = asof[l]

LEMMA SweepIs ==
  ASSUME TypeOK
  PROVE  /\ \A step : Step(step) => /\ sweep'.step = step
                                    /\ sweep'.cur = sweep.cur
                                    /\ sweep'.todo = sweep.todo
         /\ \A l \in Lease : Fail(l) \/ Done(l) =>
              /\ sweep'.step = "pick" /\ sweep'.cur = NoLease
              /\ sweep'.todo = sweep.todo /\ ~docs'[l].closedOnce
         /\ \A l : OrphanEnds(l, TRUE) \/ OrphanEnds(l, FALSE)
                     => sweep'.step = "list" /\ sweep'.cur = NoLease
         /\ \A step, l : OrphanStep(step, l) => sweep'.step = step /\ sweep'.cur = l
         /\ ForgetSweep => sweep'.step = "idle" /\ sweep'.cur = NoLease
<1>1. sweep \in [step : SweepSteps, todo : SUBSET Lease, ok : BOOLEAN,
                cur : Lease \cup {NoLease}]
  BY DEF TypeOK
<1>2. /\ \A step : Step(step) => /\ sweep'.step = step
                                 /\ sweep'.cur = sweep.cur
                                 /\ sweep'.todo = sweep.todo
      /\ \A step, l : OrphanStep(step, l) => sweep'.step = step /\ sweep'.cur = l
  BY <1>1 DEF Step, OrphanStep
<1>3. ASSUME NEW l \in Lease, Fail(l) \/ Done(l)
      PROVE  /\ sweep'.step = "pick" /\ sweep'.cur = NoLease
             /\ sweep'.todo = sweep.todo /\ ~docs'[l].closedOnce
  <2>1. docs' = [docs EXCEPT ![l] = Rec!Unborn]
    BY <1>3 DEF Fail, Done, Forget
  <2>2. docs'[l] = Rec!Unborn /\ ~Rec!Unborn.closedOnce
    BY <2>1 DEF TypeOK, Rec!Unborn
  <2>3. QED
    BY <1>1, <1>3, <2>2 DEF Fail, Done
<1>4. ASSUME NEW l, NEW good, OrphanEnds(l, good)
      PROVE  sweep'.step = "list" /\ sweep'.cur = NoLease
  BY <1>1, <1>4 DEF OrphanEnds
<1>5. ForgetSweep => sweep'.step = "idle" /\ sweep'.cur = NoLease
  BY DEF ForgetSweep, Idle
<1>6. QED
  BY <1>2, <1>3, <1>4, <1>5

LEMMA ByReaperTends ==
  ASSUME TypeOK, NEW l \in Lease, LostByReaper(l) \notin {"expired", "zero"}
  PROVE  Tends(docs[l], ByReaper(l))
<1>1. PICK r, listing, own, answered, known, rejected, closed, aged :
        /\ r = docs[l] /\ listing = seen.ids /\ own = Own(l)
        /\ answered = AnsweredOnlyInLedger(l) /\ known = {}
        /\ rejected = FALSE /\ closed = (asof[l].win # "open")
        /\ aged = (asof[l].win = "expired")
  OBVIOUS
<1> DEFINE outcome == Rec!LostOutcome(r, listing, own, answered, known,
                                      rejected, closed, aged)
           new == Rec!LostReconciled(r, listing, own, answered, known, closed,
                                     outcome)
<1>2. r \in Rec!Leases
  BY <1>1 DEF TypeOK
<1>3. new = ByReaper(l) /\ outcome = LostByReaper(l)
  BY <1>1 DEF ByReaper, LostByReaper
<1>4. Tends(r, new) \/ rejected \/ outcome \in {"expired", "zero"}
  BY <1>2, LostWrites
<1> HIDE DEF new, outcome
<1>5. QED
  BY <1>1, <1>3, <1>4

LEMMA OrphansHandle ==
  ASSUME TypeOK, NoneAtHand, NEW l \in Lease, CancelOrphans(l), NEW k \in Lease
  PROVE  Handles(k) /\ Remembers(k)
<1> USE SweepIs, ConstantsAssumption
<1>1. sweep'.step \in {"list"} \cup Orphaned
  BY DEF CancelOrphans, DeferPrepared, OrphanIntent, OrphanLedger, OrphanClose,
         Orphaned, TypeOK
<1>2. CASE DeferPrepared(l)
  <2>1. sweep'.step = "list" /\ sweep'.cur = sweep.cur /\ sweep.step = "list"
    BY <1>2 DEF DeferPrepared, TypeOK
  <2>2. QED
    BY <1>1, <2>1 DEF Handles, Remembers, Ahead, NoneAtHand, Between, Unlisted
<1>3. CASE OrphanIntent(l)
  <2>1. lease[l] \in Rec!Leases
    BY DEF TypeOK
  <2>2. Rec!CancelIntent(lease[l]).cancelling
    BY <2>1 DEF Rec!CancelIntent, Rec!Leases
  <2>3. \/ sweep'.step = "list" /\ sweep'.cur = NoLease
        \/ sweep'.step = "orphanLedger" /\ sweep'.cur = l /\ docs'[l].cancelling
    BY <1>3, <2>2 DEF OrphanIntent, CommitR, memory, TypeOK
  <2>4. QED
    BY <1>1, <1>3, <2>3 DEF Handles, Remembers, Ahead, Between, Unlisted
<1>4. CASE OrphanLedger(l)
  <2>1. \/ sweep'.step = "list" /\ sweep'.cur = NoLease
        \/ sweep'.step = "orphanClose" /\ sweep'.cur = l /\ docs'[l] = docs[l]
    BY <1>4 DEF OrphanLedger, memory
  <2>2. QED
    BY <1>1, <1>4, <2>1 DEF Handles, Remembers, Ahead, Between, Unlisted
<1>5. CASE OrphanClose(l)
  <2>1. sweep'.step = "list" /\ sweep'.cur = NoLease
    BY <1>5 DEF OrphanClose
  <2>2. QED
    BY <1>1, <2>1 DEF Handles, Remembers, Ahead, Unlisted
<1>6. QED
  BY <1>2, <1>3, <1>4, <1>5 DEF CancelOrphans

(* What a visit leaves of the sweep. *)
LEMMA VisitSweeps ==
  ASSUME TypeOK, NEW l \in Lease, Visit(l)
  PROVE  /\ seen'.ids = seen.ids
         /\ \/ Pick(l)
            \/ /\ sweep.cur = l /\ sweep.step \notin Unlisted \cup {"pick"}
               /\ sweep'.todo = sweep.todo
               /\ \/ /\ sweep'.step = "pick" /\ sweep'.cur = NoLease
                     /\ ~docs'[l].closedOnce
                  \/ /\ sweep'.cur = l /\ asof'[l] = asof[l]
                     /\ sweep'.step \in {"visit", "settle", "relist", "confirm",
                                         "finalize"}
                     /\ docs'[l].closedOnce => docs[l].closedOnce
                  \/ /\ sweep'.cur = l /\ asof'[l] = asof[l] /\ docs'[l] = docs[l]
                     /\ \/ sweep'.step = "expire" /\ VisitExpired(l)
                        \/ sweep'.step = "expireClose" /\ ReleaseExpired(l)
                        \/ sweep'.step = "close" /\ ReapFinalize(l)
<1> USE SweepIs
<1>t. docs[l] \in Rec!Leases /\ seen \in [ids : SUBSET Pod, exited : SUBSET Pod,
                                          fresh : SUBSET Pod]
  BY DEF TypeOK
<1>1. CASE Pick(l) \/ VisitMoved(l) \/ VisitExpired(l) \/ VisitHeld(l)
           \/ VisitUnconfirmable(l) \/ VisitLive(l) \/ BillingPending(l)
  BY <1>1 DEF Pick, VisitMoved, VisitExpired, VisitHeld, VisitUnconfirmable,
         VisitLive, BillingPending, ReadOnly, Visiting, Targeted, Settling,
         Unlisted, Orphaned, Go, memory
<1>2. CASE ReleaseExpired(l) \/ ReapDelete(l) \/ ReapRelist(l) \/ ReapFinalize(l)
  BY <1>2, <1>t DEF ReleaseExpired, ReapDelete, ReapRelist, ReapFinalize, Visiting,
         Settling, Unlisted, Orphaned, Go, memory
<1>w. ASSUME NEW new, NEW next, ReapWrite(l, new, next)
      PROVE  /\ seen' = seen
             /\ \/ Fail(l)
                \/ Step(next) /\ asof' = asof /\ docs'[l] = new
  BY <1>w DEF ReapWrite, CommitR, TypeOK
<1>3. CASE VisitRevoke(l) \/ VisitAmbiguous(l) \/ VisitDestroy(l)
           \/ ReapStage(l) \/ VisitNotListed(l)
  <2>1. \E new, next : /\ ReapWrite(l, new, next)
                       /\ next \in {"visit", "settle", "finalize"}
                       /\ sweep.cur = l /\ sweep.step \in {"visit", "settle"}
                       /\ \/ new \in {Rec!AbsenceRevoked(docs[l]),
                                      Rec!RequestDestroy(docs[l]),
                                      Rec!StageBilling(docs[l])}
                          \/ \E listing : new = Rec!AbsenceChecked(docs[l], listing)
    BY <1>3 DEF VisitRevoke, VisitAmbiguous, VisitDestroy, ReapStage,
           VisitNotListed, ReapAbsence, Visiting, Targeted, Settling
  <2>2. PICK new, next :
          /\ ReapWrite(l, new, next)
          /\ next \in {"visit", "settle", "finalize"}
          /\ sweep.cur = l /\ sweep.step \in {"visit", "settle"}
          /\ \/ new \in {Rec!AbsenceRevoked(docs[l]),
                         Rec!RequestDestroy(docs[l]),
                         Rec!StageBilling(docs[l])}
             \/ \E listing : new = Rec!AbsenceChecked(docs[l], listing)
    BY <2>1
  <2>3. new.closedOnce = docs[l].closedOnce
    BY <1>t, <2>2 DEF Rec!AbsenceRevoked, Rec!RequestDestroy, Rec!StageBilling,
           Rec!AbsenceChecked, Rec!Leases
  <2>4. QED
    BY <1>w, <2>2, <2>3 DEF Unlisted, Orphaned
<1>4. CASE VisitCreating(l)
  <2>1. /\ sweep.cur = l /\ sweep.step = "visit"
        /\ \/ Fail(l) /\ seen' = seen
           \/ ReapWrite(l, ByReaper(l), "visit") /\ Tends(docs[l], ByReaper(l))
    BY <1>4, ByReaperTends DEF VisitCreating, Visiting, ReadOnly
  <2>2. QED
    BY <1>w, <2>1 DEF Unlisted, Orphaned, Tends
<1>5. CASE VisitWaiting(l) \/ CloseExpired(l) \/ ReapClose(l)
  BY <1>5 DEF VisitWaiting, CloseExpired, ReapClose, ReapWriteLast, Visiting,
         Unlisted, Orphaned
<1>6. CASE ReapConfirm(l)
  <2>1. /\ sweep.cur = l /\ sweep.step = "confirm" /\ seen'.ids = seen.ids
        /\ \/ Fail(l)
           \/ /\ docs'[l] = Rec!AbsenceChecked(docs[l], seen.fresh)
              /\ Step("settle") /\ asof' = asof
    BY <1>6, <1>t DEF ReapConfirm, CommitR, TypeOK
  <2>2. Rec!AbsenceChecked(docs[l], seen.fresh).closedOnce = docs[l].closedOnce
    BY <1>t DEF Rec!AbsenceChecked, Rec!Leases
  <2>3. QED
    BY <2>1, <2>2 DEF Unlisted, Orphaned
<1>7. QED
  BY <1>1, <1>2, <1>3, <1>4, <1>5, <1>6 DEF Visit

LEMMA NextHandles ==
  ASSUME TypeOK, NoneAtHand, [Next]_vars, NEW k \in Lease
  PROVE  Handles(k) /\ Remembers(k)
<1>0. sweep.cur \in Lease \cup {NoLease} /\ NoLease \notin Lease
  BY ConstantsAssumption DEF TypeOK
<1>1. CASE UNCHANGED <<sweep, docs, asof, seen>>
  BY <1>1 DEF Handles, Remembers, Ahead
<1>2. ASSUME NEW l \in Lease, Visit(l)
      PROVE  Handles(k) /\ Remembers(k)
  <2>1. l # k => docs'[k] = docs[k] /\ asof'[k] = asof[k]
    BY <1>2, ReaperElsewhere DEF Elsewhere
  <2>2. CASE Pick(l)
    <3>1. /\ sweep'.step = "visit" /\ sweep'.cur = l /\ sweep.step = "pick"
          /\ l \in sweep.todo /\ sweep'.todo \subseteq sweep.todo
          /\ UNCHANGED <<docs, asof, seen>>
      BY <2>2 DEF Pick, TypeOK, memory
    <3>2. QED
      BY <3>1 DEF Handles, Remembers, Ahead, Between, Unlisted, Orphaned
  <2>3. CASE ~Pick(l)
    <3>1. /\ seen'.ids = seen.ids
          /\ sweep.cur = l /\ sweep.step \notin Unlisted \cup {"pick"}
          /\ sweep'.todo = sweep.todo
          /\ \/ /\ sweep'.step = "pick" /\ sweep'.cur = NoLease
                /\ ~docs'[l].closedOnce
             \/ /\ sweep'.cur = l /\ asof'[l] = asof[l]
                /\ sweep'.step \in {"visit", "settle", "relist", "confirm",
                                    "finalize"}
                /\ docs'[l].closedOnce => docs[l].closedOnce
             \/ /\ sweep'.cur = l /\ asof'[l] = asof[l] /\ docs'[l] = docs[l]
                /\ \/ sweep'.step = "expire" /\ VisitExpired(l)
                   \/ sweep'.step = "expireClose" /\ ReleaseExpired(l)
                   \/ sweep'.step = "close" /\ ReapFinalize(l)
      BY <1>2, <2>3, VisitSweeps
    <3>2. Handles(k)
      BY <1>0, <2>1, <3>1 DEF Handles, Between, Unlisted
    <3>3. Remembers(k)
      BY <1>0, <2>1, <3>1 DEF Remembers, Ahead
    <3>4. QED
      BY <3>2, <3>3
  <2>4. QED
    BY <2>2, <2>3
<1>3. CASE SweepBegin \/ SweepEnd \/ ReaperDies
  <2>1. sweep'.step \in Unlisted /\ sweep'.cur = NoLease
    BY <1>3, SweepIs DEF SweepBegin, SweepEnd, ReaperDies, Unlisted
  <2>2. QED
    BY <1>0, <2>1 DEF Handles, Remembers, Ahead
<1>4. CASE SweepList \/ SweepOutage
  <2>1. sweep.step = "list" /\ sweep'.cur = sweep.cur
        /\ (SweepList \/ sweep'.todo = {})
    BY <1>4, SweepIs DEF SweepList, SweepOutage, Go, TypeOK
  <2>2. QED
    BY <2>1 DEF Handles, Remembers, Ahead, NoneAtHand, Between
<1>5. CASE Environment \/ UNCHANGED vars
  BY <1>1, <1>5 DEF Environment, Appears, Exits, Vanishes, StrangerArrives,
         Provider, WindowCloses, WindowExpires, ReapDeadlinePasses,
         AbsenceAges, Tick, reaper, vars
<1>6. QED
  BY <1>1, <1>2, <1>3, <1>4, <1>5, ControllerElsewhere, OrphansHandle DEF Next

-----------------------------------------------------------------------------
(* The beginning of an attempt, and the money of a closed one. *)

Started == Former /\ Begun /\ AtHand /\ Freed

LEMMA EndIsEnd ==
  ASSUME NEW l \in Lease, ctl[l].at = "end"
  PROVE  ~Controller(l) /\ ~ControllerDies(l)
<1>1. ~BeforePost(l) /\ ~Post(l) /\ ~ControllerDies(l)
  BY DEF BeforePost, ObserveAccount, BeginCreate, BeginRefused, Reserve,
         MarkCreating, PostIntent, AbandonBeforePost, CancelIntent,
         CancelLedger, CancelClose, Post, Submit, SubmitNothing, MaySubmit,
         SubmitConflict, RecordCreated, RecordFails, BindReturnedId,
         ControllerDies, Alive
<1>2. ~AfterLoss(l) /\ ~Qualify(l)
  BY DEF AfterLoss, LookAfterLoss, InventoryUnavailable, ReconcileLost,
         BindLossIds, ReleaseRejected, Qualify, ObserveCreated, RunFails,
         BindInventory, BindDelta, Attest, BindQuote, WorkEnds
<1>3. ~TearDown(l)
  BY DEF TearDown, ExitWorkload, RecordDestroyIntent,
         BindCleanup, RequestTermination, Delete, LookForAbsence,
         ConfirmAbsence, GiveUp, SettleBilling, FinalizeCampaign, CloseLease,
         AmbiguousDestroy, AmbiguousDelete, AmbiguousConfirm
<1>4. QED
  BY <1>1, <1>2, <1>3 DEF Controller

(* The reaper's copy of a record that was posted, or of one that was not,   *)
(* says how far the controller has come.                                    *)
LEMMA Beyond ==
  ASSUME TypeOK, Consistent, Former, Begun, NEW l \in Lease
  PROVE  /\ docs[l].st \in Posted => lease[l].st \in Posted
         /\ lease[l].st \in Posted
              => ctl[l].at \notin {"idle", "observed", "prepared", "reserved",
                                   "creating", "cancelIntent"}
         /\ docs[l].st # "NONE" => ctl[l].at \notin {"idle", "observed"}
  BY DEF Former, Follows, Posted, Begun, Consistent, NotBegun, Rec!States,
         Rec!Unresolved, TypeOK, Rec!Leases

LEMMA FreeStays ==
  ASSUME TypeOK, Begun, [Next]_vars, NEW l \in Lease, Free(l)
  PROVE  Free(l)'
<1>1. Arrives(l) /\ Pays(l)
  BY NextArrives, NextPays
<1>2. ctl'[l].at \notin Unreserved
  BY <1>1 DEF Free, Unreserved, Arrives, ObserveAccount, BeginCreate
<1>3. ~Att!Held(attempt'[l])
  <2>1. attempt[l].phase \in {"NONE", "RECONCILED", "CANCELLED_BEFORE_CREATE"}
    BY DEF Free, Att!Held, Att!Released
  <2>2. ~Reserve(l)
    BY DEF Free, Reserve, Unreserved
  <2>3. \/ attempt'[l] = attempt[l]
        \/ attempt'[l].phase = "RECONCILED"
    BY <1>1, <2>1, <2>2 DEF Pays, Bindable, Binding
  <2>4. QED
    BY <2>1, <2>3 DEF Att!Held, Att!Released
<1>4. QED
  BY <1>2, <1>3 DEF Free

LEMMA NextBegun ==
  ASSUME TypeOK, Consistent, Secured, Started, [Next]_vars
  PROVE  Begun'
<1> SUFFICES ASSUME NEW l \in Lease
             PROVE  /\ ctl'[l].at \in {"prepared", "reserved", "creating",
                                       "cancelIntent"}
                         => lease'[l].st = "PREPARED"
                    /\ ctl'[l].at \in Unreserved => attempt'[l].phase = "NONE"
                    /\ ctl'[l].at \in {"reserved", "creating", "intent"}
                         => attempt'[l].phase # "NONE"
                    /\ attempt'[l].bound # {}
                         => attempt'[l].phase \in Binding \cup {"RECONCILED"}
  BY DEF Begun
<1>1. Arrives(l) /\ Pays(l) /\ Changes(l)
  BY NextArrives, NextPays, NextChanges
<1>2. attempt'[l].bound # {} => attempt'[l].phase \in Binding \cup {"RECONCILED"}
  BY <1>1 DEF Pays, Started, Begun, Binding, Bindable
<1>3. attempt[l].phase # "NONE" => attempt'[l].phase # "NONE"
  BY <1>1 DEF Pays, Binding
<1>4. ctl'[l].at \in {"reserved", "creating", "intent"} => attempt'[l].phase # "NONE"
  <2>1. CASE ctl'[l].at = ctl[l].at
    BY <1>3, <2>1 DEF Started, Begun
  <2>2. CASE Reserve(l)
    BY <2>2, AttemptIs, PaymentsAre DEF Reserve, TypeOK
  <2>3. CASE MarkCreating(l) \/ PostIntent(l)
    BY <1>3, <2>3 DEF MarkCreating, PostIntent, Started, Begun
  <2>4. QED
    BY <1>1, <2>1, <2>2, <2>3 DEF Arrives
<1>5. ctl'[l].at \in Unreserved => attempt'[l].phase = "NONE"
  <2> HAVE ctl'[l].at \in Unreserved
  <2>1. ~Reserve(l)
    BY MovesTo DEF Reserve, Unreserved
  <2>2. attempt[l].phase = "NONE"
    BY <1>1 DEF Arrives, ObserveAccount, BeginCreate, Unreserved, Started, Begun
  <2>3. QED
    BY <1>1, <2>1, <2>2 DEF Pays, Bindable, Binding, Started, Begun
<1>6. ctl'[l].at \in {"prepared", "reserved", "creating", "cancelIntent"}
        => lease'[l].st = "PREPARED"
  <2> HAVE ctl'[l].at \in {"prepared", "reserved", "creating", "cancelIntent"}
  <2>1. CASE ctl'[l].at = ctl[l].at
    <3>1. lease[l].st = "PREPARED"
      BY <2>1 DEF Started, Begun
    <3>2. ctl[l].at \notin {"cancelClose", "end", "close", "observed"}
      BY <2>1
    <3>3. ~BeginCreate(l) /\ ~CancelClose(l) /\ ~CloseLease(l)
      BY <3>2 DEF BeginCreate, CancelClose, CloseLease
    <3>4. ~PostIntent(l)
      BY <2>1, MovesTo DEF PostIntent
    <3>5. ~OrphanClose(l)
      BY <3>2 DEF OrphanClose, Started, AtHand, Orphaned
    <3>6. ~CloseExpired(l)
      BY <3>1, Beyond DEF CloseExpired, Started, AtHand, Expiring, Posted,
         Rec!States, Rec!Unresolved
    <3>7. ~ReapClose(l)
      BY <3>1 DEF ReapClose, Secured, ReaperCloses, AgedVisible, Visible, Late
    <3>8. CASE lease'[l] = Rec!CancelIntent(lease[l])
      BY <3>1, <3>8 DEF Rec!CancelIntent, TypeOK, Rec!Leases
    <3>9. QED
      BY <1>1, <3>1, <3>3, <3>4, <3>5, <3>6, <3>7, <3>8
         DEF Changes, Tends, Rec!Allowed
  <2>2. CASE BeginCreate(l)
    BY <2>2 DEF BeginCreate, TypeOK, Rec!Prepared, Rec!Unborn
  <2>3. CASE Reserve(l) \/ MarkCreating(l) \/ AbandonBeforePost(l)
    BY <2>3 DEF Reserve, MarkCreating, AbandonBeforePost, store, Started, Begun
  <2>4. QED
    BY <1>1, <2>1, <2>2, <2>3 DEF Arrives
<1>7. QED
  BY <1>2, <1>4, <1>5, <1>6

LEMMA AtHandNone == AtHand => NoneAtHand
  BY DEF AtHand, NoneAtHand, Between

LEMMA NextAtHand ==
  ASSUME TypeOK, Consistent, Started, [Next]_vars
  PROVE  AtHand'
<1> SUFFICES ASSUME NEW l \in Lease, sweep'.cur = l
             PROVE  /\ sweep'.step \notin {"idle", "list", "pick"}
                    /\ sweep'.step \in Orphaned
                         => docs'[l].cancelling /\ ctl'[l].at = "end"
                    /\ sweep'.step \in Expiring => docs'[l].st = "CREATING"
  BY DEF AtHand
<1>1. Handles(l)
  BY AtHandNone, NextHandles DEF Started
<1>2. ctl[l].at = "end" => ctl'[l].at = "end"
  BY NextArrives, EndIsEnd DEF Arrives
<1>3. CASE sweep.cur = l /\ sweep'.step = sweep.step /\ docs'[l] = docs[l]
  BY <1>2, <1>3 DEF Started, AtHand
<1>4. CASE OrphanIntent(l) /\ sweep'.step = "orphanLedger"
  <2>1. ctl[l].at = "end"
    BY <1>4, Beyond DEF OrphanIntent, Alive, Started
  <2>2. QED
    BY <1>1, <1>2, <1>4, <2>1, <1>3 DEF Handles, Between, Orphaned, Expiring
<1>5. CASE OrphanLedger(l) /\ docs'[l] = docs[l] /\ sweep'.step = "orphanClose"
  BY <1>2, <1>5 DEF OrphanLedger, Started, AtHand, Orphaned, Expiring
<1>6. CASE VisitExpired(l) /\ docs'[l] = docs[l] /\ sweep'.step = "expire"
  BY <1>6 DEF VisitExpired, Visiting, Orphaned
<1>7. CASE ReleaseExpired(l) /\ docs'[l] = docs[l] /\ sweep'.step = "expireClose"
  BY <1>7 DEF ReleaseExpired, Started, AtHand, Orphaned, Expiring
<1>8. QED
  BY <1>1, <1>3, <1>4, <1>5, <1>6, <1>7 DEF Handles, Between, Orphaned, Expiring

LEMMA NextFreed ==
  ASSUME TypeOK, Consistent, Secured, Started, [Next]_vars
  PROVE  Freed'
<1> SUFFICES ASSUME NEW l \in Lease
             PROVE  /\ lease'[l].proof \in {"expired", "cancelled", "settled"}
                         => Free(l)'
                    /\ ctl'[l].at \in {"cancelClose", "close"} => Free(l)'
                    /\ sweep'.cur = l
                       /\ sweep'.step \in {"orphanClose", "expireClose", "close"}
                         => Free(l)'
  BY DEF Freed
<1>1. Arrives(l) /\ Pays(l) /\ Changes(l) /\ Handles(l)
  BY NextArrives, NextPays, NextChanges, AtHandNone, NextHandles DEF Started
<1>2. Free(l) => Free(l)'
  BY FreeStays DEF Started
<1>3. SUFFICES ASSUME ~Free(l)
               PROVE  /\ lease'[l].proof \notin {"expired", "cancelled", "settled"}
                      /\ ctl'[l].at \in {"cancelClose", "close"} => Free(l)'
                      /\ sweep'.cur = l
                         /\ sweep'.step \in {"orphanClose", "expireClose", "close"}
                           => Free(l)'
  BY <1>2
<1>4. lease'[l].proof \notin {"expired", "cancelled", "settled"}
  <2>1. lease[l].proof \notin {"expired", "cancelled", "settled"}
    BY <1>3 DEF Started, Freed
  <2>2. /\ ~CancelClose(l) /\ ~OrphanClose(l) /\ ~CloseExpired(l)
        /\ ~CloseLease(l) /\ ~ReapClose(l)
    BY <1>3 DEF Started, Freed, CancelClose, OrphanClose, CloseExpired,
                CloseLease, ReapClose
  <2>3. CASE BeginCreate(l)
    BY <2>3 DEF BeginCreate, TypeOK, Rec!Prepared, Rec!Unborn
  <2>4. CASE Tends(lease[l], lease'[l])
    BY <2>4, NextConsistent, NextType DEF Tends, Consistent, Recorded, Rec!Valid
  <2>5. CASE lease'[l] \in {Rec!PostIntent(lease[l]), Rec!CancelIntent(lease[l]),
                            Rejected(lease[l]), Noted(lease[l], TRUE)}
    <3>1. lease[l] \in Rec!Leases
      BY DEF TypeOK
    <3>2. /\ Rec!PostIntent(lease[l]).proof = lease[l].proof
          /\ Rec!CancelIntent(lease[l]).proof = lease[l].proof
          /\ Noted(lease[l], TRUE).proof = lease[l].proof
          /\ Rejected(lease[l]).proof = "rejected"
      BY <3>1 DEF Rec!Leases, Rec!PostIntent, Rec!CancelIntent, Rejected, Noted
    <3>3. QED
      BY <2>1, <2>5, <3>2
  <2>6. QED
    BY <1>1, <2>1, <2>2, <2>3, <2>4, <2>5 DEF Changes
<1> USE AttemptIs, PaymentsAre
<1>a. attempt[l] \in Att!Attempts
  BY DEF TypeOK
<1>5. ctl'[l].at \in {"cancelClose", "close"} => Free(l)'
  <2> HAVE ctl'[l].at \in {"cancelClose", "close"}
  <2>1. CASE ctl'[l].at = ctl[l].at
    BY <1>3, <2>1 DEF Started, Freed
  <2>2. CASE CancelLedger(l)
    <3>1. attempt'[l].phase \in {"NONE", "CANCELLED_BEFORE_CREATE"}
      BY <1>a, <2>2 DEF CancelLedger, LedgerCancels
    <3>2. QED
      BY <3>1 DEF Free, Att!Held, Att!Released, Unreserved
  <2>3. CASE FinalizeCampaign(l) /\ ctl'[l].at = "close"
    <3>1. SetAttempt(l, Att!Projected(attempt[l], lease[l].ids))
      BY <2>3, MovesTo DEF FinalizeCampaign
    <3>2. QED
      BY <1>a, <2>3, <3>1 DEF Free, Att!Held, Att!Released, Unreserved
  <2>4. QED
    BY <1>1, <2>1, <2>2, <2>3 DEF Arrives
<1>6. ASSUME sweep'.cur = l, sweep'.step \in {"orphanClose", "expireClose", "close"}
      PROVE  Free(l)'
  <2>1. CASE sweep.cur = l /\ sweep'.step = sweep.step
    BY <1>3, <1>6, <2>1 DEF Started, Freed
  <2>2. CASE OrphanLedger(l) /\ sweep'.step = "orphanClose"
    <3>1. LedgerCancels(l) /\ ctl'[l] = ctl[l] /\ ctl[l].at = "end"
      BY <2>2, SweepIs DEF OrphanLedger, Started, AtHand, Orphaned
    <3>2. attempt'[l].phase \in {"NONE", "CANCELLED_BEFORE_CREATE"}
      BY <1>a, <3>1 DEF LedgerCancels
    <3>3. QED
      BY <3>1, <3>2 DEF Free, Att!Held, Att!Released, Unreserved
  <2>3. CASE ReleaseExpired(l) /\ sweep'.step = "expireClose"
    <3>1. attempt'[l].phase \in {"NONE", "CANCELLED_BEFORE_CREATE"}
      BY <1>a, <2>3, SweepIs DEF ReleaseExpired
    <3>2. docs[l].st \in Posted /\ ctl'[l] = ctl[l]
      BY <2>3 DEF ReleaseExpired, Started, AtHand, Expiring, Posted,
                  Rec!States, Rec!Unresolved
    <3>3. QED
      BY <3>1, <3>2, Beyond
         DEF Started, Free, Att!Held, Att!Released, Unreserved
  <2>4. CASE ReapFinalize(l) /\ docs'[l] = docs[l] /\ sweep'.step = "close"
    <3>1. SetAttempt(l, Att!Projected(attempt[l], docs[l].ids)) /\ ctl'[l] = ctl[l]
      BY <2>4, SweepIs DEF ReapFinalize
    <3>2. docs[l].staged
      BY <1>6, <2>4, NextSecured DEF Secured, ReaperCloses
    <3>3. lease[l].st \in Posted
      BY <3>2 DEF Secured, AgedVisible, Visible, Late, Posted, Rec!States,
                  Rec!Unresolved
    <3>4. QED
      BY <1>a, <3>1, <3>3, Beyond
         DEF Started, Free, Att!Held, Att!Released, Unreserved
  <2>5. QED
    BY <1>1, <1>6, <2>1, <2>2, <2>3, <2>4 DEF Handles
<1>7. QED
  BY <1>4, <1>5, <1>6

LEMMA InitStarted == Init => Started
<1>1. SUFFICES ASSUME Init PROVE Started
  OBVIOUS
<1>2. /\ Rec!Unborn.st = "NONE" /\ Rec!Unborn.proof = "none"
      /\ Att!Unreserved.phase = "NONE" /\ Att!Unreserved.bound = {}
  BY DEF Rec!Unborn, Att!Unreserved
<1>3. \A l \in Lease : /\ lease[l] = Rec!Unborn /\ docs[l] = Rec!Unborn
                       /\ attempt[l] = Att!Unreserved /\ ctl[l].at = "idle"
  BY <1>1 DEF Init, NoDocs
<1>4. sweep.cur = NoLease /\ NoLease \notin Lease
  BY <1>1, ConstantsAssumption DEF Init, Idle
<1>5. QED
  BY <1>2, <1>3, <1>4
     DEF Started, Former, Follows, Begun, AtHand, Freed

LEMMA NextStarted ==
  ASSUME TypeOK, Consistent, Secured, Started, [Next]_vars
  PROVE  Started'
  BY NextFormer, NextBegun, NextAtHand, NextFreed DEF Started

(* A lease closed by expiry, cancellation or settlement leaves no held      *)
(* reservation behind, whichever of the two processes dies between the      *)
(* ledger's write and the lease's.                                          *)
THEOREM ClosedIsReleased == Spec => []ClosedMeansReleased
<1>1. Init => TypeOK /\ Consistent /\ Secured /\ Started
  BY InitType, InitConsistent, InitSecured, InitStarted
<1>2. TypeOK /\ Consistent /\ Secured /\ Started /\ [Next]_vars
        => (TypeOK /\ Consistent /\ Secured /\ Started)'
  BY NextType, NextConsistent, NextSecured, NextStarted
<1>3. Started => ClosedMeansReleased
  BY DEF Started, Freed, Free, ClosedMeansReleased
<1>4. QED
  BY <1>1, <1>2, <1>3, PTL DEF Spec

-----------------------------------------------------------------------------
(* What is over stays over. *)

LEMMA ExpiringIs ==
  ASSUME TypeOK, Consistent, Started, NEW l \in Lease
  PROVE  /\ OrphanIntent(l) => ctl[l].at = "end"
         /\ lease[l].cancelling => lease[l].st # "NONE"
         /\ docs[l].cancelling => lease[l].cancelling
         /\ docs[l].closedOnce => lease[l].closedOnce
         /\ lease[l].st \in Late
              => ctl[l].at \notin Early /\ lease[l].st # "CREATING"
<1>1. OrphanIntent(l) => ctl[l].at = "end"
  BY Beyond DEF Started, OrphanIntent, Alive
<1>2. lease[l].cancelling => lease[l].st # "NONE"
  BY DEF Consistent, Recorded, Rec!Unborn
<1>3. /\ docs[l].cancelling => lease[l].cancelling
      /\ docs[l].closedOnce => lease[l].closedOnce
  BY DEF Started, Former, Follows
<1>4. lease[l].st \in Late => lease[l].st \in Posted
  BY DEF Late, Posted, Rec!States, Rec!Unresolved
<1>5. lease[l].st \in Late => ctl[l].at \notin Early /\ lease[l].st # "CREATING"
  BY <1>4, Beyond DEF Started, Early, Late
<1>6. QED
  BY <1>1, <1>2, <1>3, <1>5

LEMMA EarlyIs ==
  ASSUME TypeOK, [Next]_vars, NEW l \in Lease
  PROVE  /\ ctl'[l].at \in Early => ctl[l].at \in Early
         /\ ctl'[l].at \in Early \cup {"intent"}
              => ctl[l].at \in Early \cup {"intent"}
         /\ MayPost(l)' => MayPost(l)
<1>1. Arrives(l)
  BY NextArrives
<1>2. ctl'[l].at \in Early => ctl[l].at \in Early
  BY <1>1 DEF Arrives, Early, ObserveAccount, BeginCreate, Reserve, MarkCreating
<1>3. ctl'[l].at = "intent" => \/ ctl[l].at = "creating"
                               \/ /\ ctl[l].at = "intent"
                                  /\ ctl'[l].ref => ctl[l].ref
                                  /\ lease'[l] # lease[l] => ~ctl'[l].ref
  BY <1>1 DEF Arrives, PostIntent
<1>4. QED
  BY <1>2, <1>3 DEF MayPost, Early

LEMMA SubmitIs ==
  ASSUME TypeOK, NEW l \in Lease, Submit(l)
  PROVE  /\ MayPost(l) /\ ctl[l].at = "intent" /\ lease[l].st = "CREATING"
         /\ ctl'[l].at \in {"sent", "lost"}
         /\ UNCHANGED <<lease, attempt, sweep, docs, asof, seen, clock>>
  BY MovesTo DEF Submit, MaySubmit, MayPost, store, reaper

LEMMA OverStays ==
  ASSUME TypeOK, Named, [Next]_vars, NEW l \in Lease, Over(l)
  PROVE  Over(l)'
<1>1. ~MayPost(l)' /\ ~Submit(l)
  BY EarlyIs, SubmitIs DEF Over
<1>2. Quiet(l)
  BY <1>1, NextPods
<1>3. Unbilled(l)'
  BY <1>2 DEF Over, Unbilled, Quiet
<1>4. QED
  BY <1>1, <1>3 DEF Over

LEMMA NextCancelling ==
  ASSUME TypeOK, Consistent, Started, [Next]_vars, NEW l \in Lease,
         lease'[l].cancelling, ~lease[l].cancelling
  PROVE  /\ lease[l].st = "PREPARED" /\ ctl'[l].at \notin Early \cup {"intent"}
         /\ ~Submit(l) /\ ~MayPost(l)
<1>1. Changes(l)
  BY NextChanges
<1>2. lease[l] \in Rec!Leases
  BY DEF TypeOK
<1>3. ctl[l].at = "cancelIntent" \/ OrphanIntent(l)
  <2>1. CASE BeginCreate(l)
    BY <2>1 DEF BeginCreate, TypeOK, Rec!Prepared, Rec!Unborn
  <2>2. CASE lease'[l] \in {Rec!PostIntent(lease[l]), Rec!CancelPrepared(lease[l]),
                            Rejected(lease[l]), Noted(lease[l], TRUE),
                            Expiration(lease[l]), Rec!BillingRecorded(lease[l])}
    <3>1. /\ Rec!PostIntent(lease[l]).cancelling = lease[l].cancelling
          /\ Rec!CancelPrepared(lease[l]).cancelling = lease[l].cancelling
          /\ Rejected(lease[l]).cancelling = lease[l].cancelling
          /\ Noted(lease[l], TRUE).cancelling = lease[l].cancelling
          /\ Expiration(lease[l]).cancelling = lease[l].cancelling
          /\ Rec!BillingRecorded(lease[l]).cancelling = lease[l].cancelling
      BY <1>2 DEF Rec!PostIntent, Rec!CancelPrepared, Rejected, Noted, Expiration,
                  Rec!BillingRecorded, Rec!Leases
    <3>2. QED
      BY <2>2, <3>1
  <2>3. QED
    BY <1>1, <2>1, <2>2 DEF Changes, Tends
<1>4. CASE ctl[l].at = "cancelIntent"
  BY <1>4, EarlyIs, SubmitIs DEF Started, Begun, Early, MayPost
<1>5. CASE OrphanIntent(l)
  <2>1. ctl[l].at = "end"
    BY <1>5, ExpiringIs
  <2>2. CanWriteR(l, Rec!CancelIntent(lease[l])) \/ UNCHANGED lease
    BY <1>5 DEF OrphanIntent
  <2>3. lease[l].st = "PREPARED"
    BY <1>5, <2>2, WritesR DEF OrphanIntent
  <2>4. QED
    BY <2>1, <2>3, EarlyIs, SubmitIs DEF Early, MayPost
<1>6. QED
  BY <1>3, <1>4, <1>5

LEMMA NextClosedOnce ==
  ASSUME TypeOK, Consistent, Started, [Next]_vars, NEW l \in Lease,
         lease'[l].closedOnce, ~lease[l].closedOnce
  PROVE  ~MayPost(l)' /\ ~ctl'[l].ref /\ lease[l].st = "CREATING"
<1>1. Changes(l)
  BY NextChanges
<1>2. lease[l] \in Rec!Leases
  BY DEF TypeOK
<1>3. ~ctl'[l].ref /\ lease[l].st = "CREATING"
  <2>1. CASE BeginCreate(l)
    BY <2>1 DEF BeginCreate, TypeOK, Rec!Prepared, Rec!Unborn
  <2>2. CASE lease'[l] \in {Rec!PostIntent(lease[l]), Rec!CancelPrepared(lease[l]),
                            Rejected(lease[l]), Rec!CancelIntent(lease[l]),
                            Expiration(lease[l]), Rec!BillingRecorded(lease[l])}
    <3>1. /\ Rec!PostIntent(lease[l]).closedOnce = lease[l].closedOnce
          /\ Rec!CancelPrepared(lease[l]).closedOnce = lease[l].closedOnce
          /\ Rejected(lease[l]).closedOnce = lease[l].closedOnce
          /\ Rec!CancelIntent(lease[l]).closedOnce = lease[l].closedOnce
          /\ Expiration(lease[l]).closedOnce = lease[l].closedOnce
          /\ Rec!BillingRecorded(lease[l]).closedOnce = lease[l].closedOnce
      BY <1>2 DEF Rec!PostIntent, Rec!CancelPrepared, Rejected, Rec!CancelIntent,
                  Expiration, Rec!BillingRecorded, Rec!Leases
    <3>2. QED
      BY <2>2, <3>1
  <2>3. QED
    BY <1>1, <2>1, <2>2 DEF Changes, Tends
<1>4. ctl[l].at \notin Early
  BY <1>3, Beyond DEF Started, Posted, Early, Rec!States, Rec!Unresolved
<1>5. QED
  BY <1>3, <1>4, EarlyIs DEF MayPost

LEMMA NextUnposted ==
  ASSUME TypeOK, Consistent, Secured, Started, Unposted, [Next]_vars
  PROVE  Unposted'
<1> SUFFICES ASSUME NEW l \in Lease
             PROVE  /\ MayPost(l)' \/ lease'[l].st \in {"NONE", "PREPARED"}
                       \/ lease'[l].cancelling \/ attempt'[l].phase = "NONE"
                         => Own(l)' = {}
                    /\ lease'[l].cancelling \/ lease'[l].closedOnce => ~MayPost(l)'
                    /\ ctl'[l].at \in {"cancelLedger", "cancelClose"}
                         => lease'[l].cancelling
  BY DEF Unposted
<1>1. Arrives(l) /\ Pays(l) /\ Changes(l) /\ Follows(lease[l], lease'[l])
  BY NextArrives, NextPays, NextChanges, NextFollows
<1>2. ASSUME lease'[l].cancelling \/ lease'[l].closedOnce
      PROVE  ~MayPost(l)'
  BY <1>2, NextCancelling, NextClosedOnce, EarlyIs DEF Unposted, MayPost
<1>3. ASSUME ctl'[l].at \in {"cancelLedger", "cancelClose"}
      PROVE  lease'[l].cancelling
  <2>1. CASE CancelIntent(l)
    <3>1. lease'[l] = Rec!CancelIntent(lease[l])
      BY <1>3, <2>1, MovesTo, CommitIs DEF CancelIntent
    <3>2. QED
      BY <3>1 DEF TypeOK, Rec!Leases, Rec!CancelIntent
  <2>2. CASE CancelLedger(l)
    BY <2>2 DEF CancelLedger, Unposted
  <2>3. CASE ctl'[l].at = ctl[l].at
    BY <1>1, <1>3, <2>3 DEF Unposted, Follows
  <2>4. QED
    BY <1>1, <1>3, <2>1, <2>2, <2>3 DEF Arrives
<1>4. CASE Submit(l)
  <2>1. /\ ~MayPost(l)' /\ lease'[l].st = "CREATING" /\ ~lease'[l].cancelling
        /\ attempt'[l].phase # "NONE"
    BY <1>4, SubmitIs DEF MayPost, Early, Unposted, Started, Begun
  <2>2. QED
    BY <1>2, <1>3, <2>1
<1>5. CASE Quiet(l)
  <2>1. SUFFICES ASSUME \/ MayPost(l)' \/ lease'[l].st \in {"NONE", "PREPARED"}
                        \/ lease'[l].cancelling \/ attempt'[l].phase = "NONE"
                 PROVE  Own(l) = {}
    BY <1>2, <1>3, <1>5 DEF Quiet
  <2>2. attempt'[l].phase = "NONE" => attempt[l].phase = "NONE"
    BY <1>1 DEF Pays, Binding
  <2>3. lease'[l].st \in {"NONE", "PREPARED"} => lease[l].st \in {"NONE", "PREPARED"}
    BY <1>1 DEF Follows, Posted, Rec!States, Rec!Unresolved, TypeOK, Rec!Leases
  <2>4. lease'[l].cancelling => lease[l].cancelling \/ lease[l].st = "PREPARED"
    BY NextCancelling
  <2>5. QED
    BY <2>1, <2>2, <2>3, <2>4, EarlyIs DEF Unposted
<1>6. QED
  BY <1>4, <1>5, NextPods DEF Secured

-----------------------------------------------------------------------------
(* What a POST makes, and what the listings show of it. *)

LEMMA SubmitMakes ==
  ASSUME OnePodPerPost, NEW l \in Lease, Submit(l)
  PROVE  \E p \in Pod : pod[p] = "none" /\ Own(l)' \subseteq Own(l) \cup {p}
<1>1. PICK made \in SUBSET {p \in Pod : pod[p] = "none"} :
        /\ Cardinality(made) \in 1..MaxPerPost
        /\ owner' = [p \in Pod |-> IF p \in made THEN l ELSE owner[p]]
  BY DEF Submit
<1>2. IsFiniteSet(made) /\ Cardinality(made) = 1
  BY <1>1, FS_Subset DEF OnePodPerPost
<1>3. PICK p : made = {p}
  BY <1>2, FS_Singleton
<1>4. QED
  BY <1>1, <1>3 DEF Own

LEMMA NextOnePod ==
  ASSUME OnePodPerPost, TypeOK, Secured, Unposted, OnePod, [Next]_vars
  PROVE  OnePod'
<1> SUFFICES ASSUME NEW l \in Lease PROVE \A p, q \in Own(l)' : p = q
  BY DEF OnePod
<1>1. CASE Quiet(l)
  BY <1>1 DEF Quiet, OnePod
<1>2. CASE Submit(l)
  <2>1. Own(l) = {}
    BY <1>2, SubmitIs DEF Unposted
  <2>2. QED
    BY <1>2, <2>1, SubmitMakes
<1>3. QED
  BY <1>1, <1>2, NextPods DEF Secured

LEMMA SubmitIsNew ==
  ASSUME NEW l \in Lease, Submit(l)
  PROVE  \A p \in Own(l)' \ Own(l) : pod[p] = "none"
<1>1. PICK made \in SUBSET {p \in Pod : pod[p] = "none"} :
        owner' = [p \in Pod |-> IF p \in made THEN l ELSE owner[p]]
  BY DEF Submit
<1>2. QED
  BY <1>1 DEF Own

LEMMA NextFresh ==
  ASSUME TypeOK, Consistent, Secured, Started, Unposted, Fresh,
         [Next]_vars
  PROVE  Fresh'
<1> SUFFICES ASSUME NEW l \in Lease
             PROVE  /\ \A p \in ctl'[l].look \cup lease'[l].pre : pod'[p] # "none"
                    /\ lease'[l].pre \cap Own(l)' = {}
  BY DEF Fresh
<1>1. Arrives(l) /\ Changes(l) /\ Follows(lease[l], lease'[l]) /\ Unveiled
  BY NextArrives, NextChanges, NextFollows, NextPods DEF Secured
<1>2. /\ ctl[l].look \subseteq Pod /\ lease[l].pre \subseteq Pod
      /\ ctl'[l].look \subseteq Pod /\ lease'[l].pre \subseteq Pod
  BY NextType DEF TypeOK, Controllers, Rec!Leases
<1>3. /\ lease'[l].pre \in {lease[l].pre, ctl[l].look}
      /\ lease'[l].pre # lease[l].pre => BeginCreate(l)
  <2>1. CASE BeginCreate(l)
    BY <2>1 DEF BeginCreate, TypeOK, Rec!Prepared, Rec!Unborn
  <2>2. CASE ~BeginCreate(l)
    BY <1>1, <2>2 DEF Changes, Follows
  <2>3. QED
    BY <2>1, <2>2
<1>4. ctl'[l].look \subseteq Listed \cup ctl[l].look
  BY <1>1 DEF Arrives
<1>5. \A p \in ctl'[l].look \cup lease'[l].pre : pod[p] # "none"
  BY <1>3, <1>4 DEF Fresh, Listed
<1>6. lease'[l].pre \cap Own(l)' = {}
  <2>1. lease'[l].pre \cap Own(l) = {}
    <3>1. CASE lease'[l].pre = lease[l].pre
      BY <3>1 DEF Fresh
    <3>2. CASE BeginCreate(l)
      BY <3>2 DEF BeginCreate, MayPost, Early, Unposted
    <3>3. QED
      BY <1>3, <3>1, <3>2
  <2>2. CASE Quiet(l)
    BY <2>1, <2>2 DEF Quiet
  <2>3. CASE Submit(l)
    BY <1>5, <2>1, <2>3, SubmitIsNew
  <2>4. QED
    BY <2>2, <2>3, NextPods DEF Secured
<1>7. ASSUME NEW p \in ctl'[l].look \cup lease'[l].pre
      PROVE  pod'[p] # "none"
  <2>1. p \in Pod
    BY <1>2, <1>7
  <2>2. QED
    BY <1>1, <1>5, <1>7, <2>1 DEF Unveiled
<1>8. QED
  BY <1>6, <1>7

LEMMA NextClocks ==
  ASSUME TypeOK, [Next]_vars, NEW l \in Lease
  PROVE  /\ clock'[l].win = "expired"
              => clock[l].win = "expired" \/ WindowExpires(l)
         /\ asof'[l].win = "expired"
              => asof[l].win = "expired" \/ clock[l].win = "expired"
<1> DEFINE Restarts == \E k \in Lease : clock' = [clock EXCEPT ![k] = StartClock]
           Forgets == \E k \in Lease : asof' = [asof EXCEPT ![k] = StartClock]
<1>t. /\ clock \in [Lease -> Clocks] /\ asof \in [Lease -> Clocks]
      /\ StartClock.win = "open"
  BY DEF TypeOK, StartClock
<1>1. ASSUME NEW k \in Lease, Controller(k) \/ ControllerDies(k)
      PROVE  UNCHANGED asof /\ (UNCHANGED clock \/ Restarts)
  <2>1. UNCHANGED asof
    BY <1>1, ControllerElsewhere
  <2>2. CASE BeforePost(k) \/ Post(k) \/ ControllerDies(k)
    BY <2>1, <2>2 DEF BeforePost, Post, ControllerDies, ObserveAccount,
       BeginCreate, BeginRefused, Reserve, MarkCreating, PostIntent,
       AbandonBeforePost, CancelIntent, CancelLedger, CancelClose, Submit,
       SubmitNothing, SubmitConflict, RecordCreated, RecordFails, BindReturnedId
  <2>3. CASE AfterLoss(k) \/ Qualify(k)
    BY <2>1, <2>3 DEF AfterLoss, Qualify, LookAfterLoss, InventoryUnavailable,
       ReconcileLost, BindLossIds, ReleaseRejected, ObserveCreated, RunFails,
       BindInventory, BindDelta, Attest, BindQuote, WorkEnds
  <2>4. CASE TearDown(k)
    BY <2>1, <2>4 DEF TearDown, ExitWorkload, RecordDestroyIntent, BindCleanup,
       RequestTermination, Delete, LookForAbsence, ConfirmAbsence, GiveUp,
       SettleBilling, FinalizeCampaign, CloseLease, AmbiguousDestroy,
       AmbiguousDelete, AmbiguousConfirm, RestartAge
  <2>5. QED
    BY <1>1, <2>2, <2>3, <2>4, <2>1 DEF Controller
<1>2. ASSUME NEW k \in Lease, CancelOrphans(k) \/ Visit(k)
      PROVE  (UNCHANGED asof \/ Forgets) /\ (UNCHANGED clock \/ Restarts)
  <2> USE DEF Forget, Fail, Done, Go, memory, OrphanEnds, RestartAge
  <2>1. CASE CancelOrphans(k)
    BY <2>1 DEF CancelOrphans, DeferPrepared, OrphanIntent, OrphanLedger,
           OrphanClose
  <2>2. CASE Pick(k) \/ VisitMoved(k) \/ VisitExpired(k) \/ ReleaseExpired(k)
             \/ VisitHeld(k) \/ VisitUnconfirmable(k) \/ VisitLive(k)
             \/ ReapDelete(k) \/ ReapRelist(k) \/ BillingPending(k)
             \/ ReapFinalize(k)
    BY <2>2 DEF Pick, VisitMoved, VisitExpired, ReleaseExpired, VisitHeld,
           VisitUnconfirmable, VisitLive, ReapDelete, ReapRelist,
           BillingPending, ReapFinalize, ReadOnly
  <2>3. CASE VisitRevoke(k) \/ VisitAmbiguous(k) \/ VisitDestroy(k)
             \/ ReapStage(k) \/ VisitNotListed(k) \/ VisitCreating(k)
    BY <2>3 DEF VisitRevoke, VisitAmbiguous, VisitDestroy, ReapStage,
           VisitNotListed, VisitCreating, ReapAbsence, ReapWrite, ReadOnly
  <2>4. CASE VisitWaiting(k) \/ CloseExpired(k) \/ ReapClose(k) \/ ReapConfirm(k)
    BY <2>4 DEF VisitWaiting, CloseExpired, ReapClose, ReapConfirm, ReapWriteLast
  <2>5. QED
    BY <1>2, <2>1, <2>2, <2>3, <2>4 DEF Visit
<1>3. CASE SweepBegin \/ SweepList \/ SweepOutage \/ SweepEnd \/ ReaperDies
           \/ UNCHANGED vars
  <2>1. /\ UNCHANGED clock
        /\ asof'[l] \in {asof[l], clock[l], StartClock}
    BY <1>3 DEF SweepBegin, SweepList, SweepOutage, SweepEnd, ReaperDies,
           ForgetSweep, NoDeadline, Go, memory, vars
  <2>2. QED
    BY <1>t, <2>1
<1>4. CASE Environment
  <2>1. UNCHANGED asof
    BY <1>4 DEF Environment, Appears, Exits, Vanishes, StrangerArrives, Provider,
           WindowCloses, WindowExpires, ReapDeadlinePasses, AbsenceAges, Tick,
           reaper
  <2>2. CASE \E p \in Pod : Appears(p) \/ Exits(p) \/ Vanishes(p)
                           \/ StrangerArrives(p)
    BY <2>1, <2>2 DEF Appears, Exits, Vanishes, StrangerArrives, Provider
  <2>3. ASSUME NEW k \in Lease, NEW field \in {"win", "due", "aged"}, NEW value,
               Tick(k, field, value),
               field = "win" /\ k = l /\ value = "expired" => WindowExpires(l)
        PROVE  clock'[l].win = "expired"
                 => clock[l].win = "expired" \/ WindowExpires(l)
    <3>1. clock[k] \in [win : {"open", "closed", "expired"}, due : BOOLEAN,
                        aged : BOOLEAN]
      BY <1>t DEF Clocks
    <3>2. clock' = [clock EXCEPT ![k] = [clock[k] EXCEPT ![field] = value]]
      BY <2>3 DEF Tick
    <3>3. CASE k # l
      BY <1>t, <3>2, <3>3
    <3>4. CASE k = l /\ field = "win"
      BY <1>t, <2>3, <3>1, <3>2, <3>4
    <3>5. CASE k = l /\ field # "win"
      BY <1>t, <3>1, <3>2, <3>5
    <3>6. QED
      BY <3>3, <3>4, <3>5
  <2>4. ASSUME NEW k \in Lease, WindowCloses(k) \/ WindowExpires(k)
                                \/ ReapDeadlinePasses(k) \/ AbsenceAges(k)
        PROVE  clock'[l].win = "expired"
                 => clock[l].win = "expired" \/ WindowExpires(l)
    BY <2>3, <2>4 DEF WindowCloses, WindowExpires, ReapDeadlinePasses, AbsenceAges
  <2>5. QED
    BY <1>4, <2>1, <2>2, <2>4 DEF Environment
<1>5. ASSUME UNCHANGED asof \/ Forgets, UNCHANGED clock \/ Restarts
      PROVE  /\ clock'[l].win = "expired" => clock[l].win = "expired"
             /\ asof'[l].win = "expired" => asof[l].win = "expired"
  BY <1>5, <1>t
<1>6. QED
  BY <1>1, <1>2, <1>3, <1>4, <1>5 DEF Next

LEMMA NextExpired ==
  ASSUME Punctual, TypeOK, Consistent, Secured, Started, Unposted, Expired,
         [Next]_vars
  PROVE  Expired'
<1>1. Unveiled
  BY NextPods DEF Secured
<1>2. ~Lag => \A p \in Pod : pod'[p] # "hidden"
  BY <1>1 DEF Unveiled, Expired
<1>3. ASSUME NEW l \in Lease, clock'[l].win = "expired" \/ asof'[l].win = "expired"
      PROVE  NoneHidden(l)' /\ (PromptPost => ctl'[l].at \notin Early \cup {"intent"})
  <2>1. \/ clock[l].win = "expired" \/ asof[l].win = "expired"
        \/ WindowExpires(l)
    BY <1>3, NextClocks
  <2>2. NoneHidden(l) /\ (PromptPost => ctl[l].at \notin Early \cup {"intent"})
    <3>1. CASE WindowExpires(l)
      BY <3>1 DEF WindowExpires, NoneHidden, Early, Consistent, NotBegun
    <3>2. QED
      BY <2>1, <3>1 DEF Expired
  <2>3. PromptPost => ctl'[l].at \notin Early \cup {"intent"}
    BY <2>2, EarlyIs
  <2>4. CASE Quiet(l)
    BY <2>2, <2>3, <2>4 DEF NoneHidden, Quiet
  <2>5. CASE Submit(l)
    <3>1. ~PromptPost
      BY <2>2, <2>5, SubmitIs
    <3>2. QED
      BY <1>2, <2>3, <3>1 DEF Punctual, NoneHidden, Own
  <2>6. QED
    BY <2>4, <2>5, NextPods DEF Secured
<1>4. QED
  BY <1>2, <1>3 DEF Expired

LEMMA NextSeenAll ==
  ASSUME TypeOK, Consistent, Secured, Started, Unposted, Expired, SeenAll,
         [Next]_vars
  PROVE  SeenAll'
<1> SUFFICES ASSUME NEW l \in Lease, Ahead(l)', docs'[l].closedOnce,
                    asof'[l].win = "expired"
             PROVE  \A p \in Own(l)' : Billed(p)' => p \in seen'.ids
  BY DEF SeenAll, Ahead
<1>1. Remembers(l)
  BY AtHandNone, NextHandles DEF Started
<1>2. CASE SweepList
  <2>1. /\ asof'[l] = asof[l] /\ seen'.ids = Listed /\ UNCHANGED <<pod, owner>>
    BY <1>2 DEF SweepList, Go, memory, provider
  <2>2. NoneHidden(l)
    BY <2>1 DEF Expired
  <2>3. QED
    BY <2>1, <2>2 DEF NoneHidden, Own, Billed, Listed
<1>3. CASE /\ Ahead(l) /\ seen'.ids = seen.ids /\ asof'[l] = asof[l]
           /\ docs[l].closedOnce
  <2>1. \A p \in Own(l) : Billed(p) => p \in seen.ids
    BY <1>3 DEF SeenAll, Ahead
  <2>2. ~Submit(l)
    BY <1>3, ExpiringIs, SubmitIs DEF Unposted
  <2>3. Quiet(l)
    BY <2>2, NextPods DEF Secured
  <2>4. QED
    BY <1>3, <2>1, <2>3 DEF Quiet
<1>4. QED
  BY <1>1, <1>2, <1>3 DEF Remembers

-----------------------------------------------------------------------------
(* Whoever concludes does so when the attempt is over. *)

Covered == Unposted /\ OnePod /\ Fresh /\ Expired /\ SeenAll /\ Concluded
           /\ Intended /\ Rivalless

(* Pods of an attempt, all gone: with one pod per POST they are all of it.  *)
LEMMA FinalizedOver ==
  ASSUME TypeOK, Consistent, Secured, Started, OnePod, NEW l \in Lease,
         Visible(l), NEW r, MayFinalize(l, r), r.ids \subseteq Own(l)
  PROVE  Over(l)
<1>1. AllGone(r.ids) /\ r.ids # {}
  BY FinalizedGone DEF MayFinalize
<1>2. Own(l) = r.ids
  BY <1>1 DEF OnePod
<1>3. Unbilled(l)
  BY <1>1, <1>2 DEF AllGone, Gone, Unbilled, Billed
<1>4. ~MayPost(l)
  BY ExpiringIs DEF MayPost, Visible
<1>5. QED
  BY <1>3, <1>4 DEF Over

LEMMA FinalizeCampaignOver ==
  ASSUME TypeOK, Consistent, Secured, Started, OnePod, NEW l \in Lease,
         FinalizeCampaign(l), ctl'[l].at = "close" \/ attempt'[l] # attempt[l]
  PROVE  Over(l)
<1>1. lease[l].staged /\ MayFinalize(l, lease[l])
  BY MovesTo DEF FinalizeCampaign
<1>2. Visible(l) /\ lease[l].ids \subseteq Own(l)
  BY <1>1 DEF Secured, AgedVisible, Owned
<1>3. QED
  BY <1>1, <1>2, FinalizedOver

LEMMA ReapFinalizeOver ==
  ASSUME TypeOK, Consistent, Secured, Started, OnePod, NEW l \in Lease,
         ReapFinalize(l), sweep'.step = "close" \/ attempt'[l] # attempt[l]
  PROVE  Over(l)
<1>1. MayFinalize(l, docs[l])
  BY SweepIs DEF ReapFinalize
<1>2. docs[l].staged
  BY DEF ReapFinalize, Secured, ReaperCloses
<1>3. Visible(l) /\ docs[l].ids \subseteq Own(l)
  BY <1>2 DEF Secured, AgedVisible, Owned
<1>4. QED
  BY <1>1, <1>3, FinalizedOver

(* Nothing listed, nothing bound, and the window closed twice over: the     *)
(* reaper that finds a create expired is right.                             *)
LEMMA ExpiredOver ==
  ASSUME TypeOK, Consistent, Started, Unposted, Fresh, SeenAll,
         NEW l \in Lease, VisitExpired(l)
  PROVE  Over(l)
<1>1. /\ sweep.step = "visit" /\ sweep.cur = l /\ docs[l].st = "CREATING"
      /\ LostByReaper(l) = "expired"
  BY DEF VisitExpired, Visiting
<1>2. /\ docs[l].closedOnce /\ asof[l].win = "expired"
      /\ (seen.ids \ docs[l].pre) \cap Own(l) = {}
  <2>1. PICK r, listing, own, answered, known, rejected, closed, aged :
          /\ r = docs[l] /\ listing = seen.ids /\ own = Own(l)
          /\ answered = AnsweredOnlyInLedger(l) /\ known = {}
          /\ rejected = FALSE /\ closed = (asof[l].win # "open")
          /\ aged = (asof[l].win = "expired")
    OBVIOUS
  <2> DEFINE outcome == Rec!LostOutcome(r, listing, own, answered, known,
                                        rejected, closed, aged)
  <2>2. r \in Rec!Leases
    BY <2>1 DEF TypeOK
  <2>3. outcome = LostByReaper(l)
    BY <2>1 DEF LostByReaper
  <2>4. outcome = "expired" => /\ aged /\ r.closedOnce
                               /\ Rec!LostCandidates(r, listing, own, answered) = {}
    BY <2>2, LostWrites
  <2> HIDE DEF outcome
  <2>5. QED
    BY <1>1, <2>1, <2>3, <2>4 DEF Rec!LostCandidates
<1>3. docs[l].pre \cap Own(l) = {}
  BY <1>1 DEF Started, Former, Follows, Fresh
<1>4. \A p \in Own(l) : Billed(p) => p \in seen.ids
  BY <1>1, <1>2 DEF SeenAll, Unlisted, Orphaned
<1>5. Unbilled(l)
  BY <1>2, <1>3, <1>4 DEF Unbilled
<1>6. ~MayPost(l)
  BY <1>2, ExpiringIs DEF Unposted
<1>7. QED
  BY <1>5, <1>6 DEF Over

LEMMA CancellingOver ==
  ASSUME Unposted, NEW l \in Lease, lease[l].cancelling
  PROVE  Over(l)
  BY DEF Unposted, Over, Unbilled

LEMMA NextConcluded ==
  ASSUME TypeOK, Consistent, Secured, Started, Unposted, OnePod, Fresh, SeenAll,
         Concluded, [Next]_vars
  PROVE  Concluded'
<1> SUFFICES ASSUME NEW l \in Lease
             PROVE  /\ lease'[l].st = "TERMINAL" \/ Att!Released(attempt'[l])
                         => Over(l)'
                    /\ ctl'[l].at \in {"refused", "refusedLook", "release", "close"}
                         => Over(l)'
                    /\ sweep'.cur = l /\ sweep'.step \in Expiring \cup {"close"}
                         => Over(l)'
  BY DEF Concluded
<1>1. Arrives(l) /\ Pays(l) /\ Changes(l) /\ Handles(l)
  BY NextArrives, NextPays, NextChanges, AtHandNone, NextHandles DEF Started
<1>2. Over(l) => Over(l)'
  BY OverStays DEF Secured
<1>3. CASE Over(l)
  BY <1>2, <1>3
<1>4. CASE SubmitNothing(l)
  <2>1. /\ UNCHANGED <<lease, attempt, sweep, pod, owner>>
        /\ ctl'[l].at \in {"lost", "refused"} /\ MayPost(l)
    BY <1>4, MovesTo DEF SubmitNothing, MaySubmit, MayPost, store, provider, reaper
  <2>2. Over(l)'
    BY <2>1 DEF Over, MayPost, Early, Unposted, Unbilled, Own
  <2>3. QED
    BY <2>2
<1>5. ASSUME ~Over(l), ~SubmitNothing(l)
      PROVE  /\ lease'[l].st # "TERMINAL" /\ ~Att!Released(attempt'[l])
             /\ ctl'[l].at \notin {"refused", "refusedLook", "release", "close"}
             /\ ~(sweep'.cur = l /\ sweep'.step \in Expiring \cup {"close"})
  <2>1. /\ lease[l].st # "TERMINAL" /\ ~Att!Released(attempt[l])
        /\ ctl[l].at \notin {"refused", "refusedLook", "release", "close"}
        /\ ~(sweep.cur = l /\ sweep.step \in Expiring \cup {"close"})
        /\ ~lease[l].cancelling
        /\ ctl[l].at \notin {"cancelLedger", "cancelClose"}
        /\ ~(sweep.cur = l /\ sweep.step \in Orphaned)
    BY <1>5, CancellingOver, ExpiringIs DEF Concluded, Unposted, Started, AtHand
  <2>2. /\ ~CancelClose(l) /\ ~OrphanClose(l) /\ ~CloseExpired(l)
        /\ ~CloseLease(l) /\ ~ReapClose(l)
        /\ ~CancelLedger(l) /\ ~OrphanLedger(l) /\ ~ReleaseRejected(l)
        /\ ~ReleaseExpired(l)
    BY <2>1 DEF CancelClose, OrphanClose, CloseExpired, CloseLease, ReapClose,
                CancelLedger, OrphanLedger, ReleaseRejected, ReleaseExpired,
                Orphaned, Expiring
  <2>3. lease'[l].st # "TERMINAL"
    <3>1. lease[l] \in Rec!Leases
      BY DEF TypeOK
    <3>2. CASE BeginCreate(l)
      BY <3>2 DEF BeginCreate, TypeOK, Rec!Prepared, Rec!Unborn
    <3>3. CASE lease'[l] \in {Rec!PostIntent(lease[l]), Rec!CancelIntent(lease[l]),
                              Noted(lease[l], TRUE)}
      <4>1. /\ Rec!PostIntent(lease[l]).st = "CREATING"
            /\ Rec!CancelIntent(lease[l]).st = lease[l].st
            /\ Noted(lease[l], TRUE).st = lease[l].st
        BY <3>1 DEF Rec!Leases, Rec!PostIntent, Rec!CancelIntent, Noted
      <4>2. QED
        BY <2>1, <3>3, <4>1
    <3>4. QED
      BY <1>1, <2>1, <2>2, <3>2, <3>3 DEF Changes, Tends
  <2>4. ~Att!Released(attempt'[l])
    <3>1. FinalizeCampaign(l) \/ ReapFinalize(l) => attempt'[l] = attempt[l]
      BY <1>5, FinalizeCampaignOver, ReapFinalizeOver
    <3>2. QED
      BY <1>1, <2>1, <2>2, <3>1 DEF Pays, Att!Released, Binding
  <2>5. ctl'[l].at \notin {"refused", "refusedLook", "release", "close"}
    BY <1>1, <1>5, <2>1, FinalizeCampaignOver DEF Arrives
  <2>6. ~(sweep'.cur = l /\ sweep'.step \in Expiring \cup {"close"})
    BY <1>1, <1>5, <2>1, <2>2, ExpiredOver, ReapFinalizeOver DEF Handles, Expiring
  <2>7. QED
    BY <2>3, <2>4, <2>5, <2>6
<1>6. QED
  BY <1>3, <1>4, <1>5

LEMMA NextIntended ==
  ASSUME TypeOK, Consistent, Intended, [Next]_vars
  PROVE  Intended'
<1> SUFFICES ASSUME NEW l \in Lease,
                    ctl'[l].at \in {"bindCleanup", "request", "delete", "ambDelete"}
             PROVE  lease'[l].st \in Late
  BY DEF Intended
<1>1. Arrives(l) /\ Follows(lease[l], lease'[l])
  BY NextArrives, NextFollows
<1>2. lease[l].st \in Late => lease'[l].st \in Late
  BY <1>1 DEF Follows, Late
<1>3. CASE \/ ctl'[l].at = ctl[l].at
           \/ ctl[l].at \in {"bindCleanup", "request"}
  BY <1>2, <1>3 DEF Intended
<1>4. CASE \/ RecordDestroyIntent(l) /\ ctl'[l].at = "bindCleanup"
           \/ AmbiguousDestroy(l) /\ ctl'[l].at = "ambDelete"
  <2>1. \/ lease[l].st \in Late
        \/ lease'[l] = Rec!RequestDestroy(lease[l])
    BY <1>4, MovesTo, CommitIs DEF RecordDestroyIntent, AmbiguousDestroy, Late
  <2>2. Rec!RequestDestroy(lease[l]).st = "DESTROYING"
    BY DEF TypeOK, Rec!Leases, Rec!RequestDestroy
  <2>3. QED
    BY <1>2, <2>1, <2>2 DEF Late
<1>5. QED
  BY <1>1, <1>3, <1>4 DEF Arrives

LEMMA NextRivalless ==
  ASSUME TypeOK, Consistent, Secured, Started, Rivalless, [Next]_vars
  PROVE  Rivalless'
<1>1. ASSUME NEW l \in Lease, lease'[l].st \in Rec!Unresolved
      PROVE  lease[l].st \in Rec!Unresolved \/ BeginCreate(l)
  BY <1>1, NextChanges
     DEF Changes, Rec!Allowed, TypeOK, Rec!Leases, Rec!States
<1>2. ASSUME NEW k \in Lease, NEW l \in Lease, JobOf[k] = JobOf[l], k # l,
             lease'[k].st \in Rec!Unresolved, lease'[l].st \in Rec!Unresolved,
             BeginCreate(l)
      PROVE  FALSE
  <2>1. lease[k].st \notin Rec!Unresolved
    BY <1>2 DEF BeginCreate
  <2>2. lease'[k] = lease[k]
    BY <1>2 DEF BeginCreate, TypeOK
  <2>3. QED
    BY <1>2, <2>1, <2>2
<1>3. QED
  BY <1>1, <1>2 DEF Rivalless

LEMMA InitCovered == Init => Covered
<1>1. SUFFICES ASSUME Init PROVE Covered
  OBVIOUS
<1>2. /\ Rec!Unborn.st = "NONE" /\ Rec!Unborn.pre = {} /\ ~Rec!Unborn.cancelling
      /\ ~Rec!Unborn.closedOnce /\ Att!Unreserved.phase = "NONE"
      /\ StartClock.win = "open"
  BY DEF Rec!Unborn, Att!Unreserved, StartClock
<1>3. \A l \in Lease : /\ lease[l] = Rec!Unborn /\ attempt[l] = Att!Unreserved
                       /\ clock[l] = StartClock /\ asof[l] = StartClock
                       /\ ctl[l].at = "idle" /\ ctl[l].look = {}
                       /\ Own(l) = {}
  BY <1>1, ConstantsAssumption DEF Init, NoDocs, NoDeadline, Own
<1>4. /\ sweep.step = "idle" /\ sweep.cur = NoLease
      /\ \A p \in Pod : pod[p] # "hidden"
  BY <1>1 DEF Init, Idle
<1>5. Unposted /\ OnePod /\ Fresh /\ Intended /\ Rivalless
  BY <1>2, <1>3 DEF Unposted, OnePod, Fresh, Intended, Rivalless, Rec!Unresolved
<1>6. Expired /\ SeenAll
  BY <1>2, <1>3, <1>4 DEF Expired, SeenAll, Unlisted
<1>7. Concluded
  BY <1>2, <1>3, <1>4, ConstantsAssumption DEF Concluded, Att!Released
<1>8. QED
  BY <1>5, <1>6, <1>7 DEF Covered

(* The inductive invariant of the whole attempt. *)
Whole == TypeOK /\ Consistent /\ Secured /\ Started /\ Covered

LEMMA NextWhole ==
  ASSUME OnePodPerPost, Punctual, Whole, [Next]_vars
  PROVE  Whole'
<1>1. TypeOK /\ Consistent /\ Secured /\ Started /\ Covered
  BY DEF Whole
<1>2. (TypeOK /\ Consistent /\ Secured /\ Started)'
  BY <1>1, NextType, NextConsistent, NextSecured, NextStarted
<1>3. Covered'
  BY <1>1, NextUnposted, NextOnePod, NextFresh, NextExpired, NextSeenAll,
     NextConcluded, NextIntended, NextRivalless DEF Covered
<1>4. QED
  BY <1>2, <1>3 DEF Whole

LEMMA WholeAlways ==
  ASSUME OnePodPerPost, Punctual
  PROVE  Spec => []Whole
<1>1. Init => Whole
  BY InitType, InitConsistent, InitSecured, InitStarted, InitCovered DEF Whole
<1>2. Whole /\ [Next]_vars => Whole'
  BY NextWhole
<1>3. QED
  BY <1>1, <1>2, PTL DEF Spec

-----------------------------------------------------------------------------
(* What follows for every attempt. *)

(* An attempt one of whose pods bills is open, and the ledger holds its     *)
(* money.                                                                   *)
LEMMA BilledIsOpen ==
  ASSUME Whole, NEW l \in Lease, NEW p \in Own(l), Billed(p)
  PROVE  Att!Held(attempt[l]) /\ lease[l].st \in Rec!Unresolved
<1>1. ~Over(l)
  BY DEF Over, Unbilled
<1>2. lease[l].st # "TERMINAL" /\ ~Att!Released(attempt[l])
  BY <1>1 DEF Whole, Covered, Concluded
<1>3. attempt[l].phase # "NONE" /\ lease[l].st # "NONE"
  BY DEF Whole, Covered, Unposted
<1>4. QED
  BY <1>2, <1>3 DEF Att!Held, Whole, TypeOK, Rec!Leases, Rec!States

(* Every pod that can bill is covered by a reservation the ledger still     *)
(* holds: neither a cancellation, nor a rejection, nor an expiry, nor a     *)
(* settlement, by whichever process and after whichever crash, gives back   *)
(* the money of an attempt whose pod exists or may still be created.        *)
THEOREM BilledIsHeld ==
  ASSUME OnePodPerPost, Punctual
  PROVE  Spec => []BilledMeansHeld
<1>1. Whole => BilledMeansHeld
  BY BilledIsOpen DEF BilledMeansHeld
<1>2. QED
  BY <1>1, WholeAlways, PTL

(* Two attempts of one job never bill at the same time: a retry is admitted *)
(* only once the attempt before it is over for good.                        *)
THEOREM OneBilledPerJob ==
  ASSUME OnePodPerPost, Punctual
  PROVE  Spec => []OneBilledAttemptPerJob
<1>1. Whole => OneBilledAttemptPerJob
  BY BilledIsOpen DEF OneBilledAttemptPerJob, Whole, Covered, Rivalless
<1>2. QED
  BY <1>1, WholeAlways, PTL

(* The lease of a pod about to be deleted names it. *)
LEMMA LateNames ==
  ASSUME Whole, NEW l \in Lease, lease[l].st \in Late, NEW p \in Own(l), Billed(p)
  PROVE  p \in lease[l].ids
<1>1. lease[l].st \in {"DESTROYING", "ABSENCE_CONFIRMED"}
  BY BilledIsOpen DEF Late, Rec!Unresolved
<1>2. lease[l].ids # {} /\ lease[l].ids \subseteq Own(l)
  BY <1>1 DEF Whole, Consistent, Recorded, Rec!Valid, Secured, Owned
<1>3. QED
  BY <1>2 DEF Whole, Covered, OnePod

(* Whose step deletes a pod. *)
LEMMA WhoDeletes ==
  ASSUME [Next]_vars, NEW p \in Pod, pod[p] # "deleted", pod'[p] = "deleted"
  PROVE  /\ Billed(p)
         /\ \E l \in Lease : \/ Delete(l) /\ p \in ctl[l].pod
                             \/ AmbiguousDelete(l) /\ p \in lease[l].ids
                             \/ ReapDelete(l) /\ p \in Present(l)
<1>1. ~UNCHANGED pod
  OBVIOUS
<1>2. ASSUME NEW l \in Lease, Delete(l)
      PROVE  Billed(p) /\ p \in ctl[l].pod
  BY <1>2 DEF Delete, Deletes
<1>3. ASSUME NEW l \in Lease, AmbiguousDelete(l)
      PROVE  Billed(p) /\ p \in lease[l].ids
  BY <1>3 DEF AmbiguousDelete, Deletes
<1>4. ASSUME NEW l \in Lease, ReapDelete(l)
      PROVE  Billed(p) /\ p \in Present(l)
  BY <1>4 DEF ReapDelete, Deletes
<1>5. ASSUME NEW l \in Lease, Controller(l), ~Delete(l), ~AmbiguousDelete(l)
      PROVE  \/ UNCHANGED pod
             \/ Submit(l)
  <2>1. CASE BeforePost(l)
    BY <2>1 DEF BeforePost, ObserveAccount, BeginCreate, BeginRefused, Reserve,
           MarkCreating, PostIntent, AbandonBeforePost, CancelIntent,
           CancelLedger, CancelClose, provider
  <2>2. CASE Post(l)
    BY <2>2 DEF Post, SubmitNothing, SubmitConflict, RecordCreated,
           RecordFails, BindReturnedId, provider
  <2>3. CASE AfterLoss(l)
    BY <2>3 DEF AfterLoss, LookAfterLoss, InventoryUnavailable, ReconcileLost,
           BindLossIds, ReleaseRejected, provider
  <2>4. CASE Qualify(l)
    BY <2>4 DEF Qualify, ObserveCreated, RunFails, BindInventory,
           BindDelta, Attest, BindQuote, WorkEnds, provider
  <2>5. CASE TearDown(l)
    BY <1>5, <2>5 DEF TearDown, ExitWorkload, RecordDestroyIntent,
           BindCleanup, RequestTermination, LookForAbsence,
           ConfirmAbsence, GiveUp, SettleBilling, FinalizeCampaign, CloseLease,
           AmbiguousDestroy, AmbiguousConfirm, provider
  <2>6. QED
    BY <1>5, <2>1, <2>2, <2>3, <2>4, <2>5 DEF Controller
<1>6. ASSUME NEW l \in Lease, Submit(l)
      PROVE  FALSE
  BY <1>6 DEF Submit
<1>7. ASSUME NEW l \in Lease, CancelOrphans(l) \/ Visit(l), ~ReapDelete(l)
      PROVE  UNCHANGED pod
  <2>1. CASE CancelOrphans(l)
    BY <2>1 DEF CancelOrphans, DeferPrepared, OrphanIntent, OrphanLedger,
           OrphanClose, provider
  <2>2. CASE Visit(l)
    BY <1>7, <2>2 DEF Visit, Pick, VisitRevoke, VisitMoved, VisitCreating,
           VisitWaiting, VisitExpired, ReleaseExpired, CloseExpired, VisitHeld,
           VisitAmbiguous, VisitNotListed, VisitUnconfirmable, VisitLive,
           VisitDestroy, ReapRelist, ReapConfirm,
           BillingPending, ReapStage, ReapFinalize, ReapClose,
           ReadOnly, ReapWrite, ReapWriteLast, ReapAbsence, provider
  <2>3. QED
    BY <1>7, <2>1, <2>2
<1>8. ~Environment
  BY DEF Environment, Appears, Exits, Vanishes, StrangerArrives, Provider,
         WindowCloses, WindowExpires, ReapDeadlinePasses, AbsenceAges, Tick,
         provider
<1>9. CASE \/ SweepBegin \/ SweepList \/ SweepOutage \/ SweepEnd \/ ReaperDies
           \/ UNCHANGED vars
  BY <1>9 DEF SweepBegin, SweepList, SweepOutage, SweepEnd, ReaperDies, provider,
         vars
<1>10. ASSUME NEW l \in Lease, ControllerDies(l)
       PROVE  UNCHANGED pod
  BY <1>10 DEF ControllerDies, provider
<1>11. QED
  BY <1>1, <1>2, <1>3, <1>4, <1>5, <1>6, <1>7, <1>8, <1>9, <1>10 DEF Next

(* It is a pod of a lease that is durably DESTROYING or further. *)
LEMMA DeletesLate ==
  ASSUME TypeOK, Secured, Started, Intended, [Next]_vars,
         NEW p \in Pod, pod[p] # "deleted", pod'[p] = "deleted"
  PROVE  /\ Billed(p)
         /\ \E l \in Lease : /\ p \in Own(l) /\ lease[l].st \in Late
                            /\ \/ Delete(l) /\ p \in ctl[l].pod
                               \/ p \in lease[l].ids
                               \/ docs[l].st = "DESTROYING" /\ p \in docs[l].ids
<1>1. PICK l \in Lease : \/ Delete(l) /\ p \in ctl[l].pod
                         \/ AmbiguousDelete(l) /\ p \in lease[l].ids
                         \/ ReapDelete(l) /\ p \in Present(l)
  BY WhoDeletes
<1>2. p \in Own(l)
  BY <1>1 DEF Secured, Owned, Present
<1>3. ReapDelete(l) => docs[l].st = "DESTROYING" /\ lease[l].st \in Late
  BY DEF ReapDelete, Visiting, Late, Started, Former, Follows
<1>4. Delete(l) \/ AmbiguousDelete(l) => lease[l].st \in Late
  BY DEF Delete, AmbiguousDelete, Intended
<1>5. QED
  BY <1>1, <1>2, <1>3, <1>4, WhoDeletes DEF Present

-----------------------------------------------------------------------------
(* The refinement.  A step touches one attempt, and of it the record, or    *)
(* the ledger's attempt, or the pods.                                       *)

Untouched(k) ==
  /\ lease'[k] = lease[k] /\ attempt'[k] = attempt[k]
  /\ Own(k)' = Own(k) /\ \A p \in Own(k) : pod'[p] = pod[p]

LEMMA ProviderTouches ==
  ASSUME Whole, NEW a \in Lease, NEW removed \in SUBSET Own(a),
         Deletes(removed), UNCHANGED owner
  PROVE  \A k \in Lease \ {a} : /\ Own(k)' = Own(k)
                                /\ \A p \in Own(k) : pod'[p] = pod[p]
  BY DEF Deletes, Own, Whole, TypeOK

LEMMA SubmitTouches ==
  ASSUME Whole, NEW a \in Lease, Submit(a)
  PROVE  \A k \in Lease \ {a} : /\ Own(k)' = Own(k)
                                /\ \A p \in Own(k) : pod'[p] = pod[p]
<1>1. PICK made \in SUBSET {p \in Pod : pod[p] = "none"} :
        /\ \E hid \in (IF Lag THEN SUBSET made ELSE {{}}) :
             pod' = [p \in Pod |-> IF p \in hid THEN "hidden"
                                   ELSE IF p \in made THEN "up" ELSE pod[p]]
        /\ owner' = [p \in Pod |-> IF p \in made THEN a ELSE owner[p]]
  BY DEF Submit
<1>2. \A p \in Pod : \/ pod'[p] = pod[p] /\ owner'[p] = owner[p]
                     \/ owner'[p] = a /\ owner[p] \notin Lease
  BY <1>1 DEF Whole, Secured, Named
<1>3. QED
  BY <1>2 DEF Own

LEMMA ControllerTouches ==
  ASSUME Whole, NEW l \in Lease, Controller(l) \/ ControllerDies(l)
  PROVE  /\ \A k \in Lease \ {l} : Untouched(k)
         /\ \/ UNCHANGED <<lease, attempt>>
            \/ UNCHANGED <<lease, pod, owner>>
            \/ UNCHANGED <<attempt, pod, owner>>
<1>1. \A k \in Lease \ {l} : lease'[k] = lease[k] /\ attempt'[k] = attempt[k]
  BY ControllerElsewhere DEF Elsewhere, Whole
<1>2. CASE Submit(l)
  BY <1>1, <1>2, SubmitTouches DEF Submit, store, Untouched
<1>3. CASE Delete(l)
  <2>1. ctl[l].pod \subseteq Own(l)
    BY DEF Whole, Secured, Owned
  <2>2. QED
    BY <1>1, <1>3, <2>1, ProviderTouches DEF Delete, store, Untouched
<1>4. CASE AmbiguousDelete(l)
  <2>1. lease[l].ids \subseteq Own(l)
    BY DEF Whole, Secured, Owned
  <2>2. QED
    BY <1>1, <1>4, <2>1, ProviderTouches DEF AmbiguousDelete, store, Untouched
<1>5. CASE ~Submit(l) /\ ~Delete(l) /\ ~AmbiguousDelete(l)
  <2>1. \/ UNCHANGED <<lease, pod, owner>>
        \/ UNCHANGED <<attempt, pod, owner>>
    <3>1. CASE BeforePost(l) \/ ControllerDies(l)
      BY <3>1 DEF BeforePost, ControllerDies, ObserveAccount, BeginCreate,
             BeginRefused, Reserve, MarkCreating, PostIntent,
             AbandonBeforePost, CancelIntent, CancelLedger, CancelClose,
             provider, store
    <3>2. CASE Post(l)
      BY <1>5, <3>2 DEF Post, SubmitNothing, SubmitConflict, RecordCreated,
             RecordFails, BindReturnedId, provider, store
    <3>3. CASE AfterLoss(l)
      BY <3>3 DEF AfterLoss, LookAfterLoss, InventoryUnavailable, ReconcileLost,
             BindLossIds, ReleaseRejected, provider, store
    <3>4. CASE Qualify(l)
      BY <3>4 DEF Qualify, ObserveCreated, RunFails, BindInventory,
             BindDelta, Attest, BindQuote, WorkEnds, provider, store
    <3>5. CASE TearDown(l)
      BY <1>5, <3>5 DEF TearDown, ExitWorkload, RecordDestroyIntent,
             BindCleanup, RequestTermination, LookForAbsence,
             ConfirmAbsence, GiveUp, SettleBilling, FinalizeCampaign,
             CloseLease, AmbiguousDestroy, AmbiguousConfirm, provider, store
    <3>6. QED
      BY <3>1, <3>2, <3>3, <3>4, <3>5 DEF Controller
  <2>2. QED
    BY <1>1, <2>1 DEF Untouched, Own
<1>6. QED
  BY <1>2, <1>3, <1>4, <1>5

LEMMA ReaperTouches ==
  ASSUME Whole, NEW l \in Lease, CancelOrphans(l) \/ Visit(l)
  PROVE  /\ \A k \in Lease \ {l} : Untouched(k)
         /\ \/ UNCHANGED <<lease, attempt>>
            \/ UNCHANGED <<lease, pod, owner>>
            \/ UNCHANGED <<attempt, pod, owner>>
<1>1. \A k \in Lease \ {l} : lease'[k] = lease[k] /\ attempt'[k] = attempt[k]
  BY ReaperElsewhere DEF Elsewhere, Whole
<1>2. CASE ReapDelete(l)
  <2>1. Present(l) \subseteq Own(l)
    BY DEF Present, Whole, Secured, Owned
  <2>2. QED
    BY <1>1, <1>2, <2>1, ProviderTouches DEF ReapDelete, store, Untouched
<1>3. CASE ~ReapDelete(l)
  <2>1. \/ UNCHANGED <<lease, pod, owner>>
        \/ UNCHANGED <<attempt, pod, owner>>
    <3>1. CASE CancelOrphans(l)
      BY <3>1 DEF CancelOrphans, DeferPrepared, OrphanIntent, OrphanLedger,
             OrphanClose, provider, store
    <3>2. CASE Visit(l)
      BY <1>3, <3>2 DEF Visit, Pick, VisitRevoke, VisitMoved, VisitCreating,
             VisitWaiting, VisitExpired, ReleaseExpired, CloseExpired,
             VisitHeld, VisitAmbiguous, VisitNotListed, VisitUnconfirmable,
             VisitLive, VisitDestroy, ReapRelist, ReapConfirm,
             BillingPending, ReapStage, ReapFinalize, ReapClose,
             ReadOnly, ReapWrite, ReapWriteLast, ReapAbsence, provider, store
    <3>3. QED
      BY <3>1, <3>2
  <2>2. QED
    BY <1>1, <2>1 DEF Untouched, Own
<1>4. QED
  BY <1>2, <1>3

LEMMA NextTouches ==
  ASSUME Whole, [Next]_vars
  PROVE  /\ \/ \A k \in Lease : Untouched(k)
            \/ \E a \in Lease : \A k \in Lease \ {a} : Untouched(k)
         /\ \/ UNCHANGED <<lease, attempt>>
            \/ UNCHANGED <<lease, pod, owner>>
            \/ UNCHANGED <<attempt, pod, owner>>
<1>1. ASSUME NEW p \in Pod,
             Appears(p) \/ Exits(p) \/ Vanishes(p) \/ StrangerArrives(p)
      PROVE  /\ UNCHANGED <<lease, attempt>>
             /\ \/ \A k \in Lease : Untouched(k)
                \/ \E a \in Lease : \A k \in Lease \ {a} : Untouched(k)
  <2>1. /\ UNCHANGED <<lease, attempt>>
        /\ \A q \in Pod \ {p} : pod'[q] = pod[q] /\ owner'[q] = owner[q]
        /\ \/ owner'[p] = owner[p]
           \/ owner'[p] \notin Lease /\ owner[p] \notin Lease
    BY <1>1, ConstantsAssumption
       DEF Appears, Exits, Vanishes, StrangerArrives, Provider, store, Whole,
           TypeOK, Secured, Named
  <2>2. \A k \in Lease : owner[p] # k => Untouched(k)
    BY <2>1 DEF Untouched, Own
  <2>3. QED
    BY <2>1, <2>2
<1>2. CASE \/ SweepBegin \/ SweepList \/ SweepOutage \/ SweepEnd \/ ReaperDies
           \/ UNCHANGED vars
           \/ \E l \in Lease : WindowCloses(l) \/ WindowExpires(l)
                               \/ ReapDeadlinePasses(l) \/ AbsenceAges(l)
  BY <1>2 DEF SweepBegin, SweepList, SweepOutage, SweepEnd, ReaperDies, vars,
         WindowCloses, WindowExpires, ReapDeadlinePasses, AbsenceAges, Tick,
         store, provider, Untouched, Own
<1>3. CASE Environment
  BY <1>1, <1>2, <1>3 DEF Environment
<1>4. QED
  BY <1>2, <1>3, ControllerTouches, ReaperTouches DEF Next

(* Of one attempt: the record opens and closes it, the ledger holds and     *)
(* releases its money, the pods start and stop billing.                     *)
LEMMA LifeMoves ==
  ASSUME OnePodPerPost, Punctual, Whole, [Next]_vars, NEW a \in Lease,
         Life(a)' # Life(a)
  PROVE  \/ BeginCreate(a) /\ Life(a) = "unopened" /\ Life(a)' = "open"
         \/ Life(a) = "open" /\ Life(a)' = "closed" /\ Over(a)'
<1>1. CASE BeginCreate(a)
  <2>1. lease'[a].st = "PREPARED"
    BY <1>1 DEF BeginCreate, Rec!Prepared, Whole, TypeOK, Rec!Leases
  <2>2. lease[a].st = "NONE"
    BY <1>1 DEF BeginCreate, Whole, Consistent, NotBegun, Rec!Unborn
  <2>3. QED
    BY <1>1, <2>1, <2>2 DEF Life
<1>2. CASE ~BeginCreate(a)
  <2>1. lease[a].st \notin {"NONE", "TERMINAL"} /\ lease'[a].st # "NONE"
    <3>1. lease'[a] # lease[a]
      BY DEF Life
    <3>2. lease[a].st # "NONE" /\ lease'[a].st \in Rec!Allowed(lease[a].st)
      BY <1>2, <3>1, NextChanges DEF Changes, Whole
    <3>3. lease[a].st \in Rec!States
      BY <3>2 DEF Whole, TypeOK, Rec!Leases
    <3>4. QED
      BY <3>2, <3>3 DEF Rec!Allowed, Rec!States, Rec!Unresolved
  <2>2. Life(a) = "open" /\ Life(a)' = "closed" /\ lease'[a].st = "TERMINAL"
    BY <2>1 DEF Life
  <2>3. Over(a)'
    BY <2>2, NextWhole DEF Whole, Covered, Concluded
  <2>4. QED
    BY <2>2, <2>3
<1>3. QED
  BY <1>1, <1>2

LEMMA MoneyMoves ==
  ASSUME OnePodPerPost, Punctual, Whole, [Next]_vars, NEW a \in Lease,
         Money(a)' # Money(a)
  PROVE  \/ Money(a) = "none" /\ Money(a)' = "held" /\ Life(a) = "open"
         \/ Money(a) = "held" /\ Money(a)' = "released" /\ Over(a)'
<1>1. CASE Reserve(a)
  <2>1. attempt[a].phase = "NONE" /\ lease[a].st = "PREPARED"
    BY <1>1 DEF Reserve, Whole, Started, Begun, Unreserved
  <2>2. attempt'[a].phase = "RESERVED"
    BY <1>1, AttemptIs DEF Reserve, Whole, Att!Reserved, Att!Unreserved
  <2>3. QED
    BY <2>1, <2>2 DEF Money, Life, Att!Held, Att!Released
<1>2. CASE ~Reserve(a)
  <2>1. Money(a) = "held" /\ Money(a)' = "released" /\ Att!Released(attempt[a])'
    BY <1>2, NextPays
       DEF Pays, Money, Att!Held, Att!Released, Whole, Started, Begun, Binding,
           Bindable
  <2>2. Over(a)'
    BY <2>1, NextWhole DEF Whole, Covered, Concluded, Att!Released
  <2>3. QED
    BY <2>1, <2>2
<1>3. QED
  BY <1>1, <1>2

LEMMA SubmitBills ==
  ASSUME OnePodPerPost, NEW l \in Lease, Submit(l)
  PROVE  \E p \in Pod : owner'[p] = l /\ pod'[p] \in {"hidden", "up"}
<1>1. PICK made \in SUBSET {p \in Pod : pod[p] = "none"} :
        /\ Cardinality(made) \in 1..MaxPerPost
        /\ \E hid \in (IF Lag THEN SUBSET made ELSE {{}}) :
             pod' = [p \in Pod |-> IF p \in hid THEN "hidden"
                                   ELSE IF p \in made THEN "up" ELSE pod[p]]
        /\ owner' = [p \in Pod |-> IF p \in made THEN l ELSE owner[p]]
  BY DEF Submit
<1>2. IsFiniteSet(made) /\ Cardinality(made) = 1
  BY <1>1, FS_Subset DEF OnePodPerPost
<1>3. PICK p : made = {p}
  BY <1>2, FS_Singleton
<1>4. QED
  BY <1>1, <1>3

LEMMA BillsMoves ==
  ASSUME OnePodPerPost, Whole, [Next]_vars, NEW a \in Lease,
         Bills(a)' # Bills(a)
  PROVE  \/ /\ Bills(a) = "never" /\ Bills(a)' = "now"
            /\ Life(a) = "open" /\ Money(a) = "held"
         \/ Bills(a) = "now" /\ Bills(a)' = "over"
<1>1. CASE Submit(a)
  <2>1. /\ ctl[a].at = "intent" /\ lease[a].st = "CREATING" /\ MayPost(a)
    BY <1>1, SubmitIs DEF Whole
  <2>2. Life(a) = "open"
    BY <2>1 DEF Life
  <2>3. Money(a) = "held"
    BY <2>1 DEF Whole, Started, Begun, Covered, Concluded, Over, Money, Att!Held
  <2>4. Bills(a) = "never"
    BY <2>1 DEF Whole, Covered, Unposted, Own, Bills
  <2>5. PICK p \in Pod : owner'[p] = a /\ pod'[p] \in {"hidden", "up"}
    BY <1>1, SubmitBills
  <2>6. Bills(a)' = "now"
    BY <2>5 DEF Bills, Billed
  <2>7. QED
    BY <2>2, <2>3, <2>4, <2>6
<1>2. CASE Quiet(a)
  BY <1>2 DEF Quiet, Own, Bills
<1>3. QED
  BY <1>1, <1>2, NextPods DEF Whole, Secured

LEMMA OverIsPaid ==
  ASSUME NEW a \in Lease, Over(a)', UNCHANGED <<pod, owner>>
  PROVE  Bills(a) # "now"
  BY DEF Over, Unbilled, Own, Billed, Bills

LEMMA StepImplements ==
  ASSUME OnePodPerPost, Punctual, Whole, [Next]_vars
  PROVE  [Promise!Next]_(Promise!vars)
<1> DEFINE life == [l \in Lease |-> Life(l)]
           money == [l \in Lease |-> Money(l)]
           bills == [l \in Lease |-> Bills(l)]
<1>1. \A k \in Lease : Untouched(k) => /\ Life(k)' = Life(k)
                                       /\ Money(k)' = Money(k)
                                       /\ Bills(k)' = Bills(k)
  BY DEF Untouched, Life, Money, Bills, Own, Billed
<1>2. CASE \A k \in Lease : /\ Life(k)' = Life(k) /\ Money(k)' = Money(k)
                            /\ Bills(k)' = Bills(k)
  <2>1. UNCHANGED <<life, money, bills>>
    BY <1>2
  <2>2. QED
    BY <2>1 DEF Promise!vars
<1>3. ASSUME NEW a \in Lease, \A k \in Lease \ {a} : Untouched(k),
             \/ Life(a)' # Life(a) \/ Money(a)' # Money(a)
             \/ Bills(a)' # Bills(a)
      PROVE  Promise!Next
  <2>0. /\ life[a] = Life(a) /\ money[a] = Money(a) /\ bills[a] = Bills(a)
        /\ life'[a] = Life(a)' /\ money'[a] = Money(a)' /\ bills'[a] = Bills(a)'
    OBVIOUS
  <2>1. Promise!Moves(a)
    BY <1>3, <2>0 DEF Promise!Moves
  <2>2. /\ life' = [life EXCEPT ![a] = Life(a)']
        /\ money' = [money EXCEPT ![a] = Money(a)']
        /\ bills' = [bills EXCEPT ![a] = Bills(a)']
    BY <1>1, <1>3
  <2>3. /\ Life(a)' = Life(a) => life' = life
        /\ Money(a)' = Money(a) => money' = money
        /\ Bills(a)' = Bills(a) => bills' = bills
    BY <2>2
  <2> HIDE DEF life, money, bills
  <2>4. CASE Life(a)' # Life(a)
    <3>1. lease' # lease
      BY <2>4 DEF Life
    <3>2. UNCHANGED <<attempt, pod, owner>>
      BY <3>1, NextTouches
    <3>3. Money(a)' = Money(a) /\ Bills(a)' = Bills(a)
      BY <3>2 DEF Money, Bills, Billed
    <3>4. CASE BeginCreate(a) /\ Life(a) = "unopened" /\ Life(a)' = "open"
      <4>1. \A k \in Lease : JobOf[k] = JobOf[a] => life[k] # "open"
        BY <3>4 DEF BeginCreate, life, Life, Rec!Unresolved, Whole, TypeOK,
               Rec!Leases, Rec!States
      <4>2. QED
        BY <2>0, <2>1, <2>2, <2>3, <3>3, <3>4, <4>1
           DEF Promise!Next, Promise!Open, Promise!Rivalled, life, money, bills
    <3>5. CASE Life(a) = "open" /\ Life(a)' = "closed" /\ Over(a)'
      <4>1. Bills(a) # "now"
        BY <3>2, <3>5, OverIsPaid
      <4>2. QED
        BY <2>0, <2>1, <2>2, <2>3, <3>3, <3>5, <4>1
           DEF Promise!Next, Promise!Close, life, money, bills
    <3>6. QED
      BY <2>4, <3>4, <3>5, LifeMoves
  <2>5. CASE Money(a)' # Money(a)
    <3>1. attempt' # attempt
      BY <2>5 DEF Money
    <3>2. UNCHANGED <<lease, pod, owner>>
      BY <3>1, NextTouches
    <3>3. Life(a)' = Life(a) /\ Bills(a)' = Bills(a)
      BY <3>2 DEF Life, Bills, Billed
    <3>4. CASE Money(a) = "none" /\ Money(a)' = "held" /\ Life(a) = "open"
      BY <2>0, <2>1, <2>2, <2>3, <3>3, <3>4
         DEF Promise!Next, Promise!Hold, life, money, bills
    <3>5. CASE Money(a) = "held" /\ Money(a)' = "released" /\ Over(a)'
      <4>1. Bills(a) # "now"
        BY <3>2, <3>5, OverIsPaid
      <4>2. QED
        BY <2>0, <2>1, <2>2, <2>3, <3>3, <3>5, <4>1
           DEF Promise!Next, Promise!Release, life, money, bills
    <3>6. QED
      BY <2>5, <3>4, <3>5, MoneyMoves
  <2>6. CASE Bills(a)' # Bills(a)
    <3>1. <<pod, owner>>' # <<pod, owner>>
      BY <2>6 DEF Bills, Billed
    <3>2. UNCHANGED <<lease, attempt>>
      BY <3>1, NextTouches
    <3>3. Life(a)' = Life(a) /\ Money(a)' = Money(a)
      BY <3>2 DEF Life, Money
    <3>4. CASE /\ Bills(a) = "never" /\ Bills(a)' = "now"
               /\ Life(a) = "open" /\ Money(a) = "held"
      BY <2>0, <2>1, <2>2, <2>3, <3>3, <3>4
         DEF Promise!Next, Promise!StartBilling, life, money, bills
    <3>5. CASE Bills(a) = "now" /\ Bills(a)' = "over"
      BY <2>0, <2>1, <2>2, <2>3, <3>3, <3>5
         DEF Promise!Next, Promise!StopBilling, life, money, bills
    <3>6. QED
      BY <2>6, <3>4, <3>5, BillsMoves
  <2>7. QED
    BY <1>3, <2>4, <2>5, <2>6
<1>4. QED
  BY <1>1, <1>2, <1>3, NextTouches

LEMMA InitImplements == Init => Promise!Init
<1> SUFFICES ASSUME Init PROVE Promise!Init
  OBVIOUS
<1>1. \A l \in Lease : /\ lease[l] = Rec!Unborn /\ attempt[l] = Att!Unreserved
                       /\ \A p \in Pod : owner[p] # l
  BY ConstantsAssumption DEF Init, NoDocs
<1>2. \A l \in Lease : /\ Life(l) = "unopened" /\ Money(l) = "none"
                       /\ Bills(l) = "never"
  BY <1>1 DEF Life, Money, Bills, Rec!Unborn, Att!Unreserved
<1>3. QED
  BY <1>2 DEF Promise!Init

(* Controller, reaper and provider, whatever they interleave and whichever  *)
(* of them dies, do no more than the six steps of the abstract attempt: a   *)
(* retry opens only when every earlier attempt of its job is closed, billing*)
(* starts on held money, and the money is released and the attempt closed   *)
(* only when nothing of it bills.                                           *)
THEOREM AttemptImplements ==
  ASSUME OnePodPerPost, Punctual
  PROVE  Spec => Implements
<1>1. Whole /\ [Next]_vars => [Promise!Next]_(Promise!vars)
  BY StepImplements
<1>2. QED
  BY <1>1, InitImplements, WholeAlways, PTL DEF Spec, Implements, Promise!Spec

-----------------------------------------------------------------------------
(* The steps of a controller whose create was answered with a pod. *)
Qualifying == {"bound", "postLook", "unconverged", "qualified", "attested"}
Handed == Qualifying \cup {"sent", "unrecorded", "delta"}

(* What a controller and the ledger know of the pods of an attempt. *)
Known ==
  \A l \in Lease :
    /\ ctl[l].at \in Handed => \E p \in Pod : ctl[l].pod = {p}
    /\ ctl[l].at = "sent" /\ ctl[l].ref => lease[l].st = "CREATING"
    /\ attempt[l].phase \in Binding \cup {"RECONCILED"} => attempt[l].bound # {}
    /\ attempt[l].phase = "RESERVED"
         => Own(l) = {} /\ ctl[l].at \notin {"creating", "intent"}

(* An id the provider has answered is in the lease before it is anywhere    *)
(* else, if the disk never refuses it.                                      *)
Acknowledged ==
  \A l \in Lease :
    /\ ctl[l].at # "unrecorded"
    /\ ctl[l].at \in Qualifying =>
         /\ lease[l].ids = ctl[l].pod
         /\ attempt[l].bound = {} \/ lease[l].st \in Late
    /\ ctl[l].at = "delta" => lease[l].ids # {}
    /\ attempt[l].bound # {} => attempt[l].bound = lease[l].ids
    /\ docs[l].st \in Late \/ docs[l].staged => docs[l].ids = lease[l].ids

-----------------------------------------------------------------------------
(* How a step moves a controller whose create was answered. *)
Qualifies(l) ==
  LET to == ctl'[l].at
  IN  to \in Handed =>
        \/ to = "sent" /\ Submit(l) /\ \E p \in Pod : ctl'[l].pod = {p}
        \/ /\ ctl'[l].pod = ctl[l].pod
           /\ \/ /\ to = ctl[l].at /\ ~Controller(l)
                 /\ ctl'[l].ref => ctl[l].ref
                 /\ lease'[l] # lease[l] => ~ctl'[l].ref
              \/ to = "bound" /\ RecordCreated(l)
              \/ to = "unrecorded" /\ RecordFails(l)
              \/ to = "postLook" /\ ObserveCreated(l)
              \/ /\ to \in {"qualified", "unconverged"}
                 /\ BindInventory(l) /\ lease'[l] = lease[l]
              \/ to = "delta" /\ BindInventory(l)
              \/ to = "attested" /\ Attest(l)

LEMMA PodMoves ==
  ASSUME TypeOK, NEW l \in Lease
  PROVE  /\ \A step \in Steps \ {"end"} : Goto(l, step) =>
              /\ ctl'[l].at = step /\ ctl'[l].pod = ctl[l].pod
              /\ ctl'[l].ref = ctl[l].ref
         /\ Goto(l, "end") => ctl'[l].at = "end" /\ ~ctl'[l].ref
         /\ \A step : Look(l, step) =>
              /\ ctl'[l].at = step /\ ctl'[l].pod = ctl[l].pod
              /\ ctl'[l].ref = ctl[l].ref
         /\ \A step, pods : Take(l, step, pods) =>
              /\ ctl'[l].at = step /\ ctl'[l].pod = pods
              /\ ctl'[l].ref = ctl[l].ref
         /\ LeaveCleanup(l) => ctl'[l].at \in {"end", "exit"} /\ ~ctl'[l].ref
<1>1. /\ ctl \in [Lease -> Controllers]
      /\ ctl[l] \in [at : Steps, look : SUBSET Pod, pod : SUBSET Pod,
                     ref : BOOLEAN]
  BY DEF TypeOK, Controllers
<1>2. ASSUME NEW c, ctl' = [ctl EXCEPT ![l] = c]
      PROVE  ctl'[l] = c
  BY <1>1, <1>2
<1>3. ASSUME NEW step \in Steps \ {"end"}, Goto(l, step)
      PROVE  /\ ctl'[l].at = step /\ ctl'[l].pod = ctl[l].pod
             /\ ctl'[l].ref = ctl[l].ref
  <2>1. ctl'[l] = [ctl[l] EXCEPT !.at = step, !.look = {}]
    BY <1>2, <1>3 DEF Goto
  <2>2. QED
    BY <1>1, <2>1
<1>4. ASSUME Goto(l, "end") PROVE ctl'[l].at = "end" /\ ~ctl'[l].ref
  <2>1. ctl'[l] = [at |-> "end", look |-> {}, pod |-> {}, ref |-> FALSE]
    BY <1>2, <1>4 DEF Goto
  <2>2. QED
    BY <2>1
<1>5. ASSUME NEW step, Look(l, step)
      PROVE  /\ ctl'[l].at = step /\ ctl'[l].pod = ctl[l].pod
             /\ ctl'[l].ref = ctl[l].ref
  <2>1. ctl'[l] = [ctl[l] EXCEPT !.at = step, !.look = Listed]
    BY <1>2, <1>5 DEF Look
  <2>2. QED
    BY <1>1, <2>1
<1>6. ASSUME NEW step, NEW pods, Take(l, step, pods)
      PROVE  /\ ctl'[l].at = step /\ ctl'[l].pod = pods
             /\ ctl'[l].ref = ctl[l].ref
  <2>1. ctl'[l] = [ctl[l] EXCEPT !.at = step, !.look = {}, !.pod = pods]
    BY <1>2, <1>6 DEF Take
  <2>2. QED
    BY <1>1, <2>1
<1>7. ASSUME LeaveCleanup(l)
      PROVE  ctl'[l].at \in {"end", "exit"} /\ ~ctl'[l].ref
  <2>1. ctl'[l] = [ctl[l] EXCEPT !.at = IF ctl[l].pod = {} THEN "end" ELSE "exit",
                                 !.look = {}, !.ref = FALSE]
    BY <1>2, <1>7 DEF LeaveCleanup
  <2>2. QED
    BY <1>1, <2>1
<1>8. QED
  BY <1>3, <1>4, <1>5, <1>6, <1>7

LEMMA ControllerQualifies ==
  ASSUME TypeOK, NEW l \in Lease, Controller(l) \/ ControllerDies(l)
  PROVE  Qualifies(l)
<1> USE PodMoves DEF Handed, Qualifying, Qualifies, Steps
<1>1. CASE BeforePost(l) \/ ControllerDies(l)
  <2>1. ctl'[l].at \notin Handed
    BY <1>1, MovesTo DEF BeforePost, ControllerDies, ObserveAccount, BeginCreate,
         BeginRefused, Reserve, MarkCreating, PostIntent, AbandonBeforePost,
         CancelIntent, CancelLedger, CancelClose, TypeOK
  <2>2. QED
    BY <2>1
<1>2. CASE Post(l)
  <2>1. CASE Submit(l)
    <3>1. \/ ctl'[l].at = "lost"
          \/ \E p \in Pod : ctl'[l].at = "sent" /\ ctl'[l].pod = {p}
      <4>1. PICK made \in SUBSET {p \in Pod : pod[p] = "none"} :
              (\E p \in made : Take(l, "sent", {p})) \/ Goto(l, "lost")
        BY <2>1 DEF Submit
      <4>2. CASE Goto(l, "lost")
        BY <4>2, MovesTo
      <4>3. ASSUME NEW p \in made, Take(l, "sent", {p})
            PROVE  p \in Pod /\ ctl'[l].at = "sent" /\ ctl'[l].pod = {p}
        <5>1. ctl'[l].at = "sent" /\ ctl'[l].pod = {p}
          BY <4>3
        <5>2. QED
          BY <5>1
      <4>4. QED
        BY <4>1, <4>2, <4>3
    <3>2. QED
      BY <2>1, <3>1
  <2>2. CASE SubmitNothing(l) \/ SubmitConflict(l)
    BY <2>2 DEF SubmitNothing, SubmitConflict
  <2>3. CASE RecordCreated(l) \/ RecordFails(l)
    BY <2>3 DEF RecordCreated, RecordFails
  <2>4. CASE BindReturnedId(l)
    BY <2>4, ReturnedIdMoves
  <2>5. QED
    BY <1>2, <2>1, <2>2, <2>3, <2>4 DEF Post
<1>3. CASE AfterLoss(l)
  <2>1. ctl'[l].at \in {"lostLook", "refusedLook", "end", "reconciled", "release",
                       "ambDestroy", "exit"}
    <3>1. CASE BindLossIds(l)
      <4>1. \/ Goto(l, "release") \/ Goto(l, "end") \/ Goto(l, "ambDestroy")
            \/ Take(l, "exit", lease[l].ids)
        BY <3>1 DEF BindLossIds
      <4>2. QED
        BY <4>1, MovesTo
    <3>2. CASE LookAfterLoss(l)
      BY <3>2, MovesTo DEF LookAfterLoss
    <3>3. CASE InventoryUnavailable(l) \/ ReconcileLost(l) \/ ReleaseRejected(l)
      BY <3>3, MovesTo DEF InventoryUnavailable, ReconcileLost, ReleaseRejected
    <3>4. QED
      BY <1>3, <3>1, <3>2, <3>3 DEF AfterLoss
  <2>2. QED
    BY <2>1
<1>4. CASE Qualify(l)
  BY <1>4 DEF Qualify, ObserveCreated, RunFails, BindInventory,
         BindDelta, Attest, BindQuote, WorkEnds
<1>5. CASE TearDown(l)
  <2>1. ctl'[l].at \notin Handed
    BY <1>5, MovesTo DEF TearDown, ExitWorkload, RecordDestroyIntent,
         BindCleanup, RequestTermination, Delete, LookForAbsence,
         ConfirmAbsence, GiveUp, SettleBilling, FinalizeCampaign, CloseLease,
         AmbiguousDestroy, AmbiguousDelete, AmbiguousConfirm
  <2>2. QED
    BY <2>1
<1>6. QED
  BY <1>1, <1>2, <1>3, <1>4, <1>5 DEF Controller

LEMMA ReaperKeepsCtl ==
  ASSUME TypeOK, NEW l \in Lease, CancelOrphans(l) \/ Visit(l)
  PROVE  ctl'[l].pod = ctl[l].pod
<1>1. \/ ctl' = ctl
      \/ ctl' = [ctl EXCEPT ![l].ref = FALSE]
  <2> USE DEF StoreR, CommitR
  <2>1. CASE CancelOrphans(l)
    BY <2>1 DEF CancelOrphans, DeferPrepared, OrphanIntent, OrphanLedger,
           OrphanClose
  <2>2. CASE Pick(l) \/ VisitMoved(l) \/ VisitExpired(l) \/ ReleaseExpired(l)
             \/ VisitHeld(l) \/ VisitUnconfirmable(l) \/ VisitLive(l)
             \/ ReapDelete(l) \/ ReapRelist(l) \/ BillingPending(l)
             \/ ReapFinalize(l)
    BY <2>2 DEF Pick, VisitMoved, VisitExpired, ReleaseExpired, VisitHeld,
           VisitUnconfirmable, VisitLive, ReapDelete, ReapRelist,
           BillingPending, ReapFinalize, ReadOnly
  <2>3. CASE VisitRevoke(l) \/ VisitAmbiguous(l) \/ VisitDestroy(l)
             \/ ReapStage(l) \/ VisitNotListed(l) \/ VisitCreating(l)
    BY <2>3 DEF VisitRevoke, VisitAmbiguous, VisitDestroy, ReapStage,
           VisitNotListed, VisitCreating, ReapAbsence, ReapWrite, ReadOnly
  <2>4. CASE VisitWaiting(l) \/ CloseExpired(l) \/ ReapClose(l) \/ ReapConfirm(l)
    BY <2>4 DEF VisitWaiting, CloseExpired, ReapClose, ReapConfirm, ReapWriteLast
  <2>5. QED
    BY <2>1, <2>2, <2>3, <2>4 DEF Visit
<1>2. ctl \in [Lease -> Controllers]
      /\ ctl[l] \in [at : Steps, look : SUBSET Pod, pod : SUBSET Pod, ref : BOOLEAN]
  BY DEF TypeOK, Controllers
<1>3. QED
  BY <1>1, <1>2

LEMMA NextQualifies ==
  ASSUME TypeOK, [Next]_vars, NEW l \in Lease
  PROVE  Qualifies(l)
<1> SUFFICES ASSUME ~Controller(l), ~ControllerDies(l)
             PROVE  Qualifies(l)
  BY ControllerQualifies
<1>1. ASSUME NEW k \in Lease, k # l,
             Controller(k) \/ ControllerDies(k) \/ CancelOrphans(k) \/ Visit(k)
      PROVE  ctl'[l] = ctl[l] /\ lease'[l] = lease[l]
  BY <1>1, ControllerElsewhere, ReaperElsewhere DEF Elsewhere
<1>2. ASSUME CancelOrphans(l) \/ Visit(l)
      PROVE  /\ ctl'[l].pod = ctl[l].pod /\ ctl'[l].at = ctl[l].at
             /\ ctl'[l].ref => ctl[l].ref
             /\ lease'[l] # lease[l] => ~ctl'[l].ref
  BY <1>2, ReaperElsewhere, ReaperKeepsCtl
<1>3. CASE SweepBegin \/ SweepList \/ SweepOutage \/ SweepEnd \/ ReaperDies
           \/ Environment \/ UNCHANGED vars
  BY <1>3, SweepElsewhere DEF Qualifies
<1>4. QED
  BY <1>1, <1>2, <1>3 DEF Next, Qualifies

-----------------------------------------------------------------------------
(* How a step changes the ids of a record or confirms their absence. *)

Same(r, new) ==
  /\ new.ids = r.ids
  /\ new.st = "ABSENCE_CONFIRMED" => r.st = "ABSENCE_CONFIRMED"

Names(l) ==
  \/ Same(lease[l], lease'[l])
  \/ /\ lease'[l].st # "ABSENCE_CONFIRMED"
     /\ \/ /\ RecordCreated(l) /\ ctl[l].ref
           /\ \E p \in ctl[l].pod : lease'[l].ids = {p}
        \/ /\ ctl[l].at \in {"lostLook", "refusedLook"} /\ ctl[l].ref
           /\ lease[l].st = "CREATING"
        \/ BindInventory(l) /\ lease[l].st = "ACTIVE" /\ lease'[l].ids # {}
        \/ /\ VisitCreating(l) /\ rref[l] /\ docs[l] = lease[l]
           /\ lease'[l] = ByReaper(l)
  \/ /\ lease'[l].ids = lease[l].ids
     /\ \/ /\ ctl[l].at \in {"confirmLook", "ambLook"}
           /\ lease[l].ids \cap ctl[l].look = {}
        \/ /\ sweep.cur = l /\ docs[l] = lease[l]
           /\ \/ sweep.step = "visit" /\ lease[l].ids \cap seen.ids = {}
              \/ sweep.step = "confirm" /\ lease[l].ids \cap seen.fresh = {}

LEMMA OperationsName ==
  ASSUME NEW r \in Rec!Leases
  PROVE  /\ r.st = "NONE" /\ r = Rec!Unborn
              => \A listing : Same(r, Rec!Prepared(listing))
         /\ Same(r, Rec!PostIntent(r)) /\ Same(r, Rec!CancelIntent(r))
         /\ Same(r, Rec!CancelPrepared(r)) /\ Same(r, Rec!RequestDestroy(r))
         /\ Same(r, Rec!StageBilling(r)) /\ Same(r, Rec!BillingRecorded(r))
         /\ Same(r, Rec!AbsenceRevoked(r)) /\ Same(r, Expiration(r))
         /\ Same(r, r)
         /\ \A p : Rec!CreateSuccess(r, p).ids = {p}
                   /\ Rec!CreateSuccess(r, p).st = "ACTIVE"
         /\ \A listing :
              /\ Rec!AbsenceChecked(r, listing).ids = r.ids
              /\ \/ Same(r, Rec!AbsenceChecked(r, listing))
                 \/ r.ids \cap listing = {}
<1> USE DEF Same, Rec!Leases
<1>1. /\ r.st = "NONE" /\ r = Rec!Unborn
           => \A listing : Same(r, Rec!Prepared(listing))
      /\ Same(r, Rec!PostIntent(r)) /\ Same(r, Rec!CancelIntent(r))
      /\ Same(r, Rec!CancelPrepared(r)) /\ Same(r, Rec!RequestDestroy(r))
  BY DEF Rec!Prepared, Rec!Unborn, Rec!PostIntent, Rec!CancelIntent,
         Rec!CancelPrepared, Rec!RequestDestroy
<1>2. /\ Same(r, Rec!StageBilling(r)) /\ Same(r, Rec!BillingRecorded(r))
      /\ Same(r, Rec!AbsenceRevoked(r)) /\ Same(r, Expiration(r))
      /\ Same(r, r)
  BY DEF Rec!StageBilling, Rec!BillingRecorded, Rec!AbsenceRevoked, Expiration
<1>3. \A p : Rec!CreateSuccess(r, p).ids = {p}
             /\ Rec!CreateSuccess(r, p).st = "ACTIVE"
  BY DEF Rec!CreateSuccess
<1>4. \A listing : /\ Rec!AbsenceChecked(r, listing).ids = r.ids
                   /\ \/ Same(r, Rec!AbsenceChecked(r, listing))
                      \/ r.ids \cap listing = {}
  BY DEF Rec!AbsenceChecked
<1>5. QED
  BY <1>1, <1>2, <1>3, <1>4

LEMMA ControllerNames ==
  ASSUME TypeOK, Consistent, NEW l \in Lease, Controller(l)
  PROVE  Names(l)
<1>r. /\ lease[l] \in Rec!Leases /\ Rec!Valid(lease[l])
      /\ ctl[l].look \in SUBSET Pod
  BY DEF TypeOK, Consistent, Recorded, Controllers
<1> SUFFICES ASSUME lease'[l] # lease[l] PROVE Names(l)
  BY DEF Names, Same
<1>1. CASE BeforePost(l)
  <2>1. \/ BeginCreate(l) /\ lease'[l] = Rec!Prepared(ctl[l].look)
        \/ lease'[l] \in {Rec!PostIntent(lease[l]), Rec!CancelIntent(lease[l]),
                          Rec!CancelPrepared(lease[l])}
    BY <1>1, CommitIs DEF BeforePost, ObserveAccount, BeginCreate, BeginRefused,
         Reserve, MarkCreating, PostIntent, AbandonBeforePost, CancelIntent,
         CancelLedger, CancelClose, store, TypeOK
  <2>2. CASE BeginCreate(l) /\ lease'[l] = Rec!Prepared(ctl[l].look)
    <3>1. lease[l].st = "NONE" /\ lease[l] = Rec!Unborn
      BY <2>2 DEF BeginCreate, Consistent, NotBegun, Recorded
    <3>2. QED
      BY <1>r, <2>2, <3>1, OperationsName DEF Names
  <2>3. QED
    BY <1>r, <2>1, <2>2, OperationsName DEF Names
<1>2. CASE Post(l)
  <2>1. PICK p \in ctl[l].pod : /\ RecordCreated(l) /\ ctl[l].ref
                                /\ lease'[l] = Rec!CreateSuccess(lease[l], p)
    BY <1>2, CommitIs DEF Post, Submit, SubmitNothing, SubmitConflict,
           RecordCreated, RecordFails, BindReturnedId, store, CanWriteC
  <2>2. QED
    BY <1>r, <2>1, OperationsName DEF Names
<1>3. CASE AfterLoss(l)
  <2>1. /\ ctl[l].at \in {"lostLook", "refusedLook"} /\ ctl[l].ref
        /\ lease[l].st = "CREATING" /\ lease'[l] = ByController(l)
    BY <1>3, CommitIs DEF AfterLoss, LookAfterLoss, InventoryUnavailable,
           ReconcileLost, BindLossIds, ReleaseRejected, ByController, store,
           CanWriteC
  <2>2. \E outcome : Reconciled(ByController(l), outcome, Own(l))
    BY <1>r, <2>1, ValidByController
  <2>3. QED
    BY <2>1, <2>2 DEF Reconciled, Names
<1>4. CASE Qualify(l)
  <2>1. /\ BindInventory(l) /\ lease[l].st = "ACTIVE"
        /\ lease'[l] = Rec!PostCreateBound(lease[l], ctl[l].look, Own(l), Siblings(l))
    BY <1>4, CommitIs DEF Qualify, ObserveCreated, RunFails, BindInventory,
           BindDelta, Attest, BindQuote, WorkEnds, store
  <2>2. PICK r, look, own, known :
          /\ r = lease[l] /\ look = ctl[l].look
          /\ own = Own(l) /\ known = Siblings(l)
          /\ lease'[l] = Rec!PostCreateBound(r, look, own, known)
    BY <2>1
  <2>3. r \in Rec!Leases /\ Rec!Valid(r) /\ r.st = "ACTIVE" /\ look \in SUBSET Pod
    BY <1>r, <2>1, <2>2
  <2>4. Rec!PostCreateBound(r, look, own, known).st \in {"ACTIVE", "AMBIGUOUS"}
    BY <2>3, ValidPostCreate
  <2>5. Rec!PostCreateBound(r, look, own, known).ids # {}
    BY <2>3, ValidPostCreate
  <2>6. QED
    BY <2>1, <2>2, <2>4, <2>5 DEF Names
<1>5. CASE TearDown(l)
  <2>1. \/ lease'[l] \in {lease[l], Rec!RequestDestroy(lease[l]),
                          Rec!StageBilling(lease[l]), Rec!BillingRecorded(lease[l])}
        \/ /\ ctl[l].at \in {"confirmLook", "ambLook"}
           /\ lease'[l] = Rec!AbsenceChecked(lease[l], ctl[l].look)
    BY <1>5, CommitIs DEF TearDown, ExitWorkload, RecordDestroyIntent,
           BindCleanup, RequestTermination, Delete, LookForAbsence,
           ConfirmAbsence, GiveUp, SettleBilling, FinalizeCampaign,
           CloseLease, AmbiguousDestroy, AmbiguousDelete, AmbiguousConfirm,
           Confirms, store
  <2>2. QED
    BY <1>r, <2>1, OperationsName DEF Names
<1>6. QED
  BY <1>1, <1>2, <1>3, <1>4, <1>5 DEF Controller

LEMMA ReaperNames ==
  ASSUME TypeOK, Consistent, NEW l \in Lease, CancelOrphans(l) \/ Visit(l)
  PROVE  Names(l)
<1> SUFFICES ASSUME lease'[l] # lease[l] PROVE Names(l)
  BY DEF Names, Same
<1>s. \E new : CanWriteR(l, new) /\ lease'[l] = new
             /\ \/ new \in {Rec!CancelIntent(lease[l]), Rec!CancelPrepared(lease[l]),
                            Expiration(docs[l]), Rec!BillingRecorded(docs[l]),
                            Rec!AbsenceRevoked(docs[l]), Rec!RequestDestroy(docs[l]),
                            Rec!StageBilling(docs[l])}
                \/ VisitCreating(l) /\ docs[l].st = "CREATING" /\ new = ByReaper(l)
                \/ /\ docs[l].st = "CREATING" /\ LostByReaper(l) = "zero"
                   /\ new = ByReaper(l)
                \/ /\ sweep.cur = l /\ sweep.step = "visit"
                   /\ new = Rec!AbsenceChecked(docs[l], seen.ids)
                \/ /\ sweep.cur = l /\ sweep.step = "confirm"
                   /\ new = Rec!AbsenceChecked(docs[l], seen.fresh)
  <2> USE CommitIs DEF CommitR
  <2>1. CASE CancelOrphans(l)
    BY <2>1 DEF CancelOrphans, DeferPrepared, OrphanIntent, OrphanLedger,
           OrphanClose, store
  <2>2. CASE Pick(l) \/ VisitMoved(l) \/ VisitExpired(l) \/ ReleaseExpired(l)
             \/ VisitHeld(l) \/ VisitUnconfirmable(l) \/ VisitLive(l)
             \/ ReapDelete(l) \/ ReapRelist(l) \/ BillingPending(l)
             \/ ReapFinalize(l)
    BY <2>2 DEF Pick, VisitMoved, VisitExpired, ReleaseExpired, VisitHeld,
           VisitUnconfirmable, VisitLive, ReapDelete, ReapRelist,
           BillingPending, ReapFinalize, ReadOnly, store
  <2>3. CASE VisitRevoke(l) \/ VisitAmbiguous(l) \/ VisitDestroy(l)
    BY <2>3 DEF VisitRevoke, VisitAmbiguous, VisitDestroy, ReapWrite
  <2>4. CASE VisitNotListed(l)
    BY <2>4 DEF VisitNotListed, ReapAbsence, ReapWrite, Targeted
  <2>5. CASE VisitCreating(l)
    BY <2>5 DEF VisitCreating, Visiting, ReapWrite, ReadOnly, store
  <2>w. CASE VisitWaiting(l)
    BY <2>w DEF VisitWaiting, Visiting, ReapWriteLast
  <2>6. CASE CloseExpired(l) \/ ReapClose(l)
    BY <2>6 DEF CloseExpired, ReapClose, ReapWriteLast, Expiration
  <2>7. CASE ReapConfirm(l)
    BY <2>7 DEF ReapConfirm
  <2>8. CASE ReapStage(l)
    BY <2>8 DEF ReapStage, ReapWrite
  <2>9. QED
    BY <2>1, <2>2, <2>3, <2>4, <2>5, <2>6, <2>7, <2>8, <2>w DEF Visit
<1>1. PICK new :
             CanWriteR(l, new) /\ lease'[l] = new
             /\ \/ new \in {Rec!CancelIntent(lease[l]), Rec!CancelPrepared(lease[l]),
                            Expiration(docs[l]), Rec!BillingRecorded(docs[l]),
                            Rec!AbsenceRevoked(docs[l]), Rec!RequestDestroy(docs[l]),
                            Rec!StageBilling(docs[l])}
                \/ VisitCreating(l) /\ docs[l].st = "CREATING" /\ new = ByReaper(l)
                \/ /\ docs[l].st = "CREATING" /\ LostByReaper(l) = "zero"
                   /\ new = ByReaper(l)
                \/ /\ sweep.cur = l /\ sweep.step = "visit"
                   /\ new = Rec!AbsenceChecked(docs[l], seen.ids)
                \/ /\ sweep.cur = l /\ sweep.step = "confirm"
                   /\ new = Rec!AbsenceChecked(docs[l], seen.fresh)
  BY <1>s
<1>2. rref[l] /\ docs[l] = lease[l] /\ lease[l] \in Rec!Leases /\ Rec!Valid(lease[l])
  BY <1>1, WritesR
<1>3. CASE docs[l].st = "CREATING" /\ new = ByReaper(l)
  <2>1. AnsweredOnlyInLedger(l) \in SUBSET Pod /\ seen.ids \in SUBSET Pod
    BY DEF AnsweredOnlyInLedger, TypeOK, Att!Attempts
  <2>2. Reconciled(ByReaper(l), LostByReaper(l),
                   Own(l) \cup AnsweredOnlyInLedger(l))
    BY <1>2, <1>3, <2>1, ValidByReaper
  <2>3. new.st # "ABSENCE_CONFIRMED"
    BY <1>3, <2>2 DEF Reconciled
  <2>4. CASE VisitCreating(l)
    BY <1>1, <1>2, <1>3, <2>3, <2>4 DEF Names
  <2>5. CASE LostByReaper(l) = "zero"
    <3>1. ByReaper(l).ids = docs[l].ids
      BY <1>2, <2>5 DEF ByReaper, Rec!LostReconciled, Rec!Leases
    <3>2. QED
      BY <1>1, <1>2, <1>3, <2>3, <3>1 DEF Names, Same
  <2>6. QED
    BY <1>1, <1>3, <2>4, <2>5, <1>2, OperationsName DEF Names
<1>4. CASE \/ /\ sweep.cur = l /\ sweep.step = "visit"
              /\ new = Rec!AbsenceChecked(docs[l], seen.ids)
           \/ /\ sweep.cur = l /\ sweep.step = "confirm"
              /\ new = Rec!AbsenceChecked(docs[l], seen.fresh)
  BY <1>1, <1>2, <1>4, OperationsName DEF Names
<1>5. CASE new \in {Rec!CancelIntent(lease[l]), Rec!CancelPrepared(lease[l]),
                    Expiration(docs[l]), Rec!BillingRecorded(docs[l]),
                    Rec!AbsenceRevoked(docs[l]), Rec!RequestDestroy(docs[l]),
                    Rec!StageBilling(docs[l])}
  BY <1>1, <1>2, <1>5, OperationsName DEF Names
<1>6. QED
  BY <1>1, <1>3, <1>4, <1>5

LEMMA NextNames ==
  ASSUME TypeOK, Consistent, [Next]_vars, NEW l \in Lease
  PROVE  Names(l)
<1>1. ASSUME NEW k \in Lease, k # l,
             Controller(k) \/ ControllerDies(k) \/ CancelOrphans(k) \/ Visit(k)
      PROVE  lease'[l] = lease[l]
  BY <1>1, ControllerElsewhere, ReaperElsewhere DEF Elsewhere
<1>2. CASE ControllerDies(l)
  BY <1>2 DEF ControllerDies, store, Names, Same
<1>3. QED
  BY <1>1, <1>2, ControllerNames, ReaperNames, SweepElsewhere
     DEF Next, Names, Same

-----------------------------------------------------------------------------
(* Who has a current reference, and what becomes of it. *)

LEMMA RefStays ==
  ASSUME TypeOK, NEW l \in Lease
  PROVE  /\ \A step : Goto(l, step) => (ctl'[l].ref => ctl[l].ref)
         /\ \A step : Look(l, step) => ctl'[l].ref = ctl[l].ref
         /\ \A step, pods : Take(l, step, pods) => ctl'[l].ref = ctl[l].ref
         /\ LeaveCleanup(l) => ~ctl'[l].ref
<1>1. /\ ctl \in [Lease -> Controllers]
      /\ ctl[l] \in [at : Steps, look : SUBSET Pod, pod : SUBSET Pod,
                     ref : BOOLEAN]
  BY DEF TypeOK, Controllers
<1>2. ASSUME NEW step, Goto(l, step)
      PROVE  ctl'[l].ref => ctl[l].ref
  <2>1. CASE step = "end"
    <3>1. ctl' = [ctl EXCEPT ![l] = [at |-> "end", look |-> {}, pod |-> {},
                                     ref |-> FALSE]]
      BY <1>2, <2>1 DEF Goto
    <3>2. QED
      BY <1>1, <3>1
  <2>2. CASE step # "end"
    <3>1. ctl' = [ctl EXCEPT ![l] = [ctl[l] EXCEPT !.at = step, !.look = {}]]
      BY <1>2, <2>2 DEF Goto
    <3>2. QED
      BY <1>1, <3>1
  <2>3. QED
    BY <2>1, <2>2
<1>3. QED
  BY <1>2, PodMoves

LEMMA RefMoves ==
  ASSUME TypeOK, [Next]_vars, NEW l \in Lease, ctl'[l].ref
  PROVE  \/ ctl[l].ref
         \/ BeginCreate(l)
         \/ BindReturnedId(l) /\ lease[l].ids # {} /\ lease'[l] = lease[l]
<1> USE RefStays
<1>1. ASSUME NEW k \in Lease, k # l,
             Controller(k) \/ ControllerDies(k) \/ CancelOrphans(k) \/ Visit(k)
      PROVE  ctl'[l] = ctl[l]
  BY <1>1, ControllerElsewhere, ReaperElsewhere DEF Elsewhere
<1>2. ASSUME CancelOrphans(l) \/ Visit(l)
      PROVE  ctl[l].ref
  BY <1>2, ReaperElsewhere
<1>3. CASE Controller(l) \/ ControllerDies(l)
  <2>1. CASE BeforePost(l) \/ ControllerDies(l)
    BY <2>1 DEF BeforePost, ControllerDies, ObserveAccount, BeginRefused,
           Reserve, MarkCreating, PostIntent, AbandonBeforePost, CancelIntent,
           CancelLedger, CancelClose
  <2>2. CASE Post(l)
    <3>1. CASE BindReturnedId(l)
      <4>1. \/ ctl[l].ref
            \/ lease[l].ids # {}
        <5>1. ctl' = [ctl EXCEPT ![l] = [ctl[l] EXCEPT !.at = "exit",
                        !.ref = \/ ctl[l].ref
                                \/ lease[l].ids # {} /\ lease[l].ids = ctl[l].pod]]
          BY <3>1 DEF BindReturnedId
        <5>2. /\ ctl \in [Lease -> Controllers]
              /\ ctl[l] \in [at : Steps, look : SUBSET Pod, pod : SUBSET Pod,
                             ref : BOOLEAN]
          BY DEF TypeOK, Controllers
        <5>3. QED
          BY <5>1, <5>2
      <4>2. QED
        BY <3>1, <4>1 DEF BindReturnedId
    <3>2. QED
      BY <2>2, <3>1 DEF Post, Submit, SubmitNothing, SubmitConflict,
             RecordCreated, RecordFails
  <2>3. CASE AfterLoss(l)
    BY <2>3 DEF AfterLoss, LookAfterLoss, InventoryUnavailable, ReconcileLost,
           BindLossIds, ReleaseRejected
  <2>4. CASE Qualify(l)
    BY <2>4 DEF Qualify, ObserveCreated, RunFails, BindInventory,
         BindDelta, Attest, BindQuote, WorkEnds
  <2>5. CASE TearDown(l)
    BY <2>5 DEF TearDown, ExitWorkload, RecordDestroyIntent,
         BindCleanup, RequestTermination, Delete, LookForAbsence,
         ConfirmAbsence, GiveUp, SettleBilling, FinalizeCampaign, CloseLease,
         AmbiguousDestroy, AmbiguousDelete, AmbiguousConfirm
  <2>6. QED
    BY <1>3, <2>1, <2>2, <2>3, <2>4, <2>5 DEF Controller
<1>4. QED
  BY <1>1, <1>2, <1>3, SweepElsewhere DEF Next

(* The reaper loses its reference to the controller's writes alone, and     *)
(* gives it up with its copy.                                               *)
LEMMA RrefMoves ==
  ASSUME TypeOK, [Next]_vars, NEW l \in Lease
  PROVE  /\ rref'[l] => rref[l] \/ sweep'.step = "list"
         /\ rref[l] /\ ~rref'[l] => ctl[l].ref \/ docs'[l] = Rec!Unborn
<1>t. rref \in [Lease -> BOOLEAN] /\ docs \in [Lease -> Rec!Leases]
  BY DEF TypeOK
<1>1. ASSUME NEW k \in Lease, Controller(k) \/ ControllerDies(k)
      PROVE  \/ rref' = rref
             \/ ctl[k].ref /\ rref' = [rref EXCEPT ![k] = FALSE]
  <2> USE DEF CommitC, CanWriteC
  <2>1. CASE BeforePost(k) \/ ControllerDies(k)
    BY <2>1 DEF BeforePost, ControllerDies, ObserveAccount, BeginCreate,
           BeginRefused, Reserve, MarkCreating, PostIntent, AbandonBeforePost,
           CancelIntent, CancelLedger, CancelClose
  <2>2. CASE Post(k)
    BY <2>2 DEF Post, Submit, SubmitNothing, SubmitConflict,
             RecordCreated, RecordFails, BindReturnedId
  <2>3. CASE AfterLoss(k)
    BY <2>3 DEF AfterLoss, LookAfterLoss, InventoryUnavailable, ReconcileLost,
           BindLossIds, ReleaseRejected
  <2>4. CASE Qualify(k)
    BY <2>4 DEF Qualify, ObserveCreated, RunFails, BindInventory,
         BindDelta, Attest, BindQuote, WorkEnds
  <2>5. CASE TearDown(k)
    BY <2>5 DEF TearDown, ExitWorkload, RecordDestroyIntent,
         BindCleanup, RequestTermination, Delete, LookForAbsence,
         ConfirmAbsence, GiveUp, SettleBilling, FinalizeCampaign, CloseLease,
         AmbiguousDestroy, AmbiguousDelete, AmbiguousConfirm, Confirms
  <2>6. QED
    BY <1>1, <2>1, <2>2, <2>3, <2>4, <2>5 DEF Controller
<1>2. ASSUME NEW k \in Lease, CancelOrphans(k) \/ Visit(k)
      PROVE  \/ rref' = rref
             \/ /\ rref' = [rref EXCEPT ![k] = FALSE]
                /\ docs' = [docs EXCEPT ![k] = Rec!Unborn]
  <2> USE DEF Forget, Fail, Done, Go, memory, OrphanEnds
  <2>1. CASE CancelOrphans(k)
    BY <2>1 DEF CancelOrphans, DeferPrepared, OrphanIntent, OrphanLedger,
           OrphanClose
  <2>2. CASE Pick(k) \/ VisitMoved(k) \/ VisitExpired(k) \/ ReleaseExpired(k)
             \/ VisitHeld(k) \/ VisitUnconfirmable(k) \/ VisitLive(k)
             \/ ReapDelete(k) \/ ReapRelist(k) \/ BillingPending(k)
             \/ ReapFinalize(k)
    BY <2>2 DEF Pick, VisitMoved, VisitExpired, ReleaseExpired, VisitHeld,
           VisitUnconfirmable, VisitLive, ReapDelete, ReapRelist,
           BillingPending, ReapFinalize
  <2>3. CASE VisitRevoke(k) \/ VisitAmbiguous(k) \/ VisitDestroy(k)
             \/ ReapStage(k) \/ VisitNotListed(k) \/ VisitCreating(k)
    BY <2>3 DEF VisitRevoke, VisitAmbiguous, VisitDestroy, ReapStage,
           VisitNotListed, VisitCreating, ReapAbsence, ReapWrite
  <2>4. CASE VisitWaiting(k) \/ CloseExpired(k) \/ ReapClose(k) \/ ReapConfirm(k)
    BY <2>4 DEF VisitWaiting, CloseExpired, ReapClose, ReapConfirm, ReapWriteLast
  <2>5. QED
    BY <1>2, <2>1, <2>2, <2>3, <2>4 DEF Visit
<1>3. CASE SweepBegin
  BY <1>3, <1>t DEF SweepBegin
<1>4. CASE SweepList \/ SweepOutage \/ Environment \/ UNCHANGED vars
  BY <1>4 DEF SweepList, SweepOutage, Environment,
         Appears, Exits, Vanishes, StrangerArrives, Provider,
         WindowCloses, WindowExpires, ReapDeadlinePasses, AbsenceAges, Tick,
         Go, memory, vars
<1>5. CASE SweepEnd \/ ReaperDies
  BY <1>5 DEF SweepEnd, ReaperDies, ForgetSweep, NoDocs
<1>6. ASSUME NEW k \in Lease, ctl[k].ref /\ rref' = [rref EXCEPT ![k] = FALSE]
      PROVE  /\ rref'[l] => rref[l]
             /\ rref[l] /\ ~rref'[l] => ctl[l].ref
  BY <1>6, <1>t
<1>7. ASSUME NEW k \in Lease, rref' = [rref EXCEPT ![k] = FALSE],
             docs' = [docs EXCEPT ![k] = Rec!Unborn]
      PROVE  /\ rref'[l] => rref[l]
             /\ rref[l] /\ ~rref'[l] => docs'[l] = Rec!Unborn
  BY <1>7, <1>t
<1>8. QED
  BY <1>1, <1>2, <1>3, <1>4, <1>5, <1>6, <1>7 DEF Next

-----------------------------------------------------------------------------
(* How the ids of an attempt change. *)

LEMMA BecomesCreating ==
  ASSUME TypeOK, Consistent, [Next]_vars, NEW l \in Lease,
         lease'[l].st = "CREATING"
  PROVE  lease[l].st = "CREATING" \/ (PostIntent(l) /\ MayPost(l))
<1>1. Changes(l)
  BY NextChanges
<1>2. lease[l] \in Rec!Leases
  BY DEF TypeOK
<1>3. CASE BeginCreate(l)
  BY <1>3 DEF BeginCreate, TypeOK, Rec!Prepared, Rec!Unborn
<1>4. CASE PostIntent(l)
  BY <1>4 DEF PostIntent, MayPost, Early
<1>5. ASSUME lease'[l] \in {Rec!CancelIntent(lease[l]), Rec!CancelPrepared(lease[l]),
                            Rejected(lease[l]), Noted(lease[l], TRUE),
                            Expiration(lease[l]), Rec!BillingRecorded(lease[l])}
      PROVE  lease[l].st = "CREATING"
  <2>1. /\ Rec!CancelPrepared(lease[l]).st = "TERMINAL"
        /\ Rejected(lease[l]).st = "TERMINAL"
        /\ Expiration(lease[l]).st = "TERMINAL"
        /\ Rec!BillingRecorded(lease[l]).st = "TERMINAL"
        /\ Rec!CancelIntent(lease[l]).st = lease[l].st
        /\ Noted(lease[l], TRUE).st = lease[l].st
    BY <1>2 DEF Rec!CancelIntent, Rec!CancelPrepared, Rejected, Noted, Expiration,
                Rec!BillingRecorded, Rec!Leases
  <2>2. QED
    BY <1>5, <2>1
<1>6. QED
  BY <1>1, <1>3, <1>4, <1>5 DEF Changes, Tends

LEMMA TerminalStays ==
  ASSUME TypeOK, Consistent, [Next]_vars, NEW l \in Lease,
         lease[l].st = "TERMINAL"
  PROVE  lease'[l] = lease[l]
<1>1. ~BeginCreate(l)
  BY DEF BeginCreate, Consistent, NotBegun
<1>2. QED
  BY <1>1, NextChanges DEF Changes, Rec!Allowed

(* Only a create that is answered or reconciled, and the inventory after it,*)
(* name ids.                                                                *)
LEMMA IdsStay ==
  ASSUME TypeOK, Consistent, Known, [Next]_vars, NEW l \in Lease,
         lease[l].st \notin {"CREATING", "ACTIVE"}
  PROVE  lease'[l].ids = lease[l].ids
<1>1. ~(RecordCreated(l) /\ ctl[l].ref)
  BY DEF RecordCreated, Known
<1>2. ~(VisitCreating(l) /\ docs[l] = lease[l])
  BY DEF VisitCreating, Visiting
<1>3. QED
  BY <1>1, <1>2, NextNames DEF Names, Same
-----------------------------------------------------------------------------
(* Which ids a step binds in the ledger. *)

BindsIds(l) ==
  attempt'[l] # attempt[l] /\ attempt'[l].phase \in Binding \cup {"RECONCILED"} =>
    /\ lease'[l] = lease[l]
    /\ \/ attempt'[l].bound = attempt[l].bound /\ attempt[l].phase \in Binding
       \/ attempt'[l].bound = lease[l].ids /\ lease[l].ids # {}
       \/ BindReturnedId(l) /\ attempt'[l].bound = ctl[l].pod
       \/ /\ BindDelta(l)
          /\ attempt'[l].bound = IF lease[l].ids = {} THEN ctl[l].pod
                                                      ELSE lease[l].ids
       \/ BindQuote(l) /\ \E p \in ctl[l].pod : attempt'[l].bound = {p}
       \/ ReapFinalize(l) /\ attempt'[l].bound = docs[l].ids /\ docs[l].ids # {}

LEMMA ControllerBinds ==
  ASSUME TypeOK, NEW l \in Lease, Controller(l)
  PROVE  BindsIds(l)
<1> SUFFICES ASSUME attempt'[l] # attempt[l],
                    attempt'[l].phase \in Binding \cup {"RECONCILED"}
             PROVE  BindsIds(l)
  BY DEF BindsIds
<1>a. attempt[l] \in Att!Attempts
  BY DEF TypeOK
<1> USE AttemptIs, PaymentsAre
<1>1. ~BeforePost(l)
  <2>1. ASSUME BeforePost(l)
        PROVE  attempt'[l] \in {Att!Reserved, Att!MarkedCreating(attempt[l]),
                                Att!Cancelled(attempt[l], "PREPARED")}
    BY <2>1 DEF BeforePost, ObserveAccount, BeginCreate, BeginRefused, Reserve,
         MarkCreating, PostIntent, AbandonBeforePost, CancelIntent,
         CancelLedger, LedgerCancels, CancelClose, store
  <2>2. QED
    BY <1>a, <2>1 DEF Binding
<1>2. CASE Post(l)
  <2>1. /\ BindReturnedId(l) /\ lease' = lease
        /\ attempt'[l] = Att!BoundForCleanup(attempt[l], ctl[l].pod)
    BY <1>2 DEF Post, Submit, SubmitNothing, SubmitConflict, RecordCreated,
           RecordFails, BindReturnedId, store
  <2>2. QED
    BY <1>a, <2>1 DEF BindsIds
<1>3. CASE AfterLoss(l)
  <2>1. \/ /\ lease' = lease /\ lease[l].ids # {}
           /\ attempt'[l] = Att!BoundForCleanup(attempt[l], lease[l].ids)
        \/ attempt'[l] = Att!Cancelled(attempt[l], "PROVIDER_REJECTED_CREATE")
    BY <1>3 DEF AfterLoss, LookAfterLoss, InventoryUnavailable, ReconcileLost,
           BindLossIds, ReleaseRejected, store
  <2>2. QED
    BY <1>a, <2>1 DEF BindsIds, Binding
<1>4. CASE Qualify(l)
  <2>1. \/ BindDelta(l) \/ BindQuote(l)
    BY <1>4 DEF Qualify, ObserveCreated, RunFails, BindInventory, Attest, WorkEnds,
           store
  <2>2. CASE BindDelta(l)
    <3>1. /\ lease' = lease
          /\ attempt'[l] = Att!BoundForCleanup(attempt[l],
                             IF lease[l].ids = {} THEN ctl[l].pod ELSE lease[l].ids)
      BY <2>2 DEF BindDelta
    <3>2. QED
      BY <1>a, <2>2, <3>1 DEF BindsIds
  <2>3. CASE BindQuote(l)
    <3>1. PICK p \in ctl[l].pod, accepted \in BOOLEAN :
            lease' = lease /\ attempt'[l] = Att!QuoteBound(attempt[l], p, accepted)
      BY <2>3 DEF BindQuote
    <3>2. QED
      BY <1>a, <2>3, <3>1 DEF BindsIds
  <2>4. QED
    BY <2>1, <2>2, <2>3
<1>5. CASE TearDown(l)
  <2>1. /\ lease' = lease
        /\ \/ /\ lease[l].ids # {}
              /\ attempt'[l] = Att!BoundForCleanup(attempt[l], lease[l].ids)
           \/ /\ attempt'[l] = Att!TerminationRequested(attempt[l])
              /\ attempt[l].phase \in Binding
           \/ /\ lease[l].ids # {}
              /\ attempt'[l] = Att!Projected(attempt[l], lease[l].ids)
    BY <1>5 DEF TearDown, ExitWorkload, RecordDestroyIntent, BindCleanup,
           RequestTermination, Delete, LookForAbsence, ConfirmAbsence, GiveUp,
           SettleBilling, FinalizeCampaign, CloseLease, AmbiguousDestroy,
           AmbiguousDelete, AmbiguousConfirm, MayFinalize,
           Att!MayRequestTermination, Binding, store
  <2>2. QED
    BY <1>a, <2>1 DEF BindsIds
<1>6. QED
  BY <1>1, <1>2, <1>3, <1>4, <1>5 DEF Controller

LEMMA ReaperBinds ==
  ASSUME TypeOK, NEW l \in Lease, CancelOrphans(l) \/ Visit(l)
  PROVE  BindsIds(l)
<1> SUFFICES ASSUME attempt'[l] # attempt[l],
                    attempt'[l].phase \in Binding \cup {"RECONCILED"}
             PROVE  BindsIds(l)
  BY DEF BindsIds
<1>a. attempt[l] \in Att!Attempts
  BY DEF TypeOK
<1> USE AttemptIs, PaymentsAre
<1>1. ~CancelOrphans(l)
  <2>1. CancelOrphans(l) => attempt'[l] = Att!Cancelled(attempt[l], "PREPARED")
    BY DEF CancelOrphans, DeferPrepared, OrphanIntent, OrphanLedger,
           LedgerCancels, OrphanClose, store
  <2>2. QED
    BY <1>a, <2>1 DEF Binding
<1>2. \/ attempt'[l] = Att!Cancelled(attempt[l], "LOST_CREATE_EXPIRED")
      \/ /\ ReapFinalize(l) /\ lease' = lease /\ docs[l].ids # {}
         /\ attempt'[l] = Att!Projected(attempt[l], docs[l].ids)
  BY <1>1 DEF Visit, Pick, VisitRevoke, VisitMoved, VisitCreating, VisitWaiting,
           VisitExpired, ReleaseExpired, CloseExpired, VisitHeld,
           VisitAmbiguous, VisitNotListed, VisitUnconfirmable, VisitLive,
           VisitDestroy, ReapDelete, ReapRelist, ReapConfirm,
           BillingPending, ReapStage, ReapFinalize, ReapClose, MayFinalize,
           ReadOnly, ReapWrite, ReapWriteLast, ReapAbsence, store
<1>3. QED
  BY <1>a, <1>2 DEF BindsIds, Binding

LEMMA NextBinds ==
  ASSUME TypeOK, [Next]_vars, NEW l \in Lease
  PROVE  BindsIds(l)
<1>1. ASSUME NEW k \in Lease, k # l,
             Controller(k) \/ ControllerDies(k) \/ CancelOrphans(k) \/ Visit(k)
      PROVE  attempt'[l] = attempt[l]
  BY <1>1, ControllerElsewhere, ReaperElsewhere DEF Elsewhere
<1>2. CASE ControllerDies(l)
  BY <1>2 DEF ControllerDies, store, BindsIds
<1>3. QED
  BY <1>1, <1>2, ControllerBinds, ReaperBinds, SweepElsewhere DEF Next, BindsIds

-----------------------------------------------------------------------------
(* The last arrivals: at a listing that may confirm absence, and at the     *)
(* release of a rejected create.                                            *)

ArrivesToo(l) ==
  \/ ctl'[l].at = ctl[l].at /\ ctl'[l].look = ctl[l].look
  \/ /\ ctl'[l].at \in {"confirmLook", "ambLook"} => LookForAbsence(l)
     /\ ctl'[l].at = "release"
          => /\ lease'[l] = lease[l]
             /\ lease[l].st = "TERMINAL" /\ lease[l].ids = {}

LEMMA ControllerArrivesToo ==
  ASSUME TypeOK, NEW l \in Lease, Controller(l) \/ ControllerDies(l)
  PROVE  ArrivesToo(l)
<1> SUFFICES ASSUME ctl'[l].at \in {"confirmLook", "ambLook", "release"}
             PROVE  \/ LookForAbsence(l) /\ ctl'[l].at # "release"
                    \/ /\ ctl'[l].at = "release" /\ lease'[l] = lease[l]
                       /\ lease[l].st = "TERMINAL" /\ lease[l].ids = {}
  BY DEF ArrivesToo
<1> USE MovesTo
<1>1. ~BeforePost(l) /\ ~ControllerDies(l)
  BY DEF BeforePost, ControllerDies, ObserveAccount, BeginCreate,
         BeginRefused, Reserve, MarkCreating, PostIntent, AbandonBeforePost,
         CancelIntent, CancelLedger, CancelClose, TypeOK
<1>2. ~Post(l)
  BY ReturnedIdMoves, SubmitIs
     DEF Post, SubmitNothing, SubmitConflict, RecordCreated, RecordFails
<1>3. CASE AfterLoss(l)
  <2>1. CASE BindLossIds(l)
    BY <2>1 DEF BindLossIds
  <2>2. ~LookAfterLoss(l)
    <3>1. LookAfterLoss(l) => Look(l, "lostLook") \/ Look(l, "refusedLook")
      BY DEF LookAfterLoss
    <3>2. QED
      BY <3>1
  <2>3. ~ReconcileLost(l) /\ ~InventoryUnavailable(l) /\ ~ReleaseRejected(l)
    <3>1. ReconcileLost(l) \/ InventoryUnavailable(l) \/ ReleaseRejected(l)
            => Goto(l, "reconciled") \/ Goto(l, "end")
      BY DEF InventoryUnavailable, ReconcileLost, ReleaseRejected
    <3>2. QED
      BY <3>1
  <2>4. QED
    BY <1>3, <2>1, <2>2, <2>3 DEF AfterLoss
<1>4. ~Qualify(l)
  BY DEF Qualify, ObserveCreated, RunFails, BindInventory, BindDelta, Attest,
         BindQuote, WorkEnds
<1>5. CASE TearDown(l)
  BY <1>5 DEF TearDown, ExitWorkload, RecordDestroyIntent, BindCleanup,
         RequestTermination, Delete, LookForAbsence, ConfirmAbsence, GiveUp,
         SettleBilling, FinalizeCampaign, CloseLease, AmbiguousDestroy,
         AmbiguousDelete, AmbiguousConfirm
<1>6. QED
  BY <1>1, <1>2, <1>3, <1>4, <1>5 DEF Controller

LEMMA NextArrivesToo ==
  ASSUME TypeOK, [Next]_vars, NEW l \in Lease
  PROVE  ArrivesToo(l)
<1>1. ASSUME NEW k \in Lease, k # l,
             Controller(k) \/ ControllerDies(k) \/ CancelOrphans(k) \/ Visit(k)
      PROVE  ctl'[l] = ctl[l]
  BY <1>1, ControllerElsewhere, ReaperElsewhere DEF Elsewhere
<1>2. QED
  BY <1>1, ControllerArrivesToo, ReaperElsewhere, SweepElsewhere
     DEF Next, ArrivesToo
-----------------------------------------------------------------------------
(* What is known of an attempt stays known. *)

LEMMA HandedFrom ==
  ASSUME TypeOK, [Next]_vars, NEW l \in Lease, ctl'[l].at \in Handed,
         ~Submit(l)
  PROVE  ctl[l].at \in Handed /\ ctl'[l].pod = ctl[l].pod
<1>1. Qualifies(l)
  BY NextQualifies
<1>2. /\ ctl'[l].pod = ctl[l].pod
      /\ \/ ctl'[l].at = ctl[l].at
         \/ RecordCreated(l) \/ RecordFails(l) \/ ObserveCreated(l)
         \/ BindInventory(l) \/ Attest(l)
  BY <1>1 DEF Qualifies
<1>3. QED
  BY <1>2 DEF RecordCreated, RecordFails, ObserveCreated, BindInventory, Attest,
              Handed, Qualifying

LEMMA NextKnown ==
  ASSUME TypeOK, Consistent, Secured, Started, Unposted, Known, [Next]_vars
  PROVE  Known'
<1> SUFFICES ASSUME NEW l \in Lease
             PROVE  /\ ctl'[l].at \in Handed => \E p \in Pod : ctl'[l].pod = {p}
                    /\ ctl'[l].at = "sent" /\ ctl'[l].ref
                         => lease'[l].st = "CREATING"
                    /\ attempt'[l].phase \in Binding \cup {"RECONCILED"}
                         => attempt'[l].bound # {}
                    /\ attempt'[l].phase = "RESERVED"
                         => /\ Own(l)' = {}
                            /\ ctl'[l].at \notin {"creating", "intent"}
  BY DEF Known
<1>1. Arrives(l) /\ Pays(l) /\ Qualifies(l) /\ BindsIds(l)
  BY NextArrives, NextPays, NextQualifies, NextBinds
<1>2. ASSUME ctl'[l].at \in Handed
      PROVE  \E p \in Pod : ctl'[l].pod = {p}
  <2>1. CASE Submit(l)
    <3>1. ctl'[l].at = "sent"
      BY <1>2, <2>1, SubmitIs DEF Handed, Qualifying
    <3>2. ctl[l].at = "intent"
      BY <2>1, SubmitIs
    <3>3. QED
      BY <1>1, <3>1, <3>2 DEF Qualifies, Handed
  <2>2. CASE ~Submit(l)
    BY <1>2, <2>2, HandedFrom DEF Known
  <2>3. QED
    BY <2>1, <2>2
<1>3. ASSUME ctl'[l].at = "sent", ctl'[l].ref
      PROVE  lease'[l].st = "CREATING"
  <2>1. CASE Submit(l)
    BY <2>1, SubmitIs
  <2>2. CASE ctl[l].at = "sent" /\ ctl[l].ref /\ lease'[l] = lease[l]
    BY <2>2 DEF Known
  <2>3. QED
    BY <1>1, <1>3, <2>1, <2>2 DEF Qualifies, Handed
<1>4. ASSUME attempt'[l].phase \in Binding \cup {"RECONCILED"}
      PROVE  attempt'[l].bound # {}
  <2>1. CASE attempt'[l] = attempt[l]
    BY <1>4, <2>1 DEF Known
  <2>2. CASE attempt[l].phase \in Binding /\ attempt'[l].bound = attempt[l].bound
    BY <2>2 DEF Known
  <2>3. CASE BindReturnedId(l) \/ BindDelta(l)
    <3>1. ctl[l].pod # {}
      BY <2>3 DEF BindReturnedId, BindDelta, Known, Handed, Qualifying
    <3>2. QED
      BY <1>1, <1>4, <3>1, <2>1, <2>2 DEF BindsIds
  <2>4. QED
    BY <1>1, <1>4, <2>1, <2>2, <2>3 DEF BindsIds
<1>5. ASSUME attempt'[l].phase = "RESERVED"
      PROVE  Own(l)' = {} /\ ctl'[l].at \notin {"creating", "intent"}
  <2>1. CASE Reserve(l)
    <3>1. Own(l) = {} /\ Own(l)' = Own(l)
      BY <2>1 DEF Reserve, Unposted, MayPost, Early, provider, Own
    <3>2. ctl'[l].at = "reserved"
      BY <2>1, MovesTo DEF Reserve
    <3>3. QED
      BY <3>1, <3>2
  <2>2. CASE attempt'[l] = attempt[l]
    <3>1. Own(l) = {} /\ ctl[l].at \notin {"creating", "intent"}
      BY <1>5, <2>2 DEF Known
    <3>2. Own(l)' = {}
      BY <3>1, NextPods, SubmitIs DEF Secured, Quiet
    <3>3. ~MarkCreating(l)
      <4>1. MarkCreating(l) => attempt'[l].phase = "CREATING"
        BY AttemptIs, PaymentsAre DEF MarkCreating, TypeOK
      <4>2. QED
        BY <1>5, <4>1
    <3>4. QED
      BY <1>1, <3>1, <3>2, <3>3 DEF Arrives, PostIntent
  <2>3. QED
    BY <1>1, <1>5, <2>1, <2>2 DEF Pays, Binding
<1>6. QED
  BY <1>2, <1>3, <1>4, <1>5

-----------------------------------------------------------------------------
(* An attempt whose reservation was cancelled never gets a pod. *)

(* The reaper may expire the create: nothing bills, no listing it works on  *)
(* shows a pod of it, and its copy is the record.                           *)
Expirable(l) ==
  /\ rref[l] /\ lease[l].st = "CREATING" /\ lease[l].closedOnce
  /\ Over(l) /\ Own(l) \cap seen.ids = {}

(* No id was ever written down for it, and nobody is left to write one: the *)
(* controller's reference is stale and the reaper has seen none.            *)
Void(l) ==
  /\ lease[l].ids = {}
  /\ lease[l].st # "TERMINAL" =>
       /\ Over(l)
       /\ lease[l].st = "CREATING" => lease[l].closedOnce
       /\ rref[l] /\ lease[l].st = "CREATING" /\ Ahead(l)
            => Own(l) \cap seen.ids = {}

Voided ==
  \A l \in Lease :
    /\ lease[l].closedOnce /\ lease[l].st = "CREATING" => ~ctl[l].ref
    /\ lease[l].cancelling
         => lease[l].st \in {"PREPARED", "TERMINAL"} /\ lease[l].ids = {}
    /\ ctl[l].at = "release" => lease[l].st = "TERMINAL" /\ lease[l].ids = {}
    /\ sweep.cur = l /\ sweep.step \in Expiring => Expirable(l)
    /\ attempt[l].phase = "CANCELLED_BEFORE_CREATE" => Void(l)

(* The reaper that finds a create expired sees no pod of it. *)
LEMMA ExpiredIs ==
  ASSUME TypeOK, Consistent, Started, Fresh, NEW l \in Lease, VisitExpired(l)
  PROVE  /\ rref[l] /\ lease[l].st = "CREATING" /\ lease[l].closedOnce
         /\ Own(l) \cap seen.ids = {}
<1>1. /\ docs[l].st = "CREATING" /\ rref[l] /\ LostByReaper(l) = "expired"
  BY DEF VisitExpired, Visiting
<1>2. /\ docs[l].closedOnce
      /\ (seen.ids \ docs[l].pre) \cap Own(l) = {}
  <2>1. PICK r, listing, own, answered, known, rejected, closed, aged :
          /\ r = docs[l] /\ listing = seen.ids /\ own = Own(l)
          /\ answered = AnsweredOnlyInLedger(l) /\ known = {}
          /\ rejected = FALSE /\ closed = (asof[l].win # "open")
          /\ aged = (asof[l].win = "expired")
    OBVIOUS
  <2> DEFINE outcome == Rec!LostOutcome(r, listing, own, answered, known,
                                        rejected, closed, aged)
  <2>2. r \in Rec!Leases
    BY <2>1 DEF TypeOK
  <2>3. outcome = LostByReaper(l)
    BY <2>1 DEF LostByReaper
  <2>4. outcome = "expired" => /\ r.closedOnce
                               /\ Rec!LostCandidates(r, listing, own, answered) = {}
    BY <2>2, LostWrites
  <2> HIDE DEF outcome
  <2>5. QED
    BY <1>1, <2>1, <2>3, <2>4 DEF Rec!LostCandidates
<1>3. docs[l].pre \cap Own(l) = {}
  BY <1>1 DEF Started, Former, Follows, Fresh
<1>4. docs[l] = lease[l]
  BY <1>1 DEF Consistent, ReaperRefs
<1>5. QED
  BY <1>1, <1>2, <1>3, <1>4

LEMMA ByReaperIds ==
  ASSUME TypeOK, NEW l \in Lease
  PROVE  ByReaper(l).ids \subseteq docs[l].ids \cup (Own(l) \cap seen.ids)
                                    \cup AnsweredOnlyInLedger(l)
<1>1. PICK r, listing, own, answered, known, closed, outcome :
        /\ r = docs[l] /\ listing = seen.ids /\ own = Own(l)
        /\ answered = AnsweredOnlyInLedger(l) /\ known = {}
        /\ closed = (asof[l].win # "open") /\ outcome = LostByReaper(l)
  OBVIOUS
<1>2. r \in Rec!Leases
  BY <1>1 DEF TypeOK
<1>3. Rec!LostCandidates(r, listing, own, answered)
        \subseteq (own \cap listing) \cup answered
  BY DEF Rec!LostCandidates
<1>4. outcome \in {"one", "ambiguous", "rejected", "expired", "zero"}
  <2>1. PICK rejected, aged, shut :
          outcome = Rec!LostOutcome(r, listing, own, answered, known, rejected,
                                    shut, aged)
    BY <1>1 DEF LostByReaper
  <2>2. QED
    BY <2>1, LostOutcomes
<1>5. Rec!LostReconciled(r, listing, own, answered, known, closed, outcome).ids
        \subseteq r.ids \cup (own \cap listing) \cup answered
  BY <1>2, <1>3, <1>4 DEF Rec!LostReconciled, Rec!Ambiguous, Rec!Leases
<1>6. ByReaper(l) = Rec!LostReconciled(r, listing, own, answered, known, closed,
                                       outcome)
  BY <1>1 DEF ByReaper
<1>7. QED
  BY <1>1, <1>5, <1>6

LEMMA VoidStays ==
  ASSUME TypeOK, Consistent, Secured, Started, Unposted, Known, Voided,
         [Next]_vars, NEW l \in Lease, Void(l), attempt[l].bound = {}
  PROVE  Void(l)'
<1>0. TypeOK' /\ Consistent'
  BY NextType, NextConsistent
<1>r. lease[l] \in Rec!Leases
  BY DEF TypeOK
<1>1. CASE lease[l].st = "TERMINAL"
  BY <1>1, TerminalStays DEF Void
<1>2. CASE lease[l].st # "TERMINAL"
  <2>1. Over(l) /\ ~MayPost(l) /\ Unbilled(l) /\ ~Submit(l) /\ Over(l)'
    BY <1>2, OverStays, SubmitIs DEF Void, Over, Secured
  <2>2. lease'[l].ids = {}
    <3>1. CASE lease[l].st = "CREATING"
      <4>1. ~ctl[l].ref
        BY <1>2, <3>1 DEF Void, Voided
      <4>2. CASE VisitCreating(l) /\ rref[l] /\ docs[l] = lease[l]
                 /\ lease'[l] = ByReaper(l)
        <5>1. Ahead(l)
          BY <4>2 DEF VisitCreating, Visiting, Ahead, Unlisted, Orphaned
        <5>2. Own(l) \cap seen.ids = {}
          BY <1>2, <3>1, <4>2, <5>1 DEF Void
        <5>3. QED
          BY <4>2, <5>2, ByReaperIds DEF Void, AnsweredOnlyInLedger
      <4>3. QED
        BY <3>1, <4>1, <4>2, NextNames DEF Names, Same, Void
    <3>2. CASE lease[l].st = "ACTIVE"
      BY <3>2 DEF Void, Consistent, Recorded, Rec!Valid
    <3>3. QED
      BY <3>1, <3>2, IdsStay DEF Void
  <2>3. ASSUME lease'[l].st = "CREATING"
        PROVE  /\ lease[l].st = "CREATING" /\ lease'[l].closedOnce
    BY <1>2, <2>1, <2>3, BecomesCreating, NextFollows DEF Void, Follows
  <2>4. ASSUME rref'[l], lease'[l].st = "CREATING", Ahead(l)'
        PROVE  Own(l)' \cap seen'.ids = {}
    <3>1. Quiet(l)
      BY <2>1, NextPods DEF Secured
    <3>2. rref[l] /\ lease[l].st = "CREATING"
      BY <2>3, <2>4, RrefMoves DEF Ahead, Unlisted
    <3>3. CASE SweepList
      <4>1. seen'.ids = Listed
        BY <3>3 DEF SweepList
      <4>2. QED
        BY <2>1, <3>1, <4>1 DEF Quiet, Unbilled, Listed, Billed
    <3>4. CASE Ahead(l) /\ seen'.ids = seen.ids
      BY <1>2, <3>1, <3>2, <3>4 DEF Void, Quiet
    <3>5. QED
      BY <2>4, <3>3, <3>4, AtHandNone, NextHandles DEF Started, Remembers
  <2>5. QED
    BY <2>1, <2>2, <2>3, <2>4 DEF Void
<1>3. QED
  BY <1>1, <1>2

LEMMA ReleasedVoid ==
  ASSUME TypeOK, Consistent, Secured, Started, Unposted, Known, Voided,
         [Next]_vars, NEW l \in Lease, attempt'[l] # attempt[l],
         attempt'[l].phase = "CANCELLED_BEFORE_CREATE"
  PROVE  Void(l) /\ attempt[l].bound = {}
<1>1. /\ CancelLedger(l) \/ OrphanLedger(l) \/ ReleaseRejected(l)
         \/ ReleaseExpired(l)
      /\ attempt[l].bound = {}
  BY NextPays DEF Pays, Binding
<1>2. CASE CancelLedger(l) \/ OrphanLedger(l)
  <2>1. lease[l].cancelling
    BY <1>2, ExpiringIs
       DEF CancelLedger, OrphanLedger, Unposted, Started, AtHand, Orphaned
  <2>2. Over(l)
    BY <2>1, CancellingOver
  <2>3. QED
    BY <1>1, <2>1, <2>2 DEF Voided, Void
<1>3. CASE ReleaseRejected(l)
  BY <1>1, <1>3 DEF ReleaseRejected, Voided, Void
<1>4. CASE ReleaseExpired(l)
  <2>1. Expirable(l)
    BY <1>4 DEF ReleaseExpired, Voided, Expiring
  <2>2. lease[l].ids = {}
    BY <2>1 DEF Expirable, Consistent, Recorded, Rec!Valid
  <2>3. QED
    BY <1>1, <2>1, <2>2 DEF Expirable, Void
<1>5. QED
  BY <1>1, <1>2, <1>3, <1>4

LEMMA NextVoided ==
  ASSUME TypeOK, Consistent, Secured, Started, Unposted, Fresh, SeenAll, Known,
         Voided, [Next]_vars
  PROVE  Voided'
<1>0. TypeOK' /\ Consistent' /\ AtHand'
  BY NextType, NextConsistent, NextAtHand DEF Started
<1> SUFFICES ASSUME NEW l \in Lease
             PROVE  /\ lease'[l].closedOnce /\ lease'[l].st = "CREATING"
                         => ~ctl'[l].ref
                    /\ lease'[l].cancelling
                         => /\ lease'[l].st \in {"PREPARED", "TERMINAL"}
                            /\ lease'[l].ids = {}
                    /\ ctl'[l].at = "release"
                         => lease'[l].st = "TERMINAL" /\ lease'[l].ids = {}
                    /\ sweep'.cur = l /\ sweep'.step \in Expiring
                         => Expirable(l)'
                    /\ attempt'[l].phase = "CANCELLED_BEFORE_CREATE" => Void(l)'
  BY DEF Voided
<1>1. ASSUME lease'[l].closedOnce, lease'[l].st = "CREATING"
      PROVE  ~ctl'[l].ref
  <2>1. CASE ~lease[l].closedOnce
    BY <1>1, <2>1, NextClosedOnce
  <2>2. CASE lease[l].closedOnce
    <3>1. lease[l].st = "CREATING"
      BY <1>1, <2>2, BecomesCreating DEF Unposted
    <3>2. ~ctl[l].ref /\ lease[l].ids = {}
      BY <2>2, <3>1 DEF Voided, Consistent, Recorded, Rec!Valid
    <3>3. ~BeginCreate(l)
      BY <3>1 DEF BeginCreate, Consistent, NotBegun
    <3>4. QED
      BY <3>2, <3>3, RefMoves
  <2>3. QED
    BY <2>1, <2>2
<1>2. ASSUME lease'[l].cancelling
      PROVE  lease'[l].st \in {"PREPARED", "TERMINAL"} /\ lease'[l].ids = {}
  <2>1. /\ lease[l].st \in {"PREPARED", "TERMINAL"} /\ lease[l].ids = {}
        /\ ~MayPost(l)
    <3>1. CASE lease[l].cancelling
      BY <3>1 DEF Voided, Unposted
    <3>2. CASE ~lease[l].cancelling
      <4>1. lease[l].st = "PREPARED" /\ ~MayPost(l)
        BY <1>2, <3>2, NextCancelling
      <4>2. QED
        BY <4>1 DEF Consistent, Recorded, Rec!Valid
    <3>3. QED
      BY <3>1, <3>2
  <2>2. lease'[l].ids = {}
    BY <2>1, IdsStay
  <2>3. lease'[l].st # "CREATING"
    BY <2>1, BecomesCreating
  <2>4. lease'[l].st \in {"PREPARED", "CREATING", "TERMINAL"}
    <3>1. CASE BeginCreate(l)
      BY <2>1, <3>1 DEF BeginCreate, Consistent, NotBegun
    <3>2. QED
      BY <2>1, <3>1, NextChanges DEF Changes, Rec!Allowed
  <2>5. QED
    BY <2>2, <2>3, <2>4
<1>3. ASSUME ctl'[l].at = "release"
      PROVE  lease'[l].st = "TERMINAL" /\ lease'[l].ids = {}
  <2>1. lease[l].st = "TERMINAL" /\ lease[l].ids = {}
    BY <1>3, NextArrivesToo DEF ArrivesToo, Voided
  <2>2. QED
    BY <2>1, TerminalStays
<1>4. ASSUME sweep'.cur = l, sweep'.step \in Expiring
      PROVE  Expirable(l)'
  <2>1. Expirable(l)
    <3>1. CASE VisitExpired(l)
      BY <3>1, ExpiredIs, ExpiredOver DEF Expirable
    <3>2. CASE ~VisitExpired(l)
      <4>1. \/ sweep.cur = l /\ sweep.step \in Expiring
            \/ ReleaseExpired(l)
        BY <1>4, <3>2, AtHandNone, NextHandles DEF Started, Handles, Expiring
      <4>2. QED
        BY <4>1 DEF ReleaseExpired, Expiring, Voided
    <3>3. QED
      BY <3>1, <3>2
  <2>2. docs'[l].st = "CREATING"
    BY <1>0, <1>4 DEF AtHand
  <2>3. ~ctl[l].ref
    BY <2>1 DEF Expirable, Voided
  <2>4. rref'[l]
    BY <2>1, <2>2, <2>3, RrefMoves DEF Expirable, Rec!Unborn
  <2>5. lease'[l].st = "CREATING"
    BY <1>0, <2>2, <2>4 DEF Consistent, ReaperRefs
  <2>6. lease'[l].closedOnce
    BY <2>1, NextFollows DEF Expirable, Follows
  <2>7. Over(l)' /\ Quiet(l)
    BY <2>1, OverStays, NextPods, SubmitIs DEF Expirable, Secured, Over
  <2>8. seen'.ids = seen.ids
    <3>1. Remembers(l)
      BY AtHandNone, NextHandles DEF Started
    <3>2. ~SweepList
      BY <1>4, SweepIs DEF SweepList, Go, Expiring
    <3>3. QED
      BY <1>4, <3>1, <3>2 DEF Remembers, Ahead, Expiring, Unlisted, Orphaned
  <2>9. QED
    BY <2>1, <2>4, <2>5, <2>6, <2>7, <2>8 DEF Expirable, Quiet
<1>5. ASSUME attempt'[l].phase = "CANCELLED_BEFORE_CREATE"
      PROVE  Void(l)'
  <2>1. Void(l) /\ attempt[l].bound = {}
    <3>1. CASE attempt'[l] # attempt[l]
      BY <1>5, <3>1, ReleasedVoid
    <3>2. CASE attempt'[l] = attempt[l]
      BY <1>5, <3>2 DEF Voided, Started, Begun, Binding
    <3>3. QED
      BY <3>1, <3>2
  <2>2. QED
    BY <2>1, VoidStays
<1>6. QED
  BY <1>1, <1>2, <1>3, <1>4, <1>5

-----------------------------------------------------------------------------
(* On a disk that never refuses, an acknowledged id is in the lease first.  *)

(* Named ids are only added to by the inventory after the create. *)
LEMMA NamedStays ==
  ASSUME TypeOK, Consistent, Known, [Next]_vars, NEW l \in Lease,
         lease[l].ids # {}
  PROVE  /\ lease'[l].ids # {}
         /\ ~BindInventory(l) => lease'[l].ids = lease[l].ids
<1>1. lease[l].st # "CREATING"
  BY DEF Consistent, Recorded, Rec!Valid
<1>2. ~(RecordCreated(l) /\ ctl[l].ref)
  BY <1>1 DEF RecordCreated, Known
<1>3. ~(VisitCreating(l) /\ docs[l] = lease[l])
  BY <1>1 DEF VisitCreating, Visiting
<1>4. QED
  BY <1>1, <1>2, <1>3, NextNames DEF Names, Same

LEMMA StagedIsLate ==
  ASSUME Secured, NEW l \in Lease, lease[l].staged \/ docs[l].staged
  PROVE  lease[l].st \in Late
  BY DEF Secured, AgedVisible, Visible

LEMMA NextAcknowledged ==
  ASSUME ~DiskFaults, TypeOK, Consistent, Secured, Started, Known, Acknowledged,
         [Next]_vars
  PROVE  Acknowledged'
<1>0. Begun'
  BY NextBegun DEF Started
<1> SUFFICES ASSUME NEW l \in Lease
             PROVE  /\ ctl'[l].at # "unrecorded"
                    /\ ctl'[l].at \in Qualifying =>
                         /\ lease'[l].ids = ctl'[l].pod
                         /\ attempt'[l].bound = {} \/ lease'[l].st \in Late
                    /\ ctl'[l].at = "delta" => lease'[l].ids # {}
                    /\ attempt'[l].bound # {} => attempt'[l].bound = lease'[l].ids
                    /\ docs'[l].st \in Late \/ docs'[l].staged
                         => docs'[l].ids = lease'[l].ids
  BY DEF Acknowledged
<1>1. Qualifies(l) /\ Pays(l) /\ BindsIds(l)
  BY NextQualifies, NextPays, NextBinds
<1>2. ctl'[l].at # "unrecorded"
  BY <1>1 DEF Qualifies, Handed, Acknowledged, RecordFails
<1>3. lease[l].st \in Late => lease'[l].st \in Late
  BY NextFollows DEF Follows, Late
<1>r. lease[l].st = "CREATING" => lease[l].ids = {}
  BY DEF Consistent, Recorded, Rec!Valid
<1>4. ASSUME ctl[l].at \in Qualifying
      PROVE  lease[l].ids # {} /\ lease[l].ids = ctl[l].pod
             /\ \E p \in Pod : ctl[l].pod = {p}
  BY <1>4 DEF Acknowledged, Known, Handed
<1>5. ReapFinalize(l) => docs[l].staged
  BY DEF ReapFinalize, Secured, ReaperCloses
<1>6. ASSUME ctl'[l].at \in Qualifying
      PROVE  /\ lease'[l].ids = ctl'[l].pod
             /\ attempt'[l].bound = {} \/ lease'[l].st \in Late
  <2>1. CASE ctl'[l].at = ctl[l].at /\ ctl'[l].pod = ctl[l].pod /\ ~Controller(l)
    <3>1. ~BindInventory(l)
      BY <2>1 DEF Controller, Qualify
    <3>2. lease'[l].ids = ctl'[l].pod
      BY <1>4, <1>6, <2>1, <3>1, NamedStays
    <3>3. attempt'[l].bound = attempt[l].bound \/ ReapFinalize(l)
      BY <1>1, <2>1 DEF Pays, Controller, BeforePost, Post, AfterLoss, Qualify,
                        TearDown
    <3>4. attempt'[l].bound = attempt[l].bound \/ lease'[l].st \in Late
      BY <1>3, <1>5, <3>3, StagedIsLate
    <3>5. QED
      BY <1>3, <1>6, <2>1, <3>2, <3>4 DEF Acknowledged
  <2>2. CASE RecordCreated(l)
    <3>1. PICK p \in ctl[l].pod : /\ ctl[l].ref
                                  /\ lease'[l] = Rec!CreateSuccess(lease[l], p)
      BY <2>2, CommitIs DEF RecordCreated, CanWriteC
    <3>2. ctl[l].at = "sent" /\ ctl[l].pod = {p} /\ ctl'[l].pod = ctl[l].pod
      BY <2>2, <3>1, HandedFrom, <1>6, SubmitIs
         DEF RecordCreated, Known, Handed, Qualifying
    <3>3. lease'[l].ids = {p}
      BY <3>1 DEF Rec!CreateSuccess, TypeOK, Rec!Leases
    <3>4. attempt[l].bound = {} /\ attempt'[l] = attempt[l]
      BY <1>r, <2>2, <3>1, <3>2 DEF Acknowledged, Known, RecordCreated
    <3>5. QED
      BY <3>2, <3>3, <3>4
  <2>3. CASE /\ ctl[l].at \in Qualifying /\ ctl'[l].pod = ctl[l].pod
             /\ attempt'[l] = attempt[l] /\ lease'[l] = lease[l]
    BY <2>3 DEF Acknowledged
  <2>4. CASE Attest(l)
    <3>1. lease'[l] = lease[l]
      BY <2>4, CommitIs DEF Attest
    <3>2. QED
      BY <1>1, <1>6, <2>1, <2>3, <2>4, <3>1 DEF Attest, Qualifies, Qualifying, Handed
  <2>5. CASE ObserveCreated(l)
    BY <1>1, <1>6, <2>1, <2>3, <2>5 DEF ObserveCreated, Qualifies, Qualifying, Handed,
       store
  <2>6. CASE BindInventory(l)
    <3>1. /\ ctl[l].at = "postLook" /\ UNCHANGED attempt
          /\ ~RecordCreated(l) /\ ~ObserveCreated(l) /\ ~Attest(l) /\ ~Submit(l)
      BY <2>6 DEF BindInventory, RecordCreated, ObserveCreated, Attest, Submit,
                  MaySubmit
    <3>2. \/ ctl'[l].at = ctl[l].at /\ ctl'[l].pod = ctl[l].pod /\ ~Controller(l)
          \/ lease'[l] = lease[l] /\ ctl'[l].pod = ctl[l].pod
      BY <1>1, <1>6, <3>1 DEF Qualifies, Qualifying, Handed
    <3>3. QED
      BY <2>1, <2>3, <3>1, <3>2 DEF Qualifying
  <2>7. QED
    BY <1>1, <1>6, <2>1, <2>2, <2>4, <2>5, <2>6 DEF Qualifies, Qualifying, Handed
<1>7. ASSUME ctl'[l].at = "delta"
      PROVE  lease'[l].ids # {}
  <2>1. ctl[l].at = "delta" \/ BindInventory(l)
    BY <1>1, <1>7 DEF Qualifies, Handed
  <2>2. lease[l].ids # {}
    BY <1>4, <2>1 DEF Acknowledged, BindInventory, Qualifying
  <2>3. QED
    BY <2>2, NamedStays
<1>8. ASSUME attempt'[l].bound # {}
      PROVE  attempt'[l].bound = lease'[l].ids
  <2>1. CASE attempt'[l].bound = attempt[l].bound
    <3>1. lease[l].ids # {} /\ attempt[l].bound = lease[l].ids
      BY <1>8, <2>1 DEF Acknowledged
    <3>2. CASE BindInventory(l)
      <4>1. ctl[l].at \in Qualifying
        BY <3>2 DEF BindInventory, Qualifying
      <4>2. lease[l].st \in Late
        BY <1>8, <2>1, <4>1 DEF Acknowledged
      <4>3. QED
        BY <2>1, <3>1, <4>2, IdsStay DEF Late
    <3>3. QED
      BY <2>1, <3>1, <3>2, NamedStays
  <2>2. CASE attempt'[l].bound # attempt[l].bound
    <3>1. attempt'[l].phase \in Binding \cup {"RECONCILED"}
      BY <1>0, <1>8 DEF Begun
    <3>2. lease'[l] = lease[l]
      BY <1>1, <2>2, <3>1 DEF BindsIds
    <3>3. CASE BindDelta(l)
      <4>1. ctl[l].at \in Qualifying \cup {"delta"}
        BY <3>3 DEF BindDelta, Qualifying
      <4>2. lease[l].ids # {}
        BY <1>4, <4>1 DEF Acknowledged
      <4>3. ~BindQuote(l) /\ ~BindReturnedId(l)
        BY <3>3 DEF BindDelta, BindQuote, BindReturnedId
      <4>4. CASE ReapFinalize(l) /\ attempt'[l].bound = docs[l].ids
        BY <1>5, <3>2, <4>4 DEF Acknowledged
      <4>5. QED
        BY <1>1, <2>2, <3>1, <3>2, <4>2, <4>3, <4>4 DEF BindsIds
    <3>4. CASE BindQuote(l) /\ \E p \in ctl[l].pod : attempt'[l].bound = {p}
      <4>1. ctl[l].at \in Qualifying
        BY <3>4 DEF BindQuote, Qualifying
      <4>2. QED
        BY <1>4, <3>2, <3>4, <4>1
    <3>5. CASE ReapFinalize(l) /\ attempt'[l].bound = docs[l].ids
      BY <1>5, <3>2, <3>5 DEF Acknowledged
    <3>6. ~BindReturnedId(l)
      BY DEF BindReturnedId, Acknowledged
    <3>7. QED
      BY <1>1, <2>2, <3>1, <3>2, <3>3, <3>4, <3>5, <3>6 DEF BindsIds
  <2>3. QED
    BY <2>1, <2>2
<1>9. ASSUME docs'[l].st \in Late \/ docs'[l].staged
      PROVE  docs'[l].ids = lease'[l].ids
  <2>1. docs'[l] \in {docs[l], Rec!Unborn, lease[l], lease'[l]}
    BY NextCopies DEF Copies
  <2>2. docs'[l] # Rec!Unborn
    BY <1>9 DEF Late, Rec!Unborn
  <2>3. CASE docs'[l] \in {docs[l], lease[l]}
    <3>1. lease[l].st \in Late
      BY <1>9, <2>3, StagedIsLate DEF Started, Former, Follows, Late
    <3>2. lease'[l].ids = lease[l].ids
      BY <3>1, IdsStay DEF Late
    <3>3. QED
      BY <1>9, <2>3, <3>2 DEF Acknowledged
  <2>4. QED
    BY <2>1, <2>2, <2>3
<1>10. QED
  BY <1>2, <1>6, <1>7, <1>8, <1>9

-----------------------------------------------------------------------------
(* The ledger can follow the lease to its end. *)

(* What every attempt leaves behind, whatever a POST creates. *)
Traced == TypeOK /\ Consistent /\ Secured /\ Started
          /\ Unposted /\ Fresh /\ Expired /\ SeenAll /\ Known

(* Ledger and lease name the same pods: because a pod is named in the lease *)
(* first, or because there is but one to name.                              *)
Tied == /\ ~DiskFaults => Acknowledged
        /\ OnePodPerPost => OnePod

LEMMA InitTraced == Init => Traced /\ Tied /\ Voided /\ Acknowledged
<1>1. SUFFICES ASSUME Init PROVE Traced /\ Tied /\ Voided /\ Acknowledged
  OBVIOUS
<1>2. /\ Rec!Unborn.st = "NONE" /\ Rec!Unborn.ids = {} /\ ~Rec!Unborn.cancelling
      /\ ~Rec!Unborn.closedOnce /\ ~Rec!Unborn.staged
      /\ Att!Unreserved.phase = "NONE" /\ Att!Unreserved.bound = {}
  BY DEF Rec!Unborn, Att!Unreserved
<1>3. \A l \in Lease : /\ lease[l] = Rec!Unborn /\ attempt[l] = Att!Unreserved
                       /\ docs[l] = Rec!Unborn /\ ctl[l].at = "idle"
  BY <1>1 DEF Init, NoDocs
<1>4. sweep.step = "idle"
  BY <1>1 DEF Init, Idle
<1>5. Known /\ Acknowledged
  BY <1>2, <1>3 DEF Known, Acknowledged, Handed, Qualifying, Binding, Late
<1>6. Voided
  BY <1>2, <1>3, <1>4 DEF Voided, Expiring
<1>7. TypeOK /\ Consistent /\ Secured /\ Started /\ Covered
  BY <1>1, InitType, InitConsistent, InitSecured, InitStarted, InitCovered
<1>8. QED
  BY <1>5, <1>6, <1>7 DEF Traced, Tied, Covered

LEMMA NextTraced ==
  ASSUME Punctual, Traced, [Next]_vars
  PROVE  Traced'
<1>1. (TypeOK /\ Consistent /\ Secured /\ Started)'
  BY NextType, NextConsistent, NextSecured, NextStarted DEF Traced
<1>2. (Unposted /\ Fresh /\ Expired /\ SeenAll /\ Known)'
  BY NextUnposted, NextFresh, NextExpired, NextSeenAll, NextKnown DEF Traced
<1>3. QED
  BY <1>1, <1>2 DEF Traced

LEMMA NextTied ==
  ASSUME Traced, Tied, [Next]_vars
  PROVE  Tied'
  BY NextAcknowledged, NextOnePod DEF Traced, Tied

LEMMA ProjectableIs ==
  ASSUME OnePodPerPost \/ ~DiskFaults, Traced, Tied, Voided
  PROVE  Projectable
<1> SUFFICES ASSUME NEW l \in Lease, lease[l].st = "ABSENCE_CONFIRMED"
             PROVE  Att!MayProject(attempt[l], lease[l].ids)
  BY DEF Projectable
<1>1. lease[l].ids # {} /\ lease[l].ids \subseteq Own(l)
  BY DEF Traced, Consistent, Recorded, Rec!Valid, Secured, Owned
<1>2. CASE attempt[l].bound = {}
  <2>1. attempt[l].phase \in {"NONE", "RESERVED", "CREATING",
                              "CANCELLED_BEFORE_CREATE"}
    BY <1>2 DEF Traced, Known, TypeOK, Att!Attempts, Att!Phases, Binding
  <2>2. attempt[l].phase \notin {"NONE", "RESERVED"}
    BY <1>1 DEF Traced, Unposted, Known
  <2>3. attempt[l].phase # "CANCELLED_BEFORE_CREATE"
    BY <1>1 DEF Voided, Void
  <2>4. QED
    BY <1>2, <2>1, <2>2, <2>3 DEF Att!MayProject
<1>3. CASE attempt[l].bound # {}
  <2>1. CASE ~DiskFaults
    BY <1>3, <2>1 DEF Tied, Acknowledged, Att!MayProject
  <2>2. CASE OnePodPerPost
    <3>1. attempt[l].bound \subseteq Own(l)
      BY DEF Traced, Secured, Owned
    <3>2. \A p, q \in Own(l) : p = q
      BY <2>2 DEF Tied, OnePod
    <3>3. attempt[l].bound = lease[l].ids
      BY <1>1, <1>3, <3>1, <3>2
    <3>4. QED
      BY <1>3, <3>3 DEF Att!MayProject
  <2>3. QED
    BY <2>1, <2>2
<1>4. QED
  BY <1>2, <1>3

(* When the pods of an attempt are proven absent the ledger can take its    *)
(* terminal projection: no reservation is cancelled while an id of it can   *)
(* still turn up, and an id bound in the ledger is one the lease names.     *)
THEOREM AbsentIsProjectable ==
  ASSUME Punctual, OnePodPerPost \/ ~DiskFaults
  PROVE  Spec => []Projectable
<1>1. Init => Traced /\ Tied /\ Voided
  BY InitTraced
<1>2. Traced /\ Tied /\ Voided /\ [Next]_vars => (Traced /\ Tied /\ Voided)'
  BY NextTraced, NextTied, NextVoided DEF Traced
<1>3. Traced /\ Tied /\ Voided => Projectable
  BY ProjectableIs
<1>4. QED
  BY <1>1, <1>2, <1>3, PTL DEF Spec

-----------------------------------------------------------------------------
(* Without lag and on a disk that never refuses, a listing shows all there  *)
(* is of the attempt it is taken for.                                       *)

Full ==
  \A l \in Lease :
    /\ ctl[l].at \in {"confirmLook", "ambLook"}
         => \A p \in Own(l) : Billed(p) => p \in ctl[l].look
    /\ Ahead(l) => \A p \in docs[l].ids : Billed(p) => p \in seen.ids
    /\ sweep.cur = l /\ sweep.step = "confirm"
         => \A p \in docs[l].ids : Billed(p) => p \in seen.fresh

(* The ids of a copy the sweep works on are those it listed the account for.*)
LEMMA VisitCopies ==
  ASSUME TypeOK, NEW l \in Lease, Visit(l), Ahead(l)'
  PROVE  docs'[l].ids \subseteq docs[l].ids
         \/ (VisitCreating(l) /\ rref[l] /\ docs'[l] = ByReaper(l))
<1>t. /\ docs \in [Lease -> Rec!Leases] /\ docs[l] \in Rec!Leases
      /\ lease \in [Lease -> Rec!Leases]
  BY DEF TypeOK
<1>n. Rec!Unborn.ids = {}
  BY DEF Rec!Unborn
<1> USE DEF Forget, Fail, Done, Go, memory, CommitR
<1>1. CASE Pick(l) \/ VisitMoved(l) \/ VisitExpired(l) \/ ReleaseExpired(l)
           \/ VisitHeld(l) \/ VisitUnconfirmable(l) \/ VisitLive(l)
           \/ ReapDelete(l) \/ ReapRelist(l) \/ BillingPending(l)
           \/ ReapFinalize(l)
  <2>1. docs' = docs \/ docs' = [docs EXCEPT ![l] = Rec!Unborn]
    BY <1>1 DEF Pick, VisitMoved, VisitExpired, ReleaseExpired, VisitHeld,
         VisitUnconfirmable, VisitLive, ReapDelete, ReapRelist,
         BillingPending, ReapFinalize
  <2>2. QED
    BY <1>t, <1>n, <2>1
<1>2. CASE VisitRevoke(l) \/ VisitAmbiguous(l) \/ VisitDestroy(l)
           \/ ReapStage(l) \/ VisitNotListed(l) \/ ReapConfirm(l)
  <2>1. \E new : /\ \/ docs' = [docs EXCEPT ![l] = new]
                    \/ docs' = [docs EXCEPT ![l] = Rec!Unborn]
                 /\ \/ new \in {Rec!AbsenceRevoked(docs[l]),
                                Rec!RequestDestroy(docs[l]),
                                Rec!StageBilling(docs[l])}
                    \/ \E listing : new = Rec!AbsenceChecked(docs[l], listing)
    BY <1>2 DEF VisitRevoke, VisitAmbiguous, VisitDestroy, ReapStage,
         VisitNotListed, ReapAbsence, ReapWrite, ReapConfirm
  <2>2. PICK new : /\ \/ docs' = [docs EXCEPT ![l] = new]
                      \/ docs' = [docs EXCEPT ![l] = Rec!Unborn]
                   /\ \/ new \in {Rec!AbsenceRevoked(docs[l]),
                                  Rec!RequestDestroy(docs[l]),
                                  Rec!StageBilling(docs[l])}
                      \/ \E listing : new = Rec!AbsenceChecked(docs[l], listing)
    BY <2>1
  <2>3. new.ids = docs[l].ids
    BY <1>t, <2>2 DEF Rec!AbsenceRevoked, Rec!RequestDestroy, Rec!StageBilling,
           Rec!AbsenceChecked, Rec!Leases
  <2>4. QED
    BY <1>t, <1>n, <2>2, <2>3
<1>3. CASE VisitCreating(l)
  BY <1>3, <1>t, <1>n DEF VisitCreating, ReapWrite, CanWriteR
<1>4. CASE VisitWaiting(l) \/ CloseExpired(l) \/ ReapClose(l)
  BY <1>4, <1>t, <1>n DEF VisitWaiting, CloseExpired, ReapClose, ReapWriteLast
<1>5. QED
  BY <1>1, <1>2, <1>3, <1>4 DEF Visit

(* No step makes a pod of an attempt bill again. *)
LEMMA OwnStays ==
  ASSUME TypeOK, Secured, Unposted, [Next]_vars, NEW l \in Lease
  PROVE  \A p \in Own(l) : Billed(p)' => Billed(p)
<1>1. CASE Submit(l)
  BY <1>1, SubmitIs DEF Unposted
<1>2. QED
  BY <1>1, NextPods DEF Secured, Quiet

LEMMA ConfirmIs ==
  ASSUME TypeOK, NoneAtHand, [Next]_vars, sweep'.step = "confirm"
  PROVE  \/ UNCHANGED <<sweep, docs, seen>>
         \/ /\ UNCHANGED <<docs, pod, owner>> /\ seen'.fresh = Listed
            /\ \E l \in Lease : ReapRelist(l) /\ sweep'.cur = l
<1> USE SweepIs
<1>1. ASSUME NEW l \in Lease, Controller(l) \/ ControllerDies(l)
      PROVE  UNCHANGED <<sweep, docs, seen>>
  BY <1>1, ControllerElsewhere
<1>2. ASSUME NEW l \in Lease, CancelOrphans(l)
      PROVE  FALSE
  <2>1. sweep'.step \in {"list"} \cup Orphaned
    BY <1>2 DEF CancelOrphans, DeferPrepared, OrphanIntent, OrphanLedger,
           OrphanClose, Orphaned, TypeOK
  <2>2. QED
    BY <2>1 DEF Orphaned
<1>3. ASSUME NEW l \in Lease, Visit(l)
      PROVE  /\ UNCHANGED <<docs, pod, owner>> /\ seen'.fresh = Listed
             /\ ReapRelist(l) /\ sweep'.cur = l
  <2>1. CASE Pick(l) \/ VisitMoved(l) \/ VisitExpired(l) \/ ReleaseExpired(l)
             \/ VisitHeld(l) \/ VisitUnconfirmable(l) \/ VisitLive(l)
             \/ ReapDelete(l) \/ BillingPending(l) \/ ReapFinalize(l)
    <3>1. sweep'.step \in {"visit", "pick", "expire", "expireClose", "relist", "close"}
      BY <2>1 DEF Pick, VisitMoved, VisitExpired, ReleaseExpired, VisitHeld,
             VisitUnconfirmable, VisitLive, ReapDelete,
             BillingPending, ReapFinalize, Go, TypeOK
    <3>2. QED
      BY <3>1
  <2>2. CASE ReapRelist(l)
    BY <2>2 DEF ReapRelist, Go, memory, provider, TypeOK
  <2>3. CASE VisitRevoke(l) \/ VisitAmbiguous(l) \/ VisitDestroy(l)
             \/ ReapStage(l) \/ VisitNotListed(l) \/ VisitCreating(l)
    BY <2>3 DEF VisitRevoke, VisitAmbiguous, VisitDestroy, ReapStage,
           VisitNotListed, VisitCreating, ReapAbsence, ReapWrite
  <2>4. CASE VisitWaiting(l) \/ CloseExpired(l) \/ ReapClose(l) \/ ReapConfirm(l)
    BY <2>4 DEF VisitWaiting, CloseExpired, ReapClose, ReapConfirm, ReapWriteLast
  <2>5. QED
    BY <1>3, <2>1, <2>2, <2>3, <2>4 DEF Visit
<1>4. ~SweepBegin /\ ~SweepList /\ ~SweepOutage /\ ~SweepEnd /\ ~ReaperDies
  <2>1. SweepBegin => sweep'.step = "list"
    BY DEF SweepBegin
  <2>2. SweepList => sweep'.step = "pick"
    BY DEF SweepList, Go
  <2>3. SweepOutage => sweep'.step = "pick"
    BY DEF SweepOutage, TypeOK
  <2>4. SweepEnd \/ ReaperDies => sweep'.step = "idle"
    BY DEF SweepEnd, ReaperDies
  <2>5. QED
    BY <2>1, <2>2, <2>3, <2>4
<1>5. CASE Environment \/ UNCHANGED vars
  BY <1>5 DEF Environment, Appears, Exits, Vanishes, StrangerArrives, Provider,
         WindowCloses, WindowExpires, ReapDeadlinePasses, AbsenceAges, Tick,
         reaper, vars
<1>6. QED
  BY <1>1, <1>2, <1>3, <1>4, <1>5 DEF Next

(* The reaper's copy of a lease it has yet to deal with. *)
LEMMA CopyIs ==
  ASSUME TypeOK, NoneAtHand, [Next]_vars, NEW l \in Lease, Ahead(l)', ~Visit(l)
  PROVE  docs'[l] = docs[l] \/ docs'[l] = Rec!Unborn
<1>1. ASSUME NEW k \in Lease, Controller(k) \/ ControllerDies(k)
      PROVE  docs' = docs
  BY <1>1, ControllerElsewhere
<1>2. ASSUME NEW k \in Lease, CancelOrphans(k)
      PROVE  FALSE
  <2>1. sweep'.step \in {"list"} \cup Orphaned
    BY <1>2, SweepIs DEF CancelOrphans, DeferPrepared, OrphanIntent,
           OrphanLedger, OrphanClose, Orphaned, TypeOK
  <2>2. QED
    BY <2>1 DEF Ahead, Unlisted
<1>3. ASSUME NEW k \in Lease, k # l, Visit(k)
      PROVE  docs'[l] = docs[l]
  BY <1>3, ReaperElsewhere DEF Elsewhere
<1>4. ~SweepBegin /\ ~SweepEnd /\ ~ReaperDies
  <2>1. SweepBegin => sweep'.step = "list"
    BY DEF SweepBegin
  <2>2. SweepEnd \/ ReaperDies => sweep'.step = "idle"
    BY SweepIs DEF SweepEnd, ReaperDies
  <2>3. QED
    BY <2>1, <2>2 DEF Ahead, Unlisted
<1>5. CASE SweepList \/ SweepOutage \/ Environment \/ UNCHANGED vars
  BY <1>5 DEF SweepList, SweepOutage, Go, memory,
         Environment, Appears, Exits, Vanishes, StrangerArrives, Provider,
         WindowCloses, WindowExpires, ReapDeadlinePasses, AbsenceAges, Tick,
         reaper, vars
<1>6. QED
  BY <1>1, <1>2, <1>3, <1>4, <1>5 DEF Next

LEMMA NextFull ==
  ASSUME ~Lag, ~DiskFaults, Traced, Acknowledged, Full, [Next]_vars
  PROVE  Full'
<1> USE DEF Traced
<1>0. TypeOK' /\ Owned'
  BY NextType, NextSecured DEF Secured
<1>h. /\ NoneAtHand /\ \A p \in Pod : pod[p] # "hidden"
      /\ \A p \in Pod : Billed(p) => p \in Listed
  BY AtHandNone DEF Started, Expired, Billed, Listed
<1> SUFFICES ASSUME NEW l \in Lease
             PROVE  /\ ctl'[l].at \in {"confirmLook", "ambLook"}
                         => \A p \in Own(l)' : Billed(p)' => p \in ctl'[l].look
                    /\ Ahead(l)'
                         => \A p \in docs'[l].ids : Billed(p)' => p \in seen'.ids
                    /\ sweep'.cur = l /\ sweep'.step = "confirm"
                         => \A p \in docs'[l].ids : Billed(p)' => p \in seen'.fresh
  BY DEF Full
<1>o. /\ docs[l].ids \subseteq Own(l) /\ docs'[l].ids \subseteq Own(l)'
      /\ Own(l) \subseteq Pod
  BY <1>0 DEF Secured, Owned, Own
<1>1. ASSUME ctl'[l].at \in {"confirmLook", "ambLook"}
      PROVE  \A p \in Own(l)' : Billed(p)' => p \in ctl'[l].look
  <2>1. ~Submit(l)
    BY <1>1, SubmitIs
  <2>2. Quiet(l)
    BY <2>1, NextPods DEF Secured
  <2>3. CASE LookForAbsence(l)
    <3>1. ctl'[l].look = Listed
      BY <2>3 DEF LookForAbsence, Look, TypeOK, Controllers
    <3>2. QED
      BY <1>h, <1>o, <2>2, <3>1 DEF Quiet
  <2>4. CASE ctl'[l].at = ctl[l].at /\ ctl'[l].look = ctl[l].look
    BY <1>1, <2>2, <2>4 DEF Full, Quiet
  <2>5. QED
    BY <1>1, <2>3, <2>4, NextArrivesToo DEF ArrivesToo
<1>2. ASSUME Ahead(l)'
      PROVE  \A p \in docs'[l].ids : Billed(p)' => p \in seen'.ids
  <2>1. CASE SweepList
    <3>1. docs' = docs /\ seen'.ids = Listed /\ UNCHANGED <<pod, owner>>
      BY <2>1 DEF SweepList, Go, memory, provider
    <3>2. QED
      BY <1>h, <1>o, <3>1 DEF Billed
  <2>2. CASE Ahead(l) /\ seen'.ids = seen.ids
    <3>1. \A p \in docs[l].ids : Billed(p)' => p \in seen'.ids
      BY <1>o, <2>2, OwnStays DEF Full
    <3>2. CASE docs'[l].ids \subseteq docs[l].ids
      BY <3>1, <3>2
    <3>3. CASE VisitCreating(l) /\ rref[l] /\ docs'[l] = ByReaper(l)
      <4>1. docs[l] = lease[l] /\ lease[l].st = "CREATING" /\ lease[l].ids = {}
        BY <3>3 DEF VisitCreating, Visiting, Consistent, ReaperRefs, Recorded,
                    Rec!Valid
      <4>2. AnsweredOnlyInLedger(l) = {}
        BY <4>1 DEF AnsweredOnlyInLedger, Acknowledged
      <4>3. docs'[l].ids \subseteq seen.ids
        BY <3>3, <4>1, <4>2, ByReaperIds
      <4>4. QED
        BY <2>2, <4>3
    <3>4. CASE ~Visit(l)
      <4>1. docs'[l] = docs[l] \/ docs'[l] = Rec!Unborn
        BY <1>2, <1>h, <3>4, CopyIs
      <4>2. QED
        BY <3>2, <4>1 DEF Rec!Unborn
    <3>5. QED
      BY <1>2, <3>2, <3>3, <3>4, VisitCopies
  <2>3. QED
    BY <1>2, <1>h, <2>1, <2>2, NextHandles DEF Remembers
<1>3. ASSUME sweep'.cur = l, sweep'.step = "confirm"
      PROVE  \A p \in docs'[l].ids : Billed(p)' => p \in seen'.fresh
  <2>1. CASE UNCHANGED <<sweep, docs, seen>>
    BY <1>3, <1>o, <2>1, OwnStays DEF Full
  <2>2. CASE UNCHANGED <<docs, pod, owner>> /\ seen'.fresh = Listed
    BY <1>h, <1>o, <2>2 DEF Billed
  <2>3. QED
    BY <1>3, <1>h, <2>1, <2>2, ConfirmIs
<1>4. QED
  BY <1>1, <1>2, <1>3

LEMMA NextAbsenceIsTrue ==
  ASSUME ~Lag, ~DiskFaults, Traced, Full, AbsenceIsTrue, [Next]_vars
  PROVE  AbsenceIsTrue'
<1> USE DEF Traced
<1> SUFFICES ASSUME NEW l \in Lease, lease'[l].st = "ABSENCE_CONFIRMED",
                    NEW p \in lease'[l].ids, Billed(p)'
             PROVE  FALSE
  BY DEF AbsenceIsTrue
<1>1. Names(l)
  BY NextNames
<1>2. lease'[l].ids = lease[l].ids
  BY <1>1 DEF Names, Same
<1>3. p \in Own(l) /\ Billed(p)
  BY <1>2, OwnStays DEF Secured, Owned
<1>4. lease[l].st # "ABSENCE_CONFIRMED"
  BY <1>2, <1>3 DEF AbsenceIsTrue
<1>5. \/ /\ ctl[l].at \in {"confirmLook", "ambLook"}
         /\ lease[l].ids \cap ctl[l].look = {}
      \/ /\ sweep.cur = l /\ docs[l] = lease[l]
         /\ \/ sweep.step = "visit" /\ lease[l].ids \cap seen.ids = {}
            \/ sweep.step = "confirm" /\ lease[l].ids \cap seen.fresh = {}
  BY <1>1, <1>4 DEF Names, Same
<1>6. sweep.step = "visit" /\ sweep.cur = l => Ahead(l)
  BY DEF Ahead, Unlisted, Orphaned
<1>7. QED
  BY <1>2, <1>3, <1>5, <1>6 DEF Full

(* ABSENCE_CONFIRMED is true when it is written, and stays true: a listing  *)
(* that may confirm it shows all there is of the attempt, and nothing of it *)
(* bills again.  Not so while the provider hides a pod from its listings,   *)
(* nor for an id the reaper first learns from the ledger.                   *)
THEOREM AbsenceStaysTrue ==
  ASSUME ~Lag, ~DiskFaults
  PROVE  Spec => []AbsenceIsTrue
<1>1. Init => Traced /\ Acknowledged /\ Full /\ AbsenceIsTrue
  <2>1. SUFFICES ASSUME Init PROVE Full /\ AbsenceIsTrue
    BY InitTraced
  <2>2. Rec!Unborn.ids = {} /\ Rec!Unborn.st = "NONE"
    BY DEF Rec!Unborn
  <2>3. \A l \in Lease : lease[l] = Rec!Unborn /\ docs[l] = Rec!Unborn
                         /\ ctl[l].at = "idle"
    BY <2>1 DEF Init, NoDocs
  <2>4. QED
    BY <2>2, <2>3 DEF Full, AbsenceIsTrue
<1>2. Traced /\ Acknowledged /\ Full /\ AbsenceIsTrue /\ [Next]_vars
        => (Traced /\ Acknowledged /\ Full /\ AbsenceIsTrue)'
  BY NextTraced, NextAcknowledged, NextFull, NextAbsenceIsTrue
     DEF Traced, Punctual
<1>3. QED
  BY <1>1, <1>2, PTL DEF Spec

-----------------------------------------------------------------------------
(* Without one pod per POST: what a controller deletes is named in its      *)
(* lease, if every answered id could be recorded there.                     *)

PodNamed ==
  \A l \in Lease : ctl[l].at # "sent" => ctl[l].pod \subseteq lease[l].ids

LEMMA PodShrinks ==
  ASSUME TypeOK, NEW l \in Lease
  PROVE  /\ \A step : Goto(l, step) => ctl'[l].pod \subseteq ctl[l].pod
         /\ \A step : Look(l, step) => ctl'[l].pod \subseteq ctl[l].pod
         /\ LeaveCleanup(l) => ctl'[l].pod \subseteq ctl[l].pod
         /\ Goto(l, "end") => ctl'[l].pod = {}
<1>1. /\ ctl \in [Lease -> Controllers]
      /\ ctl[l] \in [at : Steps, look : SUBSET Pod, pod : SUBSET Pod,
                     ref : BOOLEAN]
  BY DEF TypeOK, Controllers
<1>2. ASSUME NEW c, ctl' = [ctl EXCEPT ![l] = c]
      PROVE  ctl'[l] = c
  BY <1>1, <1>2
<1>3. ASSUME NEW step, Goto(l, step)
      PROVE  /\ ctl'[l].pod \subseteq ctl[l].pod
             /\ step = "end" => ctl'[l].pod = {}
  <2>1. CASE step = "end"
    <3>1. ctl'[l] = [at |-> "end", look |-> {}, pod |-> {}, ref |-> FALSE]
      BY <1>2, <1>3, <2>1 DEF Goto
    <3>2. QED
      BY <3>1
  <2>2. CASE step # "end"
    <3>1. ctl'[l] = [ctl[l] EXCEPT !.at = step, !.look = {}]
      BY <1>2, <1>3, <2>2 DEF Goto
    <3>2. QED
      BY <1>1, <2>2, <3>1
  <2>3. QED
    BY <2>1, <2>2
<1>4. ASSUME NEW step, Look(l, step)
      PROVE  ctl'[l].pod \subseteq ctl[l].pod
  <2>1. ctl'[l] = [ctl[l] EXCEPT !.at = step, !.look = Listed]
    BY <1>2, <1>4 DEF Look
  <2>2. QED
    BY <1>1, <2>1
<1>5. ASSUME LeaveCleanup(l)
      PROVE  ctl'[l].pod \subseteq ctl[l].pod
  <2>1. ctl'[l] = [ctl[l] EXCEPT !.at = IF ctl[l].pod = {} THEN "end" ELSE "exit",
                                 !.look = {}, !.ref = FALSE]
    BY <1>2, <1>5 DEF LeaveCleanup
  <2>2. QED
    BY <1>1, <2>1
<1>6. QED
  BY <1>3, <1>4, <1>5

(* Where a controller's pod comes from. *)
PodFrom(l) ==
  \/ ctl'[l].pod \subseteq ctl[l].pod
  \/ Submit(l) /\ ctl'[l].at = "sent"
  \/ BindLossIds(l) /\ ctl'[l].pod = lease[l].ids /\ lease' = lease

LEMMA ControllerPodFrom ==
  ASSUME TypeOK, NEW l \in Lease, Controller(l) \/ ControllerDies(l)
  PROVE  PodFrom(l)
<1> USE PodShrinks DEF PodFrom
<1>1. CASE BeforePost(l) \/ ControllerDies(l)
  <2>1. CASE BeginCreate(l)
    BY <2>1 DEF BeginCreate, TypeOK
  <2>2. CASE CancelIntent(l) \/ AbandonBeforePost(l)
    BY <2>2 DEF CancelIntent, AbandonBeforePost
  <2>3. QED
    BY <1>1, <2>1, <2>2 DEF BeforePost, ControllerDies, ObserveAccount,
         BeginRefused, Reserve, MarkCreating, PostIntent, CancelLedger, CancelClose
<1>2. CASE Post(l)
  <2>1. CASE Submit(l)
    <3>1. (\E pods : Take(l, "sent", pods)) \/ Goto(l, "lost")
      BY <2>1 DEF Submit
    <3>2. QED
      BY <2>1, <3>1, PodMoves
  <2>2. CASE BindReturnedId(l)
    <3>1. \E current : ctl' = [ctl EXCEPT ![l] = [ctl[l] EXCEPT !.at = "exit",
                                                                !.ref = current]]
      BY <2>2 DEF BindReturnedId
    <3>2. QED
      BY <3>1 DEF TypeOK, Controllers
  <2>3. QED
    BY <1>2, <2>1, <2>2 DEF Post, SubmitNothing, SubmitConflict,
         RecordCreated, RecordFails
<1>3. CASE AfterLoss(l)
  <2>1. CASE BindLossIds(l)
    <3>1. \/ \E step : Goto(l, step)
          \/ Take(l, "exit", lease[l].ids) /\ lease' = lease
      BY <2>1 DEF BindLossIds
    <3>2. QED
      BY <2>1, <3>1, PodMoves
  <2>2. \/ BindLossIds(l) \/ (\E step : Goto(l, step)) \/ \E step : Look(l, step)
    BY <1>3 DEF AfterLoss, LookAfterLoss, InventoryUnavailable, ReconcileLost,
           ReleaseRejected
  <2>3. QED
    BY <2>1, <2>2
<1>4. CASE Qualify(l)
  <2>1. (\E step : Goto(l, step)) \/ \E step : Look(l, step)
    BY <1>4 DEF Qualify, ObserveCreated, RunFails, BindInventory,
         BindDelta, Attest, BindQuote, WorkEnds
  <2>2. QED
    BY <2>1
<1>5. CASE TearDown(l)
  <2>1. (\E step : Goto(l, step)) \/ (\E step : Look(l, step)) \/ LeaveCleanup(l)
    BY <1>5 DEF TearDown, ExitWorkload, RecordDestroyIntent,
         BindCleanup, RequestTermination, Delete, LookForAbsence,
         ConfirmAbsence, GiveUp, SettleBilling, FinalizeCampaign, CloseLease,
         AmbiguousDestroy, AmbiguousDelete, AmbiguousConfirm
  <2>2. QED
    BY <2>1
<1>6. QED
  BY <1>1, <1>2, <1>3, <1>4, <1>5 DEF Controller

LEMMA NextPodFrom ==
  ASSUME TypeOK, [Next]_vars, NEW l \in Lease
  PROVE  PodFrom(l)
<1>1. ASSUME NEW k \in Lease, k # l,
             Controller(k) \/ ControllerDies(k) \/ CancelOrphans(k) \/ Visit(k)
      PROVE  ctl'[l] = ctl[l]
  BY <1>1, ControllerElsewhere, ReaperElsewhere DEF Elsewhere
<1>2. QED
  BY <1>1, ControllerPodFrom, ReaperKeepsCtl, SweepElsewhere DEF Next, PodFrom

(* How a controller leaves the answer of its POST. *)
LEMMA SentLeaves ==
  ASSUME TypeOK, [Next]_vars, NEW l \in Lease, ctl[l].at = "sent"
  PROVE  \/ ctl'[l].at = "sent" /\ ~RecordCreated(l)
         \/ RecordCreated(l) \/ RecordFails(l) \/ ctl'[l].pod = {}
<1> USE PodShrinks
<1>1. ASSUME NEW k \in Lease, k # l,
             Controller(k) \/ ControllerDies(k) \/ CancelOrphans(k) \/ Visit(k)
      PROVE  ctl'[l] = ctl[l]
  BY <1>1, ControllerElsewhere, ReaperElsewhere DEF Elsewhere
<1>2. Controller(l) => RecordCreated(l) \/ RecordFails(l)
  BY DEF Controller, BeforePost, Post, AfterLoss, Qualify, TearDown,
         ObserveAccount, BeginCreate, BeginRefused, Reserve, MarkCreating,
         PostIntent, AbandonBeforePost, CancelIntent, CancelLedger, CancelClose,
         Submit, MaySubmit, SubmitNothing, SubmitConflict, BindReturnedId,
         LookAfterLoss, InventoryUnavailable, ReconcileLost, BindLossIds,
         ReleaseRejected, ObserveCreated, RunFails, BindInventory, BindDelta,
         Attest, BindQuote, WorkEnds, ExitWorkload, RecordDestroyIntent,
         BindCleanup, RequestTermination, Delete, LookForAbsence,
         ConfirmAbsence, GiveUp, SettleBilling, FinalizeCampaign, CloseLease,
         AmbiguousDestroy, AmbiguousDelete, AmbiguousConfirm
<1>3. ControllerDies(l) => ctl'[l].pod = {}
  BY DEF ControllerDies
<1>4. CancelOrphans(l) \/ Visit(l) => ctl'[l].at = ctl[l].at
  BY ReaperElsewhere
<1>5. QED
  BY <1>1, <1>2, <1>3, <1>4, SweepElsewhere DEF Next

LEMMA IdsGrow ==
  ASSUME TypeOK, Consistent, Known, [Next]_vars, NEW l \in Lease
  PROVE  lease[l].ids \subseteq lease'[l].ids
<1>1. CASE lease[l].ids = {} \/ ~BindInventory(l)
  BY <1>1, NamedStays
<1>2. CASE BindInventory(l)
  <2>1. PICK look, own, known :
          lease'[l] \in {lease[l], Rec!PostCreateBound(lease[l], look, own, known)}
    BY <1>2, CommitIs DEF BindInventory
  <2>2. \A r \in Rec!Leases : r.ids \subseteq Rec!PostCreateBound(r, look, own, known).ids
    BY DEF Rec!PostCreateBound, Rec!Ambiguous, Rec!Leases
  <2>3. QED
    BY <2>1, <2>2 DEF TypeOK
<1>3. QED
  BY <1>1, <1>2

LEMMA NextPodNamed ==
  ASSUME ~DiskFaults, TypeOK, Consistent, Known, PodNamed, [Next]_vars
  PROVE  PodNamed'
<1> SUFFICES ASSUME NEW l \in Lease, ctl'[l].at # "sent"
             PROVE  ctl'[l].pod \subseteq lease'[l].ids
  BY DEF PodNamed
<1>1. lease[l].ids \subseteq lease'[l].ids
  BY IdsGrow
<1>2. CASE ctl[l].at # "sent"
  BY <1>1, <1>2, NextPodFrom DEF PodFrom, PodNamed
<1>3. CASE ctl[l].at = "sent"
  <2>1. CASE RecordCreated(l)
    <3>1. PICK p \in ctl[l].pod : lease'[l] = Rec!CreateSuccess(lease[l], p)
      BY <2>1, CommitIs DEF RecordCreated
    <3>2. ctl[l].pod = {p} /\ lease'[l].ids = {p}
      BY <1>3, <3>1 DEF Known, Handed, Rec!CreateSuccess, TypeOK, Rec!Leases
    <3>3. ctl'[l].pod \subseteq ctl[l].pod
      BY <1>3, NextPodFrom DEF PodFrom, Submit, MaySubmit, BindLossIds
    <3>4. QED
      BY <3>2, <3>3
  <2>2. ~RecordFails(l)
    BY DEF RecordFails
  <2>3. QED
    BY <1>3, <2>1, <2>2, SentLeaves
<1>4. QED
  BY <1>2, <1>3

-----------------------------------------------------------------------------
(* DELETE only on a durable intent.  Two arguments lead there: either all   *)
(* pods of an attempt are one, or each is named in the lease before anybody *)
(* acts on it.                                                              *)

(* What the second argument needs, at whatever time the POST is sent.       *)
Documented == TypeOK /\ Consistent /\ Secured /\ Started /\ Unposted /\ Known
              /\ Acknowledged /\ PodNamed /\ Intended

LEMMA DocumentedAlways ==
  ASSUME ~DiskFaults
  PROVE  Spec => []Documented
<1>1. Init => Documented
  <2>1. Init => PodNamed
    BY DEF Init, PodNamed
  <2>2. QED
    BY <2>1, InitTraced, InitCovered DEF Traced, Covered, Documented
<1>2. Documented /\ [Next]_vars => Documented'
  <2>1. SUFFICES ASSUME Documented, [Next]_vars PROVE Documented'
    OBVIOUS
  <2>2. (TypeOK /\ Consistent /\ Secured /\ Started /\ Unposted)'
    BY <2>1, NextType, NextConsistent, NextSecured, NextStarted, NextUnposted
       DEF Documented
  <2>3. (Known /\ Acknowledged /\ PodNamed /\ Intended)'
    BY <2>1, NextKnown, NextAcknowledged, NextPodNamed, NextIntended
       DEF Documented
  <2>4. QED
    BY <2>2, <2>3 DEF Documented
<1>3. QED
  BY <1>1, <1>2, PTL DEF Spec

LEMMA WholeDeletes ==
  ASSUME Whole, [Next]_vars, NEW p \in Pod
  PROVE  DeletedOnIntent(p)
  BY DeletesLate, LateNames
     DEF Whole, Covered, DeletedOnIntent, Own, Late

LEMMA DocumentedDeletes ==
  ASSUME Documented, [Next]_vars, NEW p \in Pod
  PROVE  DeletedOnIntent(p)
<1> SUFFICES ASSUME pod[p] # "deleted", pod'[p] = "deleted"
             PROVE  DeletedOnIntent(p)
  BY DEF DeletedOnIntent
<1>1. PICK l \in Lease : /\ p \in Own(l) /\ lease[l].st \in Late
                         /\ \/ Delete(l) /\ p \in ctl[l].pod
                            \/ p \in lease[l].ids
                            \/ docs[l].st = "DESTROYING" /\ p \in docs[l].ids
  BY DeletesLate DEF Documented
<1>2. Delete(l) => ctl[l].pod \subseteq lease[l].ids
  BY DEF Delete, Documented, PodNamed
<1>3. docs[l].st = "DESTROYING" => docs[l].ids = lease[l].ids
  BY DEF Documented, Acknowledged, Late
<1>4. QED
  BY <1>1, <1>2, <1>3 DEF DeletedOnIntent, Own, Late

(* A pod this program deletes carries the exact name of a lease that names  *)
(* it and is durably DESTROYING or further: whichever process issues the    *)
(* DELETE, from however old a copy of the record, and never against a pod   *)
(* of somebody else.                                                        *)
THEOREM DeletedWithIntent ==
  ASSUME (OnePodPerPost /\ Punctual) \/ ~DiskFaults
  PROVE  Spec => DeleteNeedsIntent
<1>1. CASE OnePodPerPost /\ Punctual
  <2>1. Whole /\ [Next]_vars => [\A p \in Pod : DeletedOnIntent(p)]_vars
    BY WholeDeletes
  <2>2. Spec => []Whole
    BY <1>1, WholeAlways
  <2>3. QED
    BY <2>1, <2>2, PTL DEF Spec, DeleteNeedsIntent
<1>2. CASE ~DiskFaults
  <2>1. Documented /\ [Next]_vars => [\A p \in Pod : DeletedOnIntent(p)]_vars
    BY DocumentedDeletes
  <2>2. Spec => []Documented
    BY <1>2, DocumentedAlways
  <2>3. QED
    BY <2>1, <2>2, PTL DEF Spec, DeleteNeedsIntent
<1>3. QED
  BY <1>1, <1>2
=============================================================================
