----------------------------- MODULE CloudLease -----------------------------
(***************************************************************************)
(* The paid RunPod attempt: the controller (execute_runpod of              *)
(* bin/measure_cloud.py), the installed reaper (reap_once of               *)
(* bin/fidelity/cloudlease.py, run by bin/reap_cloud_leases.py), the       *)
(* provider, and the two durable files they share: the lease record and    *)
(* the campaign ledger's attempt.                                          *)
(*                                                                         *)
(* Every write of a lease names the generation the writer last saw.  The   *)
(* numbers are abstracted to who is up to date: ctl[l].ref says that the   *)
(* controller's LeaseRef is current, rref[l] that the reaper's is.  A      *)
(* write by one makes the other's reference stale.                         *)
(***************************************************************************)
EXTENDS Naturals, FiniteSets

CONSTANTS
  Pod,          \* provider pod ids
  Lease,        \* create attempts, one lease and one ledger attempt each
  NoLease,      \* owner of a pod no create made yet
  Stranger,     \* owner of a pod that is none of ours
  JobOf,        \* [Lease -> jobs]: retries of a job share its job hash
  Lag,          \* a created pod may be missing from listings for a while
  PromptPost,   \* a live controller sends its POST within the 20 minutes
                \* that end with the lost-create expiry
  DiskFaults,   \* recording a create response may fail on the local disk
  Foreigners,   \* pods of nobody we know appear in the account
  HostFaults,   \* pods may exit or vanish on their own
  MaxPerPost,   \* pods one POST may create (the provider's duplicates)
  MaxReaperCrashes \* bound on how often the reaper process dies

ASSUME ConstantsAssumption ==
  /\ NoLease \notin Lease /\ Stranger \notin Lease \cup {NoLease}
  /\ PromptPost \in BOOLEAN
  /\ Lag \in BOOLEAN /\ DiskFaults \in BOOLEAN /\ Foreigners \in BOOLEAN
  /\ HostFaults \in BOOLEAN
  /\ MaxPerPost \in Nat \ {0}
  /\ MaxReaperCrashes \in Nat

Rec == INSTANCE LeaseRecord
Att == INSTANCE CampaignAttempt

VARIABLES
  lease,    \* [Lease -> Rec!Leases]     the lease files
  attempt,  \* [Lease -> Att!Attempts]   the attempts in the ledger file
  pod,      \* [Pod -> PodStates]        the provider's truth
  owner,    \* [Pod -> lease whose exact name it carries, if any]
  clock,    \* [Lease -> Clocks]         the deadlines of each lease
  ctl,      \* [Lease -> Controllers]    the controller process of each attempt
  sweep,    \* the reaper: step, lease at hand, leases to do, no failure yet
  docs,     \* [Lease -> Rec!Leases]     the reaper's copies of the records
  seen,     \* the sweep's one full listing: ids, which of them had exited,
            \* and the fresh listing taken after a DELETE
  asof,     \* [Lease -> Clocks]         deadlines at the sweep's `instant`
  rref,     \* [Lease -> BOOLEAN]        the reaper's reference is current
  healthy,  \* the reaper's health stamp is on disk
  crashes   \* reaper crashes so far

store    == <<lease, attempt>>
provider == <<pod, owner>>
reaper   == <<sweep, docs, seen, asof, healthy, crashes>>
vars     == <<lease, attempt, pod, owner, clock, ctl, sweep, docs, seen, asof,
              rref, healthy, crashes>>

PodStates == {"none", "hidden", "up", "exited", "deleted", "removed"}

Clocks == [win : {"open", "closed", "expired"}, due : BOOLEAN,
           aged : BOOLEAN]

Steps == {"idle", "observed", "prepared", "reserved", "creating", "intent",
          "cancelIntent", "cancelLedger", "cancelClose",
          "sent", "unrecorded", "lost", "refused", "lostLook", "refusedLook",
          "reconciled", "release", "bound", "postLook", "unconverged",
          "delta", "qualified", "attested", "working", "exit", "destroy",
          "bindCleanup", "request", "delete", "confirm", "confirmLook", "billing",
          "finalize", "close", "ambDestroy", "ambDelete", "ambConfirm",
          "ambLook", "end"}

(* at: the next step.  look: the complete listing that step works on.  pod: *)
(* pod_id, once known (at most one pod).  ref: the LeaseRef is current.     *)
Controllers ==
  [at : Steps, look : SUBSET Pod, pod : SUBSET Pod, ref : BOOLEAN]

SweepSteps == {"idle", "list", "orphanLedger", "orphanClose", "pick", "visit",
               "expire", "expireClose", "relist", "confirm", "settle",
               "finalize", "close"}

TypeOK ==
  /\ lease \in [Lease -> Rec!Leases]
  /\ attempt \in [Lease -> Att!Attempts]
  /\ pod \in [Pod -> PodStates]
  /\ owner \in [Pod -> Lease \cup {NoLease, Stranger}]
  /\ clock \in [Lease -> Clocks]
  /\ ctl \in [Lease -> Controllers]
  /\ sweep \in [step : SweepSteps, todo : SUBSET Lease, ok : BOOLEAN,
                cur : Lease \cup {NoLease}]
  /\ docs \in [Lease -> Rec!Leases]
  /\ seen \in [ids : SUBSET Pod, exited : SUBSET Pod, fresh : SUBSET Pod]
  /\ asof \in [Lease -> Clocks]
  /\ rref \in [Lease -> BOOLEAN]
  /\ healthy \in BOOLEAN
  /\ crashes \in 0..MaxReaperCrashes

-----------------------------------------------------------------------------
(* The provider's account. *)

Gone(p)    == pod[p] \in {"deleted", "removed"}
Billed(p)  == pod[p] \in {"hidden", "up", "exited"}
Listed     == {p \in Pod : pod[p] \in {"up", "exited"}}
Own(l)     == {p \in Pod : owner[p] = l}
KnownPods  == UNION {attempt[l].bound : l \in Lease}

(* authorized_response_loss_siblings: new pods the ledger already knows,    *)
(* other than the one this attempt intends.                                 *)
Siblings(l) == ((KnownPods \cap ctl[l].look) \ lease[l].pre) \ ctl[l].pod

-----------------------------------------------------------------------------
(* Writing the two files. *)

StartClock == [win |-> "open", due |-> FALSE, aged |-> FALSE]

(* The controller, respectively the reaper, commits a transition: its       *)
(* reference must be current and the table must allow it.                   *)
CanWriteC(l, new) == ctl[l].ref /\ Rec!MayWrite(lease[l], new)
CanWriteR(l, new) == rref[l] /\ Rec!MayWrite(lease[l], new)

CommitC(l, new) ==
  /\ lease' = [lease EXCEPT ![l] = new]
  /\ rref' = [rref EXCEPT ![l] = FALSE]

StoreR(l, new) ==
  /\ lease' = [lease EXCEPT ![l] = new]
  /\ ctl' = [ctl EXCEPT ![l].ref = FALSE]

CommitR(l, new) == StoreR(l, new) /\ docs' = [docs EXCEPT ![l] = new]

SetAttempt(l, a) == attempt' = [attempt EXCEPT ![l] = a]

(* The controller moves on.  A listing serves one step only, and nothing of *)
(* the process outlives its end, by return or by death.                     *)
Goto(l, step) ==
  ctl' = [ctl EXCEPT ![l] =
            IF step = "end"
            THEN [at |-> "end", look |-> {}, pod |-> {}, ref |-> FALSE]
            ELSE [@ EXCEPT !.at = step, !.look = {}]]

(* It takes a complete listing for its next step.                           *)
Look(l, step) ==
  ctl' = [ctl EXCEPT ![l] = [@ EXCEPT !.at = step, !.look = Listed]]

(* It takes pod ids as its pod_id.                                          *)
Take(l, step, pods) ==
  ctl' = [ctl EXCEPT ![l] = [@ EXCEPT !.at = step, !.look = {},
                                      !.pod = pods]]

(* A new absence event starts the billing stabilization window again; the   *)
(* deadlines of the create are never read after it.                         *)
RestartAge(l) == clock' = [clock EXCEPT ![l] = StartClock]

(* create_submission_lock: held by the controller from before its check of  *)
(* the record until the response id is recorded, by the reaper while it     *)
(* reconciles; flock, so a dead holder releases it.                         *)
SubmitLockedByController(l) == ctl[l].at = "sent"
SubmitLockedByReaper(l) ==
  sweep.step \in {"expire", "expireClose"} /\ sweep.cur = l

(* _same_uid_process_alive of the pid in the lease. *)
Alive(l) == ctl[l].at \notin {"idle", "end"}

-----------------------------------------------------------------------------
(* The controller, up to the provider POST. *)

(* Admission: a healthy reaper and a complete account listing, which        *)
(* becomes the immutable pre-create evidence.                               *)
ObserveAccount(l) ==
  /\ ctl[l].at = "idle" /\ healthy
  /\ Look(l, "observed")
  /\ UNCHANGED <<store, provider, clock, reaper, rref>>

(* begin_create: one unresolved attempt per job, under the job lock.        *)
BeginCreate(l) ==
  /\ ctl[l].at = "observed"
  /\ \A k \in Lease : JobOf[k] = JobOf[l] => lease[k].st \notin Rec!Unresolved
  /\ lease' = [lease EXCEPT ![l] = Rec!Prepared(ctl[l].look)]
  /\ clock' = [clock EXCEPT ![l] = StartClock]
  /\ ctl' = [ctl EXCEPT ![l] = [at |-> "prepared", look |-> {}, pod |-> {},
                                ref |-> TRUE]]
  /\ UNCHANGED <<attempt, provider, reaper, rref>>

BeginRefused(l) ==
  /\ ctl[l].at = "observed"
  /\ \E k \in Lease : JobOf[k] = JobOf[l] /\ lease[k].st \in Rec!Unresolved
  /\ Goto(l, "end")
  /\ UNCHANGED <<store, provider, clock, reaper, rref>>

Reserve(l) ==
  /\ ctl[l].at = "prepared"
  /\ SetAttempt(l, Att!Reserved)
  /\ Goto(l, "reserved")
  /\ UNCHANGED <<lease, provider, clock, reaper, rref>>

MarkCreating(l) ==
  /\ ctl[l].at = "reserved" /\ Att!MayMarkCreating(attempt[l])
  /\ SetAttempt(l, Att!MarkedCreating(attempt[l]))
  /\ Goto(l, "creating")
  /\ UNCHANGED <<lease, provider, clock, reaper, rref>>

(* record_post_intent: the irrevocable boundary, fsynced before the POST.   *)
PostIntent(l) ==
  /\ ctl[l].at = "creating" /\ lease[l].st = "PREPARED"
  /\ CanWriteC(l, Rec!PostIntent(lease[l]))
  /\ CommitC(l, Rec!PostIntent(lease[l]))
  /\ Goto(l, "intent")
  /\ UNCHANGED <<attempt, provider, clock, reaper>>

(* A refusal or an exception anywhere before the POST intent: the PREPARED  *)
(* lease is closed by cancel_prepared_lease.                                *)
AbandonBeforePost(l) ==
  /\ ctl[l].at \in {"prepared", "reserved", "creating"}
  /\ Goto(l, IF lease[l].st = "PREPARED" THEN "cancelIntent" ELSE "end")
  /\ UNCHANGED <<store, provider, clock, reaper, rref>>

(* cancel_prepared_lease: durable intent, then the ledger, then the lease.  *)
(* An attempt the ledger does not know is tolerated; one it has cancelled   *)
(* is confirmed with the evidence it holds.                                 *)
CancelIntent(l) ==
  /\ ctl[l].at = "cancelIntent"
  /\ IF CanWriteC(l, Rec!CancelIntent(lease[l]))
     THEN CommitC(l, Rec!CancelIntent(lease[l])) /\ Goto(l, "cancelLedger")
     ELSE Goto(l, "end") /\ UNCHANGED <<lease, rref>>
  /\ UNCHANGED <<attempt, provider, clock, reaper>>

LedgerCancels(l) ==
  \/ attempt[l].phase \in {"NONE", "CANCELLED_BEFORE_CREATE"}
     /\ UNCHANGED attempt
  \/ Att!MayCancel(attempt[l], "PREPARED")
     /\ SetAttempt(l, Att!Cancelled(attempt[l], "PREPARED"))

LedgerMayCancel(l) ==
  \/ attempt[l].phase \in {"NONE", "CANCELLED_BEFORE_CREATE"}
  \/ Att!MayCancel(attempt[l], "PREPARED")

CancelLedger(l) ==
  /\ ctl[l].at = "cancelLedger"
  /\ LedgerCancels(l)
  /\ Goto(l, "cancelClose")
  /\ UNCHANGED <<lease, provider, clock, reaper, rref>>

CancelClose(l) ==
  /\ ctl[l].at = "cancelClose"
  /\ IF CanWriteC(l, Rec!CancelPrepared(lease[l]))
     THEN CommitC(l, Rec!CancelPrepared(lease[l]))
     ELSE UNCHANGED <<lease, rref>>
  /\ Goto(l, "end")
  /\ UNCHANGED <<attempt, provider, clock, reaper>>

-----------------------------------------------------------------------------
(* The sole provider POST, inside submit_create_and_record. *)

MaySubmit(l) ==
  /\ ctl[l].at = "intent" /\ ~SubmitLockedByReaper(l)
  /\ ctl[l].ref /\ lease[l].st = "CREATING"

(* The provider creates pods under the lease's exact name; the answer       *)
(* arrives, or is lost on the way.                                          *)
Submit(l) ==
  /\ MaySubmit(l)
  /\ \E made \in SUBSET {p \in Pod : pod[p] = "none"} :
       /\ Cardinality(made) \in 1..MaxPerPost
       /\ \E hid \in (IF Lag THEN SUBSET made ELSE {{}}) :
            pod' = [p \in Pod |-> IF p \in hid THEN "hidden"
                                  ELSE IF p \in made THEN "up" ELSE pod[p]]
       /\ owner' = [p \in Pod |-> IF p \in made THEN l ELSE owner[p]]
       /\ \/ \E p \in made : Take(l, "sent", {p})
          \/ Goto(l, "lost")
  /\ UNCHANGED <<store, clock, reaper, rref>>

(* Nothing is created: the request or an unspecific error answer is lost,   *)
(* or the provider names an enumerated no-resource code.                    *)
SubmitNothing(l) ==
  /\ MaySubmit(l)
  /\ \E step \in {"lost", "refused"} : Goto(l, step)
  /\ UNCHANGED <<store, provider, clock, reaper, rref>>

(* The record moved since the intent: no POST.  The exception is handled as *)
(* a lost response, whose reconciliation meets the same stale reference.    *)
SubmitConflict(l) ==
  /\ ctl[l].at = "intent" /\ ~SubmitLockedByReaper(l)
  /\ ~ctl[l].ref \/ lease[l].st # "CREATING"
  /\ Goto(l, "lost")
  /\ UNCHANGED <<store, provider, clock, reaper, rref>>

(* record_create_success: the id is durable before it is qualified.         *)
RecordCreated(l) ==
  /\ ctl[l].at = "sent"
  /\ \E p \in ctl[l].pod :
       /\ CanWriteC(l, Rec!CreateSuccess(lease[l], p))
       /\ CommitC(l, Rec!CreateSuccess(lease[l], p))
  /\ Goto(l, "bound")
  /\ UNCHANGED <<attempt, provider, clock, reaper>>

(* CreateResponsePersistenceError: the id is known but not on disk.         *)
RecordFails(l) ==
  /\ ctl[l].at = "sent" /\ DiskFaults
  /\ Goto(l, "unrecorded")
  /\ UNCHANGED <<store, provider, clock, reaper, rref>>

(* Bound in the ledger for cleanup only, unless the lease got another id in *)
(* the meantime; a lease that got this id gives a fresh reference.          *)
BindReturnedId(l) ==
  /\ ctl[l].at = "unrecorded"
  /\ LET current == \/ ctl[l].ref
                    \/ lease[l].ids # {} /\ lease[l].ids = ctl[l].pod
         binds == /\ lease[l].ids \in {{}, ctl[l].pod}
                  /\ Att!MayBindForCleanup(attempt[l], ctl[l].pod)
     IN /\ IF binds
           THEN SetAttempt(l, Att!BoundForCleanup(attempt[l], ctl[l].pod))
           ELSE UNCHANGED attempt
        /\ ctl' = [ctl EXCEPT ![l] = [@ EXCEPT !.at = "exit",
                                               !.ref = current]]
  /\ UNCHANGED <<lease, provider, clock, reaper, rref>>

-----------------------------------------------------------------------------
(* The controller after a lost or refused create. *)

LookAfterLoss(l) ==
  /\ ctl[l].at \in {"lost", "refused"}
  /\ Look(l, IF ctl[l].at = "lost" THEN "lostLook" ELSE "refusedLook")
  /\ UNCHANGED <<store, provider, clock, reaper, rref>>

InventoryUnavailable(l) ==
  /\ ctl[l].at \in {"lost", "refused"}
  /\ Goto(l, "end")
  /\ UNCHANGED <<store, provider, clock, reaper, rref>>

(* reconcile_response_lost, before the create window is over.               *)
ReconcileLost(l) ==
  /\ ctl[l].at \in {"lostLook", "refusedLook"}
  /\ LET outcome == Rec!LostOutcome(lease[l], ctl[l].look, Own(l), {},
                      Siblings(l), ctl[l].at = "refusedLook", FALSE, FALSE)
         new == Rec!LostReconciled(lease[l], ctl[l].look, Own(l), {},
                      Siblings(l), FALSE, outcome)
     IN IF lease[l].st = "CREATING" /\ CanWriteC(l, new)
        THEN CommitC(l, new) /\ Goto(l, "reconciled")
        ELSE Goto(l, "end") /\ UNCHANGED <<lease, rref>>
  /\ UNCHANGED <<attempt, provider, clock, reaper>>

(* record_response_loss_inventory binds the lease's ids in the ledger; the  *)
(* controller then releases a refused create, cleans up several candidates, *)
(* takes a sole one as its pod, or leaves the liability to the reaper.      *)
BindLossIds(l) ==
  /\ ctl[l].at = "reconciled"
  /\ LET ids == lease[l].ids
         may == Att!MayBindForCleanup(attempt[l], ids)
     IN /\ IF ids # {} /\ may
           THEN SetAttempt(l, Att!BoundForCleanup(attempt[l], ids))
           ELSE UNCHANGED attempt
        /\ IF ids = {}
           THEN Goto(l, IF lease[l].st = "TERMINAL" THEN "release"
                                                    ELSE "end")
           ELSE IF ~may THEN Goto(l, "end")
           ELSE IF Cardinality(ids) > 1 THEN Goto(l, "ambDestroy")
           ELSE Take(l, "exit", ids)
  /\ UNCHANGED <<lease, provider, clock, reaper, rref>>

(* The refused create's reservation, after its lease became TERMINAL.       *)
ReleaseRejected(l) ==
  /\ ctl[l].at = "release"
  /\ IF Att!MayCancel(attempt[l], "PROVIDER_REJECTED_CREATE")
     THEN SetAttempt(l, Att!Cancelled(attempt[l], "PROVIDER_REJECTED_CREATE"))
     ELSE UNCHANGED attempt
  /\ Goto(l, "end")
  /\ UNCHANGED <<lease, provider, clock, reaper, rref>>

-----------------------------------------------------------------------------
(* The controller between the recorded create and the workload. *)

(* The last observation of the convergence loop, if any was authoritative.  *)
ObserveCreated(l) ==
  /\ ctl[l].at = "bound"
  /\ Look(l, "postLook")
  /\ UNCHANGED <<store, provider, clock, reaper, rref>>

(* Any exception from the create on: the finally block takes over.          *)
RunFails(l) ==
  /\ ctl[l].at \in {"bound", "postLook", "unconverged", "delta", "qualified", "attested"}
  /\ Goto(l, "exit")
  /\ UNCHANGED <<store, provider, clock, reaper, rref>>

(* bind_post_create_inventory.  A clean listing writes nothing; the run goes*)
(* on if the observations converged on this one.                            *)
BindInventory(l) ==
  /\ ctl[l].at = "postLook"
  /\ LET new == Rec!PostCreateBound(lease[l], ctl[l].look, Own(l), Siblings(l))
     IN IF ~ctl[l].ref \/ lease[l].st # "ACTIVE" \/ lease[l].ids # ctl[l].pod
        THEN Goto(l, "exit") /\ UNCHANGED <<lease, rref>>
        ELSE IF new = lease[l]
        THEN /\ \E step \in {"qualified", "unconverged"} : Goto(l, step)
             /\ UNCHANGED <<lease, rref>>
        ELSE CommitC(l, new) /\ Goto(l, "delta")
  /\ UNCHANGED <<attempt, provider, clock, reaper>>

(* Bug: only the acknowledged id is bound, not the whole candidate set.     *)
BindDeltaAcknowledged(l) ==
  /\ ctl[l].at \in {"bound", "unconverged", "delta"}
  /\ IF Att!MayBindForCleanup(attempt[l], ctl[l].pod)
     THEN /\ SetAttempt(l, Att!BoundForCleanup(attempt[l], ctl[l].pod))
          /\ Goto(l, IF ctl[l].at = "delta" THEN "ambDestroy" ELSE "exit")
     ELSE Goto(l, "exit") /\ UNCHANGED attempt
  /\ UNCHANGED <<lease, provider, clock, reaper, rref>>

(* Not converged, or a family delta: the ids are bound for cleanup only.  A *)
(* run that observed nothing gets here too (its lease is still ACTIVE).     *)
BindDelta(l) ==
  /\ ctl[l].at \in {"bound", "unconverged", "delta"}
  /\ LET ids == IF lease[l].ids = {} THEN ctl[l].pod ELSE lease[l].ids
     IN IF Att!MayBindForCleanup(attempt[l], ids)
        THEN /\ SetAttempt(l, Att!BoundForCleanup(attempt[l], ids))
             /\ Goto(l, IF ctl[l].at = "delta" THEN "ambDestroy" ELSE "exit")
        ELSE Goto(l, "exit") /\ UNCHANGED attempt
  /\ UNCHANGED <<lease, provider, clock, reaper, rref>>

(* record_identity_attestation: a new event of the same ACTIVE state.       *)
Attest(l) ==
  /\ ctl[l].at = "qualified"
  /\ IF lease[l].st = "ACTIVE" /\ CanWriteC(l, lease[l])
     THEN CommitC(l, lease[l]) /\ Goto(l, "attested")
     ELSE Goto(l, "exit") /\ UNCHANGED <<lease, rref>>
  /\ UNCHANGED <<attempt, provider, clock, reaper>>

(* bind_actual_quote, then RUNNING; a quote out of contract terminates.     *)
BindQuote(l) ==
  /\ ctl[l].at = "attested"
  /\ \E p \in ctl[l].pod, accepted \in BOOLEAN :
       IF Att!MayBindQuote(attempt[l])
       THEN /\ SetAttempt(l, Att!QuoteBound(attempt[l], p, accepted))
            /\ Goto(l, IF accepted THEN "working" ELSE "exit")
       ELSE Goto(l, "exit") /\ UNCHANGED attempt
  /\ UNCHANGED <<lease, provider, clock, reaper, rref>>

WorkEnds(l) ==
  /\ ctl[l].at = "working"
  /\ Goto(l, "exit")
  /\ UNCHANGED <<store, provider, clock, reaper, rref>>

-----------------------------------------------------------------------------
(* The controller's finally block, entered only with a pod id. *)

(* WORKLOAD_EXITED is written if the lease is ACTIVE; a stale reference is  *)
(* only an operational error.                                               *)
ExitWorkload(l) ==
  /\ ctl[l].at = "exit"
  /\ IF lease[l].st = "ACTIVE" /\ CanWriteC(l, lease[l])
     THEN CommitC(l, lease[l])
     ELSE UNCHANGED <<lease, rref>>
  /\ Goto(l, "destroy")
  /\ UNCHANGED <<attempt, provider, clock, reaper>>

(* The durable destroy intent.  Without it the controller issues no DELETE. *)
RecordDestroyIntent(l) ==
  /\ ctl[l].at = "destroy"
  /\ IF lease[l].st \in {"DESTROYING", "ABSENCE_CONFIRMED", "TERMINAL"}
     THEN Goto(l, "bindCleanup") /\ UNCHANGED <<lease, rref>>
     ELSE IF CanWriteC(l, Rec!RequestDestroy(lease[l]))
     THEN CommitC(l, Rec!RequestDestroy(lease[l])) /\ Goto(l, "bindCleanup")
     ELSE Goto(l, "end") /\ UNCHANGED <<lease, rref>>
  /\ UNCHANGED <<attempt, provider, clock, reaper>>

(* _bind_lease_cleanup_to_campaign: bind an unbound attempt, then require   *)
(* that ledger and lease name the same ids.                                 *)
BindCleanup(l) ==
  /\ ctl[l].at = "bindCleanup"
  /\ LET ids == lease[l].ids
     IN IF ids # {} /\ attempt[l].bound = {}
           /\ Att!MayBindForCleanup(attempt[l], ids)
        THEN /\ SetAttempt(l, Att!BoundForCleanup(attempt[l], ids))
             /\ Goto(l, "request")
        ELSE /\ Goto(l, IF ids \in {{}, attempt[l].bound} THEN "request"
                                                          ELSE "end")
             /\ UNCHANGED attempt
  /\ UNCHANGED <<lease, provider, clock, reaper, rref>>

RequestTermination(l) ==
  /\ ctl[l].at = "request"
  /\ IF Att!MayRequestTermination(attempt[l])
     THEN /\ SetAttempt(l, Att!TerminationRequested(attempt[l]))
          /\ Goto(l, "delete")
     ELSE Goto(l, "end") /\ UNCHANGED attempt
  /\ UNCHANGED <<lease, provider, clock, reaper, rref>>

(* DELETE is asynchronous and its answer ignored: it removes the pod now or *)
(* not at all.                                                              *)
Deletes(removed) ==
  pod' = [p \in Pod |-> IF p \in removed /\ Billed(p) THEN "deleted"
                                                      ELSE pod[p]]

Delete(l) ==
  /\ ctl[l].at = "delete"
  /\ \E removed \in SUBSET ctl[l].pod : Deletes(removed)
  /\ Goto(l, "confirm")
  /\ UNCHANGED <<store, owner, clock, reaper, rref>>

LookForAbsence(l) ==
  /\ ctl[l].at \in {"confirm", "ambConfirm"}
  /\ Look(l, IF ctl[l].at = "confirm" THEN "confirmLook" ELSE "ambLook")
  /\ UNCHANGED <<store, provider, clock, reaper, rref>>

(* confirm_exact_absence.  It appends an event even when an id is listed;   *)
(* in the loop every failure is retried.                                    *)
Confirms(l, new) ==
  /\ Rec!MayConfirm(lease[l])
  /\ new = Rec!AbsenceChecked(lease[l], ctl[l].look)
  /\ CanWriteC(l, new)

ConfirmAbsence(l) ==
  /\ ctl[l].at = "confirmLook"
  /\ LET new == Rec!AbsenceChecked(lease[l], ctl[l].look)
     IN IF Confirms(l, new)
        THEN /\ CommitC(l, new)
             /\ IF new.st = "ABSENCE_CONFIRMED"
                THEN Goto(l, "billing") /\ RestartAge(l)
                ELSE Goto(l, "confirm") /\ UNCHANGED clock
        ELSE Goto(l, "confirm") /\ UNCHANGED <<lease, rref, clock>>
  /\ UNCHANGED <<attempt, provider, reaper>>

(* The twenty tries are over, or billing cannot be settled now: the reaper  *)
(* finishes.                                                                *)
GiveUp(l) ==
  /\ ctl[l].at \in {"confirm", "billing"}
  /\ Goto(l, "end")
  /\ UNCHANGED <<store, provider, clock, reaper, rref>>

SettleBilling(l) ==
  /\ ctl[l].at = "billing" /\ clock[l].aged
  /\ IF lease[l].st = "ABSENCE_CONFIRMED" /\ ~lease[l].staged
        /\ CanWriteC(l, Rec!StageBilling(lease[l]))
     THEN CommitC(l, Rec!StageBilling(lease[l])) /\ Goto(l, "finalize")
     ELSE Goto(l, "end") /\ UNCHANGED <<lease, rref>>
  /\ UNCHANGED <<attempt, provider, clock, reaper>>

(* Bug: the absence on record is believed without a fresh listing.          *)
MayFinalizeOnRecord(l, r) == r.ids # {} /\ Att!MayProject(attempt[l], r.ids)

(* finalize_campaign_after_absence about record r: a fresh complete listing *)
(* must not show a target, and the ledger must not be bound to other ids.   *)
MayFinalize(l, r) ==
  /\ r.ids # {} /\ r.ids \cap Listed = {}
  /\ Att!MayProject(attempt[l], r.ids)

FinalizeCampaign(l) ==
  /\ ctl[l].at = "finalize"
  /\ IF lease[l].st = "ABSENCE_CONFIRMED" /\ lease[l].staged
        /\ MayFinalize(l, lease[l])
     THEN /\ SetAttempt(l, Att!Projected(attempt[l], lease[l].ids))
          /\ Goto(l, "close")
     ELSE Goto(l, "end") /\ UNCHANGED attempt
  /\ UNCHANGED <<lease, provider, clock, reaper, rref>>

CloseLease(l) ==
  /\ ctl[l].at = "close"
  /\ IF lease[l].st = "ABSENCE_CONFIRMED"
        /\ CanWriteC(l, Rec!BillingRecorded(lease[l]))
     THEN CommitC(l, Rec!BillingRecorded(lease[l]))
     ELSE UNCHANGED <<lease, rref>>
  /\ Goto(l, "end")
  /\ UNCHANGED <<attempt, provider, clock, reaper>>

-----------------------------------------------------------------------------
(* _cleanup_ambiguous_runpod_create.  It ends by raising: its immediate     *)
(* billing request is always inside the 300 s stabilization window.  The    *)
(* caller keeps its older reference.                                        *)
LeaveCleanup(l) ==
  ctl' = [ctl EXCEPT ![l] =
            [@ EXCEPT !.at = IF ctl[l].pod = {} THEN "end" ELSE "exit",
                      !.look = {}, !.ref = FALSE]]

(* Bug: the candidates are deleted before the intent is durable.            *)
AmbiguousDestroyUnwritten(l) ==
  /\ ctl[l].at = "ambDestroy"
  /\ Goto(l, "ambDelete")
  /\ UNCHANGED <<store, provider, clock, reaper, rref>>

AmbiguousDestroy(l) ==
  /\ ctl[l].at = "ambDestroy"
  /\ IF lease[l].st \in {"DESTROYING", "ABSENCE_CONFIRMED", "TERMINAL"}
     THEN Goto(l, "ambDelete") /\ UNCHANGED <<lease, rref>>
     ELSE IF CanWriteC(l, Rec!RequestDestroy(lease[l]))
     THEN /\ CommitC(l, Rec!RequestDestroy(lease[l]))
          /\ Goto(l, "ambDelete")
     ELSE LeaveCleanup(l) /\ UNCHANGED <<lease, rref>>
  /\ UNCHANGED <<attempt, provider, clock, reaper>>

AmbiguousDelete(l) ==
  /\ ctl[l].at = "ambDelete"
  /\ \E removed \in SUBSET lease[l].ids : Deletes(removed)
  /\ Goto(l, "ambConfirm")
  /\ UNCHANGED <<store, owner, clock, reaper, rref>>

AmbiguousConfirm(l) ==
  /\ ctl[l].at = "ambLook"
  /\ LET new == Rec!AbsenceChecked(lease[l], ctl[l].look)
     IN IF ~Confirms(l, new)
        THEN LeaveCleanup(l) /\ UNCHANGED <<lease, rref, clock>>
        ELSE /\ CommitC(l, new)
             /\ IF new.st = "ABSENCE_CONFIRMED"
                THEN LeaveCleanup(l) /\ RestartAge(l)
                ELSE /\ Goto(l, "ambConfirm") \/ LeaveCleanup(l)
                     /\ UNCHANGED clock
  /\ UNCHANGED <<attempt, provider, reaper>>

(* The controller's process dies; flock releases its locks.                 *)
ControllerDies(l) ==
  /\ Alive(l)
  /\ Goto(l, "end")
  /\ UNCHANGED <<store, provider, clock, reaper, rref>>

-----------------------------------------------------------------------------
(* The reaper: one sweep over a snapshot of every unresolved lease. *)

memory == <<docs, asof, rref>>    \* what a sweep keeps of every lease

Step(step) == sweep' = [sweep EXCEPT !.step = step]

(* The next step of the same lease, which writes nothing here.              *)
Go(step) == Step(step) /\ UNCHANGED memory

(* The sweep is through with lease l, without or with a failure.            *)
Forget(l) ==
  /\ docs' = [docs EXCEPT ![l] = Rec!Unborn]
  /\ asof' = [asof EXCEPT ![l] = StartClock]
  /\ rref' = [rref EXCEPT ![l] = FALSE]

Done(l) ==
  /\ sweep' = [sweep EXCEPT !.step = "pick", !.cur = NoLease]
  /\ Forget(l)

Fail(l) ==
  /\ sweep' = [sweep EXCEPT !.step = "pick", !.cur = NoLease, !.ok = FALSE]
  /\ Forget(l)

Idle == [step |-> "idle", todo |-> {}, ok |-> TRUE, cur |-> NoLease]
Unseen == [ids |-> {}, exited |-> {}, fresh |-> {}]
NoDocs == [l \in Lease |-> Rec!Unborn]
NoDeadline == [l \in Lease |-> StartClock]

ForgetSweep ==
  /\ sweep' = Idle /\ docs' = NoDocs /\ seen' = Unseen /\ asof' = NoDeadline
  /\ rref' = [l \in Lease |-> FALSE]

(* main() durably removes the older health stamp before anything can fail.  *)
SweepBegin ==
  /\ sweep.step = "idle"
  /\ LET open == {l \in Lease : lease[l].st \in Rec!Unresolved}
     IN /\ sweep' = [step |-> "list", todo |-> open, ok |-> TRUE,
                     cur |-> NoLease]
        /\ docs' = [l \in Lease |-> IF l \in open THEN lease[l]
                                                  ELSE Rec!Unborn]
        /\ asof' = [l \in Lease |-> IF l \in open THEN clock[l]
                                                  ELSE StartClock]
        /\ rref' = [l \in Lease |-> l \in open]
  /\ healthy' = FALSE
  /\ UNCHANGED <<store, provider, clock, ctl, seen, crashes>>

(* PREPARED leases come before the listing; a live controller keeps its.    *)
DeferPrepared(l) ==
  /\ sweep.step = "list" /\ l \in sweep.todo /\ docs[l].st = "PREPARED"
  /\ Alive(l)
  /\ sweep' = [sweep EXCEPT !.todo = @ \ {l}]
  /\ Forget(l)
  /\ UNCHANGED <<store, provider, clock, ctl, seen, healthy, crashes>>

OrphanStep(step, l) ==
  sweep' = [sweep EXCEPT !.step = step, !.cur = l, !.todo = @ \ {l}]

OrphanEnds(l, good) ==
  /\ sweep' = [sweep EXCEPT !.step = "list", !.cur = NoLease,
                            !.ok = @ /\ good, !.todo = @ \ {l}]
  /\ Forget(l)

OrphanIntent(l) ==
  /\ sweep.step = "list" /\ l \in sweep.todo /\ docs[l].st = "PREPARED"
  /\ ~Alive(l)
  /\ IF docs[l].cancelling
     THEN OrphanStep("orphanLedger", l) /\ UNCHANGED <<lease, ctl, memory>>
     ELSE IF CanWriteR(l, Rec!CancelIntent(lease[l]))
     THEN /\ CommitR(l, Rec!CancelIntent(lease[l]))
          /\ OrphanStep("orphanLedger", l) /\ UNCHANGED <<asof, rref>>
     ELSE OrphanEnds(l, FALSE) /\ UNCHANGED <<lease, ctl>>
  /\ UNCHANGED <<attempt, provider, clock, seen, healthy, crashes>>

OrphanLedger(l) ==
  /\ sweep.step = "orphanLedger" /\ sweep.cur = l
  /\ IF LedgerMayCancel(l)
     THEN /\ LedgerCancels(l)
          /\ OrphanStep("orphanClose", l) /\ UNCHANGED memory
     ELSE OrphanEnds(l, FALSE) /\ UNCHANGED attempt
  /\ UNCHANGED <<lease, provider, clock, ctl, seen, healthy, crashes>>

OrphanClose(l) ==
  /\ sweep.step = "orphanClose" /\ sweep.cur = l
  /\ IF CanWriteR(l, Rec!CancelPrepared(lease[l]))
     THEN StoreR(l, Rec!CancelPrepared(lease[l])) /\ OrphanEnds(l, TRUE)
     ELSE UNCHANGED <<lease, ctl>> /\ OrphanEnds(l, FALSE)
  /\ UNCHANGED <<attempt, provider, clock, seen, healthy, crashes>>

(* The complete listing of the account, or an outage: nothing is concluded. *)
SweepList ==
  /\ sweep.step = "list"
  /\ \A l \in sweep.todo : docs[l].st # "PREPARED"
  /\ seen' = [ids |-> Listed, exited |-> {p \in Pod : pod[p] = "exited"},
              fresh |-> {}]
  /\ Go("pick")
  /\ UNCHANGED <<store, provider, clock, ctl, healthy, crashes>>

SweepOutage ==
  /\ sweep.step = "list" /\ sweep.todo # {}
  /\ \A l \in sweep.todo : docs[l].st # "PREPARED"
  /\ sweep' = [sweep EXCEPT !.step = "pick", !.todo = {}, !.ok = FALSE]
  /\ UNCHANGED <<store, provider, clock, ctl, memory, seen, healthy, crashes>>

Pick(l) ==
  /\ sweep.step = "pick" /\ l \in sweep.todo
  /\ sweep' = [sweep EXCEPT !.step = "visit", !.cur = l, !.todo = @ \ {l}]
  /\ UNCHANGED <<store, provider, clock, ctl, memory, seen, healthy, crashes>>

(* Health is the last durable effect of a sweep without failures.           *)
SweepEnd ==
  /\ sweep.step = "pick" /\ sweep.todo = {}
  /\ healthy' = sweep.ok
  /\ ForgetSweep
  /\ UNCHANGED <<store, provider, clock, ctl, crashes>>

ReaperDies ==
  /\ sweep.step # "idle" /\ crashes < MaxReaperCrashes
  /\ crashes' = crashes + 1
  /\ ForgetSweep
  /\ UNCHANGED <<store, provider, clock, ctl, healthy>>

-----------------------------------------------------------------------------
(* The reaper at one lease. *)

Visiting(l, st) ==
  sweep.step = "visit" /\ sweep.cur = l /\ docs[l].st = st

ReadOnly == UNCHANGED <<store, provider, clock, ctl, seen, healthy, crashes>>

(* A write by the reaper followed by step next, or a GenerationConflict,    *)
(* which is a failure of this lease alone.                                  *)
ReapWrite(l, new, next) ==
  /\ IF CanWriteR(l, new)
     THEN CommitR(l, new) /\ Step(next) /\ UNCHANGED <<asof, rref>>
     ELSE Fail(l) /\ UNCHANGED <<lease, ctl>>
  /\ UNCHANGED <<attempt, provider, seen, healthy, crashes>>

(* The same when the sweep needs nothing more of the lease.                 *)
ReapWriteLast(l, new) ==
  /\ IF CanWriteR(l, new)
     THEN StoreR(l, new) /\ Done(l)
     ELSE Fail(l) /\ UNCHANGED <<lease, ctl>>
  /\ UNCHANGED <<attempt, provider, clock, seen, healthy, crashes>>

(* The same when the write is a new absence event.                          *)
ReapAbsence(l, new, next) ==
  /\ ReapWrite(l, new, next)
  /\ IF CanWriteR(l, new) THEN RestartAge(l) ELSE UNCHANGED clock

(* An exact id proven absent is listed again.                               *)
VisitRevoke(l) ==
  /\ Visiting(l, "ABSENCE_CONFIRMED") /\ docs[l].ids \cap seen.ids # {}
  /\ ReapWrite(l, Rec!AbsenceRevoked(docs[l]), "visit")
  /\ UNCHANGED clock

(* campaign_bound_response_id: an id bound only in the ledger, if the       *)
(* binding is one the cleanup may use.                                      *)
AnsweredOnlyInLedger(l) == IF docs[l].ids = {} THEN attempt[l].bound ELSE {}

(* Bug: a binding for cleanup does not count until termination is requested.*)
AnswerUsableIfRequested(l) ==
  \/ AnsweredOnlyInLedger(l) = {}
  \/ attempt[l].phase = "TERMINATE_REQUESTED"

AnswerUsable(l) ==
  \/ AnsweredOnlyInLedger(l) = {}
  \/ /\ Cardinality(AnsweredOnlyInLedger(l)) = 1
     /\ attempt[l].phase \in {"TERMINATE_REQUIRED", "TERMINATE_REQUESTED"}

(* CREATING: under the submission lock the record is read again; if it      *)
(* moved, this sweep leaves it.                                             *)
VisitMoved(l) ==
  /\ Visiting(l, "CREATING") /\ ~SubmitLockedByController(l) /\ ~rref[l]
  /\ Done(l)
  /\ ReadOnly

LostByReaper(l) ==
  Rec!LostOutcome(docs[l], seen.ids, Own(l), AnsweredOnlyInLedger(l), {},
                  FALSE, asof[l].win # "open", asof[l].win = "expired")

ByReaper(l) ==
  Rec!LostReconciled(docs[l], seen.ids, Own(l), AnsweredOnlyInLedger(l), {},
                     asof[l].win # "open", LostByReaper(l))

(* A ledger-only id that is not cleanup-safe fails the lease.               *)
VisitCreating(l) ==
  /\ Visiting(l, "CREATING") /\ ~SubmitLockedByController(l) /\ rref[l]
  /\ ~AnswerUsable(l) \/ LostByReaper(l) \notin {"expired", "zero"}
  /\ IF AnswerUsable(l)
     THEN ReapWrite(l, ByReaper(l), "visit") /\ UNCHANGED clock
     ELSE Fail(l) /\ ReadOnly

(* Nothing to see and too early to conclude: the event is recorded.         *)
VisitWaiting(l) ==
  /\ Visiting(l, "CREATING") /\ ~SubmitLockedByController(l) /\ rref[l]
  /\ AnswerUsable(l) /\ LostByReaper(l) = "zero"
  /\ ReapWriteLast(l, ByReaper(l))

VisitExpired(l) ==
  /\ Visiting(l, "CREATING") /\ ~SubmitLockedByController(l) /\ rref[l]
  /\ AnswerUsable(l) /\ LostByReaper(l) = "expired"
  /\ Go("expire")
  /\ ReadOnly

(* before_expire: _release_expired_create_campaign.  An earlier release has *)
(* another time and another digest, so it is refused as conflicting.        *)
ReleaseExpired(l) ==
  /\ sweep.step = "expire" /\ sweep.cur = l
  /\ IF attempt[l].phase = "NONE"
     THEN Go("expireClose") /\ UNCHANGED attempt
     ELSE IF Att!MayCancel(attempt[l], "LOST_CREATE_EXPIRED")
     THEN /\ SetAttempt(l, Att!Cancelled(attempt[l], "LOST_CREATE_EXPIRED"))
          /\ Go("expireClose")
     ELSE Fail(l) /\ UNCHANGED attempt
  /\ UNCHANGED <<lease, provider, clock, ctl, seen, healthy, crashes>>

CloseExpired(l) ==
  /\ sweep.step = "expireClose" /\ sweep.cur = l
  /\ ReapWriteLast(l, [docs[l] EXCEPT !.st = "TERMINAL", !.proof = "expired"])

(* AMBIGUOUS without candidates waits for an operator and is no failure.    *)
VisitHeld(l) ==
  /\ Visiting(l, "AMBIGUOUS") /\ docs[l].ids = {}
  /\ Done(l)
  /\ ReadOnly

(* Bug: without candidates too, as for every other state that is torn down. *)
VisitAmbiguousAny(l) ==
  /\ Visiting(l, "AMBIGUOUS")
  /\ ReapWrite(l, Rec!RequestDestroy(docs[l]), "visit")
  /\ UNCHANGED clock

VisitAmbiguous(l) ==
  /\ Visiting(l, "AMBIGUOUS") /\ docs[l].ids # {}
  /\ ReapWrite(l, Rec!RequestDestroy(docs[l]), "visit")
  /\ UNCHANGED clock

Targeted(l) == sweep.step = "visit" /\ sweep.cur = l
               /\ docs[l].st \in {"ACTIVE", "DESTROYING"}
Present(l) == docs[l].ids \cap seen.ids

(* No id in the sweep's listing: absence, if the lease may be confirmed.    *)
VisitNotListed(l) ==
  /\ Targeted(l) /\ Present(l) = {} /\ Rec!MayConfirm(docs[l])
  /\ ReapAbsence(l, Rec!AbsenceChecked(docs[l], seen.ids), "settle")

VisitUnconfirmable(l) ==
  /\ Targeted(l) /\ Present(l) = {} /\ ~Rec!MayConfirm(docs[l])
  /\ Fail(l)
  /\ ReadOnly

(* Bug: the reap deadline is left to the provider's terminateAfter.         *)
DestroyWithoutDeadline(l) ==
  docs[l].st = "DESTROYING" \/ Present(l) \cap seen.exited # {}

DestroyNow(l) ==
  \/ docs[l].st = "DESTROYING"
  \/ Present(l) \cap seen.exited # {}
  \/ asof[l].due

VisitLive(l) ==
  /\ Targeted(l) /\ Present(l) # {} /\ ~DestroyNow(l)
  /\ Done(l)
  /\ ReadOnly

VisitDestroy(l) ==
  /\ Targeted(l) /\ Present(l) # {} /\ DestroyNow(l)
  /\ docs[l].st = "ACTIVE"
  /\ ReapWrite(l, Rec!RequestDestroy(docs[l]), "visit")
  /\ UNCHANGED clock

(* DELETE every id still listed; an error of one call ends this lease.      *)
ReapDelete(l) ==
  /\ Visiting(l, "DESTROYING") /\ Present(l) # {}
  /\ \E removed \in SUBSET Present(l) : Deletes(removed)
  /\ Go("relist") \/ Fail(l)
  /\ UNCHANGED <<store, owner, clock, ctl, seen, healthy, crashes>>

ReapRelist(l) ==
  /\ sweep.step = "relist" /\ sweep.cur = l
  /\ \/ seen' = [seen EXCEPT !.fresh = Listed] /\ Go("confirm")
     \/ Fail(l) /\ UNCHANGED seen
  /\ UNCHANGED <<store, provider, clock, ctl, healthy, crashes>>

(* A still listed id appends its event and fails the sweep.                 *)
ReapConfirm(l) ==
  /\ sweep.step = "confirm" /\ sweep.cur = l
  /\ LET new == Rec!AbsenceChecked(docs[l], seen.fresh)
     IN IF ~Rec!MayConfirm(docs[l]) \/ ~CanWriteR(l, new)
        THEN Fail(l) /\ UNCHANGED <<lease, ctl, clock>>
        ELSE IF new.st = "ABSENCE_CONFIRMED"
        THEN /\ CommitR(l, new) /\ RestartAge(l)
             /\ Step("settle") /\ UNCHANGED <<asof, rref>>
        ELSE StoreR(l, new) /\ Fail(l) /\ UNCHANGED clock
  /\ seen' = [seen EXCEPT !.fresh = {}]
  /\ UNCHANGED <<attempt, provider, healthy, crashes>>

(* The lease is ABSENCE_CONFIRMED, by this sweep or by an earlier one whose *)
(* absence this listing repeats.                                            *)
Settling(l) ==
  \/ sweep.step = "settle" /\ sweep.cur = l
  \/ Visiting(l, "ABSENCE_CONFIRMED") /\ docs[l].ids \cap seen.ids = {}

(* Billing is settled 300 s after the absence and once the provider has     *)
(* published it; until then the lease waits without failing the sweep.      *)
BillingPending(l) ==
  /\ Settling(l) /\ ~docs[l].staged
  /\ Done(l)
  /\ ReadOnly

ReapStage(l) ==
  /\ Settling(l) /\ ~docs[l].staged
  /\ asof[l].aged /\ clock[l].aged
  /\ ReapWrite(l, Rec!StageBilling(docs[l]), "finalize")
  /\ UNCHANGED clock

ReapFinalize(l) ==
  /\ \/ sweep.step = "finalize" /\ sweep.cur = l
     \/ Settling(l) /\ docs[l].staged
  /\ IF MayFinalize(l, docs[l])
     THEN /\ SetAttempt(l, Att!Projected(attempt[l], docs[l].ids))
          /\ Go("close")
     ELSE Fail(l) /\ UNCHANGED attempt
  /\ UNCHANGED <<lease, provider, clock, ctl, seen, healthy, crashes>>

ReapClose(l) ==
  /\ sweep.step = "close" /\ sweep.cur = l
  /\ ReapWriteLast(l, Rec!BillingRecorded(docs[l]))

-----------------------------------------------------------------------------
(* The provider and the clock. *)

Provider(changed) ==
  /\ pod' = [p \in Pod |-> IF p \in DOMAIN changed THEN changed[p] ELSE pod[p]]
  /\ UNCHANGED <<store, clock, ctl, reaper, rref>>

Appears(p) ==
  pod[p] = "hidden" /\ Provider([q \in {p} |-> "up"]) /\ UNCHANGED owner

Exits(p) ==
  /\ HostFaults /\ pod[p] = "up"
  /\ Provider([q \in {p} |-> "exited"])
  /\ UNCHANGED owner

(* terminateAfter, a lost host, the account owner: a pod may vanish.        *)
Vanishes(p) ==
  /\ HostFaults /\ pod[p] \in {"up", "exited"}
  /\ Provider([q \in {p} |-> "removed"])
  /\ UNCHANGED owner

StrangerArrives(p) ==
  /\ Foreigners /\ pod[p] = "none"
  /\ Provider([q \in {p} |-> "up"])
  /\ owner' = [owner EXCEPT ![p] = Stranger]

Tick(l, field, value) ==
  /\ clock' = [clock EXCEPT ![l] = [@ EXCEPT ![field] = value]]
  /\ UNCHANGED <<store, provider, ctl, reaper, rref>>

(* create_deadline_epoch, 300 s after begin_create.                         *)
WindowCloses(l) ==
  /\ clock[l].win = "open" /\ lease[l].st \in {"PREPARED", "CREATING"}
  /\ Tick(l, "win", "closed")

(* LOST_CREATE_EXPIRY_SECONDS later: a created pod is listed by then, and   *)
(* with PromptPost the POST has been sent, if it ever is.                   *)
WindowExpires(l) ==
  /\ clock[l].win = "closed" /\ lease[l].st \in {"PREPARED", "CREATING"}
  /\ \A p \in Own(l) : pod[p] # "hidden"
  /\ PromptPost =>
       ctl[l].at \notin {"prepared", "reserved", "creating", "intent"}
  /\ Tick(l, "win", "expired")

(* reap_deadline_epoch, later than create_deadline_epoch.                   *)
ReapDeadlinePasses(l) ==
  /\ ~clock[l].due
  /\ \/ lease[l].st = "ACTIVE"
     \/ lease[l].st = "CREATING" /\ clock[l].win # "open"
  /\ Tick(l, "due", TRUE)

(* BILLING_STABILIZATION_SECONDS after the absence: likewise.               *)
AbsenceAges(l) ==
  /\ lease[l].st = "ABSENCE_CONFIRMED" /\ ~clock[l].aged
  /\ \A p \in Own(l) : pod[p] # "hidden"
  /\ Tick(l, "aged", TRUE)

-----------------------------------------------------------------------------

Init ==
  /\ lease = NoDocs
  /\ attempt = [l \in Lease |-> Att!Unreserved]
  /\ pod = [p \in Pod |-> "none"]
  /\ owner = [p \in Pod |-> NoLease]
  /\ clock = NoDeadline
  /\ ctl = [l \in Lease |-> [at |-> "idle", look |-> {}, pod |-> {},
                             ref |-> FALSE]]
  /\ sweep = Idle /\ docs = NoDocs /\ seen = Unseen /\ asof = NoDeadline
  /\ rref = [l \in Lease |-> FALSE]
  /\ healthy = FALSE /\ crashes = 0

BeforePost(l) ==
  \/ ObserveAccount(l) \/ BeginCreate(l) \/ BeginRefused(l) \/ Reserve(l)
  \/ MarkCreating(l) \/ PostIntent(l) \/ AbandonBeforePost(l)
  \/ CancelIntent(l) \/ CancelLedger(l) \/ CancelClose(l)

Post(l) ==
  \/ Submit(l) \/ SubmitNothing(l) \/ SubmitConflict(l) \/ RecordCreated(l)
  \/ RecordFails(l) \/ BindReturnedId(l)

AfterLoss(l) ==
  \/ LookAfterLoss(l) \/ InventoryUnavailable(l) \/ ReconcileLost(l)
  \/ BindLossIds(l) \/ ReleaseRejected(l)

Qualify(l) ==
  \/ ObserveCreated(l) \/ RunFails(l) \/ BindInventory(l)
  \/ BindDelta(l) \/ Attest(l) \/ BindQuote(l) \/ WorkEnds(l)

TearDown(l) ==
  \/ ExitWorkload(l) \/ RecordDestroyIntent(l) \/ BindCleanup(l)
  \/ RequestTermination(l) \/ Delete(l) \/ LookForAbsence(l)
  \/ ConfirmAbsence(l) \/ GiveUp(l) \/ SettleBilling(l)
  \/ FinalizeCampaign(l) \/ CloseLease(l)
  \/ AmbiguousDestroy(l) \/ AmbiguousDelete(l) \/ AmbiguousConfirm(l)

Controller(l) ==
  BeforePost(l) \/ Post(l) \/ AfterLoss(l) \/ Qualify(l) \/ TearDown(l)

CancelOrphans(l) ==
  DeferPrepared(l) \/ OrphanIntent(l) \/ OrphanLedger(l) \/ OrphanClose(l)

Visit(l) ==
  \/ Pick(l) \/ VisitRevoke(l) \/ VisitMoved(l) \/ VisitCreating(l)
  \/ VisitWaiting(l) \/ VisitExpired(l)
  \/ ReleaseExpired(l) \/ CloseExpired(l)
  \/ VisitHeld(l) \/ VisitAmbiguous(l) \/ VisitNotListed(l)
  \/ VisitUnconfirmable(l) \/ VisitLive(l) \/ VisitDestroy(l)
  \/ ReapDelete(l) \/ ReapRelist(l) \/ ReapConfirm(l)
  \/ BillingPending(l) \/ ReapStage(l) \/ ReapFinalize(l) \/ ReapClose(l)

Environment ==
  \/ \E p \in Pod : Appears(p) \/ Exits(p) \/ Vanishes(p) \/ StrangerArrives(p)
  \/ \E l \in Lease : WindowCloses(l) \/ WindowExpires(l)
                      \/ ReapDeadlinePasses(l) \/ AbsenceAges(l)

Next ==
  \/ \E l \in Lease : Controller(l) \/ ControllerDies(l)
  \/ SweepBegin \/ SweepList \/ SweepOutage \/ SweepEnd \/ ReaperDies
  \/ \E l \in Lease : CancelOrphans(l) \/ Visit(l)
  \/ Environment

Spec == Init /\ [][Next]_vars

-----------------------------------------------------------------------------
(* Safety. *)

(* Every record on disk satisfies the validator, so the validator, which    *)
(* transition() runs on each new record, never refuses a write of a cleanup *)
(* that is under way: the actions above need no guard for it.               *)
RecordsValid ==
  \A l \in Lease : lease[l].st # "NONE" => Rec!Valid(lease[l])

(* A lease closed as settled names only pods that are gone: TERMINAL after  *)
(* absence and billing is never written over a pod that can still bill,     *)
(* however stale the listings on the way were.                              *)
SettledMeansGone ==
  \A l \in Lease : lease[l].proof = "settled" =>
    \A p \in lease[l].ids : Gone(p)

(* Every pod that can bill is covered by a reservation the ledger still     *)
(* holds: no release path (cancellation, rejection, expiry, projection)     *)
(* frees the money of an attempt whose pod exists.                          *)
BilledMeansHeld ==
  \A l \in Lease : (\E p \in Own(l) : Billed(p)) => Att!Held(attempt[l])

(* When the pods of an attempt are proven absent, its ledger entry can take *)
(* the terminal projection: it is unbound, or bound to exactly these ids.   *)
(* Otherwise finalize_campaign_after_absence is refused in every sweep.     *)
Projectable ==
  \A l \in Lease : lease[l].st = "ABSENCE_CONFIRMED" =>
    Att!MayProject(attempt[l], lease[l].ids)

(* A lease closed by expiry, cancellation or settlement leaves no held      *)
(* reservation behind: the ledger is written before the lease.              *)
ClosedMeansReleased ==
  \A l \in Lease : lease[l].proof \in {"expired", "cancelled", "settled"}
                     => ~Att!Held(attempt[l])

(* A job never pays for two attempts at once: begin_create refuses a retry  *)
(* while any pod of an earlier attempt can still bill.                      *)
OneBilledAttemptPerJob ==
  \A k, l \in Lease : JobOf[k] = JobOf[l] /\ k # l =>
    ~((\E p \in Own(k) : Billed(p)) /\ (\E p \in Own(l) : Billed(p)))

(* ABSENCE_CONFIRMED is true when it is written by a listing of the pods of *)
(* this attempt: "The pod is proven absent; nothing is billing."            *)
AbsenceIsTrue ==
  \A l \in Lease : lease[l].st = "ABSENCE_CONFIRMED" =>
    \A p \in lease[l].ids : ~Billed(p)

(* No DELETE without a durable destroy intent: a pod this program deletes   *)
(* carries the exact name of a lease that names it and is already           *)
(* DESTROYING, or further.  A stranger's pod is never deleted.              *)
DeletedOnIntent(p) ==
  pod[p] # "deleted" /\ pod'[p] = "deleted" =>
    \E l \in Lease :
      /\ owner[p] = l
      /\ p \in lease[l].ids
      /\ lease[l].st \in {"DESTROYING", "ABSENCE_CONFIRMED", "TERMINAL"}

DeleteNeedsIntent == [][\A p \in Pod : DeletedOnIntent(p)]_vars

-----------------------------------------------------------------------------
(* The abstract attempt this system implements.  Two actors, two files, one *)
(* listing per sweep and crashes at every step come down to its six steps.  *)

Life(l) ==
  IF lease[l].st = "NONE" THEN "unopened"
  ELSE IF lease[l].st = "TERMINAL" THEN "closed" ELSE "open"

Money(l) ==
  IF attempt[l].phase = "NONE" THEN "none"
  ELSE IF Att!Held(attempt[l]) THEN "held" ELSE "released"

Bills(l) ==
  IF \A p \in Pod : owner[p] # l THEN "never"
  ELSE IF \E p \in Pod : owner[p] = l /\ Billed(p) THEN "now" ELSE "over"

Promise == INSTANCE PaidAttempt WITH
  Attempt <- Lease,
  life    <- [l \in Lease |-> Life(l)],
  money   <- [l \in Lease |-> Money(l)],
  bills   <- [l \in Lease |-> Bills(l)]

(* Every behaviour of controller, reaper and provider is one of the abstract*)
(* attempt: no retry is opened beside an open attempt, nothing bills without*)
(* held money, a lease is closed and money released only when nothing of it *)
(* bills, and nothing bills after that, however late the POST.              *)
Implements == Promise!Spec

-----------------------------------------------------------------------------
(* Liveness.  The controller's steps are bounded by its own loops and       *)
(* timeouts; a systemd timer starts a sweep every minute, and a sweep runs  *)
(* to its end.  Outages, lost DELETEs and provider lag do not last forever. *)

FairDelete(l) == ReapDelete(l) /\ \A p \in Present(l) : Gone(p)'
                 /\ sweep'.step = "relist"

Fairness ==
  /\ \A l \in Lease :
       /\ WF_vars(Controller(l))
       /\ SF_vars(GiveUp(l))
       /\ WF_vars(CancelOrphans(l))
       /\ WF_vars(Visit(l))
       /\ SF_vars(FairDelete(l))
       /\ SF_vars(ReapRelist(l) /\ sweep'.step = "confirm")
       /\ SF_vars(ReapStage(l))
       /\ WF_vars(WindowCloses(l)) /\ WF_vars(WindowExpires(l))
       /\ WF_vars(ReapDeadlinePasses(l)) /\ WF_vars(AbsenceAges(l))
  /\ WF_vars(SweepBegin) /\ SF_vars(SweepList) /\ WF_vars(SweepEnd)
  /\ \A p \in Pod : WF_vars(Appears(p))

FairSpec == Spec /\ Fairness

(* Every lease that was opened is eventually closed, at whatever step its   *)
(* controller dies and whatever the disk refuses it.                        *)
EveryLeaseCloses ==
  \A l \in Lease : lease[l].st \in Rec!Unresolved
                     ~> lease[l].st = "TERMINAL"

(* Every pod a POST created is eventually gone.                             *)
EveryPodGoes ==
  \A p \in Pod : (owner[p] \in Lease) ~> Gone(p)

(* The reaper always becomes healthy again, so paid admission reopens.      *)
HealthyAgain == []<>healthy

(* A CREATING lease whose create window is long over is resolved.           *)
CreatingEnds ==
  \A l \in Lease : lease[l].st = "CREATING" ~> lease[l].st # "CREATING"
=============================================================================
