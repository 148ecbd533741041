-------------------------- MODULE CampaignAttempt --------------------------
(***************************************************************************)
(* One attempt of the campaign ledger, bin/fidelity/campaign.py: the phase *)
(* of its money reservation, the provider ids bound to it and the evidence *)
(* under which it was cancelled.  Each ledger method is a guard (what the  *)
(* method applies to) and the attempt it commits.  No variables: CloudLease*)
(* keeps one attempt beside every lease.  Money is not modelled here.      *)
(***************************************************************************)
CONSTANT Pod

(* LIVE stands for LIVE, RUNNING and EXITED, which every method below       *)
(* treats alike; RECONCILED is entered through DELETED in one commit.       *)
Phases == {"NONE", "RESERVED", "CREATING", "LIVE", "TERMINATE_REQUIRED",
           "TERMINATE_REQUESTED", "RECONCILED", "CANCELLED_BEFORE_CREATE"}

(* The lease states under which cancel_before_create may be called, and     *)
(* those that release an attempt whose POST was already recorded.           *)
NoResourceAfterPost ==
  {"PREPARED", "PROVIDER_REJECTED_CREATE", "LOST_CREATE_EXPIRED"}

Attempts == [phase : Phases, bound : SUBSET Pod,
             why : NoResourceAfterPost \cup {"none"}]

Unreserved == [phase |-> "NONE", bound |-> {}, why |-> "none"]

Reserved == [Unreserved EXCEPT !.phase = "RESERVED"]

(* "released": the reservation no longer counts against the campaign cap.   *)
Released(a) == a.phase \in {"RECONCILED", "CANCELLED_BEFORE_CREATE"}

(* An attempt whose liability the ledger still carries.                     *)
Held(a) == a.phase # "NONE" /\ ~Released(a)

(* cancel_before_create on an attempt not yet cancelled.                    *)
MayCancel(a, why) ==
  /\ a.phase = "RESERVED" \/ (a.phase = "CREATING"
                              /\ why \in NoResourceAfterPost)
  /\ a.bound = {}

(* Bug: the evidence is recorded, the phase is not.                         *)
CancelledInName(a, why) == [a EXCEPT !.why = why]

Cancelled(a, why) ==
  [a EXCEPT !.phase = "CANCELLED_BEFORE_CREATE", !.why = why]

MayMarkCreating(a) == a.phase = "RESERVED"
MarkedCreating(a) == [a EXCEPT !.phase = "CREATING"]

(* bind_provider_for_cleanup binds once, from an unbound CREATING attempt,  *)
(* or confirms the binding it made.                                         *)
MayBindForCleanup(a, ids) ==
  \/ a.phase = "CREATING" /\ a.bound = {}
  \/ a.phase = "TERMINATE_REQUIRED" /\ a.bound = ids

BoundForCleanup(a, ids) ==
  [a EXCEPT !.phase = "TERMINATE_REQUIRED", !.bound = ids]

(* bind_actual_quote, accepted or with TERMINATE_IMMEDIATELY.               *)
MayBindQuote(a) == a.phase = "CREATING" /\ a.bound = {}

QuoteBound(a, p, accepted) ==
  [a EXCEPT !.bound = {p},
            !.phase = IF accepted THEN "LIVE" ELSE "TERMINATE_REQUIRED"]

(* mark_phase TERMINATE_REQUESTED; repeating it changes nothing.            *)
MayRequestTermination(a) ==
  a.phase \in {"LIVE", "TERMINATE_REQUIRED", "TERMINATE_REQUESTED"}

(* Bug: the money is given back with the request, not with the proof.       *)
TerminationReleases(a) == [a EXCEPT !.phase = "RECONCILED"]

TerminationRequested(a) == [a EXCEPT !.phase = "TERMINATE_REQUESTED"]

(* project_terminal_lease with absence and billing proofs for exactly ids.  *)
(* An attempt this lease already reconciled is confirmed, not changed.      *)
MayProject(a, ids) ==
  IF a.bound = {} THEN a.phase = "CREATING" ELSE a.bound = ids

Projected(a, ids) == [a EXCEPT !.bound = ids, !.phase = "RECONCILED"]
=============================================================================
