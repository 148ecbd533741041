---------------------------- MODULE LeaseRecord ----------------------------
(***************************************************************************)
(* The durable lease of bin/fidelity/cloudlease.py: one JSON record per    *)
(* paid create attempt, its lifecycle table, and what each LeaseStore      *)
(* operation writes as a function of the record and of a complete provider *)
(* listing.  The module has no variables: CloudLease applies these         *)
(* operators to its record of every attempt.                               *)
(*                                                                         *)
(* A listing is the set of pod ids in it.  Own is the set of pods carrying *)
(* the lease's exact name; the 96-bit attempt id makes that name unique.   *)
(***************************************************************************)
CONSTANT Pod    \* provider pod ids

(* Bug: an attempt being destroyed no longer blocks a retry of its job.     *)
UnresolvedUntilDestroy == {"PREPARED", "CREATING", "ACTIVE", "AMBIGUOUS",
                           "ABSENCE_CONFIRMED"}

Unresolved == {"PREPARED", "CREATING", "ACTIVE", "AMBIGUOUS", "DESTROYING",
               "ABSENCE_CONFIRMED"}

States == Unresolved \cup {"TERMINAL"}

(* The lifecycle table _ALLOWED. *)
Allowed(from) ==
  CASE from = "PREPARED"          -> {"PREPARED", "CREATING", "TERMINAL"}
    [] from = "CREATING"          -> {"CREATING", "ACTIVE", "AMBIGUOUS",
                                      "ABSENCE_CONFIRMED", "TERMINAL"}
    [] from = "ACTIVE"            -> {"ACTIVE", "DESTROYING", "AMBIGUOUS",
                                      "ABSENCE_CONFIRMED"}
    [] from = "AMBIGUOUS"         -> {"AMBIGUOUS", "DESTROYING"}
    [] from = "DESTROYING"        -> {"DESTROYING", "ABSENCE_CONFIRMED"}
    [] from = "ABSENCE_CONFIRMED" -> {"ABSENCE_CONFIRMED", "DESTROYING",
                                      "TERMINAL"}
    [] from = "TERMINAL"          -> {}

(* How a TERMINAL lease was closed: which terminal_proof it carries. *)
Proofs == {"none", "cancelled", "rejected", "expired", "settled"}

(* st: state, or NONE before begin_create.  ids: provider_resource_ids.     *)
(* pre: pre_create_provider_ids.  blocked: the ambiguous_create proof names *)
(* pods nobody may attribute to this lease.  staged: billing_reconciliation *)
(* is present.  closedOnce: the history holds a reconciliation that saw     *)
(* nothing after the create window closed.  cancelling: the history holds   *)
(* the PREPARED_CANCELLATION_INTENT event.                                  *)
Leases == [st : States \cup {"NONE"}, ids : SUBSET Pod, pre : SUBSET Pod,
           blocked : BOOLEAN, staged : BOOLEAN, closedOnce : BOOLEAN,
           cancelling : BOOLEAN, proof : Proofs]

Unborn == [st |-> "NONE", ids |-> {}, pre |-> {}, blocked |-> FALSE,
           staged |-> FALSE, closedOnce |-> FALSE, cancelling |-> FALSE,
           proof |-> "none"]

(* What _validate_lease_schema demands of the state, the ids, the billing   *)
(* and the terminal proof of one record; transition() refuses to write any  *)
(* other record.                                                            *)
Valid(r) ==
  /\ r.st \in {"PREPARED", "CREATING"}
       => r.ids = {} /\ r.proof = "none" /\ ~r.blocked
  /\ r.st = "ACTIVE" => \E p \in Pod : r.ids = {p}
  /\ r.st \in {"DESTROYING", "ABSENCE_CONFIRMED"} => r.ids # {}
  /\ r.st = "AMBIGUOUS" => r.ids # {} \/ r.blocked
  /\ r.staged => r.st \in {"ABSENCE_CONFIRMED", "TERMINAL"}
  /\ (r.proof # "none") = (r.st = "TERMINAL")

(* begin_create: PREPARED proves that no provider POST has happened.        *)
Prepared(listing) == [Unborn EXCEPT !.st = "PREPARED", !.pre = listing]

(* The guard transition() enforces under the job lock, apart from the       *)
(* generation: the table, and no id that existed before the create.         *)
MayWrite(old, new) ==
  /\ new.st \in Allowed(old.st)
  /\ new.ids = old.ids \/ new.ids \cap old.pre = {}

(* Bug: a terminal proof of a kind the schema does not have.                *)
CancelPreparedMisnamed(r) ==
  [r EXCEPT !.st = "TERMINAL", !.proof = "prepared_cancelled"]

PostIntent(r)      == [r EXCEPT !.st = "CREATING"]
CancelIntent(r)    == [r EXCEPT !.cancelling = TRUE]
CancelPrepared(r)  == [r EXCEPT !.st = "TERMINAL", !.proof = "cancelled"]
CreateSuccess(r, p) == [r EXCEPT !.st = "ACTIVE", !.ids = {p}]
RequestDestroy(r)  == [r EXCEPT !.st = "DESTROYING"]
StageBilling(r)    == [r EXCEPT !.staged = TRUE]
BillingRecorded(r) == [r EXCEPT !.st = "TERMINAL", !.staged = TRUE,
                                !.proof = "settled"]

Ambiguous(r, candidates, blockers) ==
  [r EXCEPT !.st = "AMBIGUOUS", !.ids = candidates,
            !.blocked = blockers # {}]

(* New pods of a listing that carry another name than this lease's.  The    *)
(* caller may authorize some of them: pods the campaign ledger knows.       *)
Blockers(r, listing, own, authorized) ==
  ((listing \ r.pre) \ own) \ authorized

(* bind_post_create_inventory of an ACTIVE lease with one id: the listing   *)
(* must show that id, no other pod of the same name and no blocker; any     *)
(* other family delta freezes the lease as AMBIGUOUS.  A clean listing      *)
(* writes nothing.                                                          *)
PostCreateClean(r, listing, own, authorized) ==
  /\ (listing \ r.pre) \cap own = r.ids
  /\ Blockers(r, listing, own, authorized) \ r.ids = {}

PostCreateBound(r, listing, own, authorized) ==
  IF PostCreateClean(r, listing, own, authorized)
  THEN r
  ELSE Ambiguous(r, ((listing \ r.pre) \cap own) \cup r.ids,
                 Blockers(r, listing, own, authorized) \ r.ids)

(* The decision of reconcile_response_lost about a CREATING lease, in the   *)
(* order the code tests: exactly one own pod and nothing else; something    *)
(* attributable or blocking; a definitive rejection; expiry; wait.          *)
(* answered: the acknowledged id as a set of at most one pod.               *)
LostCandidates(r, listing, own, answered) ==
  ((listing \ r.pre) \cap own) \cup answered

(* Bug: one complete listing after the window is taken for a proof.         *)
LostOutcomeAtOnce(r, listing, own, answered, known, rejected, closed, aged) ==
  LET exact      == (listing \ r.pre) \cap own
      candidates == LostCandidates(r, listing, own, answered)
      blockers   == Blockers(r, listing, own, known) \ answered
  IN  IF exact = candidates /\ blockers = {}
         /\ \E p \in Pod : candidates = {p}    THEN "one"
      ELSE IF candidates # {} \/ blockers # {} THEN "ambiguous"
      ELSE IF rejected                        THEN "rejected"
      ELSE IF closed /\ aged                  THEN "expired"
      ELSE "zero"

LostOutcome(r, listing, own, answered, known, rejected, closed, aged) ==
  LET exact      == (listing \ r.pre) \cap own
      candidates == LostCandidates(r, listing, own, answered)
      blockers   == Blockers(r, listing, own, known) \ answered
  IN  IF exact = candidates /\ blockers = {}
         /\ \E p \in Pod : candidates = {p}    THEN "one"
      ELSE IF candidates # {} \/ blockers # {} THEN "ambiguous"
      ELSE IF rejected                        THEN "rejected"
      ELSE IF closed /\ r.closedOnce /\ aged  THEN "expired"
      ELSE "zero"

LostReconciled(r, listing, own, answered, authorized, closed, outcome) ==
  LET candidates == LostCandidates(r, listing, own, answered)
  IN  CASE outcome = "one"       -> [r EXCEPT !.st = "ACTIVE",
                                              !.ids = candidates]
        [] outcome = "ambiguous" -> Ambiguous(r, candidates,
                          Blockers(r, listing, own, authorized) \ answered)
        [] outcome = "rejected"  -> [r EXCEPT !.st = "TERMINAL",
                                              !.proof = "rejected"]
        [] outcome = "expired"   -> [r EXCEPT !.st = "TERMINAL",
                                              !.proof = "expired"]
        [] outcome = "zero"      -> [r EXCEPT !.closedOnce = @ \/ closed]

(* confirm_exact_absence raises for a blocked proof or without an exact id. *)
(* A listed id, whatever its status, keeps the state.                       *)
MayConfirm(r) == ~r.blocked /\ r.ids # {}

(* Bug: one of several candidates being gone is taken for all of them.      *)
AbsenceOfAny(r, listing) ==
  IF r.ids \subseteq listing THEN r ELSE [r EXCEPT !.st = "ABSENCE_CONFIRMED"]

AbsenceChecked(r, listing) ==
  IF r.ids \cap listing = {} THEN [r EXCEPT !.st = "ABSENCE_CONFIRMED"]
                             ELSE r

(* revoke_exact_absence: back to DESTROYING, staged billing cleared, only   *)
(* the ambiguous-create proof kept.                                         *)
AbsenceRevoked(r) == [r EXCEPT !.st = "DESTROYING", !.staged = FALSE]
=============================================================================
