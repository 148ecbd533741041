---------------------------- MODULE PaidAttempt ----------------------------
(***************************************************************************)
(* What the paid lifecycle promises the owner of the account, without      *)
(* leases, ledgers, listings, crashes or a reaper: an attempt of a job is  *)
(* opened while no other attempt of that job is open, its money is held    *)
(* before anything can bill, and neither the money is given back nor the   *)
(* attempt closed while something bills.  CloudLease implements this.      *)
(***************************************************************************)
CONSTANTS Attempt, JobOf

VARIABLES life, money, bills
vars == <<life, money, bills>>

TypeOK ==
  /\ life \in [Attempt -> {"unopened", "open", "closed"}]
  /\ money \in [Attempt -> {"none", "held", "released"}]
  /\ bills \in [Attempt -> {"never", "now", "over"}]

Init ==
  /\ life = [a \in Attempt |-> "unopened"]
  /\ money = [a \in Attempt |-> "none"]
  /\ bills = [a \in Attempt |-> "never"]

Rivalled(a) == \E b \in Attempt : JobOf[b] = JobOf[a] /\ life[b] = "open"

Open(a) ==
  /\ life[a] = "unopened" /\ ~Rivalled(a)
  /\ life' = [life EXCEPT ![a] = "open"]
  /\ UNCHANGED <<money, bills>>

Hold(a) ==
  /\ life[a] = "open" /\ money[a] = "none"
  /\ money' = [money EXCEPT ![a] = "held"]
  /\ UNCHANGED <<life, bills>>

StartBilling(a) ==
  /\ life[a] = "open" /\ money[a] = "held" /\ bills[a] = "never"
  /\ bills' = [bills EXCEPT ![a] = "now"]
  /\ UNCHANGED <<life, money>>

StopBilling(a) ==
  /\ bills[a] = "now"
  /\ bills' = [bills EXCEPT ![a] = "over"]
  /\ UNCHANGED <<life, money>>

(* The money of a create the provider refused is given back only after the  *)
(* attempt is closed; in every other case before.                           *)
Release(a) ==
  /\ money[a] = "held" /\ bills[a] # "now"
  /\ money' = [money EXCEPT ![a] = "released"]
  /\ UNCHANGED <<life, bills>>

Close(a) ==
  /\ life[a] = "open" /\ bills[a] # "now"
  /\ life' = [life EXCEPT ![a] = "closed"]
  /\ UNCHANGED <<money, bills>>

(* Every step below moves its attempt.  It is tested first because nearly   *)
(* every step of an implementation moves none.                              *)
Moves(a) == <<life[a], money[a], bills[a]>>' # <<life[a], money[a], bills[a]>>

Next == \E a \in Attempt :
  /\ Moves(a)
  /\ \/ Open(a) \/ Hold(a) \/ StartBilling(a) \/ StopBilling(a)
     \/ Release(a) \/ Close(a)

Spec == Init /\ [][Next]_vars

-----------------------------------------------------------------------------

(* Whatever bills belongs to an open attempt whose money is held.           *)
BilledIsCovered ==
  \A a \in Attempt : bills[a] = "now" => life[a] = "open" /\ money[a] = "held"

(* Two attempts of one job never bill at the same time.                     *)
OneBillPerJob ==
  \A a, b \in Attempt : bills[a] = "now" /\ bills[b] = "now"
                          /\ JobOf[a] = JobOf[b] => a = b
=============================================================================
