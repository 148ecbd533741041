---------------------------- MODULE CampaignLedger ----------------------------
(***************************************************************************)
(* The money of a campaign: what its ledger admits, holds and settles for  *)
(* several attempts against one ceiling and one account, from provider     *)
(* snapshots that the ledger records and that time overtakes.              *)
(*                                                                         *)
(* Every ledger operation runs under the file lock and re-reads the        *)
(* document, so it is one step; an operation whose document would not      *)
(* validate raises and writes nothing, so Commits is part of its guard.    *)
(*                                                                         *)
(* A POST makes one pod or none here (CloudLease has the others), so a pod *)
(* is named by its attempt, and an attempt's entry comes down to a phase:  *)
(* LIVE stands for the bound phases LIVE to TERMINATE_REQUESTED that do    *)
(* not freeze admission, TERMINATE for those that do.                      *)
(***************************************************************************)
EXTENDS Integers, FiniteSets, FiniteSetsExt

CONSTANTS
  Attempt,
  Foreign,       \* a pod of somebody else
  Cap,           \* hard_cap_usd of an attempt's quote
  Floor, Margin, \* reserve floor, cleanup and reaper margin
  Terms,         \* campaigns considered, see Term
  Funds          \* balances the account may start with

Term == [ceiling : Nat, width : {1, 2}, policy : {"refuse", "tolerate"}]

ASSUME CampaignLedgerAssumption ==
  /\ IsFiniteSet(Attempt) /\ Foreign \notin Attempt
  /\ Terms \subseteq Term /\ Funds \subseteq Nat
  /\ Cap \in Nat \ {0} /\ Floor \in Nat /\ Margin \in Nat

VARIABLES
  terms,     \* the campaign's immutable part
  width,     \* authorized_concurrent_attempts
  settled,   \* settled_charges_usd
  balance,   \* the recorded available_usd
  inventory, \* the recorded inventory
  fresh,     \* the recorded snapshot may not have run out yet
  phase,     \* [Attempt -> phase of its entry]
  \* the account
  posted,    \* attempts whose POST is over
  made,      \* attempts whose POST made a pod
  up,        \* pods that are up
  bill,      \* [Attempt -> what its pod has cost]
  funds,     \* clientBalance
  aged,      \* attempts whose bill is final
  view       \* [Attempt -> the pods and balance its process has read]

ledger  == <<terms, width, settled, balance, inventory, fresh, phase>>
account == <<posted, made, up, bill, funds, aged>>
vars    == <<ledger, account, view>>

Pods == Attempt \cup {Foreign}
Listing == [known : BOOLEAN, complete : BOOLEAN, pods : SUBSET Pods]
NoListing == [known |-> FALSE, complete |-> FALSE, pods |-> {}]
Listed(v, whole) == [known |-> TRUE, complete |-> whole, pods |-> v.pods]

NoView == [read |-> FALSE, pods |-> {}, balance |-> 0]

Phases == {"NONE", "RESERVED", "CANCELLED_BEFORE_CREATE", "CREATING", "LIVE",
           "TERMINATE", "RECONCILED"}

TypeOK ==
  /\ terms \in Terms /\ width \in 1..terms.width
  /\ settled \in Nat /\ balance \in Int /\ funds \in Int
  /\ inventory \in Listing /\ fresh \in BOOLEAN
  /\ phase \in [Attempt -> Phases]
  /\ posted \subseteq Attempt /\ made \subseteq Attempt /\ aged \subseteq Attempt
  /\ up \subseteq Pods
  /\ bill \in [Attempt -> 0..Cap]
  /\ view \in [Attempt -> [read : BOOLEAN, pods : SUBSET Pods, balance : Int]]

Init ==
  /\ terms \in Terms /\ width = 1 /\ settled = 0
  /\ balance = 0 /\ inventory = NoListing /\ fresh = FALSE
  /\ phase = [a \in Attempt |-> "NONE"]
  /\ posted = {} /\ made = {} /\ up \in {{}, {Foreign}} /\ aged = {}
  /\ bill = [a \in Attempt |-> 0] /\ funds \in Funds
  /\ view = [a \in Attempt |-> NoView]

-----------------------------------------------------------------------------
In(ps, phases) == {a \in Attempt : ps[a] \in phases}

Open(ps)      == In(ps, {"RESERVED", "CREATING", "LIVE", "TERMINATE"})
KnownPods(ps) == In(ps, {"LIVE", "TERMINATE"})
Unknown(list, ps) == list.pods \ KnownPods(ps)

(* _validate_document: bound pods of open attempts are in the inventory. *)
Commits(list, ps) == list.known => KnownPods(ps) \subseteq list.pods

Liability == Cap * Cardinality(Open(phase))
LimitByCeiling == terms.ceiling
Limit == IF settled + balance < terms.ceiling THEN settled + balance
                                              ELSE terms.ceiling
CommittedWithOpen(new) == Floor + Liability + new + Margin
CommittedWith(new) == settled + Floor + Liability + new + Margin

(* _admission_decision *)
Admissible(effective) ==
  /\ inventory.known /\ inventory.complete /\ fresh
  /\ Unknown(inventory, phase) # {} => terms.policy = "tolerate"
  /\ In(phase, {"CREATING", "TERMINATE"}) = {}
  /\ Cardinality(Open(phase)) + 1 <= width
  /\ Cardinality(Open(phase)) + 1 <= effective
  /\ CommittedWith(Cap) <= Limit

-----------------------------------------------------------------------------
(* Ledger operations, by the process that works on attempt a: its           *)
(* controller or the reaper.                                                *)

Enters(a, p) == phase' = [phase EXCEPT ![a] = p]
Used(a) == view' = [view EXCEPT ![a] = NoView]
BooksUnchanged == UNCHANGED <<terms, width, settled, balance, fresh>>

(* A listing that did not converge is recorded as incomplete. *)
RecordSnapshot(a, complete) ==
  /\ view[a].read
  /\ balance' = view[a].balance /\ inventory' = Listed(view[a], complete)
  /\ fresh' = TRUE /\ Commits(inventory', phase)
  /\ Used(a)
  /\ UNCHANGED <<terms, width, settled, phase, account>>

AuthorizeWidthTwoAlways ==
  /\ width = 1 /\ width' = 2
  /\ UNCHANGED <<terms, settled, balance, inventory, fresh, phase, account, view>>

AuthorizeWidthTwo ==
  /\ terms.width = 2 /\ width = 1
  /\ width' = 2
  /\ UNCHANGED <<terms, settled, balance, inventory, fresh, phase, account, view>>

Reserve(a, effective) ==
  /\ phase[a] = "NONE" /\ Admissible(effective)
  /\ Enters(a, "RESERVED") /\ Commits(inventory, phase')
  /\ UNCHANGED <<inventory, account, view>> /\ BooksUnchanged

MarkCreating(a) ==
  /\ phase[a] = "RESERVED"
  /\ Enters(a, "CREATING") /\ Commits(inventory, phase')
  /\ UNCHANGED <<inventory, account, view>> /\ BooksUnchanged

CancelLostCreate(a) ==
  /\ \/ phase[a] = "RESERVED"
     \/ phase[a] = "CREATING" /\ a \in posted
  /\ Enters(a, "CANCELLED_BEFORE_CREATE") /\ Commits(inventory, phase')
  /\ UNCHANGED <<inventory, account, view>> /\ BooksUnchanged

(* Without a POST, or with one that is known to have made nothing. *)
CancelBeforeCreate(a) ==
  /\ \/ phase[a] = "RESERVED"
     \/ phase[a] = "CREATING" /\ a \in posted \ made
  /\ Enters(a, "CANCELLED_BEFORE_CREATE") /\ Commits(inventory, phase')
  /\ UNCHANGED <<inventory, account, view>> /\ BooksUnchanged

(* The pod of the response, under the quote it was reserved with, or under  *)
(* one that must be terminated at once.                                     *)
BindActualQuote(a, same) ==
  /\ phase[a] = "CREATING" /\ a \in made
  /\ Enters(a, IF same THEN "LIVE" ELSE "TERMINATE") /\ Commits(inventory, phase')
  /\ UNCHANGED <<inventory, account, view>> /\ BooksUnchanged

(* A pod the inventory does not show makes the inventory void. *)
BindProviderForCleanup(a) ==
  /\ phase[a] = "CREATING" /\ a \in made
  /\ Enters(a, "TERMINATE")
  /\ inventory' = IF a \in inventory.pods THEN inventory ELSE NoListing
  /\ Commits(inventory', phase')
  /\ UNCHANGED <<account, view>> /\ BooksUnchanged

(* What project_terminal_lease demands of the complete listing it is given. *)
TerminalSnapshotSafe(list, a) ==
  /\ Unknown(list, phase) # {} => terms.policy = "tolerate"
  /\ a \notin list.pods

ProjectAtCap(a) ==
  /\ phase[a] \in {"CREATING", "LIVE", "TERMINATE"} /\ a \in aged
  /\ view[a].read /\ TerminalSnapshotSafe(Listed(view[a], TRUE), a)
  /\ Enters(a, "RECONCILED")
  /\ settled' = settled + Cap
  /\ balance' = view[a].balance /\ inventory' = Listed(view[a], TRUE)
  /\ fresh' = TRUE /\ Commits(inventory', phase')
  /\ Used(a)
  /\ UNCHANGED <<terms, width, account>>

ProjectUnreleased(a) == ProjectAtCap(a) /\ Commits(Listed(view[a], TRUE), phase)

(* finalize_campaign_after_absence: absence, charge and snapshot go in      *)
(* together, and release the attempt.                                       *)
ProjectTerminalLease(a) ==
  /\ phase[a] \in {"CREATING", "LIVE", "TERMINATE"} /\ a \in aged
  /\ view[a].read /\ TerminalSnapshotSafe(Listed(view[a], TRUE), a)
  /\ Enters(a, "RECONCILED")
  /\ settled' = settled + bill[a]
  /\ balance' = view[a].balance /\ inventory' = Listed(view[a], TRUE)
  /\ fresh' = TRUE /\ Commits(inventory', phase')
  /\ Used(a)
  /\ UNCHANGED <<terms, width, account>>

-----------------------------------------------------------------------------
(* The account. *)

Post(a) ==
  /\ phase[a] = "CREATING" /\ a \notin posted
  /\ posted' = posted \cup {a}
  /\ \E new \in {{}, {a}} : made' = made \cup new /\ up' = up \cup new
  /\ UNCHANGED <<bill, funds, aged, view, ledger>>

(* A pod goes, by our DELETE or otherwise, and has cost up to the cap that  *)
(* its deadlines bound.                                                     *)
PodGoes(a, cost) ==
  /\ a \in up
  /\ up' = up \ {a}
  /\ bill' = [bill EXCEPT ![a] = cost] /\ funds' = funds - cost
  /\ UNCHANGED <<posted, made, aged, view, ledger>>

(* The stabilization hour after an absence is longer than any listing or    *)
(* recorded snapshot is used for (five minutes).                            *)
Age(a) ==
  /\ a \in made \ (up \cup aged)
  /\ aged' = aged \cup {a}
  /\ view' = [b \in Attempt |-> NoView] /\ fresh' = FALSE
  /\ UNCHANGED <<terms, width, settled, balance, inventory, phase>>
  /\ UNCHANGED <<posted, made, up, bill, funds>>

ForeignGoes ==
  /\ Foreign \in up /\ up' = up \ {Foreign}
  /\ UNCHANGED <<posted, made, bill, funds, aged, view, ledger>>

(* The process of attempt a lists the pods and reads the balance. *)
Observe(a) ==
  /\ view' = [view EXCEPT ![a] = [read |-> TRUE, pods |-> up, balance |-> funds]]
  /\ UNCHANGED <<account, ledger>>

Next ==
  \/ AuthorizeWidthTwo \/ ForeignGoes
  \/ \E a \in Attempt :
       \/ MarkCreating(a) \/ CancelBeforeCreate(a)
       \/ \E complete \in BOOLEAN : RecordSnapshot(a, complete)
       \/ \E effective \in {1, 2} : Reserve(a, effective)
       \/ \E same \in BOOLEAN : BindActualQuote(a, same)
       \/ BindProviderForCleanup(a) \/ ProjectTerminalLease(a)
       \/ Post(a) \/ Age(a) \/ Observe(a)
       \/ \E cost \in 0..Cap : PodGoes(a, cost)

Spec == Init /\ [][Next]_vars

(* The reaper's sweeps read the account and settle what they can, again and *)
(* again; absences age.                                                     *)
FairSpec ==
  /\ Spec /\ WF_vars(ForeignGoes)
  /\ \A a \in Attempt : /\ WF_vars(Age(a)) /\ WF_vars(Observe(a))
                        /\ SF_vars(ProjectTerminalLease(a))

-----------------------------------------------------------------------------
(* Properties. *)

(* What the campaign has paid, may still have to pay, and keeps aside never *)
(* exceeds its hard ceiling, whatever was admitted at the same time.        *)
CeilingHolds ==
  settled + Liability > 0 =>
     settled + Liability + Floor + Margin <= terms.ceiling

(* The account can pay every open attempt's worst case and keep its floor,  *)
(* although attempts were admitted from balances read earlier.              *)
Unpaid == Open(phase) \ (made \ up)
AccountSolvent == Open(phase) # {} => funds - Cap * Cardinality(Unpaid) >= Floor

(* A pod of the campaign is up only while its attempt's money is held, and  *)
(* no more attempts are open than the ledger was authorized for.            *)
PodsAreReserved == /\ up \ {Foreign} \subseteq Open(phase)
                   /\ Cardinality(Open(phase)) <= width

(* The settled total is what the pods of settled attempts have cost, each   *)
(* counted once.                                                            *)
BooksBalance == settled = MapThenSumSet(LAMBDA a : bill[a],
                                        In(phase, {"RECONCILED"}))

(* In a campaign of width one, an attempt whose pod is gone is settled.     *)
SettledAlone == \A a \in Attempt :
  (terms.width = 1 /\ a \in made \ up) ~> phase[a] = "RECONCILED"

(* The same of every campaign: bind_provider_for_cleanup makes every        *)
(* identity projectable into deletion and billing proof.                    *)
EverySettles == \A a \in Attempt : (a \in made \ up) ~> phase[a] = "RECONCILED"
=============================================================================
