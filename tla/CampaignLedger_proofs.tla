------------------------ MODULE CampaignLedger_proofs ------------------------
(***************************************************************************)
(* What holds of a campaign's money for any number of attempts, any cap,   *)
(* floor and margin, and any account.  The order is: the ceiling and the   *)
(* reservations, the account, and last the books, with the lemmas about    *)
(* sums over finite sets that they need.                                   *)
(***************************************************************************)
EXTENDS CampaignLedger, FiniteSetTheorems, TLAPS

OpenPhases == {"RESERVED", "CREATING", "LIVE", "TERMINATE"}

(* A POST is sent at most once, by an attempt that is creating, and a bill  *)
(* is final only for a pod that is gone.                                    *)
Created ==
  /\ made \subseteq posted /\ up \ {Foreign} \subseteq made
  /\ aged \subseteq made \ up
  /\ \A a \in posted : phase[a] \notin {"NONE", "RESERVED"}

(* A pod that is up belongs to an attempt on its way to being deleted.      *)
Reserved == \A a \in up \ {Foreign} : phase[a] \in {"CREATING", "LIVE", "TERMINATE"}

Within == Cardinality(Open(phase)) <= width

IInv == TypeOK /\ Created /\ Reserved /\ Within /\ CeilingHolds

-----------------------------------------------------------------------------
(* The open attempts, counted. *)

LEMMA OpenIsFinite ==
  ASSUME NEW ps
  PROVE  IsFiniteSet(Open(ps)) /\ Cardinality(Open(ps)) \in Nat
<1>1. Open(ps) \subseteq Attempt
  BY DEF Open, In
<1> QED
  BY <1>1, CampaignLedgerAssumption, FS_Subset, FS_CardinalityType

LEMMA OpenNone ==
  ASSUME NEW ps, \A a \in Attempt : ps[a] = "NONE"
  PROVE  Cardinality(Open(ps)) = 0
<1>1. Open(ps) = {}
  BY DEF Open, In
<1> QED
  BY <1>1, FS_EmptySet

LEMMA OpenEnters ==
  ASSUME phase \in [Attempt -> Phases], NEW a \in Attempt, NEW p \in Phases,
         Enters(a, p)
  PROVE  Open(phase') = IF p \in OpenPhases THEN Open(phase) \cup {a}
                                            ELSE Open(phase) \ {a}
  BY DEF Enters, Open, In, OpenPhases

LEMMA OpenGrows ==
  ASSUME phase \in [Attempt -> Phases], NEW a \in Attempt, NEW p \in OpenPhases,
         Enters(a, p), a \notin Open(phase)
  PROVE  Cardinality(Open(phase')) = Cardinality(Open(phase)) + 1
<1>1. Open(phase') = Open(phase) \cup {a}
  BY OpenEnters DEF OpenPhases, Phases
<1> QED
  BY <1>1, OpenIsFinite, FS_AddElement

LEMMA OpenStays ==
  ASSUME phase \in [Attempt -> Phases], NEW a \in Attempt, NEW p \in OpenPhases,
         Enters(a, p), a \in Open(phase)
  PROVE  Cardinality(Open(phase')) = Cardinality(Open(phase))
<1>1. Open(phase') = Open(phase)
  BY OpenEnters DEF OpenPhases, Phases
<1> QED
  BY <1>1

LEMMA OpenShrinks ==
  ASSUME phase \in [Attempt -> Phases], NEW a \in Attempt,
         NEW p \in Phases \ OpenPhases, Enters(a, p), a \in Open(phase)
  PROVE  Cardinality(Open(phase)) = Cardinality(Open(phase')) + 1
<1>1. Open(phase') = Open(phase) \ {a}
  BY OpenEnters
<1>2. Cardinality(Open(phase')) = Cardinality(Open(phase)) - 1
  BY <1>1, OpenIsFinite, FS_RemoveElement
<1> QED
  BY <1>2, OpenIsFinite

LEMMA OneMore ==
  \A c, n \in Nat : c * (n + 1) = c * n + c /\ c * n \in Nat
  OBVIOUS

LEMMA InitHolds == Init => IInv
<1> SUFFICES ASSUME Init PROVE IInv
  OBVIOUS
<1> USE CampaignLedgerAssumption DEF Init
<1>1. Cardinality(Open(phase)) = 0
  BY OpenNone
<1>2. TypeOK
  <2>1. terms \in Terms /\ terms.width \in {1, 2}
    BY DEF Term
  <2>2. /\ inventory \in Listing /\ phase \in [Attempt -> Phases]
        /\ view \in [Attempt -> [read : BOOLEAN, pods : SUBSET Pods, balance : Int]]
    BY DEF Listing, NoListing, Phases, NoView
  <2>3. up \subseteq Pods /\ bill \in [Attempt -> 0..Cap] /\ funds \in Int
    BY DEF Pods
  <2>4. width \in 1..terms.width /\ settled \in Nat /\ balance \in Int
    BY <2>1
  <2>5. posted \subseteq Attempt /\ made \subseteq Attempt /\ aged \subseteq Attempt
        /\ fresh \in BOOLEAN
    OBVIOUS
  <2> QED
    BY <2>1, <2>2, <2>3, <2>4, <2>5 DEF TypeOK
<1>3. Created /\ Reserved
  BY DEF Created, Reserved
<1>4. Within
  BY <1>1 DEF Within
<1>5. CeilingHolds
  BY <1>1 DEF CeilingHolds, Liability
<1> QED
  BY <1>2, <1>3, <1>4, <1>5 DEF IInv

-----------------------------------------------------------------------------
(* Steps that move no phase and no money of the ledger. *)

LEMMA AccountTypes ==
  ASSUME TypeOK, NEW a \in Attempt,
         Post(a) \/ (\E cost \in 0..Cap : PodGoes(a, cost)) \/ Age(a)
           \/ ForeignGoes \/ Observe(a)
  PROVE  TypeOK'
<1> USE CampaignLedgerAssumption DEF TypeOK, Pods, ledger, account
<1>1. CASE Post(a)
  BY <1>1 DEF Post
<1>2. ASSUME NEW cost \in 0..Cap, PodGoes(a, cost) PROVE TypeOK'
  BY <1>2 DEF PodGoes
<1>3. CASE Age(a)
  <2>1. NoView \in [read : BOOLEAN, pods : SUBSET Pods, balance : Int]
    BY DEF NoView
  <2>2. view' \in [Attempt -> [read : BOOLEAN, pods : SUBSET Pods, balance : Int]]
    BY <1>3, <2>1 DEF Age
  <2> QED
    BY <1>3, <2>2 DEF Age
<1>4. CASE ForeignGoes
  BY <1>4 DEF ForeignGoes
<1>5. CASE Observe(a)
  <2>1. [read |-> TRUE, pods |-> up, balance |-> funds]
          \in [read : BOOLEAN, pods : SUBSET Pods, balance : Int]
    OBVIOUS
  <2>2. view' \in [Attempt -> [read : BOOLEAN, pods : SUBSET Pods, balance : Int]]
    BY <1>5, <2>1 DEF Observe
  <2> QED
    BY <1>5, <2>2 DEF Observe
<1> QED
  BY <1>1, <1>2, <1>3, <1>4, <1>5

LEMMA AccountHolds ==
  ASSUME IInv, NEW a \in Attempt,
         Post(a) \/ (\E cost \in 0..Cap : PodGoes(a, cost)) \/ Age(a)
           \/ ForeignGoes \/ Observe(a)
  PROVE  IInv'
<1>1. TypeOK'
  BY AccountTypes DEF IInv
<1>2. UNCHANGED <<terms, width, settled, phase>>
  BY DEF Post, PodGoes, Age, ForeignGoes, Observe, ledger, account
<1>3. Within' /\ CeilingHolds'
  BY <1>2 DEF IInv, Within, CeilingHolds, Liability, Open, In
<1>4. Created' /\ Reserved'
  <2> USE CampaignLedgerAssumption DEF IInv, TypeOK, Created, Reserved, Pods
  <2>1. CASE Post(a)
    BY <2>1, <1>2 DEF Post
  <2>2. ASSUME NEW cost \in 0..Cap, PodGoes(a, cost) PROVE Created' /\ Reserved'
    BY <2>2, <1>2 DEF PodGoes
  <2>3. CASE Age(a)
    BY <2>3, <1>2 DEF Age
  <2>4. CASE ForeignGoes
    BY <2>4, <1>2 DEF ForeignGoes
  <2>5. CASE Observe(a)
    BY <2>5 DEF Observe, account, ledger
  <2> QED
    BY <2>1, <2>2, <2>3, <2>4, <2>5
<1> QED
  BY <1>1, <1>3, <1>4 DEF IInv

LEMMA BooksHold ==
  ASSUME IInv,
         \/ AuthorizeWidthTwo \/ UNCHANGED vars
         \/ \E a \in Attempt, complete \in BOOLEAN : RecordSnapshot(a, complete)
  PROVE  IInv'
<1>1. UNCHANGED <<terms, settled, phase, account>>
  BY DEF AuthorizeWidthTwo, RecordSnapshot, vars, ledger
<1>2. width' \in 1..terms'.width /\ width <= width' /\ width \in Int
  BY CampaignLedgerAssumption
     DEF IInv, TypeOK, Term, AuthorizeWidthTwo, RecordSnapshot, vars, ledger
<1>3. TypeOK'
  <2>1. CASE AuthorizeWidthTwo
    BY <2>1, <1>1, <1>2 DEF AuthorizeWidthTwo, IInv, TypeOK, account
  <2>2. CASE UNCHANGED vars
    BY <2>2 DEF IInv, TypeOK, vars, ledger, account
  <2>3. ASSUME NEW a \in Attempt, NEW complete \in BOOLEAN,
               RecordSnapshot(a, complete)
        PROVE  TypeOK'
    <3>1. view[a] \in [read : BOOLEAN, pods : SUBSET Pods, balance : Int]
      BY DEF IInv, TypeOK
    <3>2. inventory' \in Listing /\ balance' \in Int
      BY <2>3, <3>1 DEF RecordSnapshot, Listed, Listing
    <3>3. view' \in [Attempt -> [read : BOOLEAN, pods : SUBSET Pods, balance : Int]]
      BY <2>3 DEF RecordSnapshot, Used, NoView, IInv, TypeOK
    <3> QED
      BY <2>3, <3>2, <3>3, <1>1, <1>2 DEF RecordSnapshot, IInv, TypeOK, account
  <2> QED
    BY <2>1, <2>2, <2>3
<1>4. Created' /\ Reserved'
  BY <1>1 DEF IInv, Created, Reserved, account
<1>5. Within'
  BY <1>1, <1>2, OpenIsFinite DEF IInv, Within, Open, In
<1>6. CeilingHolds'
  BY <1>1 DEF IInv, CeilingHolds, Liability, Open, In
<1> QED
  BY <1>3, <1>4, <1>5, <1>6 DEF IInv

-----------------------------------------------------------------------------
(* Steps that move one attempt's phase. *)

(* Between open phases, or out of them with what has been charged not above *)
(* the cap, the campaign's commitment does not grow.                        *)
LEMMA CommitmentFalls ==
  ASSUME IInv, NEW a \in Attempt, a \in Open(phase), NEW p \in Phases, Enters(a, p),
         UNCHANGED <<terms, width>>,
         \/ p \in OpenPhases /\ settled' = settled
         \/ p \notin OpenPhases /\ \E c \in 0..Cap : settled' = settled + c
  PROVE  Within' /\ CeilingHolds'
<1> DEFINE n == Cardinality(Open(phase))
<1> DEFINE m == Cardinality(Open(phase'))
<1>1. n \in Nat /\ m \in Nat
  BY OpenIsFinite
<1>2. /\ settled \in Nat /\ width \in Int /\ terms.ceiling \in Nat
      /\ Cap \in Nat \ {0} /\ Floor \in Nat /\ Margin \in Nat
      /\ phase \in [Attempt -> Phases]
  BY CampaignLedgerAssumption DEF IInv, TypeOK, Term
<1>3. n <= width /\ n > 0
  <2>1. n # 0
    BY OpenIsFinite, FS_EmptySet
  <2> QED
    BY <2>1, <1>1 DEF IInv, Within
<1>4. Cap * n \in Nat /\ Cap * m \in Nat /\ Cap * n > 0
  <2>1. Cap * n \in Nat /\ Cap * m \in Nat
    BY <1>1, <1>2, OneMore
  <2>2. n - 1 \in Nat /\ n = (n - 1) + 1
    BY <1>1, <1>3
  <2>3. Cap * n = Cap * (n - 1) + Cap /\ Cap * (n - 1) \in Nat
    BY <1>2, <2>2, OneMore
  <2> QED
    BY <2>1, <2>3, <1>2
<1>5. settled + Cap * n + Floor + Margin <= terms.ceiling
  BY <1>2, <1>4 DEF IInv, CeilingHolds, Liability
<1>6. m <= n /\ settled' \in Nat /\ settled' + Cap * m <= settled + Cap * n
  <2>1. CASE p \in OpenPhases /\ settled' = settled
    <3>1. m = n
      BY <2>1, <1>2, OpenStays
    <3> QED
      BY <2>1, <3>1, <1>1, <1>2, <1>4
  <2>2. ASSUME p \notin OpenPhases, NEW c \in 0..Cap, settled' = settled + c
        PROVE  m <= n /\ settled' \in Nat /\ settled' + Cap * m <= settled + Cap * n
    <3>1. n = m + 1
      BY <2>2, <1>2, OpenShrinks
    <3>2. Cap * n = Cap * m + Cap
      BY <3>1, <1>1, <1>2, OneMore
    <3> QED
      BY <2>2, <3>1, <3>2, <1>1, <1>2, <1>4
  <2> QED
    BY <2>1, <2>2
<1>7. Within'
  BY <1>1, <1>2, <1>3, <1>6 DEF Within
<1>8. CeilingHolds'
  BY <1>2, <1>4, <1>5, <1>6 DEF CeilingHolds, Liability
<1> QED
  BY <1>7, <1>8

LEMMA ReserveHolds ==
  ASSUME IInv, NEW a \in Attempt, NEW effective \in {1, 2}, Reserve(a, effective)
  PROVE  IInv'
<1> DEFINE n == Cardinality(Open(phase))
<1>1. /\ Enters(a, "RESERVED") /\ phase \in [Attempt -> Phases] /\ a \notin Open(phase)
      /\ UNCHANGED <<terms, width, settled, balance, fresh, inventory, account, view>>
  BY DEF Reserve, BooksUnchanged, IInv, TypeOK, Open, In
<1>2. n \in Nat /\ Cardinality(Open(phase')) = n + 1
  BY <1>1, OpenGrows, OpenIsFinite DEF OpenPhases
<1>3. TypeOK'
  BY <1>1 DEF IInv, TypeOK, Enters, Phases, account
<1>4. Created' /\ Reserved'
  <2>1. a \notin posted /\ a \notin up \ {Foreign}
    BY DEF Reserve, IInv, Created
  <2> QED
    BY <1>1, <2>1 DEF IInv, TypeOK, Created, Reserved, Enters, account
<1>5. Within'
  BY <1>1, <1>2 DEF Reserve, Admissible, Within
<1>6. CeilingHolds'
  <2>1. /\ settled \in Nat /\ terms.ceiling \in Nat /\ balance \in Int
        /\ Cap \in Nat /\ Floor \in Nat /\ Margin \in Nat
    BY CampaignLedgerAssumption DEF IInv, TypeOK, Term
  <2>2. Cap * (n + 1) = Cap * n + Cap /\ Cap * n \in Nat
    BY <1>2, <2>1, OneMore
  <2>3. settled + Floor + Cap * n + Cap + Margin <= terms.ceiling
    BY <2>1, <2>2 DEF Reserve, Admissible, CommittedWith, Limit, Liability
  <2> QED
    BY <1>1, <1>2, <2>1, <2>2, <2>3 DEF CeilingHolds, Liability
<1> QED
  BY <1>3, <1>4, <1>5, <1>6 DEF IInv

(* The creation bookkeeping survives a move of phase that does not go back  *)
(* before the create, and that leaves no pod of the attempt behind.         *)
LEMMA CreatedSurvives ==
  ASSUME TypeOK, Created, Reserved, NEW a \in Attempt, NEW p \in Phases, Enters(a, p),
         UNCHANGED account, p \notin {"NONE", "RESERVED"},
         a \in up => p \in {"CREATING", "LIVE", "TERMINATE"}
  PROVE  Created' /\ Reserved'
<1>1. phase' = [phase EXCEPT ![a] = p] /\ phase \in [Attempt -> Phases]
  BY DEF Enters, TypeOK
<1>2. up \subseteq Pods /\ posted \subseteq Attempt
  BY DEF TypeOK
<1> QED
  BY <1>1, <1>2, CampaignLedgerAssumption DEF Created, Reserved, account, Pods

LEMMA PhaseTypes ==
  ASSUME TypeOK, NEW a \in Attempt, NEW p \in Phases, Enters(a, p),
         UNCHANGED <<terms, width, account>>, settled' \in Nat,
         inventory' \in Listing, balance' \in Int, fresh' \in BOOLEAN,
         UNCHANGED view \/ Used(a)
  PROVE  TypeOK'
<1>1. view' \in [Attempt -> [read : BOOLEAN, pods : SUBSET Pods, balance : Int]]
  <2>1. NoView \in [read : BOOLEAN, pods : SUBSET Pods, balance : Int]
    BY DEF NoView
  <2> QED
    BY <2>1 DEF TypeOK, Used
<1>2. phase' \in [Attempt -> Phases]
  BY DEF TypeOK, Enters
<1> QED
  BY <1>1, <1>2 DEF TypeOK, account

LEMMA CreatingHolds ==
  ASSUME IInv, NEW a \in Attempt,
         \/ MarkCreating(a) \/ BindProviderForCleanup(a) \/ CancelBeforeCreate(a)
         \/ \E same \in BOOLEAN : BindActualQuote(a, same)
  PROVE  IInv'
<1>1. PICK p \in {"CREATING", "LIVE", "TERMINATE", "CANCELLED_BEFORE_CREATE"} :
        /\ Enters(a, p) /\ phase[a] \in {"RESERVED", "CREATING"}
        /\ p = "CANCELLED_BEFORE_CREATE" => a \notin up
        /\ inventory' \in {inventory, NoListing}
        /\ UNCHANGED <<terms, width, settled, balance, fresh, account, view>>
  <2> USE DEF BooksUnchanged
  <2>1. CASE MarkCreating(a)
    BY <2>1 DEF MarkCreating
  <2>2. CASE BindProviderForCleanup(a)
    BY <2>2 DEF BindProviderForCleanup
  <2>3. CASE CancelBeforeCreate(a)
    <3>1. a # Foreign
      BY CampaignLedgerAssumption
    <3>2. a \notin up
      BY <2>3, <3>1 DEF CancelBeforeCreate, IInv, Created, Reserved
    <3> QED
      BY <2>3, <3>2 DEF CancelBeforeCreate
  <2>4. ASSUME NEW same \in BOOLEAN, BindActualQuote(a, same)
        PROVE  \E p \in {"LIVE", "TERMINATE"} :
                 /\ Enters(a, p) /\ phase[a] = "CREATING" /\ UNCHANGED inventory
                 /\ UNCHANGED <<terms, width, settled, balance, fresh, account, view>>
    BY <2>4 DEF BindActualQuote
  <2> QED
    BY <2>1, <2>2, <2>3, <2>4
<1>2. p \in Phases /\ a \in Open(phase) /\ NoListing \in Listing
  BY <1>1 DEF Phases, Open, In, NoListing, Listing
<1>3. TypeOK'
  BY <1>1, <1>2, PhaseTypes DEF IInv, TypeOK
<1>4. Created' /\ Reserved'
  BY <1>1, <1>2, CreatedSurvives DEF IInv
<1>5. Within' /\ CeilingHolds'
  <2>1. CASE p \in OpenPhases
    BY <1>1, <1>2, <2>1, CommitmentFalls
  <2>2. CASE p \notin OpenPhases
    <3>1. 0 \in 0..Cap /\ settled' = settled + 0
      BY <1>1, CampaignLedgerAssumption DEF IInv, TypeOK
    <3> QED
      BY <1>1, <1>2, <2>2, <3>1, CommitmentFalls
  <2> QED
    BY <2>1, <2>2
<1> QED
  BY <1>3, <1>4, <1>5 DEF IInv

LEMMA ProjectionHolds ==
  ASSUME IInv, NEW a \in Attempt, ProjectTerminalLease(a)
  PROVE  IInv'
<1>1. /\ Enters(a, "RECONCILED") /\ phase[a] \in {"CREATING", "LIVE", "TERMINATE"}
      /\ a \in aged /\ settled' = settled + bill[a] /\ bill[a] \in 0..Cap
      /\ UNCHANGED <<terms, width, account>>
  BY DEF ProjectTerminalLease, IInv, TypeOK
<1>2. "RECONCILED" \in Phases \ OpenPhases /\ a \in Open(phase)
  BY <1>1 DEF Phases, OpenPhases, Open, In
<1>3. TypeOK'
  <2>1. view[a] \in [read : BOOLEAN, pods : SUBSET Pods, balance : Int]
    BY DEF IInv, TypeOK
  <2>2. inventory' \in Listing /\ balance' \in Int /\ fresh' \in BOOLEAN /\ Used(a)
    BY <2>1 DEF ProjectTerminalLease, Listed, Listing
  <2>3. settled' \in Nat
    BY <1>1, CampaignLedgerAssumption DEF IInv, TypeOK
  <2> QED
    BY <1>1, <1>2, <2>2, <2>3, PhaseTypes DEF IInv
<1>4. Created' /\ Reserved'
  <2>1. a \notin up
    BY <1>1 DEF IInv, Created
  <2> QED
    BY <1>1, <1>2, <2>1, CreatedSurvives DEF IInv
<1>5. Within' /\ CeilingHolds'
  BY <1>1, <1>2, CommitmentFalls
<1> QED
  BY <1>3, <1>4, <1>5 DEF IInv

LEMMA StepHolds == IInv /\ [Next]_vars => IInv'
<1> SUFFICES ASSUME IInv, [Next]_vars PROVE IInv'
  OBVIOUS
<1>1. CASE AuthorizeWidthTwo \/ UNCHANGED vars
  BY <1>1, BooksHold
<1>2. CASE ForeignGoes
  <2>1. CASE Attempt = {}
    <3>1. UNCHANGED <<ledger, view, posted, made, bill, funds, aged>> /\ up' \subseteq up
      BY <1>2 DEF ForeignGoes
    <3> QED
      BY <2>1, <3>1 DEF IInv, TypeOK, Created, Reserved, Within, CeilingHolds,
                         Liability, Open, In, ledger, Pods
  <2>2. ASSUME NEW a \in Attempt PROVE IInv'
    BY <1>2, AccountHolds
  <2> QED
    BY <2>1, <2>2
<1>3. ASSUME NEW a \in Attempt,
             \/ MarkCreating(a) \/ CancelBeforeCreate(a)
             \/ \E complete \in BOOLEAN : RecordSnapshot(a, complete)
             \/ \E effective \in {1, 2} : Reserve(a, effective)
             \/ \E same \in BOOLEAN : BindActualQuote(a, same)
             \/ BindProviderForCleanup(a) \/ ProjectTerminalLease(a)
             \/ Post(a) \/ Age(a) \/ Observe(a)
             \/ \E cost \in 0..Cap : PodGoes(a, cost)
      PROVE  IInv'
  BY <1>3, CreatingHolds, BooksHold, ReserveHolds, ProjectionHolds, AccountHolds
<1> QED
  BY <1>1, <1>2, <1>3 DEF Next

LEMMA Inductive == Spec => []IInv
  BY InitHolds, StepHolds, PTL DEF Spec

-----------------------------------------------------------------------------

(* For any number of attempts and any amounts: what a campaign has paid, may*)
(* still have to pay, and keeps aside never exceeds its hard ceiling.       *)
THEOREM CeilingStaysHeld == Spec => []CeilingHolds
<1>1. IInv => CeilingHolds
  BY DEF IInv
<1> QED
  BY <1>1, Inductive, PTL

(* For any number of attempts and any amounts: a pod of the campaign is up  *)
(* only while its attempt is open, and the open attempts are no more than   *)
(* the ledger was authorized for.                                           *)
THEOREM PodsStayReserved == Spec => []PodsAreReserved
<1>1. IInv => PodsAreReserved
  <2> SUFFICES ASSUME IInv PROVE PodsAreReserved
    OBVIOUS
  <2>1. up \ {Foreign} \subseteq Attempt
    BY DEF IInv, TypeOK, Pods
  <2> QED
    BY <2>1 DEF IInv, Reserved, Within, PodsAreReserved, Open, In
<1> QED
  BY <1>1, Inductive, PTL

(* For any number of attempts and any amounts: the ledger and the account   *)
(* stay of the type the module declares.                                    *)
THEOREM TypeCorrect == Spec => []TypeOK
<1>1. IInv => TypeOK
  BY DEF IInv
<1> QED
  BY <1>1, Inductive, PTL

-----------------------------------------------------------------------------
(* The account.  A recorded or a read balance may be too high by what pods  *)
(* that went since then have cost, and each of them is still paid for: an   *)
(* absence ages before it is settled, and no balance is used that long.     *)

Missed == (made \ up) \ aged

Backed(amount) == funds + Cap * Cardinality(Missed) >= amount

Solvent ==
  /\ \A a \in made \ aged : phase[a] \in {"CREATING", "LIVE", "TERMINATE"}
  /\ fresh => Backed(balance)
  /\ \A a \in Attempt : view[a].read => Backed(view[a].balance)
  /\ AccountSolvent

LEMMA Counts ==
  ASSUME NEW S, S \subseteq Attempt
  PROVE  IsFiniteSet(S) /\ Cardinality(S) \in Nat
  BY CampaignLedgerAssumption, FS_Subset, FS_CardinalityType

LEMMA Scales ==
  /\ \A c, m, n \in Nat : m <= n => c * m <= c * n
  /\ \A c, m, n \in Nat : c * (m + n) = c * m + c * n
  /\ \A c, n \in Nat : c * n \in Nat
<1>1. \A c, m, n \in Nat : c * (m + n) = c * m + c * n
  OBVIOUS
<1>2. \A c, n \in Nat : c * n \in Nat
  OBVIOUS
<1>3. ASSUME NEW c \in Nat, NEW m \in Nat, NEW n \in Nat, m <= n
      PROVE  c * m <= c * n
  <2>1. n - m \in Nat /\ n = m + (n - m)
    BY <1>3
  <2>2. c * n = c * m + c * (n - m)
    BY <2>1, <1>1
  <2>3. c * (n - m) \in Nat /\ c * m \in Nat
    BY <2>1, <1>2
  <2> QED
    BY <2>2, <2>3
<1> QED
  BY <1>1, <1>2, <1>3

LEMMA MissedCounts ==
  ASSUME IInv, Solvent
  PROVE  /\ Missed \subseteq Open(phase) \cap (made \ up)
         /\ Unpaid \subseteq Attempt /\ Missed \subseteq Attempt
         /\ Cardinality(Unpaid) + Cardinality(Missed) <= Cardinality(Open(phase))
<1> DEFINE gone == Open(phase) \cap (made \ up)
<1>1. Open(phase) \subseteq Attempt /\ made \subseteq Attempt
  BY DEF Open, In, IInv, TypeOK
<1>2. Missed \subseteq gone
  BY <1>1 DEF Missed, Solvent, Open, In
<1>3. /\ IsFiniteSet(Open(phase)) /\ IsFiniteSet(gone)
      /\ Cardinality(Open(phase)) \in Nat /\ Cardinality(gone) \in Nat
  BY <1>1, Counts
<1>4. Cardinality(Unpaid) = Cardinality(Open(phase)) - Cardinality(gone)
  <2>1. Unpaid = Open(phase) \ gone
    BY DEF Unpaid
  <2>2. Open(phase) \cap gone = gone
    OBVIOUS
  <2> QED
    BY <2>1, <2>2, <1>3, FS_Difference
<1>5. Cardinality(Missed) <= Cardinality(gone)
  BY <1>2, <1>3, FS_Subset
<1>6. Cardinality(Missed) \in Nat /\ Cardinality(Unpaid) \in Nat
  BY <1>1, Counts DEF Missed, Unpaid
<1> QED
  BY <1>1, <1>2, <1>3, <1>4, <1>5, <1>6 DEF Missed, Unpaid

LEMMA InitSolvent == Init => Solvent
<1> SUFFICES ASSUME Init PROVE Solvent
  OBVIOUS
<1>1. made = {} /\ Open(phase) = {} /\ ~fresh /\ \A a \in Attempt : ~view[a].read
  BY DEF Init, Open, In, NoView
<1> QED
  BY <1>1 DEF Solvent, AccountSolvent

(* The account pays at most the cap for a pod that goes.                    *)
LEMMA PodGoesSolvent ==
  ASSUME IInv, Solvent, NEW a \in Attempt, NEW cost \in 0..Cap, PodGoes(a, cost)
  PROVE  Solvent'
<1>1. /\ a \in up \ {Foreign} /\ a \in made \ aged /\ a \in Open(phase)
      /\ up' = up \ {a} /\ funds' = funds - cost
      /\ UNCHANGED <<made, aged, view, phase, fresh, balance>>
  BY CampaignLedgerAssumption
     DEF PodGoes, IInv, Created, Reserved, Open, In, ledger
<1>2. /\ Missed' = Missed \cup {a} /\ a \notin Missed
      /\ Unpaid' = Unpaid \ {a} /\ a \in Unpaid
  BY <1>1 DEF Missed, Unpaid, Open, In
<1>3. /\ Missed \subseteq Attempt /\ Unpaid \subseteq Attempt
      /\ Cap \in Nat /\ Floor \in Nat /\ funds \in Int /\ cost \in Nat /\ cost <= Cap
      /\ balance \in Int /\ \A b \in Attempt : view[b].balance \in Int
  BY MissedCounts, CampaignLedgerAssumption DEF IInv, TypeOK
<1>4. /\ Cardinality(Missed) \in Nat /\ Cardinality(Unpaid) \in Nat
      /\ Cardinality(Missed') = Cardinality(Missed) + 1
      /\ Cardinality(Unpaid') = Cardinality(Unpaid) - 1
  BY <1>2, <1>3, Counts, FS_AddElement, FS_RemoveElement
<1>5. Cardinality(Unpaid') \in Nat
  BY <1>2, <1>3, Counts
<1>6. Cap * Cardinality(Missed') = Cap * Cardinality(Missed) + Cap
      /\ Cap * Cardinality(Missed) \in Nat
  BY <1>3, <1>4, OneMore
<1>7. Cap * Cardinality(Unpaid) = Cap * Cardinality(Unpaid') + Cap
      /\ Cap * Cardinality(Unpaid') \in Nat
  <2>1. Cardinality(Unpaid) = Cardinality(Unpaid') + 1
    BY <1>4
  <2> QED
    BY <2>1, <1>3, <1>5, OneMore
<1>8. \A amount \in Int : Backed(amount) => Backed(amount)'
  BY <1>1, <1>3, <1>6 DEF Backed
<1>9. AccountSolvent'
  BY <1>1, <1>3, <1>7 DEF Solvent, AccountSolvent
<1> QED
  BY <1>1, <1>3, <1>8, <1>9 DEF Solvent

(* Reserving keeps the floor: the balance admission read is backed.         *)
LEMMA ReserveSolvent ==
  ASSUME IInv, Solvent, NEW a \in Attempt, NEW effective \in {1, 2},
         Reserve(a, effective)
  PROVE  Solvent'
<1> DEFINE n == Cardinality(Open(phase))
           u == Cardinality(Unpaid)
           m == Cardinality(Missed)
<1>1. /\ Enters(a, "RESERVED") /\ phase \in [Attempt -> Phases]
      /\ phase[a] = "NONE" /\ fresh
      /\ UNCHANGED <<settled, balance, fresh, account, view>>
  BY DEF Reserve, BooksUnchanged, IInv, TypeOK, Admissible
<1>2. a \notin made /\ a \notin Unpaid
  BY <1>1 DEF IInv, Created, Unpaid, Open, In
<1>3. Unpaid' = Unpaid \cup {a} /\ Missed' = Missed
  <2>1. Open(phase') = Open(phase) \cup {a}
    BY <1>1, OpenEnters DEF OpenPhases, Phases
  <2> QED
    BY <1>1, <1>2, <2>1 DEF Unpaid, Missed, account
<1>4. /\ n \in Nat /\ u \in Nat /\ m \in Nat /\ u + m <= n
      /\ Cardinality(Unpaid') = u + 1
  BY <1>2, <1>3, MissedCounts, OpenIsFinite, Counts, FS_AddElement
<1>5. /\ settled \in Nat /\ balance \in Int /\ terms.ceiling \in Nat
      /\ Cap \in Nat /\ Floor \in Nat /\ Margin \in Nat /\ funds \in Int
  BY CampaignLedgerAssumption DEF IInv, TypeOK, Term
<1>6. Floor + Cap * n + Cap + Margin <= balance
  <2>1. Cap * n \in Nat
    BY <1>4, <1>5, Scales
  <2> QED
    BY <1>5, <2>1
       DEF Reserve, Admissible, CommittedWith, Limit, Liability
<1>7. Cap * u + Cap * m <= Cap * n /\ Cap * u \in Nat /\ Cap * m \in Nat
  <2>1. u + m \in Nat
    BY <1>4
  <2>2. Cap * (u + m) <= Cap * n /\ Cap * (u + m) = Cap * u + Cap * m
    BY <1>4, <1>5, <2>1, Scales
  <2> QED
    BY <1>4, <1>5, <2>2, Scales
<1>8. funds + Cap * m >= balance
  BY <1>1 DEF Solvent, Backed
<1>9. Cap * n \in Nat /\ Cap * (u + 1) = Cap * u + Cap
  BY <1>4, <1>5, Scales, OneMore
<1>10. funds - Cap * (u + 1) >= Floor
  <2> HIDE DEF u, m, n
  <2> QED
    BY <1>5, <1>6, <1>7, <1>8, <1>9
<1>11. AccountSolvent'
  BY <1>1, <1>4, <1>10 DEF AccountSolvent, account
<1>12. \A amount : Backed(amount)' = Backed(amount)
  BY <1>1, <1>3 DEF Backed, account
<1>13. \A b \in made \ aged : phase'[b] = phase[b]
  BY <1>1, <1>2 DEF Enters
<1> QED
  BY <1>1, <1>11, <1>12, <1>13 DEF Solvent, account

(* A move of phase that opens nothing, and does not leave a pod whose bill  *)
(* is not final.                                                            *)
LEMMA MoveSolvent ==
  ASSUME IInv, Solvent, NEW a \in Attempt, NEW p \in Phases, Enters(a, p),
         a \in Open(phase), UNCHANGED account,
         a \in made \ aged => p \in {"CREATING", "LIVE", "TERMINATE"},
         \/ UNCHANGED <<view, fresh, balance>>
         \/ view[a].read /\ balance' = view[a].balance /\ Used(a)
  PROVE  Solvent'
<1>1. Open(phase') \subseteq Open(phase)
  BY OpenEnters DEF IInv, TypeOK
<1>2. Unpaid' \subseteq Unpaid /\ Missed' = Missed
  BY <1>1 DEF Unpaid, Missed, account
<1>3. Unpaid \subseteq Attempt
  BY MissedCounts
<1>4. /\ Cardinality(Unpaid') <= Cardinality(Unpaid)
      /\ Cardinality(Unpaid') \in Nat /\ Cardinality(Unpaid) \in Nat
  BY <1>2, <1>3, Counts, FS_Subset
<1>5. Cap \in Nat /\ Floor \in Nat /\ funds \in Int
  BY CampaignLedgerAssumption DEF IInv, TypeOK
<1>6. AccountSolvent'
  <2>1. Cap * Cardinality(Unpaid') <= Cap * Cardinality(Unpaid)
        /\ Cap * Cardinality(Unpaid') \in Nat /\ Cap * Cardinality(Unpaid) \in Nat
    BY <1>4, <1>5, Scales
  <2> QED
    BY <1>1, <1>5, <2>1 DEF Solvent, AccountSolvent, account
<1>7. \A amount : Backed(amount)' = Backed(amount)
  BY <1>2 DEF Backed, account
<1>8. \A b \in made \ aged : phase'[b] \in {"CREATING", "LIVE", "TERMINATE"}
  BY DEF Solvent, Enters, IInv, TypeOK
<1>9. /\ fresh' => Backed(balance')
      /\ \A b \in Attempt : view'[b].read => Backed(view'[b].balance)
  BY DEF Solvent, Used, NoView, IInv, TypeOK
<1> QED
  BY <1>6, <1>7, <1>8, <1>9 DEF Solvent, account

LEMMA StepSolvent == IInv /\ Solvent /\ [Next]_vars => Solvent'
<1> SUFFICES ASSUME IInv, Solvent, [Next]_vars PROVE Solvent'
  OBVIOUS
<1> USE CampaignLedgerAssumption
<1>1. CASE AuthorizeWidthTwo \/ UNCHANGED vars
  <2>1. UNCHANGED <<account, view, phase, fresh, balance>>
    BY <1>1 DEF AuthorizeWidthTwo, vars, ledger, account
  <2>2. Missed' = Missed /\ Unpaid' = Unpaid
    BY <2>1 DEF Missed, Unpaid, Open, In, account
  <2> QED
    BY <2>1, <2>2 DEF Solvent, Backed, AccountSolvent, Open, In, account
<1>2. CASE ForeignGoes
  <2>1. /\ up' = up \ {Foreign} /\ Foreign \notin made
        /\ UNCHANGED <<made, aged, funds, view, phase, fresh, balance>>
    BY <1>2 DEF ForeignGoes, IInv, TypeOK, ledger
  <2>2. Missed' = Missed /\ Unpaid' = Unpaid
    BY <2>1 DEF Missed, Unpaid, Open, In
  <2> QED
    BY <2>1, <2>2 DEF Solvent, Backed, AccountSolvent
<1>3. ASSUME NEW a \in Attempt, Post(a) PROVE Solvent'
  <2>1. PICK new \in {{}, {a}} : made' = made \cup new /\ up' = up \cup new
    BY <1>3 DEF Post
  <2>2. /\ a \notin made /\ a \notin aged /\ phase[a] = "CREATING"
        /\ UNCHANGED <<aged, funds, view, phase, fresh, balance>>
    BY <1>3 DEF Post, IInv, Created, ledger
  <2>3. Missed' = Missed /\ Unpaid' = Unpaid
    BY <2>1, <2>2 DEF Missed, Unpaid, Open, In
  <2> QED
    BY <2>1, <2>2, <2>3 DEF Solvent, Backed, AccountSolvent
<1>4. ASSUME NEW a \in Attempt, Age(a) PROVE Solvent'
  <2>1. /\ aged \subseteq aged' /\ ~fresh' /\ \A b \in Attempt : ~view'[b].read
        /\ UNCHANGED <<made, up, funds, phase>>
    BY <1>4 DEF Age, NoView
  <2> QED
    BY <2>1 DEF Solvent, AccountSolvent, Unpaid, Open, In
<1>5. ASSUME NEW a \in Attempt, Observe(a) PROVE Solvent'
  <2>1. /\ \A b \in Attempt : \/ view'[b] = view[b]
                              \/ view'[b].balance = funds
        /\ UNCHANGED <<made, up, aged, funds, phase, fresh, balance>>
    BY <1>5 DEF Observe, IInv, TypeOK, ledger, account
  <2>2. Backed(funds)
    <3>1. Cardinality(Missed) \in Nat /\ Cap \in Nat /\ funds \in Int
      BY MissedCounts, Counts DEF IInv, TypeOK
    <3>2. Cap * Cardinality(Missed) \in Nat
      BY <3>1, Scales
    <3> QED
      BY <3>1, <3>2 DEF Backed
  <2>3. \A amount : Backed(amount)' = Backed(amount)
    BY <2>1 DEF Backed, Missed
  <2> QED
    BY <2>1, <2>2, <2>3 DEF Solvent, AccountSolvent, Unpaid, Open, In
<1>6. ASSUME NEW a \in Attempt, NEW complete \in BOOLEAN, RecordSnapshot(a, complete)
      PROVE  Solvent'
  <2>1. /\ view[a].read /\ balance' = view[a].balance /\ Used(a)
        /\ UNCHANGED <<made, up, aged, funds, phase>>
    BY <1>6 DEF RecordSnapshot, account
  <2>2. \A amount : Backed(amount)' = Backed(amount)
    BY <2>1 DEF Backed, Missed
  <2>3. \A b \in Attempt : view'[b].read => view'[b] = view[b]
    BY <2>1 DEF Used, NoView, IInv, TypeOK
  <2> QED
    BY <2>1, <2>2, <2>3 DEF Solvent, AccountSolvent, Unpaid, Open, In
<1>7. ASSUME NEW a \in Attempt,
             \/ MarkCreating(a) \/ CancelBeforeCreate(a)
             \/ \E same \in BOOLEAN : BindActualQuote(a, same)
             \/ BindProviderForCleanup(a) \/ ProjectTerminalLease(a)
      PROVE  Solvent'
  <2>1. PICK p \in Phases :
          /\ Enters(a, p) /\ UNCHANGED account
          /\ phase[a] \in {"RESERVED", "CREATING", "LIVE", "TERMINATE"}
          /\ a \in made \ aged => p \in {"CREATING", "LIVE", "TERMINATE"}
          /\ \/ UNCHANGED <<view, fresh, balance>>
             \/ view[a].read /\ balance' = view[a].balance /\ Used(a)
    <3> USE DEF Phases, BooksUnchanged
    <3>1. CASE MarkCreating(a)
      BY <1>7, <3>1 DEF MarkCreating
    <3>2. CASE CancelBeforeCreate(a)
      <4>1. a \notin made
        BY <3>2 DEF CancelBeforeCreate, IInv, Created
      <4> QED
        BY <3>2, <4>1 DEF CancelBeforeCreate
    <3>3. ASSUME NEW same \in BOOLEAN, BindActualQuote(a, same)
          PROVE  \E p \in {"LIVE", "TERMINATE"} :
                   /\ Enters(a, p) /\ phase[a] = "CREATING"
                   /\ UNCHANGED <<account, view, fresh, balance>>
      BY <3>3 DEF BindActualQuote
    <3>4. CASE BindProviderForCleanup(a)
      BY <3>4 DEF BindProviderForCleanup
    <3>5. CASE ProjectTerminalLease(a)
      BY <3>5 DEF ProjectTerminalLease
    <3> QED
      BY <1>7, <3>1, <3>2, <3>3, <3>4, <3>5
  <2>2. a \in Open(phase)
    BY <2>1 DEF Open, In
  <2> QED
    BY <2>1, <2>2, MoveSolvent
<1> QED
  BY <1>1, <1>2, <1>3, <1>4, <1>5, <1>6, <1>7, ReserveSolvent, PodGoesSolvent
     DEF Next

(* For any number of attempts and any amounts: the account can pay the worst*)
(* case of every open attempt and keep its floor, although admission decides*)
(* on a balance that was read before other pods went and were charged.      *)
THEOREM AccountStaysSolvent == Spec => []AccountSolvent
<1>1. Init => IInv /\ Solvent
  BY InitHolds, InitSolvent
<1>2. IInv /\ Solvent /\ [Next]_vars => (IInv /\ Solvent)'
  BY StepHolds, StepSolvent
<1>3. Solvent => AccountSolvent
  BY DEF Solvent
<1> QED
  BY <1>1, <1>2, <1>3, PTL DEF Spec

-----------------------------------------------------------------------------
(* The settled total is a sum over a set, defined by recursion.  Among the  *)
(* subsets of a finite set for which something holds there is a least one,  *)
(* and that replaces the induction.                                         *)

LEMMA LeastSubset ==
  ASSUME NEW S, IsFiniteSet(S), NEW Q, Q \subseteq SUBSET S, Q # {}
  PROVE  \E T \in Q : \A U \in SUBSET T : U # T => U \notin Q
<1>1. IsWellFoundedOn(StrictSubsetOrdering(S), SUBSET S)
  BY FS_StrictSubsetOrderingWellFounded, FS_FiniteSubsetsOfFinite
<1>2. PICK T \in Q : \A U \in Q : <<U, T>> \notin StrictSubsetOrdering(S)
  BY <1>1, WFMin
<1>3. SUFFICES ASSUME NEW U \in SUBSET T, U # T, U \in Q PROVE FALSE
  BY <1>2
<1>4. <<U, T>> \in StrictSubsetOrdering(S)
  BY <1>3 DEF StrictSubsetOrdering
<1> QED
  BY <1>2, <1>3, <1>4

Elem(s) == CHOOSE x \in s : TRUE

(* The recursion of MapThenSumSet, and what it is read off.                 *)
Sums(g, f, S) ==
  g = [s \in SUBSET S |-> IF s = {} THEN 0 ELSE f[Elem(s)] + g[s \ {Elem(s)}]]

Total(f, S) == (CHOOSE g : Sums(g, f, S))[S]

LEMMA ElemIn ==
  ASSUME NEW s, s # {}
  PROVE  Elem(s) \in s /\ s \ {Elem(s)} \in SUBSET s /\ s \ {Elem(s)} # s
<1>1. \E x : x \in s
  OBVIOUS
<1>2. Elem(s) \in s
  BY <1>1 DEF Elem
<1> QED
  BY <1>2

(* Two sums of functions that agree on a set agree on it.                   *)
LEMMA SumsAgree ==
  ASSUME NEW f1, NEW f2, NEW S1, NEW S2, NEW g, NEW h,
         Sums(g, f1, S1), Sums(h, f2, S2),
         NEW S, S \subseteq S1, S \subseteq S2, IsFiniteSet(S),
         \A x \in S : f1[x] = f2[x]
  PROVE  g[S] = h[S]
<1> DEFINE Q == {T \in SUBSET S : g[T] # h[T]}
<1>1. SUFFICES ASSUME Q # {} PROVE FALSE
  OBVIOUS
<1>2. PICK T \in Q : \A U \in SUBSET T : U # T => U \notin Q
  <2>1. Q \subseteq SUBSET S
    OBVIOUS
  <2> HIDE DEF Q
  <2> QED
    BY <1>1, <2>1, LeastSubset
<1>3. /\ g[T] = IF T = {} THEN 0 ELSE f1[Elem(T)] + g[T \ {Elem(T)}]
      /\ h[T] = IF T = {} THEN 0 ELSE f2[Elem(T)] + h[T \ {Elem(T)}]
  BY DEF Sums
<1>4. T # {}
  BY <1>2, <1>3
<1>5. Elem(T) \in S /\ g[T \ {Elem(T)}] = h[T \ {Elem(T)}]
  BY <1>2, <1>4, ElemIn
<1> QED
  BY <1>2, <1>3, <1>4, <1>5

(* The recursion has a solution.                                            *)
LEMMA SumsExist ==
  ASSUME NEW f, NEW S, IsFiniteSet(S)
  PROVE  \E g : Sums(g, f, S)
<1> DEFINE Q == {T \in SUBSET S : ~ \E g : Sums(g, f, T)}
<1>1. SUFFICES ASSUME Q # {} PROVE FALSE
  OBVIOUS
<1>2. PICK T \in Q : \A U \in SUBSET T : U # T => U \notin Q
  <2>1. Q \subseteq SUBSET S
    OBVIOUS
  <2> HIDE DEF Q
  <2> QED
    BY <1>1, <2>1, LeastSubset
<1> DEFINE G(U) == CHOOSE g : Sums(g, f, U)
<1>3. \A U \in SUBSET T : U # T => Sums(G(U), f, U)
  <2>1. \A U \in SUBSET T : U # T => \E g : Sums(g, f, U)
    BY <1>2
  <2> QED
    BY <2>1
<1> DEFINE g == [s \in SUBSET T |->
                   IF s = {} THEN 0
                   ELSE f[Elem(s)] + G(s \ {Elem(s)})[s \ {Elem(s)}]]
<1>4. ASSUME NEW s \in SUBSET T, s # T PROVE G(s)[s] = g[s]
  <2>1. Sums(G(s), f, s)
    BY <1>3, <1>4
  <2>2. G(s)[s] = IF s = {} THEN 0 ELSE f[Elem(s)] + G(s)[s \ {Elem(s)}]
    BY <2>1 DEF Sums
  <2>3. ASSUME s # {} PROVE G(s)[s \ {Elem(s)}] = G(s \ {Elem(s)})[s \ {Elem(s)}]
    <3>1. s \ {Elem(s)} \in SUBSET s /\ s \ {Elem(s)} # T /\ s \ {Elem(s)} \in SUBSET T
      BY <1>4, <2>3, ElemIn
    <3>2. Sums(G(s \ {Elem(s)}), f, s \ {Elem(s)})
      BY <1>3, <3>1
    <3>3. IsFiniteSet(s \ {Elem(s)})
      BY <3>1, FS_Subset
    <3> HIDE DEF G
    <3> QED
      BY <2>1, <3>1, <3>2, <3>3, SumsAgree
  <2> QED
    BY <2>2, <2>3
<1>5. \A s \in SUBSET T : s # {} => /\ s \ {Elem(s)} \in SUBSET T
                                    /\ s \ {Elem(s)} # T
  BY ElemIn
<1>6. Sums(g, f, T)
  <2>1. \A s \in SUBSET T :
           s # {} => G(s \ {Elem(s)})[s \ {Elem(s)}] = g[s \ {Elem(s)}]
    BY <1>4, <1>5
  <2> HIDE DEF G
  <2>2. g = [s \in SUBSET T |-> IF s = {} THEN 0 ELSE f[Elem(s)] + g[s \ {Elem(s)}]]
    BY <2>1
  <2> QED
    BY <2>2 DEF Sums
<1> QED
  BY <1>2, <1>6

LEMMA TotalSums ==
  ASSUME NEW f, NEW S, IsFiniteSet(S), NEW T \in SUBSET S
  PROVE  \E g : Sums(g, f, S) /\ g[T] = Total(f, T)
<1>1. PICK g : Sums(g, f, S)
  BY SumsExist
<1>2. IsFiniteSet(T)
  BY FS_Subset
<1>3. Sums(CHOOSE h : Sums(h, f, T), f, T)
  BY <1>2, SumsExist
<1>4. g[T] = (CHOOSE h : Sums(h, f, T))[T]
  BY <1>1, <1>2, <1>3, SumsAgree
<1> QED
  BY <1>1, <1>4 DEF Total

LEMMA TotalStep ==
  ASSUME NEW f, NEW S, IsFiniteSet(S)
  PROVE  Total(f, S) = IF S = {} THEN 0
                       ELSE f[Elem(S)] + Total(f, S \ {Elem(S)})
<1>1. PICK g : Sums(g, f, S) /\ g[S] = Total(f, S)
  BY TotalSums
<1>2. g[S] = IF S = {} THEN 0 ELSE f[Elem(S)] + g[S \ {Elem(S)}]
  BY <1>1 DEF Sums
<1>3. ASSUME S # {} PROVE g[S \ {Elem(S)}] = Total(f, S \ {Elem(S)})
  <2>1. S \ {Elem(S)} \in SUBSET S
    OBVIOUS
  <2>2. PICK h : Sums(h, f, S) /\ h[S \ {Elem(S)}] = Total(f, S \ {Elem(S)})
    BY <2>1, TotalSums
  <2>3. IsFiniteSet(S \ {Elem(S)})
    BY <2>1, FS_Subset
  <2> QED
    BY <1>1, <2>1, <2>2, <2>3, SumsAgree
<1> QED
  BY <1>1, <1>2, <1>3

LEMMA TotalAgrees ==
  ASSUME NEW f1, NEW f2, NEW S, IsFiniteSet(S), \A x \in S : f1[x] = f2[x]
  PROVE  Total(f1, S) = Total(f2, S)
<1>1. PICK g : Sums(g, f1, S) /\ g[S] = Total(f1, S)
  BY TotalSums
<1>2. PICK h : Sums(h, f2, S) /\ h[S] = Total(f2, S)
  BY TotalSums
<1> QED
  BY <1>1, <1>2, SumsAgree

LEMMA TotalType ==
  ASSUME NEW f, NEW S, IsFiniteSet(S), \A x \in S : f[x] \in Nat
  PROVE  Total(f, S) \in Nat
<1> DEFINE Q == {T \in SUBSET S : Total(f, T) \notin Nat}
<1>1. SUFFICES ASSUME Q # {} PROVE FALSE
  OBVIOUS
<1>2. PICK T \in Q : \A U \in SUBSET T : U # T => U \notin Q
  <2>1. Q \subseteq SUBSET S
    OBVIOUS
  <2> HIDE DEF Q
  <2> QED
    BY <1>1, <2>1, LeastSubset
<1>3. Total(f, T) = IF T = {} THEN 0 ELSE f[Elem(T)] + Total(f, T \ {Elem(T)})
  BY TotalStep, FS_Subset
<1>4. T # {}
  BY <1>2, <1>3
<1>5. Total(f, T \ {Elem(T)}) \in Nat /\ f[Elem(T)] \in Nat
  BY <1>2, <1>4, ElemIn
<1> QED
  BY <1>2, <1>3, <1>4, <1>5

(* Whichever element is taken first.                                        *)
LEMMA TotalWithout ==
  ASSUME NEW f, NEW S, IsFiniteSet(S), \A x \in S : f[x] \in Nat, NEW a \in S
  PROVE  Total(f, S) = f[a] + Total(f, S \ {a})
<1> DEFINE Q == {T \in SUBSET S : \E y \in T : Total(f, T) # f[y] + Total(f, T \ {y})}
<1>1. SUFFICES ASSUME Q # {} PROVE FALSE
  OBVIOUS
<1>2. PICK T \in Q : \A U \in SUBSET T : U # T => U \notin Q
  <2>1. Q \subseteq SUBSET S
    OBVIOUS
  <2> HIDE DEF Q
  <2> QED
    BY <1>1, <2>1, LeastSubset
<1>3. PICK y \in T : Total(f, T) # f[y] + Total(f, T \ {y})
  BY <1>2
<1> DEFINE x == Elem(T)
<1>4. x \in T /\ Total(f, T) = f[x] + Total(f, T \ {x})
  <2>1. IsFiniteSet(T)
    BY FS_Subset
  <2> QED
    BY <1>3, <2>1, ElemIn, TotalStep
<1>5. x # y
  BY <1>3, <1>4
<1> HIDE DEF x
<1>6. Total(f, T \ {x}) = f[y] + Total(f, (T \ {x}) \ {y})
  <2>1. T \ {x} \in SUBSET T /\ T \ {x} # T /\ y \in T \ {x}
    BY <1>4, <1>5
  <2> QED
    BY <1>2, <2>1
<1>7. Total(f, T \ {y}) = f[x] + Total(f, (T \ {y}) \ {x})
  <2>1. T \ {y} \in SUBSET T /\ T \ {y} # T /\ x \in T \ {y}
    BY <1>4, <1>5
  <2> QED
    BY <1>2, <2>1
<1>8. (T \ {x}) \ {y} = (T \ {y}) \ {x}
  OBVIOUS
<1>9. Total(f, (T \ {y}) \ {x}) \in Nat /\ f[x] \in Nat /\ f[y] \in Nat
  <2>1. (T \ {y}) \ {x} \in SUBSET S
    OBVIOUS
  <2>2. IsFiniteSet((T \ {y}) \ {x})
    BY <2>1, FS_Subset
  <2>3. \A z \in (T \ {y}) \ {x} : f[z] \in Nat
    OBVIOUS
  <2> QED
    BY <2>2, <2>3, <1>4, TotalType
<1>10. f[x] + (f[y] + Total(f, (T \ {y}) \ {x})) = f[y] + (f[x] + Total(f, (T \ {y}) \ {x}))
  BY <1>9
<1> QED
  BY <1>3, <1>4, <1>6, <1>7, <1>8, <1>10

-----------------------------------------------------------------------------
(* The books. *)

Reconciled(ps) == In(ps, {"RECONCILED"})

LEMMA BooksAreTotal == BooksBalance <=> settled = Total(bill, Reconciled(phase))
  BY DEF BooksBalance, Reconciled, In, MapThenSumSet, MapThenFoldSet, Total, Sums, Elem

LEMMA BooksAreTotalNext ==
  BooksBalance' <=> settled' = Total(bill', Reconciled(phase'))
  BY DEF BooksBalance, Reconciled, In, MapThenSumSet, MapThenFoldSet, Total, Sums, Elem

(* Only what a settled attempt has cost counts, and it is final.            *)
LEMMA StepBalances ==
  ASSUME IInv, BooksBalance, [Next]_vars
  PROVE  BooksBalance'
<1>1. /\ phase \in [Attempt -> Phases] /\ bill \in [Attempt -> 0..Cap] /\ Cap \in Nat
      /\ IsFiniteSet(Attempt)
  BY CampaignLedgerAssumption DEF IInv, TypeOK
<1>2. /\ \A ps : IsFiniteSet(Reconciled(ps))
      /\ \A ps : Reconciled(ps) \subseteq Attempt
  BY <1>1, FS_Subset DEF Reconciled, In
<1>3. \A x \in Attempt : bill[x] \in Nat
  BY <1>1
<1>4. SUFFICES settled' = Total(bill', Reconciled(phase'))
  BY BooksAreTotalNext
<1>5. settled = Total(bill, Reconciled(phase))
  BY BooksAreTotal
<1>6. ASSUME settled' = settled, Reconciled(phase') = Reconciled(phase),
             \A x \in Reconciled(phase) : bill'[x] = bill[x]
      PROVE  settled' = Total(bill', Reconciled(phase'))
  BY <1>2, <1>5, <1>6, TotalAgrees
<1>7. ASSUME NEW a \in Attempt, NEW p \in Phases, Enters(a, p), UNCHANGED <<settled, bill>>,
             phase[a] # "RECONCILED", p # "RECONCILED"
      PROVE  settled' = Total(bill', Reconciled(phase'))
  <2>1. Reconciled(phase') = Reconciled(phase)
    BY <1>1, <1>7 DEF Enters, Reconciled, In
  <2> QED
    BY <1>6, <1>7, <2>1
<1>8. ASSUME NEW a \in Attempt,
             \/ MarkCreating(a) \/ CancelBeforeCreate(a) \/ BindProviderForCleanup(a)
             \/ \E effective \in {1, 2} : Reserve(a, effective)
             \/ \E same \in BOOLEAN : BindActualQuote(a, same)
      PROVE  settled' = Total(bill', Reconciled(phase'))
  <2>1. \E p \in Phases : /\ Enters(a, p) /\ UNCHANGED <<settled, bill>>
                          /\ phase[a] # "RECONCILED" /\ p # "RECONCILED"
    BY <1>8 DEF MarkCreating, CancelBeforeCreate, BindProviderForCleanup, Reserve,
       BindActualQuote, BooksUnchanged, account, Phases
  <2> QED
    BY <1>7, <2>1
<1>9. ASSUME NEW a \in Attempt, ProjectTerminalLease(a)
      PROVE  settled' = Total(bill', Reconciled(phase'))
  <2>1. /\ Enters(a, "RECONCILED") /\ phase[a] # "RECONCILED"
        /\ settled' = settled + bill[a] /\ bill' = bill
    BY <1>9 DEF ProjectTerminalLease, account
  <2>2. a \in Reconciled(phase') /\ Reconciled(phase') \ {a} = Reconciled(phase)
    BY <1>1, <2>1 DEF Enters, Reconciled, In
  <2>3. Total(bill, Reconciled(phase')) = bill[a] + Total(bill, Reconciled(phase))
    BY <1>2, <1>3, <2>2, TotalWithout
  <2>4. Total(bill, Reconciled(phase)) \in Nat /\ bill[a] \in Nat
    BY <1>2, <1>3, TotalType
  <2> QED
    BY <1>5, <2>1, <2>3, <2>4
<1>10. ASSUME NEW a \in Attempt, NEW cost \in 0..Cap, PodGoes(a, cost)
       PROVE  settled' = Total(bill', Reconciled(phase'))
  <2>1. phase[a] # "RECONCILED"
    BY <1>10, CampaignLedgerAssumption DEF PodGoes, IInv, Reserved
  <2>2. /\ UNCHANGED <<settled, phase>> /\ bill' = [bill EXCEPT ![a] = cost]
    BY <1>10 DEF PodGoes, ledger
  <2>3. \A x \in Reconciled(phase) : bill'[x] = bill[x]
    BY <1>1, <2>1, <2>2 DEF Reconciled, In
  <2> QED
    BY <1>6, <2>2, <2>3
<1>11. CASE UNCHANGED <<settled, phase, bill>>
  BY <1>6, <1>11
<1>12. ASSUME \/ AuthorizeWidthTwo \/ ForeignGoes \/ UNCHANGED vars
              \/ \E a \in Attempt : \/ Post(a) \/ Age(a) \/ Observe(a)
                                    \/ \E complete \in BOOLEAN : RecordSnapshot(a, complete)
       PROVE  UNCHANGED <<settled, phase, bill>>
  BY <1>12 DEF AuthorizeWidthTwo, ForeignGoes, Post, Age, Observe, RecordSnapshot,
     vars, ledger, account
<1> QED
  BY <1>8, <1>9, <1>10, <1>11, <1>12 DEF Next

(* For any number of attempts and any amounts: the settled total is what    *)
(* the pods of the settled attempts have cost, each counted once, and a     *)
(* settled attempt costs nothing more.                                      *)
THEOREM BooksStayBalanced == Spec => []BooksBalance
<1>1. Init => IInv /\ BooksBalance
  <2>1. ASSUME Init PROVE BooksBalance
    <3>1. Reconciled(phase) = {} /\ settled = 0
      BY <2>1 DEF Init, Reconciled, In
    <3>2. Total(bill, {}) = 0
      BY TotalStep, FS_EmptySet
    <3> QED
      BY <3>1, <3>2, BooksAreTotal
  <2> QED
    BY <2>1, InitHolds
<1>2. IInv /\ BooksBalance /\ [Next]_vars => (IInv /\ BooksBalance)'
  BY StepHolds, StepBalances
<1> QED
  BY <1>1, <1>2, PTL DEF Spec
=============================================================================
