------------------------- MODULE PaidAttempt_proofs -------------------------
(* What the abstract attempt guarantees, proved for any attempts and jobs.  *)
EXTENDS PaidAttempt, TLAPS

(* Two attempts of one job are never open together.                         *)
OneOpenPerJob ==
  \A a, b \in Attempt : life[a] = "open" /\ life[b] = "open"
                          /\ JobOf[a] = JobOf[b] => a = b

IInv == TypeOK /\ BilledIsCovered /\ OneOpenPerJob

LEMMA InitHolds == Init => IInv
  BY DEF Init, IInv, TypeOK, BilledIsCovered, OneOpenPerJob

LEMMA StepHolds == IInv /\ [Next]_vars => IInv'
<1> SUFFICES ASSUME IInv, [Next]_vars PROVE IInv'
  OBVIOUS
<1> USE DEF IInv, TypeOK, BilledIsCovered, OneOpenPerJob
<1>1. ASSUME NEW a \in Attempt, Open(a) PROVE IInv'
  <2>1. \A b \in Attempt : JobOf[b] = JobOf[a] => life[b] # "open"
    BY <1>1 DEF Open, Rivalled
  <2>2. TypeOK' /\ BilledIsCovered'
    BY <1>1 DEF Open
  <2>3. OneOpenPerJob'
    BY <1>1, <2>1 DEF Open
  <2> QED
    BY <2>2, <2>3
<1>2. ASSUME NEW a \in Attempt, Hold(a) PROVE IInv'
  BY <1>2 DEF Hold
<1>3. ASSUME NEW a \in Attempt, StartBilling(a) PROVE IInv'
  BY <1>3 DEF StartBilling
<1>4. ASSUME NEW a \in Attempt, StopBilling(a) PROVE IInv'
  BY <1>4 DEF StopBilling
<1>5. ASSUME NEW a \in Attempt, Release(a) PROVE IInv'
  BY <1>5 DEF Release
<1>6. ASSUME NEW a \in Attempt, Close(a) PROVE IInv'
  BY <1>6 DEF Close
<1>7. CASE UNCHANGED vars
  BY <1>7 DEF vars
<1> QED
  BY <1>1, <1>2, <1>3, <1>4, <1>5, <1>6, <1>7 DEF Next

LEMMA Inductive == Spec => []IInv
  BY InitHolds, StepHolds, PTL DEF Spec

(* Whatever bills belongs to an open attempt whose money is held: the       *)
(* guarantee behind "the reservation is released only after the exact       *)
(* absence" of campaign.py and cloudlease.py.                               *)
THEOREM BilledStaysCovered == Spec => []BilledIsCovered
<1>1. IInv => BilledIsCovered
  BY DEF IInv
<1> QED
  BY <1>1, Inductive, PTL

(* A retry never bills beside an earlier attempt of its job: what           *)
(* begin_create's refusal is for.                                           *)
THEOREM NeverTwoBills == Spec => []OneBillPerJob
<1>1. IInv => OneBillPerJob
  BY DEF IInv, OneBillPerJob, BilledIsCovered, OneOpenPerJob
<1> QED
  BY <1>1, Inductive, PTL
=============================================================================
