---------------------- MODULE CloudLeaseSettled_proofs ----------------------
(***************************************************************************)
(* A lease closed as settled names only pods that are gone, for any number *)
(* of attempts, pods and crashes.  The inductive invariant Secured follows *)
(* the argument: every id anybody holds belongs to the lease; once the     *)
(* absence has aged nothing of it hides from a listing; and whoever is     *)
(* about to close it has seen a later listing without its ids.             *)
(***************************************************************************)
EXTENDS CloudLease_proofs

AllGone(ids) == \A p \in ids : Gone(p)
NoneHidden(l) == \A p \in Own(l) : pod[p] # "hidden"

(* The states of a lease in which no POST can happen any more. *)
Late == {"ABSENCE_CONFIRMED", "DESTROYING", "TERMINAL"}

Visible(l) == lease[l].st \in Late /\ NoneHidden(l)

(* A pod carries the name of a lease only once a POST created it. *)
Named == \A p \in Pod : owner[p] \in Lease => pod[p] # "none"

(* Every id in the two files, in the reaper's copy and in the controller's  *)
(* memory is a pod under the lease's exact name.                            *)
Owned ==
  \A l \in Lease : /\ lease[l].ids \subseteq Own(l)
                   /\ docs[l].ids \subseteq Own(l)
                   /\ attempt[l].bound \subseteq Own(l)
                   /\ ctl[l].pod \subseteq Own(l)

(* Once the absence has aged, or billing is staged, no pod of the lease     *)
(* hides from the listings.                                                 *)
AgedVisible ==
  \A l \in Lease : clock[l].aged \/ lease[l].staged \/ docs[l].staged
                     => Visible(l)

(* A controller or a reaper about to write TERMINAL is about to settle pods *)
(* that are gone.                                                           *)
ControllerCloses ==
  \A l \in Lease : ctl[l].at = "close" /\ ctl[l].ref
                     => lease[l].staged /\ AllGone(lease[l].ids)

ReaperCloses ==
  \A l \in Lease : sweep.cur = l =>
    /\ sweep.step \in {"finalize", "close"} => docs[l].staged
    /\ sweep.step = "close" => AllGone(docs[l].ids)

Secured == Named /\ Owned /\ AgedVisible /\ ControllerCloses /\ ReaperCloses
           /\ SettledMeansGone

-----------------------------------------------------------------------------
(* How a step may change the account, the records, the ledger and the       *)
(* processes.                                                               *)

(* Pods that are gone stay gone, none changes hands, and no pod appears in  *)
(* hiding under the name of a Late lease.                                   *)
World ==
  /\ \A p \in Pod : Gone(p) => Gone(p)'
  /\ \A l \in Lease : Own(l) \subseteq Own(l)'
  /\ Named'
  /\ \A l \in Lease : Visible(l) => NoneHidden(l)'

(* A record that may be written over that of l. *)
Sound(l, new) ==
  /\ new.ids \subseteq Own(l)
  /\ new.staged => Visible(l)
  /\ new.proof = "settled" => AllGone(new.ids)
  /\ lease[l].st \in Late => new.st \in Late

Writes(l) == /\ \A k \in Lease \ {l} : lease'[k] = lease[k]
             /\ lease'[l] = lease[l] \/ Sound(l, lease'[l])

Binds == \A l \in Lease : attempt'[l].bound \subseteq Own(l)'

Ages == \A l \in Lease : clock'[l].aged => clock[l].aged \/ Visible(l)

(* The controller of l takes a step other than to its close. *)
Moves(l) == /\ \A k \in Lease \ {l} : ctl'[k] = ctl[k]
            /\ ctl'[l].at # "close" /\ ctl'[l].pod \subseteq Own(l)'

(* A controller keeps its step and its pod, and its reference only to a     *)
(* record that stays.                                                       *)
Stays == \A k \in Lease : /\ ctl'[k].at = ctl[k].at /\ ctl'[k].pod = ctl[k].pod
                          /\ ctl'[k].ref => ctl[k].ref /\ lease'[k] = lease[k]

(* The reaper's copies are older copies, blanks, or records. *)
Copies ==
  \A k \in Lease : docs'[k] \in {docs[k], Rec!Unborn, lease[k], lease'[k]}

LEMMA SecuredStep ==
  ASSUME TypeOK, Secured, World, NEW l \in Lease, Writes(l), Copies, Binds,
         Ages, \A k \in Lease : ctl'[k].pod \subseteq Own(k)',
         ControllerCloses', ReaperCloses'
  PROVE  Secured'
<1>1. \A k \in Lease : lease'[k] = lease[k] \/ Sound(k, lease'[k])
  BY DEF Writes
<1>2. \A k \in Lease : lease'[k].ids \subseteq Own(k)
  BY <1>1 DEF Sound, Secured, Owned
<1>3. Owned'
  <2>1. \A k \in Lease : docs'[k].ids \subseteq Own(k)
    BY <1>2 DEF Copies, Secured, Owned, Rec!Unborn
  <2>2. QED
    BY <1>2, <2>1 DEF Owned, World, Binds
<1>4. \A k \in Lease : lease[k].st \in Late => lease'[k].st \in Late
  BY <1>1 DEF Sound
<1>5. AgedVisible'
  <2>1. SUFFICES ASSUME NEW k \in Lease,
                        clock'[k].aged \/ lease'[k].staged \/ docs'[k].staged
                 PROVE  Visible(k)
    BY <1>4 DEF AgedVisible, World, Visible
  <2>2. lease[k].staged \/ docs[k].staged \/ clock[k].aged => Visible(k)
    BY DEF Secured, AgedVisible
  <2>3. lease'[k].staged => Visible(k)
    BY <1>1, <2>2 DEF Sound
  <2>4. docs'[k].staged => Visible(k)
    BY <2>2, <2>3 DEF Copies, Rec!Unborn
  <2>5. QED
    BY <2>1, <2>2, <2>3, <2>4 DEF Ages
<1>6. SettledMeansGone'
  <2>1. SUFFICES ASSUME NEW k \in Lease, lease'[k].proof = "settled"
                 PROVE  AllGone(lease'[k].ids)
    <3>1. \A k \in Lease : lease'[k].ids \subseteq Pod
      BY <1>2 DEF Own
    <3>2. QED
      BY <3>1 DEF SettledMeansGone, World, AllGone
  <2>2. QED
    BY <1>1, <2>1 DEF Sound, Secured, SettledMeansGone, AllGone
<1>7. QED
  BY <1>3, <1>5, <1>6 DEF Secured, World

-----------------------------------------------------------------------------
(* The ways of that kind. *)

LEMMA SameWorld ==
  ASSUME Secured, UNCHANGED provider
  PROVE  World
  BY DEF provider, World, Secured, Named, Gone, Own, Visible, NoneHidden

LEMMA DeletesWorld ==
  ASSUME TypeOK, Secured, NEW removed, Deletes(removed), UNCHANGED owner
  PROVE  World
<1>1. \A p \in Pod : pod'[p] = pod[p] \/ pod'[p] = "deleted"
  BY DEF Deletes
<1>2. QED
  BY <1>1 DEF World, Secured, Named, Gone, Own, Visible, NoneHidden

LEMMA SubmitWorld ==
  ASSUME TypeOK, Secured, NEW l \in Lease, Submit(l)
  PROVE  World
<1>1. lease[l].st = "CREATING"
  BY DEF Submit, MaySubmit
<1>2. PICK made \in SUBSET {p \in Pod : pod[p] = "none"} :
        /\ \E hid \in (IF Lag THEN SUBSET made ELSE {{}}) :
             pod' = [p \in Pod |-> IF p \in hid THEN "hidden"
                                   ELSE IF p \in made THEN "up" ELSE pod[p]]
        /\ owner' = [p \in Pod |-> IF p \in made THEN l ELSE owner[p]]
  BY DEF Submit
<1>3. /\ \A p \in Pod \ made : pod'[p] = pod[p] /\ owner'[p] = owner[p]
      /\ \A p \in made : /\ pod[p] = "none" /\ pod'[p] # "none"
                         /\ owner'[p] = l /\ owner[p] \notin Lease
  <2>1. PICK hid \in SUBSET made :
          pod' = [p \in Pod |-> IF p \in hid THEN "hidden"
                                ELSE IF p \in made THEN "up" ELSE pod[p]]
    BY <1>2
  <2>2. QED
    BY <1>2, <2>1 DEF Secured, Named
<1>4. \A k \in Lease : /\ Own(k) \subseteq Own(k)'
                       /\ k # l => Own(k)' = Own(k)
  BY <1>3 DEF Own
<1>5. \A p \in Pod : Gone(p) => Gone(p)'
  BY <1>3 DEF Gone
<1>6. Named'
  BY <1>3 DEF Named, Secured
<1>7. ASSUME NEW k \in Lease, Visible(k)
      PROVE  NoneHidden(k)'
  <2>1. k # l
    BY <1>1, <1>7 DEF Visible, Late
  <2>2. \A p \in Own(k) : pod'[p] = pod[p]
    BY <1>3 DEF Own
  <2>3. QED
    BY <1>4, <1>7, <2>1, <2>2 DEF Visible, NoneHidden
<1>8. QED
  BY <1>4, <1>5, <1>6, <1>7 DEF World

LEMMA ProviderWorld ==
  ASSUME TypeOK, Secured, NEW p \in Pod,
         Appears(p) \/ Exits(p) \/ Vanishes(p) \/ StrangerArrives(p)
  PROVE  World
<1>1. \A q \in Pod : pod'[q] = pod[q] \/ pod'[q] \in {"up", "exited", "removed"}
  BY DEF Appears, Exits, Vanishes, StrangerArrives, Provider
<1>2. \A q \in Pod : Gone(q) => pod'[q] = pod[q]
  BY DEF Appears, Exits, Vanishes, StrangerArrives, Provider, Gone
<1>3. \A q \in Pod : \/ owner'[q] = owner[q]
                     \/ owner'[q] \notin Lease /\ owner[q] \notin Lease
  BY ConstantsAssumption
     DEF Appears, Exits, Vanishes, StrangerArrives, TypeOK, Secured, Named
<1>4. Named'
  BY <1>1, <1>3 DEF Named, Secured
<1>5. \A l \in Lease : Own(l) = Own(l)'
  BY <1>3 DEF Own
<1>6. \A l \in Lease : Visible(l) => NoneHidden(l)'
  BY <1>1, <1>5 DEF Visible, NoneHidden, Own
<1>7. QED
  BY <1>2, <1>4, <1>5, <1>6 DEF World, Gone

LEMMA OwnedLater ==
  ASSUME Secured, World, NEW l \in Lease
  PROVE  /\ lease[l].ids \subseteq Own(l)' /\ docs[l].ids \subseteq Own(l)'
         /\ attempt[l].bound \subseteq Own(l)' /\ ctl[l].pod \subseteq Own(l)'
  BY DEF Secured, Owned, World

LEMMA SameBinds ==
  ASSUME Secured, World, UNCHANGED attempt
  PROVE  Binds
  BY OwnedLater DEF Binds

LEMMA AttemptBinds ==
  ASSUME TypeOK, Secured, World, NEW l \in Lease, NEW a, SetAttempt(l, a),
         a.bound \subseteq Own(l)'
  PROVE  Binds
<1>1. \A k \in Lease : attempt'[k] = IF k = l THEN a ELSE attempt[k]
  BY DEF TypeOK, SetAttempt
<1>2. QED
  BY <1>1, OwnedLater DEF Binds

LEMMA CommitWrites ==
  ASSUME TypeOK, NEW l \in Lease, NEW new, Sound(l, new),
         CommitC(l, new) \/ StoreR(l, new) \/ CommitR(l, new)
  PROVE  Writes(l)
<1>1. \A k \in Lease : lease'[k] = IF k = l THEN new ELSE lease[k]
  BY DEF TypeOK, CommitC, StoreR, CommitR
<1>2. QED
  BY <1>1 DEF Writes

LEMMA SameWrites ==
  ASSUME NEW l \in Lease, UNCHANGED lease
  PROVE  Writes(l)
  BY DEF Writes

LEMMA ControllerMovesBy ==
  ASSUME TypeOK, Secured, World, NEW l \in Lease, NEW step, step # "close",
         \/ Goto(l, step) \/ Look(l, step)
         \/ \E pods : Take(l, step, pods) /\ pods \subseteq Own(l)'
  PROVE  Moves(l)
<1>1. ctl[l] \in Controllers /\ ctl[l].pod \subseteq Own(l)'
  BY OwnedLater DEF TypeOK
<1>2. CASE Goto(l, step)
  <2> DEFINE c == IF step = "end"
                  THEN [at |-> "end", look |-> {}, pod |-> {}, ref |-> FALSE]
                  ELSE [ctl[l] EXCEPT !.at = step, !.look = {}]
  <2>1. ctl' = [ctl EXCEPT ![l] = c]
    BY <1>2 DEF Goto
  <2>2. c.at # "close" /\ c.pod \subseteq Own(l)'
    BY <1>1 DEF Controllers
  <2> HIDE DEF c
  <2>3. QED
    BY <2>1, <2>2 DEF Moves, TypeOK
<1>3. CASE Look(l, step)
  <2> DEFINE c == [ctl[l] EXCEPT !.at = step, !.look = Listed]
  <2>1. ctl' = [ctl EXCEPT ![l] = c]
    BY <1>3 DEF Look
  <2>2. c.at # "close" /\ c.pod \subseteq Own(l)'
    BY <1>1 DEF Controllers
  <2> HIDE DEF c
  <2>3. QED
    BY <2>1, <2>2 DEF Moves, TypeOK
<1>4. ASSUME NEW pods, Take(l, step, pods), pods \subseteq Own(l)'
      PROVE  Moves(l)
  <2> DEFINE c == [ctl[l] EXCEPT !.at = step, !.look = {}, !.pod = pods]
  <2>1. ctl' = [ctl EXCEPT ![l] = c]
    BY <1>4 DEF Take
  <2>2. c.at # "close" /\ c.pod \subseteq Own(l)'
    BY <1>1, <1>4 DEF Controllers
  <2> HIDE DEF c
  <2>3. QED
    BY <2>1, <2>2 DEF Moves, TypeOK
<1>5. QED
  BY <1>2, <1>3, <1>4

LEMMA LeavingMoves ==
  ASSUME TypeOK, Secured, World, NEW l \in Lease, LeaveCleanup(l)
  PROVE  Moves(l)
<1> DEFINE c == [ctl[l] EXCEPT !.at = IF ctl[l].pod = {} THEN "end" ELSE "exit",
                               !.look = {}, !.ref = FALSE]
<1>1. ctl' = [ctl EXCEPT ![l] = c]
  BY DEF LeaveCleanup
<1>2. c.at # "close" /\ c.pod = ctl[l].pod
  BY DEF Controllers, TypeOK
<1>3. c.pod \subseteq Own(l)'
  BY <1>2, OwnedLater
<1> HIDE DEF c
<1>4. QED
  BY <1>1, <1>2, <1>3 DEF Moves, TypeOK

LEMMA GoneLater ==
  ASSUME World, NEW ids, AllGone(ids), ids \subseteq Pod
  PROVE  AllGone(ids)'
  BY DEF World, AllGone

(* A controller that does not step to its close keeps Secured. *)
LEMMA MovesSecured ==
  ASSUME TypeOK, Secured, World, NEW l \in Lease, Moves(l), Writes(l), Binds,
         Ages, UNCHANGED <<docs, sweep>>
  PROVE  Secured'
<1>1. \A k \in Lease : ctl'[k].pod \subseteq Own(k)'
  BY OwnedLater DEF Moves
<1>2. \A k \in Lease : lease[k].ids \subseteq Pod /\ docs[k].ids \subseteq Pod
  BY DEF Secured, Owned, Own
<1>3. ControllerCloses'
  <2>1. SUFFICES ASSUME NEW k \in Lease, ctl'[k].at = "close", ctl'[k].ref
                 PROVE  lease'[k].staged /\ \A p \in lease'[k].ids : Gone(p)'
    BY DEF ControllerCloses, AllGone
  <2>2. ctl'[k] = ctl[k] /\ lease'[k] = lease[k]
    BY <2>1 DEF Moves, Writes
  <2>3. lease[k].staged /\ AllGone(lease[k].ids)
    BY <2>1, <2>2 DEF Secured, ControllerCloses
  <2>4. QED
    BY <1>2, <2>2, <2>3 DEF World, AllGone
<1>4. ReaperCloses'
  <2>1. \A k \in Lease : AllGone(docs[k].ids) => AllGone(docs[k].ids)'
    BY <1>2, GoneLater
  <2>2. QED
    BY <2>1 DEF ReaperCloses, Secured, AllGone
<1>5. Copies
  BY DEF Copies
<1>6. QED
  BY <1>1, <1>3, <1>4, <1>5, SecuredStep

(* Likewise a reaper that does not step to a finalization. *)
LEMMA SweepSecured ==
  ASSUME TypeOK, Secured, World, NEW l \in Lease, Writes(l), Copies, Binds,
         Ages, Stays, sweep'.step \notin {"finalize", "close"}
  PROVE  Secured'
<1>1. \A k \in Lease : ctl'[k].pod \subseteq Own(k)'
  BY OwnedLater DEF Stays
<1>2. \A k \in Lease : lease[k].ids \subseteq Pod
  BY DEF Secured, Owned, Own
<1>3. ControllerCloses'
  BY <1>2 DEF Stays, ControllerCloses, Secured, World, AllGone
<1>4. ReaperCloses'
  BY DEF ReaperCloses
<1>5. QED
  BY <1>1, <1>3, <1>4, SecuredStep

-----------------------------------------------------------------------------
(* What the operations write is sound. *)

Keeps(r, new) == /\ new.ids \subseteq r.ids
                 /\ new.staged => r.staged
                 /\ new.proof = "settled" => r.proof = "settled"

LEMMA OperationsKeep ==
  ASSUME NEW r \in Rec!Leases
  PROVE  /\ Keeps(r, r)
         /\ Keeps(r, Rec!PostIntent(r))
         /\ Keeps(r, Rec!CancelIntent(r))
         /\ Keeps(r, Rec!CancelPrepared(r))
         /\ Keeps(r, Rec!RequestDestroy(r))
         /\ Keeps(r, Rec!AbsenceRevoked(r))
         /\ Keeps(r, [r EXCEPT !.st = "TERMINAL", !.proof = "expired"])
         /\ \A listing : Keeps(r, Rec!AbsenceChecked(r, listing))
<1> USE DEF Rec!Leases, Keeps
<1>1. /\ Keeps(r, r)
      /\ Keeps(r, Rec!PostIntent(r))
      /\ Keeps(r, Rec!CancelIntent(r))
      /\ Keeps(r, Rec!CancelPrepared(r))
  BY DEF Rec!PostIntent, Rec!CancelIntent, Rec!CancelPrepared
<1>2. /\ Keeps(r, Rec!RequestDestroy(r))
      /\ Keeps(r, Rec!AbsenceRevoked(r))
      /\ Keeps(r, [r EXCEPT !.st = "TERMINAL", !.proof = "expired"])
  BY DEF Rec!RequestDestroy, Rec!AbsenceRevoked
<1>3. \A listing : Keeps(r, Rec!AbsenceChecked(r, listing))
  BY DEF Rec!AbsenceChecked
<1>4. QED
  BY <1>1, <1>2, <1>3

LEMMA LateStays ==
  ASSUME NEW r, NEW new, Rec!MayWrite(r, new), r.st \in Late
  PROVE  new.st \in Late
  BY DEF Rec!MayWrite, Rec!Allowed, Late

LEMMA KeepsSound ==
  ASSUME TypeOK, Secured, NEW l \in Lease, NEW new, Keeps(lease[l], new),
         Rec!MayWrite(lease[l], new)
  PROVE  Sound(l, new)
<1>1. lease[l].st \in Late => new.st \in Late
  BY LateStays
<1>2. new.ids \subseteq lease[l].ids /\ lease[l].ids \subseteq Own(l)
  BY DEF Keeps, Secured, Owned
<1>3. new.staged => Visible(l)
  BY DEF Keeps, Secured, AgedVisible
<1>4. new.proof = "settled" => AllGone(new.ids)
  BY <1>2 DEF Keeps, Secured, SettledMeansGone, AllGone
<1>5. QED
  BY <1>1, <1>2, <1>3, <1>4 DEF Sound

(* Only a record that is not TERMINAL is ever written over. *)
LEMMA UnsettledYet ==
  ASSUME NEW r \in Rec!Leases, NEW new, Rec!Valid(r), Rec!MayWrite(r, new)
  PROVE  r.proof = "none"
  BY DEF Rec!Valid, Rec!MayWrite, Rec!Allowed, Rec!Leases

LEMMA CreatedSound ==
  ASSUME TypeOK, Secured, NEW l \in Lease, NEW p \in ctl[l].pod,
         Rec!Valid(lease[l]),
         Rec!MayWrite(lease[l], Rec!CreateSuccess(lease[l], p))
  PROVE  Sound(l, Rec!CreateSuccess(lease[l], p))
<1> DEFINE new == Rec!CreateSuccess(lease[l], p)
<1>1. lease[l] \in Rec!Leases /\ p \in Own(l)
  BY DEF TypeOK, Secured, Owned
<1>2. /\ new.ids = {p} /\ new.staged = lease[l].staged
      /\ new.proof = lease[l].proof
  BY <1>1 DEF Rec!CreateSuccess, Rec!Leases
<1>3. new.st = "ACTIVE"
  BY <1>1 DEF Rec!CreateSuccess, Rec!Leases
<1>4. lease[l].st \notin Late
  BY <1>3 DEF Rec!MayWrite, Rec!Allowed, Late
<1> HIDE DEF new
<1>5. new.staged => Visible(l)
  BY <1>2 DEF Secured, AgedVisible
<1>6. lease[l].proof = "none"
  BY <1>1, UnsettledYet
<1>7. QED
  BY <1>1, <1>2, <1>4, <1>5, <1>6 DEF Sound, new

LEMMA PostCreateSound ==
  ASSUME TypeOK, Secured, NEW l \in Lease, Rec!Valid(lease[l]),
         lease[l].st = "ACTIVE", NEW look \in SUBSET Pod, NEW known
  PROVE  Sound(l, Rec!PostCreateBound(lease[l], look, Own(l), known))
<1>1. PICK r, own : r = lease[l] /\ own = Own(l)
  OBVIOUS
<1> DEFINE new == Rec!PostCreateBound(r, look, own, known)
<1>2. r \in Rec!Leases /\ Rec!Valid(r) /\ r.st = "ACTIVE"
  BY <1>1 DEF TypeOK
<1>3. new.ids \subseteq r.ids \cup own
  BY <1>2, ValidPostCreate
<1>4. new.staged = r.staged /\ new.proof = r.proof
  BY <1>2 DEF Rec!PostCreateBound, Rec!Ambiguous, Rec!Leases
<1>5. r.proof = "none"
  BY <1>2 DEF Rec!Valid, Rec!Leases
<1> HIDE DEF new
<1>6. Sound(l, new)
  BY <1>1, <1>2, <1>3, <1>4, <1>5
     DEF Sound, Secured, Owned, AgedVisible, Late
<1>7. QED
  BY <1>1, <1>6 DEF new

LEMMA ReconciledSound ==
  ASSUME NEW l \in Lease, NEW new, NEW outcome, NEW ids,
         Reconciled(new, outcome, ids), ids \subseteq Own(l),
         lease[l].st \notin Late
  PROVE  Sound(l, new)
  BY DEF Reconciled, Sound

LEMMA StageSound ==
  ASSUME TypeOK, Secured, NEW l \in Lease, Rec!Valid(lease[l]),
         Rec!MayWrite(lease[l], Rec!StageBilling(lease[l])), clock[l].aged
  PROVE  Sound(l, Rec!StageBilling(lease[l]))
<1> DEFINE new == Rec!StageBilling(lease[l])
<1>1. lease[l] \in Rec!Leases
  BY DEF TypeOK
<1>2. lease[l].proof = "none"
  BY <1>1, UnsettledYet
<1>3. new.ids = lease[l].ids /\ new.proof = "none" /\ new.st = lease[l].st
  BY <1>1, <1>2 DEF Rec!StageBilling, Rec!Leases
<1>4. Visible(l)
  BY DEF Secured, AgedVisible
<1> HIDE DEF new
<1>5. QED
  BY <1>3, <1>4 DEF Sound, Secured, Owned, new

LEMMA BillingSound ==
  ASSUME TypeOK, Secured, NEW l \in Lease, lease[l].staged,
         AllGone(lease[l].ids)
  PROVE  Sound(l, Rec!BillingRecorded(lease[l]))
<1> DEFINE new == Rec!BillingRecorded(lease[l])
<1>1. lease[l] \in Rec!Leases
  BY DEF TypeOK
<1>2. new.ids = lease[l].ids /\ new.st = "TERMINAL"
  BY <1>1 DEF Rec!BillingRecorded, Rec!Leases
<1>3. Visible(l)
  BY DEF Secured, AgedVisible
<1> HIDE DEF new
<1>4. QED
  BY <1>2, <1>3 DEF Sound, Secured, Owned, Late, new

(* The pods that finalize_campaign_after_absence finds unlisted are gone.   *)
LEMMA FinalizedGone ==
  ASSUME TypeOK, Secured, NEW l \in Lease, Visible(l), NEW r,
         MayFinalize(l, r), r.ids \subseteq Own(l)
  PROVE  AllGone(r.ids)
<1>1. SUFFICES ASSUME NEW p \in r.ids PROVE Gone(p)
  BY DEF AllGone
<1>2. p \in Pod /\ owner[p] = l /\ p \notin Listed
  BY DEF MayFinalize, Own
<1>3. pod[p] \in PodStates /\ pod[p] # "none" /\ pod[p] # "hidden"
  BY <1>2 DEF TypeOK, Secured, Named, Visible, NoneHidden, Own
<1>4. QED
  BY <1>2, <1>3 DEF Listed, PodStates, Gone

LEMMA BindingsOwn ==
  ASSUME NEW l, NEW ids, ids \subseteq Own(l)', NEW a, a.bound \subseteq Own(l)',
         a \in Att!Attempts
  PROVE  /\ Att!BoundForCleanup(a, ids).bound \subseteq Own(l)'
         /\ Att!Projected(a, ids).bound \subseteq Own(l)'
         /\ \A why : Att!Cancelled(a, why).bound \subseteq Own(l)'
         /\ Att!MarkedCreating(a).bound \subseteq Own(l)'
         /\ Att!TerminationRequested(a).bound \subseteq Own(l)'
         /\ \A p \in ids, accepted \in BOOLEAN :
              Att!QuoteBound(a, p, accepted).bound \subseteq Own(l)'
         /\ Att!Reserved.bound \subseteq Own(l)'
  BY DEF Att!Attempts, Att!BoundForCleanup, Att!Projected, Att!Cancelled,
         Att!MarkedCreating, Att!TerminationRequested, Att!QuoteBound,
         Att!Reserved, Att!Unreserved

LEMMA SameAges ==
  ASSUME TypeOK, NEW l \in Lease, UNCHANGED clock \/ RestartAge(l)
  PROVE  Ages
  BY DEF TypeOK, RestartAge, StartClock, Ages

-----------------------------------------------------------------------------
(* Every step keeps Secured. *)

LEMMA BeforePostSecured ==
  ASSUME TypeOK, Consistent, Secured, NEW l \in Lease, BeforePost(l)
  PROVE  Secured'
<1>1. UNCHANGED <<provider, docs, sweep>>
  BY DEF BeforePost, ObserveAccount, BeginCreate, BeginRefused, Reserve,
         MarkCreating, PostIntent, AbandonBeforePost, CancelIntent,
         CancelLedger, CancelClose, reaper
<1>2. World
  BY <1>1, SameWorld
<1>3. /\ lease[l] \in Rec!Leases /\ Rec!Valid(lease[l])
      /\ attempt[l] \in Att!Attempts /\ attempt[l].bound \subseteq Own(l)'
  BY <1>2, OwnedLater DEF TypeOK, Consistent, Recorded
<1>4. CASE BeginCreate(l)
  <2> DEFINE new == Rec!Prepared(ctl[l].look)
             c == [at |-> "prepared", look |-> {}, pod |-> {}, ref |-> TRUE]
  <2>1. new.ids = {} /\ ~new.staged /\ new.proof = "none"
    BY DEF Rec!Prepared, Rec!Unborn
  <2>2. lease[l].st = "NONE"
    BY <1>4 DEF BeginCreate, Consistent, NotBegun
  <2> HIDE DEF new
  <2>3. Sound(l, new)
    BY <2>1, <2>2 DEF Sound, Late
  <2>4. /\ lease' = [lease EXCEPT ![l] = new]
        /\ ctl' = [ctl EXCEPT ![l] = c]
        /\ clock' = [clock EXCEPT ![l] = StartClock]
        /\ UNCHANGED attempt
    BY <1>4 DEF BeginCreate, new
  <2>5. Writes(l)
    BY <2>3, <2>4 DEF Writes, TypeOK
  <2>6. Moves(l)
    BY <2>4 DEF Moves, TypeOK
  <2>7. Ages
    BY <2>4, SameAges DEF RestartAge
  <2>8. Binds
    BY <1>2, <2>4, SameBinds
  <2>9. QED
    BY <1>1, <1>2, <2>5, <2>6, <2>7, <2>8, MovesSecured
<1>5. CASE ~BeginCreate(l)
  <2>1. Ages
    BY <1>5, SameAges
       DEF BeforePost, ObserveAccount, BeginRefused, Reserve,
           MarkCreating, PostIntent, AbandonBeforePost, CancelIntent,
           CancelLedger, CancelClose
  <2>2. Moves(l)
    <3>1. \E step : step # "close" /\ (Goto(l, step) \/ Look(l, step))
      BY <1>5 DEF BeforePost, ObserveAccount, BeginRefused, Reserve,
             MarkCreating, PostIntent, AbandonBeforePost, CancelIntent,
             CancelLedger, CancelClose
    <3>2. QED
      BY <1>2, <3>1, ControllerMovesBy
  <2>3. Binds
    <3>1. CASE UNCHANGED attempt
      BY <1>2, <3>1, SameBinds
    <3>2. CASE attempt' # attempt
      <4>1. \/ SetAttempt(l, Att!Reserved)
            \/ SetAttempt(l, Att!MarkedCreating(attempt[l]))
            \/ SetAttempt(l, Att!Cancelled(attempt[l], "PREPARED"))
        BY <1>5, <3>2
           DEF BeforePost, ObserveAccount, BeginRefused, Reserve,
               MarkCreating, PostIntent, AbandonBeforePost, CancelIntent,
               CancelLedger, LedgerCancels, CancelClose, store
      <4>2. /\ Att!Reserved.bound \subseteq Own(l)'
            /\ Att!MarkedCreating(attempt[l]).bound \subseteq Own(l)'
            /\ Att!Cancelled(attempt[l], "PREPARED").bound \subseteq Own(l)'
        BY <1>3, BindingsOwn
      <4>3. QED
        BY <1>2, <4>1, <4>2, AttemptBinds
    <3>3. QED
      BY <3>1, <3>2
  <2>4. Writes(l)
    <3>1. CASE UNCHANGED lease
      BY <3>1, SameWrites
    <3>2. CASE lease' # lease
      <4>1. \E new \in {Rec!PostIntent(lease[l]), Rec!CancelIntent(lease[l]),
                        Rec!CancelPrepared(lease[l])} :
              CanWriteC(l, new) /\ CommitC(l, new)
        BY <1>5, <3>2
           DEF BeforePost, ObserveAccount, BeginRefused, Reserve,
               MarkCreating, PostIntent, AbandonBeforePost, CancelIntent,
               CancelLedger, CancelClose, store
      <4>2. PICK new : /\ CanWriteC(l, new) /\ CommitC(l, new)
                       /\ Keeps(lease[l], new)
        BY <1>3, <4>1, OperationsKeep
      <4>3. Sound(l, new)
        BY <4>2, KeepsSound DEF CanWriteC
      <4>4. QED
        BY <4>2, <4>3, CommitWrites
    <3>3. QED
      BY <3>1, <3>2
  <2>5. QED
    BY <1>1, <1>2, <2>1, <2>2, <2>3, <2>4, MovesSecured
<1>6. QED
  BY <1>4, <1>5

LEMMA PostSecured ==
  ASSUME TypeOK, Consistent, Secured, NEW l \in Lease, Post(l)
  PROVE  Secured'
<1>1. UNCHANGED <<clock, docs, sweep>>
  BY DEF Post, Submit, SubmitNothing, SubmitConflict, RecordCreated,
         RecordFails, BindReturnedId, reaper
<1>2. Ages
  BY <1>1, SameAges
<1>3. /\ lease[l] \in Rec!Leases /\ Rec!Valid(lease[l])
      /\ attempt[l] \in Att!Attempts /\ ctl[l] \in Controllers
  BY DEF TypeOK, Consistent, Recorded
<1>4. CASE Submit(l)
  <2>1. World
    BY <1>4, SubmitWorld
  <2>2. Writes(l) /\ Binds
    BY <1>4, <2>1, SameWrites, SameBinds DEF Submit, store
  <2>3. Moves(l)
    <3>1. \/ Goto(l, "lost")
          \/ \E p \in Pod : Take(l, "sent", {p}) /\ owner'[p] = l
      BY <1>4 DEF Submit
    <3>2. CASE Goto(l, "lost")
      BY <2>1, <3>2, ControllerMovesBy
    <3>3. CASE \E p \in Pod : Take(l, "sent", {p}) /\ owner'[p] = l
      <4>1. PICK p \in Pod : Take(l, "sent", {p}) /\ owner'[p] = l
        BY <3>3
      <4>2. {p} \subseteq Own(l)'
        BY <4>1 DEF Own
      <4>3. QED
        BY <2>1, <4>1, <4>2, ControllerMovesBy
    <3>4. QED
      BY <3>1, <3>2, <3>3
  <2>4. QED
    BY <1>1, <1>2, <2>1, <2>2, <2>3, MovesSecured
<1>5. CASE SubmitNothing(l) \/ SubmitConflict(l) \/ RecordFails(l)
  <2>1. World
    BY <1>5, SameWorld DEF SubmitNothing, SubmitConflict, RecordFails
  <2>2. Writes(l) /\ Binds
    BY <1>5, <2>1, SameWrites, SameBinds
       DEF SubmitNothing, SubmitConflict, RecordFails, store
  <2>3. \E step : step # "close" /\ Goto(l, step)
    BY <1>5 DEF SubmitNothing, SubmitConflict, RecordFails
  <2>4. Moves(l)
    BY <2>1, <2>3, ControllerMovesBy
  <2>5. QED
    BY <1>1, <1>2, <2>1, <2>2, <2>4, MovesSecured
<1>6. CASE RecordCreated(l)
  <2>1. World
    BY <1>6, SameWorld DEF RecordCreated
  <2>2. PICK p \in ctl[l].pod :
          /\ CanWriteC(l, Rec!CreateSuccess(lease[l], p))
          /\ CommitC(l, Rec!CreateSuccess(lease[l], p))
    BY <1>6 DEF RecordCreated
  <2>3. Sound(l, Rec!CreateSuccess(lease[l], p))
    BY <1>3, <2>2, CreatedSound DEF CanWriteC
  <2>4. Writes(l)
    BY <2>2, <2>3, CommitWrites
  <2>5. Binds
    BY <1>6, <2>1, SameBinds DEF RecordCreated
  <2>6. Moves(l)
    BY <1>6, <2>1, ControllerMovesBy DEF RecordCreated
  <2>7. QED
    BY <1>1, <1>2, <2>1, <2>4, <2>5, <2>6, MovesSecured
<1>7. CASE BindReturnedId(l)
  <2>1. World
    BY <1>7, SameWorld DEF BindReturnedId
  <2>2. Writes(l)
    BY <1>7, SameWrites DEF BindReturnedId
  <2>3. ctl[l].pod \subseteq Own(l)' /\ attempt[l].bound \subseteq Own(l)'
    BY <2>1, OwnedLater
  <2>4. Binds
    <3>1. \/ UNCHANGED attempt
          \/ SetAttempt(l, Att!BoundForCleanup(attempt[l], ctl[l].pod))
      BY <1>7 DEF BindReturnedId
    <3>2. Att!BoundForCleanup(attempt[l], ctl[l].pod).bound \subseteq Own(l)'
      BY <1>3, <2>3, BindingsOwn
    <3>3. QED
      BY <2>1, <3>1, <3>2, SameBinds, AttemptBinds
  <2>5. Moves(l)
    <3>1. PICK ref : ctl' = [ctl EXCEPT ![l] = [ctl[l] EXCEPT !.at = "exit",
                                                             !.ref = ref]]
      BY <1>7 DEF BindReturnedId
    <3> DEFINE c == [ctl[l] EXCEPT !.at = "exit", !.ref = ref]
    <3>2. c.at = "exit" /\ c.pod = ctl[l].pod
      BY <1>3 DEF Controllers
    <3>3. ctl' = [ctl EXCEPT ![l] = c]
      BY <3>1
    <3> HIDE DEF c
    <3>4. QED
      BY <2>3, <3>2, <3>3 DEF Moves, TypeOK
  <2>6. QED
    BY <1>1, <1>2, <2>1, <2>2, <2>4, <2>5, MovesSecured
<1>8. QED
  BY <1>4, <1>5, <1>6, <1>7 DEF Post

LEMMA AfterLossSecured ==
  ASSUME TypeOK, Consistent, Secured, NEW l \in Lease, AfterLoss(l)
  PROVE  Secured'
<1>1. UNCHANGED <<provider, clock, docs, sweep>>
  BY DEF AfterLoss, LookAfterLoss, InventoryUnavailable, ReconcileLost,
         BindLossIds, ReleaseRejected, reaper
<1>2. World /\ Ages
  BY <1>1, SameWorld, SameAges
<1>3. /\ lease[l] \in Rec!Leases /\ Rec!Valid(lease[l])
      /\ attempt[l] \in Att!Attempts /\ attempt[l].bound \subseteq Own(l)'
      /\ lease[l].ids \subseteq Own(l)'
  BY <1>2, OwnedLater DEF TypeOK, Consistent, Recorded
<1>4. Moves(l)
  <2>1. \/ \E step : step # "close" /\ (Goto(l, step) \/ Look(l, step))
        \/ Take(l, "exit", lease[l].ids)
    BY DEF AfterLoss, LookAfterLoss, InventoryUnavailable, ReconcileLost,
           BindLossIds, ReleaseRejected
  <2>2. QED
    BY <1>2, <1>3, <2>1, ControllerMovesBy
<1>5. Binds
  <2>1. \/ UNCHANGED attempt
        \/ SetAttempt(l, Att!BoundForCleanup(attempt[l], lease[l].ids))
        \/ SetAttempt(l, Att!Cancelled(attempt[l], "PROVIDER_REJECTED_CREATE"))
    BY DEF AfterLoss, LookAfterLoss, InventoryUnavailable, ReconcileLost,
           BindLossIds, ReleaseRejected, store
  <2>2. /\ Att!BoundForCleanup(attempt[l], lease[l].ids).bound \subseteq Own(l)'
        /\ Att!Cancelled(attempt[l], "PROVIDER_REJECTED_CREATE").bound
             \subseteq Own(l)'
    BY <1>3, BindingsOwn
  <2>3. QED
    BY <1>2, <2>1, <2>2, SameBinds, AttemptBinds
<1>6. Writes(l)
  <2>1. \/ UNCHANGED lease
        \/ lease[l].st = "CREATING" /\ CommitC(l, ByController(l))
    BY DEF AfterLoss, LookAfterLoss, InventoryUnavailable, ReconcileLost,
           BindLossIds, ReleaseRejected, store, ByController
  <2>2. CASE lease[l].st = "CREATING" /\ CommitC(l, ByController(l))
    <3>1. ctl[l].look \in SUBSET Pod
      BY DEF TypeOK, Controllers
    <3>2. \E outcome : Reconciled(ByController(l), outcome, Own(l))
      BY <1>3, <2>2, <3>1, ValidByController
    <3>3. Sound(l, ByController(l))
      BY <2>2, <3>2, ReconciledSound DEF Late
    <3>4. QED
      BY <2>2, <3>3, CommitWrites
  <2>3. QED
    BY <2>1, <2>2, SameWrites
<1>7. QED
  BY <1>1, <1>2, <1>4, <1>5, <1>6, MovesSecured

LEMMA QualifySecured ==
  ASSUME TypeOK, Consistent, Secured, NEW l \in Lease, Qualify(l)
  PROVE  Secured'
<1>1. UNCHANGED <<provider, clock, docs, sweep>>
  BY DEF Qualify, ObserveCreated, RunFails, BindInventory, BindDelta, Attest,
         BindQuote, WorkEnds, reaper
<1>2. World /\ Ages
  BY <1>1, SameWorld, SameAges
<1>3. /\ lease[l] \in Rec!Leases /\ Rec!Valid(lease[l])
      /\ attempt[l] \in Att!Attempts /\ attempt[l].bound \subseteq Own(l)'
      /\ lease[l].ids \subseteq Own(l)' /\ ctl[l].pod \subseteq Own(l)'
      /\ ctl[l].look \in SUBSET Pod
  BY <1>2, OwnedLater DEF TypeOK, Consistent, Recorded, Controllers
<1>4. Moves(l)
  <2>1. \E step : step # "close" /\ (Goto(l, step) \/ Look(l, step))
    BY DEF Qualify, ObserveCreated, RunFails, BindInventory, BindDelta,
           Attest, BindQuote, WorkEnds
  <2>2. QED
    BY <1>2, <2>1, ControllerMovesBy
<1>5. Binds
  <2>1. \/ UNCHANGED attempt
        \/ \E ids \in {ctl[l].pod, lease[l].ids} :
             SetAttempt(l, Att!BoundForCleanup(attempt[l], ids))
        \/ \E p \in ctl[l].pod, accepted \in BOOLEAN :
             SetAttempt(l, Att!QuoteBound(attempt[l], p, accepted))
    BY DEF Qualify, ObserveCreated, RunFails, BindInventory, BindDelta,
           Attest, BindQuote, WorkEnds, store
  <2>2. /\ \A ids \in {ctl[l].pod, lease[l].ids} :
             Att!BoundForCleanup(attempt[l], ids).bound \subseteq Own(l)'
        /\ \A p \in ctl[l].pod, accepted \in BOOLEAN :
             Att!QuoteBound(attempt[l], p, accepted).bound \subseteq Own(l)'
    BY <1>3, BindingsOwn
  <2>3. QED
    BY <1>2, <2>1, <2>2, SameBinds, AttemptBinds
<1>6. Writes(l)
  <2> DEFINE new == Rec!PostCreateBound(lease[l], ctl[l].look, Own(l),
                                        Siblings(l))
  <2>1. \/ UNCHANGED lease
        \/ CommitC(l, new) /\ lease[l].st = "ACTIVE"
        \/ CommitC(l, lease[l])
    BY DEF Qualify, ObserveCreated, RunFails, BindInventory, BindDelta,
           Attest, BindQuote, WorkEnds, store
  <2>2. CASE CommitC(l, new) /\ lease[l].st = "ACTIVE"
    <3>1. Sound(l, new)
      BY <1>3, <2>2, PostCreateSound
    <3> HIDE DEF new
    <3>2. QED
      BY <2>2, <3>1, CommitWrites
  <2>3. CASE CommitC(l, lease[l])
    BY <2>3 DEF CommitC, Writes, TypeOK
  <2>4. QED
    BY <2>1, <2>2, <2>3, SameWrites
<1>7. QED
  BY <1>1, <1>2, <1>4, <1>5, <1>6, MovesSecured

(* finalize_campaign_after_absence is the one step to a close. *)
LEMMA FinalizeCampaignSecured ==
  ASSUME TypeOK, Secured, NEW l \in Lease, FinalizeCampaign(l)
  PROVE  Secured'
<1>1. UNCHANGED <<provider, lease, clock, docs, sweep>>
  BY DEF FinalizeCampaign, reaper
<1>2. World /\ Ages /\ Writes(l)
  BY <1>1, SameWorld, SameAges, SameWrites
<1>3. /\ attempt[l] \in Att!Attempts /\ attempt[l].bound \subseteq Own(l)'
      /\ lease[l].ids \subseteq Own(l)' /\ ctl[l].pod \subseteq Own(l)'
  BY <1>2, OwnedLater DEF TypeOK
<1>4. Binds
  <2>1. \/ UNCHANGED attempt
        \/ SetAttempt(l, Att!Projected(attempt[l], lease[l].ids))
    BY DEF FinalizeCampaign
  <2>2. Att!Projected(attempt[l], lease[l].ids).bound \subseteq Own(l)'
    BY <1>3, BindingsOwn
  <2>3. QED
    BY <1>2, <2>1, <2>2, SameBinds, AttemptBinds
<1>5. CASE Goto(l, "end")
  <2>1. Moves(l)
    BY <1>2, <1>5, ControllerMovesBy
  <2>2. QED
    BY <1>1, <1>2, <1>4, <2>1, MovesSecured
<1>6. CASE lease[l].staged /\ MayFinalize(l, lease[l]) /\ Goto(l, "close")
  <2>1. AllGone(lease[l].ids)
    <3>1. Visible(l) /\ lease[l].ids \subseteq Own(l)
      BY <1>6 DEF Secured, AgedVisible, Owned
    <3>2. QED
      BY <1>6, <3>1, FinalizedGone
  <2>2. \A k \in Lease \ {l} : ctl'[k] = ctl[k]
    BY <1>6 DEF Goto, TypeOK
  <2>3. ctl'[l].pod = ctl[l].pod
    BY <1>6 DEF Goto, TypeOK, Controllers
  <2>4. \A k \in Lease : ctl'[k].pod \subseteq Own(k)'
    BY <1>2, <2>2, <2>3, OwnedLater
  <2>5. UNCHANGED pod
    BY <1>1 DEF provider
  <2>6. ControllerCloses'
    BY <1>1, <1>6, <2>1, <2>2, <2>5
       DEF ControllerCloses, Secured, AllGone, Gone
  <2>7. ReaperCloses' /\ Copies
    BY <1>1, <2>5 DEF ReaperCloses, Secured, AllGone, Gone, Copies
  <2>8. QED
    BY <1>2, <1>4, <2>4, <2>6, <2>7, SecuredStep
<1>7. QED
  BY <1>5, <1>6 DEF FinalizeCampaign

LEMMA TearDownSecured ==
  ASSUME TypeOK, Consistent, Secured, NEW l \in Lease, TearDown(l)
  PROVE  Secured'
<1> DEFINE Others ==
      \/ ExitWorkload(l) \/ RecordDestroyIntent(l) \/ BindCleanup(l)
      \/ RequestTermination(l) \/ Delete(l) \/ LookForAbsence(l)
      \/ ConfirmAbsence(l) \/ GiveUp(l) \/ SettleBilling(l) \/ CloseLease(l)
      \/ AmbiguousDestroy(l) \/ AmbiguousDelete(l) \/ AmbiguousConfirm(l)
<1>1. CASE FinalizeCampaign(l)
  BY <1>1, FinalizeCampaignSecured
<1>2. CASE Others
  <2> USE <1>2 DEF ExitWorkload, RecordDestroyIntent, BindCleanup,
                   RequestTermination, Delete, LookForAbsence, ConfirmAbsence,
                   GiveUp, SettleBilling, CloseLease, AmbiguousDestroy,
                   AmbiguousDelete, AmbiguousConfirm
  <2>1. UNCHANGED <<docs, sweep>>
    BY DEF reaper
  <2>2. Ages
    <3>1. UNCHANGED clock \/ RestartAge(l)
      OBVIOUS
    <3>2. QED
      BY <3>1, SameAges
  <2>3. World
    <3>1. \/ UNCHANGED provider
          \/ UNCHANGED owner /\ \E removed : Deletes(removed)
      OBVIOUS
    <3>2. QED
      BY <3>1, SameWorld, DeletesWorld
  <2>4. /\ lease[l] \in Rec!Leases /\ Rec!Valid(lease[l])
        /\ attempt[l] \in Att!Attempts /\ attempt[l].bound \subseteq Own(l)'
        /\ lease[l].ids \subseteq Own(l)'
    BY <2>3, OwnedLater DEF TypeOK, Consistent, Recorded
  <2>5. Moves(l)
    <3>1. \/ \E step : step # "close" /\ (Goto(l, step) \/ Look(l, step))
          \/ LeaveCleanup(l)
      OBVIOUS
    <3>2. QED
      BY <2>3, <3>1, ControllerMovesBy, LeavingMoves
  <2>6. Binds
    <3>1. \/ UNCHANGED attempt
          \/ SetAttempt(l, Att!BoundForCleanup(attempt[l], lease[l].ids))
          \/ SetAttempt(l, Att!TerminationRequested(attempt[l]))
      BY DEF store
    <3>2. /\ Att!BoundForCleanup(attempt[l], lease[l].ids).bound
               \subseteq Own(l)'
          /\ Att!TerminationRequested(attempt[l]).bound \subseteq Own(l)'
      BY <2>4, BindingsOwn
    <3>3. QED
      BY <2>3, <3>1, <3>2, SameBinds, AttemptBinds
  <2>7. Writes(l)
    <3>1. \/ UNCHANGED lease
          \/ \E new \in {lease[l], Rec!RequestDestroy(lease[l]),
                         Rec!AbsenceChecked(lease[l], ctl[l].look)} :
               CanWriteC(l, new) /\ CommitC(l, new)
          \/ /\ CanWriteC(l, Rec!StageBilling(lease[l]))
             /\ CommitC(l, Rec!StageBilling(lease[l])) /\ clock[l].aged
          \/ /\ CanWriteC(l, Rec!BillingRecorded(lease[l]))
             /\ CommitC(l, Rec!BillingRecorded(lease[l]))
             /\ ctl[l].at = "close"
      BY DEF store, Confirms
    <3>2. ASSUME NEW new, CanWriteC(l, new), CommitC(l, new),
                 Keeps(lease[l], new)
          PROVE  Writes(l)
      BY <3>2, KeepsSound, CommitWrites DEF CanWriteC
    <3>3. /\ Keeps(lease[l], lease[l])
          /\ Keeps(lease[l], Rec!RequestDestroy(lease[l]))
          /\ Keeps(lease[l], Rec!AbsenceChecked(lease[l], ctl[l].look))
      BY <2>4, OperationsKeep
    <3>4. CASE /\ CanWriteC(l, Rec!StageBilling(lease[l]))
               /\ CommitC(l, Rec!StageBilling(lease[l])) /\ clock[l].aged
      BY <2>4, <3>4, StageSound, CommitWrites DEF CanWriteC
    <3>5. CASE /\ CanWriteC(l, Rec!BillingRecorded(lease[l]))
               /\ CommitC(l, Rec!BillingRecorded(lease[l]))
               /\ ctl[l].at = "close"
      <4>1. lease[l].staged /\ AllGone(lease[l].ids)
        BY <3>5 DEF Secured, ControllerCloses, CanWriteC
      <4>2. QED
        BY <3>5, <4>1, BillingSound, CommitWrites
    <3>6. QED
      BY <3>1, <3>2, <3>3, <3>4, <3>5, SameWrites
  <2>8. QED
    BY <2>1, <2>2, <2>3, <2>5, <2>6, <2>7, MovesSecured
<1>3. QED
  BY <1>1, <1>2 DEF TearDown

LEMMA ControllerSecured ==
  ASSUME TypeOK, Consistent, Secured, NEW l \in Lease,
         Controller(l) \/ ControllerDies(l)
  PROVE  Secured'
<1>1. CASE ControllerDies(l)
  <2>1. UNCHANGED <<provider, lease, attempt, clock, docs, sweep>>
    BY <1>1 DEF ControllerDies, store, reaper
  <2>2. World /\ Ages /\ Writes(l)
    BY <2>1, SameWorld, SameAges, SameWrites
  <2>3. Binds /\ Moves(l)
    BY <1>1, <2>1, <2>2, SameBinds, ControllerMovesBy DEF ControllerDies
  <2>4. QED
    BY <2>1, <2>2, <2>3, MovesSecured
<1>2. QED
  BY <1>1, BeforePostSecured, PostSecured, AfterLossSecured, QualifySecured,
     TearDownSecured DEF Controller

-----------------------------------------------------------------------------
(* The reaper. *)

LEMMA ReaperStays ==
  ASSUME TypeOK, NEW l \in Lease, NEW new,
         UNCHANGED <<lease, ctl>> \/ StoreR(l, new)
  PROVE  Stays
<1>1. CASE UNCHANGED <<lease, ctl>>
  BY <1>1 DEF Stays
<1>2. CASE StoreR(l, new)
  <2> DEFINE c == [ctl[l] EXCEPT !.ref = FALSE]
  <2>1. c.at = ctl[l].at /\ c.pod = ctl[l].pod /\ ~c.ref
    BY DEF TypeOK, Controllers
  <2>2. ctl' = [ctl EXCEPT ![l] = c] /\ lease' = [lease EXCEPT ![l] = new]
    BY <1>2 DEF StoreR
  <2> HIDE DEF c
  <2>3. QED
    BY <2>1, <2>2 DEF Stays, TypeOK
<1>3. QED
  BY <1>1, <1>2

LEMMA ReaperCopies ==
  ASSUME TypeOK, NEW l \in Lease, NEW new,
         UNCHANGED docs \/ Forget(l) \/ CommitR(l, new)
  PROVE  Copies
  BY DEF TypeOK, Copies, Forget, CommitR, StoreR

(* A step of the reaper that writes no record. *)
LEMMA ReaperLooks ==
  ASSUME TypeOK, Secured, World, NEW l \in Lease, UNCHANGED <<lease, ctl, clock>>,
         Binds, UNCHANGED docs \/ Forget(l),
         sweep'.step \notin {"finalize", "close"}
  PROVE  Secured'
<1>1. Writes(l) /\ Stays /\ Copies /\ Ages
  BY SameWrites, ReaperStays, ReaperCopies, SameAges
<1>2. QED
  BY <1>1, SweepSecured

LEMMA ReapWriteSecured ==
  ASSUME TypeOK, Secured, NEW l \in Lease, NEW new, NEW next,
         ReapWrite(l, new, next), next \notin {"finalize", "close"},
         CanWriteR(l, new) => Sound(l, new), Ages
  PROVE  Secured'
<1>1. World /\ Binds
  BY SameWorld, SameBinds DEF ReapWrite
<1>2. CASE CanWriteR(l, new)
  <2>1. CommitR(l, new) /\ StoreR(l, new) /\ Step(next)
    BY <1>2 DEF ReapWrite, CommitR
  <2>2. Writes(l) /\ Stays /\ Copies
    BY <1>2, <2>1, CommitWrites, ReaperStays, ReaperCopies
  <2>3. sweep'.step = next
    BY <2>1, SweepStep
  <2>4. QED
    BY <1>1, <2>2, <2>3, SweepSecured
<1>3. CASE ~CanWriteR(l, new)
  <2>1. UNCHANGED <<lease, ctl>> /\ Fail(l)
    BY <1>3 DEF ReapWrite
  <2>2. sweep'.step = "pick" /\ Forget(l)
    BY <2>1, SweepPicks
  <2>3. Writes(l) /\ Stays /\ Copies
    BY <2>1, <2>2, SameWrites, ReaperStays, ReaperCopies
  <2>4. QED
    BY <1>1, <2>2, <2>3, SweepSecured
<1>4. QED
  BY <1>2, <1>3

LEMMA ReapWriteLastSecured ==
  ASSUME TypeOK, Secured, NEW l \in Lease, NEW new, ReapWriteLast(l, new),
         CanWriteR(l, new) => Sound(l, new)
  PROVE  Secured'
<1>1. World /\ Binds /\ Ages
  BY SameWorld, SameBinds, SameAges DEF ReapWriteLast
<1>2. sweep'.step = "pick" /\ Forget(l)
  BY SweepPicks DEF ReapWriteLast
<1>3. Writes(l) /\ Stays
  BY SameWrites, CommitWrites, ReaperStays DEF ReapWriteLast
<1>4. Copies
  BY <1>2, ReaperCopies
<1>5. QED
  BY <1>1, <1>2, <1>3, <1>4, SweepSecured

LEMMA CancelOrphansSecured ==
  ASSUME TypeOK, Consistent, Secured, NEW l \in Lease, CancelOrphans(l)
  PROVE  Secured'
<1> USE DEF CancelOrphans, DeferPrepared, OrphanIntent, OrphanLedger,
            OrphanClose
<1>1. UNCHANGED <<provider, clock>>
  OBVIOUS
<1>2. World /\ Ages
  BY <1>1, SameWorld, SameAges
<1>3. sweep'.step \in {"list", "orphanLedger", "orphanClose"}
  BY DEF OrphanStep, OrphanEnds, TypeOK
<1>4. Binds
  <2>1. UNCHANGED attempt
        \/ SetAttempt(l, Att!Cancelled(attempt[l], "PREPARED"))
    BY DEF store, LedgerCancels
  <2>2. Att!Cancelled(attempt[l], "PREPARED").bound \subseteq Own(l)'
    <3>1. attempt[l] \in Att!Attempts /\ attempt[l].bound \subseteq Own(l)'
      BY <1>2, OwnedLater DEF TypeOK
    <3>2. QED
      BY <3>1, BindingsOwn
  <2>3. QED
    BY <1>2, <2>1, <2>2, SameBinds, AttemptBinds
<1>5. \/ /\ UNCHANGED <<lease, ctl>>
         /\ UNCHANGED docs \/ Forget(l)
      \/ \E new \in {Rec!CancelIntent(lease[l]), Rec!CancelPrepared(lease[l])} :
           /\ CanWriteR(l, new)
           /\ CommitR(l, new) \/ (StoreR(l, new) /\ Forget(l))
  BY DEF OrphanEnds, store, memory
<1>6. CASE UNCHANGED <<lease, ctl>> /\ (UNCHANGED docs \/ Forget(l))
  BY <1>1, <1>2, <1>3, <1>4, <1>6, ReaperLooks
<1>7. ASSUME NEW new \in {Rec!CancelIntent(lease[l]),
                          Rec!CancelPrepared(lease[l])},
             CanWriteR(l, new), CommitR(l, new) \/ (StoreR(l, new) /\ Forget(l))
      PROVE  Secured'
  <2>1. lease[l] \in Rec!Leases
    BY DEF TypeOK
  <2>2. Keeps(lease[l], new)
    BY <1>7, <2>1, OperationsKeep
  <2>3. Sound(l, new)
    BY <1>7, <2>2, KeepsSound DEF CanWriteR
  <2>4. StoreR(l, new)
    BY <1>7 DEF CommitR
  <2>5. Writes(l) /\ Stays /\ Copies
    BY <1>7, <2>3, <2>4, CommitWrites, ReaperStays, ReaperCopies
  <2>6. QED
    BY <1>2, <1>3, <1>4, <2>5, SweepSecured
<1>8. QED
  BY <1>5, <1>6, <1>7

(* A step that writes neither file and moves no controller. *)
LEMMA QuietSecured ==
  ASSUME TypeOK, Secured, World, UNCHANGED <<lease, ctl, attempt>>, Ages, Copies,
         \/ sweep'.step \notin {"finalize", "close"}
         \/ UNCHANGED <<docs, sweep>>
  PROVE  Secured'
<1>1. ASSUME NEW l \in Lease
      PROVE  Secured'
  <2>1. Writes(l) /\ Binds /\ Stays
    BY SameWrites, SameBinds, ReaperStays
  <2>2. CASE sweep'.step \notin {"finalize", "close"}
    BY <2>1, <2>2, SweepSecured
  <2>3. CASE UNCHANGED <<docs, sweep>>
    <3>1. \A k \in Lease : /\ ctl'[k].pod \subseteq Own(k)'
                           /\ lease[k].ids \subseteq Pod
                           /\ docs[k].ids \subseteq Pod
      BY OwnedLater DEF Secured, Owned, Own
    <3>2. ControllerCloses'
      BY <3>1 DEF ControllerCloses, Secured, World, AllGone
    <3>3. ReaperCloses'
      <4>1. \A k \in Lease : AllGone(docs[k].ids) => AllGone(docs[k].ids)'
        BY <2>3, <3>1, GoneLater
      <4>2. QED
        BY <2>3, <4>1 DEF ReaperCloses, Secured, AllGone
    <3>4. QED
      BY <2>1, <3>1, <3>2, <3>3, SecuredStep
  <2>4. QED
    BY <2>2, <2>3
<1>2. CASE Lease = {}
  BY <1>2 DEF Secured, Owned, AgedVisible, ControllerCloses, ReaperCloses,
              SettledMeansGone, World
<1>3. QED
  BY <1>1, <1>2

LEMMA SweepsSecured ==
  ASSUME TypeOK, Secured,
         SweepBegin \/ SweepList \/ SweepOutage \/ SweepEnd \/ ReaperDies
  PROVE  Secured'
<1> USE DEF SweepBegin, SweepList, SweepOutage, SweepEnd, ReaperDies, ForgetSweep
<1>1. UNCHANGED <<provider, lease, ctl, attempt, clock>>
  BY DEF store
<1>2. World /\ Ages
  BY <1>1, SameWorld DEF Ages
<1>3. sweep'.step \in {"list", "pick", "idle"}
  <2>1. CASE SweepBegin \/ SweepEnd \/ ReaperDies
    BY <2>1 DEF Idle
  <2>2. CASE SweepList
    BY <2>2, SweepStep DEF Go
  <2>3. CASE SweepOutage
    BY <2>3 DEF TypeOK
  <2>4. QED
    BY <2>1, <2>2, <2>3
<1>4. Copies
  BY DEF Copies, Go, memory, NoDocs, TypeOK
<1>5. QED
  BY <1>1, <1>2, <1>3, <1>4, QuietSecured

LEMMA EnvironmentSecured ==
  ASSUME TypeOK, Secured, Environment \/ UNCHANGED vars
  PROVE  Secured'
<1>1. UNCHANGED <<lease, ctl, attempt, docs, sweep>>
  BY DEF Environment, Appears, Exits, Vanishes, StrangerArrives, Provider,
         WindowCloses, WindowExpires, ReapDeadlinePasses, AbsenceAges, Tick,
         store, reaper, vars
<1>2. Copies
  BY <1>1 DEF Copies
<1>3. World
  <2>1. \/ UNCHANGED provider
        \/ \E p \in Pod :
             Appears(p) \/ Exits(p) \/ Vanishes(p) \/ StrangerArrives(p)
    BY DEF Environment, WindowCloses, WindowExpires, ReapDeadlinePasses,
           AbsenceAges, Tick, vars, provider
  <2>2. QED
    BY <2>1, SameWorld, ProviderWorld
<1>4. Ages
  <2>1. CASE UNCHANGED clock
    BY <2>1 DEF Ages
  <2>2. CASE \E l \in Lease : WindowCloses(l) \/ WindowExpires(l)
                              \/ ReapDeadlinePasses(l)
    <3>1. PICK l \in Lease, field \in {"win", "due"},
               value \in {"closed", "expired", TRUE} :
            clock' = [clock EXCEPT ![l] = [clock[l] EXCEPT ![field] = value]]
      BY <2>2 DEF WindowCloses, WindowExpires, ReapDeadlinePasses, Tick
    <3>2. [clock[l] EXCEPT ![field] = value].aged = clock[l].aged
      BY DEF TypeOK, Clocks
    <3> DEFINE c == [clock[l] EXCEPT ![field] = value]
    <3>3. clock' = [clock EXCEPT ![l] = c] /\ c.aged = clock[l].aged
      BY <3>1, <3>2
    <3> HIDE DEF c
    <3>4. QED
      BY <3>3 DEF Ages, TypeOK
  <2>3. CASE \E l \in Lease : AbsenceAges(l)
    <3>1. PICK l \in Lease : AbsenceAges(l)
      BY <2>3
    <3>2. Visible(l)
      BY <3>1 DEF AbsenceAges, Visible, Late, NoneHidden
    <3>3. \A k \in Lease \ {l} : clock'[k] = clock[k]
      BY <3>1 DEF AbsenceAges, Tick, TypeOK
    <3>4. QED
      BY <3>2, <3>3 DEF Ages
  <2>4. QED
    BY <2>1, <2>2, <2>3
       DEF Environment, Appears, Exits, Vanishes, StrangerArrives, Provider, vars
<1>5. QED
  BY <1>1, <1>2, <1>3, <1>4, QuietSecured

LEMMA VisitLooksSecured ==
  ASSUME TypeOK, Secured, NEW l \in Lease,
         \/ Pick(l) \/ VisitMoved(l) \/ VisitHeld(l) \/ VisitUnconfirmable(l)
         \/ VisitLive(l) \/ BillingPending(l) \/ VisitExpired(l)
         \/ ReleaseExpired(l) \/ ReapDelete(l) \/ ReapRelist(l)
  PROVE  Secured'
<1> USE DEF Pick, VisitMoved, VisitHeld, VisitUnconfirmable, VisitLive,
            BillingPending, VisitExpired, ReleaseExpired, ReapDelete,
            ReapRelist, ReadOnly
<1>1. UNCHANGED <<lease, ctl, clock>>
  BY DEF store
<1>2. World
  <2>1. \/ UNCHANGED provider
        \/ UNCHANGED owner /\ \E removed : Deletes(removed)
    OBVIOUS
  <2>2. QED
    BY <2>1, SameWorld, DeletesWorld
<1>3. /\ UNCHANGED docs \/ Forget(l)
      /\ sweep'.step \notin {"finalize", "close"}
  <2>1. \/ Pick(l) \/ Done(l) \/ Fail(l) \/ Go("expire") \/ Go("expireClose")
        \/ Go("relist") \/ Go("confirm")
    OBVIOUS
  <2>2. CASE Pick(l)
    BY <2>2 DEF memory, TypeOK
  <2>3. CASE Done(l) \/ Fail(l)
    BY <2>3, SweepPicks
  <2>4. CASE Go("expire") \/ Go("expireClose") \/ Go("relist") \/ Go("confirm")
    BY <2>4, SweepStep DEF Go, memory
  <2>5. QED
    BY <2>1, <2>2, <2>3, <2>4
<1>4. Binds
  <2>1. UNCHANGED attempt
        \/ SetAttempt(l, Att!Cancelled(attempt[l], "LOST_CREATE_EXPIRED"))
    BY DEF store
  <2>2. Att!Cancelled(attempt[l], "LOST_CREATE_EXPIRED").bound \subseteq Own(l)'
    <3>1. attempt[l] \in Att!Attempts /\ attempt[l].bound \subseteq Own(l)'
      BY <1>2, OwnedLater DEF TypeOK
    <3>2. QED
      BY <3>1, BindingsOwn
  <2>3. QED
    BY <1>2, <2>1, <2>2, SameBinds, AttemptBinds
<1>5. QED
  BY <1>1, <1>2, <1>3, <1>4, ReaperLooks

(* The reaper's one step to a finalization, and its one step to a close.    *)
LEMMA ReapStageSecured ==
  ASSUME TypeOK, Consistent, Secured, NEW l \in Lease, ReapStage(l)
  PROVE  Secured'
<1> DEFINE new == Rec!StageBilling(docs[l])
<1>1. /\ ReapWrite(l, new, "finalize") /\ UNCHANGED <<clock, provider, attempt>>
      /\ clock[l].aged /\ sweep.cur = l
  BY DEF ReapStage, ReapWrite, Settling, Visiting
<1>2. World /\ Binds /\ Ages
  BY <1>1, SameWorld, SameBinds, SameAges
<1>3. CASE CanWriteR(l, new)
  <2>1. /\ docs[l] = lease[l] /\ Rec!Valid(lease[l])
        /\ Rec!MayWrite(lease[l], new) /\ lease[l] \in Rec!Leases
    BY <1>3, WritesR
  <2>2. Sound(l, new)
    BY <1>1, <2>1, StageSound
  <2>3. CommitR(l, new) /\ StoreR(l, new) /\ Step("finalize")
    BY <1>1, <1>3 DEF ReapWrite, CommitR
  <2>4. new.staged
    BY <2>1 DEF Rec!StageBilling, Rec!Leases
  <2> HIDE DEF new
  <2>5. Writes(l) /\ Stays /\ Copies
    BY <2>2, <2>3, CommitWrites, ReaperStays, ReaperCopies
  <2>6. sweep'.step = "finalize" /\ sweep'.cur = l /\ docs'[l] = new
    BY <1>1, <2>3, SweepStep DEF CommitR, TypeOK
  <2>7. ReaperCloses'
    BY <2>4, <2>6 DEF ReaperCloses
  <2>8. \A k \in Lease : ctl'[k].pod \subseteq Own(k)'
    BY <1>2, <2>5, OwnedLater DEF Stays
  <2>9. ControllerCloses'
    <3>1. \A k \in Lease : lease[k].ids \subseteq Pod
      BY DEF Secured, Owned, Own
    <3>2. QED
      BY <1>2, <2>5, <3>1 DEF Stays, ControllerCloses, Secured, World, AllGone
  <2>10. QED
    BY <1>2, <2>5, <2>7, <2>8, <2>9, SecuredStep
<1>4. CASE ~CanWriteR(l, new)
  <2>1. UNCHANGED <<lease, ctl>> /\ Fail(l)
    BY <1>1, <1>4 DEF ReapWrite
  <2>2. sweep'.step = "pick" /\ Forget(l)
    BY <2>1, SweepPicks
  <2>3. QED
    BY <1>1, <1>2, <2>1, <2>2, ReaperLooks
<1>5. QED
  BY <1>3, <1>4

LEMMA ReapFinalizeSecured ==
  ASSUME TypeOK, Secured, NEW l \in Lease, ReapFinalize(l)
  PROVE  Secured'
<1>1. /\ UNCHANGED <<lease, provider, clock, ctl>> /\ sweep.cur = l
      /\ docs[l].staged
  BY DEF ReapFinalize, Settling, Visiting, Secured, ReaperCloses
<1>2. World /\ Ages /\ Writes(l) /\ Stays
  BY <1>1, SameWorld, SameAges, SameWrites, ReaperStays
<1>3. Binds
  <2>1. \/ UNCHANGED attempt
        \/ SetAttempt(l, Att!Projected(attempt[l], docs[l].ids))
    BY DEF ReapFinalize
  <2>2. /\ attempt[l] \in Att!Attempts /\ attempt[l].bound \subseteq Own(l)'
        /\ docs[l].ids \subseteq Own(l)'
    BY <1>2, OwnedLater DEF TypeOK
  <2>3. Att!Projected(attempt[l], docs[l].ids).bound \subseteq Own(l)'
    BY <2>2, BindingsOwn
  <2>4. QED
    BY <1>2, <2>1, <2>3, SameBinds, AttemptBinds
<1>4. CASE Fail(l)
  <2>1. sweep'.step = "pick" /\ Forget(l)
    BY <1>4, SweepPicks
  <2>2. QED
    BY <1>1, <1>2, <1>3, <2>1, ReaperLooks
<1>5. CASE MayFinalize(l, docs[l]) /\ Go("close")
  <2>1. Visible(l) /\ docs[l].ids \subseteq Own(l)
    BY <1>1 DEF Secured, AgedVisible, Owned
  <2>2. AllGone(docs[l].ids)
    BY <1>5, <2>1, FinalizedGone
  <2>3. UNCHANGED <<docs, pod>> /\ sweep'.cur = l
    BY <1>1, <1>5, SweepStep DEF Go, memory, provider
  <2>4. ReaperCloses'
    BY <1>1, <2>2, <2>3 DEF ReaperCloses, AllGone, Gone
  <2>5. ControllerCloses'
    BY <1>1, <2>3 DEF ControllerCloses, Secured, AllGone, Gone
  <2>6. Copies /\ \A k \in Lease : ctl'[k].pod \subseteq Own(k)'
    BY <1>2, <2>3, OwnedLater DEF Copies, Stays
  <2>7. QED
    BY <1>2, <1>3, <2>4, <2>5, <2>6, SecuredStep
<1>6. QED
  BY <1>4, <1>5 DEF ReapFinalize

LEMMA ReaperKeepsSound ==
  ASSUME TypeOK, Consistent, Secured, NEW l \in Lease, NEW new,
         CanWriteR(l, new), Keeps(docs[l], new)
  PROVE  Sound(l, new)
<1>1. docs[l] = lease[l] /\ Rec!MayWrite(lease[l], new)
  BY WritesR
<1>2. QED
  BY <1>1, KeepsSound

LEMMA LostByReaperSound ==
  ASSUME TypeOK, Consistent, Secured, NEW l \in Lease,
         docs[l].st = "CREATING", rref[l]
  PROVE  Sound(l, ByReaper(l))
<1>1. /\ docs[l] = lease[l] /\ docs[l] \in Rec!Leases /\ Rec!Valid(docs[l])
      /\ seen.ids \in SUBSET Pod
  BY DEF TypeOK, Consistent, Recorded, ReaperRefs
<1>2. AnsweredOnlyInLedger(l) \subseteq Own(l)
  BY DEF AnsweredOnlyInLedger, Secured, Owned
<1>3. AnsweredOnlyInLedger(l) \in SUBSET Pod
  BY <1>2 DEF Own
<1>4. Reconciled(ByReaper(l), LostByReaper(l),
                 Own(l) \cup AnsweredOnlyInLedger(l))
  BY <1>1, <1>3, ValidByReaper
<1>5. Own(l) \cup AnsweredOnlyInLedger(l) \subseteq Own(l)
  BY <1>2
<1>6. lease[l].st \notin Late
  BY <1>1 DEF Late
<1>7. QED
  BY <1>4, <1>5, <1>6, ReconciledSound

LEMMA VisitSecured ==
  ASSUME TypeOK, Consistent, Secured, NEW l \in Lease, Visit(l)
  PROVE  Secured'
<1>1. docs[l] \in Rec!Leases
  BY DEF TypeOK
<1>2. CASE VisitRevoke(l) \/ VisitAmbiguous(l) \/ VisitDestroy(l)
  <2>1. PICK new \in {Rec!AbsenceRevoked(docs[l]), Rec!RequestDestroy(docs[l])} :
          ReapWrite(l, new, "visit") /\ UNCHANGED clock
    BY <1>2 DEF VisitRevoke, VisitAmbiguous, VisitDestroy
  <2>2. Keeps(docs[l], new)
    BY <1>1, <2>1, OperationsKeep
  <2>3. Ages
    BY <2>1, SameAges
  <2>4. QED
    BY <2>1, <2>2, <2>3, ReaperKeepsSound, ReapWriteSecured
<1>3. CASE VisitCreating(l)
  <2>1. docs[l].st = "CREATING" /\ rref[l] /\ UNCHANGED clock
    BY <1>3 DEF VisitCreating, Visiting, ReadOnly
  <2>2. Ages
    BY <2>1, SameAges
  <2>3. CASE AnswerUsable(l)
    BY <1>3, <2>1, <2>2, <2>3, LostByReaperSound, ReapWriteSecured
       DEF VisitCreating
  <2>4. CASE ~AnswerUsable(l)
    <3>1. Fail(l) /\ UNCHANGED <<lease, attempt, provider, ctl, clock>>
      BY <1>3, <2>4 DEF VisitCreating, ReadOnly, store
    <3>2. sweep'.step = "pick" /\ Forget(l)
      BY <3>1, SweepPicks
    <3>3. World /\ Binds
      BY <3>1, SameWorld, SameBinds
    <3>4. QED
      BY <3>1, <3>2, <3>3, ReaperLooks
  <2>5. QED
    BY <2>3, <2>4
<1>4. CASE VisitWaiting(l)
  <2>1. docs[l].st = "CREATING" /\ rref[l] /\ ReapWriteLast(l, ByReaper(l))
    BY <1>4 DEF VisitWaiting, Visiting
  <2>2. QED
    BY <2>1, LostByReaperSound, ReapWriteLastSecured
<1>5. CASE CloseExpired(l)
  <2>1. PICK new : /\ new = [docs[l] EXCEPT !.st = "TERMINAL",
                                            !.proof = "expired"]
                   /\ ReapWriteLast(l, new)
    BY <1>5 DEF CloseExpired
  <2>2. Keeps(docs[l], new)
    BY <1>1, <2>1, OperationsKeep
  <2>3. QED
    BY <2>1, <2>2, ReaperKeepsSound, ReapWriteLastSecured
<1>6. CASE ReapClose(l)
  <2>1. ReapWriteLast(l, Rec!BillingRecorded(docs[l]))
    BY <1>6 DEF ReapClose
  <2>2. ASSUME CanWriteR(l, Rec!BillingRecorded(docs[l]))
        PROVE  Sound(l, Rec!BillingRecorded(docs[l]))
    <3>1. docs[l] = lease[l]
      BY <2>2, WritesR
    <3>2. lease[l].staged /\ AllGone(lease[l].ids)
      BY <1>6, <3>1 DEF ReapClose, Secured, ReaperCloses
    <3>3. QED
      BY <3>1, <3>2, BillingSound
  <2>3. QED
    BY <2>1, <2>2, ReapWriteLastSecured
<1>7. CASE VisitNotListed(l)
  <2>1. PICK new : /\ new = Rec!AbsenceChecked(docs[l], seen.ids)
                   /\ ReapAbsence(l, new, "settle")
    BY <1>7 DEF VisitNotListed
  <2>2. Keeps(docs[l], new)
    BY <1>1, <2>1, OperationsKeep
  <2>3. Ages
    BY <2>1, SameAges DEF ReapAbsence
  <2>4. QED
    BY <2>1, <2>2, <2>3, ReaperKeepsSound, ReapWriteSecured DEF ReapAbsence
<1>8. CASE ReapConfirm(l)
  <2>1. PICK new : new = Rec!AbsenceChecked(docs[l], seen.fresh)
    OBVIOUS
  <2>2. Keeps(docs[l], new)
    BY <1>1, <2>1, OperationsKeep
  <2>3. \/ Fail(l) /\ UNCHANGED <<lease, ctl, clock>>
        \/ /\ CanWriteR(l, new) /\ CommitR(l, new) /\ RestartAge(l)
           /\ Step("settle")
        \/ CanWriteR(l, new) /\ StoreR(l, new) /\ Fail(l) /\ UNCHANGED clock
    BY <1>8, <2>1 DEF ReapConfirm
  <2>4. UNCHANGED <<provider, attempt>>
    BY <1>8 DEF ReapConfirm
  <2>5. World /\ Binds /\ Ages
    BY <2>3, <2>4, SameWorld, SameBinds, SameAges
  <2>6. CASE Fail(l) /\ UNCHANGED <<lease, ctl, clock>>
    <3>1. sweep'.step = "pick" /\ Forget(l)
      BY <2>6, SweepPicks
    <3>2. QED
      BY <2>5, <2>6, <3>1, ReaperLooks
  <2>7. CASE CanWriteR(l, new) /\ CommitR(l, new) /\ Step("settle")
    <3>1. Writes(l) /\ Stays /\ Copies
      BY <2>2, <2>7, ReaperKeepsSound, CommitWrites, ReaperStays, ReaperCopies
         DEF CommitR
    <3>2. sweep'.step = "settle"
      BY <2>7, SweepStep
    <3>3. QED
      BY <2>5, <3>1, <3>2, SweepSecured
  <2>8. CASE CanWriteR(l, new) /\ StoreR(l, new) /\ Fail(l)
    <3>1. sweep'.step = "pick" /\ Forget(l)
      BY <2>8, SweepPicks
    <3>2. Writes(l) /\ Stays /\ Copies
      BY <2>2, <2>8, <3>1, ReaperKeepsSound, CommitWrites, ReaperStays,
         ReaperCopies
    <3>3. QED
      BY <2>5, <3>1, <3>2, SweepSecured
  <2>9. QED
    BY <2>3, <2>6, <2>7, <2>8
<1>9. QED
  BY <1>2, <1>3, <1>4, <1>5, <1>6, <1>7, <1>8, VisitLooksSecured,
     ReapStageSecured, ReapFinalizeSecured DEF Visit

LEMMA NextSecured ==
  ASSUME TypeOK, Consistent, Secured, [Next]_vars
  PROVE  Secured'
  BY ControllerSecured, SweepsSecured, CancelOrphansSecured, VisitSecured,
     EnvironmentSecured DEF Next

LEMMA InitSecured == Init => Secured
<1>1. SUFFICES ASSUME Init PROVE Secured
  OBVIOUS
<1>2. /\ Rec!Unborn.ids = {} /\ ~Rec!Unborn.staged
      /\ Rec!Unborn.proof = "none" /\ Att!Unreserved.bound = {}
      /\ ~StartClock.aged
  BY DEF Rec!Unborn, Att!Unreserved, StartClock
<1>3. \A l \in Lease : /\ lease[l] = Rec!Unborn /\ docs[l] = Rec!Unborn
                       /\ attempt[l] = Att!Unreserved /\ clock[l] = StartClock
                       /\ ctl[l].at = "idle" /\ ctl[l].pod = {}
  BY <1>1 DEF Init, NoDocs, NoDeadline
<1>4. Named
  BY <1>1, ConstantsAssumption DEF Init, Named
<1>5. sweep.step = "idle"
  BY <1>1 DEF Init, Idle
<1>6. QED
  BY <1>2, <1>3, <1>4, <1>5
     DEF Secured, Owned, AgedVisible, ControllerCloses, ReaperCloses,
         SettledMeansGone

(* A lease closed as settled names only pods that are gone: no interleaving *)
(* of controllers, reaper crashes, stale listings, lost DELETEs and pods    *)
(* that vanish or show up late writes TERMINAL over a pod that can bill.    *)
THEOREM SettledIsGone == Spec => []SettledMeansGone
<1>1. Init => TypeOK /\ Consistent /\ Secured
  BY InitType, InitConsistent, InitSecured
<1>2. TypeOK /\ Consistent /\ Secured /\ [Next]_vars
        => (TypeOK /\ Consistent /\ Secured)'
  BY NextType, NextConsistent, NextSecured
<1>3. Secured => SettledMeansGone
  BY DEF Secured
<1>4. QED
  BY <1>1, <1>2, <1>3, PTL DEF Spec
=============================================================================
