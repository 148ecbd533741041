--------------------------- MODULE StageRun_proofs ---------------------------
(***************************************************************************)
(* What holds of a run root for any number of stage invocations, pids,     *)
(* cold runs, jobs and kills.                                              *)
(***************************************************************************)
EXTENDS StageRun, TLAPS

-----------------------------------------------------------------------------

LEMMA StageNames ==
  /\ {"setup", "fetch_target", "measure", "score", "seal", "capture",
      "capture_repeat"} \subseteq Stages
  /\ Rerun \cup Fresh \cup Resumed \subseteq Stages
<1>1. {QuantStages[i] : i \in 1..6} \subseteq Stages
  BY DEF Stages, Range, QuantStages
<1>2. {RootStages[i] : i \in 1..8} \subseteq Stages
  BY DEF Stages, Range, RootStages
<1>3. {"setup", "fetch_target", "measure", "score", "seal"} \subseteq Stages
  BY <1>1 DEF QuantStages
<1>4. {"capture", "capture_repeat"} \subseteq Stages
  BY <1>2 DEF RootStages
<1> QED
  BY <1>3, <1>4 DEF Rerun, Fresh, Resumed

Process == [at : Steps, stage : Stages, saw : Pid \cup {NoFile}]

LEMMA IdleTyped == Idle \in Process /\ Idle.at = "free"
  BY StageNames DEF Idle, Steps, Process

(* How most steps move their process. *)
LEMMA GoMoves ==
  ASSUME TypeOK, NEW p \in Pid, NEW step \in Steps, Goes(p, step)
  PROVE  /\ proc' \in [Pid -> Process]
         /\ \A q \in Pid \ {p} : proc'[q] = proc[q]
         /\ proc'[p].at = step
         /\ step # "free" => proc'[p].stage = proc[p].stage
<1>1. proc \in [Pid -> Process]
  BY DEF TypeOK, Process
<1>2. CASE step = "free"
  <2>1. proc' = [proc EXCEPT ![p] = Idle]
    BY <1>2 DEF Goes
  <2> QED
    BY <2>1, <1>1, <1>2, IdleTyped
<1>3. CASE step # "free"
  <2>1. proc' = [proc EXCEPT ![p] = [at |-> step, stage |-> proc[p].stage, saw |-> NoFile]]
    BY <1>3 DEF Goes
  <2>2. [at |-> step, stage |-> proc[p].stage, saw |-> NoFile] \in Process
    BY <1>1 DEF Process
  <2> QED
    BY <2>1, <2>2, <1>1, <1>3
<1> QED
  BY <1>2, <1>3

LEMMA ReadMoves ==
  ASSUME TypeOK, NEW p \in Pid, NEW s \in Stages, ReadOwner(p, s)
  PROVE  /\ proc' \in [Pid -> Process]
         /\ \A q \in Pid \ {p} : proc'[q] = proc[q]
         /\ \/ proc'[p].at = "free" /\ Goes(p, "free")
            \/ proc'[p].at = "clear" /\ proc'[p].stage = s /\ owner[s] = Blank
            \/ /\ proc'[p].at = "test" /\ proc'[p].stage = s
               /\ owner[s] \in Pid /\ proc'[p].saw = owner[s]
<1>1. CASE owner[s] = NoFile /\ Fails(p, "free")
  BY <1>1, GoMoves DEF Fails, Steps
<1>2. CASE owner[s] = Blank /\ Go(p, "clear")
  BY <1>2, GoMoves DEF Go, Steps, ReadOwner, At
<1>3. CASE owner[s] \in Pid /\ proc' = [proc EXCEPT ![p] = [at |-> "test", stage |-> s, saw |-> owner[s]]]
  <2>1. [at |-> "test", stage |-> s, saw |-> owner[s]] \in Process
    BY <1>3 DEF Process, Steps
  <2> QED
    BY <1>3, <2>1 DEF TypeOK, Process
<1> QED
  BY <1>1, <1>2, <1>3 DEF ReadOwner

Reach(p) == Script(p) \/ Kill(p) \/ Fail(p)

(* A step of a process that runs, as the others see it. *)
LEMMA Moves ==
  ASSUME TypeOK, NEW p \in Pid, Reach(p)
  PROVE  /\ proc' \in [Pid -> Process]
         /\ \A q \in Pid \ {p} : proc'[q] = proc[q]
         /\ Live(p) /\ (Live(p)' => proc'[p].stage = proc[p].stage)
         /\ job' = job /\ regime' = regime
<1>1. CASE \E step \in Steps : Goes(p, step)
  <2>1. PICK step \in Steps : Goes(p, step)
    BY <1>1
  <2>2. Live(p) /\ job' = job /\ regime' = regime
    BY DEF Reach, Script, Kill, Fail, Skip, NoInterpreter, Proceed, MakeLock, OpenOwner,
       WritePid, ReadOwner, TestOwner, ClearStale, RemoveStale, Retake, Leave, RemoveLock,
       Refuse, Repeat, StartCapture, StartAnew, Begin, BeginUnchanged, Finish, Mark,
       CaptureRun, ScoreRun, DropLogits, ScriptElse, LockElse, Unlink, Live, At
  <2> QED
    BY <2>1, <2>2, GoMoves DEF Live
<1>2. CASE \E r \in ColdRun : CaptureRun(p, r) \/ ScoreRun(p, r) \/ DropLogits(p, r)
  BY <1>2 DEF CaptureRun, ScoreRun, DropLogits, At, Live, TypeOK, Process
<1>3. CASE ReadOwner(p, proc[p].stage)
  <2>1. proc[p].stage \in Stages
    BY DEF TypeOK
  <2>2. Live(p) /\ job' = job /\ regime' = regime
    BY <1>3 DEF ReadOwner, ScriptElse, Live, At
  <2> QED
    BY <1>3, <2>1, <2>2, ReadMoves DEF Live
<1>4. \/ \E step \in Steps : Goes(p, step)
      \/ \E r \in ColdRun : CaptureRun(p, r) \/ ScoreRun(p, r) \/ DropLogits(p, r)
      \/ ReadOwner(p, proc[p].stage)
  BY DEF Reach, Script, Kill, Fail, Skip, NoInterpreter, Proceed, MakeLock, OpenOwner,
     WritePid, TestOwner, ClearStale, RemoveStale, Retake, Leave, RemoveLock, Refuse,
     Repeat, StartCapture, StartAnew, Finish, Mark, Go, Fails, Succeeds, Steps, Body
<1> QED
  BY <1>1, <1>2, <1>3, <1>4

LEMMA LaunchMoves ==
  ASSUME TypeOK, NEW p \in Pid, NEW s \in Stages, Launch(p, s)
  PROVE  /\ proc' \in [Pid -> Process]
         /\ \A q \in Pid \ {p} : proc'[q] = proc[q]
         /\ proc'[p].at = "marker" /\ proc'[p].stage = s
         /\ ~Live(p) /\ UNCHANGED <<job, regime, pass, files, kills>>
<1>1. [at |-> "marker", stage |-> s, saw |-> NoFile] \in Process
  BY DEF Process, Steps
<1> QED
  BY <1>1 DEF Launch, May, Starts, TypeOK, Process

LEMMA InitTyped == Init => TypeOK
<1> SUFFICES ASSUME Init PROVE TypeOK
  OBVIOUS
<1>1. Idle \in [at : Steps, stage : Stages, saw : Pid \cup {NoFile}]
  BY IdleTyped DEF Process
<1>2. regime.kills \in Nat
  BY StageRunAssumption DEF Init, Regime
<1> QED
  BY <1>1, <1>2 DEF Init, TypeOK

LEMMA StepTyped == TypeOK /\ [Next]_vars => TypeOK'
<1> SUFFICES ASSUME TypeOK, [Next]_vars PROVE TypeOK'
  OBVIOUS
<1>1. regime.kills \in Nat
  BY StageRunAssumption DEF TypeOK, Regime
<1>2. ASSUME NEW p \in Pid, NEW s \in Stages, Launch(p, s) PROVE TypeOK'
  BY <1>2, LaunchMoves DEF TypeOK, Process, files, lock, runs
<1>3. ASSUME NEW p \in Pid, Reach(p) PROVE TypeOK'
  <2>1. proc' \in [Pid -> [at : Steps, stage : Stages, saw : Pid \cup {NoFile}]]
    BY <1>3, Moves DEF Process
  <2>2. PICK s \in Stages : s = proc[p].stage
    BY DEF TypeOK
  <2>0. pass' \subseteq Stages
    BY <1>3, <2>2 DEF Reach, Script, Kill, Fail, Skip, NoInterpreter, Proceed, MakeLock,
       OpenOwner, WritePid, ReadOwner, TestOwner, ClearStale, RemoveStale, Retake, Leave,
       RemoveLock, Refuse, Repeat, StartCapture, StartAnew, Finish, Mark, CaptureRun,
       ScoreRun, DropLogits, Go, Fails, Succeeds, TypeOK
  <2>3. CASE \/ Skip(p, s) \/ NoInterpreter(p, s) \/ Proceed(p, s)
             \/ ReadOwner(p, s) \/ TestOwner(p, s) \/ Refuse(p, s)
    BY <2>0, <2>1, <2>3 DEF Skip, NoInterpreter, Proceed, ReadOwner, TestOwner, Refuse,
       ScriptElse, TypeOK, files, lock, runs
  <2>4. CASE MakeLock(p, s) \/ Retake(p, s)
    BY <2>0, <2>1, <2>2, <2>4 DEF MakeLock, Retake, LockElse, runs, TypeOK
  <2>5. CASE OpenOwner(p, s)
    <3>1. opened' \in [Stages -> SUBSET Pid] /\ owner' \in [Stages -> Pid \cup {NoFile, Blank}]
      BY <2>2, <2>5 DEF OpenOwner, TypeOK
    <3> QED
      BY <2>0, <2>1, <2>5, <3>1 DEF OpenOwner, LockElse, runs, TypeOK
  <2>6. CASE WritePid(p, s)
    <3>1. owner' = [owner EXCEPT ![s] = IF p \in opened[s] THEN p ELSE owner[s]]
          /\ opened' = [opened EXCEPT ![s] = opened[s] \ {p}]
      BY <2>6 DEF WritePid
    <3>2. opened' \in [Stages -> SUBSET Pid] /\ owner' \in [Stages -> Pid \cup {NoFile, Blank}]
      BY <2>2, <3>1 DEF TypeOK
    <3> QED
      BY <2>0, <2>1, <2>6, <3>2 DEF WritePid, LockElse, runs, TypeOK
  <2>7. CASE ClearStale(p, s) \/ Leave(p, s)
    BY <2>0, <2>1, <2>2, <2>7 DEF ClearStale, Leave, Unlink, LockElse, runs, TypeOK
  <2>8. CASE RemoveStale(p, s) \/ RemoveLock(p, s)
    BY <2>0, <2>1, <2>2, <2>8 DEF RemoveStale, RemoveLock, LockElse, runs, TypeOK
  <2>9. CASE Repeat(p, s) \/ StartCapture(p, s) \/ StartAnew(p, s)
    <3>1. art' \in [Stages -> {"none", "partial", "whole"}]
      BY <2>2, <2>9 DEF Repeat, StartCapture, StartAnew, TypeOK
    <3> QED
      BY <2>0, <2>1, <3>1, <2>9 DEF Repeat, StartCapture, StartAnew, BeginUnchanged, lock,
         runs, TypeOK
  <2>10. CASE Finish(p, s)
    BY <2>0, <2>1, <2>2, <2>10 DEF Finish, lock, runs, TypeOK
  <2>11. CASE Mark(p, s)
    BY <2>0, <2>1, <2>2, <2>11 DEF Mark, lock, runs, TypeOK
  <2>12. CASE \E r \in ColdRun : CaptureRun(p, r) \/ ScoreRun(p, r) \/ DropLogits(p, r)
    BY <2>0, <2>1, <2>12 DEF CaptureRun, ScoreRun, DropLogits, lock, TypeOK
  <2>13. CASE Kill(p)
    <3>1. opened' \in [Stages -> SUBSET Pid]
      BY <2>13 DEF Kill, Closes, TypeOK
    <3> QED
      BY <2>0, <2>1, <3>1, <2>13, <1>1 DEF Kill, Closes, runs, TypeOK
  <2>14. CASE Fail(p)
    BY <2>0, <2>1, <2>14, <1>1 DEF Fail, TypeOK, files, lock, runs
  <2> QED
    BY <1>3, <2>3, <2>4, <2>5, <2>6, <2>7, <2>8, <2>9, <2>10, <2>11, <2>12, <2>13, <2>14,
       <2>2 DEF Reach, Script
<1>4. CASE UNCHANGED vars
  BY <1>4 DEF vars, files, lock, runs, TypeOK
<1> QED
  BY <1>2, <1>3, <1>4 DEF Next, Reach

(* The run root and its invocations keep their types.                       *)
THEOREM TypeCorrect == Spec => []TypeOK
  BY InitTyped, StepTyped, PTL DEF Spec

-----------------------------------------------------------------------------
(* The lock.  mkdir decides who holds it, and the trap that removes it is   *)
(* set by holders only; what else removes it is a takeover.                 *)

Kept == \A s \in Stages \ usurped :
  /\ \A p \in Pid : Holds(p, s) => s \in locked
  /\ \A p, q \in Pid : Holds(p, s) /\ Holds(q, s) => p = q

(* A step that removes no lock and makes no new holder. *)
LEMMA LockQuiet ==
  ASSUME Kept, NEW p \in Pid, usurped' = usurped, locked \subseteq locked',
         \A q \in Pid \ {p} : proc'[q] = proc[q],
         \A s \in Stages : Holds(p, s)' => Holds(p, s)
  PROVE  Kept'
<1>1. \A q \in Pid, s \in Stages : Holds(q, s)' => Holds(q, s)
  BY DEF Holds
<1> QED
  BY <1>1 DEF Kept

LEMMA KeptStep == TypeOK /\ Kept /\ [Next]_vars => Kept'
<1> SUFFICES ASSUME TypeOK, Kept, [Next]_vars PROVE Kept'
  OBVIOUS
<1> USE DEF Steps, Body
<1>1. ASSUME NEW p \in Pid, NEW s \in Stages, Launch(p, s) PROVE Kept'
  BY <1>1, LaunchMoves, LockQuiet DEF Holds, files, lock
<1>2. ASSUME NEW p \in Pid, Reach(p) PROVE Kept'
  <2>1. PICK s \in Stages : s = proc[p].stage
    BY DEF TypeOK
  <2>2. \A q \in Pid \ {p} : proc'[q] = proc[q]
    BY <1>2, Moves
  <2>3. CASE \/ Skip(p, s) \/ NoInterpreter(p, s) \/ Proceed(p, s) \/ TestOwner(p, s)
             \/ ClearStale(p, s)
    <3>1. PICK step \in {"free", "lock", "clear", "rmdir", "retake"} : Goes(p, step)
      BY <2>3 DEF Skip, NoInterpreter, Proceed, TestOwner, ClearStale, Go, Fails, Succeeds
    <3>2. usurped' = usurped /\ locked' = locked
      BY <2>3 DEF Skip, NoInterpreter, Proceed, TestOwner, ClearStale, Unlink, ScriptElse,
         files, lock
    <3> QED
      BY <3>1, <3>2, <2>2, GoMoves, LockQuiet DEF Holds
  <2>4. CASE ReadOwner(p, s)
    BY <2>2, <2>4, ReadMoves, LockQuiet DEF Holds, ReadOwner, ScriptElse, files, lock
  <2>5. CASE \/ OpenOwner(p, s) \/ WritePid(p, s) \/ Leave(p, s) \/ Refuse(p, s)
             \/ Repeat(p, s) \/ StartCapture(p, s) \/ StartAnew(p, s) \/ Finish(p, s)
             \/ Mark(p, s) \/ Fail(p) \/ Kill(p)
    <3>1. PICK step \in {"pid", "free"} \cup Body : Goes(p, step)
      BY <2>5 DEF OpenOwner, WritePid, Leave, Refuse, Repeat, StartCapture, StartAnew,
         Finish, Mark, Fail, Kill, Go, Fails, Succeeds
    <3>2. usurped' = usurped /\ locked' = locked
      BY <2>5 DEF OpenOwner, WritePid, Leave, Unlink, Refuse, Repeat, StartCapture,
         StartAnew, BeginUnchanged, Finish, Mark, Fail, Kill, Closes, ScriptElse, files, lock
    <3>3. step = "free" \/ proc[p].at \in {"open", "pid"} \cup Body
      BY <2>5, <3>1, GoMoves DEF OpenOwner, WritePid, Leave, Refuse, Repeat, StartCapture,
         StartAnew, Begin, Finish, Mark, Fail, Kill, Fails, At
    <3> QED
      BY <3>1, <3>2, <3>3, <2>2, GoMoves, LockQuiet DEF Holds
  <2>6. CASE \E r \in ColdRun : CaptureRun(p, r) \/ ScoreRun(p, r) \/ DropLogits(p, r)
    BY <2>6, LockQuiet DEF CaptureRun, ScoreRun, DropLogits, Holds, lock
  <2>7. CASE MakeLock(p, s) \/ Retake(p, s)
    <3>1. usurped' = usurped
      BY <2>7 DEF MakeLock, Retake
    <3>2. CASE s \in locked
      <4>1. PICK step \in {"held", "free"} : Goes(p, step)
        BY <2>7, <3>2 DEF MakeLock, Retake, Go, Fails
      <4>2. locked' = locked
        BY <2>7, <3>2 DEF MakeLock, Retake
      <4> QED
        BY <4>1, <4>2, <3>1, <2>2, GoMoves, LockQuiet DEF Holds
    <3>3. CASE s \notin locked
      <4>1. Goes(p, "open") /\ locked' = locked \cup {s}
        BY <2>7, <3>3 DEF MakeLock, Retake, Go
      <4>2. proc'[p].at = "open" /\ proc'[p].stage = s
        BY <4>1, <2>1, GoMoves
      <4>3. \A q \in Pid, t \in Stages : Holds(q, t)' => Holds(q, t) \/ (q = p /\ t = s)
        BY <4>2, <2>2 DEF Holds
      <4>4. s \notin usurped => \A q \in Pid : ~Holds(q, s)
        BY <3>3 DEF Kept
      <4> QED
        BY <4>1, <4>3, <4>4, <3>1 DEF Kept
    <3> QED
      BY <3>2, <3>3
  <2>8. CASE RemoveStale(p, s)
    <3>1. CASE owner[s] = NoFile
      <4>1. Goes(p, "retake") /\ locked' = locked \ {s}
        BY <2>8, <3>1 DEF RemoveStale, Go
      <4>2. usurped' = usurped \cup {s} \/ (usurped' = usurped /\ \A q \in Pid : ~Holds(q, s))
        BY <2>8, <3>1 DEF RemoveStale
      <4>3. \A q \in Pid, t \in Stages : Holds(q, t)' => Holds(q, t)
        BY <4>1, <2>2, GoMoves DEF Holds
      <4> QED
        BY <4>1, <4>2, <4>3 DEF Kept
    <3>2. CASE owner[s] # NoFile
      <4>1. Goes(p, "free") /\ locked' = locked /\ usurped' = usurped
        BY <2>8, <3>2 DEF RemoveStale, Fails
      <4> QED
        BY <4>1, <2>2, GoMoves, LockQuiet DEF Holds
    <3> QED
      BY <3>1, <3>2
  <2>9. CASE RemoveLock(p, s)
    <3>1. /\ Goes(p, "free") /\ usurped' = usurped /\ locked \ {s} \subseteq locked'
          /\ Holds(p, s)
      BY <2>9 DEF RemoveLock, Go, Holds, At
    <3>2. \A q \in Pid, t \in Stages : Holds(q, t)' => Holds(q, t) /\ q # p
      BY <3>1, <2>2, GoMoves DEF Holds
    <3> QED
      BY <3>1, <3>2 DEF Kept
  <2> QED
    BY <1>2, <2>3, <2>4, <2>5, <2>6, <2>7, <2>8, <2>9, <2>1 DEF Reach, Script
<1>3. CASE UNCHANGED vars
  BY <1>3 DEF vars, files, lock, Kept, Holds
<1> QED
  BY <1>1, <1>2, <1>3 DEF Next, Reach

(* Where an invocation comes only beside one that is in the body, a living  *)
(* holder's pid is in the owner file for whoever reads it, and who judges   *)
(* the lock stale is alone on the stage.                                    *)

Hold == {"open", "pid"} \cup Body
Taking == {"clear", "rmdir", "retake"}

Owned(p) ==
  /\ proc[p].at \in Body \ {"left"} => owner[proc[p].stage] = p
  /\ proc[p].at = "left" => owner[proc[p].stage] = NoFile
  /\ proc[p].at = "pid" => p \in opened[proc[p].stage]

Beside(p, q) == p # q /\ Live(p) /\ Live(q) /\ proc[p].stage = proc[q].stage

Apart(p, q) == Beside(p, q) =>
  /\ proc[p].at \in Body \/ proc[q].at \in Body
  /\ proc[q].at \in Taking => proc[p].at \notin Hold
  /\ proc[q].at = "test" /\ proc[p].at \in Hold => proc[q].saw = p

Guarded == regime.crowd # "any" =>
  usurped = {} /\ (\A p \in Pid : Owned(p)) /\ (\A p, q \in Pid : Apart(p, q))

Locks == TypeOK /\ Kept /\ Guarded

LEMMA HolderAlone ==
  ASSUME Locks, regime.crowd # "any", NEW p \in Pid, NEW q \in Pid, Beside(p, q),
         proc[p].at \in Hold
  PROVE  proc[q].at \notin Hold /\ proc[p].at \in Body
<1>1. proc[p].stage \in Stages /\ usurped = {}
  BY DEF Locks, TypeOK, Guarded
<1>2. proc[q].at \notin Hold
  BY <1>1 DEF Locks, Kept, Holds, Hold, Beside
<1> QED
  BY <1>2 DEF Locks, Guarded, Apart, Hold

LEMMA TakerAlone ==
  ASSUME Locks, regime.crowd # "any", NEW p \in Pid, proc[p].at \in Taking
  PROVE  \A q \in Pid : ~Beside(p, q)
<1> SUFFICES ASSUME NEW q \in Pid, Beside(p, q) PROVE FALSE
  OBVIOUS
<1>1. Apart(p, q) /\ Apart(q, p) /\ Beside(q, p)
  BY DEF Locks, Guarded, Beside
<1>2. proc[p].at \notin Body
  BY DEF Taking, Body
<1> QED
  BY <1>1, <1>2 DEF Apart, Hold, Body

LEMMA GuardedMove ==
  ASSUME Locks, regime.crowd # "any", NEW p \in Pid, NEW s \in Stages, s = proc[p].stage,
         \A q \in Pid \ {p} : proc'[q] = proc[q],
         \A t \in Stages :
           \/ owner'[t] = owner[t] /\ opened[t] \ {p} \subseteq opened'[t]
           \/ t = s /\ \A q \in Pid : Beside(p, q) => proc[q].at \notin Hold,
         Live(p), usurped' = usurped, Owned(p)',
         \/ ~Live(p)'
         \/ /\ proc'[p].stage = s
            /\ \/ proc[p].at \in Body /\ proc'[p].at \in Body
               \/ \A q \in Pid : ~Beside(p, q)
               \/ proc[p].at \notin Body /\ proc'[p].at \in {"lock", "held"}
               \/ /\ proc[p].at \notin Body /\ proc'[p].at = "test"
                  /\ \A q \in Pid : Beside(p, q) /\ proc[q].at \in Hold =>
                                      proc'[p].saw = q
  PROVE  Guarded'
<1>1. usurped = {} /\ (\A q \in Pid : Owned(q)) /\ \A q, r \in Pid : Apart(q, r)
  BY DEF Locks, Guarded
<1>2. ASSUME NEW q \in Pid \ {p} PROVE Owned(q)'
  <2>1. Owned(q) /\ proc[q].stage \in Stages /\ proc'[q] = proc[q]
    BY <1>1 DEF Locks, TypeOK
  <2>2. CASE proc[q].at \in Hold
    <3>1. Live(q)
      BY <2>2 DEF Hold, Body, Live
    <3>2. \/ owner'[proc[q].stage] = owner[proc[q].stage]
             /\ opened[proc[q].stage] \ {p} \subseteq opened'[proc[q].stage]
      BY <2>1, <2>2, <3>1 DEF Beside
    <3> QED
      BY <2>1, <3>2 DEF Owned
  <2>3. CASE proc[q].at \notin Hold
    BY <2>1, <2>3 DEF Owned, Hold, Body
  <2> QED
    BY <2>2, <2>3
<1>3. ASSUME NEW q \in Pid, NEW r \in Pid, Beside(q, r)'
      PROVE  Apart(q, r)'
  <2>1. CASE q # p /\ r # p
    <3>1. proc'[q] = proc[q] /\ proc'[r] = proc[r] /\ Apart(q, r)
      BY <2>1, <1>1
    <3> QED
      BY <3>1 DEF Apart, Beside, Live
  <2>2. CASE q = p /\ r # p
    <3>1. proc'[r] = proc[r] /\ Apart(p, r) /\ Apart(r, p) /\ Beside(p, r) /\ Beside(r, p)
      BY <2>2, <1>1, <1>3 DEF Beside, Live
    <3>2. Live(p)' /\ proc'[p].stage = s
      BY <2>2, <1>3 DEF Beside
    <3>3. CASE proc[p].at \in Body /\ proc'[p].at \in Body
      <4>1. proc[p].at \in Hold
        BY <3>3 DEF Hold
      <4> QED
        BY <3>1, <3>3, <4>1, <2>2 DEF Apart
    <3>4. CASE proc[p].at \notin Body /\ proc'[p].at \in {"lock", "held", "test"}
      <4>1. proc[r].at \in Body
        BY <3>1, <3>4 DEF Apart
      <4>2. proc[r].at \notin Taking \cup {"test"} /\ proc'[p].at \notin Hold
        BY <4>1, <3>4 DEF Body, Taking, Hold
      <4> QED
        BY <3>1, <4>1, <4>2, <2>2 DEF Apart
    <3> QED
      BY <3>1, <3>2, <3>3, <3>4
  <2>3. CASE q # p /\ r = p
    <3>1. proc'[q] = proc[q] /\ Apart(p, q) /\ Apart(q, p) /\ Beside(p, q) /\ Beside(q, p)
      BY <2>3, <1>1, <1>3 DEF Beside, Live
    <3>2. Live(p)' /\ proc'[p].stage = s
      BY <2>3, <1>3 DEF Beside
    <3>3. CASE proc[p].at \in Body /\ proc'[p].at \in Body
      <4>1. proc'[p].at \notin Taking \cup {"test"}
        BY <3>3 DEF Body, Taking
      <4> QED
        BY <3>3, <4>1, <2>3 DEF Apart
    <3>4. CASE proc[p].at \notin Body /\ proc'[p].at \in {"lock", "held", "test"}
      <4>1. proc[q].at \in Body
        BY <3>1, <3>4 DEF Apart
      <4>2. proc'[p].at \notin Taking
        BY <3>4 DEF Taking
      <4>3. proc'[p].at = "test" => proc'[p].saw = q
        BY <3>1, <3>2, <3>4, <4>1 DEF Hold
      <4> QED
        BY <3>1, <4>1, <4>2, <4>3, <2>3 DEF Apart
    <3> QED
      BY <3>1, <3>2, <3>3, <3>4
  <2> QED
    BY <2>1, <2>2, <2>3, <1>3 DEF Beside
<1>4. \A q, r \in Pid : Apart(q, r)'
  BY <1>3 DEF Apart
<1> QED
  BY <1>1, <1>2, <1>4 DEF Guarded

LEMMA GuardedStep == Locks /\ [Next]_vars => Guarded'
<1> SUFFICES ASSUME Locks, [Next]_vars PROVE Guarded'
  OBVIOUS
<1> USE DEF Steps
<1>0. TypeOK
  BY DEF Locks
<1>a. ASSUME regime.crowd = "any", regime' = regime PROVE Guarded'
  BY <1>a DEF Guarded
<1>1. ASSUME NEW p \in Pid, NEW s \in Stages, Launch(p, s) PROVE Guarded'
  <2> SUFFICES ASSUME regime.crowd # "any" PROVE Guarded'
    BY <1>0, <1>1, <1>a, LaunchMoves
  <2>1. /\ \A q \in Pid \ {p} : proc'[q] = proc[q]
        /\ proc'[p].at = "marker" /\ proc'[p].stage = s
        /\ ~Live(p) /\ owner' = owner /\ opened' = opened /\ usurped' = usurped
    BY <1>0, <1>1, LaunchMoves DEF files, lock
  <2>2. \A q \in Pid : Live(q) /\ proc[q].stage = s => proc[q].at \in Body
    <3>1. regime.crowd \in {"alone", "spaced"}
      BY <1>0, StageRunAssumption DEF TypeOK, Regime
    <3> QED
      BY <3>1, <1>1 DEF Launch, May
  <2>3. \A q, r \in Pid : Apart(q, r)'
    <3> SUFFICES ASSUME NEW q \in Pid, NEW r \in Pid, Beside(q, r)' PROVE Apart(q, r)'
      BY DEF Apart
    <3>1. CASE q # p /\ r # p
      <4>1. proc'[q] = proc[q] /\ proc'[r] = proc[r] /\ Apart(q, r)
        BY <3>1, <2>1 DEF Locks, Guarded
      <4> QED
        BY <4>1 DEF Apart, Beside, Live
    <3>2. CASE q = p \/ r = p
      BY <3>2, <2>1, <2>2 DEF Beside, Apart, Live, Hold, Body, Taking
    <3> QED
      BY <3>1, <3>2
  <2>4. \A q \in Pid : Owned(q)'
    <3> SUFFICES ASSUME NEW q \in Pid PROVE Owned(q)'
      OBVIOUS
    <3>1. CASE q = p
      BY <3>1, <2>1 DEF Owned, Body
    <3>2. CASE q # p
      <4>1. proc'[q] = proc[q] /\ Owned(q)
        BY <3>2, <2>1 DEF Locks, Guarded
      <4> QED
        BY <4>1, <2>1 DEF Owned
    <3> QED
      BY <3>1, <3>2
  <2> QED
    BY <2>1, <2>3, <2>4 DEF Locks, Guarded
<1>2. ASSUME NEW p \in Pid, Reach(p) PROVE Guarded'
  <2> SUFFICES ASSUME regime.crowd # "any" PROVE Guarded'
    BY <1>0, <1>2, <1>a, Moves
  <2>1. PICK s \in Stages : s = proc[p].stage
    BY <1>0 DEF TypeOK
  <2>2. Live(p) /\ \A q \in Pid \ {p} : proc'[q] = proc[q]
    BY <1>0, <1>2, Moves
  <2>0. usurped = {} /\ Owned(p) /\ opened[s] \subseteq Pid
    BY <1>0, <2>1 DEF Locks, Guarded, TypeOK
  <2>3. CASE \/ Skip(p, s) \/ NoInterpreter(p, s) \/ Proceed(p, s)
    <3>1. PICK step \in {"free", "lock"} : Goes(p, step)
      BY <2>3 DEF Skip, NoInterpreter, Proceed, Go, Fails, Succeeds
    <3>2. usurped' = usurped /\ owner' = owner /\ opened' = opened /\ proc[p].at = "marker"
      BY <2>3 DEF Skip, NoInterpreter, Proceed, ScriptElse, files, lock, At
    <3>3. proc'[p].at = step /\ (step # "free" => proc'[p].stage = s)
      BY <1>0, <2>1, <3>1, GoMoves
    <3>4. Owned(p)'
      BY <3>3 DEF Owned, Body
    <3> QED
      BY <2>1, <2>2, <3>2, <3>3, <3>4, GuardedMove DEF Live, Body
  <2>4. CASE ReadOwner(p, s)
    <3>1. usurped' = usurped /\ owner' = owner /\ opened' = opened /\ proc[p].at = "held"
      BY <2>4 DEF ReadOwner, ScriptElse, files, lock, At
    <3>2. /\ \/ proc'[p].at = "free"
             \/ proc'[p].at = "clear" /\ proc'[p].stage = s /\ owner[s] = Blank
             \/ /\ proc'[p].at = "test" /\ proc'[p].stage = s
                /\ owner[s] \in Pid /\ proc'[p].saw = owner[s]
      BY <1>0, <2>4, ReadMoves
    <3>3. ASSUME NEW q \in Pid, Beside(p, q)
          PROVE  proc[q].at \in Body /\ (owner[s] = q \/ owner[s] = NoFile)
      <4>1. Apart(p, q) /\ Owned(q) /\ proc[q].stage = s
        BY <3>3, <2>1 DEF Locks, Guarded, Beside
      <4>2. proc[q].at \in Body
        BY <4>1, <3>1, <3>3 DEF Apart, Body
      <4> QED
        BY <4>1, <4>2 DEF Owned, Body
    <3>4. Owned(p)'
      BY <3>2 DEF Owned, Body
    <3>5. CASE proc'[p].at = "free"
      BY <2>1, <2>2, <3>1, <3>4, <3>5, GuardedMove DEF Live
    <3>6. CASE proc'[p].at = "clear" /\ proc'[p].stage = s /\ owner[s] = Blank
      <4>1. \A q \in Pid : ~Beside(p, q)
        BY <3>3, <3>6, StageRunAssumption
      <4> QED
        BY <2>1, <2>2, <3>1, <3>4, <3>6, <4>1, GuardedMove
    <3>7. CASE /\ proc'[p].at = "test" /\ proc'[p].stage = s
               /\ owner[s] \in Pid /\ proc'[p].saw = owner[s]
      <4>1. \A q \in Pid : Beside(p, q) => proc'[p].saw = q
        BY <3>3, <3>7, StageRunAssumption
      <4>2. proc[p].at \notin Body
        BY <3>1 DEF Body
      <4> QED
        BY <2>1, <2>2, <3>1, <3>4, <3>7, <4>1, <4>2, GuardedMove
    <3> QED
      BY <3>2, <3>5, <3>6, <3>7
  <2>5. CASE TestOwner(p, s)
    <3>1. /\ usurped' = usurped /\ owner' = owner /\ opened' = opened
          /\ proc[p].at = "test"
      BY <2>5 DEF TestOwner, ScriptElse, files, lock, At
    <3>2. CASE Live(proc[p].saw)
      <4>1. Goes(p, "free")
        BY <2>5, <3>2 DEF TestOwner, Fails
      <4>2. proc'[p].at = "free"
        BY <1>0, <4>1, GoMoves
      <4>3. Owned(p)'
        BY <4>2 DEF Owned, Body
      <4> QED
        BY <2>1, <2>2, <3>1, <4>2, <4>3, GuardedMove DEF Live
    <3>3. CASE ~Live(proc[p].saw)
      <4>1. Goes(p, "clear")
        BY <2>5, <3>3 DEF TestOwner, Go
      <4>2. proc'[p].at = "clear" /\ proc'[p].stage = s
        BY <1>0, <2>1, <4>1, GoMoves
      <4>3. Owned(p)'
        BY <4>2 DEF Owned, Body
      <4>4. \A q \in Pid : ~Beside(p, q)
        <5> SUFFICES ASSUME NEW q \in Pid, Beside(p, q) PROVE FALSE
          OBVIOUS
        <5>1. Apart(p, q) /\ Apart(q, p) /\ Beside(q, p) /\ Live(q)
          BY DEF Locks, Guarded, Beside
        <5> QED
          BY <5>1, <3>1, <3>3 DEF Apart, Hold, Body
      <4> QED
        BY <2>1, <2>2, <3>1, <4>2, <4>3, <4>4, GuardedMove
    <3> QED
      BY <3>2, <3>3
  <2>6. CASE MakeLock(p, s) \/ Retake(p, s)
    <3>1. /\ usurped' = usurped /\ owner' = owner /\ opened' = opened
          /\ proc[p].at \in {"lock", "retake"}
      BY <2>6 DEF MakeLock, Retake, At
    <3>2. PICK step \in {"held", "free", "open"} :
            Goes(p, step) /\ (step = "open" => s \notin locked)
      BY <2>6 DEF MakeLock, Retake, Go, Fails
    <3>3. proc'[p].at = step /\ (step # "free" => proc'[p].stage = s)
      BY <1>0, <2>1, <3>2, GoMoves
    <3>4. Owned(p)'
      BY <3>3 DEF Owned, Body
    <3>5. CASE step # "open"
      BY <2>1, <2>2, <3>1, <3>3, <3>4, <3>5, GuardedMove DEF Live, Body
    <3>6. CASE step = "open"
      <4>1. \A q \in Pid : ~Beside(p, q)
        <5> SUFFICES ASSUME NEW q \in Pid, Beside(p, q) PROVE FALSE
          OBVIOUS
        <5>1. proc[q].at \in Body /\ proc[q].stage = s
          BY <2>1, <3>1 DEF Locks, Guarded, Apart, Beside, Body
        <5>2. Holds(q, s) /\ s \in Stages \ usurped
          BY <5>1, <2>0 DEF Holds
        <5> QED
          BY <5>2, <3>2, <3>6 DEF Locks, Kept
      <4> QED
        BY <2>1, <2>2, <3>1, <3>3, <3>4, <3>6, <4>1, GuardedMove
    <3> QED
      BY <3>5, <3>6
  <2>7. CASE OpenOwner(p, s)
    <3>1. usurped' = usurped /\ proc[p].at = "open"
      BY <2>7 DEF OpenOwner, At
    <3>2. \A q \in Pid : ~Beside(p, q)
      BY <3>1, HolderAlone DEF Hold, Body
    <3>3. CASE s \in locked
      <4>1. /\ Goes(p, "pid") /\ owner' = [owner EXCEPT ![s] = Blank]
            /\ opened' = [opened EXCEPT ![s] = opened[s] \cup {p}]
        BY <2>7, <3>3 DEF OpenOwner, Go
      <4>2. proc'[p].at = "pid" /\ proc'[p].stage = s
        BY <1>0, <2>1, <4>1, GoMoves
      <4>3. \A t \in Stages \ {s} : owner'[t] = owner[t] /\ opened'[t] = opened[t]
        BY <4>1, <1>0 DEF TypeOK
      <4>4. p \in opened'[s]
        BY <4>1, <1>0 DEF TypeOK
      <4>5. Owned(p)'
        BY <4>2, <4>4 DEF Owned, Body
      <4> QED
        BY <2>1, <2>2, <3>1, <3>2, <4>2, <4>3, <4>5, GuardedMove
    <3>4. CASE s \notin locked
      <4>1. Goes(p, "free") /\ owner' = owner /\ opened' = opened
        BY <2>7, <3>4 DEF OpenOwner, Fails
      <4>2. proc'[p].at = "free"
        BY <1>0, <4>1, GoMoves
      <4>3. Owned(p)'
        BY <4>2 DEF Owned, Body
      <4> QED
        BY <2>1, <2>2, <3>1, <4>1, <4>2, <4>3, GuardedMove DEF Live
    <3> QED
      BY <3>3, <3>4
  <2>8. CASE WritePid(p, s)
    <3>1. /\ usurped' = usurped /\ proc[p].at = "pid" /\ Goes(p, "body")
          /\ owner' = [owner EXCEPT ![s] = IF p \in opened[s] THEN p ELSE owner[s]]
          /\ opened' = [opened EXCEPT ![s] = opened[s] \ {p}]
      BY <2>8 DEF WritePid, At, Go
    <3>2. \A q \in Pid : ~Beside(p, q)
      BY <3>1, HolderAlone DEF Hold, Body
    <3>3. proc'[p].at = "body" /\ proc'[p].stage = s
      BY <1>0, <2>1, <3>1, GoMoves DEF Body
    <3>4. p \in opened[s]
      BY <2>0, <2>1, <3>1 DEF Owned
    <3>5. owner'[s] = p /\ \A t \in Stages \ {s} : owner'[t] = owner[t] /\ opened'[t] = opened[t]
      BY <3>1, <3>4, <1>0 DEF TypeOK
    <3>6. Owned(p)'
      BY <3>3, <3>5 DEF Owned, Body
    <3> QED
      BY <2>1, <2>2, <3>1, <3>2, <3>3, <3>5, <3>6, GuardedMove
  <2>9. CASE ClearStale(p, s)
    <3>1. usurped' = usurped /\ proc[p].at = "clear" /\ owner' = [owner EXCEPT ![s] = NoFile]
          /\ opened' = [opened EXCEPT ![s] = {}]
      BY <2>9 DEF ClearStale, Unlink, At
    <3>2. PICK step \in {"rmdir", "retake"} : Goes(p, step)
      BY <2>9 DEF ClearStale, Go
    <3>3. proc'[p].at = step /\ proc'[p].stage = s
      BY <1>0, <2>1, <3>2, GoMoves
    <3>4. \A q \in Pid : ~Beside(p, q)
      BY <3>1, TakerAlone DEF Taking
    <3>5. \A t \in Stages \ {s} : owner'[t] = owner[t] /\ opened'[t] = opened[t]
      BY <3>1, <1>0 DEF TypeOK
    <3>6. Owned(p)'
      BY <3>3 DEF Owned, Body
    <3> QED
      BY <2>1, <2>2, <3>1, <3>3, <3>4, <3>5, <3>6, GuardedMove
  <2>10. CASE RemoveStale(p, s)
    <3>1. proc[p].at = "rmdir" /\ owner' = owner /\ opened' = opened
      BY <2>10 DEF RemoveStale, At
    <3>2. \A q \in Pid : ~Beside(p, q)
      BY <3>1, TakerAlone DEF Taking
    <3>3. \A q \in Pid : ~Holds(q, s)
      BY <2>1, <2>2, <3>1, <3>2 DEF Holds, Beside, Live, Body
    <3>4. usurped' = usurped
      BY <2>10, <3>3 DEF RemoveStale
    <3>5. PICK step \in {"free", "retake"} : Goes(p, step)
      BY <2>10 DEF RemoveStale, Go, Fails
    <3>6. proc'[p].at = step /\ (step # "free" => proc'[p].stage = s)
      BY <1>0, <2>1, <3>5, GoMoves
    <3>7. Owned(p)'
      BY <3>6 DEF Owned, Body
    <3> QED
      BY <2>1, <2>2, <3>1, <3>2, <3>4, <3>6, <3>7, GuardedMove DEF Live
  <2>11. CASE Leave(p, s)
    <3>1. usurped' = usurped /\ proc[p].at = "leave" /\ owner' = [owner EXCEPT ![s] = NoFile]
          /\ opened' = [opened EXCEPT ![s] = {}]
      BY <2>11 DEF Leave, Unlink, At
    <3>2. PICK step \in {"left", "free"} : Goes(p, step)
      BY <2>11 DEF Leave, Go
    <3>3. proc'[p].at = step /\ (step # "free" => proc'[p].stage = s)
      BY <1>0, <2>1, <3>2, GoMoves DEF Body
    <3>4. \A q \in Pid : Beside(p, q) => proc[q].at \notin Hold
      BY <3>1, HolderAlone DEF Hold, Body
    <3>5. \A t \in Stages \ {s} : owner'[t] = owner[t] /\ opened'[t] = opened[t]
      BY <3>1, <1>0 DEF TypeOK
    <3>6. owner'[s] = NoFile
      BY <3>1, <1>0 DEF TypeOK
    <3>7. Owned(p)'
      BY <3>3, <3>6 DEF Owned, Body
    <3> QED
      BY <2>1, <2>2, <3>1, <3>3, <3>4, <3>5, <3>7, GuardedMove DEF Live, Body
  <2>12. CASE RemoveLock(p, s) \/ Kill(p)
    <3>1. /\ usurped' = usurped /\ owner' = owner /\ Goes(p, "free")
          /\ \A t \in Stages : opened[t] \ {p} \subseteq opened'[t]
      BY <2>12, <1>0 DEF RemoveLock, Kill, Closes, Go, Fails, TypeOK
    <3>2. proc'[p].at = "free"
      BY <1>0, <3>1, GoMoves
    <3>3. Owned(p)'
      BY <3>2 DEF Owned, Body
    <3> QED
      BY <2>1, <2>2, <3>1, <3>2, <3>3, GuardedMove DEF Live
  <2>13. CASE \/ Refuse(p, s) \/ Repeat(p, s) \/ StartCapture(p, s) \/ StartAnew(p, s)
              \/ Finish(p, s) \/ Mark(p, s) \/ Fail(p)
    <3>1. PICK step \in {"work", "mark", "leave"} : Goes(p, step)
      BY <2>13 DEF Refuse, Repeat, StartCapture, StartAnew, Finish, Mark, Fail, Go, Fails,
         Succeeds
    <3>2. /\ usurped' = usurped /\ owner' = owner /\ opened' = opened
          /\ proc[p].at \in {"body", "work", "mark"}
      BY <2>13 DEF Refuse, Repeat, StartCapture, StartAnew, Begin, BeginUnchanged, Finish,
         Mark, Fail, ScriptElse, files, lock, At
    <3>3. proc'[p].at = step /\ proc'[p].stage = s
      BY <1>0, <2>1, <3>1, GoMoves DEF Body
    <3>4. Owned(p)'
      BY <2>0, <2>1, <3>2, <3>3 DEF Owned, Body
    <3> QED
      BY <2>1, <2>2, <3>2, <3>3, <3>4, GuardedMove DEF Body
  <2>14. CASE \E r \in ColdRun : CaptureRun(p, r) \/ ScoreRun(p, r) \/ DropLogits(p, r)
    <3>1. UNCHANGED <<proc, regime, lock>>
      BY <1>0, <1>2, <2>14, Moves DEF CaptureRun, ScoreRun, DropLogits
    <3> QED
      BY <3>1 DEF Locks, Guarded, Owned, Apart, Beside, Live, lock
  <2> QED
    BY <1>2, <2>3, <2>4, <2>5, <2>6, <2>7, <2>8, <2>9, <2>10, <2>11, <2>12, <2>13, <2>14,
       <2>1 DEF Reach, Script
<1>3. CASE UNCHANGED vars
  BY <1>3 DEF vars, files, lock, Locks, Guarded, Owned, Apart, Beside, Live
<1> QED
  BY <1>1, <1>2, <1>3 DEF Next, Reach

LEMMA LocksAlways == Spec => []Locks
<1>1. Init => Locks
  <2> SUFFICES ASSUME Init PROVE Locks
    OBVIOUS
  <2>1. \A p \in Pid : proc[p].at = "free"
    BY IdleTyped DEF Init
  <2> QED
    BY <2>1, InitTyped DEF Locks, Kept, Guarded, Owned, Apart, Beside, Live, Holds, Body, Init
<1>2. Locks /\ [Next]_vars => Locks'
  BY StepTyped, KeptStep, GuardedStep DEF Locks
<1> QED
  BY <1>1, <1>2, PTL DEF Spec

(* The lock of stage_measure.sh does what it is for as long as no takeover  *)
(* removes it under a living holder, and none does where an invocation of a *)
(* stage under way comes only when that one has recorded itself.            *)
THEOREM OneWriterWhileKept == Spec => []OneWriterUnlessUsurped
<1>1. Locks => OneWriterUnlessUsurped
  BY DEF Locks, Kept, Guarded, OneWriterUnlessUsurped, Writing, Holds, Body
<1> QED
  BY <1>1, LocksAlways, PTL


-----------------------------------------------------------------------------
(* A driver alone on the root, and what its pass has behind it.             *)

Lone ==
  /\ regime.crowd = "alone" => \A p, q \in Pid : Live(p) /\ Live(q) => p = q
  /\ pass \subseteq done

LEMMA LoneStep == TypeOK /\ Lone /\ [Next]_vars => Lone'
<1> SUFFICES ASSUME TypeOK, Lone, [Next]_vars PROVE Lone'
  OBVIOUS
<1>1. ASSUME NEW p \in Pid, NEW s \in Stages, Launch(p, s) PROVE Lone'
  <2>1. regime.crowd = "alone" => \A q \in Pid : ~Live(q)
    BY <1>1 DEF Launch, May
  <2> QED
    BY <1>1, <2>1, LaunchMoves DEF Lone, Live, files
<1>2. ASSUME NEW p \in Pid, Reach(p) PROVE Lone'
  <2>1. PICK s \in Stages : s = proc[p].stage
    BY DEF TypeOK
  <2>2. pass' \subseteq done'
    <3>1. CASE Skip(p, s) \/ Mark(p, s)
      BY <3>1 DEF Skip, Mark, Succeeds, ScriptElse, files, Lone
    <3>2. CASE \/ NoInterpreter(p, s) \/ Proceed(p, s) \/ MakeLock(p, s)
               \/ OpenOwner(p, s) \/ WritePid(p, s) \/ ReadOwner(p, s)
               \/ TestOwner(p, s) \/ ClearStale(p, s) \/ RemoveStale(p, s)
               \/ Retake(p, s) \/ Leave(p, s) \/ RemoveLock(p, s) \/ Refuse(p, s)
      <4>1. done' = done
        BY <3>2 DEF NoInterpreter, Proceed, MakeLock, OpenOwner, WritePid, ReadOwner,
           TestOwner, ClearStale, RemoveStale, Retake, Leave, RemoveLock, Refuse, Unlink,
           ScriptElse, LockElse, files
      <4>2. pass' = pass \/ pass' = {}
        BY <3>2 DEF NoInterpreter, Proceed, MakeLock, OpenOwner, WritePid, ReadOwner,
           TestOwner, ClearStale, RemoveStale, Retake, Leave, RemoveLock, Refuse, Go, Fails
      <4> QED
        BY <4>1, <4>2 DEF Lone
    <3>3. CASE \/ Repeat(p, s) \/ StartCapture(p, s) \/ StartAnew(p, s) \/ Finish(p, s)
               \/ Kill(p) \/ Fail(p)
               \/ \E r \in ColdRun : CaptureRun(p, r) \/ ScoreRun(p, r) \/ DropLogits(p, r)
      <4>1. done' = done
        BY <3>3 DEF Repeat, StartCapture, StartAnew, BeginUnchanged, Finish, Kill, Closes,
           Fail, CaptureRun, ScoreRun, DropLogits, files
      <4>2. pass' = pass \/ pass' = {}
        BY <3>3 DEF Repeat, StartCapture, StartAnew, Finish, Kill, Fail, CaptureRun,
           ScoreRun, DropLogits, Go, Fails
      <4> QED
        BY <4>1, <4>2 DEF Lone
    <3> QED
      BY <1>2, <3>1, <3>2, <3>3, <2>1 DEF Reach, Script
  <2> QED
    BY <1>2, <2>2, Moves DEF Lone, Live
<1>3. CASE UNCHANGED vars
  BY <1>3 DEF vars, files, Lone, Live
<1> QED
  BY <1>1, <1>2, <1>3 DEF Next, Reach

(* The steps of the script that touch no output. *)
Quiet(p, s) ==
  \/ Skip(p, s) \/ NoInterpreter(p, s) \/ Proceed(p, s) \/ MakeLock(p, s)
  \/ OpenOwner(p, s) \/ WritePid(p, s) \/ ReadOwner(p, s) \/ TestOwner(p, s)
  \/ ClearStale(p, s) \/ RemoveStale(p, s) \/ Retake(p, s) \/ Leave(p, s)
  \/ RemoveLock(p, s) \/ Refuse(p, s)

LEMMA QuietMoves ==
  ASSUME TypeOK, NEW p \in Pid, NEW s \in Stages, s = proc[p].stage, Quiet(p, s)
  PROVE  /\ UNCHANGED <<art, done, runs, sealedOf>> /\ usurped \subseteq usurped'
         /\ proc[p].at \notin {"work", "mark"} /\ proc'[p].at \notin {"work", "mark"}
         /\ proc'[p].at \in {"free", "leave", "left"} \/ pass' = pass
<1> USE DEF Steps, Body
<1>1. UNCHANGED <<art, done, runs, sealedOf>> /\ usurped \subseteq usurped'
  BY DEF Quiet, Skip, NoInterpreter, Proceed, MakeLock, OpenOwner, WritePid, ReadOwner,
     TestOwner, ClearStale, RemoveStale, Retake, Leave, RemoveLock, Refuse, Unlink,
     ScriptElse, LockElse, files, lock
<1>2. proc[p].at \notin {"work", "mark"}
  BY DEF Quiet, Skip, NoInterpreter, Proceed, MakeLock, OpenOwner, WritePid, ReadOwner,
     TestOwner, ClearStale, RemoveStale, Retake, Leave, RemoveLock, Refuse, At
<1>3. CASE ReadOwner(p, s)
  <2>1. CASE Fails(p, "free")
    BY <1>1, <1>2, <2>1, GoMoves DEF Fails
  <2>2. CASE Go(p, "clear")
    BY <1>1, <1>2, <2>2, GoMoves DEF Go
  <2>3. CASE pass' = pass
    BY <1>1, <1>2, <1>3, <2>3, ReadMoves
  <2> QED
    BY <1>3, <2>1, <2>2, <2>3 DEF ReadOwner
<1>4. CASE ~ReadOwner(p, s)
  <2>1. PICK step \in Steps \ {"work", "mark"} :
          Goes(p, step) /\ (step \in {"free", "leave", "left"} \/ pass' = pass)
    BY <1>4 DEF Quiet, Skip, NoInterpreter, Proceed, MakeLock, OpenOwner, WritePid,
       TestOwner, ClearStale, RemoveStale, Retake, Leave, RemoveLock, Refuse, Go, Fails,
       Succeeds
  <2> QED
    BY <1>1, <1>2, <2>1, GoMoves
<1> QED
  BY <1>3, <1>4

-----------------------------------------------------------------------------
(* The outputs. *)

(* setup and fetch_target come first in every plan, and once. *)
LEMMA RerunFirst == \A t \in Rerun : t \notin Earlier(t)
<1> DEFINE T == InsertAt(QuantStages, 3, "materialize")
           F == InsertAt(RootStages, 3, "fetch_reference")
           R == Append(F, "compare_reference")
           First(S) == /\ Len(S) \in Nat \ {0, 1}
                       /\ S[1] = "setup" /\ S[2] = "fetch_target"
                       /\ \A i \in 3..Len(S) : S[i] \notin {"setup", "fetch_target"}
<1>1. First(QuantStages)
  BY DEF QuantStages
<1>2. First(RootStages)
  BY DEF RootStages
<1>3. First(T)
  <2>1. /\ Len(T) = 7
        /\ \A i \in 1..7 : T[i] = IF i < 3 THEN QuantStages[i]
                                  ELSE IF i = 3 THEN "materialize" ELSE QuantStages[i - 1]
    BY DEF InsertAt, QuantStages
  <2>2. \A i \in 4..7 : T[i] = QuantStages[i - 1]
    BY <2>1
  <2>3. T[1] = QuantStages[1] /\ T[2] = QuantStages[2] /\ T[3] = "materialize"
    BY <2>1
  <2>4. \A i \in 4..7 : i - 1 \in 3..Len(QuantStages)
    BY DEF QuantStages
  <2> HIDE DEF T
  <2> QED
    BY <1>1, <2>1, <2>2, <2>3, <2>4
<1>4. First(R)
  <2>1. /\ Len(R) = 10
        /\ \A i \in 1..10 : R[i] = IF i < 3 THEN RootStages[i]
                                   ELSE IF i = 3 THEN "fetch_reference"
                                   ELSE IF i < 10 THEN RootStages[i - 1]
                                   ELSE "compare_reference"
    BY DEF InsertAt, RootStages
  <2>2. \A i \in 4..9 : R[i] = RootStages[i - 1] /\ i - 1 \in 3..Len(RootStages)
    BY <2>1 DEF RootStages
  <2>3. /\ R[1] = RootStages[1] /\ R[2] = RootStages[2]
        /\ R[3] = "fetch_reference" /\ R[10] = "compare_reference"
    BY <2>1
  <2> HIDE DEF R
  <2> QED
    BY <1>2, <2>1, <2>2, <2>3
<1>5. First(Plan)
  <2>1. Plan \in {QuantStages, T, RootStages, R}
    BY DEF Plan
  <2> HIDE DEF First, T, R
  <2> QED
    BY <2>1, <1>1, <1>2, <1>3, <1>4
<1>6. (CHOOSE i \in 1..Len(Plan) : Plan[i] = "setup") = 1
  <2>1. \A i \in 1..Len(Plan) : Plan[i] = "setup" <=> i = 1
    BY <1>5
  <2> QED
    BY <1>5, <2>1
<1>7. (CHOOSE i \in 1..Len(Plan) : Plan[i] = "fetch_target") = 2
  <2>1. \A i \in 1..Len(Plan) : Plan[i] = "fetch_target" <=> i = 2
    BY <1>5
  <2> QED
    BY <1>5, <2>1
<1> QED
  BY <1>5, <1>6, <1>7 DEF Earlier, Rerun

(* A lone driver at work in the order of the plan. *)
InOrder == regime.crowd = "alone" /\ regime.ordered

Redone == \A t \in pass \cap Rerun :
            art[t] = "whole" \/ \E p \in Pid : At(p, "work", t)
Behind == \A p \in Pid : proc[p].at \notin {"free", "leave", "left"} =>
                           Earlier(proc[p].stage) \subseteq pass

(* Past the marker, before the trap. *)
Busy == Steps \ {"free", "marker", "leave", "left"}

MarkedWhole == \A s \in done \ (Rerun \cup usurped) :
                 art[s] = "whole" \/ \E p \in Pid : Writing(p, s)

Outputs ==
  /\ \A p \in Pid, s \in Stages : At(p, "mark", s) /\ s \notin usurped => art[s] = "whole"
  /\ regime.crowd = "alone" \/ regime.kills = 0 => MarkedWhole
  /\ regime.crowd = "alone" => \A p \in Pid : proc[p].at \in Busy =>
                                                proc[p].stage \notin done \ Rerun
  /\ InOrder => Redone /\ Behind

LEMMA OutputsMean ==
  ASSUME Locks, Lone, Outputs
  PROVE  MarkedIsWhole
<1> SUFFICES ASSUME InOrder, NEW p \in Pid, NEW s \in Stages, Writing(p, s),
                    NEW t \in Rerun \cap Earlier(s)
             PROVE  art[t] = "whole"
  BY DEF Outputs, MarkedIsWhole, MarkedWhole, InOrder
<1>1. t \in pass
  BY DEF Outputs, Behind, Writing
<1>2. ASSUME NEW q \in Pid, At(q, "work", t) PROVE FALSE
  <2>1. q = p
    BY <1>2 DEF Lone, InOrder, Live, At, Writing
  <2> QED
    BY <1>2, <2>1, RerunFirst DEF At, Writing
<1> QED
  BY <1>1, <1>2 DEF Outputs, Redone

LEMMA EarlierKept ==
  ASSUME job' = job, NEW p \in Pid, NEW s, proc'[p].stage = s
  PROVE  Earlier(proc[p].stage)' = Earlier(s)
<1> DEFINE E(P, t) == {P[i] : i \in 1..(CHOOSE i \in 1..Len(P) : P[i] = t) - 1}
<1>1. Earlier(s) = E(Plan, s) /\ Earlier(proc[p].stage)' = E(Plan', proc'[p].stage)
  BY DEF Earlier
<1>2. Plan' = Plan
  BY DEF Plan
<1> HIDE DEF E
<1> QED
  BY <1>1, <1>2

(* What a lone process does to its own pass. *)
LEMMA BehindStep ==
  ASSUME TypeOK, Lone, Behind, InOrder, NEW p \in Pid, Reach(p),
         \/ pass \subseteq pass'
         \/ proc'[p].at \in {"free", "leave", "left"}
  PROVE  Behind'
<1> SUFFICES ASSUME NEW q \in Pid, proc'[q].at \notin {"free", "leave", "left"}
             PROVE  Earlier(proc[q].stage)' \subseteq pass'
  BY DEF Behind
<1>1. /\ \A r \in Pid \ {p} : proc'[r] = proc[r]
      /\ Live(p) /\ (Live(p)' => proc'[p].stage = proc[p].stage)
      /\ job' = job /\ regime' = regime
  BY Moves
<1>2. q = p
  BY <1>1 DEF Lone, InOrder, Live
<1>4. Earlier(proc[p].stage)' = Earlier(proc[p].stage)
  BY <1>1, <1>2, EarlierKept DEF Live
<1>5. proc[p].at \notin {"leave", "left", "free"}
  <2>1. PICK s \in Stages : s = proc[p].stage
    BY DEF TypeOK
  <2>2. ASSUME proc[p].at \in {"leave", "left"}
        PROVE  Leave(p, s) \/ RemoveLock(p, s) \/ Kill(p)
    BY <2>1, <2>2 DEF Reach, Script, Fail, Skip, NoInterpreter, Proceed, MakeLock, OpenOwner,
       WritePid, ReadOwner, TestOwner, ClearStale, RemoveStale, Retake, Refuse, Repeat,
       StartCapture, StartAnew, Begin, Finish, Mark, CaptureRun, ScoreRun, DropLogits, At
  <2>3. ASSUME Leave(p, s) \/ RemoveLock(p, s) \/ Kill(p)
        PROVE  proc'[p].at \in {"left", "free"}
    <3>1. PICK step \in {"left", "free"} : Goes(p, step)
      BY <2>3 DEF Leave, RemoveLock, Kill, Go, Fails
    <3> QED
      BY <3>1, GoMoves DEF Steps, Body
  <2> QED
    BY <1>1, <1>2, <2>2, <2>3 DEF Live
<1> QED
  BY <1>2, <1>4, <1>5 DEF Behind

(* A step of process p, judged by what it does to its own stage. *)
LEMMA OutputsMove ==
  ASSUME Locks, Lone, Outputs, NEW p \in Pid, Reach(p), NEW s \in Stages,
         s = proc[p].stage,
         \A t \in Stages \ {s} : art'[t] = art[t],
         art'[s] \in {art[s], "whole"} \/ proc[p].at = "body",
         usurped \subseteq usurped', done \subseteq done', done' \subseteq done \cup {s},
         proc'[p].at = "mark" /\ s \notin usurped' => art'[s] = "whole",
         \/ art'[s] = "whole"
         \/ proc'[p].stage = s /\ proc'[p].at \in {"work", "mark"}
         \/ /\ art'[s] = art[s] /\ done' = done
            /\ \/ proc[p].at \notin {"work", "mark"}
               \/ regime.crowd = "alone" \/ regime.kills = 0 => s \notin done \ Rerun
         \/ s \in usurped',
         regime.crowd = "alone" /\ proc'[p].at \in Busy => s \notin done' \ Rerun,
         InOrder => \A t \in pass' \cap Rerun : t \in pass \/ (t = s /\ art'[s] = "whole"),
         InOrder /\ s \in pass' \cap Rerun =>
           \/ art'[s] = "whole"
           \/ proc'[p].at = "work"
           \/ art'[s] = art[s] /\ proc[p].at # "work",
         \/ pass \subseteq pass'
         \/ proc'[p].at \in {"free", "leave", "left"}
  PROVE  Outputs'
<1>0. TypeOK
  BY DEF Locks
<1>1. /\ \A q \in Pid \ {p} : proc'[q] = proc[q]
      /\ Live(p) /\ (Live(p)' => proc'[p].stage = s)
      /\ job' = job /\ regime' = regime
  BY <1>0, Moves
<1>2. \A q \in Pid, t \in Stages : At(q, "mark", t)' /\ t \notin usurped' => art'[t] = "whole"
  <2> SUFFICES ASSUME NEW q \in Pid, NEW t \in Stages, At(q, "mark", t)', t \notin usurped'
               PROVE  art'[t] = "whole"
    OBVIOUS
  <2>1. CASE q = p
    BY <2>1, <1>1 DEF At, Live
  <2>2. CASE q # p
    <3>1. At(q, "mark", t) /\ art[t] = "whole"
      BY <2>2, <1>1 DEF At, Outputs
    <3>2. CASE proc[p].at = "body"
      <4>1. t # s
        BY <3>1, <3>2, <2>2 DEF Locks, Kept, Holds, At, Body
      <4> QED
        BY <3>1, <4>1
    <3> QED
      BY <3>1, <3>2
  <2> QED
    BY <2>1, <2>2
<1>3. ASSUME regime.crowd = "alone" \/ regime.kills = 0 PROVE MarkedWhole'
  <2> SUFFICES ASSUME NEW t \in done', t \notin Rerun \cup usurped', art'[t] # "whole"
               PROVE  \E q \in Pid : Writing(q, t)'
    BY DEF MarkedWhole
  <2>0. t \in Stages /\ MarkedWhole
    BY <1>0, <1>3 DEF TypeOK, Outputs
  <2>1. CASE t = s
    <3>1. CASE proc'[p].stage = s /\ proc'[p].at \in {"work", "mark"}
      BY <3>1, <2>1 DEF Writing
    <3>2. CASE art'[s] = art[s] /\ done' = done /\ proc[p].at \notin {"work", "mark"}
      <4>1. PICK q \in Pid : Writing(q, s)
        BY <2>0, <2>1, <3>2 DEF MarkedWhole
      <4> QED
        BY <4>1, <1>1, <2>1, <3>2 DEF Writing
    <3> QED
      BY <1>3, <2>1, <3>1, <3>2
  <2>2. CASE t # s
    <3>1. PICK q \in Pid : Writing(q, t)
      BY <2>0, <2>2 DEF MarkedWhole
    <3> QED
      BY <3>1, <2>2, <1>1 DEF Writing
  <2> QED
    BY <2>1, <2>2
<1>4. ASSUME regime.crowd = "alone", NEW q \in Pid, proc'[q].at \in Busy
      PROVE  proc'[q].stage \notin done' \ Rerun
  <2>1. q = p
    BY <1>1, <1>4 DEF Lone, Live, Busy
  <2> QED
    BY <2>1, <1>1, <1>4 DEF Live, Busy
<1>5. ASSUME InOrder PROVE Redone' /\ Behind'
  <2>1. Behind'
    BY <1>0, <1>5, BehindStep DEF Outputs
  <2>2. ASSUME NEW t \in pass', t \in Rerun, art'[t] # "whole"
        PROVE  \E q \in Pid : At(q, "work", t)'
    <3>1. t \in pass /\ t \in Stages
      BY <1>0, <1>5, <2>2 DEF TypeOK
    <3>2. CASE t = s
      <4>1. CASE proc'[p].at = "work"
        BY <3>2, <4>1, <1>1 DEF At, Live
      <4>2. CASE art'[s] = art[s] /\ proc[p].at # "work"
        <5>1. PICK q \in Pid : At(q, "work", s)
          BY <1>5, <2>2, <3>1, <3>2, <4>2 DEF Outputs, Redone
        <5> QED
          BY <5>1, <1>1, <3>2, <4>2 DEF At
      <4> QED
        BY <1>5, <2>2, <3>2, <4>1, <4>2
    <3>3. CASE t # s
      <4>1. PICK q \in Pid : At(q, "work", t)
        BY <1>5, <2>2, <3>1, <3>3 DEF Outputs, Redone
      <4> QED
        BY <4>1, <1>1, <3>3 DEF At
    <3> QED
      BY <3>2, <3>3
  <2> QED
    BY <2>1, <2>2 DEF Redone
<1> QED
  BY <1>1, <1>2, <1>3, <1>4, <1>5 DEF Outputs, InOrder

LEMMA OutputsStep == Locks /\ Lone /\ Outputs /\ [Next]_vars => Outputs'
<1> SUFFICES ASSUME Locks, Lone, Outputs, [Next]_vars PROVE Outputs'
  OBVIOUS
<1> USE DEF Steps, Body
<1>0. TypeOK
  BY DEF Locks
<1>1. ASSUME NEW p \in Pid, NEW s \in Stages, Launch(p, s) PROVE Outputs'
  <2>1. /\ \A q \in Pid \ {p} : proc'[q] = proc[q]
        /\ proc'[p].at = "marker" /\ proc'[p].stage = s
        /\ ~Live(p) /\ UNCHANGED <<job, regime, pass, done, art, usurped>>
    BY <1>0, <1>1, LaunchMoves DEF files, lock
  <2>2. \A q \in Pid, t \in Stages : At(q, "mark", t)' /\ t \notin usurped' => art'[t] = "whole"
    BY <2>1 DEF At, Outputs
  <2>3. MarkedWhole => MarkedWhole'
    BY <2>1 DEF MarkedWhole, Writing, Live
  <2>4. regime.crowd = "alone" => \A q \in Pid : proc'[q].at \in Busy =>
                                    proc'[q].stage \notin done' \ Rerun
    BY <2>1 DEF Outputs, Busy
  <2>5. Redone => Redone'
    BY <2>1 DEF Redone, At, Live
  <2>6. ASSUME InOrder PROVE Behind'
    <3> SUFFICES ASSUME NEW q \in Pid, proc'[q].at \notin {"free", "leave", "left"}
                 PROVE  Earlier(proc[q].stage)' \subseteq pass'
      BY DEF Behind
    <3>1. q = p /\ Earlier(s) \subseteq pass
      BY <1>1, <2>1, <2>6 DEF Launch, May, InOrder, Live
    <3> QED
      BY <2>1, <3>1, EarlierKept
  <2> QED
    BY <2>1, <2>2, <2>3, <2>4, <2>5, <2>6 DEF Outputs, InOrder
<1>2. ASSUME NEW p \in Pid, Reach(p) PROVE Outputs'
  <2>1. PICK s \in Stages : s = proc[p].stage
    BY <1>0 DEF TypeOK
  <2>2. /\ \A q \in Pid \ {p} : proc'[q] = proc[q]
        /\ Live(p) /\ (Live(p)' => proc'[p].stage = s)
    BY <1>0, <1>2, <2>1, Moves
  <2>3. CASE Quiet(p, s)
    <3>1. /\ art' = art /\ done' = done /\ usurped \subseteq usurped'
          /\ proc[p].at \notin {"work", "mark"} /\ proc'[p].at \notin {"work", "mark"}
          /\ proc'[p].at \in {"free", "leave", "left"} \/ pass' = pass
      BY <1>0, <2>1, <2>3, QuietMoves
    <3>2. proc'[p].at \in Busy => proc[p].at \in Busy \/ s \notin done \ Rerun
      <4>1. CASE Proceed(p, s)
        BY <4>1 DEF Proceed
      <4>2. CASE Skip(p, s) \/ NoInterpreter(p, s)
        <5>1. Goes(p, "free")
          BY <4>2 DEF Skip, NoInterpreter, Succeeds, Fails
        <5> QED
          BY <5>1, <1>0, GoMoves DEF Busy
      <4>3. CASE Leave(p, s) \/ RemoveLock(p, s)
        <5>1. Goes(p, "free") \/ Goes(p, "left")
          BY <4>3 DEF Leave, RemoveLock, Go
        <5> QED
          BY <5>1, <1>0, GoMoves DEF Busy
      <4>4. CASE ~(Proceed(p, s) \/ Skip(p, s) \/ NoInterpreter(p, s) \/ Leave(p, s)
                   \/ RemoveLock(p, s))
        BY <4>4, <2>3 DEF Quiet, MakeLock, OpenOwner, WritePid, ReadOwner, TestOwner,
           ClearStale, RemoveStale, Retake, Refuse, Begin, At, Busy
      <4> QED
        BY <4>1, <4>2, <4>3, <4>4
    <3>3. pass' \cap Rerun \subseteq pass
      BY <2>3 DEF Quiet, Skip, NoInterpreter, Proceed, MakeLock, OpenOwner, WritePid,
         ReadOwner, TestOwner, ClearStale, RemoveStale, Retake, Leave, RemoveLock, Refuse,
         Go, Fails, Succeeds
    <3>4. regime.crowd = "alone" /\ proc'[p].at \in Busy => s \notin done' \ Rerun
      BY <2>1, <3>1, <3>2 DEF Outputs
    <3> QED
      BY <1>2, <2>1, <3>1, <3>3, <3>4, OutputsMove
  <2>4. CASE \E r \in ColdRun : CaptureRun(p, r) \/ ScoreRun(p, r) \/ DropLogits(p, r)
    <3>1. UNCHANGED <<art, done, regime, proc, pass, usurped, job>>
      BY <1>0, <1>2, <2>4, Moves DEF CaptureRun, ScoreRun, DropLogits, lock
    <3>2. Plan' = Plan
      BY <3>1 DEF Plan
    <3>3. Behind => Behind'
      <4>1. \A q \in Pid : Earlier(proc[q].stage)' = Earlier(proc[q].stage)
        BY <3>1, EarlierKept
      <4> QED
        BY <3>1, <4>1 DEF Behind
    <3> QED
      BY <3>1, <3>3 DEF Outputs, MarkedWhole, Redone, InOrder, Writing, At
  <2>5. CASE Repeat(p, s) \/ StartCapture(p, s) \/ StartAnew(p, s)
    <3>1. PICK step \in {"work", "mark"} :
            /\ Goes(p, step)
            /\ step = "mark" => art[s] = "whole" /\ art' = [art EXCEPT ![s] = art[s]]
      BY <2>5 DEF Repeat, StartCapture, StartAnew, Begin, Admitted, Go
    <3>2. /\ done' = done /\ usurped' = usurped /\ pass' = pass
          /\ proc[p].at = "body" /\ \E a : art' = [art EXCEPT ![s] = a]
      BY <2>5 DEF Repeat, StartCapture, StartAnew, Begin, BeginUnchanged, At, lock, Go
    <3>3. proc'[p].at = step /\ proc'[p].stage = s
      BY <1>0, <2>1, <3>1, GoMoves
    <3>4. \A t \in Stages \ {s} : art'[t] = art[t]
      BY <3>2, <1>0 DEF TypeOK
    <3>5. step = "mark" => art'[s] = "whole"
      BY <3>1, <1>0 DEF TypeOK
    <3>6. regime.crowd = "alone" => s \notin done \ Rerun
      BY <2>1, <3>2 DEF Outputs, Busy
    <3> QED
      BY <1>2, <2>1, <3>1, <3>2, <3>3, <3>4, <3>5, <3>6, OutputsMove
  <2>6. CASE Finish(p, s)
    <3>1. /\ Goes(p, "mark") /\ proc[p].at = "work" /\ pass' = pass
          /\ done' = done /\ usurped' = usurped /\ art' = [art EXCEPT ![s] = "whole"]
      BY <2>6 DEF Finish, At, lock, Go
    <3>2. proc'[p].at = "mark" /\ proc'[p].stage = s
      BY <1>0, <2>1, <3>1, GoMoves
    <3>3. art'[s] = "whole" /\ \A t \in Stages \ {s} : art'[t] = art[t]
      BY <3>1, <1>0 DEF TypeOK
    <3>4. regime.crowd = "alone" => s \notin done \ Rerun
      BY <2>1, <3>1 DEF Outputs, Busy
    <3> QED
      BY <1>2, <2>1, <3>1, <3>2, <3>3, <3>4, OutputsMove
  <2>7. CASE Mark(p, s)
    <3>1. /\ Goes(p, "leave") /\ At(p, "mark", s) /\ pass' \in {pass, pass \cup {s}}
          /\ done' = done \cup {s} /\ usurped' = usurped /\ art' = art
      BY <2>7 DEF Mark, Succeeds, lock
    <3>2. proc'[p].at = "leave" /\ proc'[p].at \notin Busy
      BY <1>0, <3>1, GoMoves DEF Busy
    <3>3. art[s] = "whole" \/ s \in usurped
      BY <3>1 DEF Outputs
    <3>4. InOrder => usurped = {}
      BY DEF InOrder, Locks, Guarded
    <3> QED
      BY <1>2, <2>1, <3>1, <3>2, <3>3, <3>4, OutputsMove
  <2>8. CASE Kill(p) \/ Fail(p)
    <3>1. PICK step \in {"free", "leave"} : Goes(p, step)
      BY <2>8 DEF Kill, Fail, Fails
    <3>2. art' = art /\ done' = done /\ usurped' = usurped /\ pass' = {}
      BY <2>8 DEF Kill, Closes, Fail, Fails, files, lock
    <3>3. proc'[p].at = step
      BY <1>0, <3>1, GoMoves
    <3>4. regime.kills # 0
      <4>1. kills \in Nat /\ regime.kills \in Nat
        BY <1>0, StageRunAssumption DEF TypeOK, Regime
      <4> QED
        BY <2>8, <4>1 DEF Kill, Fail
    <3>5. proc[p].at \in {"work", "mark"} => (regime.crowd = "alone" => s \notin done \ Rerun)
      BY <2>1 DEF Outputs, Busy
    <3> QED
      BY <1>2, <2>1, <3>2, <3>3, <3>4, <3>5, OutputsMove DEF Busy
  <2> QED
    BY <1>2, <2>1, <2>3, <2>4, <2>5, <2>6, <2>7, <2>8 DEF Reach, Script, Quiet
<1>3. CASE UNCHANGED vars
  <2>1. UNCHANGED <<art, done, regime, proc, pass, usurped, job>>
    BY <1>3 DEF vars, files, lock
  <2>2. \A q \in Pid : Earlier(proc[q].stage)' = Earlier(proc[q].stage)
    BY <2>1, EarlierKept
  <2> QED
    BY <2>1, <2>2 DEF Outputs, MarkedWhole, Redone, Behind, InOrder, Writing, At
<1> QED
  BY <1>1, <1>2, <1>3 DEF Next, Reach

LEMMA LoneAlways == Spec => []Lone
<1>1. Init => Lone
  <2> SUFFICES ASSUME Init PROVE Lone
    OBVIOUS
  <2>1. \A p \in Pid : ~Live(p)
    BY IdleTyped DEF Init, Live
  <2> QED
    BY <2>1 DEF Lone, Init
<1>2. TypeOK /\ Lone /\ [Next]_vars => Lone'
  BY LoneStep
<1> QED
  BY <1>1, <1>2, TypeCorrect, PTL DEF Spec

(* write_marker is the last step of a stage: whatever is killed before it   *)
(* leaves the stage unmarked; and the driver alone that saw a stage end     *)
(* other than well starts over at setup, before anything works on what a    *)
(* repetition left half done.                                               *)
THEOREM MarkedStaysWhole == Spec => []MarkedIsWhole
<1>1. Init => Outputs
  <2> SUFFICES ASSUME Init PROVE Outputs
    OBVIOUS
  <2>1. done = {} /\ pass = {} /\ \A p \in Pid : proc[p].at = "free"
    BY IdleTyped DEF Init
  <2> QED
    BY <2>1 DEF Outputs, MarkedWhole, Redone, Behind, Busy, At
<1>2. Locks /\ Lone /\ Outputs /\ [Next]_vars => Outputs'
  BY OutputsStep
<1>3. Locks /\ Lone /\ Outputs => MarkedIsWhole
  BY OutputsMean
<1> QED
  BY <1>1, <1>2, <1>3, LocksAlways, LoneAlways, PTL DEF Spec

-----------------------------------------------------------------------------
(* The cold runs.  The logits of a run go only while a score stage is about *)
(* to mark, and it is about to mark only with a report of every run.        *)

Reports ==
  /\ captured \subseteq logits \cup scored
  /\ \A p \in Pid : At(p, "mark", "score") => scored = ColdRun
  /\ "score" \in done => scored = ColdRun
  /\ art["score"] = "whole" => scored = ColdRun

LEMMA ReportsStep == TypeOK /\ Reports /\ [Next]_vars => Reports'
<1> SUFFICES ASSUME TypeOK, Reports, [Next]_vars PROVE Reports'
  OBVIOUS
<1> USE DEF Steps, Body
<1>1. ASSUME NEW p \in Pid, done' = done, UNCHANGED runs,
             art'["score"] = "whole" => art["score"] = "whole",
             \A q \in Pid \ {p} : proc'[q] = proc[q],
             At(p, "mark", "score")' => scored = ColdRun
      PROVE  Reports'
  BY <1>1 DEF Reports, At, runs
<1>2. ASSUME NEW p \in Pid, NEW s \in Stages, Launch(p, s) PROVE Reports'
  BY <1>1, <1>2, LaunchMoves DEF At, files
<1>3. ASSUME NEW p \in Pid, Reach(p) PROVE Reports'
  <2>1. PICK s \in Stages : s = proc[p].stage
    BY DEF TypeOK
  <2>0. \A q \in Pid \ {p} : proc'[q] = proc[q]
    BY <1>3, Moves
  <2>2. CASE Quiet(p, s)
    BY <2>0, <2>1, <2>2, <1>1, QuietMoves DEF At
  <2>3. CASE Repeat(p, s) \/ StartCapture(p, s) \/ StartAnew(p, s)
    <3>1. PICK step \in {"work", "mark"} : Goes(p, step) /\ (step = "mark" => s # "score")
      BY <2>3 DEF Repeat, StartCapture, StartAnew, Fresh, Go
    <3>2. done' = done /\ UNCHANGED runs
      BY <2>3 DEF Repeat, StartCapture, StartAnew, BeginUnchanged
    <3>3. art'["score"] = "whole" => art["score"] = "whole"
      <4>1. CASE s # "score"
        <5>1. PICK a : art' = [art EXCEPT ![s] = a]
          BY <2>3 DEF Repeat, StartCapture, StartAnew
        <5> QED
          BY <5>1, <4>1, StageNames DEF TypeOK
      <4>2. CASE s = "score"
        <5>1. art' = [art EXCEPT ![s] = IF art[s] = "whole" THEN art[s] ELSE "partial"]
          BY <2>3, <4>2 DEF Repeat, StartCapture, StartAnew, Fresh, Rerun, Resumed
        <5> QED
          BY <5>1, <4>2, StageNames DEF TypeOK
      <4> QED
        BY <4>1, <4>2
    <3> QED
      BY <2>0, <2>1, <3>1, <3>2, <3>3, <1>1, GoMoves DEF At
  <2>4. CASE Finish(p, s)
    <3>1. /\ Goes(p, "mark") /\ Complete(s) /\ art' = [art EXCEPT ![s] = "whole"]
          /\ done' = done /\ UNCHANGED runs
      BY <2>4 DEF Finish, Go
    <3>2. Complete("score") <=> scored = ColdRun
      BY DEF Complete
    <3>3. proc'[p].at = "mark" /\ proc'[p].stage = s
      BY <2>1, <3>1, GoMoves
    <3>4. s # "score" => art'["score"] = art["score"]
      BY <3>1, StageNames DEF TypeOK
    <3>5. CASE s # "score"
      BY <2>0, <3>1, <3>3, <3>4, <3>5, <1>1 DEF At
    <3>6. CASE s = "score"
      BY <3>1, <3>2, <3>6 DEF Reports, runs
    <3> QED
      BY <3>5, <3>6
  <2>5. CASE Mark(p, s)
    <3>1. /\ Goes(p, "leave") /\ At(p, "mark", s) /\ art' = art /\ done' = done \cup {s}
          /\ UNCHANGED runs
      BY <2>5 DEF Mark, Succeeds
    <3>2. proc'[p].at = "leave"
      BY <3>1, GoMoves
    <3> QED
      BY <2>0, <3>1, <3>2 DEF Reports, At, runs
  <2>6. ASSUME NEW r \in ColdRun, CaptureRun(p, r) PROVE Reports'
    BY <2>6 DEF CaptureRun, Reports, At
  <2>7. ASSUME NEW r \in ColdRun, ScoreRun(p, r) PROVE Reports'
    <3>1. /\ scored' = scored \cup {r} /\ captured' = captured /\ logits' = logits
          /\ proc' = proc /\ art' = art /\ done' = done
      BY <2>7 DEF ScoreRun
    <3>2. scored = ColdRun => scored' = ColdRun
      BY <3>1
    <3> QED
      BY <3>1, <3>2 DEF Reports, At
  <2>8. ASSUME NEW r \in ColdRun, DropLogits(p, r) PROVE Reports'
    <3>1. /\ scored' = scored /\ captured' = captured /\ logits' = logits \ {r}
          /\ proc' = proc /\ art' = art /\ done' = done /\ At(p, "mark", "score")
      BY <2>8 DEF DropLogits
    <3>2. scored = ColdRun /\ captured \subseteq ColdRun
      BY <3>1 DEF Reports, TypeOK
    <3> QED
      BY <3>1, <3>2 DEF Reports, At
  <2>9. CASE Kill(p) \/ Fail(p)
    <3>1. PICK step \in {"free", "leave"} : Goes(p, step)
      BY <2>9 DEF Kill, Fail, Fails
    <3>2. art' = art /\ done' = done /\ UNCHANGED runs
      BY <2>9 DEF Kill, Closes, Fail, files
    <3> QED
      BY <2>0, <3>1, <3>2, <1>1, GoMoves DEF At
  <2> QED
    BY <1>3, <2>1, <2>2, <2>3, <2>4, <2>5, <2>6, <2>7, <2>8, <2>9 DEF Reach, Script, Quiet
<1>5. CASE UNCHANGED vars
  BY <1>5 DEF vars, files, runs, Reports, At
<1> QED
  BY <1>2, <1>3, <1>5 DEF Next, Reach

LEMMA ReportsAlways == Spec => []Reports
<1>1. Init => Reports
  <2> SUFFICES ASSUME Init PROVE Reports
    OBVIOUS
  <2>1. /\ done = {} /\ captured = {} /\ \A p \in Pid : proc[p].at = "free"
    BY IdleTyped DEF Init
  <2>2. art["score"] = "none"
    BY StageNames DEF Init
  <2> QED
    BY <2>1, <2>2 DEF Reports, At
<1>2. TypeOK /\ Reports /\ [Next]_vars => Reports'
  BY ReportsStep
<1> QED
  BY <1>1, <1>2, TypeCorrect, PTL DEF Spec

(* Whatever is killed, and however many invocations run: the transient      *)
(* logits of a run are on disk until its report is.                         *)
THEOREM LogitsStayServed == Spec => []LogitsServed
<1>1. Reports => LogitsServed
  BY DEF Reports, LogitsServed
<1> QED
  BY <1>1, ReportsAlways, PTL

-----------------------------------------------------------------------------
(* The seal.  A stage started in its order finds score marked, so every     *)
(* report is there.  A stage that may be started out of order, alone and    *)
(* without faults, finds all the reports or none: no score stage was left   *)
(* half done.                                                               *)

Orderly == \A g \in Regimes : g.ordered \/ (g.crowd = "alone" /\ g.kills = 0)

LEMMA ScoreBeforeSeal ==
  ASSUME "seal" \in Range(Plan)
  PROVE  "score" \in Earlier("seal")
<1> DEFINE T == InsertAt(QuantStages, 3, "materialize")
           R == Append(InsertAt(RootStages, 3, "fetch_reference"),
                       "compare_reference")
<1>1. /\ Len(QuantStages) = 6 /\ QuantStages[5] = "score"
      /\ \A i \in 1..6 : QuantStages[i] = "seal" => i = 6
      /\ DOMAIN QuantStages = 1..6
  BY DEF QuantStages
<1>2. /\ Len(T) = 7 /\ DOMAIN T = 1..7
      /\ \A i \in 1..7 : T[i] = IF i < 3 THEN QuantStages[i]
                                ELSE IF i = 3 THEN "materialize" ELSE QuantStages[i - 1]
  BY DEF InsertAt, QuantStages
<1>3. T[6] = "score" /\ \A i \in 1..7 : T[i] = "seal" => i = 7
  <2>1. T[6] = QuantStages[5]
    BY <1>2
  <2>2. ASSUME NEW i \in 1..7, T[i] = "seal" PROVE i = 7
    <3>1. CASE i < 3
      BY <1>1, <1>2, <2>2, <3>1
    <3>2. CASE i > 3
      BY <1>1, <1>2, <2>2, <3>2
    <3> QED
      BY <1>2, <2>2, <3>1, <3>2
  <2> QED
    BY <1>1, <2>1, <2>2
<1>4. \A i \in DOMAIN RootStages : RootStages[i] # "seal"
  BY DEF RootStages
<1>5. \A i \in DOMAIN R : R[i] # "seal"
  BY DEF RootStages, InsertAt
<1>6. Plan \in {QuantStages, T, RootStages, R}
  BY DEF Plan
<1>7. "seal" \notin Range(RootStages) /\ "seal" \notin Range(R)
  BY <1>4, <1>5 DEF Range
<1> HIDE DEF T, R
<1>8. PICK n \in Nat : /\ n > 1 /\ Len(Plan) = n /\ DOMAIN Plan = 1..n
                       /\ Plan[n - 1] = "score"
                       /\ \A i \in 1..n : Plan[i] = "seal" => i = n
  <2>1. CASE Plan = QuantStages
    BY <2>1, <1>1
  <2>2. CASE Plan = T
    BY <2>2, <1>2, <1>3
  <2> QED
    BY <2>1, <2>2, <1>6, <1>7
<1>9. (CHOOSE i \in 1..Len(Plan) : Plan[i] = "seal") = n
  <2>1. \E i \in 1..Len(Plan) : Plan[i] = "seal"
    BY <1>8 DEF Range
  <2> QED
    BY <2>1, <1>8
<1>10. n - 1 \in 1..(n - 1)
  BY <1>8
<1> QED
  BY <1>8, <1>9, <1>10 DEF Earlier

Seals ==
  /\ art["seal"] = "whole" => sealedOf = ColdRun
  /\ \A p \in Pid : At(p, "work", "seal") => scored = ColdRun
  /\ regime.ordered => \A p \in Pid : Live(p) /\ proc[p].stage = "seal" =>
                                        "score" \in done
  /\ ~regime.ordered => \/ scored \in {{}, ColdRun}
                        \/ \E p \in Pid : At(p, "work", "score")

(* What a stage sees that is about to be sealed. *)
LEMMA SealSeesAll ==
  ASSUME Orderly, TypeOK, Lone, Reports, Seals, NEW p \in Pid,
         At(p, "body", "seal"), Inputs("seal")
  PROVE  scored = ColdRun
<1>1. CASE regime.ordered
  BY <1>1 DEF Seals, Reports, At, Live
<1>2. CASE ~regime.ordered
  <2>1. regime.crowd = "alone"
    BY <1>2 DEF Orderly, TypeOK
  <2>2. ~\E q \in Pid : At(q, "work", "score")
    BY <2>1 DEF Lone, Live, At
  <2>3. scored \in {{}, ColdRun}
    BY <1>2, <2>2 DEF Seals
  <2>4. art["score"] = "whole" \/ scored # {}
    BY DEF Inputs
  <2> QED
    BY <2>3, <2>4 DEF Reports
<1> QED
  BY <1>1, <1>2

LEMMA SealsStep ==
  Orderly /\ TypeOK /\ Lone /\ Reports /\ Seals /\ [Next]_vars => Seals'
<1> SUFFICES ASSUME Orderly, TypeOK, Lone, Reports, Seals, [Next]_vars
             PROVE  Seals'
  OBVIOUS
<1> USE DEF Steps, Body
<1>1. ASSUME NEW p \in Pid, Live(p), regime' = regime, done \subseteq done',
             scored' = scored, sealedOf' = sealedOf,
             art'["seal"] = "whole" => art["seal"] = "whole",
             \A q \in Pid \ {p} : proc'[q] = proc[q],
             Live(p)' => proc'[p].stage = proc[p].stage,
             At(p, "work", "seal")' => At(p, "work", "seal") \/ scored = ColdRun,
             At(p, "work", "score") => At(p, "work", "score")' \/ scored = ColdRun
                                       \/ regime.ordered
      PROVE  Seals'
  <2>2. \A q \in Pid : At(q, "work", "seal")' => scored' = ColdRun
    BY <1>1 DEF Seals, At
  <2>3. regime.ordered => \A q \in Pid : Live(q)' /\ proc'[q].stage = "seal" =>
                                           "score" \in done'
    BY <1>1 DEF Seals, Live
  <2>4. ~regime.ordered => \/ scored \in {{}, ColdRun}
                           \/ \E q \in Pid : At(q, "work", "score")'
    BY <1>1 DEF Seals, At
  <2> QED
    BY <1>1, <2>2, <2>3, <2>4 DEF Seals, Live
<1>2. ASSUME NEW p \in Pid, NEW s \in Stages, Launch(p, s) PROVE Seals'
  <2>1. /\ UNCHANGED <<art, done, scored, sealedOf, regime>> /\ ~Live(p)
        /\ proc'[p].at = "marker" /\ proc'[p].stage = s
        /\ \A q \in Pid \ {p} : proc'[q] = proc[q]
    BY <1>2, LaunchMoves DEF files, runs
  <2>2. regime.ordered => s \in Range(Plan) /\ Earlier(s) \subseteq done
    BY <1>2 DEF Launch, May, Lone
  <2>3. \A q \in Pid : \A t : At(q, "work", t)' <=> At(q, "work", t)
    BY <2>1 DEF At, Live
  <2>4. regime.ordered => \A q \in Pid : Live(q)' /\ proc'[q].stage = "seal" =>
                                           "score" \in done
    BY <2>1, <2>2, ScoreBeforeSeal DEF Seals, Live
  <2> QED
    BY <2>1, <2>3, <2>4 DEF Seals, Live
<1>3. ASSUME NEW p \in Pid, Reach(p) PROVE Seals'
  <2>1. PICK s \in Stages : s = proc[p].stage
    BY DEF TypeOK
  <2>0. /\ \A q \in Pid \ {p} : proc'[q] = proc[q]
        /\ Live(p) /\ (Live(p)' => proc'[p].stage = proc[p].stage) /\ regime' = regime
    BY <1>3, Moves
  <2>2. CASE Quiet(p, s)
    BY <2>0, <2>1, <2>2, <1>1, QuietMoves DEF At, runs
  <2>3. CASE Repeat(p, s) \/ StartCapture(p, s) \/ StartAnew(p, s)
    <3>2. /\ UNCHANGED <<done, scored, sealedOf>>
          /\ At(p, "body", s) /\ Inputs(s)
      BY <2>3 DEF Repeat, StartCapture, StartAnew, BeginUnchanged, Begin, Admitted, runs
    <3>3. art'["seal"] = "whole" => art["seal"] = "whole"
      <4>1. CASE s # "seal"
        <5>1. PICK a : art' = [art EXCEPT ![s] = a]
          BY <2>3 DEF Repeat, StartCapture, StartAnew
        <5> QED
          BY <5>1, <4>1, StageNames DEF TypeOK
      <4>2. CASE s = "seal"
        <5>1. art' = [art EXCEPT ![s] = "partial"]
          BY <2>3, <4>2 DEF Repeat, StartCapture, StartAnew, Fresh, Rerun, Resumed
        <5> QED
          BY <5>1, <4>2, StageNames DEF TypeOK
      <4> QED
        BY <4>1, <4>2
    <3>4. s = "seal" => scored = ColdRun
      BY <3>2, SealSeesAll
    <3> QED
      BY <2>0, <2>1, <3>2, <3>3, <3>4, <1>1 DEF At, Live
  <2>4. CASE Finish(p, s)
    <3>1. /\ Goes(p, "mark") /\ Complete(s) /\ art' = [art EXCEPT ![s] = "whole"]
          /\ done' = done /\ scored' = scored
          /\ sealedOf' = (IF s = "seal" THEN scored ELSE sealedOf)
          /\ At(p, "work", s)
      BY <2>4 DEF Finish, runs, Go
    <3>2. Complete("score") <=> scored = ColdRun
      BY DEF Complete
    <3>3. proc'[p].at = "mark"
      BY <3>1, GoMoves
    <3>4. CASE s # "seal"
      <4>1. art'["seal"] = art["seal"]
        BY <3>1, <3>4, StageNames DEF TypeOK
      <4>2. At(p, "work", "score") => scored = ColdRun
        BY <3>1, <3>2 DEF At
      <4> QED
        BY <2>0, <3>1, <3>3, <3>4, <4>1, <4>2, <1>1 DEF At
    <3>5. CASE s = "seal"
      <4>1. scored = ColdRun
        BY <3>1, <3>5 DEF Seals
      <4> QED
        BY <2>0, <3>1, <3>3, <3>5, <4>1 DEF Seals, At, Live
    <3> QED
      BY <3>4, <3>5
  <2>5. CASE Mark(p, s)
    <3>1. /\ Goes(p, "leave") /\ At(p, "mark", s) /\ art' = art /\ done' = done \cup {s}
          /\ scored' = scored /\ sealedOf' = sealedOf
      BY <2>5 DEF Mark, Succeeds, runs
    <3>2. proc'[p].at = "leave"
      BY <3>1, GoMoves
    <3> QED
      BY <2>0, <3>1, <3>2, <1>1 DEF At
  <2>6. ASSUME NEW r \in ColdRun, CaptureRun(p, r) \/ DropLogits(p, r) PROVE Seals'
    BY <2>6 DEF CaptureRun, DropLogits, Seals, At, Live
  <2>7. ASSUME NEW r \in ColdRun, ScoreRun(p, r) PROVE Seals'
    <3>1. /\ scored' = scored \cup {r} /\ sealedOf' = sealedOf /\ regime' = regime
          /\ proc' = proc /\ art' = art /\ done' = done /\ At(p, "work", "score")
      BY <2>7 DEF ScoreRun
    <3>2. scored = ColdRun => scored' = ColdRun
      BY <3>1
    <3> QED
      BY <3>1, <3>2 DEF Seals, At, Live
  <2>8. CASE Kill(p) \/ Fail(p)
    <3>1. regime.ordered
      <4>1. kills \in Nat /\ regime.kills \in Nat
        BY StageRunAssumption DEF TypeOK, Regime
      <4> QED
        BY <2>8, <4>1 DEF Kill, Fail, Orderly, TypeOK
    <3>2. PICK step \in {"free", "leave"} : Goes(p, step)
      BY <2>8 DEF Kill, Fail, Fails
    <3>3. UNCHANGED <<art, done, scored, sealedOf>>
      BY <2>8 DEF Kill, Closes, Fail, files, runs
    <3>4. proc'[p].at = step
      BY <3>2, GoMoves
    <3> QED
      BY <2>0, <3>1, <3>3, <3>4, <1>1 DEF At
  <2> QED
    BY <1>3, <2>1, <2>2, <2>3, <2>4, <2>5, <2>6, <2>7, <2>8 DEF Reach, Script, Quiet
<1>5. CASE UNCHANGED vars
  BY <1>5 DEF vars, files, runs, Seals, At, Live
<1> QED
  BY <1>2, <1>3, <1>5 DEF Next, Reach

(* A sealed measurement is of every cold run: the order in which the drivers*)
(* start the stages is what guarantees it, for sealing itself asks only for *)
(* one report or a mean.                                                    *)
THEOREM SealedStaysFull ==
  ASSUME Orderly
  PROVE  Spec => []SealedFromAll
<1>1. Init => Seals
  <2> SUFFICES ASSUME Init PROVE Seals
    OBVIOUS
  <2>1. scored = {} /\ \A p \in Pid : proc[p].at = "free"
    BY IdleTyped DEF Init
  <2>2. art["seal"] = "none"
    BY StageNames DEF Init
  <2> QED
    BY <2>1, <2>2 DEF Seals, Live, At
<1>2. TypeOK /\ Lone /\ Reports /\ Seals /\ [Next]_vars => Seals'
  BY SealsStep
<1>3. Seals => SealedFromAll
  BY DEF Seals, SealedFromAll
<1> QED
  BY <1>1, <1>2, <1>3, TypeCorrect, LoneAlways, ReportsAlways, PTL DEF Spec
=============================================================================
