-------------------------- MODULE StageWatch_proofs --------------------------
(***************************************************************************)
(* What holds of one rented machine for a job of any length, wherever its  *)
(* fetch_target stage lies in it.                                          *)
(***************************************************************************)
EXTENDS StageWatch, TLAPS

(* Where the controller is tells how many stages it counts as done and      *)
(* which ones were never launched.                                          *)
Counted ==
  /\ ctl.at \in {"launch", "poll", "erase"} => \A j \in Stage :
       j > ctl.stage \/ (j = ctl.stage /\ ctl.at = "launch") => wrap[j] = "none"
  /\ ctl.at \in {"launch", "poll", "erase"} => stagesDone = ctl.stage - 1
  /\ ctl.at = "erase" => ctl.stage = Fetch /\ exit[ctl.stage] = "ok"

(* A launch that has not come to its leader has nothing running.  A status  *)
(* is the leader's last word: with an exit of 0 the marker is there and the *)
(* group is gone, a wrapper reports no other success, and a stage counts as *)
(* done on no other report.                                                 *)
Reported ==
  \A i \in Stage :
    /\ wrap[i] \in {"none", "clear"} => leader[i] \notin Running /\ exit[i] = "none"
    /\ exit[i] = "ok" => i \in marker /\ leader[i] \notin Running
    /\ code[i] = "ok" => exit[i] = "ok"
    /\ i <= stagesDone => exit[i] = "ok"

(* The token outlives no stage counted as done from the fetch on, and while *)
(* it is there nothing beyond the stage at hand was launched.               *)
Erased ==
  /\ stagesDone >= Fetch => ~token
  /\ token => \A i \in Stage : i > stagesDone + 1 => wrap[i] = "none"

(* A run is open to success only after its watchdog was found alive and     *)
(* turned off.                                                              *)
Watched ==
  ctl.at \in {"destroy", "done"} /\ verdict = "open" => watch.at = "off"

IInv == TypeOK /\ Counted /\ Reported /\ Erased /\ Watched

-----------------------------------------------------------------------------

LEMMA InitHolds == Init => IInv
<1> SUFFICES ASSUME Init PROVE IInv
  OBVIOUS
<1> USE StageWatchAssumption DEF Init, Stage, Status, Running
<1>1. TypeOK
  <2>1. ctl \in [at : {"launch", "poll", "erase", "wipe", "archive", "disarm",
                      "destroy", "done", "dead"}, stage : Stage]
    OBVIOUS
  <2>2. watch \in [at : Watching \cup {"exited", "off", "lost"}, rec : 0..Last]
    BY DEF Watching
  <2>3. /\ wrap \in [Stage -> {"none", "clear", "await", "wait", "gone"}]
        /\ code \in [Stage -> Status] /\ exit \in [Stage -> Status]
        /\ leader \in [Stage -> {"none", "gone"} \cup Running]
    OBVIOUS
  <2>4. marker \subseteq Stage /\ record \in 0..Last /\ reused \subseteq Stage
        /\ stagesDone \in 0..Last /\ foreign \subseteq Stage /\ harmed \subseteq Stage
    OBVIOUS
  <2> QED
    BY <2>1, <2>2, <2>3, <2>4 DEF TypeOK
<1>2. Counted /\ Reported
  BY DEF Counted, Reported
<1>3. Erased /\ Watched
  BY DEF Erased, Watched
<1> QED
  BY <1>1, <1>2, <1>3 DEF IInv

(* What the machine does by itself. *)
LEMMA MachineHolds ==
  ASSUME IInv, NEW i \in Stage,
         \/ ClearRecord(i) \/ RecordSeen(i) \/ NoRecord(i) \/ Report(i)
         \/ WrapperKilled(i) \/ RecordSelf(i) \/ Succeed(i) \/ StageFails(i)
  PROVE  IInv'
<1> USE StageWatchAssumption
    DEF IInv, TypeOK, Counted, Reported, Erased, Watched, Stage, Status, Running,
        OnPodElse, strangers
<1>1. CASE ClearRecord(i)
  BY <1>1 DEF ClearRecord
<1>2. CASE RecordSeen(i)
  BY <1>2 DEF RecordSeen
<1>3. CASE NoRecord(i)
  BY <1>3 DEF NoRecord
<1>4. CASE Report(i)
  BY <1>4 DEF Report
<1>5. CASE WrapperKilled(i)
  BY <1>5 DEF WrapperKilled
<1>6. CASE RecordSelf(i)
  BY <1>6 DEF RecordSelf
<1>7. CASE Succeed(i)
  BY <1>7 DEF Succeed
<1>8. CASE StageFails(i)
  BY <1>8 DEF StageFails
<1> QED
  BY <1>1, <1>2, <1>3, <1>4, <1>5, <1>6, <1>7, <1>8

(* What the controller does at one stage. *)
LEMMA StageStepHolds ==
  ASSUME IInv, NEW i \in Stage,
         Launch(i) \/ PollSucceeded(i) \/ PollGivesUp(i) \/ Erase(i)
  PROVE  IInv'
<1> USE StageWatchAssumption
    DEF IInv, TypeOK, Counted, Reported, Erased, Watched, Stage, Status, Running,
        Step, Leaves, PollUnchanged, onpod, strangers
<1>1. CASE Launch(i)
  <2>1. TypeOK'
    <3>1. ctl' \in [at : {"launch", "poll", "erase", "wipe", "archive", "disarm",
                         "destroy", "done", "dead"}, stage : Stage]
      BY <1>1 DEF Launch
    <3>2. wrap' \in [Stage -> {"none", "clear", "await", "wait", "gone"}]
      <4>1. wrap' = wrap \/ wrap' = [wrap EXCEPT ![i] = "clear"]
        BY <1>1, Zenon DEF Launch
      <4> QED
        BY <4>1
    <3> QED
      BY <1>1, <3>1, <3>2 DEF Launch
  <2>2. Counted'
    <3>1. /\ stagesDone = i - 1 /\ stagesDone' = stagesDone /\ exit' = exit
          /\ \A j \in Stage : j > i => wrap[j] = "none"
      BY <1>1 DEF Launch
    <3>2. \A j \in Stage : j > i => wrap'[j] = "none"
      BY <1>1, <3>1 DEF Launch
    <3>3. ctl'.at \in {"poll", "wipe", "archive"} /\ ctl'.stage = i
      BY <1>1 DEF Launch
    <3> QED
      BY <3>1, <3>2, <3>3
  <2>3. Reported'
    BY <1>1 DEF Launch
  <2>4. Erased'
    BY <1>1 DEF Launch
  <2>5. Watched'
    BY <1>1 DEF Launch
  <2> QED
    BY <2>1, <2>2, <2>3, <2>4, <2>5
<1>2. CASE PollSucceeded(i)
  <2>1. code[i] = "ok"
    BY <1>2 DEF PollSucceeded, Answer
  <2> QED
    BY <1>2, <2>1 DEF PollSucceeded, Advance
<1>3. CASE PollGivesUp(i)
  BY <1>3 DEF PollGivesUp
<1>4. CASE Erase(i)
  <2>1. TypeOK'
    <3>1. ctl' \in [at : {"launch", "poll", "erase", "wipe", "archive", "disarm",
                         "destroy", "done", "dead"}, stage : Stage]
      BY <1>4 DEF Erase
    <3>2. stagesDone' \in 0..Last
      BY <1>4 DEF Erase
    <3>3. token' \in BOOLEAN /\ verdict' \in {"open", "failed"}
      BY <1>4, Zenon DEF Erase
    <3> QED
      BY <1>4, <3>1, <3>2, <3>3 DEF Erase
  <2>2. Counted'
    BY <1>4 DEF Erase
  <2>3. Reported'
    BY <1>4 DEF Erase
  <2>4. Erased'
    BY <1>4 DEF Erase
  <2>5. Watched'
    BY <1>4 DEF Erase
  <2> QED
    BY <2>1, <2>2, <2>3, <2>4, <2>5
<1> QED
  BY <1>1, <1>2, <1>3, <1>4

(* The controller's way out. *)
LEMMA WayOutHolds ==
  ASSUME IInv, Wipe \/ Archive \/ Disarm \/ Destroy \/ ControllerDies
  PROVE  IInv'
<1> USE StageWatchAssumption
    DEF IInv, TypeOK, Counted, Reported, Erased, Watched, Stage, Status, Running,
        Step, CtlAt, onpod, strangers, WatchAt, Watching
<1>1. CASE Wipe
  BY <1>1 DEF Wipe
<1>2. CASE Archive
  BY <1>2 DEF Archive
<1>3. CASE Disarm
  <2>1. CASE net /\ watch.at \in Watching
    <3>1. WatchAt("off") /\ verdict' = verdict
      BY <1>3, <2>1, Zenon DEF Disarm
    <3>2. /\ watch'.at = "off"
          /\ watch' \in [at : Watching \cup {"exited", "off", "lost"}, rec : 0..Last]
      BY <3>1
    <3> QED
      BY <1>3, <3>1, <3>2 DEF Disarm
  <2>2. CASE ~(net /\ watch.at \in Watching)
    <3>1. verdict' = "failed" /\ watch' = watch
      BY <1>3, <2>2, Zenon DEF Disarm
    <3> QED
      BY <1>3, <3>1 DEF Disarm
  <2> QED
    BY <2>1, <2>2
<1>4. CASE Destroy
  BY <1>4 DEF Destroy
<1>5. CASE ControllerDies
  BY <1>5 DEF ControllerDies
<1> QED
  BY <1>1, <1>2, <1>3, <1>4, <1>5

(* What the watchdog does: it goes from one of its steps to another, may end*)
(* the group it found, and touches nothing else of the machine.             *)
LEMMA WatchdogMoves ==
  ASSUME IInv, Watchdog
  PROVE  /\ watch.at \in Watching /\ watch'.at \in Watching \cup {"exited"}
         /\ watch' \in [at : Watching \cup {"exited", "off", "lost"}, rec : 0..Last]
         /\ foreign' \in {foreign, reused} /\ harmed' \subseteq Stage
         /\ abandoned' \in {"none", "stopped", "unproven"}
         /\ UNCHANGED <<leader, exit>> \/ \E i \in Stage : Ends(i)
<1> USE DEF Watching
<1>0. /\ watch \in [at : Watching \cup {"exited", "off", "lost"}, rec : 0..Last]
      /\ record \in 0..Last /\ harmed \subseteq Stage
      /\ abandoned \in {"none", "stopped", "unproven"}
  BY DEF IInv, TypeOK
<1>1. CASE LoadRecord
  BY <1>0, <1>1 DEF LoadRecord, WatchAt
<1>2. CASE WriteAbandoned \/ WatchdogExits
  BY <1>0, <1>2 DEF WriteAbandoned, WatchdogExits, WatchAt, strangers
<1>3. ASSUME NEW i \in Stage, Identify(i) \/ FindGroup(i)
      PROVE  /\ watch.at \in Watching
             /\ \E at \in Watching : WatchAt(at)
             /\ UNCHANGED <<leader, exit, foreign, harmed, abandoned>>
  BY <1>3 DEF Identify, FindGroup, WatchAtRecord, strangers
<1>4. ASSUME NEW i \in Stage, Term(i) \/ KillGroup(i)
      PROVE  /\ watch.at \in Watching
             /\ \E at \in Watching : WatchAt(at)
             /\ harmed' \subseteq Stage /\ UNCHANGED <<foreign, abandoned>>
             /\ UNCHANGED <<leader, exit>> \/ Ends(i)
  <2>1. CASE Term(i)
    BY <1>0, <2>1, Zenon DEF Term, WatchAtRecord
  <2>2. CASE KillGroup(i)
    BY <1>0, <2>2, Zenon DEF KillGroup, WatchAtRecord
  <2> QED
    BY <1>4, <2>1, <2>2
<1>5. ASSUME NEW at \in Watching, WatchAt(at)
      PROVE  /\ watch'.at = at
             /\ watch' \in [at : Watching \cup {"exited", "off", "lost"}, rec : 0..Last]
  BY <1>0, <1>5 DEF WatchAt
<1> QED
  BY <1>0, <1>1, <1>2, <1>3, <1>4, <1>5 DEF Watchdog

LEMMA WatchdogHolds ==
  ASSUME IInv, Watchdog
  PROVE  IInv'
<1> USE StageWatchAssumption
    DEF IInv, TypeOK, Counted, Reported, Erased, Watched, Stage, Status, Running
<1>0. UNCHANGED <<ctl, verdict, stagesDone, wrap, code, marker, record, reused, token,
                  net, late>>
  BY DEF Watchdog, LoadRecord, WriteAbandoned, WatchdogExits, Identify, FindGroup, Term,
     KillGroup, WatchElse
<1>1. /\ watch.at \in Watching
      /\ watch' \in [at : Watching \cup {"exited", "off", "lost"}, rec : 0..Last]
      /\ foreign' \in {foreign, reused} /\ harmed' \subseteq Stage
         /\ abandoned' \in {"none", "stopped", "unproven"}
      /\ UNCHANGED <<leader, exit>> \/ \E i \in Stage : Ends(i)
  BY WatchdogMoves
<1>2. ASSUME NEW i \in Stage, Ends(i)
      PROVE  /\ leader' \in [Stage -> {"none", "gone"} \cup Running]
             /\ exit' \in [Stage -> Status]
             /\ \A j \in Stage : leader'[j] \in {leader[j], "gone"}
             /\ \A j \in Stage : exit'[j] = exit[j] \/ (leader[j] = "work" /\ exit'[j] = "bad")
  <2>1. leader' = [leader EXCEPT ![i] = "gone"]
        /\ exit' = [exit EXCEPT ![i] = IF leader[i] = "work" THEN "bad" ELSE exit[i]]
    BY <1>2 DEF Ends
  <2> QED
    BY <2>1
<1>3. /\ leader' \in [Stage -> {"none", "gone"} \cup Running]
      /\ exit' \in [Stage -> Status]
      /\ \A j \in Stage : leader'[j] \in {leader[j], "gone"}
      /\ \A j \in Stage : exit'[j] = exit[j] \/ (leader[j] = "work" /\ exit'[j] = "bad")
  BY <1>1, <1>2
<1>4. TypeOK'
  BY <1>0, <1>1, <1>3
<1>5. Counted'
  BY <1>0, <1>3
<1>6. Reported'
  BY <1>0, <1>3
<1>7. Erased'
  BY <1>0
<1>8. Watched'
  BY <1>0, <1>1 DEF Watching
<1> QED
  BY <1>4, <1>5, <1>6, <1>7, <1>8

LEMMA WorldHolds ==
  ASSUME IInv, World \/ (\E i \in Stage : PidReused(i)) \/ UNCHANGED vars
  PROVE  IInv'
<1> USE DEF IInv, TypeOK, Counted, Reported, Erased, Watched, Stage, Status,
            Running, onpod, strangers
<1>1. CASE World
  <2>1. TypeOK'
    <3>1. net' \in BOOLEAN /\ late' \in BOOLEAN
      BY <1>1, Zenon DEF World
    <3> QED
      BY <1>1, <3>1 DEF World
  <2>2. Counted'
    BY <1>1 DEF World
  <2>3. Reported'
    BY <1>1 DEF World
  <2>4. Erased'
    BY <1>1 DEF World
  <2>5. Watched'
    BY <1>1 DEF World
  <2> QED
    BY <2>1, <2>2, <2>3, <2>4, <2>5
<1>2. ASSUME NEW i \in Stage, PidReused(i) PROVE IInv'
  BY <1>2 DEF PidReused
<1>3. CASE UNCHANGED vars
  BY <1>3 DEF vars
<1> QED
  BY <1>1, <1>2, <1>3

LEMMA StepHolds == IInv /\ [Next]_vars => IInv'
  BY MachineHolds, StageStepHolds, WayOutHolds, WatchdogHolds, WorldHolds
     DEF Next

LEMMA Inductive == Spec => []IInv
  BY InitHolds, StepHolds, PTL DEF Spec

-----------------------------------------------------------------------------
(* Strangers.  Until it has read the record the watchdog has signalled      *)
(* nobody; once the leader is identified the number in hand was nobody      *)
(* else's when the record was read, and what was given away stays so.       *)
Spared ==
  /\ foreign \subseteq reused /\ harmed \cap foreign = {}
  /\ watch.at = "armed" => harmed = {}
  /\ watch.at \in {"identified", "proved", "termed"} => watch.rec \notin foreign

LEMMA SparedStep == TypeOK /\ Spared /\ [Next]_vars => Spared'
<1> SUFFICES ASSUME TypeOK, Spared, [Next]_vars PROVE Spared'
  OBVIOUS
<1>0. watch \in [at : Watching \cup {"exited", "off", "lost"}, rec : 0..Last]
  BY DEF TypeOK
<1> USE DEF Spared, strangers, WatchAtRecord
<1>1. ASSUME NEW at \in Watching \cup {"exited", "off", "lost"}, WatchAt(at)
      PROVE  watch'.at = at /\ watch'.rec = watch.rec
  BY <1>0, <1>1 DEF WatchAt
<1>2. CASE Watchdog
  <2>0. reused' = reused
    BY <1>2 DEF Watchdog, LoadRecord, WriteAbandoned, WatchdogExits, Identify, FindGroup,
       Term, KillGroup, WatchElse
  <2>1. CASE LoadRecord
    <3>1. harmed' = {} /\ foreign' = reused
      BY <2>1 DEF LoadRecord
    <3>2. watch'.at \in {"loaded", "unproven"}
      BY <2>1, <1>1 DEF LoadRecord, Watching
    <3> QED
      BY <2>0, <3>1, <3>2
  <2>2. CASE WriteAbandoned \/ WatchdogExits
    <3>1. watch'.at \in {"written", "exited"}
      BY <2>2, <1>1 DEF WriteAbandoned, WatchdogExits, Watching
    <3> QED
      BY <2>0, <2>2, <3>1 DEF WriteAbandoned, WatchdogExits
  <2>3. ASSUME NEW i \in Stage, Identify(i) PROVE Spared'
    <3>1. watch'.at = (IF i \in reused THEN "unproven" ELSE "identified")
          /\ watch'.rec = i
      BY <2>3, <1>1 DEF Identify, Watching
    <3> QED
      BY <2>0, <2>3, <3>1 DEF Identify
  <2>4. ASSUME NEW i \in Stage, FindGroup(i) PROVE Spared'
    <3>1. watch'.at \in {"proved", "stopped", "unproven"} /\ watch'.rec = watch.rec
      BY <2>4, <1>1 DEF FindGroup, Watching
    <3> QED
      BY <2>0, <2>4, <3>1 DEF FindGroup
  <2>5. ASSUME NEW i \in Stage, Term(i) PROVE Spared'
    <3>1. watch'.at = "termed" /\ watch'.rec = i /\ i \notin foreign
      BY <2>5, <1>1 DEF Term, Watching
    <3> QED
      BY <2>0, <2>5, <3>1 DEF Term
  <2>6. ASSUME NEW i \in Stage, KillGroup(i) PROVE Spared'
    <3>1. watch'.at \in {"stopped", "unproven"} /\ i \notin foreign
      BY <2>6, <1>1 DEF KillGroup, Watching
    <3>2. harmed' \subseteq harmed \cup {i} /\ foreign' = foreign
      BY <2>6 DEF KillGroup
    <3> QED
      BY <2>0, <3>1, <3>2
  <2> QED
    BY <1>2, <2>1, <2>2, <2>3, <2>4, <2>5, <2>6 DEF Watchdog
<1>3. CASE Disarm \/ Destroy
  <2>1. UNCHANGED <<reused, foreign, harmed>>
    BY <1>3 DEF Disarm, Destroy
  <2>2. WatchAt("off") \/ WatchAt("lost") \/ WatchAt(watch.at)
    BY <1>0, <1>3 DEF Disarm, Destroy, WatchAt
  <2>3. watch'.at \in {"off", "lost", watch.at} /\ watch'.rec = watch.rec
    BY <1>0, <1>1, <2>2
  <2> QED
    BY <2>1, <2>3
<1>4. CASE Wipe \/ Archive \/ ControllerDies \/ World \/ UNCHANGED vars
  BY <1>4 DEF Wipe, Archive, ControllerDies, World, vars
<1>5. ASSUME NEW i \in Stage,
             Launch(i) \/ PollSucceeded(i) \/ PollGivesUp(i) \/ Erase(i)
      PROVE  Spared'
  BY <1>5 DEF Launch, PollSucceeded, PollGivesUp, Erase, PollUnchanged
<1>6. ASSUME NEW i \in Stage,
             \/ ClearRecord(i) \/ RecordSeen(i) \/ NoRecord(i) \/ Report(i)
             \/ WrapperKilled(i) \/ RecordSelf(i) \/ Succeed(i) \/ StageFails(i)
      PROVE  Spared'
  BY <1>6 DEF ClearRecord, RecordSeen, NoRecord, Report, WrapperKilled, RecordSelf, Succeed,
     StageFails, OnPodElse
<1>7. ASSUME NEW i \in Stage, PidReused(i) PROVE Spared'
  BY <1>7 DEF PidReused
<1> QED
  BY <1>2, <1>3, <1>4, <1>5, <1>6, <1>7 DEF Next

(* For a job of any length: whoever had the recorded number before the      *)
(* watchdog set out to stop the work is never signalled.                    *)
THEOREM StrangersStaySpared == Spec => []StrangersSpared
<1>1. Init => Spared
  BY DEF Init, Spared
<1>2. IInv => TypeOK
  BY DEF IInv
<1>3. Spared => StrangersSpared
  BY DEF Spared, StrangersSpared
<1> QED
  BY <1>1, <1>2, <1>3, SparedStep, Inductive, PTL DEF Spec

-----------------------------------------------------------------------------

(* For a job of any length: a stage the controller counts as done has its   *)
(* marker and nothing of it runs, whatever was lost or killed on the way.   *)
THEOREM DoneStaysMarked == Spec => []DoneIsMarked
<1>1. IInv => DoneIsMarked
  BY StageWatchAssumption DEF IInv, TypeOK, Reported, DoneIsMarked, Stage
<1> QED
  BY <1>1, Inductive, PTL

(* For a job of any length: no stage beyond fetch_target is ever launched   *)
(* on a machine that still holds the download token.                        *)
THEOREM TokenStaysForFetch == Spec => []TokenOnlyForFetch
<1>1. IInv => TokenOnlyForFetch
  BY StageWatchAssumption DEF IInv, TypeOK, Erased, TokenOnlyForFetch, Stage
<1> QED
  BY <1>1, Inductive, PTL

(* For a job of any length: a run whose watchdog is gone before the         *)
(* controller ends it is never reported a success.                          *)
THEOREM UnwatchedStaysFailed == Spec => []UnwatchedRunFails
<1>1. IInv => UnwatchedRunFails
  BY DEF IInv, Watched, UnwatchedRunFails, CtlAt
<1> QED
  BY <1>1, Inductive, PTL

(* For a job of any length: whatever the machine, its controller and its    *)
(* watchdog do, their state stays of the type the module declares.          *)
THEOREM TypeCorrect == Spec => []TypeOK
<1>1. IInv => TypeOK
  BY DEF IInv
<1> QED
  BY <1>1, Inductive, PTL
=============================================================================
