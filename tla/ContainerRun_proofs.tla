------------------------- MODULE ContainerRun_proofs -------------------------
(***************************************************************************)
(* What holds of a run root for any number of invocations at a time, any   *)
(* jobs, plans, sinks and kills.                                           *)
(***************************************************************************)
EXTENDS ContainerRun, FiniteSetTheorems, TLAPS

(* Every process is a record with the fields of one that has not started,   *)
(* with stages of the plan still to do, and the job document is a file it   *)
(* can read.                                                                *)
Shaped ==
  /\ DOMAIN run = Run
  /\ \A r \in Run : DOMAIN run[r] = DOMAIN Unstarted
                    /\ "job" \in DOMAIN run[r].held
                    /\ run[r].todo \in Seq(Stage)
  /\ "job" \in DOMAIN disk

(* Two invocations that are alive have both had company. *)
Aware == \A r, q \in Run : r # q /\ Alive(r) /\ Alive(q) => run[r].shared

Begun    == {"admitted", "cleared", "synced"}
Working  == {"installed", "stages", "running", "shred"}
Archived == {"contract", "compare", "deliver", "delivered"}

(* The job of an invocation that is alone, from its admission to what it    *)
(* hands to the sinks.                                                      *)
KeepsJob(r) ==
  /\ run[r].verb = "stage" /\ run[r].at \in Begun =>
       disk["job"] \in {NoJob, run[r].of}
  /\ run[r].at \in Working \cup {"collect"} \cup Archived =>
       disk["job"] = run[r].of
  /\ run[r].at \in Archived \/ (run[r].at = "collect" /\ run[r].read # 0) =>
       run[r].held["job"] = run[r].of
  /\ run[r].at \in {"deliver", "delivered"} => run[r].named = run[r].of

(* What is true of one invocation whatever the others do: where a token of  *)
(* its own can be, the token and the job it sees while it is alone, and     *)
(* where it stands in the two passes over the files.                        *)
Own(r) ==
  /\ token = r => \/ run[r].at \in {"stages", "running", "shred"}
                  \/ run[r].exit = "killed"
  /\ Alive(r) /\ run[r].at # "admitted" /\ ~run[r].shared => token \in {r, NoRun}
  /\ Alive(r) /\ ~run[r].shared => KeepsJob(r)
  /\ run[r].at \in Begun \cup Working => run[r].read = 0
  /\ run[r].got # {} => run[r].at = "delivered"
  /\ run[r].at # "end" => run[r].exit = "none"
  /\ run[r].at = "running" => run[r].todo # <<>>

IInv == Shaped /\ Aware /\ token \in Run \cup {NoRun} /\ \A r \in Run : Own(r)

-----------------------------------------------------------------------------

LEMMA JobIsNoStage == "job" \notin Stage /\ "logs" \notin Stage
  BY ContainerRunAssumption DEF Stage, Range

LEMMA JobIsFirst == FileOrder[0 + 1] = "job" /\ "job" \in File
<1>1. Plan \in Seq(STRING)
  BY ContainerRunAssumption
<1>2. Len(Plan) \in Nat /\ DOMAIN Plan = 1..Len(Plan)
  BY <1>1
<1>3. FileOrder = [i \in 1..(2 + Len(Plan)) |->
                     IF i <= 2 THEN <<"job", "logs">>[i] ELSE Plan[i - 2]]
  BY <1>1, <1>2 DEF FileOrder
<1>4. 1 \in DOMAIN FileOrder /\ FileOrder[1] = "job"
  BY <1>2, <1>3
<1> QED
  BY <1>4 DEF File, Range

LEMMA Contents ==
  /\ Content("job") = Jobs \cup {NoJob} /\ Content("logs") = 0..Cardinality(Run)
  /\ \A s \in Stage : Content(s) = Output
<1>1. Content("job") = Jobs \cup {NoJob} /\ Content("logs") = 0..Cardinality(Run)
  BY DEF Content
<1>2. \A f : f # "job" /\ f # "logs" => Content(f) = Output
  BY DEF Content
<1> QED
  BY <1>1, <1>2, JobIsNoStage

(* The files an archive can hold: the job, the log, and a file per stage.   *)
LEMMA Files ==
  /\ File = {"job", "logs"} \cup Stage
  /\ Len(FileOrder) \in Nat /\ Len(FileOrder) > 2
  /\ \A i \in 1..Len(FileOrder) : FileOrder[i] \in File
  /\ \A f \in File : \E i \in 1..Len(FileOrder) : FileOrder[i] = f
  /\ FileOrder \in Seq(File)
<1>1. /\ Plan \in Seq(STRING) /\ Len(Plan) \in Nat /\ Len(Plan) > 0
      /\ DOMAIN Plan = 1..Len(Plan)
  BY ContainerRunAssumption
<1>2. /\ FileOrder \in Seq(STRING \cup {"job", "logs"})
      /\ Len(FileOrder) = 2 + Len(Plan)
  <2> DEFINE S == STRING
  <2>1. Plan \in Seq(S)
    BY <1>1
  <2> HIDE DEF S
  <2>2. /\ FileOrder \in Seq(S \cup {"job", "logs"})
        /\ Len(FileOrder) = 2 + Len(Plan)
    BY <1>1, <2>1 DEF FileOrder
  <2> QED
    BY <2>2 DEF S
<1>3. /\ DOMAIN FileOrder = 1..(2 + Len(Plan))
      /\ FileOrder[1] = "job" /\ FileOrder[2] = "logs"
      /\ \A i \in 1..Len(Plan) : FileOrder[i + 2] = Plan[i]
  BY <1>1 DEF FileOrder
<1>4. Stage = {Plan[i] : i \in 1..Len(Plan)}
  BY <1>1 DEF Stage, Range
<1>5. File = {FileOrder[i] : i \in 1..Len(FileOrder)}
  BY <1>1, <1>2, <1>3 DEF File, Range
<1>6. \A i \in 1..Len(FileOrder) : i = 1 \/ i = 2 \/ (i - 2 \in 1..Len(Plan) /\ i = (i - 2) + 2)
  BY <1>1, <1>2
<1>7. File \subseteq {"job", "logs"} \cup Stage
  <2> SUFFICES ASSUME NEW i \in 1..Len(FileOrder), i # 1, i # 2
               PROVE  FileOrder[i] \in Stage
    BY <1>3, <1>5
  <2>1. i - 2 \in 1..Len(Plan) /\ i = (i - 2) + 2
    BY <1>6
  <2>2. FileOrder[(i - 2) + 2] = Plan[i - 2]
    BY <2>1, <1>3
  <2> QED
    BY <2>1, <2>2, <1>4
<1>8. ASSUME NEW s \in Stage PROVE s \in File
  <2>1. PICK i \in 1..Len(Plan) : s = Plan[i]
    BY <1>4
  <2>2. i + 2 \in 1..Len(FileOrder) /\ FileOrder[i + 2] = s
    BY <1>1, <1>2, <1>3, <2>1
  <2> QED
    BY <2>2, <1>5
<1>9. "job" \in File /\ "logs" \in File
  <2>1. 1 \in 1..Len(FileOrder) /\ 2 \in 1..Len(FileOrder)
    BY <1>1, <1>2
  <2> QED
    BY <2>1, <1>3, <1>5
<1>10. FileOrder \in Seq(File)
  BY <1>2, <1>5
<1> QED
  BY <1>1, <1>2, <1>5, <1>7, <1>8, <1>9, <1>10

LEMMA LastIsStage == Last(Plan) \in Stage /\ Plan[1] \in Stage
<1>1. /\ Plan \in Seq(STRING) /\ Len(Plan) \in Nat /\ Len(Plan) > 0
      /\ DOMAIN Plan = 1..Len(Plan)
  BY ContainerRunAssumption
<1>2. 1 \in 1..Len(Plan) /\ Len(Plan) \in 1..Len(Plan)
  BY <1>1
<1> QED
  BY <1>1, <1>2 DEF Last, Stage, Range

LEMMA EmptyHolds == Holds(Empty) /\ Empty["logs"] = 0
<1>1. DOMAIN Empty = File /\ Empty["job"] = NoJob /\ Empty["logs"] = 0
  BY Files DEF Empty
<1>2. \A f \in File : f # "job" /\ f # "logs" => Empty[f] = [v |-> 0, done |-> FALSE]
  BY DEF Empty
<1>3. \A s \in Stage : Empty[s] = [v |-> 0, done |-> FALSE]
  BY <1>2, Files, JobIsNoStage
<1>4. [v |-> 0, done |-> FALSE] \in Output
  BY ContainerRunAssumption DEF Output
<1>5. 0 \in 0..Cardinality(Run)
  BY FS_CardinalityType, ContainerRunAssumption
<1>6. \A f \in File : Empty[f] \in Content(f)
  <2> SUFFICES ASSUME NEW f \in File PROVE Empty[f] \in Content(f)
    OBVIOUS
  <2>1. CASE f = "job"
    BY <2>1, <1>1, Contents
  <2>2. CASE f = "logs"
    BY <2>2, <1>1, <1>5, Contents
  <2>3. CASE f \in Stage
    BY <2>3, <1>3, <1>4, Contents
  <2> QED
    BY <2>1, <2>2, <2>3, Files
<1> QED
  BY <1>1, <1>6 DEF Holds

LEMMA InitHolds == Init => IInv
<1> SUFFICES ASSUME Init PROVE IInv
  OBVIOUS
<1>1. Shaped
  <2>1. <<>> \in Seq(Stage)
    OBVIOUS
  <2> QED
    BY <2>1, JobIsFirst DEF Init, Shaped, Unstarted, Empty
<1>2. Aware /\ token \in Run \cup {NoRun} /\ \A r \in Run : Own(r)
  BY ContainerRunAssumption
     DEF Init, Aware, Own, Alive, Unstarted, Begun, Working
<1> QED
  BY <1>1, <1>2 DEF IInv

(* The two ways in which most steps move their process. *)
LEMMA GotoMoves ==
  ASSUME Shaped, NEW r \in Run, NEW step, Goto(r, step)
  PROVE  /\ DOMAIN run' = Run /\ DOMAIN run'[r] = DOMAIN Unstarted
         /\ \A q \in Run \ {r} : run'[q] = run[q]
         /\ run'[r].at = step /\ run'[r].todo = run[r].todo
         /\ run'[r].verb = run[r].verb /\ run'[r].of = run[r].of
         /\ run'[r].read = run[r].read /\ run'[r].held = run[r].held
         /\ run'[r].named = run[r].named /\ run'[r].got = run[r].got
         /\ run'[r].exit = run[r].exit /\ run'[r].shared = run[r].shared
  BY DEF Shaped, Goto, Unstarted

LEMMA EndsMoves ==
  ASSUME Shaped, NEW r \in Run, NEW exit, Ends(r, exit)
  PROVE  /\ DOMAIN run' = Run /\ DOMAIN run'[r] = DOMAIN Unstarted
         /\ \A q \in Run \ {r} : run'[q] = run[q]
         /\ run'[r].at = "end" /\ run'[r].exit = exit /\ run'[r].got = {}
         /\ run'[r].held = Empty /\ run'[r].todo = <<>>
  BY DEF Shaped, Ends, Unstarted

(* A step of one living process that leaves the others alone, and at most   *)
(* its own token, concerns nobody else: whoever was alive beside it knows   *)
(* of it.                                                                   *)
Moves(r) ==
  /\ DOMAIN run' = Run /\ DOMAIN run'[r] = DOMAIN Unstarted
  /\ "job" \in DOMAIN run'[r].held /\ "job" \in DOMAIN disk'
  /\ run'[r].todo \in Seq(Stage)
  /\ \A q \in Run \ {r} : run'[q] = run[q]
  /\ Alive(r)' => run'[r].shared = run[r].shared
  /\ token' \in {token, NoRun, r}

LEMMA MoveHolds ==
  ASSUME IInv, NEW r \in Run, Alive(r), Moves(r), Own(r)'
  PROVE  IInv'
<1>1. Shaped'
  BY DEF IInv, Shaped, Moves
<1>2. Aware'
  BY DEF IInv, Aware, Moves, Alive
<1>3. token' \in Run \cup {NoRun}
  BY DEF IInv, Moves
<1>4. ASSUME NEW q \in Run, q # r PROVE Own(q)'
  <2>1. run'[q] = run[q] /\ (token' = q => token = q) /\ q # NoRun
    BY <1>4, ContainerRunAssumption DEF Moves
  <2>2. Alive(q) => run[q].shared
    BY <1>4 DEF IInv, Aware
  <2> QED
    BY <2>1, <2>2 DEF IInv, Own, Alive
<1> QED
  BY <1>1, <1>2, <1>3, <1>4 DEF IInv

(* A process that has ended has nothing more to keep. *)
LEMMA EndHolds ==
  ASSUME IInv, NEW r \in Run, Alive(r), NEW exit, Ends(r, exit),
         "job" \in DOMAIN disk', token' \in {token, NoRun},
         token' = r => exit = "killed"
  PROVE  IInv'
<1>1. Moves(r)
  <2>1. <<>> \in Seq(Stage)
    OBVIOUS
  <2> QED
    BY <2>1, EndsMoves, JobIsFirst DEF IInv, Moves, Alive, Empty
<1>2. Own(r)'
  BY EndsMoves DEF IInv, Own, Alive, Begun, Working
<1> QED
  BY <1>1, <1>2, MoveHolds

(* A process that goes to another step, the disk but for its job unread.    *)
LEMMA GotoHolds ==
  ASSUME IInv, NEW r \in Run, Alive(r), NEW step, Goto(r, step), step # "idle",
         "job" \in DOMAIN disk', token' \in {token, NoRun, r},
         Own(r)'
  PROVE  IInv'
<1>1. Moves(r)
  BY GotoMoves DEF IInv, Moves, Shaped
<1> QED
  BY <1>1, MoveHolds

-----------------------------------------------------------------------------

LEMMA AdmissionHolds ==
  ASSUME IInv, NEW r \in Run,
         Clear(r) \/ SyncSuite(r) \/ RefuseOccupied(r) \/ InstallJob(r)
           \/ InstallToken(r)
  PROVE  IInv'
<1>1. /\ Alive(r) /\ Shaped /\ Own(r) /\ run[r].at \in Begun \cup {"installed"}
  BY DEF IInv, Alive, Begun, Clear, SyncSuite, RefuseOccupied, InstallJob,
         InstallToken
<1>2. "job" \in DOMAIN disk'
  BY DEF IInv, Shaped, Clear, SyncSuite, RefuseOccupied, InstallJob, InstallToken
<1>3. token # r
  BY <1>1 DEF Own, Begun
<1>4. ASSUME NEW step \in {"cleared", "synced", "installed", "stages"}, Goto(r, step),
             disk' = disk \/ step = "installed",
             step = "installed" =>
               /\ run[r].at = "synced"
               /\ disk' = [disk EXCEPT !["job"] = IF run[r].verb = "stage" /\ @ # NoJob
                                                 THEN @ ELSE run[r].of],
             step = "stages" => run[r].at = "installed",
             token' = NoRun \/ (token' = token /\ run[r].at # "admitted")
               \/ (step = "stages" /\ token' = r)
      PROVE  IInv'
  <2>1. /\ run'[r].at = step
        /\ run'[r].verb = run[r].verb /\ run'[r].of = run[r].of
        /\ run'[r].read = run[r].read /\ run'[r].held = run[r].held
        /\ run'[r].named = run[r].named /\ run'[r].got = run[r].got
        /\ run'[r].exit = run[r].exit /\ run'[r].shared = run[r].shared
    BY <1>1, <1>4, GotoMoves
  <2>2. Alive(r)' /\ run'[r].exit = "none" /\ run'[r].got = {} /\ run'[r].read = 0
    BY <1>1, <2>1 DEF Own, Alive, Begun, Working
  <2>3. token' = r => run'[r].at = "stages"
    BY <1>3, <1>4, <2>1, ContainerRunAssumption
  <2>4. ~run'[r].shared => token' \in {r, NoRun}
    BY <1>1, <1>4, <2>1 DEF Own
  <2>5. ~run'[r].shared => KeepsJob(r)'
    <3> SUFFICES ASSUME ~run'[r].shared PROVE KeepsJob(r)'
      OBVIOUS
    <3>1. KeepsJob(r)
      BY <1>1, <2>1 DEF Own
    <3>2. CASE step = "installed"
      <4>1. disk'["job"] = run[r].of
        BY <3>1, <3>2, <1>1, <1>4 DEF KeepsJob, Begun, Shaped
      <4> QED
        BY <4>1, <3>2, <2>1 DEF KeepsJob, Begun, Working, Archived
    <3>3. CASE step # "installed"
      BY <3>1, <3>3, <1>1, <1>4, <2>1 DEF KeepsJob, Begun, Working, Archived
    <3> QED
      BY <3>2, <3>3
  <2>6. Own(r)'
    BY <2>1, <2>2, <2>3, <2>4, <2>5 DEF Own
  <2> QED
    BY <1>1, <1>2, <1>4, <2>6, GotoHolds
<1>5. CASE Clear(r)
  BY <1>5, <1>4 DEF Clear
<1>6. CASE SyncSuite(r) \/ RefuseOccupied(r)
  <2>1. CASE Ends(r, "refused")
    BY <2>1, <1>1, <1>2, <1>3, <1>6, EndHolds DEF SyncSuite, RefuseOccupied
  <2>2. CASE Goto(r, "synced") /\ SyncSuite(r)
    BY <2>2, <1>4 DEF SyncSuite
  <2> QED
    BY <1>6, <2>1, <2>2 DEF SyncSuite, RefuseOccupied
<1>7. CASE InstallJob(r)
  BY <1>7, <1>4 DEF InstallJob
<1>8. CASE InstallToken(r)
  <2>1. CASE token' = NoRun /\ Ends(r, "failed")
    BY <2>1, <1>1, <1>2, <1>3, ContainerRunAssumption, EndHolds
  <2>2. CASE token' \in {r, NoRun} /\ Goto(r, "stages")
    BY <2>2, <1>4, <1>8 DEF InstallToken
  <2> QED
    BY <1>8, <2>1, <2>2 DEF InstallToken
<1> QED
  BY <1>5, <1>6, <1>7, <1>8

(* The stage loop and the removal of the token. *)
LEMMA WorkHolds ==
  ASSUME IInv, NEW r \in Run,
         \/ SkipStage(r) \/ BeginStage(r) \/ WriteOutput(r) \/ FinishStage(r)
         \/ FailStages(r) \/ StagesDone(r) \/ Shred(r)
  PROVE  IInv'
<1>1. /\ Alive(r) /\ Shaped /\ Own(r) /\ run[r].at \in {"stages", "running", "shred"}
  BY DEF IInv, Alive, SkipStage, BeginStage, WriteOutput, FinishStage, FailStages,
         StagesDone, Shred
<1>2. disk'["job"] = disk["job"] /\ "job" \in DOMAIN disk'
  <2>1. CASE WriteOutput(r) \/ FinishStage(r)
    <3>1. run[r].todo \in Seq(Stage) /\ run[r].todo # <<>>
      BY <2>1, <1>1 DEF Shaped, Own, WriteOutput, FinishStage
    <3>2. Head(run[r].todo) # "job"
      BY <3>1, JobIsNoStage
    <3>3. \/ disk' = Written(Head(run[r].todo)) \/ disk' = Marked(Head(run[r].todo))
      BY <2>1 DEF WriteOutput, FinishStage
    <3> QED
      BY <3>2, <3>3, <1>1 DEF Written, Marked, Shaped
  <2>2. CASE FailStages(r)
    BY <2>2, <1>1 DEF FailStages, Shaped
  <2>3. CASE disk' = disk
    BY <2>3, <1>1 DEF Shaped
  <2> QED
    BY <2>1, <2>2, <2>3 DEF SkipStage, BeginStage, StagesDone, Shred
<1>3. /\ DOMAIN run' = Run /\ DOMAIN run'[r] = DOMAIN Unstarted
      /\ \A q \in Run \ {r} : run'[q] = run[q]
      /\ run'[r].verb = run[r].verb /\ run'[r].of = run[r].of
      /\ run'[r].read = run[r].read /\ run'[r].held = run[r].held
      /\ run'[r].named = run[r].named /\ run'[r].got = run[r].got
      /\ run'[r].exit = run[r].exit /\ run'[r].shared = run[r].shared
      /\ run'[r].at \in {"stages", "running", "shred", "collect"}
      /\ run'[r].at = "collect" => token' = NoRun
      /\ token' \in {token, NoRun}
      /\ run'[r].todo \in Seq(Stage)
      /\ run'[r].at = "running" => run'[r].todo # <<>>
  <2>1. CASE BeginStage(r) \/ StagesDone(r)
    <3>1. PICK step \in {"running", "shred"} :
            /\ Goto(r, step) /\ token' = token
            /\ step = "running" => run[r].todo # <<>>
      BY <2>1 DEF BeginStage, StagesDone
    <3> QED
      BY <3>1, <1>1, GotoMoves DEF Shaped
  <2>2. CASE Shred(r)
    BY <2>2, <1>1, GotoMoves DEF Shred, Shaped
  <2>3. CASE SkipStage(r)
    <3>1. run[r].todo \in Seq(Stage) /\ Tail(run[r].todo) \in Seq(Stage)
      BY <2>3, <1>1 DEF SkipStage, Shaped
    <3> QED
      BY <2>3, <3>1, <1>1 DEF SkipStage, Shaped, Unstarted
  <2>4. CASE WriteOutput(r)
    BY <2>4, <1>1 DEF WriteOutput, Shaped, Own
  <2>5. CASE FinishStage(r)
    <3>1. run[r].todo \in Seq(Stage) /\ Tail(run[r].todo) \in Seq(Stage)
      BY <2>5, <1>1 DEF FinishStage, Shaped, Own
    <3> QED
      BY <2>5, <3>1, <1>1 DEF FinishStage, Shaped, Unstarted
  <2>6. CASE FailStages(r)
    <3>1. PICK how \in {"stage", "exception"} :
            run' = [run EXCEPT ![r].at = "shred", ![r].failed = how]
      BY <2>6 DEF FailStages
    <3> QED
      BY <2>6, <3>1, <1>1 DEF FailStages, Shaped, Unstarted
  <2> QED
    BY <2>1, <2>2, <2>3, <2>4, <2>5, <2>6
<1>4. Alive(r)' /\ Moves(r)
  BY <1>1, <1>2, <1>3 DEF Alive, Moves, Shaped
<1>5. Own(r)'
  <2>1. run[r].read = 0 /\ run[r].got = {} /\ run[r].exit = "none"
    BY <1>1 DEF Own, Working
  <2>2. ~run[r].shared => token \in {r, NoRun} /\ disk["job"] = run[r].of
    BY <1>1 DEF Own, KeepsJob, Working
  <2>3. token' = r => run'[r].at \in {"stages", "running", "shred"}
    BY <1>3, ContainerRunAssumption
  <2> QED
    BY <1>2, <1>3, <2>1, <2>2, <2>3
       DEF Own, KeepsJob, Alive, Begun, Working, Archived
<1> QED
  BY <1>1, <1>4, <1>5, MoveHolds

(* The archive, its delivery, and the exit. *)
LEMMA ArchiveHolds ==
  ASSUME IInv, NEW r \in Run,
         \/ Collect(r) \/ Contract(r) \/ Compare(r) \/ Deliver(r) \/ Finish(r)
  PROVE  IInv'
<1>1. /\ Alive(r) /\ Shaped /\ Own(r) /\ run[r].at \in {"collect"} \cup Archived
      /\ disk' = disk /\ token' = token
  BY DEF IInv, Alive, Archived, Collect, Contract, Compare, Deliver, Finish
<1>2. token # r /\ "job" \in DOMAIN disk'
  BY <1>1 DEF Own, Archived, Shaped
<1>3. ASSUME NEW exit, Ends(r, exit) PROVE IInv'
  BY <1>1, <1>2, <1>3, EndHolds
<1>4. ASSUME NEW step \in {"collect"} \cup Archived,
             DOMAIN run' = Run, DOMAIN run'[r] = DOMAIN Unstarted,
             "job" \in DOMAIN run'[r].held, run'[r].todo = run[r].todo,
             \A q \in Run \ {r} : run'[q] = run[q],
             run'[r].at = step, run'[r].verb = run[r].verb, run'[r].of = run[r].of,
             run'[r].exit = run[r].exit, run'[r].shared = run[r].shared,
             run'[r].got = {} \/ step = "delivered",
             ~run[r].shared =>
               /\ step \in Archived \/ run'[r].read # 0 =>
                    run'[r].held["job"] = run[r].of
               /\ step \in {"deliver", "delivered"} => run'[r].named = run[r].of
      PROVE  IInv'
  <2>1. Alive(r)' /\ Moves(r)
    BY <1>1, <1>2, <1>4 DEF Alive, Moves, Archived, Shaped
  <2>2. ~run[r].shared => token \in {r, NoRun} /\ disk["job"] = run[r].of
    BY <1>1 DEF Own, KeepsJob, Archived
  <2>3. Own(r)'
    BY <1>1, <1>2, <1>4, <2>1, <2>2
       DEF Own, KeepsJob, Alive, Begun, Working, Archived
  <2> QED
    BY <1>1, <2>1, <2>3, MoveHolds
<1>5. CASE Collect(r)
  <2> DEFINE f == At(r)
             step == IF LastFile(r) THEN "contract" ELSE "collect"
             n == IF LastFile(r) THEN 0 ELSE run[r].read + 1
             b == LastFile(r) /\ \E g \in File \ {At(r)} : run[r].held[g] # disk[g]
  <2>1. /\ run' = [run EXCEPT ![r] = [run[r] EXCEPT !.held[f] = disk[f], !.at = step,
                                                   !.read = n, !.torn = b]]
        /\ step \in {"collect", "contract"}
    BY <1>5 DEF Collect
  <2>2. run[r].read = 0 => f = "job"
    BY JobIsFirst DEF At
  <2> HIDE DEF f, step, n, b
  <2>3. DOMAIN run' = Run /\ r \in DOMAIN run
    BY <2>1, <1>1 DEF Shaped
  <2>4. run'[r] = [run[r] EXCEPT !.held[f] = disk[f], !.at = step,
                                 !.read = n, !.torn = b]
    BY <2>1, <2>3
  <2>5. /\ DOMAIN run'[r] = DOMAIN Unstarted
        /\ run'[r].held = [run[r].held EXCEPT ![f] = disk[f]]
        /\ run'[r].at = step /\ run'[r].todo = run[r].todo
        /\ run'[r].verb = run[r].verb /\ run'[r].of = run[r].of
        /\ run'[r].exit = run[r].exit /\ run'[r].shared = run[r].shared
        /\ run'[r].got = run[r].got
    BY <2>4, <1>1 DEF Shaped, Unstarted
  <2>6. run[r].at = "collect" /\ run[r].got = {}
    BY <1>5, <1>1 DEF Collect, Own
  <2>7. ~run[r].shared => run'[r].held["job"] = run[r].of
    <3>1. ~run[r].shared => /\ disk["job"] = run[r].of
                            /\ run[r].read # 0 => run[r].held["job"] = run[r].of
      BY <1>1, <2>6 DEF Own, KeepsJob
    <3> QED
      BY <3>1, <2>5, <2>2, <1>1 DEF Shaped
  <2>8. "job" \in DOMAIN run'[r].held /\ \A q \in Run \ {r} : run'[q] = run[q]
    BY <2>1, <2>3, <2>5, <1>1 DEF Shaped
  <2>9. step \in {"collect"} \cup Archived /\ step \notin {"deliver", "delivered"}
    BY <2>1 DEF Archived
  <2> QED
    BY <2>3, <2>5, <2>6, <2>7, <2>8, <2>9, <1>4
<1>6. CASE Contract(r)
  <2>1. CASE Goto(r, "compare")
    <3>1. run[r].at = "contract" /\ run[r].got = {}
      BY <1>6, <1>1 DEF Contract, Own
    <3>2. ~run[r].shared => run[r].held["job"] = run[r].of
      BY <3>1, <1>1 DEF Own, KeepsJob, Archived
    <3> QED
      BY <2>1, <3>1, <3>2, <1>1, <1>4, GotoMoves DEF Archived, Shaped
  <2> QED
    BY <1>6, <1>3, <2>1 DEF Contract, Undelivered
<1>7. CASE Compare(r)
  <2> DEFINE step == IF LastFile(r) THEN "deliver" ELSE "compare"
             n == IF LastFile(r) THEN 0 ELSE run[r].read + 1
             j == IF LastFile(r) THEN disk["job"] ELSE run[r].named
  <2>1. CASE run' = [run EXCEPT ![r] = [run[r] EXCEPT !.at = step, !.read = n,
                                                     !.named = j]]
    <3>1. step \in {"deliver", "compare"} /\ (step = "deliver" => j = disk["job"])
      OBVIOUS
    <3>2. run[r].at = "compare" /\ run[r].got = {}
      BY <1>7, <1>1 DEF Compare, Own
    <3>3. ~run[r].shared => run[r].held["job"] = run[r].of /\ disk["job"] = run[r].of
      BY <3>2, <1>1 DEF Own, KeepsJob, Archived
    <3> HIDE DEF step, n, j
    <3> QED
      BY <2>1, <3>1, <3>2, <3>3, <1>1, <1>4 DEF Archived, Shaped, Unstarted
  <2> QED
    BY <1>7, <1>3, <2>1 DEF Compare, Undelivered
<1>8. CASE Deliver(r)
  <2>1. PICK takers \in SUBSET Sinks :
          run' = [run EXCEPT ![r].at = "delivered", ![r].got = takers]
    BY <1>8 DEF Deliver
  <2>2. run[r].at = "deliver"
    BY <1>8 DEF Deliver
  <2>3. ~run[r].shared => run[r].held["job"] = run[r].of /\ run[r].named = run[r].of
    BY <2>2, <1>1 DEF Own, KeepsJob, Archived
  <2> QED
    BY <2>1, <2>2, <2>3, <1>1, <1>4 DEF Archived, Shaped, Unstarted
<1>9. CASE Finish(r)
  BY <1>9, <1>3 DEF Finish
<1> QED
  BY <1>5, <1>6, <1>7, <1>8, <1>9

-----------------------------------------------------------------------------

(* What TypeOK says of one process. *)
Proc(p) ==
  /\ p.at \in Steps /\ p.verb \in {"measure", "stage"}
  /\ p.todo \in Seq(Stage) /\ Len(p.todo) <= Len(Plan)
  /\ p.name \in Stage
  /\ {p.of, p.named} \subseteq Jobs \cup {NoJob}
  /\ p.failed \in {"no", "stage", "exception"}
  /\ p.read \in 0..Len(FileOrder)
  /\ Holds(p.held) /\ p.torn \in BOOLEAN
  /\ p.got \subseteq Sinks
  /\ p.exit \in {"none", "ok", "failed", "refused", "killed"}
  /\ p.shared \in BOOLEAN

(* What a process is when it starts, for a stage or for the plan up to one. *)
Fresh(p) ==
  /\ DOMAIN p = DOMAIN Unstarted /\ Proc(p)
  /\ p.at \in {"admitted", "end"} /\ p.read = 0 /\ p.held = Empty
  /\ p.at = "admitted" => p.of \in Jobs
  /\ p.at = "admitted" => p.exit = "none"
  /\ p.at = "admitted" /\ p.verb = "stage" => disk["job"] \in {NoJob, p.of}
  /\ p.got = {} /\ p.torn = FALSE /\ p.exit \in {"none", "refused"}
  /\ p.shared = (Living # {})

LEMMA StartMoves ==
  ASSUME Shaped, NEW r \in Run, Start(r)
  PROVE  /\ run[r].at = "idle" /\ disk' = disk /\ code' = code /\ token' = token
         /\ strays' = strays /\ kills' = kills
         /\ DOMAIN run' = Run /\ Fresh(run'[r])
         /\ \A q \in Run \ {r} :
              run'[q] = [run[q] EXCEPT !.shared = run[q].shared \/ Alive(q)]
<1>1. /\ run[r].at = "idle" /\ disk' = disk /\ code' = code /\ token' = token
      /\ strays' = strays /\ kills' = kills
  BY DEF Start
<1>2. ASSUME NEW j \in Jobs, NEW s \in Stage PROVE
        Fresh([Unstarted EXCEPT
                    !.at = IF Prevalidate(r, j) THEN "admitted" ELSE "end",
                    !.exit = IF Prevalidate(r, j) THEN "none" ELSE "refused",
                    !.verb = "stage", !.todo = <<s>>, !.name = s, !.of = j,
                    !.shared = Living # {}])
  <2>1. <<s>> \in Seq(Stage) /\ Len(<<s>>) <= Len(Plan) /\ Len(Plan) \in Nat
    BY ContainerRunAssumption
  <2> DEFINE b == Living # {}
             a == IF Prevalidate(r, j) THEN "admitted" ELSE "end"
             e == IF Prevalidate(r, j) THEN "none" ELSE "refused"
             t == <<s>>
  <2>3. /\ t \in Seq(Stage) /\ Len(t) <= Len(Plan)
        /\ b \in BOOLEAN /\ a \in {"admitted", "end"} /\ e \in {"none", "refused"}
        /\ a = "admitted" => e = "none" /\ disk["job"] \in {NoJob, j}
        /\ b = (Living # {})
    BY <2>1 DEF Prevalidate
  <2> HIDE DEF a, b, e, t
  <2>4. Fresh([Unstarted EXCEPT !.at = a, !.exit = e, !.verb = "stage",
                                !.todo = t, !.name = s, !.of = j, !.shared = b])
    <3> DEFINE u == [Unstarted EXCEPT !.at = a, !.exit = e, !.verb = "stage",
                                !.todo = t, !.name = s, !.of = j, !.shared = b]
    <3>1. /\ u.at = a /\ u.exit = e /\ u.verb = "stage" /\ u.todo = t /\ u.name = s
          /\ u.of = j /\ u.shared = b /\ u.held = Empty /\ u.read = 0 /\ u.got = {}
          /\ u.torn = FALSE /\ u.named = NoJob /\ u.failed = "no"
          /\ DOMAIN u = DOMAIN Unstarted
      BY DEF Unstarted
    <3> HIDE DEF u
    <3>2. Proc(u)
      <4>1. u.torn \in BOOLEAN /\ u.shared \in BOOLEAN
        BY <2>3, <3>1, Zenon
      <4>2. /\ u.at \in Steps /\ u.verb \in {"measure", "stage"}
            /\ u.todo \in Seq(Stage) /\ Len(u.todo) <= Len(Plan) /\ u.name \in Stage
        BY <2>3, <3>1 DEF Steps
      <4>3. /\ {u.of, u.named} \subseteq Jobs \cup {NoJob}
            /\ u.failed \in {"no", "stage", "exception"} /\ u.read \in 0..Len(FileOrder)
            /\ u.got \subseteq Sinks
            /\ u.exit \in {"none", "ok", "failed", "refused", "killed"}
        BY <2>3, <3>1, Files
      <4>4. Holds(u.held)
        BY <3>1, EmptyHolds
      <4> QED
        BY <4>1, <4>2, <4>3, <4>4 DEF Proc
    <3>3. Fresh(u)
      BY <2>3, <3>1, <3>2 DEF Fresh
    <3> QED
      BY <3>3 DEF u
  <2> QED
    BY <2>4 DEF a, b, e, t
<1>3. ASSUME NEW j \in Jobs, NEW k \in 1..Len(Plan) PROVE
        Fresh([Unstarted EXCEPT
                    !.at = "admitted", !.verb = "measure",
                    !.todo = SubSeq(Plan, 1, k), !.of = j,
                    !.shared = Living # {}])
  <2>1. SubSeq(Plan, 1, k) \in Seq(Stage) /\ Len(SubSeq(Plan, 1, k)) <= Len(Plan)
        /\ Len(Plan) \in Nat
    <3>1. Plan \in Seq(STRING) /\ DOMAIN Plan = 1..Len(Plan) /\ Len(Plan) \in Nat
      BY ContainerRunAssumption
    <3>2. \A i \in 1..Len(Plan) : Plan[i] \in Stage
      BY <3>1 DEF Stage, Range
    <3>3. Plan \in Seq(Stage)
      BY <3>1, <3>2
    <3> QED
      BY <3>1, <3>3
  <2> DEFINE b == Living # {}
             t == SubSeq(Plan, 1, k)
  <2>2. b \in BOOLEAN /\ b = (Living # {}) /\ t \in Seq(Stage) /\ Len(t) <= Len(Plan)
    BY <2>1
  <2> HIDE DEF b, t
  <2>3. Fresh([Unstarted EXCEPT
                    !.at = "admitted", !.verb = "measure",
                    !.todo = t, !.of = j, !.shared = b])
    BY <2>1, <2>2, EmptyHolds, Files, LastIsStage DEF Fresh, Proc, Unstarted, Steps
  <2> QED
    BY <2>3 DEF b, t
<1>4. PICK p : /\ Fresh(p)
               /\ run' = [q \in Run |-> IF q = r THEN p
                                        ELSE [run[q] EXCEPT !.shared = @ \/ Alive(q)]]
  <2>1. CASE \E j \in Jobs, s \in Stage :
          run' = [q \in Run |->
            IF q = r
            THEN [Unstarted EXCEPT
                    !.at = IF Prevalidate(r, j) THEN "admitted" ELSE "end",
                    !.exit = IF Prevalidate(r, j) THEN "none" ELSE "refused",
                    !.verb = "stage", !.todo = <<s>>, !.name = s, !.of = j,
                    !.shared = Living # {}]
            ELSE [run[q] EXCEPT !.shared = @ \/ Alive(q)]]
    <3>1. PICK j \in Jobs, s \in Stage :
          run' = [q \in Run |->
            IF q = r
            THEN [Unstarted EXCEPT
                    !.at = IF Prevalidate(r, j) THEN "admitted" ELSE "end",
                    !.exit = IF Prevalidate(r, j) THEN "none" ELSE "refused",
                    !.verb = "stage", !.todo = <<s>>, !.name = s, !.of = j,
                    !.shared = Living # {}]
            ELSE [run[q] EXCEPT !.shared = @ \/ Alive(q)]]
      BY <2>1
    <3> DEFINE u == [Unstarted EXCEPT
                    !.at = IF Prevalidate(r, j) THEN "admitted" ELSE "end",
                    !.exit = IF Prevalidate(r, j) THEN "none" ELSE "refused",
                    !.verb = "stage", !.todo = <<s>>, !.name = s, !.of = j,
                    !.shared = Living # {}]
    <3>2. Fresh(u) /\ run' = [q \in Run |-> IF q = r THEN u
                                ELSE [run[q] EXCEPT !.shared = @ \/ Alive(q)]]
      BY <3>1, <1>2
    <3> QED
      BY <3>2
  <2>2. CASE \E j \in Jobs, k \in 1..Len(Plan) :
          run' = [q \in Run |->
            IF q = r
            THEN [Unstarted EXCEPT
                    !.at = "admitted", !.verb = "measure",
                    !.todo = SubSeq(Plan, 1, k), !.of = j,
                    !.shared = Living # {}]
            ELSE [run[q] EXCEPT !.shared = @ \/ Alive(q)]]
    BY <2>2, <1>3
  <2> QED
    BY <2>1, <2>2 DEF Start
<1> QED
  BY <1>1, <1>4

(* An invocation starts: whoever is alive has company from here on. *)
LEMMA StartHolds ==
  ASSUME IInv, NEW r \in Run, Start(r)
  PROVE  IInv'
<1> DEFINE p == run'[r]
<1>1. /\ Shaped /\ Own(r) /\ run[r].at = "idle" /\ ~Alive(r)
      /\ disk' = disk /\ token' = token
  BY DEF IInv, Alive, Start
<1>2. token # r
  BY <1>1 DEF Own
<1>3. /\ Fresh(p) /\ p.todo \in Seq(Stage)
      /\ \A q \in Run \ {r} :
           run'[q] = [run[q] EXCEPT !.shared = run[q].shared \/ Alive(q)]
  BY <1>1, StartMoves DEF Fresh, Proc
<1>4. DOMAIN run' = Run
  BY <1>1, StartMoves
<1>5. ASSUME NEW q \in Run \ {r}
      PROVE  /\ DOMAIN run'[q] = DOMAIN Unstarted
             /\ run'[q].at = run[q].at /\ run'[q].held = run[q].held
             /\ run'[q].todo = run[q].todo /\ run'[q].exit = run[q].exit
             /\ run'[q].verb = run[q].verb /\ run'[q].of = run[q].of
             /\ run'[q].read = run[q].read /\ run'[q].named = run[q].named
             /\ run'[q].got = run[q].got
             /\ run'[q].shared = (run[q].shared \/ Alive(q))
  <2>1. run'[q] = [run[q] EXCEPT !.shared = run[q].shared \/ Alive(q)]
    BY <1>3
  <2> QED
    BY <2>1, <1>1 DEF Shaped, Unstarted
<1>6. \A q \in Run \ {r} : Alive(q)' = Alive(q)
  BY <1>5 DEF Alive
<1>7. Shaped'
  BY <1>1, <1>3, <1>4, <1>5, JobIsFirst DEF Shaped, Empty, Fresh
<1>8. Aware'
  <2> SUFFICES ASSUME NEW q \in Run, NEW o \in Run, q # o, Alive(q)', Alive(o)'
               PROVE  run'[q].shared
    BY DEF Aware
  <2>1. CASE q = r
    BY <2>1, <1>3, <1>4, <1>6 DEF Living, Fresh
  <2>2. CASE q # r
    BY <2>2, <1>5, <1>6
  <2> QED
    BY <2>1, <2>2
<1>9. Own(r)'
  BY <1>1, <1>2, <1>3, <1>4
     DEF Own, KeepsJob, Alive, Begun, Working, Archived, Fresh
<1>10. ASSUME NEW q \in Run \ {r} PROVE Own(q)'
  <2>1. Own(q)
    BY DEF IInv
  <2>2. Alive(q)' => run'[q].shared
    BY <1>5, <1>6
  <2> QED
    BY <2>1, <2>2, <1>1, <1>5 DEF Own
<1> QED
  BY <1>1, <1>7, <1>8, <1>9, <1>10 DEF IInv

(* The scripts of dead drivers write no job. *)
LEMMA StraggleHolds ==
  ASSUME IInv, NEW s \in Stage, Straggle(s)
  PROVE  IInv'
<1>1. disk'["job"] = disk["job"] /\ "job" \in DOMAIN disk'
  BY JobIsNoStage DEF IInv, Shaped, Straggle, Written, Marked
<1>2. run' = run /\ token' = token
  BY DEF Straggle
<1> QED
  BY <1>1, <1>2 DEF IInv, Shaped, Aware, Own, KeepsJob, Alive

LEMMA WipeHolds ==
  ASSUME IInv, Wipe
  PROVE  IInv'
<1>1. run' = run /\ token' = NoRun /\ "job" \in DOMAIN disk'
  BY JobIsFirst DEF Wipe, Empty
<1>2. \A r \in Run : ~Alive(r)
  BY DEF Wipe, Living
<1> QED
  BY <1>1, <1>2, ContainerRunAssumption DEF IInv, Shaped, Aware, Own, Alive

LEMMA StepHolds == IInv /\ [Next]_vars => IInv'
<1> SUFFICES ASSUME IInv, [Next]_vars PROVE IInv'
  OBVIOUS
<1>1. CASE \E r \in Run : Invocation(r)
  BY <1>1, StartHolds, AdmissionHolds, WorkHolds, ArchiveHolds DEF Invocation
<1>2. CASE \E r \in Run : Kill(r)
  <2>1. PICK r \in Run : Kill(r)
    BY <1>2
  <2> QED
    BY <2>1, EndHolds DEF Kill, IInv, Shaped
<1>3. CASE \E s \in Stage : Straggle(s)
  BY <1>3, StraggleHolds
<1>4. CASE Wipe
  BY <1>4, WipeHolds
<1>5. CASE UNCHANGED vars
  BY <1>5 DEF vars, IInv, Shaped, Aware, Own, KeepsJob, Alive
<1> QED
  BY <1>1, <1>2, <1>3, <1>4, <1>5 DEF Next

LEMMA Inductive == Spec => []IInv
<1>1. Init => IInv
  BY InitHolds
<1>2. IInv /\ [Next]_vars => IInv'
  BY StepHolds
<1> QED
  BY <1>1, <1>2, PTL DEF Spec

(* clear_stale_token, write_token and the finally block together: the       *)
(* Hugging Face token of an invocation outlives it only if it was killed,   *)
(* and no other invocation goes on past its clearing with that token.       *)
THEOREM TokenStaysConfined == Spec => []TokenConfined
<1>1. IInv => TokenConfined
  BY DEF IInv, Own, TokenConfined
<1> QED
  BY <1>1, Inductive, PTL

(* _prevalidate_stage_job and require_fresh_job_root together: what an      *)
(* invocation that had the root to itself delivers is of its own job.       *)
THEOREM JobStaysOwn == Spec => []OwnJob
<1>1. IInv => OwnJob
  BY DEF IInv, Own, KeepsJob, Alive, Archived, OwnJob
<1> QED
  BY <1>1, Inductive, PTL

-----------------------------------------------------------------------------

(* Those that can write to the log no more.  Every other has written none.  *)
Spent == {"shred"} \cup {"collect"} \cup Archived \cup {"end"}
Past  == {r \in Run : run[r].at \in Spent}

(* Before its last file a pass has more to read. *)
Reads(p) == p.at \in {"collect", "compare"} => p.read < Len(FileOrder)
Idle(p)  == p.at \notin {"collect", "compare"} => p.read = 0

Typed == /\ TypeOK /\ disk["logs"] <= Cardinality(Past)
         /\ \A r \in Run : Reads(run[r]) /\ Idle(run[r])

LEMMA TypeParts ==
  ASSUME TypeOK
  PROVE  /\ \A r \in Run : Proc(run[r])
         /\ DOMAIN disk = File
         /\ disk["job"] \in Jobs \cup {NoJob}
         /\ disk["logs"] \in Nat
         /\ \A s \in Stage : disk[s] \in Output
<1>1. \A r \in Run : Proc(run[r])
  BY DEF TypeOK, Proc
<1>2. DOMAIN disk = File /\ \A f \in File : disk[f] \in Content(f)
  BY DEF TypeOK, Holds
<1>3. disk["job"] \in Content("job") /\ disk["logs"] \in Content("logs")
      /\ \A s \in Stage : disk[s] \in Content(s)
  BY <1>2, Files
<1>4. Cardinality(Run) \in Nat
  BY FS_CardinalityType, ContainerRunAssumption
<1> QED
  BY <1>1, <1>2, <1>3, <1>4, Contents

LEMMA PastCounts ==
  /\ IsFiniteSet(Past) /\ Cardinality(Past) \in Nat
  /\ Cardinality(Run) \in Nat /\ Cardinality(Past) <= Cardinality(Run)
<1>1. Past \subseteq Run
  BY DEF Past
<1> QED
  BY <1>1, FS_Subset, FS_CardinalityType, ContainerRunAssumption

(* A stage's output and the log are all that grows on the disk. *)
Grows ==
  \/ disk' = disk
  \/ \E s \in Stage : disk[s].v < MaxWrites /\ disk' = Written(s)
  \/ \E s \in Stage : disk' = Marked(s)
  \/ \E j \in Jobs \cup {NoJob} : disk' = [disk EXCEPT !["job"] = j]

LEMMA GrowsHolds ==
  ASSUME TypeOK, Grows
  PROVE  Holds(disk') /\ disk'["logs"] = disk["logs"]
<1>1. /\ DOMAIN disk = File /\ \A f \in File : disk[f] \in Content(f)
  BY DEF TypeOK, Holds
<1>2. CASE disk' = disk
  BY <1>1, <1>2 DEF Holds
<1>3. ASSUME NEW f \in File, NEW c \in Content(f), disk' = [disk EXCEPT ![f] = c],
             f # "logs"
      PROVE  Holds(disk') /\ disk'["logs"] = disk["logs"]
  BY <1>1, <1>3 DEF Holds
<1>4. ASSUME NEW s \in Stage, disk' = Marked(s) \/ (disk[s].v < MaxWrites /\ disk' = Written(s))
      PROVE  Holds(disk') /\ disk'["logs"] = disk["logs"]
  <2>1. /\ disk[s].v \in 0..MaxWrites /\ disk[s].done \in BOOLEAN
        /\ disk[s] = [v |-> disk[s].v, done |-> disk[s].done]
    BY TypeParts DEF Output
  <2>2. s \in File /\ Content(s) = Output /\ s # "logs"
    BY Files, Contents, JobIsNoStage
  <2>3. CASE disk' = Marked(s)
    <3>1. [disk[s] EXCEPT !.done = TRUE] \in Output
      BY <2>1 DEF Output
    <3>2. disk' = [disk EXCEPT ![s] = [disk[s] EXCEPT !.done = TRUE]]
      BY <2>3 DEF Marked
    <3> QED
      BY <3>1, <3>2, <2>2, <1>3
  <2>4. CASE disk[s].v < MaxWrites /\ disk' = Written(s)
    <3>1. [disk[s] EXCEPT !.v = disk[s].v + 1] \in Output
      BY <2>1, <2>4, ContainerRunAssumption DEF Output
    <3>2. disk' = [disk EXCEPT ![s] = [disk[s] EXCEPT !.v = disk[s].v + 1]]
      BY <2>4 DEF Written
    <3> QED
      BY <3>1, <3>2, <2>2, <1>3
  <2> QED
    BY <1>4, <2>3, <2>4
<1>5. ASSUME NEW j \in Jobs \cup {NoJob}, disk' = [disk EXCEPT !["job"] = j]
      PROVE  Holds(disk') /\ disk'["logs"] = disk["logs"]
  BY <1>5, <1>3, Files, Contents
<1> QED
  BY <1>2, <1>4, <1>5 DEF Grows

(* A step of one process, that leaves the others alone.                     *)
LEMMA MoveTyped ==
  ASSUME Typed, NEW r \in Run, DOMAIN run' = Run,
         \A q \in Run \ {r} : run'[q] = run[q],
         Proc(run'[r]), Reads(run'[r]), Idle(run'[r]), Grows,
         run[r].at \in Spent => run'[r].at \in Spent,
         code' \in BOOLEAN, token' \in Run \cup {NoRun}, strays' \subseteq Stage,
         kills' \in 0..MaxKills
  PROVE  Typed'
<1>1. Holds(disk') /\ disk'["logs"] = disk["logs"] /\ disk["logs"] \in Nat
  BY GrowsHolds, TypeParts DEF Typed
<1>2. \A q \in Run : Proc(run'[q]) /\ Reads(run'[q]) /\ Idle(run'[q])
  BY TypeParts DEF Typed
<1>3. TypeOK'
  BY <1>1, <1>2 DEF TypeOK, Proc
<1>4. disk["logs"] <= Cardinality(Past')
  <2>1. Past \subseteq Past'
    BY DEF Past
  <2>2. Past' \subseteq Run
    BY DEF Past
  <2>3. IsFiniteSet(Past') /\ Cardinality(Past) <= Cardinality(Past')
    BY <2>1, <2>2, FS_Subset, ContainerRunAssumption
  <2>4. Cardinality(Past') \in Nat
    BY <2>3, FS_CardinalityType
  <2> QED
    BY <2>3, <2>4, <1>1, PastCounts DEF Typed
<1> QED
  BY <1>1, <1>2, <1>3, <1>4 DEF Typed

LEMMA InitTyped == Init => Typed
<1> SUFFICES ASSUME Init PROVE Typed
  OBVIOUS
<1>1. Proc(Unstarted) /\ Reads(Unstarted) /\ Idle(Unstarted)
  <2>1. <<>> \in Seq(Stage) /\ Len(<<>>) = 0
    OBVIOUS
  <2>2. Plan[1] \in Stage
    BY LastIsStage
  <2>3. Len(Plan) \in Nat /\ Len(FileOrder) \in Nat
    BY ContainerRunAssumption, Files
  <2> QED
    BY <2>1, <2>2, <2>3, EmptyHolds DEF Proc, Reads, Idle, Unstarted, Steps
<1>2. \A r \in Run : Proc(run[r]) /\ Reads(run[r]) /\ Idle(run[r])
  BY <1>1 DEF Init
<1>3. /\ Holds(disk) /\ code \in BOOLEAN /\ token \in Run \cup {NoRun}
      /\ strays \subseteq Stage /\ DOMAIN run = Run /\ kills \in 0..MaxKills
  <2>1. Holds(disk) /\ DOMAIN run = Run
    BY EmptyHolds DEF Init
  <2>2. code \in BOOLEAN /\ token \in Run \cup {NoRun} /\ strays \subseteq Stage
    BY Zenon DEF Init
  <2>3. kills \in 0..MaxKills
    BY ContainerRunAssumption DEF Init
  <2> QED
    BY <2>1, <2>2, <2>3
<1>4. TypeOK
  BY <1>2, <1>3 DEF TypeOK, Proc
<1> QED
  BY <1>2, <1>4, EmptyHolds, PastCounts DEF Init, Typed

(* The steps that only go to another step, or end the process. *)
LEMMA GotoTyped ==
  ASSUME Typed, Shaped, NEW r \in Run, NEW step \in Steps, Goto(r, step), Grows,
         run[r].at \in Spent => step \in Spent,
         run[r].read = 0, step \in {"collect", "compare"} => run[r].read = 0,
         code' \in BOOLEAN, token' \in Run \cup {NoRun}, strays' \subseteq Stage,
         kills' \in 0..MaxKills
  PROVE  Typed'
<1>1. /\ DOMAIN run' = Run /\ \A q \in Run \ {r} : run'[q] = run[q]
      /\ run'[r] = [run[r] EXCEPT !.at = step]
  BY DEF Goto, Shaped
<1>2. /\ run'[r].at = step /\ run'[r].todo = run[r].todo
      /\ run'[r].verb = run[r].verb /\ run'[r].of = run[r].of
      /\ run'[r].read = run[r].read /\ run'[r].held = run[r].held
      /\ run'[r].named = run[r].named /\ run'[r].got = run[r].got
      /\ run'[r].exit = run[r].exit /\ run'[r].shared = run[r].shared
      /\ run'[r].name = run[r].name /\ run'[r].failed = run[r].failed
      /\ run'[r].torn = run[r].torn
  BY <1>1 DEF Shaped, Unstarted
<1>3. Proc(run[r])
  BY TypeParts DEF Typed
<1>4. Proc(run'[r])
  BY <1>2, <1>3 DEF Proc
<1>5. Reads(run'[r]) /\ Idle(run'[r])
  BY <1>2, Files DEF Reads, Idle
<1> QED
  BY <1>1, <1>2, <1>4, <1>5, MoveTyped

LEMMA EndTyped ==
  ASSUME Typed, Shaped, NEW r \in Run,
         NEW exit \in {"none", "ok", "failed", "refused", "killed"},
         Ends(r, exit), disk' = disk,
         code' \in BOOLEAN, token' \in Run \cup {NoRun}, strays' \subseteq Stage,
         kills' \in 0..MaxKills
  PROVE  Typed'
<1>1. /\ DOMAIN run' = Run /\ \A q \in Run \ {r} : run'[q] = run[q]
      /\ run'[r] = [Unstarted EXCEPT !.at = "end", !.exit = exit]
  BY DEF Ends, Shaped
<1>2. Proc(run'[r]) /\ Reads(run'[r]) /\ Idle(run'[r]) /\ run'[r].at = "end"
  <2>1. <<>> \in Seq(Stage) /\ Len(<<>>) = 0
    OBVIOUS
  <2>2. Plan[1] \in Stage
    BY LastIsStage
  <2>3. Len(Plan) \in Nat /\ Len(FileOrder) \in Nat
    BY ContainerRunAssumption, Files
  <2> QED
    BY <1>1, <2>1, <2>2, <2>3, EmptyHolds DEF Proc, Reads, Idle, Unstarted, Steps
<1>3. Grows /\ "end" \in Spent
  BY DEF Grows, Spent
<1> QED
  BY <1>1, <1>2, <1>3, MoveTyped

LEMMA AdmissionTyped ==
  ASSUME Typed, IInv, NEW r \in Run,
         Clear(r) \/ SyncSuite(r) \/ RefuseOccupied(r) \/ InstallJob(r)
           \/ InstallToken(r)
  PROVE  Typed'
<1>1. /\ Shaped /\ run[r].read = 0 /\ run[r].at \notin Spent
      /\ run[r].at \in Begun \cup {"installed"}
  BY DEF IInv, Own, Clear, SyncSuite, RefuseOccupied, InstallJob,
         InstallToken, Begun, Working, Spent, Archived
<1>2. code' \in BOOLEAN /\ token' \in Run \cup {NoRun} /\ strays' \subseteq Stage
      /\ kills' \in 0..MaxKills
  BY DEF Typed, TypeOK, Clear, SyncSuite, RefuseOccupied, InstallJob, InstallToken
<1>3. Grows
  <2>1. CASE InstallJob(r)
    <3>1. run[r].of \in Jobs \cup {NoJob} /\ disk["job"] \in Jobs \cup {NoJob}
      BY TypeParts DEF Typed, Proc
    <3> QED
      BY <2>1, <3>1 DEF InstallJob, Grows
  <2> QED
    BY <2>1 DEF Grows, Clear, SyncSuite, RefuseOccupied, InstallToken
<1>4. ASSUME NEW exit, Ends(r, exit), exit \in {"refused", "failed"}, disk' = disk
      PROVE  Typed'
  BY <1>1, <1>2, <1>4, EndTyped
<1>5. ASSUME NEW step \in {"cleared", "synced", "installed", "stages"}, Goto(r, step)
      PROVE  Typed'
  BY <1>1, <1>2, <1>3, <1>5, GotoTyped DEF Steps
<1> QED
  BY <1>4, <1>5 DEF Clear, SyncSuite, RefuseOccupied, InstallJob, InstallToken

LEMMA TailTyped ==
  ASSUME NEW t \in Seq(Stage), t # <<>>, Len(t) <= Len(Plan)
  PROVE  Head(t) \in Stage /\ Tail(t) \in Seq(Stage) /\ Len(Tail(t)) <= Len(Plan)
<1>1. Len(t) \in Nat /\ Len(t) > 0 /\ Len(Tail(t)) = Len(t) - 1 /\ Len(Plan) \in Nat
  BY ContainerRunAssumption
<1> QED
  BY <1>1

(* One more process can write to the log no more, and has written one line. *)
LEMMA FailTyped ==
  ASSUME Typed, IInv, NEW r \in Run, FailStages(r)
  PROVE  Typed'
<1>1. /\ Shaped /\ run[r].read = 0 /\ r \notin Past
      /\ run[r].todo # <<>> /\ Proc(run[r])
  BY TypeParts DEF IInv, Own, FailStages, Working, Past, Spent, Archived, Typed
<1>2. PICK how \in {"stage", "exception"} :
        run' = [run EXCEPT ![r].at = "shred", ![r].failed = how]
  BY DEF FailStages
<1>3. /\ DOMAIN run' = Run /\ \A q \in Run \ {r} : run'[q] = run[q]
      /\ run'[r] = [run[r] EXCEPT !.at = "shred", !.failed = how]
  BY <1>1, <1>2 DEF Shaped
<1>4. /\ run'[r].at = "shred" /\ run'[r].todo = run[r].todo
      /\ run'[r].verb = run[r].verb /\ run'[r].of = run[r].of
      /\ run'[r].read = run[r].read /\ run'[r].held = run[r].held
      /\ run'[r].named = run[r].named /\ run'[r].got = run[r].got
      /\ run'[r].exit = run[r].exit /\ run'[r].shared = run[r].shared
      /\ run'[r].name = run[r].name /\ run'[r].failed = how
      /\ run'[r].torn = run[r].torn
  BY <1>1, <1>3 DEF Shaped, Unstarted
<1>5. Proc(run'[r])
  BY <1>1, <1>4 DEF Proc, Steps
<1>6. \A q \in Run : Proc(run'[q]) /\ Reads(run'[q]) /\ Idle(run'[q])
  BY <1>1, <1>3, <1>4, <1>5, TypeParts DEF Typed, Reads, Idle
<1>7. Past' = Past \cup {r}
  BY <1>3, <1>4 DEF Past, Spent
<1>8. Cardinality(Past') = Cardinality(Past) + 1 /\ IsFiniteSet(Past')
  BY <1>1, <1>7, FS_AddElement, PastCounts
<1>9. Cardinality(Past') <= Cardinality(Run)
  <2>1. Past' \subseteq Run
    BY DEF Past
  <2> QED
    BY <2>1, FS_Subset, ContainerRunAssumption
<1>10. /\ DOMAIN disk = File /\ disk["logs"] \in Nat
       /\ \A f \in File : disk[f] \in Content(f)
  BY TypeParts DEF Typed, TypeOK, Holds
<1>11. /\ DOMAIN disk' = File /\ disk'["logs"] = disk["logs"] + 1
       /\ \A f \in File \ {"logs"} : disk'[f] = disk[f]
  BY <1>10, Files DEF FailStages
<1>12. disk'["logs"] <= Cardinality(Past') /\ disk'["logs"] \in 0..Cardinality(Run)
  BY <1>8, <1>9, <1>10, <1>11, PastCounts DEF Typed
<1>13. Holds(disk')
  BY <1>10, <1>11, <1>12, Contents DEF Holds
<1>14. strays' \subseteq Stage
  <2>1. Head(run[r].todo) \in Stage /\ strays \subseteq Stage
    BY <1>1, TailTyped DEF Proc, Typed, TypeOK
  <2>2. strays' = strays \/ strays' = strays \cup {Head(run[r].todo)}
    BY DEF FailStages
  <2> QED
    BY <2>1, <2>2
<1>15. TypeOK'
  BY <1>3, <1>6, <1>13, <1>14 DEF TypeOK, Proc, Typed, FailStages
<1> QED
  BY <1>6, <1>12, <1>15 DEF Typed

LEMMA WorkTyped ==
  ASSUME Typed, IInv, NEW r \in Run,
         \/ SkipStage(r) \/ BeginStage(r) \/ WriteOutput(r) \/ FinishStage(r)
         \/ StagesDone(r) \/ Shred(r)
  PROVE  Typed'
<1>1. /\ Shaped /\ run[r].read = 0
      /\ run[r].at \in {"stages", "running", "shred"}
      /\ run[r].at = "running" => run[r].todo # <<>>
      /\ Proc(run[r])
  BY TypeParts DEF IInv, Own, SkipStage, BeginStage, WriteOutput, FinishStage,
     StagesDone, Shred, Working, Typed
<1>2. code' \in BOOLEAN /\ token' \in Run \cup {NoRun} /\ strays' \subseteq Stage
      /\ kills' \in 0..MaxKills
  BY DEF Typed, TypeOK, SkipStage, BeginStage, WriteOutput, FinishStage,
         StagesDone, Shred
<1>3. run[r].todo # <<>> => Head(run[r].todo) \in Stage
                            /\ Tail(run[r].todo) \in Seq(Stage)
                            /\ Len(Tail(run[r].todo)) <= Len(Plan)
  BY <1>1, TailTyped DEF Proc
<1>4. Grows
  BY <1>1, <1>3 DEF Grows, SkipStage, BeginStage, WriteOutput, FinishStage,
         StagesDone, Shred
<1>5. CASE BeginStage(r) \/ StagesDone(r) \/ Shred(r)
  <2>1. PICK step \in {"running", "shred", "collect"} :
          Goto(r, step) /\ (run[r].at \in Spent => step \in Spent)
    BY <1>5 DEF BeginStage, StagesDone, Shred, Spent, Archived
  <2> QED
    BY <2>1, <1>1, <1>2, <1>4, GotoTyped DEF Steps
<1>6. CASE WriteOutput(r)
  BY <1>1, <1>2, <1>4, <1>6, MoveTyped DEF WriteOutput, Shaped, Typed
<1>7. CASE SkipStage(r) \/ FinishStage(r)
  <2>1. run[r].todo # <<>> /\ run[r].at \notin Spent
    BY <1>1, <1>7 DEF SkipStage, FinishStage, Spent, Archived
  <2>2. run' = [run EXCEPT ![r].at = "stages", ![r].todo = Tail(run[r].todo)]
        \/ run' = [run EXCEPT ![r].todo = Tail(run[r].todo)]
    BY <1>7 DEF SkipStage, FinishStage
  <2>3. /\ DOMAIN run' = Run /\ \A q \in Run \ {r} : run'[q] = run[q]
        /\ run'[r].at \in {run[r].at, "stages"} /\ run'[r].todo = Tail(run[r].todo)
        /\ run'[r].verb = run[r].verb /\ run'[r].of = run[r].of
        /\ run'[r].read = run[r].read /\ run'[r].held = run[r].held
        /\ run'[r].named = run[r].named /\ run'[r].got = run[r].got
        /\ run'[r].exit = run[r].exit /\ run'[r].shared = run[r].shared
        /\ run'[r].name = run[r].name /\ run'[r].failed = run[r].failed
        /\ run'[r].torn = run[r].torn
    <3>1. CASE run' = [run EXCEPT ![r].at = "stages", ![r].todo = Tail(run[r].todo)]
      BY <1>1, <3>1 DEF Shaped, Unstarted
    <3>2. CASE run' = [run EXCEPT ![r].todo = Tail(run[r].todo)]
      BY <1>1, <3>2 DEF Shaped, Unstarted
    <3> QED
      BY <2>2, <3>1, <3>2
  <2>4. Proc(run'[r])
    BY <1>1, <1>3, <2>1, <2>3 DEF Proc, Steps
  <2>5. Reads(run'[r]) /\ Idle(run'[r])
    BY <1>1, <2>3, Files DEF Reads, Idle
  <2> QED
    BY <1>2, <1>4, <2>1, <2>3, <2>4, <2>5, MoveTyped
<1> QED
  BY <1>5, <1>6, <1>7

(* The step of a pass over the files that keeps its process alive. *)
LEMMA Advances ==
  ASSUME Typed, NEW r \in Run, run[r].at \in {"collect", "compare"}
  PROVE  /\ At(r) \in File
         /\ run[r].read \in Nat /\ run[r].read < Len(FileOrder)
         /\ ~LastFile(r) => run[r].read + 1 < Len(FileOrder)
         /\ \A n : n = (IF LastFile(r) THEN 0 ELSE run[r].read + 1) =>
              n \in 0..Len(FileOrder)
<1>1. run[r].read \in 0..Len(FileOrder) /\ run[r].read < Len(FileOrder)
  BY TypeParts DEF Typed, Proc, Reads
<1>2. run[r].read + 1 \in 1..Len(FileOrder)
  BY <1>1, Files
<1> QED
  BY <1>1, <1>2, Files DEF At, LastFile

LEMMA ArchiveTyped ==
  ASSUME Typed, IInv, NEW r \in Run,
         \/ Collect(r) \/ Contract(r) \/ Compare(r) \/ Deliver(r) \/ Finish(r)
  PROVE  Typed'
<1>1. /\ Shaped /\ Proc(run[r]) /\ run[r].at \in Spent
      /\ run[r].at \notin {"collect", "compare"} => run[r].read = 0
      /\ Holds(disk)
  BY TypeParts DEF IInv, Typed, TypeOK, Idle, Collect, Contract, Compare, Deliver,
     Finish, Spent, Archived
<1>2. code' \in BOOLEAN /\ token' \in Run \cup {NoRun} /\ strays' \subseteq Stage
      /\ kills' \in 0..MaxKills /\ disk' = disk
  BY DEF Typed, TypeOK, Collect, Contract, Compare, Deliver, Finish
<1>3. Grows
  BY <1>2 DEF Grows
<1>4. ASSUME NEW exit, Ends(r, exit), exit \in {"ok", "failed"} PROVE Typed'
  BY <1>1, <1>2, <1>4, EndTyped
<1>5. CASE Collect(r)
  <2> DEFINE f == At(r)
             step == IF LastFile(r) THEN "contract" ELSE "collect"
             n == IF LastFile(r) THEN 0 ELSE run[r].read + 1
             b == LastFile(r) /\ \E g \in File \ {At(r)} : run[r].held[g] # disk[g]
  <2>1. run' = [run EXCEPT ![r] = [run[r] EXCEPT !.held[f] = disk[f], !.at = step,
                                                !.read = n, !.torn = b]]
    BY <1>5 DEF Collect
  <2>2. f \in File /\ n \in 0..Len(FileOrder) /\ b \in BOOLEAN
        /\ step \in {"contract", "collect"}
        /\ (step = "collect" => n < Len(FileOrder))
        /\ (step = "contract" => n = 0)
    BY <1>5, Advances DEF Collect
  <2> HIDE DEF f, step, n, b
  <2>3. /\ DOMAIN run' = Run /\ \A q \in Run \ {r} : run'[q] = run[q]
        /\ run'[r] = [run[r] EXCEPT !.held[f] = disk[f], !.at = step,
                                    !.read = n, !.torn = b]
    BY <2>1, <1>1 DEF Shaped
  <2>4. /\ run'[r].at = step /\ run'[r].todo = run[r].todo
        /\ run'[r].verb = run[r].verb /\ run'[r].of = run[r].of
        /\ run'[r].read = n /\ run'[r].held = [run[r].held EXCEPT ![f] = disk[f]]
        /\ run'[r].named = run[r].named /\ run'[r].got = run[r].got
        /\ run'[r].exit = run[r].exit /\ run'[r].shared = run[r].shared
        /\ run'[r].name = run[r].name /\ run'[r].failed = run[r].failed
        /\ run'[r].torn = b
    BY <2>3, <1>1 DEF Shaped, Unstarted
  <2>5. Holds(run'[r].held)
    BY <2>2, <2>4, <1>1 DEF Proc, Holds
  <2>6. Proc(run'[r])
    BY <2>2, <2>4, <2>5, <1>1 DEF Proc, Steps
  <2>7. Reads(run'[r]) /\ Idle(run'[r]) /\ run'[r].at \in Spent
    BY <2>2, <2>4 DEF Reads, Idle, Spent, Archived
  <2> QED
    BY <1>2, <1>3, <2>3, <2>6, <2>7, MoveTyped
<1>6. CASE Contract(r)
  <2>1. CASE Goto(r, "compare")
    <3>1. run[r].read = 0
      BY <1>1, <1>6 DEF Contract
    <3> QED
      BY <2>1, <3>1, <1>1, <1>2, <1>3, GotoTyped DEF Steps, Spent, Archived
  <2> QED
    BY <1>4, <1>6, <2>1 DEF Contract, Undelivered
<1>7. CASE Compare(r)
  <2> DEFINE step == IF LastFile(r) THEN "deliver" ELSE "compare"
             n == IF LastFile(r) THEN 0 ELSE run[r].read + 1
             j == IF LastFile(r) THEN disk["job"] ELSE run[r].named
  <2>1. CASE run' = [run EXCEPT ![r] = [run[r] EXCEPT !.at = step, !.read = n,
                                                     !.named = j]]
    <3>1. /\ n \in 0..Len(FileOrder) /\ step \in {"deliver", "compare"}
          /\ step = "compare" => n < Len(FileOrder)
          /\ step = "deliver" => n = 0
          /\ j \in Jobs \cup {NoJob}
      BY <1>1, <1>7, Advances, TypeParts DEF Compare, Typed, Proc
    <3> HIDE DEF step, n, j
    <3>2. /\ DOMAIN run' = Run /\ \A q \in Run \ {r} : run'[q] = run[q]
          /\ run'[r] = [run[r] EXCEPT !.at = step, !.read = n, !.named = j]
      BY <2>1, <1>1 DEF Shaped
    <3>3. /\ run'[r].at = step /\ run'[r].todo = run[r].todo
          /\ run'[r].verb = run[r].verb /\ run'[r].of = run[r].of
          /\ run'[r].read = n /\ run'[r].held = run[r].held
          /\ run'[r].named = j /\ run'[r].got = run[r].got
          /\ run'[r].exit = run[r].exit /\ run'[r].shared = run[r].shared
          /\ run'[r].name = run[r].name /\ run'[r].failed = run[r].failed
          /\ run'[r].torn = run[r].torn
      BY <3>2, <1>1 DEF Shaped, Unstarted
    <3>4. Proc(run'[r])
      BY <3>1, <3>3, <1>1 DEF Proc, Steps
    <3>5. Reads(run'[r]) /\ Idle(run'[r]) /\ run'[r].at \in Spent
      BY <3>1, <3>3 DEF Reads, Idle, Spent, Archived
    <3> QED
      BY <1>2, <1>3, <3>2, <3>4, <3>5, MoveTyped
  <2> QED
    BY <1>4, <1>7, <2>1 DEF Compare, Undelivered
<1>8. CASE Deliver(r)
  <2>1. PICK takers \in SUBSET Sinks :
          run' = [run EXCEPT ![r].at = "delivered", ![r].got = takers]
    BY <1>8 DEF Deliver
  <2>2. run[r].read = 0
    BY <1>1, <1>8 DEF Deliver
  <2>3. /\ DOMAIN run' = Run /\ \A q \in Run \ {r} : run'[q] = run[q]
        /\ run'[r] = [run[r] EXCEPT !.at = "delivered", !.got = takers]
    BY <2>1, <1>1 DEF Shaped
  <2>4. /\ run'[r].at = "delivered" /\ run'[r].todo = run[r].todo
        /\ run'[r].verb = run[r].verb /\ run'[r].of = run[r].of
        /\ run'[r].read = run[r].read /\ run'[r].held = run[r].held
        /\ run'[r].named = run[r].named /\ run'[r].got = takers
        /\ run'[r].exit = run[r].exit /\ run'[r].shared = run[r].shared
        /\ run'[r].name = run[r].name /\ run'[r].failed = run[r].failed
        /\ run'[r].torn = run[r].torn
    BY <2>3, <1>1 DEF Shaped, Unstarted
  <2>5. Proc(run'[r])
    BY <2>4, <1>1 DEF Proc, Steps
  <2>6. Reads(run'[r]) /\ Idle(run'[r]) /\ run'[r].at \in Spent
    BY <2>2, <2>4 DEF Reads, Idle, Spent, Archived
  <2> QED
    BY <1>2, <1>3, <2>3, <2>5, <2>6, MoveTyped
<1>9. CASE Finish(r)
  BY <1>9, <1>4 DEF Finish
<1> QED
  BY <1>5, <1>6, <1>7, <1>8, <1>9


(* Another process starts: to this one it is company. *)
LEMMA Joined ==
  ASSUME Typed, Shaped, NEW q \in Run,
         run'[q] = [run[q] EXCEPT !.shared = run[q].shared \/ Alive(q)]
  PROVE  /\ DOMAIN run'[q] = DOMAIN Unstarted /\ Proc(run'[q])
         /\ run'[q].at = run[q].at /\ run'[q].todo = run[q].todo
         /\ run'[q].verb = run[q].verb /\ run'[q].of = run[q].of
         /\ run'[q].read = run[q].read /\ run'[q].held = run[q].held
         /\ run'[q].named = run[q].named /\ run'[q].got = run[q].got
         /\ run'[q].exit = run[q].exit
         /\ run'[q].name = run[q].name /\ run'[q].failed = run[q].failed
         /\ run'[q].torn = run[q].torn
<1> DEFINE b == run[q].shared \/ Alive(q)
<1>1. b \in BOOLEAN /\ run'[q] = [run[q] EXCEPT !.shared = b] /\ Proc(run[q])
  BY TypeParts DEF Typed
<1> HIDE DEF b
<1>2. /\ DOMAIN run'[q] = DOMAIN Unstarted
      /\ run'[q].at = run[q].at /\ run'[q].todo = run[q].todo
      /\ run'[q].verb = run[q].verb /\ run'[q].of = run[q].of
      /\ run'[q].read = run[q].read /\ run'[q].held = run[q].held
      /\ run'[q].named = run[q].named /\ run'[q].got = run[q].got
      /\ run'[q].exit = run[q].exit
      /\ run'[q].name = run[q].name /\ run'[q].failed = run[q].failed
      /\ run'[q].torn = run[q].torn /\ run'[q].shared = b
  BY <1>1 DEF Shaped, Unstarted
<1>3. Proc(run'[q])
  BY <1>1, <1>2 DEF Proc
<1> QED
  BY <1>2, <1>3

LEMMA StartTyped ==
  ASSUME Typed, Shaped, NEW r \in Run, Start(r)
  PROVE  Typed'
<1>1. /\ run[r].at = "idle" /\ disk' = disk /\ code' = code /\ token' = token
      /\ strays' = strays /\ kills' = kills
      /\ DOMAIN run' = Run /\ Fresh(run'[r])
      /\ \A q \in Run \ {r} :
           run'[q] = [run[q] EXCEPT !.shared = run[q].shared \/ Alive(q)]
  BY StartMoves
<1>2. \A q \in Run \ {r} : Proc(run'[q]) /\ run'[q].at = run[q].at /\ run'[q].read = run[q].read
  BY <1>1, Joined
<1>3. \A q \in Run : Proc(run'[q]) /\ Reads(run'[q]) /\ Idle(run'[q])
  BY <1>1, <1>2 DEF Typed, Reads, Idle, Fresh
<1>4. TypeOK'
  BY <1>1, <1>3 DEF TypeOK, Proc, Typed
<1>5. Past \subseteq Past'
  BY <1>1, <1>2 DEF Past, Spent, Archived
<1>6. Cardinality(Past) <= Cardinality(Past') /\ Cardinality(Past') \in Nat
  <2>1. Past' \subseteq Run
    BY DEF Past
  <2> QED
    BY <2>1, <1>5, FS_Subset, FS_CardinalityType, ContainerRunAssumption
<1>7. disk["logs"] \in Nat
  BY TypeParts DEF Typed
<1> QED
  BY <1>1, <1>3, <1>4, <1>6, <1>7, PastCounts DEF Typed

LEMMA KillTyped ==
  ASSUME Typed, IInv, NEW r \in Run, Kill(r)
  PROVE  Typed'
<1>1. strays' \subseteq Stage
  <2>1. run[r].at = "running" => Head(run[r].todo) \in Stage
    BY TailTyped, TypeParts DEF Typed, Proc, IInv, Own
  <2>2. strays' = strays \/ (run[r].at = "running" /\ strays' = strays \cup {Head(run[r].todo)})
    BY DEF Kill
  <2> QED
    BY <2>1, <2>2 DEF Typed, TypeOK
<1>2. kills' \in 0..MaxKills
  BY ContainerRunAssumption DEF Kill, Typed, TypeOK
<1>3. code' \in BOOLEAN /\ token' \in Run \cup {NoRun} /\ disk' = disk
  BY DEF Kill, Typed, TypeOK
<1> QED
  BY <1>1, <1>2, <1>3, EndTyped DEF Kill, IInv

LEMMA StraggleTyped ==
  ASSUME Typed, IInv, NEW s \in Stage, Straggle(s)
  PROVE  Typed'
<1>1. /\ run' = run /\ code' = code /\ token' = token /\ kills' = kills
      /\ strays' \subseteq Stage
  BY DEF Straggle, Typed, TypeOK
<1>2. Grows
  BY DEF Straggle, Grows
<1>3. Holds(disk') /\ disk'["logs"] = disk["logs"]
  BY <1>2, GrowsHolds DEF Typed
<1> QED
  BY <1>1, <1>3 DEF Typed, TypeOK, Past

LEMMA WipeTyped ==
  ASSUME Typed, IInv, Wipe
  PROVE  Typed'
<1>1. /\ run' = run /\ code' = FALSE /\ token' = NoRun /\ kills' = kills
      /\ strays' = strays /\ disk' = Empty
  BY DEF Wipe
<1>2. TypeOK'
  BY <1>1, EmptyHolds DEF Typed, TypeOK
<1> QED
  BY <1>1, <1>2, EmptyHolds, PastCounts DEF Typed, Past

LEMMA TypedStep == Typed /\ IInv /\ [Next]_vars => Typed'
<1> SUFFICES ASSUME Typed, IInv, [Next]_vars PROVE Typed'
  OBVIOUS
<1>1. CASE \E r \in Run : Invocation(r)
  BY <1>1, StartTyped, AdmissionTyped, WorkTyped, FailTyped, ArchiveTyped
     DEF Invocation, IInv
<1>2. CASE \E r \in Run : Kill(r)
  BY <1>2, KillTyped
<1>3. CASE \E s \in Stage : Straggle(s)
  BY <1>3, StraggleTyped
<1>4. CASE Wipe
  BY <1>4, WipeTyped
<1>5. CASE UNCHANGED vars
  BY <1>5 DEF vars, Typed, TypeOK, Past
<1> QED
  BY <1>1, <1>2, <1>3, <1>4, <1>5 DEF Next

LEMMA TypedAlways == Spec => []Typed
<1>1. Init => Typed
  BY InitTyped
<1>2. Typed /\ IInv /\ [Next]_vars => Typed'
  BY TypedStep
<1> QED
  BY <1>1, <1>2, Inductive, PTL DEF Spec

(* Every process, every file of the root and every file an invocation holds *)
(* is of its type: the log has at most one line per invocation.             *)
THEOREM TypeCorrect == Spec => []TypeOK
<1>1. Typed => TypeOK
  BY DEF Typed
<1> QED
  BY <1>1, TypedAlways, PTL

-----------------------------------------------------------------------------
(* The two passes.  What a pass has read is still on disk, or has been      *)
(* overtaken for good: outputs and the log only grow, and the job document  *)
(* is replaced at most once more, by the one measurement that found the     *)
(* root empty.  So an archive that was torn is found out by the comparison. *)

Target(p) == IF p.verb = "stage" THEN p.name ELSE Last(Plan)

Reading(p) == p.at \in {"collect"} \cup Archived
Entered(p) == p.at \in {"synced"} \cup Working \cup {"collect"} \cup Archived

Measures(p) == Entered(p) /\ p.verb = "measure"

(* A measurement has yet to write its job. *)
Pending == \E q \in Run : run[q].verb = "measure" /\ run[q].at = "synced"

Seen(p) == IF p.at = "collect" THEN {FileOrder[i] : i \in 1..p.read}
           ELSE IF p.at \in Archived THEN File ELSE {}

Unread(p) == IF p.at = "contract" THEN File
             ELSE IF p.at = "compare"
             THEN {FileOrder[i] : i \in (p.read + 1)..Len(FileOrder)} ELSE {}

Grown(a, b) == a.v <= b.v /\ (a.done => b.done)

Later(p) ==
  /\ \A s \in Stage : s \in Seen(p) => Grown(p.held[s], disk[s])
  /\ "logs" \in Seen(p) => p.held["logs"] <= disk["logs"]
  /\ "job" \in Seen(p) => p.held["job"] = disk["job"] \/ ~Pending
  /\ p.at \in Archived /\ p.torn => \E f \in Unread(p) : p.held[f] # disk[f]
  /\ p.at \in {"compare", "deliver", "delivered"} /\ p.failed = "no" =>
       /\ disk[Target(p)].done
       /\ Target(p) \notin Unread(p) => p.held[Target(p)].done

Whole ==
  /\ \A r \in Run : Entered(run[r]) => code
  /\ \A r, q \in Run : (Measures(run[r]) /\ Measures(run[q])) => r = q
  /\ \A r \in Run : Alive(r) => run[r].of \in Jobs
  /\ \A r \in Run : Entered(run[r]) /\ run[r].at # "synced" => disk["job"] # NoJob
  /\ \A r \in Run : Later(run[r])

(* What no step takes back while a reader is at work. *)
Onward ==
  /\ \A s \in Stage : Grown(disk[s], disk'[s])
  /\ disk["logs"] <= disk'["logs"]
  /\ disk'["job"] = disk["job"] \/ (Pending /\ ~Pending')
  /\ Pending' => Pending

LEMMA UnreadIsFile ==
  ASSUME NEW p, Proc(p)
  PROVE  Unread(p) \subseteq File /\ Seen(p) \subseteq File
<1>1. p.read \in 0..Len(FileOrder) /\ Len(FileOrder) \in Nat
  BY Files DEF Proc
<1> QED
  BY <1>1, Files DEF Unread, Seen

LEMMA LaterKept ==
  ASSUME Typed, Typed', Whole, NEW q \in Run, Reading(run[q]) => Onward,
         run'[q].at = run[q].at, run'[q].verb = run[q].verb,
         run'[q].read = run[q].read, run'[q].held = run[q].held,
         run'[q].name = run[q].name, run'[q].failed = run[q].failed,
         run'[q].torn = run[q].torn
  PROVE  Later(run[q])'
<1>1. Later(run[q]) /\ Proc(run[q])
  BY TypeParts DEF Whole, Typed
<1>2. /\ Seen(run[q])' = Seen(run[q]) /\ Unread(run[q])' = Unread(run[q])
      /\ Target(run[q])' = Target(run[q])
  BY DEF Seen, Unread, Target
<1>3. CASE ~Reading(run[q])
  <2>1. Seen(run[q])' = {} /\ run'[q].at \notin Archived
    BY <1>3, <1>2 DEF Reading, Seen
  <2> QED
    BY <2>1, JobIsNoStage DEF Later, Archived
<1>4. CASE Reading(run[q])
  <2>1. Onward
    BY <1>4
  <2>2. /\ \A s \in Stage : disk[s] \in Output /\ disk'[s] \in Output /\ run[q].held[s] \in Output
        /\ disk["logs"] \in Nat /\ disk'["logs"] \in Nat /\ run[q].held["logs"] \in Nat
    <3>1. /\ \A s \in Stage : disk[s] \in Output
          /\ disk["logs"] \in Nat
      BY TypeParts DEF Typed
    <3>2. Holds(disk') /\ Holds(run[q].held)
      BY <1>1 DEF Proc, Typed, TypeOK
    <3>3. \A h : Holds(h) => h["logs"] \in Nat /\ \A s \in Stage : h[s] \in Output
      <4> SUFFICES ASSUME NEW h, Holds(h)
                   PROVE  h["logs"] \in Nat /\ \A s \in Stage : h[s] \in Output
        OBVIOUS
      <4>1. \A f \in File : h[f] \in Content(f)
        BY DEF Holds
      <4>2. h["logs"] \in Content("logs") /\ \A s \in Stage : h[s] \in Content(s)
        BY <4>1, Files
      <4> QED
        BY <4>2, Contents, PastCounts
    <3> QED
      BY <3>1, <3>2, <3>3
  <2>3. \A s \in Stage : s \in Seen(run[q]) => Grown(run[q].held[s], disk[s]) /\ Grown(disk[s], disk'[s])
    BY <1>1, <2>1 DEF Later, Onward
  <2>4. ASSUME NEW s \in Stage, s \in Seen(run[q])
        PROVE  /\ Grown(run[q].held[s], disk'[s])
               /\ run[q].held[s] # disk[s] => run[q].held[s] # disk'[s]
    <3>1. /\ run[q].held[s] = [v |-> run[q].held[s].v, done |-> run[q].held[s].done]
          /\ disk[s] = [v |-> disk[s].v, done |-> disk[s].done]
          /\ run[q].held[s].v \in 0..MaxWrites /\ disk[s].v \in 0..MaxWrites
          /\ disk'[s].v \in 0..MaxWrites
          /\ run[q].held[s].done \in BOOLEAN /\ disk[s].done \in BOOLEAN
      BY <2>2 DEF Output
    <3>2. Grown(run[q].held[s], disk[s]) /\ Grown(disk[s], disk'[s])
      BY <2>3, <2>4
    <3>3. Grown(run[q].held[s], disk'[s])
      BY <3>1, <3>2, ContainerRunAssumption DEF Grown
    <3>4. ASSUME run[q].held[s] = disk'[s] PROVE run[q].held[s] = disk[s]
      <4>1. run[q].held[s].v <= disk[s].v /\ disk[s].v <= run[q].held[s].v
        BY <3>2, <3>4 DEF Grown
      <4>2. run[q].held[s].v = disk[s].v
        BY <4>1, <3>1, ContainerRunAssumption
      <4>3. run[q].held[s].done = disk[s].done
        BY <3>1, <3>2, <3>4 DEF Grown
      <4> QED
        BY <4>2, <4>3, <3>1
    <3> QED
      BY <3>3, <3>4
  <2>5. "logs" \in Seen(run[q]) =>
          /\ run[q].held["logs"] <= disk'["logs"]
          /\ run[q].held["logs"] # disk["logs"] => run[q].held["logs"] # disk'["logs"]
    BY <1>1, <2>1, <2>2 DEF Later, Onward
  <2>6. "job" \in Seen(run[q]) =>
          /\ run[q].held["job"] = disk'["job"] \/ ~Pending'
          /\ run[q].held["job"] # disk["job"] => run[q].held["job"] # disk'["job"]
    BY <1>1, <2>1 DEF Later, Onward
  <2>7. run[q].at \in Archived => Seen(run[q]) = File
    BY DEF Seen, Archived
  <2>8. run[q].at \in Archived /\ run[q].torn =>
          \E f \in Unread(run[q]) : run[q].held[f] # disk'[f]
    <3> SUFFICES ASSUME run[q].at \in Archived, run[q].torn
                 PROVE  \E f \in Unread(run[q]) : run[q].held[f] # disk'[f]
      OBVIOUS
    <3>1. PICK f \in Unread(run[q]) : run[q].held[f] # disk[f]
      BY <1>1 DEF Later
    <3>2. f \in File /\ f \in Seen(run[q])
      BY <1>1, <2>7, UnreadIsFile
    <3>3. run[q].held[f] # disk'[f]
      BY <3>1, <3>2, <2>4, <2>5, <2>6, Files
    <3> QED
      BY <3>1, <3>3
  <2>9. run[q].at \in {"compare", "deliver", "delivered"} /\ run[q].failed = "no" =>
       /\ disk'[Target(run[q])].done
       /\ Target(run[q]) \notin Unread(run[q]) => run[q].held[Target(run[q])].done
    <3>1. Target(run[q]) \in Stage
      BY <1>1, LastIsStage DEF Target, Proc
    <3> QED
      BY <3>1, <1>1, <2>1 DEF Later, Onward, Grown
  <2> QED
    BY <1>2, <2>4, <2>5, <2>6, <2>8, <2>9 DEF Later
<1> QED
  BY <1>3, <1>4

LEMMA LaterIdle ==
  ASSUME NEW r \in Run, run'[r].at \notin {"collect"} \cup Archived
  PROVE  Later(run[r])'
<1>1. Seen(run[r])' = {}
  BY DEF Seen
<1> QED
  BY <1>1, JobIsNoStage DEF Later, Archived

(* A step of one process keeps the others' archives whole. *)
LEMMA MoveWhole ==
  ASSUME Typed, Typed', Whole, NEW r \in Run,
         \A q \in Run \ {r} : run'[q] = run[q],
         code => code', Entered(run'[r]) => code',
         Measures(run'[r]) => Measures(run[r]) \/ \A q \in Run : ~Entered(run[q]),
         Alive(r)' => run'[r].of \in Jobs,
         disk["job"] # NoJob => disk'["job"] # NoJob,
         Entered(run'[r]) /\ run'[r].at # "synced" => disk'["job"] # NoJob,
         (\E q \in Run \ {r} : Reading(run[q])) => Onward,
         Later(run[r])'
  PROVE  Whole'
<1>1. \A q \in Run : Entered(run'[q]) => code'
  BY DEF Whole
<1>2. \A p, q \in Run : (Measures(run'[p]) /\ Measures(run'[q])) => p = q
  <2>1. ASSUME NEW q \in Run \ {r}, Measures(run'[q]), Measures(run'[r])
        PROVE  FALSE
    <3>1. Measures(run[q]) /\ Entered(run[q])
      BY <2>1 DEF Measures
    <3>2. Measures(run[r])
      BY <2>1, <3>1
    <3> QED
      BY <3>1, <3>2 DEF Whole
  <2>2. \A p, q \in Run \ {r} : (Measures(run'[p]) /\ Measures(run'[q])) => p = q
    BY DEF Whole
  <2> QED
    BY <2>1, <2>2
<1>3. \A q \in Run : Alive(q)' => run'[q].of \in Jobs
  BY DEF Whole, Alive
<1>4. \A q \in Run : Entered(run'[q]) /\ run'[q].at # "synced" => disk'["job"] # NoJob
  BY DEF Whole
<1>5. \A q \in Run \ {r} : Later(run[q])'
  BY LaterKept
<1> QED
  BY <1>1, <1>2, <1>3, <1>4, <1>5 DEF Whole, Entered, Measures

(* Outputs and the log grow; while nothing else is written, nothing is      *)
(* overtaken.                                                               *)
LEMMA GrowingOnward ==
  ASSUME Typed, disk'["job"] = disk["job"], Pending' => Pending,
         \/ \A f \in File : disk'[f] = disk[f]
         \/ disk' = [disk EXCEPT !["logs"] = disk["logs"] + 1]
         \/ \E s \in Stage : disk' = Written(s) \/ disk' = Marked(s)
  PROVE  Onward
<1>1. /\ DOMAIN disk = File /\ disk["logs"] \in Nat
      /\ \A s \in Stage : /\ disk[s].v \in Nat /\ disk[s].done \in BOOLEAN
                          /\ DOMAIN disk[s] = {"v", "done"}
                          /\ s \in File /\ s # "logs"
      /\ "logs" \in File
  BY TypeParts, Files, JobIsNoStage, ContainerRunAssumption DEF Typed, Output
<1>2. CASE \A f \in File : disk'[f] = disk[f]
  BY <1>1, <1>2 DEF Onward, Grown
<1>3. CASE disk' = [disk EXCEPT !["logs"] = disk["logs"] + 1]
  BY <1>1, <1>3 DEF Onward, Grown
<1>4. ASSUME NEW s \in Stage, disk' = Written(s) PROVE Onward
  <2>1. /\ disk'[s].v = disk[s].v + 1 /\ disk'[s].done = disk[s].done
        /\ \A f \in File \ {s} : disk'[f] = disk[f]
    BY <1>1, <1>4 DEF Written
  <2> QED
    BY <2>1, <1>1 DEF Onward, Grown
<1>5. ASSUME NEW s \in Stage, disk' = Marked(s) PROVE Onward
  <2>1. /\ disk'[s].v = disk[s].v /\ disk'[s].done = TRUE
        /\ \A f \in File \ {s} : disk'[f] = disk[f]
    BY <1>1, <1>5 DEF Marked
  <2> QED
    BY <2>1, <1>1 DEF Onward, Grown
<1> QED
  BY <1>2, <1>3, <1>4, <1>5

(* A process that ends. *)
LEMMA EndWhole ==
  ASSUME Typed, Typed', Whole, Shaped, NEW r \in Run, NEW exit, Ends(r, exit),
         disk' = disk, code => code'
  PROVE  Whole'
<1>1. /\ \A q \in Run \ {r} : run'[q] = run[q]
      /\ run'[r].at = "end"
  BY EndsMoves
<1>2. ~Entered(run'[r]) /\ ~Alive(r)' /\ ~Reading(run'[r])
  BY <1>1 DEF Entered, Alive, Working, Archived, Reading
<1>3. Later(run[r])'
  BY <1>2, LaterIdle DEF Reading
<1>4. Pending' => Pending
  BY <1>1 DEF Pending
<1>5. Onward
  BY <1>4, GrowingOnward
<1> QED
  BY <1>1, <1>2, <1>3, <1>5, MoveWhole DEF Measures

LEMMA AdmissionWhole ==
  ASSUME Typed, Typed', Whole, IInv, NEW r \in Run,
         Clear(r) \/ SyncSuite(r) \/ RefuseOccupied(r) \/ InstallJob(r)
           \/ InstallToken(r)
  PROVE  Whole'
<1>1. Shaped /\ run[r].of \in Jobs /\ NoJob \notin Jobs
  BY ContainerRunAssumption DEF IInv, Whole, Alive, Clear, SyncSuite, RefuseOccupied,
     InstallJob, InstallToken
<1>2. CASE \/ SyncSuite(r) /\ Ends(r, "refused")
           \/ RefuseOccupied(r)
           \/ InstallToken(r) /\ Ends(r, "failed")
  BY <1>1, <1>2, EndWhole DEF SyncSuite, RefuseOccupied, InstallToken
<1>3. ASSUME NEW step \in {"cleared", "synced", "installed", "stages"}, Goto(r, step)
      PROVE  /\ \A q \in Run \ {r} : run'[q] = run[q]
             /\ run'[r].at = step /\ run'[r].of = run[r].of
             /\ run'[r].verb = run[r].verb
             /\ Later(run[r])'
             /\ Alive(r)' => run'[r].of \in Jobs
             /\ step # "synced" => (Pending' => Pending)
  BY <1>1, <1>3, GotoMoves, LaterIdle DEF Archived, Pending
<1>4. CASE Clear(r) /\ Goto(r, "cleared")
  <2>1. Onward
    BY <1>3, <1>4, GrowingOnward DEF Clear
  <2> QED
    BY <2>1, <1>3, <1>4, MoveWhole DEF Clear, Entered, Measures, Working, Archived
<1>5. CASE SyncSuite(r) /\ Goto(r, "synced")
  <2>1. (\E q \in Run \ {r} : Reading(run[q])) => Onward
    <3> SUFFICES ASSUME NEW q \in Run \ {r}, Reading(run[q]) PROVE Onward
      OBVIOUS
    <3>1. code
      BY DEF Whole, Entered, Reading
    <3>2. run[r].verb = "stage"
      BY <1>5, <3>1, TypeParts DEF SyncSuite, Occupied, Typed, Proc
    <3>3. Pending' => Pending
      BY <1>3, <1>5, <3>2 DEF Pending
    <3> QED
      BY <3>3, <1>5, GrowingOnward DEF SyncSuite
  <2>2. run[r].verb = "measure" => \A q \in Run : ~Entered(run[q])
    BY <1>5 DEF SyncSuite, Occupied, Whole
  <2> QED
    BY <2>1, <2>2, <1>3, <1>5, MoveWhole DEF SyncSuite, Measures
<1>6. CASE InstallJob(r) /\ Goto(r, "installed")
  <2>1. /\ run[r].at = "synced" /\ Entered(run[r]) /\ code' = code /\ code
        /\ disk' = [disk EXCEPT !["job"] = IF run[r].verb = "stage" /\ disk["job"] # NoJob
                                           THEN disk["job"] ELSE run[r].of]
    BY <1>6 DEF InstallJob, Entered, Whole
  <2>2. DOMAIN disk = File /\ "job" \in File
    BY TypeParts, Files DEF Typed
  <2>3. disk'["job"] # NoJob
    BY <2>1, <2>2, <1>1
  <2>4. (\E q \in Run \ {r} : Reading(run[q])) => Onward
    <3> SUFFICES ASSUME NEW q \in Run \ {r}, Reading(run[q]) PROVE Onward
      OBVIOUS
    <3>1. disk["job"] # NoJob
      BY DEF Whole, Entered, Reading, Archived
    <3>2. CASE run[r].verb = "stage"
      <4>1. \A f \in File : disk'[f] = disk[f]
        BY <3>1, <3>2, <2>1, <2>2
      <4> QED
        BY <4>1, <2>2, <1>3, <1>6, GrowingOnward
    <3>3. CASE run[r].verb = "measure"
      <4>1. Pending
        BY <3>3, <2>1 DEF Pending
      <4>2. ~Pending'
        BY <3>3, <2>1, <1>3, <1>6 DEF Pending, Whole, Entered, Measures
      <4>3. \A f \in File \ {"job"} : disk'[f] = disk[f]
        BY <2>1, <2>2
      <4>4. /\ disk["logs"] \in Nat /\ "logs" \in File
            /\ \A s \in Stage : disk[s].v \in Nat /\ s \in File /\ s # "job"
        BY TypeParts, Files, JobIsNoStage, ContainerRunAssumption DEF Typed, Output
      <4> QED
        BY <4>1, <4>2, <4>3, <4>4 DEF Onward, Grown
    <3> QED
      BY <3>2, <3>3, TypeParts DEF Typed, Proc
  <2> QED
    BY <2>1, <2>3, <2>4, <1>3, <1>6, MoveWhole DEF Measures
<1>7. CASE InstallToken(r) /\ Goto(r, "stages")
  <2>1. Onward
    BY <1>3, <1>7, GrowingOnward DEF InstallToken
  <2>2. Entered(run[r]) /\ run[r].at # "synced" /\ disk' = disk /\ code' = code
    BY <1>7 DEF InstallToken, Entered, Working
  <2> QED
    BY <2>1, <2>2, <1>3, <1>7, MoveWhole DEF Whole, Measures
<1> QED
  BY <1>2, <1>4, <1>5, <1>6, <1>7 DEF Clear, SyncSuite, RefuseOccupied, InstallJob,
     InstallToken

LEMMA WorkWhole ==
  ASSUME Typed, Typed', Whole, IInv, NEW r \in Run,
         \/ SkipStage(r) \/ BeginStage(r) \/ WriteOutput(r) \/ FinishStage(r)
         \/ FailStages(r) \/ StagesDone(r) \/ Shred(r)
  PROVE  Whole'
<1>1. /\ Shaped /\ run[r].of \in Jobs /\ Entered(run[r]) /\ run[r].at # "synced"
      /\ run[r].at = "running" => run[r].todo # <<>>
      /\ code' = code
  BY DEF IInv, Own, Whole, Alive, Entered, Working, SkipStage, BeginStage,
     WriteOutput, FinishStage, FailStages, StagesDone, Shred
<1>2. /\ \A q \in Run \ {r} : run'[q] = run[q]
      /\ run'[r].at \in {"stages", "running", "shred", "collect"}
      /\ run'[r].verb = run[r].verb /\ run'[r].of = run[r].of
      /\ run'[r].at = "collect" => run'[r].read = 0
  <2>1. run[r].read = 0 /\ run[r].at \in {"stages", "running", "shred"}
    BY DEF IInv, Own, Working, SkipStage, BeginStage, WriteOutput, FinishStage,
       FailStages, StagesDone, Shred
  <2>2. CASE BeginStage(r) \/ StagesDone(r) \/ Shred(r)
    BY <2>1, <2>2, <1>1, GotoMoves DEF BeginStage, StagesDone, Shred
  <2>3. CASE SkipStage(r)
    BY <2>1, <2>3, <1>1 DEF SkipStage, Shaped, Unstarted
  <2>4. CASE WriteOutput(r)
    BY <2>1, <2>4 DEF WriteOutput
  <2>5. CASE FinishStage(r)
    BY <2>1, <2>5, <1>1 DEF FinishStage, Shaped, Unstarted
  <2>6. CASE FailStages(r)
    <3>1. PICK how \in {"stage", "exception"} :
            run' = [run EXCEPT ![r].at = "shred", ![r].failed = how]
      BY <2>6 DEF FailStages
    <3> QED
      BY <2>1, <3>1, <1>1 DEF Shaped, Unstarted
  <2> QED
    BY <2>2, <2>3, <2>4, <2>5, <2>6
<1>3. \/ disk' = disk
      \/ disk' = [disk EXCEPT !["logs"] = disk["logs"] + 1]
      \/ \E s \in Stage : disk' = Written(s) \/ disk' = Marked(s)
  <2>1. CASE WriteOutput(r) \/ FinishStage(r)
    <3>1. Head(run[r].todo) \in Stage
      BY <2>1, <1>1, TailTyped, TypeParts DEF WriteOutput, FinishStage, Typed, Proc
    <3> QED
      BY <2>1, <3>1 DEF WriteOutput, FinishStage
  <2> QED
    BY <2>1 DEF SkipStage, BeginStage, FailStages, StagesDone, Shred
<1>4. disk'["job"] = disk["job"]
  <2>1. "job" \in DOMAIN disk
    BY <1>1 DEF Shaped
  <2> QED
    BY <1>3, <2>1, JobIsNoStage DEF Written, Marked
<1>5. Pending' => Pending
  BY <1>2 DEF Pending
<1>6. Onward
  BY <1>3, <1>4, <1>5, GrowingOnward
<1>7. Later(run[r])'
  <2>1. CASE run'[r].at = "collect"
    <3>1. run'[r].read = 0 /\ Seen(run[r])' = {FileOrder[i] : i \in 1..0}
      BY <1>2, <2>1 DEF Seen
    <3>2. Seen(run[r])' = {}
      BY <3>1
    <3> QED
      BY <2>1, <3>2, JobIsNoStage DEF Later, Archived
  <2>2. CASE run'[r].at # "collect"
    BY <2>2, <1>2, LaterIdle DEF Archived
  <2> QED
    BY <2>1, <2>2
<1>8. disk["job"] # NoJob
  BY <1>1 DEF Whole
<1> QED
  BY <1>1, <1>2, <1>4, <1>6, <1>7, <1>8, MoveWhole DEF Whole, Measures

LEMMA StartWhole ==
  ASSUME Typed, Typed', Whole, Shaped, NEW r \in Run, Start(r)
  PROVE  Whole'
<1>1. /\ run[r].at = "idle" /\ disk' = disk /\ code' = code
      /\ Fresh(run'[r])
      /\ \A q \in Run \ {r} :
           run'[q] = [run[q] EXCEPT !.shared = run[q].shared \/ Alive(q)]
  BY StartMoves
<1>2. ASSUME NEW q \in Run \ {r}
      PROVE  /\ run'[q].at = run[q].at /\ run'[q].verb = run[q].verb
             /\ run'[q].of = run[q].of
             /\ run'[q].read = run[q].read /\ run'[q].held = run[q].held
             /\ run'[q].name = run[q].name /\ run'[q].failed = run[q].failed
             /\ run'[q].torn = run[q].torn
  BY <1>1, Joined
<1>3. ~Entered(run'[r]) /\ ~Reading(run'[r]) /\ (Alive(r)' => run'[r].of \in Jobs)
  BY <1>1 DEF Fresh, Entered, Working, Archived, Reading, Alive
<1>4. Pending' => Pending
  BY <1>1, <1>2 DEF Pending, Fresh
<1>5. Onward
  BY <1>1, <1>4, GrowingOnward
<1>6. \A q \in Run \ {r} : Later(run[q])'
  BY <1>2, <1>5, LaterKept
<1>7. Later(run[r])'
  BY <1>3, LaterIdle DEF Reading
<1>8. \A q \in Run : Entered(run'[q]) => q # r /\ Entered(run[q])
                                         /\ run'[q].at = run[q].at
                                         /\ run'[q].verb = run[q].verb
  BY <1>2, <1>3 DEF Entered
<1>9. \A q \in Run : Alive(q)' => run'[q].of \in Jobs
  BY <1>2, <1>3 DEF Whole, Alive
<1>10. /\ \A q \in Run : Entered(run'[q]) => code'
       /\ \A q \in Run : Entered(run'[q]) /\ run'[q].at # "synced" => disk'["job"] # NoJob
  BY <1>1, <1>8 DEF Whole
<1>11. \A p, q \in Run : (Measures(run'[p]) /\ Measures(run'[q])) => p = q
  BY <1>8 DEF Whole, Measures
<1> QED
  BY <1>6, <1>7, <1>9, <1>10, <1>11 DEF Whole, Entered, Measures

LEMMA StraggleWhole ==
  ASSUME Typed, Typed', Whole, NEW s \in Stage, Straggle(s)
  PROVE  Whole'
<1>1. run' = run /\ code' = code
  BY DEF Straggle
<1>2. disk' = disk \/ disk' = Written(s) \/ disk' = Marked(s)
  BY DEF Straggle
<1>3. disk'["job"] = disk["job"]
  <2>1. "job" \in DOMAIN disk
    BY TypeParts, Files DEF Typed
  <2> QED
    BY <1>2, <2>1, JobIsNoStage DEF Written, Marked
<1>4. Pending' => Pending
  BY <1>1 DEF Pending
<1>5. Onward
  BY <1>2, <1>3, <1>4, GrowingOnward
<1>6. \A q \in Run : Later(run[q])'
  BY <1>1, <1>5, LaterKept
<1> QED
  BY <1>1, <1>3, <1>6 DEF Whole, Entered, Alive, Measures

LEMMA WipeWhole ==
  ASSUME Whole, Wipe
  PROVE  Whole'
<1>1. run' = run /\ \A r \in Run : ~Alive(r)
  BY DEF Wipe, Living
<1>2. \A r \in Run : ~Entered(run'[r]) /\ ~Alive(r)' /\ run'[r].at \notin {"collect"} \cup Archived
  BY <1>1 DEF Alive, Entered, Measures, Working, Archived
<1>3. \A q \in Run : Later(run[q])'
  BY <1>2, LaterIdle
<1>4. \A r \in Run : ~Entered(run[r])'
  BY <1>2 DEF Entered
<1> QED
  BY <1>2, <1>3, <1>4 DEF Whole, Measures

(* A pass over the files. *)
LEMMA ArchiveWhole ==
  ASSUME Typed, Typed', Whole, IInv, NEW r \in Run,
         \/ Collect(r) \/ Contract(r) \/ Compare(r) \/ Deliver(r) \/ Finish(r)
  PROVE  Whole'
<1>1. /\ Shaped /\ Proc(run[r]) /\ Entered(run[r]) /\ run[r].at # "synced"
      /\ run[r].of \in Jobs /\ disk["job"] # NoJob
      /\ code' = code /\ disk' = disk /\ Later(run[r])
  BY TypeParts DEF IInv, Typed, Whole, Entered, Alive, Archived, Collect, Contract,
     Compare, Deliver, Finish
<1>2. ASSUME NEW exit, Ends(r, exit) PROVE Whole'
  BY <1>1, <1>2, EndWhole
<1>3. ASSUME \A q \in Run \ {r} : run'[q] = run[q],
             run'[r].at \in {"collect"} \cup Archived,
             run'[r].verb = run[r].verb, run'[r].of = run[r].of,
             Later(run[r])'
      PROVE  Whole'
  <2>1. Pending' => Pending
    BY <1>3 DEF Pending, Archived
  <2>2. Onward
    BY <1>1, <2>1, GrowingOnward
  <2> QED
    BY <1>1, <1>3, <2>2, MoveWhole DEF Whole, Measures
<1>4. CASE Collect(r)
  <2> DEFINE f == At(r)
             step == IF LastFile(r) THEN "contract" ELSE "collect"
             n == IF LastFile(r) THEN 0 ELSE run[r].read + 1
             b == LastFile(r) /\ \E g \in File \ {At(r)} : run[r].held[g] # disk[g]
  <2>1. run' = [run EXCEPT ![r] = [run[r] EXCEPT !.held[f] = disk[f], !.at = step,
                                                !.read = n, !.torn = b]]
    BY <1>4 DEF Collect
  <2>2. /\ f \in File /\ step \in {"contract", "collect"}
        /\ step = "contract" => /\ run[r].read + 1 = Len(FileOrder)
                                /\ b => \E g \in File \ {f} : run[r].held[g] # disk[g]
        /\ step = "collect" => n = run[r].read + 1
        /\ f = FileOrder[run[r].read + 1] /\ run[r].read \in Nat
        /\ run[r].at = "collect"
    BY <1>4, Advances DEF Collect, LastFile, At
  <2> HIDE DEF f, step, n, b
  <2>3. \A q \in Run \ {r} : run'[q] = run[q]
    BY <2>1, <1>1 DEF Shaped
  <2>4. run'[r] = [run[r] EXCEPT !.held[f] = disk[f], !.at = step,
                                 !.read = n, !.torn = b]
    BY <2>1, <1>1 DEF Shaped
  <2>5. /\ run'[r].at = step /\ run'[r].read = n /\ run'[r].torn = b
        /\ run'[r].verb = run[r].verb /\ run'[r].of = run[r].of
        /\ run'[r].held = [run[r].held EXCEPT ![f] = disk[f]]
    BY <2>4, <1>1 DEF Shaped, Unstarted
  <2>6. DOMAIN run[r].held = File
    BY <1>1 DEF Proc, Holds
  <2>7. /\ run'[r].held[f] = disk[f]
        /\ \A g \in File \ {f} : run'[r].held[g] = run[r].held[g]
    BY <2>5, <2>6, <2>2
  <2>8. \A g \in Seen(run[r])' : g = f \/ g \in Seen(run[r])
    <3>1. Seen(run[r]) = {FileOrder[i] : i \in 1..run[r].read}
      BY <2>2 DEF Seen
    <3>2. \A i \in 1..(run[r].read + 1) : i \in 1..run[r].read \/ i = run[r].read + 1
      BY <2>2
    <3>3. \A i \in 1..(run[r].read + 1) : FileOrder[i] = f \/ FileOrder[i] \in Seen(run[r])
      BY <2>2, <3>1, <3>2
    <3>4. CASE step = "collect"
      BY <3>3, <3>4, <2>2, <2>5 DEF Seen
    <3>5. CASE step = "contract"
      <4>1. \A g \in File : \E i \in 1..(run[r].read + 1) : FileOrder[i] = g
        BY <3>5, <2>2, Files
      <4>2. Seen(run[r])' = File
        BY <3>5, <2>5 DEF Seen, Archived
      <4> QED
        BY <3>3, <4>1, <4>2
    <3> QED
      BY <3>4, <3>5, <2>2
  <2>9. /\ \A s \in Stage : disk[s].v \in Nat /\ s \in File /\ s # "job" /\ s # "logs"
        /\ disk["logs"] \in Nat /\ "logs" \in File /\ "job" \in File
    BY TypeParts, Files, JobIsNoStage, ContainerRunAssumption DEF Typed, Output
  <2>10. Pending' => Pending
    BY <2>2, <2>3, <2>5 DEF Pending
  <2>11. \A s \in Stage : s \in Seen(run[r])' => Grown(run'[r].held[s], disk[s])
    BY <2>7, <2>8, <2>9, <1>1 DEF Later, Grown
  <2>12. "logs" \in Seen(run[r])' => run'[r].held["logs"] <= disk["logs"]
    BY <2>7, <2>8, <2>9, <1>1 DEF Later
  <2>13. "job" \in Seen(run[r])' => run'[r].held["job"] = disk["job"] \/ ~Pending'
    BY <2>7, <2>8, <2>9, <2>10, <1>1 DEF Later
  <2>14. run'[r].at \in Archived /\ run'[r].torn =>
           \E g \in Unread(run[r])' : run'[r].held[g] # disk[g]
    BY <2>2, <2>5, <2>7 DEF Archived, Unread
  <2>15. run'[r].at \notin {"compare", "deliver", "delivered"}
    BY <2>2, <2>5
  <2>16. Later(run[r])'
    BY <2>11, <2>12, <2>13, <2>14, <2>15, <1>1 DEF Later
  <2> QED
    BY <1>3, <2>2, <2>3, <2>5, <2>16 DEF Archived
<1>5. CASE Contract(r)
  <2>1. CASE Goto(r, "compare")
    <3>1. /\ \A q \in Run \ {r} : run'[q] = run[q]
          /\ run'[r] = [run[r] EXCEPT !.at = "compare"]
      BY <2>1, <1>1 DEF Goto, Shaped
    <3>2. /\ run'[r].at = "compare" /\ run'[r].verb = run[r].verb
          /\ run'[r].of = run[r].of /\ run'[r].held = run[r].held
          /\ run'[r].read = 0 /\ run'[r].name = run[r].name
          /\ run'[r].failed = run[r].failed /\ run'[r].torn = run[r].torn
          /\ run[r].at = "contract"
      <4>1. run[r].read = 0 /\ run[r].at = "contract"
        BY <1>5 DEF Contract, Typed, Idle
      <4> QED
        BY <3>1, <4>1, <1>1 DEF Shaped, Unstarted
    <3>3. Seen(run[r])' = File /\ Seen(run[r]) = File /\ Unread(run[r]) = File
      BY <3>2 DEF Seen, Unread, Archived
    <3>4. Unread(run[r])' = File
      <4>1. Unread(run[r])' = {FileOrder[i] : i \in 1..Len(FileOrder)}
        BY <3>2 DEF Unread
      <4> QED
        BY <4>1, Files
    <3>5. Pending' => Pending
      BY <3>1, <3>2 DEF Pending
    <3>6. run[r].failed = "no" => disk[Target(run[r])].done /\ Target(run[r])' = Target(run[r])
      BY <1>5, <1>1, <3>2, EndsMoves, <2>1 DEF Contract, Sealed, Target, Proc, Undelivered
    <3>7. Target(run[r]) \in File
      BY <1>1, LastIsStage, Files DEF Target, Proc
    <3>8. Later(run[r])'
      BY <1>1, <3>2, <3>3, <3>4, <3>5, <3>6, <3>7 DEF Later, Archived
    <3> QED
      BY <1>3, <3>1, <3>2, <3>8 DEF Archived
  <2> QED
    BY <1>2, <1>5, <2>1 DEF Contract, Undelivered
<1>6. CASE Compare(r)
  <2> DEFINE step == IF LastFile(r) THEN "deliver" ELSE "compare"
             n == IF LastFile(r) THEN 0 ELSE run[r].read + 1
             j == IF LastFile(r) THEN disk["job"] ELSE run[r].named
  <2>1. CASE /\ run' = [run EXCEPT ![r] = [run[r] EXCEPT !.at = step, !.read = n,
                                                        !.named = j]]
             /\ disk[At(r)] = run[r].held[At(r)]
    <3>1. /\ step \in {"deliver", "compare"}
          /\ step = "compare" => n = run[r].read + 1
          /\ step = "deliver" => run[r].read + 1 = Len(FileOrder)
          /\ run[r].at = "compare" /\ run[r].read \in Nat
      BY <1>6, Advances DEF Compare, LastFile
    <3> HIDE DEF step, n, j
    <3>2. /\ \A q \in Run \ {r} : run'[q] = run[q]
          /\ run'[r] = [run[r] EXCEPT !.at = step, !.read = n, !.named = j]
      BY <2>1, <1>1 DEF Shaped
    <3>3. /\ run'[r].at = step /\ run'[r].verb = run[r].verb
          /\ run'[r].of = run[r].of /\ run'[r].held = run[r].held
          /\ run'[r].read = n /\ run'[r].name = run[r].name
          /\ run'[r].failed = run[r].failed /\ run'[r].torn = run[r].torn
      BY <3>2, <1>1 DEF Shaped, Unstarted
    <3>4. Seen(run[r])' = File /\ Seen(run[r]) = File
      BY <3>1, <3>3 DEF Seen, Archived
    <3>5. Unread(run[r]) = {FileOrder[i] : i \in (run[r].read + 1)..Len(FileOrder)}
      BY <3>1 DEF Unread
    <3>6. \A g \in Unread(run[r]) : g = At(r) \/ g \in Unread(run[r])'
      <4>1. \A i \in (run[r].read + 1)..Len(FileOrder) :
              i = run[r].read + 1 \/ i \in (run[r].read + 2)..Len(FileOrder)
        BY <3>1, Files
      <4>2. CASE step = "compare"
        <5>1. Unread(run[r])' = {FileOrder[i] : i \in (run[r].read + 2)..Len(FileOrder)}
          BY <3>1, <3>3, <4>2 DEF Unread
        <5> QED
          BY <4>1, <5>1, <3>5 DEF At
      <4>3. CASE step = "deliver"
        <5>1. \A i \in (run[r].read + 1)..Len(FileOrder) : i = run[r].read + 1
          BY <3>1, <4>3, Files
        <5> QED
          BY <5>1, <3>5 DEF At
      <4> QED
        BY <4>2, <4>3, <3>1
    <3>7. Pending' => Pending
      BY <3>1, <3>2, <3>3 DEF Pending
    <3>8. Target(run[r])' = Target(run[r])
      BY <3>3 DEF Target
    <3>9. run[r].torn => \E g \in Unread(run[r])' : run[r].held[g] # disk[g]
      <4>1. run[r].at \in Archived
        BY <3>1 DEF Archived
      <4> QED
        BY <4>1, <3>6, <2>1, <1>1 DEF Later
    <3>10. run[r].failed = "no" =>
             /\ disk[Target(run[r])].done
             /\ Target(run[r]) \notin Unread(run[r])' => run[r].held[Target(run[r])].done
      BY <3>1, <3>6, <2>1, <1>1 DEF Later
    <3>11. Later(run[r])'
      BY <1>1, <3>1, <3>3, <3>4, <3>7, <3>8, <3>9, <3>10 DEF Later, Archived
    <3> QED
      BY <1>3, <3>1, <3>2, <3>3, <3>11 DEF Archived
  <2> QED
    BY <1>2, <1>6, <2>1 DEF Compare, Undelivered
<1>7. CASE Deliver(r)
  <2>1. PICK takers \in SUBSET Sinks :
          run' = [run EXCEPT ![r].at = "delivered", ![r].got = takers]
    BY <1>7 DEF Deliver
  <2>2. /\ \A q \in Run \ {r} : run'[q] = run[q]
        /\ run'[r] = [run[r] EXCEPT !.at = "delivered", !.got = takers]
    BY <2>1, <1>1 DEF Shaped
  <2>3. /\ run'[r].at = "delivered" /\ run'[r].verb = run[r].verb
        /\ run'[r].of = run[r].of /\ run'[r].held = run[r].held
        /\ run'[r].name = run[r].name
        /\ run'[r].failed = run[r].failed /\ run'[r].torn = run[r].torn
        /\ run[r].at = "deliver"
    BY <2>2, <1>1, <1>7 DEF Shaped, Unstarted, Deliver
  <2>4. /\ Seen(run[r])' = File /\ Seen(run[r]) = File
        /\ Unread(run[r])' = {} /\ Unread(run[r]) = {}
        /\ Target(run[r])' = Target(run[r])
    BY <2>3 DEF Seen, Unread, Archived, Target
  <2>5. Pending' => Pending
    BY <2>2, <2>3 DEF Pending
  <2>6. Later(run[r])'
    BY <1>1, <2>3, <2>4, <2>5 DEF Later, Archived
  <2> QED
    BY <1>3, <2>2, <2>3, <2>6 DEF Archived
<1>8. CASE Finish(r)
  BY <1>8, <1>2 DEF Finish
<1> QED
  BY <1>4, <1>5, <1>6, <1>7, <1>8

LEMMA InitWhole == Init => Whole
<1> SUFFICES ASSUME Init PROVE Whole
  OBVIOUS
<1>1. \A r \in Run : run[r].at = "idle"
  BY DEF Init, Unstarted
<1>2. \A r \in Run : /\ ~Entered(run[r]) /\ ~Alive(r) /\ run[r].at \notin Archived
                     /\ Seen(run[r]) = {}
  BY <1>1 DEF Entered, Alive, Working, Archived, Seen
<1>3. \A r \in Run : Later(run[r])
  BY <1>1, <1>2, JobIsNoStage DEF Later
<1> QED
  BY <1>2, <1>3 DEF Whole, Measures

LEMMA WholeStep == Typed /\ Typed' /\ IInv /\ Whole /\ [Next]_vars => Whole'
<1> SUFFICES ASSUME Typed, Typed', IInv, Whole, [Next]_vars PROVE Whole'
  OBVIOUS
<1>1. CASE \E r \in Run : Invocation(r)
  BY <1>1, StartWhole, AdmissionWhole, WorkWhole, ArchiveWhole DEF Invocation, IInv
<1>2. CASE \E r \in Run : Kill(r)
  BY <1>2, EndWhole DEF Kill, IInv
<1>3. CASE \E s \in Stage : Straggle(s)
  BY <1>3, StraggleWhole
<1>4. CASE Wipe
  BY <1>4, WipeWhole
<1>5. CASE UNCHANGED vars
  <2>1. \A r \in Run : Later(run[r])'
    <3>1. Pending' = Pending
      BY <1>5 DEF vars, Pending
    <3>2. Onward
      BY <1>5, <3>1, GrowingOnward DEF vars
    <3> QED
      BY <1>5, <3>2, LaterKept DEF vars
  <2> QED
    BY <1>5, <2>1 DEF vars, Whole, Measures, Entered, Alive
<1> QED
  BY <1>1, <1>2, <1>3, <1>4, <1>5 DEF Next

LEMMA WholeAlways == Spec => [](Typed /\ IInv /\ Whole)
<1>1. Init => Whole
  BY InitWhole
<1>2. Typed /\ Typed' /\ IInv /\ Whole /\ [Next]_vars => Whole'
  BY WholeStep
<1> QED
  BY <1>1, <1>2, Inductive, TypedAlways, PTL DEF Spec

(* build_summary and _archive_parts together: whatever other invocations,   *)
(* and the scripts of dead ones, write meanwhile, an archive that reaches a *)
(* sink is one state of the root.  No file comes back to what it was: the   *)
(* outputs and the log only grow, and only one measurement can replace the  *)
(* job document under a reader.                                             *)
THEOREM ArchivesAreSnapshots == Spec => []ArchiveIsSnapshot
<1>1. Whole => ArchiveIsSnapshot
  <2> SUFFICES ASSUME Whole, NEW r \in Run, run[r].at = "deliver", run[r].torn
               PROVE  FALSE
    BY DEF ArchiveIsSnapshot
  <2>1. Unread(run[r]) = {} /\ Later(run[r])
    BY DEF Unread, Whole
  <2> QED
    BY <2>1 DEF Later, Archived
<1> QED
  BY <1>1, WholeAlways, PTL

(* The only step to exit code 0 is that of an invocation that has delivered.*)
LEMMA OnlyFinish ==
  ASSUME Typed, IInv, [Next]_vars, NEW r \in Run, EndsOk(r)
  PROVE  Finish(r) /\ run[r].failed = "no" /\ run[r].got = Sinks
<1>1. Shaped
  BY DEF IInv
<1>2. PICK q \in Run : Invocation(q) \/ Kill(q)
  BY DEF Next, vars, EndsOk, Straggle, Wipe
<1>3. ~Start(q)
  <2> SUFFICES ASSUME Start(q) PROVE FALSE
    OBVIOUS
  <2>1. CASE q = r
    BY <2>1, <1>1, StartMoves DEF EndsOk, Fresh
  <2>2. CASE q # r
    BY <2>2, <1>1, StartMoves, Joined DEF EndsOk
  <2> QED
    BY <2>1, <2>2
<1>4. ASSUME NEW exit, Ends(q, exit) PROVE q = r /\ exit = "ok"
  BY <1>1, <1>4, EndsMoves DEF EndsOk
<1>5. ASSUME NEW step, Goto(q, step) PROVE FALSE
  BY <1>1, <1>5, GotoMoves DEF EndsOk
<1>6. ~Kill(q)
  BY <1>4 DEF Kill
<1>7. ~(Clear(q) \/ SyncSuite(q) \/ RefuseOccupied(q) \/ InstallJob(q) \/ InstallToken(q))
  BY <1>4, <1>5 DEF Clear, SyncSuite, RefuseOccupied, InstallJob, InstallToken
<1>8. ~(BeginStage(q) \/ StagesDone(q) \/ Shred(q) \/ Contract(q))
  BY <1>4, <1>5 DEF BeginStage, StagesDone, Shred, Contract, Undelivered
<1>9. ~(SkipStage(q) \/ WriteOutput(q) \/ FinishStage(q))
  <2>1. ~SkipStage(q)
    BY <1>1 DEF SkipStage, EndsOk, Shaped, Unstarted
  <2>2. ~WriteOutput(q)
    BY DEF WriteOutput, EndsOk
  <2>3. ~FinishStage(q)
    BY <1>1 DEF FinishStage, EndsOk, Shaped, Unstarted
  <2> QED
    BY <2>1, <2>2, <2>3
<1>10. ~FailStages(q)
  <2> SUFFICES ASSUME FailStages(q) PROVE FALSE
    OBVIOUS
  <2>1. PICK how \in {"stage", "exception"} :
          run' = [run EXCEPT ![q].at = "shred", ![q].failed = how]
    BY DEF FailStages
  <2> QED
    BY <2>1, <1>1 DEF EndsOk, Shaped, Unstarted
<1>11. ~Collect(q)
  <2> SUFFICES ASSUME Collect(q) PROVE FALSE
    OBVIOUS
  <2> DEFINE h == [run[q].held EXCEPT ![At(q)] = disk[At(q)]]
             step == IF LastFile(q) THEN "contract" ELSE "collect"
             n == IF LastFile(q) THEN 0 ELSE run[q].read + 1
             b == LastFile(q) /\ \E g \in File \ {At(q)} : run[q].held[g] # disk[g]
  <2>1. run' = [run EXCEPT ![q] = [run[q] EXCEPT !.held = h, !.at = step,
                                                !.read = n, !.torn = b]]
    BY DEF Collect
  <2> HIDE DEF h, step, n, b
  <2> QED
    BY <2>1, <1>1 DEF EndsOk, Shaped, Unstarted
<1>12. ~Compare(q)
  <2> SUFFICES ASSUME Compare(q) PROVE FALSE
    OBVIOUS
  <2> DEFINE step == IF LastFile(q) THEN "deliver" ELSE "compare"
             n == IF LastFile(q) THEN 0 ELSE run[q].read + 1
             j == IF LastFile(q) THEN disk["job"] ELSE run[q].named
  <2>1. run' = [run EXCEPT ![q] = [run[q] EXCEPT !.at = step, !.read = n, !.named = j]]
    BY <1>4 DEF Compare, Undelivered
  <2> HIDE DEF step, n, j
  <2> QED
    BY <2>1, <1>1 DEF EndsOk, Shaped, Unstarted
<1>13. ~Deliver(q)
  BY <1>1 DEF Deliver, EndsOk, Shaped, Unstarted
<1>14. Finish(q)
  BY <1>2, <1>3, <1>6, <1>7, <1>8, <1>9, <1>10, <1>11, <1>12, <1>13 DEF Invocation
<1>15. q = r /\ (IF run[q].failed = "no" /\ run[q].got = Sinks
                 THEN "ok" ELSE "failed") = "ok"
  BY <1>4, <1>14 DEF Finish
<1> QED
  BY <1>14, <1>15

(* _finish_delivery and _role_contract together: exit code 0 is given only  *)
(* when every sink has the archive and the marker that completes the stage, *)
(* or the sealed receipt that completes the measurement, is inside it.      *)
THEOREM SuccessIsDelivered == Spec => OkIsDelivered
<1>1. Typed /\ IInv /\ Whole /\ [Next]_vars =>
        [\A r \in Run : EndsOk(r) =>
          /\ run[r].got = Sinks /\ run[r].failed = "no"
          /\ IF run[r].verb = "stage" THEN run[r].held[run[r].name].done
                                      ELSE run[r].held[Last(Plan)].done]_vars
  <2> SUFFICES ASSUME Typed, IInv, Whole, [Next]_vars, NEW r \in Run, EndsOk(r)
               PROVE  /\ run[r].got = Sinks /\ run[r].failed = "no"
                      /\ IF run[r].verb = "stage" THEN run[r].held[run[r].name].done
                                                  ELSE run[r].held[Last(Plan)].done
    OBVIOUS
  <2>1. Finish(r) /\ run[r].failed = "no" /\ run[r].got = Sinks
    BY OnlyFinish
  <2>2. Later(run[r]) /\ run[r].at = "delivered" /\ Unread(run[r]) = {}
    BY <2>1 DEF Whole, Finish, Unread
  <2>3. run[r].held[Target(run[r])].done
    BY <2>1, <2>2 DEF Later
  <2> QED
    BY <2>1, <2>3 DEF Target
<1> QED
  BY <1>1, WholeAlways, PTL DEF OkIsDelivered, Spec
=============================================================================
