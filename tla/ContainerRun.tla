---------------------------- MODULE ContainerRun ----------------------------
(***************************************************************************)
(* bin/container_entry.py and bin/fidelity/resultsink.py: invocations of   *)
(* the container's `measure` and `stage` verbs on one run root that        *)
(* outlives them (a bind mount).  An invocation admits its job, installs   *)
(* the token, runs stages, and delivers an archive of the root, which is   *)
(* read twice, file by file, while anything may still write to it:         *)
(* another invocation, or the stage script of a dead one.                  *)
(***************************************************************************)
EXTENDS Naturals, Sequences, SequencesExt, FiniteSets

CONSTANTS
  Run,        \* invocations
  NoRun,      \* the owner of a token that is not there
  Jobs, NoJob,
  Plan,       \* the stages of a job, in order; the last seals the receipt
  Sinks,      \* the result sinks every invocation is asked to use
  MaxAlive,   \* bound: invocations alive at a time
  MaxWrites,  \* bound: writes of one stage's output
  MaxKills    \* bound: invocations killed

ASSUME ContainerRunAssumption ==
  /\ IsFiniteSet(Run) /\ NoRun \notin Run /\ NoJob \notin Jobs
  /\ Plan \in Seq(STRING) /\ Len(Plan) > 0 /\ IsInjective(Plan)
  /\ {"job", "logs"} \cap Range(Plan) = {}
  /\ MaxAlive \in Nat /\ MaxWrites \in Nat /\ MaxKills \in Nat

VARIABLES
  disk,   \* [File -> its content]: everything an archive can hold
  code,   \* the baked suite has been copied into the root
  token,  \* the invocation whose .secrets/hf_token is on disk
  strays, \* stages whose script still runs though its driver is gone
  run,    \* [Run -> the process]
  kills

vars == <<disk, code, token, strays, run, kills>>

Stage == Range(Plan)

(* The deliverable files in the order of their paths.  "logs" counts the    *)
(* lines of container-entry.log; a stage's file stands for its reports and  *)
(* receipts: how often it was written, and whether its marker is there.     *)
FileOrder == <<"job", "logs">> \o Plan
File == Range(FileOrder)

Output == [v : 0..MaxWrites, done : BOOLEAN]
Content(f) == CASE f = "job" -> Jobs \cup {NoJob}
                [] f = "logs" -> 0..Cardinality(Run)
                [] OTHER -> Output

Empty == [f \in File |-> CASE f = "job" -> NoJob
                           [] f = "logs" -> 0
                           [] OTHER -> [v |-> 0, done |-> FALSE]]

(* at: the next step.  verb: "measure" also stands for "capture".  todo:    *)
(* stages left; name: the stage of `stage NAME`.  of: the job it validated. *)
(* failed: how.  read: how many files the present pass has read, and held:  *)
(* their contents.  named: the job in the archive's manifest.  got: sinks   *)
(* that took the archive.  exit: the exit code.  Not in the code: shared    *)
(* (another invocation was alive beside it) and torn (what the first pass   *)
(* read was not on disk when it ended).                                     *)
Steps == {"idle", "admitted", "cleared", "synced", "installed",
          "stages", "running", "shred", "collect", "contract", "compare",
          "deliver", "delivered", "end"}

Unstarted ==
  [at |-> "idle", verb |-> "measure", todo |-> <<>>, name |-> Plan[1],
   of |-> NoJob, failed |-> "no",
   read |-> 0, held |-> Empty, named |-> NoJob, torn |-> FALSE,
   got |-> {}, exit |-> "none", shared |-> FALSE]

Holds(held) == DOMAIN held = File /\ \A f \in File : held[f] \in Content(f)

TypeOK ==
  /\ Holds(disk)
  /\ code \in BOOLEAN /\ token \in Run \cup {NoRun}
  /\ strays \subseteq Stage
  /\ DOMAIN run = Run
  /\ \A r \in Run :
       /\ run[r].at \in Steps /\ run[r].verb \in {"measure", "stage"}
       /\ run[r].todo \in Seq(Stage) /\ Len(run[r].todo) <= Len(Plan)
       /\ run[r].name \in Stage
       /\ {run[r].of, run[r].named} \subseteq Jobs \cup {NoJob}
       /\ run[r].failed \in {"no", "stage", "exception"}
       /\ run[r].read \in 0..Len(FileOrder)
       /\ Holds(run[r].held) /\ run[r].torn \in BOOLEAN
       /\ run[r].got \subseteq Sinks
       /\ run[r].exit \in {"none", "ok", "failed", "refused", "killed"}
       /\ run[r].shared \in BOOLEAN
  /\ kills \in 0..MaxKills

-----------------------------------------------------------------------------

Alive(r) == run[r].at \notin {"idle", "end"}
Living   == {r \in Run : Alive(r)}

Goto(r, step) == run' = [run EXCEPT ![r].at = step]

(* A process leaves its exit code, and what it wrote.                       *)
Ends(r, exit) ==
  run' = [run EXCEPT ![r] = [Unstarted EXCEPT !.at = "end", !.exit = exit]]

(* The lock of a stage that another invocation is running.  What a dead     *)
(* driver left running may hold the lock or have lost it: BeginStage and    *)
(* FailStages leave both open.                                              *)
Locked(s) == \E r \in Run : run[r].at = "running" /\ Head(run[r].todo) = s

(* Bug: a resume does not look at the job that is there.                    *)
PrevalidateAny(r, j) == TRUE

(* _prevalidate_stage_job: a resume's job is the one on disk, byte for byte,*)
(* or there is none yet.                                                    *)
Prevalidate(r, j) == disk["job"] \in {NoJob, j}

(* The command line: `stage NAME`, or `measure`, possibly --stop-after.     *)
Start(r) ==
  /\ run[r].at = "idle" /\ Cardinality(Living) < MaxAlive
  /\ \E j \in Jobs :
     \/ \E s \in Stage :
          run' = [q \in Run |->
            IF q = r
            THEN [Unstarted EXCEPT
                    !.at = IF Prevalidate(r, j) THEN "admitted" ELSE "end",
                    !.exit = IF Prevalidate(r, j) THEN "none" ELSE "refused",
                    !.verb = "stage", !.todo = <<s>>, !.name = s, !.of = j,
                    !.shared = Living # {}]
            ELSE [run[q] EXCEPT !.shared = @ \/ Alive(q)]]
     \/ \E k \in 1..Len(Plan) :
          run' = [q \in Run |->
            IF q = r
            THEN [Unstarted EXCEPT
                    !.at = "admitted", !.verb = "measure",
                    !.todo = SubSeq(Plan, 1, k), !.of = j,
                    !.shared = Living # {}]
            ELSE [run[q] EXCEPT !.shared = @ \/ Alive(q)]]
  /\ UNCHANGED <<disk, code, token, strays, kills>>

(* clear_stale_token, before anything of the job is believed.               *)
Clear(r) ==
  /\ run[r].at = "admitted"
  /\ token' = NoRun
  /\ Goto(r, "cleared")
  /\ UNCHANGED <<disk, code, strays, kills>>

(* require_fresh_job_root: measure and capture start in an empty root, an   *)
(* empty secret directory aside.  Then sync_suite, which makes it non-empty;*)
(* job_document, the sinks or the accelerator may still refuse.             *)
Occupied == code \/ disk # Empty \/ token # NoRun

SyncSuite(r) ==
  /\ run[r].at = "cleared"
  /\ run[r].verb = "measure" => ~Occupied
  /\ code' = TRUE
  /\ Goto(r, "synced") \/ Ends(r, "refused")
  /\ UNCHANGED <<disk, token, strays, kills>>

RefuseOccupied(r) ==
  /\ run[r].at = "cleared" /\ run[r].verb = "measure" /\ Occupied
  /\ Ends(r, "refused")
  /\ UNCHANGED <<disk, code, token, strays, kills>>

(* measure writes its new job; a resume installs one only where none is.    *)
InstallJob(r) ==
  /\ run[r].at = "synced"
  /\ disk' = [disk EXCEPT !["job"] = IF run[r].verb = "stage" /\ @ # NoJob
                                     THEN @ ELSE run[r].of]
  /\ Goto(r, "installed")
  /\ UNCHANGED <<code, token, strays, kills>>

(* write_token: clears, then creates exclusively if a token was given.  If  *)
(* that fails the path is cleared again and the exception ends the run.     *)
InstallToken(r) ==
  /\ run[r].at = "installed"
  /\ \/ token' \in {r, NoRun} /\ Goto(r, "stages")
     \/ token' = NoRun /\ Ends(r, "failed")
  /\ UNCHANGED <<disk, code, strays, kills>>

-----------------------------------------------------------------------------
(* run_stage.  What stage_measure.sh does is StageRun; here a marked stage  *)
(* is skipped, a stage that runs already is refused by its lock, and a      *)
(* stage that runs writes its output and then its marker.                   *)

SkipStage(r) ==
  /\ run[r].at = "stages" /\ run[r].todo # <<>>
  /\ disk[Head(run[r].todo)].done
  /\ run' = [run EXCEPT ![r].todo = Tail(@)]
  /\ UNCHANGED <<disk, code, token, strays, kills>>

BeginStage(r) ==
  /\ run[r].at = "stages" /\ run[r].todo # <<>>
  /\ ~disk[Head(run[r].todo)].done /\ ~Locked(Head(run[r].todo))
  /\ Goto(r, "running")
  /\ UNCHANGED <<disk, code, token, strays, kills>>

Written(s) == [disk EXCEPT ![s].v = @ + 1]
Marked(s)  == [disk EXCEPT ![s].done = TRUE]

WriteOutput(r) ==
  /\ run[r].at = "running"
  /\ disk[Head(run[r].todo)].v < MaxWrites
  /\ disk' = Written(Head(run[r].todo))
  /\ UNCHANGED <<code, token, strays, run, kills>>

FinishStage(r) ==
  /\ run[r].at = "running" /\ disk[Head(run[r].todo)].v > 0
  /\ disk' = Marked(Head(run[r].todo))
  /\ run' = [run EXCEPT ![r].at = "stages", ![r].todo = Tail(@)]
  /\ UNCHANGED <<code, token, strays, kills>>

(* Bug: the handler records again what the loop has recorded.               *)
FailStagesTwice(r) ==
  /\ run[r].at \in {"stages", "running"} /\ run[r].todo # <<>>
  /\ run' = [run EXCEPT ![r].at = "shred", ![r].failed = "stage"]
  /\ disk' = [disk EXCEPT !["logs"] = @ + 2]
  /\ UNCHANGED <<code, token, strays, kills>>

(* A stage fails, its lock refuses it, or the driver is interrupted; what   *)
(* the stage started may go on.  _record_container_failure.                 *)
FailStages(r) ==
  /\ run[r].at \in {"stages", "running"} /\ run[r].todo # <<>>
  /\ \E how \in {"stage", "exception"} :
       run' = [run EXCEPT ![r].at = "shred", ![r].failed = how]
  /\ strays' \in {strays} \cup
       (IF run[r].at = "running" THEN {strays \cup {Head(run[r].todo)}} ELSE {})
  /\ disk' = [disk EXCEPT !["logs"] = @ + 1]
  /\ UNCHANGED <<code, token, kills>>

StagesDone(r) ==
  /\ run[r].at = "stages" /\ run[r].todo = <<>>
  /\ Goto(r, "shred")
  /\ UNCHANGED <<disk, code, token, strays, kills>>

(* Bug: only a successful run removes its token.                            *)
ShredOnSuccess(r) ==
  /\ run[r].at = "shred"
  /\ token' = IF run[r].failed = "no" THEN NoRun ELSE token
  /\ run' = [run EXCEPT ![r].at = "collect"]
  /\ UNCHANGED <<disk, code, strays, kills>>

(* The finally block: first the token, then the result.                     *)
Shred(r) ==
  /\ run[r].at = "shred"
  /\ token' = NoRun
  /\ Goto(r, "collect")
  /\ UNCHANGED <<disk, code, strays, kills>>

-----------------------------------------------------------------------------
(* build_summary and deliver.  Both passes over the files take them in the  *)
(* order of their paths, one at a time.                                     *)

At(r) == FileOrder[run[r].read + 1]
LastFile(r) == run[r].read + 1 = Len(FileOrder)

(* build_summary: the first pass.                                           *)
Collect(r) ==
  /\ run[r].at = "collect"
  /\ run' = [run EXCEPT ![r] =
       [@ EXCEPT !.held[At(r)] = disk[At(r)],
                 !.at = IF LastFile(r) THEN "contract" ELSE "collect",
                 !.read = IF LastFile(r) THEN 0 ELSE run[r].read + 1,
                 !.torn = LastFile(r) /\ \E f \in File \ {At(r)} :
                                           run[r].held[f] # disk[f]]]
  /\ UNCHANGED <<disk, code, token, strays, kills>>

(* No archive, no delivery, not even to stdout.                             *)
Undelivered(r) == Ends(r, "failed")

Sealed == disk[Last(Plan)].done

(* _role_contract: a complete measurement has its sealed receipt, a         *)
(* complete stage its marker; a failed stage is named; a failed measurement *)
(* has a log, which FailStages wrote.                                       *)
Contract(r) ==
  /\ run[r].at = "contract"
  /\ IF \/ run[r].verb = "measure" /\ (run[r].failed # "no" \/ Sealed)
        \/ run[r].verb = "stage" /\ run[r].failed = "stage"
        \/ run[r].verb = "stage" /\ run[r].failed = "no"
           /\ disk[run[r].name].done
     THEN Goto(r, "compare")
     ELSE Undelivered(r)
  /\ UNCHANGED <<disk, code, token, strays, kills>>

(* Bug: the archive takes what it reads; the summary is not compared.       *)
CompareNothing(r) ==
  /\ run[r].at = "compare"
  /\ run' = [run EXCEPT ![r] =
       [@ EXCEPT !.held[At(r)] = disk[At(r)],
                 !.at = IF LastFile(r) THEN "deliver" ELSE "compare",
                 !.read = IF LastFile(r) THEN 0 ELSE run[r].read + 1,
                 !.named = IF LastFile(r) THEN disk["job"]
                                           ELSE run[r].named]]
  /\ UNCHANGED <<disk, code, token, strays, kills>>

(* _archive_parts: the second pass, whose bytes go into the archive, must   *)
(* give what the summary says of every file; then job.json is read once     *)
(* more for the manifest.  write_archive hashes large files as it streams   *)
(* them and compares with the same records.                                 *)
Compare(r) ==
  /\ run[r].at = "compare"
  /\ IF disk[At(r)] # run[r].held[At(r)]
     THEN Undelivered(r)
     ELSE run' = [run EXCEPT ![r] =
            [@ EXCEPT !.at = IF LastFile(r) THEN "deliver" ELSE "compare",
                      !.read = IF LastFile(r) THEN 0 ELSE run[r].read + 1,
                      !.named = IF LastFile(r) THEN disk["job"]
                                           ELSE run[r].named]]
  /\ UNCHANGED <<disk, code, token, strays, kills>>

(* A failing sink does not keep the others from the archive.                *)
Deliver(r) ==
  /\ run[r].at = "deliver"
  /\ \E takers \in SUBSET Sinks :
       run' = [run EXCEPT ![r].at = "delivered", ![r].got = takers]
  /\ UNCHANGED <<disk, code, token, strays, kills>>

(* Bug: a sink that failed is reported and forgotten.                       *)
FinishHopeful(r) ==
  /\ run[r].at = "delivered"
  /\ Ends(r, IF run[r].failed = "no" THEN "ok" ELSE "failed")
  /\ UNCHANGED <<disk, code, token, strays, kills>>

Finish(r) ==
  /\ run[r].at = "delivered"
  /\ Ends(r, IF run[r].failed = "no" /\ run[r].got = Sinks
             THEN "ok" ELSE "failed")
  /\ UNCHANGED <<disk, code, token, strays, kills>>

-----------------------------------------------------------------------------
(* What no invocation does. *)

(* A driver is killed; the script it ran may live on.                       *)
Kill(r) ==
  /\ Alive(r) /\ kills < MaxKills
  /\ kills' = kills + 1
  /\ Ends(r, "killed")
  /\ strays' \in {strays} \cup
       (IF run[r].at = "running" THEN {strays \cup {Head(run[r].todo)}} ELSE {})
  /\ UNCHANGED <<disk, code, token>>

Straggle(s) ==
  /\ s \in strays
  /\ \/ disk[s].v < MaxWrites /\ disk' = Written(s) /\ UNCHANGED strays
     \/ disk[s].v > 0 /\ disk' = Marked(s) /\ strays' = strays \ {s}
     \/ UNCHANGED disk /\ strays' = strays \ {s}
  /\ UNCHANGED <<code, token, run, kills>>

(* The user empties the run root while nothing runs on it.                  *)
Wipe ==
  /\ Living = {} /\ strays = {} /\ code
  /\ disk' = Empty /\ code' = FALSE /\ token' = NoRun
  /\ UNCHANGED <<strays, run, kills>>

Init ==
  /\ disk = Empty /\ code = FALSE /\ token = NoRun /\ strays = {}
  /\ run = [r \in Run |-> Unstarted] /\ kills = 0

Invocation(r) ==
  \/ Start(r) \/ Clear(r) \/ SyncSuite(r) \/ RefuseOccupied(r)
  \/ InstallJob(r) \/ InstallToken(r)
  \/ SkipStage(r) \/ BeginStage(r) \/ WriteOutput(r) \/ FinishStage(r)
  \/ FailStages(r) \/ StagesDone(r) \/ Shred(r)
  \/ Collect(r) \/ Contract(r) \/ Compare(r) \/ Deliver(r) \/ Finish(r)

(* Nothing happens any more once every invocation has ended.                *)
Next ==
  \/ \E r \in Run : Invocation(r) \/ Kill(r)
  \/ \E s \in Stage : Straggle(s)
  \/ Wipe

Spec == Init /\ [][Next]_vars

-----------------------------------------------------------------------------

(* A token lies in the root only while its invocation runs stages, or after *)
(* that invocation was killed; and an invocation that had the root to       *)
(* itself never goes on past its clearing with a token of anybody else.     *)
(* "removed when this run ends", whichever way it ends but one.             *)
TokenConfined ==
  \A r \in Run :
    /\ token = r => \/ run[r].at \in {"stages", "running", "shred"}
                    \/ run[r].exit = "killed"
    /\ Alive(r) /\ run[r].at # "admitted" /\ ~run[r].shared
         => token \in {r, NoRun}

(* What an invocation that had the root to itself delivers is of the job it *)
(* was given: a resume never adopts the results, or the job document, of an *)
(* earlier attempt with another job.                                        *)
OwnJob ==
  \A r \in Run : run[r].got # {} /\ ~run[r].shared =>
    run[r].held["job"] = run[r].of /\ run[r].named = run[r].of

(* An archive is a state the root was really in: all its files together, at *)
(* one moment, though it was read file by file beside other writers.        *)
ArchiveIsSnapshot ==
  \A r \in Run : run[r].at = "deliver" => ~run[r].torn

(* Exit code 0 means that every sink asked for has this run's archive, and  *)
(* that the archive holds the evidence: the marker of the stage, or the     *)
(* sealed receipt of the measurement.                                       *)
EndsOk(r) == run[r].exit # "ok" /\ run'[r].exit = "ok"

OkIsDelivered == [][\A r \in Run : EndsOk(r) =>
  /\ run[r].got = Sinks /\ run[r].failed = "no"
  /\ IF run[r].verb = "stage" THEN run[r].held[run[r].name].done
                              ELSE run[r].held[Last(Plan)].done]_vars
=============================================================================
