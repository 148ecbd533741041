------------------------------- MODULE StageRun -------------------------------
(***************************************************************************)
(* One persistent run root and the invocations of bin/stage_measure.sh on  *)
(* it: the done markers, the per-stage lock, the artefacts a stage leaves, *)
(* and processes that are killed between any two steps.                    *)
(*                                                                         *)
(* A process is its pid: `kill -0` of a recorded pid sees whatever runs    *)
(* under it now, so a later invocation may wear a dead owner's pid.        *)
(***************************************************************************)
EXTENDS Naturals, Sequences, SequencesExt

CONSTANTS
  Pid,       \* pids the invocations get
  NoFile,    \* a lock directory without an owner file
  Blank,     \* an owner file without its pid line yet
  ColdRun,   \* the cold runs of one measurement
  Jobs,      \* jobs considered: role, materializing surface, candidate, and
             \* a first capture imported from an earlier attempt
  Regimes    \* how the run root is used, see Regime

(* crowd: one driver runs one invocation at a time (alone), or several do,  *)
(* where an invocation of a stage under way comes only when that one is in  *)
(* the stage's body (spaced), or at any moment (any).  ordered: a stage is  *)
(* started after those before it, as the measure and capture verbs and the  *)
(* controller do; `stage NAME` and `--only` of the container may start any. *)
(* kills: how many processes may be killed or fail on their own.            *)
Regime == [crowd : {"alone", "spaced", "any"}, ordered : BOOLEAN, kills : Nat]
Job == [root : BOOLEAN, materializes : BOOLEAN, candidate : BOOLEAN,
        imported : BOOLEAN]

ASSUME StageRunAssumption ==
  /\ NoFile \notin Pid /\ Blank \notin Pid /\ NoFile # Blank
  /\ Jobs \subseteq Job /\ Regimes \subseteq Regime

VARIABLES
  job, regime,
  pass,      \* stages that ended well since the lone driver began its pass
  done,      \* stages with a valid marker
  locked,    \* stages whose lock directory exists
  owner,     \* [Stages -> what the lock's owner file says]
  opened,    \* [Stages -> who has the owner file that is there open]
  usurped,   \* stages whose lock was taken from a living holder (history)
  art,       \* [Stages -> what is on disk of the stage's own output]
  captured,  \* cold runs with a capture receipt
  scored,    \* cold runs with a kld report
  logits,    \* cold runs whose logits are on disk
  sealedOf,  \* the cold runs the sealed receipt was computed from
  proc,      \* [Pid -> where the invocation is, its stage, the pid it read]
  kills

lock  == <<locked, owner, opened, usurped>>
runs  == <<captured, scored, logits>>
files == <<done, lock, art, runs, sealedOf>>
vars  == <<job, regime, pass, files, proc, kills>>

QuantStages == <<"setup", "fetch_target", "fetch_panel", "measure", "score",
                 "seal">>
RootStages == <<"setup", "fetch_target", "capture", "verify",
                "capture_repeat", "verify_repeat", "compare_root",
                "qualify_root">>

(* stage_sequence *)
Plan == IF job.root
        THEN IF job.candidate
             THEN Append(InsertAt(RootStages, 3, "fetch_reference"),
                         "compare_reference")
             ELSE RootStages
        ELSE IF job.materializes
             THEN InsertAt(QuantStages, 3, "materialize")
             ELSE QuantStages

Stages == Range(QuantStages) \cup Range(RootStages)
          \cup {"materialize", "fetch_reference", "compare_reference"}

RequiresLater(s) == IF s = "verify" THEN {"capture_repeat"} ELSE {}

(* Markers a stage's body demands (require_stage_marker). *)
Requires(s) ==
  CASE s \in {"materialize", "measure", "fetch_reference"} -> {"fetch_target"}
    [] s = "capture" -> {"fetch_target"} \cup
                        (IF job.candidate THEN {"fetch_reference"} ELSE {})
    [] s = "capture_repeat" -> {"fetch_target", "verify"} \cup
                        (IF job.candidate THEN {"fetch_reference"} ELSE {})
    [] s = "verify" -> {"capture"}
    [] s = "verify_repeat" -> {"capture_repeat"}
    [] s = "compare_root" -> {"verify", "verify_repeat"}
    [] s = "qualify_root" -> {"verify", "verify_repeat", "compare_root"}
    [] s = "compare_reference" -> {"fetch_reference", "qualify_root"}
    [] OTHER -> {}

Rerun == {"setup", "fetch_target"}       \* run again in spite of their marker
Fresh == {"capture", "capture_repeat"}   \* refuse an output that is there
Resumed == {"measure", "score"}          \* go on from the receipts per run

(* The lock directory is this invocation's from "open" on. *)
Body  == {"body", "work", "mark", "leave", "left"}
Steps == {"free", "marker", "lock", "held", "test", "clear", "rmdir", "retake",
          "open", "pid"} \cup Body

TypeOK ==
  /\ job \in Jobs /\ regime \in Regimes
  /\ pass \subseteq Stages /\ done \subseteq Stages
  /\ locked \subseteq Stages /\ usurped \subseteq Stages
  /\ owner \in [Stages -> Pid \cup {NoFile, Blank}]
  /\ opened \in [Stages -> SUBSET Pid]
  /\ art \in [Stages -> {"none", "partial", "whole"}]
  /\ captured \subseteq ColdRun /\ scored \subseteq ColdRun
  /\ logits \subseteq ColdRun /\ sealedOf \subseteq ColdRun
  /\ proc \in [Pid -> [at : Steps, stage : Stages, saw : Pid \cup {NoFile}]]
  /\ kills \in 0..regime.kills

Idle == [at |-> "free", stage |-> "setup", saw |-> NoFile]

Init ==
  /\ job \in Jobs /\ regime \in Regimes
  /\ pass = {} /\ done = {} /\ locked = {} /\ usurped = {}
  /\ owner = [s \in Stages |-> NoFile] /\ opened = [s \in Stages |-> {}]
  /\ art = [s \in Stages |-> IF s = "capture" /\ job.imported
                              THEN "whole" ELSE "none"]
  /\ captured = {} /\ scored = {} /\ logits = {} /\ sealedOf = {}
  /\ proc = [p \in Pid |-> Idle]
  /\ kills = 0

-----------------------------------------------------------------------------
Live(p) == proc[p].at # "free"
At(p, step, s) == proc[p].at = step /\ proc[p].stage = s
Goes(p, step) == proc' = [proc EXCEPT ![p] =
                   IF step = "free" THEN Idle
                   ELSE [at |-> step, stage |-> @.stage, saw |-> NoFile]]

(* A step that goes on; one that will end the script with a status other   *)
(* than 0, after which a driver starts over at the first stage; one that    *)
(* will end it well.                                                        *)
Go(p, step) == Goes(p, step) /\ UNCHANGED pass
Fails(p, step) == Goes(p, step) /\ pass' = {}
Succeeds(p, step, s) ==
  /\ Goes(p, step)
  /\ pass' = IF regime.crowd = "alone" /\ regime.ordered THEN pass \cup {s}
                                                         ELSE pass

Earlier(s) == {Plan[i] : i \in 1..(CHOOSE i \in 1..Len(Plan) : Plan[i] = s) - 1}

May(p, s) ==
  /\ ~Live(p) /\ s \in Range(Plan)
  /\ regime.crowd = "alone" => \A q \in Pid : ~Live(q)
  /\ regime.crowd = "spaced" =>
       \A q \in Pid : Live(q) /\ proc[q].stage = s => proc[q].at \in Body

Starts(p, s) ==
  /\ proc' = [proc EXCEPT ![p] = [at |-> "marker", stage |-> s, saw |-> NoFile]]
  /\ UNCHANGED <<job, regime, pass, files, kills>>

LaunchByMarkers(p, s) ==
  May(p, s) /\ (regime.ordered => Earlier(s) \subseteq done) /\ Starts(p, s)

(* A driver starts the script, under a pid that is free.  A lone driver has *)
(* seen every earlier stage end well; of several, each one's own pass is    *)
(* behind the markers.                                                      *)
Launch(p, s) ==
  /\ May(p, s)
  /\ regime.ordered =>
       Earlier(s) \subseteq (IF regime.crowd = "alone" THEN pass ELSE done)
  /\ Starts(p, s)

ScriptElse == UNCHANGED <<job, regime, files, kills>>

(* The marker is looked at before the lock is taken.  Every stage but setup *)
(* needs the interpreter; once setup is marked it is there for good.        *)
Skip(p, s) ==
  /\ At(p, "marker", s) /\ s \in done \ Rerun
  /\ Succeeds(p, "free", s) /\ ScriptElse

NoInterpreter(p, s) ==
  /\ At(p, "marker", s) /\ s # "setup"
  /\ "setup" \notin done /\ art["setup"] # "whole"
  /\ Fails(p, "free") /\ ScriptElse

Proceed(p, s) ==
  /\ At(p, "marker", s) /\ s \notin done \ Rerun
  /\ s = "setup" \/ art["setup"] # "none"
  /\ Go(p, "lock") /\ ScriptElse

LockElse == UNCHANGED <<job, regime, done, art, runs, sealedOf, kills>>

(* mkdir, the atomic primitive; what the owner file says comes later. *)
MakeLock(p, s) ==
  /\ At(p, "lock", s)
  /\ IF s \in locked THEN Go(p, "held") /\ UNCHANGED locked
                     ELSE Go(p, "open") /\ locked' = locked \cup {s}
  /\ UNCHANGED <<owner, opened, usurped>> /\ LockElse

(* write_lock_owner.  The redirection creates or truncates the file; it     *)
(* fails, and the script with it, when the directory is gone.               *)
OpenOwner(p, s) ==
  /\ At(p, "open", s)
  /\ IF s \in locked
     THEN /\ Go(p, "pid")
          /\ owner' = [owner EXCEPT ![s] = Blank]
          /\ opened' = [opened EXCEPT ![s] = @ \cup {p}]
     ELSE Fails(p, "free") /\ UNCHANGED <<owner, opened>>
  /\ UNCHANGED <<locked, usurped>> /\ LockElse

(* The pid line, which nobody reads when the file was unlinked meanwhile;   *)
(* then the EXIT trap is set.                                               *)
WritePid(p, s) ==
  /\ At(p, "pid", s) /\ Go(p, "body")
  /\ owner' = [owner EXCEPT ![s] = IF p \in opened[s] THEN p ELSE @]
  /\ opened' = [opened EXCEPT ![s] = @ \ {p}]
  /\ UNCHANGED <<locked, usurped>> /\ LockElse

(* Without an owner file the pipeline reading it fails, and errexit ends    *)
(* the script; without a pid line in it the lock counts as stale.           *)
ReadOwner(p, s) ==
  /\ At(p, "held", s)
  /\ \/ owner[s] = NoFile /\ Fails(p, "free")
     \/ owner[s] = Blank /\ Go(p, "clear")
     \/ /\ owner[s] \in Pid /\ UNCHANGED pass
        /\ proc' = [proc EXCEPT ![p] = [at |-> "test", stage |-> s,
                                        saw |-> owner[s]]]
  /\ ScriptElse

TestOwnerTrapped(p, s) ==
  /\ At(p, "test", s)
  /\ IF Live(proc[p].saw) THEN Fails(p, "leave") ELSE Go(p, "clear")
  /\ ScriptElse

(* kill -0 of the pid that was read: alive refuses, gone is stale. *)
TestOwner(p, s) ==
  /\ At(p, "test", s)
  /\ IF Live(proc[p].saw) THEN Fails(p, "free") ELSE Go(p, "clear")
  /\ ScriptElse

Holds(p, s) == proc[p].stage = s /\ proc[p].at \in {"open", "pid"} \cup Body

(* rm -rf, its first half: what is in the directory. *)
Unlink(s) == /\ owner' = [owner EXCEPT ![s] = NoFile]
             /\ opened' = [opened EXCEPT ![s] = {}]
             /\ UNCHANGED <<locked, usurped>> /\ LockElse

ClearStale(p, s) ==
  /\ At(p, "clear", s) /\ Go(p, IF s \in locked THEN "rmdir" ELSE "retake")
  /\ Unlink(s)

(* ... and the directory itself, unless an owner file is in it again.       *)
RemoveStale(p, s) ==
  /\ At(p, "rmdir", s)
  /\ IF owner[s] = NoFile
     THEN /\ Go(p, "retake") /\ locked' = locked \ {s}
          /\ usurped' = IF \E q \in Pid : Holds(q, s) THEN usurped \cup {s}
                                                     ELSE usurped
     ELSE Fails(p, "free") /\ UNCHANGED <<locked, usurped>>
  /\ UNCHANGED <<owner, opened>> /\ LockElse

Retake(p, s) ==
  /\ At(p, "retake", s)
  /\ IF s \in locked THEN Fails(p, "free") /\ UNCHANGED locked
                     ELSE Go(p, "open") /\ locked' = locked \cup {s}
  /\ UNCHANGED <<owner, opened, usurped>> /\ LockElse

(* trap 'rm -rf "$LOCK"' EXIT: whoever's lock it is by now. *)
Leave(p, s) ==
  /\ At(p, "leave", s) /\ Go(p, IF s \in locked THEN "left" ELSE "free")
  /\ Unlink(s)

RemoveLock(p, s) ==
  /\ At(p, "left", s) /\ Go(p, "free")
  /\ locked' = IF owner[s] = NoFile THEN locked \ {s} ELSE locked
  /\ UNCHANGED <<owner, opened, usurped>> /\ LockElse

-----------------------------------------------------------------------------
(* The body of a stage. *)

Writing(p, s) == proc[p].stage = s /\ proc[p].at \in {"work", "mark"}

(* What the programs a stage runs refuse to do without: the panel to        *)
(* measure, both capture receipts to score, a mean to seal.                 *)
Inputs(s) ==
  CASE s = "measure" -> art["fetch_panel"] = "whole"
                        /\ (job.materializes => art["materialize"] = "whole")
    [] s = "score" -> captured = ColdRun
    [] s = "seal" -> art["score"] = "whole" \/ scored # {}
    [] OTHER -> TRUE

Imported(s) == s = "capture" /\ job.imported

(* An output of a capture that is there without its marker is never adopted,*)
(* except the one the job itself imports.                                   *)
Admitted(s) ==
  /\ Requires(s) \subseteq done /\ Inputs(s)
  /\ s \in Fresh => art[s] = IF Imported(s) THEN "whole" ELSE "none"

Refuse(p, s) ==
  /\ At(p, "body", s) /\ ~Admitted(s)
  /\ Fails(p, "leave") /\ ScriptElse

Begin(p, s) == At(p, "body", s) /\ Admitted(s)
BeginUnchanged == UNCHANGED <<job, regime, done, lock, runs, sealedOf, kills>>

(* setup resets, cleans and patches its checkouts again and fetch_target    *)
(* truncates its receipts; a measurement and a scoring resume from the      *)
(* receipts they find.                                                      *)
Repeat(p, s) ==
  /\ Begin(p, s) /\ s \in Rerun \cup Resumed
  /\ art' = [art EXCEPT ![s] = IF s \in Resumed /\ @ = "whole" THEN @
                                                             ELSE "partial"]
  /\ Go(p, "work")
  /\ BeginUnchanged

(* A cold capture: a fresh process into a directory of its own, or the      *)
(* imported first one, checked and marked without a process.                *)
StartCapture(p, s) ==
  /\ Begin(p, s) /\ s \in Fresh
  /\ art' = [art EXCEPT ![s] = IF Imported(s) THEN @ ELSE "partial"]
  /\ Go(p, IF Imported(s) THEN "mark" ELSE "work")
  /\ BeginUnchanged

(* Every other stage writes its output anew. *)
StartAnew(p, s) ==
  /\ Begin(p, s) /\ s \notin Rerun \cup Resumed \cup Fresh
  /\ art' = [art EXCEPT ![s] = "partial"]
  /\ Go(p, "work")
  /\ BeginUnchanged

(* One cold run that has no capture receipt yet. *)
CaptureRun(p, r) ==
  /\ At(p, "work", "measure") /\ r \notin captured
  /\ captured' = captured \cup {r} /\ logits' = logits \cup {r}
  /\ UNCHANGED <<job, regime, pass, done, lock, art, scored, sealedOf, proc,
                 kills>>

(* One report from one run's logits; without them the scorer fails. *)
ScoreRun(p, r) ==
  /\ At(p, "work", "score") /\ r \in logits \ scored
  /\ scored' = scored \cup {r}
  /\ UNCHANGED <<job, regime, pass, done, lock, art, captured, logits,
                 sealedOf, proc, kills>>

CompleteWithAny(s) == CASE s = "measure" -> captured = ColdRun
                        [] s = "score" -> scored # {}
                        [] OTHER -> TRUE

Complete(s) == CASE s = "measure" -> captured = ColdRun
                 [] s = "score" -> scored = ColdRun
                 [] OTHER -> TRUE

(* The output is whole; sealing uses the reports that are there, through    *)
(* the aggregate made of them or, lacking one, directly.                    *)
Finish(p, s) ==
  /\ At(p, "work", s) /\ Complete(s)
  /\ art' = [art EXCEPT ![s] = "whole"]
  /\ sealedOf' = IF s = "seal" THEN scored ELSE sealedOf
  /\ Go(p, "mark")
  /\ UNCHANGED <<job, regime, done, lock, runs, kills>>

DropLogitsEarly(p, r) ==
  /\ proc[p].stage = "score" /\ proc[p].at \in {"work", "mark"} /\ r \in logits
  /\ logits' = logits \ {r}
  /\ UNCHANGED <<job, regime, pass, done, lock, art, captured, scored,
                 sealedOf, proc, kills>>

(* The transient logits go once the aggregate is written, one run at a time.*)
DropLogits(p, r) ==
  /\ At(p, "mark", "score") /\ r \in logits
  /\ logits' = logits \ {r}
  /\ UNCHANGED <<job, regime, pass, done, lock, art, captured, scored,
                 sealedOf, proc, kills>>

(* write_marker: one atomic rename. *)
Mark(p, s) ==
  /\ At(p, "mark", s)
  /\ (s = "score" => logits = {})
  /\ done' = done \cup {s} /\ Succeeds(p, "leave", s)
  /\ UNCHANGED <<job, regime, lock, art, runs, sealedOf, kills>>

-----------------------------------------------------------------------------
(* Faults. *)

Closes(p) == /\ opened' = [s \in Stages |-> opened[s] \ {p}]
             /\ UNCHANGED <<done, locked, owner, usurped, art, runs, sealedOf>>

KillOften(p) ==
  /\ Live(p) /\ kills' = kills + 1 /\ Fails(p, "free") /\ Closes(p)
  /\ UNCHANGED <<job, regime>>

(* SIGKILL, the OOM killer, a lost container: no trap runs. *)
Kill(p) ==
  /\ Live(p) /\ kills < regime.kills
  /\ kills' = kills + 1 /\ Fails(p, "free") /\ Closes(p)
  /\ UNCHANGED <<job, regime>>

(* A program of the body fails, or the script is told to terminate. *)
Fail(p) ==
  /\ proc[p].at \in {"body", "work", "mark"} /\ kills < regime.kills
  /\ kills' = kills + 1
  /\ Fails(p, "leave")
  /\ UNCHANGED <<job, regime, files>>

Script(p) ==
  \/ LET s == proc[p].stage IN
       \/ Skip(p, s) \/ NoInterpreter(p, s) \/ Proceed(p, s)
       \/ MakeLock(p, s) \/ OpenOwner(p, s) \/ WritePid(p, s)
       \/ ReadOwner(p, s) \/ TestOwner(p, s)
       \/ ClearStale(p, s) \/ RemoveStale(p, s) \/ Retake(p, s)
       \/ Leave(p, s) \/ RemoveLock(p, s)
       \/ Refuse(p, s) \/ Repeat(p, s) \/ StartCapture(p, s)
       \/ StartAnew(p, s) \/ Finish(p, s) \/ Mark(p, s)
  \/ \E r \in ColdRun : CaptureRun(p, r) \/ ScoreRun(p, r) \/ DropLogits(p, r)

Next == \E p \in Pid : \/ \E s \in Stages : Launch(p, s)
                       \/ Script(p) \/ Kill(p) \/ Fail(p)

Spec == Init /\ [][Next]_vars

(* Invocations run, and a driver keeps starting what is left to do, under   *)
(* any pid the system cares to give it.                                     *)
Fairness == \A p \in Pid : /\ WF_vars(Script(p))
                           /\ SF_vars(\E s \in Range(Plan) \ done : Launch(p, s))

FairSpec == Spec /\ Fairness

-----------------------------------------------------------------------------
(* Properties. *)

(* Two invocations never write one stage's output at a time.                *)
OneWriter == \A s \in Stages, p, q \in Pid :
               Writing(p, s) /\ Writing(q, s) => p = q

(* The lock of stage_measure.sh fails in one way only: its directory is     *)
(* removed by an invocation that judged it stale while its holder lives.    *)
(* That never happens to a stage whose next invocation comes only when the  *)
(* running one has written its pid, whoever is killed and whatever pid is   *)
(* given again.                                                             *)
OneWriterUnlessUsurped ==
  /\ regime.crowd # "any" => usurped = {}
  /\ \A s \in Stages \ usurped, p, q \in Pid :
       Writing(p, s) /\ Writing(q, s) => p = q

(* Whatever was killed in between, by a driver alone on the root, or where  *)
(* nobody is killed: the marker of a stage that is not run again stands for *)
(* a whole output, or for one whose writer is at work; and a lone driver    *)
(* that keeps the order never has a stage work on a setup or a fetched      *)
(* target of which a killed repetition left less than the whole.            *)
MarkedIsWhole ==
  /\ regime.crowd = "alone" \/ regime.kills = 0 =>
       \A s \in done \ (Rerun \cup usurped) :
         art[s] = "whole" \/ \E p \in Pid : Writing(p, s)
  /\ regime.crowd = "alone" /\ regime.ordered =>
       \A p \in Pid, s \in Stages : Writing(p, s) =>
         \A t \in Rerun \cap Earlier(s) : art[t] = "whole"

(* The transient logits of a cold run are deleted only when the report they *)
(* were kept for exists, so that no cold run is left with neither.          *)
LogitsServed == usurped \cap {"measure", "score"} = {} =>
                  captured \subseteq logits \cup scored

(* A sealed measurement was computed from every cold run of the job.        *)
SealedFromAll == art["seal"] = "whole" /\ usurped \cap {"score", "seal"} = {} =>
                   sealedOf = ColdRun

(* Without faults the drivers that start stages in order, one or several    *)
(* at a time, complete the plan: locks and markers never exclude everybody. *)
PlanCompletes == regime.kills = 0 /\ regime.ordered => <>(Range(Plan) \subseteq done)
=============================================================================
