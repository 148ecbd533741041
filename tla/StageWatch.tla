------------------------------ MODULE StageWatch ------------------------------
(***************************************************************************)
(* One rented machine during the workload: the controller's stage loop     *)
(* over ssh, the wrapper run_job leaves behind for each stage, the stage's *)
(* own process group, and the watchdog that stops the group when the       *)
(* controller falls silent or the deadline passes.                         *)
(***************************************************************************)
EXTENDS Naturals

CONSTANTS
  Last,   \* number of stages of the job
  Fetch   \* index of fetch_target, the one stage that may use the token

ASSUME StageWatchAssumption ==
  /\ Last \in Nat /\ Fetch \in 1..Last

VARIABLES
  ctl,        \* the controller: its next step, and the stage it is at
  verdict,    \* what its run amounts to so far
  stagesDone, \* stages counted as done
  wrap,       \* [stage -> the wrapper shell of its launch]
  code,       \* [stage -> the wrapper's exit_code file]
  leader,     \* [stage -> its process group]
  exit,       \* [stage -> status the leader exited with]
  marker,     \* stages with a done marker
  record,     \* the stage whose group stage.pgid names, 0 for none
  reused,     \* stages whose leader's pid belongs to a stranger by now
  foreign,    \* reused as it was when the watchdog read the record (history)
  harmed,     \* stages whose number was signalled as a stranger's
  watch,      \* the watchdog: where it is, and the record it has read
  abandoned,  \* ABANDONED.json: stage_process_group_stopped
  token,      \* the download token is on the machine
  net,        \* ssh works
  late        \* the workload deadline has passed

onpod     == <<wrap, code, leader, exit, marker, record>>
strangers == <<foreign, harmed>>
vars      == <<ctl, verdict, stagesDone, onpod, reused, strangers, watch,
               abandoned, token, net, late>>

Stage == 1..Last
Status == {"none", "ok", "bad"}
Running == {"fresh", "work", "orphans"}   \* states of a group with members

(* Steps of a watchdog that lives; one that does not has exited by itself,  *)
(* was turned off by the controller, or went with its machine.              *)
Watching == {"armed", "loaded", "identified", "proved", "termed", "stopped",
             "unproven", "written"}

TypeOK ==
  /\ ctl \in [at : {"launch", "poll", "erase", "wipe", "archive", "disarm",
                    "destroy", "done", "dead"}, stage : Stage]
  /\ verdict \in {"open", "failed"}
  /\ stagesDone \in 0..Last
  /\ wrap \in [Stage -> {"none", "clear", "await", "wait", "gone"}]
  /\ code \in [Stage -> Status] /\ exit \in [Stage -> Status]
  /\ leader \in [Stage -> {"none", "gone"} \cup Running]
  /\ marker \subseteq Stage /\ record \in 0..Last
  /\ reused \subseteq Stage /\ foreign \subseteq Stage /\ harmed \subseteq Stage
  /\ watch \in [at : Watching \cup {"exited", "off", "lost"}, rec : 0..Last]
  /\ abandoned \in {"none", "stopped", "unproven"}
  /\ token \in BOOLEAN /\ net \in BOOLEAN /\ late \in BOOLEAN

(* The watchdog has proved that it runs, the token has been installed. *)
Init ==
  /\ ctl = [at |-> "launch", stage |-> 1] /\ verdict = "open"
  /\ stagesDone = 0
  /\ wrap = [i \in Stage |-> "none"] /\ code = [i \in Stage |-> "none"]
  /\ leader = [i \in Stage |-> "none"] /\ exit = [i \in Stage |-> "none"]
  /\ marker = {} /\ record = 0 /\ reused = {}
  /\ foreign = {} /\ harmed = {}
  /\ watch = [at |-> "armed", rec |-> 0] /\ abandoned = "none"
  /\ token = TRUE /\ net = TRUE /\ late = FALSE

-----------------------------------------------------------------------------
(* The controller. *)

Step(at) == ctl' = [ctl EXCEPT !.at = at]
CtlAt(at) == ctl.at = at
WatchAt(at) == watch' = [watch EXCEPT !.at = at]

(* An exception leaves the stage loop; the token is wiped if no erasure was *)
(* confirmed.                                                               *)
Leaves(i) == /\ verdict' = "failed"
             /\ Step(IF stagesDone < Fetch THEN "wipe" ELSE "archive")

(* run_job: the answer may be lost although the wrapper runs. *)
Launch(i) ==
  /\ ctl = [at |-> "launch", stage |-> i]
  /\ \/ /\ net
        /\ wrap' = [wrap EXCEPT ![i] = "clear"]
        /\ \/ Step("poll") /\ UNCHANGED verdict
           \/ Leaves(i)
     \/ ~net /\ Leaves(i) /\ UNCHANGED wrap
  /\ UNCHANGED <<stagesDone, code, leader, exit, marker, record, reused,
                 strangers, watch, abandoned, token, net, late>>

AnswerHopeful(i) == IF wrap[i] = "gone" /\ code[i] # "bad" THEN "succeeded"
                    ELSE IF code[i] = "bad" THEN "failed" ELSE "running"

(* run_status as the box answers it: the exit code file, else the wrapper's *)
(* own pid.  Every wrapper writes its code before it goes, unless killed.   *)
Answer(i) == CASE code[i] = "ok"  -> "succeeded"
               [] code[i] = "bad" -> "failed"
               [] OTHER -> IF wrap[i] = "gone" THEN "failed" ELSE "running"

AdvanceUnbounded(i) ==
  IF i = Fetch THEN Step("erase") /\ UNCHANGED stagesDone
  ELSE stagesDone' = i /\ ctl' = [at |-> "launch", stage |-> i + 1]

AdvanceUnerased(i) ==
  /\ stagesDone' = i
  /\ ctl' = IF i = Last THEN [ctl EXCEPT !.at = "archive"]
            ELSE [at |-> "launch", stage |-> i + 1]

(* The token's stage is done only when the token is gone as well. *)
Advance(i) ==
  IF i = Fetch THEN Step("erase") /\ UNCHANGED stagesDone
  ELSE /\ stagesDone' = i
       /\ ctl' = IF i = Last THEN [ctl EXCEPT !.at = "archive"]
                 ELSE [at |-> "launch", stage |-> i + 1]

PollUnchanged == UNCHANGED <<onpod, reused, strangers, watch, abandoned, token,
                             net, late>>

PollSucceeded(i) ==
  /\ ctl = [at |-> "poll", stage |-> i] /\ ~late
  /\ net /\ Answer(i) = "succeeded"
  /\ Advance(i) /\ UNCHANGED verdict
  /\ PollUnchanged

(* The deadline, a verdict on evidence, or probes failing for too long. *)
PollGivesUp(i) ==
  /\ ctl = [at |-> "poll", stage |-> i]
  /\ late \/ ~net \/ Answer(i) = "failed"
  /\ Leaves(i) /\ UNCHANGED stagesDone
  /\ PollUnchanged

(* _cleanup_remote_secret after the fetch: unconfirmed is a failed run. *)
Erase(i) ==
  /\ ctl = [at |-> "erase", stage |-> i]
  /\ IF net THEN /\ token' = FALSE /\ stagesDone' = i
                 /\ ctl' = IF i = Last THEN [ctl EXCEPT !.at = "archive"]
                           ELSE [at |-> "launch", stage |-> i + 1]
                 /\ UNCHANGED verdict
            ELSE Leaves(i) /\ UNCHANGED <<token, stagesDone>>
  /\ UNCHANGED <<onpod, reused, strangers, watch, abandoned, net, late>>

(* ... and on the way out of a run that never confirmed it. *)
Wipe ==
  /\ CtlAt("wipe") /\ Step("archive")
  /\ token' = (token /\ ~net)
  /\ UNCHANGED <<verdict, stagesDone, onpod, reused, strangers, watch, abandoned,
                 net, late>>

(* The result archive is built, fetched and verified, or the run has failed.*)
Archive ==
  /\ CtlAt("archive") /\ Step("disarm")
  /\ \/ net /\ UNCHANGED verdict
     \/ verdict' = "failed"
  /\ UNCHANGED <<stagesDone, onpod, reused, strangers, watch, abandoned, token,
                 net, late>>

DisarmUnproven ==
  /\ CtlAt("disarm") /\ Step("destroy")
  /\ verdict' = IF net THEN verdict ELSE "failed"
  /\ WatchAt(IF net /\ watch.at \in Watching THEN "off" ELSE watch.at)
  /\ UNCHANGED <<stagesDone, onpod, reused, strangers, abandoned, token, net,
                 late>>

(* disarm_watchdog proves the armed process live before it ends it, however *)
(* far that process has come in giving the work up.                         *)
Disarm ==
  /\ CtlAt("disarm") /\ Step("destroy")
  /\ IF net /\ watch.at \in Watching
     THEN WatchAt("off") /\ UNCHANGED verdict
     ELSE verdict' = "failed" /\ UNCHANGED watch
  /\ UNCHANGED <<stagesDone, onpod, reused, strangers, abandoned, token, net,
                 late>>

(* Nothing on the machine survives the machine. *)
Destroy ==
  /\ CtlAt("destroy") /\ Step("done")
  /\ wrap' = [i \in Stage |-> "gone"] /\ leader' = [i \in Stage |-> "gone"]
  /\ WatchAt(IF watch.at \in Watching THEN "lost" ELSE watch.at)
  /\ token' = FALSE
  /\ UNCHANGED <<verdict, stagesDone, code, exit, marker, record, reused,
                 strangers, abandoned, net, late>>

ControllerDies ==
  /\ ctl.at \notin {"done", "dead"} /\ Step("dead")
  /\ UNCHANGED <<verdict, stagesDone, onpod, reused, strangers, watch, abandoned,
                 token, net, late>>

-----------------------------------------------------------------------------
(* The wrapper of one launch. *)

OnPodElse == UNCHANGED <<ctl, verdict, stagesDone, reused, strangers, watch,
                         abandoned, token, net, late>>

ClearRecord(i) ==
  /\ wrap[i] = "clear"
  /\ record' = 0
  /\ wrap' = [wrap EXCEPT ![i] = "await"]
  /\ leader' = [leader EXCEPT ![i] = "fresh"]
  /\ UNCHANGED <<code, exit, marker>> /\ OnPodElse

(* A record, or a leader that is gone, ends the wait for the record. *)
RecordSeen(i) ==
  /\ wrap[i] = "await" /\ (record # 0 \/ leader[i] \notin Running)
  /\ wrap' = [wrap EXCEPT ![i] = "wait"]
  /\ UNCHANGED <<code, leader, exit, marker, record>> /\ OnPodElse

(* Alive without a record after the bound: the group is ended, exit 70. *)
NoRecord(i) ==
  /\ wrap[i] = "await" /\ record = 0 /\ leader[i] = "fresh"
  /\ leader' = [leader EXCEPT ![i] = "gone"] /\ exit' = [exit EXCEPT ![i] = "bad"]
  /\ code' = [code EXCEPT ![i] = "bad"] /\ wrap' = [wrap EXCEPT ![i] = "gone"]
  /\ UNCHANGED <<marker, record>> /\ OnPodElse

(* wait "$leader", and exit_code. *)
Report(i) ==
  /\ wrap[i] = "wait" /\ exit[i] # "none"
  /\ code' = [code EXCEPT ![i] = exit[i]]
  /\ wrap' = [wrap EXCEPT ![i] = "gone"]
  /\ UNCHANGED <<leader, exit, marker, record>> /\ OnPodElse

WrapperKilled(i) ==
  /\ wrap[i] \in {"clear", "await", "wait"}
  /\ wrap' = [wrap EXCEPT ![i] = "gone"]
  /\ UNCHANGED <<code, leader, exit, marker, record>> /\ OnPodElse

-----------------------------------------------------------------------------
(* The leader, stage_measure.sh under setsid. *)

RecordSelf(i) ==
  /\ leader[i] = "fresh"
  /\ record' = i /\ leader' = [leader EXCEPT ![i] = "work"]
  /\ UNCHANGED <<wrap, code, exit, marker>> /\ OnPodElse

(* Marker first, then exit 0. *)
Succeed(i) ==
  /\ leader[i] = "work"
  /\ marker' = marker \cup {i}
  /\ leader' = [leader EXCEPT ![i] = "gone"] /\ exit' = [exit EXCEPT ![i] = "ok"]
  /\ UNCHANGED <<wrap, code, record>> /\ OnPodElse

(* The stage fails, or its leader alone is killed and its children stay; or *)
(* the marker is written and the exit is not clean.                         *)
StageFails(i) ==
  /\ leader[i] \in {"fresh", "work"}
  /\ \E g \in {"gone"} \cup (IF leader[i] = "work" THEN {"orphans"} ELSE {}) :
       leader' = [leader EXCEPT ![i] = g]
  /\ \E m \in {marker, marker \cup {i}} :
       marker' = m /\ (leader[i] = "fresh" => m = marker)
  /\ exit' = [exit EXCEPT ![i] = "bad"]
  /\ UNCHANGED <<wrap, code, record>> /\ OnPodElse

(* A pid is free once no process of its group is left; who gets it stays. *)
PidReused(i) ==
  /\ leader[i] = "gone" /\ ctl.at # "done"
  /\ reused' = reused \cup {i}
  /\ UNCHANGED <<ctl, verdict, stagesDone, onpod, strangers, watch, abandoned,
                 token, net, late>>

-----------------------------------------------------------------------------
(* The watchdog. *)

StaleIfUnreachable == ~net /\ ~CtlAt("poll")

(* No heartbeat for 900 s: the controller is dead, or ssh failed so long    *)
(* that a poll would have ended after 300 s.                                *)
Stale == CtlAt("dead") \/ (~net /\ ~CtlAt("poll"))

WatchElse == UNCHANGED <<ctl, verdict, stagesDone, wrap, code, marker, record,
                         reused, token, net, late>>

(* stop_work: read the record; without one nothing is signalled. *)
LoadRecord ==
  /\ watch.at = "armed" /\ (late \/ Stale)
  /\ IF record = 0 THEN WatchAt("unproven")
                   ELSE watch' = [at |-> "loaded", rec |-> record]
  /\ foreign' = reused
  /\ UNCHANGED <<leader, exit, harmed, abandoned>> /\ WatchElse

WatchAtRecord(at, i) == watch.at = at /\ watch.rec = i

IdentifyByNumber(i) ==
  /\ WatchAtRecord("loaded", i)
  /\ WatchAt("identified")
  /\ UNCHANGED <<leader, exit, strangers, abandoned>> /\ WatchElse

(* A process that has the leader's pid is the leader, by its start time,    *)
(* group and session; no such process is as good.                           *)
Identify(i) ==
  /\ WatchAtRecord("loaded", i)
  /\ WatchAt(IF i \in reused THEN "unproven" ELSE "identified")
  /\ UNCHANGED <<leader, exit, strangers, abandoned>> /\ WatchElse

(* kill -0 of the group, then its members, which must be there still and of *)
(* the recorded session.  A stranger that got the pid since may lead no     *)
(* group, one in its session, or a session of its own, which bears the      *)
(* recorded number as well.                                                 *)
FindGroup(i) ==
  /\ WatchAtRecord("identified", i)
  /\ \/ leader[i] \in Running /\ WatchAt("proved")
     \/ /\ leader[i] \notin Running
        /\ \E at \in {"stopped", "unproven"} : WatchAt(at)
     \/ i \in reused /\ \E at \in {"proved", "unproven"} : WatchAt(at)
  /\ UNCHANGED <<leader, exit, strangers, abandoned>> /\ WatchElse

Ends(i) == /\ leader' = [leader EXCEPT ![i] = "gone"]
           /\ exit' = [exit EXCEPT ![i] = IF leader[i] = "work" THEN "bad" ELSE @]

(* TERM, which the group may survive. *)
Term(i) ==
  /\ WatchAtRecord("proved", i) /\ WatchAt("termed")
  /\ \/ Ends(i) \/ UNCHANGED <<leader, exit>>
  /\ harmed' = harmed \cup ({i} \cap reused)
  /\ UNCHANGED <<foreign, abandoned>> /\ WatchElse

(* The group is gone within 5 s, or whatever answers to its number by then  *)
(* is killed, and must be gone for the watchdog to say so.                  *)
KillGroup(i) ==
  /\ WatchAtRecord("termed", i)
  /\ \/ leader[i] \in Running /\ Ends(i) /\ WatchAt("stopped")
        /\ UNCHANGED harmed
     \/ /\ leader[i] \notin Running /\ WatchAt("stopped")
        /\ UNCHANGED <<leader, exit, harmed>>
     \/ /\ i \in reused /\ \E at \in {"stopped", "unproven"} : WatchAt(at)
        /\ harmed' = harmed \cup {i} /\ UNCHANGED <<leader, exit>>
  /\ UNCHANGED <<foreign, abandoned>> /\ WatchElse

(* ABANDONED.json, by an atomic rename; a disk that refuses it ends the     *)
(* watchdog at once.                                                        *)
WriteAbandoned ==
  /\ watch.at \in {"stopped", "unproven"}
  /\ \/ abandoned' = watch.at /\ WatchAt("written")
     \/ UNCHANGED abandoned /\ WatchAt("exited")
  /\ UNCHANGED <<leader, exit, strangers>> /\ WatchElse

WatchdogExits ==
  /\ watch.at = "written" /\ WatchAt("exited")
  /\ UNCHANGED <<leader, exit, strangers, abandoned>> /\ WatchElse

-----------------------------------------------------------------------------
World ==
  /\ ctl.at # "done"
  /\ \/ net' = ~net /\ UNCHANGED late
     \/ ~late /\ late' = TRUE /\ UNCHANGED net
  /\ UNCHANGED <<ctl, verdict, stagesDone, onpod, reused, strangers, watch,
                 abandoned, token>>

Watchdog ==
  \/ LoadRecord \/ WriteAbandoned \/ WatchdogExits
  \/ \E i \in Stage : Identify(i) \/ FindGroup(i) \/ Term(i) \/ KillGroup(i)

Next ==
  \/ Wipe \/ Archive \/ Disarm \/ Destroy \/ ControllerDies
  \/ Watchdog \/ World
  \/ \E i \in Stage :
       \/ Launch(i) \/ PollSucceeded(i) \/ PollGivesUp(i) \/ Erase(i)
       \/ ClearRecord(i) \/ RecordSeen(i) \/ NoRecord(i) \/ Report(i)
       \/ WrapperKilled(i)
       \/ RecordSelf(i) \/ Succeed(i) \/ StageFails(i) \/ PidReused(i)

Spec == Init /\ [][Next]_vars

(* The watchdog is a loop of bounded sleeps.  Nothing is assumed of the     *)
(* stages, of ssh, or of the controller.                                    *)
FairSpec == Spec /\ WF_vars(Watchdog)

-----------------------------------------------------------------------------
(* Properties. *)

(* A stage the controller counts as done has its marker, and nothing of it  *)
(* runs any more: the next one never works beside it in the same run root.  *)
DoneIsMarked == \A i \in 1..stagesDone :
                  i \in marker /\ leader[i] \notin Running

(* Only stages up to fetch_target ever run on a machine that holds the      *)
(* download token, whatever was lost, killed or unreachable in between.     *)
TokenOnlyForFetch == token => \A i \in Fetch + 1..Last : wrap[i] = "none"

(* Whoever had the recorded number before the watchdog set out to stop the  *)
(* work is never signalled, however long ago the stage ended and whoever    *)
(* moves meanwhile.  One who is given the number in the seconds between the *)
(* proof of identity and the last signal can be.                            *)
StrangersSpared == harmed \cap foreign = {}

(* A run is reported a success only when its watchdog was still there to be *)
(* disarmed: one that gave the work up and went fails the run, even when    *)
(* every stage finished, for its last stages ran unwatched.                 *)
UnwatchedRunFails == (CtlAt("done") /\ verdict = "open") => watch.at = "off"

(* The controller lost, the watchdog armed, and no launch under way: then   *)
(* the work on the machine stops.                                           *)
LaunchUnderWay == \E i \in Stage : wrap[i] = "clear" \/ leader[i] = "fresh"
Working == \E i \in Stage : leader[i] \in Running

WorkStops == (CtlAt("dead") /\ watch.at = "armed" /\ ~LaunchUnderWay) ~> ~Working
=============================================================================
