# A formal model of the fidelity suite's measurement runs

This directory models the two parts of the repository in which a mistake is
expensive and quiet. One is money: renting a RunPod pod for a measurement,
finding out what happened when something fails, proving that the pod is gone,
settling its bill against a campaign's budget. The other is evidence: the run
root on which stages, restarted drivers, a watchdog and a result archive meet,
and what may come out of it as a finished measurement. The models are TLA+
modules, checked with TLC on small instances and, where the theorems below say
so, proved with TLAPS for every instance.

## Inventory of the system

| Part | Code | State it keeps | What is hard | Correct when |
|---|---|---|---|---|
| Lease store | `bin/fidelity/cloudlease.py` 1–3030 | one JSON record per create attempt, with generation, history, proofs | two processes write it; crash between any two durable steps | the lifecycle table holds, no stale write is committed, TERMINAL means gone |
| Reaper | `cloudlease.py` 3030–3500, `bin/reap_cloud_leases.py` | a snapshot per sweep, one listing, a health stamp | one listing serves a whole sweep; failures must not hide | every open lease is closed, every pod removed, health returns |
| Reaper installation | `cloudlease.py` 3501–4258 | systemd units, a manifest, the stamp's generation | an outdated installation reports healthy | admission refuses anything but the installed generation |
| Paid controller | `bin/measure_cloud.py` 7040–8990 | the attempt at hand, a LeaseRef, a pod id | dies at any step, lost answers, partial failures | no DELETE without intent, nothing billed without a reservation |
| Campaign ledger | `bin/fidelity/campaign.py` | reservations, attempt phases, bound ids, settlements, caps | several attempts against one budget; release exactly once | held money covers billed pods; caps are never exceeded |
| RunPod client | `bin/fidelity/runpodapi.py` | none (request layer, pagination, listing union) | incomplete or lagging listings | a listing is complete or it is an error |
| Safety gates | `bin/fidelity/runpodsafety.py` | none (checks of receipts) | convergence of repeated listings | no gate passes on old evidence |
| Controller-loss drill | `bin/fidelity/runpoddrill.py` | drill receipts | kills its own controller | the reaper alone finishes |
| Stage runner | `bin/stage_measure.sh`, `fidelity/stages.py` | markers, a lock directory per stage, partial outputs, `stage.pgid` | kills between any two writes; two runners of one stage | one writer per stage, no stage works on a partial output that is marked, a sealed receipt uses every cold run |
| Stage launches | `fidelity/sshbase.py`, `measure_cloud.py` 6800–6960, 8280–8620 | a wrapper shell and an exit code file per launch | lost answers, killed wrappers, unreachable hosts | done means marked; the token is only there for the fetch |
| Watchdog | `bin/watchdog.sh` | its own pid and session, `ABANDONED.json` | acts on process groups recorded by others | it stops the work it was armed for and nothing else |
| Container entrypoint | `bin/container_entry.py` | a run root that outlives it: job, token, code, outputs | resumes, overlapping invocations, kills, stage scripts that outlive their driver | the token goes with its run; a resume keeps to its job; exit 0 means delivered |
| Legacy teardown | `measure_cloud.py` 125–900 | run records, teardown layers | retries, repeated signals | every record ends in a proven deletion |
| Result sink | `bin/fidelity/resultsink.py` | a summary, then an archive of the same files | files read one by one beside writers; a sink that fails | the archive is one moment of the root, with the evidence its status claims |
| Registry tools | `registry/tools/*.py` | JSON entries, a fingerprint index | several files changed together | no half-added entry |
| Datasets, panel, statistics | `bin/fidelity/ds*.py`, `panel.py`, `census.py`, `previewstats.py`, `hfmeta.py` | files | formats and floating point | not temporal |
| Engines | `engines/tools/*.py` | tensors, resume markers, fetch queues | GPU work, races between fetch and read | mostly numerical |
| Other providers | `lambdaapi.py`, `vastapi.py`, `jlapi.py`, `sshbase.py` | none | I/O | not modelled |

How they interact. The controller takes an admission decision (healthy stamp,
complete listing, reservation in the ledger), opens a lease, fsyncs the POST
intent, and sends the one POST. Controller and reaper then share two files,
both under file locks: the lease, written only with the generation last seen,
and the ledger, whose transitions are idempotent by content. They also share
the create-submission lock. Neither sends the other anything; what one learns
of the other is what the other wrote. The provider answers POSTs, loses
answers, creates more pods than asked, deletes late or never, and lists pods
late. The stage runner and watchdog run on the rented machine and touch
neither file: the controller starts each stage over ssh through a wrapper, the
stage records its process group for the watchdog, and the watchdog acts only
when the controller's heartbeat or the deadline has passed. In the container
the entrypoint takes the controller's place and runs the same script itself,
on a bind mount that the next invocation finds as the last one left it; the
result sink then reads that root back and delivers it.

## Modules

| Module | Models | Notes |
|---|---|---|
| `LeaseRecord` | a lease record, the lifecycle table `_ALLOWED`, the validator, and each LeaseStore operation as a function of record and listing | no variables |
| `CampaignAttempt` | the phases and bindings of one ledger attempt | no variables |
| `CloudLease` | controller, reaper, provider, clock, and both files | instantiates the two above |
| `MCCloudLease` | instances for TLC | |
| `PaidAttempt` | the abstract specification: what the lifecycle promises the owner of the account | implemented by `CloudLease` (`Implements`) |
| `CampaignLedger`, `MCCampaignLedger` | the money of a campaign: snapshots, admission, width, settlement | state of its own; an attempt's entry is only a phase |
| `StageRun`, `MCStageRun` | `stage_measure.sh` on one run root: markers, locks, partial outputs, kills | |
| `StageWatch` | controller loop, wrapper, process group and watchdog on one machine | checked directly, two constants |
| `ContainerRun`, `MCContainerRun` | the container's invocations on one run root, token, result archive | a stage is what `StageRun` says of it: output, then marker |
| `CloudLease_proofs` | type correctness, records stay valid | TLAPS |
| `CloudLeaseSettled_proofs` | a settled lease's pods are gone | TLAPS |
| `CloudLeaseCovered_proofs` | what bills is open and held, a DELETE follows a recorded intent, the refinement | TLAPS |
| `PaidAttempt_proofs` | the abstract attempt's two guarantees | TLAPS |
| `CampaignLedger_proofs` | the ceiling holds, what bills is reserved, the account stays solvent | TLAPS |
| `StageRun_proofs` | when a stage has one writer, what a marker stands for, what a sealed receipt saw | TLAPS |
| `StageWatch_proofs` | done is marked, the token serves the fetch only, an unwatched run fails, who had the number before is spared | TLAPS |
| `ContainerRun_proofs` | the token is confined, a delivery is of its own job and of one moment, exit 0 is a delivery | TLAPS |

### State and actions of CloudLease

`lease[l]` is the file of attempt `l`: `st`, `ids` (provider_resource_ids),
`pre` (pre_create_provider_ids), `blocked` (the ambiguous-create proof names
pods that nobody may attribute), `staged` (billing_reconciliation present),
`closedOnce` and `cancelling` (what later code reads out of the history),
`proof` (which terminal proof). `attempt[l]` is the ledger's side. `pod` and
`owner` are the provider's truth: a pod is hidden (created, not listed yet),
up, exited, deleted (by us) or removed (by anybody else). `ctl[l]` is the
controller process: the step it takes next, the listing it holds for that
step, its `pod_id`, whether its LeaseRef is current. `sweep`, `docs`, `seen`,
`asof`, `rref` are the reaper's memory during one sweep: the lease at hand,
its copies of the records, its one listing, the deadlines at the sweep's
`instant`, and whether each of its references is current.

*Generations.* Every LeaseStore write names the generation it read and fails
with GenerationConflict otherwise. The model keeps only what a comparison can
tell: `ctl[l].ref` and `rref[l]` say who is up to date; each commit falsifies
the other's. This is exact for two writers per record, which is what the code
has: a controller per attempt and one reaper under its sweep lock.

*Granularity.* An action is the code between two points at which another
process can intervene: a durable write, a provider call, or the choice of the
next step. Where the code re-reads a record immediately after its own write,
the re-read belongs to the write. `finalize_campaign_after_absence` takes a
listing and writes the ledger; the pods it looks at can only be added to by
a POST that its lease's state already excludes, so the two are one step.

*Controller.* `BeforePost` covers admission, begin_create, reservation,
POST intent and `cancel_prepared_lease`; `Post` the submission lock, the POST
and the recording of its answer; `AfterLoss` `reconcile_response_lost` and its
ledger bindings; `Qualify` the post-create inventory, attestation and quote;
`TearDown` the `finally` block and `_cleanup_ambiguous_runpod_create`.
`ControllerDies` may happen at any step.

*Reaper.* `SweepBegin` removes the health stamp and takes the snapshot;
`CancelOrphans` closes PREPARED leases of dead controllers; `SweepList` takes
the one listing; `Visit` walks the leases, one disjunct per branch of
`reap_once`; `SweepEnd` writes the stamp if nothing failed. `ReaperDies` loses
the memory and keeps the files.

*Clock.* Deadlines are flags that time may set: the create window closes, the
lost-create expiry passes (`win`), the reap deadline passes (`due`), the
billing stabilization passes (`aged`).

### PaidAttempt and the refinement

`PaidAttempt` knows nothing of leases, listings or crashes. An attempt is
opened while no other attempt of its job is open, its money is held before
anything bills, and neither is the money given back nor the attempt closed
while something bills. `CloudLease` implements it under the mapping at its end:
`life` is read off the lease state, `money` off the ledger phase, `bills` off
the pods the attempt owns, up or exited. Nearly every step of controller,
reaper and provider is a stutter of it; the rest are its six steps. What makes
this more than three invariants is the order: no step may close and reopen,
bill again after the bill was over, or release money and bill later, however
late a POST arrives or whichever process does the closing.

The code gives back the money of a refused create after the lease is closed,
and everybody else's before; `Release` therefore does not mention `life`.

With `MaxPerPost = 2` the refinement does not hold: a controller whose run
fails between recording the answer and taking the post-create inventory settles
the pod it knows while the sibling bills on (`cloudlease.py:2035` in the
hazards). It is stated for one pod per POST.

### State and actions of CampaignLedger

`terms` is the immutable part of a campaign (ceiling, width, policy), `width`
what is authorized now, `settled` the charges so far, `balance`, `inventory`
and `fresh` the snapshot recorded last, `phase` an entry's phase. The account
is the truth beside it: pods that are `up`, what each has cost, `funds`.
`view[a]` is what the process of attempt `a` has read of the account and not
recorded yet, so that everything recorded may be old.

Each public operation of `CampaignLedger` in `campaign.py` is one action, since
it runs under the file lock and re-reads the document. `Commits` is the part of
`_validate_document` that can fail: the pods bound by open attempts must be in
the recorded inventory. A document that does not validate is not written, so
`Commits` is a guard of every action that writes. `LIVE` stands for all bound
phases that do not freeze admission, `TERMINATE` for those that do. An amount
is a small integer; a pod may cost anything up to its cap.

### State and actions of StageRun

`done` are the markers, `locked` the lock directories, `owner` what their owner
files say: nothing (`NoFile`), a file without its pid line yet (`Blank`), or a
pid. `opened` is who has the owner file of the directory open, so that a pid
written to a file that was unlinked meanwhile is lost. `art[s]` is what is on
disk of a stage's output (none, partial, whole), `captured`, `scored` and
`logits` the per-run files of a measurement, `sealedOf` the runs a receipt was
computed from, `proc[p]` an invocation. A process is its pid, since all anybody
asks of an owner is `kill -0`: a pid may be worn again by a later invocation.
`pass` is what the lone driver has seen end well since it began: a driver goes
through the whole plan from its first stage each time it is started. `usurped`
is a history variable: the stages whose lock directory was removed while a
living holder had it.

The lock is what the script does, each of these a step of its own: look at the
marker (`Skip`, `Proceed`), `mkdir` (`MakeLock`), create the owner file
(`OpenOwner`), write the pid line (`WritePid`); or else read the owner
(`ReadOwner`), ask whether that pid lives (`TestOwner`), remove the contents and
then the directory (`ClearStale`, `RemoveStale`), `mkdir` again (`Retake`). The
trap removes in two steps as well (`Leave`, `RemoveLock`). A file without a pid
line counts as stale, as in the script; a directory without a file ends it.

The body is one action per kind of stage: repeated in spite of its marker
(`setup`, `fetch_target`), resumed from per-run receipts (`measure`, `score`),
refused if an output is there (`capture`, `capture_repeat`), or written anew. A
repetition undoes its output first: `bootstrap_measure.sh` resets and cleans the
checkouts and patches them again, the fetch truncates its receipts. A kill then
leaves a marker on a partial output until the driver's next pass.

`Regimes` says how the root is used. `alone`: one driver, one invocation at a
time. `spaced`: several, where a second invocation of a stage comes only when
the first is in its body; that is how a controller that lost an answer starts a
stage again, minutes after the launch. `any`: at any moment. And whether stages
are started in order or by name, and how many kills there may be.

### State and actions of StageWatch

One machine, one job, stages `1..Last` of which `Fetch` may use the token.
`ctl` walks the controller's loop (launch, poll, erase the token, archive,
disarm, destroy); `wrap[i]` is the shell `run_job` leaves behind and `code[i]`
its exit code file; `leader[i]` is the stage's process group, which may outlive
its leader as orphans; `record` is the one `stage.pgid`. `net` may go and come
back at any time, `late` is the deadline, `reused` the pids that belong to
strangers by now.

`watch` is the watchdog's step and the record it has read. Giving up is a
sequence of steps, and everybody else moves in between: `LoadRecord`, `Identify`
(the leader's start time, group and session), `FindGroup` (the group and its
members' session), `Term`, `KillGroup` (the polling of up to five seconds and
what follows it), `WriteAbandoned`, `WatchdogExits`. Until the last one the
process lives and `Disarm` finds it alive. Two history variables serve
`StrangersSpared`: `harmed`, the stages whose number was signalled when somebody
else had it, and `foreign`, the numbers that were somebody else's when the record
was read.

### State and actions of ContainerRun

`disk` is every file an archive can hold, as contents that can be compared: the
job document, the number of lines in the entrypoint's log, and per stage how
often its output was written and whether its marker is there. `token` is whose
`.secrets/hf_token` is on disk; `code` that the suite has been copied; `run[r]`
an invocation with the step it takes next; `strays` the stage scripts whose
driver is gone. `Start` is the command line with the resume's comparison of job
documents; `Clear` to `InstallToken` the way in; `BeginStage` to `StagesDone`
the stage loop; `Shred` the `finally` block's first line; `Collect`, `Contract`
and `Compare` the archive; `Deliver` and `Finish` the sinks and the exit code.
`Collect` and `Compare` read one file per step, so anything may be written in
between. Two fields of `run[r]` are not in the code and only serve the
properties: `shared`, another invocation was alive at some time beside it, and
`torn`, what the first pass read was not on disk together when it ended.

### What the model assumes of the world

* A created pod is listed before the lost-create expiry (1200 s after
  begin_create) and before an absence is 300 s old. The code's two constants
  say the same.
* `PromptPost`: a living controller does not sleep over its own POST for
  twenty minutes. The run `retry` does without it. It cannot be dropped
  together with `Lag = TRUE`: a POST sent after the expiry's listings and
  listed late is expired unseen, in the model as in the code.
* A DELETE takes effect when sent or not at all; a POST creates its pods when
  sent or not at all.
* A process id is not reused while its lease is PREPARED, and no pod of
  another owner carries the 96-bit name of an attempt.
* The `foreign_resources` policy is the default (tolerate what is known) in
  `CloudLease`; `CampaignLedger` has both.
* `CampaignLedger`: a pod costs at most its reservation's cap, which the
  deadlines bound; the hour in which a bill becomes final is longer than any
  listing is used for; the account pays for nothing but pods. Its `Reserve`
  starts from the width the caller found effective, one or two.
* `StageWatch`: a heartbeat is missing for 900 s only if the controller is dead
  or ssh has failed so long that a poll would have ended (300 s). No group of
  the stage survives KILL; whoever is given a free pid keeps it; a file written
  on the machine is seen at once.
* `StageRun`: the pid line reaches the owner file in one write, and the wrapper's
  or driver's programs do not fail where the model has no fault. What two writers
  of one stage leave on disk is not modelled: the properties about outputs except
  stages that were usurped.
* `ContainerRun`: starting a stage and its lock behave as in `StageRun`; a write
  of a file is seen whole or not at all (`_write_atomic` and the markers are
  renames; for other files the double `lstat` around each read stands for it,
  and the size and time it compares are taken to change with every write).

### Abstractions

Times and generation numbers as above; the contents of proofs; in `CloudLease`
the money, which is `CampaignLedger`'s; the convergence loop of repeated
post-create listings, of which the model keeps the last observation and the fact
of convergence; the twenty attempts of the controller's absence loop, left by
`GiveUp` at any time; `_cleanup_ambiguous_runpod_create` always ends by raising
because its immediate billing request lies inside the stabilization window. The
deadlines of the create are forgotten at the absence, since nothing reads them
later. `RunPodCreateResponseError` for a misnamed pod, and network volumes, are
left out. The stage modules leave out what a stage computes; `race_*` stages and
`publish_root`, which the script refuses; markers with a wrong content. The
container module leaves out `doctor`, dry runs and `--only`; the datasets a root
capture adds to its archive; and it checks of the evidence contract that the
evidence is there, not its contents.

## Runs

| Run | Instance | Shows |
|---|---|---|
| `lag` | 1 attempt, 1 pod; lagging listings, disk faults, host faults, 1 reaper crash; 233 k states | types, `SettledMeansGone`, `ClosedMeansReleased`, and the refinement `Implements` |
| `duplicates` | 1 attempt, 2 pods, up to 2 per POST, strangers, host faults; 1.8 M states | `RecordsValid`, `AbsenceIsTrue`, `Projectable`, `DeleteNeedsIntent` with several candidates |
| `retry` | 2 attempts of one job, 2 pods, late POSTs; 1.87 M states | `OneBilledAttemptPerJob`, `BilledMeansHeld` |
| `live` | 1 attempt, 1 pod, lag and disk faults, fairness; 38.7 k states | `EveryLeaseCloses`, `EveryPodGoes`, `HealthyAgain` |
| `ledger` | 2 attempts, a stranger's pod, caps of 2; a campaign of width one and one of width two, an account with 4 or with 6; 167 k states | `CeilingHolds`, `AccountSolvent`, `PodsAreReserved`, `BooksBalance`, `SettledAlone` |
| `stages` | 2 pids, 2 cold runs; a measurement with one driver and 2 kills, two spaced drivers and one, two drivers at any moment and none; a quant, an imported root and a candidate with one driver and one kill, the last two also with two spaced drivers and none, all three by stage names; 1.07 M states | `OneWriterUnlessUsurped`, `MarkedIsWhole`, `LogitsServed`, `SealedFromAll`, `PlanCompletes` |
| `host` | 3 stages, the token's is the second; 628 k states | `DoneIsMarked`, `TokenOnlyForFetch`, `StrangersSpared`, `UnwatchedRunFails`, `WorkStops` |
| `root` | 2 invocations, 2 jobs, 2 stages, 2 sinks, 1 kill; 3.2 M states | `TokenConfined`, `OwnJob`, `ArchiveIsSnapshot`, `OkIsDelivered` |
| `blocked`, `expiry`, `takeover`, `deadlock` | one question each | the findings below |

Between them the passing runs take every action. One pod suffices where the
question is about one pod's life, since attempts share nothing but the job's
lock and the sweep; two are needed exactly for several candidates, a stranger
beside ours, and a retry. A second crash of the reaper adds nothing: a crash
forgets everything, so the state after it is that of an idle reaper with the
files as they are, which every sweep starts from. Pods are symmetric in
`duplicates`, pods and attempts in `retry`, invocations, jobs and sinks in
`root`; no liveness run uses symmetry. The runs that check only safety have no
fairness. `Implements` was also explored with two attempts of one job, late
POSTs and one or two pods; those instances pass and take too long for a run.

Width two is the ledger's largest, so two attempts are all that can be open
together; the amounts are the smallest at which both attempts fit the ceiling,
or only one does, or the balance and not the ceiling is what refuses. Two pids
are enough for a lock to be judged, taken from a living holder, and worn again
by its owner's pid. Two cold runs tell a report of some from a report of all. In
`host` a stage lies before, at and after the token's. In `root` two invocations
are one and the one it meets; a stage writes once per run root, which is enough
for a reader to miss it.

Deadlock is checked except in `host` and `root`, whose systems end: the machine
is destroyed, every invocation has its exit code.

### Fairness

`live` assumes weak fairness of the controller (its loops are bounded and its
calls have timeouts), of the timer's sweeps and of every step within one (a
sweep runs to its end), and of the clock. It assumes strong fairness of what
an outage can interrupt but not for ever: a listing, a DELETE that works, the
relisting after it, and the billing data's publication. Controllers may die
whenever they like and nothing is assumed about that.

`ledger` assumes that absences age, that a process of an attempt reads the
account again and again, and strong fairness of the projection (the reaper's
sweeps try it every minute, and it is possible only while a recent reading is
at hand). `stages` assumes that a script that runs goes on, and that some driver
starts an unfinished stage again and again; it is asked only where nothing is
killed and stages are started in order. `host` assumes nothing but the
watchdog's own loop.

## Findings

Each is a run that TLC finds violated, with the line of the repository it
disagrees with; `PROJECT.json` quotes them.

* `blocked`: a lost create with a candidate and a blocker fails every later
  sweep, so the reaper never becomes healthy again.
* `expiry`: a reaper that dies between releasing the reservation of an expired
  create and closing the lease cannot repeat the release: the lease stays
  CREATING.
* `takeover`: an invocation that reads the owner file before its pid line is in
  it takes the lock of a living holder for stale and retakes it: both write the
  stage's output, and nobody was killed. By reading, the same follows when the
  owner leaves between the reading of its pid and `kill -0`, and when two
  invocations judge one dead owner's lock and the slower one removes what the
  faster one has retaken. All of them need a second invocation at the moment the
  first one takes or leaves its lock.
* `deadlock`: two attempts of a width-two campaign are bound and both pods are
  gone; each commit demands the other's pod in the inventory, so neither attempt
  can be settled and no snapshot recorded.

### Observed, and not findings

Behaviour the models show that no line of the repository disagrees with, that
harms nothing, or that is too rare to have a run of its own.

* A controller that dies between closing the lease of a refused create and
  releasing its reservation leaves the reservation held: the lease is resolved
  and no sweep visits it (`ReleaseRejected`, `measure_cloud.py:7745`).
* Absence can be confirmed of a pod that is up: the reaper judges by a listing
  that may be older than a POST whose id it learns from the ledger a moment
  later. The next sweep revokes it and nothing is settled wrongly.
* Two pods from one POST, with the answer recorded only in the ledger, leave a
  binding that can never be projected.
* A stage's lock without an owner file (killed between `mkdir` and the
  redirection, or between the two halves of the trap's removal) ends every later
  invocation: reading the owner fails under `pipefail` and `errexit`. The
  directory has to be removed by hand. The owner's host is recorded and not
  looked at.
* A killed repetition of `setup` or `fetch_target` leaves the marker on a partial
  output. The driver's next pass repeats the stage before anything uses it
  (`MarkedIsWhole`); a stage called by name finds the marker and goes on.
* The lock is one per stage, so a second driver's `setup` resets the checkouts
  under a measurement that is running. `MarkedIsWhole` therefore speaks of what a
  stage works on only for a driver that is alone.
* The marker is read before the lock is taken. With several drivers and a kill, a
  redone stage that was marked meanwhile and is killed leaves its marker on a
  partial output; the property asks for one driver or no kill.
* The EXIT trap removes the stage's lock whoever holds it by then.
* A capture killed before its marker makes its run root unusable, by design: an
  output without a marker is never adopted.
* `stage seal` called by name after an interrupted score seals the reports that
  are there. The drivers that run stages in order never get there.
* The watchdog that fires between two stages finds a group already gone, reports
  it stopped and ends; the next launch is unwatched. The run is reported failed
  (`UnwatchedRunFails`), as it is when disarming fails after a complete run.
* The watchdog proves the identity of the group once, and TERM and KILL follow
  (`watchdog.sh` 232-263). A group that ends under TERM, and whose number is given
  to another group before the next poll half a second later, is answered for by
  that one, which is then killed. The file's header (10-13) leaves no room for
  that; TLC finds it as a violation of `harmed = {}` in eleven states.
  `StrangersSpared` says what does hold.
* Between `ABANDONED.json` (`watchdog.sh` 173) and the watchdog's exit (276) the
  process lives, so `disarm_watchdog`, which asks for no more than that, succeeds
  and the run can be reported a success beside an `ABANDONED.json`. The property
  is therefore about a watchdog that has gone, and not about that file.
* A second container invocation on a root in use clears the first one's token.
* Two resumes with different jobs may both find a root without a job document;
  the second then runs under the first's (`container_entry.py` 1770, 1940).
* `measure --stop-after`, and a `stage` interrupted from outside, end without any
  delivery, stdout included: the archive's evidence contract refuses before any
  sink is reached. The exit code is not 0.

## Proofs

`TypeCorrect` (`CloudLease_proofs`): `Spec => []TypeOK` for any sets of
attempts and pods, any `JobOf`, any bounds. `TypeOK` is inductive by itself.
There is a lemma for each kind of write (what a record operation returns, what
moving a controller or a sweep does), then one per group of actions.

`RecordsStayValid` (`CloudLease_proofs`): `Spec => []RecordsValid`.
`RecordsValid` is not inductive: the reaper writes what it computed from its
copy, and a destroy intent of an AMBIGUOUS lease without candidates would be
invalid. The invariant `Consistent` adds what excludes both. `ReaperRefs`: as
long as the reaper's reference is current its copy is the record, and the
record is unresolved. `ControllerRefs`: a current reference of the controller
is to a written record, and to one that is AMBIGUOUS without candidates only
between writing it and reading it back. `NotBegun`: a controller that has not
begun has written nothing. `SettlesAbsent`: a lease being settled is
ABSENCE_CONFIRMED in the reaper's copy.

`SettledIsGone` (`CloudLeaseSettled_proofs`): `Spec => []SettledMeansGone`, a
lease closed as settled names only pods that are gone. What closes a lease is
a memory, of the controller or of the sweep, of a listing without its ids, so
the invariant `Secured` has to say why such a memory can be trusted. `Owned`:
every id in the two files, in the reaper's copy and in the controller's hand is
a pod under the lease's exact name (`Named`: created by some POST).
`AgedVisible`: once the absence has aged, or billing is staged, the lease is in
a state in which no POST can happen any more and none of its pods hides from a
listing; from then on a listing without an id means the pod is gone, and gone
pods stay gone. `ControllerCloses` and `ReaperCloses`: whoever is about to write
TERMINAL has taken such a listing. The step of each action is shown through one
lemma, `SecuredStep`, over what a step may do to the account, the records and the
processes. That a created pod is listed by the time an absence has aged is the
assumption of the model named above, not a consequence; the theorem is
relative to it, and holds with or without `Lag`.

`ClosedIsReleased` (`CloudLeaseCovered_proofs`): `Spec => []ClosedMeansReleased`,
whatever the provider does. The ledger is written before the lease, by either
process, and either may die in between; the invariant `Started` says what each
stage of the record, of the reaper's copy and of either process presupposes of
the ledger (`Begun`, `AtHand`, `Freed`), and that the copies are former records
(`Former`), so that what an old copy says of a cancellation still holds.

`BilledIsHeld`, `OneBilledPerJob`, `DeletedWithIntent` and `AttemptImplements`
(same module): `BilledMeansHeld`, `OneBilledAttemptPerJob`, `DeleteNeedsIntent`
and the refinement `Implements`, under two named conditions on the provider and
the machine. The invariant is `Covered`. Its centre is `Over(l)`: no POST of the
attempt can come any more and none of its pods bills. `Concluded` says that
whoever closes an attempt or releases its money, or has taken the step before
it, does so when it is over; and over is for good. What makes it inductive is
what each conclusion rests on: a definitive refusal or a cancellation excludes
the POST (`Unposted`); an expiry has the sweep's listing show all that bills
(`SeenAll`), since nothing hides any more (`Expired`) and the pre-create listing
cannot contain a pod of ours (`Fresh`); a settlement has its pods gone
(`Secured`), and with one pod per POST they are all there are. `Intended` and the
generation make every DELETE one of a lease that names the pod. The refinement
then splits: a step touches one attempt, and of it only one of record, ledger
and pods (`NextTouches`), and each of those moves by one of the six abstract
steps (`LifeMoves`, `MoneyMoves`, `BillsMoves`).

The conditions, and why they cannot be dropped:

* `OnePodPerPost`, `MaxPerPost = 1` and finitely many pods. With two, a
  controller whose run fails between recording the answer and taking the
  post-create inventory settles the pod it knows while the sibling bills on
  (`cloudlease.py:2035` in the hazards). It is a fault of the provider the code
  defends against where it sees it; the runs with `MaxPerPost = 2` check what is
  left of the properties then.
* `Punctual`, `PromptPost` or no `Lag`: a POST sent after the expiry's listings
  and listed late is expired unseen.

`DeletedWithIntent` holds under these two, or else wherever the controller's
disk records every answer (no `DiskFaults`), with any number of pods per POST:
then what a controller has in its hand to delete is named in its lease before it
moves on (`PodNamed`, over `Acknowledged`), where with one pod per POST it is
the only pod there is. One of the two is needed. With `Lag`, `DiskFaults`,
`HostFaults` and two pods per POST together TLC finds a DELETE of an id the
lease does not name: the answered pod is not recorded and not listed, the reaper
meanwhile binds the other pod and records its own intent, and the controller,
finding the lease DESTROYING with an id that is not its own (`measure_cloud.py`
7689-7702), raises with its `pod_id` set; its `finally` block needs no intent of
its own for a DESTROYING lease and deletes both. The pod it deletes is the
attempt's own, so nothing is harmed.

`AbsentIsProjectable` and `AbsenceStaysTrue` (same module) are about a confirmed
absence, at any number of pods per POST where the disk records every answer.
`Projectable` can fail in two ways: the reservation was cancelled although ids turn
up later, or the ledger is bound to other ids than the lease. `Voided` excludes the
first: what cancels a reservation leaves a lease without ids of which no further
id can be learnt (`Void`), in the record as in the copy the sweep works on. `Tied`
excludes the second: an id is in the lease before it is in the ledger
(`Acknowledged`), or there is but one id (`OnePod`). It asks for `Punctual`, for an
expiry's sake, and for one pod per POST or no `DiskFaults`. With `DiskFaults` and
two pods TLC finds a ledger bound to the answered id beside a record that names
both.

`AbsenceIsTrue` follows from `Full`: a listing that is about to confirm an absence
shows every pod the record names that still bills, because ids enter the record
before the listing is taken or come out of it, never in between. It asks for no
`Lag` and no `DiskFaults`. Under `Lag` a pod may be hidden from the one listing
that confirms (the hour of stabilization, and `SettledIsGone`, are for that);
with `DiskFaults` TLC finds, at one pod per POST already, an id that is in the
ledger only: the sweep lists before the POST, the reaper adopts the id from the
ledger, and confirms its absence from that listing. The run `duplicates` checks
both properties under these hypotheses.

The theorems of `CloudLease` rest on `ConstantsAssumption`, which TLC evaluates in
every run of `CloudLease`, and on the conditions they name; each uses the
invariants of those before it.

`BilledStaysCovered` and `NeverTwoBills` (`PaidAttempt_proofs`): in the abstract
attempt, whatever bills belongs to an open attempt whose money is held, and two
attempts of one job never bill together. The inductive invariant adds to the
first that two attempts of one job are never open together, which is what
`begin_create` checks; the second follows. They need no assumption, and
`AttemptImplements` carries them over to `CloudLease`.

`CeilingStaysHeld` and `PodsStayReserved` (`CampaignLedger_proofs`), for any
attempts, cap, floor, margin and account. The ceiling bounds settled charges
plus a cap per open attempt, so the proof counts: `OpenGrows`, `OpenStays` and
`OpenShrinks` say what a phase change does to the number of open attempts, and
`Within` that there are never more of them than the authorized width.
`CommitmentFalls` is the step that matters: a settled attempt gives its cap back
and pays a bill of at most that cap. `Created` says that a bill is final only for
a pod that is gone, and that pods come from one POST of an attempt that was
creating; with it `Reserved` is inductive, since what settles an attempt then
finds its pod gone. `TypeCorrect` is the first conjunct of that invariant.

`AccountStaysSolvent` is about admission deciding on a balance read earlier. The
invariant `Solvent` says how wrong a balance can be, recorded or read: too high by
at most one cap for each pod that went and has not aged (`Missed`), and each of
those is a reservation still open, which admission adds. `MissedCounts` is the
counting step, `Unpaid` and `Missed` being disjoint parts of what is open. It holds
because no balance is used for as long as an absence takes to age. The theorems of
`CampaignLedger` rest on `CampaignLedgerAssumption`.

`BooksStayBalanced` is about a sum over the settled attempts, a recursive function
over sets, and takes the place of an induction by a least counterexample: the
strict inclusion of finite sets is well-founded, so a set of subsets for which
something fails has a least one (`LeastSubset`). By it two solutions of the
recursion agree (`SumsAgree`), there is one (`SumsExist`), the sum does not depend
on which element is taken first (`TotalWithout`) and depends only on the values in
the set (`TotalAgrees`). `StepBalances` is then short: a projection adds its
attempt's bill, and no pod that goes later can change a bill already settled,
since a settled attempt has no pod (`Reserved`).

`OneWriterWhileKept`, `MarkedStaysWhole`, `LogitsStayServed` and
`SealedStaysFull` (`StageRun_proofs`), for any pids, cold runs, jobs, regimes and
kills. `Kept` says what the lock is worth in any case: while no takeover has
removed it under a living holder, a stage has one holder at most and its directory
is there. `Guarded` says when that never happens: where a second invocation meets
the first one only in its body, the owner file names the holder as long as it has
the lock (`Owned`), so whoever reads it sees a living pid, and whoever is removing
a lock is alone on the stage (`Apart`). The condition cannot be dropped, as the run
`takeover` shows. `Lone` and `Outputs` follow a driver's pass: what it has seen
ended well is marked (`pass`), what reaches its marker is whole, and a repeated
stage is whole again before the pass goes on (`Redone`, `Behind`). `Reports` and
`Seals` follow the reports from the score stage to the receipt; `ScoreBeforeSeal`
reads off each plan that the one precedes the other. Only `SealedStaysFull` has a
hypothesis, `Orderly`: stages are started in order, or by one driver that is not
killed; the observation on `stage seal` below the findings is what happens
otherwise. It holds of the `Regimes` of the run `stages`.

`DoneStaysMarked`, `TokenStaysForFetch`, `UnwatchedStaysFailed` and
`StrangersStaySpared` (`StageWatch_proofs`), for a job of any length with its
fetch_target stage anywhere. `Counted` ties the controller's step to the number
of stages it counts and to the launches that have not been made; `Reported`
follows a success from the leader's exit over the wrapper's file to the count;
`Erased` says that a token left after the fetch was counted cannot be, and that
while it is there nothing beyond the stage at hand was launched; `Watched` that
success stays open on the way out only after the watchdog was found alive and
turned off, however far it had come in giving up. The first two are not
inductive without them: a poll, for one, can only be believed because of what
the wrapper may have written. `StrangersStaySpared` needs `Spared`: the number
in hand, once identified, was nobody else's when the record was read, and is not
changed after. They rest on `StageWatchAssumption`.

`TokenStaysConfined` and `JobStaysOwn` (`ContainerRun_proofs`), for any number of
invocations alive at a time, any jobs, plans, sinks and kills. The invariant
says of each invocation what holds whatever the others do (`Own`): where its
token can be, and, while it has the root to itself, whose token is there and how
the job document on disk, the one it read and the one it named follow from the
job it was given (`KeepsJob`). What makes `Own` inductive is `Aware`, that of two
living invocations each has had company, so a step of one can only disturb what
the other no longer claims (`MoveHolds`). They rest on
`ContainerRunAssumption`; that no stage is called `job` or `logs` is used there.

`ArchivesAreSnapshots` and `SuccessIsDelivered` (same module). That an archive read
file by file beside writers is one moment of the root rests on nothing coming
back to what it was: `Onward` says of every step that outputs and the log only
grow and that the job document is replaced at most once more, so a file that
reads the same twice was the same all the time between (`Later`), in particular
at the moment the first pass ended. `Typed` bounds the log by the invocations
past their stages, which `TypeCorrect` needs. `OkIsDelivered` is an action property
of the step that gives exit code 0; its invariant carries the contract's evidence
from the check to the archive that is delivered.

Model-checked only: liveness, that is `EveryLeaseCloses`, `EveryPodGoes`,
`HealthyAgain`, `PlanCompletes`, `WorkStops` and `SettledAlone`. It rests on
fairness and ENABLED, which the prover does not have. Every type invariant,
safety invariant and action property of the passing runs is a theorem.

### What the proofs changed in the model

A proof that fails for a good reason says something about the model. Three did:
the decision of a lost create was written as a CASE whose branches overlapped,
so TLA+ left open which one is taken; it is an IF chain now, in the order the code
tests. The container's log is bounded by the number of invocations, which needs
`Run` to be finite, an assumption of the module since. And `DeleteNeedsIntent`,
`Projectable` and `AbsenceIsTrue` turned out to depend on what a POST creates and on
whether its answer could be recorded, with the counterexamples above.

## Plan

Done: `CloudLease` with its records and theorems; `PaidAttempt` and the
refinement; `CampaignLedger`, `StageRun`, `StageWatch` and `ContainerRun`, each
with the theorems above.

1. The reaper's installation and the admission gate on the health stamp's
   generation; the legacy teardown with its repeated signals.
2. `registry_add`'s several files, and the campaign driver's resume rules.

## What is not modelled

Anything below the protocol: HTTP, SSH, JSON and file formats, hashing,
tensors, statistics, rendering. That is by far the largest part of the
repository by lines (the engines, the dataset and registry tools, the panel and
the statistics): sequential code over files and tensors, with floating point,
and no interleavings of its own; what it computes is covered by the
repository's tests. Of the control code, not yet modelled: items 1 and 2 of the
plan, the controller-loss drill (a composition of the same store operations),
the verification and extraction of a received archive (a pure function of it),
and the API clients of the other providers.
