---------------------------- MODULE ScanLaunch ----------------------------
(***************************************************************************)
(* The scan loop of ADR-0006 (ingest/scanlaunch): HTTP handlers that only  *)
(* record what a client wants of a scan, one reconciler goroutine that     *)
(* alone talks to gvmd, the registry file both write, and gvmd itself, on  *)
(* which an administrator may act too.                                     *)
(*                                                                         *)
(* Registry.mu makes each registry method one action.  The reconciler's    *)
(* tick is many: it works from a snapshot of the registry, and a bridge    *)
(* call and the update that follows it are two steps, between which        *)
(* handlers run, gvmd moves and the process may stop.  At most one job has *)
(* a given scan_history_id, so a job is named by its scan.  Requests that  *)
(* are refused (authz, CRL, allowlist) reach no registry method.           *)
(***************************************************************************)
EXTENDS Integers, FiniteSets

CONSTANTS
    Scans,          \* scan_history_ids
    TargetOf,       \* the target each is for; all of one tenant, as AllowedO demands
    MaxConcurrent,  \* SCAN_MAX_CONCURRENT
    RescanWindow, MaxDuration, Retention,   \* in ticks of the clock
    MaxClock,       \* bound: the clock stops here
    Unwanted,       \* bound: the scans that a client may DELETE
    Administered,   \* bound: the scans whose tasks an administrator may touch
    DiskFaults,     \* whether saveLocked may fail
    BridgeFaults    \* whether a call of scan_bridge.py may fail, with or without its effect

ASSUME ScanAssumption ==
    /\ MaxConcurrent \in Nat
    /\ RescanWindow \in Nat /\ MaxDuration \in Nat /\ Retention \in Nat
    /\ MaxClock \in Nat \ {0}
    /\ Unwanted \subseteq Scans /\ Administered \subseteq Scans
    /\ DiskFaults \in BOOLEAN /\ BridgeFaults \in BOOLEAN

VARIABLES
    jobs,       \* Registry.jobs
    file,       \* the registry file
    findings,   \* the cached findings files
    deleting,   \* handleDelete calls between Get and Update
    phase, snap, done, slots, call,   \* the reconciler's place in its tick
    task,       \* external: gvmd's tasks by name
    clock

tickVars == <<phase, snap, done, slots, call>>
scanVars == <<jobs, file, findings, deleting, tickVars, task, clock>>

---------------------------------------------------------------------------
(* Jobs and tasks *)

FailedStates == {"FAILED", "STOPPED", "EXPIRED"}
TerminalStates == {"COMPLETED"} \cup FailedStates
ScanStates == {"ABSENT", "PENDING", "RUNNING"} \cup TerminalStates

JobType == [state : ScanStates, stopRequested : BOOLEAN,
            submittedAt : Nat,
            changedAt : Nat]    \* StartedAt of a job that runs, CompletedAt of one that is over

NoJob == [state |-> "ABSENT", stopRequested |-> FALSE,
          submittedAt |-> 0, changedAt |-> 0]

Present(job) == job.state # "ABSENT"
Terminal(job) == job.state \in TerminalStates
Live(job) == Present(job) /\ ~Terminal(job)

Startable == {"none", "New", "Stopped", "Interrupted"}
Scanning == {"Running"}    \* Requested, Queued, Running and Processing
TaskStates == Startable \cup Scanning \cup {"Stop Requested", "Done"}

\* cmd_status: a task that is gone reads as interrupted.
StatusOf(s) == IF task[s] = "none" THEN "Interrupted"
               ELSE IF task[s] \in {"Done", "Stopped", "Interrupted"} THEN task[s] ELSE "Running"

\* cmd_stop
StopEffect(s) == IF task[s] \in Scanning THEN [task EXCEPT ![s] = "Stop Requested"] ELSE task

\* cmd_launch starts the task only if it is idle.
LaunchEffect(s) == IF task[s] \in Startable THEN [task EXCEPT ![s] = "Running"] ELSE task

\* What a call that fails can leave behind: nothing, a task that was not started, or all of it.
FailedLaunch(s) ==
    {task, LaunchEffect(s)} \cup (IF task[s] = "none" THEN {[task EXCEPT ![s] = "New"]} ELSE {})

\* Every caller but FindOrCreate keeps in memory what it could not save.
Stores(new) == jobs' = new /\ file' \in {new} \cup (IF DiskFaults THEN {file} ELSE {})

---------------------------------------------------------------------------
(* The handlers *)

InCooldown(s) ==
    \E k \in Scans \ {s} : /\ Present(jobs[k]) /\ jobs[k].state \notin FailedStates
                           /\ TargetOf[k] = TargetOf[s]
                           /\ jobs[k].submittedAt > clock - RescanWindow

\* FindOrCreate, a new job. A failed save takes it back, which leaves nothing.
Create(s) ==
    /\ ~Present(jobs[s])
    /\ ~InCooldown(s)
    /\ jobs' = [jobs EXCEPT ![s] = [NoJob EXCEPT !.state = "PENDING", !.submittedAt = clock]]
    /\ file' = jobs'
    /\ UNCHANGED <<findings, deleting, tickVars, task, clock>>

\* FindOrCreate, a retry of a job that failed.
Reopen(s) ==
    /\ jobs[s].state \in FailedStates
    /\ Stores([jobs EXCEPT ![s].state = "PENDING", ![s].submittedAt = clock, ![s].changedAt = 0])
    /\ UNCHANGED <<findings, deleting, tickVars, task, clock>>

\* handleDelete looks at a clone of the job, and asks for a stop if it is not over.
DeleteLooks(s) ==
    /\ s \in Unwanted /\ Live(jobs[s])
    /\ deleting' = deleting \cup {s}
    /\ UNCHANGED <<jobs, file, findings, tickVars, task, clock>>

\* Mutant: the handler itself ends a job that waits, instead of leaving it to the reconciler.
DeleteMarksStopped(s) ==
    /\ s \in deleting
    /\ deleting' = deleting \ {s}
    /\ Stores(IF jobs[s].state = "PENDING" THEN [jobs EXCEPT ![s].state = "STOPPED", ![s].changedAt = clock]
              ELSE [jobs EXCEPT ![s].stopRequested = TRUE])
    /\ UNCHANGED <<findings, tickVars, task, clock>>

\* The job may have ended, or been reopened, since.
DeleteMarks(s) ==
    /\ s \in deleting
    /\ deleting' = deleting \ {s}
    /\ Stores([jobs EXCEPT ![s].stopRequested = TRUE])
    /\ UNCHANGED <<findings, tickVars, task, clock>>

---------------------------------------------------------------------------
(* The reconciler's tick *)

NoCall == [scan |-> "none", answer |-> "none"]
ToStop == {s \in Scans : Live(snap[s]) /\ snap[s].stopRequested}
ToPoll == {s \in Scans : snap[s].state = "RUNNING" /\ ~snap[s].stopRequested}
ToLaunch == {s \in Scans : snap[s].state = "PENDING" /\ ~snap[s].stopRequested}

\* Mutant: the snapshot is sorted the other way round.
Newest(ss) == {s \in ss \ done : \A k \in ss \ done : snap[s].submittedAt >= snap[k].submittedAt}

\* List sorts the snapshot by submission; ties are in any order.
Oldest(ss) == {s \in ss \ done : \A k \in ss \ done : snap[s].submittedAt <= snap[k].submittedAt}

Answered(s, answer) == call' = [scan |-> s, answer |-> answer]
Handled(s) == done' = done \cup {s} /\ call' = NoCall

Ended(s, state) == [jobs EXCEPT ![s].state = state, ![s].changedAt = clock]

\* The jobs that are over are passed over in all of the tick.
TickStarts ==
    /\ phase = "idle"
    /\ snap' = [s \in Scans |-> IF Live(jobs[s]) THEN jobs[s] ELSE NoJob]
    /\ phase' = "stop" /\ done' = {}
    /\ UNCHANGED <<jobs, file, findings, deleting, slots, call, task, clock>>

\* Mutant: a stop that gvmd refuses leaves the job as it was.
StopIfObeyed(s) ==
    /\ phase = "stop" /\ s \in Oldest(ToStop)
    /\ \/ /\ task' = IF snap[s].state = "RUNNING" THEN StopEffect(s) ELSE task
          /\ Stores(Ended(s, "STOPPED"))
       \/ BridgeFaults /\ snap[s].state = "RUNNING" /\ UNCHANGED <<task, jobs, file>>
    /\ Handled(s)
    /\ UNCHANGED <<findings, deleting, phase, snap, slots, clock>>

\* reconciler.stop: gvmd is asked only if a scan was running, and what it answers changes nothing.
Stop(s) ==
    /\ phase = "stop" /\ s \in Oldest(ToStop)
    /\ task' \in IF snap[s].state # "RUNNING" THEN {task}
                 ELSE {StopEffect(s)} \cup (IF BridgeFaults THEN {task} ELSE {})
    /\ Stores(Ended(s, "STOPPED"))
    /\ Handled(s)
    /\ UNCHANGED <<findings, deleting, phase, snap, slots, clock>>

CountActive ==
    /\ phase = "stop" /\ ToStop \subseteq done
    /\ slots' = MaxConcurrent - Cardinality({s \in Scans : jobs[s].state = "RUNNING"})
    /\ phase' = "poll" /\ done' = {}
    /\ UNCHANGED <<jobs, file, findings, deleting, snap, call, task, clock>>

AskStatus(s) ==
    /\ phase = "poll" /\ call = NoCall /\ s \in Oldest(ToPoll)
    /\ \/ Answered(s, StatusOf(s)) /\ done' = done
       \/ BridgeFaults /\ Handled(s)
    /\ UNCHANGED <<jobs, file, findings, deleting, phase, snap, slots, task, clock>>

PollEnds(s) ==
    /\ phase = "poll" /\ call.scan = s /\ call.answer \in {"Stopped", "Interrupted"}
    /\ Stores(Ended(s, IF call.answer = "Stopped" THEN "STOPPED" ELSE "FAILED"))
    /\ Handled(s)
    /\ UNCHANGED <<findings, deleting, phase, snap, slots, task, clock>>

TooLong(s) == clock - snap[s].changedAt > MaxDuration

PollExpires(s) ==
    /\ phase = "poll" /\ call.scan = s /\ call.answer = "Running" /\ TooLong(s)
    /\ task' \in {StopEffect(s)} \cup (IF BridgeFaults THEN {task} ELSE {})
    /\ Stores(Ended(s, "EXPIRED"))
    /\ Handled(s)
    /\ UNCHANGED <<findings, deleting, phase, snap, slots, clock>>

\* Only the progress changes, but the whole registry is saved again.
PollContinues(s) ==
    /\ phase = "poll" /\ call.scan = s /\ call.answer = "Running" /\ ~TooLong(s)
    /\ Stores(jobs)
    /\ Handled(s)
    /\ UNCHANGED <<findings, deleting, phase, snap, slots, task, clock>>

\* Mutant: a cache that could not be written does not keep the job from completing.
FetchUnwritten(s) ==
    /\ phase = "poll" /\ call.scan = s /\ call.answer = "Done"
    /\ findings' \in {[findings EXCEPT ![s] = "report"]} \cup (IF DiskFaults THEN {findings} ELSE {})
    /\ Answered(s, "cached")
    /\ UNCHANGED <<jobs, file, deleting, phase, snap, done, slots, task, clock>>

\* complete, first half: the report is read and cached; gvmd may have lost it since it said Done.
Fetch(s) ==
    /\ phase = "poll" /\ call.scan = s /\ call.answer = "Done"
    /\ \/ /\ findings' = [findings EXCEPT ![s] = IF task[s] \in {"none", "New"}
                                                 THEN "empty" ELSE "report"]
          /\ Answered(s, "cached") /\ done' = done
       \/ /\ BridgeFaults \/ DiskFaults
          /\ findings' = findings
          /\ Handled(s)
    /\ UNCHANGED <<jobs, file, deleting, phase, snap, slots, task, clock>>

Complete(s) ==
    /\ phase = "poll" /\ call.scan = s /\ call.answer = "cached"
    /\ Stores(Ended(s, "COMPLETED"))
    /\ Handled(s)
    /\ UNCHANGED <<findings, deleting, phase, snap, slots, task, clock>>

PollsEnd ==
    /\ phase = "poll" /\ call = NoCall /\ ToPoll \subseteq done
    /\ phase' = "launch" /\ done' = {}
    /\ UNCHANGED <<jobs, file, findings, deleting, snap, slots, call, task, clock>>

Launch(s) ==
    /\ phase = "launch" /\ call = NoCall /\ slots > 0 /\ s \in Oldest(ToLaunch)
    /\ \/ task' = LaunchEffect(s) /\ Answered(s, "ok")
       \/ BridgeFaults /\ task' \in FailedLaunch(s) /\ Answered(s, "error")
    /\ UNCHANGED <<jobs, file, findings, deleting, phase, snap, done, slots, clock>>

\* Mutant: a launch takes no slot.
LaunchedUncounted(s) ==
    /\ phase = "launch" /\ call = [scan |-> s, answer |-> "ok"]
    /\ Stores([jobs EXCEPT ![s].state = "RUNNING", ![s].changedAt = clock])
    /\ Handled(s)
    /\ UNCHANGED <<findings, deleting, phase, snap, slots, task, clock>>

\* Mutant: the update writes back the job of the snapshot.
LaunchedFromSnapshot(s) ==
    /\ phase = "launch" /\ call = [scan |-> s, answer |-> "ok"]
    /\ Stores([jobs EXCEPT ![s] = [snap[s] EXCEPT !.state = "RUNNING", !.changedAt = clock]])
    /\ slots' = slots - 1
    /\ Handled(s)
    /\ UNCHANGED <<findings, deleting, phase, snap, task, clock>>

Launched(s) ==
    /\ phase = "launch" /\ call = [scan |-> s, answer |-> "ok"]
    /\ Stores([jobs EXCEPT ![s].state = "RUNNING", ![s].changedAt = clock])
    /\ slots' = slots - 1
    /\ Handled(s)
    /\ UNCHANGED <<findings, deleting, phase, snap, task, clock>>

LaunchFails(s) ==
    /\ phase = "launch" /\ call = [scan |-> s, answer |-> "error"]
    /\ Stores(Ended(s, "FAILED"))
    /\ Handled(s)
    /\ UNCHANGED <<findings, deleting, phase, snap, slots, task, clock>>

Old(job) == Terminal(job) /\ job.changedAt < clock - Retention

\* ReapTerminal: findings are removed before the registry is saved. A handleDelete that meets its
\* job gone fails without an effect.
TickEnds ==
    /\ phase = "launch" /\ call = NoCall
    /\ slots <= 0 \/ ToLaunch \subseteq done
    /\ LET old == {s \in Scans : Old(jobs[s])} IN
          /\ IF old = {} THEN UNCHANGED <<jobs, file>>
             ELSE Stores([s \in Scans |-> IF s \in old THEN NoJob ELSE jobs[s]])
          /\ findings' = [s \in Scans |-> IF s \in old THEN "none" ELSE findings[s]]
          /\ deleting' = deleting \ old
    /\ phase' = "idle" /\ snap' = [s \in Scans |-> NoJob] /\ done' = {} /\ slots' = 0
    /\ UNCHANGED <<call, task, clock>>

---------------------------------------------------------------------------
(* gvmd, the process and the clock *)

External == UNCHANGED <<jobs, file, findings, deleting, tickVars, clock>>

TaskEnds(s) ==
    /\ \/ task[s] = "Running" /\ task' \in {[task EXCEPT ![s] = e] : e \in {"Done", "Interrupted"}}
       \/ task[s] = "Stop Requested" /\ task' = [task EXCEPT ![s] = "Stopped"]
    /\ External

AdminActs(s) ==
    /\ s \in Administered /\ task[s] # "none"
    /\ task' \in {StopEffect(s), [task EXCEPT ![s] = "none"]}
    /\ External

Restart ==
    /\ jobs' = file
    /\ deleting' = {}
    /\ phase' = "idle" /\ snap' = [s \in Scans |-> NoJob] /\ done' = {} /\ slots' = 0 /\ call' = NoCall
    /\ UNCHANGED <<file, findings, task, clock>>

Tick ==
    /\ clock < MaxClock
    /\ clock' = clock + 1
    /\ UNCHANGED <<jobs, file, findings, deleting, tickVars, task>>

ScanInit ==
    /\ jobs = [s \in Scans |-> NoJob] /\ file = jobs
    /\ findings = [s \in Scans |-> "none"]
    /\ deleting = {}
    /\ phase = "idle" /\ snap = jobs /\ done = {} /\ slots = 0 /\ call = NoCall
    /\ task = [s \in Scans |-> "none"]
    /\ clock = 1

Handler(s) == Create(s) \/ Reopen(s) \/ DeleteLooks(s) \/ DeleteMarks(s)

PollStep(s) ==
    AskStatus(s) \/ PollEnds(s) \/ PollExpires(s) \/ PollContinues(s) \/ Fetch(s) \/ Complete(s)

Reconciler ==
    \/ TickStarts \/ CountActive \/ PollsEnd \/ TickEnds
    \/ \E s \in Scans : Stop(s) \/ PollStep(s) \/ Launch(s) \/ Launched(s) \/ LaunchFails(s)

Runs ==
    \/ \E s \in Scans : Handler(s) \/ TaskEnds(s) \/ AdminActs(s)
    \/ Reconciler
    \/ Tick

ScanNext == Runs \/ Restart

ScanSpec == ScanInit /\ [][ScanNext]_scanVars

\* The process stays up at last, its ticker and the clock go on, gvmd's scans end, and a status or a
\* fetch that is tried again and again does not fail every time. Nothing is assumed of clients,
\* administrators or the file.
FairScanSpec ==
    /\ ScanSpec
    /\ <>[][Runs]_scanVars
    /\ WF_scanVars(Reconciler) /\ WF_scanVars(Tick)
    /\ \A s \in Scans :
          /\ WF_scanVars(TaskEnds(s))
          /\ SF_scanVars(AskStatus(s) /\ call' # NoCall)
          /\ SF_scanVars(Fetch(s) /\ call' # NoCall)

---------------------------------------------------------------------------
(* Properties *)

ScanTypeOK ==
    /\ jobs \in [Scans -> JobType] /\ file \in [Scans -> JobType] /\ snap \in [Scans -> JobType]
    /\ findings \in [Scans -> {"none", "empty", "report"}]
    /\ task \in [Scans -> TaskStates]
    /\ phase \in {"idle", "stop", "poll", "launch"}
    /\ slots \in Int /\ clock \in 1 .. MaxClock
    /\ done \subseteq Scans /\ deleting \subseteq Scans
    /\ call = NoCall \/ (call.scan \in Scans /\ phase \in {"poll", "launch"})

\* The scans this tick has still to stop, poll or launch.
Awaiting ==
    IF phase = "stop" THEN (ToStop \ done) \cup ToPoll \cup ToLaunch
    ELSE IF phase = "poll" THEN (ToPoll \ done) \cup ToLaunch
    ELSE IF phase = "launch" THEN ToLaunch \ done ELSE {}

\* reconciler.go: "the classic count-then-start and find-then-create TOCTOU races are structurally
\* impossible". Whatever handlers did since the snapshot, a job the tick has yet to act on is in
\* the state the snapshot shows, so no update overwrites a state it did not read.
ReadIsCurrent == \A s \in Awaiting : jobs[s].state = snap[s].state

\* SCAN_MAX_CONCURRENT: the jobs that run never exceed it, through stops and retries during a tick
\* and through restarts from whatever the file holds.
RunningWithinCap ==
    \A registry \in {jobs, file} :
        Cardinality({s \in Scans : registry[s].state = "RUNNING"}) <= MaxConcurrent

\* readFindings: a COMPLETED job that is not due for removal has its findings, after any crash, and
\* they are a report unless the task is gone from gvmd.
CompletedHasFindings ==
    \A registry \in {jobs, file}, s \in Scans :
        registry[s].state = "COMPLETED" /\ ~Old(registry[s]) =>
            findings[s] = "report" \/ (findings[s] = "empty" /\ task[s] = "none")

ScanInv == ScanTypeOK /\ CompletedHasFindings

\* handleDelete answers "STOPPING" and the reconciler's updates change only what they are about: a
\* stop that is recorded for a scan is not lost before the scan is over, whatever the tick was doing.
StopIsNotForgotten ==
    [][\A s \in Scans :
          Live(jobs[s]) /\ jobs[s].stopRequested /\ file[s].stopRequested /\ Live(jobs'[s])
              => jobs'[s].stopRequested]_scanVars

\* Every scan ends: it waits for a slot behind older ones only, however often others are retried, a
\* stop ends it though gvmd refuses, and a task that vanishes does not hold its slot. (At the bound
\* of the clock submission times are no longer distinct, and no scan becomes too long.)
InTime(job) == job.submittedAt < MaxClock /\ job.changedAt + MaxDuration < MaxClock
EveryScanEnds == \A s \in Scans : (Live(jobs[s]) /\ InTime(jobs[s])) ~> ~Live(jobs[s])

\* FindOrCreate: a job that "was stopped/expired is reopened for a fresh retry", one that only a new
\* DELETE stops. The code does not keep this one.
RetryIsFresh ==
    [][\A s \in Scans : Reopen(s) => ~jobs'[s].stopRequested]_scanVars

===========================================================================
