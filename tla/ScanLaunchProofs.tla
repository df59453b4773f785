-------------------------- MODULE ScanLaunchProofs --------------------------
(***************************************************************************)
(* What the scan loop keeps for any scans, targets, caps and times, with   *)
(* any number of failing saves and bridge calls.  The reconciler's         *)
(* snapshot stays true because handlers touch no job that is alive but for *)
(* the stop they ask for, and the tick acts on every job once; the cap     *)
(* holds because the slots that are left are never more than what the jobs *)
(* that run leave; and what is completed has its findings because nothing  *)
(* that has completed is ever launched or read again.                      *)
(***************************************************************************)
EXTENDS ScanLaunch, FiniteSetTheorems, TLAPS

RunningIn(registry) == {s \in Scans : registry[s].state = "RUNNING"}

\* SCAN_MAX_CONCURRENT, and the slots of a tick that has counted.
Capped ==
    /\ \A registry \in {jobs, file} :
          IsFiniteSet(RunningIn(registry)) /\ Cardinality(RunningIn(registry)) <= MaxConcurrent
    /\ phase \in {"poll", "launch"} => Cardinality(RunningIn(jobs)) + slots <= MaxConcurrent

\* The reconciler is in the middle of one scan at most, which it has not handled yet.
CallFits ==
    /\ phase \in {"idle", "stop"} => call = NoCall
    /\ phase = "poll" => call = NoCall \/ call.scan \in ToPoll \ done
    /\ phase = "launch" => call = NoCall \/ (call.scan \in ToLaunch \ done /\ slots > 0)

IInv == ScanTypeOK /\ Capped /\ CallFits /\ ReadIsCurrent

\* The parts of the type invariant.
LEMMA Types ==
    ASSUME IInv
    PROVE  /\ jobs \in [Scans -> JobType] /\ file \in [Scans -> JobType] /\ snap \in [Scans -> JobType]
           /\ findings \in [Scans -> {"none", "empty", "report"}] /\ task \in [Scans -> TaskStates]
           /\ phase \in {"idle", "stop", "poll", "launch"} /\ slots \in Int /\ clock \in Nat
           /\ done \subseteq Scans /\ deleting \subseteq Scans /\ NoJob \in JobType
  BY ScanAssumption DEF IInv, ScanTypeOK, NoJob, JobType, ScanStates, TerminalStates, FailedStates

\* Nothing runs.
LEMMA InitHolds == ScanInit => IInv
<1> SUFFICES ASSUME ScanInit PROVE IInv
  OBVIOUS
<1>1. NoJob \in JobType /\ NoJob.state = "ABSENT"
  BY DEF NoJob, JobType, ScanStates, TerminalStates, FailedStates
<1>2. ScanTypeOK
  BY <1>1, ScanAssumption DEF ScanInit, ScanTypeOK, TaskStates, Startable, Scanning
<1>3. RunningIn(jobs) = {} /\ RunningIn(file) = {}
  BY <1>1 DEF ScanInit, RunningIn
<1>4. Capped
  BY <1>3, FS_EmptySet, ScanAssumption DEF Capped, ScanInit
<1>5. CallFits /\ ReadIsCurrent
  BY DEF ScanInit, CallFits, ReadIsCurrent, Awaiting
<1> QED
  BY <1>2, <1>4, <1>5 DEF IInv

\* A step after which nothing runs that did not before.
LEMMA CapKeeps ==
    ASSUME IInv, file' = jobs' \/ file' = file,
           \A s \in Scans : jobs'[s].state = "RUNNING" => jobs[s].state = "RUNNING",
           phase' \in {"poll", "launch"} => phase \in {"poll", "launch"} /\ slots' = slots
    PROVE  Capped'
<1>1. RunningIn(jobs') \subseteq RunningIn(jobs)
  BY DEF RunningIn
<1>2. IsFiniteSet(RunningIn(jobs)) /\ Cardinality(RunningIn(jobs)) <= MaxConcurrent
  BY DEF IInv, Capped
<1>3. IsFiniteSet(RunningIn(jobs')) /\ Cardinality(RunningIn(jobs')) <= Cardinality(RunningIn(jobs))
  BY <1>1, <1>2, FS_Subset
<1>4. Cardinality(RunningIn(jobs)) \in Nat /\ Cardinality(RunningIn(jobs')) \in Nat /\ MaxConcurrent \in Nat
  BY <1>2, <1>3, FS_CardinalityType, ScanAssumption
<1>5. IsFiniteSet(RunningIn(file')) /\ Cardinality(RunningIn(file')) <= MaxConcurrent
  BY <1>2, <1>3, <1>4 DEF IInv, Capped
<1>6. phase' \in {"poll", "launch"} => Cardinality(RunningIn(jobs')) + slots' <= MaxConcurrent
  BY <1>3, <1>4, Types DEF IInv, Capped
<1> QED
  BY <1>2, <1>3, <1>4, <1>5, <1>6 DEF Capped

\* A step beside the reconciler, which leaves the state of whatever is alive.
LEMMA OutsideKeeps ==
    ASSUME IInv, jobs' \in [Scans -> JobType], file' = jobs' \/ file' = file,
           \A s \in Scans : /\ Live(jobs[s]) => jobs'[s].state = jobs[s].state
                            /\ jobs'[s].state = "RUNNING" => jobs[s].state = "RUNNING",
           task' \in [Scans -> TaskStates], clock' \in 1 .. MaxClock, deleting' \subseteq Scans,
           UNCHANGED <<findings, tickVars>>
    PROVE  IInv'
<1>1. UNCHANGED <<phase, snap, done, slots, call>>
  BY DEF tickVars
<1>2. ScanTypeOK'
  BY <1>1 DEF IInv, ScanTypeOK
<1>3. Capped'
  BY <1>1, CapKeeps
<1>4. Awaiting' = Awaiting /\ CallFits'
  BY <1>1 DEF Awaiting, ToStop, ToPoll, ToLaunch, IInv, CallFits
<1>5. \A s \in Awaiting : s \in Scans /\ Live(snap[s])
  BY DEF Awaiting, ToStop, ToPoll, ToLaunch, Live, Present, Terminal, TerminalStates, FailedStates
<1>6. \A s \in Awaiting : Live(jobs[s])
  BY <1>5 DEF IInv, ReadIsCurrent, Live, Present, Terminal
<1>7. ReadIsCurrent'
  BY <1>1, <1>4, <1>5, <1>6 DEF IInv, ReadIsCurrent
<1> QED
  BY <1>2, <1>3, <1>4, <1>7 DEF IInv

\* The handlers leave what is alive alone, but for its stop.
LEMMA HandlerKeeps ==
    ASSUME IInv, NEW s \in Scans, Handler(s)
    PROVE  IInv'
<1>1. /\ UNCHANGED <<findings, tickVars, task, clock>>
      /\ file' = jobs' \/ file' = file
      /\ deleting' \subseteq Scans
  BY Types DEF Handler, Create, Reopen, DeleteLooks, DeleteMarks, Stores
<1>2. /\ jobs' \in [Scans -> JobType]
      /\ \A k \in Scans : /\ Live(jobs[k]) => jobs'[k].state = jobs[k].state
                          /\ jobs'[k].state = "RUNNING" => jobs[k].state = "RUNNING"
  <2>1. CASE Create(s)
    <3>1. [NoJob EXCEPT !.state = "PENDING", !.submittedAt = clock] \in JobType
      BY Types DEF JobType, NoJob, ScanStates
    <3> QED
      BY <2>1, <3>1, Types DEF Create, Live, Present, NoJob
  <2>2. CASE Reopen(s)
    <3>1. jobs' = [jobs EXCEPT ![s].state = "PENDING", ![s].submittedAt = clock, ![s].changedAt = 0]
          /\ ~Live(jobs[s])
      BY <2>2 DEF Reopen, Stores, Live, Terminal, TerminalStates
    <3> QED
      BY <3>1, Types DEF JobType, ScanStates
  <2>3. CASE DeleteLooks(s)
    BY <2>3, Types DEF DeleteLooks
  <2>4. CASE DeleteMarks(s)
    BY <2>4, Types DEF DeleteMarks, Stores, JobType
  <2> QED
    BY <2>1, <2>2, <2>3, <2>4 DEF Handler
<1> QED
  <2>1. clock' \in 1 .. MaxClock /\ task' \in [Scans -> TaskStates] /\ UNCHANGED <<findings, tickVars>>
    BY <1>1, Types DEF IInv, ScanTypeOK
  <2> QED
    BY <1>1, <1>2, <2>1, OutsideKeeps

\* gvmd, its administrator and the clock know nothing of the registry.
LEMMA ExternalKeeps ==
    ASSUME IInv, (\E s \in Scans : TaskEnds(s) \/ AdminActs(s)) \/ Tick \/ UNCHANGED scanVars
    PROVE  IInv'
<1>1. UNCHANGED <<jobs, file, findings, deleting, tickVars>>
  BY DEF TaskEnds, AdminActs, External, Tick, scanVars
<1>2. clock' \in 1 .. MaxClock
  <2>1. clock \in 1 .. MaxClock /\ MaxClock \in Nat
    BY ScanAssumption DEF IInv, ScanTypeOK
  <2>2. CASE Tick
    BY <2>1, <2>2 DEF Tick
  <2>3. CASE (\E s \in Scans : TaskEnds(s) \/ AdminActs(s)) \/ UNCHANGED scanVars
    BY <2>1, <2>3 DEF TaskEnds, AdminActs, External, scanVars
  <2> QED
    BY <2>2, <2>3
<1>3. task' \in [Scans -> TaskStates]
  BY Types DEF TaskEnds, AdminActs, Tick, scanVars, StopEffect, TaskStates, Startable, Scanning
<1> QED
  BY <1>1, <1>2, <1>3, Types, OutsideKeeps

\* What a process remembers of a tick when it starts.
LEMMA RestartKeeps ==
    ASSUME IInv, Restart
    PROVE  IInv'
<1>1. /\ jobs' = file /\ phase' = "idle" /\ done' = {} /\ slots' = 0 /\ call' = NoCall /\ deleting' = {}
      /\ snap' = [s \in Scans |-> NoJob] /\ UNCHANGED <<file, findings, task, clock>>
  BY DEF Restart
<1>2. ScanTypeOK'
  BY <1>1, Types DEF IInv, ScanTypeOK
<1>3. Capped'
  BY <1>1 DEF IInv, Capped
<1>4. CallFits' /\ ReadIsCurrent'
  BY <1>1 DEF CallFits, ReadIsCurrent, Awaiting
<1> QED
  BY <1>2, <1>3, <1>4 DEF IInv

\* The ends of a phase.
LEMMA PhaseKeeps ==
    ASSUME IInv, TickStarts \/ CountActive \/ PollsEnd
    PROVE  IInv'
<1>1. UNCHANGED <<jobs, file, findings, deleting, call, task, clock>> /\ call = NoCall /\ done' = {}
  BY DEF TickStarts, CountActive, PollsEnd, IInv, CallFits
<1>2. CASE TickStarts
  <2>1. snap' = [s \in Scans |-> IF Live(jobs[s]) THEN jobs[s] ELSE NoJob] /\ phase' = "stop" /\ slots' = slots
    BY <1>2 DEF TickStarts
  <2>2. ScanTypeOK'
    BY <1>1, <2>1, Types DEF IInv, ScanTypeOK
  <2>3. Capped'
    BY <1>1, <2>1, CapKeeps
  <2>4. \A s \in Scans : snap'[s] = IF Live(jobs[s]) THEN jobs[s] ELSE NoJob
    BY <2>1
  <2>5. \A s \in Awaiting' : s \in Scans /\ snap'[s].state # "ABSENT"
    BY <2>1 DEF Awaiting, ToStop, ToPoll, ToLaunch, Live, Present
  <2>6. ReadIsCurrent'
    BY <1>1, <2>4, <2>5 DEF ReadIsCurrent, NoJob
  <2> QED
    BY <1>1, <2>1, <2>2, <2>3, <2>6 DEF IInv, CallFits
<1>3. CASE CountActive
  <2>1. /\ phase = "stop" /\ phase' = "poll" /\ snap' = snap
        /\ slots' = MaxConcurrent - Cardinality(RunningIn(jobs))
    BY <1>3 DEF CountActive, RunningIn
  <2>2. IsFiniteSet(RunningIn(jobs)) /\ Cardinality(RunningIn(jobs)) \in Nat /\ MaxConcurrent \in Nat
    BY FS_CardinalityType, ScanAssumption DEF IInv, Capped
  <2>3. ScanTypeOK'
    BY <1>1, <2>1, <2>2, Types DEF IInv, ScanTypeOK
  <2>4. Capped'
    BY <1>1, <2>1, <2>2 DEF IInv, Capped
  <2>5. Awaiting' \subseteq Awaiting
    BY <1>1, <2>1 DEF Awaiting, ToStop, ToPoll, ToLaunch
  <2> QED
    BY <1>1, <2>1, <2>3, <2>4, <2>5 DEF IInv, CallFits, ReadIsCurrent
<1>4. CASE PollsEnd
  <2>1. phase = "poll" /\ phase' = "launch" /\ UNCHANGED <<snap, slots>>
    BY <1>4 DEF PollsEnd
  <2>2. ScanTypeOK'
    BY <1>1, <2>1, Types DEF IInv, ScanTypeOK
  <2>3. Capped'
    BY <1>1, <2>1, CapKeeps
  <2>4. Awaiting' \subseteq Awaiting
    BY <1>1, <2>1 DEF Awaiting, ToPoll, ToLaunch
  <2> QED
    BY <1>1, <2>1, <2>2, <2>3, <2>4 DEF IInv, CallFits, ReadIsCurrent
<1> QED
  BY <1>2, <1>3, <1>4

\* The end of a tick, with its removal of what is over for long.
LEMMA TickEndKeeps ==
    ASSUME IInv, TickEnds
    PROVE  IInv'
<1> DEFINE old == {s \in Scans : Old(jobs[s])}
<1>1. /\ phase' = "idle" /\ done' = {} /\ slots' = 0 /\ call = NoCall /\ snap' = [s \in Scans |-> NoJob]
      /\ UNCHANGED <<call, task, clock>> /\ deleting' = deleting \ old
      /\ findings' = [s \in Scans |-> IF s \in old THEN "none" ELSE findings[s]]
      /\ UNCHANGED <<jobs, file>> \/ Stores([s \in Scans |-> IF s \in old THEN NoJob ELSE jobs[s]])
  BY DEF TickEnds
<1> HIDE DEF old
<1>2. /\ jobs' \in [Scans -> JobType]
      /\ file' = jobs' \/ file' = file
      /\ \A s \in Scans : jobs'[s].state = "RUNNING" => jobs[s].state = "RUNNING"
  <2>1. CASE UNCHANGED <<jobs, file>>
    BY <2>1, Types
  <2>2. CASE Stores([s \in Scans |-> IF s \in old THEN NoJob ELSE jobs[s]])
    BY <2>2, Types DEF Stores, NoJob
  <2> QED
    BY <1>1, <2>1, <2>2
<1>3. ScanTypeOK'
  BY <1>1, <1>2, Types DEF IInv, ScanTypeOK
<1>4. Capped'
  BY <1>1, <1>2, CapKeeps
<1> QED
  BY <1>1, <1>3, <1>4 DEF IInv, CallFits, ReadIsCurrent, Awaiting

\* An update of a job's state and of the time of its change fits into its type, and is of no other job.
LEMMA EndedIsTyped ==
    ASSUME IInv, NEW s \in Scans, NEW state \in ScanStates
    PROVE  /\ Ended(s, state) \in [Scans -> JobType] /\ Ended(s, state)[s].state = state
           /\ \A k \in Scans : k # s => Ended(s, state)[k] = jobs[k]
<1> DEFINE moved == [jobs[s] EXCEPT !.state = state]
           job == [moved EXCEPT !.changedAt = clock]
           between == [jobs EXCEPT ![s] = moved]
<1>1. jobs \in [Scans -> JobType] /\ clock \in Nat
  BY Types
<1>2. moved \in JobType /\ moved.state = state
  BY <1>1 DEF JobType
<1>3. between \in [Scans -> JobType] /\ between[s] = moved /\ \A k \in Scans : k # s => between[k] = jobs[k]
  BY <1>1, <1>2
<1>4. job \in JobType /\ job.state = state
  <2> HIDE DEF moved
  <2> QED
    BY <1>1, <1>2 DEF JobType
<1>5. Ended(s, state) = [between EXCEPT ![s] = [between[s] EXCEPT !.changedAt = clock]]
  BY DEF Ended
<1>6. Ended(s, state) = [between EXCEPT ![s] = job]
  <2> HIDE DEF moved, between
  <2> QED
    BY <1>3, <1>5
<1> HIDE DEF moved, job, between
<1> QED
  BY <1>3, <1>4, <1>6

\* What ends a job.
LEMMA EndedIsOver ==
    ASSUME IInv, NEW s \in Scans, NEW state \in TerminalStates
    PROVE  /\ Ended(s, state) \in [Scans -> JobType] /\ Ended(s, state)[s].state = state /\ state # "RUNNING"
           /\ \A k \in Scans : k # s => Ended(s, state)[k] = jobs[k]
<1>1. state \in ScanStates /\ state # "RUNNING"
  BY DEF ScanStates, TerminalStates, FailedStates
<1> QED
  BY <1>1, EndedIsTyped

\* A step about one scan within a phase, which brings none to run: the scan is handled, or left as it
\* is with a call of it in hand.
LEMMA StepKeeps ==
    ASSUME IInv, NEW s \in Scans, jobs' \in [Scans -> JobType], file' = jobs' \/ file' = file,
           jobs'[s].state = "RUNNING" => jobs[s].state = "RUNNING",
           \A k \in Scans : k # s => jobs'[k].state = jobs[k].state,
           findings' \in [Scans -> {"none", "empty", "report"}], task' \in [Scans -> TaskStates],
           UNCHANGED <<deleting, phase, snap, slots, clock>>,
           s \in IF phase = "stop" THEN ToStop ELSE IF phase = "poll" THEN ToPoll ELSE ToLaunch,
           phase # "idle",
           \/ done' = done \cup {s} /\ call' = NoCall
           \/ /\ done' = done /\ call'.scan = s /\ s \notin done /\ jobs'[s].state = jobs[s].state
              /\ phase \in {"poll", "launch"} /\ (phase = "launch" => slots > 0)
    PROVE  IInv'
<1>1. ScanTypeOK'
  BY Types DEF IInv, ScanTypeOK
<1>2. Capped'
  BY CapKeeps
<1>3. ToStop' = ToStop /\ ToPoll' = ToPoll /\ ToLaunch' = ToLaunch
  BY DEF ToStop, ToPoll, ToLaunch
<1>4. CallFits'
  BY <1>3 DEF IInv, CallFits
<1>5. \A k \in Awaiting' : k \in Awaiting /\ (k # s \/ jobs'[s].state = jobs[s].state)
  BY <1>3, Types DEF Awaiting, ToStop, ToPoll, ToLaunch
<1>6. \A k \in Awaiting' : k \in Scans
  BY <1>3 DEF Awaiting, ToStop, ToPoll, ToLaunch
<1>7. ReadIsCurrent'
  BY <1>5, <1>6 DEF IInv, ReadIsCurrent
<1> QED
  BY <1>1, <1>2, <1>4, <1>7 DEF IInv

\* reconciler.stop.
LEMMA StopKeeps ==
    ASSUME IInv, NEW s \in Scans, Stop(s)
    PROVE  IInv'
<1>1. /\ phase = "stop" /\ s \in ToStop /\ done' = done \cup {s} /\ call' = NoCall
      /\ UNCHANGED <<findings, deleting, phase, snap, slots, clock>>
      /\ jobs' = Ended(s, "STOPPED")
      /\ file' = jobs' \/ file' = file
  BY DEF Stop, Oldest, Handled, Stores
<1>2. task' \in [Scans -> TaskStates] /\ findings' \in [Scans -> {"none", "empty", "report"}]
  BY <1>1, Types DEF Stop, StopEffect, TaskStates, Startable, Scanning
<1>3. /\ jobs' \in [Scans -> JobType] /\ jobs'[s].state # "RUNNING"
      /\ \A k \in Scans : k # s => jobs'[k].state = jobs[k].state
  BY <1>1, EndedIsOver DEF TerminalStates, FailedStates
<1> QED
  BY <1>1, <1>2, <1>3, StepKeeps

\* reconciler.pollOne.
LEMMA PollKeeps ==
    ASSUME IInv, NEW s \in Scans, PollStep(s)
    PROVE  IInv'
<1>1. phase = "poll" /\ UNCHANGED <<deleting, phase, snap, slots, clock>>
  BY DEF PollStep, AskStatus, PollEnds, PollExpires, PollContinues, Fetch, Complete
<1>2. s \in ToPoll \ done
  BY <1>1 DEF PollStep, AskStatus, PollEnds, PollExpires, PollContinues, Fetch, Complete, IInv, CallFits, NoCall, Oldest
<1>3. /\ findings' \in [Scans -> {"none", "empty", "report"}]
      /\ task' \in [Scans -> TaskStates]
  BY Types DEF PollStep, AskStatus, PollEnds, PollExpires, PollContinues, Fetch, Complete, StopEffect, TaskStates,
     Startable, Scanning
<1>4. \/ done' = done \cup {s} /\ call' = NoCall
      \/ done' = done /\ call'.scan = s /\ UNCHANGED <<jobs, file>>
  BY DEF PollStep, AskStatus, PollEnds, PollExpires, PollContinues, Fetch, Complete, Handled, Answered
<1>5. /\ UNCHANGED jobs \/ \E state \in TerminalStates : jobs' = Ended(s, state)
      /\ file' = jobs' \/ file' = file
  BY DEF PollStep, AskStatus, PollEnds, PollExpires, PollContinues, Fetch, Complete, Stores, TerminalStates, FailedStates
<1> QED
  BY <1>1, <1>2, <1>3, <1>4, <1>5, EndedIsOver, StepKeeps, Types

\* reconciler.launch up to the bridge's answer, and a launch that failed.
LEMMA LaunchKeeps ==
    ASSUME IInv, NEW s \in Scans, Launch(s) \/ LaunchFails(s)
    PROVE  IInv'
<1>1. phase = "launch" /\ UNCHANGED <<findings, deleting, phase, snap, slots, clock>>
  BY DEF Launch, LaunchFails
<1>2. s \in ToLaunch \ done
  BY <1>1 DEF Launch, LaunchFails, IInv, CallFits, NoCall, Oldest
<1>3. CASE Launch(s)
  <2>1. slots > 0 /\ done' = done /\ call'.scan = s /\ UNCHANGED <<jobs, file>>
    BY <1>3 DEF Launch, Answered
  <2>2. task' \in [Scans -> TaskStates]
    BY <1>3, Types DEF Launch, LaunchEffect, FailedLaunch, TaskStates, Startable, Scanning
  <2> QED
    BY <1>1, <1>2, <2>1, <2>2, StepKeeps, Types
<1>4. CASE LaunchFails(s)
  <2>1. /\ done' = done \cup {s} /\ call' = NoCall /\ UNCHANGED task /\ jobs' = Ended(s, "FAILED")
        /\ file' = jobs' \/ file' = file
    BY <1>4 DEF LaunchFails, Stores, Handled
  <2>2. /\ jobs' \in [Scans -> JobType] /\ jobs'[s].state # "RUNNING"
        /\ \A k \in Scans : k # s => jobs'[k].state = jobs[k].state
    BY <2>1, EndedIsOver DEF TerminalStates, FailedStates
  <2> QED
    BY <1>1, <1>2, <2>1, <2>2, StepKeeps, Types
<1> QED
  BY <1>3, <1>4

\* A scan that was launched takes one of the slots.
LEMMA LaunchedKeeps ==
    ASSUME IInv, NEW s \in Scans, Launched(s)
    PROVE  IInv'
<1>1. /\ phase = "launch" /\ slots' = slots - 1 /\ done' = done \cup {s} /\ call' = NoCall /\ call.scan = s
      /\ call.answer = "ok" /\ UNCHANGED <<findings, deleting, phase, snap, task, clock>>
      /\ jobs' = Ended(s, "RUNNING")
      /\ file' = jobs' \/ file' = file
  BY DEF Launched, Handled, Stores, Ended
<1>2. s \in ToLaunch \ done /\ slots > 0
  BY <1>1 DEF IInv, CallFits, NoCall
<1>3. /\ jobs' \in [Scans -> JobType] /\ jobs'[s].state = "RUNNING"
      /\ \A k \in Scans : k # s => jobs'[k] = jobs[k]
  BY <1>1, EndedIsTyped DEF ScanStates
<1>4. ScanTypeOK'
  <2>1. file' \in [Scans -> JobType]
    BY <1>1, <1>3, Types
  <2>2. slots' \in Int /\ done' \subseteq Scans
    BY <1>1, Types
  <2>3. /\ jobs' \in [Scans -> JobType] /\ snap' \in [Scans -> JobType]
        /\ findings' \in [Scans -> {"none", "empty", "report"}] /\ task' \in [Scans -> TaskStates]
        /\ deleting' \subseteq Scans
    BY <1>1, <1>3, Types
  <2>4. clock' \in 1 .. MaxClock /\ phase' \in {"idle", "stop", "poll", "launch"} /\ call' = NoCall
    BY <1>1 DEF IInv, ScanTypeOK
  <2> QED
    BY <2>1, <2>2, <2>3, <2>4 DEF ScanTypeOK
<1>5. Capped'
  <2>1. RunningIn(jobs') = RunningIn(jobs) \cup {s}
    BY <1>3 DEF RunningIn
  <2>2. IsFiniteSet(RunningIn(jobs)) /\ Cardinality(RunningIn(jobs)) \in Nat /\ MaxConcurrent \in Nat
    BY FS_CardinalityType, ScanAssumption DEF IInv, Capped
  <2>3. /\ IsFiniteSet(RunningIn(jobs')) /\ Cardinality(RunningIn(jobs')) \in Nat
        /\ Cardinality(RunningIn(jobs')) <= Cardinality(RunningIn(jobs)) + 1
    BY <2>1, <2>2, FS_AddElement, FS_CardinalityType
  <2>4. Cardinality(RunningIn(jobs)) + slots <= MaxConcurrent
    BY <1>1 DEF IInv, Capped
  <2>5. Cardinality(RunningIn(jobs')) + slots' <= MaxConcurrent /\ Cardinality(RunningIn(jobs')) <= MaxConcurrent
    BY <1>1, <1>2, <2>2, <2>3, <2>4, Types
  <2>6. IsFiniteSet(RunningIn(file')) /\ Cardinality(RunningIn(file')) <= MaxConcurrent
    BY <1>1, <2>3, <2>5 DEF IInv, Capped
  <2> QED
    BY <2>3, <2>5, <2>6 DEF Capped
<1>6. CallFits'
  BY <1>1 DEF CallFits
<1>7. ReadIsCurrent'
  <2>1. ToLaunch' = ToLaunch
    BY <1>1 DEF ToLaunch
  <2>2. \A k \in Awaiting' : k \in Awaiting /\ k # s /\ k \in Scans
    BY <1>1, <2>1 DEF Awaiting, ToLaunch
  <2> QED
    BY <1>1, <1>3, <2>2 DEF IInv, ReadIsCurrent
<1> QED
  BY <1>4, <1>5, <1>6, <1>7 DEF IInv

\* Every step of the specification.
LEMMA StepHolds == IInv /\ [ScanNext]_scanVars => IInv'
<1> SUFFICES ASSUME IInv, [ScanNext]_scanVars PROVE IInv'
  OBVIOUS
<1>1. CASE \E s \in Scans : Handler(s)
  BY <1>1, HandlerKeeps
<1>2. CASE (\E s \in Scans : TaskEnds(s) \/ AdminActs(s)) \/ Tick \/ UNCHANGED scanVars
  BY <1>2, ExternalKeeps
<1>3. CASE Reconciler
  BY <1>3, PhaseKeeps, TickEndKeeps, StopKeeps, PollKeeps, LaunchKeeps, LaunchedKeeps DEF Reconciler
<1>4. CASE Restart
  BY <1>4, RestartKeeps
<1> QED
  BY <1>1, <1>2, <1>3, <1>4 DEF ScanNext, Runs

\* reconciler.go: "the classic count-then-start and find-then-create TOCTOU races are structurally
\* impossible", for any number of scans, handlers and faults.
THEOREM SnapshotHolds == ScanSpec => []ReadIsCurrent
<1>1. IInv => ReadIsCurrent
  BY DEF IInv
<1> QED
  BY <1>1, InitHolds, StepHolds, PTL DEF ScanSpec

\* SCAN_MAX_CONCURRENT, for any cap and any number of scans, in memory and in whatever the file holds
\* after any failed saves.
THEOREM CapHolds == ScanSpec => []RunningWithinCap
<1>1. IInv => RunningWithinCap
  BY DEF IInv, Capped, RunningWithinCap, RunningIn
<1> QED
  BY <1>1, InitHolds, StepHolds, PTL DEF ScanSpec

\* handleDelete: a stop in memory and in the file is in the job until the job is over.
LEMMA StepRemembers ==
    IInv /\ [ScanNext]_scanVars =>
        [\A s \in Scans :
            Live(jobs[s]) /\ jobs[s].stopRequested /\ file[s].stopRequested /\ Live(jobs'[s])
                => jobs'[s].stopRequested]_scanVars
<1> SUFFICES ASSUME IInv, ScanNext, NEW k \in Scans, Live(jobs[k]), jobs[k].stopRequested,
                    file[k].stopRequested, Live(jobs'[k])
             PROVE  jobs'[k].stopRequested
  OBVIOUS
<1>1. jobs \in [Scans -> JobType]
  BY Types
<1>2. CASE Restart
  BY <1>2 DEF Restart
<1>3. CASE UNCHANGED jobs
  BY <1>3
<1>4. ASSUME NEW s \in Scans, Handler(s) PROVE jobs'[k].stopRequested
  <2>1. CASE Create(s) \/ Reopen(s)
    <3>1. k # s
      BY <2>1 DEF Create, Reopen, Live, Terminal, TerminalStates
    <3> QED
      BY <1>1, <2>1, <3>1 DEF Create, Reopen, Stores
  <2>2. CASE DeleteLooks(s) \/ DeleteMarks(s)
    BY <1>1, <2>2 DEF DeleteLooks, DeleteMarks, Stores, JobType
  <2> QED
    BY <1>4, <2>1, <2>2 DEF Handler
<1>5. ASSUME NEW s \in Scans, NEW state, jobs' = Ended(s, state) PROVE jobs'[k].stopRequested
  BY <1>1, <1>5 DEF Ended, JobType
<1>6. CASE \E s \in Scans : Launched(s)
  BY <1>1, <1>6 DEF Launched, Stores, JobType
<1>7. CASE TickEnds
  BY <1>1, <1>7 DEF TickEnds, Stores, Live, Present, NoJob
<1> QED
  BY <1>2, <1>3, <1>4, <1>5, <1>6, <1>7 DEF ScanNext, Runs, TaskEnds, AdminActs, External, Tick, Reconciler,
     TickStarts, CountActive, PollsEnd, Stop, PollStep, AskStatus, PollEnds, PollExpires, PollContinues, Fetch,
     Complete, Launch, LaunchFails, Stores

\* A stop that both copies know of is not lost by any step, for any scans and faults.
THEOREM StopsAreKept == ScanSpec => StopIsNotForgotten
<1> QED
  BY StepRemembers, InitHolds, StepHolds, PTL DEF ScanSpec, StopIsNotForgotten

---------------------------------------------------------------------------
(* Findings.  The file may be behind on anything but a completion that it shows: its job is over in   *)
(* memory too, since the same time, until both are due for removal.                                   *)

HasFindings(s) == findings[s] = "report" \/ (findings[s] = "empty" /\ task[s] = "none")

SameCompletion(s) == jobs'[s].state = "COMPLETED" /\ jobs'[s].changedAt = jobs[s].changedAt

FileFollows ==
    \A s \in Scans : file[s].state = "COMPLETED" =>
        \/ Old(file[s])
        \/ jobs[s].state = "COMPLETED" /\ jobs[s].changedAt = file[s].changedAt

JobsHaveFindings == \A s \in Scans : jobs[s].state = "COMPLETED" /\ ~Old(jobs[s]) => HasFindings(s)

\* What the reconciler knows of the scan that it completes.
CallIsTrue ==
    /\ phase = "poll" /\ call.answer = "Done" => task[call.scan] \in {"Done", "none"}
    /\ phase = "poll" /\ call.answer = "cached" => HasFindings(call.scan)

FindingsIInv == FileFollows /\ JobsHaveFindings /\ CallIsTrue

\* The registry is saved or not, no job completes, and what has completed keeps its findings.
LEMMA CompletionsStay ==
    ASSUME IInv, FindingsIInv, file' = jobs' \/ file' = file, clock' \in Nat, clock' >= clock,
           \A k \in Scans :
              /\ jobs[k].state = "COMPLETED" => Old(jobs[k]) \/ SameCompletion(k)
              /\ jobs'[k].state = "COMPLETED" =>
                    /\ jobs[k].state = "COMPLETED" /\ SameCompletion(k)
                    /\ findings'[k] = findings[k]
                    /\ task[k] = "none" => task'[k] = "none"
    PROVE  FileFollows' /\ JobsHaveFindings'
<1>1. /\ clock \in Nat /\ Retention \in Nat
      /\ \A k \in Scans : file[k].changedAt \in Nat /\ jobs[k].changedAt \in Nat
  BY Types, ScanAssumption DEF JobType
<1>2. FileFollows'
  <2>1. CASE file' = jobs'
    BY <2>1 DEF FileFollows
  <2>2. CASE file' = file
    <3> SUFFICES ASSUME NEW k \in Scans, file[k].state = "COMPLETED",
                        ~(Terminal(file[k]) /\ file[k].changedAt < clock' - Retention)
                 PROVE  jobs'[k].state = "COMPLETED" /\ jobs'[k].changedAt = file[k].changedAt
      BY <2>2 DEF FileFollows, Old, Terminal
    <3>1. ~Old(file[k])
      BY <1>1 DEF Old
    <3>2. jobs[k].state = "COMPLETED" /\ jobs[k].changedAt = file[k].changedAt
      BY <3>1 DEF FindingsIInv, FileFollows
    <3>3. ~Old(jobs[k])
      BY <3>1, <3>2 DEF Old, Terminal
    <3> QED  BY <3>2, <3>3 DEF SameCompletion
  <2> QED  BY <2>1, <2>2
<1>3. JobsHaveFindings'
  <2> SUFFICES ASSUME NEW k \in Scans, jobs'[k].state = "COMPLETED",
                      ~(Terminal(jobs'[k]) /\ jobs'[k].changedAt < clock' - Retention)
               PROVE  HasFindings(k)'
    BY DEF JobsHaveFindings, Old, Terminal
  <2>1. jobs[k].state = "COMPLETED" /\ ~Old(jobs[k])
    BY <1>1 DEF SameCompletion, Old, Terminal
  <2>2. HasFindings(k)
    BY <2>1 DEF FindingsIInv, JobsHaveFindings
  <2> QED  BY <2>2 DEF HasFindings
<1> QED  BY <1>2, <1>3

\* A step about one scan, which has not completed.
LEMMA OneMoves ==
    ASSUME IInv, FindingsIInv, NEW s \in Scans, file' = jobs' \/ file' = file, clock' = clock,
           jobs[s].state # "COMPLETED", jobs'[s].state # "COMPLETED",
           \A k \in Scans \ {s} : /\ jobs'[k] = jobs[k] /\ findings'[k] = findings[k]
                                  /\ task[k] = "none" => task'[k] = "none"
    PROVE  FileFollows' /\ JobsHaveFindings'
<1>1. clock' \in Nat /\ clock' >= clock
  BY Types
<1>2. \A k \in Scans :
         /\ jobs[k].state = "COMPLETED" => Old(jobs[k]) \/ SameCompletion(k)
         /\ jobs'[k].state = "COMPLETED" =>
               /\ jobs[k].state = "COMPLETED" /\ SameCompletion(k)
               /\ findings'[k] = findings[k]
               /\ task[k] = "none" => task'[k] = "none"
  BY DEF SameCompletion
<1> QED  BY <1>1, <1>2, CompletionsStay

\* A step that leaves every completion and its findings alone.
LEMMA NoneMoves ==
    ASSUME IInv, FindingsIInv, file' = jobs' \/ file' = file, clock' \in Nat, clock' >= clock,
           findings' = findings,
           \A k \in Scans : /\ jobs'[k].state = jobs[k].state /\ jobs'[k].changedAt = jobs[k].changedAt
                            /\ task[k] = "none" => task'[k] = "none"
    PROVE  FileFollows' /\ JobsHaveFindings'
<1>1. \A k \in Scans :
         /\ jobs[k].state = "COMPLETED" => Old(jobs[k]) \/ SameCompletion(k)
         /\ jobs'[k].state = "COMPLETED" =>
               /\ jobs[k].state = "COMPLETED" /\ SameCompletion(k)
               /\ findings'[k] = findings[k]
               /\ task[k] = "none" => task'[k] = "none"
  BY DEF SameCompletion
<1> QED  BY <1>1, CompletionsStay

\* What a tick has still to act on is alive.
LEMMA InHandIsLive ==
    ASSUME IInv, NEW s \in Awaiting
    PROVE  s \in Scans /\ jobs[s].state \in {"PENDING", "RUNNING"}
<1>1. s \in Scans /\ snap[s].state \in {"PENDING", "RUNNING"}
  BY Types DEF Awaiting, ToStop, ToPoll, ToLaunch, Live, Present, Terminal, TerminalStates, FailedStates,
     JobType, ScanStates
<1> QED  BY <1>1 DEF IInv, ReadIsCurrent

\* Clients reopen only what failed, and what they ask of a job that is over does not change its end.
LEMMA HandlerLeavesFindings ==
    ASSUME IInv, FindingsIInv, NEW s \in Scans, Handler(s)
    PROVE  FindingsIInv'
<1>1. /\ UNCHANGED <<findings, tickVars, task, clock>>
      /\ file' = jobs' \/ file' = file
  BY DEF Handler, Create, Reopen, DeleteLooks, DeleteMarks, Stores
<1>2. CallIsTrue'
  BY <1>1 DEF tickVars, FindingsIInv, CallIsTrue, HasFindings
<1>3. jobs \in [Scans -> JobType] /\ clock \in Nat
  BY Types
<1>4. CASE Create(s) \/ Reopen(s)
  <2>1. /\ jobs[s].state # "COMPLETED" /\ jobs'[s].state = "PENDING"
        /\ \A k \in Scans \ {s} : jobs'[k] = jobs[k]
    BY <1>3, <1>4 DEF Create, Reopen, Stores, Present, FailedStates, NoJob, JobType
  <2> QED  BY <1>1, <1>2, <2>1, OneMoves DEF FindingsIInv
<1>5. CASE DeleteLooks(s) \/ DeleteMarks(s)
  <2>1. \A k \in Scans : jobs'[k].state = jobs[k].state /\ jobs'[k].changedAt = jobs[k].changedAt
    BY <1>3, <1>5 DEF DeleteLooks, DeleteMarks, Stores, JobType
  <2> QED  BY <1>1, <1>2, <1>3, <2>1, NoneMoves DEF FindingsIInv
<1> QED  BY <1>4, <1>5 DEF Handler

\* A task that is done can only be deleted, and one that is gone stays so until it is launched.
LEMMA ExternalLeavesFindings ==
    ASSUME IInv, FindingsIInv, (\E s \in Scans : TaskEnds(s) \/ AdminActs(s)) \/ Tick \/ UNCHANGED scanVars
    PROVE  FindingsIInv'
<1>1. UNCHANGED <<jobs, file, findings, phase, call>>
  BY DEF TaskEnds, AdminActs, External, Tick, scanVars, tickVars
<1>2. clock' \in Nat /\ clock' >= clock
  <2>1. clock' = clock \/ clock' = clock + 1
    BY DEF TaskEnds, AdminActs, External, Tick, scanVars
  <2> QED  BY <2>1, Types
<1>3. \A k \in Scans : /\ task[k] = "none" => task'[k] = "none"
                       /\ task[k] = "Done" => task'[k] \in {"Done", "none"}
  BY Types DEF TaskEnds, AdminActs, StopEffect, Scanning, Tick, scanVars
<1>4. FileFollows' /\ JobsHaveFindings'
  BY <1>1, <1>2, <1>3, NoneMoves
<1>5. phase = "poll" => call.answer \notin {"Done", "cached"} \/ call.scan \in Scans
  BY DEF IInv, CallFits, NoCall, ToPoll
<1>6. CallIsTrue'
  BY <1>1, <1>3, <1>5 DEF FindingsIInv, CallIsTrue, HasFindings
<1> QED  BY <1>4, <1>6 DEF FindingsIInv

\* A process that starts takes the file's jobs for its own.
LEMMA RestartLeavesFindings ==
    ASSUME IInv, FindingsIInv, Restart
    PROVE  FindingsIInv'
<1>1. jobs' = file /\ phase' = "idle" /\ UNCHANGED <<file, findings, task, clock>>
  BY DEF Restart
<1>2. FileFollows' /\ CallIsTrue'
  BY <1>1 DEF FileFollows, CallIsTrue
<1>3. ASSUME NEW s \in Scans, file[s].state = "COMPLETED", ~Old(file[s])
      PROVE  HasFindings(s)
  <2>1. jobs[s].state = "COMPLETED" /\ ~Old(jobs[s])
    BY <1>3 DEF FindingsIInv, FileFollows, Old, Terminal
  <2> QED  BY <2>1 DEF FindingsIInv, JobsHaveFindings
<1>4. JobsHaveFindings'
  BY <1>1, <1>3 DEF JobsHaveFindings, HasFindings, Old
<1> QED  BY <1>2, <1>4 DEF FindingsIInv

\* The ends of a phase, and of the tick, whose removals are of jobs that are due.
LEMMA PhaseLeavesFindings ==
    ASSUME IInv, FindingsIInv, TickStarts \/ CountActive \/ PollsEnd \/ TickEnds
    PROVE  FindingsIInv'
<1>1. call' = NoCall /\ UNCHANGED <<task, clock>>
  BY DEF TickStarts, CountActive, PollsEnd, TickEnds, IInv, CallFits
<1>2. CallIsTrue'
  BY <1>1 DEF CallIsTrue, NoCall
<1>3. clock' \in Nat /\ clock' >= clock
  BY <1>1, Types
<1>4. CASE TickStarts \/ CountActive \/ PollsEnd
  <2>1. UNCHANGED <<jobs, file, findings>>
    BY <1>4 DEF TickStarts, CountActive, PollsEnd
  <2> QED  BY <1>1, <1>2, <1>3, <2>1, NoneMoves DEF FindingsIInv
<1>5. CASE TickEnds
  <2> DEFINE old == {s \in Scans : Old(jobs[s])}
  <2>1. /\ findings' = [s \in Scans |-> IF s \in old THEN "none" ELSE findings[s]]
        /\ IF old = {} THEN UNCHANGED <<jobs, file>>
           ELSE Stores([s \in Scans |-> IF s \in old THEN NoJob ELSE jobs[s]])
    BY <1>5 DEF TickEnds
  <2>2. \A k \in Scans : k \in old <=> Old(jobs[k])
    OBVIOUS
  <2> HIDE DEF old
  <2>3. file' = jobs' \/ file' = file
    BY <2>1 DEF Stores
  <2>4. \A k \in Scans : jobs'[k] = IF k \in old THEN NoJob ELSE jobs[k]
    <3>1. CASE old = {}
      BY <2>1, <3>1
    <3>2. CASE old # {}
      BY <2>1, <3>2 DEF Stores
    <3> QED  BY <3>1, <3>2
  <2>5. \A k \in Scans :
           /\ jobs[k].state = "COMPLETED" => Old(jobs[k]) \/ SameCompletion(k)
           /\ jobs'[k].state = "COMPLETED" =>
                 /\ jobs[k].state = "COMPLETED" /\ SameCompletion(k)
                 /\ findings'[k] = findings[k]
                 /\ task[k] = "none" => task'[k] = "none"
    BY <1>1, <2>1, <2>2, <2>4 DEF SameCompletion, NoJob
  <2> QED  BY <1>2, <1>3, <2>3, <2>5, CompletionsStay DEF FindingsIInv
<1> QED  BY <1>4, <1>5

\* Whatever stops or launches a job is about one that has not completed.
LEMMA MovesLeaveFindings ==
    ASSUME IInv, FindingsIInv, NEW s \in Scans, Stop(s) \/ Launch(s) \/ Launched(s) \/ LaunchFails(s)
    PROVE  FindingsIInv'
<1>1. /\ UNCHANGED <<findings, clock, phase>> /\ phase # "poll"
      /\ file' = jobs' \/ file' = file
  BY DEF Stop, Launch, Launched, LaunchFails, Stores
<1>2. CallIsTrue'
  BY <1>1 DEF CallIsTrue
<1>3. s \in Awaiting
  BY DEF Stop, Launch, Launched, LaunchFails, Oldest, IInv, CallFits, NoCall, Awaiting
<1>4. jobs[s].state # "COMPLETED"
  BY <1>3, InHandIsLive
<1>5. \A k \in Scans \ {s} : task'[k] = task[k]
  BY Types DEF Stop, StopEffect, Launch, LaunchEffect, FailedLaunch, Launched, LaunchFails
<1>6. jobs' = jobs \/ \E state \in {"STOPPED", "RUNNING", "FAILED"} : jobs' = Ended(s, state)
  BY DEF Stop, Launch, Launched, LaunchFails, Stores, Ended
<1>7. jobs'[s].state # "COMPLETED" /\ \A k \in Scans \ {s} : jobs'[k] = jobs[k]
  BY <1>4, <1>6, EndedIsTyped DEF ScanStates, TerminalStates, FailedStates
<1> QED  BY <1>1, <1>2, <1>4, <1>5, <1>7, OneMoves DEF FindingsIInv

\* pollOne: a report that gvmd can no longer give is empty only if the task is gone, and complete
\* marks the job only when its findings are cached.
LEMMA PollLeavesFindings ==
    ASSUME IInv, FindingsIInv, NEW s \in Scans, PollStep(s)
    PROVE  FindingsIInv'
<1>1. /\ phase = "poll" /\ UNCHANGED <<clock, phase>>
      /\ file' = jobs' \/ file' = file
  BY DEF PollStep, AskStatus, PollEnds, PollExpires, PollContinues, Fetch, Complete, Stores
<1>2. s \in Awaiting
  BY <1>1 DEF PollStep, AskStatus, PollEnds, PollExpires, PollContinues, Fetch, Complete, Oldest, IInv, CallFits,
     NoCall, Awaiting
<1>3. jobs[s].state # "COMPLETED"
  BY <1>2, InHandIsLive
<1>4. \A k \in Scans \ {s} : task'[k] = task[k] /\ findings'[k] = findings[k]
  BY Types DEF PollStep, AskStatus, PollEnds, PollExpires, PollContinues, Fetch, Complete, StopEffect
<1>5. CASE AskStatus(s) \/ PollEnds(s) \/ PollExpires(s) \/ PollContinues(s) \/ Fetch(s)
  <2>1. jobs' = jobs \/ \E state \in FailedStates : jobs' = Ended(s, state)
    BY <1>5 DEF AskStatus, PollEnds, PollExpires, PollContinues, Fetch, Stores, FailedStates
  <2>2. jobs'[s].state # "COMPLETED" /\ \A k \in Scans \ {s} : jobs'[k] = jobs[k]
    BY <1>3, <2>1, EndedIsOver DEF TerminalStates, FailedStates
  <2>3. FileFollows' /\ JobsHaveFindings'
    BY <1>1, <1>3, <1>4, <2>2, OneMoves
  <2>4. CASE PollEnds(s) \/ PollExpires(s) \/ PollContinues(s)
    <3>1. call' = NoCall
      BY <2>4 DEF PollEnds, PollExpires, PollContinues, Handled
    <3> QED  BY <2>3, <3>1 DEF FindingsIInv, CallIsTrue, NoCall
  <2>5. CASE AskStatus(s)
    <3>1. call' = NoCall \/ (call' = [scan |-> s, answer |-> StatusOf(s)] /\ UNCHANGED task)
      BY <2>5 DEF AskStatus, Answered, Handled
    <3>2. StatusOf(s) = "Done" => task[s] = "Done"
      BY DEF StatusOf
    <3>3. StatusOf(s) # "cached"
      BY DEF StatusOf
    <3> QED  BY <2>3, <3>1, <3>2, <3>3 DEF FindingsIInv, CallIsTrue, NoCall
  <2>6. CASE Fetch(s)
    <3>1. \/ call' = NoCall
          \/ /\ call' = [scan |-> s, answer |-> "cached"] /\ UNCHANGED task
             /\ findings'[s] = IF task[s] \in {"none", "New"} THEN "empty" ELSE "report"
      BY <2>6, Types DEF Fetch, Answered, Handled
    <3>2. task[s] \in {"Done", "none"}
      BY <1>1, <2>6 DEF Fetch, FindingsIInv, CallIsTrue
    <3> QED  BY <2>3, <3>1, <3>2 DEF FindingsIInv, CallIsTrue, NoCall, HasFindings
  <2> QED  BY <1>5, <2>4, <2>5, <2>6
<1>6. CASE Complete(s)
  <2>1. /\ jobs' = Ended(s, "COMPLETED") /\ call' = NoCall /\ UNCHANGED <<findings, task>>
        /\ call.answer = "cached" /\ call.scan = s
    BY <1>6 DEF Complete, Stores, Handled
  <2>2. HasFindings(s)
    BY <1>1, <2>1 DEF FindingsIInv, CallIsTrue
  <2>3. \A k \in Scans \ {s} : jobs'[k] = jobs[k]
    BY <2>1, EndedIsOver DEF TerminalStates
  <2>4. JobsHaveFindings'
    <3> SUFFICES ASSUME NEW k \in Scans, jobs'[k].state = "COMPLETED", ~Old(jobs[k])' PROVE HasFindings(k)'
      BY DEF JobsHaveFindings
    <3>1. CASE k = s
      BY <2>1, <2>2, <3>1 DEF HasFindings
    <3>2. CASE k # s
      BY <1>1, <2>1, <2>3, <3>2 DEF FindingsIInv, JobsHaveFindings, HasFindings, Old
    <3> QED  BY <3>1, <3>2
  <2>5. FileFollows'
    <3>1. CASE file' = jobs'
      BY <3>1 DEF FileFollows
    <3>2. CASE file' = file
      BY <1>1, <1>3, <2>3, <3>2 DEF FindingsIInv, FileFollows, Old
    <3> QED  BY <1>1, <3>1, <3>2
  <2> QED  BY <2>1, <2>4, <2>5 DEF FindingsIInv, CallIsTrue, NoCall
<1> QED  BY <1>5, <1>6 DEF PollStep

LEMMA FindingsStay == IInv /\ FindingsIInv /\ [ScanNext]_scanVars => FindingsIInv'
<1> SUFFICES ASSUME IInv, FindingsIInv, [ScanNext]_scanVars PROVE FindingsIInv'
  OBVIOUS
<1> QED
  BY HandlerLeavesFindings, ExternalLeavesFindings, RestartLeavesFindings, PhaseLeavesFindings, MovesLeaveFindings,
     PollLeavesFindings DEF ScanNext, Runs, Reconciler

\* readFindings: what is reported as completed has its findings, for any scans and times, however often
\* saves and bridge calls fail, the process restarts or an administrator deletes tasks.
THEOREM FindingsHold == ScanSpec => []ScanInv
<1>1. ScanInit => FindingsIInv
  BY DEF ScanInit, FindingsIInv, FileFollows, JobsHaveFindings, CallIsTrue, NoJob, NoCall
<1>2. IInv /\ FindingsIInv => ScanInv
  <2> SUFFICES ASSUME IInv, FindingsIInv PROVE CompletedHasFindings
    BY DEF ScanInv, IInv
  <2>1. ASSUME NEW s \in Scans, file[s].state = "COMPLETED", ~Old(file[s])
        PROVE  jobs[s].state = "COMPLETED" /\ ~Old(jobs[s])
    BY <2>1 DEF FindingsIInv, FileFollows, Old, Terminal
  <2> QED  BY <2>1 DEF FindingsIInv, JobsHaveFindings, HasFindings, CompletedHasFindings
<1> QED
  BY <1>1, <1>2, InitHolds, StepHolds, FindingsStay, PTL DEF ScanSpec

=============================================================================
