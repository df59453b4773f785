--------------------------- MODULE SensorDispatch ---------------------------
(***************************************************************************)
(* Scan jobs for the sensors of one tenant: the cloud's queue and its file *)
(* (control-plane/sensorjobs), the sensor's loop of poll, scan, report and *)
(* ack (sensor/internal/supervisor and scanrun, over sensor/internal/cloud *)
(* and gmp-bridge), and the import of the report (ingest/sensorreport).    *)
(*                                                                         *)
(* A call of the registry is one action, under its mutex.  Each request of *)
(* a sensor may be lost, and so may its answer: then the sensor drops the  *)
(* job and polls again.  A request that authorization, the revocation list *)
(* or a scope refuses has the same effect as one that is lost, and tenants *)
(* share nothing that an action reads.                                     *)
(*                                                                         *)
(* Time is kept as ages, each up to the last value that a test tells       *)
(* apart, so that it has no end.                                           *)
(***************************************************************************)
EXTENDS Integers, FiniteSets

CONSTANTS
    Jobs,           \* bound: the job ids that are ever drawn
    Sensors, NoSensorJob,
    KeyOf,          \* dedupKey of each job
    TTL,            \* the ticks each job lives; MaxAge if the operator asked for a long time
    MaxAge, Cooldown, Redeliver,
    SaveFaults      \* whether saveLocked may fail

ASSUME DispatchAssumption ==
    /\ MaxAge \in Nat /\ TTL \in [Jobs -> 0..MaxAge]
    /\ Cooldown \in 0..MaxAge /\ Redeliver \in Nat
    /\ DOMAIN KeyOf = Jobs /\ NoSensorJob \notin Jobs
    /\ SaveFaults \in BOOLEAN

VARIABLES
    jobs, file,     \* the registry and its file
    age,            \* ticks since a job was created, up to MaxAge
    sensors,        \* where each sensor's loop stands, and with which job
    reported,       \* observed: jobs whose report was imported, or found nothing
    answered        \* observed: jobs whose enqueue was answered

dispatchVars == <<jobs, file, age, sensors, reported, answered>>

JobStates == {"PENDING", "DELIVERED", "ACKED", "EXPIRED"}
Absent == [state |-> "absent", since |-> 0]
ScanJobType == {Absent} \cup [state : JobStates, since : 0..(Redeliver + 1)]

\* JobState.terminal. Nothing in the program sets DONE.
Live(job) == job.state \in {"PENDING", "DELIVERED", "ACKED"}

Idle == [at |-> "idle", job |-> NoSensorJob]

\* What Poll and Ack do with an error of the save.
Saved == file' \in {jobs'} \cup (IF SaveFaults THEN {file} ELSE {})

Moves(s, step) == sensors' = [sensors EXCEPT ![s].at = step]

Drops(s) == sensors' = [sensors EXCEPT ![s] = Idle]

---------------------------------------------------------------------------
(* Enqueue *)

\* Mutant: a job that was handed out is not looked at.
PendingTwin(j) ==
    \E k \in Jobs : jobs[k].state = "PENDING" /\ age[k] < Cooldown /\ KeyOf[k] = KeyOf[j]

\* An identical request within the cooldown is answered with the job that is there.
Twin(j) == \E k \in Jobs : Live(jobs[k]) /\ age[k] < Cooldown /\ KeyOf[k] = KeyOf[j]

\* A job that cannot be saved is taken out again: nothing happened.
Enqueues(j) ==
    /\ jobs[j] = Absent /\ ~Twin(j)
    /\ jobs' = [jobs EXCEPT ![j] = [state |-> "PENDING", since |-> 0]]
    /\ file' = jobs'
    /\ answered' = answered \cup {j}
    /\ UNCHANGED <<age, sensors, reported>>

---------------------------------------------------------------------------
(* Poll *)

Overdue(j) == Live(jobs[j]) /\ age[j] > TTL[j]

Swept == [j \in Jobs |-> IF Overdue(j) THEN [jobs[j] EXCEPT !.state = "EXPIRED"] ELSE jobs[j]]

\* Mutant: a job that was handed out is never handed out again.
Undelivered(j) == Swept[j].state = "PENDING"

\* Mutant: the jobs are looked at before they are swept.
Unswept(j) ==
    \/ jobs[j].state = "PENDING"
    \/ jobs[j].state = "DELIVERED" /\ jobs[j].since > Redeliver

Eligible(j) ==
    \/ Swept[j].state = "PENDING"
    \/ Swept[j].state = "DELIVERED" /\ Swept[j].since > Redeliver

\* The oldest job, to a sensor that may not get the answer.
PollHands(s, j) ==
    /\ sensors[s] = Idle
    /\ Eligible(j) /\ \A k \in Jobs : Eligible(k) => age[k] <= age[j]
    /\ jobs' = [Swept EXCEPT ![j] = [state |-> "DELIVERED", since |-> 0]]
    /\ Saved
    /\ sensors' \in {sensors, [sensors EXCEPT ![s] = [at |-> "scan", job |-> j]]}
    /\ UNCHANGED <<age, reported, answered>>

PollSweeps(s) ==
    /\ sensors[s] = Idle
    /\ \A j \in Jobs : ~Eligible(j)
    /\ Swept # jobs
    /\ jobs' = Swept
    /\ Saved
    /\ UNCHANGED <<age, sensors, reported, answered>>

---------------------------------------------------------------------------
(* Runner.Run: launch, status until Done, and fetch, on the sensor's own gvmd *)

\* The findings are there, or the baked scope leaves no target and there is nothing to find.
Scans(s) ==
    /\ sensors[s].at = "scan"
    /\ Moves(s, "push")
    /\ UNCHANGED <<jobs, file, age, reported, answered>>

\* A call of the bridge fails, the task ended otherwise, or MaxDuration is over. The task is kept by
\* its name, so that the next delivery goes on with it.
ScanFails(s) ==
    /\ sensors[s].at = "scan"
    /\ Drops(s)
    /\ UNCHANGED <<jobs, file, age, reported, answered>>

---------------------------------------------------------------------------
(* The report, and the ack *)

\* Imported, and the answer arrives.
Pushes(s) ==
    /\ sensors[s].at = "push"
    /\ reported' = reported \cup {sensors[s].job}
    /\ Moves(s, "ack")
    /\ UNCHANGED <<jobs, file, age, answered>>

\* Mutant: the job is acked though its report failed.
PushFailsUnseen(s) ==
    /\ sensors[s].at = "push"
    /\ Moves(s, "ack")
    /\ UNCHANGED <<jobs, file, age, reported, answered>>

\* Not imported, or the answer is lost or too late for the client.
PushFails(s) ==
    /\ sensors[s].at = "push"
    /\ reported' \in {reported, reported \cup {sensors[s].job}}
    /\ Drops(s)
    /\ UNCHANGED <<jobs, file, age, answered>>

\* Registry.Ack, and its request that is lost.
Acks(s) ==
    LET j == sensors[s].job IN
    /\ sensors[s].at = "ack"
    /\ jobs' = IF Live(jobs[j]) THEN [jobs EXCEPT ![j].state = "ACKED"] ELSE jobs
    /\ Saved
    /\ Drops(s)
    /\ UNCHANGED <<age, reported, answered>>

AckIsLost(s) ==
    /\ sensors[s].at = "ack"
    /\ Drops(s)
    /\ UNCHANGED <<jobs, file, age, reported, answered>>

---------------------------------------------------------------------------
(* Time and process stops *)

Older(reg) ==
    [j \in Jobs |-> [reg[j] EXCEPT !.since =
        IF reg[j].state = "DELIVERED" /\ @ <= Redeliver THEN @ + 1 ELSE @]]

Tick ==
    /\ age' = [j \in Jobs |-> IF jobs[j] # Absent /\ age[j] < MaxAge THEN age[j] + 1 ELSE age[j]]
    /\ jobs' = Older(jobs) /\ file' = Older(file)
    /\ <<age, jobs, file>>' # <<age, jobs, file>>
    /\ UNCHANGED <<sensors, reported, answered>>

CloudRestarts ==
    /\ jobs' = file
    /\ UNCHANGED <<file, age, sensors, reported, answered>>

SensorRestarts(s) ==
    /\ Drops(s)
    /\ UNCHANGED <<jobs, file, age, reported, answered>>

DispatchInit ==
    /\ jobs = [j \in Jobs |-> Absent] /\ file = jobs
    /\ age = [j \in Jobs |-> 0]
    /\ sensors = [s \in Sensors |-> Idle]
    /\ reported = {} /\ answered = {}

\* Supervisor.Run: one goroutine, one job at a time.
Loop(s) ==
    \/ PollSweeps(s) \/ \E j \in Jobs : PollHands(s, j)
    \/ Scans(s) \/ ScanFails(s) \/ Pushes(s) \/ PushFails(s) \/ Acks(s) \/ AckIsLost(s)

DispatchNext ==
    \/ \E j \in Jobs : Enqueues(j)
    \/ \E s \in Sensors : Loop(s) \/ SensorRestarts(s)
    \/ Tick \/ CloudRestarts

DispatchSpec == DispatchInit /\ [][DispatchNext]_dispatchVars

\* Nothing goes wrong: no answer and no save is lost, no call fails, no scan and no sensor stops.
Undisturbed ==
    \/ Tick \/ CloudRestarts \/ \E j \in Jobs : Enqueues(j)
    \/ \E s \in Sensors :
        \/ Scans(s) \/ Pushes(s)
        \/ file' = jobs' /\ (PollSweeps(s) \/ Acks(s))
        \/ file' = jobs' /\ sensors'[s] # Idle /\ \E j \in Jobs : PollHands(s, j)

\* Time passes, the sensors' loops and their scans go on, and the faults are over at last.
FairDispatchSpec ==
    /\ DispatchSpec
    /\ <>[][Undisturbed]_dispatchVars
    /\ WF_dispatchVars(Tick)
    /\ \A s \in Sensors : WF_dispatchVars(Loop(s))

---------------------------------------------------------------------------
(* Properties *)

DispatchTypeOK ==
    /\ jobs \in [Jobs -> ScanJobType] /\ file \in [Jobs -> ScanJobType]
    /\ age \in [Jobs -> 0..MaxAge]
    /\ sensors \in [Sensors -> {Idle} \cup [at : {"scan", "push", "ack"}, job : Jobs]]
    /\ reported \subseteq Jobs /\ answered \subseteq Jobs

\* supervisor.go: acking on receipt "made a crash or a transient PushReport failure silently lose that
\* tenant's findings". A job that is acked, in memory or on disk, has its report imported.
AckedIsReported ==
    \A j \in Jobs : "ACKED" \in {jobs[j].state, file[j].state} => j \in reported

\* registry.go: the queue "survives a control-plane restart". A job that was answered is never lost.
EnqueuedIsKept == \A j \in answered : jobs[j] # Absent

\* Enqueue: no two live jobs of one key are created within one cooldown, whatever was handed out,
\* acked or forgotten by a restart in between.
OneTwin ==
    \A j, k \in Jobs :
        (j # k /\ KeyOf[j] = KeyOf[k] /\ Live(jobs[j]) /\ Live(jobs[k]) /\ age[j] < MaxAge /\ age[k] < MaxAge)
            => age[j] - age[k] \notin (1 - Cooldown)..(Cooldown - 1)

\* The types of the state, and with them OneTwin and EnqueuedIsKept.
DispatchInv == DispatchTypeOK /\ OneTwin /\ EnqueuedIsKept

\* Poll: a job past its time is handed to no sensor, though the mark of its end may have been lost.
NoWorkAfterExpiry ==
    [][\A s \in Sensors, j \in Jobs :
        sensors[s] = Idle /\ sensors'[s].job = j => age[j] <= TTL[j]]_dispatchVars

\* At-least-once delivery: a job that was enqueued is done and acked, or expires, whatever is lost,
\* and whatever jobs are ahead of it.
EveryJobEnds ==
    \A j \in Jobs : j \in answered ~> jobs[j].state \in {"ACKED", "EXPIRED"}

===========================================================================
