------------------------ MODULE SensorDispatchProofs ------------------------
(***************************************************************************)
(* What SensorDispatch keeps for any jobs, sensors, times and faults.      *)
(* Most steps are quiet: they change how far a job is, and no job comes to *)
(* life.  Enqueue and the passing of time are the other ones.  The         *)
(* inductive invariant speaks of memory and file alike, since a restart    *)
(* brings back whatever the file has.                                      *)
(*                                                                         *)
(* The last part is about the gates that a job's targets go through, for   *)
(* addresses of any width: what they say of bits and prefixes is what is   *)
(* meant of numbers and intervals, and they agree with one another.  It    *)
(* goes from numbers and their bits over blocks of bits and what a literal *)
(* names to the gates themselves.                                          *)
(***************************************************************************)
EXTENDS MCSensorDispatch, SequenceTheorems, FiniteSetTheorems, TLAPS

\* For SetInduction: a set of numbers with zero and every successor has all. No byte is coded here.
Decisions == INSTANCE DecisionProofs WITH Coded <- {}, Hex <- <<>>

SensorType == {Idle} \cup [at : {"scan", "push", "ack"}, job : Jobs]

\* Enqueue saves what it adds, so that the file knows of every job.
Known ==
    \A j \in Jobs :
        /\ jobs[j] = Absent <=> file[j] = Absent
        /\ jobs[j] = Absent => age[j] = 0 /\ j \notin answered

Alive(j) == Live(jobs[j]) \/ Live(file[j])

\* Registry.Enqueue: OneTwin, for what is alive in memory or in the file.
Apart ==
    \A j, k \in Jobs :
        (j # k /\ KeyOf[j] = KeyOf[k] /\ Alive(j) /\ Alive(k) /\ age[j] < MaxAge /\ age[k] < MaxAge)
            => age[j] - age[k] >= Cooldown \/ age[k] - age[j] >= Cooldown

\* Supervisor.runJob: a sensor that is about to ack has reported.
ReportedFirst == \A s \in Sensors : sensors[s].at = "ack" => sensors[s].job \in reported

IInv == DispatchTypeOK /\ Known /\ Apart /\ AckedIsReported /\ ReportedFirst

\* Nothing was ever enqueued.
LEMMA InitHolds == DispatchInit => IInv
<1> SUFFICES ASSUME DispatchInit PROVE IInv
  OBVIOUS
<1> USE DispatchAssumption DEF DispatchInit
<1>1. \A j \in Jobs : jobs[j] = Absent /\ file[j] = Absent /\ age[j] = 0
  OBVIOUS
<1>2. DispatchTypeOK
  BY DEF DispatchTypeOK, ScanJobType
<1>3. Known
  BY <1>1 DEF Known
<1>4. Apart /\ AckedIsReported
  BY <1>1 DEF Apart, Alive, Live, Absent, AckedIsReported
<1>5. ReportedFirst
  BY DEF ReportedFirst, Idle
<1> QED
  BY <1>2, <1>3, <1>4, <1>5 DEF IInv

\* What a step without an Enqueue may do to the jobs, and what it must leave.
LEMMA QuietKeeps ==
    ASSUME IInv,
           jobs' \in [Jobs -> ScanJobType], file' = jobs' \/ file' = file,
           \A j \in Jobs : /\ jobs'[j] = Absent <=> jobs[j] = Absent
                           /\ Live(jobs'[j]) => Alive(j)
                           /\ jobs'[j].state = "ACKED" =>
                                  "ACKED" \in {jobs[j].state, file[j].state} \/ j \in reported,
           sensors' \in [Sensors -> SensorType], reported \subseteq reported', reported' \subseteq Jobs,
           \A s \in Sensors : sensors'[s].at = "ack" => sensors'[s].job \in reported',
           UNCHANGED <<age, answered>>
    PROVE  IInv'
<1>1. DispatchTypeOK'
  BY DEF IInv, DispatchTypeOK, SensorType
<1>2. Known'
  BY DEF IInv, Known
<1>3. \A j \in Jobs : Alive(j)' => Alive(j)
  BY DEF Alive, Live
<1>4. Apart'
  BY <1>3 DEF IInv, Apart
<1>5. AckedIsReported'
  BY DEF IInv, AckedIsReported
<1>6. ReportedFirst'
  BY DEF ReportedFirst
<1> QED
  BY <1>1, <1>2, <1>4, <1>5, <1>6 DEF IInv

\* The types of the parts, for the steps below.
LEMMA Types ==
    ASSUME IInv
    PROVE  /\ jobs \in [Jobs -> ScanJobType] /\ file \in [Jobs -> ScanJobType] /\ age \in [Jobs -> 0..MaxAge]
           /\ sensors \in [Sensors -> SensorType] /\ reported \subseteq Jobs /\ answered \subseteq Jobs
  BY DEF IInv, DispatchTypeOK, SensorType

\* Poll's sweep ends jobs and begins none.
LEMMA SweepIsQuiet ==
    ASSUME IInv
    PROVE  /\ Swept \in [Jobs -> ScanJobType]
           /\ \A j \in Jobs : /\ Swept[j] = Absent <=> jobs[j] = Absent
                              /\ Live(Swept[j]) => Live(jobs[j]) /\ Swept[j] = jobs[j] /\ age[j] <= TTL[j]
                              /\ Swept[j].state = "ACKED" => jobs[j].state = "ACKED"
<1>1. \A j \in Jobs : jobs[j] \in ScanJobType /\ age[j] \in Int /\ TTL[j] \in Int
  BY Types, DispatchAssumption
<1>2. ASSUME NEW j \in Jobs, Overdue(j)
      PROVE  [jobs[j] EXCEPT !.state = "EXPIRED"] \in [state : JobStates, since : 0..(Redeliver + 1)]
             /\ jobs[j] # Absent
  BY <1>1, <1>2 DEF Overdue, Live, Absent, ScanJobType, JobStates
<1>3. ASSUME NEW j \in Jobs, Overdue(j)
      PROVE  Swept[j].state = "EXPIRED" /\ Swept[j] # Absent /\ Swept[j] \in ScanJobType
  <2>1. Swept[j] = [jobs[j] EXCEPT !.state = "EXPIRED"]
    BY <1>3 DEF Swept
  <2> QED
    BY <1>2, <1>3, <2>1 DEF ScanJobType, Absent
<1>4. ASSUME NEW j \in Jobs, ~Overdue(j)
      PROVE  Swept[j] = jobs[j] /\ (Live(jobs[j]) => age[j] <= TTL[j])
  BY <1>1, <1>4 DEF Swept, Overdue
<1>5. Swept \in [Jobs -> ScanJobType]
  <2>1. Swept = [j \in Jobs |-> Swept[j]]
    BY DEF Swept
  <2> QED
    BY <1>1, <1>3, <1>4, <2>1
<1> QED
  BY <1>1, <1>2, <1>3, <1>4, <1>5 DEF Live, Absent

\* Registry.Poll, with and without a job for the sensor.
LEMMA PollKeeps ==
    ASSUME IInv, NEW s \in Sensors, PollSweeps(s) \/ \E j \in Jobs : PollHands(s, j)
    PROVE  IInv'
<1>1. CASE PollSweeps(s)
  <2>1. jobs' = Swept /\ (file' = jobs' \/ file' = file) /\ UNCHANGED <<age, sensors, reported, answered>>
    BY <1>1 DEF PollSweeps, Saved
  <2> QED
    BY <2>1, Types, SweepIsQuiet, QuietKeeps DEF Alive, IInv, ReportedFirst
<1>2. CASE \E j \in Jobs : PollHands(s, j)
  <2>1. PICK j \in Jobs : PollHands(s, j)
    BY <1>2
  <2> DEFINE handed == [state |-> "DELIVERED", since |-> 0]
  <2>2. /\ Eligible(j) /\ jobs' = [Swept EXCEPT ![j] = handed] /\ (file' = jobs' \/ file' = file)
        /\ sensors' \in {sensors, [sensors EXCEPT ![s] = [at |-> "scan", job |-> j]]}
        /\ UNCHANGED <<age, reported, answered>>
    BY <2>1 DEF PollHands, Saved
  <2>3. handed \in ScanJobType /\ handed # Absent /\ handed.state = "DELIVERED"
    BY DispatchAssumption DEF ScanJobType, JobStates, Absent
  <2>4. Live(Swept[j]) /\ Live(jobs[j]) /\ jobs[j] # Absent
    BY <2>2, SweepIsQuiet DEF Eligible, Live, Absent
  <2>5. jobs' \in [Jobs -> ScanJobType] /\ jobs'[j] = handed /\ \A k \in Jobs : k # j => jobs'[k] = Swept[k]
    BY <2>2, <2>3, SweepIsQuiet
  <2> HIDE DEF handed
  <2>6. \A k \in Jobs : /\ jobs'[k] = Absent <=> jobs[k] = Absent
                        /\ Live(jobs'[k]) => Alive(k)
                        /\ jobs'[k].state = "ACKED" => jobs[k].state = "ACKED"
    BY <2>3, <2>4, <2>5, SweepIsQuiet DEF Alive
  <2>7. sensors' \in [Sensors -> SensorType]
    BY <2>2, Types DEF SensorType
  <2>8. \A q \in Sensors : sensors'[q].at = "ack" => sensors'[q].job \in reported'
    BY <2>2, Types DEF IInv, ReportedFirst
  <2> QED
    BY <2>2, <2>5, <2>6, <2>7, <2>8, Types, QuietKeeps
<1> QED
  BY <1>1, <1>2

\* Supervisor.runJob up to the report, and whatever forgets a job in hand.
LEMMA SensorKeeps ==
    ASSUME IInv, NEW s \in Sensors,
           Scans(s) \/ ScanFails(s) \/ Pushes(s) \/ PushFails(s) \/ AckIsLost(s) \/ SensorRestarts(s)
    PROVE  IInv'
<1>1. UNCHANGED <<jobs, file, age, answered>>
  BY DEF Scans, ScanFails, Pushes, PushFails, AckIsLost, SensorRestarts
<1>2. sensors[s].at \in {"scan", "push"} => sensors[s].job \in Jobs /\ sensors[s] \in [at : {"scan", "push", "ack"}, job : Jobs]
  BY Types DEF SensorType, Idle
<1>3. reported \subseteq reported' /\ reported' \subseteq Jobs
  BY <1>2, Types DEF Scans, ScanFails, Pushes, PushFails, AckIsLost, SensorRestarts
<1>4. \/ sensors' = [sensors EXCEPT ![s] = Idle]
      \/ sensors[s].at \in {"scan", "push"} /\ sensors' = [sensors EXCEPT ![s].at = "push"]
      \/ /\ sensors[s].at = "push" /\ sensors' = [sensors EXCEPT ![s].at = "ack"]
         /\ sensors[s].job \in reported'
  BY DEF Scans, ScanFails, Pushes, PushFails, AckIsLost, SensorRestarts, Moves, Drops
<1>5. /\ sensors' \in [Sensors -> SensorType]
      /\ \A q \in Sensors : sensors'[q].at = "ack" => sensors'[q].job \in reported'
  <2>1. CASE sensors' = [sensors EXCEPT ![s] = Idle]
    BY <1>3, <2>1, Types DEF IInv, ReportedFirst, SensorType, Idle
  <2>2. ASSUME NEW step \in {"push", "ack"}, sensors[s].at \in {"scan", "push"},
               sensors' = [sensors EXCEPT ![s].at = step], step = "ack" => sensors[s].job \in reported'
        PROVE  /\ sensors' \in [Sensors -> SensorType]
               /\ \A q \in Sensors : sensors'[q].at = "ack" => sensors'[q].job \in reported'
    <3>1. /\ sensors'[s] = [sensors[s] EXCEPT !.at = step]
          /\ \A q \in Sensors : q # s => sensors'[q] = sensors[q]
      BY <2>2, Types
    <3>2. sensors'[s] \in SensorType /\ sensors'[s].at = step /\ sensors'[s].job = sensors[s].job
      BY <1>2, <2>2, <3>1 DEF SensorType
    <3>3. sensors' \in [Sensors -> SensorType]
      BY <2>2, <3>1, <3>2, Types
    <3> QED
      BY <1>3, <2>2, <3>1, <3>2, <3>3 DEF IInv, ReportedFirst
  <2> QED
    BY <1>4, <2>1, <2>2
<1> QED
  BY <1>1, <1>3, <1>5, Types, QuietKeeps DEF Alive

\* Registry.Ack: only of what was reported.
LEMMA AckKeeps ==
    ASSUME IInv, NEW s \in Sensors, Acks(s)
    PROVE  IInv'
<1> DEFINE j == sensors[s].job
<1>1. j \in Jobs /\ j \in reported
  BY Types DEF IInv, ReportedFirst, Acks, SensorType, Idle
<1>2. /\ jobs' = IF Live(jobs[j]) THEN [jobs EXCEPT ![j].state = "ACKED"] ELSE jobs
      /\ file' = jobs' \/ file' = file
      /\ sensors' = [sensors EXCEPT ![s] = Idle] /\ UNCHANGED <<age, reported, answered>>
  BY DEF Acks, Saved, Drops
<1> HIDE DEF j
<1>3. /\ jobs' \in [Jobs -> ScanJobType]
      /\ \A k \in Jobs : /\ jobs'[k] = Absent <=> jobs[k] = Absent
                         /\ Live(jobs'[k]) => Alive(k)
                         /\ jobs'[k].state = "ACKED" => jobs[k].state = "ACKED" \/ k \in reported
  <2>1. CASE Live(jobs[j])
    <3>1. jobs[j] \in [state : JobStates, since : 0..(Redeliver + 1)]
      BY <1>1, <2>1, Types DEF ScanJobType, Live, Absent
    <3>2. jobs'[j] = [jobs[j] EXCEPT !.state = "ACKED"] /\ \A k \in Jobs : k # j => jobs'[k] = jobs[k]
      BY <1>1, <1>2, <2>1, Types
    <3>3. jobs'[j] \in ScanJobType /\ jobs'[j] # Absent /\ jobs[j] # Absent /\ Live(jobs'[j])
      BY <2>1, <3>1, <3>2 DEF ScanJobType, JobStates, Absent, Live
    <3>4. jobs' \in [Jobs -> ScanJobType]
      BY <1>2, <2>1, <3>2, <3>3, Types
    <3> QED
      BY <1>1, <2>1, <3>2, <3>3, <3>4 DEF Alive
  <2>2. CASE ~Live(jobs[j])
    BY <1>2, <2>2, Types DEF Alive
  <2> QED
    BY <2>1, <2>2
<1>4. /\ sensors' \in [Sensors -> SensorType]
      /\ \A q \in Sensors : sensors'[q].at = "ack" => sensors'[q].job \in reported'
  BY <1>2, Types DEF IInv, ReportedFirst, SensorType, Idle
<1> QED
  BY <1>2, <1>3, <1>4, Types, QuietKeeps

\* The file is read back: what it has was so once.
LEMMA RestartKeeps ==
    ASSUME IInv, CloudRestarts \/ UNCHANGED dispatchVars
    PROVE  IInv'
<1>1. jobs' \in {jobs, file} /\ UNCHANGED <<file, age, sensors, reported, answered>>
  BY DEF CloudRestarts, dispatchVars
<1> QED
  BY <1>1, Types, QuietKeeps DEF IInv, Known, Alive, ReportedFirst

\* Registry.Enqueue: no twin is young, in memory or in the file, which it saves with the job.
LEMMA EnqueueKeeps ==
    ASSUME IInv, NEW j \in Jobs, Enqueues(j)
    PROVE  IInv'
<1> DEFINE fresh == [state |-> "PENDING", since |-> 0]
<1>1. /\ jobs[j] = Absent /\ ~Twin(j) /\ jobs' = [jobs EXCEPT ![j] = fresh] /\ file' = jobs'
      /\ answered' = answered \cup {j} /\ UNCHANGED <<age, sensors, reported>>
  BY DEF Enqueues
<1>2. fresh \in ScanJobType /\ fresh # Absent /\ fresh.state = "PENDING"
  BY DispatchAssumption DEF ScanJobType, JobStates, Absent
<1>3. /\ jobs' \in [Jobs -> ScanJobType] /\ jobs'[j] = fresh
      /\ \A k \in Jobs : k # j => jobs'[k] = jobs[k]
  BY <1>1, <1>2, Types
<1> HIDE DEF fresh
<1>4. DispatchTypeOK'
  BY <1>1, <1>3, Types DEF DispatchTypeOK, SensorType
<1>5. Known'
  BY <1>1, <1>2, <1>3 DEF IInv, Known
<1>6. Apart'
  <2>1. age[j] = 0
    BY <1>1 DEF IInv, Known
  <2>2. \A k \in Jobs : Alive(k)' /\ k # j => Live(jobs[k])
    BY <1>1, <1>3 DEF Alive
  <2>3. \A k \in Jobs : k # j /\ KeyOf[k] = KeyOf[j] /\ Alive(k)' => age[k] >= Cooldown
    BY <1>1, <2>2, Types, DispatchAssumption DEF Twin
  <2> QED
    BY <1>1, <2>1, <2>2, <2>3, Types, DispatchAssumption DEF IInv, Apart, Alive
<1>7. AckedIsReported'
  BY <1>1, <1>2, <1>3 DEF IInv, AckedIsReported
<1>8. ReportedFirst'
  BY <1>1 DEF IInv, ReportedFirst
<1> QED
  BY <1>4, <1>5, <1>6, <1>7, <1>8 DEF IInv

\* Time passes for all jobs alike.
LEMMA TickKeeps ==
    ASSUME IInv, Tick
    PROVE  IInv'
<1>1. ASSUME NEW reg, reg \in [Jobs -> ScanJobType]
      PROVE  /\ Older(reg) \in [Jobs -> ScanJobType]
             /\ \A j \in Jobs : Older(reg)[j].state = reg[j].state /\ (Older(reg)[j] = Absent <=> reg[j] = Absent)
  <2>1. ASSUME NEW j \in Jobs
        PROVE  /\ Older(reg)[j] \in ScanJobType
               /\ Older(reg)[j].state = reg[j].state /\ (Older(reg)[j] = Absent <=> reg[j] = Absent)
    <3>1. reg[j] \in ScanJobType
      BY <1>1
    <3>2. CASE reg[j].state = "DELIVERED" /\ reg[j].since <= Redeliver
      <4>1. Older(reg)[j] = [reg[j] EXCEPT !.since = reg[j].since + 1]
        BY <3>2 DEF Older
      <4>2. reg[j] \in [state : JobStates, since : 0..(Redeliver + 1)]
        BY <3>1, <3>2 DEF ScanJobType, Absent
      <4>3. reg[j].since + 1 \in 0..(Redeliver + 1)
        BY <3>2, <4>2, DispatchAssumption
      <4>4. Older(reg)[j] \in [state : JobStates, since : 0..(Redeliver + 1)] /\ Older(reg)[j].state = reg[j].state
        BY <4>1, <4>2, <4>3
      <4> QED
        BY <3>2, <4>4 DEF ScanJobType, Absent
    <3>3. CASE ~(reg[j].state = "DELIVERED" /\ reg[j].since <= Redeliver)
      <4>1. Older(reg)[j] = [reg[j] EXCEPT !.since = reg[j].since]
        BY <3>3 DEF Older
      <4>2. Older(reg)[j] = reg[j]
        BY <3>1, <4>1 DEF ScanJobType, Absent
      <4> QED
        BY <3>1, <4>2
    <3> QED
      BY <3>2, <3>3
  <2>2. Older(reg) = [j \in Jobs |-> Older(reg)[j]]
    BY DEF Older
  <2> QED
    BY <2>1, <2>2
<1>2. /\ jobs' = Older(jobs) /\ file' = Older(file) /\ UNCHANGED <<sensors, reported, answered>>
      /\ age' = [j \in Jobs |-> IF jobs[j] # Absent /\ age[j] < MaxAge THEN age[j] + 1 ELSE age[j]]
  BY DEF Tick
<1>3. /\ jobs' \in [Jobs -> ScanJobType] /\ file' \in [Jobs -> ScanJobType]
      /\ \A j \in Jobs : /\ jobs'[j].state = jobs[j].state /\ (jobs'[j] = Absent <=> jobs[j] = Absent)
                         /\ file'[j].state = file[j].state /\ (file'[j] = Absent <=> file[j] = Absent)
  BY <1>1, <1>2, Types
<1>4. DispatchTypeOK'
  <2>1. age' \in [Jobs -> 0..MaxAge]
    BY <1>2, Types, DispatchAssumption
  <2> QED
    BY <1>2, <1>3, <2>1, Types DEF DispatchTypeOK, SensorType
<1>5. Known'
  BY <1>2, <1>3, Types DEF IInv, Known
<1>6. Apart'
  <2> SUFFICES ASSUME NEW j \in Jobs, NEW k \in Jobs, j # k, KeyOf[j] = KeyOf[k], Alive(j)', Alive(k)',
                      age'[j] < MaxAge, age'[k] < MaxAge
               PROVE  age'[j] - age'[k] >= Cooldown \/ age'[k] - age'[j] >= Cooldown
    BY DEF Apart
  <2>1. Alive(j) /\ Alive(k) /\ jobs[j] # Absent /\ jobs[k] # Absent
    BY <1>3 DEF Alive, Live, IInv, Known, Absent
  <2>2. /\ age[j] \in Int /\ age[k] \in Int /\ MaxAge \in Int /\ Cooldown \in Int
        /\ age'[j] = age[j] + 1 /\ age'[k] = age[k] + 1
    BY <1>2, <2>1, Types, DispatchAssumption
  <2>3. age[j] - age[k] >= Cooldown \/ age[k] - age[j] >= Cooldown
    BY <2>1, <2>2 DEF IInv, Apart
  <2> QED
    BY <2>2, <2>3
<1>7. AckedIsReported'
  BY <1>2, <1>3 DEF IInv, AckedIsReported
<1>8. ReportedFirst'
  BY <1>2 DEF IInv, ReportedFirst
<1> QED
  BY <1>4, <1>5, <1>6, <1>7, <1>8 DEF IInv

\* Every step of the specification.
LEMMA StepHolds == IInv /\ [DispatchNext]_dispatchVars => IInv'
<1> SUFFICES ASSUME IInv, [DispatchNext]_dispatchVars PROVE IInv'
  OBVIOUS
<1>1. CASE \E j \in Jobs : Enqueues(j)
  BY <1>1, EnqueueKeeps
<1>2. CASE \E s \in Sensors : Loop(s) \/ SensorRestarts(s)
  BY <1>2, PollKeeps, SensorKeeps, AckKeeps DEF Loop
<1>3. CASE Tick
  BY <1>3, TickKeeps
<1>4. CASE CloudRestarts \/ UNCHANGED dispatchVars
  BY <1>4, RestartKeeps
<1> QED
  BY <1>1, <1>2, <1>3, <1>4 DEF DispatchNext

\* supervisor.go and registry.go, for any jobs, sensors and times, though any answer and any save is
\* lost: what is acked has been reported.
THEOREM AcksFollowReports == DispatchSpec => []AckedIsReported
<1>1. IInv => AckedIsReported
  BY DEF IInv
<1> QED
  BY <1>1, InitHolds, StepHolds, PTL DEF DispatchSpec

\* Registry.Enqueue, under the same faults: no two live jobs of one key are closer to each other than
\* the cooldown, and a job that was answered is there.
THEOREM QueueHolds == DispatchSpec => []DispatchInv
<1>1. IInv => DispatchInv
  <2> SUFFICES ASSUME IInv PROVE OneTwin /\ EnqueuedIsKept
    BY DEF IInv, DispatchInv
  <2>1. EnqueuedIsKept
    BY Types DEF IInv, Known, EnqueuedIsKept
  <2>2. OneTwin
    <3> SUFFICES ASSUME NEW j \in Jobs, NEW k \in Jobs, j # k, KeyOf[j] = KeyOf[k], Live(jobs[j]), Live(jobs[k]),
                        age[j] < MaxAge, age[k] < MaxAge
                 PROVE  age[j] - age[k] \notin (1 - Cooldown)..(Cooldown - 1)
      BY DEF OneTwin
    <3>1. age[j] \in Int /\ age[k] \in Int /\ Cooldown \in Int
      BY Types, DispatchAssumption
    <3>2. age[j] - age[k] >= Cooldown \/ age[k] - age[j] >= Cooldown
      BY DEF IInv, Apart, Alive
    <3> QED
      BY <3>1, <3>2
  <2> QED
    BY <2>1, <2>2
<1> QED
  BY <1>1, InitHolds, StepHolds, PTL DEF DispatchSpec

\* Poll hands out only what its own sweep has left.
LEMMA StepHandsInTime ==
    IInv /\ [DispatchNext]_dispatchVars =>
        [\A s \in Sensors, j \in Jobs :
            sensors[s] = Idle /\ sensors'[s].job = j => age[j] <= TTL[j]]_dispatchVars
<1> SUFFICES ASSUME IInv, DispatchNext, NEW q \in Sensors, NEW j \in Jobs, sensors[q] = Idle, sensors'[q].job = j
             PROVE  age[j] <= TTL[j]
  OBVIOUS
<1>1. sensors[q].at = "idle" /\ sensors[q].job # j
  BY DispatchAssumption DEF Idle
<1>2. ASSUME NEW s \in Sensors, NEW k \in Jobs, PollHands(s, k) PROVE age[j] <= TTL[j]
  <2>1. Eligible(k) /\ sensors' \in {sensors, [sensors EXCEPT ![s] = [at |-> "scan", job |-> k]]}
    BY <1>2 DEF PollHands
  <2>2. age[k] <= TTL[k]
    BY <2>1, SweepIsQuiet DEF Eligible, Live
  <2>3. k = j
    BY <1>1, <2>1, Types
  <2> QED
    BY <2>2, <2>3
<1>3. ASSUME NEW s \in Sensors, NEW step, Moves(s, step), sensors[s].at # "idle" PROVE FALSE
  BY <1>1, <1>3, Types DEF Moves
<1>4. ASSUME NEW s \in Sensors, Drops(s) PROVE FALSE
  BY <1>1, <1>4, Types DEF Drops, Idle
<1>5. UNCHANGED sensors => FALSE
  BY <1>1
<1>6. CASE \E i \in Jobs : Enqueues(i)
  BY <1>5, <1>6 DEF Enqueues
<1>7. CASE \E s \in Sensors : Loop(s) \/ SensorRestarts(s)
  <2>1. PICK s \in Sensors : Loop(s) \/ SensorRestarts(s)
    BY <1>7
  <2>2. CASE PollSweeps(s)
    BY <1>5, <2>2 DEF PollSweeps
  <2>3. CASE \E k \in Jobs : PollHands(s, k)
    BY <1>2, <2>3
  <2>4. CASE Scans(s) \/ Pushes(s)
    BY <1>3, <2>4 DEF Scans, Pushes
  <2>5. CASE ScanFails(s) \/ PushFails(s) \/ Acks(s) \/ AckIsLost(s) \/ SensorRestarts(s)
    BY <1>4, <2>5 DEF ScanFails, PushFails, Acks, AckIsLost, SensorRestarts
  <2> QED
    BY <2>1, <2>2, <2>3, <2>4, <2>5 DEF Loop
<1>8. CASE Tick \/ CloudRestarts
  BY <1>5, <1>8 DEF Tick, CloudRestarts
<1> QED
  BY <1>6, <1>7, <1>8 DEF DispatchNext

\* A job past its time is handed to no sensor, whatever the lost saves made of its mark.
THEOREM NothingLateIsHanded == DispatchSpec => NoWorkAfterExpiry
<1> QED
  BY StepHandsInTime, InitHolds, StepHolds, PTL DEF DispatchSpec, NoWorkAfterExpiry

---------------------------------------------------------------------------
(* Numbers and their bits *)

\* A power of two is the number of subsets, which the library counts.
LEMMA Powers ==
    /\ 2^0 = 1
    /\ \A n \in Nat : 2^n \in Nat \ {0} /\ 2^(n + 1) = 2 * 2^n
<1>1. 2^0 = 1
  OBVIOUS
<1>2. ASSUME NEW n \in Nat PROVE 2^n \in Nat /\ 2^(n + 1) = 2 * 2^n
  <2> DEFINE S == 1..n
             T == 1..(n + 1)
             A == SUBSET S
             B == {X \cup {n + 1} : X \in A}
             add == [X \in A |-> X \cup {n + 1}]
  <2>1. IsFiniteSet(S) /\ Cardinality(S) = n /\ IsFiniteSet(T) /\ Cardinality(T) = n + 1
    BY FS_Interval
  <2>2. IsFiniteSet(A) /\ Cardinality(A) = 2^n /\ Cardinality(SUBSET T) = 2^(n + 1)
    BY <2>1, FS_SUBSET
  <2>3. add \in Bijection(A, B)
    <3>1. add \in [A -> B]
      OBVIOUS
    <3>2. \A X, Y \in A : add[X] = add[Y] => X = Y
      <4>1. \A X \in A : n + 1 \notin X
        OBVIOUS
      <4>2. \A X, Y \in A : X \cup {n + 1} = Y \cup {n + 1} => X = Y
        BY <4>1
      <4> QED  BY <4>2
    <3>3. \A Y \in B : \E X \in A : add[X] = Y
      OBVIOUS
    <3> HIDE DEF add, A, B
    <3> QED  BY <3>1, <3>2, <3>3 DEF Bijection, Injection, Surjection, IsInjective
  <2>4. IsFiniteSet(B) /\ Cardinality(B) = Cardinality(A)
    BY <2>2, <2>3, FS_Bijection DEF ExistsBijection
  <2>5. SUBSET T = A \cup B
    <3>1. ASSUME NEW X \in SUBSET T PROVE X \in A \cup B
      <4>1. CASE n + 1 \in X
        <5>1. X = (X \ {n + 1}) \cup {n + 1} /\ X \ {n + 1} \in A
          BY <4>1
        <5> QED  BY <5>1
      <4>2. CASE n + 1 \notin X
        BY <4>2
      <4> QED  BY <4>1, <4>2
    <3>2. ASSUME NEW X \in A PROVE X \subseteq T /\ X \cup {n + 1} \subseteq T
      OBVIOUS
    <3>3. A \cup B \subseteq SUBSET T
      BY <3>2
    <3> QED  BY <3>1, <3>3
  <2>6. A \cap B = {}
    OBVIOUS
  <2> HIDE DEF A, B, T
  <2>7. Cardinality(A) \in Nat /\ Cardinality(A \cup B) = Cardinality(A) + Cardinality(B) - Cardinality({})
    BY <2>2, <2>4, <2>6, FS_Union, FS_CardinalityType
  <2>8. Cardinality({}) = 0
    BY FS_EmptySet
  <2> DEFINE p == 2^n
             q == 2^(n + 1)
             a == Cardinality(A)
             c == Cardinality(A \cup B)
  <2>9. p = a /\ q = c /\ a \in Nat /\ c = a + a - 0
    BY <2>2, <2>4, <2>5, <2>7, <2>8
  <2> HIDE DEF p, q, a, c
  <2>10. p \in Nat /\ q = 2 * p
    BY <2>9
  <2> QED  BY <2>10 DEF p, q
<1> DEFINE positive == {n \in Nat : 2^n # 0}
<1>3. 0 \in positive
  BY <1>1
<1>4. ASSUME NEW n \in Nat, n \in positive PROVE n + 1 \in positive
  <2> DEFINE p == 2^n
             q == 2^(n + 1)
  <2>1. p \in Nat /\ q = 2 * p /\ p # 0
    BY <1>2, <1>4
  <2> HIDE DEF p, q
  <2>2. q # 0
    BY <2>1
  <2> QED  BY <2>2 DEF q
<1> HIDE DEF positive
<1>5. \A n \in Nat : n \in positive
  BY <1>3, <1>4, Decisions!SetInduction
<1> QED  BY <1>1, <1>2, <1>5 DEF positive

LEMMA Halves ==
    ASSUME NEW x \in Nat, NEW b \in Nat \ {0}
    PROVE  /\ x \div (2 * b) = (x \div b) \div 2 /\ x \div (2 * b) = (x \div 2) \div b
           /\ x \div b \in Nat /\ x = 2 * (x \div 2) + (x % 2) /\ x % 2 \in {0, 1} /\ x \div 1 = x
  OBVIOUS

\* A number lies where its quotient says.
LEMMA Quotient ==
    ASSUME NEW x \in Nat, NEW b \in Nat \ {0}, NEW q \in Nat
    PROVE  x \div b = q <=> x \in (q * b)..(q * b + b - 1)
  OBVIOUS

LEMMA PowerSum ==
    \A a, b \in Nat : 2^(a + b) = 2^a * 2^b
<1> SUFFICES ASSUME NEW a \in Nat PROVE \A b \in Nat : 2^(a + b) = 2^a * 2^b
  OBVIOUS
<1> DEFINE S == {b \in Nat : 2^(a + b) = 2^a * 2^b}
<1>1. 0 \in S
  <2> DEFINE p == 2^a
             one == 2^0
  <2>1. p \in Nat /\ one = 1 /\ a + 0 = a
    BY Powers
  <2> HIDE DEF p, one
  <2>2. p = p * one
    BY <2>1
  <2> QED  BY <2>1, <2>2 DEF p, one
<1>2. ASSUME NEW b \in Nat, b \in S PROVE b + 1 \in S
  <2> DEFINE p == 2^a
             q == 2^b
             r == 2^(a + b)
             q1 == 2^(b + 1)
             r1 == 2^(a + (b + 1))
  <2>1. p \in Nat /\ q \in Nat /\ r \in Nat /\ q1 = 2 * q
    BY Powers
  <2>2. r1 = 2 * r
    <3>1. a + (b + 1) = (a + b) + 1 /\ a + b \in Nat
      OBVIOUS
    <3> QED  BY <3>1, Powers
  <2>3. r = p * q
    BY <1>2
  <2> HIDE DEF p, q, r, q1, r1
  <2>4. r1 = p * q1
    BY <2>1, <2>2, <2>3
  <2> QED  BY <2>4 DEF p, q1, r1
<1> HIDE DEF S
<1>3. \A b \in Nat : b \in S
  BY <1>1, <1>2, Decisions!SetInduction
<1> QED  BY <1>3 DEF S

\* The i-th bit of a number of w bits.
BitOf(x, w, i) == (x \div 2^(w - i)) % 2

\* Numbers agree in their first bits when their quotients do.
LEMMA FirstBits ==
    ASSUME NEW w \in Nat, NEW x \in 0..(2^w - 1), NEW y \in 0..(2^w - 1), NEW o \in 0..w
    PROVE  (\A i \in 1..o : BitOf(x, w, i) = BitOf(y, w, i)) <=> x \div 2^(w - o) = y \div 2^(w - o)
<1> DEFINE Agree(k) == \A i \in 1..k : BitOf(x, w, i) = BitOf(y, w, i)
           S == {k \in Nat : k <= w => (Agree(k) <=> x \div 2^(w - k) = y \div 2^(w - k))}
<1>0. x \in Nat /\ y \in Nat /\ x < 2^w /\ y < 2^w /\ 2^w \in Nat \ {0}
  BY Powers
<1>1. 0 \in S
  <2> DEFINE p == 2^w
  <2>1. p \in Nat \ {0} /\ x < p /\ y < p
    BY <1>0
  <2>2. w - 0 = w
    OBVIOUS
  <2> HIDE DEF p
  <2>3. x \div p = 0 /\ y \div p = 0
    BY <1>0, <2>1
  <2> QED  BY <2>2, <2>3 DEF p
<1>2. ASSUME NEW k \in Nat, k \in S PROVE k + 1 \in S
  <2> SUFFICES ASSUME k + 1 <= w PROVE Agree(k + 1) <=> x \div 2^(w - (k + 1)) = y \div 2^(w - (k + 1))
    OBVIOUS
  <2> DEFINE b == 2^(w - (k + 1))
             X == x \div b
             Y == y \div b
  <2>1. w - (k + 1) \in Nat /\ w - k = (w - (k + 1)) + 1 /\ k <= w
    OBVIOUS
  <2>2. b \in Nat \ {0} /\ 2^(w - k) = 2 * b
    BY <2>1, Powers
  <2>3. Agree(k) <=> x \div 2^(w - k) = y \div 2^(w - k)
    BY <1>2, <2>1
  <2>4. Agree(k + 1) <=> Agree(k) /\ BitOf(x, w, k + 1) = BitOf(y, w, k + 1)
    <3>1. \A i \in 1..(k + 1) : i \in 1..k \/ i = k + 1
      OBVIOUS
    <3>2. k + 1 \in 1..(k + 1) /\ \A i \in 1..k : i \in 1..(k + 1)
      OBVIOUS
    <3> QED  BY <3>1, <3>2
  <2>5. BitOf(x, w, k + 1) = X % 2 /\ BitOf(y, w, k + 1) = Y % 2
    BY DEF BitOf
  <2>6. X \in Nat /\ Y \in Nat /\ x \div (2 * b) = X \div 2 /\ y \div (2 * b) = Y \div 2
    BY <1>0, <2>2, Halves
  <2> HIDE DEF Agree, X, Y
  <2>7. X = Y <=> X \div 2 = Y \div 2 /\ X % 2 = Y % 2
    BY <2>6
  <2> QED  BY <2>2, <2>3, <2>4, <2>5, <2>6, <2>7 DEF X, Y
<1> HIDE DEF S
<1>3. \A k \in Nat : k \in S
  BY <1>1, <1>2, Decisions!SetInduction
<1>4. o \in Nat /\ o <= w
  OBVIOUS
<1> QED  BY <1>3, <1>4 DEF S

\* The last bits of a number are those of its rest.
LEMMA LastBits ==
    ASSUME NEW x \in Nat, NEW w \in Nat, NEW v \in Nat, NEW i \in 1..v, v <= w
    PROVE  BitOf(x % 2^v, v, i) = BitOf(x, w, (w - v) + i)
<1> DEFINE b == 2^(v - i)
           c == 2^(i - 1)
           p == 2^v
<1>1. v - i \in Nat /\ i - 1 \in Nat /\ ((v - i) + 1) + (i - 1) = v /\ w - ((w - v) + i) = v - i
  OBVIOUS
<1>2. b \in Nat \ {0} /\ c \in Nat \ {0} /\ p = (2 * b) * c
  <2> DEFINE a == (v - i) + 1
             d == i - 1
             e == 2^a
  <2>1. a \in Nat /\ d \in Nat /\ a + d = v
    BY <1>1
  <2> HIDE DEF a, d
  <2>2. 2^(a + d) = e * c
    BY <2>1, PowerSum DEF d
  <2>3. e = 2 * b /\ b \in Nat \ {0} /\ c \in Nat \ {0}
    BY <1>1, Powers DEF a
  <2> QED  BY <2>1, <2>2, <2>3
<1>3. BitOf(x % p, v, i) = ((x % p) \div b) % 2 /\ BitOf(x, w, (w - v) + i) = (x \div b) % 2
  BY <1>1 DEF BitOf
<1> HIDE DEF b, c, p
<1> DEFINE q == x \div p
           r == x % p
           m == r \div b
           y == q * c
<1>4. p \in Nat \ {0}
  BY <1>2
<1>5. q \in Nat /\ r \in Nat /\ x = q * p + r
  BY <1>4
<1>6. m \in Nat /\ r \in (m * b)..(m * b + b - 1)
  <2> HIDE DEF r
  <2>1. m \in Nat
    BY <1>2, <1>5, Halves
  <2> QED  BY <1>2, <1>5, <2>1, Quotient
<1> HIDE DEF q, r, m
<1>7. y \in Nat /\ q * p = (2 * y) * b
  BY <1>2, <1>5
<1> HIDE DEF y
<1>8. x \in ((2 * y + m) * b)..((2 * y + m) * b + b - 1)
  <2>1. (2 * y + m) * b = (2 * y) * b + m * b
    BY <1>2, <1>6, <1>7
  <2> QED  BY <1>2, <1>5, <1>6, <1>7, <2>1
<1>9. 2 * y + m \in Nat
  BY <1>6, <1>7
<1>10. x \div b = 2 * y + m
  BY <1>2, <1>8, <1>9, Quotient
<1>11. (2 * y + m) % 2 = m % 2
  BY <1>6, <1>7
<1> QED  BY <1>3, <1>10, <1>11 DEF m, r, p

\* Any bits are those of a number.
LEMMA AnyBits ==
    \A w \in Nat : \A f \in [1..w -> {0, 1}] : \E x \in 0..(2^w - 1) : \A i \in 1..w : BitOf(x, w, i) = f[i]
<1> DEFINE Reaches(w, f) == \E x \in 0..(2^w - 1) : \A i \in 1..w : BitOf(x, w, i) = f[i]
           S == {w \in Nat : \A f \in [1..w -> {0, 1}] : Reaches(w, f)}
<1>1. 0 \in S
  <2> SUFFICES ASSUME NEW f \in [1..0 -> {0, 1}] PROVE Reaches(0, f)
    OBVIOUS
  <2>1. 0 \in 0..(2^0 - 1) /\ \A i \in 1..0 : FALSE
    BY Powers
  <2> QED  BY <2>1
<1>2. ASSUME NEW w \in Nat, w \in S PROVE w + 1 \in S
  <2> SUFFICES ASSUME NEW f \in [1..(w + 1) -> {0, 1}] PROVE Reaches(w + 1, f)
    OBVIOUS
  <2> DEFINE g == [i \in 1..w |-> f[i]]
             p == 2^w
             last == f[w + 1]
  <2>1. g \in [1..w -> {0, 1}] /\ last \in {0, 1}
    OBVIOUS
  <2>2. Reaches(w, g)
    BY <1>2, <2>1
  <2>3. PICK x \in 0..(2^w - 1) : \A i \in 1..w : BitOf(x, w, i) = g[i]
    BY <2>2
  <2> DEFINE y == 2 * x + last
  <2>4. p \in Nat \ {0} /\ 2^(w + 1) = 2 * p /\ x \in 0..(p - 1)
    BY Powers
  <2>5. y \in Nat /\ y \in 0..(2 * p - 1) /\ y \div 2 = x /\ y % 2 = last
    <3> HIDE DEF p, last
    <3> QED  BY <2>1, <2>4
  <2>6. ASSUME NEW i \in 1..(w + 1) PROVE BitOf(y, w + 1, i) = f[i]
    <3>1. CASE i = w + 1
      <4>1. (w + 1) - i = 0 /\ 2^0 = 1
        BY <3>1, Powers
      <4> HIDE DEF y
      <4>2. y \div 1 = y
        BY <2>5
      <4> QED  BY <2>5, <3>1, <4>1, <4>2 DEF BitOf
    <3>2. CASE i # w + 1
      <4>1. i \in 1..w /\ w - i \in Nat /\ (w + 1) - i = (w - i) + 1
        BY <3>2
      <4> DEFINE b == 2^(w - i)
      <4>2. b \in Nat \ {0} /\ 2^((w + 1) - i) = 2 * b
        BY <4>1, Powers
      <4> HIDE DEF y
      <4>3. y \div (2 * b) = (y \div 2) \div b
        BY <2>5, <4>2, Halves
      <4>4. BitOf(y, w + 1, i) = BitOf(x, w, i)
        BY <2>5, <4>2, <4>3 DEF BitOf
      <4> QED  BY <2>3, <4>1, <4>4
    <3> QED  BY <3>1, <3>2
  <2>7. y \in 0..(2^(w + 1) - 1)
    BY <2>4, <2>5
  <2> HIDE DEF y
  <2> QED  BY <2>6, <2>7
<1> HIDE DEF S
<1>3. \A w \in Nat : w \in S
  BY <1>1, <1>2, Decisions!SetInduction
<1> QED  BY <1>3 DEF S

---------------------------------------------------------------------------
(* Blocks and addresses: the code compares prefixes and first addresses; what it means are sets of    *)
(* addresses, which the following compare it with, for addresses of any width.                        *)

LEMMA Widths == DOMAIN Width = Family /\ \A f \in DOMAIN Width : Width[f] \in Nat \ {0}
  BY ScopeAssumption DEF Family

Bit == {0, 1}

Block == {net \in [fam : DOMAIN Width, bits : Seq(Bit)] : Len(net.bits) <= Width[net.fam]}
Address == {net \in Block : Len(net.bits) = Width[net.fam]}

LEMMA BitStrings ==
    /\ 0 \in Bit /\ 1 \in Bit
    /\ \A w \in Nat : \A f \in [1..w -> Bit] : f \in Seq(Bit) /\ Len(f) = w
<1>1. 0 \in Bit /\ 1 \in Bit
  BY DEF Bit
<1>2. ASSUME NEW w \in Nat, NEW f \in [1..w -> Bit]
      PROVE  f \in Seq(Bit) /\ Len(f) = w
  OBVIOUS
<1> QED  BY <1>1, <1>2

\* IPNet.Contains compares the bits under the mask.
LEMMA ContainsMeans ==
    ASSUME NEW n \in Block, NEW t \in Block
    PROVE  NetContains(n, t) <=> /\ n.fam = t.fam /\ Len(n.bits) <= Len(t.bits)
                                 /\ \A i \in 1..Len(n.bits) : n.bits[i] = t.bits[i]
<1>1. n.bits \in Seq(Bit) /\ t.bits \in Seq(Bit)
  BY DEF Block
<1>2. ASSUME NEW u \in Seq(Bit), NEW v \in Seq(Bit)
      PROVE  IsPrefix(u, v) <=> Len(u) <= Len(v) /\ \A i \in 1..Len(u) : u[i] = v[i]
  BY DEF IsPrefix
<1> QED  BY <1>1, <1>2 DEF NetContains

\* A block has an address, its first.
LEMMA FirstAddress ==
    ASSUME NEW t \in Block
    PROVE  /\ NetworkAddress(t) \in Address /\ NetworkAddress(t).fam = t.fam
           /\ \A i \in 1..Width[t.fam] : NetworkAddress(t).bits[i] = IF i <= Len(t.bits) THEN t.bits[i] ELSE 0
           /\ NetContains(t, NetworkAddress(t))
<1> DEFINE first == [i \in 1..Width[t.fam] |-> IF i \in DOMAIN t.bits THEN t.bits[i] ELSE 0]
<1>1. /\ t \in [fam : DOMAIN Width, bits : Seq(Bit)] /\ Len(t.bits) \in Nat /\ Len(t.bits) <= Width[t.fam]
      /\ DOMAIN t.bits = 1..Len(t.bits) /\ Width[t.fam] \in Nat
  BY Widths DEF Block
<1>2. first \in [1..Width[t.fam] -> Bit] /\ first \in Seq(Bit) /\ Len(first) = Width[t.fam]
  <2>1. first \in [1..Width[t.fam] -> Bit]
    BY <1>1, BitStrings
  <2> HIDE DEF first
  <2> QED  BY <1>1, <2>1, BitStrings
<1>3. NetworkAddress(t) = [fam |-> t.fam, bits |-> first]
  BY <1>1, SMTT(30) DEF NetworkAddress
<1>4. \A i \in 1..Width[t.fam] : first[i] = IF i <= Len(t.bits) THEN t.bits[i] ELSE 0
  BY <1>1
<1> HIDE DEF first
<1>5. NetworkAddress(t) \in Address
  BY <1>1, <1>2, <1>3 DEF Address, Block
<1>6. NetContains(t, NetworkAddress(t))
  BY <1>1, <1>2, <1>3, <1>4, <1>5, ContainsMeans DEF Address
<1> QED  BY <1>3, <1>4, <1>5, <1>6

\* An address has no other one in it.
LEMMA SameAddress ==
    ASSUME NEW a \in Address, NEW b \in Address, NetContains(b, a)
    PROVE  a = b
<1>1. /\ a \in [fam : DOMAIN Width, bits : Seq(Bit)] /\ b \in [fam : DOMAIN Width, bits : Seq(Bit)]
      /\ a.fam = b.fam /\ Len(a.bits) = Len(b.bits)
      /\ \A i \in 1..Len(b.bits) : b.bits[i] = a.bits[i]
  BY ContainsMeans DEF Address, Block
<1>2. a.bits = b.bits
  BY <1>1, SeqEqual
<1> QED  BY <1>1, <1>2

\* Of two blocks with an address in common the wider one has the other's first.
LEMMA CommonAddress ==
    ASSUME NEW n \in Block, NEW t \in Block, NEW a \in Address, NetContains(n, a), NetContains(t, a),
           Len(n.bits) <= Len(t.bits)
    PROVE  NetContains(n, NetworkAddress(t))
<1>1. /\ n.fam = a.fam /\ t.fam = a.fam
      /\ Len(n.bits) \in Nat /\ Len(t.bits) \in Nat /\ Len(t.bits) <= Width[t.fam] /\ Width[t.fam] \in Nat
      /\ \A i \in 1..Len(n.bits) : n.bits[i] = a.bits[i]
      /\ \A i \in 1..Len(t.bits) : t.bits[i] = a.bits[i]
  BY ContainsMeans, Widths DEF Address, Block
<1>2. \A i \in 1..Len(n.bits) : n.bits[i] = NetworkAddress(t).bits[i]
  BY <1>1, FirstAddress
<1>3. NetworkAddress(t) \in Block /\ Len(NetworkAddress(t).bits) = Width[t.fam] /\ NetworkAddress(t).fam = t.fam
  BY FirstAddress DEF Address
<1> QED  BY <1>1, <1>2, <1>3, ContainsMeans

\* scope.go, Covers: a block of the scope is at most as long as the target and has its first address.
\* It says so of exactly the targets of which it has every address.
THEOREM CoversIsExact ==
    \A n, t \in Block :
        Covers(n, t) <=> \A a \in Address : NetContains(t, a) => NetContains(n, a)
<1> SUFFICES ASSUME NEW n \in Block, NEW t \in Block
             PROVE  Covers(n, t) <=> \A a \in Address : NetContains(t, a) => NetContains(n, a)
  OBVIOUS
<1>0. /\ Len(n.bits) \in Nat /\ Len(t.bits) \in Nat /\ Width[t.fam] \in Nat
      /\ Len(n.bits) <= Width[n.fam] /\ Len(t.bits) <= Width[t.fam]
  BY Widths DEF Block
<1>1. /\ NetworkAddress(t) \in Address /\ NetworkAddress(t).fam = t.fam /\ NetContains(t, NetworkAddress(t))
      /\ \A i \in 1..Width[t.fam] : NetworkAddress(t).bits[i] = IF i <= Len(t.bits) THEN t.bits[i] ELSE 0
  BY FirstAddress
<1>2. ASSUME Covers(n, t), NEW a \in Address, NetContains(t, a)
      PROVE  NetContains(n, a)
  <2>1. /\ n.fam = t.fam /\ t.fam = a.fam /\ Len(n.bits) <= Len(t.bits) /\ Len(t.bits) <= Len(a.bits)
        /\ \A i \in 1..Len(n.bits) : n.bits[i] = NetworkAddress(t).bits[i]
        /\ \A i \in 1..Len(t.bits) : t.bits[i] = a.bits[i]
    BY <1>1, <1>2, ContainsMeans DEF Covers, Address
  <2>2. \A i \in 1..Len(n.bits) : n.bits[i] = a.bits[i]
    BY <1>0, <1>1, <2>1
  <2>3. Len(a.bits) \in Nat
    BY DEF Address, Block
  <2> QED  BY <1>0, <2>1, <2>2, <2>3, ContainsMeans DEF Address
<1>3. ASSUME \A a \in Address : NetContains(t, a) => NetContains(n, a)
      PROVE  Covers(n, t)
  <2>1. NetContains(n, NetworkAddress(t)) /\ n.fam = t.fam
    BY <1>1, <1>3, ContainsMeans DEF Address
  <2>2. ASSUME Len(n.bits) > Len(t.bits) PROVE FALSE
    <3> DEFINE at == Len(t.bits) + 1
               ones == [i \in 1..Width[t.fam] |-> IF i <= Len(t.bits) THEN t.bits[i] ELSE 1]
               a == [fam |-> t.fam, bits |-> ones]
    <3>1. ones \in [1..Width[t.fam] -> Bit] /\ ones \in Seq(Bit) /\ Len(ones) = Width[t.fam]
      <4>1. \A i \in 1..Len(t.bits) : t.bits[i] \in Bit
        BY DEF Block
      <4>2. ones \in [1..Width[t.fam] -> Bit]
        BY <1>0, <4>1, BitStrings
      <4> HIDE DEF ones
      <4> QED  BY <1>0, <4>2, BitStrings
    <3>2. \A i \in 1..Width[t.fam] : ones[i] = IF i <= Len(t.bits) THEN t.bits[i] ELSE 1
      OBVIOUS
    <3> HIDE DEF ones
    <3>3. a \in Address /\ a.fam = t.fam /\ a.bits = ones
      BY <3>1 DEF Address, Block
    <3> HIDE DEF a
    <3>4. NetContains(t, a)
      BY <1>0, <3>1, <3>2, <3>3, ContainsMeans DEF Address
    <3>5. NetContains(n, a)
      BY <1>3, <3>3, <3>4
    <3>6. at \in 1..Len(n.bits) /\ at \in 1..Width[t.fam] /\ ~(at <= Len(t.bits))
      BY <1>0, <2>1, <2>2
    <3>7. n.bits[at] = 1
      BY <3>2, <3>3, <3>5, <3>6, ContainsMeans DEF Address
    <3>8. n.bits[at] = 0
      BY <1>1, <2>1, <3>6, ContainsMeans DEF Address
    <3> QED  BY <3>7, <3>8
  <2> QED  BY <1>0, <2>1, <2>2 DEF Covers
<1> QED  BY <1>2, <1>3


---------------------------------------------------------------------------
(* What a literal names *)

IsLiteral(l) ==
    /\ l.fam \in Family /\ l.num \in Nat /\ l.num < 2^Width[l.fam]
    /\ l.ones \in Nat /\ l.ones <= Width[l.fam]

Bits(l) == BitsOf(l) \in Seq(Bit) /\ Len(BitsOf(l)) = Width[l.fam]
           /\ \A i \in 1..Width[l.fam] : BitsOf(l)[i] = BitOf(l.num, Width[l.fam], i)

LEMMA BitsAre ==
    ASSUME NEW l, IsLiteral(l)
    PROVE  /\ Width[l.fam] \in Nat \ {0} /\ l.num \in 0..(2^Width[l.fam] - 1) /\ l.ones \in 0..Width[l.fam]
           /\ Bits(l)
<1> DEFINE w == Width[l.fam]
<1>1. w \in Nat \ {0} /\ l.num \in Nat /\ l.num < 2^w /\ l.ones \in Nat /\ l.ones <= w
  BY ScopeAssumption DEF IsLiteral, Family
<1>2. l.num \in 0..(2^w - 1)
  <2> DEFINE p == 2^w
  <2>1. p \in Nat
    BY <1>1, Powers
  <2> HIDE DEF p, w
  <2>2. l.num < p
    BY <1>1 DEF p
  <2>3. l.num \in 0..(p - 1)
    BY <1>1, <2>1, <2>2
  <2> QED  BY <2>3 DEF p
<1>3. BitsOf(l) = [i \in 1..w |-> BitOf(l.num, w, i)]
  BY DEF BitsOf, BitOf
<1> HIDE DEF w
<1>4. \A i \in 1..w : BitOf(l.num, w, i) \in Bit
  <2> TAKE i \in 1..w
  <2>1. w - i \in Nat
    BY <1>1
  <2>2. 2^(w - i) \in Nat \ {0}
    BY <2>1, Powers
  <2>3. l.num \div 2^(w - i) \in Nat
    BY <1>1, <2>2, Halves
  <2>4. (l.num \div 2^(w - i)) % 2 \in {0, 1}
    BY <2>3
  <2> QED  BY <2>4 DEF BitOf, Bit
<1>5. BitsOf(l) \in [1..w -> Bit]
  BY <1>3, <1>4
<1>6. BitsOf(l) \in Seq(Bit) /\ Len(BitsOf(l)) = w
  BY <1>1, <1>5, BitStrings
<1>7. \A i \in 1..w : BitsOf(l)[i] = BitOf(l.num, w, i)
  BY <1>3
<1> QED  BY <1>1, <1>2, <1>6, <1>7 DEF w, Bits

\* A literal read as its own family has it; To4 aside, the code reads it so.
PlainIP(l) == [fam |-> l.fam, bits |-> BitsOf(l)]
PlainCIDR(l) == [fam |-> l.fam, bits |-> SubSeq(BitsOf(l), 1, l.ones)]

LEMMA ParsesAre ==
    ASSUME NEW l, IsLiteral(l)
    PROVE  /\ PlainIP(l) \in Address /\ PlainIP(l).fam = l.fam
           /\ \A i \in 1..Width[l.fam] : PlainIP(l).bits[i] = BitOf(l.num, Width[l.fam], i)
           /\ PlainCIDR(l) \in Block /\ PlainCIDR(l).fam = l.fam /\ Len(PlainCIDR(l).bits) = l.ones
           /\ \A i \in 1..l.ones : PlainCIDR(l).bits[i] = BitOf(l.num, Width[l.fam], i)
           /\ l.ones = Width[l.fam] => PlainCIDR(l) = PlainIP(l)
<1> DEFINE w == Width[l.fam]
           bits == BitsOf(l)
           cut == SubSeq(bits, 1, l.ones)
<1>1. w \in Nat \ {0} /\ l.ones \in Nat /\ l.ones <= w /\ l.fam \in DOMAIN Width
  BY BitsAre, ScopeAssumption DEF IsLiteral, Family
<1>2. bits \in Seq(Bit) /\ Len(bits) = w /\ \A i \in 1..w : bits[i] = BitOf(l.num, w, i)
  BY BitsAre DEF Bits
<1>3. PlainIP(l) = [fam |-> l.fam, bits |-> bits] /\ PlainCIDR(l) = [fam |-> l.fam, bits |-> cut]
  BY DEF PlainIP, PlainCIDR
<1> HIDE DEF bits, w
<1>4. cut \in Seq(Bit) /\ Len(cut) = l.ones /\ \A i \in 1..l.ones : cut[i] = bits[i]
  BY <1>1, <1>2
<1>5. l.ones = w => cut = bits
  BY <1>1, <1>2, <1>4, SeqEqual
<1> HIDE DEF cut
<1>6. \A i \in 1..l.ones : cut[i] = BitOf(l.num, w, i)
  BY <1>1, <1>2, <1>4
<1>7. PlainIP(l) \in Address /\ PlainCIDR(l) \in Block
  BY <1>1, <1>2, <1>3, <1>4 DEF Address, Block, w
<1> QED  BY <1>2, <1>3, <1>4, <1>5, <1>6, <1>7 DEF w

\* A block holds an address when its interval holds the address's number.
LEMMA BlockHolds ==
    ASSUME NEW l, IsLiteral(l), NEW h, IsLiteral(h)
    PROVE  NetContains(PlainCIDR(l), PlainIP(h)) <=> l.fam = h.fam /\ h.num \in Interval(l)
<1> DEFINE w == Width[l.fam]
           s == 2^(w - l.ones)
<1>1. PlainCIDR(l) \in Block /\ PlainIP(h) \in Block
  BY ParsesAre DEF Address
<1>2. NetContains(PlainCIDR(l), PlainIP(h)) <=>
          /\ PlainCIDR(l).fam = PlainIP(h).fam /\ Len(PlainCIDR(l).bits) <= Len(PlainIP(h).bits)
          /\ \A i \in 1..Len(PlainCIDR(l).bits) : PlainCIDR(l).bits[i] = PlainIP(h).bits[i]
  BY <1>1, ContainsMeans
<1>3. PlainCIDR(l).fam = l.fam /\ PlainIP(h).fam = h.fam
  BY ParsesAre
<1>4. CASE l.fam # h.fam
  BY <1>2, <1>3, <1>4
<1>5. CASE l.fam = h.fam
  <2>1. Len(PlainCIDR(l).bits) = l.ones /\ Len(PlainIP(h).bits) = w
    BY <1>5, ParsesAre DEF Address
  <2>2. /\ w \in Nat /\ l.num \in 0..(2^w - 1) /\ h.num \in 0..(2^w - 1) /\ l.ones \in 0..w
        /\ l.num \in Nat /\ h.num \in Nat
    BY <1>5, BitsAre DEF IsLiteral
  <2>3. \A i \in 1..l.ones : PlainCIDR(l).bits[i] = BitOf(l.num, w, i)
    BY ParsesAre
  <2>4. \A i \in 1..w : PlainIP(h).bits[i] = BitOf(h.num, w, i)
    BY <1>5, ParsesAre
  <2> HIDE DEF w
  <2>5. l.ones \in Nat /\ l.ones <= w /\ \A i \in 1..l.ones : i \in 1..w
    BY <2>2
  <2>6. NetContains(PlainCIDR(l), PlainIP(h)) <=> \A i \in 1..l.ones : BitOf(l.num, w, i) = BitOf(h.num, w, i)
    BY <1>2, <1>3, <1>5, <2>1, <2>3, <2>4, <2>5
  <2>7. NetContains(PlainCIDR(l), PlainIP(h)) <=> l.num \div s = h.num \div s
    BY <2>2, <2>6, FirstBits
  <2>8. s \in Nat \ {0}
    <3>1. w - l.ones \in Nat
      BY <2>2
    <3> QED  BY <3>1, Powers
  <2> DEFINE q == l.num \div s
  <2>9. q \in Nat
    BY <2>2, <2>8, Halves
  <2>10. Interval(l) = (q * s)..(q * s + s - 1)
    BY DEF Interval, w
  <2> HIDE DEF s, q
  <2>11. h.num \div s = q <=> h.num \in (q * s)..(q * s + s - 1)
    BY <2>2, <2>8, <2>9, Quotient
  <2> QED  BY <1>5, <2>7, <2>10, <2>11 DEF q
<1> QED  BY <1>4, <1>5

\* An interval is of numbers of addresses.
LEMMA IntervalWithin ==
    ASSUME NEW l, IsLiteral(l)
    PROVE  /\ Interval(l) \subseteq 0..(2^Width[l.fam] - 1)
           /\ l.num \in Interval(l) /\ (l.ones = Width[l.fam] => Interval(l) = {l.num})
<1> DEFINE w == Width[l.fam]
           s == 2^(w - l.ones)
           p == 2^l.ones
           W == 2^w
           q == l.num \div s
<1>1. w \in Nat \ {0} /\ l.num \in Nat /\ l.num < W /\ l.ones \in Nat /\ l.ones <= w
  BY BitsAre DEF IsLiteral
<1>2. s \in Nat \ {0} /\ p \in Nat \ {0} /\ W = s * p
  <2>1. w - l.ones \in Nat /\ (w - l.ones) + l.ones = w
    BY <1>1
  <2>2. s \in Nat \ {0} /\ p \in Nat \ {0}
    BY <1>1, <2>1, Powers
  <2> HIDE DEF w
  <2>3. 2^((w - l.ones) + l.ones) = s * p
    BY <1>1, <2>1, PowerSum
  <2> QED  BY <2>1, <2>2, <2>3 DEF w
<1>3. q \in Nat /\ l.num \in (q * s)..(q * s + s - 1)
  <2>1. q \in Nat
    BY <1>1, <1>2, Halves
  <2> QED  BY <1>1, <1>2, <2>1, Quotient
<1>4. Interval(l) = (q * s)..(q * s + s - 1)
  BY DEF Interval
<1>5. l.ones = w => s = 1
  <2>1. l.ones = w => w - l.ones = 0
    BY <1>1
  <2> QED  BY <2>1, Powers
<1>6. q < p
  <2>1. q * s <= l.num
    BY <1>3
  <2> HIDE DEF q, s, p, W
  <2>2. q * s < s * p
    BY <1>1, <1>2, <1>3, <2>1
  <2>3. ASSUME p <= q PROVE FALSE
    <3>1. s * p <= q * s
      BY <1>2, <1>3, <2>3
    <3> QED  BY <1>2, <1>3, <2>2, <3>1
  <2> QED  BY <1>2, <1>3, <2>3
<1>7. q * s + s - 1 <= W - 1 /\ 0 <= q * s
  <2> HIDE DEF q, s, p, W
  <2>1. (q + 1) * s <= p * s /\ (q + 1) * s = q * s + s /\ p * s = s * p
    BY <1>2, <1>3, <1>6
  <2>2. q * s \in Nat /\ W \in Nat
    BY <1>2, <1>3
  <2> QED  BY <1>2, <2>1, <2>2
<1> HIDE DEF w, W, p
<1>8. (q * s)..(q * s + s - 1) \subseteq 0..(W - 1)
  <2> DEFINE a == q * s
             b == q * s + s - 1
  <2>1. a \in Int /\ b \in Int /\ b <= W - 1 /\ 0 <= a /\ W \in Int
    <3> HIDE DEF q, s
    <3> QED  BY <1>2, <1>3, <1>7
  <2> HIDE DEF a, b
  <2>2. a..b \subseteq 0..(W - 1)
    BY <2>1
  <2> QED  BY <2>2 DEF a, b
<1>9. s = 1 => Interval(l) = {l.num}
  <2> HIDE DEF q, s
  <2>1. s = 1 => (q * s)..(q * s + s - 1) = {q}
    BY <1>3
  <2>2. s = 1 => l.num = q
    BY <1>3, <2>1
  <2> QED  BY <1>4, <2>1, <2>2
<1> QED  BY <1>3, <1>4, <1>5, <1>8, <1>9 DEF w, W

\* Two literals of one address have one number.
LEMMA SameNumber ==
    ASSUME NEW l, IsLiteral(l), NEW h, IsLiteral(h)
    PROVE  PlainIP(l) = PlainIP(h) <=> l.fam = h.fam /\ l.num = h.num
<1> DEFINE w == Width[l.fam]
<1>1. ASSUME PlainIP(l) = PlainIP(h) PROVE l.fam = h.fam /\ l.num = h.num
  <2>1. l.fam = h.fam
    BY <1>1, ParsesAre
  <2>2. /\ w \in Nat /\ l.num \in 0..(2^w - 1) /\ h.num \in 0..(2^w - 1) /\ l.num \in Nat /\ h.num \in Nat
    BY <2>1, BitsAre DEF IsLiteral
  <2>3. \A i \in 1..w : BitOf(l.num, w, i) = BitOf(h.num, w, i)
    BY <1>1, <2>1, ParsesAre
  <2> HIDE DEF w
  <2>4. w \in 0..w /\ w - w = 0 /\ 2^0 = 1
    BY <2>2, Powers
  <2>5. l.num \div 2^(w - w) = h.num \div 2^(w - w)
    BY <2>2, <2>3, <2>4, FirstBits, ZenonT(30)
  <2>6. l.num \div 1 = l.num /\ h.num \div 1 = h.num
    BY <2>2
  <2> QED  BY <2>1, <2>4, <2>5, <2>6
<1>2. ASSUME l.fam = h.fam, l.num = h.num PROVE PlainIP(l) = PlainIP(h)
  BY <1>2 DEF PlainIP, BitsOf
<1> QED  BY <1>1, <1>2

\* Every address has a literal of its number.
LEMMA EveryAddress ==
    ASSUME NEW a \in Address
    PROVE  \E h \in IPs(a.fam) : PlainIP(h) = a
<1> DEFINE f == a.fam
           w == Width[f]
<1>1. f \in Family /\ w \in Nat /\ a \in [fam : DOMAIN Width, bits : Seq(Bit)] /\ Len(a.bits) = w
  BY Widths DEF Address, Block
<1>2. a.bits \in [1..w -> {0, 1}]
  BY <1>1 DEF Bit
<1>3. PICK x \in 0..(2^w - 1) : \A i \in 1..w : BitOf(x, w, i) = a.bits[i]
  BY <1>1, <1>2, AnyBits
<1> DEFINE h == [form |-> "ip", fam |-> f, num |-> x, ones |-> w]
<1>4. h \in IPs(f)
  BY DEF IPs
<1>5. PlainIP(h) = [fam |-> f, bits |-> [i \in 1..w |-> BitOf(x, w, i)]]
  BY DEF PlainIP, BitsOf, BitOf
<1>6. [i \in 1..w |-> BitOf(x, w, i)] = a.bits
  BY <1>1, <1>2, <1>3
<1>7. PlainIP(h) = a
  BY <1>1, <1>5, <1>6
<1> QED  BY <1>4, <1>7

LEMMA TargetsAre ==
    ASSUME NEW t \in Targets
    PROVE  \/ t = Hostname /\ t.form = "other"
           \/ /\ t # Hostname /\ IsLiteral(t) /\ t.form \in {"ip", "cidr"} /\ t.fam \in Family
              /\ t \in [form : {"ip", "cidr"}, fam : Family, num : Nat, ones : Nat]
              /\ t.form = "ip" => t.ones = Width[t.fam] /\ t \in IPs(t.fam)
<1>1. CASE t = Hostname
  BY <1>1 DEF Hostname
<1>2. CASE t # Hostname
  <2>1. PICK f \in Family : t \in IPs(f) \cup CIDRs(f)
    <3>1. t \in Literals
      BY <1>2 DEF Targets
    <3> QED  BY <3>1 DEF Literals
  <2>2. Width[f] \in Nat \ {0} /\ 2^Width[f] \in Nat \ {0}
    BY Widths, Powers
  <2>3. CASE t \in IPs(f)
    <3>1. PICK k \in 0..(2^Width[f] - 1) : t = [form |-> "ip", fam |-> f, num |-> k, ones |-> Width[f]]
      BY <2>3 DEF IPs
    <3>2. k \in Nat /\ k < 2^Width[f]
      <4> DEFINE p == 2^Width[f]
      <4>1. p \in Nat /\ k \in 0..(p - 1)
        BY <2>2
      <4> HIDE DEF p
      <4>2. k \in Nat /\ k < p
        BY <4>1
      <4> QED  BY <4>2 DEF p
    <3> QED  BY <1>2, <2>2, <2>3, <3>1, <3>2 DEF IsLiteral
  <2>4. CASE t \in CIDRs(f)
    <3>1. PICK k \in 0..(2^Width[f] - 1), o \in 0..Width[f] : t = [form |-> "cidr", fam |-> f, num |-> k, ones |-> o]
      BY <2>4 DEF CIDRs
    <3>2. k \in Nat /\ k < 2^Width[f] /\ o \in Nat /\ o <= Width[f]
      <4> DEFINE p == 2^Width[f]
      <4>1. p \in Nat /\ k \in 0..(p - 1)
        BY <2>2
      <4> HIDE DEF p
      <4>2. k \in Nat /\ k < p
        BY <4>1
      <4> QED  BY <2>2, <4>2 DEF p
    <3> QED  BY <1>2, <3>1, <3>2 DEF IsLiteral
  <2> QED  BY <2>1, <2>3, <2>4
<1> QED  BY <1>1, <1>2

LEMMA V4Spelled ==
    /\ IsLiteral(V4InV6) /\ V4InV6.fam = "v6" /\ V4InV6.ones \in Nat
    /\ V4InV6.ones + Width["v4"] = Width["v6"] /\ Width["v4"] < V4InV6.ones
    /\ Width["v4"] \in Nat \ {0} /\ Width["v6"] \in Nat \ {0}
<1>1. /\ V4InV6 \in [form : {"ip", "cidr"}, fam : DOMAIN Width, num : Nat, ones : Nat]
      /\ V4InV6.num < 2^Width[V4InV6.fam] /\ V4InV6.ones <= Width[V4InV6.fam]
  BY ScopeAssumption
<1>2. V4InV6.fam = "v6" /\ V4InV6.ones = Width["v6"] - Width["v4"] /\ Width["v4"] + Width["v4"] < Width["v6"]
  BY ScopeAssumption
<1>3. Width["v4"] \in Nat \ {0} /\ Width["v6"] \in Nat \ {0}
  BY Widths DEF Family
<1> QED  BY <1>1, <1>2, <1>3, Widths DEF IsLiteral

\* To4 takes for v4 what begins with the bits of its block in v6.
LEMMA MappedIs ==
    ASSUME NEW l, IsLiteral(l)
    PROVE  l.fam = "v6" =>
             /\ IsPrefix(v4InV6Prefix, BitsOf(l)) <=> l.num \in Interval(V4InV6)
             /\ IsPrefix(v4InV6Prefix, SubSeq(BitsOf(l), 1, l.ones)) <=> Mapped(l)
<1> SUFFICES ASSUME l.fam = "v6"
             PROVE  /\ IsPrefix(v4InV6Prefix, BitsOf(l)) <=> l.num \in Interval(V4InV6)
                    /\ IsPrefix(v4InV6Prefix, SubSeq(BitsOf(l), 1, l.ones)) <=> Mapped(l)
  OBVIOUS
<1> DEFINE u == v4InV6Prefix
           bits == BitsOf(l)
           cut == SubSeq(bits, 1, l.ones)
           w == Width["v6"]
           d == V4InV6.ones
<1>1. NetContains(PlainCIDR(V4InV6), PlainIP(l)) <=> l.num \in Interval(V4InV6)
  BY V4Spelled, BlockHolds
<1>2. NetContains(PlainCIDR(V4InV6), PlainIP(l)) <=> IsPrefix(u, bits)
  BY V4Spelled DEF NetContains, PlainCIDR, PlainIP, v4InV6Prefix
<1>3. /\ BitsOf(V4InV6) \in Seq(Bit) /\ Len(BitsOf(V4InV6)) = w /\ bits \in Seq(Bit) /\ Len(bits) = w
      /\ d \in 0..w /\ l.ones \in 0..w /\ w \in Nat
  BY V4Spelled, BitsAre DEF Bits
<1>4. u \in Seq(Bit) /\ Len(u) = d
  <2> DEFINE s == BitsOf(V4InV6)
  <2>1. s \in Seq(Bit) /\ Len(s) = w
    BY <1>3
  <2> HIDE DEF s
  <2>2. SubSeq(s, 1, d) \in Seq(Bit) /\ Len(SubSeq(s, 1, d)) = d
    BY <1>3, <2>1
  <2> QED  BY <2>2 DEF s, v4InV6Prefix
<1> HIDE DEF u, bits, d, w
<1>5. cut \in Seq(Bit) /\ Len(cut) = l.ones /\ \A i \in 1..l.ones : cut[i] = bits[i]
  BY <1>3
<1> HIDE DEF cut
<1>6. IsPrefix(u, cut) <=> Len(u) <= Len(cut) /\ \A i \in 1..Len(u) : u[i] = cut[i]
  BY <1>4, <1>5 DEF IsPrefix
<1>7. IsPrefix(u, bits) <=> Len(u) <= Len(bits) /\ \A i \in 1..Len(u) : u[i] = bits[i]
  BY <1>3, <1>4 DEF IsPrefix
<1>8. IsPrefix(u, cut) <=> d <= l.ones /\ IsPrefix(u, bits)
  <2>1. d \in Nat /\ l.ones \in Nat /\ Len(bits) = w /\ d <= w
    BY <1>3
  <2>2. d <= l.ones => \A i \in 1..d : cut[i] = bits[i]
    BY <1>5, <2>1
  <2>3. IsPrefix(u, cut) <=> d <= l.ones /\ \A i \in 1..d : u[i] = cut[i]
    BY <1>4, <1>5, <1>6
  <2>4. IsPrefix(u, bits) <=> \A i \in 1..d : u[i] = bits[i]
    BY <1>4, <1>7, <2>1
  <2> QED  BY <2>2, <2>3, <2>4
<1>9. l.ones >= d <=> d <= l.ones
  BY <1>3
<1>10. Mapped(l) <=> l.ones >= d /\ l.num \in Interval(V4InV6)
  BY DEF Mapped, d
<1> QED  BY <1>1, <1>2, <1>8, <1>9, <1>10 DEF u, bits, cut

\* Net reads a literal as the one that it means.
LEMMA MeansAre ==
    ASSUME NEW l, IsLiteral(l), l \in [form : {"ip", "cidr"}, fam : Family, num : Nat, ones : Nat]
    PROVE  /\ IsLiteral(Means(l)) /\ Means(l).form = l.form
           /\ ParseCIDR(l) = PlainCIDR(Means(l))
           /\ l.ones = Width[l.fam] => ParseIP(l) = PlainIP(Means(l)) /\ Means(l).ones = Width[Means(l).fam]
<1> DEFINE m == Means(l)
           d == V4InV6.ones
           v == Width["v4"]
           w == Width["v6"]
           bits == BitsOf(l)
           cut == SubSeq(bits, 1, l.ones)
<1>1. /\ d \in Nat /\ v \in Nat \ {0} /\ w \in Nat \ {0} /\ d + v = w /\ w - v = d
      /\ v4InV6Prefix = SubSeq(BitsOf(V4InV6), 1, d)
  BY V4Spelled DEF v4InV6Prefix
<1>2. CASE ~Mapped(l)
  <2>1. m = l
    BY <1>2 DEF Means
  <2>2. ParseCIDR(l) = PlainCIDR(l)
    BY <1>2, MappedIs DEF ParseCIDR, To4, PlainCIDR
  <2>3. l.ones = Width[l.fam] => ~(l.fam = "v6" /\ l.num \in Interval(V4InV6))
    BY <1>1, <1>2 DEF Mapped
  <2>4. l.ones = Width[l.fam] => ParseIP(l) = PlainIP(l)
    BY <2>3, MappedIs DEF ParseIP, To4, PlainIP
  <2> QED  BY <2>1, <2>2, <2>4
<1>3. CASE Mapped(l)
  <2>1. l.fam = "v6" /\ l.ones \in d..w /\ l.ones \in Nat /\ l.num \in Nat
    BY <1>1, <1>3, BitsAre DEF Mapped
  <2>2. m = [l EXCEPT !.fam = "v4", !.num = l.num % 2^v, !.ones = l.ones - d]
    BY <1>3 DEF Means
  <2>3. m.form = l.form /\ m.fam = "v4" /\ m.num = l.num % 2^v /\ m.ones = l.ones - d
    BY <2>2
  <2>4. 2^v \in Nat \ {0}
    BY <1>1, Powers
  <2>5. IsLiteral(m)
    <3> DEFINE p == 2^v
    <3>1. p \in Nat \ {0}
      BY <2>4
    <3> HIDE DEF p
    <3>2. l.num % p \in Nat /\ l.num % p < p
      BY <2>1, <3>1
    <3>3. l.ones - d \in Nat /\ l.ones - d <= v
      BY <1>1, <2>1
    <3> QED  BY <2>3, <3>2, <3>3 DEF IsLiteral, Family, p
  <2>6. /\ bits \in Seq(Bit) /\ Len(bits) = w /\ \A i \in 1..w : bits[i] = BitOf(l.num, w, i)
    BY <2>1, BitsAre DEF Bits
  <2>7. BitsOf(m) \in Seq(Bit) /\ Len(BitsOf(m)) = v /\ \A i \in 1..v : BitsOf(m)[i] = BitOf(m.num, v, i)
    BY <2>3, <2>5, BitsAre DEF Bits
  <2>8. \A i \in 1..v : BitsOf(m)[i] = bits[d + i]
    <3> TAKE i \in 1..v
    <3>1. BitOf(m.num, v, i) = BitOf(l.num, w, d + i)
      <4>1. m.num = l.num % 2^v /\ v \in Nat /\ w \in Nat /\ v <= w /\ l.num \in Nat /\ (w - v) + i = d + i
        BY <1>1, <2>1, <2>3
      <4> HIDE DEF m, v, w, d
      <4>2. BitOf(l.num % 2^v, v, i) = BitOf(l.num, w, (w - v) + i)
        BY <4>1, LastBits
      <4> QED  BY <4>1, <4>2
    <3>2. d + i \in 1..w
      BY <1>1
    <3> QED  BY <2>6, <2>7, <3>1, <3>2
  <2> HIDE DEF m, v, w, d, bits
  <2>9. \A n \in d..w : SubSeq(SubSeq(bits, 1, n), d + 1, n) = SubSeq(BitsOf(m), 1, n - d)
    <3> TAKE n \in d..w
    <3> DEFINE a == SubSeq(bits, 1, n)
               b == SubSeq(a, d + 1, n)
               c == SubSeq(BitsOf(m), 1, n - d)
    <3>1. a \in Seq(Bit) /\ Len(a) = n /\ \A i \in 1..n : a[i] = bits[i]
      BY <1>1, <2>6
    <3> HIDE DEF a
    <3>2. b \in Seq(Bit) /\ Len(b) = n - d /\ \A i \in 1..(n - d) : b[i] = a[d + i]
      BY <1>1, <3>1
    <3>3. c \in Seq(Bit) /\ Len(c) = n - d /\ \A i \in 1..(n - d) : c[i] = BitsOf(m)[i]
      BY <1>1, <2>7
    <3> HIDE DEF b, c
    <3>4. \A i \in 1..(n - d) : d + i \in 1..n /\ i \in 1..v
      BY <1>1
    <3>5. \A i \in 1..(n - d) : b[i] = c[i]
      BY <2>8, <3>1, <3>2, <3>3, <3>4
    <3>6. b = c
      BY <3>2, <3>3, <3>5, SeqEqual
    <3> QED  BY <3>6 DEF a, b, c
  <2>10. SubSeq(bits, 1, w) = bits /\ SubSeq(BitsOf(m), 1, v) = BitsOf(m)
    BY <1>1, <2>6, <2>7
  <2>11. IsPrefix(v4InV6Prefix, bits) /\ IsPrefix(v4InV6Prefix, cut)
    BY <1>3, <2>1, MappedIs DEF Mapped, bits
  <2>12. ParseCIDR(l) = [fam |-> "v4", bits |-> SubSeq(cut, d + 1, Len(cut))]
    BY <2>1, <2>11 DEF ParseCIDR, To4, bits, d
  <2>13. Len(cut) = l.ones
    BY <2>1, <2>6, <1>1
  <2>14. ParseCIDR(l) = PlainCIDR(m)
    BY <2>1, <2>3, <2>9, <2>12, <2>13 DEF PlainCIDR
  <2>15. ParseIP(l) = [fam |-> "v4", bits |-> SubSeq(bits, d + 1, Len(bits))]
    BY <2>1, <2>11 DEF ParseIP, To4, bits, d
  <2>16. w \in d..w
    BY <1>1
  <2>17. ParseIP(l) = PlainIP(m)
    <3>1. SubSeq(SubSeq(bits, 1, w), d + 1, w) = SubSeq(BitsOf(m), 1, w - d) /\ w - d = v
      BY <1>1, <2>9, <2>16
    <3>2. SubSeq(bits, d + 1, w) = BitsOf(m)
      BY <2>10, <3>1
    <3> QED  BY <2>3, <2>6, <2>15, <3>2 DEF PlainIP
  <2>18. l.ones = w => m.ones = v
    BY <1>1, <2>3
  <2> QED  BY <2>1, <2>3, <2>5, <2>14, <2>17, <2>18 DEF m, v, w
<1> QED  BY <1>2, <1>3

\* A special range means itself.
LEMMA SpecialsAre ==
    \A l \in SpecialRanges \cup Siblings :
        IsLiteral(l) /\ ParseIP(l) = PlainIP(l) /\ ParseCIDR(l) = PlainCIDR(l)
<1> TAKE l \in SpecialRanges \cup Siblings
<1>1. l \in [form : {"ip", "cidr"}, fam : DOMAIN Width, num : Nat, ones : Nat]
  BY ScopeAssumption
<1>2. l.num < 2^Width[l.fam] /\ l.ones <= Width[l.fam]
  BY ScopeAssumption
<1>3. IsLiteral(l)
  BY <1>1, <1>2, Widths DEF IsLiteral
<1>4. ~(l.fam = "v6" /\ IsPrefix(v4InV6Prefix, BitsOf(l)))
  BY ScopeAssumption
<1>5. ~(l.fam = "v6" /\ IsPrefix(v4InV6Prefix, SubSeq(BitsOf(l), 1, l.ones)))
  BY <1>3, <1>4, MappedIs DEF Mapped
<1> QED  BY <1>3, <1>4, <1>5 DEF ParseIP, ParseCIDR, To4, PlainIP, PlainCIDR

LEMMA SpecialNets ==
    /\ DegenerateNets \subseteq Block
    /\ NetsOf(Ranges.unspecified \cup Ranges.loopback \cup Ranges.linkLocal \cup Ranges.multicast)
         \subseteq DegenerateNets
<1>1. \A l \in SpecialRanges : ParseCIDR(l) \in Block
  BY SpecialsAre, ParsesAre
<1> QED  BY <1>1 DEF DegenerateNets, NetsOf, SpecialRanges

\* sensor/scope: a block is refused if and only if one of its addresses is in a degenerate range, though
\* only first addresses are looked at.
THEOREM OverlapIsExact ==
    \A t \in Block :
        DegenerateOverlap(t) <=>
            \E a \in Address, d \in DegenerateNets : NetContains(d, a) /\ NetContains(t, a)
<1> SUFFICES ASSUME NEW t \in Block
             PROVE  DegenerateOverlap(t) <=>
                        \E a \in Address, d \in DegenerateNets : NetContains(d, a) /\ NetContains(t, a)
  OBVIOUS
<1>1. \A d \in DegenerateNets : /\ d \in Block /\ Len(d.bits) \in Nat
                                /\ NetworkAddress(d) \in Address /\ NetContains(d, NetworkAddress(d))
  BY SpecialNets, FirstAddress DEF Block
<1>2. NetworkAddress(t) \in Address /\ NetContains(t, NetworkAddress(t)) /\ Len(t.bits) \in Nat
  BY FirstAddress DEF Block
<1>3. ASSUME NEW a \in Address, NEW d \in DegenerateNets, NetContains(d, a), NetContains(t, a)
      PROVE  DegenerateOverlap(t)
  <2>1. CASE Len(d.bits) <= Len(t.bits)
    BY <1>1, <1>3, <2>1, CommonAddress DEF DegenerateOverlap
  <2>2. CASE Len(t.bits) <= Len(d.bits)
    BY <1>1, <1>3, <2>2, CommonAddress DEF DegenerateOverlap
  <2> QED  BY <1>1, <1>2, <2>1, <2>2
<1> QED  BY <1>1, <1>2, <1>3 DEF DegenerateOverlap

---------------------------------------------------------------------------
(* The gates over numbers *)

LEMMA AddressLiteral ==
    ASSUME NEW f \in Family, NEW h \in IPs(f)
    PROVE  IsLiteral(h) /\ h.fam = f /\ h.form = "ip" /\ h.ones = Width[f]
<1> DEFINE p == 2^Width[f]
<1>1. Width[f] \in Nat \ {0} /\ p \in Nat
  BY Widths, Powers
<1>2. PICK k \in 0..(p - 1) : h = [form |-> "ip", fam |-> f, num |-> k, ones |-> Width[f]]
  BY DEF IPs
<1>3. k \in Nat /\ k < p
  <2> HIDE DEF p
  <2> QED  BY <1>1
<1> QED  BY <1>1, <1>2, <1>3 DEF IsLiteral

\* The number of an address in a block has a literal.
LEMMA NumberLiteral ==
    ASSUME NEW t, IsLiteral(t), NEW k \in Interval(t)
    PROVE  \E h : h \in IPs(t.fam) /\ IsLiteral(h) /\ h.fam = t.fam /\ h.num = k
<1> DEFINE h == [form |-> "ip", fam |-> t.fam, num |-> k, ones |-> Width[t.fam]]
<1>1. k \in 0..(2^Width[t.fam] - 1) /\ t.fam \in Family
  BY IntervalWithin DEF IsLiteral
<1>2. h \in IPs(t.fam) /\ h.num = k
  BY <1>1 DEF IPs
<1> HIDE DEF h
<1> QED  BY <1>1, <1>2, AddressLiteral

\* A block of a scope covers a target when its interval has the target's.
LEMMA CoversNumbers ==
    ASSUME NEW l, IsLiteral(l), NEW t, IsLiteral(t)
    PROVE  Covers(PlainCIDR(l), PlainCIDR(t)) <=> l.fam = t.fam /\ Interval(t) \subseteq Interval(l)
<1>1. PlainCIDR(l) \in Block /\ PlainCIDR(t) \in Block
  BY ParsesAre
<1>2. Covers(PlainCIDR(l), PlainCIDR(t)) <=>
          \A a \in Address : NetContains(PlainCIDR(t), a) => NetContains(PlainCIDR(l), a)
  BY <1>1, CoversIsExact
<1>3. ASSUME Covers(PlainCIDR(l), PlainCIDR(t)) PROVE l.fam = t.fam /\ Interval(t) \subseteq Interval(l)
  <2>1. \A h : IsLiteral(h) /\ h.fam = t.fam /\ h.num \in Interval(t) => l.fam = h.fam /\ h.num \in Interval(l)
    <3> SUFFICES ASSUME NEW h, IsLiteral(h), h.fam = t.fam, h.num \in Interval(t)
                 PROVE  l.fam = h.fam /\ h.num \in Interval(l)
      OBVIOUS
    <3>1. PlainIP(h) \in Address /\ NetContains(PlainCIDR(t), PlainIP(h))
      BY ParsesAre, BlockHolds
    <3>2. NetContains(PlainCIDR(l), PlainIP(h))
      BY <1>2, <1>3, <3>1
    <3> QED  BY <3>2, BlockHolds
  <2>2. l.fam = t.fam
    BY <2>1, IntervalWithin
  <2>3. ASSUME NEW k \in Interval(t) PROVE k \in Interval(l)
    <3>1. PICK h : IsLiteral(h) /\ h.fam = t.fam /\ h.num = k
      BY NumberLiteral
    <3> QED  BY <2>1, <3>1
  <2> QED  BY <2>2, <2>3
<1>4. ASSUME l.fam = t.fam, Interval(t) \subseteq Interval(l) PROVE Covers(PlainCIDR(l), PlainCIDR(t))
  <2> SUFFICES ASSUME NEW a \in Address, NetContains(PlainCIDR(t), a) PROVE NetContains(PlainCIDR(l), a)
    BY <1>2
  <2>1. PICK h \in IPs(a.fam) : PlainIP(h) = a
    BY EveryAddress
  <2>2. a.fam \in Family
    BY Widths DEF Address, Block
  <2>3. IsLiteral(h)
    BY <2>1, <2>2, AddressLiteral
  <2>4. t.fam = h.fam /\ h.num \in Interval(t)
    BY <2>1, <2>3, BlockHolds
  <2>5. l.fam = h.fam /\ h.num \in Interval(l)
    BY <1>4, <2>4
  <2> QED  BY <2>1, <2>3, <2>5, BlockHolds
<1> QED  BY <1>3, <1>4

\* The special ranges, by their numbers.
LEMMA ReachedIs ==
    ASSUME NEW ranges \in SUBSET SpecialRanges, NEW h, IsLiteral(h)
    PROVE  (\E n \in NetsOf(ranges) : NetContains(n, PlainIP(h))) <=> h.num \in Reached(ranges, h.fam)
<1>1. \A r \in ranges : NetContains(ParseCIDR(r), PlainIP(h)) <=> r.fam = h.fam /\ h.num \in Interval(r)
  BY SpecialsAre, BlockHolds
<1>2. (\E n \in NetsOf(ranges) : NetContains(n, PlainIP(h))) <=>
          \E r \in ranges : r.fam = h.fam /\ h.num \in Interval(r)
  BY <1>1 DEF NetsOf
<1>3. h.num \in Reached(ranges, h.fam) <=> \E r \in ranges : r.fam = h.fam /\ h.num \in Interval(r)
  BY DEF Reached
<1> QED  BY <1>2, <1>3

LEMMA DegenerateIs ==
    ASSUME NEW h, IsLiteral(h)
    PROVE  Degenerate(PlainIP(h)) <=> h.num \in NoTarget(h.fam)
<1> DEFINE ranges == Ranges.unspecified \cup Ranges.loopback \cup Ranges.linkLocal \cup Ranges.multicast
<1>1. ranges \in SUBSET SpecialRanges
  BY DEF SpecialRanges
<1>2. Degenerate(PlainIP(h)) <=> \E n \in NetsOf(ranges) : NetContains(n, PlainIP(h))
  BY DEF Degenerate
<1>3. NoTarget(h.fam) = Reached(ranges, h.fam)
  BY DEF NoTarget
<1> HIDE DEF ranges
<1> QED  BY <1>1, <1>2, <1>3, ReachedIs

LEMMA SweepIs ==
    ASSUME NEW h, IsLiteral(h)
    PROVE  (\E d \in DegenerateNets : NetContains(d, PlainIP(h))) <=> h.num \in NoSweep(h.fam)
<1> DEFINE single == Ranges.unspecified \cup Ranges.loopback \cup Ranges.linkLocal \cup Ranges.multicast
           here == Ranges.thisNetwork
           all == Ranges.loopback \cup Ranges.linkLocal \cup Ranges.multicast \cup here \cup Ranges.unspecified
<1>1. all \in SUBSET SpecialRanges /\ DegenerateNets = NetsOf(all)
  BY DEF SpecialRanges, DegenerateNets
<1>2. all = single \cup here
  OBVIOUS
<1>3. NoSweep(h.fam) = Reached(single, h.fam) \cup Reached(here, h.fam)
  BY DEF NoSweep, NoTarget
<1> HIDE DEF single, here, all
<1>4. Reached(single \cup here, h.fam) = Reached(single, h.fam) \cup Reached(here, h.fam)
  BY DEF Reached
<1> QED  BY <1>1, <1>2, <1>3, <1>4, ReachedIs

LEMMA OverlapNumbers ==
    ASSUME NEW t, IsLiteral(t)
    PROVE  DegenerateOverlap(PlainCIDR(t)) <=> Interval(t) \cap NoSweep(t.fam) # {}
<1>1. PlainCIDR(t) \in Block
  BY ParsesAre
<1>2. DegenerateOverlap(PlainCIDR(t)) <=>
          \E a \in Address, d \in DegenerateNets : NetContains(d, a) /\ NetContains(PlainCIDR(t), a)
  BY <1>1, OverlapIsExact
<1>3. ASSUME NEW a \in Address, NEW d \in DegenerateNets, NetContains(d, a), NetContains(PlainCIDR(t), a)
      PROVE  Interval(t) \cap NoSweep(t.fam) # {}
  <2>1. PICK h \in IPs(a.fam) : PlainIP(h) = a
    BY EveryAddress
  <2>2. a.fam \in Family
    BY Widths DEF Address, Block
  <2>3. IsLiteral(h)
    BY <2>1, <2>2, AddressLiteral
  <2>4. t.fam = h.fam /\ h.num \in Interval(t)
    BY <1>3, <2>1, <2>3, BlockHolds
  <2>5. h.num \in NoSweep(h.fam)
    BY <1>3, <2>1, <2>3, SweepIs
  <2> QED  BY <2>4, <2>5
<1>4. ASSUME NEW k \in Interval(t), k \in NoSweep(t.fam) PROVE DegenerateOverlap(PlainCIDR(t))
  <2>1. PICK h : IsLiteral(h) /\ h.fam = t.fam /\ h.num = k
    BY NumberLiteral
  <2>2. PlainIP(h) \in Address /\ NetContains(PlainCIDR(t), PlainIP(h))
    BY <2>1, ParsesAre, BlockHolds
  <2>3. PICK d \in DegenerateNets : NetContains(d, PlainIP(h))
    BY <1>4, <2>1, SweepIs
  <2> QED  BY <1>2, <2>2, <2>3
<1> QED  BY <1>2, <1>3, <1>4

\* A token of a scope is read as the block that it grants: a bare address as the block of its mask, which
\* of one that is spelled as v4 in v6 is a short one of v6.
LEMMA GrantsAre ==
    ASSUME NEW l \in Targets, l # Hostname
    PROVE  IsLiteral(Grants(l)) /\ ParseCIDR(Masked(l)) = PlainCIDR(Grants(l))
<1>0. "ip" # "cidr"
  OBVIOUS
<1>1. /\ IsLiteral(l) /\ l \in [form : {"ip", "cidr"}, fam : Family, num : Nat, ones : Nat]
      /\ l.form = "ip" => l.ones = Width[l.fam]
  BY TargetsAre
<1>2. CASE l.form = "cidr"
  BY <1>0, <1>1, <1>2, MeansAre DEF Grants, Masked
<1>3. CASE l.form = "ip" /\ ~Mapped(l)
  <2>1. Means(l) = l /\ Grants(l) = l
    BY <1>3 DEF Means, Grants
  <2>2. ParseIP(l).fam = l.fam
    BY <1>1, <1>3, <2>1, MeansAre DEF PlainIP
  <2>3. Masked(l) = [l EXCEPT !.form = "cidr", !.ones = Width[l.fam]]
    BY <1>3, <2>2 DEF Masked
  <2>4. Masked(l).fam = l.fam /\ Masked(l).num = l.num /\ Masked(l).ones = l.ones
    BY <1>1, <1>3, <2>3
  <2>5. ParseCIDR(Masked(l)) = ParseCIDR(l)
    BY <2>4 DEF ParseCIDR, BitsOf
  <2> QED  BY <1>1, <2>1, <2>5, MeansAre
<1>4. CASE l.form = "ip" /\ Mapped(l)
  <2> DEFINE g == Grants(l)
  <2>1. g = [l EXCEPT !.form = "cidr", !.ones = Width["v4"]] /\ l.fam = "v6"
    BY <1>4 DEF Grants, Mapped
  <2>2. ParseIP(l).fam = "v4"
    <3>1. Means(l).fam = "v4"
      BY <1>1, <1>4 DEF Means
    <3>2. ParseIP(l) = PlainIP(Means(l))
      BY <1>1, <1>4, MeansAre
    <3> QED  BY <3>1, <3>2 DEF PlainIP
  <2>3. Masked(l) = g
    BY <1>4, <2>1, <2>2 DEF Masked
  <2>4. /\ g \in [form : {"ip", "cidr"}, fam : Family, num : Nat, ones : Nat]
        /\ g.fam = l.fam /\ g.num = l.num /\ g.ones = Width["v4"]
    BY <1>1, <2>1, V4Spelled
  <2>5. IsLiteral(g)
    BY <1>1, <2>1, <2>4, V4Spelled DEF IsLiteral
  <2>6. ~(g.ones >= V4InV6.ones)
    BY <2>4, V4Spelled
  <2>7. Means(g) = g
    BY <2>6 DEF Means, Mapped
  <2> QED  BY <2>3, <2>4, <2>5, <2>7, MeansAre
<1> QED  BY <1>1, <1>2, <1>3, <1>4

\* A spec that says what is no literal denies all.
LEMMA ScopeOf ==
    ASSUME NEW spec \in Seq(Targets)
    PROVE  /\ (\E k \in DOMAIN spec : spec[k] = Hostname) => NewScope(spec) = {}
           /\ (\A k \in DOMAIN spec : spec[k] # Hostname) =>
                  /\ \A k \in DOMAIN spec : IsLiteral(Grants(spec[k]))
                  /\ \A n : n \in NewScope(spec) <=>
                        \E k \in DOMAIN spec : n = [net |-> PlainCIDR(Grants(spec[k])), mask |-> spec[k].fam]
<1>1. \A k \in DOMAIN spec : spec[k] \in Targets
  OBVIOUS
<1>2. \A k \in DOMAIN spec : spec[k] = Hostname <=> spec[k].form = "other"
  <2> TAKE k \in DOMAIN spec
  <2>1. "other" \notin {"ip", "cidr"}
    OBVIOUS
  <2> QED  BY <1>1, <2>1, TargetsAre
<1>3. ASSUME \A k \in DOMAIN spec : spec[k] # Hostname
      PROVE  /\ \A k \in DOMAIN spec : IsLiteral(Grants(spec[k]))
             /\ \A n : n \in NewScope(spec) <=>
                   \E k \in DOMAIN spec : n = [net |-> PlainCIDR(Grants(spec[k])), mask |-> spec[k].fam]
  <2>1. \A k \in DOMAIN spec :
            IsLiteral(Grants(spec[k])) /\ ParseCIDR(Masked(spec[k])) = PlainCIDR(Grants(spec[k]))
    BY <1>1, <1>3, GrantsAre
  <2>2. ~\E k \in DOMAIN spec : spec[k].form = "other"
    BY <1>2, <1>3
  <2>3. NewScope(spec) = {[net |-> ParseCIDR(Masked(spec[k])), mask |-> spec[k].fam] : k \in DOMAIN spec}
    BY <2>2 DEF NewScope
  <2> QED  BY <2>1, <2>3
<1> QED  BY <1>2, <1>3 DEF NewScope

\* What one literal of a scope says of a target.
LEMMA OneBlock ==
    ASSUME NEW l, IsLiteral(l), NEW t, IsLiteral(t)
    PROVE  /\ Covers(PlainCIDR(l), PlainCIDR(t)) <=> Within(t, l)
           /\ t.ones = Width[t.fam] => (NetContains(PlainCIDR(l), PlainIP(t)) <=> Within(t, l))
<1>1. t.ones = Width[t.fam] => Interval(t) = {t.num}
  BY IntervalWithin
<1> QED  BY <1>1, CoversNumbers, BlockHolds DEF Within

\* What a target is read as.
LEMMA TargetMeans ==
    ASSUME NEW t \in Targets, t # Hostname
    PROVE  /\ IsLiteral(Means(t)) /\ Means(t).form = t.form /\ t.form \in {"ip", "cidr"}
           /\ ParseCIDR(t) = PlainCIDR(Means(t))
           /\ t.form = "ip" => ParseIP(t) = PlainIP(Means(t)) /\ Means(t).ones = Width[Means(t).fam]
  BY TargetsAre, MeansAre

LEMMA InsideIs ==
    ASSUME NEW spec \in Seq(Targets), NEW t \in Targets
    PROVE  /\ InScope(NewScope(spec), t) <=> Inside(spec, t)
           /\ ContainsIP(NewScope(spec), t) <=> t.form = "ip" /\ Inside(spec, t)
           /\ NewScope(spec) = {} => ~Inside(spec, t)
<1> DEFINE nets == NewScope(spec)
           Lies(k) == Within(Means(t), Grants(spec[k]))
           Fits(k) == Lies(k) /\ (t.form = "cidr" => t.fam = spec[k].fam)
<1>0. "ip" # "cidr" /\ "ip" # "other" /\ "cidr" # "other"
  OBVIOUS
<1>1. CASE t = Hostname
  BY <1>0, <1>1, TargetsAre DEF InScope, Inside, ContainsIP
<1>2. CASE t # Hostname /\ \E k \in DOMAIN spec : spec[k] = Hostname
  BY <1>2, ScopeOf DEF InScope, Inside, ContainsIP
<1>3. CASE t # Hostname /\ \A k \in DOMAIN spec : spec[k] # Hostname
  <2>1. \A k \in DOMAIN spec : IsLiteral(Grants(spec[k]))
    BY <1>3, ScopeOf
  <2>2. \A n : n \in nets <=> \E k \in DOMAIN spec : n = [net |-> PlainCIDR(Grants(spec[k])), mask |-> spec[k].fam]
    BY <1>3, ScopeOf
  <2>3. /\ IsLiteral(Means(t)) /\ t.form \in {"ip", "cidr"} /\ ParseCIDR(t) = PlainCIDR(Means(t))
        /\ t.form = "ip" => ParseIP(t) = PlainIP(Means(t)) /\ Means(t).ones = Width[Means(t).fam]
    BY <1>3, TargetMeans
  <2> HIDE DEF nets
  <2>4. Inside(spec, t) <=> \E k \in DOMAIN spec : Fits(k)
    BY <1>3 DEF Inside
  <2>4a. /\ \A n \in nets : \E k \in DOMAIN spec : n.net = PlainCIDR(Grants(spec[k])) /\ n.mask = spec[k].fam
         /\ \A k \in DOMAIN spec : \E n \in nets : n.net = PlainCIDR(Grants(spec[k])) /\ n.mask = spec[k].fam
    <3>1. ASSUME NEW n \in nets
          PROVE  \E k \in DOMAIN spec : n.net = PlainCIDR(Grants(spec[k])) /\ n.mask = spec[k].fam
      BY <2>2
    <3>2. ASSUME NEW k \in DOMAIN spec
          PROVE  \E n \in nets : n.net = PlainCIDR(Grants(spec[k])) /\ n.mask = spec[k].fam
      <4> DEFINE n == [net |-> PlainCIDR(Grants(spec[k])), mask |-> spec[k].fam]
      <4>1. n \in nets
        BY <2>2
      <4> QED  BY <4>1
    <3> QED  BY <3>1, <3>2
  <2>5. ASSUME t.form = "ip"
        PROVE  (\E n \in nets : NetContains(n.net, ParseIP(t))) <=> \E k \in DOMAIN spec : Lies(k)
    <3>1. \A k \in DOMAIN spec : NetContains(PlainCIDR(Grants(spec[k])), ParseIP(t)) <=> Lies(k)
      BY <2>1, <2>3, <2>5, OneBlock
    <3> HIDE DEF Lies
    <3> QED  BY <2>4a, <3>1
  <2>6. (\E n \in nets : n.mask = t.fam /\ Covers(n.net, ParseCIDR(t))) <=>
            \E k \in DOMAIN spec : Lies(k) /\ t.fam = spec[k].fam
    <3>1. \A k \in DOMAIN spec : Covers(PlainCIDR(Grants(spec[k])), ParseCIDR(t)) <=> Lies(k)
      BY <2>1, <2>3, OneBlock
    <3> HIDE DEF Lies
    <3> QED  BY <2>4a, <3>1
  <2>7. nets = {} => ~\E k \in DOMAIN spec : Fits(k)
    BY <2>2
  <2> HIDE DEF Lies
  <2>8. t.form = "ip" => ((\E k \in DOMAIN spec : Fits(k)) <=> \E k \in DOMAIN spec : Lies(k))
    BY <1>0
  <2>9. t.form = "cidr" =>
            ((\E k \in DOMAIN spec : Fits(k)) <=> \E k \in DOMAIN spec : Lies(k) /\ t.fam = spec[k].fam)
    BY <1>0
  <2> HIDE DEF Fits
  <2>10. InScope(nets, t) <=> Inside(spec, t)
    BY <1>0, <2>3, <2>4, <2>5, <2>6, <2>8, <2>9 DEF InScope
  <2>11. ContainsIP(nets, t) <=> t.form = "ip" /\ Inside(spec, t)
    BY <2>4, <2>5, <2>8 DEF ContainsIP
  <2> QED  BY <2>4, <2>7, <2>10, <2>11 DEF nets
<1> QED  BY <1>1, <1>2, <1>3

---------------------------------------------------------------------------
(* Each gate over one target, and all of them *)

\* What a gate keeps of one target, and of none.
LEMMA PickOne ==
    /\ \A t : Picked(<<t>>, {1}) = <<t>>
    /\ \A s : Picked(s, {}) = <<>>
<1>1. Cardinality({}) = 0
  BY FS_EmptySet
<1>2. Cardinality({1}) = 1
  BY FS_Singleton
<1>3. Ordered({1})[1] = 1
  <2> DEFINE Fits(x) == Cardinality({y \in {1} : y < x}) = 1 - 1
  <2>1. Ordered({1})[1] = CHOOSE x \in {1} : Fits(x)
    BY <1>2 DEF Ordered
  <2>2. {y \in {1} : y < 1} = {} /\ 1 - 1 = 0
    OBVIOUS
  <2>3. Fits(1)
    BY <1>1, <2>2
  <2> HIDE DEF Fits
  <2> QED  BY <2>1, <2>3
<1>4. ASSUME NEW t PROVE Picked(<<t>>, {1}) = <<t>>
  <2>1. Picked(<<t>>, {1}) = [k \in 1..1 |-> <<t>>[Ordered({1})[k]]]
    BY <1>2 DEF Picked
  <2>2. 1..1 = {1} /\ <<t>>[1] = t
    OBVIOUS
  <2>3. [k \in 1..1 |-> <<t>>[Ordered({1})[k]]] = [k \in 1..1 |-> t]
    BY <1>3, <2>2
  <2>4. [k \in 1..1 |-> t] = <<t>>
    OBVIOUS
  <2> QED  BY <2>1, <2>3, <2>4
<1>5. ASSUME NEW s PROVE Picked(s, {}) = <<>>
  <2>1. Picked(s, {}) = [k \in 1..0 |-> s[Ordered({})[k]]]
    BY <1>1 DEF Picked
  <2> QED  BY <2>1
<1> QED  BY <1>4, <1>5

LEMMA KeepsOne ==
    ASSUME NEW t, NEW S, S = {} \/ S = {1}
    PROVE  Picked(<<t>>, S) = IF 1 \in S THEN <<t>> ELSE <<>>
  BY PickOne

\* Registry.Enqueue keeps the targets that lie within one block of the scope, and of a tenant that is
\* disabled none.
LEMMA GateOne ==
    ASSUME NEW spec \in Seq(Targets), NEW t \in Targets
    PROVE  /\ Gate(Tenant(spec), <<t>>) = IF Inside(spec, t) THEN <<t>> ELSE <<>>
           /\ Gate([Tenant(spec) EXCEPT !.enabled = FALSE], <<t>>) = <<>>
<1> DEFINE shut == [Tenant(spec) EXCEPT !.enabled = FALSE]
           Kept(nets) == {i \in DOMAIN <<t>> : InScope(nets, <<t>>[i])}
<1>1. ScopeSpec(Tenant(spec)) = spec
  BY DEF ScopeSpec, Tenant
<1>2. ScopeSpec(shut) = <<>>
  BY DEF ScopeSpec, Tenant
<1>3. Gate(Tenant(spec), <<t>>) = Picked(<<t>>, Kept(NewScope(spec)))
  BY <1>1 DEF Gate
<1>4. Gate(shut, <<t>>) = Picked(<<t>>, Kept(NewScope(<<>>)))
  BY <1>2 DEF Gate
<1>5. \A nets : (Kept(nets) = {} \/ Kept(nets) = {1}) /\ (1 \in Kept(nets) <=> InScope(nets, t))
  <2>1. DOMAIN <<t>> = {1} /\ <<t>>[1] = t
    OBVIOUS
  <2> QED  BY <2>1
<1>6. NewScope(<<>>) = {}
  BY DEF NewScope
<1>7. ~InScope({}, t)
  BY DEF InScope
<1> HIDE DEF Kept, shut
<1>8. Gate(Tenant(spec), <<t>>) = IF Inside(spec, t) THEN <<t>> ELSE <<>>
  BY <1>3, <1>5, KeepsOne, InsideIs
<1>9. Gate(shut, <<t>>) = <<>>
  BY <1>4, <1>5, <1>6, <1>7, KeepsOne
<1> QED  BY <1>8, <1>9 DEF shut

\* The addresses of the self-deny list, by their numbers.
LEMMA DeniedIs ==
    ASSUME NEW deny \in Seq(Targets), NEW t, IsLiteral(t)
    PROVE  PlainIP(t) \in DenyIPs(deny) <=>
               \E i \in DOMAIN deny :
                   deny[i].form = "ip" /\ <<Means(deny[i]).fam, Means(deny[i]).num>> = <<t.fam, t.num>>
<1>1. \A i \in DOMAIN deny : deny[i].form = "ip" =>
          IsLiteral(Means(deny[i])) /\ ParseIP(deny[i]) = PlainIP(Means(deny[i]))
  <2> TAKE i \in DOMAIN deny
  <2>1. deny[i] \in Targets /\ Hostname.form # "ip"
    BY DEF Hostname
  <2> QED  BY <2>1, TargetMeans
<1>2. \A i \in DOMAIN deny : deny[i].form = "ip" =>
          (PlainIP(t) = ParseIP(deny[i]) <=> Means(deny[i]).fam = t.fam /\ Means(deny[i]).num = t.num)
  BY <1>1, SameNumber
<1> QED  BY <1>2 DEF DenyIPs

LEMMA CheckIs ==
    ASSUME NEW spec \in Seq(Targets), NEW deny \in Seq(Targets), NEW t \in Targets
    PROVE  CheckHost(spec, deny, t) <=> Launched(spec, deny, t)
<1> DEFINE m == Means(t)
           Own == \E i \in DOMAIN deny :
                      deny[i].form = "ip" /\ <<Means(deny[i]).fam, Means(deny[i]).num>> = <<m.fam, m.num>>
<1>0. "ip" # "cidr" /\ "ip" # "other" /\ "cidr" # "other"
  OBVIOUS
<1>1. CASE t = Hostname
  BY <1>0, <1>1, TargetsAre DEF CheckHost, Launched, Inside
<1>2. CASE t # Hostname
  <2>1. /\ IsLiteral(m) /\ t.form \in {"ip", "cidr"} /\ ParseCIDR(t) = PlainCIDR(m)
        /\ t.form = "ip" => ParseIP(t) = PlainIP(m)
    BY <1>2, TargetMeans
  <2>2. InScope(NewScope(spec), t) <=> Inside(spec, t)
    BY InsideIs
  <2>3. Degenerate(PlainIP(m)) <=> m.num \in NoTarget(m.fam)
    BY <2>1, DegenerateIs
  <2>4. DegenerateOverlap(PlainCIDR(m)) <=> Interval(m) \cap NoSweep(m.fam) # {}
    BY <2>1, OverlapNumbers
  <2>5. PlainIP(m) \in DenyIPs(deny) <=> Own
    BY <2>1, DeniedIs
  <2>6. (~Own) <=> \A i \in DOMAIN deny : deny[i].form = "ip" =>
                        <<Means(deny[i]).fam, Means(deny[i]).num>> # <<m.fam, m.num>>
    OBVIOUS
  <2>7. Launched(spec, deny, t) <=>
            Inside(spec, t) /\ \/ t.form = "ip" /\ m.num \notin NoTarget(m.fam) /\ ~Own
                               \/ t.form = "cidr" /\ Interval(m) \cap NoSweep(m.fam) = {}
    BY <2>6 DEF Launched
  <2> HIDE DEF Own, m
  <2>8. CheckHost(spec, deny, t) <=>
            Inside(spec, t) /\ \/ t.form = "ip" /\ m.num \notin NoTarget(m.fam) /\ ~Own
                               \/ t.form = "cidr" /\ Interval(m) \cap NoSweep(m.fam) = {}
    BY <1>0, <2>1, <2>2, <2>3, <2>4, <2>5 DEF CheckHost
  <2> QED  BY <2>7, <2>8
<1> QED  BY <1>1, <1>2

LEMMA SensorExact ==
    ASSUME NEW spec \in Seq(Targets), NEW deny \in Seq(Targets), NEW targets \in SUBSET Targets
    PROVE  SensorIsExact(spec, deny, targets)
<1> SUFFICES ASSUME NEW t \in Targets
             PROVE  Filter(spec, deny, Gate(Tenant(spec), <<t>>)) =
                        IF Launched(spec, deny, t) THEN <<Canonical(t)>> ELSE <<>>
  BY DEF SensorIsExact
<1> DEFINE Kept(given) == {i \in DOMAIN given : CheckHost(spec, deny, given[i])}
<1>1. \A given : Filter(spec, deny, given) =
          [i \in DOMAIN Picked(given, Kept(given)) |-> Canonical(Picked(given, Kept(given))[i])]
  BY DEF Filter
<1>2. (Kept(<<t>>) = {} \/ Kept(<<t>>) = {1}) /\ (1 \in Kept(<<t>>) <=> CheckHost(spec, deny, t))
  <2>1. DOMAIN <<t>> = {1} /\ <<t>>[1] = t
    OBVIOUS
  <2> QED  BY <2>1
<1>3. Kept(<<>>) = {}
  OBVIOUS
<1> HIDE DEF Kept
<1>4. [i \in DOMAIN <<t>> |-> Canonical(<<t>>[i])] = <<Canonical(t)>>
  <2>1. DOMAIN <<t>> = 1..1 /\ <<t>>[1] = t
    OBVIOUS
  <2> HIDE DEF Canonical
  <2> DEFINE c == Canonical(t)
  <2>2. [i \in DOMAIN <<t>> |-> Canonical(<<t>>[i])] = [i \in 1..1 |-> c]
    BY <2>1
  <2> HIDE DEF c
  <2>3. [i \in 1..1 |-> c] = <<c>>
    OBVIOUS
  <2> QED  BY <2>2, <2>3 DEF c
<1>5. [i \in DOMAIN <<>> |-> Canonical(<<>>[i])] = <<>>
  OBVIOUS
<1>6. Picked(<<t>>, Kept(<<t>>)) = IF Launched(spec, deny, t) THEN <<t>> ELSE <<>>
  BY <1>2, KeepsOne, CheckIs
<1>7. Picked(<<>>, Kept(<<>>)) = <<>>
  BY <1>3, PickOne
<1>8. Filter(spec, deny, <<t>>) = IF Launched(spec, deny, t) THEN <<Canonical(t)>> ELSE <<>>
  BY <1>1, <1>4, <1>5, <1>6
<1>9. Filter(spec, deny, <<>>) = <<>>
  BY <1>1, <1>5, <1>7
<1>10. Launched(spec, deny, t) => Inside(spec, t)
  BY DEF Launched
<1> QED  BY <1>8, <1>9, <1>10, GateOne

\* The canonical form of a target names the same addresses.
LEMMA CanonicalExact ==
    ASSUME NEW targets \in SUBSET Targets
    PROVE  SweepsTheSame(targets)
<1> SUFFICES ASSUME NEW t \in Targets, t # Hostname, NEW f \in Family, NEW h \in IPs(f)
             PROVE  NetContains(Canonical(t), ParseIP(h)) <=> Within(Means(h), Means(t))
  BY DEF SweepsTheSame
<1>0. "ip" # "cidr"
  OBVIOUS
<1>1. h \in Targets /\ h # Hostname /\ h.form = "ip"
  BY AddressLiteral DEF Targets, Literals, Hostname
<1>2. /\ IsLiteral(Means(h)) /\ ParseIP(h) = PlainIP(Means(h)) /\ Means(h).ones = Width[Means(h).fam]
  BY <1>1, TargetMeans
<1>3. /\ IsLiteral(Means(t)) /\ t.form \in {"ip", "cidr"} /\ ParseCIDR(t) = PlainCIDR(Means(t))
      /\ t.form = "ip" => ParseIP(t) = PlainIP(Means(t)) /\ Means(t).ones = Width[Means(t).fam]
  BY TargetMeans
<1>4. Canonical(t) = PlainCIDR(Means(t))
  BY <1>0, <1>3, ParsesAre DEF Canonical
<1> QED  BY <1>2, <1>3, <1>4, OneBlock

\* A host of a target that is inside is itself inside.
LEMMA HostsInside ==
    ASSUME NEW spec \in Seq(Targets), NEW t \in Targets, Inside(spec, t),
           NEW h \in Targets, h.form = "ip", Within(Means(h), Means(t))
    PROVE  Inside(spec, h)
<1>1. h # Hostname /\ "ip" # "cidr"
  BY DEF Hostname
<1>2. \A g : Within(Means(t), g) => Within(Means(h), g)
  BY DEF Within
<1> HIDE DEF Within
<1> QED  BY <1>1, <1>2 DEF Inside

LEMMA NothingLost ==
    ASSUME NEW spec \in Seq(Targets), NEW deny \in Seq(Targets), NEW targets \in SUBSET Targets
    PROVE  NothingIsLost(spec, deny, targets)
<1> DEFINE told == Imported(Tenant(spec), targets)
<1>1. \A h \in Targets : ContainsIP(NewScope(spec), h) <=> h.form = "ip" /\ Inside(spec, h)
  BY InsideIs
<1>2. Resolves(Tenant(spec)) <=> NewScope(spec) # {}
  BY DEF Resolves, Tenant
<1>3. NewScope(spec) = {} => \A h \in Targets : ~Inside(spec, h)
  BY InsideIs
<1>4. Tenant(spec).scope = spec
  BY DEF Tenant
<1>5. told = IF NewScope(spec) # {} THEN {h \in targets : ContainsIP(NewScope(spec), h)} ELSE {}
  BY <1>2, <1>4 DEF Imported
<1> HIDE DEF told
<1>6. \A h : h \in told <=> h \in targets /\ h.form = "ip" /\ Inside(spec, h)
  BY <1>1, <1>3, <1>5
<1>7. told = {h \in targets : h.form = "ip" /\ Inside(spec, h)}
  BY <1>6
<1>8. ASSUME NEW t \in targets, CheckHost(spec, deny, t),
             NEW h \in targets, h.form = "ip", Within(Means(h), Means(t))
      PROVE  h \in told
  <2>1. Inside(spec, t)
    BY <1>8, CheckIs DEF Launched
  <2>2. Inside(spec, h)
    BY <1>8, <2>1, HostsInside
  <2> QED  BY <1>6, <1>8, <2>2
<1>9. \A t \in targets : CheckHost(spec, deny, t) =>
          {h \in targets : h.form = "ip" /\ Within(Means(h), Means(t))} \subseteq told
  BY <1>8
<1> QED  BY <1>7, <1>9 DEF NothingIsLost, told

\* allowlist.go: an address of v6 with the first bytes zero holds one of v4.
LEMMA CompatibleIs ==
    ASSUME NEW t, IsLiteral(t)
    PROVE  IsIPv4CompatibleV6(PlainIP(t)) <=> t.fam = "v6" /\ t.num \in 0..(2^Width["v4"] - 1)
<1>1. CASE t.fam # "v6"
  BY <1>1, ParsesAre DEF IsIPv4CompatibleV6
<1>2. CASE t.fam = "v6"
  <2> DEFINE w == Width["v6"]
             v == Width["v4"]
             o == w - v
             p == 2^v
             W == 2^w
  <2>1. w \in Nat \ {0} /\ v \in Nat \ {0} /\ v <= w /\ o \in 0..w /\ w - o = v
    <3> DEFINE d == V4InV6.ones
    <3>1. d \in Nat /\ d + v = w /\ w \in Nat \ {0} /\ v \in Nat \ {0}
      BY V4Spelled
    <3> HIDE DEF d, v, w
    <3> QED  BY <3>1
  <2>2. t.num \in Nat /\ t.num \in 0..(2^w - 1) /\ p \in Nat \ {0} /\ W \in Nat \ {0}
    BY <1>2, <2>1, BitsAre, Powers
  <2>3. PlainIP(t).fam = "v6" /\ \A i \in 1..w : PlainIP(t).bits[i] = BitOf(t.num, w, i)
    BY <1>2, ParsesAre
  <2>4. IsIPv4CompatibleV6(PlainIP(t)) <=> \A i \in 1..o : PlainIP(t).bits[i] = 0
    BY <2>3 DEF IsIPv4CompatibleV6
  <2> HIDE DEF w, v, o
  <2>5. \A i \in 1..w : BitOf(0, w, i) = 0
    <3> TAKE i \in 1..w
    <3>1. w - i \in Nat
      BY <2>1
    <3> DEFINE b == 2^(w - i)
    <3>2. b \in Nat \ {0}
      BY <3>1, Powers
    <3>3. BitOf(0, w, i) = (0 \div b) % 2
      BY DEF BitOf
    <3> HIDE DEF b
    <3>4. 0 \div b = 0 /\ 0 % 2 = 0
      BY <3>2
    <3> QED  BY <3>3, <3>4
  <2>6. \A i \in 1..o : i \in 1..w
    BY <2>1
  <2>7. IsIPv4CompatibleV6(PlainIP(t)) <=> \A i \in 1..o : BitOf(t.num, w, i) = BitOf(0, w, i)
    BY <2>3, <2>4, <2>5, <2>6
  <2>8. 0 \in 0..(2^w - 1)
    <3> HIDE DEF W
    <3>1. 0 \in 0..(W - 1)
      BY <2>2
    <3> QED  BY <3>1 DEF W
  <2>9. IsIPv4CompatibleV6(PlainIP(t)) <=> t.num \div p = 0 \div p
    BY <2>1, <2>2, <2>7, <2>8, FirstBits
  <2> HIDE DEF p, W
  <2>10. t.num \div p = 0 \div p <=> t.num \in 0..(p - 1)
    <3>1. 0 \div p = 0
      BY <2>2
    <3>2. t.num \div p = 0 <=> t.num \in (0 * p)..(0 * p + p - 1)
      BY <2>2, Quotient
    <3>3. (0 * p)..(0 * p + p - 1) = 0..(p - 1)
      BY <2>2
    <3> QED  BY <3>1, <3>2, <3>3
  <2> QED  BY <1>2, <2>9, <2>10 DEF p, v
<1> QED  BY <1>1, <1>2

\* Addresses that are named one by one.
LEMMA NamedIs ==
    ASSUME NEW literals \in SUBSET (SpecialRanges \cup Siblings), NEW t, IsLiteral(t)
    PROVE  PlainIP(t) \in {ParseIP(l) : l \in literals} <=> t.num \in NumbersOf(literals, t.fam)
<1>1. \A l \in literals : PlainIP(t) = ParseIP(l) <=> t.fam = l.fam /\ t.num = l.num
  BY SpecialsAre, SameNumber
<1>2. t.num \in NumbersOf(literals, t.fam) <=> \E l \in literals : l.fam = t.fam /\ t.num = l.num
  BY DEF NumbersOf
<1> QED  BY <1>1, <1>2

LEMMA DeniedLaunches ==
    ASSUME NEW t, IsLiteral(t)
    PROVE  t.num \in NoLaunch(t.fam) <=> DenyReason(PlainIP(t)) \/ PlainIP(t) \in {ParseIP(s) : s \in Siblings}
<1> DEFINE both == Ranges.thisNetwork \cup Ranges.reserved
<1>1. both \in SUBSET SpecialRanges /\ Ranges.metadata \in SUBSET (SpecialRanges \cup Siblings)
  BY DEF SpecialRanges
<1>2. (\E n \in ReservedV4Nets : NetContains(n, PlainIP(t))) <=> t.num \in Reached(both, t.fam)
  BY <1>1, ReachedIs DEF ReservedV4Nets
<1>3. IsMetadata(PlainIP(t)) <=> t.num \in NumbersOf(Ranges.metadata, t.fam)
  BY <1>1, NamedIs DEF IsMetadata
<1>4. PlainIP(t) \in {ParseIP(s) : s \in Siblings} <=> t.num \in NumbersOf(Siblings, t.fam)
  BY NamedIs
<1>5. IsIPv4CompatibleV6(PlainIP(t)) <=> t.num \in (IF t.fam = "v6" THEN 0..(2^Width["v4"] - 1) ELSE {})
  BY CompatibleIs
<1>6. Degenerate(PlainIP(t)) <=> t.num \in NoTarget(t.fam)
  BY DegenerateIs
<1>7. t.num \in NoLaunch(t.fam) <=>
          \/ t.num \in NoTarget(t.fam) \/ t.num \in Reached(both, t.fam)
          \/ t.num \in NumbersOf(Ranges.metadata, t.fam) \/ t.num \in NumbersOf(Siblings, t.fam)
          \/ t.num \in (IF t.fam = "v6" THEN 0..(2^Width["v4"] - 1) ELSE {})
  BY DEF NoLaunch
<1> HIDE DEF both
<1> QED  BY <1>2, <1>3, <1>4, <1>5, <1>6, <1>7 DEF DenyReason

LEMMA AllowlistExact ==
    ASSUME NEW spec \in Seq(Targets), NEW targets \in SUBSET Targets
    PROVE  AllowlistIsExact(spec, targets)
<1> SUFFICES ASSUME NEW t \in Targets
             PROVE  Allows(spec, t) <=>
                        t.form = "ip" /\ Inside(spec, t) /\ Means(t).num \notin NoLaunch(Means(t).fam)
  BY DEF AllowlistIsExact
<1>1. ContainsIP(NewScope(spec), t) <=> t.form = "ip" /\ Inside(spec, t)
  BY InsideIs
<1>2. Allows(spec, t) <=> /\ ContainsIP(NewScope(spec), t)
                          /\ ~(DenyReason(ParseIP(t)) \/ ParseIP(t) \in {ParseIP(s) : s \in Siblings})
  BY DEF Allows, ContainsIP
<1>3. t.form = "ip" => t # Hostname
  BY DEF Hostname
<1>4. t.form = "ip" => IsLiteral(Means(t)) /\ ParseIP(t) = PlainIP(Means(t))
  BY <1>3, TargetMeans
<1>5. t.form = "ip" =>
          (Means(t).num \in NoLaunch(Means(t).fam) <=>
              DenyReason(ParseIP(t)) \/ ParseIP(t) \in {ParseIP(s) : s \in Siblings})
  BY <1>4, DeniedLaunches
<1> QED  BY <1>1, <1>2, <1>5

\* The gates of the cloud, of the sensor, of the report and of the scanner say of every target what its
\* numbers say, however it is spelled: for every scope and every self-deny list, every width of an
\* address, and whatever the special ranges are. What a bare address that is spelled as v4 in v6 grants
\* is the block of v6 that the code makes of it (Grants).
THEOREM GatesAreExact ==
    /\ SweepsTheSame(Targets)
    /\ \A spec, deny \in Seq(Targets) : \A targets \in SUBSET Targets : ScopeIsExact(spec, deny, targets)
<1>1. ASSUME NEW spec \in Seq(Targets), NEW deny \in Seq(Targets), NEW targets \in SUBSET Targets
      PROVE  ScopeIsExact(spec, deny, targets)
  <2>1. GateIsExact(spec, targets)
    BY GateOne DEF GateIsExact
  <2> QED  BY <2>1, SensorExact, NothingLost, AllowlistExact DEF ScopeIsExact
<1> QED  BY <1>1, CanonicalExact

\* The small specs are such scopes.
LEMMA SmallSpecs ==
    Specs \subseteq Seq(Targets) /\ Denies \subseteq Seq(Targets) /\ Chosen \subseteq Targets
<1>1. \A f \in Family : CIDRs(f) \subseteq Targets /\ IPs(f) \subseteq Targets
  BY DEF Targets, Literals
<1>2. Words("v4") \subseteq Targets /\ Words("v6") \subseteq Targets /\ Hostname \in Targets
  BY <1>1 DEF Words, Spelled, Family, Targets
<1>3. \A k, l, m \in Targets :
          <<l>> \in Seq(Targets) /\ <<l, m>> \in Seq(Targets) /\ <<k, l, m>> \in Seq(Targets)
  OBVIOUS
<1>4. <<>> \in Seq(Targets)
  OBVIOUS
<1>5. \A l \in {k \in Words("v4") : k # Hostname /\ k.ones = 1} : l \in Targets
  BY <1>2
<1>6. Specs \subseteq Seq(Targets)
  <2> SUFFICES ASSUME NEW s \in Specs PROVE s \in Seq(Targets)
    OBVIOUS
  <2>1. \/ s = <<>>
        \/ \E l \in Words("v4") \cup Words("v6") : s = <<l>>
        \/ \E l, m \in Words("v4") : s = <<l, m>>
        \/ \E l \in {t \in Words("v4") : t # Hostname /\ t.ones = 1}, m \in Words("v6") : s = <<l, m>>
    BY DEF Specs
  <2>2. CASE s = <<>>
    BY <1>4, <2>2
  <2>3. CASE \E l \in Words("v4") \cup Words("v6") : s = <<l>>
    BY <1>2, <1>3, <2>3
  <2>4. CASE \E l, m \in Words("v4") : s = <<l, m>>
    BY <1>2, <1>3, <2>4
  <2>5. CASE \E l \in {t \in Words("v4") : t # Hostname /\ t.ones = 1}, m \in Words("v6") : s = <<l, m>>
    BY <1>2, <1>3, <1>5, <2>5
  <2> QED  BY <2>1, <2>2, <2>3, <2>4, <2>5
<1>7. Denies \subseteq Seq(Targets)
  <2> SUFFICES ASSUME NEW s \in Denies PROVE s \in Seq(Targets)
    OBVIOUS
  <2>1. \E l \in IPs("v4"), m \in IPs("v6") : s = <<l, Hostname, m>>
    BY DEF Denies
  <2>2. IPs("v4") \subseteq Targets /\ IPs("v6") \subseteq Targets
    BY <1>1 DEF Family
  <2> QED  BY <1>2, <1>3, <2>1, <2>2
<1>8. Chosen \subseteq Targets
  BY <1>1, <1>2 DEF Chosen, Spelled, Family
<1> QED  BY <1>6, <1>7, <1>8

\* Whatever job a sensor has in hand, every gate on the way of its targets says what the scope means.
THEOREM HandedHolds == DispatchSpec => []HandedIsInScope
<1>1. SweepsTheSame(Chosen)
  BY SmallSpecs, CanonicalExact
<1>2. \A spec \in Specs, deny \in Denies : ScopeIsExact(spec, deny, Chosen)
  BY GatesAreExact, SmallSpecs
<1>3. HandedIsInScope
  BY <1>1, <1>2 DEF HandedIsInScope, ScopesAreExact
<1> QED  BY <1>3, PTL

---------------------------------------------------------------------------
(* The same of addresses, a target's one by one *)

AddressesOf(l) ==
    {a \in Address : \/ l.form = "ip" /\ NetContains(ParseIP(l), a)
                     \/ l.form = "cidr" /\ NetContains(ParseCIDR(l), a)}

LEMMA ParsesToBlocks ==
    ASSUME NEW l \in Targets
    PROVE  /\ l.form = "ip" => ParseIP(l) \in Address
           /\ l.form = "cidr" => ParseCIDR(l) \in Block
<1>1. "ip" # "other" /\ "cidr" # "other"
  OBVIOUS
<1>2. l.form \in {"ip", "cidr"} => l # Hostname
  BY <1>1, TargetsAre
<1> QED  BY <1>2, TargetMeans, ParsesAre

LEMMA ScopeOfBlocks ==
    ASSUME NEW spec \in Seq(Targets)
    PROVE  \A n \in NewScope(spec) : n.net \in Block
<1>1. CASE \E k \in DOMAIN spec : spec[k] = Hostname
  BY <1>1, ScopeOf
<1>2. CASE \A k \in DOMAIN spec : spec[k] # Hostname
  <2> SUFFICES ASSUME NEW n \in NewScope(spec) PROVE n.net \in Block
    OBVIOUS
  <2>1. PICK k \in DOMAIN spec : n = [net |-> PlainCIDR(Grants(spec[k])), mask |-> spec[k].fam]
    BY <1>2, ScopeOf
  <2>2. IsLiteral(Grants(spec[k]))
    BY <1>2, ScopeOf
  <2> QED  BY <2>1, <2>2, ParsesAre
<1> QED  BY <1>1, <1>2

\* A gate that lets a target in lets in every address of it.
LEMMA GateOfAddresses ==
    ASSUME NEW spec \in Seq(Targets), NEW target \in Targets, InScope(NewScope(spec), target),
           NEW a \in AddressesOf(target)
    PROVE  \E n \in NewScope(spec) : NetContains(n.net, a)
<1>1. a \in Address
  BY DEF AddressesOf
<1>2. CASE target.form = "ip"
  <2>1. PICK n \in NewScope(spec) : NetContains(n.net, ParseIP(target))
    BY <1>2 DEF InScope
  <2>2. n.net \in Block /\ ParseIP(target) \in Address /\ NetContains(ParseIP(target), a)
    BY <1>2, ScopeOfBlocks, ParsesToBlocks DEF AddressesOf
  <2>3. a = ParseIP(target)
    BY <1>1, <2>2, SameAddress
  <2> QED  BY <2>1, <2>3
<1>3. CASE target.form = "cidr"
  <2>1. PICK n \in NewScope(spec) : Covers(n.net, ParseCIDR(target))
    BY <1>3 DEF InScope
  <2> QED  BY <1>1, <1>3, <2>1, ScopeOfBlocks, ParsesToBlocks, CoversIsExact DEF AddressesOf
<1> QED  BY <1>2, <1>3 DEF AddressesOf

\* sensor/scope, CheckHost: whatever a target names, a scan of it reaches only addresses within one block
\* of the sensor's scope, and none that is degenerate.
THEOREM ScansStayInScope ==
    \A deny : \A allow \in Seq(Targets), target \in Targets :
        CheckHost(allow, deny, target) =>
            \A a \in AddressesOf(target) : ~Degenerate(a) /\ \E n \in NewScope(allow) : NetContains(n.net, a)
<1> SUFFICES ASSUME NEW deny, NEW allow \in Seq(Targets), NEW target \in Targets,
                    CheckHost(allow, deny, target), NEW a \in AddressesOf(target)
             PROVE  ~Degenerate(a) /\ \E n \in NewScope(allow) : NetContains(n.net, a)
  OBVIOUS
<1>1. \E n \in NewScope(allow) : NetContains(n.net, a)
  BY GateOfAddresses DEF CheckHost
<1>2. a \in Address
  BY DEF AddressesOf
<1>3. CASE target.form = "ip"
  <2>1. NetContains(ParseIP(target), a) /\ ParseIP(target) \in Address /\ ~Degenerate(ParseIP(target))
    BY <1>3, ParsesToBlocks DEF AddressesOf, CheckHost
  <2>2. a = ParseIP(target)
    BY <1>2, <2>1, SameAddress
  <2> QED  BY <1>1, <2>1, <2>2
<1>4. CASE target.form = "cidr"
  <2>1. NetContains(ParseCIDR(target), a) /\ ParseCIDR(target) \in Block /\ ~DegenerateOverlap(ParseCIDR(target))
    BY <1>4, ParsesToBlocks DEF AddressesOf, CheckHost
  <2>2. \A d \in DegenerateNets : ~NetContains(d, a)
    BY <1>2, <2>1, OverlapIsExact
  <2> QED  BY <1>1, <2>2, SpecialNets DEF Degenerate
<1> QED  BY <1>3, <1>4 DEF CheckHost

\* sensorreport: of what the cloud's dispatch let a sensor scan it takes the report, address by address,
\* so long as the tenant is as it was.
THEOREM DispatchedIsImported ==
    \A tenant, hosts : \A target \in Targets, host \in Targets :
        /\ tenant.scope \in Seq(Targets) /\ Resolves(tenant)
        /\ InScope(NewScope(ScopeSpec(tenant)), target)
        /\ host \in hosts /\ host.form = "ip" /\ ParseIP(host) \in AddressesOf(target)
        => host \in Imported(tenant, hosts)
<1> SUFFICES ASSUME NEW tenant, NEW hosts, NEW target \in Targets, NEW host \in Targets,
                    tenant.scope \in Seq(Targets), Resolves(tenant),
                    InScope(NewScope(ScopeSpec(tenant)), target),
                    host \in hosts, host.form = "ip", ParseIP(host) \in AddressesOf(target)
             PROVE  host \in Imported(tenant, hosts)
  OBVIOUS
<1>1. InScope(NewScope(tenant.scope), target)
  BY DEF Resolves, ScopeSpec
<1>2. \E n \in NewScope(tenant.scope) : NetContains(n.net, ParseIP(host))
  BY <1>1, GateOfAddresses
<1> QED  BY <1>2 DEF Imported, ContainsIP
=============================================================================
