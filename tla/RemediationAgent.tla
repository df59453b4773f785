------------------------- MODULE RemediationAgent -------------------------
(***************************************************************************)
(* The endpoint's side of remediation (agent/internal/remediate): the      *)
(* Runner that fetches one job at a time, the Executor with its gates, and *)
(* the journal that is to keep a redelivered job from being applied twice. *)
(* One Loop goroutine drives the Runner and Executor.mu makes applies      *)
(* exclusive, so an agent is at one place of RunOnce at a time.  Its       *)
(* process can stop between any two steps; the journal file is what is     *)
(* left.  The actions are steps of one agent; RemediationSystem says what  *)
(* each call does at the control plane.                                    *)
(***************************************************************************)
EXTENDS Integers

CONSTANTS
    Jobs, Agents,    \* as in RemediationQueue
    None,
    Skew,            \* remediationSkew, in ticks
    MaxStops,        \* bound: how often agent processes stop
    JournalFaults    \* whether the journal's write may fail or its file be unreadable

VARIABLES
    runner,       \* where RunOnce is, the job it holds and the status it will report
    journal,      \* journal.m: jobs with an APPLIED entry (a FAILED entry suppresses nothing)
    journalFile,  \* the same, in remediation.journal.json
    effects,      \* observed: how often a handler carried a job out on the host
    forgotten,    \* observed: how many of those the journal does not remember after a stop
    stops         \* observed: how often a process stopped

agentVars == <<runner, journal, journalFile, effects, forgotten, stops>>
hostVars == <<journal, journalFile, effects, forgotten, stops>>

NoWindow == [opens |-> 0, closes |-> 0]
Idle == [at |-> "idle", job |-> None, window |-> NoWindow, status |-> None]

AgentTypeOK ==
    /\ runner \in [Agents -> [at : {"idle", "fetched", "applying", "applied", "ack", "report"},
                              job : Jobs \cup {None},
                              window : [opens : Nat, closes : Nat],
                              status : {"applied", "failed", None}]]
    /\ journal \in [Agents -> SUBSET Jobs]
    /\ journalFile \in [Agents -> SUBSET Jobs]
    /\ effects \in [Agents -> [Jobs -> Nat]]
    /\ forgotten \in [Agents -> [Jobs -> Nat]]
    /\ stops \in 0 .. MaxStops

AgentInit ==
    /\ runner = [a \in Agents |-> Idle]
    /\ journal = [a \in Agents |-> {}]
    /\ journalFile = journal
    /\ effects = [a \in Agents |-> [j \in Jobs |-> 0]]
    /\ forgotten = effects
    /\ stops = 0

---------------------------------------------------------------------------
(* Fetching: PollJob verifies before it returns *)

\* The fields of a received job the agent derives the signed bytes from.
Signed(j, job) ==
    [job |-> j, agent |-> job.agent, window |-> job.window, expiresAt |-> job.expiresAt,
     issuedAt |-> job.issuedAt, approvedBy |-> job.approvedBy]

VerifyAt(j, job, now) ==
    /\ job.signature = Signed(j, job)
    /\ job.issuedAt # 0 => now >= job.issuedAt - Skew
    /\ job.expiresAt # 0 => now <= job.expiresAt + Skew

\* A job that does not verify is dropped without an answer.
Receive(a, j, job, now) ==
    /\ runner[a].at = "idle"
    /\ runner' = IF VerifyAt(j, job, now)
                 THEN [runner EXCEPT ![a] = [Idle EXCEPT !.at = "fetched", !.job = j,
                                                         !.window = job.window]]
                 ELSE runner
    /\ UNCHANGED hostVars

---------------------------------------------------------------------------
(* Executor.Apply *)

AppliedOK(a) == runner[a].job \in journal[a]
TooEarly(a, now) == runner[a].window.opens # 0 /\ now < runner[a].window.opens
\* Mutant: the freshness tolerance is applied to the maintenance window.
TooLateWithSkew(a, now) == runner[a].window.closes # 0 /\ now > runner[a].window.closes + Skew
TooLate(a, now) == runner[a].window.closes # 0 /\ now > runner[a].window.closes

Answers(a, status) ==
    runner' = [runner EXCEPT ![a].at = "ack", ![a].status = status]

Skip(a) ==
    /\ runner[a].at = "fetched"
    /\ AppliedOK(a)
    /\ Answers(a, "applied")
    /\ UNCHANGED hostVars

Defer(a, now) ==
    /\ runner[a].at = "fetched"
    /\ ~AppliedOK(a)
    /\ TooEarly(a, now)
    /\ runner' = [runner EXCEPT ![a] = Idle]
    /\ UNCHANGED hostVars

\* Mutant: a window that has closed is reported as done.
RefuseAsApplied(a, now) ==
    /\ runner[a].at = "fetched"
    /\ ~AppliedOK(a)
    /\ ~TooEarly(a, now)
    /\ TooLate(a, now)
    /\ Answers(a, "applied")
    /\ UNCHANGED hostVars

Refuse(a, now) ==
    /\ runner[a].at = "fetched"
    /\ ~AppliedOK(a)
    /\ ~TooEarly(a, now)
    /\ TooLate(a, now)
    /\ Answers(a, "failed")
    /\ UNCHANGED hostVars

StartHandler(a, now) ==
    /\ runner[a].at = "fetched"
    /\ ~AppliedOK(a)
    /\ ~TooEarly(a, now)
    /\ ~TooLate(a, now)
    /\ runner' = [runner EXCEPT ![a].at = "applying"]
    /\ UNCHANGED hostVars

\* The handler returns: it carried the job out, or gave an error and changed nothing.
HandlerReturns(a) ==
    /\ runner[a].at = "applying"
    /\ \/ /\ runner' = [runner EXCEPT ![a].at = "applied", ![a].status = "applied"]
          /\ effects' = [effects EXCEPT ![a][runner[a].job] = @ + 1]
       \/ /\ runner' = [runner EXCEPT ![a].at = "applied", ![a].status = "failed"]
          /\ effects' = effects
    /\ UNCHANGED <<journal, journalFile, forgotten, stops>>

\* Mutant: the journal remembers only what it could write.
RecordIfWritten(a) ==
    /\ runner[a].at = "applied"
    /\ \/ /\ journal' = [journal EXCEPT ![a] = IF runner[a].status = "applied"
                                                THEN @ \cup {runner[a].job} ELSE @ \ {runner[a].job}]
          /\ journalFile' = [journalFile EXCEPT ![a] = journal'[a]]
       \/ JournalFaults /\ UNCHANGED <<journal, journalFile>>
    /\ Answers(a, runner[a].status)
    /\ UNCHANGED <<effects, forgotten, stops>>

\* journal.record: the map always, the file if it can be written.
Record(a) ==
    /\ runner[a].at = "applied"
    /\ journal' = [journal EXCEPT ![a] = IF runner[a].status = "applied"
                                         THEN @ \cup {runner[a].job} ELSE @ \ {runner[a].job}]
    /\ \/ journalFile' = [journalFile EXCEPT ![a] = journal'[a]]
       \/ JournalFaults /\ journalFile' = journalFile
    /\ Answers(a, runner[a].status)
    /\ UNCHANGED <<effects, forgotten, stops>>

---------------------------------------------------------------------------
(* Answering: an ack that fails is logged, a report that fails ends the round *)

SendAck(a) ==
    /\ runner[a].at = "ack"
    /\ runner' = [runner EXCEPT ![a].at = "report"]
    /\ UNCHANGED hostVars

SendReport(a) ==
    /\ runner[a].at = "report"
    /\ runner' = [runner EXCEPT ![a] = Idle]
    /\ UNCHANGED hostVars

\* The process stops and starts again: loadJournal reads the file, or nothing if it is unreadable.
Stop(a) ==
    /\ stops < MaxStops
    /\ stops' = stops + 1
    /\ runner' = [runner EXCEPT ![a] = Idle]
    /\ \E read \in {journalFile[a]} \cup (IF JournalFaults THEN {{}} ELSE {}) :
           /\ journal' = [journal EXCEPT ![a] = read]
           /\ forgotten' = [forgotten EXCEPT ![a] =
                               [j \in Jobs |-> IF j \in read THEN @[j] ELSE effects[a][j]]]
    /\ UNCHANGED <<journalFile, effects>>

Works(a, now) ==
    \/ Skip(a) \/ Defer(a, now) \/ Refuse(a, now)
    \/ StartHandler(a, now) \/ HandlerReturns(a) \/ Record(a)

---------------------------------------------------------------------------
(* Properties *)

\* executor.go "never twice": a job is carried out a second time only if the journal lost the
\* first, by a stop between the handler and the record or by an unwritten or unreadable file.
AtMostOnce ==
    \A a \in Agents, j \in Jobs : effects[a][j] <= forgotten[a][j] + 1

===========================================================================
