------------------------ MODULE RemediationSystem -------------------------
(***************************************************************************)
(* The remediation queue and the agents that work from it, over HTTP: a    *)
(* request may be lost, and so may its answer after the control plane has  *)
(* acted.  Either side may stop at any time.                               *)
(***************************************************************************)
EXTENDS RemediationQueue

CONSTANTS Skew, MaxStops, JournalFaults,
          Drift            \* the endpoints' clocks minus the control plane's, in ticks

ASSUME SystemAssumption ==
    /\ Skew \in Nat
    /\ MaxStops \in Nat
    /\ JournalFaults \in BOOLEAN
    /\ Drift \in Int

VARIABLES
    runner, journal, journalFile, effects, forgotten, stops,   \* of RemediationAgent
    unreported   \* observed: jobs whose last report did not reach the control plane

Agent == INSTANCE RemediationAgent

agentVars == <<runner, journal, journalFile, effects, forgotten, stops>>
systemVars == <<queueVars, agentVars, unreported>>

AgentNow == clock + Drift

QueueUntouched == UNCHANGED queueVars
AgentsUntouched == UNCHANGED <<agentVars, unreported>>

SystemInit ==
    /\ QueueInit
    /\ Agent!AgentInit
    /\ unreported = {}

\* RunOnce's poll: the job arrives and is verified, or its answer is lost, or there is none.
Fetch(a) ==
    /\ runner[a].at = "idle"
    /\ \/ \E j \in Jobs : /\ PollDelivers(a, j)
                          /\ Agent!Receive(a, j, mem'[j], AgentNow)
                          /\ UNCHANGED unreported
       \/ (\E j \in Jobs : PollDelivers(a, j)) /\ AgentsUntouched
       \/ (PollEmpty(a) \/ PollReverts(a)) /\ AgentsUntouched

Work(a) == Agent!Works(a, AgentNow) /\ QueueUntouched /\ UNCHANGED unreported

\* The control plane takes the ack, or it has no effect: lost, or the job has moved on.
Acknowledge(a) ==
    /\ Agent!SendAck(a)
    /\ Ack(runner[a].job, a) \/ QueueUntouched
    /\ UNCHANGED unreported

ReportTaken(a) ==
    /\ Agent!SendReport(a)
    /\ Report(runner[a].job, a, runner[a].status)
    /\ unreported' = unreported \ {runner[a].job}

\* Report answers a job that has its result or has ended without touching it.
ReportIgnored(a) ==
    /\ Agent!SendReport(a)
    /\ ~Reportable(mem[runner[a].job])
    /\ QueueUntouched
    /\ unreported' = unreported \ {runner[a].job}

ReportLost(a) ==
    /\ Agent!SendReport(a)
    /\ QueueUntouched
    /\ unreported' = unreported \cup {runner[a].job}

StopAgent(a) == Agent!Stop(a) /\ QueueUntouched /\ UNCHANGED unreported

ControlPlane == (OperatorStep \/ Restart \/ Tick) /\ AgentsUntouched

SystemNext ==
    \/ ControlPlane
    \/ \E a \in Agents :
          \/ Fetch(a) \/ Work(a) \/ Acknowledge(a)
          \/ ReportTaken(a) \/ ReportIgnored(a) \/ ReportLost(a)
          \/ StopAgent(a)

SystemSpec == SystemInit /\ [][SystemNext]_systemVars

\* The agents' loops keep running and time passes. Nothing says that a call ever gets through,
\* that a save ever succeeds or that an operator ever acts.
FairSystemSpec ==
    /\ SystemSpec
    /\ WF_systemVars(Tick /\ AgentsUntouched)
    /\ \A a \in Agents :
          /\ WF_systemVars(Fetch(a))
          /\ WF_systemVars(Work(a) \/ Acknowledge(a))
          /\ WF_systemVars(ReportTaken(a) \/ ReportIgnored(a) \/ ReportLost(a))

---------------------------------------------------------------------------
(* Properties *)

SystemTypeOK == QueueTypeOK /\ Agent!AgentTypeOK /\ unreported \subseteq Jobs

CarriedOut(j) == \E a \in Agents : effects[a][j] > 0

\* "Honest: Skipped means the journal recorded a prior success" (runner.go): a result recorded as
\* applied, in memory or in the file, and a verified fix, stand for a change of that host.
ResultsAreTrue ==
    \A jobs \in {mem, disk}, j \in Jobs :
        /\ jobs[j].result = "applied" => effects[jobs[j].agent][j] > 0
        /\ jobs[j].state \in {"APPLIED", "VERIFIED"} => jobs[j].result = "applied"

SystemInv == SystemTypeOK /\ ResultsAreTrue

\* At most once, also with the queue, its redelivery and the network around the agents.
AtMostOnce == Agent!AtMostOnce

\* ADR-0010's promise, with the queue, the network, stops and drifting clocks in between.
Promise == INSTANCE RemediationConsent WITH
    consent <- approved,
    now <- AgentNow,
    working <- {<<a, runner[a].job>> : a \in {b \in Agents : runner[b].at = "applying"}},
    changed <- {p \in Agents \X Jobs : effects[p[1]][p[2]] > 0},
    attested <- {j \in Jobs : mem[j].state = "VERIFIED"}

KeepsPromise == Promise!ConsentSpec

\* A proposed job does not stay open for ever: it ends, or the sweep of its agent's polls ends it,
\* even if saves fail and calls are lost without limit.
NoJobStaysOpen ==
    \A j \in Jobs : (j \in drawn /\ mem[j].expiresAt < MaxClock) ~> ~Live(mem[j])

\* runner.go, RunOnce: "the control-plane redelivers unacked jobs, so a transient failure is
\* retried on the next tick". The code does not keep this one: an ack that got through before
\* the report failed takes the job out of redelivery.
FailedReportIsRetried ==
    \A j \in unreported : Live(mem[j]) => mem[j].state \in {"APPROVED", "DELIVERED"}

===========================================================================
