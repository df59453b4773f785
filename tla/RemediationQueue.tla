------------------------- MODULE RemediationQueue -------------------------
(***************************************************************************)
(* The control plane's remediation queue (control-plane/remediation): the  *)
(* jobs an operator proposes, approves or rejects and one agent fetches,   *)
(* acknowledges and reports.  Registry.mu serialises the methods, so one   *)
(* method is one action.  What makes the queue hard is the file behind it: *)
(* every method changes the map in memory first and then rewrites the file *)
(* (temp + rename), the rewrite may fail, and each method answers such a   *)
(* failure in its own way.  A restart keeps only what the file holds.      *)
(*                                                                         *)
(* An agent is its certificate identity, the pair (CN, O); a request that  *)
(* Service.auth refuses reaches no method and is no step here.             *)
(***************************************************************************)
EXTENDS Integers

CONSTANTS
    Jobs,        \* job ids randHex can draw
    Agents,      \* certificate identities (CN, O)
    Operators,   \* names an approval is recorded under
    None,        \* the empty string of agent, approver and signature
    Lifetimes,   \* the TTLs an operator asks for, in ticks
    Windows,     \* the maintenance windows an operator asks for; 0 is no limit
    Redeliver,   \* Config.Redeliver, in ticks
    Retention,   \* defaultReapRetention, in ticks
    MaxClock,    \* bound: the clock stops here
    DiskFaults   \* whether saveLocked may fail

WindowType == [opens : Nat, closes : Nat]

\* Canonical: the fields a signature binds, beside the payload and the random ids.
OrderType == [job : Jobs, agent : Agents, window : WindowType, expiresAt : Nat,
              issuedAt : Nat, approvedBy : Operators]

ASSUME QueueAssumption ==
    /\ None \notin Operators
    /\ None \notin Agents
    /\ None \notin OrderType
    /\ None \notin {"applied", "failed"}
    /\ Lifetimes \subseteq Nat
    /\ Windows \subseteq WindowType
    /\ Redeliver \in Nat
    /\ Retention \in Nat
    /\ MaxClock \in Nat \ {0}
    /\ DiskFaults \in BOOLEAN

VARIABLES
    mem,         \* Registry.jobs
    disk,        \* the registry file: the last map that was saved
    clock,       \* time.Now, in ticks; 0 is the zero time
    drawn,       \* observed: ids that were handed out by Enqueue
    approved,    \* observed: what was signed by each Approve that returned without an error
    handed,      \* observed: jobs Poll returned to an agent
    rejected     \* observed: jobs whose Reject returned without an error

observations == <<drawn, approved, handed, rejected>>
queueVars == <<mem, disk, clock, drawn, approved, handed, rejected>>

---------------------------------------------------------------------------
(* Jobs *)

ReleasedStates == {"APPROVED", "DELIVERED", "ACKED", "APPLIED", "VERIFIED"}
TerminalStates == {"VERIFIED", "FAILED", "EXPIRED", "REJECTED"}
JobStates == {"ABSENT", "PENDING_APPROVAL"} \cup ReleasedStates \cup TerminalStates
Statuses == {"applied", "failed"}

JobType == [state : JobStates,
            agent : Agents \cup {None},
            window : WindowType,
            createdAt : Nat,
            expiresAt : Nat,
            approvedBy : Operators \cup {None},
            issuedAt : Nat,
            signature : OrderType \cup {None},  \* what was signed
            deliveredAt : Nat,
            result : Statuses \cup {None}]

\* A job id the map has no entry for.
NoJob == [state |-> "ABSENT", agent |-> None, window |-> [opens |-> 0, closes |-> 0],
          createdAt |-> 0, expiresAt |-> 0, approvedBy |-> None, issuedAt |-> 0,
          signature |-> None, deliveredAt |-> 0, result |-> None]

Canonical(j, job) ==
    [job |-> j, agent |-> job.agent, window |-> job.window, expiresAt |-> job.expiresAt,
     issuedAt |-> job.issuedAt, approvedBy |-> job.approvedBy]

Present(job) == job.state # "ABSENT"
Terminal(job) == job.state \in TerminalStates
Live(job) == Present(job) /\ ~Terminal(job)

WindowOpen(window, now) ==
    /\ window.opens # 0 => now >= window.opens
    /\ window.closes # 0 => now <= window.closes

\* The file is replaced as a whole or left alone; the temp file makes a partial write invisible.
Saves(jobs) == disk' = jobs
SaveFails == DiskFaults /\ disk' = disk

\* reapLocked: what is left of a map once old terminal jobs are dropped.
Reaped(jobs) ==
    [j \in Jobs |-> IF Terminal(jobs[j]) /\ jobs[j].createdAt < clock - Retention
                    THEN NoJob ELSE jobs[j]]

\* NewRegistry: a released job without a signature is dropped when the file is read.
Loaded(jobs) ==
    [j \in Jobs |-> IF jobs[j].state \in ReleasedStates /\ jobs[j].signature = None
                    THEN NoJob ELSE jobs[j]]

---------------------------------------------------------------------------
(* The operator's methods *)

Enqueue(j, agent, lifetime, window) ==
    /\ j \notin drawn
    /\ LET job == [NoJob EXCEPT !.state = "PENDING_APPROVAL", !.agent = agent,
                                !.window = window, !.createdAt = clock,
                                !.expiresAt = clock + lifetime]
       IN \/ /\ mem' = [Reaped(mem) EXCEPT ![j] = job]
             /\ Saves(mem')
             /\ drawn' = drawn \cup {j}
          \/ /\ mem' = Reaped(mem)      \* the new job is taken back, the reaped ones are not
             /\ SaveFails
             /\ drawn' = drawn
    /\ UNCHANGED <<clock, approved, handed, rejected>>

\* Mutant: the revert of a failed approval leaves the signature on the job.
ApproveKeepsSignature(j, operator) ==
    /\ mem[j].state = "PENDING_APPROVAL"
    /\ LET job == [mem[j] EXCEPT !.state = "APPROVED", !.approvedBy = operator,
                                 !.issuedAt = clock]
           order == Canonical(j, job)
       IN /\ approved' = approved \cup {order}
          /\ \/ /\ mem' = [mem EXCEPT ![j] = [job EXCEPT !.signature = order]]
                /\ Saves(mem')
             \/ mem' = [mem EXCEPT ![j].signature = order] /\ SaveFails
    /\ UNCHANGED <<clock, drawn, handed, rejected>>

Approve(j, operator) ==
    /\ mem[j].state = "PENDING_APPROVAL"
    /\ \/ LET job == [mem[j] EXCEPT !.state = "APPROVED", !.approvedBy = operator,
                                     !.issuedAt = clock]
              order == Canonical(j, job)
          IN /\ mem' = [mem EXCEPT ![j] = [job EXCEPT !.signature = order]]
             /\ Saves(mem')
             /\ approved' = approved \cup {order}
       \/ /\ mem' = mem                 \* every field is put back
          /\ SaveFails
          /\ approved' = approved
    /\ UNCHANGED <<clock, drawn, handed, rejected>>

\* Mutant: Reject without its early return, so that a job can end twice.
RejectAgain(j, operator) ==
    /\ Present(mem[j])
    /\ mem' = [mem EXCEPT ![j].state = "REJECTED", ![j].approvedBy = operator]
    /\ \/ Saves(mem') /\ rejected' = rejected \cup {j}
       \/ SaveFails /\ rejected' = rejected
    /\ UNCHANGED <<clock, drawn, approved, handed>>

\* A failed save is returned to the operator, but the job stays REJECTED in memory.
Reject(j, operator) ==
    /\ Present(mem[j])
    /\ \/ /\ Terminal(mem[j])
          /\ rejected' = rejected \cup {j}
          /\ UNCHANGED <<mem, disk>>
       \/ /\ ~Terminal(mem[j])
          /\ mem' = [mem EXCEPT ![j].state = "REJECTED", ![j].approvedBy = operator]
          /\ \/ Saves(mem') /\ rejected' = rejected \cup {j}
             \/ SaveFails /\ rejected' = rejected
    /\ UNCHANGED <<clock, drawn, approved, handed>>

\* MarkVerified, after a re-scan no longer shows the finding.
MarkVerified(j) ==
    /\ mem[j].state = "APPLIED"
    /\ mem' = [mem EXCEPT ![j].state = "VERIFIED"]
    /\ Saves(mem') \/ SaveFails
    /\ UNCHANGED <<clock, observations>>

Reap ==
    /\ Reaped(mem) # mem
    /\ mem' = Reaped(mem)
    /\ Saves(mem') \/ SaveFails
    /\ UNCHANGED <<clock, observations>>

---------------------------------------------------------------------------
(* The agent's methods *)

Expired(job) == job.expiresAt # 0 /\ clock > job.expiresAt

\* Mutant: the sweep leaves a job alone once the agent has it.
SweptBeforeDelivery(agent) ==
    [j \in Jobs |-> IF /\ mem[j].agent = agent
                       /\ mem[j].state \in {"PENDING_APPROVAL", "APPROVED"}
                       /\ Expired(mem[j])
                    THEN [mem[j] EXCEPT !.state = "EXPIRED"] ELSE mem[j]]

\* The map after Poll's sweep of the agent's own jobs.
Swept(agent) ==
    [j \in Jobs |-> IF mem[j].agent = agent /\ Live(mem[j]) /\ Expired(mem[j])
                    THEN [mem[j] EXCEPT !.state = "EXPIRED"] ELSE mem[j]]

\* Mutant: a failed job is offered again.
DeliverableOrFailed(job) ==
    \/ job.state = "APPROVED"
    \/ job.state \in {"DELIVERED", "FAILED"} /\ clock - job.deliveredAt > Redeliver

Deliverable(job) ==
    \/ job.state = "APPROVED"
    \/ job.state = "DELIVERED" /\ clock - job.deliveredAt > Redeliver

Eligible(agent) ==
    {j \in Jobs : /\ mem[j].agent = agent
                  /\ ~Expired(mem[j])
                  /\ WindowOpen(mem[j].window, clock)
                  /\ Deliverable(mem[j])}

Oldest(js) == {j \in js : \A k \in js : mem[j].createdAt <= mem[k].createdAt}

\* Nothing to deliver: the sweep is kept, and saved if it changed anything.
PollEmpty(agent) ==
    /\ Eligible(agent) = {}
    /\ mem' = Swept(agent)
    /\ IF mem' = mem THEN disk' = disk ELSE Saves(mem') \/ SaveFails
    /\ UNCHANGED <<clock, observations>>

\* Mutant: the delivery does not wait for the file.
PollDeliversAnyway(agent, j) ==
    /\ j \in Oldest(Eligible(agent))
    /\ mem' = [Swept(agent) EXCEPT ![j].state = "DELIVERED", ![j].deliveredAt = clock]
    /\ Saves(mem') \/ SaveFails
    /\ handed' = handed \cup {j}
    /\ UNCHANGED <<clock, drawn, approved, rejected>>

\* Job j is returned once the file shows it DELIVERED.
PollDelivers(agent, j) ==
    /\ j \in Oldest(Eligible(agent))
    /\ mem' = [Swept(agent) EXCEPT ![j].state = "DELIVERED", ![j].deliveredAt = clock]
    /\ Saves(mem')
    /\ handed' = handed \cup {j}
    /\ UNCHANGED <<clock, drawn, approved, rejected>>

\* The save failed: j is put back (the sweep is not) and the agent is told there is nothing.
PollReverts(agent) ==
    /\ Eligible(agent) # {}
    /\ mem' = Swept(agent)
    /\ SaveFails
    /\ UNCHANGED <<clock, observations>>

Ack(j, agent) ==
    /\ mem[j].agent = agent
    /\ mem[j].state = "DELIVERED"
    /\ mem' = [mem EXCEPT ![j].state = "ACKED"]
    /\ Saves(mem') \/ SaveFails
    /\ UNCHANGED <<clock, observations>>

\* Mutant: a second report is taken.
ReportableAgain(job) == job.state \in {"DELIVERED", "ACKED", "APPLIED"}

Reportable(job) == job.state \in {"DELIVERED", "ACKED"}

\* Mutant: the state is the status of the wire.
ReportWireStatus(j, agent, status) ==
    /\ mem[j].agent = agent
    /\ Reportable(mem[j])
    /\ mem' = [mem EXCEPT ![j].result = status, ![j].state = status]
    /\ Saves(mem') \/ SaveFails
    /\ UNCHANGED <<clock, observations>>

Report(j, agent, status) ==
    /\ mem[j].agent = agent
    /\ Reportable(mem[j])
    /\ mem' = [mem EXCEPT ![j].result = status,
                          ![j].state = IF status = "applied" THEN "APPLIED" ELSE "FAILED"]
    /\ Saves(mem') \/ SaveFails
    /\ UNCHANGED <<clock, observations>>

---------------------------------------------------------------------------
(* The process and the clock *)

Restart ==
    /\ mem' = Loaded(disk)
    /\ UNCHANGED <<disk, clock, observations>>

Tick ==
    /\ clock < MaxClock
    /\ clock' = clock + 1
    /\ UNCHANGED <<mem, disk, observations>>

QueueInit ==
    /\ mem = [j \in Jobs |-> NoJob]
    /\ disk = mem
    /\ clock = 1
    /\ drawn = {} /\ approved = {} /\ handed = {} /\ rejected = {}

OperatorStep ==
    \/ \E j \in Jobs, a \in Agents, life \in Lifetimes, w \in Windows : Enqueue(j, a, life, w)
    \/ \E j \in Jobs, o \in Operators : Approve(j, o) \/ Reject(j, o)
    \/ \E j \in Jobs : MarkVerified(j)
    \/ Reap

Poll(agent) ==
    \/ PollEmpty(agent)
    \/ \E j \in Jobs : PollDelivers(agent, j)
    \/ PollReverts(agent)

AgentCall ==
    \/ \E a \in Agents : Poll(a)
    \/ \E a \in Agents, j \in Jobs : Ack(j, a) \/ \E s \in Statuses : Report(j, a, s)

QueueNext == OperatorStep \/ AgentCall \/ Restart \/ Tick

QueueSpec == QueueInit /\ [][QueueNext]_queueVars

---------------------------------------------------------------------------
(* Properties *)

QueueTypeOK ==
    /\ mem \in [Jobs -> JobType]
    /\ disk \in [Jobs -> JobType]
    /\ clock \in 1 .. MaxClock
    /\ drawn \subseteq Jobs
    /\ approved \subseteq OrderType
    /\ handed \subseteq Jobs
    /\ rejected \subseteq Jobs

GateHolds(jobs) ==
    \A j \in Jobs :
        /\ jobs[j].state \in ReleasedStates \cup {"FAILED"} =>
               /\ jobs[j].signature = Canonical(j, jobs[j])
               /\ jobs[j].signature \in approved
        /\ jobs[j].state = "PENDING_APPROVAL" => jobs[j].signature = None

\* The approval gate (types.go, ADR-0010): in memory and in the file, a job past the gate carries
\* a signature over exactly the terms an operator approved, and one before it carries none;
\* no failed save, expiry, rejection or restart in between breaks the tie.
ApprovalGate == GateHolds(mem) /\ GateHolds(disk)

\* Poll: a job an agent was given is durable as DELIVERED, so no restart makes it look
\* undelivered again.
HandedIsDurable ==
    \A j \in handed : disk[j].state \notin {"PENDING_APPROVAL", "APPROVED"}

\* How far a job is; the four ends are equally far, and a reaped job is furthest.
Stage(state) ==
    IF state = "PENDING_APPROVAL" THEN 1
    ELSE IF state = "APPROVED" THEN 2
    ELSE IF state = "DELIVERED" THEN 3
    ELSE IF state = "ACKED" THEN 4
    ELSE IF state = "APPLIED" THEN 5
    ELSE IF state \in TerminalStates THEN 6 ELSE 7

Advances(from, to) == from = to \/ Stage(from) < Stage(to)

\* saveLocked's callers: whatever mixture of saves failed, the file is never ahead of the memory
\* and never holds a different end of the same job: a restart loses progress, it invents none.
DiskBehindMemory == \A j \in Jobs : Advances(disk[j].state, mem[j].state)

Terms(job) == <<job.agent, job.window, job.createdAt, job.expiresAt, job.issuedAt,
                job.signature, job.deliveredAt>>

\* The reverts of Enqueue, Approve and Poll are complete: as long as memory knows a job, the file
\* has it with the same terms, signature and delivery time. A failed save can cost the file only
\* a change of state, a result and the name of who rejected.
DiskKeepsTerms == \A j \in Jobs : Present(mem[j]) => Terms(disk[j]) = Terms(mem[j])

\* Without a restart a job only moves forward, one end is never exchanged for another, and a
\* recorded result is never overwritten (Report's "no-clobber").
ForwardOnly ==
    [][\/ mem' = Loaded(disk)
       \/ \A j \in drawn :
             /\ Advances(mem[j].state, mem'[j].state)
             /\ mem[j].result # None =>
                    mem'[j].result = mem[j].result \/ ~Present(mem'[j])]_queueVars

Delivers(j) == \E a \in Agents : PollDelivers(a, j)

\* types.go terminal(), "never delivered again": true of every job whose end reached the file,
\* through any later save failures and restarts.
ClosedNeverDelivered ==
    [][\A j \in Jobs : Terminal(disk[j]) => ~Delivers(j)]_queueVars

\* types.go terminal(), "never delivered again", as the operator sees it: a job whose rejection
\* was confirmed is never delivered. The code does not keep this one.
RejectIsFinal == [][\A j \in rejected : ~Delivers(j)]_queueVars

===========================================================================
