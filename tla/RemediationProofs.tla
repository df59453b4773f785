------------------------- MODULE RemediationProofs -------------------------
(***************************************************************************)
(* That the queue's invariants hold for any jobs, agents, operators,       *)
(* lifetimes and windows, with any mixture of failed saves and restarts,   *)
(* and those of the queue with its agents whatever answers are lost and    *)
(* wherever an agent stops; and that together they keep the promise of     *)
(* RemediationConsent.                                                     *)
(*                                                                         *)
(* The queue: a step is quiet if it leaves the terms of every job alone    *)
(* and moves each job forward or not at all.  A quiet step preserves the   *)
(* invariant whether or not its save succeeds.  The three steps that are   *)
(* not quiet (Enqueue, Approve and Poll's delivery) all save what they did *)
(* or take it back, and a restart reads what the invariant says of the     *)
(* file.                                                                   *)
(*                                                                         *)
(* The agents: whatever a runner holds was approved for its agent, a       *)
(* journal says nothing that did not happen to the host, and what happened *)
(* to the host is in the journal or in the hands of the runner that did    *)
(* it.  So a step of an agent that changes its host is a step of the       *)
(* promise, and every other one leaves the promise alone.                  *)
(***************************************************************************)
EXTENDS RemediationSystem, TLAPS

\* A job id that was never drawn names nothing, so a new job meets no trace of an old one.
DrawnFirst ==
    /\ handed \subseteq drawn
    /\ \A j \in Jobs \ drawn : ~Present(mem[j]) /\ ~Present(disk[j])

\* Every job has an agent, so what Approve signs is an order.
Owned ==
    \A j \in Jobs :
        /\ Present(mem[j]) => mem[j].agent # None
        /\ Present(disk[j]) => disk[j].agent # None

QueueIInv ==
    /\ QueueTypeOK
    /\ ApprovalGate
    /\ DiskBehindMemory
    /\ DiskKeepsTerms
    /\ HandedIsDurable
    /\ DrawnFirst
    /\ Owned

Gated == ReleasedStates \cup {"FAILED"}

Quiet(j) ==
    /\ mem'[j] \in JobType
    /\ Advances(mem[j].state, mem'[j].state)
    /\ Present(mem'[j]) => Present(mem[j]) /\ Terms(mem'[j]) = Terms(mem[j])
    /\ mem'[j].state \in Gated =>
           mem[j].state \in Gated /\ mem'[j].approvedBy = mem[j].approvedBy
    /\ mem'[j].state = "PENDING_APPROVAL" => mem[j].state = "PENDING_APPROVAL"

QuietStep ==
    /\ mem' = [j \in Jobs |-> mem'[j]]
    /\ \A j \in Jobs : Quiet(j)
    /\ disk' = mem' \/ disk' = disk
    /\ clock' \in 1 .. MaxClock
    /\ drawn' = drawn /\ approved' = approved /\ handed' = handed
    /\ rejected' \subseteq Jobs

---------------------------------------------------------------------------

LEMMA StageIsNat == \A s : Stage(s) \in 1 .. 7
  BY DEF Stage

\* Progress composes: what is behind a state is behind everything the state can become.
LEMMA AdvancesTransitive ==
    ASSUME NEW s, NEW t, NEW u, Advances(s, t), Advances(t, u)
    PROVE  Advances(s, u)
  BY StageIsNat DEF Advances

LEMMA NoJobIsAJob == NoJob \in JobType
  BY QueueAssumption DEF NoJob, JobType, JobStates, WindowType

LEMMA QuietSafe ==
    ASSUME QueueIInv, QuietStep
    PROVE  QueueIInv'
<1> USE DEF QueueIInv, QuietStep, Gated
<1>1. mem' \in [Jobs -> JobType] /\ disk' \in [Jobs -> JobType]
  BY DEF Quiet, QueueTypeOK
<1>2. QueueTypeOK'
  BY <1>1 DEF QueueTypeOK
<1>3. GateHolds(mem)'
  <2> SUFFICES ASSUME NEW j \in Jobs
               PROVE  /\ mem'[j].state \in Gated =>
                            /\ mem'[j].signature = Canonical(j, mem'[j])
                            /\ mem'[j].signature \in approved'
                      /\ mem'[j].state = "PENDING_APPROVAL" => mem'[j].signature = None
    BY DEF GateHolds, Canonical
  <2>1. Quiet(j) /\ mem[j] \in JobType
    BY DEF QueueTypeOK
  <2>2. ASSUME mem'[j].state \in Gated
        PROVE  mem'[j].signature = Canonical(j, mem'[j]) /\ mem'[j].signature \in approved'
    <3>1. Terms(mem'[j]) = Terms(mem[j]) /\ mem'[j].approvedBy = mem[j].approvedBy
      BY <2>1, <2>2 DEF Quiet, Present, ReleasedStates
    <3>2. mem[j].signature = Canonical(j, mem[j]) /\ mem[j].signature \in approved
      BY <2>1, <2>2 DEF Quiet, ApprovalGate, GateHolds
    <3> QED  BY <3>1, <3>2 DEF Terms, Canonical
  <2>3. ASSUME mem'[j].state = "PENDING_APPROVAL"
        PROVE  mem'[j].signature = None
    <3>1. Terms(mem'[j]) = Terms(mem[j])
      BY <2>1, <2>3 DEF Quiet, Present
    <3>2. mem[j].signature = None
      BY <2>1, <2>3 DEF Quiet, ApprovalGate, GateHolds
    <3> QED  BY <3>1, <3>2 DEF Terms
  <2> QED  BY <2>2, <2>3
<1>4. ApprovalGate'
  <2>1. CASE disk' = mem'
    BY <1>3, <2>1 DEF ApprovalGate, GateHolds, Canonical
  <2>2. CASE disk' = disk
    BY <1>3, <2>2 DEF ApprovalGate, GateHolds, Canonical
  <2> QED  BY <2>1, <2>2
<1>5. DiskBehindMemory'
  <2> SUFFICES ASSUME NEW j \in Jobs
               PROVE  Advances(disk'[j].state, mem'[j].state)
    BY DEF DiskBehindMemory, Advances, Stage
  <2>1. CASE disk' = mem'
    BY <2>1 DEF Advances
  <2>2. CASE disk' = disk
    <3>1. Advances(disk[j].state, mem[j].state) /\ Advances(mem[j].state, mem'[j].state)
      BY DEF DiskBehindMemory, Quiet
    <3> QED  BY <2>2, <3>1, AdvancesTransitive
  <2> QED  BY <2>1, <2>2
<1>6. DiskKeepsTerms'
  BY DEF DiskKeepsTerms, Quiet, Terms, Present
<1>7. HandedIsDurable'
  <2> SUFFICES ASSUME NEW j \in handed
               PROVE  disk'[j].state \notin {"PENDING_APPROVAL", "APPROVED"}
    BY DEF HandedIsDurable
  <2>0. j \in Jobs
    BY DEF QueueTypeOK
  <2>1. CASE disk' = mem'
    <3>1. Advances(disk[j].state, mem[j].state) /\ Advances(mem[j].state, mem'[j].state)
      BY <2>0 DEF DiskBehindMemory, Quiet
    <3>2. Advances(disk[j].state, mem'[j].state)
      BY <3>1, AdvancesTransitive
    <3>3. disk[j].state \notin {"PENDING_APPROVAL", "APPROVED"}
      BY DEF HandedIsDurable
    <3> QED  BY <2>1, <3>2, <3>3 DEF Advances, Stage, TerminalStates
  <2>2. CASE disk' = disk
    BY <2>2 DEF HandedIsDurable
  <2> QED  BY <2>1, <2>2
<1>8. DrawnFirst'
  BY DEF DrawnFirst, Quiet, Present
<1>9. Owned'
  <2> SUFFICES ASSUME NEW j \in Jobs
               PROVE  /\ Present(mem'[j]) => mem'[j].agent # None
                      /\ Present(disk'[j]) => disk'[j].agent # None
    BY DEF Owned, Present
  <2>1. Present(mem'[j]) => mem'[j].agent # None
    BY DEF Owned, Quiet, Terms
  <2>2. Present(disk[j]) => disk[j].agent # None
    BY DEF Owned
  <2> QED  BY <2>1, <2>2
<1> QED  BY <1>2, <1>4, <1>5, <1>6, <1>7, <1>8, <1>9

---------------------------------------------------------------------------
(* The quiet steps *)

LEMMA ReapedIsQuiet ==
    ASSUME QueueIInv, NEW j \in Jobs, mem'[j] = Reaped(mem)[j]
    PROVE  Quiet(j)
<1>1. mem[j] \in JobType /\ mem'[j] = IF Terminal(mem[j]) /\ mem[j].createdAt < clock - Retention
                                     THEN NoJob ELSE mem[j]
  BY DEF QueueIInv, QueueTypeOK, Reaped
<1>2. CASE mem'[j] = mem[j]
  BY <1>1, <1>2 DEF Quiet, Advances
<1>3. CASE Terminal(mem[j]) /\ mem'[j] = NoJob
  BY <1>3, NoJobIsAJob
     DEF Quiet, Advances, Stage, NoJob, Terminal, TerminalStates, Gated, Present, ReleasedStates
<1> QED  BY <1>1, <1>2, <1>3

\* A job that is moved forward, with a new approver only when it leaves the gated states.
LEMMA MovedIsQuiet ==
    ASSUME NEW k \in Jobs, mem[k] \in JobType,
           NEW s \in JobStates \ {"ABSENT", "PENDING_APPROVAL"},
           NEW p \in Operators \cup {None}, NEW r \in Statuses \cup {None},
           mem'[k] = [mem[k] EXCEPT !.state = s, !.approvedBy = p, !.result = r],
           Present(mem[k]), Stage(mem[k].state) < Stage(s),
           s \in Gated => mem[k].state \in Gated /\ p = mem[k].approvedBy
    PROVE  Quiet(k)
<1>1. mem'[k] \in JobType
  BY DEF JobType
<1>2. mem'[k].state = s /\ mem'[k].approvedBy = p
  BY DEF JobType
<1>3. Terms(mem'[k]) = Terms(mem[k])
  BY DEF JobType, Terms
<1> QED  BY <1>1, <1>2, <1>3 DEF Quiet, Advances

\* What the stages say of a live job: each end lies ahead of it.
LEMMA LiveIsBeforeTheEnds ==
    ASSUME NEW job, job.state \in JobStates, Live(job), NEW e \in TerminalStates
    PROVE  Stage(job.state) < Stage(e)
  BY DEF Live, Present, Terminal, Stage, TerminalStates, ReleasedStates, JobStates

\* Poll's sweep moves a job to EXPIRED or leaves it.
LEMMA SweptIsQuiet ==
    ASSUME QueueIInv, NEW a \in Agents, NEW j \in Jobs, mem'[j] = Swept(a)[j]
    PROVE  Quiet(j)
<1>1. mem[j] \in JobType
  BY DEF QueueIInv, QueueTypeOK
<1>2. CASE mem'[j] = mem[j]
  BY <1>1, <1>2 DEF Quiet, Advances
<1>3. CASE Live(mem[j]) /\ mem'[j] = [mem[j] EXCEPT !.state = "EXPIRED"]
  <2>1. /\ mem'[j] = [mem[j] EXCEPT !.state = "EXPIRED", !.approvedBy = mem[j].approvedBy,
                                    !.result = mem[j].result]
        /\ mem[j].approvedBy \in Operators \cup {None} /\ mem[j].result \in Statuses \cup {None}
        /\ mem[j] \in JobType /\ mem[j].state \in JobStates /\ Present(mem[j])
    BY <1>1, <1>3 DEF JobType, Live
  <2>2. Stage(mem[j].state) < Stage("EXPIRED")
    BY <1>3, <2>1, LiveIsBeforeTheEnds DEF TerminalStates
  <2>3. "EXPIRED" \in JobStates \ {"ABSENT", "PENDING_APPROVAL"} /\ "EXPIRED" \notin Gated
    BY DEF JobStates, TerminalStates, ReleasedStates, Gated
  <2> QED  BY <2>1, <2>2, <2>3, MovedIsQuiet
<1> QED  BY <1>2, <1>3 DEF Swept

LEMMA RejectSafe ==
    ASSUME QueueIInv, NEW j \in Jobs, NEW o \in Operators, Reject(j, o)
    PROVE  QueueIInv'
<1>1. QueueTypeOK
  BY DEF QueueIInv
<1>2. ASSUME NEW k \in Jobs
      PROVE  Quiet(k)
  <2>1. mem[k] \in JobType
    BY <1>1 DEF QueueTypeOK
  <2>2. CASE mem'[k] = mem[k]
    BY <2>1, <2>2 DEF Quiet, Advances
  <2>3. CASE mem'[k] # mem[k]
    <3>1. /\ mem' = [mem EXCEPT ![j].state = "REJECTED", ![j].approvedBy = o]
          /\ k = j /\ Live(mem[j])
      BY <1>1, <2>3 DEF Reject, QueueTypeOK, Live
    <3>2. mem'[k] = [mem[k] EXCEPT !.state = "REJECTED", !.approvedBy = o]
      BY <1>1, <3>1 DEF QueueTypeOK
    <3>3. /\ mem'[k] = [mem[k] EXCEPT !.state = "REJECTED", !.approvedBy = o,
                                      !.result = mem[k].result]
          /\ mem[k].result \in Statuses \cup {None} /\ mem[k].state \in JobStates
      BY <2>1, <3>2 DEF JobType
    <3>4. Stage(mem[k].state) < Stage("REJECTED")
      BY <3>1, <3>3, LiveIsBeforeTheEnds DEF TerminalStates
    <3>5. "REJECTED" \in JobStates \ {"ABSENT", "PENDING_APPROVAL"} /\ "REJECTED" \notin Gated
      BY DEF JobStates, TerminalStates, ReleasedStates, Gated
    <3> QED  BY <2>1, <3>1, <3>3, <3>4, <3>5, MovedIsQuiet DEF Live
  <2> QED  BY <2>2, <2>3
<1>3. QuietStep
  BY <1>1, <1>2 DEF QuietStep, Reject, Saves, SaveFails, QueueTypeOK
<1> QED  BY <1>3, QuietSafe

LEMMA ReapSafe == ASSUME QueueIInv, Reap PROVE QueueIInv'
<1>1. QuietStep
  BY ReapedIsQuiet DEF QuietStep, Reap, Reaped, Saves, SaveFails, QueueIInv, QueueTypeOK, observations
<1> QED  BY <1>1, QuietSafe

\* The steps that change one released job's state and result: MarkVerified, Ack and Report.
LEMMA StateChangeSafe ==
    ASSUME QueueIInv, NEW j \in Jobs, NEW s \in Gated, NEW r \in Statuses \cup {None},
           mem[j].state \in Gated, Stage(mem[j].state) < Stage(s),
           mem' = [mem EXCEPT ![j].state = s, ![j].result = r],
           Saves(mem') \/ SaveFails,
           UNCHANGED <<clock, observations>>
    PROVE  QueueIInv'
<1>1. QueueTypeOK
  BY DEF QueueIInv
<1>2. ASSUME NEW k \in Jobs
      PROVE  Quiet(k)
  <2>1. mem[k] \in JobType
    BY <1>1 DEF QueueTypeOK
  <2>2. CASE k # j
    BY <1>1, <2>1, <2>2 DEF Quiet, Advances, QueueTypeOK
  <2>3. CASE k = j
    <3>1. mem'[k] = [mem[k] EXCEPT !.state = s, !.result = r]
      BY <1>1, <2>3 DEF QueueTypeOK
    <3>2. /\ mem'[k] = [mem[k] EXCEPT !.state = s, !.approvedBy = mem[k].approvedBy, !.result = r]
          /\ mem[k].approvedBy \in Operators \cup {None}
      BY <2>1, <3>1 DEF JobType
    <3>3. s \in JobStates \ {"ABSENT", "PENDING_APPROVAL"} /\ Present(mem[k])
      BY <2>3 DEF JobStates, TerminalStates, ReleasedStates, Gated, Present
    <3> QED  BY <2>1, <2>3, <3>2, <3>3, MovedIsQuiet
  <2> QED  BY <2>2, <2>3
<1>3. QuietStep
  BY <1>1, <1>2 DEF QuietStep, Saves, SaveFails, QueueTypeOK, observations
<1> QED  BY <1>3, QuietSafe

LEMMA OneFieldIsTwo ==
    ASSUME QueueTypeOK, NEW j \in Jobs, NEW s
    PROVE  [mem EXCEPT ![j].state = s] = [mem EXCEPT ![j].state = s, ![j].result = mem[j].result]
<1> DEFINE one == [mem EXCEPT ![j].state = s]
           two == [mem EXCEPT ![j].state = s, ![j].result = mem[j].result]
<1>1. mem[j] = [mem[j] EXCEPT !.result = mem[j].result]
  BY DEF QueueTypeOK, JobType
<1>2. one[j] = two[j]
  BY DEF QueueTypeOK, JobType
<1>3. ASSUME NEW k \in Jobs PROVE one[k] = two[k]
  BY <1>2, <1>3 DEF QueueTypeOK
<1> QED  BY <1>3 DEF QueueTypeOK

LEMMA MarkVerifiedSafe == ASSUME QueueIInv, NEW j \in Jobs, MarkVerified(j) PROVE QueueIInv'
<1>1. mem' = [mem EXCEPT ![j].state = "VERIFIED", ![j].result = mem[j].result]
  BY OneFieldIsTwo DEF MarkVerified, QueueIInv
<1>2. mem[j].result \in Statuses \cup {None}
  BY DEF QueueIInv, QueueTypeOK, JobType
<1>3. Stage(mem[j].state) < Stage("VERIFIED") /\ mem[j].state \in Gated /\ "VERIFIED" \in Gated
  BY DEF MarkVerified, Stage, TerminalStates, Gated, ReleasedStates
<1> QED  BY <1>1, <1>2, <1>3, StateChangeSafe DEF MarkVerified

LEMMA AckSafe == ASSUME QueueIInv, NEW j \in Jobs, NEW a \in Agents, Ack(j, a) PROVE QueueIInv'
<1>1. mem' = [mem EXCEPT ![j].state = "ACKED", ![j].result = mem[j].result]
  BY OneFieldIsTwo DEF Ack, QueueIInv
<1>2. mem[j].result \in Statuses \cup {None}
  BY DEF QueueIInv, QueueTypeOK, JobType
<1>3. Stage(mem[j].state) < Stage("ACKED") /\ mem[j].state \in Gated /\ "ACKED" \in Gated
  BY DEF Ack, Stage, TerminalStates, Gated, ReleasedStates
<1> QED  BY <1>1, <1>2, <1>3, StateChangeSafe DEF Ack

LEMMA ReportSafe ==
    ASSUME QueueIInv, NEW j \in Jobs, NEW a \in Agents, NEW status \in Statuses, Report(j, a, status)
    PROVE  QueueIInv'
<1> DEFINE s == IF status = "applied" THEN "APPLIED" ELSE "FAILED"
<1>1. mem' = [mem EXCEPT ![j].state = s, ![j].result = status]
  <2>1. QueueTypeOK
    BY DEF QueueIInv
  <2>2. mem' = [mem EXCEPT ![j].result = status, ![j].state = s]
    BY DEF Report
  <2> QED  BY <2>1, <2>2 DEF QueueTypeOK, JobType
<1>2. Stage(mem[j].state) < Stage(s) /\ mem[j].state \in Gated /\ s \in Gated
  BY DEF Report, Reportable, Stage, TerminalStates, Gated, ReleasedStates
<1> QED  BY <1>1, <1>2, StateChangeSafe DEF Report

LEMMA StillIsQuiet == ASSUME QueueIInv, mem' = mem PROVE \A j \in Jobs : Quiet(j)
  BY DEF QueueIInv, QueueTypeOK, Quiet, Advances

LEMMA TickSafe == ASSUME QueueIInv, Tick PROVE QueueIInv'
<1>1. clock' \in 1 .. MaxClock
  BY QueueAssumption DEF Tick, QueueIInv, QueueTypeOK
<1>2. QuietStep
  BY <1>1, StillIsQuiet DEF QuietStep, Tick, QueueIInv, QueueTypeOK, observations
<1> QED  BY <1>2, QuietSafe

LEMMA QuietPollSafe ==
    ASSUME QueueIInv, NEW a \in Agents, PollEmpty(a) \/ PollReverts(a)
    PROVE  QueueIInv'
<1>1. mem' = Swept(a) /\ (disk' = mem' \/ disk' = disk) /\ UNCHANGED <<clock, observations>>
  BY DEF PollEmpty, PollReverts, Saves, SaveFails
<1>2. QuietStep
  BY <1>1, SweptIsQuiet DEF QuietStep, Swept, QueueIInv, QueueTypeOK, observations
<1> QED  BY <1>2, QuietSafe

---------------------------------------------------------------------------
(* The other steps: what they changed is in the file *)

LEMMA HandedInMemory ==
    ASSUME QueueIInv, NEW j \in handed
    PROVE  mem[j].state \notin {"PENDING_APPROVAL", "APPROVED"}
<1>1. j \in Jobs /\ Advances(disk[j].state, mem[j].state)
  BY DEF QueueIInv, QueueTypeOK, DiskBehindMemory
<1>2. disk[j].state \notin {"PENDING_APPROVAL", "APPROVED"}
  BY DEF QueueIInv, HandedIsDurable
<1> QED  BY <1>1, <1>2 DEF Advances, Stage, TerminalStates

\* When memory and file agree, the invariant says of one map what is left to show.
LEMMA SavedSafe ==
    ASSUME QueueIInv, disk' = mem', mem' \in [Jobs -> JobType],
           clock' = clock, drawn' \subseteq Jobs, approved' \subseteq OrderType,
           rejected' = rejected, handed' \subseteq drawn',
           \A j \in Jobs :
              /\ mem'[j].state \in Gated =>
                     mem'[j].signature = Canonical(j, mem'[j]) /\ mem'[j].signature \in approved'
              /\ mem'[j].state = "PENDING_APPROVAL" => mem'[j].signature = None
              /\ Present(mem'[j]) => j \in drawn' /\ mem'[j].agent # None
              /\ j \in handed' => mem'[j].state \notin {"PENDING_APPROVAL", "APPROVED"}
    PROVE  QueueIInv'
<1>1. QueueTypeOK'
  BY DEF QueueIInv, QueueTypeOK
<1>2. GateHolds(mem)' /\ GateHolds(disk)'
  BY DEF GateHolds, Canonical, Gated
<1>3. HandedIsDurable'
  BY <1>1 DEF QueueTypeOK, HandedIsDurable
<1>4. DiskBehindMemory' /\ DiskKeepsTerms'
  BY DEF DiskBehindMemory, DiskKeepsTerms, Advances, Terms, Present
<1>5. DrawnFirst' /\ Owned'
  BY DEF DrawnFirst, Owned, Present
<1> QED  BY <1>1, <1>2, <1>3, <1>4, <1>5 DEF QueueIInv, ApprovalGate

\* What the invariant says of a job in memory, in the form SavedSafe asks for.
LEMMA JobFacts ==
    ASSUME QueueIInv, NEW j \in Jobs
    PROVE  /\ mem[j] \in JobType
           /\ mem[j].state \in Gated =>
                  mem[j].signature = Canonical(j, mem[j]) /\ mem[j].signature \in approved
           /\ mem[j].state = "PENDING_APPROVAL" => mem[j].signature = None
           /\ Present(mem[j]) => j \in drawn /\ mem[j].agent # None
           /\ j \in handed => mem[j].state \notin {"PENDING_APPROVAL", "APPROVED"}
<1>1. mem[j] \in JobType
  BY DEF QueueIInv, QueueTypeOK
<1>2. GateHolds(mem) /\ DrawnFirst /\ Owned
  BY DEF QueueIInv, ApprovalGate
<1> QED  BY <1>1, <1>2, HandedInMemory DEF GateHolds, DrawnFirst, Owned, Gated

LEMMA EnqueueSafe ==
    ASSUME QueueIInv, NEW j \in Jobs, NEW a \in Agents, NEW life \in Lifetimes, NEW w \in Windows,
           Enqueue(j, a, life, w)
    PROVE  QueueIInv'
<1> DEFINE job == [NoJob EXCEPT !.state = "PENDING_APPROVAL", !.agent = a, !.window = w,
                                !.createdAt = clock, !.expiresAt = clock + life]
<1>1. CASE mem' = Reaped(mem) /\ SaveFails /\ drawn' = drawn
  <2>1. QuietStep
    BY <1>1, ReapedIsQuiet DEF QuietStep, Enqueue, Reaped, SaveFails, QueueIInv, QueueTypeOK
  <2> QED  BY <2>1, QuietSafe
<1>2. CASE mem' = [Reaped(mem) EXCEPT ![j] = job] /\ Saves(mem') /\ drawn' = drawn \cup {j}
  <2>1. clock \in Nat /\ life \in Nat /\ w \in WindowType
    BY QueueAssumption DEF QueueIInv, QueueTypeOK
  <2>2. /\ job \in JobType /\ job.state = "PENDING_APPROVAL"
        /\ job.signature = None /\ job.agent # None
    <3>1. NoJob \in JobType /\ NoJob.signature = None
      BY NoJobIsAJob DEF NoJob
    <3>2. clock + life \in Nat /\ "PENDING_APPROVAL" \in JobStates /\ a # None
      BY <2>1, QueueAssumption DEF JobStates
    <3> QED  BY <2>1, <3>1, <3>2 DEF JobType
  <2>3. mem'[j] = job /\ j \notin handed
    BY <1>2 DEF Reaped, Enqueue, QueueIInv, DrawnFirst
  <2>4. ASSUME NEW k \in Jobs, k # j
        PROVE  mem'[k] = mem[k] \/ mem'[k] = NoJob
    BY <1>2, <2>4 DEF Reaped
  <2>5. NoJob.state = "ABSENT" /\ "ABSENT" \notin Gated /\ "PENDING_APPROVAL" \notin Gated
    BY DEF NoJob, Gated, ReleasedStates
  <2>6. \A k \in Jobs : mem'[k] \in JobType
    BY <2>2, <2>3, <2>4, NoJobIsAJob, JobFacts
  <2>7. mem' \in [Jobs -> JobType]
    BY <1>2, <2>6 DEF Reaped
  <2>8. ASSUME NEW k \in Jobs
        PROVE  /\ mem'[k].state \in Gated =>
                      mem'[k].signature = Canonical(k, mem'[k]) /\ mem'[k].signature \in approved
               /\ mem'[k].state = "PENDING_APPROVAL" => mem'[k].signature = None
               /\ Present(mem'[k]) => k \in drawn' /\ mem'[k].agent # None
               /\ k \in handed => mem'[k].state \notin {"PENDING_APPROVAL", "APPROVED"}
    <3>1. CASE k = j
      BY <3>1, <2>2, <2>3, <2>5, <1>2
    <3>2. CASE mem'[k] = mem[k] /\ k # j
      BY <3>2, <1>2, JobFacts
    <3>3. CASE mem'[k] = NoJob /\ k # j
      BY <3>3, <2>5 DEF Present
    <3> QED  BY <3>1, <3>2, <3>3, <2>4
  <2>9. /\ clock' = clock /\ approved' = approved /\ rejected' = rejected /\ handed' = handed
        /\ drawn' \subseteq Jobs /\ handed' \subseteq drawn' /\ disk' = mem'
        /\ approved' \subseteq OrderType
    BY <1>2 DEF Enqueue, QueueIInv, QueueTypeOK, DrawnFirst, Saves
  <2> QED  BY <2>7, <2>8, <2>9, SavedSafe
<1> QED  BY <1>1, <1>2 DEF Enqueue

LEMMA ApproveSafe ==
    ASSUME QueueIInv, NEW j \in Jobs, NEW o \in Operators, Approve(j, o)
    PROVE  QueueIInv'
<1> DEFINE signed == [mem[j] EXCEPT !.state = "APPROVED", !.approvedBy = o, !.issuedAt = clock]
           order == Canonical(j, signed)
           job == [signed EXCEPT !.signature = order]
<1>0. /\ mem[j] \in JobType /\ mem[j].agent \in Agents /\ j \in drawn /\ j \notin handed
      /\ clock \in Nat /\ mem \in [Jobs -> JobType]
  <2>1. mem[j].state = "PENDING_APPROVAL" /\ Present(mem[j])
    BY DEF Approve, Present
  <2>2. mem[j].agent \in Agents \cup {None}
    BY JobFacts DEF JobType
  <2>3. clock \in Nat /\ mem \in [Jobs -> JobType]
    BY DEF QueueIInv, QueueTypeOK
  <2> QED  BY <2>1, <2>2, <2>3, JobFacts
<1>1. CASE mem' = mem /\ SaveFails /\ approved' = approved
  <2>1. QuietStep
    BY <1>1, StillIsQuiet DEF QuietStep, Approve, SaveFails, QueueIInv, QueueTypeOK
  <2> QED  BY <2>1, QuietSafe
<1>2. CASE mem' = [mem EXCEPT ![j] = job] /\ Saves(mem') /\ approved' = approved \cup {order}
  <2>1. /\ signed.agent = mem[j].agent /\ signed.window = mem[j].window
        /\ signed.expiresAt = mem[j].expiresAt /\ signed.issuedAt = clock
        /\ signed.approvedBy = o /\ signed \in JobType /\ signed.state = "APPROVED"
    BY <1>0 DEF JobType, JobStates, ReleasedStates
  <2>2. order \in OrderType
    <3>1. order = [job |-> j, agent |-> mem[j].agent, window |-> mem[j].window,
                   expiresAt |-> mem[j].expiresAt, issuedAt |-> clock, approvedBy |-> o]
      BY <2>1 DEF Canonical
    <3>2. mem[j].window \in WindowType /\ mem[j].expiresAt \in Nat
      BY <1>0 DEF JobType
    <3> HIDE DEF order
    <3> QED  BY <1>0, <3>1, <3>2 DEF OrderType
  <2>3. /\ job \in JobType /\ job.state = "APPROVED" /\ job.signature = order
        /\ job.agent = mem[j].agent /\ Canonical(j, job) = order
    <3> HIDE DEF signed
    <3>1. order = [job |-> j, agent |-> signed.agent, window |-> signed.window,
                   expiresAt |-> signed.expiresAt, issuedAt |-> signed.issuedAt,
                   approvedBy |-> signed.approvedBy]
      BY DEF Canonical
    <3>2. job \in JobType /\ job.state = "APPROVED" /\ job.signature = order
      <4> HIDE DEF order
      <4> QED  BY <2>1, <2>2 DEF JobType
    <3>3. /\ job.agent = signed.agent /\ job.window = signed.window
          /\ job.expiresAt = signed.expiresAt /\ job.issuedAt = signed.issuedAt
          /\ job.approvedBy = signed.approvedBy
      <4> HIDE DEF order
      <4> QED  BY <2>1 DEF JobType
    <3>4. Canonical(j, job) = order
      <4> HIDE DEF job
      <4> QED  BY <3>1, <3>3 DEF Canonical
    <3> QED  BY <2>1, <3>2, <3>3, <3>4
  <2>4. mem'[j] = job /\ \A k \in Jobs : k # j => mem'[k] = mem[k]
    BY <1>2, <1>0
  <2> HIDE DEF job, order
  <2>5. mem' \in [Jobs -> JobType]
    BY <1>2, <1>0, <2>3
  <2>6. ASSUME NEW k \in Jobs
        PROVE  /\ mem'[k].state \in Gated =>
                      mem'[k].signature = Canonical(k, mem'[k]) /\ mem'[k].signature \in approved'
               /\ mem'[k].state = "PENDING_APPROVAL" => mem'[k].signature = None
               /\ Present(mem'[k]) => k \in drawn /\ mem'[k].agent # None
               /\ k \in handed => mem'[k].state \notin {"PENDING_APPROVAL", "APPROVED"}
    <3>1. CASE k = j
      BY <3>1, <2>3, <2>4, <1>0, <1>2, QueueAssumption
    <3>2. CASE k # j
      BY <3>2, <1>2, <2>4, JobFacts
    <3> QED  BY <3>1, <3>2
  <2>7. /\ clock' = clock /\ rejected' = rejected /\ handed' = handed /\ drawn' = drawn
        /\ drawn' \subseteq Jobs /\ handed' \subseteq drawn' /\ disk' = mem'
        /\ approved' \subseteq OrderType
    BY <1>2, <2>2 DEF Approve, QueueIInv, QueueTypeOK, DrawnFirst, Saves
  <2> QED  BY <2>5, <2>6, <2>7, SavedSafe
<1> QED  BY <1>1, <1>2 DEF Approve

LEMMA PollDeliversSafe ==
    ASSUME QueueIInv, NEW a \in Agents, NEW j \in Jobs, PollDelivers(a, j)
    PROVE  QueueIInv'
<1>1. /\ mem[j] \in JobType /\ mem[j].state \in {"APPROVED", "DELIVERED"}
      /\ Swept(a)[j] = mem[j] /\ clock \in Nat
  BY DEF PollDelivers, Oldest, Eligible, Deliverable, Swept, QueueIInv, QueueTypeOK
<1>2. mem'[j] = [mem[j] EXCEPT !.state = "DELIVERED", !.deliveredAt = clock]
  BY <1>1 DEF PollDelivers, Swept
<1>3. /\ mem'[j] \in JobType /\ mem'[j].state = "DELIVERED"
      /\ mem'[j].signature = mem[j].signature /\ mem'[j].agent = mem[j].agent
      /\ Canonical(j, mem'[j]) = Canonical(j, mem[j])
  <2>1. /\ mem'[j] \in JobType /\ mem'[j].state = "DELIVERED"
        /\ mem'[j].signature = mem[j].signature /\ mem'[j].agent = mem[j].agent
        /\ mem'[j].window = mem[j].window /\ mem'[j].expiresAt = mem[j].expiresAt
        /\ mem'[j].issuedAt = mem[j].issuedAt /\ mem'[j].approvedBy = mem[j].approvedBy
    BY <1>1, <1>2 DEF JobType, JobStates, ReleasedStates
  <2> QED  BY <2>1 DEF Canonical
<1>4. ASSUME NEW k \in Jobs, k # j
      PROVE  \/ mem'[k] = mem[k]
             \/ mem'[k] = [mem[k] EXCEPT !.state = "EXPIRED"] /\ Live(mem[k])
  <2>1. mem'[k] = Swept(a)[k]
    BY <1>4 DEF PollDelivers, Swept
  <2>2. CASE mem[k].agent = a /\ Live(mem[k]) /\ Expired(mem[k])
    BY <2>1, <2>2 DEF Swept
  <2>3. CASE ~(mem[k].agent = a /\ Live(mem[k]) /\ Expired(mem[k]))
    BY <2>1, <2>3 DEF Swept
  <2> QED  BY <2>2, <2>3
<1>5. ASSUME NEW k \in Jobs
      PROVE  /\ mem'[k] \in JobType
             /\ mem'[k].state \in Gated =>
                    mem'[k].signature = Canonical(k, mem'[k]) /\ mem'[k].signature \in approved
             /\ mem'[k].state = "PENDING_APPROVAL" => mem'[k].signature = None
             /\ Present(mem'[k]) => k \in drawn /\ mem'[k].agent # None
             /\ k \in handed' => mem'[k].state \notin {"PENDING_APPROVAL", "APPROVED"}
  <2>1. CASE k = j
    <3>1. mem[j].state \in Gated /\ Present(mem[j])
      BY <1>1 DEF Gated, ReleasedStates, Present
    <3> QED  BY <2>1, <1>3, <3>1, JobFacts
  <2>2. CASE k # j /\ mem'[k] = mem[k]
    BY <2>2, JobFacts DEF PollDelivers
  <2>3. CASE k # j /\ mem'[k] = [mem[k] EXCEPT !.state = "EXPIRED"] /\ Live(mem[k])
    <3>1. mem'[k] \in JobType /\ mem'[k].state = "EXPIRED" /\ mem'[k].agent = mem[k].agent
      <4>1. mem[k] \in JobType
        BY JobFacts
      <4> QED  BY <4>1, <2>3 DEF JobType, JobStates, TerminalStates
    <3>2. "EXPIRED" \notin Gated
      BY DEF Gated, ReleasedStates
    <3> QED  BY <2>3, <3>1, <3>2, JobFacts DEF Live
  <2> QED  BY <1>4, <2>1, <2>2, <2>3
<1>6. mem' \in [Jobs -> JobType]
  BY <1>5 DEF PollDelivers, Swept
<1>7. /\ clock' = clock /\ rejected' = rejected /\ drawn' = drawn /\ approved' = approved
      /\ handed' \subseteq drawn' /\ disk' = mem' /\ drawn' \subseteq Jobs
      /\ approved' \subseteq OrderType
  <2>1. j \in drawn
    BY <1>1, JobFacts DEF Present
  <2> QED  BY <2>1 DEF PollDelivers, QueueIInv, QueueTypeOK, DrawnFirst, Saves
<1> QED  BY <1>5, <1>6, <1>7, SavedSafe

\* The file holds no released job without its signature, so a restart drops nothing.
LEMMA NothingIsDropped == ASSUME QueueIInv PROVE Loaded(disk) = disk
<1>1. ASSUME NEW j \in Jobs, disk[j].state \in ReleasedStates
      PROVE  disk[j].signature # None
  <2>1. disk[j].signature \in approved
    BY <1>1 DEF QueueIInv, ApprovalGate, GateHolds
  <2> QED  BY <2>1, QueueAssumption DEF QueueIInv, QueueTypeOK
<1> QED  BY <1>1 DEF Loaded, QueueIInv, QueueTypeOK

LEMMA RestartSafe == ASSUME QueueIInv, Restart PROVE QueueIInv'
<1>1. mem' = disk /\ disk' = disk /\ UNCHANGED <<clock, observations>>
  BY NothingIsDropped DEF Restart
<1>2. GateHolds(disk) /\ HandedIsDurable /\ DrawnFirst /\ Owned /\ QueueTypeOK
  BY DEF QueueIInv, ApprovalGate
<1> QED  BY <1>1, <1>2, SavedSafe
         DEF GateHolds, HandedIsDurable, DrawnFirst, Owned, QueueTypeOK, Gated, observations

---------------------------------------------------------------------------
(* The theorems *)

LEMMA Initial == QueueInit => QueueIInv
<1> SUFFICES ASSUME QueueInit PROVE QueueIInv
  OBVIOUS
<1>1. mem = [j \in Jobs |-> NoJob] /\ disk = mem /\ \A j \in Jobs : mem[j] = NoJob
  BY DEF QueueInit
<1>2. NoJob.state = "ABSENT"
  BY DEF NoJob
<1>3. QueueTypeOK
  BY <1>1, NoJobIsAJob, QueueAssumption DEF QueueTypeOK, QueueInit
<1>4. ApprovalGate
  BY <1>1, <1>2 DEF ApprovalGate, GateHolds, ReleasedStates
<1>5. DiskBehindMemory /\ DiskKeepsTerms /\ HandedIsDurable
  BY <1>1 DEF DiskBehindMemory, DiskKeepsTerms, HandedIsDurable, Advances, QueueInit
<1>6. DrawnFirst /\ Owned
  BY <1>1, <1>2 DEF DrawnFirst, Owned, Present, QueueInit
<1> QED  BY <1>3, <1>4, <1>5, <1>6 DEF QueueIInv

LEMMA Inductive == QueueIInv /\ [QueueNext]_queueVars => QueueIInv'
<1> SUFFICES ASSUME QueueIInv, [QueueNext]_queueVars PROVE QueueIInv'
  OBVIOUS
<1>1. CASE OperatorStep
  BY <1>1, EnqueueSafe, ApproveSafe, RejectSafe, MarkVerifiedSafe, ReapSafe DEF OperatorStep
<1>2. CASE AgentCall
  BY <1>2, QuietPollSafe, PollDeliversSafe, AckSafe, ReportSafe DEF AgentCall, Poll
<1>3. CASE Restart
  BY <1>3, RestartSafe
<1>4. CASE Tick
  BY <1>4, TickSafe
<1>5. CASE UNCHANGED queueVars
  <2>1. QuietStep
    BY <1>5, StillIsQuiet DEF QuietStep, queueVars, QueueIInv, QueueTypeOK
  <2> QED  BY <2>1, QuietSafe
<1> QED  BY <1>1, <1>2, <1>3, <1>4, <1>5 DEF QueueNext

\* The invariant everything below rests on.
THEOREM Invariant == QueueSpec => []QueueIInv
  BY Initial, Inductive, PTL DEF QueueSpec

\* Registry keeps well-formed jobs in memory and in its file, whatever is enqueued and whichever
\* saves fail.
THEOREM TypeCorrect == QueueSpec => []QueueTypeOK
<1>1. QueueIInv => QueueTypeOK
  BY DEF QueueIInv
<1> QED  BY <1>1, Invariant, PTL

\* Approve, Poll, Reject and the restart: a job past the gate is exactly what an operator signed.
THEOREM GateIsKept == QueueSpec => []ApprovalGate
<1>1. QueueIInv => ApprovalGate
  BY DEF QueueIInv
<1> QED  BY <1>1, Invariant, PTL

\* saveLocked's callers: the file is a less advanced copy of the memory, in the same terms.
THEOREM FileFollowsMemory == QueueSpec => [](DiskBehindMemory /\ DiskKeepsTerms)
<1>1. QueueIInv => DiskBehindMemory /\ DiskKeepsTerms
  BY DEF QueueIInv
<1> QED  BY <1>1, Invariant, PTL

\* Poll: no restart makes a job that an agent was given look undelivered.
THEOREM DeliveryIsDurable == QueueSpec => []HandedIsDurable
<1>1. QueueIInv => HandedIsDurable
  BY DEF QueueIInv
<1> QED  BY <1>1, Invariant, PTL

\* Poll never delivers a job whose end the file holds.
THEOREM ClosedStaysClosed == QueueSpec => ClosedNeverDelivered
<1>1. ASSUME QueueIInv
      PROVE  \A j \in Jobs : Terminal(disk[j]) => ~Delivers(j)
  <2> SUFFICES ASSUME NEW j \in Jobs, Terminal(disk[j])
               PROVE  ~Deliverable(mem[j])
    BY DEF Delivers, PollDelivers, Oldest, Eligible
  <2>1. Advances(disk[j].state, mem[j].state)
    BY <1>1 DEF QueueIInv, DiskBehindMemory
  <2> QED  BY <2>1 DEF Advances, Stage, Terminal, TerminalStates, Deliverable
<1> QED  BY <1>1, Invariant, PTL DEF ClosedNeverDelivered

---------------------------------------------------------------------------
(* What a step does to one job *)

\* A job goes on by one of the code's transitions and keeps its host and its result.
Goes(j) ==
    /\ mem'[j].agent = mem[j].agent /\ mem'[j].result = mem[j].result
    /\ \/ mem[j].state = "PENDING_APPROVAL" /\ mem'[j].state = "APPROVED"
       \/ mem[j].state \in {"APPROVED", "DELIVERED"} /\ mem'[j].state = "DELIVERED"
       \/ mem[j].state = "DELIVERED" /\ mem'[j].state = "ACKED"
       \/ mem[j].state = "APPLIED" /\ mem'[j].state = "VERIFIED"
       \/ Live(mem[j]) /\ mem'[j].state \in {"EXPIRED", "REJECTED"}

Appears(j) == j \notin drawn /\ mem'[j].state = "PENDING_APPROVAL" /\ mem'[j].result = None

Vanishes(j) == Terminal(mem[j]) /\ mem'[j] = NoJob

\* The file takes the new map or keeps the old one.
Persists == disk' = mem' \/ disk' = disk

PlainStep ==
    /\ Persists
    /\ \A j \in Jobs : mem'[j] = mem[j] \/ Goes(j) \/ Appears(j) \/ Vanishes(j)

\* A report gives the job of its agent the result, and the state that goes with it.
AnswerStep(j, a, status) ==
    /\ Persists
    /\ mem[j].state \in {"DELIVERED", "ACKED"}
    /\ mem[j].agent = a /\ mem'[j].agent = a
    /\ mem'[j].result = status
    /\ mem'[j].state = IF status = "applied" THEN "APPLIED" ELSE "FAILED"
    /\ \A k \in Jobs \ {j} : mem'[k] = mem[k]

\* A result comes with the report, so that no earlier state has one, and a fix that is recorded
\* or verified has the result it stands for.
ResultsFit(jobs) ==
    \A j \in Jobs :
        /\ Stage(jobs[j].state) <= 4 \/ ~Present(jobs[j]) => jobs[j].result = None
        /\ jobs[j].state \in {"APPLIED", "VERIFIED"} => jobs[j].result = "applied"

QueueResults == ResultsFit(mem) /\ ResultsFit(disk)

LEMMA ReapedJob ==
    ASSUME NEW j \in Jobs, mem'[j] = Reaped(mem)[j]
    PROVE  mem'[j] = mem[j] \/ Vanishes(j)
  BY DEF Reaped, Vanishes

LEMMA SweptJob ==
    ASSUME QueueTypeOK, NEW a \in Agents, NEW j \in Jobs, mem'[j] = Swept(a)[j]
    PROVE  mem'[j] = mem[j] \/ Goes(j)
<1>1. mem[j] \in JobType
  BY DEF QueueTypeOK
<1>2. CASE mem'[j] = [mem[j] EXCEPT !.state = "EXPIRED"] /\ Live(mem[j])
  BY <1>1, <1>2 DEF Goes, JobType
<1> QED  BY <1>2 DEF Swept

LEMMA OperatorMoves == ASSUME QueueIInv, OperatorStep PROVE PlainStep
<1>0. QueueTypeOK
  BY DEF QueueIInv
<1>1. ASSUME NEW j \in Jobs, NEW a \in Agents, NEW life \in Lifetimes, NEW w \in Windows,
             Enqueue(j, a, life, w)
      PROVE  PlainStep
  <2>1. Persists
    BY <1>1 DEF Enqueue, Saves, SaveFails, Persists
  <2>2. CASE mem' = Reaped(mem)
    BY <2>1, <2>2, ReapedJob DEF PlainStep
  <2>3. CASE mem' = [Reaped(mem) EXCEPT ![j] =
                        [NoJob EXCEPT !.state = "PENDING_APPROVAL", !.agent = a, !.window = w,
                                      !.createdAt = clock, !.expiresAt = clock + life]]
    <3>1. mem'[j].state = "PENDING_APPROVAL" /\ mem'[j].result = None
      BY <2>3 DEF Reaped, NoJob
    <3>2. Appears(j)
      BY <1>1, <3>1 DEF Enqueue, Appears
    <3>3. \A k \in Jobs : k # j => mem'[k] = Reaped(mem)[k]
      BY <2>3 DEF Reaped
    <3> QED  BY <2>1, <3>2, <3>3, ReapedJob DEF PlainStep
  <2> QED  BY <1>1, <2>2, <2>3 DEF Enqueue
<1>2. ASSUME NEW j \in Jobs, NEW o \in Operators, Approve(j, o)
      PROVE  PlainStep
  <2>1. Persists
    BY <1>2 DEF Approve, Saves, SaveFails, Persists
  <2>2. CASE mem' = mem
    BY <2>1, <2>2 DEF PlainStep
  <2>3. CASE mem' # mem
    <3> DEFINE order == Canonical(j, [mem[j] EXCEPT !.state = "APPROVED", !.approvedBy = o,
                                                    !.issuedAt = clock])
    <3>1. mem' = [mem EXCEPT ![j] =
                    [[mem[j] EXCEPT !.state = "APPROVED", !.approvedBy = o, !.issuedAt = clock]
                        EXCEPT !.signature = order]]
      BY <1>2, <2>3 DEF Approve
    <3> HIDE DEF order
    <3>2. Goes(j)
      <4>1. mem[j] \in JobType /\ mem[j].state = "PENDING_APPROVAL"
        BY <1>0, <1>2 DEF QueueTypeOK, Approve
      <4>2. mem'[j] = [[mem[j] EXCEPT !.state = "APPROVED", !.approvedBy = o, !.issuedAt = clock]
                          EXCEPT !.signature = order]
        BY <1>0, <3>1 DEF QueueTypeOK
      <4> QED  BY <4>1, <4>2 DEF Goes, JobType
    <3>3. \A k \in Jobs : k # j => mem'[k] = mem[k]
      BY <1>0, <3>1 DEF QueueTypeOK
    <3> QED  BY <2>1, <3>2, <3>3 DEF PlainStep
  <2> QED  BY <2>2, <2>3
<1>3. ASSUME NEW j \in Jobs, NEW o \in Operators, Reject(j, o)
      PROVE  PlainStep
  <2>1. Persists
    BY <1>3 DEF Reject, Saves, SaveFails, Persists
  <2>2. CASE mem' = mem
    BY <2>1, <2>2 DEF PlainStep
  <2>3. CASE Live(mem[j]) /\ mem' = [mem EXCEPT ![j].state = "REJECTED", ![j].approvedBy = o]
    <3>1. mem[j] \in JobType /\ mem'[j] = [mem[j] EXCEPT !.state = "REJECTED", !.approvedBy = o]
      BY <1>0, <2>3 DEF QueueTypeOK
    <3>2. /\ mem'[j].state = "REJECTED" /\ mem'[j].agent = mem[j].agent
          /\ mem'[j].result = mem[j].result
      BY <3>1 DEF JobType
    <3>3. \A k \in Jobs : k # j => mem'[k] = mem[k]
      BY <1>0, <2>3 DEF QueueTypeOK
    <3> QED  BY <2>1, <2>3, <3>2, <3>3 DEF PlainStep, Goes
  <2> QED  BY <1>3, <2>2, <2>3 DEF Reject, Live
<1>4. ASSUME NEW j \in Jobs, MarkVerified(j)
      PROVE  PlainStep
  <2>1. mem[j] \in JobType /\ mem'[j] = [mem[j] EXCEPT !.state = "VERIFIED"]
    BY <1>0, <1>4 DEF QueueTypeOK, MarkVerified
  <2>2. Goes(j)
    BY <1>4, <2>1 DEF Goes, JobType, MarkVerified
  <2>3. Persists /\ \A k \in Jobs : k # j => mem'[k] = mem[k]
    BY <1>0, <1>4 DEF QueueTypeOK, MarkVerified, Saves, SaveFails, Persists
  <2> QED  BY <2>2, <2>3 DEF PlainStep
<1>5. CASE Reap
  BY <1>5, ReapedJob DEF Reap, PlainStep, Saves, SaveFails, Persists
<1> QED  BY <1>1, <1>2, <1>3, <1>4, <1>5 DEF OperatorStep

LEMMA PollMoves ==
    ASSUME QueueIInv, NEW a \in Agents, Poll(a)
    PROVE  PlainStep
<1>0. QueueTypeOK
  BY DEF QueueIInv
<1>1. CASE mem' = Swept(a) /\ Persists
  BY <1>0, <1>1, SweptJob DEF PlainStep
<1>2. ASSUME NEW j \in Jobs, PollDelivers(a, j)
      PROVE  PlainStep
  <2>1. mem[j] \in JobType /\ mem[j].state \in {"APPROVED", "DELIVERED"} /\ Swept(a)[j] = mem[j]
    BY <1>0, <1>2 DEF PollDelivers, Oldest, Eligible, Deliverable, Swept, QueueTypeOK
  <2>2. mem'[j] = [mem[j] EXCEPT !.state = "DELIVERED", !.deliveredAt = clock]
    BY <1>2, <2>1 DEF PollDelivers, Swept
  <2>3. Goes(j)
    BY <2>1, <2>2 DEF Goes, JobType
  <2>4. Persists /\ \A k \in Jobs : k # j => mem'[k] = Swept(a)[k]
    BY <1>2 DEF PollDelivers, Swept, Saves, Persists
  <2> QED  BY <1>0, <2>3, <2>4, SweptJob DEF PlainStep
<1> QED  BY <1>1, <1>2 DEF Poll, PollEmpty, PollReverts, Saves, SaveFails, Persists

LEMMA AckMoves ==
    ASSUME QueueIInv, NEW j \in Jobs, NEW a \in Agents, Ack(j, a)
    PROVE  PlainStep
<1>1. mem \in [Jobs -> JobType]
  BY DEF QueueIInv, QueueTypeOK
<1>2. mem[j] \in JobType /\ mem'[j] = [mem[j] EXCEPT !.state = "ACKED"]
  BY <1>1 DEF Ack
<1>3. Goes(j)
  BY <1>2 DEF Goes, JobType, Ack
<1>4. Persists /\ \A k \in Jobs : k # j => mem'[k] = mem[k]
  BY <1>1 DEF Ack, Saves, SaveFails, Persists
<1> QED  BY <1>3, <1>4 DEF PlainStep

LEMMA ReportMoves ==
    ASSUME QueueIInv, NEW j \in Jobs, NEW a \in Agents, NEW status, Report(j, a, status)
    PROVE  AnswerStep(j, a, status)
<1> DEFINE s == IF status = "applied" THEN "APPLIED" ELSE "FAILED"
<1>1. mem \in [Jobs -> JobType] /\ mem[j] \in JobType
  BY DEF QueueIInv, QueueTypeOK
<1>2. mem' = [mem EXCEPT ![j].result = status, ![j].state = s]
  BY DEF Report
<1> HIDE DEF s
<1>3. mem'[j].result = status /\ mem'[j].state = s /\ mem'[j].agent = mem[j].agent
  BY <1>1, <1>2 DEF JobType
<1>4. \A k \in Jobs \ {j} : mem'[k] = mem[k]
  BY <1>1, <1>2
<1> QED  BY <1>3, <1>4 DEF s, AnswerStep, Report, Reportable, Saves, SaveFails, Persists

LEMMA PlainKeepsResults == ASSUME QueueResults, PlainStep PROVE QueueResults'
<1>1. ASSUME NEW j \in Jobs
      PROVE  /\ Stage(mem'[j].state) <= 4 \/ ~Present(mem'[j]) => mem'[j].result = None
             /\ mem'[j].state \in {"APPLIED", "VERIFIED"} => mem'[j].result = "applied"
  <2>1. /\ Stage(mem[j].state) <= 4 \/ ~Present(mem[j]) => mem[j].result = None
        /\ mem[j].state \in {"APPLIED", "VERIFIED"} => mem[j].result = "applied"
    BY DEF QueueResults, ResultsFit
  <2>2. CASE Goes(j)
    BY <2>1, <2>2 DEF Goes, Stage, TerminalStates, Present, Live
  <2>3. CASE Appears(j)
    BY <2>3 DEF Appears
  <2>4. CASE Vanishes(j)
    BY <2>4 DEF Vanishes, NoJob
  <2> QED  BY <2>1, <2>2, <2>3, <2>4 DEF PlainStep
<1>2. ResultsFit(mem')
  BY <1>1 DEF ResultsFit, Stage
<1> QED  BY <1>2 DEF QueueResults, PlainStep, Persists, ResultsFit, Stage

LEMMA AnswerKeepsResults ==
    ASSUME QueueResults, NEW j \in Jobs, NEW a, NEW status \in Statuses, AnswerStep(j, a, status)
    PROVE  QueueResults'
<1>1. ASSUME NEW k \in Jobs
      PROVE  /\ Stage(mem'[k].state) <= 4 \/ ~Present(mem'[k]) => mem'[k].result = None
             /\ mem'[k].state \in {"APPLIED", "VERIFIED"} => mem'[k].result = "applied"
  <2>1. CASE k = j
    BY <2>1 DEF AnswerStep, Stage, TerminalStates, Present
  <2>2. CASE k # j
    BY <2>2 DEF QueueResults, ResultsFit, AnswerStep
  <2> QED  BY <2>1, <2>2
<1>2. ResultsFit(mem')
  BY <1>1 DEF ResultsFit, Stage
<1> QED  BY <1>2 DEF QueueResults, AnswerStep, Persists, ResultsFit, Stage

LEMMA RestartKeepsResults == ASSUME QueueIInv, QueueResults, Restart PROVE QueueResults'
<1>1. mem' = disk /\ disk' = disk
  BY NothingIsDropped DEF Restart
<1> QED  BY <1>1 DEF QueueResults, ResultsFit, Stage

\* Every step of the queue is one of these.
LEMMA StepMoves ==
    ASSUME QueueIInv, [QueueNext]_queueVars
    PROVE  \/ PlainStep
           \/ \E j \in Jobs, a \in Agents, status \in Statuses : AnswerStep(j, a, status)
           \/ Restart
<1>1. CASE Tick \/ UNCHANGED queueVars
  BY <1>1 DEF Tick, queueVars, PlainStep, Persists
<1>2. CASE AgentCall
  BY <1>2, PollMoves, AckMoves, ReportMoves DEF AgentCall
<1> QED  BY <1>1, <1>2, OperatorMoves DEF QueueNext

LEMMA InitialResults == QueueInit => QueueResults
  BY DEF QueueInit, QueueResults, ResultsFit, NoJob, Stage, TerminalStates

LEMMA ResultsInductive ==
    QueueIInv /\ QueueResults /\ [QueueNext]_queueVars => QueueResults'
  BY StepMoves, PlainKeepsResults, AnswerKeepsResults, RestartKeepsResults

\* Any method, while the process lives: jobs only move forward, an end is never exchanged, and
\* Report overwrites no result.
THEOREM JobsMoveForward == QueueSpec => ForwardOnly
<1>1. ASSUME QueueIInv, QueueResults, [QueueNext]_queueVars
      PROVE  [\/ mem' = Loaded(disk)
              \/ \A j \in drawn :
                    /\ Advances(mem[j].state, mem'[j].state)
                    /\ mem[j].result # None =>
                           mem'[j].result = mem[j].result \/ ~Present(mem'[j])]_queueVars
  <2>0. drawn \subseteq Jobs
    BY <1>1 DEF QueueIInv, QueueTypeOK
  <2>1. CASE PlainStep
    <3> SUFFICES ASSUME NEW j \in drawn
                 PROVE  /\ Advances(mem[j].state, mem'[j].state)
                        /\ mem'[j].result = mem[j].result \/ ~Present(mem'[j])
      OBVIOUS
    <3>1. CASE mem'[j] = mem[j]
      BY <3>1 DEF Advances
    <3>2. CASE Goes(j)
      <4>1. mem[j].state \in JobStates
        BY <1>1, <2>0 DEF QueueIInv, QueueTypeOK, JobType
      <4>2. CASE Live(mem[j]) /\ mem'[j].state \in {"EXPIRED", "REJECTED"}
        <5>1. Stage(mem[j].state) < Stage(mem'[j].state)
          BY <4>1, <4>2, LiveIsBeforeTheEnds DEF TerminalStates
        <5> QED  BY <3>2, <5>1 DEF Advances, Goes
      <4> QED  BY <3>2, <4>2 DEF Goes, Advances, Stage, TerminalStates
    <3>3. CASE Vanishes(j)
      BY <3>3 DEF Vanishes, NoJob, Present, Advances, Stage, Terminal, TerminalStates
    <3> QED  BY <2>0, <2>1, <3>1, <3>2, <3>3 DEF PlainStep, Appears
  <2>2. ASSUME NEW j \in Jobs, NEW a \in Agents, NEW status \in Statuses, AnswerStep(j, a, status)
        PROVE  \A k \in drawn :
                    /\ Advances(mem[k].state, mem'[k].state)
                    /\ mem[k].result # None => mem'[k].result = mem[k].result
    <3>1. mem[j].result = None /\ Advances(mem[j].state, mem'[j].state)
      BY <1>1, <2>2 DEF AnswerStep, QueueResults, ResultsFit, Advances, Stage, TerminalStates
    <3>2. \A k \in Jobs \ {j} : mem'[k] = mem[k]
      BY <2>2 DEF AnswerStep
    <3> QED  BY <2>0, <3>1, <3>2 DEF Advances
  <2>3. CASE Restart
    BY <2>3 DEF Restart
  <2> QED  BY <1>1, <2>1, <2>2, <2>3, StepMoves
<1>2. QueueSpec => [](QueueIInv /\ QueueResults)
  BY Initial, Inductive, InitialResults, ResultsInductive, PTL DEF QueueSpec
<1> QED  BY <1>1, <1>2, PTL DEF QueueSpec, ForwardOnly

---------------------------------------------------------------------------
(* The queue with its agents: the invariant *)

Answering == {"applied", "ack", "report"}

\* The Runner holds a job from the fetch to the report; the status it is to report is one that
\* Apply answered, and "applied" stands for a change.
RunnerHolds ==
    \A a \in Agents :
        /\ runner[a].at # "idle" => runner[a].job \in Jobs
        /\ runner[a].at \in Answering => runner[a].status \in Statuses
        /\ runner[a].at \notin Answering => runner[a].status = None
        /\ runner[a].status = "applied" => effects[a][runner[a].job] > 0

\* A journal entry stands for a change, in memory and in the file.
JournalIsTrue == \A a \in Agents : \A j \in journal[a] \cup journalFile[a] : effects[a][j] > 0

\* The handler has changed the host and journal.record is still to come.
Recording(a, j) == runner[a].at = "applied" /\ runner[a].status = "applied" /\ runner[a].job = j

\* Every change but those forgotten is in the journal or about to be recorded, and a handler works
\* only on a job that the journal does not have.
Remembered ==
    \A a \in Agents :
        /\ \A j \in Jobs : j \notin journal[a] /\ ~Recording(a, j) => effects[a][j] <= forgotten[a][j]
        /\ \A j \in Jobs : effects[a][j] <= forgotten[a][j] + 1
        /\ runner[a].at \in {"applying", "applied"} => runner[a].job \notin journal[a]

\* What was approved left the gate for good, in memory and in the file, so that nothing is
\* approved twice.
ApprovedOnce ==
    \A order \in approved :
        /\ order.job \in drawn
        /\ mem[order.job].state # "PENDING_APPROVAL"
        /\ disk[order.job].state # "PENDING_APPROVAL"

\* What the Runner has verified, and has not finished, is an order for this host.
FetchedIsApproved ==
    \A a \in Agents :
        runner[a].at \in {"fetched", "applying"} =>
            \E order \in approved : /\ order.job = runner[a].job /\ order.agent = a
                                    /\ order.window = runner[a].window

SystemIInv ==
    /\ QueueIInv /\ QueueResults
    /\ SystemTypeOK
    /\ ResultsAreTrue
    /\ RunnerHolds
    /\ JournalIsTrue
    /\ Remembered
    /\ ApprovedOnce
    /\ FetchedIsApproved

---------------------------------------------------------------------------
(* The agents' steps *)

RunnerType == [at : {"idle", "fetched", "applying", "applied", "ack", "report"},
               job : Jobs \cup {None}, window : WindowType,
               status : {"applied", "failed", None}]

AgentInv == Agent!AgentTypeOK /\ RunnerHolds /\ JournalIsTrue /\ Remembered

LEMMA AgentTypes ==
    Agent!AgentTypeOK <=>
        /\ runner \in [Agents -> RunnerType]
        /\ journal \in [Agents -> SUBSET Jobs]
        /\ journalFile \in [Agents -> SUBSET Jobs]
        /\ effects \in [Agents -> [Jobs -> Nat]]
        /\ forgotten \in [Agents -> [Jobs -> Nat]]
        /\ stops \in 0 .. MaxStops
  BY DEF Agent!AgentTypeOK, RunnerType, WindowType

\* The place and the status of one Runner.
LEMMA RunnerAt ==
    ASSUME runner \in [Agents -> RunnerType], NEW a \in Agents, NEW at, NEW status,
           at \in {"idle", "fetched", "applying", "applied", "ack", "report"},
           status \in {"applied", "failed", None}
    PROVE  /\ [runner[a] EXCEPT !.at = at, !.status = status] \in RunnerType
           /\ [runner EXCEPT ![a].at = at, ![a].status = status] =
                  [runner EXCEPT ![a] = [runner[a] EXCEPT !.at = at, !.status = status]]
           /\ [runner EXCEPT ![a].at = at] =
                  [runner EXCEPT ![a] = [runner[a] EXCEPT !.at = at, !.status = runner[a].status]]
<1> DEFINE r == [runner[a] EXCEPT !.at = at, !.status = status]
<1>1. runner[a] \in RunnerType
  OBVIOUS
<1>2. r \in RunnerType
  BY <1>1 DEF RunnerType
<1>3. [runner EXCEPT ![a].at = at, ![a].status = status] = [runner EXCEPT ![a] = r]
  BY <1>1 DEF RunnerType
<1>4. [runner[a] EXCEPT !.at = at] = [runner[a] EXCEPT !.at = at, !.status = runner[a].status]
  BY <1>1 DEF RunnerType
<1>5. [runner EXCEPT ![a].at = at] = [runner EXCEPT ![a] = [runner[a] EXCEPT !.at = at]]
  BY <1>1
<1> QED  BY <1>2, <1>3, <1>4, <1>5

LEMMA IdleRunner ==
    /\ Agent!Idle \in RunnerType /\ Agent!Idle.at = "idle" /\ Agent!Idle.status = None
    /\ None # "applied"
  BY QueueAssumption DEF Agent!Idle, Agent!NoWindow, RunnerType, WindowType

\* A step of the Runner by itself, before or after the handler.
LEMMA RunnerStep ==
    ASSUME AgentInv, NEW a \in Agents, NEW r \in RunnerType,
           runner' = [runner EXCEPT ![a] = r],
           UNCHANGED <<journal, journalFile, effects, forgotten, stops>>,
           runner[a].at # "applied", r.at # "applied",
           r.at # "idle" => r.job \in Jobs,
           r.at \in Answering => r.status \in Statuses,
           r.at \notin Answering => r.status = None,
           r.status = "applied" => effects[a][r.job] > 0,
           r.at = "applying" => r.job \notin journal[a]
    PROVE  AgentInv'
<1>1. runner \in [Agents -> RunnerType] /\ runner' \in [Agents -> RunnerType]
  BY AgentTypes DEF AgentInv
<1>2. runner'[a] = r /\ \A b \in Agents : b # a => runner'[b] = runner[b]
  BY <1>1
<1>3. Agent!AgentTypeOK'
  BY <1>1, AgentTypes DEF AgentInv, Agent!AgentTypeOK, RunnerType, WindowType
<1>4. RunnerHolds'
  BY <1>2 DEF AgentInv, RunnerHolds
<1>5. JournalIsTrue'
  BY DEF AgentInv, JournalIsTrue
<1>6. Remembered'
  <2> SUFFICES ASSUME NEW b \in Agents
               PROVE  /\ \A j \in Jobs : j \notin journal[b] /\ ~Recording(b, j)' =>
                                             effects[b][j] <= forgotten[b][j]
                      /\ \A j \in Jobs : effects[b][j] <= forgotten[b][j] + 1
                      /\ runner'[b].at \in {"applying", "applied"} => runner'[b].job \notin journal[b]
    BY DEF Remembered
  <2>1. \A j \in Jobs : Recording(b, j)' <=> Recording(b, j)
    BY <1>2 DEF Recording
  <2>2. runner'[b].at \in {"applying", "applied"} => runner'[b].job \notin journal[b]
    BY <1>2 DEF AgentInv, Remembered
  <2> QED  BY <2>1, <2>2 DEF AgentInv, Remembered
<1> QED  BY <1>3, <1>4, <1>5, <1>6 DEF AgentInv

LEMMA ReceiveSafe ==
    ASSUME AgentInv, NEW a \in Agents, NEW j \in Jobs, NEW job, job.window \in WindowType,
           NEW now, Agent!Receive(a, j, job, now)
    PROVE  AgentInv'
<1>1. CASE runner' = runner
  BY <1>1 DEF Agent!Receive, Agent!hostVars, AgentInv, Agent!AgentTypeOK, RunnerHolds,
              JournalIsTrue, Remembered, Recording
<1>2. CASE runner' = [runner EXCEPT ![a] = [Agent!Idle EXCEPT !.at = "fetched", !.job = j,
                                                             !.window = job.window]]
  <2> DEFINE r == [Agent!Idle EXCEPT !.at = "fetched", !.job = j, !.window = job.window]
  <2>1. r \in RunnerType /\ r.at = "fetched" /\ r.job = j /\ r.status = None
    BY IdleRunner DEF RunnerType
  <2> HIDE DEF r
  <2> QED  BY <1>2, <2>1, IdleRunner, RunnerStep
           DEF Agent!Receive, Agent!hostVars, Answering, r
<1> QED  BY <1>1, <1>2 DEF Agent!Receive

\* Skip, Refuse and StartHandler, SendAck: the job stays, the place and the status change.
LEMMA PlaceStep ==
    ASSUME AgentInv, NEW a \in Agents, NEW at, NEW status, runner[a].at # "idle",
           runner[a].at # "applied",
           at \in {"fetched", "applying", "ack", "report"}, status \in {"applied", "failed", None},
           runner' = [runner EXCEPT ![a] = [runner[a] EXCEPT !.at = at, !.status = status]],
           UNCHANGED <<journal, journalFile, effects, forgotten, stops>>,
           at \in Answering => status \in Statuses,
           at \notin Answering => status = None,
           status = "applied" => effects[a][runner[a].job] > 0,
           at = "applying" => runner[a].job \notin journal[a]
    PROVE  AgentInv'
<1> DEFINE r == [runner[a] EXCEPT !.at = at, !.status = status]
<1>1. runner \in [Agents -> RunnerType] /\ runner[a] \in RunnerType /\ runner[a].job \in Jobs
  BY AgentTypes DEF AgentInv, RunnerHolds
<1>2. r \in RunnerType /\ r.at = at /\ r.job = runner[a].job /\ r.status = status
  BY <1>1 DEF RunnerType
<1> HIDE DEF r
<1>3. runner' = [runner EXCEPT ![a] = r]
  BY DEF r
<1> QED  BY <1>1, <1>2, <1>3, RunnerStep

LEMMA ToIdle ==
    ASSUME AgentInv, NEW a \in Agents, runner[a].at # "applied",
           runner' = [runner EXCEPT ![a] = Agent!Idle],
           UNCHANGED <<journal, journalFile, effects, forgotten, stops>>
    PROVE  AgentInv'
  BY IdleRunner, RunnerStep DEF Answering

LEMMA HandlerReturnsSafe ==
    ASSUME AgentInv, NEW a \in Agents, Agent!HandlerReturns(a)
    PROVE  AgentInv'
<1> DEFINE j == runner[a].job
<1>1. /\ runner \in [Agents -> RunnerType] /\ effects \in [Agents -> [Jobs -> Nat]]
      /\ runner[a].at = "applying" /\ j \in Jobs /\ j \notin journal[a]
      /\ forgotten \in [Agents -> [Jobs -> Nat]]
  BY AgentTypes DEF AgentInv, RunnerHolds, Remembered, Agent!HandlerReturns
<1>2. PICK status \in Statuses :
          /\ runner' = [runner EXCEPT ![a] = [runner[a] EXCEPT !.at = "applied", !.status = status]]
          /\ effects' = IF status = "applied" THEN [effects EXCEPT ![a][j] = @ + 1] ELSE effects
  BY <1>1, RunnerAt DEF Agent!HandlerReturns, Statuses
<1>3. UNCHANGED <<journal, journalFile, forgotten, stops>>
  BY DEF Agent!HandlerReturns
<1>4. /\ runner' \in [Agents -> RunnerType]
      /\ runner'[a].at = "applied" /\ runner'[a].status = status /\ runner'[a].job = j
      /\ \A b \in Agents : b # a => runner'[b] = runner[b]
  <2> DEFINE r == [runner[a] EXCEPT !.at = "applied", !.status = status]
  <2>1. r \in RunnerType /\ r.at = "applied" /\ r.status = status /\ r.job = j
    BY <1>1 DEF RunnerType, Statuses
  <2> HIDE DEF r
  <2>2. runner' = [runner EXCEPT ![a] = r]
    BY <1>2 DEF r
  <2> QED  BY <1>1, <2>1, <2>2
<1>5. /\ effects' \in [Agents -> [Jobs -> Nat]]
      /\ effects'[a][j] = IF status = "applied" THEN effects[a][j] + 1 ELSE effects[a][j]
      /\ \A b \in Agents, k \in Jobs : b # a \/ k # j => effects'[b][k] = effects[b][k]
  BY <1>1, <1>2
<1>6. \A b \in Agents, k \in Jobs : effects[b][k] > 0 => effects'[b][k] > 0
  BY <1>1, <1>5
<1>7. Agent!AgentTypeOK'
  BY <1>3, <1>4, <1>5, AgentTypes DEF AgentInv, Agent!AgentTypeOK, RunnerType, WindowType
<1>8. RunnerHolds'
  <2> SUFFICES ASSUME NEW b \in Agents
               PROVE  /\ runner'[b].at # "idle" => runner'[b].job \in Jobs
                      /\ runner'[b].at \in Answering => runner'[b].status \in Statuses
                      /\ runner'[b].at \notin Answering => runner'[b].status = None
                      /\ runner'[b].status = "applied" => effects'[b][runner'[b].job] > 0
    BY DEF RunnerHolds
  <2>1. CASE b = a
    BY <2>1, <1>1, <1>4, <1>5 DEF Answering
  <2>2. CASE b # a
    <3>1. runner[b].status = "applied" => runner[b].job \in Jobs
      BY IdleRunner DEF AgentInv, RunnerHolds, Answering
    <3> QED  BY <2>2, <1>4, <1>6, <3>1 DEF AgentInv, RunnerHolds
  <2> QED  BY <2>1, <2>2
<1>9. JournalIsTrue'
  <2>1. ASSUME NEW b \in Agents, NEW k \in journal[b] \cup journalFile[b]
        PROVE  k \in Jobs /\ effects[b][k] > 0
    BY AgentTypes DEF AgentInv, JournalIsTrue
  <2> QED  BY <1>3, <1>6, <2>1 DEF JournalIsTrue
<1>10. Remembered'
  <2> SUFFICES ASSUME NEW b \in Agents
               PROVE  /\ \A k \in Jobs : k \notin journal[b] /\ ~Recording(b, k)' =>
                                             effects'[b][k] <= forgotten[b][k]
                      /\ \A k \in Jobs : effects'[b][k] <= forgotten[b][k] + 1
                      /\ runner'[b].at \in {"applying", "applied"} => runner'[b].job \notin journal[b]
    BY <1>3 DEF Remembered
  <2>1. CASE b # a
    BY <2>1, <1>4, <1>5 DEF AgentInv, Remembered, Recording
  <2>2. CASE b = a
    <3>1. \A k \in Jobs : k \notin journal[a] => effects[a][k] <= forgotten[a][k]
      BY <1>1 DEF AgentInv, Remembered, Recording
    <3>2. \A k \in Jobs : effects[a][k] <= forgotten[a][k] + 1
      BY DEF AgentInv, Remembered
    <3>3. effects[a][j] \in Nat /\ forgotten[a][j] \in Nat
      BY <1>1
    <3>4. effects'[a][j] <= forgotten[a][j] + 1
      BY <1>1, <1>5, <3>1, <3>2, <3>3
    <3>5. ~Recording(a, j)' => effects'[a][j] <= forgotten[a][j]
      BY <1>1, <1>4, <1>5, <3>1 DEF Recording
    <3> QED  BY <2>2, <1>1, <1>4, <1>5, <3>1, <3>2, <3>4, <3>5
  <2> QED  BY <2>1, <2>2
<1> QED  BY <1>7, <1>8, <1>9, <1>10 DEF AgentInv

LEMMA RecordSafe ==
    ASSUME AgentInv, NEW a \in Agents, Agent!Record(a)
    PROVE  AgentInv'
<1> DEFINE j == runner[a].job
           s == runner[a].status
<1>1. /\ runner \in [Agents -> RunnerType] /\ journal \in [Agents -> SUBSET Jobs]
      /\ journalFile \in [Agents -> SUBSET Jobs] /\ runner[a].at = "applied"
      /\ j \in Jobs /\ s \in Statuses /\ j \notin journal[a]
      /\ s = "applied" => effects[a][j] > 0
  BY AgentTypes DEF AgentInv, RunnerHolds, Remembered, Answering, Agent!Record
<1>2. UNCHANGED <<effects, forgotten, stops>>
  BY DEF Agent!Record
<1>3. /\ runner' \in [Agents -> RunnerType] /\ runner'[a].at = "ack" /\ runner'[a].job = j
      /\ runner'[a].status = s /\ \A b \in Agents : b # a => runner'[b] = runner[b]
  <2> DEFINE r == [runner[a] EXCEPT !.at = "ack", !.status = s]
  <2>1. runner' = [runner EXCEPT ![a] = r]
    BY <1>1, RunnerAt DEF Agent!Record, Agent!Answers, Statuses
  <2>2. r \in RunnerType /\ r.at = "ack" /\ r.status = s /\ r.job = j
    BY <1>1 DEF RunnerType, Statuses
  <2> HIDE DEF r
  <2> QED  BY <1>1, <2>1, <2>2
<1>4. /\ journal' \in [Agents -> SUBSET Jobs] /\ journalFile' \in [Agents -> SUBSET Jobs]
      /\ journal'[a] = IF s = "applied" THEN journal[a] \cup {j} ELSE journal[a] \ {j}
      /\ journalFile'[a] \in {journal'[a], journalFile[a]}
      /\ \A b \in Agents : b # a => journal'[b] = journal[b] /\ journalFile'[b] = journalFile[b]
  <2>1. /\ journal' \in [Agents -> SUBSET Jobs]
        /\ journal'[a] = IF s = "applied" THEN journal[a] \cup {j} ELSE journal[a] \ {j}
        /\ \A b \in Agents : b # a => journal'[b] = journal[b]
    BY <1>1 DEF Agent!Record
  <2>2. \/ journalFile' = [journalFile EXCEPT ![a] = journal'[a]]
        \/ journalFile' = journalFile
    BY DEF Agent!Record
  <2> QED  BY <1>1, <2>1, <2>2
<1>5. Agent!AgentTypeOK'
  BY <1>2, <1>3, <1>4, AgentTypes DEF AgentInv, Agent!AgentTypeOK, RunnerType, WindowType
<1>6. RunnerHolds'
  BY <1>1, <1>2, <1>3 DEF AgentInv, RunnerHolds, Answering
<1>7. JournalIsTrue'
  BY <1>1, <1>2, <1>4 DEF AgentInv, JournalIsTrue
<1>8. Remembered'
  <2> SUFFICES ASSUME NEW b \in Agents
               PROVE  /\ \A k \in Jobs : k \notin journal'[b] /\ ~Recording(b, k)' =>
                                             effects[b][k] <= forgotten[b][k]
                      /\ \A k \in Jobs : effects[b][k] <= forgotten[b][k] + 1
                      /\ runner'[b].at \in {"applying", "applied"} => runner'[b].job \notin journal'[b]
    BY <1>2 DEF Remembered
  <2>1. CASE b # a
    BY <2>1, <1>3, <1>4 DEF AgentInv, Remembered, Recording
  <2>2. CASE b = a
    <3>1. ASSUME NEW k \in Jobs, k \notin journal'[a]
          PROVE  k \notin journal[a] /\ ~Recording(a, k)
      BY <1>1, <1>4, <3>1 DEF Recording
    <3> QED  BY <2>2, <1>3, <3>1 DEF AgentInv, Remembered
  <2> QED  BY <2>1, <2>2
<1> QED  BY <1>5, <1>6, <1>7, <1>8 DEF AgentInv

LEMMA StopSafe ==
    ASSUME AgentInv, NEW a \in Agents, Agent!Stop(a)
    PROVE  AgentInv'
<1>1. /\ runner \in [Agents -> RunnerType] /\ journal \in [Agents -> SUBSET Jobs]
      /\ journalFile \in [Agents -> SUBSET Jobs] /\ effects \in [Agents -> [Jobs -> Nat]]
      /\ forgotten \in [Agents -> [Jobs -> Nat]] /\ stops \in 0 .. MaxStops
  BY AgentTypes DEF AgentInv
<1>2. PICK read \in {journalFile[a], {}} :
          /\ journal' = [journal EXCEPT ![a] = read]
          /\ forgotten' = [forgotten EXCEPT ![a] =
                              [k \in Jobs |-> IF k \in read THEN @[k] ELSE effects[a][k]]]
  BY DEF Agent!Stop
<1>3. /\ UNCHANGED <<journalFile, effects>> /\ runner' = [runner EXCEPT ![a] = Agent!Idle]
      /\ stops' \in 0 .. MaxStops
  BY <1>1, SystemAssumption DEF Agent!Stop
<1>4. /\ runner' \in [Agents -> RunnerType] /\ runner'[a] = Agent!Idle
      /\ journal' \in [Agents -> SUBSET Jobs] /\ journal'[a] = read
      /\ \A b \in Agents : b # a => runner'[b] = runner[b] /\ journal'[b] = journal[b]
  BY <1>1, <1>2, <1>3, IdleRunner
<1>5. /\ forgotten' \in [Agents -> [Jobs -> Nat]]
      /\ \A k \in Jobs : forgotten'[a][k] = IF k \in read THEN forgotten[a][k] ELSE effects[a][k]
      /\ \A b \in Agents : b # a => forgotten'[b] = forgotten[b]
  BY <1>1, <1>2
<1>6. Agent!AgentTypeOK'
  BY <1>1, <1>3, <1>4, <1>5, AgentTypes
     DEF AgentInv, Agent!AgentTypeOK, RunnerType, WindowType
<1>7. RunnerHolds'
  BY <1>3, <1>4, IdleRunner DEF AgentInv, RunnerHolds, Answering
<1>8. JournalIsTrue'
  BY <1>2, <1>3, <1>4 DEF AgentInv, JournalIsTrue
<1>9. Remembered'
  <2> SUFFICES ASSUME NEW b \in Agents
               PROVE  /\ \A k \in Jobs : k \notin journal'[b] /\ ~Recording(b, k)' =>
                                             effects[b][k] <= forgotten'[b][k]
                      /\ \A k \in Jobs : effects[b][k] <= forgotten'[b][k] + 1
                      /\ runner'[b].at \in {"applying", "applied"} => runner'[b].job \notin journal'[b]
    BY <1>3 DEF Remembered
  <2>1. CASE b # a
    BY <2>1, <1>4, <1>5 DEF AgentInv, Remembered, Recording
  <2>2. CASE b = a
    <3>1. ASSUME NEW k \in Jobs
          PROVE  /\ k \notin read => effects[a][k] <= forgotten'[a][k]
                 /\ effects[a][k] <= forgotten'[a][k] + 1
      <4>1. effects[a][k] \in Nat /\ effects[a][k] <= forgotten[a][k] + 1
        BY <1>1 DEF AgentInv, Remembered
      <4> QED  BY <1>5, <4>1
    <3> QED  BY <2>2, <1>4, <3>1, IdleRunner
  <2> QED  BY <2>1, <2>2
<1> QED  BY <1>6, <1>7, <1>8, <1>9 DEF AgentInv

\* What RunOnce does between fetch and answer.
LEMMA WorksSafe ==
    ASSUME AgentInv, NEW a \in Agents, NEW now, Agent!Works(a, now)
    PROVE  AgentInv'
<1> USE DEF Agent!hostVars
<1>0. /\ runner \in [Agents -> RunnerType] /\ runner[a] \in RunnerType
      /\ runner[a].at = "fetched" => runner[a].status = None
  BY AgentTypes DEF AgentInv, RunnerHolds, Answering
<1>1. CASE Agent!Skip(a)
  <2>1. /\ runner[a].at = "fetched" /\ runner[a].job \in journal[a]
        /\ UNCHANGED <<journal, journalFile, effects, forgotten, stops>>
        /\ runner' = [runner EXCEPT ![a] = [runner[a] EXCEPT !.at = "ack", !.status = "applied"]]
    BY <1>0, <1>1, RunnerAt DEF Agent!Skip, Agent!AppliedOK, Agent!Answers
  <2>2. effects[a][runner[a].job] > 0
    BY <2>1 DEF AgentInv, JournalIsTrue
  <2> QED  BY <2>1, <2>2, PlaceStep DEF Answering, Statuses
<1>2. CASE Agent!Defer(a, now)
  BY <1>2, ToIdle DEF Agent!Defer
<1>3. CASE Agent!Refuse(a, now)
  <2>1. /\ runner[a].at = "fetched" /\ UNCHANGED <<journal, journalFile, effects, forgotten, stops>>
        /\ runner' = [runner EXCEPT ![a] = [runner[a] EXCEPT !.at = "ack", !.status = "failed"]]
    BY <1>0, <1>3, RunnerAt DEF Agent!Refuse, Agent!Answers
  <2> QED  BY <2>1, PlaceStep DEF Answering, Statuses
<1>4. CASE Agent!StartHandler(a, now)
  <2>1. /\ runner[a].at = "fetched" /\ runner[a].job \notin journal[a]
        /\ UNCHANGED <<journal, journalFile, effects, forgotten, stops>>
        /\ runner' = [runner EXCEPT ![a] = [runner[a] EXCEPT !.at = "applying", !.status = None]]
    <3>1. [runner EXCEPT ![a].at = "applying"] =
              [runner EXCEPT ![a] = [runner[a] EXCEPT !.at = "applying", !.status = runner[a].status]]
      BY <1>0, RunnerAt
    <3> QED  BY <1>0, <1>4, <3>1 DEF Agent!StartHandler, Agent!AppliedOK
  <2> QED  BY <2>1, IdleRunner, PlaceStep DEF Answering
<1> QED  BY <1>1, <1>2, <1>3, <1>4, HandlerReturnsSafe, RecordSafe DEF Agent!Works

LEMMA AnswersSafe ==
    ASSUME AgentInv, NEW a \in Agents, Agent!SendAck(a) \/ Agent!SendReport(a)
    PROVE  AgentInv'
<1> USE DEF Agent!hostVars
<1>0. /\ runner \in [Agents -> RunnerType] /\ runner[a] \in RunnerType
      /\ runner[a].at = "ack" =>
             /\ runner[a].status \in Statuses
             /\ runner[a].status = "applied" => effects[a][runner[a].job] > 0
  BY AgentTypes DEF AgentInv, RunnerHolds, Answering
<1>1. CASE Agent!SendAck(a)
  <2>1. /\ runner[a].at = "ack" /\ UNCHANGED <<journal, journalFile, effects, forgotten, stops>>
        /\ runner' = [runner EXCEPT ![a] =
                          [runner[a] EXCEPT !.at = "report", !.status = runner[a].status]]
    BY <1>0, <1>1, RunnerAt DEF Agent!SendAck, Statuses
  <2> QED  BY <1>0, <2>1, PlaceStep DEF Answering, Statuses
<1>2. CASE Agent!SendReport(a)
  BY <1>2, ToIdle DEF Agent!SendReport
<1> QED  BY <1>1, <1>2

LEMMA InitialAgents == Agent!AgentInit => AgentInv
<1> SUFFICES ASSUME Agent!AgentInit PROVE AgentInv
  OBVIOUS
<1>1. Agent!AgentTypeOK
  BY IdleRunner, AgentTypes, SystemAssumption DEF Agent!AgentInit
<1>2. \A a \in Agents : runner[a] = Agent!Idle /\ journal[a] = {} /\ journalFile[a] = {}
  BY DEF Agent!AgentInit
<1>3. \A a \in Agents, j \in Jobs : effects[a][j] = 0 /\ forgotten[a][j] = 0
  BY DEF Agent!AgentInit
<1>4. RunnerHolds /\ JournalIsTrue
  BY <1>2, IdleRunner DEF RunnerHolds, JournalIsTrue, Answering
<1>5. Remembered
  BY <1>2, <1>3, IdleRunner DEF Remembered
<1> QED  BY <1>1, <1>4, <1>5 DEF AgentInv

---------------------------------------------------------------------------
(* The system's steps *)

EffectsGrow == \A a \in Agents, j \in Jobs : effects[a][j] > 0 => effects'[a][j] > 0

\* A report that says "applied" is sent by the host that was changed.
TrueStep ==
    \/ PlainStep
    \/ Restart
    \/ \E j \in Jobs, a \in Agents, status \in Statuses :
          AnswerStep(j, a, status) /\ (status = "applied" => effects[a][j] > 0)

\* What a Runner has in hand it had before, or it is what was delivered to it now.
HandStep ==
    \A a \in Agents :
        runner'[a].at \in {"fetched", "applying"} =>
            \/ /\ runner[a].at \in {"fetched", "applying"}
               /\ runner'[a].job = runner[a].job /\ runner'[a].window = runner[a].window
            \/ \E j \in Jobs : /\ PollDelivers(a, j)
                               /\ runner'[a].job = j /\ runner'[a].window = mem'[j].window

SystemStep ==
    /\ [QueueNext]_queueVars
    /\ AgentInv'
    /\ TrueStep
    /\ EffectsGrow
    /\ HandStep
    /\ unreported' \subseteq Jobs

LEMMA AgentFacts ==
    ASSUME SystemIInv
    PROVE  /\ AgentInv /\ runner \in [Agents -> RunnerType]
           /\ effects \in [Agents -> [Jobs -> Nat]] /\ unreported \subseteq Jobs
  BY AgentTypes DEF SystemIInv, SystemTypeOK, AgentInv

LEMMA SameAgents ==
    ASSUME AgentInv, UNCHANGED agentVars
    PROVE  AgentInv' /\ EffectsGrow /\ HandStep
  BY DEF agentVars, AgentInv, Agent!AgentTypeOK, RunnerHolds, JournalIsTrue, Remembered, Recording,
         EffectsGrow, HandStep

LEMMA SameQueue == ASSUME QueueUntouched PROVE [QueueNext]_queueVars /\ TrueStep
  BY DEF QueueUntouched, queueVars, TrueStep, PlainStep, Persists

LEMMA ControlPlaneStep == ASSUME SystemIInv, ControlPlane PROVE SystemStep
<1>1. UNCHANGED agentVars /\ unreported' = unreported
  BY DEF ControlPlane, AgentsUntouched
<1>2. AgentInv' /\ EffectsGrow /\ HandStep /\ unreported' \subseteq Jobs
  BY <1>1, AgentFacts, SameAgents
<1>3. CASE OperatorStep
  BY <1>2, <1>3, OperatorMoves DEF SystemIInv, SystemStep, QueueNext, TrueStep
<1>4. CASE Restart
  BY <1>2, <1>4 DEF SystemStep, QueueNext, TrueStep
<1>5. CASE Tick
  BY <1>2, <1>5 DEF SystemStep, QueueNext, TrueStep, Tick, PlainStep, Persists
<1> QED  BY <1>3, <1>4, <1>5 DEF ControlPlane

LEMMA FetchStep ==
    ASSUME SystemIInv, NEW a \in Agents, Fetch(a)
    PROVE  SystemStep
<1>0. AgentInv /\ QueueIInv /\ unreported \subseteq Jobs /\ runner \in [Agents -> RunnerType]
  BY AgentFacts DEF SystemIInv
<1>1. Poll(a) /\ unreported' = unreported
  BY DEF Fetch, Poll, AgentsUntouched
<1>2. QueueNext /\ TrueStep
  BY <1>0, <1>1, PollMoves DEF QueueNext, AgentCall, TrueStep
<1>3. CASE AgentsUntouched
  BY <1>0, <1>1, <1>2, <1>3, SameAgents DEF AgentsUntouched, SystemStep
<1>4. ASSUME NEW j \in Jobs, PollDelivers(a, j), Agent!Receive(a, j, mem'[j], AgentNow)
      PROVE  SystemStep
  <2>1. mem'[j].window \in WindowType
    <3>1. mem'[j] \in JobType
      BY <1>0, <1>4, PollDeliversSafe DEF QueueIInv, QueueTypeOK
    <3> QED  BY <3>1 DEF JobType
  <2>2. AgentInv'
    BY <1>0, <1>4, <2>1, ReceiveSafe
  <2>3. UNCHANGED <<journal, journalFile, effects, forgotten, stops>>
    BY <1>4 DEF Agent!Receive, Agent!hostVars
  <2>4. HandStep
    <3>1. CASE runner' = runner
      BY <3>1 DEF HandStep
    <3>2. CASE runner' = [runner EXCEPT ![a] = [Agent!Idle EXCEPT !.at = "fetched", !.job = j,
                                                                 !.window = mem'[j].window]]
      <4>1. /\ runner'[a].job = j /\ runner'[a].window = mem'[j].window
            /\ \A b \in Agents : b # a => runner'[b] = runner[b]
        BY <1>0, <3>2, IdleRunner DEF RunnerType
      <4> QED  BY <1>4, <4>1 DEF HandStep
    <3> QED  BY <1>4, <3>1, <3>2 DEF Agent!Receive
  <2> QED  BY <1>0, <1>1, <1>2, <2>2, <2>3, <2>4 DEF SystemStep, EffectsGrow
<1> QED  BY <1>3, <1>4 DEF Fetch

\* A step of one Runner that keeps its job and its window, or drops them.
LEMMA OwnHand ==
    ASSUME runner \in [Agents -> RunnerType], NEW a \in Agents, NEW r,
           runner' = [runner EXCEPT ![a] = r],
           r.at \in {"fetched", "applying"} =>
               /\ runner[a].at \in {"fetched", "applying"}
               /\ r.job = runner[a].job /\ r.window = runner[a].window
    PROVE  HandStep
<1>1. runner'[a] = r /\ \A b \in Agents : b # a => runner'[b] = runner[b]
  OBVIOUS
<1> QED  BY <1>1 DEF HandStep

LEMMA WorkStep ==
    ASSUME SystemIInv, NEW a \in Agents, Work(a)
    PROVE  SystemStep
<1> USE DEF Agent!hostVars
<1>0. /\ AgentInv /\ runner \in [Agents -> RunnerType] /\ effects \in [Agents -> [Jobs -> Nat]]
      /\ unreported' \subseteq Jobs /\ QueueUntouched /\ Agent!Works(a, AgentNow)
      /\ runner[a] \in RunnerType
  BY AgentFacts DEF Work
<1>1. AgentInv'
  BY <1>0, WorksSafe
<1>2. EffectsGrow
  <2>1. CASE effects' = effects
    BY <2>1 DEF EffectsGrow
  <2>2. CASE Agent!HandlerReturns(a) /\ effects' = [effects EXCEPT ![a][runner[a].job] = @ + 1]
    <3>1. \A b \in Agents, k \in Jobs : effects'[b][k] \in {effects[b][k], effects[b][k] + 1}
      <4>1. runner[a].job \in Jobs
        BY <1>0, <2>2 DEF AgentInv, RunnerHolds, Agent!HandlerReturns
      <4> QED  BY <1>0, <2>2, <4>1
    <3>2. \A b \in Agents, k \in Jobs : effects[b][k] \in Nat
      BY <1>0
    <3> QED  BY <3>1, <3>2 DEF EffectsGrow
  <2> QED  BY <1>0, <2>1, <2>2
           DEF Agent!Works, Agent!Skip, Agent!Defer, Agent!Refuse, Agent!StartHandler,
               Agent!HandlerReturns, Agent!Record
<1>3. HandStep
  <2>1. CASE Agent!StartHandler(a, AgentNow)
    <3> DEFINE r == [runner[a] EXCEPT !.at = "applying"]
    <3>1. r.job = runner[a].job /\ r.window = runner[a].window
      BY <1>0 DEF RunnerType
    <3>2. runner' = [runner EXCEPT ![a] = r] /\ runner[a].at = "fetched"
      BY <1>0, <2>1 DEF Agent!StartHandler
    <3> HIDE DEF r
    <3> QED  BY <1>0, <3>1, <3>2, OwnHand
  <2>2. CASE runner' = [runner EXCEPT ![a] = Agent!Idle]
    BY <1>0, <2>2, IdleRunner, OwnHand
  <2>3. ASSUME NEW at \in {"ack", "applied"}, NEW s \in {"applied", "failed", None},
               runner' = [runner EXCEPT ![a].at = at, ![a].status = s]
        PROVE  HandStep
    <3> DEFINE r == [runner[a] EXCEPT !.at = at, !.status = s]
    <3>1. r.at = at
      BY <1>0 DEF RunnerType
    <3>2. runner' = [runner EXCEPT ![a] = r]
      BY <1>0, <2>3, RunnerAt
    <3> HIDE DEF r
    <3> QED  BY <1>0, <3>1, <3>2, OwnHand
  <2>4. runner[a].status \in {"applied", "failed", None}
    BY <1>0 DEF RunnerType
  <2> QED  BY <1>0, <2>1, <2>2, <2>3, <2>4
           DEF Agent!Works, Agent!Skip, Agent!Defer, Agent!Refuse, Agent!HandlerReturns,
               Agent!Record, Agent!Answers
<1> QED  BY <1>0, <1>1, <1>2, <1>3, SameQueue DEF SystemStep

\* SendAck and SendReport, whatever becomes of them at the control plane.
LEMMA SendStep ==
    ASSUME SystemIInv, NEW a \in Agents, Agent!SendAck(a) \/ Agent!SendReport(a)
    PROVE  AgentInv' /\ EffectsGrow /\ HandStep /\ runner[a].job \in Jobs
<1>0. AgentInv /\ runner \in [Agents -> RunnerType] /\ runner[a] \in RunnerType
  BY AgentFacts
<1>1. CASE Agent!SendAck(a)
  <2> DEFINE r == [runner[a] EXCEPT !.at = "report"]
  <2>1. r.at = "report" /\ runner' = [runner EXCEPT ![a] = r]
    BY <1>0, <1>1 DEF Agent!SendAck, RunnerType
  <2> HIDE DEF r
  <2>2. HandStep
    BY <1>0, <2>1, OwnHand
  <2> QED  BY <1>0, <1>1, <2>2, AnswersSafe
           DEF Agent!SendAck, Agent!hostVars, EffectsGrow, AgentInv, RunnerHolds
<1>2. CASE Agent!SendReport(a)
  <2>1. HandStep
    BY <1>0, <1>2, IdleRunner, OwnHand DEF Agent!SendReport
  <2> QED  BY <1>0, <1>2, <2>1, AnswersSafe
           DEF Agent!SendReport, Agent!hostVars, EffectsGrow, AgentInv, RunnerHolds
<1> QED  BY <1>1, <1>2

LEMMA AcknowledgeStep ==
    ASSUME SystemIInv, NEW a \in Agents, Acknowledge(a)
    PROVE  SystemStep
<1>1. AgentInv' /\ EffectsGrow /\ HandStep /\ runner[a].job \in Jobs /\ unreported' \subseteq Jobs
  BY SendStep, AgentFacts DEF Acknowledge
<1>2. CASE Ack(runner[a].job, a)
  BY <1>1, <1>2, AckMoves DEF SystemIInv, SystemStep, QueueNext, AgentCall, TrueStep
<1>3. CASE QueueUntouched
  BY <1>1, <1>3, SameQueue DEF SystemStep
<1> QED  BY <1>2, <1>3 DEF Acknowledge

LEMMA ReportStep ==
    ASSUME SystemIInv, NEW a \in Agents, ReportTaken(a) \/ ReportIgnored(a) \/ ReportLost(a)
    PROVE  SystemStep
<1>1. /\ AgentInv' /\ EffectsGrow /\ HandStep /\ runner[a].job \in Jobs
      /\ unreported' \subseteq Jobs
  BY SendStep, AgentFacts DEF ReportTaken, ReportIgnored, ReportLost
<1>2. CASE ReportTaken(a)
  <2>1. /\ runner[a].status \in Statuses
        /\ runner[a].status = "applied" => effects[a][runner[a].job] > 0
    BY <1>2, AgentFacts DEF ReportTaken, Agent!SendReport, AgentInv, RunnerHolds, Answering
  <2>2. Report(runner[a].job, a, runner[a].status) /\ QueueIInv
    BY <1>2 DEF ReportTaken, SystemIInv
  <2>3. AnswerStep(runner[a].job, a, runner[a].status)
    BY <1>1, <2>2, ReportMoves
  <2> QED  BY <1>1, <2>1, <2>2, <2>3 DEF SystemStep, QueueNext, AgentCall, TrueStep
<1>3. CASE QueueUntouched
  BY <1>1, <1>3, SameQueue DEF SystemStep
<1> QED  BY <1>2, <1>3 DEF ReportIgnored, ReportLost

LEMMA StopAgentStep ==
    ASSUME SystemIInv, NEW a \in Agents, StopAgent(a)
    PROVE  SystemStep
<1>0. AgentInv /\ runner \in [Agents -> RunnerType] /\ unreported' \subseteq Jobs
  BY AgentFacts DEF StopAgent
<1>1. AgentInv'
  BY <1>0, StopSafe DEF StopAgent
<1>2. EffectsGrow
  BY DEF StopAgent, Agent!Stop, EffectsGrow
<1>3. HandStep
  BY <1>0, IdleRunner, OwnHand DEF StopAgent, Agent!Stop
<1> QED  BY <1>0, <1>1, <1>2, <1>3, SameQueue DEF StopAgent, SystemStep

LEMMA SystemSteps == ASSUME SystemIInv, [SystemNext]_systemVars PROVE SystemStep
<1>1. CASE UNCHANGED systemVars
  BY <1>1, AgentFacts, SameAgents, SameQueue DEF systemVars, agentVars, QueueUntouched, SystemStep
<1> QED  BY <1>1, ControlPlaneStep, FetchStep, WorkStep, AcknowledgeStep, ReportStep, StopAgentStep
         DEF SystemNext

---------------------------------------------------------------------------
(* The invariant of the system *)

\* A job with a result has a host that is an agent.
LEMMA ResultHasHost ==
    ASSUME SystemIInv, NEW jobs \in {mem, disk}, NEW j \in Jobs, jobs[j].result = "applied"
    PROVE  jobs[j].agent \in Agents /\ effects[jobs[j].agent][j] > 0
<1>1. jobs[j] \in JobType /\ ResultsFit(jobs) /\ Owned
  BY DEF SystemIInv, QueueIInv, QueueTypeOK, QueueResults
<1>2. Present(jobs[j])
  BY <1>1, IdleRunner DEF ResultsFit
<1>3. jobs[j].agent # None
  BY <1>1, <1>2 DEF Owned
<1> QED  BY <1>1, <1>3 DEF JobType, SystemIInv, ResultsAreTrue

LEMMA ResultsStayTrue ==
    ASSUME SystemIInv, SystemStep, QueueResults'
    PROVE  ResultsAreTrue'
<1> SUFFICES ASSUME NEW j \in Jobs
             PROVE  /\ mem'[j].result = "applied" => effects'[mem'[j].agent][j] > 0
                    /\ disk'[j].result = "applied" => effects'[disk'[j].agent][j] > 0
  BY DEF ResultsAreTrue, QueueResults, ResultsFit
<1>1. disk[j].result = "applied" => effects'[disk[j].agent][j] > 0
  BY ResultHasHost DEF SystemStep, EffectsGrow
<1>2. mem[j].result = "applied" => effects'[mem[j].agent][j] > 0
  BY ResultHasHost DEF SystemStep, EffectsGrow
<1>3. CASE PlainStep
  <2>1. mem'[j].result = "applied" => effects'[mem'[j].agent][j] > 0
    BY <1>2, <1>3, IdleRunner DEF PlainStep, Goes, Appears, Vanishes, NoJob
  <2> QED  BY <1>1, <1>3, <2>1 DEF PlainStep, Persists
<1>4. ASSUME NEW k \in Jobs, NEW a \in Agents, NEW status \in Statuses,
             AnswerStep(k, a, status), status = "applied" => effects[a][k] > 0
      PROVE  /\ mem'[j].result = "applied" => effects'[mem'[j].agent][j] > 0
             /\ disk'[j].result = "applied" => effects'[disk'[j].agent][j] > 0
  <2>1. mem'[j].result = "applied" => effects'[mem'[j].agent][j] > 0
    <3>1. CASE j = k
      BY <1>4, <3>1 DEF AnswerStep, SystemStep, EffectsGrow
    <3>2. CASE j # k
      BY <1>2, <1>4, <3>2 DEF AnswerStep
    <3> QED  BY <3>1, <3>2
  <2> QED  BY <1>1, <1>4, <2>1 DEF AnswerStep, Persists
<1>5. CASE Restart
  <2>1. mem' = disk /\ disk' = disk
    BY <1>5, NothingIsDropped DEF Restart, SystemIInv
  <2> QED  BY <1>1, <2>1
<1> QED  BY <1>3, <1>4, <1>5 DEF SystemStep, TrueStep

\* How the approvals grow: by one order for a job that was waiting, and that is so in the file.
LEMMA ApprovalsGrow ==
    ASSUME QueueIInv, [QueueNext]_queueVars
    PROVE  /\ drawn \subseteq drawn'
           /\ \/ approved' = approved
              \/ \E j \in Jobs, order \in OrderType :
                    /\ mem[j].state = "PENDING_APPROVAL" /\ mem'[j].state = "APPROVED"
                    /\ disk' = mem' /\ drawn' = drawn /\ \A k \in Jobs : k # j => mem'[k] = mem[k]
                    /\ approved' = approved \cup {order} /\ order.job = j
<1>1. ASSUME NEW j \in Jobs, NEW o \in Operators, Approve(j, o), approved' # approved
      PROVE  \E order \in OrderType :
                 /\ mem[j].state = "PENDING_APPROVAL" /\ mem'[j].state = "APPROVED"
                 /\ disk' = mem' /\ \A k \in Jobs : k # j => mem'[k] = mem[k]
                 /\ approved' = approved \cup {order} /\ order.job = j
  <2> DEFINE signed == [mem[j] EXCEPT !.state = "APPROVED", !.approvedBy = o, !.issuedAt = clock]
             order == Canonical(j, signed)
  <2>1. /\ mem' = [mem EXCEPT ![j] = [signed EXCEPT !.signature = order]]
        /\ Saves(mem') /\ approved' = approved \cup {order}
    BY <1>1 DEF Approve
  <2>2. signed.state = "APPROVED" /\ order.job = j
    <3>1. mem[j] \in JobType
      BY DEF QueueIInv, QueueTypeOK
    <3> QED  BY <3>1 DEF JobType, Canonical
  <2>3. order \in OrderType
    <3>1. approved' \subseteq OrderType
      BY <1>1, ApproveSafe DEF QueueIInv, QueueTypeOK
    <3> HIDE DEF order
    <3> QED  BY <2>1, <3>1
  <2> HIDE DEF order
  <2>4. mem'[j].state = "APPROVED" /\ \A k \in Jobs : k # j => mem'[k] = mem[k]
    <3>1. signed \in [{"state", "agent", "window", "createdAt", "expiresAt", "approvedBy",
                       "issuedAt", "signature", "deliveredAt", "result"} -> {signed[f] : f \in DOMAIN signed}]
      BY DEF QueueIInv, QueueTypeOK, JobType
    <3> HIDE DEF signed
    <3>2. mem \in [Jobs -> JobType]
      BY DEF QueueIInv, QueueTypeOK
    <3> QED  BY <2>1, <2>2, <3>1, <3>2
  <2> QED  BY <1>1, <2>1, <2>2, <2>3, <2>4 DEF Approve, Saves
<1>2. CASE OperatorStep
  BY <1>1, <1>2
     DEF OperatorStep, Enqueue, Approve, Reject, MarkVerified, Reap, observations
<1>3. CASE AgentCall
  BY <1>3 DEF AgentCall, Poll, PollEmpty, PollDelivers, PollReverts, Ack, Report, observations
<1> QED  BY <1>2, <1>3 DEF QueueNext, Restart, Tick, observations, queueVars

LEMMA ApprovedStaysOnce ==
    ASSUME SystemIInv, SystemStep
    PROVE  ApprovedOnce'
<1>0. QueueIInv /\ [QueueNext]_queueVars /\ approved \subseteq OrderType
  BY DEF SystemIInv, SystemStep, QueueIInv, QueueTypeOK
<1>1. ASSUME NEW j \in drawn, j \in Jobs, mem[j].state # "PENDING_APPROVAL",
             disk[j].state # "PENDING_APPROVAL"
      PROVE  mem'[j].state # "PENDING_APPROVAL" /\ disk'[j].state # "PENDING_APPROVAL"
  <2>1. CASE PlainStep
    BY <1>1, <2>1 DEF PlainStep, Persists, Goes, Appears, Vanishes, NoJob
  <2>2. ASSUME NEW k \in Jobs, NEW a \in Agents, NEW status \in Statuses, AnswerStep(k, a, status)
        PROVE  mem'[j].state # "PENDING_APPROVAL" /\ disk'[j].state # "PENDING_APPROVAL"
    BY <1>1, <2>2 DEF AnswerStep, Persists
  <2>3. CASE Restart
    BY <1>0, <1>1, <2>3, NothingIsDropped DEF Restart
  <2> QED  BY <2>1, <2>2, <2>3 DEF SystemStep, TrueStep
<1>2. \A order \in approved : order.job \in Jobs
  BY <1>0 DEF OrderType
<1>3. \A order \in approved :
          /\ order.job \in drawn'
          /\ mem'[order.job].state # "PENDING_APPROVAL"
          /\ disk'[order.job].state # "PENDING_APPROVAL"
  BY <1>0, <1>1, <1>2, ApprovalsGrow DEF SystemIInv, ApprovedOnce
<1>4. ASSUME NEW j \in Jobs, NEW order, order.job = j, mem[j].state = "PENDING_APPROVAL",
             mem'[j].state = "APPROVED", disk' = mem', drawn' = drawn
      PROVE  /\ order.job \in drawn' /\ mem'[order.job].state # "PENDING_APPROVAL"
             /\ disk'[order.job].state # "PENDING_APPROVAL"
  <2>1. j \in drawn
    BY <1>0, <1>4, JobFacts DEF Present
  <2> QED  BY <1>4, <2>1
<1> QED  BY <1>0, <1>3, <1>4, ApprovalsGrow DEF ApprovedOnce

LEMMA HandsStayApproved ==
    ASSUME SystemIInv, SystemStep, QueueIInv'
    PROVE  FetchedIsApproved'
<1>0. approved \subseteq approved' /\ QueueIInv
  BY ApprovalsGrow DEF SystemIInv, SystemStep
<1> SUFFICES ASSUME NEW a \in Agents, runner'[a].at \in {"fetched", "applying"}
             PROVE  \E order \in approved' : /\ order.job = runner'[a].job /\ order.agent = a
                                             /\ order.window = runner'[a].window
  BY DEF FetchedIsApproved
<1>1. CASE /\ runner[a].at \in {"fetched", "applying"}
           /\ runner'[a].job = runner[a].job /\ runner'[a].window = runner[a].window
  BY <1>0, <1>1 DEF SystemIInv, FetchedIsApproved
<1>2. ASSUME NEW j \in Jobs, PollDelivers(a, j), runner'[a].job = j,
             runner'[a].window = mem'[j].window
      PROVE  \E order \in approved' : /\ order.job = runner'[a].job /\ order.agent = a
                                      /\ order.window = runner'[a].window
  <2>1. mem[j] \in JobType /\ mem[j].agent = a /\ Swept(a)[j] = mem[j]
    BY <1>0, <1>2 DEF PollDelivers, Oldest, Eligible, Deliverable, Swept, QueueIInv, QueueTypeOK
  <2>2. mem'[j] = [mem[j] EXCEPT !.state = "DELIVERED", !.deliveredAt = clock]
    BY <1>2, <2>1 DEF PollDelivers, Swept
  <2>3. mem'[j].state = "DELIVERED" /\ mem'[j].agent = a
    BY <2>1, <2>2 DEF JobType
  <2>4. mem'[j].signature = Canonical(j, mem'[j]) /\ mem'[j].signature \in approved'
    <3>1. GateHolds(mem)'
      BY DEF QueueIInv, ApprovalGate
    <3> QED  BY <2>3, <3>1 DEF GateHolds, Canonical, ReleasedStates
  <2>5. /\ mem'[j].signature.job = j /\ mem'[j].signature.agent = a
        /\ mem'[j].signature.window = mem'[j].window
    BY <2>3, <2>4 DEF Canonical
  <2> QED  BY <1>2, <2>4, <2>5
<1> QED  BY <1>1, <1>2 DEF SystemStep, HandStep

LEMMA SystemInitial == SystemInit => SystemIInv
<1> SUFFICES ASSUME SystemInit PROVE SystemIInv
  OBVIOUS
<1>1. QueueIInv /\ QueueResults /\ AgentInv /\ unreported = {}
  BY Initial, InitialResults, InitialAgents DEF SystemInit
<1>2. \A a \in Agents : runner[a] = Agent!Idle
  BY DEF SystemInit, Agent!AgentInit
<1>3. SystemTypeOK
  BY <1>1 DEF SystemTypeOK, QueueIInv, AgentInv
<1>4. ResultsAreTrue
  <2>1. disk = mem /\ \A j \in Jobs : mem[j] = NoJob
    BY DEF SystemInit, QueueInit
  <2>2. NoJob.result # "applied" /\ NoJob.state \notin {"APPLIED", "VERIFIED"}
    BY IdleRunner DEF NoJob
  <2> QED  BY <2>1, <2>2 DEF ResultsAreTrue
<1>5. ApprovedOnce /\ FetchedIsApproved
  BY <1>2, IdleRunner DEF ApprovedOnce, FetchedIsApproved, SystemInit, QueueInit
<1> QED  BY <1>1, <1>3, <1>4, <1>5 DEF SystemIInv, AgentInv

LEMMA SystemInductive == SystemIInv /\ [SystemNext]_systemVars => SystemIInv'
<1> SUFFICES ASSUME SystemIInv, [SystemNext]_systemVars PROVE SystemIInv'
  OBVIOUS
<1>1. SystemStep
  BY SystemSteps
<1>2. QueueIInv' /\ QueueResults'
  BY <1>1, Inductive, ResultsInductive DEF SystemIInv, SystemStep
<1>3. AgentInv' /\ SystemTypeOK'
  BY <1>1, <1>2 DEF SystemStep, AgentInv, QueueIInv, SystemTypeOK
<1>4. ResultsAreTrue' /\ ApprovedOnce' /\ FetchedIsApproved'
  BY <1>1, <1>2, ResultsStayTrue, ApprovedStaysOnce, HandsStayApproved
<1> QED  BY <1>2, <1>3, <1>4 DEF SystemIInv, AgentInv

\* What is true of the queue and its agents in every state, lossy network, stops and all.
THEOREM SystemInvariant == SystemSpec => []SystemIInv
  BY SystemInitial, SystemInductive, PTL DEF SystemSpec

\* runner.go, "honest": no result and no verified fix without the change of that host, through lost
\* answers, failed saves and stops of either side.
THEOREM SystemHolds == SystemSpec => []SystemInv
<1>1. SystemIInv => SystemInv
  BY DEF SystemIInv, SystemInv
<1> QED  BY <1>1, SystemInvariant, PTL

\* executor.go, "never twice": a second application is one that the journal lost.
THEOREM AppliedAtMostOnce == SystemSpec => []AtMostOnce
<1>1. SystemIInv => AtMostOnce
  BY DEF SystemIInv, Remembered, AtMostOnce, Agent!AtMostOnce
<1> QED  BY <1>1, SystemInvariant, PTL

---------------------------------------------------------------------------
(* The system implements the promise of ADR-0010 *)

Working == {<<a, runner[a].job>> : a \in {b \in Agents : runner[b].at = "applying"}}
Changed == {p \in Agents \X Jobs : effects[p[1]][p[2]] > 0}
Attested == {j \in Jobs : mem[j].state = "VERIFIED"}

PromiseStep == [Promise!ConsentNext]_(Promise!consentVars)

\* The mapped steps, in the terms of this module.
LEMMA MapsToAttest ==
    ASSUME SystemIInv', approved' = approved, clock' = clock, Working' = Working,
           Changed' = Changed
    PROVE  PromiseStep
<1>1. ASSUME NEW j \in Attested'
      PROVE  \E host \in Agents : <<host, j>> \in Changed
  <2>1. j \in Jobs /\ mem'[j].state = "VERIFIED" /\ mem'[j] \in JobType
    BY DEF Attested, SystemIInv, QueueIInv, QueueTypeOK
  <2>2. mem'[j].agent \in Agents
    <3>1. Present(mem'[j]) => mem'[j].agent # None
      BY <2>1 DEF SystemIInv, QueueIInv, Owned
    <3> QED  BY <2>1, <3>1 DEF Present, JobType
  <2>3. effects'[mem'[j].agent][j] > 0
    BY <2>1 DEF SystemIInv, ResultsAreTrue
  <2>4. <<mem'[j].agent, j>> \in Changed'
    BY <2>1, <2>2, <2>3 DEF Changed
  <2> QED  BY <2>2, <2>4
<1>2. Promise!Attest
  BY <1>1 DEF Promise!Attest, AgentNow, Working, Changed, Attested
<1> QED  BY <1>2 DEF PromiseStep, Promise!ConsentNext

LEMMA MapsToTime ==
    ASSUME SystemIInv, clock' = clock + 1, approved' = approved, Working' = Working,
           Changed' = Changed, Attested' = Attested
    PROVE  PromiseStep
<1>1. AgentNow' = AgentNow + 1
  BY SystemAssumption DEF AgentNow, SystemIInv, QueueIInv, QueueTypeOK
<1>2. Promise!TimePasses
  BY <1>1 DEF Promise!TimePasses, Working, Changed, Attested
<1> QED  BY <1>2 DEF PromiseStep, Promise!ConsentNext

LEMMA MapsToConsent ==
    ASSUME NEW order, approved' = approved \cup {order},
           \A other \in approved : other.job # order.job,
           clock' = clock, Working' = Working, Changed' = Changed, Attested' = Attested
    PROVE  PromiseStep
<1>1. Promise!Consent
  BY DEF Promise!Consent, AgentNow, Working, Changed, Attested
<1> QED  BY <1>1 DEF PromiseStep, Promise!ConsentNext

LEMMA MapsToBegin ==
    ASSUME NEW a \in Agents, NEW j \in Jobs, NEW order \in approved, order.job = j,
           order.agent = a, Promise!InWindow(order.window, AgentNow),
           Working' = Working \cup {<<a, j>>}, approved' = approved, clock' = clock,
           Changed' = Changed, Attested' = Attested
    PROVE  PromiseStep
<1>1. Promise!Begin(a, j)
  BY DEF Promise!Begin, AgentNow, Working, Changed, Attested
<1> QED  BY <1>1 DEF PromiseStep, Promise!ConsentNext

LEMMA MapsToEnd ==
    ASSUME NEW a \in Agents, NEW j \in Jobs, <<a, j>> \in Working,
           Working' = Working \ {<<a, j>>}, Changed' \in {Changed, Changed \cup {<<a, j>>}},
           approved' = approved, clock' = clock, Attested' = Attested
    PROVE  PromiseStep
<1>1. Promise!End(a, j)
  BY DEF Promise!End, AgentNow, Working, Changed, Attested
<1> QED  BY <1>1 DEF PromiseStep, Promise!ConsentNext

\* What one Runner's move does to the set of jobs at work.
LEMMA WorkingMoves ==
    ASSUME runner \in [Agents -> RunnerType], NEW a \in Agents, NEW r,
           runner' = [runner EXCEPT ![a] = r]
    PROVE  /\ runner[a].at # "applying" /\ r.at # "applying" => Working' = Working
           /\ runner[a].at # "applying" /\ r.at = "applying" =>
                  Working' = Working \cup {<<a, r.job>>}
           /\ runner[a].at = "applying" /\ r.at # "applying" =>
                  /\ Working' = Working \ {<<a, runner[a].job>>}
                  /\ <<a, runner[a].job>> \in Working
<1>1. runner'[a] = r /\ \A b \in Agents : b # a => runner'[b] = runner[b]
  OBVIOUS
<1>2. CASE runner[a].at # "applying" /\ r.at # "applying"
  <2>1. {b \in Agents : runner'[b].at = "applying"} = {b \in Agents : runner[b].at = "applying"}
    BY <1>1, <1>2
  <2>2. \A b \in {c \in Agents : runner[c].at = "applying"} : runner'[b] = runner[b]
    BY <1>1, <1>2
  <2> QED  BY <1>2, <2>1, <2>2 DEF Working
<1>3. CASE runner[a].at # "applying" /\ r.at = "applying"
  BY <1>1, <1>3 DEF Working
<1>4. CASE runner[a].at = "applying" /\ r.at # "applying"
  BY <1>1, <1>4 DEF Working
<1> QED  BY <1>2, <1>3, <1>4

LEMMA SameWork == ASSUME runner' = runner, effects' = effects PROVE Working' = Working /\ Changed' = Changed
  BY DEF Working, Changed

LEMMA ControlPlaneMaps ==
    ASSUME SystemIInv, SystemIInv', ControlPlane
    PROVE  PromiseStep
<1>1. Working' = Working /\ Changed' = Changed
  BY SameWork DEF ControlPlane, AgentsUntouched, agentVars
<1>2. CASE Tick
  BY <1>1, <1>2, MapsToTime DEF Tick, observations, Attested
<1>3. CASE ~Tick
  <2>1. clock' = clock /\ QueueNext /\ QueueIInv
    BY <1>3 DEF ControlPlane, QueueNext, OperatorStep, Restart, Enqueue, Approve, Reject,
                MarkVerified, Reap, SystemIInv
  <2>2. CASE approved' = approved
    BY <1>1, <2>1, <2>2, MapsToAttest
  <2>3. ASSUME NEW j \in Jobs, NEW order \in OrderType, order.job = j,
               mem[j].state = "PENDING_APPROVAL", mem'[j].state = "APPROVED",
               approved' = approved \cup {order}, \A k \in Jobs : k # j => mem'[k] = mem[k]
        PROVE  PromiseStep
    <3>1. \A other \in approved : other.job # order.job
      BY <2>3 DEF SystemIInv, ApprovedOnce
    <3>2. Attested' = Attested
      BY <2>3 DEF Attested
    <3> QED  BY <1>1, <2>1, <2>3, <3>1, <3>2, MapsToConsent
  <2> QED  BY <2>1, <2>2, <2>3, ApprovalsGrow
<1> QED  BY <1>2, <1>3

\* The steps that start and end no handler: the fetch and the answers.
LEMMA ExchangeMaps ==
    ASSUME SystemIInv, SystemIInv', NEW a \in Agents,
           Fetch(a) \/ Acknowledge(a) \/ ReportTaken(a) \/ ReportIgnored(a) \/ ReportLost(a)
    PROVE  PromiseStep
<1>0. runner \in [Agents -> RunnerType] /\ runner[a] \in RunnerType
  BY AgentFacts
<1>1. approved' = approved /\ clock' = clock
  BY DEF Fetch, Acknowledge, ReportTaken, ReportIgnored, ReportLost, PollDelivers, PollEmpty,
         PollReverts, Ack, Report, QueueUntouched, queueVars, observations
<1>2. effects' = effects
  BY DEF Fetch, Acknowledge, ReportTaken, ReportIgnored, ReportLost, Agent!Receive, Agent!SendAck,
         Agent!SendReport, Agent!hostVars, AgentsUntouched, agentVars
<1>3. Working' = Working
  <2>1. CASE runner' = runner
    BY <1>2, <2>1, SameWork
  <2>2. ASSUME NEW j \in Jobs, NEW job, Agent!Receive(a, j, job, AgentNow)
        PROVE  Working' = Working
    <3> DEFINE r == [Agent!Idle EXCEPT !.at = "fetched", !.job = j, !.window = job.window]
    <3>1. r.at = "fetched" /\ runner[a].at = "idle"
      BY <2>2, IdleRunner DEF RunnerType, Agent!Receive
    <3>2. runner' = runner \/ runner' = [runner EXCEPT ![a] = r]
      BY <2>2 DEF Agent!Receive
    <3> HIDE DEF r
    <3> QED  BY <1>0, <2>1, <3>1, <3>2, WorkingMoves
  <2>3. CASE Agent!SendAck(a)
    <3> DEFINE r == [runner[a] EXCEPT !.at = "report"]
    <3>1. r.at = "report" /\ runner' = [runner EXCEPT ![a] = r] /\ runner[a].at = "ack"
      BY <1>0, <2>3 DEF RunnerType, Agent!SendAck
    <3> HIDE DEF r
    <3> QED  BY <1>0, <3>1, WorkingMoves
  <2>4. CASE Agent!SendReport(a)
    BY <1>0, <2>4, IdleRunner, WorkingMoves DEF Agent!SendReport
  <2> QED  BY <2>1, <2>2, <2>3, <2>4
           DEF Fetch, Acknowledge, ReportTaken, ReportIgnored, ReportLost, AgentsUntouched, agentVars
<1>4. Changed' = Changed
  BY <1>2 DEF Changed
<1> QED  BY <1>1, <1>3, <1>4, MapsToAttest

LEMMA WorkMaps ==
    ASSUME SystemIInv, SystemIInv', NEW a \in Agents, Work(a)
    PROVE  PromiseStep
<1>0. /\ runner \in [Agents -> RunnerType] /\ runner[a] \in RunnerType /\ AgentInv
      /\ effects \in [Agents -> [Jobs -> Nat]]
  BY AgentFacts
<1>1. approved' = approved /\ clock' = clock /\ Attested' = Attested
  BY DEF Work, QueueUntouched, queueVars, Attested
<1>2. CASE Agent!StartHandler(a, AgentNow)
  <2> DEFINE j == runner[a].job
             r == [runner[a] EXCEPT !.at = "applying"]
  <2>1. /\ runner' = [runner EXCEPT ![a] = r] /\ runner[a].at = "fetched" /\ effects' = effects
        /\ ~Agent!TooEarly(a, AgentNow) /\ ~Agent!TooLate(a, AgentNow)
    BY <1>2 DEF Agent!StartHandler, Agent!hostVars
  <2>2. r.at = "applying" /\ r.job = j
    BY <1>0 DEF RunnerType
  <2>3. Working' = Working \cup {<<a, j>>}
    <3> HIDE DEF r
    <3> QED  BY <1>0, <2>1, <2>2, WorkingMoves
  <2>4. PICK order \in approved : order.job = j /\ order.agent = a /\ order.window = runner[a].window
    BY <2>1 DEF SystemIInv, FetchedIsApproved
  <2>5. Promise!InWindow(order.window, AgentNow)
    <3>1. AgentNow \in Int /\ order.window.opens \in Nat /\ order.window.closes \in Nat
      <4>1. clock \in Nat /\ order.window \in WindowType
        BY <1>0, <2>4 DEF SystemIInv, QueueIInv, QueueTypeOK, RunnerType
      <4> QED  BY <4>1, SystemAssumption DEF AgentNow, WindowType
    <3> QED  BY <2>1, <2>4, <3>1 DEF Promise!InWindow, Agent!TooEarly, Agent!TooLate
  <2>6. j \in Jobs /\ Changed' = Changed
    BY <1>0, <2>1 DEF AgentInv, RunnerHolds, Changed
  <2> QED  BY <1>1, <2>3, <2>4, <2>5, <2>6, MapsToBegin
<1>3. CASE Agent!HandlerReturns(a)
  <2> DEFINE j == runner[a].job
  <2>1. PICK status \in {"applied", "failed"} :
            /\ runner' = [runner EXCEPT ![a] = [runner[a] EXCEPT !.at = "applied", !.status = status]]
            /\ effects' \in {[effects EXCEPT ![a][j] = @ + 1], effects}
            /\ runner[a].at = "applying"
    BY <1>0, <1>3, RunnerAt DEF Agent!HandlerReturns
  <2>2. Working' = Working \ {<<a, j>>} /\ <<a, j>> \in Working
    <3> DEFINE r == [runner[a] EXCEPT !.at = "applied", !.status = status]
    <3>1. r.at = "applied"
      BY <1>0 DEF RunnerType
    <3>2. runner' = [runner EXCEPT ![a] = r]
      BY <2>1
    <3> HIDE DEF r
    <3> QED  BY <1>0, <2>1, <3>1, <3>2, WorkingMoves
  <2>3. j \in Jobs
    BY <1>0, <2>1 DEF AgentInv, RunnerHolds
  <2>4. Changed' \in {Changed, Changed \cup {<<a, j>>}}
    <3>1. CASE effects' = effects
      BY <3>1 DEF Changed
    <3>2. CASE effects' = [effects EXCEPT ![a][j] = @ + 1]
      <4>1. /\ effects'[a][j] = effects[a][j] + 1 /\ effects[a][j] \in Nat
            /\ \A b \in Agents, k \in Jobs : b # a \/ k # j => effects'[b][k] = effects[b][k]
        BY <1>0, <2>3, <3>2
      <4>2. ASSUME NEW p \in Agents \X Jobs
            PROVE  effects'[p[1]][p[2]] > 0 <=> effects[p[1]][p[2]] > 0 \/ p = <<a, j>>
        <5>1. p = <<p[1], p[2]>> /\ p[1] \in Agents /\ p[2] \in Jobs
          OBVIOUS
        <5>2. CASE p[1] = a /\ p[2] = j
          BY <4>1, <5>1, <5>2
        <5>3. CASE p[1] # a \/ p[2] # j
          BY <4>1, <5>1, <5>3
        <5> QED  BY <5>2, <5>3
      <4> QED  BY <2>3, <4>2 DEF Changed
    <3> QED  BY <2>1, <3>1, <3>2
  <2> QED  BY <1>1, <2>2, <2>3, <2>4, MapsToEnd
<1>4. CASE Agent!Skip(a) \/ Agent!Defer(a, AgentNow) \/ Agent!Refuse(a, AgentNow) \/ Agent!Record(a)
  <2>1. effects' = effects /\ runner[a].at \in {"fetched", "applied"}
    BY <1>4 DEF Agent!Skip, Agent!Defer, Agent!Refuse, Agent!Record, Agent!hostVars
  <2>2. CASE runner' = [runner EXCEPT ![a] = Agent!Idle]
    BY <1>0, <1>1, <2>1, <2>2, IdleRunner, WorkingMoves, MapsToAttest DEF Changed
  <2>3. ASSUME NEW s \in {"applied", "failed", None}, Agent!Answers(a, s)
        PROVE  PromiseStep
    <3> DEFINE r == [runner[a] EXCEPT !.at = "ack", !.status = s]
    <3>1. r.at = "ack"
      BY <1>0 DEF RunnerType
    <3>2. runner' = [runner EXCEPT ![a] = r]
      BY <1>0, <2>3, RunnerAt DEF Agent!Answers
    <3> HIDE DEF r
    <3> QED  BY <1>0, <1>1, <2>1, <3>1, <3>2, WorkingMoves, MapsToAttest DEF Changed
  <2>4. runner[a].status \in {"applied", "failed", None}
    BY <1>0 DEF RunnerType
  <2> QED  BY <1>4, <2>2, <2>3, <2>4 DEF Agent!Skip, Agent!Defer, Agent!Refuse, Agent!Record
<1> QED  BY <1>2, <1>3, <1>4 DEF Work, Agent!Works

\* A stop in the middle of a handler ends its work: a handler counts as a change when it returns.
LEMMA StopMaps ==
    ASSUME SystemIInv, SystemIInv', NEW a \in Agents, StopAgent(a)
    PROVE  PromiseStep
<1>0. runner \in [Agents -> RunnerType] /\ AgentInv
  BY AgentFacts
<1>1. /\ approved' = approved /\ clock' = clock /\ Attested' = Attested /\ Changed' = Changed
      /\ runner' = [runner EXCEPT ![a] = Agent!Idle]
  BY DEF StopAgent, Agent!Stop, QueueUntouched, queueVars, Attested, Changed
<1>2. CASE runner[a].at = "applying"
  <2>1. /\ Working' = Working \ {<<a, runner[a].job>>} /\ <<a, runner[a].job>> \in Working
        /\ runner[a].job \in Jobs
    BY <1>0, <1>1, <1>2, IdleRunner, WorkingMoves DEF AgentInv, RunnerHolds
  <2> QED  BY <1>1, <2>1, MapsToEnd
<1>3. CASE runner[a].at # "applying"
  BY <1>0, <1>1, <1>3, IdleRunner, WorkingMoves, MapsToAttest
<1> QED  BY <1>2, <1>3

LEMMA InitialMaps == SystemInit => Promise!ConsentInit
<1> SUFFICES ASSUME SystemInit PROVE Promise!ConsentInit
  OBVIOUS
<1>1. approved = {}
  BY DEF SystemInit, QueueInit
<1>2. Working = {}
  BY IdleRunner DEF SystemInit, Agent!AgentInit, Working
<1>3. Changed = {}
  BY DEF SystemInit, Agent!AgentInit, Changed
<1>4. Attested = {}
  BY DEF SystemInit, QueueInit, Attested, NoJob
<1> QED  BY <1>1, <1>2, <1>3, <1>4 DEF Promise!ConsentInit, Working, Changed, Attested

LEMMA StepMaps ==
    SystemIInv /\ SystemIInv' /\ [SystemNext]_systemVars => PromiseStep
<1> SUFFICES ASSUME SystemIInv, SystemIInv', [SystemNext]_systemVars PROVE PromiseStep
  OBVIOUS
<1>1. CASE UNCHANGED systemVars
  <2>1. approved' = approved /\ clock' = clock /\ mem' = mem /\ runner' = runner /\ effects' = effects
    BY <1>1 DEF systemVars, queueVars, agentVars
  <2> QED  BY <2>1, SameWork, MapsToAttest
<1> QED  BY <1>1, ControlPlaneMaps, ExchangeMaps, WorkMaps, StopMaps DEF SystemNext

\* ADR-0010: queue, network, journal and drifting clocks together do only what an operator consented
\* to, inside the window, and attest only what was changed.
THEOREM ImplementsPromise == SystemSpec => KeepsPromise
  BY InitialMaps, StepMaps, SystemInvariant, PTL
     DEF SystemSpec, KeepsPromise, Promise!ConsentSpec, PromiseStep

===========================================================================
