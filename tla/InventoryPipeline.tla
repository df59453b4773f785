------------------------- MODULE InventoryPipeline -------------------------
(***************************************************************************)
(* Inventories on their way from a host to gvmd: the agent's tick and its  *)
(* queue on disk (agent/internal/agentd and transport), the ingest's       *)
(* handler and its deduplication (ingest/server.go, pipeline_sink.go), and *)
(* the command channel by which an operator asks for a scan now            *)
(* (control-plane/commands, agent/internal/command).                       *)
(*                                                                         *)
(* Two goroutines of an agent tick under one mutex, the periodic loop and  *)
(* the command loop.  A request outlives the agent's patience: the client  *)
(* gives up after a minute while the handler imports for up to five, so    *)
(* that several handlers may be at work for one agent.  Correlation is a   *)
(* function of the inventory and belongs to its import.                    *)
(***************************************************************************)
EXTENDS Naturals, Sequences, FiniteSets

CONSTANTS
    Agents,
    Contents,       \* what a host may have installed; a cycle_hash names one of them
    None,
    Handlers,       \* bound: the requests that the ingest serves at a time
    MaxItems        \* Queue.maxItems

ASSUME PipelineAssumption ==
    /\ None \notin Contents \cup Agents \cup Handlers
    /\ None \notin {"run", "command", "given", "polled"}
    /\ IsFiniteSet(Handlers)
    /\ MaxItems \in Nat \ {0}

VARIABLES
    host,           \* what is installed on each host
    queue,          \* the files of each agent's queue, in the order of their names
    tick,           \* which loop holds tickMu, if any
    sending,        \* the handler whose answer the tick waits for, or None
    command,        \* commandLoop: what it does next, to poll or, with a command in hand, to tick or ack
    pending,        \* commands.Queue: the agent's pending command, which is None, "given" or "polled";
                    \* of its id only this matters, whether it is the one that the agent has in hand
    handlers,       \* the requests at the ingest, and how far they are
    lastCycle, inflight,
    gvmd,           \* the content behind the last report of each agent's task
    tried,          \* observed: whether a forced tick began since the newest command was given
    imported        \* observed: the contents of each agent that were ever imported

agentVars == <<queue, tick, sending, command>>
ingestVars == <<handlers, lastCycle, inflight, gvmd>>
pipelineVars == <<host, agentVars, pending, ingestVars, tried, imported>>

Inventory == [content : Contents, force : BOOLEAN]

Free == [agent |-> None, inv |-> None, at |-> "free"]
Requests ==
    [agent : Agents, inv : Inventory, at : {"put", "import"}]

---------------------------------------------------------------------------
(* The agent: one tick at a time, which collects, enqueues and flushes *)

\* evictLocked: the oldest items go when there are too many.
Evict(items) ==
    IF Len(items) > MaxItems THEN SubSeq(items, Len(items) - MaxItems + 1, Len(items)) ELSE items

Enqueue(a, force) == Evict(Append(queue[a], [content |-> host[a], force |-> force]))

\* The command loop ticks for a scan_now that it has polled.
MayTick(a, by) == tick[a] = None /\ (by = "command" => command[a] = "tick")

Tries(a, by) == tried' = IF by = "command" THEN [tried EXCEPT ![a] = TRUE] ELSE tried

TickBegins(a, by) ==
    /\ MayTick(a, by)
    /\ tick' = [tick EXCEPT ![a] = by]
    /\ queue' = [queue EXCEPT ![a] = Enqueue(a, by = "command")]
    /\ Tries(a, by)
    /\ UNCHANGED <<host, sending, command, pending, ingestVars, imported>>

\* Collect or Enqueue fails: the backlog is flushed nevertheless.
TickBeginsBlind(a, by) ==
    /\ MayTick(a, by)
    /\ tick' = [tick EXCEPT ![a] = by]
    /\ Tries(a, by)
    /\ UNCHANGED <<host, queue, sending, command, pending, ingestVars, imported>>

\* The tick returns; a command is acked next, whatever the tick returned.
TickEnds(a) ==
    /\ tick' = [tick EXCEPT ![a] = None]
    /\ sending' = [sending EXCEPT ![a] = None]
    /\ command' = IF tick[a] = "command" THEN [command EXCEPT ![a] = "ack"] ELSE command

Flushing(a) == tick[a] # None /\ sending[a] = None

Flushed(a) ==
    /\ Flushing(a) /\ queue[a] = <<>>
    /\ TickEnds(a)
    /\ UNCHANGED <<host, queue, pending, ingestVars, tried, imported>>

\* A transient failure before the request got anywhere: the item stays.
SendFails(a) ==
    /\ Flushing(a) /\ queue[a] # <<>>
    /\ TickEnds(a)
    /\ UNCHANGED <<host, queue, pending, ingestVars, tried, imported>>

\* ErrPermanent, a 4xx of the ingest or of the proxy in front of it: the item is dropped.
SendRefused(a) ==
    /\ Flushing(a) /\ queue[a] # <<>>
    /\ queue' = [queue EXCEPT ![a] = Tail(@)]
    /\ UNCHANGED <<host, tick, sending, command, pending, ingestVars, tried, imported>>

\* The client's timeout, or an answer that is lost: a transient failure too, but the handler goes on.
GivesUp(a) ==
    /\ sending[a] # None
    /\ TickEnds(a)
    /\ UNCHANGED <<host, queue, pending, ingestVars, tried, imported>>

---------------------------------------------------------------------------
(* The ingest's handler *)

\* The oldest item is posted. markSeen changes lastSeen alone, which decides nothing and is left out.
Receives(a, h) ==
    /\ Flushing(a) /\ queue[a] # <<>>
    /\ handlers[h] = Free /\ h = CHOOSE g \in Handlers : handlers[g] = Free
    /\ handlers' = [handlers EXCEPT ![h] = [agent |-> a, inv |-> Head(queue[a]), at |-> "put"]]
    /\ sending' = [sending EXCEPT ![a] = h]
    /\ UNCHANGED <<host, queue, tick, command, pending, lastCycle, inflight, gvmd, tried, imported>>

Proceeds(h, step) == handlers' = [handlers EXCEPT ![h].at = step]

\* Every answer is 202: the item is removed, if its tick still waits for it.
Answers(h) ==
    LET a == handlers[h].agent IN
    /\ handlers' = [handlers EXCEPT ![h] = Free]
    /\ IF sending[a] = h
       THEN /\ queue' = [queue EXCEPT ![a] = Tail(@)]
            /\ sending' = [sending EXCEPT ![a] = None]
       ELSE UNCHANGED <<queue, sending>>

Cycle(h) == <<handlers[h].agent, handlers[h].inv.content>>

\* Mutant: only a completed cycle is a duplicate.
Completed(h) == ~handlers[h].inv.force /\ lastCycle[handlers[h].agent] = handlers[h].inv.content

\* beginCycle: processed already, or being processed.
Duplicate(h) ==
    /\ ~handlers[h].inv.force
    /\ lastCycle[handlers[h].agent] = handlers[h].inv.content \/ Cycle(h) \in inflight

Skips(h) ==
    /\ handlers[h].at = "put" /\ Duplicate(h)
    /\ Answers(h)
    /\ UNCHANGED <<host, tick, command, pending, lastCycle, inflight, gvmd, tried, imported>>

Begins(h) ==
    /\ handlers[h].at = "put" /\ ~Duplicate(h)
    /\ inflight' = IF handlers[h].inv.force THEN inflight ELSE inflight \cup {Cycle(h)}
    /\ Proceeds(h, "import")
    /\ UNCHANGED <<host, agentVars, pending, lastCycle, gvmd, tried, imported>>

\* bridge.py adds a report to the agent's container task.
Reports(h) ==
    /\ gvmd' = [gvmd EXCEPT ![handlers[h].agent] = handlers[h].inv.content]
    /\ imported' = [imported EXCEPT ![handlers[h].agent] = @ \cup {handlers[h].inv.content}]

\* Mutant: ok is set before the import and not taken back.
RecordsAlways(h, ok) ==
    /\ inflight' = inflight \ {Cycle(h)}
    /\ lastCycle' = [lastCycle EXCEPT ![handlers[h].agent] = handlers[h].inv.content]

\* Mutant: the mark of a cycle that failed stays.
ClearsOnSuccess(h, ok) ==
    /\ inflight' = IF ok THEN inflight \ {Cycle(h)} ELSE inflight
    /\ lastCycle' = IF ok THEN [lastCycle EXCEPT ![handlers[h].agent] = handlers[h].inv.content] ELSE lastCycle

\* endCycle: only a cycle that was imported is recorded.
Records(h, ok) ==
    /\ inflight' = inflight \ {Cycle(h)}
    /\ lastCycle' = IF ok THEN [lastCycle EXCEPT ![handlers[h].agent] = handlers[h].inv.content] ELSE lastCycle

\* A forced report leaves the deduplication alone. The import and the deferred endCycle are one step:
\* between the two nothing is read that either of them writes.
Ends(h, ok) ==
    /\ IF handlers[h].inv.force THEN UNCHANGED <<inflight, lastCycle>> ELSE Records(h, ok)
    /\ Answers(h)
    /\ UNCHANGED <<host, tick, command, pending, tried>>

Imports(h) ==
    /\ handlers[h].at = "import"
    /\ Reports(h)
    /\ Ends(h, TRUE)

\* Correlate or the bridge fails, or the bridge is killed at its timeout when the report is in already.
ImportFails(h) ==
    /\ handlers[h].at = "import"
    /\ Reports(h) \/ UNCHANGED <<gvmd, imported>>
    /\ Ends(h, FALSE)

---------------------------------------------------------------------------
(* The command channel *)

\* EnqueueHandler, SessionEnqueueHandler: a fresh request supersedes a pending one.
AsksScan(a) ==
    /\ pending' = [pending EXCEPT ![a] = "given"]
    /\ tried' = [tried EXCEPT ![a] = FALSE]
    /\ UNCHANGED <<host, agentVars, ingestVars, imported>>

Polls(a) ==
    /\ command[a] = "poll" /\ pending[a] # None
    /\ command' = [command EXCEPT ![a] = "tick"]
    /\ pending' = [pending EXCEPT ![a] = "polled"]
    /\ UNCHANGED <<host, queue, tick, sending, ingestVars, tried, imported>>

\* Mutant: an ack removes whatever is pending.
PendingAfterAnyAck(a) == None

\* Mutant: an ack removes what it does not name.
PendingAfterOtherAck(a) == IF pending[a] = "polled" THEN "given" ELSE None

\* Queue.Ack removes the command it names, and no other.
PendingAfterAck(a) == IF pending[a] = "polled" THEN None ELSE pending[a]

Acks(a) ==
    /\ command[a] = "ack"
    /\ pending' = [pending EXCEPT ![a] = PendingAfterAck(a)]
    /\ command' = [command EXCEPT ![a] = "poll"]
    /\ UNCHANGED <<host, queue, tick, sending, ingestVars, tried, imported>>

\* The command in hand is forgotten, and polled again if it is pending still.
Forgets(a) ==
    /\ command' = [command EXCEPT ![a] = "poll"]
    /\ pending' = [pending EXCEPT ![a] = IF @ = "polled" THEN "given" ELSE @]

AckIsLost(a) ==
    /\ command[a] = "ack"
    /\ Forgets(a)
    /\ UNCHANGED <<host, queue, tick, sending, ingestVars, tried, imported>>

---------------------------------------------------------------------------
(* Hosts change, and processes stop and start again *)

HostChanges(a) ==
    /\ \E c \in Contents \ {host[a]} : host' = [host EXCEPT ![a] = c]
    /\ UNCHANGED <<agentVars, pending, ingestVars, tried, imported>>

\* NewQueue finds the items that are there.
AgentRestarts(a) ==
    /\ tick' = [tick EXCEPT ![a] = None]
    /\ sending' = [sending EXCEPT ![a] = None]
    /\ Forgets(a)
    /\ UNCHANGED <<host, queue, ingestVars, tried, imported>>

\* Waiting ticks see a broken connection.
IngestRestarts ==
    LET Waiting == {a \in Agents : sending[a] # None} IN
    /\ handlers' = [h \in Handlers |-> Free]
    /\ lastCycle' = [a \in Agents |-> None] /\ inflight' = {}
    /\ sending' = [a \in Agents |-> None]
    /\ tick' = [a \in Agents |-> IF a \in Waiting THEN None ELSE tick[a]]
    /\ command' = [a \in Agents |->
        IF a \in Waiting /\ tick[a] = "command" THEN "ack" ELSE command[a]]
    /\ UNCHANGED <<host, queue, pending, gvmd, tried, imported>>

ControlPlaneRestarts ==
    /\ pending' = [a \in Agents |-> None]
    /\ UNCHANGED <<host, agentVars, ingestVars, tried, imported>>

PipelineInit ==
    /\ host \in [Agents -> Contents]
    /\ queue = [a \in Agents |-> <<>>]
    /\ tick = [a \in Agents |-> None] /\ sending = tick
    /\ command = [a \in Agents |-> "poll"]
    /\ pending = [a \in Agents |-> None]
    /\ handlers = [h \in Handlers |-> Free]
    /\ lastCycle = [a \in Agents |-> None] /\ inflight = {}
    /\ gvmd = [a \in Agents |-> None]
    /\ tried = [a \in Agents |-> FALSE] /\ imported = [a \in Agents |-> {}]

\* Run's loop: a tick, and what a tick does by itself.
RunLoop(a) == TickBegins(a, "run") \/ Flushed(a) \/ \E h \in Handlers : Receives(a, h)

Serves(h) == Skips(h) \/ Begins(h) \/ Imports(h)

\* What may go wrong, or change, and does not for ever.
Disturbance ==
    \/ \E a \in Agents :
        \/ HostChanges(a) \/ AsksScan(a) \/ AgentRestarts(a)
        \/ \E by \in {"run", "command"} : TickBeginsBlind(a, by)
        \/ SendFails(a) \/ SendRefused(a) \/ GivesUp(a) \/ AckIsLost(a)
    \/ \E h \in Handlers : ImportFails(h)
    \/ IngestRestarts \/ ControlPlaneRestarts

\* What goes on in any case.
Progress ==
    \/ \E a \in Agents : RunLoop(a) \/ Polls(a) \/ TickBegins(a, "command") \/ Acks(a)
    \/ \E h \in Handlers : Serves(h)

PipelineNext == Progress \/ Disturbance

PipelineSpec == PipelineInit /\ [][PipelineNext]_pipelineVars

\* The agents' loops and the ingest's handlers go on, and a mutex is handed to whoever waits for it.
PipelineFairness ==
    /\ \A a \in Agents :
        /\ WF_pipelineVars(RunLoop(a)) /\ WF_pipelineVars(Polls(a)) /\ WF_pipelineVars(Acks(a))
        /\ SF_pipelineVars(TickBegins(a, "command"))
    /\ \A h \in Handlers : WF_pipelineVars(Serves(h))

FairPipelineSpec ==
    /\ PipelineSpec /\ PipelineFairness
    /\ <>[][Progress]_pipelineVars

---------------------------------------------------------------------------
(* Properties *)

PipelineTypeOK ==
    /\ host \in [Agents -> Contents]
    /\ \A a \in Agents : Len(queue[a]) <= MaxItems /\ \A i \in DOMAIN queue[a] : queue[a][i] \in Inventory
    /\ tick \in [Agents -> {None, "run", "command"}]
    /\ sending \in [Agents -> {None} \cup Handlers]
    /\ command \in [Agents -> {"poll", "tick", "ack"}]
    /\ pending \in [Agents -> {None, "given", "polled"}]
    /\ handlers \in [Handlers -> {Free} \cup Requests]
    /\ lastCycle \in [Agents -> {None} \cup Contents] /\ inflight \subseteq Agents \X Contents
    /\ gvmd \in [Agents -> {None} \cup Contents]
    /\ tried \in [Agents -> BOOLEAN] /\ imported \in [Agents -> SUBSET Contents]

\* beginCycle: inflight "collapses concurrent deliveries of the same cycle". At any time a cycle is
\* imported by one handler at most, whose mark is there as long as it works and no longer, and it is
\* never imported again while it is the last one recorded.
OneImportPerCycle ==
    LET Importing == {h \in Handlers : handlers[h].at = "import" /\ ~handlers[h].inv.force} IN
    /\ inflight = {Cycle(h) : h \in Importing}
    /\ Cardinality(inflight) = Cardinality(Importing)
    /\ \A h \in Importing : lastCycle[handlers[h].agent] # handlers[h].inv.content

\* Put answers 202 whatever happened, so that only the deduplication may say that a cycle needs no
\* import: what it skips as processed was imported.
SkippedWasImported == \A a \in Agents : lastCycle[a] # None => lastCycle[a] \in imported[a]

\* The types of the state, and with them SkippedWasImported.
PipelineInv == PipelineTypeOK /\ SkippedWasImported

\* Queue.Ack: "a stale ack for an already-superseded command is a no-op". A command leaves the channel
\* only when a forced tick began after it was given, or the channel is lost with its process.
AckedScanWasTried ==
    [][\A a \in Agents :
        pending[a] # None /\ pending'[a] = None => tried[a] \/ command'[a] = command[a]]_pipelineVars

\* The agent reports every quarter of an hour and the deduplication follows: once disturbances are
\* over, the last cycle that was recorded is what the host is, whatever was in the queues before.
CycleConverges == \A a \in Agents : <>[](lastCycle[a] = host[a])

\* commandLoop: once operators ask for no more, no command is left that its agent did not ack,
\* whatever was lost, restarted or superseded before.
ScanIsAnswered == \A a \in Agents : <>[](pending[a] = None)

\* inventory.go says of the cycle hash: a host that patches "produces a new hash and re-imports -
\* otherwise a fixed host would dedupe and the finding would never clear". So what gvmd shows of a
\* host is in the end what the host is. The code does not keep this one: an import that takes long
\* may end after that of a newer inventory, and a forced import leaves the cycle that was recorded.
ReportConverges == \A a \in Agents : <>[](gvmd[a] = host[a])

===========================================================================
