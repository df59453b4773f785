----------------------- MODULE InventoryPipelineProofs -----------------------
(***************************************************************************)
(* That the pipeline's types, its deduplication and its command channel    *)
(* hold for any agents, inventories and requests at a time, whatever gives *)
(* up, fails or restarts.                                                  *)
(*                                                                         *)
(* Three arguments run side by side, over different parts of the state:    *)
(* what a tick waits for is at the head of its queue and in the hands of   *)
(* the handler it waits for; the marks in inflight are those of the        *)
(* handlers that import, one each; and a command that is about to be acked *)
(* was ticked for after it was given.                                      *)
(*                                                                         *)
(* The rest is about the correlation that imports ask, which has no state: *)
(* that its order of versions is one, what it answers of any advisories,   *)
(* hosts, documents and readings, and that with the inputs of              *)
(* CorrelationChecks this is what that module says it should be.           *)
(***************************************************************************)
EXTENDS MCInventoryPipeline, DecisionProofs

QueueOK ==
    /\ queue \in [Agents -> Seq(Inventory)]
    /\ \A a \in Agents : Len(queue[a]) <= MaxItems

\* The item that an answer removes is the one that the answer is for.
WaitsForHead ==
    \A a \in Agents :
        sending[a] # None =>
            /\ tick[a] # None /\ queue[a] # <<>>
            /\ handlers[sending[a]].at # "free"
            /\ handlers[sending[a]].agent = a
            /\ handlers[sending[a]].inv = Head(queue[a])

Importing == {h \in Handlers : handlers[h].at = "import" /\ ~handlers[h].inv.force}

OneMarkEach ==
    /\ inflight = {Cycle(h) : h \in Importing}
    /\ \A g, h \in Importing : Cycle(g) = Cycle(h) => g = h
    /\ \A h \in Importing : lastCycle[handlers[h].agent] # handlers[h].inv.content

\* A command in hand is ticked for, then acked; when it is the pending one, the tick was for it.
AckIsEarned ==
    \A a \in Agents :
        /\ tick[a] = "command" => command[a] = "tick"
        /\ pending[a] = "polled" => command[a] # "poll"
        /\ pending[a] = "polled" /\ (command[a] = "ack" \/ tick[a] = "command") => tried[a]

IInv ==
    /\ PipelineTypeOK /\ QueueOK
    /\ WaitsForHead
    /\ OneMarkEach /\ SkippedWasImported
    /\ AckIsEarned
---------------------------------------------------------------------------
(* The queue on disk *)

LEMMA QueueItems ==
    ASSUME QueueOK, NEW a \in Agents
    PROVE  /\ queue[a] \in Seq(Inventory) /\ Len(queue[a]) \in Nat
           /\ \A i \in DOMAIN queue[a] : queue[a][i] \in Inventory
<1>1. queue[a] \in Seq(Inventory)
  BY DEF QueueOK
<1> QED  BY <1>1, LenProperties, ElementOfSeq

\* evictLocked keeps a queue of inventories that is not too long.
LEMMA EvictKeeps ==
    ASSUME NEW items \in Seq(Inventory)
    PROVE  Evict(items) \in Seq(Inventory) /\ Len(Evict(items)) <= MaxItems
<1>1. Len(items) \in Nat /\ \A i \in 1 .. Len(items) : items[i] \in Inventory
  BY LenProperties, ElementOfSeq
<1>2. CASE Len(items) > MaxItems
  <2>1. Len(items) - MaxItems + 1 \in Int /\ Len(items) - MaxItems + 1 >= 1
    BY <1>1, <1>2, PipelineAssumption
  <2>2. \A i \in (Len(items) - MaxItems + 1) .. Len(items) : items[i] \in Inventory
    BY <1>1, <2>1
  <2>3. /\ SubSeq(items, Len(items) - MaxItems + 1, Len(items)) \in Seq(Inventory)
        /\ Len(SubSeq(items, Len(items) - MaxItems + 1, Len(items))) = MaxItems
    BY <1>1, <2>1, <2>2, SubSeqProperties, PipelineAssumption
  <2> QED  BY <1>2, <2>3, PipelineAssumption DEF Evict
<1>3. CASE ~(Len(items) > MaxItems)
  BY <1>1, <1>3, PipelineAssumption DEF Evict
<1> QED  BY <1>2, <1>3

LEMMA EnqueueKeeps ==
    ASSUME QueueOK, host \in [Agents -> Contents], NEW a \in Agents, NEW force \in BOOLEAN,
           queue' = [queue EXCEPT ![a] = Enqueue(a, force)]
    PROVE  QueueOK'
<1>1. [content |-> host[a], force |-> force] \in Inventory
  BY DEF Inventory
<1>2. Append(queue[a], [content |-> host[a], force |-> force]) \in Seq(Inventory)
  BY <1>1, QueueItems, AppendProperties
<1>3. Enqueue(a, force) \in Seq(Inventory) /\ Len(Enqueue(a, force)) <= MaxItems
  BY <1>2, EvictKeeps DEF Enqueue
<1> QED  BY <1>3 DEF QueueOK

LEMMA TailKeeps ==
    ASSUME QueueOK, NEW a \in Agents, queue[a] # <<>>, queue' = [queue EXCEPT ![a] = Tail(@)]
    PROVE  QueueOK'
<1>1. Tail(queue[a]) \in Seq(Inventory) /\ Len(Tail(queue[a])) = Len(queue[a]) - 1
  BY QueueItems, HeadTailProperties
<1>2. Len(Tail(queue[a])) <= MaxItems
  BY <1>1, QueueItems, PipelineAssumption DEF QueueOK
<1> QED  BY <1>1, <1>2 DEF QueueOK

---------------------------------------------------------------------------
(* The ingest's handlers *)

HandlerType == {Free} \cup Requests

LEMMA FreeIsFree == Free.at = "free" /\ Free \in HandlerType
  BY DEF Free, HandlerType

LEMMA AtWork ==
    ASSUME PipelineTypeOK, NEW h \in Handlers, handlers[h].at # "free"
    PROVE  /\ handlers[h] \in Requests
           /\ handlers[h].agent \in Agents /\ handlers[h].inv \in Inventory
           /\ handlers[h].inv.content \in Contents /\ handlers[h].inv.force \in BOOLEAN
<1>1. handlers[h] \in Requests
  BY FreeIsFree DEF PipelineTypeOK
<1> QED  BY <1>1 DEF Requests, Inventory

\* Proceeds leaves the request as it is.
LEMMA ProceedsKeeps ==
    ASSUME PipelineTypeOK, NEW h \in Handlers, handlers[h].at # "free", Proceeds(h, "import")
    PROVE  /\ handlers' \in [Handlers -> HandlerType]
           /\ handlers'[h].agent = handlers[h].agent /\ handlers'[h].inv = handlers[h].inv
           /\ handlers'[h].at = "import"
           /\ \A g \in Handlers : g # h => handlers'[g] = handlers[g]
<1> DEFINE r == [handlers[h] EXCEPT !.at = "import"]
<1>1. handlers[h] \in Requests /\ handlers \in [Handlers -> HandlerType]
  BY AtWork DEF PipelineTypeOK, HandlerType
<1>2. r \in HandlerType /\ r.agent = handlers[h].agent /\ r.inv = handlers[h].inv /\ r.at = "import"
  BY <1>1 DEF Requests, HandlerType
<1>3. handlers' = [handlers EXCEPT ![h] = r]
  BY <1>1 DEF Proceeds
<1> HIDE DEF r
<1> QED  BY <1>1, <1>2, <1>3

\* An answer frees the handler, and removes the head of the queue that waits for it, if one does.
LEMMA AnswersKeeps ==
    ASSUME IInv, NEW h \in Handlers, handlers[h].at # "free", Answers(h), tick' = tick
    PROVE  /\ handlers' \in [Handlers -> HandlerType]
           /\ handlers'[h] = Free /\ \A g \in Handlers : g # h => handlers'[g] = handlers[g]
           /\ sending' \in [Agents -> {None} \cup Handlers]
           /\ QueueOK' /\ WaitsForHead'
<1> DEFINE a == handlers[h].agent
<1>0. /\ a \in Agents /\ PipelineTypeOK /\ QueueOK /\ WaitsForHead
      /\ handlers \in [Handlers -> HandlerType] /\ sending \in [Agents -> {None} \cup Handlers]
  BY AtWork DEF IInv, PipelineTypeOK, HandlerType
<1>1. /\ handlers' \in [Handlers -> HandlerType]
      /\ handlers'[h] = Free /\ \A g \in Handlers : g # h => handlers'[g] = handlers[g]
  BY <1>0, FreeIsFree DEF Answers
<1>2. h # None
  BY PipelineAssumption
<1>3. \A b \in Agents : b # a => sending[b] # h
  BY <1>0, <1>2 DEF WaitsForHead
<1>4. CASE sending[a] = h
  <2>1. /\ queue' = [queue EXCEPT ![a] = Tail(@)] /\ sending' = [sending EXCEPT ![a] = None]
        /\ queue[a] # <<>>
    BY <1>0, <1>2, <1>4 DEF Answers, WaitsForHead
  <2>2. QueueOK' /\ sending' \in [Agents -> {None} \cup Handlers]
    BY <1>0, <2>1, TailKeeps
  <2>3. \A b \in Agents : b # a => sending'[b] = sending[b] /\ queue'[b] = queue[b]
    BY <1>0, <2>1 DEF QueueOK
  <2>4. sending'[a] = None
    BY <1>0, <2>1
  <2>5. WaitsForHead'
    <3> SUFFICES ASSUME NEW b \in Agents, sending'[b] # None
                 PROVE  /\ tick[b] # None /\ queue'[b] # <<>>
                        /\ handlers'[sending'[b]].at # "free"
                        /\ handlers'[sending'[b]].agent = b
                        /\ handlers'[sending'[b]].inv = Head(queue'[b])
      BY DEF WaitsForHead
    <3>1. b # a /\ sending'[b] = sending[b] /\ queue'[b] = queue[b] /\ sending[b] \in Handlers
      BY <1>0, <2>3, <2>4
    <3>2. handlers'[sending[b]] = handlers[sending[b]]
      BY <1>1, <1>3, <3>1
    <3> QED  BY <1>0, <3>1, <3>2 DEF WaitsForHead
  <2> QED  BY <1>1, <2>2, <2>5
<1>5. CASE sending[a] # h
  <2>1. queue' = queue /\ sending' = sending
    BY <1>5 DEF Answers
  <2>2. WaitsForHead'
    <3> SUFFICES ASSUME NEW b \in Agents, sending[b] # None
                 PROVE  /\ tick[b] # None /\ queue[b] # <<>>
                        /\ handlers'[sending[b]].at # "free"
                        /\ handlers'[sending[b]].agent = b
                        /\ handlers'[sending[b]].inv = Head(queue[b])
      BY <2>1 DEF WaitsForHead
    <3>1. sending[b] \in Handlers /\ sending[b] # h
      BY <1>0, <1>3, <1>5
    <3> QED  BY <1>0, <1>1, <3>1 DEF WaitsForHead
  <2> QED  BY <1>0, <1>1, <2>1, <2>2 DEF QueueOK
<1> QED  BY <1>4, <1>5

---------------------------------------------------------------------------
(* The parts of the state, and what leaves each of them alone *)

AgentTypeOK ==
    /\ host \in [Agents -> Contents]
    /\ tick \in [Agents -> {None, "run", "command"}]
    /\ sending \in [Agents -> {None} \cup Handlers]
    /\ command \in [Agents -> {"poll", "tick", "ack"}]
    /\ pending \in [Agents -> {None, "given", "polled"}]
    /\ tried \in [Agents -> BOOLEAN]

IngestTypeOK ==
    /\ handlers \in [Handlers -> HandlerType]
    /\ lastCycle \in [Agents -> {None} \cup Contents] /\ inflight \subseteq Agents \X Contents
    /\ gvmd \in [Agents -> {None} \cup Contents]
    /\ imported \in [Agents -> SUBSET Contents]

AgentSide == AgentTypeOK /\ QueueOK /\ WaitsForHead /\ AckIsEarned
IngestSide == IngestTypeOK /\ OneMarkEach /\ SkippedWasImported

LEMMA SeqItems ==
    ASSUME NEW q \in [Agents -> Seq(Inventory)], NEW a \in Agents
    PROVE  \A i \in DOMAIN q[a] : q[a][i] \in Inventory
<1>1. q[a] \in Seq(Inventory)
  OBVIOUS
<1> QED  BY <1>1, LenProperties, ElementOfSeq

\* The invariant is what is true of the two sides.
LEMMA TwoSides == IInv <=> AgentSide /\ IngestSide
<1>1. QueueOK => \A a \in Agents : /\ Len(queue[a]) <= MaxItems
                                  /\ \A i \in DOMAIN queue[a] : queue[a][i] \in Inventory
  BY SeqItems DEF QueueOK
<1> QED  BY <1>1 DEF IInv, AgentSide, IngestSide, PipelineTypeOK, AgentTypeOK, IngestTypeOK, HandlerType

LEMMA TwoSidesNext == AgentSide' /\ IngestSide' => IInv'
<1>1. QueueOK' => \A a \in Agents : /\ Len(queue'[a]) <= MaxItems
                                   /\ \A i \in DOMAIN queue'[a] : queue'[a][i] \in Inventory
  BY SeqItems DEF QueueOK
<1> QED  BY <1>1 DEF IInv, AgentSide, IngestSide, PipelineTypeOK, AgentTypeOK, IngestTypeOK, HandlerType

LEMMA SameIngest ==
    ASSUME IngestSide, UNCHANGED <<ingestVars, imported>>
    PROVE  IngestSide'
  BY DEF IngestSide, IngestTypeOK, OneMarkEach, SkippedWasImported, Importing, Cycle, ingestVars

LEMMA SameWaiting ==
    ASSUME WaitsForHead, UNCHANGED <<queue, tick, sending, handlers>>
    PROVE  WaitsForHead'
  BY DEF WaitsForHead

LEMMA SameEarned ==
    ASSUME AckIsEarned, UNCHANGED <<tick, command, pending, tried>>
    PROVE  AckIsEarned'
  BY DEF AckIsEarned

\* While no tick waits for a handler, the handlers may do what they like.
LEMMA NothingWaits ==
    ASSUME WaitsForHead, NEW a \in Agents, sending[a] = None,
           \A b \in Agents \ {a} : queue'[b] = queue[b] /\ tick'[b] = tick[b],
           sending' = sending, handlers' = handlers
    PROVE  WaitsForHead'
  BY DEF WaitsForHead

---------------------------------------------------------------------------
(* The agent's steps *)

LEMMA TickBeginsSafe ==
    ASSUME IInv, NEW a \in Agents, NEW by \in {"run", "command"},
           TickBegins(a, by) \/ TickBeginsBlind(a, by)
    PROVE  IInv'
<1>0. AgentSide /\ IngestSide /\ tick[a] = None /\ (by = "command" => command[a] = "tick")
  BY TwoSides DEF TickBegins, TickBeginsBlind, MayTick
<1>1. /\ tick' = [tick EXCEPT ![a] = by] /\ Tries(a, by)
      /\ UNCHANGED <<host, sending, command, pending, ingestVars, imported>>
  BY DEF TickBegins, TickBeginsBlind
<1>2. AgentTypeOK'
  BY <1>0, <1>1 DEF AgentSide, AgentTypeOK, Tries
<1>3. QueueOK' /\ \A b \in Agents : b # a => queue'[b] = queue[b]
  <2>1. CASE queue' = queue
    BY <1>0, <2>1 DEF AgentSide, QueueOK
  <2>2. CASE queue' = [queue EXCEPT ![a] = Enqueue(a, by = "command")]
    <3>1. (by = "command") \in BOOLEAN /\ host \in [Agents -> Contents] /\ QueueOK
      BY <1>0 DEF AgentSide, AgentTypeOK
    <3>2. \A b \in Agents : b # a => queue'[b] = queue[b]
      BY <2>2, <3>1 DEF QueueOK
    <3> QED  BY <2>2, <3>1, <3>2, EnqueueKeeps
  <2> QED  BY <2>1, <2>2 DEF TickBegins, TickBeginsBlind
<1>4. WaitsForHead'
  <2>1. sending[a] = None
    BY <1>0 DEF AgentSide, WaitsForHead
  <2>2. \A b \in Agents \ {a} : tick'[b] = tick[b]
    BY <1>0, <1>1 DEF AgentSide, AgentTypeOK
  <2> QED  BY <1>0, <1>1, <1>3, <2>1, <2>2, NothingWaits DEF AgentSide, ingestVars
<1>5. AckIsEarned'
  <2> SUFFICES ASSUME NEW b \in Agents
               PROVE  /\ tick'[b] = "command" => command[b] = "tick"
                      /\ pending[b] = "polled" => command[b] # "poll"
                      /\ pending[b] = "polled" /\ (command[b] = "ack" \/ tick'[b] = "command")
                             => tried'[b]
    BY <1>1 DEF AckIsEarned
  <2>1. CASE b # a
    <3>1. tick'[b] = tick[b] /\ tried'[b] = tried[b]
      BY <1>0, <1>1, <2>1 DEF AgentSide, AgentTypeOK, Tries
    <3> QED  BY <1>0, <3>1 DEF AgentSide, AckIsEarned
  <2>2. CASE b = a
    <3>1. /\ tick'[a] = by
          /\ by = "command" => tried'[a] = TRUE
          /\ by # "command" => tried'[a] = tried[a]
      BY <1>0, <1>1 DEF AgentSide, AgentTypeOK, Tries
    <3> QED  BY <1>0, <2>2, <3>1 DEF AgentSide, AckIsEarned
  <2> QED  BY <2>1, <2>2
<1>6. IngestSide'
  BY <1>0, <1>1, SameIngest
<1> QED  BY <1>2, <1>3, <1>4, <1>5, <1>6, TwoSidesNext DEF AgentSide

\* A tick returns: nothing waits for its agent, and the command that it was for is acked next.
LEMMA TickEndsSafe ==
    ASSUME IInv, NEW a \in Agents, TickEnds(a),
           UNCHANGED <<host, queue, pending, ingestVars, tried, imported>>
    PROVE  IInv'
<1>0. AgentSide /\ IngestSide
  BY TwoSides
<1>1. /\ tick' = [tick EXCEPT ![a] = None] /\ sending' = [sending EXCEPT ![a] = None]
      /\ command' = IF tick[a] = "command" THEN [command EXCEPT ![a] = "ack"] ELSE command
  BY DEF TickEnds
<1>2. AgentTypeOK'
  BY <1>0, <1>1 DEF AgentSide, AgentTypeOK
<1>3. /\ tick'[a] = None /\ sending'[a] = None
      /\ command'[a] = IF tick[a] = "command" THEN "ack" ELSE command[a]
      /\ \A b \in Agents : b # a => /\ tick'[b] = tick[b] /\ sending'[b] = sending[b]
                                    /\ command'[b] = command[b]
  BY <1>0, <1>1 DEF AgentSide, AgentTypeOK
<1>4. WaitsForHead'
  BY <1>0, <1>3 DEF AgentSide, WaitsForHead, ingestVars
<1>5. AckIsEarned'
  BY <1>0, <1>3, PipelineAssumption DEF AgentSide, AckIsEarned
<1>6. IngestSide' /\ QueueOK'
  BY <1>0, SameIngest DEF AgentSide, QueueOK
<1> QED  BY <1>2, <1>4, <1>5, <1>6, TwoSidesNext DEF AgentSide

LEMMA SendRefusedSafe ==
    ASSUME IInv, NEW a \in Agents, SendRefused(a)
    PROVE  IInv'
<1>0. AgentSide /\ IngestSide /\ sending[a] = None /\ queue[a] # <<>>
  BY TwoSides DEF SendRefused, Flushing
<1>1. QueueOK' /\ \A b \in Agents : b # a => queue'[b] = queue[b]
  BY <1>0, TailKeeps DEF SendRefused, AgentSide, QueueOK
<1>2. WaitsForHead'
  BY <1>0, <1>1, NothingWaits DEF AgentSide, SendRefused, ingestVars
<1>3. AgentTypeOK' /\ AckIsEarned'
  BY <1>0, SameEarned DEF AgentSide, AgentTypeOK, SendRefused
<1>4. IngestSide'
  BY <1>0, SameIngest DEF SendRefused
<1> QED  BY <1>1, <1>2, <1>3, <1>4, TwoSidesNext DEF AgentSide

\* A step of the command channel, or of the host, that is no tick.
LEMMA ChannelSafe ==
    ASSUME IInv, UNCHANGED <<queue, tick, sending, ingestVars, imported>>,
           AgentTypeOK', AckIsEarned'
    PROVE  IInv'
<1>1. AgentSide /\ IngestSide
  BY TwoSides
<1>2. IngestSide' /\ QueueOK' /\ WaitsForHead'
  BY <1>1, SameIngest, SameWaiting DEF AgentSide, QueueOK, ingestVars
<1> QED  BY <1>2, TwoSidesNext DEF AgentSide

LEMMA HostChangesSafe == ASSUME IInv, NEW a \in Agents, HostChanges(a) PROVE IInv'
<1>1. AgentSide
  BY TwoSides
<1>2. AgentTypeOK' /\ AckIsEarned'
  BY <1>1, SameEarned DEF AgentSide, AgentTypeOK, HostChanges, agentVars
<1> QED  BY <1>2, ChannelSafe DEF HostChanges, agentVars

LEMMA AsksScanSafe == ASSUME IInv, NEW a \in Agents, AsksScan(a) PROVE IInv'
<1>1. AgentSide
  BY TwoSides
<1>2. AgentTypeOK'
  BY <1>1 DEF AgentSide, AgentTypeOK, AsksScan, agentVars
<1>3. AckIsEarned'
  BY <1>1 DEF AgentSide, AgentTypeOK, AckIsEarned, AsksScan, agentVars
<1> QED  BY <1>2, <1>3, ChannelSafe DEF AsksScan, agentVars

LEMMA PollsSafe == ASSUME IInv, NEW a \in Agents, Polls(a) PROVE IInv'
<1>1. AgentSide
  BY TwoSides
<1>2. AgentTypeOK'
  BY <1>1 DEF AgentSide, AgentTypeOK, Polls
<1>3. AckIsEarned'
  BY <1>1 DEF AgentSide, AgentTypeOK, AckIsEarned, Polls
<1> QED  BY <1>2, <1>3, ChannelSafe DEF Polls

LEMMA AcksSafe == ASSUME IInv, NEW a \in Agents, Acks(a) \/ AckIsLost(a) PROVE IInv'
<1>1. AgentSide
  BY TwoSides
<1>2. /\ command' = [command EXCEPT ![a] = "poll"] /\ command[a] = "ack"
      /\ \/ pending' = [pending EXCEPT ![a] = PendingAfterAck(a)]
         \/ pending' = [pending EXCEPT ![a] = IF @ = "polled" THEN "given" ELSE @]
      /\ UNCHANGED <<host, queue, tick, sending, ingestVars, tried, imported>>
  BY DEF Acks, AckIsLost, Forgets
<1>3. AgentTypeOK'
  BY <1>1, <1>2 DEF AgentSide, AgentTypeOK, PendingAfterAck
<1>4. pending'[a] # "polled" /\ \A b \in Agents : b # a => pending'[b] = pending[b]
  BY <1>1, <1>2, PipelineAssumption DEF AgentSide, AgentTypeOK, PendingAfterAck
<1>5. AckIsEarned'
  BY <1>1, <1>2, <1>4 DEF AgentSide, AgentTypeOK, AckIsEarned
<1> QED  BY <1>2, <1>3, <1>5, ChannelSafe

LEMMA ControlPlaneRestartsSafe == ASSUME IInv, ControlPlaneRestarts PROVE IInv'
<1>1. AgentSide
  BY TwoSides
<1>2. AgentTypeOK' /\ AckIsEarned'
  BY <1>1, PipelineAssumption
     DEF AgentSide, AgentTypeOK, AckIsEarned, ControlPlaneRestarts, agentVars
<1> QED  BY <1>2, ChannelSafe DEF ControlPlaneRestarts, agentVars

LEMMA AgentRestartsSafe == ASSUME IInv, NEW a \in Agents, AgentRestarts(a) PROVE IInv'
<1>0. AgentSide /\ IngestSide
  BY TwoSides
<1>1. AgentTypeOK'
  BY <1>0 DEF AgentSide, AgentTypeOK, AgentRestarts, Forgets
<1>2. /\ tick'[a] = None /\ sending'[a] = None /\ pending'[a] # "polled"
      /\ \A b \in Agents : b # a => /\ tick'[b] = tick[b] /\ sending'[b] = sending[b]
                                    /\ pending'[b] = pending[b] /\ command'[b] = command[b]
  BY <1>0 DEF AgentSide, AgentTypeOK, AgentRestarts, Forgets
<1>3. WaitsForHead'
  BY <1>0, <1>2 DEF AgentSide, WaitsForHead, AgentRestarts, ingestVars
<1>4. AckIsEarned'
  BY <1>0, <1>2, PipelineAssumption DEF AgentSide, AckIsEarned, AgentRestarts
<1>5. IngestSide' /\ QueueOK'
  BY <1>0, SameIngest DEF AgentSide, QueueOK, AgentRestarts
<1> QED  BY <1>1, <1>3, <1>4, <1>5, TwoSidesNext DEF AgentSide

---------------------------------------------------------------------------
(* The ingest's steps *)

LEMMA ReceivesSafe ==
    ASSUME IInv, NEW a \in Agents, NEW h \in Handlers, Receives(a, h)
    PROVE  IInv'
<1>0. /\ AgentSide /\ IngestSide /\ sending[a] = None /\ tick[a] # None /\ queue[a] # <<>>
      /\ handlers[h] = Free /\ h # None
  BY TwoSides, PipelineAssumption DEF Receives, Flushing
<1> DEFINE request == [agent |-> a, inv |-> Head(queue[a]), at |-> "put"]
<1>1. request \in HandlerType
  <2>1. Head(queue[a]) \in Inventory
    BY <1>0, HeadTailProperties DEF AgentSide, QueueOK
  <2> QED  BY <2>1 DEF HandlerType, Requests
<1>2. /\ handlers' \in [Handlers -> HandlerType] /\ handlers'[h] = request
      /\ \A g \in Handlers : g # h => handlers'[g] = handlers[g]
  BY <1>0, <1>1 DEF Receives, IngestSide, IngestTypeOK
<1>3. /\ sending' \in [Agents -> {None} \cup Handlers] /\ sending'[a] = h
      /\ \A b \in Agents : b # a => sending'[b] = sending[b]
  BY <1>0 DEF Receives, AgentSide, AgentTypeOK
<1>4. AgentTypeOK' /\ QueueOK' /\ AckIsEarned'
  BY <1>0, <1>3, SameEarned DEF AgentSide, AgentTypeOK, QueueOK, Receives
<1>5. WaitsForHead'
  <2> SUFFICES ASSUME NEW b \in Agents, sending'[b] # None
               PROVE  /\ tick[b] # None /\ queue[b] # <<>>
                      /\ handlers'[sending'[b]].at # "free"
                      /\ handlers'[sending'[b]].agent = b
                      /\ handlers'[sending'[b]].inv = Head(queue[b])
    BY DEF WaitsForHead, Receives
  <2>1. CASE b = a
    BY <2>1, <1>0, <1>2, <1>3
  <2>2. CASE b # a
    <3>1. sending'[b] = sending[b] /\ sending[b] \in Handlers /\ sending[b] # h
      BY <2>2, <1>0, <1>3, FreeIsFree DEF AgentSide, AgentTypeOK, WaitsForHead
    <3> QED  BY <1>0, <1>2, <3>1 DEF AgentSide, WaitsForHead
  <2> QED  BY <2>1, <2>2
<1>6. Importing' = Importing /\ \A g \in Importing : handlers'[g] = handlers[g]
  BY <1>0, <1>2, FreeIsFree DEF Importing
<1>7. IngestSide'
  BY <1>0, <1>2, <1>6
     DEF IngestSide, IngestTypeOK, OneMarkEach, SkippedWasImported, Cycle, Receives
<1> QED  BY <1>4, <1>5, <1>7, TwoSidesNext DEF AgentSide

\* An answer disturbs nothing else on the agent's side.
LEMMA AnswersAgent ==
    ASSUME IInv, NEW h \in Handlers, handlers[h].at # "free", Answers(h),
           UNCHANGED <<host, tick, command, pending, tried>>
    PROVE  AgentSide'
<1>1. AgentSide
  BY TwoSides
<1> QED  BY <1>1, AnswersKeeps, SameEarned DEF AgentSide, AgentTypeOK

LEMMA SkipsSafe == ASSUME IInv, NEW h \in Handlers, Skips(h) PROVE IInv'
<1>0. IngestSide /\ handlers[h].at = "put"
  BY TwoSides DEF Skips
<1>1. AgentSide'
  BY <1>0, AnswersAgent DEF Skips
<1>2. /\ handlers' \in [Handlers -> HandlerType] /\ handlers'[h].at = "free"
      /\ \A g \in Handlers : g # h => handlers'[g] = handlers[g]
  BY <1>0, AnswersKeeps, FreeIsFree DEF Skips
<1>3. Importing' = Importing /\ \A g \in Importing : handlers'[g] = handlers[g]
  BY <1>0, <1>2 DEF Importing
<1>4. IngestSide'
  BY <1>0, <1>2, <1>3
     DEF IngestSide, IngestTypeOK, OneMarkEach, SkippedWasImported, Cycle, Skips
<1> QED  BY <1>1, <1>4, TwoSidesNext

LEMMA BeginsSafe == ASSUME IInv, NEW h \in Handlers, Begins(h) PROVE IInv'
<1>0. /\ AgentSide /\ IngestSide /\ PipelineTypeOK /\ handlers[h].at = "put" /\ ~Duplicate(h)
      /\ Proceeds(h, "import")
  BY TwoSides DEF Begins, IInv
<1>1. /\ handlers' \in [Handlers -> HandlerType]
      /\ handlers'[h].agent = handlers[h].agent /\ handlers'[h].inv = handlers[h].inv
      /\ handlers'[h].at = "import"
      /\ \A g \in Handlers : g # h => handlers'[g] = handlers[g]
  BY <1>0, ProceedsKeeps
<1>2. Cycle(h) \in Agents \X Contents
  BY <1>0, AtWork DEF Cycle
<1>3. \A g \in Handlers : Cycle(g)' = Cycle(g)
  BY <1>1 DEF Cycle
<1>4. AgentSide'
  <2>1. UNCHANGED <<host, queue, tick, sending, command, pending, tried>>
    BY DEF Begins, agentVars
  <2>2. WaitsForHead'
    <3>1. \A b \in Agents : sending[b] # None => sending[b] \in Handlers
      BY <1>0 DEF AgentSide, AgentTypeOK
    <3>2. \A g \in Handlers : handlers[g].at # "free" =>
              /\ handlers'[g].at # "free" /\ handlers'[g].agent = handlers[g].agent
              /\ handlers'[g].inv = handlers[g].inv
      BY <1>1
    <3> QED  BY <1>0, <2>1, <3>1, <3>2 DEF AgentSide, WaitsForHead
  <2> QED  BY <1>0, <2>1, <2>2, SameEarned DEF AgentSide, AgentTypeOK, QueueOK
<1>5. IngestTypeOK' /\ SkippedWasImported'
  BY <1>0, <1>1, <1>2 DEF IngestSide, IngestTypeOK, SkippedWasImported, Begins
<1>6. CASE handlers[h].inv.force
  <2>1. Importing' = Importing /\ inflight' = inflight /\ lastCycle' = lastCycle
    BY <1>0, <1>1, <1>6 DEF Importing, Begins
  <2>2. \A g \in Importing : g \in Handlers /\ handlers'[g].agent = handlers[g].agent
                           /\ handlers'[g].inv = handlers[g].inv
    BY <1>1 DEF Importing
  <2>3. OneMarkEach'
    BY <1>0, <1>3, <2>1, <2>2 DEF IngestSide, OneMarkEach
  <2> QED  BY <1>4, <1>5, <2>3, TwoSidesNext DEF IngestSide
<1>7. CASE ~handlers[h].inv.force
  <2>1. Importing' = Importing \cup {h} /\ h \notin Importing
    BY <1>0, <1>1, <1>7 DEF Importing
  <2>2. inflight' = inflight \cup {Cycle(h)} /\ lastCycle' = lastCycle
    BY <1>7 DEF Begins
  <2>3. Cycle(h) \notin inflight /\ lastCycle[handlers[h].agent] # handlers[h].inv.content
    BY <1>0, <1>7 DEF Duplicate
  <2>4. \A g \in Importing : g \in Handlers /\ Cycle(g) \in inflight
    BY <1>0 DEF Importing, IngestSide, OneMarkEach
  <2>5. OneMarkEach'
    <3>1. inflight' = {Cycle(g)' : g \in Importing'}
      BY <1>0, <1>3, <2>1, <2>2, <2>4 DEF IngestSide, OneMarkEach
    <3>2. \A g, k \in Importing' : Cycle(g)' = Cycle(k)' => g = k
      BY <1>0, <1>3, <2>1, <2>3, <2>4 DEF IngestSide, OneMarkEach
    <3>3. \A g \in Importing' : lastCycle'[handlers'[g].agent] # handlers'[g].inv.content
      BY <1>0, <1>1, <2>1, <2>2, <2>3, <2>4 DEF IngestSide, OneMarkEach
    <3> QED  BY <3>1, <3>2, <3>3 DEF OneMarkEach
  <2> QED  BY <1>4, <1>5, <2>5, TwoSidesNext DEF IngestSide
<1> QED  BY <1>6, <1>7

\* endCycle and the answer, after an import that succeeded or did not.
LEMMA EndsSafe ==
    ASSUME IInv, NEW h \in Handlers, NEW ok \in BOOLEAN, handlers[h].at = "import", Ends(h, ok),
           Reports(h) \/ (~ok /\ UNCHANGED <<gvmd, imported>>)
    PROVE  IInv'
<1> DEFINE a == handlers[h].agent
           c == handlers[h].inv.content
<1>0. /\ IngestSide /\ PipelineTypeOK /\ Answers(h)
      /\ a \in Agents /\ c \in Contents /\ handlers[h].inv.force \in BOOLEAN
  BY TwoSides, AtWork DEF IInv, Ends
<1>1. AgentSide'
  BY AnswersAgent DEF Ends
<1>2. /\ handlers' \in [Handlers -> HandlerType] /\ handlers'[h].at = "free"
      /\ \A g \in Handlers : g # h => handlers'[g] = handlers[g]
  BY AnswersKeeps, FreeIsFree DEF Ends
<1>3. /\ imported' \in [Agents -> SUBSET Contents] /\ gvmd' \in [Agents -> {None} \cup Contents]
      /\ \A b \in Agents : imported[b] \subseteq imported'[b]
      /\ ok => c \in imported'[a]
  <2>1. imported \in [Agents -> SUBSET Contents] /\ gvmd \in [Agents -> {None} \cup Contents]
    BY <1>0 DEF IngestSide, IngestTypeOK
  <2>2. CASE Reports(h)
    BY <1>0, <2>1, <2>2 DEF Reports
  <2>3. CASE ~ok /\ UNCHANGED <<gvmd, imported>>
    BY <2>1, <2>3
  <2> QED  BY <2>2, <2>3
<1>4. /\ lastCycle \in [Agents -> {None} \cup Contents] /\ inflight \subseteq Agents \X Contents
      /\ OneMarkEach /\ SkippedWasImported /\ c # None
  BY <1>0, PipelineAssumption DEF IngestSide, IngestTypeOK
<1>5. CASE handlers[h].inv.force
  <2>1. /\ inflight' = inflight /\ lastCycle' = lastCycle /\ Importing' = Importing
        /\ \A g \in Importing : handlers'[g] = handlers[g]
    BY <1>2, <1>5 DEF Ends, Importing
  <2>2. IngestSide'
    BY <1>2, <1>3, <1>4, <2>1 DEF IngestSide, IngestTypeOK, OneMarkEach, SkippedWasImported, Cycle
  <2> QED  BY <1>1, <2>2, TwoSidesNext
<1>6. CASE ~handlers[h].inv.force
  <2>1. /\ inflight' = inflight \ {Cycle(h)}
        /\ lastCycle' = IF ok THEN [lastCycle EXCEPT ![a] = c] ELSE lastCycle
    BY <1>6 DEF Ends, Records
  <2>2. /\ Importing' = Importing \ {h} /\ h \in Importing
        /\ \A g \in Importing' : handlers'[g] = handlers[g] /\ g \in Importing
    BY <1>2, <1>6 DEF Importing
  <2>3. \A g \in Importing' : Cycle(g)' = Cycle(g) /\ Cycle(g) # Cycle(h)
    BY <1>4, <2>2 DEF Cycle, OneMarkEach
  <2>4. OneMarkEach'
    <3>1. inflight' = {Cycle(g)' : g \in Importing'}
      BY <1>4, <2>1, <2>2, <2>3 DEF OneMarkEach
    <3>2. \A g, k \in Importing' : Cycle(g)' = Cycle(k)' => g = k
      BY <1>4, <2>2, <2>3 DEF OneMarkEach
    <3>3. ASSUME NEW g \in Importing'
          PROVE  lastCycle'[handlers'[g].agent] # handlers'[g].inv.content
      <4>1. /\ lastCycle[handlers[g].agent] # handlers[g].inv.content
            /\ handlers'[g] = handlers[g]
        BY <1>4, <2>2 DEF OneMarkEach
      <4>2. ~(handlers[g].agent = a /\ handlers[g].inv.content = c)
        BY <2>3 DEF Cycle
      <4> QED  BY <1>0, <1>4, <2>1, <4>1, <4>2
    <3> QED  BY <3>1, <3>2, <3>3 DEF OneMarkEach
  <2>5. SkippedWasImported'
    BY <1>0, <1>3, <1>4, <2>1 DEF SkippedWasImported
  <2>6. IngestTypeOK'
    BY <1>0, <1>2, <1>3, <1>4, <2>1 DEF IngestTypeOK
  <2> QED  BY <1>1, <2>4, <2>5, <2>6, TwoSidesNext DEF IngestSide
<1> QED  BY <1>0, <1>5, <1>6

LEMMA IngestRestartsSafe == ASSUME IInv, IngestRestarts PROVE IInv'
<1>0. AgentSide /\ IngestSide
  BY TwoSides
<1>1. /\ \A h \in Handlers : handlers'[h] = Free
      /\ handlers' \in [Handlers -> HandlerType]
      /\ lastCycle' = [a \in Agents |-> None] /\ inflight' = {}
      /\ gvmd' = gvmd /\ imported' = imported
  BY FreeIsFree DEF IngestRestarts
<1>2. Importing' = {}
  BY <1>1, FreeIsFree DEF Importing
<1>3. IngestSide'
  BY <1>0, <1>1, <1>2 DEF IngestSide, IngestTypeOK, OneMarkEach, SkippedWasImported
<1>4. /\ AgentTypeOK' /\ QueueOK' /\ WaitsForHead'
  BY <1>0 DEF AgentSide, AgentTypeOK, QueueOK, WaitsForHead, IngestRestarts
<1>5. AckIsEarned'
  <2> SUFFICES ASSUME NEW a \in Agents
               PROVE  /\ tick'[a] = "command" => command'[a] = "tick"
                      /\ pending[a] = "polled" => command'[a] # "poll"
                      /\ pending[a] = "polled" /\ (command'[a] = "ack" \/ tick'[a] = "command")
                             => tried[a]
    BY DEF AckIsEarned, IngestRestarts
  <2>1. /\ tick'[a] = IF sending[a] # None THEN None ELSE tick[a]
        /\ command'[a] = IF sending[a] # None /\ tick[a] = "command" THEN "ack" ELSE command[a]
    BY DEF IngestRestarts
  <2> QED  BY <1>0, <2>1, PipelineAssumption DEF AgentSide, AckIsEarned
<1> QED  BY <1>3, <1>4, <1>5, TwoSidesNext DEF AgentSide

---------------------------------------------------------------------------
(* The theorems *)

LEMMA Initial == PipelineInit => IInv
<1> SUFFICES ASSUME PipelineInit PROVE IInv
  OBVIOUS
<1>1. AgentTypeOK /\ WaitsForHead
  BY DEF PipelineInit, AgentTypeOK, WaitsForHead
<1>2. QueueOK
  BY PipelineAssumption, EmptySeq DEF PipelineInit, QueueOK
<1>3. AckIsEarned
  BY PipelineAssumption DEF PipelineInit, AckIsEarned
<1>4. Importing = {}
  BY FreeIsFree DEF PipelineInit, Importing
<1>5. IngestSide
  BY <1>4, FreeIsFree DEF PipelineInit, IngestSide, IngestTypeOK, OneMarkEach, SkippedWasImported
<1> QED  BY <1>1, <1>2, <1>3, <1>5, TwoSides DEF AgentSide

LEMMA Inductive == IInv /\ [PipelineNext]_pipelineVars => IInv'
<1> SUFFICES ASSUME IInv, [PipelineNext]_pipelineVars PROVE IInv'
  OBVIOUS
<1>1. CASE UNCHANGED pipelineVars
  <2>1. AgentSide /\ IngestSide
    BY TwoSides
  <2>2. IngestSide' /\ AgentSide'
    BY <1>1, <2>1, SameIngest, SameWaiting, SameEarned
       DEF pipelineVars, agentVars, ingestVars, AgentSide, AgentTypeOK, QueueOK
  <2> QED  BY <2>2, TwoSidesNext
<1>2. ASSUME NEW a \in Agents, RunLoop(a) \/ TickBegins(a, "command")
      PROVE  IInv'
  BY <1>2, TickBeginsSafe, TickEndsSafe, ReceivesSafe DEF RunLoop, Flushed
<1>3. ASSUME NEW h \in Handlers, Serves(h) \/ ImportFails(h)
      PROVE  IInv'
  BY <1>3, SkipsSafe, BeginsSafe, EndsSafe DEF Serves, Imports, ImportFails
<1>4. CASE Progress
  BY <1>2, <1>3, <1>4, PollsSafe, AcksSafe DEF Progress
<1>5. CASE Disturbance
  <2>1. ASSUME NEW a \in Agents, SendFails(a) \/ GivesUp(a)
        PROVE  IInv'
    BY <2>1, TickEndsSafe DEF SendFails, GivesUp
  <2> QED  BY <1>3, <1>5, <2>1, HostChangesSafe, AsksScanSafe, AgentRestartsSafe, TickBeginsSafe,
              SendRefusedSafe, AcksSafe, IngestRestartsSafe, ControlPlaneRestartsSafe
           DEF Disturbance
<1> QED  BY <1>1, <1>4, <1>5 DEF PipelineNext

\* The invariant everything below rests on.
THEOREM Invariant == PipelineSpec => []IInv
  BY Initial, Inductive, PTL DEF PipelineSpec

\* endCycle records only what was imported, so that what beginCycle skips as processed was.
THEOREM PipelineHolds == PipelineSpec => []PipelineInv
<1>1. IInv => PipelineInv
  BY DEF IInv, PipelineInv
<1> QED  BY <1>1, Invariant, PTL

\* As many marks as handlers that import: the cycles of two are never the same.
LEMMA MarksCount ==
    ASSUME OneMarkEach
    PROVE  Cardinality(inflight) = Cardinality(Importing)
<1> DEFINE f == [h \in Importing |-> Cycle(h)]
<1>1. IsFiniteSet(Importing)
  BY PipelineAssumption, FS_Subset DEF Importing
<1>2. f \in Bijection(Importing, inflight)
  <2>1. f \in [Importing -> inflight]
    BY DEF OneMarkEach
  <2>2. \A g, h \in Importing : f[g] = f[h] => g = h
    BY DEF OneMarkEach
  <2>3. \A t \in inflight : \E h \in Importing : f[h] = t
    BY DEF OneMarkEach
  <2> HIDE DEF f
  <2> QED  BY <2>1, <2>2, <2>3, Fun_IsBij
<1>3. ExistsBijection(Importing, inflight)
  BY <1>2 DEF ExistsBijection
<1> QED  BY <1>1, <1>3, FS_Bijection

\* beginCycle and endCycle: one import of a cycle at a time, and none of the cycle last recorded.
THEOREM CyclesAreSingle == PipelineSpec => []OneImportPerCycle
<1>1. IInv => OneImportPerCycle
  BY MarksCount DEF IInv, OneMarkEach, OneImportPerCycle, Importing
<1> QED  BY <1>1, Invariant, PTL

\* Queue.Ack names what it acks: a command goes when it was tried, or with its process.
THEOREM AcksAreEarned == PipelineSpec => AckedScanWasTried
<1>1. ASSUME IInv, [PipelineNext]_pipelineVars
      PROVE  [\A a \in Agents :
                 pending[a] # None /\ pending'[a] = None => tried[a] \/ command'[a] = command[a]]_pipelineVars
  <2> SUFFICES ASSUME NEW a \in Agents, pending[a] # None, pending'[a] = None,
                      command'[a] # command[a]
               PROVE  tried[a]
    OBVIOUS
  <2>1. pending \in [Agents -> {None, "given", "polled"}] /\ command \in [Agents -> {"poll", "tick", "ack"}]
    BY <1>1 DEF IInv, PipelineTypeOK
  <2>2. PICK b \in Agents : \/ Acks(b) \/ AckIsLost(b) \/ AgentRestarts(b) \/ AsksScan(b)
                            \/ Polls(b) \/ ControlPlaneRestarts
    BY <1>1
       DEF PipelineNext, Progress, Disturbance, RunLoop, Serves, TickBegins, TickBeginsBlind, Flushed,
           Receives, Skips, Begins, Imports, ImportFails, Ends, SendFails, SendRefused, GivesUp,
           HostChanges, IngestRestarts, pipelineVars, agentVars
  <2>3. Acks(b) /\ a = b
    BY <2>1, <2>2, PipelineAssumption
       DEF Acks, AckIsLost, AgentRestarts, AsksScan, Polls, ControlPlaneRestarts, Forgets, agentVars
  <2>4. command[a] = "ack" /\ pending[a] = "polled"
    BY <2>1, <2>3 DEF Acks, PendingAfterAck
  <2> QED  BY <1>1, <2>4 DEF IInv, AckIsEarned
<1> QED  BY <1>1, Invariant, PTL DEF PipelineSpec, AckedScanWasTried

\* Queue.Flush: the item that goes when an answer arrives is the one that was answered.
THEOREM AnsweredIsRemoved == PipelineSpec => []WaitsForHead
<1>1. IInv => WaitsForHead
  BY DEF IInv
<1> QED  BY <1>1, Invariant, PTL

---------------------------------------------------------------------------
(* The order of versions, by which Windows hosts are judged (Correlation) *)

Part(v, i) == IF i \in DOMAIN v THEN v[i] ELSE 0

\* The first part in which two versions differ decides.
Precedes(a, b) ==
    \E i \in Nat \ {0} : Part(a, i) < Part(b, i) /\ \A j \in 1..(i - 1) : Part(a, j) = Part(b, j)

\* The loop of versionLess ends at the longer of the two.
LEMMA LessMeans ==
    ASSUME NEW a \in Seq(Nat), NEW b \in Seq(Nat)
    PROVE  /\ VersionLess(a, b) <=> a # <<>> /\ b # <<>> /\ Precedes(a, b)
           /\ \A i \in Nat \ {0} : Part(a, i) \in Nat /\ Part(b, i) \in Nat
           /\ Precedes(a, b) \/ Precedes(b, a) \/ \A i \in Nat \ {0} : Part(a, i) = Part(b, i)
<1> DEFINE n == Max({Len(a), Len(b)})
           differ == {i \in 1..n : Part(a, i) # Part(b, i)}
<1>1. \A i \in Nat \ {0} : Part(a, i) \in Nat /\ Part(b, i) \in Nat
  BY DEF Part
<1>2. n \in Nat /\ Len(a) <= n /\ Len(b) <= n
  <2>1. Len(a) \in Nat /\ Len(b) \in Nat
    OBVIOUS
  <2>2. \E m \in {Len(a), Len(b)} : \A k \in {Len(a), Len(b)} : m >= k
    BY <2>1
  <2> QED  BY <2>1, <2>2 DEF Max
<1>3. VersionLess(a, b) <=> /\ a # <<>> /\ b # <<>> /\ differ # {}
                            /\ Part(a, Min(differ)) < Part(b, Min(differ))
  BY DEF VersionLess, Part
<1>4. \A i \in Nat \ {0} : i \in differ <=> Part(a, i) # Part(b, i)
  <2>1. ASSUME NEW i \in Nat \ {0}, i > n PROVE Part(a, i) = 0 /\ Part(b, i) = 0
    <3>1. i \notin DOMAIN a /\ i \notin DOMAIN b
      <4> HIDE DEF n
      <4> QED  BY <1>2, <2>1
    <3> QED  BY <3>1 DEF Part
  <2> HIDE DEF n
  <2>2. \A i \in Nat \ {0} : i \in 1..n \/ i > n
    BY <1>2
  <2> QED  BY <2>1, <2>2
<1>5. differ \subseteq Nat /\ differ \subseteq Nat \ {0}
  BY <1>2
<1> HIDE DEF n, differ
<1>6. CASE differ = {}
  <2>1. \A i \in Nat \ {0} : Part(a, i) = Part(b, i)
    BY <1>4, <1>6
  <2>2. ~Precedes(a, b)
    BY <1>1, <2>1 DEF Precedes
  <2> QED  BY <1>1, <1>3, <1>6, <2>1, <2>2
<1>7. CASE differ # {}
  <2> DEFINE m == Min(differ)
  <2>1. m \in differ /\ \A k \in differ : m <= k
    BY <1>5, <1>7, LeastNumber
  <2> HIDE DEF m
  <2>2. m \in Nat \ {0} /\ Part(a, m) # Part(b, m) /\ \A j \in 1..(m - 1) : Part(a, j) = Part(b, j)
    BY <1>4, <1>5, <2>1
  <2>3. Precedes(a, b) <=> Part(a, m) < Part(b, m)
    <3>1. ASSUME NEW i \in Nat \ {0}, Part(a, i) < Part(b, i), \A j \in 1..(i - 1) : Part(a, j) = Part(b, j)
          PROVE  i = m
      BY <1>1, <1>4, <2>1, <2>2, <3>1
    <3> QED  BY <2>2, <3>1 DEF Precedes
  <2>4. Precedes(b, a) <=> Part(b, m) < Part(a, m)
    <3>1. ASSUME NEW i \in Nat \ {0}, Part(b, i) < Part(a, i), \A j \in 1..(i - 1) : Part(b, j) = Part(a, j)
          PROVE  i = m
      BY <1>1, <1>4, <2>1, <2>2, <3>1
    <3> QED  BY <2>2, <3>1 DEF Precedes
  <2>5. VersionLess(a, b) <=> a # <<>> /\ b # <<>> /\ Part(a, m) < Part(b, m)
    BY <1>3, <1>7 DEF m
  <2> QED  BY <1>1, <2>2, <2>3, <2>4, <2>5
<1> QED  BY <1>6, <1>7

\* versionLess: a strict order of versions of any lengths, in which only versions that are equal but for
\* zeros at their end are in no order; and nothing is before or after what could not be read.
THEOREM VersionsAreOrdered ==
    \A a, b, c \in Seq(Nat) :
        /\ ~(VersionLess(a, b) /\ VersionLess(b, a))
        /\ VersionLess(a, b) /\ VersionLess(b, c) => VersionLess(a, c)
        /\ a # <<>> /\ b # <<>> =>
              VersionLess(a, b) \/ VersionLess(b, a) \/ \A i \in Nat \ {0} : Part(a, i) = Part(b, i)
<1> SUFFICES ASSUME NEW a \in Seq(Nat), NEW b \in Seq(Nat), NEW c \in Seq(Nat)
             PROVE  /\ ~(VersionLess(a, b) /\ VersionLess(b, a))
                    /\ VersionLess(a, b) /\ VersionLess(b, c) => VersionLess(a, c)
                    /\ a # <<>> /\ b # <<>> =>
                          VersionLess(a, b) \/ VersionLess(b, a) \/ \A i \in Nat \ {0} : Part(a, i) = Part(b, i)
  OBVIOUS
<1>1. \A i \in Nat \ {0} : Part(a, i) \in Nat /\ Part(b, i) \in Nat /\ Part(c, i) \in Nat
  BY LessMeans
<1>2. ~(Precedes(a, b) /\ Precedes(b, a))
  <2> SUFFICES ASSUME NEW i \in Nat \ {0}, Part(a, i) < Part(b, i), \A j \in 1..(i - 1) : Part(a, j) = Part(b, j),
                      NEW k \in Nat \ {0}, Part(b, k) < Part(a, k), \A j \in 1..(k - 1) : Part(b, j) = Part(a, j)
               PROVE  FALSE
    BY DEF Precedes
  <2>1. i < k => i \in 1..(k - 1)
    OBVIOUS
  <2>2. k < i => k \in 1..(i - 1)
    OBVIOUS
  <2>3. Part(a, i) \in Nat /\ Part(b, i) \in Nat /\ Part(a, k) \in Nat /\ Part(b, k) \in Nat
    BY <1>1
  <2>4. i < k \/ k < i \/ i = k
    OBVIOUS
  <2> QED  BY <2>1, <2>2, <2>3, <2>4
<1>3. ASSUME Precedes(a, b), Precedes(b, c)
      PROVE  Precedes(a, c)
  <2>1. PICK i \in Nat \ {0} : Part(a, i) < Part(b, i) /\ \A j \in 1..(i - 1) : Part(a, j) = Part(b, j)
    BY <1>3 DEF Precedes
  <2>2. PICK k \in Nat \ {0} : Part(b, k) < Part(c, k) /\ \A j \in 1..(k - 1) : Part(b, j) = Part(c, j)
    BY <1>3 DEF Precedes
  <2>3. CASE i <= k
    <3>1. i = k \/ i \in 1..(k - 1)
      BY <2>3
    <3>2. Part(a, i) < Part(c, i)
      BY <1>1, <2>1, <2>2, <3>1, SMTT(30)
    <3>3. ASSUME NEW j \in 1..(i - 1) PROVE Part(a, j) = Part(c, j)
      <4>1. j \in 1..(k - 1)
        BY <2>3
      <4> QED  BY <2>1, <2>2, <4>1
    <3> QED  BY <3>2, <3>3 DEF Precedes
  <2>4. CASE k < i
    <3>1. k \in 1..(i - 1)
      BY <2>4
    <3>2. Part(a, k) < Part(c, k)
      BY <1>1, <2>1, <2>2, <3>1
    <3>3. ASSUME NEW j \in 1..(k - 1) PROVE Part(a, j) = Part(c, j)
      <4>1. j \in 1..(i - 1)
        BY <2>4
      <4> QED  BY <2>1, <2>2, <4>1
    <3> QED  BY <3>2, <3>3 DEF Precedes
  <2> QED  BY <2>3, <2>4
<1>4. /\ VersionLess(a, b) <=> a # <<>> /\ b # <<>> /\ Precedes(a, b)
      /\ VersionLess(b, a) <=> a # <<>> /\ b # <<>> /\ Precedes(b, a)
      /\ VersionLess(b, c) <=> b # <<>> /\ c # <<>> /\ Precedes(b, c)
      /\ VersionLess(a, c) <=> a # <<>> /\ c # <<>> /\ Precedes(a, c)
      /\ Precedes(a, b) \/ Precedes(b, a) \/ \A i \in Nat \ {0} : Part(a, i) = Part(b, i)
  BY LessMeans
<1> QED  BY <1>2, <1>3, <1>4

---------------------------------------------------------------------------
(* Positions that are picked of a sequence, and sequences that are flattened (Positions) *)

\* The positions of a sequence that are picked can be enumerated.
LEMMA CanEnumerate ==
    ASSUME NEW m \in Nat, NEW S \in SUBSET (1..m)
    PROVE  \E n \in Nat : \E e \in [1..n -> 1..m] : Enumerates(e, n, S)
<1> DEFINE Can(k) == \A T \in SUBSET (1..k) : \E n \in Nat : \E e \in [1..n -> 1..k] : Enumerates(e, n, T)
           K == {k \in Nat : Can(k)}
<1>1. Can(0)
  <2> SUFFICES ASSUME NEW T \in SUBSET (1..0) PROVE \E n \in Nat : \E e \in [1..n -> 1..0] : Enumerates(e, n, T)
    OBVIOUS
  <2>1. T = {}
    OBVIOUS
  <2> DEFINE e == [i \in 1..0 |-> 1]
  <2>2. e \in [1..0 -> 1..0] /\ Enumerates(e, 0, T)
    BY <2>1 DEF Enumerates, Increasing
  <2> QED  BY <2>2
<1>2. ASSUME NEW k \in Nat, Can(k) PROVE Can(k + 1)
  <2> SUFFICES ASSUME NEW T \in SUBSET (1..(k + 1))
               PROVE  \E n \in Nat : \E e \in [1..n -> 1..(k + 1)] : Enumerates(e, n, T)
    OBVIOUS
  <2> DEFINE R == T \ {k + 1}
  <2>1. R \in SUBSET (1..k)
    OBVIOUS
  <2>n. PICK n \in Nat : \E e \in [1..n -> 1..k] : Enumerates(e, n, R)
    BY <1>2, <2>1
  <2>2. PICK e \in [1..n -> 1..k] : Enumerates(e, n, R)
    BY <2>n
  <2>3. /\ \A i \in 1..n : e[i] \in R /\ e[i] \in 1..k
        /\ \A y \in R : \E i \in 1..n : y = e[i]
        /\ \A i, j \in 1..n : i < j => e[i] < e[j]
    BY <2>2 DEF Enumerates, Increasing
  <2>4. CASE k + 1 \notin T
    <3>1. R = T /\ e \in [1..n -> 1..(k + 1)]
      BY <2>4, <2>2
    <3> QED  BY <2>2, <3>1
  <2>5. CASE k + 1 \in T
    <3> DEFINE g == [i \in 1..(n + 1) |-> IF i = n + 1 THEN k + 1 ELSE e[i]]
    <3>1. g \in [1..(n + 1) -> 1..(k + 1)]
      BY <2>3
    <3>2. \A i \in 1..n : i \in 1..(n + 1) /\ g[i] = e[i]
      OBVIOUS
    <3>3. n + 1 \in 1..(n + 1) /\ g[n + 1] = k + 1
      OBVIOUS
    <3>4. \A i \in 1..(n + 1) : i \in 1..n \/ i = n + 1
      OBVIOUS
    <3> HIDE DEF g
    <3>5. \A i \in 1..(n + 1) : g[i] \in T
      BY <2>3, <2>5, <3>2, <3>3, <3>4
    <3>6. \A y \in T : \E i \in 1..(n + 1) : y = g[i]
      BY <2>3, <3>2, <3>3
    <3>7. ASSUME NEW i \in 1..(n + 1), NEW j \in 1..(n + 1), i < j PROVE g[i] < g[j]
      <4>1. i \in 1..n
        BY <3>7
      <4>2. CASE j \in 1..n
        BY <2>3, <3>2, <3>7, <4>1, <4>2
      <4>3. CASE j = n + 1
        <5>1. g[i] \in 1..k /\ g[j] = k + 1
          BY <2>3, <3>2, <3>3, <4>1, <4>3
        <5> QED  BY <5>1
      <4> QED  BY <3>4, <4>2, <4>3
    <3>8. Enumerates(g, n + 1, T)
      BY <3>5, <3>6, <3>7 DEF Enumerates, Increasing
    <3> QED  BY <3>1, <3>8
  <2> QED  BY <2>4, <2>5
<1> HIDE DEF Can
<1>3. \A k \in Nat : k \in K
  <2>1. 0 \in K
    BY <1>1
  <2>2. \A k \in Nat : k \in K => k + 1 \in K
    BY <1>2
  <2> HIDE DEF K
  <2> QED  BY <2>1, <2>2, SetInduction
<1>4. Can(m)
  BY <1>3
<1> QED  BY <1>4 DEF Can

\* What is picked: the elements at the positions, each once and in their order.
PicksFrom(r, s, S) ==
    \E n \in Nat : \E e \in [1..n -> S] :
        /\ Enumerates(e, n, S)
        /\ r = [i \in 1..n |-> s[e[i]]]

LEMMA PicksAre ==
    ASSUME NEW s, NEW m \in Nat, NEW S \in SUBSET (1..m)
    PROVE  PicksFrom(Picked(s, S), s, S)
<1>n. PICK n \in Nat : \E e \in [1..n -> 1..m] : Enumerates(e, n, S)
  BY CanEnumerate
<1>1. PICK e \in [1..n -> 1..m] : Enumerates(e, n, S)
  BY <1>n
<1>2. e \in [1..n -> Nat]
  BY <1>1
<1>3. Cardinality(S) = n /\ Ordered(S) = e
  BY <1>1, <1>2, OrderedIs
<1>4. Picked(s, S) = [i \in 1..n |-> s[e[i]]]
  BY <1>3 DEF Picked
<1>5. e \in [1..n -> S]
  BY <1>1 DEF Enumerates
<1>6. \E f \in [1..n -> S] : Enumerates(f, n, S) /\ Picked(s, S) = [i \in 1..n |-> s[f[i]]]
  BY <1>1, <1>4, <1>5
<1> QED  BY <1>6 DEF PicksFrom

LEMMA PicksHave ==
    ASSUME NEW s, NEW m \in Nat, NEW S \in SUBSET (1..m)
    PROVE  /\ Range(Picked(s, S)) = {s[i] : i \in S}
           /\ \E n \in Nat : DOMAIN Picked(s, S) = 1..n /\ Len(Picked(s, S)) = n
           /\ \A W : (\A i \in S : s[i] \in W) => Picked(s, S) \in Seq(W)
<1>n. PICK n \in Nat : \E e \in [1..n -> S] : Enumerates(e, n, S) /\ Picked(s, S) = [i \in 1..n |-> s[e[i]]]
  <2>1. PicksFrom(Picked(s, S), s, S)
    BY PicksAre
  <2> QED  BY <2>1 DEF PicksFrom
<1>1. PICK e \in [1..n -> S] : Enumerates(e, n, S) /\ Picked(s, S) = [i \in 1..n |-> s[e[i]]]
  BY <1>n
<1> DEFINE r == [i \in 1..n |-> s[e[i]]]
<1>2. /\ \A i \in 1..n : e[i] \in S
      /\ \A y \in S : \E i \in 1..n : y = e[i]
  BY <1>1 DEF Enumerates
<1>3. ASSUME NEW x PROVE x \in Range(r) <=> x \in {s[i] : i \in S}
  <2>1. x \in Range(r) <=> \E i \in 1..n : x = s[e[i]]
    BY DEF Range
  <2> HIDE DEF r
  <2> QED  BY <1>2, <2>1, ZenonT(30)
<1>4. DOMAIN r = 1..n /\ Len(r) = n
  OBVIOUS
<1>5. ASSUME NEW W, \A i \in S : s[i] \in W PROVE r \in Seq(W)
  <2>1. r \in [1..n -> W]
    BY <1>2, <1>5
  <2> HIDE DEF r
  <2> QED  BY <2>1
<1> HIDE DEF r
<1>6. Range(r) = {s[i] : i \in S}
  BY <1>3
<1> QED  BY <1>1, <1>4, <1>5, <1>6 DEF r

\* Every piece of a flattened sequence is there, and nothing else.
LEMMA FlatHas ==
    ASSUME NEW A, NEW seqs \in Seq(Seq(A))
    PROVE  /\ FlattenSeq(seqs) \in Seq(A)
           /\ \A x : x \in Range(FlattenSeq(seqs)) <=> \E k \in DOMAIN seqs : x \in Range(seqs[k])
<1> DEFINE flat == FlattenSeq(seqs)
           n == Len(seqs)
<1>1. flat \in Seq(A) /\ \E off : Laid(flat, seqs, off)
  BY FlattenLays
<1>2. PICK off : Laid(flat, seqs, off)
  BY <1>1
<1>3. /\ n \in Nat /\ DOMAIN seqs = 1..n /\ (\A k \in 1..n : seqs[k] \in Seq(A))
      /\ Len(flat) \in Nat /\ DOMAIN flat = 1..Len(flat)
  BY <1>1
<1> HIDE DEF flat
<1>4. /\ off \in [1..(n + 1) -> Nat] /\ off[1] = 0 /\ Len(flat) = off[n + 1]
      /\ \A k \in 1..n : off[k + 1] = off[k] + Len(seqs[k])
      /\ \A k \in 1..n : \A j \in 1..Len(seqs[k]) : flat[off[k] + j] = seqs[k][j]
  BY <1>2 DEF Laid
<1> HIDE DEF n
<1>5. \A k \in 1..n : /\ k \in 1..(n + 1) /\ k + 1 \in 1..(n + 1) /\ off[k] \in Nat /\ off[k + 1] \in Nat
                      /\ Len(seqs[k]) \in Nat /\ DOMAIN seqs[k] = 1..Len(seqs[k])
  <2>1. \A t \in Seq(A) : Len(t) \in Nat /\ DOMAIN t = 1..Len(t)
    OBVIOUS
  <2>2. \A k \in 1..n : k \in 1..(n + 1) /\ k + 1 \in 1..(n + 1)
    BY <1>3
  <2> QED  BY <1>3, <1>4, <2>1, <2>2
<1> DEFINE Spans(k) == k \in 0..n => off[k + 1] <= Len(flat) /\ \A p \in 1..off[k + 1] :
                          \E q \in 1..n : \E j \in 1..Len(seqs[q]) : p = off[q] + j
           Upper(k) == k \in 0..n => off[(n - k) + 1] <= Len(flat)
           K == {k \in Nat : Spans(k)}
           U == {k \in Nat : Upper(k)}
<1>6. \A k \in Nat : k \in U
  <2>1. 0 \in U
    <3>1. (n - 0) + 1 = n + 1
      BY <1>3
    <3> QED  BY <1>3, <1>4, <3>1
  <2>2. ASSUME NEW k \in Nat, k \in U PROVE k + 1 \in U
    <3> SUFFICES ASSUME k + 1 \in 0..n PROVE off[(n - (k + 1)) + 1] <= Len(flat)
      OBVIOUS
    <3>1. n - k \in 1..n /\ (n - (k + 1)) + 1 = n - k /\ k \in 0..n
      BY <1>3
    <3>2. off[(n - k) + 1] <= Len(flat) /\ off[(n - k) + 1] = off[n - k] + Len(seqs[n - k])
      BY <1>4, <2>2, <3>1
    <3>3. off[n - k] \in Nat /\ Len(seqs[n - k]) \in Nat
      BY <1>5, <3>1
    <3> QED  BY <1>3, <3>1, <3>2, <3>3
  <2> HIDE DEF U
  <2> QED  BY <2>1, <2>2, SetInduction
<1>7. \A k \in 1..n : off[k + 1] <= Len(flat)
  <2> TAKE k \in 1..n
  <2>1. n - k \in Nat /\ n - k \in 0..n /\ (n - (n - k)) + 1 = k + 1
    BY <1>3
  <2> QED  BY <1>6, <2>1
<1>8. \A k \in Nat : k \in K
  <2>1. 0 \in K
    <3>1. 0 + 1 = 1 /\ off[1] = 0
      BY <1>4
    <3> QED  BY <1>3, <3>1
  <2>2. ASSUME NEW k \in Nat, k \in K PROVE k + 1 \in K
    <3> SUFFICES ASSUME k + 1 \in 0..n PROVE Spans(k + 1)
      OBVIOUS
    <3>1. k \in 0..n /\ k + 1 \in 1..n
      BY <1>3
    <3>2. off[(k + 1) + 1] = off[k + 1] + Len(seqs[k + 1]) /\ off[k + 1] \in Nat /\ Len(seqs[k + 1]) \in Nat
      BY <1>4, <1>5, <3>1
    <3>3. off[(k + 1) + 1] <= Len(flat)
      BY <1>7, <3>1
    <3>4. ASSUME NEW p \in 1..off[(k + 1) + 1]
          PROVE  \E q \in 1..n : \E j \in 1..Len(seqs[q]) : p = off[q] + j
      <4>1. CASE p <= off[k + 1]
        <5>1. p \in 1..off[k + 1]
          BY <3>2, <4>1
        <5> QED  BY <2>2, <3>1, <5>1
      <4>2. CASE off[k + 1] < p
        <5>1. p - off[k + 1] \in 1..Len(seqs[k + 1]) /\ p = off[k + 1] + (p - off[k + 1])
          BY <3>2, <4>2
        <5> QED  BY <3>1, <5>1
      <4> QED  BY <3>2, <4>1, <4>2
    <3> QED  BY <3>3, <3>4
  <2> HIDE DEF K
  <2> QED  BY <2>1, <2>2, SetInduction
<1>9. \A p \in 1..Len(flat) : \E q \in 1..n : \E j \in 1..Len(seqs[q]) : p = off[q] + j
  <2>1. n \in 0..n /\ n \in K
    BY <1>3, <1>8
  <2> QED  BY <1>4, <2>1
<1>10. ASSUME NEW x PROVE x \in Range(flat) <=> \E k \in 1..n : x \in Range(seqs[k])
  <2>1. x \in Range(flat) <=> \E p \in 1..Len(flat) : x = flat[p]
    BY <1>3 DEF Range
  <2>2. \A k \in 1..n : x \in Range(seqs[k]) <=> \E j \in 1..Len(seqs[k]) : x = seqs[k][j]
    BY <1>5 DEF Range
  <2>3. \A k \in 1..n : \A j \in 1..Len(seqs[k]) : off[k] + j \in 1..Len(flat)
    <3> TAKE k \in 1..n
    <3> TAKE j \in 1..Len(seqs[k])
    <3>1. off[k] \in Nat /\ Len(seqs[k]) \in Nat /\ off[k + 1] = off[k] + Len(seqs[k]) /\ off[k + 1] <= Len(flat)
      BY <1>4, <1>5, <1>7
    <3> QED  BY <1>3, <3>1
  <2>4. ASSUME NEW p \in 1..Len(flat), x = flat[p] PROVE \E k \in 1..n : x \in Range(seqs[k])
    <3>1. PICK q \in 1..n : \E j \in 1..Len(seqs[q]) : p = off[q] + j
      BY <1>9
    <3>2. PICK j \in 1..Len(seqs[q]) : p = off[q] + j
      BY <3>1
    <3>3. x = seqs[q][j]
      BY <1>4, <2>4, <3>2
    <3> QED  BY <2>2, <3>3
  <2>5. ASSUME NEW k \in 1..n, x \in Range(seqs[k]) PROVE \E p \in 1..Len(flat) : x = flat[p]
    <3>1. PICK j \in 1..Len(seqs[k]) : x = seqs[k][j]
      BY <2>2, <2>5
    <3>2. x = flat[off[k] + j]
      BY <1>4, <3>1
    <3> QED  BY <2>3, <3>2
  <2> QED  BY <2>1, <2>4, <2>5
<1> QED  BY <1>1, <1>3, <1>10 DEF flat

---------------------------------------------------------------------------
(* Reports *)

\* What a report is of what was found: all of it, and each finding once.
ReportOf(report, found) ==
    /\ Range(report) \subseteq Range(found)
    /\ \A f \in Range(found) : \E g \in Range(report) : SameFinding(g, f)
    /\ \A i, j \in DOMAIN report : SameFinding(report[i], report[j]) => i = j
    /\ \E n \in Nat : DOMAIN report = 1..n /\ Len(report) = n

LEMMA UnrepeatedIs ==
    ASSUME NEW W, NEW found \in Seq(W)
    PROVE  ReportOf(Unrepeated(found), found)
<1> DEFINE m == Len(found)
           S == {i \in DOMAIN found : \A j \in 1..(i - 1) : ~SameFinding(found[j], found[i])}
           report == Picked(found, S)
<1>1. m \in Nat /\ DOMAIN found = 1..m /\ S \in SUBSET (1..m) /\ Unrepeated(found) = report
  BY DEF Unrepeated
<1>2. \A i \in S : i \in 1..m /\ \A j \in 1..(i - 1) : ~SameFinding(found[j], found[i])
  BY <1>1
<1>3. ASSUME NEW i \in 1..m PROVE \E k \in S : SameFinding(found[k], found[i])
  <2> DEFINE Same == {j \in 1..m : SameFinding(found[j], found[i])}
  <2>1. i \in Same
    BY DEF SameFinding
  <2>2. Same \in SUBSET Nat /\ Same # {}
    BY <2>1
  <2> DEFINE k == Min(Same)
  <2>3. k \in Same /\ \A j \in Same : k <= j
    <3> HIDE DEF Same
    <3> QED  BY <2>2, LeastNumber
  <2> HIDE DEF k
  <2>4. k \in 1..m /\ SameFinding(found[k], found[i]) /\ k \in Int
    BY <2>3
  <2>5. ASSUME NEW j \in 1..(k - 1), SameFinding(found[j], found[k]) PROVE FALSE
    <3>1. SameFinding(found[j], found[i])
      BY <2>4, <2>5 DEF SameFinding
    <3>2. j \in 1..m /\ j < k
      BY <1>1, <2>4
    <3> QED  BY <2>3, <3>1, <3>2
  <2>6. k \in S
    BY <1>1, <2>4, <2>5
  <2> QED  BY <2>4, <2>6
<1> HIDE DEF m, S
<1>4. PicksFrom(report, found, S)
  BY <1>1, PicksAre
<1>5. /\ Range(report) = {found[i] : i \in S}
      /\ \E n \in Nat : DOMAIN report = 1..n /\ Len(report) = n
  BY <1>1, PicksHave
<1> HIDE DEF report
<1>6. Range(found) = {found[i] : i \in 1..m}
  BY <1>1 DEF Range
<1>7. Range(report) \subseteq Range(found)
  BY <1>2, <1>5, <1>6
<1>8. \A f \in Range(found) : \E g \in Range(report) : SameFinding(g, f)
  BY <1>3, <1>5, <1>6
<1>9. ASSUME NEW i \in DOMAIN report, NEW j \in DOMAIN report, SameFinding(report[i], report[j])
      PROVE  i = j
  <2>n. PICK n \in Nat : \E e \in [1..n -> S] : Enumerates(e, n, S) /\ report = [q \in 1..n |-> found[e[q]]]
    BY <1>4 DEF PicksFrom
  <2>1. PICK e \in [1..n -> S] : Enumerates(e, n, S) /\ report = [q \in 1..n |-> found[e[q]]]
    BY <2>n
  <2>2. i \in 1..n /\ j \in 1..n /\ report[i] = found[e[i]] /\ report[j] = found[e[j]] /\ e[i] \in S /\ e[j] \in S
    BY <2>1
  <2>3. e[i] \in 1..m /\ e[j] \in 1..m
    BY <1>2, <2>2
  <2>4. ASSUME NEW a \in 1..n, NEW b \in 1..n, a < b, SameFinding(found[e[a]], found[e[b]]) PROVE FALSE
    <3>1. e[a] < e[b] /\ e[a] \in 1..m /\ e[b] \in 1..m /\ e[b] \in S
      BY <1>2, <2>1, <2>4 DEF Enumerates, Increasing
    <3>2. e[a] \in 1..(e[b] - 1)
      BY <3>1
    <3> QED  BY <1>2, <2>4, <3>1, <3>2
  <2>5. SameFinding(found[e[i]], found[e[j]]) /\ SameFinding(found[e[j]], found[e[i]])
    BY <1>9, <2>2 DEF SameFinding
  <2>6. i < j \/ j < i \/ i = j
    BY <2>2
  <2> QED  BY <2>2, <2>4, <2>5, <2>6
<1> QED  BY <1>1, <1>5, <1>7, <1>8, <1>9 DEF ReportOf

\* A report without repetitions is as long as the set of what it says.
LEMMA CountsOnce ==
    ASSUME NEW n \in Nat, NEW W, NEW key \in Injection(1..n, W)
    PROVE  Cardinality({key[i] : i \in 1..n}) = n
<1> DEFINE T == {key[i] : i \in 1..n}
<1>0. key \in [1..n -> W] /\ \A i, j \in 1..n : key[i] = key[j] => i = j
  BY DEF Injection, IsInjective
<1>1. key \in [1..n -> T]
  BY <1>0
<1>2. key \in Bijection(1..n, T)
  <2>1. \A t \in T : \E i \in 1..n : key[i] = t
    OBVIOUS
  <2> HIDE DEF T
  <2> QED  BY <1>0, <1>1, <2>1, Fun_IsBij
<1>3. ExistsBijection(1..n, T)
  BY <1>2 DEF ExistsBijection
<1> HIDE DEF T
<1>4. Cardinality(T) = n
  BY <1>3, FS_CountingElements
<1> QED  BY <1>4 DEF T

Keys(report) == {<<report[i].oid, report[i].observed>> : i \in DOMAIN report}

LEMMA ReportCounts ==
    ASSUME NEW report, NEW found, ReportOf(report, found)
    PROVE  /\ Len(report) = Cardinality(Keys(report))
           /\ Keys(report) = {<<f.oid, f.observed>> : f \in Range(found)}
<1>1. PICK n \in Nat : DOMAIN report = 1..n /\ Len(report) = n
  BY DEF ReportOf
<1> DEFINE key == [i \in 1..n |-> <<report[i].oid, report[i].observed>>]
<1>2. \A i, j \in 1..n : key[i] = key[j] => i = j
  <2> SUFFICES ASSUME NEW i \in 1..n, NEW j \in 1..n, key[i] = key[j] PROVE i = j
    OBVIOUS
  <2>1. report[i].oid = report[j].oid /\ report[i].observed = report[j].observed
    OBVIOUS
  <2> QED  BY <1>1, <2>1 DEF ReportOf, SameFinding
<1>3. Keys(report) = {key[i] : i \in 1..n}
  BY <1>1 DEF Keys
<1> DEFINE W == {key[i] : i \in 1..n}
<1>4. key \in [1..n -> W]
  OBVIOUS
<1> HIDE DEF key, W
<1>5. Cardinality({key[i] : i \in 1..n}) = n
  <2>1. key \in Injection(1..n, W)
    BY <1>2, <1>4 DEF Injection, IsInjective
  <2> QED  BY <2>1, CountsOnce
<1>6. ASSUME NEW f \in Range(found) PROVE <<f.oid, f.observed>> \in Keys(report)
  <2>1. PICK g \in Range(report) : SameFinding(g, f)
    BY DEF ReportOf
  <2>2. PICK i \in DOMAIN report : g = report[i]
    BY DEF Range
  <2>3. <<f.oid, f.observed>> = <<report[i].oid, report[i].observed>>
    BY <2>1, <2>2 DEF SameFinding
  <2> QED  BY <2>3 DEF Keys
<1>7. ASSUME NEW i \in DOMAIN report
      PROVE  <<report[i].oid, report[i].observed>> \in {<<f.oid, f.observed>> : f \in Range(found)}
  <2>1. report[i] \in Range(found)
    BY DEF ReportOf, Range
  <2> QED  BY <2>1
<1>8. Keys(report) = {<<f.oid, f.observed>> : f \in Range(found)}
  BY <1>6, <1>7 DEF Keys
<1> QED  BY <1>1, <1>3, <1>5, <1>8

---------------------------------------------------------------------------
(* Notus: the index and its matches *)

IsSequence(s) == \E n \in Nat : s = [i \in 1..n |-> s[i]]

LEMMA SequenceIs ==
    ASSUME NEW s, IsSequence(s)
    PROVE  s \in Seq(Range(s)) /\ Len(s) \in Nat /\ DOMAIN s = 1..Len(s) /\ Range(s) = {s[i] : i \in 1..Len(s)}
<1>1. PICK n \in Nat : s = [i \in 1..n |-> s[i]]
  BY DEF IsSequence
<1>2. DOMAIN s = 1..n
  BY <1>1
<1>3. s \in [1..n -> Range(s)]
  BY <1>1, <1>2 DEF Range
<1>4. s \in Seq(Range(s))
  BY <1>3
<1>5. Len(s) \in Nat /\ DOMAIN s = 1..Len(s)
  BY <1>4
<1> QED  BY <1>4, <1>5 DEF Range

LEMMA FlatIs ==
    ASSUME NEW n \in Nat, NEW g, g = [i \in 1..n |-> g[i]], \A i \in 1..n : IsSequence(g[i])
    PROVE  /\ IsSequence(FlattenSeq(g))
           /\ \A x : x \in Range(FlattenSeq(g)) <=> \E k \in 1..n : x \in Range(g[k])
<1> DEFINE A == UNION {Range(g[i]) : i \in 1..n}
<1>1. DOMAIN g = 1..n
  OBVIOUS
<1>2. \A i \in 1..n : g[i] \in Seq(A)
  <2> TAKE i \in 1..n
  <2>1. g[i] \in Seq(Range(g[i])) /\ Range(g[i]) \subseteq A
    BY SequenceIs
  <2> HIDE DEF A
  <2> QED  BY <2>1
<1> HIDE DEF A
<1>3. g \in [1..n -> Seq(A)]
  BY <1>2
<1>4. g \in Seq(Seq(A))
  BY <1>3
<1>5. FlattenSeq(g) \in Seq(A) /\ \A x : x \in Range(FlattenSeq(g)) <=> \E k \in 1..n : x \in Range(g[k])
  BY <1>1, <1>4, FlatHas
<1>6. \A t \in Seq(A) : IsSequence(t)
  <2> SUFFICES ASSUME NEW t \in Seq(A) PROVE IsSequence(t)
    OBVIOUS
  <2>1. Len(t) \in Nat /\ t = [i \in 1..Len(t) |-> t[i]]
    OBVIOUS
  <2> QED  BY <2>1 DEF IsSequence
<1> QED  BY <1>5, <1>6

LEMMA PickedSequence ==
    ASSUME NEW s, IsSequence(s), NEW S \in SUBSET (DOMAIN s)
    PROVE  IsSequence(Picked(s, S)) /\ Range(Picked(s, S)) = {s[i] : i \in S}
<1>1. Len(s) \in Nat /\ S \in SUBSET (1..Len(s))
  BY SequenceIs
<1>2. Range(Picked(s, S)) = {s[i] : i \in S}
  BY <1>1, PicksHave
<1>3. PicksFrom(Picked(s, S), s, S)
  BY <1>1, PicksAre
<1>4. PICK n \in Nat : \E e \in [1..n -> S] : Picked(s, S) = [i \in 1..n |-> s[e[i]]]
  BY <1>3 DEF PicksFrom
<1>5. PICK e \in [1..n -> S] : Picked(s, S) = [i \in 1..n |-> s[e[i]]]
  BY <1>4
<1>6. \A i \in 1..n : Picked(s, S)[i] = s[e[i]]
  BY <1>5
<1>7. Picked(s, S) = [i \in 1..n |-> Picked(s, S)[i]]
  BY <1>5, <1>6
<1> QED  BY <1>2, <1>7 DEF IsSequence

LEMMA MappedSequence ==
    ASSUME NEW s, IsSequence(s), NEW t, DOMAIN t = DOMAIN s, t = [i \in DOMAIN t |-> t[i]]
    PROVE  IsSequence(t)
  BY SequenceIs DEF IsSequence

\* The files of a feed, down to the list of an advisory's fixed packages.
IsFile(file) ==
    /\ IsSequence(file.advisories)
    /\ \A k \in DOMAIN file.advisories : IsSequence(file.advisories[k].fixed)

\* An entry of a file that names a package.
Lists(file, e) ==
    /\ \E adv \in Range(file.advisories) : \E fixed \in Range(adv.fixed) : e = Entry(file, adv, fixed)
    /\ e.name # <<>> /\ e.fixed # <<>>

LEMMA IndexFileIs ==
    ASSUME NEW file, IsFile(file)
    PROVE  IsSequence(IndexFile(file)) /\ \A e : e \in Range(IndexFile(file)) <=> Lists(file, e)
<1> DEFINE OfAdvisory(adv) == [i \in DOMAIN adv.fixed |-> Entry(file, adv, adv.fixed[i])]
           n == Len(file.advisories)
           g == [i \in DOMAIN file.advisories |-> OfAdvisory(file.advisories[i])]
           entries == FlattenSeq(g)
           S == {i \in DOMAIN entries : entries[i].name # <<>> /\ entries[i].fixed # <<>>}
<1>1. n \in Nat /\ DOMAIN file.advisories = 1..n
  BY SequenceIs DEF IsFile
<1>2. IndexFile(file) = Picked(entries, S)
  BY DEF IndexFile
<1>3. \A k \in 1..n : IsSequence(OfAdvisory(file.advisories[k]))
  <2> TAKE k \in 1..n
  <2>1. IsSequence(file.advisories[k].fixed)
    BY <1>1 DEF IsFile
  <2> DEFINE t == OfAdvisory(file.advisories[k])
  <2>2. DOMAIN t = DOMAIN file.advisories[k].fixed /\ t = [i \in DOMAIN t |-> t[i]]
    OBVIOUS
  <2> HIDE DEF t
  <2>3. IsSequence(t)
    BY <2>1, <2>2, MappedSequence
  <2> QED  BY <2>3 DEF t
<1>4. \A adv, x : x \in Range(OfAdvisory(adv)) <=> \E fixed \in Range(adv.fixed) : x = Entry(file, adv, fixed)
  BY DEF Range
<1> HIDE DEF OfAdvisory
<1>5. g = [i \in 1..n |-> g[i]] /\ \A i \in 1..n : g[i] = OfAdvisory(file.advisories[i])
  BY <1>1
<1> HIDE DEF g, n
<1>6. \A i \in 1..n : IsSequence(g[i])
  BY <1>3, <1>5
<1>7. IsSequence(entries) /\ \A x : x \in Range(entries) <=> \E k \in 1..n : x \in Range(g[k])
  BY <1>1, <1>5, <1>6, FlatIs
<1> HIDE DEF entries
<1>8. IsSequence(Picked(entries, S)) /\ Range(Picked(entries, S)) = {entries[i] : i \in S}
  <2>1. S \in SUBSET (DOMAIN entries)
    OBVIOUS
  <2> HIDE DEF S
  <2> QED  BY <1>7, <2>1, PickedSequence
<1>9. ASSUME NEW e PROVE e \in Range(IndexFile(file)) <=> Lists(file, e)
  <2>1. e \in Range(IndexFile(file)) <=> e \in Range(entries) /\ e.name # <<>> /\ e.fixed # <<>>
    BY <1>2, <1>8 DEF Range
  <2>2. e \in Range(entries) <=> \E k \in 1..n : \E fixed \in Range(file.advisories[k].fixed) :
                                     e = Entry(file, file.advisories[k], fixed)
    BY <1>4, <1>5, <1>7, SMTT(30)
  <2>3. e \in Range(entries) <=> \E adv \in Range(file.advisories) : \E fixed \in Range(adv.fixed) :
                                     e = Entry(file, adv, fixed)
    BY <1>1, <2>2 DEF Range
  <2> QED  BY <2>1, <2>3 DEF Lists
<1> QED  BY <1>2, <1>8, <1>9

LEMMA IndexIs ==
    ASSUME NEW files, IsSequence(files), \A i \in DOMAIN files : IsFile(files[i])
    PROVE  /\ IsSequence(NewNotusCorrelator(files))
           /\ \A e : e \in Range(NewNotusCorrelator(files)) <=> \E file \in Range(files) : Lists(file, e)
<1> DEFINE n == Len(files)
           g == [i \in DOMAIN files |-> IndexFile(files[i])]
<1>1. n \in Nat /\ DOMAIN files = 1..n
  BY SequenceIs
<1>2. NewNotusCorrelator(files) = FlattenSeq(g)
  BY DEF NewNotusCorrelator
<1>3. g = [i \in 1..n |-> g[i]] /\ \A i \in 1..n : g[i] = IndexFile(files[i])
  BY <1>1
<1> HIDE DEF g, n
<1>4. \A i \in 1..n : IsSequence(g[i]) /\ \A e : e \in Range(g[i]) <=> Lists(files[i], e)
  BY <1>1, <1>3, IndexFileIs
<1>5. IsSequence(FlattenSeq(g)) /\ \A e : e \in Range(FlattenSeq(g)) <=> \E k \in 1..n : e \in Range(g[k])
  BY <1>1, <1>3, <1>4, FlatIs
<1>6. \A e : (\E file \in Range(files) : Lists(file, e)) <=> \E k \in 1..n : Lists(files[k], e)
  BY <1>1 DEF Range
<1> QED  BY <1>2, <1>4, <1>5, <1>6

\* What is told of the packages of a host, by the entries of an index.
ToldOf(index, inv) ==
    UNION {{<<m.oid, Observed(p)>> : m \in {e \in Range(index) : Matches(e, p, HostScope(inv.os))}} : p \in Range(inv.packages)}

LEMMA NotusIs ==
    ASSUME NEW index, NEW inv, IsSequence(index), IsSequence(inv.packages)
    PROVE  /\ Keys(NotusCorrelate(index, inv)) = ToldOf(index, inv)
           /\ Len(NotusCorrelate(index, inv)) = Cardinality(ToldOf(index, inv))
<1> DEFINE target == HostScope(inv.os)
           Hits(pkg) == {i \in DOMAIN index : Matches(index[i], pkg, target)}
           Found(pkg) == Picked(index, Hits(pkg))
           OfPackage(pkg) == [i \in DOMAIN Found(pkg) |->
                                [oid |-> Found(pkg)[i].oid, observed |-> Observed(pkg), fixed |-> Found(pkg)[i].fixed]]
           n == Len(inv.packages)
           g == [i \in DOMAIN inv.packages |-> OfPackage(inv.packages[i])]
           found == FlattenSeq(g)
<1>1. n \in Nat /\ DOMAIN inv.packages = 1..n
  BY SequenceIs
<1>2. NotusCorrelate(index, inv) = Unrepeated(found)
  BY DEF NotusCorrelate
<1>3. \A pkg : IsSequence(Found(pkg)) /\ \A m : m \in Range(Found(pkg)) <=> m \in Range(index) /\ Matches(m, pkg, target)
  <2> TAKE pkg
  <2>1. Hits(pkg) \in SUBSET (DOMAIN index)
    OBVIOUS
  <2>2. \A m : m \in {index[i] : i \in Hits(pkg)} <=> m \in Range(index) /\ Matches(m, pkg, target)
    BY DEF Range
  <2> HIDE DEF Hits, target
  <2> QED  BY <2>1, <2>2, PickedSequence
<1> HIDE DEF Found
<1>4. \A pkg : IsSequence(OfPackage(pkg)) /\ \A f : f \in Range(OfPackage(pkg)) <=>
          \E m \in Range(Found(pkg)) : f = [oid |-> m.oid, observed |-> Observed(pkg), fixed |-> m.fixed]
  <2> TAKE pkg
  <2> DEFINE t == OfPackage(pkg)
  <2>1. DOMAIN t = DOMAIN Found(pkg) /\ t = [i \in DOMAIN t |-> t[i]]
    OBVIOUS
  <2>2. \A f : f \in Range(t) <=>
            \E m \in Range(Found(pkg)) : f = [oid |-> m.oid, observed |-> Observed(pkg), fixed |-> m.fixed]
    BY DEF Range
  <2> HIDE DEF t
  <2>3. IsSequence(t)
    BY <1>3, <2>1, MappedSequence
  <2> QED  BY <2>2, <2>3 DEF t
<1> HIDE DEF OfPackage
<1>5. g = [i \in 1..n |-> g[i]] /\ \A i \in 1..n : g[i] = OfPackage(inv.packages[i])
  BY <1>1
<1> HIDE DEF g, n
<1>6. IsSequence(found) /\ \A f : f \in Range(found) <=> \E k \in 1..n : f \in Range(g[k])
  <2>1. \A i \in 1..n : IsSequence(g[i])
    BY <1>4, <1>5
  <2> QED  BY <1>1, <1>5, <2>1, FlatIs
<1> HIDE DEF found
<1>7. ReportOf(Unrepeated(found), found)
  BY <1>6, SequenceIs, UnrepeatedIs
<1>8. /\ Len(Unrepeated(found)) = Cardinality(Keys(Unrepeated(found)))
      /\ Keys(Unrepeated(found)) = {<<f.oid, f.observed>> : f \in Range(found)}
  BY <1>7, ReportCounts
<1>9. ASSUME NEW x PROVE x \in {<<f.oid, f.observed>> : f \in Range(found)} <=> x \in ToldOf(index, inv)
  <2>1. \A f : f \in Range(found) <=> \E k \in 1..n : \E m \in Range(index) :
            /\ Matches(m, inv.packages[k], target)
            /\ f = [oid |-> m.oid, observed |-> Observed(inv.packages[k]), fixed |-> m.fixed]
    BY <1>3, <1>4, <1>5, <1>6
  <2>2. x \in {<<f.oid, f.observed>> : f \in Range(found)} <=> \E k \in 1..n : \E m \in Range(index) :
            Matches(m, inv.packages[k], target) /\ x = <<m.oid, Observed(inv.packages[k])>>
    <3>1. ASSUME NEW f \in Range(found), x = <<f.oid, f.observed>>
          PROVE  \E k \in 1..n : \E m \in Range(index) :
                     Matches(m, inv.packages[k], target) /\ x = <<m.oid, Observed(inv.packages[k])>>
      BY <2>1, <3>1
    <3>2. ASSUME NEW k \in 1..n, NEW m \in Range(index), Matches(m, inv.packages[k], target),
                 x = <<m.oid, Observed(inv.packages[k])>>
          PROVE  x \in {<<f.oid, f.observed>> : f \in Range(found)}
      <4> DEFINE f == [oid |-> m.oid, observed |-> Observed(inv.packages[k]), fixed |-> m.fixed]
      <4>1. f \in Range(found) /\ x = <<f.oid, f.observed>>
        BY <2>1, <3>2
      <4> QED  BY <4>1
    <3> QED  BY <3>1, <3>2
  <2>3. x \in ToldOf(index, inv) <=> \E p \in Range(inv.packages) : \E m \in Range(index) :
            Matches(m, p, target) /\ x = <<m.oid, Observed(p)>>
    BY DEF ToldOf
  <2>4. Range(inv.packages) = {inv.packages[k] : k \in 1..n}
    BY <1>1 DEF Range
  <2> QED  BY <2>2, <2>3, <2>4
<1>10. {<<f.oid, f.observed>> : f \in Range(found)} = ToldOf(index, inv)
  BY <1>9
<1> QED  BY <1>2, <1>8, <1>10

\* An entry of a file, and a package that it speaks of.
Concerned(file, fixed, pkg, os) ==
    LET full == ExtractFixedPkg(file.type, fixed)
    IN  /\ full.name # <<>> /\ full.version # <<>> /\ full.name = pkg.name
        /\ SourcePkgTypeMatch(pkg.source, file.type)
        /\ AppliesTo(AdvisoryScope(file.product), HostScope(os))
        /\ IsVulnerable(file.type, pkg.version, full.version, fixed.specifier)

\* notus.go: whatever files a feed has and whatever packages a host, the host is told exactly the
\* advisories of which an entry concerns a package that it has, and each of them once for the package,
\* though advisories repeat entries and files repeat advisories.
THEOREM NotusAnswers ==
    ASSUME NEW files, IsSequence(files), \A i \in DOMAIN files : IsFile(files[i]),
           NEW inv, IsSequence(inv.packages)
    PROVE  LET report == NotusCorrelate(NewNotusCorrelator(files), inv)
           IN  /\ \A oid, seen : <<oid, seen>> \in Keys(report) <=>
                      \E pkg \in Range(inv.packages) : \E file \in Range(files) : \E adv \in Range(file.advisories) :
                          \E fixed \in Range(adv.fixed) :
                              oid = adv.oid /\ seen = Observed(pkg) /\ Concerned(file, fixed, pkg, inv.os)
               /\ Len(report) = Cardinality(Keys(report))
<1> DEFINE index == NewNotusCorrelator(files)
           report == NotusCorrelate(index, inv)
           target == HostScope(inv.os)
<1>1. IsSequence(index) /\ \A e : e \in Range(index) <=> \E file \in Range(files) : Lists(file, e)
  BY IndexIs
<1> HIDE DEF index
<1>2. Keys(report) = ToldOf(index, inv) /\ Len(report) = Cardinality(ToldOf(index, inv))
  BY <1>1, NotusIs
<1>3. ASSUME NEW file, NEW adv, NEW fixed, NEW pkg, NEW e, e = Entry(file, adv, fixed)
      PROVE  /\ e.name # <<>> /\ e.fixed # <<>> /\ Matches(e, pkg, target) <=> Concerned(file, fixed, pkg, inv.os)
             /\ e.oid = adv.oid
  BY <1>3 DEF Entry, Matches, Concerned
<1> HIDE DEF target, report
<1>4. ASSUME NEW oid, NEW seen
      PROVE  <<oid, seen>> \in ToldOf(index, inv) <=>
                 \E pkg \in Range(inv.packages) : \E m \in Range(index) :
                     oid = m.oid /\ seen = Observed(pkg) /\ Matches(m, pkg, target)
  BY DEF ToldOf, target
<1>5. ASSUME NEW oid, NEW pkg
      PROVE  (\E m \in Range(index) : oid = m.oid /\ Matches(m, pkg, target)) <=>
                 \E file \in Range(files) : \E adv \in Range(file.advisories) : \E fixed \in Range(adv.fixed) :
                     oid = adv.oid /\ Concerned(file, fixed, pkg, inv.os)
  <2>1. ASSUME NEW m \in Range(index), oid = m.oid, Matches(m, pkg, target)
        PROVE  \E file \in Range(files) : \E adv \in Range(file.advisories) : \E fixed \in Range(adv.fixed) :
                   oid = adv.oid /\ Concerned(file, fixed, pkg, inv.os)
    <3>1. PICK file \in Range(files) : Lists(file, m)
      BY <1>1
    <3>2. m.name # <<>> /\ m.fixed # <<>>
      BY <3>1 DEF Lists
    <3>3. PICK adv \in Range(file.advisories) : \E fixed \in Range(adv.fixed) : m = Entry(file, adv, fixed)
      BY <3>1 DEF Lists
    <3>4. PICK fixed \in Range(adv.fixed) : m = Entry(file, adv, fixed)
      BY <3>3
    <3>5. oid = adv.oid /\ Concerned(file, fixed, pkg, inv.os)
      BY <1>3, <2>1, <3>2, <3>4
    <3> QED  BY <3>5
  <2>2. ASSUME NEW file \in Range(files), NEW adv \in Range(file.advisories), NEW fixed \in Range(adv.fixed),
               oid = adv.oid, Concerned(file, fixed, pkg, inv.os)
        PROVE  \E m \in Range(index) : oid = m.oid /\ Matches(m, pkg, target)
    <3> DEFINE m == Entry(file, adv, fixed)
    <3>1. m.name # <<>> /\ m.fixed # <<>> /\ Matches(m, pkg, target) /\ m.oid = oid
      BY <1>3, <2>2
    <3>2. Lists(file, m)
      BY <3>1 DEF Lists
    <3> HIDE DEF m
    <3>3. m \in Range(index)
      BY <1>1, <3>2
    <3> QED  BY <3>1, <3>3
  <2> QED  BY <2>1, <2>2
<1>6. ASSUME NEW oid, NEW seen
      PROVE  <<oid, seen>> \in Keys(report) <=>
                 \E pkg \in Range(inv.packages) : \E file \in Range(files) : \E adv \in Range(file.advisories) :
                     \E fixed \in Range(adv.fixed) :
                         oid = adv.oid /\ seen = Observed(pkg) /\ Concerned(file, fixed, pkg, inv.os)
  <2> DEFINE By(pkg) == \E m \in Range(index) : oid = m.oid /\ Matches(m, pkg, target)
             Of(pkg) == \E file \in Range(files) : \E adv \in Range(file.advisories) : \E fixed \in Range(adv.fixed) :
                            oid = adv.oid /\ Concerned(file, fixed, pkg, inv.os)
  <2>1. <<oid, seen>> \in Keys(report) <=> \E pkg \in Range(inv.packages) : seen = Observed(pkg) /\ By(pkg)
    BY <1>2, <1>4
  <2>2. \A pkg : By(pkg) <=> Of(pkg)
    BY <1>5
  <2>3. (\E pkg \in Range(inv.packages) : seen = Observed(pkg) /\ Of(pkg)) <=>
             \E pkg \in Range(inv.packages) : \E file \in Range(files) : \E adv \in Range(file.advisories) :
                 \E fixed \in Range(adv.fixed) :
                     oid = adv.oid /\ seen = Observed(pkg) /\ Concerned(file, fixed, pkg, inv.os)
    OBVIOUS
  <2> HIDE DEF By, Of
  <2>4. <<oid, seen>> \in Keys(report) <=> \E pkg \in Range(inv.packages) : seen = Observed(pkg) /\ Of(pkg)
    BY <2>1, <2>2
  <2> QED  BY <2>3, <2>4
<1> QED  BY <1>2, <1>6 DEF report, index

LEMMA GreatestIs ==
    ASSUME NEW S \in SUBSET Int, NEW m \in S, \A k \in S : k <= m
    PROVE  Max(S) = m
<1>1. \A x \in S : (\A y \in S : x >= y) <=> x = m
  OBVIOUS
<1>2. Max(S) = CHOOSE x \in S : \A y \in S : x >= y
  BY DEF Max
<1>3. \E x \in S : \A y \in S : x >= y
  BY <1>1
<1> HIDE DEF Max
<1> QED  BY <1>1, <1>2, <1>3

\* A full name, of a name and the two segments of a version.
Splits(full, name, up, rev) ==
    /\ SplitAt(full, Len(name)) = [name |-> name, version |-> <<up, rev>>]
    /\ Len(full) = Len(name) + 2 /\ Len(name) \in Nat
    /\ \A i \in 1..Len(name) : full[i] = name[i]
    /\ full[Len(name) + 1] = up /\ full[Len(name) + 2] = rev

LEMMA VersionSplits ==
    ASSUME NEW A, NEW name \in Seq(A), NEW up \in A, NEW rev \in A
    PROVE  Splits(name \o <<up, rev>>, name, up, rev)
<1> DEFINE full == name \o <<up, rev>>
           n == Len(name)
<1>1. full \in Seq(A) /\ Len(full) = n + 2 /\ n \in Nat
  OBVIOUS
<1>2. (\A i \in 1..n : full[i] = name[i]) /\ full[n + 1] = up /\ full[n + 2] = rev
  OBVIOUS
<1> HIDE DEF full
<1>3. SubSeq(full, 1, n) = name
  <2>1. SubSeq(full, 1, n) \in Seq(A) /\ Len(SubSeq(full, 1, n)) = n
    BY <1>1
  <2>2. \A i \in 1..n : SubSeq(full, 1, n)[i] = name[i]
    BY <1>1, <1>2
  <2> QED  BY <2>1, <2>2, SeqEqual
<1>4. SubSeq(full, n + 1, n + 2) = <<up, rev>>
  <2> DEFINE t == SubSeq(full, n + 1, n + 2)
  <2>1. t \in Seq(A) /\ Len(t) = 2
    BY <1>1
  <2>2. t[1] = up /\ t[2] = rev
    BY <1>1, <1>2
  <2> HIDE DEF t
  <2>3. t = <<up, rev>>
    BY <2>1, <2>2
  <2> QED  BY <2>3 DEF t
<1>5. SplitAt(full, n) = [name |-> name, version |-> <<up, rev>>]
  BY <1>1, <1>3, <1>4 DEF SplitAt
<1>6. Splits(full, name, up, rev)
  BY <1>1, <1>2, <1>5 DEF Splits
<1> QED  BY <1>6 DEF full

\* debFullNameRe: the name is all that is before an upstream version and a revision, whatever hyphens it
\* has and though a later part of it begins with a digit.
LEMMA DebNameIsRead ==
    ASSUME NEW W, NEW name \in Seq(Seq(W)), name # <<>>, NEW up \in Seq(W), NEW rev \in Seq(W),
           Head(up) \in Numerals, \A i \in 1..Len(name) : Range(name[i]) \cap TildeWords = {}
    PROVE  SplitDebFullName(name \o <<up, rev>>) = [name |-> name, version |-> <<up, rev>>]
<1> DEFINE full == name \o <<up, rev>>
           n == Len(name)
           splits ==
               {k \in 1..(Len(full) - 1) :
                   /\ Head(full[k + 1]) \in Numerals
                   /\ \A i \in 1..k : Range(full[i]) \cap TildeWords = {}}
           revised == splits \ {Len(full) - 1}
<1>1. /\ SplitAt(full, n) = [name |-> name, version |-> <<up, rev>>]
      /\ Len(full) = n + 2 /\ n \in Nat
      /\ \A i \in 1..n : full[i] = name[i]
      /\ full[n + 1] = up
  <2>1. full = name \o <<up, rev>> /\ up \in Seq(W) /\ rev \in Seq(W) /\ name \in Seq(Seq(W))
    OBVIOUS
  <2> HIDE DEF full
  <2> QED  BY <2>1, VersionSplits DEF Splits
<1>2. n >= 1
  OBVIOUS
<1> HIDE DEF full, n
<1>3. n \in revised
  <2>1. n \in 1..(Len(full) - 1) /\ n # Len(full) - 1
    BY <1>1, <1>2
  <2>2. Head(full[n + 1]) \in Numerals
    BY <1>1
  <2>3. \A i \in 1..n : Range(full[i]) \cap TildeWords = {}
    BY <1>1 DEF n
  <2> QED  BY <2>1, <2>2, <2>3
<1>4. revised \in SUBSET Int /\ \A k \in revised : k <= n
  <2>1. \A k \in splits : k \in 1..(n + 1)
    BY <1>1
  <2> HIDE DEF splits
  <2>2. \A k \in splits \ {n + 1} : k \in Int /\ k <= n
    BY <1>1, <2>1
  <2>3. Len(full) - 1 = n + 1
    BY <1>1
  <2> QED  BY <2>2, <2>3
<1>5. SplitDebFullName(full) = IF revised # {} THEN SplitAt(full, Max(revised))
                               ELSE IF splits # {} THEN SplitAt(full, Len(full) - 1) ELSE NoName
  BY DEF SplitDebFullName
<1> HIDE DEF revised, splits
<1>6. Max(revised) = n
  BY <1>3, <1>4, GreatestIs
<1>7. SplitDebFullName(full) = SplitAt(full, n)
  BY <1>3, <1>5, <1>6
<1> QED  BY <1>1, <1>7 DEF full

\* splitRPMFullName: so it is for rpm, where an architecture ends the release.
LEMMA RPMNameIsRead ==
    ASSUME NEW W, NEW name \in Seq(Seq(W)), name # <<>>, NEW up \in Seq(W), NEW rev \in Seq(W), rev # <<>>,
           NEW arch \in W, arch \in KnownArches
    PROVE  SplitRPMFullName(name \o <<up, rev \o <<arch>> >>) = [name |-> name, version |-> <<up, rev>>]
<1> DEFINE last == rev \o <<arch>>
           full == name \o <<up, last>>
           short == name \o <<up, rev>>
           n == Len(name)
<1>1. last \in Seq(W) /\ Len(last) = Len(rev) + 1 /\ last[Len(last)] = arch /\ Len(last) > 1
  OBVIOUS
<1>2. Front(last) = rev
  <2>1. Front(last) = SubSeq(last, 1, Len(last) - 1)
    BY DEF Front
  <2>2. Len(rev) \in Nat /\ (\A i \in 1..Len(rev) : last[i] = rev[i])
    OBVIOUS
  <2> HIDE DEF last
  <2>3. SubSeq(last, 1, Len(rev)) \in Seq(W) /\ Len(SubSeq(last, 1, Len(rev))) = Len(rev)
    BY <1>1, <2>2
  <2>4. \A i \in 1..Len(rev) : SubSeq(last, 1, Len(rev))[i] = rev[i]
    BY <1>1, <2>2
  <2>5. SubSeq(last, 1, Len(rev)) = rev
    BY <2>3, <2>4, SeqEqual
  <2> QED  BY <1>1, <2>1, <2>2, <2>5
<1> HIDE DEF last
<1>3. /\ full \in Seq(Seq(W)) /\ Len(full) = n + 2 /\ n \in Nat
      /\ \A i \in 1..n : full[i] = name[i]
      /\ full[n + 1] = up /\ full[n + 2] = last
  <2>1. full = name \o <<up, last>> /\ up \in Seq(W) /\ last \in Seq(W) /\ name \in Seq(Seq(W))
    BY <1>1
  <2> HIDE DEF full
  <2> QED  BY <2>1, VersionSplits DEF Splits
<1>4. /\ SplitAt(short, n) = [name |-> name, version |-> <<up, rev>>]
      /\ short \in Seq(Seq(W)) /\ Len(short) = n + 2
      /\ \A i \in 1..n : short[i] = name[i]
      /\ short[n + 1] = up /\ short[n + 2] = rev
  <2>1. short = name \o <<up, rev>> /\ up \in Seq(W) /\ rev \in Seq(W) /\ name \in Seq(Seq(W))
    OBVIOUS
  <2> HIDE DEF short
  <2> QED  BY <2>1, VersionSplits DEF Splits
<1>5. n >= 1
  OBVIOUS
<1> HIDE DEF full, short, n
<1>6. [full EXCEPT ![n + 2] = rev] = short
  <2> DEFINE bare == [full EXCEPT ![n + 2] = rev]
  <2>1. bare \in Seq(Seq(W)) /\ Len(bare) = n + 2
    BY <1>3
  <2>2. \A i \in 1..(n + 2) : bare[i] = short[i]
    <3>1. \A i \in 1..(n + 2) : i \in 1..n \/ i = n + 1 \/ i = n + 2
      BY <1>3
    <3>2. \A i \in 1..(n + 2) : bare[i] = IF i = n + 2 THEN rev ELSE full[i]
      BY <1>3
    <3> HIDE DEF bare
    <3> QED  BY <1>3, <1>4, <3>1, <3>2
  <2> HIDE DEF bare
  <2>3. bare = short
    BY <1>4, <2>1, <2>2, SeqEqual
  <2> QED  BY <2>3 DEF bare
<1>7. SplitRPMFullName(full) = SplitAt(short, n)
  <2>1. full[Len(full)] = last /\ Len(full) = n + 2
    BY <1>3
  <2>2. [full EXCEPT ![Len(full)] = Front(last)] = short
    BY <1>2, <1>6, <2>1
  <2>3. ~(Len(short) < 3) /\ Len(short) - 2 = n
    <3>1. \A k \in Nat : k >= 1 => ~(k + 2 < 3) /\ (k + 2) - 2 = k
      OBVIOUS
    <3>2. n \in Nat /\ n >= 1 /\ Len(short) = n + 2
      BY <1>3, <1>4, <1>5
    <3> QED  BY <3>1, <3>2
  <2> QED  BY <1>1, <2>1, <2>2, <2>3 DEF SplitRPMFullName
<1> QED  BY <1>4, <1>7 DEF full, last

---------------------------------------------------------------------------
(* Scopes: the inputs of CorrelationChecks *)

\* What a family is, and one of its names.
Named(d, family, names) == d[1] = family /\ \A w \in d[2] : w \in names

LEMMA FamiliesAre ==
    ASSUME NEW d \in Distros
    PROVE  \/ Named(d, "debian", {"debian", "kali"})
           \/ Named(d, "rhel", {"rhel", "red hat", "red hat enterprise linux"})
           \/ \A w \in d[2] :
                 w \notin {"debian", "kali", "rhel", "red hat", "red hat enterprise linux", "suse manager", "nixos"}
<1> DEFINE Others == {"debian", "kali", "rhel", "red hat", "red hat enterprise linux", "suse manager", "nixos"}
<1>1. \A a, S : d = <<a, S>> => d[1] = a /\ d[2] = S
  OBVIOUS
<1>2. \A a, S : d = <<a, S>> => Named(d, a, S)
  BY <1>1 DEF Named
<1>3. CASE d = <<"debian", {"debian", "kali"}>>
  BY <1>2, <1>3, Zenon
<1>4. CASE d = <<"rhel", {"rhel", "red hat", "red hat enterprise linux"}>>
  BY <1>2, <1>4, Zenon
<1>5. ASSUME NEW a, NEW S, d = <<a, S>>, \A w \in S : w \notin Others
      PROVE  \A w \in d[2] : w \notin Others
  <2> HIDE DEF Others
  <2> QED  BY <1>1, <1>5
<1>6. /\ \A w \in {"ubuntu"} : w \notin Others
      /\ \A w \in {"opensuse-leap", "opensuse leap"} : w \notin Others
      /\ \A w \in {"opensuse-tumbleweed", "opensuse tumbleweed"} : w \notin Others
      /\ \A w \in {"sles", "sled", "sles_sap", "sle-micro", "sle_hpc", "suse linux enterprise"} : w \notin Others
      /\ \A w \in {"almalinux", "alma linux"} : w \notin Others
      /\ \A w \in {"ol", "oracle linux"} : w \notin Others
      /\ \A w \in {"amzn", "amazon linux"} : w \notin Others
      /\ \A w \in {"centos", "fedora", "rocky", "mageia", "euleros", "openeuler", "slackware"} : w \notin Others
  BY Zenon
<1> HIDE DEF Others
<1>7. ASSUME \/ d = <<"ubuntu", {"ubuntu"}>>
             \/ d = <<"opensuse-leap", {"opensuse-leap", "opensuse leap"}>>
             \/ d = <<"opensuse-tumbleweed", {"opensuse-tumbleweed", "opensuse tumbleweed"}>>
             \/ d = <<"sles", {"sles", "sled", "sles_sap", "sle-micro", "sle_hpc", "suse linux enterprise"}>>
             \/ d = <<"alma", {"almalinux", "alma linux"}>>
             \/ d = <<"oracle", {"ol", "oracle linux"}>>
             \/ d = <<"amazon", {"amzn", "amazon linux"}>>
      PROVE  \A w \in d[2] : w \notin Others
  BY <1>5, <1>6, <1>7, Zenon
<1>8. CASE \E x \in {"centos", "fedora", "rocky", "mageia", "euleros", "openeuler", "slackware"} : d = <<x, {x}>>
  <2>1. PICK x \in {"centos", "fedora", "rocky", "mageia", "euleros", "openeuler", "slackware"} : d = <<x, {x}>>
    BY <1>8, Zenon
  <2>2. x \notin Others
    BY <1>6, Zenon
  <2>3. \A w \in {x} : w \notin Others
    BY <2>2, Zenon
  <2> QED  BY <1>5, <2>1, <2>3, Zenon DEF Others
<1> QED  BY <1>3, <1>4, <1>7, <1>8, Zenon DEF Distros, Others

LEMMA CanonicalIs ==
    ASSUME NEW name, NEW family,
           \E d \in Distros : name \in d[2], \A d \in Distros : name \in d[2] => d[1] = family
    PROVE  CanonicalDistro(name) = family
<1> DEFINE families == {d \in Distros : name \in d[2]}
<1>1. families # {} /\ \A d \in families : d[1] = family
  OBVIOUS
<1>2. CanonicalDistro(name) = IF families = {} THEN "" ELSE (CHOOSE d \in families : TRUE)[1]
  BY DEF CanonicalDistro
<1> HIDE DEF families
<1>3. (CHOOSE d \in families : TRUE) \in families
  BY <1>1
<1> QED  BY <1>1, <1>2, <1>3

\* The families of the products and hosts that are used.
LEMMA FamiliesKnown ==
    /\ CanonicalDistro("debian") = "debian" /\ CanonicalDistro("kali") = "debian"
    /\ CanonicalDistro("red hat enterprise linux") = "rhel" /\ CanonicalDistro("rhel") = "rhel"
    /\ CanonicalDistro("suse manager") = "" /\ CanonicalDistro("nixos") = ""
<1>1. /\ \A d \in Distros : "debian" \in d[2] => d[1] = "debian"
      /\ \A d \in Distros : "kali" \in d[2] => d[1] = "debian"
      /\ \A d \in Distros : "rhel" \in d[2] => d[1] = "rhel"
      /\ \A d \in Distros : "red hat enterprise linux" \in d[2] => d[1] = "rhel"
      /\ \A d \in Distros : "suse manager" \notin d[2] /\ "nixos" \notin d[2]
  <2>1. \A d \in Distros : "debian" \in d[2] => d[1] = "debian"
    BY FamiliesAre, Zenon DEF Named
  <2>2. \A d \in Distros : "kali" \in d[2] => d[1] = "debian"
    BY FamiliesAre, Zenon DEF Named
  <2>3. \A d \in Distros : "rhel" \in d[2] => d[1] = "rhel"
    BY FamiliesAre, Zenon DEF Named
  <2>4. \A d \in Distros : "red hat enterprise linux" \in d[2] => d[1] = "rhel"
    BY FamiliesAre, Zenon DEF Named
  <2>5. \A d \in Distros : "suse manager" \notin d[2] /\ "nixos" \notin d[2]
    BY FamiliesAre, Zenon DEF Named
  <2> QED  BY <2>1, <2>2, <2>3, <2>4, <2>5
<1> DEFINE debian == <<"debian", {"debian", "kali"}>>
           rhel == <<"rhel", {"rhel", "red hat", "red hat enterprise linux"}>>
<1>2. debian \in Distros /\ rhel \in Distros
  BY DEF Distros
<1>3. "debian" \in debian[2] /\ "kali" \in debian[2] /\ "rhel" \in rhel[2] /\ "red hat enterprise linux" \in rhel[2]
  OBVIOUS
<1> HIDE DEF debian, rhel
<1>4. CanonicalDistro("debian") = "debian" /\ CanonicalDistro("kali") = "debian"
  BY <1>1, <1>2, <1>3, CanonicalIs
<1>5. CanonicalDistro("red hat enterprise linux") = "rhel" /\ CanonicalDistro("rhel") = "rhel"
  BY <1>1, <1>2, <1>3, CanonicalIs
<1>6. CanonicalDistro("suse manager") = "" /\ CanonicalDistro("nixos") = ""
  <2>1. {d \in Distros : "suse manager" \in d[2]} = {} /\ {d \in Distros : "nixos" \in d[2]} = {}
    BY <1>1
  <2> QED  BY <2>1 DEF CanonicalDistro
<1> QED  BY <1>4, <1>5, <1>6

\* The release of a product is the first of its fields that is a number.
LEMMA ReleasesRead ==
    /\ \A r : ExtractProductRelease(<< <<>>, <<r>> >>) = <<r>>
    /\ ExtractProductRelease(<< <<>>, <<>>, <<>>, <<>>, <<9>> >>) = <<9>>
<1>1. ASSUME NEW r PROVE ExtractProductRelease(<< <<>>, <<r>> >>) = <<r>>
  <2> DEFINE fields == << <<>>, <<r>> >>
             numbers == {i \in DOMAIN fields : fields[i] # <<>>}
  <2>1. \A i : i \in numbers <=> i = 2
    <3>1. DOMAIN fields = 1..2 /\ fields[1] = <<>> /\ fields[2] = <<r>> /\ <<r>> # <<>>
      OBVIOUS
    <3> HIDE DEF fields
    <3>2. \A i : i \in 1..2 <=> i = 1 \/ i = 2
      OBVIOUS
    <3> QED  BY <3>1, <3>2
  <2>2. numbers = {2}
    BY <2>1
  <2>3. Min({2}) = 2
    BY DEF Min
  <2>4. fields[2] = <<r>>
    OBVIOUS
  <2> HIDE DEF numbers
  <2> QED  BY <2>2, <2>3, <2>4 DEF ExtractProductRelease, numbers
<1>2. ExtractProductRelease(<< <<>>, <<>>, <<>>, <<>>, <<9>> >>) = <<9>>
  <2> DEFINE fields == << <<>>, <<>>, <<>>, <<>>, <<9>> >>
             numbers == {i \in DOMAIN fields : fields[i] # <<>>}
  <2>1. \A i : i \in numbers <=> i = 5
    <3>1. /\ DOMAIN fields = 1..5 /\ fields[5] = <<9>> /\ <<9>> # <<>>
          /\ fields[1] = <<>> /\ fields[2] = <<>> /\ fields[3] = <<>> /\ fields[4] = <<>>
      OBVIOUS
    <3> HIDE DEF fields
    <3>2. \A i : i \in 1..5 <=> i = 1 \/ i = 2 \/ i = 3 \/ i = 4 \/ i = 5
      OBVIOUS
    <3> QED  BY <3>1, <3>2
  <2>2. numbers = {5}
    BY <2>1
  <2>3. Min({5}) = 5
    BY DEF Min
  <2>4. fields[5] = <<9>>
    OBVIOUS
  <2> HIDE DEF numbers
  <2> QED  BY <2>2, <2>3, <2>4 DEF ExtractProductRelease, numbers
<1> QED  BY <1>1, <1>2

LEMMA PrefixOfOne ==
    ASSUME NEW x \in Nat, NEW y \in Nat, NEW z \in Nat
    PROVE  /\ IsPrefix(<<x>>, <<y>>) <=> x = y
           /\ IsPrefix(<<x>>, <<y, z>>) <=> x = y
<1>1. SubSeq(<<x>>, 1, 1) = <<x>> /\ SubSeq(<<y>>, 1, 1) = <<y>> /\ SubSeq(<<y, z>>, 1, 1) = <<y>>
  <2>1. \A s \in Seq(Nat), v \in Nat : Len(s) >= 1 /\ s[1] = v => SubSeq(s, 1, 1) = <<v>>
    <3> SUFFICES ASSUME NEW s \in Seq(Nat), NEW v \in Nat, Len(s) >= 1, s[1] = v PROVE SubSeq(s, 1, 1) = <<v>>
      OBVIOUS
    <3>1. SubSeq(s, 1, 1) \in Seq(Nat) /\ Len(SubSeq(s, 1, 1)) = 1 /\ SubSeq(s, 1, 1)[1] = v
      OBVIOUS
    <3> DEFINE t == SubSeq(s, 1, 1)
    <3>2. t \in Seq(Nat) /\ Len(t) = 1 /\ t[1] = v
      BY <3>1
    <3> HIDE DEF t
    <3>3. t = <<v>>
      BY <3>2
    <3> QED  BY <3>3 DEF t
  <2>2. /\ <<x>> \in Seq(Nat) /\ Len(<<x>>) >= 1 /\ <<x>>[1] = x
        /\ <<y>> \in Seq(Nat) /\ Len(<<y>>) >= 1 /\ <<y>>[1] = y
        /\ <<y, z>> \in Seq(Nat) /\ Len(<<y, z>>) >= 1 /\ <<y, z>>[1] = y
    OBVIOUS
  <2> QED  BY <2>1, <2>2
<1>2. Len(<<x>>) = 1 /\ Len(<<y>>) = 1 /\ Len(<<y, z>>) = 2
  OBVIOUS
<1>3. <<x>> = <<y>> <=> x = y
  OBVIOUS
<1> QED  BY <1>1, <1>2, <1>3 DEF IsPrefix

\* What the scopes of the hosts and the products are.
LEMMA ProductScopes ==
    /\ \A r : AdvisoryScope(Debian(r)).distro = "debian" /\ AdvisoryScope(Debian(r)).release = <<r>>
    /\ AdvisoryScope(RedHat9).distro = "rhel" /\ AdvisoryScope(RedHat9).release = <<9>>
    /\ AdvisoryScope(SuseManager).distro = ""
<1>1. ASSUME NEW r PROVE AdvisoryScope(Debian(r)).distro = "debian" /\ AdvisoryScope(Debian(r)).release = <<r>>
  <2>1. Debian(r).name = "debian" /\ Debian(r).fields = << <<>>, <<r>> >>
    BY DEF Debian
  <2> QED  BY <2>1, FamiliesKnown, ReleasesRead, Zenon DEF AdvisoryScope
<1>2. AdvisoryScope(RedHat9).distro = "rhel" /\ AdvisoryScope(RedHat9).release = <<9>>
  <2>1. RedHat9.name = "red hat enterprise linux" /\ RedHat9.fields = << <<>>, <<>>, <<>>, <<>>, <<9>> >>
    BY DEF RedHat9
  <2> QED  BY <2>1, FamiliesKnown, ReleasesRead, Zenon DEF AdvisoryScope
<1>3. AdvisoryScope(SuseManager).distro = ""
  <2>1. SuseManager.name = "suse manager"
    BY DEF SuseManager
  <2>2. AdvisoryScope(SuseManager).distro = CanonicalDistro(SuseManager.name)
    BY DEF AdvisoryScope
  <2> QED  BY <2>1, <2>2, FamiliesKnown, Zenon
<1> QED  BY <1>1, <1>2, <1>3, Zenon

LEMMA HostScopes ==
    ASSUME NEW d, NEW r
    PROVE  /\ HostScope(OS(d, r)).distro = CanonicalDistro(d)
           /\ d # "kali" => HostScope(OS(d, r)).release = r
           /\ d = "kali" => HostScope(OS(d, r)).release = <<13>>
<1>1. OS(d, r).distro = d /\ OS(d, r).release = r
  BY DEF OS
<1> QED  BY <1>1, Zenon DEF HostScope, KaliDebianRelease

UsedProducts == {Debian(12), Debian(13), RedHat9, SuseManager}

\* Which advisory is evaluated for which host: a product for the release that it names, Kali as its Debian,
\* a minor release as its major one, and nothing of a family that nobody knows.
LEMMA ScopesMeet ==
    ASSUME NEW product \in UsedProducts, NEW os \in Hosts
    PROVE  AppliesTo(AdvisoryScope(product), HostScope(os)) <=> <<product, os>> \in MeantFor
<1> DEFINE sm == "suse manager"
           d12 == OS("debian", <<12>>)
           d13 == OS("debian", <<13>>)
           kali == OS("kali", Kali2026)
           rhel94 == OS("rhel", <<9, 4>>)
           rhel == OS("rhel", <<>>)
           suse == OS(sm, <<4, 3>>)
           nixos == OS("nixos", <<12>>)
<1>1. os = d12 \/ os = d13 \/ os = kali \/ os = rhel94 \/ os = rhel \/ os = suse \/ os = nixos
  BY Zenon DEF Hosts
<1>2. product = Debian(12) \/ product = Debian(13) \/ product = RedHat9 \/ product = SuseManager
  BY Zenon DEF UsedProducts
<1>3. <<product, os>> \in MeantFor <=> \/ product = Debian(12) /\ os = d12
                                       \/ product = Debian(13) /\ (os = d13 \/ os = kali)
                                       \/ product = RedHat9 /\ os = rhel94
  <2>1. \A p, o : <<product, os>> = <<p, o>> <=> product = p /\ os = o
    OBVIOUS
  <2> HIDE DEF d12, d13, kali, rhel94
  <2> QED  BY <2>1, Zenon DEF MeantFor, d12, d13, kali, rhel94
\* They are told apart by a word or a number.
<1>4. /\ d12 # d13 /\ d12 # kali /\ d12 # rhel94 /\ d12 # rhel /\ d12 # suse /\ d12 # nixos
      /\ d13 # kali /\ d13 # rhel94 /\ d13 # rhel /\ d13 # suse /\ d13 # nixos
      /\ kali # rhel94 /\ kali # rhel /\ kali # suse /\ kali # nixos
      /\ rhel94 # rhel /\ rhel94 # suse /\ rhel94 # nixos
  <2>1. \A d, r, e, q : OS(d, r) = OS(e, q) => d = e /\ r = q
    <3>1. \A d, r : OS(d, r).distro = d /\ OS(d, r).release = r
      BY DEF OS
    <3> QED  BY <3>1
  <2>2. /\ "debian" # "kali" /\ "debian" # "rhel" /\ "debian" # sm /\ "debian" # "nixos"
        /\ "kali" # "rhel" /\ "kali" # sm /\ "kali" # "nixos"
        /\ "rhel" # sm /\ "rhel" # "nixos"
    BY Zenon
  <2>3. <<12>> # <<13>> /\ <<9, 4>> # <<>>
    OBVIOUS
  <2> HIDE DEF sm
  <2>4. /\ \A r, q : /\ OS("debian", r) # OS("kali", q) /\ OS("debian", r) # OS("rhel", q)
                     /\ OS("debian", r) # OS(sm, q) /\ OS("debian", r) # OS("nixos", q)
        /\ \A r, q : /\ OS("kali", r) # OS("rhel", q) /\ OS("kali", r) # OS(sm, q) /\ OS("kali", r) # OS("nixos", q)
        /\ \A r, q : OS("rhel", r) # OS(sm, q) /\ OS("rhel", r) # OS("nixos", q)
    BY <2>1, <2>2
  <2>5. d12 # d13 /\ rhel94 # rhel
    BY <2>1, <2>3
  <2> QED  BY <2>4, <2>5
<1>5. /\ Debian(12) # Debian(13) /\ Debian(12) # RedHat9 /\ Debian(12) # SuseManager
      /\ Debian(13) # RedHat9 /\ Debian(13) # SuseManager /\ RedHat9 # SuseManager
  <2>1. \A r : Debian(r).name = "debian" /\ Debian(r).fields = << <<>>, <<r>> >>
    BY DEF Debian
  <2>2. RedHat9.name = "red hat enterprise linux" /\ SuseManager.name = "suse manager"
    BY DEF RedHat9, SuseManager
  <2>3. "debian" # "red hat enterprise linux" /\ "debian" # "suse manager" /\ "red hat enterprise linux" # "suse manager"
    BY Zenon
  <2>4. << <<>>, <<12>> >> # << <<>>, <<13>> >>
    OBVIOUS
  <2> QED  BY <2>1, <2>2, <2>3, <2>4, Zenon
<1>6. "debian" # "" /\ "rhel" # "" /\ "debian" # "rhel"
  BY Zenon
<1>7. /\ IsPrefix(<<12>>, <<12>>) /\ ~IsPrefix(<<12>>, <<13>>)
      /\ IsPrefix(<<13>>, <<13>>) /\ ~IsPrefix(<<13>>, <<12>>) /\ IsPrefix(<<9>>, <<9, 4>>)
  <2>1. \A x, y, z \in Nat : (IsPrefix(<<x>>, <<y>>) <=> x = y) /\ (IsPrefix(<<x>>, <<y, z>>) <=> x = y)
    BY PrefixOfOne
  <2>2. 12 \in Nat /\ 13 \in Nat /\ 9 \in Nat /\ 4 \in Nat /\ 12 # 13
    OBVIOUS
  <2> DEFINE P(x, y) == IsPrefix(<<x>>, <<y>>)
             Q(x, y, z) == IsPrefix(<<x>>, <<y, z>>)
  <2>3. \A x, y, z \in Nat : (P(x, y) <=> x = y) /\ (Q(x, y, z) <=> x = y)
    BY <2>1
  <2> HIDE DEF P, Q
  <2>4. P(12, 12) /\ ~P(12, 13) /\ P(13, 13) /\ ~P(13, 12) /\ Q(9, 9, 4)
    BY <2>2, <2>3
  <2> QED  BY <2>4, Zenon DEF P, Q
<1>8. <<12>> # <<>> /\ <<13>> # <<>> /\ <<9>> # <<>> /\ <<9, 4>> # <<>>
  OBVIOUS
<1> DEFINE r9 == <<9>>
           r12 == <<12>>
           r13 == <<13>>
           r94 == <<9, 4>>
           none == <<>>
<1>9. /\ HostScope(d12).distro = "debian" /\ HostScope(d12).release = r12
      /\ HostScope(d13).distro = "debian" /\ HostScope(d13).release = r13
      /\ HostScope(kali).distro = "debian" /\ HostScope(kali).release = r13
      /\ HostScope(rhel94).distro = "rhel" /\ HostScope(rhel94).release = r94
      /\ HostScope(rhel).distro = "rhel" /\ HostScope(rhel).release = none
      /\ HostScope(suse).distro = "" /\ HostScope(nixos).distro = ""
  <2> DEFINE Scope(d, r) == HostScope(OS(d, r))
  <2>1. "debian" # "kali" /\ "rhel" # "kali"
    BY Zenon
  <2>2. /\ CanonicalDistro("debian") = "debian" /\ CanonicalDistro("kali") = "debian" /\ CanonicalDistro("rhel") = "rhel"
        /\ CanonicalDistro(sm) = "" /\ CanonicalDistro("nixos") = ""
    BY FamiliesKnown, Zenon
  <2>3. \A d, r : /\ Scope(d, r).distro = CanonicalDistro(d)
                  /\ d # "kali" => Scope(d, r).release = r
                  /\ d = "kali" => Scope(d, r).release = r13
    BY HostScopes
  <2> HIDE DEF Scope, sm, r9, r12, r13, r94, none
  <2>4. /\ Scope("debian", r12).distro = "debian" /\ Scope("debian", r12).release = r12
        /\ Scope("debian", r13).distro = "debian" /\ Scope("debian", r13).release = r13
        /\ Scope("kali", Kali2026).distro = "debian" /\ Scope("kali", Kali2026).release = r13
        /\ Scope("rhel", r94).distro = "rhel" /\ Scope("rhel", r94).release = r94
        /\ Scope("rhel", none).distro = "rhel" /\ Scope("rhel", none).release = none
        /\ Scope(sm, <<4, 3>>).distro = "" /\ Scope("nixos", r12).distro = ""
    BY <2>1, <2>2, <2>3
  <2> QED  BY <2>4, Zenon DEF Scope, r12, r13, r94, none
<1>i. /\ IsPrefix(r12, r12) /\ ~IsPrefix(r12, r13) /\ IsPrefix(r13, r13) /\ ~IsPrefix(r13, r12) /\ IsPrefix(r9, r94)
      /\ r12 # none /\ r13 # none /\ r9 # none /\ r94 # none
  BY <1>7, <1>8, Zenon
<1> DEFINE A(p, h) == AppliesTo(AdvisoryScope(p), HostScope(h))
<1> HIDE DEF d12, d13, kali, rhel94, rhel, suse, nixos
<1>10. \A p, h : A(p, h) <=>
           /\ AdvisoryScope(p).distro # "" /\ AdvisoryScope(p).distro = HostScope(h).distro
           /\ AdvisoryScope(p).release # none /\ HostScope(h).release # none
           /\ IsPrefix(AdvisoryScope(p).release, HostScope(h).release)
  BY DEF AppliesTo, ReleaseComponentsPrefix
<1>11. \A p : ~A(p, suse) /\ ~A(p, nixos)
  BY <1>9 DEF AppliesTo
<1> HIDE DEF A, r9, r12, r13, r94, none
<1>12. CASE product = Debian(12)
  <2>1. AdvisoryScope(product).distro = "debian" /\ AdvisoryScope(product).release = r12
    BY <1>12, ProductScopes DEF r9, r12, r13
  <2>2. A(product, d12) /\ ~A(product, d13) /\ ~A(product, kali)
    BY <1>6, <1>9, <1>i, <1>10, <2>1
  <2>3. ~A(product, rhel94) /\ ~A(product, rhel)
    BY <1>6, <1>9, <1>i, <1>10, <2>1
  <2>4. A(product, os) <=> os = d12
    BY <1>1, <1>4, <1>11, <2>2, <2>3, Zenon
  <2> QED  BY <1>3, <1>5, <1>12, <2>4, Zenon DEF A
<1>13. CASE product = Debian(13)
  <2>1. AdvisoryScope(product).distro = "debian" /\ AdvisoryScope(product).release = r13
    BY <1>13, ProductScopes DEF r9, r12, r13
  <2>2. ~A(product, d12) /\ A(product, d13) /\ A(product, kali)
    BY <1>6, <1>9, <1>i, <1>10, <2>1
  <2>3. ~A(product, rhel94) /\ ~A(product, rhel)
    BY <1>6, <1>9, <1>i, <1>10, <2>1
  <2>4. A(product, os) <=> (os = d13 \/ os = kali)
    BY <1>1, <1>4, <1>11, <2>2, <2>3, Zenon
  <2> QED  BY <1>3, <1>5, <1>13, <2>4, Zenon DEF A
<1>14. CASE product = RedHat9
  <2>1. AdvisoryScope(product).distro = "rhel" /\ AdvisoryScope(product).release = r9
    BY <1>14, ProductScopes DEF r9, r12, r13
  <2>2. ~A(product, d12) /\ ~A(product, d13) /\ ~A(product, kali)
    BY <1>6, <1>9, <1>i, <1>10, <2>1
  <2>3. A(product, rhel94) /\ ~A(product, rhel)
    BY <1>6, <1>9, <1>i, <1>10, <2>1
  <2>4. A(product, os) <=> os = rhel94
    BY <1>1, <1>4, <1>11, <2>2, <2>3, Zenon
  <2> QED  BY <1>3, <1>5, <1>14, <2>4, Zenon DEF A
<1>15. CASE product = SuseManager
  <2>1. ~A(product, os)
    BY <1>15, ProductScopes, Zenon DEF AppliesTo, A
  <2> QED  BY <1>3, <1>5, <1>15, <2>1, Zenon DEF A
<1> QED  BY <1>2, <1>12, <1>13, <1>14, <1>15, Zenon

---------------------------------------------------------------------------
(* Advisories as they are written: the inputs of CorrelationChecks *)

Words == {"bash", "gcc", "12", "1", "2", "x86_64"}

LEMMA WordsAre ==
    /\ Bash \in Seq(Seq(Words)) /\ Gcc12 \in Seq(Seq(Words)) /\ Bash # <<>> /\ Gcc12 # <<>>
    /\ \A i \in 1..Len(Bash) : Range(Bash[i]) \cap TildeWords = {}
    /\ \A i \in 1..Len(Gcc12) : Range(Gcc12[i]) \cap TildeWords = {}
<1>1. Bash \in Seq(Seq(Words)) /\ Gcc12 \in Seq(Seq(Words)) /\ Bash # <<>> /\ Gcc12 # <<>>
  BY DEF Bash, Gcc12, Words
<1>2. "bash" \notin TildeWords /\ "gcc" \notin TildeWords /\ "12" \notin TildeWords
  BY Zenon DEF TildeWords
<1>3. \A w : w \notin TildeWords => Range(<<w>>) \cap TildeWords = {}
  BY DEF Range
<1>4. Len(Bash) = 1 /\ Bash[1] = <<"bash">> /\ Len(Gcc12) = 2 /\ Gcc12[1] = <<"gcc">> /\ Gcc12[2] = <<"12">>
  BY DEF Bash, Gcc12
<1>5. \A i \in 1..Len(Bash) : Range(Bash[i]) \cap TildeWords = {}
  BY <1>2, <1>3, <1>4
<1>6. \A i \in 1..Len(Gcc12) : Range(Gcc12[i]) \cap TildeWords = {}
  BY <1>2, <1>3, <1>4
<1> QED  BY <1>1, <1>5, <1>6

\* A version of an advisory: an upstream version that begins with a digit, and a revision.
LEMMA VersionsAre ==
    ASSUME NEW v \in {V("1", "2"), V("2", "1")}
    PROVE  /\ v = <<v[1], v[2]>> /\ v[1] \in Seq(Words) /\ v[2] \in Seq(Words) /\ v[2] # <<>>
           /\ Head(v[1]) \in Numerals
<1>1. ASSUME NEW x \in {"1", "2"}, NEW y \in {"1", "2"}, v = V(x, y)
      PROVE  /\ v = <<v[1], v[2]>> /\ v[1] \in Seq(Words) /\ v[2] \in Seq(Words) /\ v[2] # <<>>
             /\ Head(v[1]) \in Numerals
  <2>1. v[1] = <<x>> /\ v[2] = <<y>> /\ v = << <<x>>, <<y>> >>
    BY <1>1 DEF V
  <2>2. x \in Words /\ y \in Words /\ x \in Numerals
    BY Zenon DEF Words, Numerals
  <2> HIDE DEF Words, Numerals
  <2>3. <<x>> \in Seq(Words) /\ <<y>> \in Seq(Words) /\ <<y>> # <<>> /\ Head(<<x>>) = x
    BY <2>2
  <2> QED  BY <2>1, <2>2, <2>3
<1>2. "1" \in {"1", "2"} /\ "2" \in {"1", "2"} /\ (v = V("1", "2") \/ v = V("2", "1"))
  BY Zenon
<1> QED  BY <1>1, <1>2, Zenon

\* The one entry of a file reads as its author means it, in whatever form it is written.
Reads(file, a) ==
    \E adv, fixed :
        /\ file.advisories = <<adv>> /\ adv.fixed = <<fixed>> /\ adv.oid = a.oid /\ fixed.specifier = ">="
        /\ ExtractFixedPkg(file.type, fixed) = [name |-> a.name, version |-> a.fixed]

LEMMA WrittenIs ==
    ASSUME NEW a \in Advisories
    PROVE  Written(a).type = TypeOf(a.product) /\ Written(a).product = a.product /\ Reads(Written(a), a)
<1> DEFINE type == TypeOf(a.product)
           full == IF type = "deb" THEN a.name \o a.fixed
                   ELSE a.name \o <<a.fixed[1], a.fixed[2] \o <<"x86_64">> >>
           fixed == [specifier |-> ">=", full |-> IF a.form = "full" THEN full ELSE <<>>,
                     name |-> IF a.form = "pair" THEN a.name ELSE <<>>,
                     version |-> IF a.form = "pair" THEN a.fixed ELSE <<>>]
           adv == [oid |-> a.oid, fixed |-> <<fixed>>]
           meant == [name |-> a.name, version |-> a.fixed]
<1>1. /\ a.name \in {Bash, Gcc12} /\ a.fixed \in {V("1", "2"), V("2", "1")}
      /\ a.form \in {"full", "pair"} /\ (a.form = "pair" => type = "deb")
  BY Zenon DEF Advisories
<1>2. Written(a) = [type |-> type, product |-> a.product, advisories |-> <<adv>>]
  BY DEF Written
<1>3. type = "deb" \/ type = "rpm"
  BY Zenon DEF TypeOf
<1>4. "deb" # "rpm" /\ "full" # "pair"
  BY Zenon
<1>5. /\ fixed.specifier = ">=" /\ adv.fixed = <<fixed>> /\ adv.oid = a.oid
      /\ (a.form = "full" => fixed.full = full)
      /\ (a.form = "pair" => fixed.full = <<>> /\ fixed.name = a.name /\ fixed.version = a.fixed)
  BY <1>4
<1>6. /\ a.name \in Seq(Seq(Words)) /\ a.name # <<>>
      /\ \A i \in 1..Len(a.name) : Range(a.name[i]) \cap TildeWords = {}
  BY <1>1, WordsAre
<1>7. /\ a.fixed = <<a.fixed[1], a.fixed[2]>> /\ a.fixed[1] \in Seq(Words) /\ a.fixed[2] \in Seq(Words)
      /\ a.fixed[2] # <<>> /\ Head(a.fixed[1]) \in Numerals
  BY <1>1, VersionsAre
<1>8. "x86_64" \in Words /\ "x86_64" \in KnownArches
  BY Zenon DEF Words, KnownArches
<1>9. meant # NoName /\ a.name # <<>> /\ a.fixed # <<>>
  <2>1. meant.name = a.name /\ NoName.name = <<>>
    BY DEF NoName
  <2>2. a.fixed # <<>>
    BY <1>7
  <2> QED  BY <1>6, <2>1, <2>2
<1>10. type = "deb" => SplitDebFullName(full) = meant /\ full # <<>>
  <2> SUFFICES ASSUME type = "deb" PROVE SplitDebFullName(full) = meant /\ full # <<>>
    OBVIOUS
  <2>1. full = a.name \o <<a.fixed[1], a.fixed[2]>>
    BY <1>7
  <2>2. SplitDebFullName(a.name \o <<a.fixed[1], a.fixed[2]>>) = [name |-> a.name, version |-> <<a.fixed[1], a.fixed[2]>>]
    BY <1>6, <1>7, DebNameIsRead
  <2>3. a.name \o <<a.fixed[1], a.fixed[2]>> # <<>>
    BY <1>6, <1>7
  <2> QED  BY <1>7, <2>1, <2>2, <2>3
<1>11. type = "rpm" => SplitRPMFullName(full) = meant /\ full # <<>>
  <2> SUFFICES ASSUME type = "rpm" PROVE SplitRPMFullName(full) = meant /\ full # <<>>
    OBVIOUS
  <2>1. full = a.name \o <<a.fixed[1], a.fixed[2] \o <<"x86_64">> >>
    BY <1>4
  <2>2. SplitRPMFullName(a.name \o <<a.fixed[1], a.fixed[2] \o <<"x86_64">> >>)
            = [name |-> a.name, version |-> <<a.fixed[1], a.fixed[2]>>]
    BY <1>6, <1>7, <1>8, RPMNameIsRead, ZenonT(30)
  <2>3. a.name \o <<a.fixed[1], a.fixed[2] \o <<"x86_64">> >> # <<>>
    <3>1. a.fixed[2] \o <<"x86_64">> \in Seq(Words)
      BY <1>7, <1>8
    <3> QED  BY <1>6, <1>7, <3>1
  <2> QED  BY <1>7, <2>1, <2>2, <2>3
<1> HIDE DEF full, fixed, meant, adv, type
<1>12. ExtractFixedPkg(type, fixed) = meant
  <2>1. CASE a.form = "full"
    BY <1>3, <1>4, <1>5, <1>9, <1>10, <1>11, <2>1 DEF ExtractFixedPkg
  <2>2. CASE a.form = "pair"
    BY <1>1, <1>5, <1>9, <2>2 DEF ExtractFixedPkg, meant
  <2> QED  BY <1>1, <2>1, <2>2, Zenon
<1>13. Written(a).advisories = <<adv>> /\ Written(a).type = type /\ Written(a).product = a.product
  BY <1>2
<1> QED  BY <1>5, <1>12, <1>13 DEF Reads, meant, type

\* The order of the versions that the inputs use.
LEMMA VersionsOrdered ==
    ASSUME Ascending = InOrder, NEW type \in {"deb", "rpm"},
           NEW installed \in {V("rc", "1"), V("1", "1"), V("1", "2"), V("2", "1")},
           NEW fixed \in {V("1", "2"), V("2", "1")}, type = "rpm" => installed # V("rc", "1")
    PROVE  IsVulnerable(type, installed, fixed, ">=") <=>
               /\ installed # V("rc", "1")
               /\ <<installed, fixed>> \in {<<V("1", "1"), V("1", "2")>>, <<V("1", "1"), V("2", "1")>>, <<V("1", "2"), V("2", "1")>>}
<1> DEFINE rc == V("rc", "1")
           v11 == V("1", "1")
           v12 == V("1", "2")
           v21 == V("2", "1")
<1>1. rc # v11 /\ rc # v12 /\ rc # v21 /\ v11 # v12 /\ v11 # v21 /\ v12 # v21
  <2>1. \A x, y, z, w : V(x, y) = V(z, w) => x = z /\ y = w
    BY DEF V
  <2>2. "rc" # "1" /\ "rc" # "2" /\ "1" # "2"
    BY Zenon
  <2> QED  BY <2>1, <2>2
<1>2. Ascending = <<rc, v11, v12, v21>>
  BY DEF InOrder
<1>3. installed = rc \/ installed = v11 \/ installed = v12 \/ installed = v21
  BY Zenon
<1>4. fixed = v12 \/ fixed = v21
  BY Zenon
<1>5. type = "deb" \/ type = "rpm"
  BY Zenon
<1>6. "deb" # "rpm"
  BY Zenon
<1>7. <<installed, fixed>> \in {<<v11, v12>>, <<v11, v21>>, <<v12, v21>>} <=>
          \/ installed = v11 /\ (fixed = v12 \/ fixed = v21)
          \/ installed = v12 /\ fixed = v21
  <2>1. \A p, q : <<installed, fixed>> = <<p, q>> <=> installed = p /\ fixed = q
    OBVIOUS
  <2> HIDE DEF rc, v11, v12, v21
  <2>2. <<installed, fixed>> \in {<<v11, v12>>, <<v11, v21>>, <<v12, v21>>} <=>
            \/ <<installed, fixed>> = <<v11, v12>> \/ <<installed, fixed>> = <<v11, v21>>
            \/ <<installed, fixed>> = <<v12, v21>>
    BY Zenon
  <2> QED  BY <1>4, <2>1, <2>2
<1> HIDE DEF rc, v11, v12, v21
<1>8. Rank(rc) = 1 /\ Rank(v11) = 2 /\ Rank(v12) = 3 /\ Rank(v21) = 4
  <2>1. /\ DOMAIN Ascending = 1..4
        /\ Ascending[1] = rc /\ Ascending[2] = v11 /\ Ascending[3] = v12 /\ Ascending[4] = v21
    BY <1>2
  <2>2. \A i \in 1..4 : i = 1 \/ i = 2 \/ i = 3 \/ i = 4
    OBVIOUS
  <2>3. ASSUME NEW k \in 1..4 PROVE Rank(Ascending[k]) = k
    <3>1. \A i \in 1..4 : Ascending[i] = Ascending[k] <=> i = k
      BY <1>1, <2>1, <2>2
    <3>2. Rank(Ascending[k]) = CHOOSE i \in 1..4 : Ascending[i] = Ascending[k]
      BY <2>1 DEF Rank
    <3> QED  BY <3>1, <3>2
  <2>4. 1 \in 1..4 /\ 2 \in 1..4 /\ 3 \in 1..4 /\ 4 \in 1..4
    OBVIOUS
  <2> QED  BY <2>1, <2>3, <2>4
<1>9. IsVulnerable(type, installed, fixed, ">=") <=>
          Rank(installed) < Rank(fixed) /\ (type = "deb" => Rank(installed) > 1 /\ Rank(fixed) > 1)
  <2>1. IsVulnerable(type, installed, fixed, ">=") <=>
            \/ type = "deb" /\ DebLessThan(installed, fixed)
            \/ type = "rpm" /\ RpmLessThan(installed, fixed)
    BY Zenon DEF IsVulnerable
  <2> QED  BY <1>5, <1>6, <2>1 DEF DebLessThan, RpmLessThan
<1>10. IsVulnerable(type, installed, fixed, ">=") <=>
           \/ installed = v11 /\ (fixed = v12 \/ fixed = v21)
           \/ installed = v12 /\ fixed = v21
  <2>1. CASE installed = rc
    BY <1>1, <1>4, <1>5, <1>8, <1>9, <2>1 DEF rc
  <2>2. CASE installed = v11
    BY <1>1, <1>4, <1>8, <1>9, <2>2
  <2>3. CASE installed = v12
    BY <1>1, <1>4, <1>8, <1>9, <2>3
  <2>4. CASE installed = v21
    BY <1>1, <1>4, <1>8, <1>9, <2>4
  <2> QED  BY <1>3, <2>1, <2>2, <2>3, <2>4
<1>11. (installed = v11 \/ installed = v12) => installed # V("rc", "1")
  BY <1>1 DEF rc
<1> QED  BY <1>7, <1>10, <1>11, Zenon DEF v11, v12, v21

\* An advisory concerns a package as its author means it.
LEMMA ConcernsAreRead ==
    ASSUME Ascending = InOrder, NEW a \in Advisories, NEW p \in Packages, NEW os \in Hosts,
           NEW fixed, fixed.specifier = ">=",
           ExtractFixedPkg(Written(a).type, fixed) = [name |-> a.name, version |-> a.fixed]
    PROVE  Concerned(Written(a), fixed, p, os) <=> Concerns(a, p, os)
<1>1. /\ a.name \in {Bash, Gcc12} /\ a.fixed \in {V("1", "2"), V("2", "1")}
      /\ a.product \in {Debian(12), Debian(13), RedHat9, SuseManager}
  BY Zenon DEF Advisories
<1>2. a.name # <<>> /\ a.fixed # <<>>
  <2>1. a.name # <<>>
    BY <1>1, WordsAre
  <2> QED  BY <1>1, <2>1, VersionsAre
<1>3. Written(a).type = TypeOf(a.product) /\ Written(a).product = a.product /\ TypeOf(a.product) \in {"deb", "rpm"}
  BY WrittenIs, Zenon DEF TypeOf
<1>4. AppliesTo(AdvisoryScope(a.product), HostScope(os)) <=> <<a.product, os>> \in MeantFor
  BY <1>1, ScopesMeet DEF UsedProducts
<1>5. /\ p.version \in {V("rc", "1"), V("1", "1"), V("1", "2"), V("2", "1")}
      /\ p.version = V("rc", "1") => p.source = "dpkg"
  <2>1. \A n, v, s, r : Pkg(n, v, s, r).version = v /\ Pkg(n, v, s, r).source = s
    BY DEF Pkg
  <2>2. \/ \E s \in {"dpkg", "rpm"}, r \in {"x86_64", "i686"} : p = Pkg(Bash, V("1", "1"), s, r)
        \/ p = Pkg(Bash, V("2", "1"), "dpkg", "x86_64") \/ p = Pkg(Gcc12, V("1", "2"), "dpkg", "x86_64")
        \/ p = Pkg(Gcc12, V("1", "1"), "rpm", "x86_64") \/ p = Pkg(Bash, V("rc", "1"), "dpkg", "x86_64")
    BY DEF Packages
  <2>3. V("1", "1") # V("rc", "1")
    <3>1. \A x, y, z, w : V(x, y) = V(z, w) => x = z
      BY DEF V
    <3>2. "1" # "rc"
      BY Zenon
    <3> QED  BY <3>1, <3>2
  <2>4. \/ p.version = V("1", "1") \/ p.version = V("2", "1") \/ p.version = V("1", "2")
        \/ p.version = V("rc", "1") /\ p.source = "dpkg"
    BY <2>1, <2>2
  <2>5. V("2", "1") # V("rc", "1") /\ V("1", "2") # V("rc", "1")
    <3>1. \A x, y, z, w : V(x, y) = V(z, w) => x = z
      BY DEF V
    <3>2. "1" # "rc" /\ "2" # "rc"
      BY Zenon
    <3> QED  BY <3>1, <3>2
  <2> QED  BY <2>3, <2>4, <2>5, Zenon
<1>6. SourcePkgTypeMatch(p.source, TypeOf(a.product)) <=> <<p.source, TypeOf(a.product)>> \in {<<"dpkg", "deb">>, <<"rpm", "rpm">>}
  BY DEF SourcePkgTypeMatch
<1>7. SourcePkgTypeMatch(p.source, TypeOf(a.product)) /\ TypeOf(a.product) = "rpm" => p.version # V("rc", "1")
  <2>1. \A s, t : <<s, t>> \in {<<"dpkg", "deb">>, <<"rpm", "rpm">>} /\ t = "rpm" => s = "rpm"
    <3>1. \A s, t, x, y : <<s, t>> = <<x, y>> => s = x /\ t = y
      OBVIOUS
    <3>2. "rpm" # "deb"
      BY Zenon
    <3> QED  BY <3>1, <3>2, Zenon
  <2>2. "dpkg" # "rpm"
    BY Zenon
  <2> QED  BY <1>5, <1>6, <2>1, <2>2, Zenon
<1>8. SourcePkgTypeMatch(p.source, TypeOf(a.product)) =>
          (IsVulnerable(TypeOf(a.product), p.version, a.fixed, ">=") <=>
              /\ p.version # V("rc", "1")
              /\ <<p.version, a.fixed>> \in {<<V("1", "1"), V("1", "2")>>, <<V("1", "1"), V("2", "1")>>, <<V("1", "2"), V("2", "1")>>})
  BY <1>1, <1>3, <1>5, <1>7, VersionsOrdered
<1> DEFINE read == ExtractFixedPkg(Written(a).type, fixed)
<1>9. read.name = a.name /\ read.version = a.fixed
  OBVIOUS
<1>10. Concerned(Written(a), fixed, p, os) <=>
           /\ read.name # <<>> /\ read.version # <<>> /\ read.name = p.name
           /\ SourcePkgTypeMatch(p.source, Written(a).type)
           /\ AppliesTo(AdvisoryScope(Written(a).product), HostScope(os))
           /\ IsVulnerable(Written(a).type, p.version, read.version, fixed.specifier)
  BY DEF Concerned
<1>11. Concerns(a, p, os) <=>
           /\ <<a.product, os>> \in MeantFor
           /\ p.name = a.name /\ <<p.source, TypeOf(a.product)>> \in {<<"dpkg", "deb">>, <<"rpm", "rpm">>}
           /\ p.version # V("rc", "1")
           /\ <<p.version, a.fixed>> \in {<<V("1", "1"), V("1", "2")>>, <<V("1", "1"), V("2", "1")>>, <<V("1", "2"), V("2", "1")>>}
  BY DEF Concerns
<1> HIDE DEF read
<1> DEFINE Pairs == {<<V("1", "1"), V("1", "2")>>, <<V("1", "1"), V("2", "1")>>, <<V("1", "2"), V("2", "1")>>}
           Kinds == {<<"dpkg", "deb">>, <<"rpm", "rpm">>}
           rc == V("rc", "1")
<1> HIDE DEF Pairs, Kinds, rc
<1>12. Concerns(a, p, os) <=>
           /\ <<a.product, os>> \in MeantFor
           /\ p.name = a.name /\ <<p.source, TypeOf(a.product)>> \in Kinds
           /\ p.version # rc /\ <<p.version, a.fixed>> \in Pairs
  BY <1>11, Zenon DEF Pairs, Kinds, rc
<1>13. SourcePkgTypeMatch(p.source, TypeOf(a.product)) =>
           (IsVulnerable(TypeOf(a.product), p.version, a.fixed, ">=") <=> p.version # rc /\ <<p.version, a.fixed>> \in Pairs)
  BY <1>8, Zenon DEF Pairs, rc
<1>14. SourcePkgTypeMatch(p.source, TypeOf(a.product)) <=> <<p.source, TypeOf(a.product)>> \in Kinds
  BY <1>6, Zenon DEF Kinds
<1> QED  BY <1>2, <1>3, <1>4, <1>9, <1>10, <1>12, <1>13, <1>14

\* What a host should be told.
Meant(feed, packages, os) ==
    UNION {{<<feed[i].oid, Observed(packages[j])>> : i \in {k \in DOMAIN feed : Concerns(feed[k], packages[j], os)}} :
           j \in DOMAIN packages}

\* notus.go and scope.go: of feeds of any length, in any order and form, and of hosts with any packages, a
\* host is told exactly what the advisories mean for it, and each of it once.
THEOREM FeedIsRead ==
    ASSUME Ascending = InOrder, NEW feed, IsSequence(feed), \A i \in DOMAIN feed : feed[i] \in Advisories,
           NEW inv, inv.os \in Hosts, IsSequence(inv.packages), \A j \in DOMAIN inv.packages : inv.packages[j] \in Packages
    PROVE  LET report == NotusCorrelate(Index(feed), inv)
           IN  Keys(report) = Meant(feed, inv.packages, inv.os) /\ Len(report) = Cardinality(Keys(report))
<1> DEFINE files == [i \in DOMAIN feed |-> Written(feed[i])]
           report == NotusCorrelate(NewNotusCorrelator(files), inv)
           Told(oid, seen) ==
               \E pkg \in Range(inv.packages) : \E file \in Range(files) : \E adv \in Range(file.advisories) :
                   \E fixed \in Range(adv.fixed) :
                       oid = adv.oid /\ seen = Observed(pkg) /\ Concerned(file, fixed, pkg, inv.os)
<1>1. DOMAIN files = DOMAIN feed /\ \A i \in DOMAIN feed : files[i] = Written(feed[i])
  OBVIOUS
<1>2. IsSequence(files)
  <2>1. files = [i \in DOMAIN files |-> files[i]]
    OBVIOUS
  <2> HIDE DEF files
  <2> QED  BY <1>1, <2>1, MappedSequence
<1>3. \A one : IsSequence(<<one>>) /\ Range(<<one>>) = {one} /\ DOMAIN <<one>> = {1} /\ <<one>>[1] = one
  <2> TAKE one
  <2>1. <<one>> = [i \in 1..1 |-> <<one>>[i]] /\ DOMAIN <<one>> = 1..1 /\ <<one>>[1] = one
    OBVIOUS
  <2>2. 1..1 = {1}
    OBVIOUS
  <2> HIDE DEF files
  <2>3. Range(<<one>>) = {one}
    BY <2>1, <2>2 DEF Range
  <2> QED  BY <2>1, <2>2, <2>3 DEF IsSequence
<1>4. ASSUME NEW i \in DOMAIN feed
      PROVE  /\ IsFile(files[i])
             /\ \A pkg \in Packages : \A oid :
                    (\E adv \in Range(files[i].advisories) : \E fixed \in Range(adv.fixed) :
                        oid = adv.oid /\ Concerned(files[i], fixed, pkg, inv.os)) <=>
                    oid = feed[i].oid /\ Concerns(feed[i], pkg, inv.os)
  <2> DEFINE a == feed[i]
             file == Written(feed[i])
  <2>1. a \in Advisories /\ Reads(file, a)
    BY WrittenIs
  <2>2. PICK adv, fixed :
            /\ file.advisories = <<adv>> /\ adv.fixed = <<fixed>> /\ adv.oid = a.oid /\ fixed.specifier = ">="
            /\ ExtractFixedPkg(file.type, fixed) = [name |-> a.name, version |-> a.fixed]
    BY <2>1, Zenon DEF Reads
  <2>3. \A pkg \in Packages : Concerned(file, fixed, pkg, inv.os) <=> Concerns(a, pkg, inv.os)
    BY <2>1, <2>2, ConcernsAreRead
  <2> HIDE DEF file, a
  <2>4. Range(file.advisories) = {adv} /\ Range(adv.fixed) = {fixed}
    BY <1>3, <2>2
  <2>5. IsFile(file)
    BY <1>3, <2>2 DEF IsFile
  <2>6. \A pkg \in Packages : \A oid :
            (\E x \in Range(file.advisories) : \E y \in Range(x.fixed) : oid = x.oid /\ Concerned(file, y, pkg, inv.os))
                <=> oid = a.oid /\ Concerns(a, pkg, inv.os)
    BY <2>2, <2>3, <2>4
  <2>7. files[i] = file
    BY <1>1 DEF file
  <2> HIDE DEF files
  <2> QED  BY <2>5, <2>6, <2>7 DEF a
<1> HIDE DEF files
<1>5. /\ \A oid, seen : <<oid, seen>> \in Keys(report) <=> Told(oid, seen)
      /\ Len(report) = Cardinality(Keys(report))
  <2>1. \A i \in DOMAIN files : IsFile(files[i])
    BY <1>1, <1>4
  <2> QED  BY <1>2, <2>1, NotusAnswers, Zenon
<1> HIDE DEF report
<1>6. ASSUME NEW oid, NEW seen
      PROVE  <<oid, seen>> \in Meant(feed, inv.packages, inv.os) <=>
                 \E j \in DOMAIN inv.packages : \E i \in DOMAIN feed :
                     /\ oid = feed[i].oid /\ seen = Observed(inv.packages[j])
                     /\ Concerns(feed[i], inv.packages[j], inv.os)
  <2>1. \A x, y, z, w : <<x, y>> = <<z, w>> <=> x = z /\ y = w
    OBVIOUS
  <2>2. <<oid, seen>> \in Meant(feed, inv.packages, inv.os) <=>
            \E j \in DOMAIN inv.packages : \E i \in DOMAIN feed :
                /\ Concerns(feed[i], inv.packages[j], inv.os)
                /\ <<oid, seen>> = <<feed[i].oid, Observed(inv.packages[j])>>
    BY DEF Meant
  <2> QED  BY <2>1, <2>2
<1>7. ASSUME NEW oid, NEW seen
      PROVE  Told(oid, seen) <=>
                 \E j \in DOMAIN inv.packages : \E i \in DOMAIN feed :
                     /\ oid = feed[i].oid /\ seen = Observed(inv.packages[j])
                     /\ Concerns(feed[i], inv.packages[j], inv.os)
  <2> DEFINE Of(file, pkg) == \E adv \in Range(file.advisories) : \E fixed \in Range(adv.fixed) :
                                  oid = adv.oid /\ Concerned(file, fixed, pkg, inv.os)
  <2>1. Told(oid, seen) <=> \E pkg \in Range(inv.packages) : \E file \in Range(files) : seen = Observed(pkg) /\ Of(file, pkg)
    OBVIOUS
  <2>2. \A i \in DOMAIN feed : \A j \in DOMAIN inv.packages :
            Of(files[i], inv.packages[j]) <=> oid = feed[i].oid /\ Concerns(feed[i], inv.packages[j], inv.os)
    BY <1>4
  <2>3. Range(inv.packages) = {inv.packages[j] : j \in DOMAIN inv.packages} /\ Range(files) = {files[i] : i \in DOMAIN feed}
    BY <1>1 DEF Range
  <2> HIDE DEF Of, Told
  <2> QED  BY <2>1, <2>2, <2>3
<1>8. \A oid, seen : <<oid, seen>> \in Keys(report) <=> <<oid, seen>> \in Meant(feed, inv.packages, inv.os)
  <2> HIDE DEF Told
  <2> SUFFICES ASSUME NEW oid, NEW seen
               PROVE  <<oid, seen>> \in Keys(report) <=> <<oid, seen>> \in Meant(feed, inv.packages, inv.os)
    OBVIOUS
  <2>1. <<oid, seen>> \in Keys(report) <=> Told(oid, seen)
    BY <1>5
  <2>2. Told(oid, seen) <=> <<oid, seen>> \in Meant(feed, inv.packages, inv.os)
    BY <1>6, <1>7
  <2> QED  BY <2>1, <2>2
<1>9. /\ \A x \in Keys(report) : \E oid, seen : x = <<oid, seen>>
      /\ \A x \in Meant(feed, inv.packages, inv.os) : \E oid, seen : x = <<oid, seen>>
  BY DEF Keys, Meant
<1>10. Keys(report) = Meant(feed, inv.packages, inv.os)
  BY <1>8, <1>9
<1>11. NotusCorrelate(Index(feed), inv) = report
  BY DEF Index, files, report
<1> QED  BY <1>5, <1>10, <1>11

LEMMA ShortSequence ==
    ASSUME NEW A, NEW x \in A, NEW y \in A, NEW s, s = <<x>> \/ s = <<x, y>>
    PROVE  IsSequence(s) /\ \A i \in DOMAIN s : s[i] \in A
<1>1. CASE s = <<x>>
  <2>1. <<x>> = [i \in 1..1 |-> <<x>>[i]] /\ DOMAIN <<x>> = 1..1 /\ <<x>>[1] = x
    OBVIOUS
  <2> QED  BY <1>1, <2>1 DEF IsSequence
<1>2. CASE s = <<x, y>>
  <2>1. <<x, y>> = [i \in 1..2 |-> <<x, y>>[i]] /\ DOMAIN <<x, y>> = 1..2 /\ <<x, y>>[1] = x /\ <<x, y>>[2] = y
    OBVIOUS
  <2>2. \A i \in 1..2 : i = 1 \/ i = 2
    OBVIOUS
  <2> QED  BY <1>2, <2>1, <2>2 DEF IsSequence
<1> QED  BY <1>1, <1>2

\* notus.go: every host is told exactly what the advisories mean for it, as the check has it.
LEMMA NotusHolds ==
    ASSUME Ascending = InOrder
    PROVE  NotusIsExact
<1> SUFFICES ASSUME NEW feed \in Feeds, NEW os \in Hosts, NEW packages \in Installed
             PROVE  LET report == Dispatch(Index(feed), <<>>, [os |-> os, packages |-> packages]).notus
                    IN  /\ {<<report[i].oid, report[i].observed>> : i \in DOMAIN report} = Meant(feed, packages, os)
                        /\ Len(report) = Cardinality(Meant(feed, packages, os))
  BY DEF NotusIsExact, Meant
<1> DEFINE inv == [os |-> os, packages |-> packages]
           report == NotusCorrelate(Index(feed), inv)
<1>1. IsSequence(feed) /\ \A i \in DOMAIN feed : feed[i] \in Advisories
  <2>1. \/ \E a \in Advisories : feed = <<a>>
        \/ \E a, b \in Advisories : feed = <<a, b>>
    BY DEF Feeds
  <2>2. CASE \E a \in Advisories : feed = <<a>>
    <3>1. PICK a \in Advisories : feed = <<a>>
      BY <2>2
    <3> QED  BY <3>1, ShortSequence
  <2>3. CASE \E a, b \in Advisories : feed = <<a, b>>
    <3>1. PICK a \in Advisories, b \in Advisories : feed = <<a, b>>
      BY <2>3
    <3> QED  BY <3>1, ShortSequence
  <2> QED  BY <2>1, <2>2, <2>3
<1>2. IsSequence(packages) /\ \A j \in DOMAIN packages : packages[j] \in Packages
  <2>1. \/ \E p \in Packages : packages = <<p>>
        \/ \E p, q \in Packages : packages = <<p, q>>
    BY DEF Installed
  <2>2. CASE \E p \in Packages : packages = <<p>>
    <3>1. PICK p \in Packages : packages = <<p>>
      BY <2>2
    <3> QED  BY <3>1, ShortSequence
  <2>3. CASE \E p, q \in Packages : packages = <<p, q>>
    <3>1. PICK p \in Packages, q \in Packages : packages = <<p, q>>
      BY <2>3
    <3> QED  BY <3>1, ShortSequence
  <2> QED  BY <2>1, <2>2, <2>3
<1>3. inv.os = os /\ inv.packages = packages
  OBVIOUS
<1> HIDE DEF inv
<1>4. Keys(report) = Meant(feed, packages, os) /\ Len(report) = Cardinality(Keys(report))
  BY <1>1, <1>2, <1>3, FeedIsRead
<1>5. os.family = "linux"
  <2>1. \A d, r : OS(d, r).family = "linux"
    BY DEF OS
  <2>2. \E d, r : os = OS(d, r)
    BY Zenon DEF Hosts
  <2> QED  BY <2>1, <2>2
<1>6. Dispatch(Index(feed), <<>>, inv).notus = report
  <2>1. Dispatch(Index(feed), <<>>, inv) = [NoReport EXCEPT !.notus = report]
    BY <1>3, <1>5 DEF Dispatch
  <2> HIDE DEF report
  <2> QED  BY <2>1 DEF NoReport
<1> HIDE DEF report
<1>7. {<<report[i].oid, report[i].observed>> : i \in DOMAIN report} = Keys(report)
  BY DEF Keys, Range
<1> QED  BY <1>4, <1>6, <1>7 DEF inv

---------------------------------------------------------------------------
(* Hardening *)

LEMMA GreatestNumber ==
    ASSUME NEW n \in Nat, NEW S \in SUBSET (1..n), S # {}
    PROVE  Max(S) \in S /\ \A k \in S : k <= Max(S)
<1> DEFINE T == {n - k : k \in S}
           m == Min(T)
<1>1. T \in SUBSET Nat /\ T # {}
  <2>1. \A k \in S : k \in Nat /\ k <= n /\ n - k \in Nat
    OBVIOUS
  <2>2. PICK k \in S : TRUE
    OBVIOUS
  <2> QED  BY <2>1, <2>2
<1>2. m \in T /\ \A t \in T : m <= t
  <2> HIDE DEF T
  <2> QED  BY <1>1, LeastNumber
<1> HIDE DEF m
<1>3. PICK g \in S : m = n - g
  BY <1>2
<1>4. \A k \in S : k <= g
  <2> TAKE k \in S
  <2>1. m <= n - k
    BY <1>2
  <2>2. k \in Int /\ g \in Int /\ n \in Int
    OBVIOUS
  <2> HIDE DEF T
  <2> QED  BY <1>3, <2>1, <2>2
<1>5. S \in SUBSET Int
  OBVIOUS
<1>6. Max(S) = g
  BY <1>4, <1>5, GreatestIs
<1> QED  BY <1>4, <1>6

\* The last reading of a rule's setting breaks the rule.
Breaks(rule, readings) ==
    \E i \in DOMAIN readings :
        /\ readings[i].key = rule[1] /\ ~Compliant(rule[2], readings[i].value)
        /\ \A k \in DOMAIN readings : readings[k].key = rule[1] => k <= i

\* No setting has two rules.
LEMMA RulesDiffer ==
    /\ DOMAIN CisL1Rules = 1..15
    /\ \A i, j \in 1..15 : CisL1Rules[i][1] = CisL1Rules[j][1] => i = j
<1>1. DOMAIN CisL1Rules = 1..15
  BY DEF CisL1Rules
<1> DEFINE cv == "Credential Validation"
<1>2. /\ CisL1Rules[1][1] = "PasswordHistorySize" /\ CisL1Rules[2][1] = "MaximumPasswordAge"
      /\ CisL1Rules[3][1] = "MinimumPasswordAge" /\ CisL1Rules[4][1] = "MinimumPasswordLength"
      /\ CisL1Rules[5][1] = "PasswordComplexity" /\ CisL1Rules[6][1] = "ClearTextPassword"
      /\ CisL1Rules[7][1] = "LockoutBadCount" /\ CisL1Rules[8][1] = "SeDenyNetworkLogonRight"
      /\ CisL1Rules[9][1] = "UAC.EnableLUA" /\ CisL1Rules[10][1] = "Lsa.NoLMHash"
      /\ CisL1Rules[11][1] = "Lsa.LimitBlankPasswordUse" /\ CisL1Rules[12][1] = "SMB.Server.RequireSecuritySignature"
      /\ CisL1Rules[13][1] = "RemoteRegistry" /\ CisL1Rules[14][1] = cv /\ CisL1Rules[15][1] = "Logon"
  BY DEF CisL1Rules
<1>3. /\ cv # "PasswordHistorySize" /\ cv # "MaximumPasswordAge" /\ cv # "MinimumPasswordAge"
      /\ cv # "MinimumPasswordLength" /\ cv # "PasswordComplexity" /\ cv # "ClearTextPassword"
      /\ cv # "LockoutBadCount" /\ cv # "SeDenyNetworkLogonRight" /\ cv # "UAC.EnableLUA" /\ cv # "Lsa.NoLMHash"
      /\ cv # "Lsa.LimitBlankPasswordUse" /\ cv # "SMB.Server.RequireSecuritySignature"
      /\ cv # "RemoteRegistry" /\ cv # "Logon"
  BY Zenon
<1> HIDE DEF cv
<1>4. \A i \in 1..15 : \/ i = 1 \/ i = 2 \/ i = 3 \/ i = 4 \/ i = 5 \/ i = 6 \/ i = 7 \/ i = 8
                       \/ i = 9 \/ i = 10 \/ i = 11 \/ i = 12 \/ i = 13 \/ i = 14 \/ i = 15
  OBVIOUS
<1>5. \A i, j \in 1..15 : CisL1Rules[i][1] = CisL1Rules[j][1] => i = j
  BY <1>2, <1>3, <1>4
<1> QED  BY <1>1, <1>5

\* hardening.go: whatever was read of a host, and however often, it is told exactly the settings whose
\* last reading breaks the rule, and each of them once; of what was not read it is told nothing.
THEOREM HardeningAnswers ==
    ASSUME NEW inv, IsSequence(inv.cisState)
    PROVE  LET report == HardeningCorrelate(inv)
           IN  /\ \A key : key \in Range(report) <=>
                      \E rule \in Range(CisL1Rules) : key = rule[1] /\ Breaks(rule, inv.cisState)
               /\ Len(report) = Cardinality(Range(report))
<1> DEFINE readings == inv.cisState
           Measured(key) == {i \in DOMAIN readings : readings[i].key = key}
           Fails(rule) == Measured(rule[1]) # {} /\ ~Compliant(rule[2], readings[Max(Measured(rule[1]))].value)
           S == {i \in DOMAIN CisL1Rules : Fails(CisL1Rules[i])}
           failed == Picked(CisL1Rules, S)
           report == HardeningCorrelate(inv)
<1>1. report = [i \in DOMAIN failed |-> failed[i][1]]
  BY DEF HardeningCorrelate
<1>2. S \in SUBSET (1..15) /\ 15 \in Nat
  BY RulesDiffer
<1>3. ASSUME NEW rule PROVE Fails(rule) <=> Breaks(rule, readings)
  <2>1. Len(readings) \in Nat /\ DOMAIN readings = 1..Len(readings)
    BY SequenceIs
  <2> DEFINE n == Len(readings)
             M == Measured(rule[1])
  <2>2. M \in SUBSET (1..n) /\ \A i : i \in M <=> i \in 1..n /\ readings[i].key = rule[1]
    BY <2>1
  <2> HIDE DEF M, n, readings
  <2>3. Fails(rule) <=> M # {} /\ ~Compliant(rule[2], readings[Max(M)].value)
    BY DEF M
  <2>4. M # {} => Max(M) \in M /\ \A k \in M : k <= Max(M)
    BY <2>1, <2>2, GreatestNumber DEF n
  <2>5. ASSUME NEW i \in M, \A k \in M : k <= i PROVE i = Max(M)
    <3>1. i <= Max(M) /\ Max(M) <= i /\ Max(M) \in 1..n /\ i \in 1..n
      BY <2>2, <2>4, <2>5
    <3> QED  BY <2>1, <3>1 DEF n
  <2>6. Breaks(rule, readings) <=> \E i \in M : ~Compliant(rule[2], readings[i].value) /\ \A k \in M : k <= i
    BY <2>1, <2>2 DEF Breaks, n
  <2> QED  BY <2>3, <2>4, <2>5, <2>6
<1> HIDE DEF Fails
<1>4. \A i : i \in S <=> i \in 1..15 /\ Breaks(CisL1Rules[i], readings)
  BY <1>3, RulesDiffer
<1> HIDE DEF S, report
<1>5. Range(failed) = {CisL1Rules[i] : i \in S}
  BY <1>2, PicksHave
<1>6. PICK n \in Nat : \E e \in [1..n -> S] : Enumerates(e, n, S) /\ failed = [i \in 1..n |-> CisL1Rules[e[i]]]
  <2>1. PicksFrom(failed, CisL1Rules, S)
    BY <1>2, PicksAre
  <2> QED  BY <2>1 DEF PicksFrom
<1>7. PICK e \in [1..n -> S] : Enumerates(e, n, S) /\ failed = [i \in 1..n |-> CisL1Rules[e[i]]]
  BY <1>6
<1>8. \A i, j \in 1..n : e[i] = e[j] => i = j
  <2>1. \A i \in 1..n : e[i] \in Int
    <3>1. \A i \in 1..n : e[i] \in S
      OBVIOUS
    <3>2. \A x \in S : x \in Int
      BY <1>2
    <3> QED  BY <3>1, <3>2
  <2>2. \A i, j \in 1..n : i < j => e[i] < e[j]
    BY <1>7 DEF Enumerates, Increasing
  <2> HIDE DEF readings
  <2> QED  BY <2>1, <2>2
<1>9. report = [i \in 1..n |-> CisL1Rules[e[i]][1]]
  BY <1>1, <1>7
<1>10. ASSUME NEW key
       PROVE  key \in Range(report) <=> \E rule \in Range(CisL1Rules) : key = rule[1] /\ Breaks(rule, readings)
  <2>1. key \in Range(report) <=> \E i \in DOMAIN failed : key = failed[i][1]
    BY <1>1 DEF Range
  <2>2. key \in Range(report) <=> \E i \in S : key = CisL1Rules[i][1]
    BY <1>5, <2>1 DEF Range
  <2>3. Range(CisL1Rules) = {CisL1Rules[i] : i \in 1..15}
    BY RulesDiffer DEF Range
  <2> QED  BY <1>4, <2>2, <2>3
<1>11. Len(report) = Cardinality(Range(report))
  <2> DEFINE W == {CisL1Rules[i][1] : i \in S}
             key == [i \in 1..n |-> CisL1Rules[e[i]][1]]
  <2>1. key \in [1..n -> W] /\ \A i, j \in 1..n : key[i] = key[j] => i = j
    <3>1. \A i \in 1..n : e[i] \in S /\ e[i] \in 1..15
      BY <1>2, <1>7
    <3> QED  BY <1>8, <3>1, RulesDiffer
  <2> HIDE DEF W, key
  <2>2. key \in Injection(1..n, W)
    BY <2>1 DEF Injection, IsInjective
  <2>3. Cardinality({key[i] : i \in 1..n}) = n
    BY <2>2, CountsOnce
  <2>4. DOMAIN key = 1..n /\ report = key
    BY <1>9, <2>1 DEF key
  <2>5. Range(key) = {key[i] : i \in 1..n}
    BY <2>4 DEF Range
  <2>6. Len(key) = n
    <3>1. key \in [1..n -> W]
      BY <2>1
    <3>2. key \in Seq(W)
      BY <3>1
    <3> QED  BY <2>4, <3>2, LenProperties
  <2> QED  BY <2>3, <2>4, <2>5, <2>6
<1> QED  BY <1>10, <1>11 DEF report

---------------------------------------------------------------------------
(* Hardening: the inputs of CorrelationChecks *)

LEMMA ReadingIs ==
    ASSUME NEW key, NEW number, NEW words
    PROVE  /\ Reading(key, number, words).key = key
           /\ Reading(key, number, words).value.number = number
           /\ Reading(key, number, words).value.words = words
  BY DEF Reading

\* The three rules that the readings are of; nothing judges the spooler.
LEMMA RulesUsed ==
    /\ <<"PasswordHistorySize", AtLeast(24)>> \in Range(CisL1Rules)
    /\ <<"LockoutBadCount", Between(1, 5)>> \in Range(CisL1Rules)
    /\ <<"Logon", AuditSuccessAndFailure>> \in Range(CisL1Rules)
    /\ \A rule \in Range(CisL1Rules) :
          /\ rule[1] = "PasswordHistorySize" => rule[2] = AtLeast(24)
          /\ rule[1] = "LockoutBadCount" => rule[2] = Between(1, 5)
          /\ rule[1] = "Logon" => rule[2] = AuditSuccessAndFailure
          /\ rule[1] # "Spooler"
<1>1. /\ CisL1Rules[1] = <<"PasswordHistorySize", AtLeast(24)>> /\ CisL1Rules[7] = <<"LockoutBadCount", Between(1, 5)>>
      /\ CisL1Rules[15] = <<"Logon", AuditSuccessAndFailure>>
  BY DEF CisL1Rules
<1>2. \A i \in 1..15 : CisL1Rules[i] \in Range(CisL1Rules)
  BY RulesDiffer DEF Range
<1>3. \A rule \in Range(CisL1Rules) : \E i \in 1..15 : rule = CisL1Rules[i]
  BY RulesDiffer DEF Range
<1>4. 1 \in 1..15 /\ 7 \in 1..15 /\ 15 \in 1..15
  OBVIOUS
<1>5. \A i \in 1..15 : /\ CisL1Rules[i][1] = "PasswordHistorySize" => i = 1
                       /\ CisL1Rules[i][1] = "LockoutBadCount" => i = 7
                       /\ CisL1Rules[i][1] = "Logon" => i = 15
  BY <1>1, <1>4, RulesDiffer
<1>6. \A i \in 1..15 : CisL1Rules[i][1] # "Spooler"
  <2> DEFINE cv == "Credential Validation"
  <2>1. /\ CisL1Rules[1][1] = "PasswordHistorySize" /\ CisL1Rules[2][1] = "MaximumPasswordAge"
        /\ CisL1Rules[3][1] = "MinimumPasswordAge" /\ CisL1Rules[4][1] = "MinimumPasswordLength"
        /\ CisL1Rules[5][1] = "PasswordComplexity" /\ CisL1Rules[6][1] = "ClearTextPassword"
        /\ CisL1Rules[7][1] = "LockoutBadCount" /\ CisL1Rules[8][1] = "SeDenyNetworkLogonRight"
        /\ CisL1Rules[9][1] = "UAC.EnableLUA" /\ CisL1Rules[10][1] = "Lsa.NoLMHash"
        /\ CisL1Rules[11][1] = "Lsa.LimitBlankPasswordUse" /\ CisL1Rules[12][1] = "SMB.Server.RequireSecuritySignature"
        /\ CisL1Rules[13][1] = "RemoteRegistry" /\ CisL1Rules[14][1] = cv /\ CisL1Rules[15][1] = "Logon"
    BY DEF CisL1Rules
  <2>2. cv # "Spooler"
    BY Zenon
  <2> HIDE DEF cv
  <2>3. \A i \in 1..15 : \/ i = 1 \/ i = 2 \/ i = 3 \/ i = 4 \/ i = 5 \/ i = 6 \/ i = 7 \/ i = 8
                         \/ i = 9 \/ i = 10 \/ i = 11 \/ i = 12 \/ i = 13 \/ i = 14 \/ i = 15
    OBVIOUS
  <2> QED  BY <2>1, <2>2, <2>3
<1> QED  BY <1>1, <1>2, <1>3, <1>4, <1>5, <1>6

\* What the three rules ask.
LEMMA RulesAsk ==
    ASSUME NEW value
    PROVE  /\ Compliant(AtLeast(24), value) <=> value.words = {} /\ value.number \in 24..Unlimited
           /\ Compliant(Between(1, 5), value) <=> value.words = {} /\ value.number \in 1..5
           /\ Compliant(AuditSuccessAndFailure, value) <=> "success" \in value.words /\ "failure" \in value.words
<1>1. AtLeast(24).words = {} /\ AtLeast(24).low = 24 /\ AtLeast(24).high = Unlimited
  BY DEF AtLeast
<1>2. Between(1, 5).words = {} /\ Between(1, 5).low = 1 /\ Between(1, 5).high = 5
  BY DEF Between
<1>3. AuditSuccessAndFailure.words = {"success", "failure"}
  BY DEF AuditSuccessAndFailure
<1> QED  BY <1>1, <1>2, <1>3 DEF Compliant

LEMMA ReadingsJudged ==
    ASSUME NEW reading \in Bad \cup Good, NEW rule \in Range(CisL1Rules), reading.key = rule[1]
    PROVE  ~Compliant(rule[2], reading.value) <=> reading \in Bad
<1> DEFINE ps == "PasswordHistorySize"
           lo == "LockoutBadCount"
           Judged == Compliant(rule[2], reading.value)
<1>1. /\ rule[1] = ps => rule[2] = AtLeast(24)
      /\ rule[1] = lo => rule[2] = Between(1, 5)
      /\ rule[1] = "Logon" => rule[2] = AuditSuccessAndFailure
      /\ rule[1] # "Spooler"
  BY RulesUsed
<1>2. ASSUME NEW number, NEW words, reading = Reading(ps, number, words)
      PROVE  Judged <=> words = {} /\ number \in 24..Unlimited
  BY <1>1, <1>2, ReadingIs, RulesAsk
<1>3. ASSUME NEW number, NEW words, reading = Reading(lo, number, words)
      PROVE  Judged <=> words = {} /\ number \in 1..5
  BY <1>1, <1>3, ReadingIs, RulesAsk
<1>4. ASSUME NEW number, NEW words, reading = Reading("Logon", number, words)
      PROVE  Judged <=> "success" \in words /\ "failure" \in words
  BY <1>1, <1>4, ReadingIs, RulesAsk
<1>5. 23 \notin 24..Unlimited /\ 24 \in 24..Unlimited /\ 0 \notin 1..5 /\ 6 \notin 1..5 /\ 5 \in 1..5
  <2>1. Unlimited \in Nat /\ Unlimited > 24
    BY SMT DEF Unlimited
  <2> QED  BY <2>1
<1>6. {"never"} # {} /\ "failure" \notin {"success"}
  BY Zenon
<1> HIDE DEF Judged, ps, lo
<1>7. ASSUME reading \in Bad PROVE ~Judged
  <2>1. \/ reading = Reading(ps, 23, {}) \/ reading = Reading(lo, 0, {})
        \/ reading = Reading(lo, 6, {}) \/ reading = Reading(lo, 0, {"never"})
        \/ reading = Reading("Logon", 0, {"success"}) \/ reading = Reading("Logon", 0, {})
    BY <1>7, Zenon DEF Bad, ps, lo
  <2> QED  BY <1>2, <1>3, <1>4, <1>5, <1>6, <2>1
<1>8. ASSUME reading \in Good PROVE Judged
  <2>1. \/ reading = Reading(ps, 24, {}) \/ reading = Reading(lo, 5, {})
        \/ reading = Reading("Logon", 0, {"success", "failure"}) \/ reading = Reading("Spooler", 4, {})
    BY <1>8, Zenon DEF Good, ps, lo
  <2>2. reading # Reading("Spooler", 4, {})
    BY <1>1, ReadingIs
  <2> QED  BY <1>2, <1>3, <1>4, <1>5, <2>1, <2>2
<1> QED  BY <1>7, <1>8 DEF Judged

LEMMA BadIsRuled ==
    ASSUME NEW reading \in Bad
    PROVE  \E rule \in Range(CisL1Rules) : rule[1] = reading.key
<1>1. /\ <<"PasswordHistorySize", AtLeast(24)>>[1] = "PasswordHistorySize"
      /\ <<"LockoutBadCount", Between(1, 5)>>[1] = "LockoutBadCount"
      /\ <<"Logon", AuditSuccessAndFailure>>[1] = "Logon"
  OBVIOUS
<1>2. \/ reading = Reading("PasswordHistorySize", 23, {}) \/ reading = Reading("LockoutBadCount", 0, {})
      \/ reading = Reading("LockoutBadCount", 6, {}) \/ reading = Reading("LockoutBadCount", 0, {"never"})
      \/ reading = Reading("Logon", 0, {"success"}) \/ reading = Reading("Logon", 0, {})
  BY Zenon DEF Bad
<1>3. reading.key = "PasswordHistorySize" \/ reading.key = "LockoutBadCount" \/ reading.key = "Logon"
  BY <1>2, ReadingIs
<1> QED  BY <1>1, <1>3, RulesUsed

\* hardening.go: exact for the readings of the check, however many there are.
LEMMA ReadingsAreJudged ==
    ASSUME NEW inv, IsSequence(inv.cisState), \A i \in DOMAIN inv.cisState : inv.cisState[i] \in Bad \cup Good
    PROVE  LET readings == inv.cisState
               report == HardeningCorrelate(inv)
           IN  /\ Len(report) = Cardinality(Range(report))
               /\ Range(report) =
                    {readings[i].key : i \in {j \in DOMAIN readings : readings[j] \in Bad
                                                /\ \A k \in DOMAIN readings : readings[k].key = readings[j].key => k <= j}}
<1> DEFINE readings == inv.cisState
           report == HardeningCorrelate(inv)
           Newest(j) == \A k \in DOMAIN readings : readings[k].key = readings[j].key => k <= j
<1>1. /\ \A key : key \in Range(report) <=> \E rule \in Range(CisL1Rules) : key = rule[1] /\ Breaks(rule, readings)
      /\ Len(report) = Cardinality(Range(report))
  BY HardeningAnswers
<1> HIDE DEF report, readings
<1>2. \A i \in DOMAIN readings : readings[i] \in Bad \cup Good
  BY DEF readings
<1>3. ASSUME NEW rule \in Range(CisL1Rules), Breaks(rule, readings)
      PROVE  \E i \in DOMAIN readings : readings[i] \in Bad /\ Newest(i) /\ readings[i].key = rule[1]
  <2>1. PICK i \in DOMAIN readings :
            /\ readings[i].key = rule[1] /\ ~Compliant(rule[2], readings[i].value)
            /\ \A k \in DOMAIN readings : readings[k].key = rule[1] => k <= i
    BY <1>3 DEF Breaks
  <2>2. readings[i] \in Bad
    BY <1>2, <2>1, ReadingsJudged
  <2> QED  BY <2>1, <2>2
<1>4. ASSUME NEW i \in DOMAIN readings, readings[i] \in Bad, Newest(i)
      PROVE  \E rule \in Range(CisL1Rules) : readings[i].key = rule[1] /\ Breaks(rule, readings)
  <2>1. PICK rule \in Range(CisL1Rules) : rule[1] = readings[i].key
    BY <1>4, BadIsRuled
  <2>2. ~Compliant(rule[2], readings[i].value)
    BY <1>2, <1>4, <2>1, ReadingsJudged
  <2>3. Breaks(rule, readings)
    BY <1>4, <2>1, <2>2 DEF Breaks
  <2> QED  BY <2>1, <2>3
<1>5. ASSUME NEW key
      PROVE  key \in Range(report) <=> \E i \in DOMAIN readings : readings[i] \in Bad /\ Newest(i) /\ key = readings[i].key
  BY <1>1, <1>3, <1>4
<1>6. Range(report) = {readings[i].key : i \in {j \in DOMAIN readings : readings[j] \in Bad /\ Newest(j)}}
  <2> HIDE DEF Newest
  <2> QED  BY <1>5
<1> QED  BY <1>1, <1>6 DEF report, readings

LEMMA HardeningHolds == HardeningIsExact
<1> SUFFICES ASSUME NEW n \in 0..3, NEW readings \in [1..n -> Bad \cup Good]
             PROVE  LET report == Dispatch(<<>>, <<>>, [Windows(5, 1) EXCEPT !.cisState = readings]).hardening
                    IN  /\ Len(report) = Cardinality(Range(report))
                        /\ Range(report) =
                             {readings[i].key : i \in {j \in 1..n : readings[j] \in Bad
                                                        /\ \A k \in 1..n : readings[k].key = readings[j].key => k <= j}}
  BY DEF HardeningIsExact
<1> DEFINE inv == [Windows(5, 1) EXCEPT !.cisState = readings]
           report == HardeningCorrelate(inv)
<1>1. inv.cisState = readings /\ inv.os.family = "windows"
  BY DEF Windows
<1> HIDE DEF inv
<1>2. DOMAIN readings = 1..n /\ IsSequence(readings) /\ \A i \in 1..n : readings[i] \in Bad \cup Good
  <2>1. DOMAIN readings = 1..n /\ readings = [i \in 1..n |-> readings[i]] /\ n \in Nat
    OBVIOUS
  <2> QED  BY <2>1 DEF IsSequence
<1>3. Dispatch(<<>>, <<>>, inv).hardening = report
  <2>1. "windows" # "linux"
    BY Zenon
  <2>2. Dispatch(<<>>, <<>>, inv) = [NoReport EXCEPT !.msrc = MSRCCorrelate(<<>>, inv), !.hardening = report]
    BY <1>1, <2>1 DEF Dispatch, MultiCorrelate
  <2> HIDE DEF report
  <2> QED  BY <2>2 DEF NoReport
<1>4. /\ Len(report) = Cardinality(Range(report))
      /\ Range(report) =
            {readings[i].key : i \in {j \in DOMAIN readings : readings[j] \in Bad
                                        /\ \A k \in DOMAIN readings : readings[k].key = readings[j].key => k <= j}}
  BY <1>1, <1>2, ReadingsAreJudged
<1> HIDE DEF report
<1> QED  BY <1>2, <1>3, <1>4 DEF inv

LEMMA DarwinIsNotJudged == Dispatch(<<>>, <<>>, [Windows(5, 1) EXCEPT !.os.family = "darwin"]) = NoReport
<1>1. [Windows(5, 1) EXCEPT !.os.family = "darwin"].os.family = "darwin"
  BY DEF Windows
<1>2. "darwin" # "linux" /\ "darwin" # "windows"
  BY Zenon
<1> QED  BY <1>1, <1>2 DEF Dispatch

---------------------------------------------------------------------------
(* MSRC: what a report is of an index *)

\* The findings of a host are told apart by their OID alone, as all are observed on the one version.
IsOpen(e, running) == e.build = running[3] /\ VersionLess(running, e.threshold)

LEMMA MSRCIs ==
    ASSUME NEW index, IsSequence(index), NEW inv, inv.os.patch # <<>>
    PROVE  LET report == MSRCCorrelate(index, inv)
               running == HostVersion(inv.os)
               Opens == {e \in Range(index) : IsOpen(e, running)}
           IN  /\ IsSequence(report)
               /\ {f.oid : f \in Range(report)} = {e.cve : e \in Opens}
               /\ Len(report) = Cardinality({f.oid : f \in Range(report)})
               /\ \A f \in Range(report) : \E e \in Opens : f.oid = e.cve /\ f.fixed = e.threshold /\ f.kb = e.kb
<1> DEFINE running == HostVersion(inv.os)
           Opens == {e \in Range(index) : IsOpen(e, running)}
           S == {i \in DOMAIN index : index[i].build = running[3] /\ VersionLess(running, index[i].threshold)}
           open == Picked(index, S)
           Finding(e) == [oid |-> e.cve, observed |-> running, severity |-> e.severity, fixed |-> e.threshold, kb |-> e.kb]
           found == [i \in DOMAIN open |-> Finding(open[i])]
           report == Unrepeated(found)
<1>1. MSRCCorrelate(index, inv) = report
  BY DEF MSRCCorrelate
<1>2. IsSequence(open) /\ Range(open) = {index[i] : i \in S}
  <2>1. S \in SUBSET (DOMAIN index)
    OBVIOUS
  <2> HIDE DEF S
  <2> QED  BY <2>1, PickedSequence
<1>3. Range(open) = Opens
  BY <1>2 DEF Range, IsOpen
<1> HIDE DEF open, Opens, running
<1>4. IsSequence(found) /\ Range(found) = {Finding(e) : e \in Opens}
  <2>1. DOMAIN found = DOMAIN open /\ found = [i \in DOMAIN found |-> found[i]]
    OBVIOUS
  <2>2. Range(found) = {Finding(e) : e \in Range(open)}
    BY DEF Range
  <2> HIDE DEF found
  <2> QED  BY <1>2, <1>3, <2>1, <2>2, MappedSequence
<1>5. \A e : Finding(e).oid = e.cve /\ Finding(e).observed = running /\ Finding(e).fixed = e.threshold /\ Finding(e).kb = e.kb
  OBVIOUS
<1> HIDE DEF found, Finding
<1>6. ReportOf(report, found)
  BY <1>4, SequenceIs, UnrepeatedIs
<1>7. IsSequence(report)
  BY <1>4, PickedSequence DEF Unrepeated
<1> HIDE DEF report
<1>8. \A f \in Range(report) : \E e \in Opens : f = Finding(e)
  BY <1>4, <1>6 DEF ReportOf
<1>9. {f.oid : f \in Range(report)} = {e.cve : e \in Opens}
  <2>1. \A e \in Opens : \E f \in Range(report) : f.oid = e.cve
    <3> TAKE e \in Opens
    <3>1. \E g \in Range(report) : SameFinding(g, Finding(e))
      BY <1>4, <1>6 DEF ReportOf
    <3> QED  BY <1>5, <3>1 DEF SameFinding
  <2> QED  BY <1>5, <1>8, <2>1
<1>10. Len(report) = Cardinality({f.oid : f \in Range(report)})
  <2>1. Len(report) \in Nat /\ DOMAIN report = 1..Len(report)
    BY <1>7, SequenceIs
  <2> DEFINE n == Len(report)
             W == {f.oid : f \in Range(report)}
             key == [i \in 1..n |-> report[i].oid]
  <2>2. \A i \in 1..n : report[i] \in Range(report)
    BY <2>1 DEF Range
  <2>3. \A i, j \in 1..n : report[i].oid = report[j].oid => i = j
    <3>1. \A i, j \in DOMAIN report : SameFinding(report[i], report[j]) => i = j
      BY <1>6 DEF ReportOf
    <3>2. \A i \in 1..n : report[i].observed = running
      BY <1>5, <1>8, <2>2
    <3> QED  BY <2>1, <3>1, <3>2 DEF SameFinding
  <2>4. key \in [1..n -> W] /\ \A i, j \in 1..n : key[i] = key[j] => i = j
    BY <2>2, <2>3
  <2>5. {key[i] : i \in 1..n} = W
    BY <2>1 DEF Range
  <2> HIDE DEF W, key
  <2>6. key \in Injection(1..n, W)
    BY <2>4 DEF Injection, IsInjective
  <2>7. Cardinality({key[i] : i \in 1..n}) = n
    BY <2>1, <2>6, CountsOnce
  <2> QED  BY <2>5, <2>7 DEF W
<1>11. \A f \in Range(report) : \E e \in Opens : f.oid = e.cve /\ f.fixed = e.threshold /\ f.kb = e.kb
  BY <1>5, <1>8
<1> QED  BY <1>1, <1>7, <1>9, <1>10, <1>11 DEF Opens, running

---------------------------------------------------------------------------
(* MSRC: what an index is of the documents *)

LEMMA SeqsOf ==
    ASSUME NEW S, IsFiniteSet(S), NEW s \in SetToSeqs(S)
    PROVE  IsSequence(s) /\ Range(s) = S
<1> DEFINE n == Cardinality(S)
<1>1. n \in Nat
  BY FS_CardinalityType
<1>2. s \in [1..n -> S] /\ \A i, j \in 1..n : i # j => s[i] # s[j]
  BY DEF SetToSeqs
<1>3. s \in Injection(1..n, S)
  BY <1>2 DEF Injection, IsInjective
<1>4. Cardinality(1..n) = n
  BY <1>1, FS_Interval
<1>5. s \in Surjection(1..n, S)
  BY <1>3, <1>4, FS_Injection
<1>6. \A x \in S : \E i \in 1..n : s[i] = x
  BY <1>5 DEF Surjection
<1> HIDE DEF n
<1>7. Range(s) = S
  BY <1>2, <1>6 DEF Range
<1>8. IsSequence(s)
  BY <1>1, <1>2 DEF IsSequence
<1> QED  BY <1>7, <1>8

LEMMA ConcatenationIs ==
    ASSUME NEW n \in Nat, NEW sets, sets = [i \in 1..n |-> sets[i]], \A i \in 1..n : \A s \in sets[i] : IsSequence(s),
           NEW c \in Concatenations(sets)
    PROVE  IsSequence(c) /\ \E g : (\A i \in 1..n : g[i] \in sets[i]) /\ \A x : x \in Range(c) <=> \E k \in 1..n : x \in Range(g[k])
<1>1. DOMAIN sets = 1..n
  OBVIOUS
<1>2. PICK g \in [1..n -> UNION Range(sets)] : (\A i \in 1..n : g[i] \in sets[i]) /\ c = FlattenSeq(g)
  BY <1>1 DEF Concatenations
<1>3. g = [i \in 1..n |-> g[i]] /\ \A i \in 1..n : IsSequence(g[i])
  BY <1>2
<1>4. IsSequence(FlattenSeq(g)) /\ \A x : x \in Range(FlattenSeq(g)) <=> \E k \in 1..n : x \in Range(g[k])
  BY <1>3, FlatIs
<1> QED  BY <1>2, <1>4

\* One level down, where a product stays where it is.
ChildrenOf(b) == IF b.category = "product_name" THEN <<b>> ELSE b.branches
Below(branches) == FlattenSeq([i \in DOMAIN branches |-> ChildrenOf(branches[i])])

\* The branches of a tree and those below them.
IsTree(branches, B) ==
    /\ IsSequence(branches) /\ Range(branches) \subseteq B
    /\ \A b \in B : IsSequence(ChildrenOf(b)) /\ Range(ChildrenOf(b)) \subseteq B

LEMMA BelowIs ==
    ASSUME NEW branches, NEW B, IsTree(branches, B)
    PROVE  /\ IsTree(Below(branches), B)
           /\ \A x : x \in Range(Below(branches)) <=> \E b \in Range(branches) : x \in Range(ChildrenOf(b))
<1> DEFINE g == [i \in DOMAIN branches |-> ChildrenOf(branches[i])]
           n == Len(branches)
<1>1. n \in Nat /\ DOMAIN branches = 1..n /\ Range(branches) = {branches[i] : i \in 1..n}
  BY SequenceIs DEF IsTree
<1>2. g = [i \in 1..n |-> g[i]] /\ \A i \in 1..n : g[i] = ChildrenOf(branches[i])
  BY <1>1
<1>3. Below(branches) = FlattenSeq(g)
  BY DEF Below
<1> HIDE DEF g, n
<1>4. \A i \in 1..n : IsSequence(g[i])
  BY <1>1, <1>2 DEF IsTree
<1>5. IsSequence(FlattenSeq(g)) /\ \A x : x \in Range(FlattenSeq(g)) <=> \E k \in 1..n : x \in Range(g[k])
  BY <1>1, <1>2, <1>4, FlatIs
<1>6. \A x : x \in Range(Below(branches)) <=> \E b \in Range(branches) : x \in Range(ChildrenOf(b))
  BY <1>1, <1>2, <1>3, <1>5
<1>7. Range(Below(branches)) \subseteq B
  BY <1>6 DEF IsTree
<1> QED  BY <1>3, <1>5, <1>6, <1>7 DEF IsTree

ProductsOf(tree) == Below(Below(Below(tree)))

LEMMA PairsAre ==
    ASSUME NEW tree, NEW B, IsTree(tree, B)
    PROVE  /\ IsSequence(CollectProductPairs(tree))
           /\ Range(CollectProductPairs(tree)) = {PairFromProductName(b) : b \in Range(ProductsOf(tree))}
<1>1. IsTree(ProductsOf(tree), B)
  <2>1. IsTree(Below(tree), B)
    BY BelowIs
  <2>2. IsTree(Below(Below(tree)), B)
    BY <2>1, BelowIs
  <2> QED  BY <2>2, BelowIs DEF ProductsOf
<1> DEFINE products == ProductsOf(tree)
           pairs == [i \in DOMAIN products |-> PairFromProductName(products[i])]
<1>2. CollectProductPairs(tree) = pairs
  BY DEF CollectProductPairs, ProductsOf, Below, ChildrenOf
<1>3. DOMAIN pairs = DOMAIN products /\ pairs = [i \in DOMAIN pairs |-> pairs[i]]
  OBVIOUS
<1>4. Range(pairs) = {PairFromProductName(b) : b \in Range(products)}
  BY DEF Range
<1> HIDE DEF pairs
<1>5. IsSequence(products)
  BY <1>1 DEF IsTree
<1> HIDE DEF products
<1>6. IsSequence(pairs)
  BY <1>3, <1>5, MappedSequence
<1> QED  BY <1>2, <1>4, <1>6 DEF products

\* The pairs that a document offers: of those with one range, the last.
Latest(pairs) ==
    {i \in DOMAIN pairs : pairs[i].rangeID # "" /\ \A j \in DOMAIN pairs : pairs[j].rangeID = pairs[i].rangeID => j <= i}
Offered(doc) == LET pairs == CollectProductPairs(doc.tree) IN {pairs[i] : i \in Latest(pairs)}

Affects(v, pair) == pair.rangeID \in v.affected /\ pair.build # 0 /\ pair.threshold # <<>>
CveOf(doc, v) == IF v.cve = "" THEN doc.id ELSE v.cve
EntryOf(doc, v, pair) ==
    [build |-> pair.build, threshold |-> pair.threshold, cve |-> CveOf(doc, v),
     kb |-> KbForProduct(v, pair.fixedID), severity |-> MaxCVSS(v)]
EntriesFor(doc, v) == {EntryOf(doc, v, pair) : pair \in {o \in Offered(doc) : Affects(v, o)}}

IsDocument(doc) == IsSequence(doc.vulns) /\ \E B : IsTree(doc.tree, B)

LEMMA EntriesAreFinite ==
    ASSUME NEW doc, IsDocument(doc), NEW v
    PROVE  IsFiniteSet(EntriesFor(doc, v))
<1> DEFINE pairs == CollectProductPairs(doc.tree)
           J == {i \in Latest(pairs) : Affects(v, pairs[i])}
           f == [i \in J |-> EntryOf(doc, v, pairs[i])]
<1>1. PICK B : IsTree(doc.tree, B)
  BY DEF IsDocument
<1>2. IsSequence(pairs)
  BY <1>1, PairsAre
<1>3. Len(pairs) \in Nat /\ DOMAIN pairs = 1..Len(pairs)
  BY <1>2, SequenceIs
<1>4. J \in SUBSET (1..Len(pairs))
  BY <1>3 DEF Latest
<1>5. IsFiniteSet(1..Len(pairs))
  BY <1>3, FS_Interval
<1>6. IsFiniteSet(J)
  <2> HIDE DEF J, pairs
  <2> QED  BY <1>4, <1>5, FS_Subset
<1>7. EntriesFor(doc, v) = {f[i] : i \in J}
  BY DEF EntriesFor, Offered
<1>8. f \in Surjection(J, EntriesFor(doc, v))
  <2>1. f \in [J -> {f[i] : i \in J}] /\ \A t \in {f[i] : i \in J} : \E i \in J : f[i] = t
    OBVIOUS
  <2> HIDE DEF f, J
  <2> QED  BY <1>7, <2>1 DEF Surjection
<1> HIDE DEF f, J
<1> QED  BY <1>6, <1>8, FS_Surjection

LEMMA DocumentIs ==
    ASSUME NEW doc, IsDocument(doc), NEW c \in WindowsEntries(doc)
    PROVE  IsSequence(c) /\ \A e : e \in Range(c) <=> \E v \in Range(doc.vulns) : e \in EntriesFor(doc, v)
<1> DEFINE pairs == CollectProductPairs(doc.tree)
           last == {i \in DOMAIN pairs :
                       pairs[i].rangeID # "" /\ \A j \in DOMAIN pairs : pairs[j].rangeID = pairs[i].rangeID => j <= i}
           Entries(v) ==
               {[build |-> pairs[i].build, threshold |-> pairs[i].threshold,
                 cve |-> IF v.cve = "" THEN doc.id ELSE v.cve, kb |-> KbForProduct(v, pairs[i].fixedID),
                 severity |-> MaxCVSS(v)] :
                i \in {j \in last : pairs[j].rangeID \in v.affected /\ pairs[j].build # 0 /\ pairs[j].threshold # <<>>}}
           sets == [i \in DOMAIN doc.vulns |-> SetToSeqs(Entries(doc.vulns[i]))]
           n == Len(doc.vulns)
<1>1. c \in Concatenations(sets)
  BY DEF WindowsEntries
<1>2. \A v : Entries(v) = EntriesFor(doc, v)
  <2> TAKE v
  <2>1. last = Latest(pairs)
    BY DEF Latest
  <2> DEFINE J == {j \in last : pairs[j].rangeID \in v.affected /\ pairs[j].build # 0 /\ pairs[j].threshold # <<>>}
  <2>2. \A i : i \in J <=> i \in Latest(pairs) /\ Affects(v, pairs[i])
    BY <2>1 DEF Affects
  <2>3. Entries(v) = {EntryOf(doc, v, pairs[i]) : i \in J}
    BY DEF EntryOf, CveOf
  <2> HIDE DEF J, Entries
  <2>4. EntriesFor(doc, v) = {EntryOf(doc, v, pairs[i]) : i \in J}
    <3>1. Offered(doc) = {pairs[i] : i \in Latest(pairs)}
      BY DEF Offered
    <3> HIDE DEF pairs
    <3>2. \A o : o \in {x \in Offered(doc) : Affects(v, x)} <=> \E i \in J : o = pairs[i]
      BY <2>2, <3>1
    <3> QED  BY <3>2 DEF EntriesFor
  <2> QED  BY <2>3, <2>4
<1> HIDE DEF Entries
<1>3. n \in Nat /\ DOMAIN doc.vulns = 1..n /\ Range(doc.vulns) = {doc.vulns[i] : i \in 1..n}
  BY SequenceIs DEF IsDocument
<1>4. sets = [i \in 1..n |-> sets[i]] /\ \A i \in 1..n : sets[i] = SetToSeqs(EntriesFor(doc, doc.vulns[i]))
  BY <1>2, <1>3
<1> HIDE DEF sets, n
<1>5. \A i \in 1..n : \A s \in sets[i] : IsSequence(s) /\ Range(s) = EntriesFor(doc, doc.vulns[i])
  BY <1>4, EntriesAreFinite, SeqsOf
<1>6. PICK g : (\A i \in 1..n : g[i] \in sets[i]) /\ \A x : x \in Range(c) <=> \E k \in 1..n : x \in Range(g[k])
  BY <1>1, <1>3, <1>4, <1>5, ConcatenationIs
<1>7. IsSequence(c)
  BY <1>1, <1>3, <1>4, <1>5, ConcatenationIs
<1>8. \A e : e \in Range(c) <=> \E v \in Range(doc.vulns) : e \in EntriesFor(doc, v)
  BY <1>3, <1>5, <1>6
<1> QED  BY <1>7, <1>8

LEMMA MSRCIndexIs ==
    ASSUME NEW docs, IsSequence(docs), \A i \in DOMAIN docs : docs[i].parses => IsDocument(docs[i]),
           NEW index \in NewMSRCCorrelator(docs)
    PROVE  /\ IsSequence(index)
           /\ \A e : e \in Range(index) <=>
                  \E doc \in Range(docs) : doc.parses /\ \E v \in Range(doc.vulns) : e \in EntriesFor(doc, v)
<1> DEFINE S == {i \in DOMAIN docs : docs[i].parses}
           parsed == Picked(docs, S)
           sets == [i \in DOMAIN parsed |-> WindowsEntries(parsed[i])]
           n == Len(parsed)
<1>1. index \in Concatenations(sets)
  BY DEF NewMSRCCorrelator
<1>2. IsSequence(parsed) /\ Range(parsed) = {docs[i] : i \in S}
  <2>1. S \in SUBSET (DOMAIN docs)
    OBVIOUS
  <2> HIDE DEF S
  <2> QED  BY <2>1, PickedSequence
<1>3. \A doc : doc \in Range(parsed) <=> doc \in Range(docs) /\ doc.parses
  BY <1>2 DEF Range
<1>4. \A doc \in Range(parsed) : IsDocument(doc)
  BY <1>2
<1> HIDE DEF parsed, S
<1>5. n \in Nat /\ DOMAIN parsed = 1..n /\ Range(parsed) = {parsed[i] : i \in 1..n}
  BY <1>2, SequenceIs
<1>6. sets = [i \in 1..n |-> sets[i]] /\ \A i \in 1..n : sets[i] = WindowsEntries(parsed[i])
  BY <1>5
<1> HIDE DEF sets, n
<1>7. \A i \in 1..n : \A s \in sets[i] :
          IsSequence(s) /\ \A e : e \in Range(s) <=> \E v \in Range(parsed[i].vulns) : e \in EntriesFor(parsed[i], v)
  BY <1>4, <1>5, <1>6, DocumentIs
<1>8. PICK g : (\A i \in 1..n : g[i] \in sets[i]) /\ \A x : x \in Range(index) <=> \E k \in 1..n : x \in Range(g[k])
  BY <1>1, <1>5, <1>6, <1>7, ConcatenationIs
<1>9. IsSequence(index)
  BY <1>1, <1>5, <1>6, <1>7, ConcatenationIs
<1>10. \A e : e \in Range(index) <=> \E doc \in Range(parsed) : \E v \in Range(doc.vulns) : e \in EntriesFor(doc, v)
  <2>1. \A e : e \in Range(index) <=> \E k \in 1..n : \E v \in Range(parsed[k].vulns) : e \in EntriesFor(parsed[k], v)
    BY <1>7, <1>8
  <2> QED  BY <1>5, <2>1
<1> QED  BY <1>3, <1>9, <1>10

\* A pair of a document speaks of a host that runs a version, for a vulnerability that affects it.
Speaks(docs, doc, v, pair, running) ==
    /\ doc \in Range(docs) /\ doc.parses
    /\ v \in Range(doc.vulns)
    /\ pair \in Offered(doc) /\ Affects(v, pair)
    /\ pair.build = running[3] /\ VersionLess(running, pair.threshold)

MSRCReports(report, docs, running) ==
    LET cves == {f.oid : f \in Range(report)}
    IN  /\ \A cve : cve \in cves <=> \E doc, v, pair : Speaks(docs, doc, v, pair, running) /\ cve = CveOf(doc, v)
        /\ Len(report) = Cardinality(cves)
        /\ \A f \in Range(report) : \E doc, v, pair :
               /\ Speaks(docs, doc, v, pair, running) /\ f.oid = CveOf(doc, v)
               /\ f.fixed = pair.threshold /\ f.kb = KbForProduct(v, pair.fixedID)

\* msrc_csaf.go and msrc.go: whatever documents there are, with their products up to three levels down, in
\* whatever order their pairs are walked, and whatever revision a host has, it is told exactly the CVEs of
\* which a pair for its build ends above its version, and each of them once, with the threshold and the KB of
\* such a pair.
THEOREM MSRCAnswers ==
    ASSUME NEW docs, IsSequence(docs), \A i \in DOMAIN docs : docs[i].parses => IsDocument(docs[i]),
           NEW index \in NewMSRCCorrelator(docs), NEW inv, inv.os.patch # <<>>
    PROVE  MSRCReports(MSRCCorrelate(index, inv), docs, HostVersion(inv.os))
<1> DEFINE report == MSRCCorrelate(index, inv)
           running == HostVersion(inv.os)
           Opens == {e \in Range(index) : IsOpen(e, running)}
<1>1. /\ IsSequence(index)
      /\ \A e : e \in Range(index) <=>
             \E doc \in Range(docs) : doc.parses /\ \E v \in Range(doc.vulns) : e \in EntriesFor(doc, v)
  BY MSRCIndexIs
<1>2. /\ {f.oid : f \in Range(report)} = {e.cve : e \in Opens}
      /\ Len(report) = Cardinality({f.oid : f \in Range(report)})
      /\ \A f \in Range(report) : \E e \in Opens : f.oid = e.cve /\ f.fixed = e.threshold /\ f.kb = e.kb
  BY <1>1, MSRCIs
<1> HIDE DEF report, running
<1>3. \A doc, v, pair :
          LET e == EntryOf(doc, v, pair)
          IN  /\ e.build = pair.build /\ e.threshold = pair.threshold
              /\ e.cve = CveOf(doc, v) /\ e.kb = KbForProduct(v, pair.fixedID)
  BY DEF EntryOf
<1>4. \A doc, v, e : e \in EntriesFor(doc, v) <=> \E pair \in Offered(doc) : Affects(v, pair) /\ e = EntryOf(doc, v, pair)
  BY DEF EntriesFor
<1>5. \A e : e \in Opens <=> \E doc, v, pair : Speaks(docs, doc, v, pair, running) /\ e = EntryOf(doc, v, pair)
  <2> TAKE e
  <2>1. e \in Opens <=> e \in Range(index) /\ IsOpen(e, running)
    OBVIOUS
  <2> HIDE DEF Opens
  <2>2. e \in Range(index) <=>
            \E doc, v, pair : /\ doc \in Range(docs) /\ doc.parses /\ v \in Range(doc.vulns)
                              /\ pair \in Offered(doc) /\ Affects(v, pair) /\ e = EntryOf(doc, v, pair)
    <3>1. e \in Range(index) <=>
              \E doc \in Range(docs) : doc.parses /\ \E v \in Range(doc.vulns) : e \in EntriesFor(doc, v)
      BY <1>1
    <3>2. \A doc, v : e \in EntriesFor(doc, v) <=> \E pair \in Offered(doc) : Affects(v, pair) /\ e = EntryOf(doc, v, pair)
      BY <1>4
    <3> QED  BY <3>1, <3>2, Zenon
  <2>3. \A doc, v, pair :
            e = EntryOf(doc, v, pair) =>
                (IsOpen(e, running) <=> pair.build = running[3] /\ VersionLess(running, pair.threshold))
    BY <1>3 DEF IsOpen
  <2> QED  BY <2>1, <2>2, <2>3 DEF Speaks
<1> HIDE DEF Opens
<1>6. \A cve : cve \in {e.cve : e \in Opens} <=> \E doc, v, pair : Speaks(docs, doc, v, pair, running) /\ cve = CveOf(doc, v)
  BY <1>3, <1>5
<1>7. \A f \in Range(report) : \E doc, v, pair :
          /\ Speaks(docs, doc, v, pair, running) /\ f.oid = CveOf(doc, v)
          /\ f.fixed = pair.threshold /\ f.kb = KbForProduct(v, pair.fixedID)
  BY <1>2, <1>3, <1>5
<1>8. \A cve : cve \in {f.oid : f \in Range(report)} <=>
                  \E doc, v, pair : Speaks(docs, doc, v, pair, running) /\ cve = CveOf(doc, v)
  <2>1. {f.oid : f \in Range(report)} = {e.cve : e \in Opens}
    BY <1>2
  <2> QED  BY <1>6, <2>1, Zenon
<1>9. MSRCReports(report, docs, running)
  BY <1>2, <1>7, <1>8, Zenon DEF MSRCReports
<1> QED  BY <1>9 DEF report, running

---------------------------------------------------------------------------
(* MSRC: the inputs of CorrelationChecks *)

\* Of pairs that differ in their range, a document offers all that have one.
LEMMA OfferedIs ==
    ASSUME NEW doc, NEW B, IsTree(doc.tree, B), NEW P, P = {PairFromProductName(b) : b \in Range(ProductsOf(doc.tree))},
           \A x, y \in P : x.rangeID = y.rangeID => x = y \/ x.rangeID = ""
    PROVE  Offered(doc) = {x \in P : x.rangeID # ""}
<1> DEFINE pairs == CollectProductPairs(doc.tree)
           n == Len(pairs)
<1>1. IsSequence(pairs) /\ Range(pairs) = P
  BY PairsAre
<1>2. n \in Nat /\ DOMAIN pairs = 1..n /\ Range(pairs) = {pairs[i] : i \in 1..n}
  BY <1>1, SequenceIs
<1>3. Offered(doc) = {pairs[i] : i \in Latest(pairs)}
  BY DEF Offered
<1> HIDE DEF pairs, n
<1>4. ASSUME NEW x \in P, x.rangeID # ""
      PROVE  x \in {pairs[i] : i \in Latest(pairs)}
  <2> DEFINE S == {i \in 1..n : pairs[i].rangeID = x.rangeID}
             m == Max(S)
  <2>1. S \in SUBSET (1..n) /\ S # {}
    BY <1>1, <1>2
  <2>2. m \in S /\ \A k \in S : k <= m
    <3> HIDE DEF S
    <3> QED  BY <1>2, <2>1, GreatestNumber
  <2> HIDE DEF m
  <2>3. m \in Latest(pairs)
    BY <1>2, <1>4, <2>2 DEF Latest
  <2>4. pairs[m] = x
    BY <1>1, <1>2, <1>4, <2>2
  <2> QED  BY <2>3, <2>4
<1>5. ASSUME NEW x \in {pairs[i] : i \in Latest(pairs)}
      PROVE  x \in P /\ x.rangeID # ""
  <2>1. PICK i \in Latest(pairs) : x = pairs[i]
    OBVIOUS
  <2> QED  BY <1>1, <1>2, <2>1 DEF Latest
<1> QED  BY <1>3, <1>4, <1>5

LEMMA Greatest2 ==
    /\ Max({0}) = 0 /\ Max({1}) = 1 /\ Max({2}) = 2 /\ Max({0, 1}) = 1 /\ Max({0, 2}) = 2
    /\ Min({1}) = 1 /\ Min({2}) = 2 /\ Min({1, 2}) = 1
  BY DEF Max, Min

\* Where the children of a product hold its ranges, its fixes and the builds.
Holding(branch, ranges, fixes, at, built) ==
    LET children == branch.branches
        OfKind(kind) == {i \in DOMAIN children : children[i].category = kind /\ children[i].id # ""}
    IN  /\ OfKind("product_version_range") = ranges
        /\ OfKind("product_version") = fixes
        /\ Max({0} \cup ranges) = at
        /\ {i \in ranges \cup fixes : i >= at /\ BuildComponent(children[i].version) # 0} = built

PairAt(children, ranges, fixes, at, built) ==
    [rangeID |-> IF ranges = {} THEN "" ELSE children[at].id,
     threshold |-> IF ranges = {} THEN <<>> ELSE children[at].version,
     fixedID |-> IF fixes = {} THEN "" ELSE children[Max(fixes)].id,
     build |-> IF built = {} THEN 0 ELSE BuildComponent(children[Min(built)].version)]

LEMMA PairIs ==
    ASSUME NEW branch, NEW ranges, NEW fixes, NEW at, NEW built, Holding(branch, ranges, fixes, at, built)
    PROVE  PairFromProductName(branch) = PairAt(branch.branches, ranges, fixes, at, built)
  BY DEF PairFromProductName, Holding, PairAt

IsID(id) == id # ""

LEMMA RangeIs ==
    ASSUME NEW id, NEW b, NEW u
    PROVE  /\ Range10(id, b, u).category = "product_version_range" /\ Range10(id, b, u).id = id
           /\ Range10(id, b, u).version = <<10, 0, b, u>>
  BY DEF Range10

LEMMA FixIs ==
    ASSUME NEW id, NEW b, NEW u
    PROVE  /\ Fix10(id, b, u).category = "product_version" /\ Fix10(id, b, u).id = id
           /\ Fix10(id, b, u).version = <<10, 0, b, u>>
  BY DEF Fix10

LEMMA UnreadIs ==
    ASSUME NEW id, NEW b, NEW u
    PROVE  LET unread == [Range10(id, b, u) EXCEPT !.version = <<>>]
           IN  unread.category = "product_version_range" /\ unread.id = id /\ unread.version = <<>>
  BY DEF Range10

LEMMA TupleIs ==
    ASSUME NEW x, NEW y
    PROVE  /\ DOMAIN <<x>> = {1} /\ <<x>>[1] = x
           /\ DOMAIN <<x, y>> = {1, 2} /\ <<x, y>>[1] = x /\ <<x, y>>[2] = y
<1>1. DOMAIN <<x>> = 1..1 /\ DOMAIN <<x, y>> = 1..2
  OBVIOUS
<1>2. 1..1 = {1} /\ 1..2 = {1, 2}
  OBVIOUS
<1> QED  BY <1>1, <1>2

LEMMA Builds ==
    ASSUME NEW b \in Nat \ {0}, NEW u
    PROVE  BuildComponent(<<10, 0, b, u>>) = b /\ BuildComponent(<<>>) = 0
<1>1. Len(<<10, 0, b, u>>) = 4 /\ Len(<<>>) = 0 /\ <<10, 0, b, u>>[3] = b
  OBVIOUS
<1>2. ~(4 < 3) /\ 0 < 3
  OBVIOUS
<1> QED  BY <1>1, <1>2, Zenon DEF BuildComponent

LEMMA RangeThenFix ==
    ASSUME NEW rid, IsID(rid), NEW fid, IsID(fid), NEW b \in Nat \ {0}, NEW u
    PROVE  PairFromProductName(Product(<<Range10(rid, b, u), Fix10(fid, b, u)>>)) =
              [rangeID |-> rid, threshold |-> <<10, 0, b, u>>, fixedID |-> fid, build |-> b]
<1> DEFINE range == Range10(rid, b, u)
           fix == Fix10(fid, b, u)
           branch == Product(<<range, fix>>)
           children == branch.branches
<1>1. /\ range.category = "product_version_range" /\ range.id = rid /\ range.version = <<10, 0, b, u>>
      /\ fix.category = "product_version" /\ fix.id = fid /\ fix.version = <<10, 0, b, u>>
  BY RangeIs, FixIs
<1>2. children = <<range, fix>>
  BY DEF Product
<1> HIDE DEF branch, range, fix
<1>3. DOMAIN children = {1, 2} /\ children[1] = range /\ children[2] = fix
  BY <1>2, TupleIs
<1>4. b # 0 /\ BuildComponent(children[1].version) = b /\ BuildComponent(children[2].version) = b
  BY <1>1, <1>3, Builds
<1>5. Holding(branch, {1}, {2}, 1, {1, 2})
  <2>1. {i \in DOMAIN children : children[i].category = "product_version_range" /\ children[i].id # ""} = {1}
    BY <1>1, <1>3 DEF IsID
  <2>2. {i \in DOMAIN children : children[i].category = "product_version" /\ children[i].id # ""} = {2}
    BY <1>1, <1>3 DEF IsID
  <2>3. Max({0} \cup {1}) = 1
    <3>1. {0} \cup {1} = {0, 1}
      OBVIOUS
    <3> QED  BY <3>1, Greatest2
  <2>4. {i \in {1} \cup {2} : i >= 1 /\ BuildComponent(children[i].version) # 0} = {1, 2}
    <3>1. \A i \in {1} \cup {2} : (i >= 1 /\ BuildComponent(children[i].version) # 0) <=> i \in {1, 2}
      BY <1>4
    <3>2. {1, 2} \subseteq {1} \cup {2}
      OBVIOUS
    <3> QED  BY <3>1, <3>2, Zenon
  <2> QED  BY <2>1, <2>2, <2>3, <2>4 DEF Holding
<1>6. /\ {1} # {} /\ {2} # {} /\ {1, 2} # {}
      /\ Min({1, 2}) = 1 /\ Max({2}) = 2
  BY Greatest2
<1>7. PairFromProductName(branch) = [rangeID |-> rid, threshold |-> <<10, 0, b, u>>, fixedID |-> fid, build |-> b]
  <2>1. PairFromProductName(branch) = PairAt(children, {1}, {2}, 1, {1, 2})
    BY <1>5, PairIs
  <2>2. PairAt(children, {1}, {2}, 1, {1, 2}) = [rangeID |-> rid, threshold |-> <<10, 0, b, u>>, fixedID |-> fid, build |-> b]
    BY <1>1, <1>3, <1>4, <1>6 DEF PairAt
  <2> QED  BY <2>1, <2>2
<1> QED  BY <1>7 DEF branch, range, fix

LEMMA FixThenRange ==
    ASSUME NEW rid, IsID(rid), NEW fid, IsID(fid), NEW b \in Nat \ {0}, NEW u
    PROVE  PairFromProductName(Product(<<Fix10(fid, b, u), Range10(rid, b, u)>>)) =
              [rangeID |-> rid, threshold |-> <<10, 0, b, u>>, fixedID |-> fid, build |-> b]
<1> DEFINE range == Range10(rid, b, u)
           fix == Fix10(fid, b, u)
           branch == Product(<<fix, range>>)
           children == branch.branches
<1>1. /\ range.category = "product_version_range" /\ range.id = rid /\ range.version = <<10, 0, b, u>>
      /\ fix.category = "product_version" /\ fix.id = fid /\ fix.version = <<10, 0, b, u>>
  BY RangeIs, FixIs
<1>2. children = <<fix, range>>
  BY DEF Product
<1> HIDE DEF branch, range, fix
<1>3. DOMAIN children = {1, 2} /\ children[1] = fix /\ children[2] = range
  BY <1>2, TupleIs
<1>4. b # 0 /\ BuildComponent(children[1].version) = b /\ BuildComponent(children[2].version) = b
  BY <1>1, <1>3, Builds
<1>5. Holding(branch, {2}, {1}, 2, {2})
  <2>1. {i \in DOMAIN children : children[i].category = "product_version_range" /\ children[i].id # ""} = {2}
    BY <1>1, <1>3 DEF IsID
  <2>2. {i \in DOMAIN children : children[i].category = "product_version" /\ children[i].id # ""} = {1}
    BY <1>1, <1>3 DEF IsID
  <2>3. Max({0} \cup {2}) = 2
    <3>1. {0} \cup {2} = {0, 2}
      OBVIOUS
    <3> QED  BY <3>1, Greatest2
  <2>4. {i \in {2} \cup {1} : i >= 2 /\ BuildComponent(children[i].version) # 0} = {2}
    <3>1. \A i \in {2} \cup {1} : (i >= 2 /\ BuildComponent(children[i].version) # 0) <=> i \in {2}
      BY <1>4
    <3>2. {2} \subseteq {2} \cup {1}
      OBVIOUS
    <3> QED  BY <3>1, <3>2, Zenon
  <2> QED  BY <2>1, <2>2, <2>3, <2>4 DEF Holding
<1>6. /\ {2} # {} /\ {1} # {} /\ {2} # {}
      /\ Min({2}) = 2 /\ Max({1}) = 1
  BY Greatest2
<1>7. PairFromProductName(branch) = [rangeID |-> rid, threshold |-> <<10, 0, b, u>>, fixedID |-> fid, build |-> b]
  <2>1. PairFromProductName(branch) = PairAt(children, {2}, {1}, 2, {2})
    BY <1>5, PairIs
  <2>2. PairAt(children, {2}, {1}, 2, {2}) = [rangeID |-> rid, threshold |-> <<10, 0, b, u>>, fixedID |-> fid, build |-> b]
    BY <1>1, <1>3, <1>4, <1>6 DEF PairAt
  <2> QED  BY <2>1, <2>2
<1> QED  BY <1>7 DEF branch, range, fix

LEMMA RangeAlone ==
    ASSUME NEW rid, IsID(rid), NEW b \in Nat \ {0}, NEW u
    PROVE  PairFromProductName(Product(<<Range10(rid, b, u)>>)) =
              [rangeID |-> rid, threshold |-> <<10, 0, b, u>>, fixedID |-> "", build |-> b]
<1> DEFINE range == Range10(rid, b, u)
           branch == Product(<<range>>)
           children == branch.branches
<1>1. /\ range.category = "product_version_range" /\ range.id = rid /\ range.version = <<10, 0, b, u>>
  BY RangeIs
<1>2. children = <<range>>
  BY DEF Product
<1> HIDE DEF branch, range
<1>3. DOMAIN children = {1} /\ children[1] = range
  BY <1>2, TupleIs
<1>4. b # 0 /\ BuildComponent(children[1].version) = b
  BY <1>1, <1>3, Builds
<1>5. Holding(branch, {1}, {}, 1, {1})
  <2>1. {i \in DOMAIN children : children[i].category = "product_version_range" /\ children[i].id # ""} = {1}
    BY <1>1, <1>3 DEF IsID
  <2>2. {i \in DOMAIN children : children[i].category = "product_version" /\ children[i].id # ""} = {}
    BY <1>1, <1>3 DEF IsID
  <2>3. Max({0} \cup {1}) = 1
    <3>1. {0} \cup {1} = {0, 1}
      OBVIOUS
    <3> QED  BY <3>1, Greatest2
  <2>4. {i \in {1} \cup {} : i >= 1 /\ BuildComponent(children[i].version) # 0} = {1}
    <3>1. \A i \in {1} \cup {} : (i >= 1 /\ BuildComponent(children[i].version) # 0) <=> i \in {1}
      BY <1>4
    <3>2. {1} \subseteq {1} \cup {}
      OBVIOUS
    <3> QED  BY <3>1, <3>2, Zenon
  <2> QED  BY <2>1, <2>2, <2>3, <2>4 DEF Holding
<1>6. /\ {1} # {} /\ {} = {} /\ {1} # {}
      /\ Min({1}) = 1
  BY Greatest2
<1>7. PairFromProductName(branch) = [rangeID |-> rid, threshold |-> <<10, 0, b, u>>, fixedID |-> "", build |-> b]
  <2>1. PairFromProductName(branch) = PairAt(children, {1}, {}, 1, {1})
    BY <1>5, PairIs
  <2>2. PairAt(children, {1}, {}, 1, {1}) = [rangeID |-> rid, threshold |-> <<10, 0, b, u>>, fixedID |-> "", build |-> b]
    BY <1>1, <1>3, <1>4, <1>6 DEF PairAt
  <2> QED  BY <2>1, <2>2
<1> QED  BY <1>7 DEF branch, range

LEMMA FixAlone ==
    ASSUME NEW fid, IsID(fid), NEW b \in Nat \ {0}, NEW u
    PROVE  PairFromProductName(Product(<<Fix10(fid, b, u)>>)) =
              [rangeID |-> "", threshold |-> <<>>, fixedID |-> fid, build |-> b]
<1> DEFINE fix == Fix10(fid, b, u)
           branch == Product(<<fix>>)
           children == branch.branches
<1>1. /\ fix.category = "product_version" /\ fix.id = fid /\ fix.version = <<10, 0, b, u>>
  BY FixIs
<1>2. children = <<fix>>
  BY DEF Product
<1> HIDE DEF branch, fix
<1>3. DOMAIN children = {1} /\ children[1] = fix
  BY <1>2, TupleIs
<1>4. b # 0 /\ BuildComponent(children[1].version) = b
  BY <1>1, <1>3, Builds
<1>5. Holding(branch, {}, {1}, 0, {1})
  <2>1. {i \in DOMAIN children : children[i].category = "product_version_range" /\ children[i].id # ""} = {}
    BY <1>1, <1>3 DEF IsID
  <2>2. {i \in DOMAIN children : children[i].category = "product_version" /\ children[i].id # ""} = {1}
    BY <1>1, <1>3 DEF IsID
  <2>3. Max({0} \cup {}) = 0
    <3>1. {0} \cup {} = {0}
      OBVIOUS
    <3> QED  BY <3>1, Greatest2
  <2>4. {i \in {} \cup {1} : i >= 0 /\ BuildComponent(children[i].version) # 0} = {1}
    <3>1. \A i \in {} \cup {1} : (i >= 0 /\ BuildComponent(children[i].version) # 0) <=> i \in {1}
      BY <1>4
    <3>2. {1} \subseteq {} \cup {1}
      OBVIOUS
    <3> QED  BY <3>1, <3>2, Zenon
  <2> QED  BY <2>1, <2>2, <2>3, <2>4 DEF Holding
<1>6. /\ {} = {} /\ {1} # {} /\ {1} # {}
      /\ Min({1}) = 1 /\ Max({1}) = 1
  BY Greatest2
<1>7. PairFromProductName(branch) = [rangeID |-> "", threshold |-> <<>>, fixedID |-> fid, build |-> b]
  <2>1. PairFromProductName(branch) = PairAt(children, {}, {1}, 0, {1})
    BY <1>5, PairIs
  <2>2. PairAt(children, {}, {1}, 0, {1}) = [rangeID |-> "", threshold |-> <<>>, fixedID |-> fid, build |-> b]
    BY <1>1, <1>3, <1>4, <1>6 DEF PairAt
  <2> QED  BY <2>1, <2>2
<1> QED  BY <1>7 DEF branch, fix

LEMMA UnreadRange ==
    ASSUME NEW rid, IsID(rid), NEW fid, IsID(fid), NEW b \in Nat \ {0}, NEW u
    PROVE  PairFromProductName(Product(<<[Range10(rid, b, u) EXCEPT !.version = <<>>], Fix10(fid, b, u)>>)) =
              [rangeID |-> rid, threshold |-> <<>>, fixedID |-> fid, build |-> b]
<1> DEFINE range == [Range10(rid, b, u) EXCEPT !.version = <<>>]
           fix == Fix10(fid, b, u)
           branch == Product(<<range, fix>>)
           children == branch.branches
<1>1. /\ range.category = "product_version_range" /\ range.id = rid /\ range.version = <<>>
      /\ fix.category = "product_version" /\ fix.id = fid /\ fix.version = <<10, 0, b, u>>
  BY UnreadIs, FixIs
<1>2. children = <<range, fix>>
  BY DEF Product
<1> HIDE DEF branch, range, fix
<1>3. DOMAIN children = {1, 2} /\ children[1] = range /\ children[2] = fix
  BY <1>2, TupleIs
<1>4. b # 0 /\ BuildComponent(children[1].version) = 0 /\ BuildComponent(children[2].version) = b
  BY <1>1, <1>3, Builds
<1>5. Holding(branch, {1}, {2}, 1, {2})
  <2>1. {i \in DOMAIN children : children[i].category = "product_version_range" /\ children[i].id # ""} = {1}
    BY <1>1, <1>3 DEF IsID
  <2>2. {i \in DOMAIN children : children[i].category = "product_version" /\ children[i].id # ""} = {2}
    BY <1>1, <1>3 DEF IsID
  <2>3. Max({0} \cup {1}) = 1
    <3>1. {0} \cup {1} = {0, 1}
      OBVIOUS
    <3> QED  BY <3>1, Greatest2
  <2>4. {i \in {1} \cup {2} : i >= 1 /\ BuildComponent(children[i].version) # 0} = {2}
    <3>1. \A i \in {1} \cup {2} : (i >= 1 /\ BuildComponent(children[i].version) # 0) <=> i \in {2}
      BY <1>4
    <3>2. {2} \subseteq {1} \cup {2}
      OBVIOUS
    <3> QED  BY <3>1, <3>2, Zenon
  <2> QED  BY <2>1, <2>2, <2>3, <2>4 DEF Holding
<1>6. /\ {1} # {} /\ {2} # {} /\ {2} # {}
      /\ Min({2}) = 2 /\ Max({2}) = 2
  BY Greatest2
<1>7. PairFromProductName(branch) = [rangeID |-> rid, threshold |-> <<>>, fixedID |-> fid, build |-> b]
  <2>1. PairFromProductName(branch) = PairAt(children, {1}, {2}, 1, {2})
    BY <1>5, PairIs
  <2>2. PairAt(children, {1}, {2}, 1, {2}) = [rangeID |-> rid, threshold |-> <<>>, fixedID |-> fid, build |-> b]
    BY <1>1, <1>3, <1>4, <1>6 DEF PairAt
  <2> QED  BY <2>1, <2>2
<1> QED  BY <1>7 DEF branch, range, fix

LEMMA LaterRevision ==
    ASSUME NEW b \in Nat, NEW u \in Nat, NEW t \in Nat
    PROVE  VersionLess(<<10, 0, b, u>>, <<10, 0, b, t>>) <=> u < t
<1> DEFINE running == <<10, 0, b, u>>
           threshold == <<10, 0, b, t>>
<1>1. running \in Seq(Nat) /\ threshold \in Seq(Nat) /\ running # <<>> /\ threshold # <<>>
  <2>1. 10 \in Nat /\ 0 \in Nat
    OBVIOUS
  <2> QED  BY <2>1
<1>2. /\ Part(running, 1) = Part(threshold, 1) /\ Part(running, 2) = Part(threshold, 2)
      /\ Part(running, 3) = Part(threshold, 3)
      /\ Part(running, 4) = u /\ Part(threshold, 4) = t
      /\ \A i \in Nat \ {0} : i > 4 => Part(running, i) = Part(threshold, i)
  BY DEF Part
<1>3. VersionLess(running, threshold) <=> running # <<>> /\ threshold # <<>> /\ Precedes(running, threshold)
  BY <1>1, LessMeans
<1> HIDE DEF running, threshold
<1>4. ASSUME u < t PROVE Precedes(running, threshold)
  <2>1. 4 \in Nat \ {0} /\ \A j \in 1..(4 - 1) : j = 1 \/ j = 2 \/ j = 3
    OBVIOUS
  <2>2. Part(running, 4) < Part(threshold, 4) /\ \A j \in 1..(4 - 1) : Part(running, j) = Part(threshold, j)
    BY <1>2, <1>4, <2>1
  <2> QED  BY <2>1, <2>2 DEF Precedes
<1>5. ASSUME Precedes(running, threshold) PROVE u < t
  <2>1. PICK i \in Nat \ {0} : Part(running, i) < Part(threshold, i)
    BY <1>5 DEF Precedes
  <2>2. \A i1 \in Nat \ {0} : Part(running, i1) \in Nat /\ Part(threshold, i1) \in Nat
    BY <1>1, LessMeans
  <2>3. Part(running, i) # Part(threshold, i)
    BY <2>1, <2>2
  <2>4. i = 4
    BY <1>2, <2>3
  <2> QED  BY <1>2, <2>1, <2>4
<1> QED  BY <1>1, <1>3, <1>4, <1>5 DEF running, threshold

\* What a check's product is read as, and with which fix.
ReadAs(r, pair) ==
    /\ pair.rangeID \in {"", r.id}
    /\ r.below > 0 <=> pair.rangeID # "" /\ pair.threshold # <<>>
    /\ r.below > 0 =>
          /\ pair.rangeID = r.id /\ pair.build = r.build
          /\ pair.threshold = <<10, 0, r.build, r.below>>
          /\ pair.fixedID \in {"", "f1", "f2"} /\ (pair.fixedID = "f2" <=> r.id = "r2")

LEMMA ProductsUsed ==
    ASSUME NEW r \in Products
    PROVE  ReadAs(r, PairFromProductName(r.node)) /\ r.below \in 0..3 /\ r.build \in {5, 6} /\ IsID(r.id)
<1> DEFINE pair == PairFromProductName(r.node)
<1> SUFFICES ReadAs(r, pair) /\ r.below \in 0..3 /\ r.build \in {5, 6} /\ IsID(r.id)
  OBVIOUS
<1> HIDE DEF pair
<1>1. IsID("r1") /\ IsID("r2") /\ IsID("r3") /\ IsID("r4") /\ IsID("r5") /\ IsID("f1") /\ IsID("f2") /\ IsID("f5")
  BY DEF IsID
<1>2. 5 \in Nat \ {0} /\ 6 \in Nat \ {0}
  OBVIOUS
<1>3. \/ r = [node |-> Product(<<Range10("r1", 5, 2), Fix10("f1", 5, 2)>>), id |-> "r1", build |-> 5, below |-> 2]
      \/ r = [node |-> Product(<<Fix10("f2", 5, 1), Range10("r2", 5, 1)>>), id |-> "r2", build |-> 5, below |-> 1]
      \/ r = [node |-> Product(<<Range10("r3", 6, 3)>>), id |-> "r3", build |-> 6, below |-> 3]
      \/ r = [node |-> Product(<<Fix10("r4", 5, 3)>>), id |-> "r4", build |-> 5, below |-> 0]
      \/ r = [node |-> Product(<<[Range10("r5", 5, 3) EXCEPT !.version = <<>>], Fix10("f5", 5, 3)>>),
              id |-> "r5", build |-> 5, below |-> 0]
  BY Zenon DEF Products
<1>9. /\ <<10, 0, 5, 2>> # <<>> /\ <<10, 0, 5, 1>> # <<>> /\ <<10, 0, 6, 3>> # <<>>
      /\ 2 > 0 /\ 1 > 0 /\ 3 > 0 /\ ~(0 > 0) /\ 0 \in 0..3 /\ 1 \in 0..3 /\ 2 \in 0..3 /\ 3 \in 0..3
  OBVIOUS
<1>4. CASE r = [node |-> Product(<<Range10("r1", 5, 2), Fix10("f1", 5, 2)>>), id |-> "r1", build |-> 5, below |-> 2]
  <2>1. pair = [rangeID |-> "r1", threshold |-> <<10, 0, 5, 2>>, fixedID |-> "f1", build |-> 5]
    BY <1>1, <1>2, <1>4, RangeThenFix DEF pair
  <2>2. r.id = "r1" /\ r.build = 5 /\ r.below = 2
    BY <1>4
  <2>3. pair.rangeID = "r1" /\ pair.threshold = <<10, 0, 5, 2>> /\ pair.fixedID = "f1" /\ pair.build = 5
    BY <2>1
  <2> QED  BY <1>9, <2>2, <2>3 DEF ReadAs, IsID
<1>5. CASE r = [node |-> Product(<<Fix10("f2", 5, 1), Range10("r2", 5, 1)>>), id |-> "r2", build |-> 5, below |-> 1]
  <2>1. pair = [rangeID |-> "r2", threshold |-> <<10, 0, 5, 1>>, fixedID |-> "f2", build |-> 5]
    BY <1>1, <1>2, <1>5, FixThenRange DEF pair
  <2>2. r.id = "r2" /\ r.build = 5 /\ r.below = 1
    BY <1>5
  <2>3. pair.rangeID = "r2" /\ pair.threshold = <<10, 0, 5, 1>> /\ pair.fixedID = "f2" /\ pair.build = 5
    BY <2>1
  <2> QED  BY <1>9, <2>2, <2>3 DEF ReadAs, IsID
<1>6. CASE r = [node |-> Product(<<Range10("r3", 6, 3)>>), id |-> "r3", build |-> 6, below |-> 3]
  <2>1. pair = [rangeID |-> "r3", threshold |-> <<10, 0, 6, 3>>, fixedID |-> "", build |-> 6]
    BY <1>1, <1>2, <1>6, RangeAlone DEF pair
  <2>2. r.id = "r3" /\ r.build = 6 /\ r.below = 3
    BY <1>6
  <2>3. pair.rangeID = "r3" /\ pair.threshold = <<10, 0, 6, 3>> /\ pair.fixedID = "" /\ pair.build = 6
    BY <2>1
  <2> QED  BY <1>9, <2>2, <2>3 DEF ReadAs, IsID
<1>7. CASE r = [node |-> Product(<<Fix10("r4", 5, 3)>>), id |-> "r4", build |-> 5, below |-> 0]
  <2>1. pair = [rangeID |-> "", threshold |-> <<>>, fixedID |-> "r4", build |-> 5]
    BY <1>1, <1>2, <1>7, FixAlone DEF pair
  <2>2. r.id = "r4" /\ r.build = 5 /\ r.below = 0
    BY <1>7
  <2>3. pair.rangeID = "" /\ pair.threshold = <<>> /\ pair.fixedID = "r4" /\ pair.build = 5
    BY <2>1
  <2> QED  BY <1>9, <2>2, <2>3 DEF ReadAs, IsID
<1>8. CASE r = [node |-> Product(<<[Range10("r5", 5, 3) EXCEPT !.version = <<>>], Fix10("f5", 5, 3)>>),
                id |-> "r5", build |-> 5, below |-> 0]
  <2>1. pair = [rangeID |-> "r5", threshold |-> <<>>, fixedID |-> "f5", build |-> 5]
    BY <1>1, <1>2, <1>8, UnreadRange DEF pair
  <2>2. r.id = "r5" /\ r.build = 5 /\ r.below = 0
    BY <1>8
  <2>3. pair.rangeID = "r5" /\ pair.threshold = <<>> /\ pair.fixedID = "f5" /\ pair.build = 5
    BY <2>1
  <2> QED  BY <1>9, <2>2, <2>3 DEF ReadAs, IsID
<1> QED  BY <1>3, <1>4, <1>5, <1>6, <1>7, <1>8, Zenon

LEMMA ProductsDiffer == \A r, s \in Products : r.id = s.id => r = s
<1> DEFINE n1 == Product(<<Range10("r1", 5, 2), Fix10("f1", 5, 2)>>)
           n2 == Product(<<Fix10("f2", 5, 1), Range10("r2", 5, 1)>>)
           n3 == Product(<<Range10("r3", 6, 3)>>)
           n4 == Product(<<Fix10("r4", 5, 3)>>)
           n5 == Product(<<[Range10("r5", 5, 3) EXCEPT !.version = <<>>], Fix10("f5", 5, 3)>>)
<1>1. Products = {[node |-> n1, id |-> "r1", build |-> 5, below |-> 2], [node |-> n2, id |-> "r2", build |-> 5, below |-> 1],
                  [node |-> n3, id |-> "r3", build |-> 6, below |-> 3], [node |-> n4, id |-> "r4", build |-> 5, below |-> 0],
                  [node |-> n5, id |-> "r5", build |-> 5, below |-> 0]}
  BY DEF Products
<1> HIDE DEF n1, n2, n3, n4, n5
<1> QED  BY <1>1

LEMMA FixesUsed ==
    ASSUME NEW cve, NEW affected, NEW fixedID \in {"", "f1", "f2"}
    PROVE  KbForProduct(Vuln(cve, affected), fixedID) = (IF fixedID = "f2" THEN "KB2" ELSE "KB1")
<1> DEFINE v == Vuln(cve, affected)
           x == [products |-> {"f1"}, kb |-> "KB1"]
           y == [products |-> {"f2"}, kb |-> "KB2"]
           Fixing == {i \in DOMAIN v.fixes : (fixedID = "" \/ fixedID \in v.fixes[i].products) /\ v.fixes[i].kb # ""}
<1>1. v.fixes = <<x, y>>
  BY DEF Vuln
<1> HIDE DEF v
<1>2. /\ DOMAIN v.fixes = {1, 2}
      /\ v.fixes[1].products = {"f1"} /\ v.fixes[1].kb = "KB1"
      /\ v.fixes[2].products = {"f2"} /\ v.fixes[2].kb = "KB2"
  <2>1. x.products = {"f1"} /\ x.kb = "KB1" /\ y.products = {"f2"} /\ y.kb = "KB2"
    OBVIOUS
  <2> HIDE DEF x, y
  <2>2. DOMAIN <<x, y>> = {1, 2} /\ <<x, y>>[1] = x /\ <<x, y>>[2] = y
    BY TupleIs
  <2> QED  BY <1>1, <2>1, <2>2
<1>3. /\ fixedID = "" => Fixing = {1, 2}
      /\ fixedID = "f1" => Fixing = {1}
      /\ fixedID = "f2" => Fixing = {2}
  BY <1>2
<1>4. KbForProduct(v, fixedID) = (IF Fixing = {} THEN "" ELSE v.fixes[Min(Fixing)].kb)
  BY DEF KbForProduct
<1> HIDE DEF Fixing
<1>5. CASE fixedID = ""
  BY <1>2, <1>3, <1>4, <1>5, Greatest2 DEF v
<1>6. CASE fixedID = "f1"
  BY <1>2, <1>3, <1>4, <1>6, Greatest2 DEF v
<1>7. CASE fixedID = "f2"
  BY <1>2, <1>3, <1>4, <1>7, Greatest2 DEF v
<1> QED  BY <1>5, <1>6, <1>7

LEMMA TupleRange ==
    ASSUME NEW x, NEW y
    PROVE  /\ IsSequence(<<x>>) /\ Range(<<x>>) = {x}
           /\ IsSequence(<<x, y>>) /\ Range(<<x, y>>) = {x, y}
<1>1. /\ <<x>> = [i \in 1..1 |-> <<x>>[i]] /\ <<x, y>> = [i \in 1..2 |-> <<x, y>>[i]]
      /\ 1 \in Nat /\ 2 \in Nat
  OBVIOUS
<1>2. IsSequence(<<x>>) /\ IsSequence(<<x, y>>)
  BY <1>1 DEF IsSequence
<1> QED  BY <1>2, TupleIs DEF Range

LEMMA BranchIs ==
    ASSUME NEW children
    PROVE  /\ ChildrenOf(Group(children)) = children
           /\ ChildrenOf(Product(children)) = <<Product(children)>>
<1>1. Group(children).category = "product_family" /\ Group(children).branches = children
  BY DEF Group
<1>2. Product(children).category = "product_name"
  BY DEF Product
<1>3. "product_family" # "product_name"
  OBVIOUS
<1> QED  BY <1>1, <1>2, <1>3 DEF ChildrenOf

LEMMA NodesUsed ==
    ASSUME NEW r \in Products
    PROVE  ChildrenOf(r.node) = <<r.node>>
<1>1. \E children : r.node = Product(children)
  BY DEF Products
<1> QED  BY <1>1, BranchIs

\* The tree of the checks' documents holds one product two levels down and another above it.
LEMMA TreeIs ==
    ASSUME NEW x, NEW y, ChildrenOf(x) = <<x>>, ChildrenOf(y) = <<y>>
    PROVE  LET tree == <<Group(<<Group(<<x>>), y>>)>>
           IN  (\E B : IsTree(tree, B)) /\ Range(ProductsOf(tree)) = {x, y}
<1> DEFINE inner == Group(<<x>>)
           outer == Group(<<inner, y>>)
           tree == <<outer>>
           B == {outer, inner, x, y}
<1>1. ChildrenOf(inner) = <<x>>
  BY BranchIs
<1> HIDE DEF inner
<1>2. ChildrenOf(outer) = <<inner, y>>
  BY BranchIs
<1> HIDE DEF outer
<1>3. /\ IsSequence(<<outer>>) /\ Range(<<outer>>) = {outer}
      /\ IsSequence(<<x>>) /\ Range(<<x>>) = {x}
      /\ IsSequence(<<y>>) /\ Range(<<y>>) = {y}
      /\ IsSequence(<<inner, y>>) /\ Range(<<inner, y>>) = {inner, y}
  BY TupleRange
<1>4. IsTree(tree, B)
  BY <1>1, <1>2, <1>3 DEF IsTree
<1> HIDE DEF tree, B
<1>5. IsTree(Below(tree), B) /\ Range(Below(tree)) = {inner, y}
  <2>1. \A b : b \in Range(Below(tree)) <=> \E c \in Range(tree) : b \in Range(ChildrenOf(c))
    BY <1>4, BelowIs
  <2>2. Range(tree) = {outer}
    BY <1>3 DEF tree
  <2> QED  BY <1>2, <1>3, <1>4, <2>1, <2>2, BelowIs
<1>6. IsTree(Below(Below(tree)), B) /\ Range(Below(Below(tree))) = {x, y}
  <2>1. \A b : b \in Range(Below(Below(tree))) <=> \E c \in Range(Below(tree)) : b \in Range(ChildrenOf(c))
    BY <1>5, BelowIs
  <2> QED  BY <1>1, <1>3, <1>5, <2>1, BelowIs
<1>7. Range(Below(Below(Below(tree)))) = {x, y}
  <2>1. \A b : b \in Range(Below(Below(Below(tree)))) <=> \E c \in Range(Below(Below(tree))) : b \in Range(ChildrenOf(c))
    BY <1>6, BelowIs
  <2> QED  BY <1>3, <1>6, <2>1
<1> QED  BY <1>4, <1>7 DEF ProductsOf, tree, outer, inner

Offers(doc, p, q, first, second) ==
    /\ doc.parses /\ doc.id = "cve1" /\ IsDocument(doc)
    /\ Range(doc.vulns) = {Vuln("", first), Vuln("cve2", second)}
    /\ Offered(doc) = {x \in {PairFromProductName(p.node), PairFromProductName(q.node)} : x.rangeID # ""}

LEMMA DocumentOffers ==
    ASSUME NEW p \in Products, NEW q \in Products, NEW first, NEW second
    PROVE  Offers(Document(p, q, first, second), p, q, first, second)
<1> DEFINE doc == Document(p, q, first, second)
           v == Vuln("", first)
           w == Vuln("cve2", second)
           tree == <<Group(<<Group(<<p.node>>), q.node>>)>>
           P == {PairFromProductName(p.node), PairFromProductName(q.node)}
<1>1. (\E B : IsTree(tree, B)) /\ Range(ProductsOf(tree)) = {p.node, q.node}
  BY NodesUsed, TreeIs
<1>2. doc.parses /\ doc.id = "cve1" /\ doc.tree = tree /\ doc.vulns = <<v, w>>
  BY DEF Document
<1> HIDE DEF doc, tree, v, w
<1>3. IsSequence(doc.vulns) /\ Range(doc.vulns) = {v, w}
  <2>1. IsSequence(<<v, w>>) /\ Range(<<v, w>>) = {v, w}
    BY TupleRange
  <2> QED  BY <1>2, <2>1
<1>4. IsDocument(doc)
  BY <1>1, <1>2, <1>3 DEF IsDocument
<1>5. PICK B : IsTree(doc.tree, B)
  BY <1>1, <1>2
<1>6. P = {PairFromProductName(b) : b \in Range(ProductsOf(doc.tree))}
  BY <1>1, <1>2
<1>7. \A x, y \in P : x.rangeID = y.rangeID => x = y \/ x.rangeID = ""
  <2>1. ReadAs(p, PairFromProductName(p.node)) /\ ReadAs(q, PairFromProductName(q.node))
    BY ProductsUsed
  <2>2. p.id = q.id => p = q
    BY ProductsDiffer
  <2> QED  BY <2>1, <2>2 DEF ReadAs
<1> HIDE DEF P
<1>8. Offered(doc) = {x \in P : x.rangeID # ""}
  BY <1>5, <1>6, <1>7, OfferedIs
<1> QED  BY <1>2, <1>3, <1>4, <1>8 DEF Offers, doc, v, w, P

\* The products of a document by which a host is open to a vulnerability.
OpenBy(p, q, affected, build, ubr) == {r \in {p, q} : r.id \in affected /\ r.build = build /\ ubr < r.below}

LEMMA PairSpeaks ==
    ASSUME NEW r \in Products, NEW v, NEW build \in {5, 6}, NEW ubr \in 0..3
    PROVE  LET pair == PairFromProductName(r.node)
               running == <<10, 0, build, ubr>>
           IN  /\ pair.rangeID # "" /\ Affects(v, pair) /\ pair.build = running[3] /\ VersionLess(running, pair.threshold)
               <=> r.id \in v.affected /\ r.build = build /\ ubr < r.below
<1> DEFINE pair == PairFromProductName(r.node)
           running == <<10, 0, build, ubr>>
           Spoken == /\ pair.rangeID # "" /\ Affects(v, pair)
                     /\ pair.build = running[3] /\ VersionLess(running, pair.threshold)
<1>1. ReadAs(r, pair) /\ r.below \in 0..3 /\ r.build \in {5, 6} /\ IsID(r.id)
  BY ProductsUsed
<1>2. running[3] = build
  OBVIOUS
<1>3. \A t \in Nat : VersionLess(running, <<10, 0, build, t>>) <=> ubr < t
  BY LaterRevision
<1> HIDE DEF pair, running
<1>4. CASE r.below > 0
  <2>1. /\ pair.rangeID = r.id /\ r.id # "" /\ pair.build = r.build /\ pair.threshold = <<10, 0, r.build, r.below>>
        /\ pair.threshold # <<>>
    BY <1>1, <1>4 DEF ReadAs, IsID
  <2>2. Affects(v, pair) <=> r.id \in v.affected
    <3>1. r.build # 0
      BY <1>1
    <3> QED  BY <2>1, <3>1 DEF Affects
  <2>3. r.build = build => (VersionLess(running, pair.threshold) <=> ubr < r.below)
    <3>1. r.below \in Nat
      BY <1>1
    <3> QED  BY <1>3, <2>1, <3>1, Zenon
  <2> QED  BY <1>1, <1>2, <2>1, <2>2, <2>3 DEF pair, running
<1>5. CASE ~(r.below > 0)
  <2>1. ~(pair.rangeID # "" /\ pair.threshold # <<>>) /\ ~(ubr < r.below)
    <3>1. ~(pair.rangeID # "" /\ pair.threshold # <<>>)
      BY <1>1, <1>5, Zenon DEF ReadAs
    <3>2. r.below \in Nat /\ ubr \in Nat
      BY <1>1
    <3>3. ~(ubr < r.below)
      BY <1>5, <3>2
    <3> QED  BY <3>1, <3>3
  <2>2. ~Spoken
    BY <2>1 DEF Affects
  <2> QED  BY <2>1, <2>2 DEF pair, running
<1> QED  BY <1>4, <1>5

SpeaksOnly(docs, doc, p, q, first, second, build, ubr) ==
    \A d, v, pair :
        Speaks(docs, d, v, pair, <<10, 0, build, ubr>>) <=>
            /\ d = doc
            /\ \E r \in {p, q} :
                  /\ pair = PairFromProductName(r.node)
                  /\ \/ v = Vuln("", first) /\ r \in OpenBy(p, q, first, build, ubr)
                     \/ v = Vuln("cve2", second) /\ r \in OpenBy(p, q, second, build, ubr)

LEMMA DocumentSpeaks ==
    ASSUME NEW p \in Products, NEW q \in Products, NEW first, NEW second, NEW build \in {5, 6}, NEW ubr \in 0..3
    PROVE  LET doc == Document(p, q, first, second)
           IN  SpeaksOnly(<<Broken, doc>>, doc, p, q, first, second, build, ubr)
<1> DEFINE doc == Document(p, q, first, second)
           one == Vuln("", first)
           two == Vuln("cve2", second)
           running == <<10, 0, build, ubr>>
           docs == <<Broken, doc>>
           Pair(r) == PairFromProductName(r.node)
           P == {Pair(p), Pair(q)}
<1>1. doc.parses /\ Range(doc.vulns) = {one, two} /\ Offered(doc) = {x \in P : x.rangeID # ""}
  <2>1. Offers(doc, p, q, first, second)
    BY DocumentOffers
  <2> HIDE DEF doc
  <2> QED  BY <2>1 DEF Offers
<1>2. one.affected = first /\ two.affected = second
  BY DEF Vuln
<1>3. Range(docs) = {Broken, doc} /\ ~Broken.parses
  BY TupleRange DEF Broken
<1>4. \A r \in {p, q} : \A v :
          /\ Pair(r).rangeID # "" /\ Affects(v, Pair(r))
          /\ Pair(r).build = running[3] /\ VersionLess(running, Pair(r).threshold)
          <=> r.id \in v.affected /\ r.build = build /\ ubr < r.below
  BY PairSpeaks
<1> HIDE DEF doc, one, two, docs, running, Pair
<1>5. \A d, v, pair :
          Speaks(docs, d, v, pair, running) <=>
              /\ d = doc /\ (v = one \/ v = two)
              /\ \E r \in {p, q} : pair = Pair(r) /\ r.id \in v.affected /\ r.build = build /\ ubr < r.below
  <2> TAKE d, v, pair
  <2>1. d \in Range(docs) /\ d.parses <=> d = doc
    BY <1>1, <1>3
  <2>2. v \in Range(doc.vulns) <=> v = one \/ v = two
    BY <1>1
  <2>3. /\ pair \in Offered(doc) /\ Affects(v, pair) /\ pair.build = running[3] /\ VersionLess(running, pair.threshold)
        <=> \E r \in {p, q} : pair = Pair(r) /\ r.id \in v.affected /\ r.build = build /\ ubr < r.below
    <3>1. pair \in Offered(doc) <=> pair.rangeID # "" /\ \E r \in {p, q} : pair = Pair(r)
      BY <1>1
    <3> QED  BY <1>4, <3>1
  <2> QED  BY <2>1, <2>2, <2>3 DEF Speaks
<1>6. \A r \in {p, q} : /\ r \in OpenBy(p, q, first, build, ubr) <=> r.id \in one.affected /\ r.build = build /\ ubr < r.below
                        /\ r \in OpenBy(p, q, second, build, ubr) <=> r.id \in two.affected /\ r.build = build /\ ubr < r.below
  BY <1>2 DEF OpenBy
<1>7. \A d, v, pair :
          Speaks(docs, d, v, pair, running) <=>
              /\ d = doc
              /\ \E r \in {p, q} :
                    /\ pair = Pair(r)
                    /\ \/ v = one /\ r \in OpenBy(p, q, first, build, ubr)
                       \/ v = two /\ r \in OpenBy(p, q, second, build, ubr)
  BY <1>5, <1>6
<1> QED  BY <1>7 DEF SpeaksOnly, doc, docs, one, two, running, Pair

LEMMA PairsJoin ==
    ASSUME NEW A, NEW x \in A, NEW y \in A, NEW b \in A, NEW u \in A
    PROVE  <<x, y>> \o <<b, u>> = <<x, y, b, u>>
<1> DEFINE s == <<x, y>> \o <<b, u>>
           t == <<x, y, b, u>>
<1>1. s \in Seq(A) /\ Len(s) = 4
  OBVIOUS
<1>2. s[1] = x /\ s[2] = y /\ s[3] = b /\ s[4] = u
  OBVIOUS
<1>3. t \in Seq(A) /\ Len(t) = 4 /\ t[1] = x /\ t[2] = y /\ t[3] = b /\ t[4] = u
  OBVIOUS
<1> HIDE DEF s, t
<1>4. \A i \in 1..Len(s) : s[i] = t[i]
  <2>1. \A i \in 1..4 : i = 1 \/ i = 2 \/ i = 3 \/ i = 4
    OBVIOUS
  <2> QED  BY <1>1, <1>2, <1>3, <2>1
<1>5. s = t
  BY <1>1, <1>3, <1>4, SeqEqual
<1> QED  BY <1>5 DEF s, t

LEMMA HostIs ==
    ASSUME NEW b \in Nat, NEW u \in Nat
    PROVE  HostVersion(Windows(b, u).os) = <<10, 0, b, u>> /\ Windows(b, u).os.patch # <<>>
<1>1. Windows(b, u).os.patch = <<b, u>>
  BY DEF Windows
<1>2. <<10, 0>> \o <<b, u>> = <<10, 0, b, u>>
  <2>1. 10 \in Nat /\ 0 \in Nat
    OBVIOUS
  <2> QED  BY <2>1, PairsJoin
<1>3. <<b, u>> # <<>>
  OBVIOUS
<1> QED  BY <1>1, <1>2, <1>3 DEF HostVersion

\* msrc_csaf.go and msrc.go: exact for the documents and hosts of the check.
LEMMA MSRCHolds == MSRCIsExact
<1> SUFFICES ASSUME NEW p \in Products, NEW q \in Products,
                    NEW first \in SUBSET {p.id, q.id}, NEW second \in SUBSET {p.id, q.id},
                    NEW index \in NewMSRCCorrelator(<<Broken, Document(p, q, first, second)>>),
                    NEW build \in {5, 6}, NEW ubr \in 0..3
             PROVE  LET report == Dispatch(<<>>, index, Windows(build, ubr)).msrc
                        Open(affected) ==
                            {r \in {p, q} : r.id \in affected /\ r.build = build /\ ubr < r.below}
                        expected == (IF Open(first) # {} THEN {"cve1"} ELSE {})
                                    \cup (IF Open(second) # {} THEN {"cve2"} ELSE {})
                    IN  /\ {report[i].oid : i \in DOMAIN report} = expected
                        /\ Len(report) = Cardinality(expected)
                        /\ \A i \in DOMAIN report :
                            \E r \in Open(IF report[i].oid = "cve1" THEN first ELSE second) :
                                /\ report[i].fixed = <<10, 0, build, r.below>>
                                /\ report[i].kb = (IF r.id = "r2" THEN "KB2" ELSE "KB1")
  BY DEF MSRCIsExact
<1> DEFINE doc == Document(p, q, first, second)
           docs == <<Broken, doc>>
           one == Vuln("", first)
           two == Vuln("cve2", second)
           inv == Windows(build, ubr)
           running == <<10, 0, build, ubr>>
           report == MSRCCorrelate(index, inv)
           Open(affected) == OpenBy(p, q, affected, build, ubr)
           expected == (IF Open(first) # {} THEN {"cve1"} ELSE {}) \cup (IF Open(second) # {} THEN {"cve2"} ELSE {})
<1>1. inv.os.patch # <<>> /\ HostVersion(inv.os) = running /\ inv.os.family = "windows"
  <2>1. build \in Nat /\ ubr \in Nat
    OBVIOUS
  <2>2. inv.os.family = "windows"
    BY DEF Windows
  <2> QED  BY <2>1, <2>2, HostIs
<1>2. Dispatch(<<>>, index, inv).msrc = report
  <2>1. "windows" # "linux"
    BY Zenon
  <2> HIDE DEF inv
  <2>2. Dispatch(<<>>, index, inv) = [NoReport EXCEPT !.msrc = report, !.hardening = HardeningCorrelate(inv)]
    BY <1>1, <2>1 DEF Dispatch, MultiCorrelate
  <2> HIDE DEF report
  <2> QED  BY <2>2 DEF NoReport
<1>3. IsSequence(docs) /\ \A i \in DOMAIN docs : docs[i].parses => IsDocument(docs[i])
  <2>1. IsSequence(docs) /\ Range(docs) = {Broken, doc}
    BY TupleRange
  <2>2. IsDocument(doc)
    BY DocumentOffers DEF Offers
  <2>3. ~Broken.parses
    BY DEF Broken
  <2> HIDE DEF docs, doc
  <2> QED  BY <2>1, <2>2, <2>3 DEF Range
<1>4. MSRCReports(report, docs, running)
  <2> HIDE DEF docs, inv, running
  <2> QED  BY <1>1, <1>3, MSRCAnswers DEF docs
<1>5. \A d, v, pair :
          Speaks(docs, d, v, pair, running) <=>
              /\ d = doc
              /\ \E r \in {p, q} :
                    /\ pair = PairFromProductName(r.node)
                    /\ \/ v = one /\ r \in Open(first)
                       \/ v = two /\ r \in Open(second)
  <2>1. SpeaksOnly(docs, doc, p, q, first, second, build, ubr)
    BY DocumentSpeaks
  <2> HIDE DEF docs, doc
  <2> QED  BY <2>1 DEF SpeaksOnly
<1>6. CveOf(doc, one) = "cve1" /\ CveOf(doc, two) = "cve2" /\ "cve1" # "cve2"
  <2>1. one.cve = "" /\ two.cve = "cve2" /\ doc.id = "cve1"
    BY DEF Vuln, Document
  <2> HIDE DEF one, two, doc
  <2> QED  BY <2>1 DEF CveOf
<1>7. \A r \in {p, q} : \A a :
          r \in Open(a) =>
              LET pair == PairFromProductName(r.node)
              IN  /\ pair.threshold = <<10, 0, build, r.below>>
                  /\ KbForProduct(one, pair.fixedID) = (IF r.id = "r2" THEN "KB2" ELSE "KB1")
                  /\ KbForProduct(two, pair.fixedID) = (IF r.id = "r2" THEN "KB2" ELSE "KB1")
  <2> SUFFICES ASSUME NEW r \in {p, q}, NEW a, r \in Open(a)
               PROVE  LET pair == PairFromProductName(r.node)
                      IN  /\ pair.threshold = <<10, 0, build, r.below>>
                          /\ KbForProduct(one, pair.fixedID) = (IF r.id = "r2" THEN "KB2" ELSE "KB1")
                          /\ KbForProduct(two, pair.fixedID) = (IF r.id = "r2" THEN "KB2" ELSE "KB1")
    OBVIOUS
  <2> DEFINE pair == PairFromProductName(r.node)
  <2>1. ReadAs(r, pair) /\ r.below \in 0..3
    BY ProductsUsed
  <2>2. r.build = build /\ ubr < r.below
    BY DEF OpenBy
  <2> HIDE DEF pair
  <2>3. r.below > 0
    BY <2>1, <2>2
  <2>4. /\ pair.threshold = <<10, 0, build, r.below>>
        /\ pair.fixedID \in {"", "f1", "f2"} /\ (pair.fixedID = "f2" <=> r.id = "r2")
    BY <2>1, <2>2, <2>3 DEF ReadAs
  <2>5. \A c, b : KbForProduct(Vuln(c, b), pair.fixedID) = (IF pair.fixedID = "f2" THEN "KB2" ELSE "KB1")
    BY <2>4, FixesUsed
  <2> QED  BY <2>4, <2>5 DEF pair
<1>8. Open(first) \subseteq {p, q} /\ Open(second) \subseteq {p, q}
  BY DEF OpenBy
<1>9. \A a : {r \in {p, q} : r.id \in a /\ r.build = build /\ ubr < r.below} = Open(a)
  BY DEF OpenBy
<1> HIDE DEF doc, docs, one, two, inv, running, report, Open
<1>10. {f.oid : f \in Range(report)} = expected
  <2>1. \A cve : cve \in {f.oid : f \in Range(report)} <=>
            \E d, v, pair : Speaks(docs, d, v, pair, running) /\ cve = CveOf(d, v)
    BY <1>4 DEF MSRCReports
  <2>2. \A cve : (\E d, v, pair : Speaks(docs, d, v, pair, running) /\ cve = CveOf(d, v)) <=>
            \/ cve = "cve1" /\ \E r \in {p, q} : r \in Open(first)
            \/ cve = "cve2" /\ \E r \in {p, q} : r \in Open(second)
    BY <1>5, <1>6
  <2>3. \A cve : cve \in expected <=> \/ cve = "cve1" /\ Open(first) # {}
                                      \/ cve = "cve2" /\ Open(second) # {}
    OBVIOUS
  <2>4. /\ Open(first) # {} <=> \E r \in {p, q} : r \in Open(first)
        /\ Open(second) # {} <=> \E r \in {p, q} : r \in Open(second)
    BY <1>8
  <2> HIDE DEF expected
  <2> QED  BY <2>1, <2>2, <2>3, <2>4
<1>11. Len(report) = Cardinality(expected)
  BY <1>4, <1>10 DEF MSRCReports
<1>12. ASSUME NEW f \in Range(report)
       PROVE  \E r \in Open(IF f.oid = "cve1" THEN first ELSE second) :
                  /\ f.fixed = <<10, 0, build, r.below>>
                  /\ f.kb = (IF r.id = "r2" THEN "KB2" ELSE "KB1")
  <2>1. \E d, v, pair : /\ Speaks(docs, d, v, pair, running) /\ f.oid = CveOf(d, v)
                        /\ f.fixed = pair.threshold /\ f.kb = KbForProduct(v, pair.fixedID)
    BY <1>4 DEF MSRCReports
  <2>2. \E r \in {p, q} :
            /\ \/ f.oid = "cve1" /\ r \in Open(first) /\ f.kb = KbForProduct(one, PairFromProductName(r.node).fixedID)
               \/ f.oid = "cve2" /\ r \in Open(second) /\ f.kb = KbForProduct(two, PairFromProductName(r.node).fixedID)
            /\ f.fixed = PairFromProductName(r.node).threshold
    BY <1>5, <1>6, <2>1
  <2> QED  BY <1>6, <1>7, <2>2
<1>13. {report[i].oid : i \in DOMAIN report} = {f.oid : f \in Range(report)} /\ \A i \in DOMAIN report : report[i] \in Range(report)
  BY DEF Range
<1> HIDE DEF expected
<1>14. /\ {report[i].oid : i \in DOMAIN report} = expected
       /\ Len(report) = Cardinality(expected)
       /\ \A i \in DOMAIN report :
           \E r \in Open(IF report[i].oid = "cve1" THEN first ELSE second) :
               /\ report[i].fixed = <<10, 0, build, r.below>>
               /\ report[i].kb = (IF r.id = "r2" THEN "KB2" ELSE "KB1")
  BY <1>10, <1>11, <1>12, <1>13
<1> QED  BY <1>2, <1>14, ZenonT(30) DEF expected, Open, OpenBy, inv

---------------------------------------------------------------------------
(* What the check's imports are told *)

\* notus.go, msrc.go, hardening.go and dispatch.go: whatever the pipeline is doing, the engine that an import
\* asks answers every feed, document and host of the check exactly. The order of versions is the check's.
THEOREM ImportsHold ==
    ASSUME Ascending = InOrder
    PROVE  PipelineSpec => []ImportsAreExact
<1>1. NotusIsExact /\ WindowsIsExact
  BY NotusHolds, MSRCHolds, HardeningHolds, DarwinIsNotJudged DEF WindowsIsExact
<1>2. ImportsAreExact
  BY <1>1 DEF ImportsAreExact
<1> QED  BY <1>2, PTL
=============================================================================
