------------------------------ MODULE Pipeline ------------------------------
(***************************************************************************)
(* The capture manager (App thread) and the stream registry (PipeWire      *)
(* thread) joined by their two FIFO channels: state events one way,        *)
(* capture commands the other.  Neither thread waits for the other, so the *)
(* App decides on a graph that has moved on, while the server frees and    *)
(* reuses object ids; an object.serial is never reused.                    *)
(*                                                                         *)
(* The server is external: it adds and removes nodes, announces their      *)
(* properties and port configuration, and negotiates a format with any     *)
(* connected stream, once or again: AUTOCONNECT may link a stream whose    *)
(* target has gone to another node.                                        *)
(***************************************************************************)
EXTENDS Capture, StreamRegistry, Sequences

Seqs == INSTANCE SequencesExt     \* whose Remove is not the registry's

CONSTANTS
    MaxQueue        \* bound on either channel; unbounded in the source

ASSUME PipelineAssumption ==
    /\ NodeId \subseteq ObjectId /\ Serial \subseteq Nat /\ Stream \subseteq Nat
    /\ MaxQueue \in Nat

VARIABLES
    graph,      \* serial of each node the registry has bound, or None
    lastSerial, \* the last serial the server has given out
    announced,  \* nodes whose properties have been sent to the App
    eventQ,     \* the App's mpsc channel
    cmdQ,       \* the PipeWire thread's command channel
    target,     \* serial each stream was created for, or None
    failed,     \* ids whose last start capture_node refused
    peaks,      \* Node::peaks, as the stream that shares the array
    owed,       \* history: ids whose stream was removed since the collection
    fed         \* history: the streams in use that sent a format, none owed

pwVars == <<graph, lastSerial, announced, registryVars, target, failed>>
meterVars == <<owed, fed>>
pipelineVars == <<vars, pwVars, eventQ, cmdQ, peaks, meterVars>>

PipelineInit ==
    /\ Init /\ RegistryInit
    /\ graph = [id \in NodeId |-> None] /\ lastSerial = 0 /\ announced = {}
    /\ eventQ = <<>> /\ cmdQ = <<>>
    /\ target = [s \in Stream |-> None] /\ failed = {}
    /\ peaks = [id \in NodeId |-> None]
    /\ owed = {} /\ fed = {}

-----------------------------------------------------------------------------
(* EventSender::send: the App's handler pushes into its channel.           *)
Send(events) ==
    /\ eventQ' = eventQ \o events
    /\ Len(eventQ') <= MaxQueue

(* A step of the PipeWire thread leaves the App alone.                     *)
AppIdle == UNCHANGED <<vars, peaks>>

(* What the two history variables record, which no guard reads: an id whose*)
(* stream Remove takes is owed a NodeStreamStopped, up to the collection.  *)
MetersStay == UNCHANGED meterVars

MeterTaken(id) ==
    /\ owed' = owed \cup {e.id : e \in At(streams, id)}
    /\ fed' = fed \ Held(At(streams, id))

MeterRenewed(id, s) ==
    /\ fed' = fed \ (Held(At(streams, id)) \cup {s})
    /\ UNCHANGED owed

MeterStarted(e) ==
    /\ fed' = IF e.id \in owed THEN fed \ {e.stream} ELSE fed \cup {e.stream}
    /\ UNCHANGED owed

MetersCollected == owed' = {} /\ UNCHANGED fed

(* The server adds a node under a free id; the registry binds it.          *)
NodeAppears(id) ==
    /\ graph[id] = None /\ lastSerial + 1 \in Serial
    /\ lastSerial' = lastSerial + 1
    /\ graph' = [graph EXCEPT ![id] = lastSerial']
    /\ AppIdle /\ MetersStay
    /\ UNCHANGED <<announced, registryVars, target, failed, eventQ, cmdQ>>

(* node_info_props, on the info event after binding and on every change.   *)
NodeInfo(id) ==
    /\ graph[id] # None
    /\ announced' = announced \cup {id}
    /\ \E p \in PropsOf[id] :
        /\ p.serial = graph[id]
        /\ Send(<<[kind |-> "props", id |-> id, props |-> p]>>)
    /\ AppIdle /\ MetersStay
    /\ UNCHANGED <<graph, lastSerial, registryVars, target, failed, cmdQ>>

(* node_param_port_config. *)
PortConfig(id) ==
    /\ id \in announced
    /\ \E layout \in Layout : Send(<<[kind |-> "positions", id |-> id, layout |-> layout]>>)
    /\ AppIdle /\ MetersStay /\ UNCHANGED <<pwVars, cmdQ>>

(* The proxy's removed callback tells the App, then drops the stream.      *)
NodeVanishes(id) ==
    /\ graph[id] # None
    /\ graph' = [graph EXCEPT ![id] = None]
    /\ announced' = announced \ {id}
    /\ Send(<<[kind |-> "removed", id |-> id]>>)
    /\ Remove(id) /\ MeterTaken(id)
    /\ AppIdle /\ UNCHANGED <<lastSerial, target, failed, cmdQ>>

(* param_changed: a format for a registered stream, whatever has become of *)
(* its target and of the stream registered before it.                      *)
StreamFormat(e) ==
    /\ e \in streams
    /\ Send(<<[kind |-> "started", id |-> e.id, stream |-> e.stream]>>)
    /\ MeterStarted(e)
    /\ AppIdle /\ UNCHANGED <<pwVars, cmdQ>>

(* The watch on gc_fd reports the ids collected.                           *)
CollectStreams ==
    /\ Send(Seqs!SetToSeq({[kind |-> "stopped", id |-> id] : id \in garbageIds}))
    /\ CollectGarbage /\ MetersCollected
    /\ AppIdle /\ UNCHANGED <<graph, lastSerial, announced, target, failed, cmdQ>>

(* Streams no structure refers to; the least stands for a new one.         *)
FreeStreams ==
    Stream \ (Held(streams) \cup garbageStreams \cup {peaks[id] : id \in NodeId}
              \cup {eventQ[i].stream : i \in {j \in DOMAIN eventQ : eventQ[j].kind = "started"}})

(* execute_command.  capture_node may fail, which nobody is told.          *)
ExecuteStart(c) ==
    /\ c.op = "start"
    /\ \/ \E s \in FreeStreams :
            /\ \A t \in FreeStreams : s <= t
            /\ AddStream(c.id, s) /\ MeterRenewed(c.id, s)
            /\ target' = [target EXCEPT ![s] = c.serial]
            /\ failed' = failed \ {c.id}
       \/ /\ failed' = failed \cup {c.id}
          /\ MetersStay /\ UNCHANGED <<registryVars, target>>

ExecuteStop(c) ==
    /\ c.op = "stop"
    /\ Remove(c.id) /\ MeterTaken(c.id)
    /\ failed' = failed \ {c.id}
    /\ UNCHANGED target

ExecuteCommand ==
    /\ cmdQ # <<>>
    /\ cmdQ' = Tail(cmdQ)
    /\ ExecuteStart(Head(cmdQ)) \/ ExecuteStop(Head(cmdQ))
    /\ AppIdle /\ UNCHANGED <<graph, lastSerial, announced, eventQ>>

-----------------------------------------------------------------------------
(* Mutant of Issue: a start overtakes a stop of the same handler.          *)
IssueStartsFirst(startsFirst) ==
    LET stops == Seqs!SetToSeq({[op |-> "stop", id |-> id] : id \in issued'.stop})
        starts == Seqs!SetToSeq({[op |-> "start", id |-> id, serial |-> node'[id].serial]
                              : id \in issued'.start})
    IN  /\ cmdQ' = cmdQ \o starts \o stops
        /\ Len(cmdQ') <= MaxQueue

(* CommandSender: the commands a handler issued, each start with the serial*)
(* the App knows.  update_capturing, in Refresh, starts before it stops.   *)
Issue(startsFirst) ==
    LET stops == Seqs!SetToSeq({[op |-> "stop", id |-> id] : id \in issued'.stop})
        starts == Seqs!SetToSeq({[op |-> "start", id |-> id, serial |-> node'[id].serial]
                              : id \in issued'.start})
    IN  /\ cmdQ' = cmdQ \o (IF startsFirst THEN starts \o stops ELSE stops \o starts)
        /\ Len(cmdQ') <= MaxQueue

(* What the App does with an event, peaks included.                        *)
Apply(e) ==
    \/ e.kind = "props" /\ NodeProperties(e.id, e.props) /\ UNCHANGED peaks
    \/ e.kind = "positions" /\ NodePositions(e.id, e.layout) /\ UNCHANGED peaks
    \/ e.kind = "removed" /\ NodeRemoved(e.id) /\ peaks' = [peaks EXCEPT ![e.id] = None]
    \/ e.kind = "started" /\ StreamStarted(e.id) /\ peaks' = [peaks EXCEPT ![e.id] = e.stream]
    \/ e.kind = "stopped" /\ OtherStateEvent({e.id}) /\ peaks' = [peaks EXCEPT ![e.id] = None]

HandleEvent ==
    /\ eventQ # <<>>
    /\ eventQ' = Tail(eventQ)
    /\ \E e \in {Head(eventQ)} : Apply(e)    \* a value: Apply primes what it uses
    /\ Issue(FALSE)
    /\ MetersStay /\ UNCHANGED pwVars

AppStep ==
    /\ \/ (Ready \/ HideNext \/ RenderFrame \/ SkipFrame \/ AskForFrame) /\ Issue(FALSE)
       \/ (\E v \in Screens, changed \in BOOLEAN : Refresh(v, changed)) /\ Issue(TRUE)
    /\ MetersStay /\ UNCHANGED <<pwVars, eventQ, peaks>>

PwStep ==
    \/ \E id \in NodeId : NodeAppears(id) \/ NodeInfo(id) \/ PortConfig(id) \/ NodeVanishes(id)
    \/ \E e \in streams : StreamFormat(e)
    \/ CollectStreams
    \/ ExecuteCommand

PipelineNext == HandleEvent \/ AppStep \/ PwStep

PipelineSpec == PipelineInit /\ [][PipelineNext]_pipelineVars

(* Each channel's reader comes back to it: the App drains its queue in     *)
(* every iteration of its loop, and the PipeWire main loop serves the      *)
(* command channel and a readable gc_fd.                                   *)
PipelineFairness ==
    /\ SF_pipelineVars(HandleEvent)
    /\ WF_pipelineVars(phase = "frame" /\ AppStep)
    /\ SF_pipelineVars(ExecuteCommand)
    /\ SF_pipelineVars(CollectStreams)

-----------------------------------------------------------------------------
(* Nothing is in flight between the two threads. *)
AtRest == eventQ = <<>> /\ cmdQ = <<>>

Captured == {e.id : e \in streams}

(* At rest the App mirrors the graph, with the serials of the present      *)
(* holders of reused ids; of a node that has gone, or is not announced yet,*)
(* nothing is left that could be shown, captured or counted.               *)
MirrorAtRest ==
    eventQ = <<>> => /\ announced \subseteq nodes
                     /\ \A id \in announced : node[id].serial = graph[id]
                     /\ \A id \in NodeId \ announced : node[id] = DefaultNode

(* At rest the streams are those the App believes it captures, but for     *)
(* starts that capture_node refused: no stop is lost to a node id that was *)
(* freed and reused while commands and events crossed each other, and no   *)
(* start outlives the stop that follows it.                                *)
StreamsMatchCapturing ==
    AtRest => Captured \subseteq capturing /\ capturing \ failed \subseteq Captured

(* At rest a stream taps the node that holds its id now (CHANGELOG:        *)
(* "Peak capturing after a node's object id is reused").                   *)
TargetsAreCurrent == AtRest => \A e \in streams : target[e.stream] = graph[e.id]

(* The cap bounds the real streams at every moment, not only the App's own *)
(* set: a restart replaces its stream and a rotation stops before it starts*)
(* all the way through the command channel.                                *)
StreamsWithinCap ==
    MaxCaptures # None => Cardinality(Captured) <= MaxCaptures

(* At rest, and with the garbage collected, only captured nodes have a     *)
(* meter: no meter is left to a stream that has been dropped for good.     *)
NoMeterWithoutCapture ==
    AtRest /\ ~gcArmed => {id \in NodeId : peaks[id] # None} \subseteq capturing

(* Nothing stays behind for a node that has gone for good: whatever start  *)
(* was in flight, its stream is disconnected and freed.                    *)
GoneIsReleased ==
    \A id \in NodeId :
        <>[](graph[id] = None) => <>[](At(streams, id) = {} /\ peaks[id] = None)

(* Once its format has reached the App, a registered stream feeds the meter*)
(* of its node, whatever streams of the id were evicted, or stopped and    *)
(* collected, before it.  Stated for a format that comes when no stopped   *)
(* stream of the id waits for its collection: one that came earlier would  *)
(* be cleared by the NodeStreamStopped of the former stream.               *)
MeterFollowsStream ==
    eventQ = <<>> =>
        \A e \in streams : e.stream \in fed => peaks[e.id] = e.stream

(* The same of every format: the main loop does collect before a stream    *)
(* connected by the same batch of commands can be negotiated, but nothing  *)
(* in the registry or in the events makes it so.                           *)
MeterFollowsEveryFormat ==
    [][ \A e \in streams \cap streams' :
            peaks[e.id] = e.stream => peaks'[e.id] = e.stream ]_pipelineVars

(* State::update: a stopped event of a node that "doesn't exist anymore"   *)
(* inserts nothing.  A started event does: the id stays in State::nodes.   *)
NothingLeftOfGone == eventQ = <<>> => nodes \subseteq announced

(* wiremix.toml, max_concurrent_captures: meters of nodes not in the active*)
(* set "keep showing their last captured value until their next turn".     *)
MetersHoldWhileEligible ==
    [][ \A id \in nodes \cap nodes' :
            peaks[id] # None /\ id \in capturable' => peaks'[id] # None ]_pipelineVars
=============================================================================
