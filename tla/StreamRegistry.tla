--------------------------- MODULE StreamRegistry ---------------------------
(***************************************************************************)
(* wirehose::stream_registry::StreamRegistry: the PipeWire thread's store  *)
(* of capture streams and their listeners.  A PipeWire callback must not   *)
(* free either, so eviction and removal park them as garbage and arm an    *)
(* event fd; the main loop collects when it next finds the fd readable.    *)
(*                                                                         *)
(* A stream is its own identity, and may stand for a later one only after  *)
(* it has been freed; the listener made with it bears the same name.  The  *)
(* maps from object id to stream and to listeners are sets of entries.     *)
(***************************************************************************)
EXTENDS Naturals, FiniteSets

CONSTANTS
    ObjectId,   \* keys of the registry
    Stream      \* the streams capture_node creates

VARIABLES
    streams,            \* entries [id, stream]
    listeners,          \* entries [id, stream]: the listener of that stream
    garbageStreams,
    garbageListeners,
    garbageIds,         \* ids to report as stopped
    gcArmed,            \* gc_fd is readable
    connected           \* streams the server still has a node for

registryVars == <<streams, listeners, garbageStreams, garbageListeners,
                  garbageIds, gcArmed, connected>>

Entry == [id : ObjectId, stream : Stream]

RegistryTypeOK ==
    /\ streams \subseteq Entry
    /\ listeners \subseteq Entry
    /\ garbageStreams \subseteq Stream
    /\ garbageListeners \subseteq Stream
    /\ garbageIds \subseteq ObjectId
    /\ gcArmed \in BOOLEAN
    /\ connected \subseteq Stream

RegistryInit ==
    /\ streams = {} /\ listeners = {}
    /\ garbageStreams = {} /\ garbageListeners = {} /\ garbageIds = {}
    /\ gcArmed = FALSE
    /\ connected = {}

(* The entries of a map under a key, and what they hold.                   *)
At(map, id) == {e \in map : e.id = id}
Held(map) == {e.stream : e \in map}

(* Mutants of AddStream, each forgetting one thing about the stream it     *)
(* evicts: to disconnect it, to park it.                                   *)
AddStreamBut(id, s, disconnects, parks) ==
    LET old == Held(At(streams, id)) IN
    /\ s \notin Held(streams) \cup garbageStreams
    /\ connected' = (connected \cup {s}) \ (IF disconnects THEN old ELSE {})
    /\ streams' = (streams \ At(streams, id)) \cup {[id |-> id, stream |-> s]}
    /\ garbageStreams' = garbageStreams \cup (IF parks THEN old ELSE {})
    /\ garbageListeners' = garbageListeners \cup old
    /\ listeners' = (listeners \ At(listeners, id)) \cup {[id |-> id, stream |-> s]}
    /\ gcArmed' = (gcArmed \/ old # {})
    /\ UNCHANGED garbageIds
AddStreamLeavesNode(id, s) == AddStreamBut(id, s, FALSE, TRUE)
AddStreamFreesStream(id, s) == AddStreamBut(id, s, TRUE, FALSE)

(* capture_node connects a new stream, and add_stream registers it: one    *)
(* registered under the same id is disconnected and parked, and not        *)
(* reported, for the id is still captured.                                 *)
AddStream(id, s) ==
    /\ s \notin Held(streams) \cup garbageStreams
    /\ connected' = (connected \cup {s}) \ Held(At(streams, id))
    /\ streams' = (streams \ At(streams, id)) \cup {[id |-> id, stream |-> s]}
    /\ garbageStreams' = garbageStreams \cup Held(At(streams, id))
    /\ IF At(streams, id) # {}
       THEN /\ garbageListeners' = garbageListeners \cup Held(At(listeners, id))
            /\ listeners' = (listeners \ At(listeners, id)) \cup {[id |-> id, stream |-> s]}
            /\ gcArmed' = TRUE
       ELSE /\ listeners' = listeners \cup {[id |-> id, stream |-> s]}
            /\ UNCHANGED <<garbageListeners, gcArmed>>
    /\ UNCHANGED garbageIds

(* Mutant of Remove: the id is not reported.                               *)
RemoveUnreported(id) ==
    /\ streams' = streams \ At(streams, id)
    /\ connected' = connected \ Held(At(streams, id))
    /\ garbageStreams' = garbageStreams \cup Held(At(streams, id))
    /\ listeners' = listeners \ At(listeners, id)
    /\ garbageListeners' = garbageListeners \cup Held(At(listeners, id))
    /\ gcArmed' = (gcArmed \/ At(streams, id) # {})
    /\ UNCHANGED garbageIds

(* Called for a stop command and from the removed callback of any object.  *)
Remove(id) ==
    /\ streams' = streams \ At(streams, id)
    /\ connected' = connected \ Held(At(streams, id))
    /\ garbageStreams' = garbageStreams \cup Held(At(streams, id))
    /\ listeners' = listeners \ At(listeners, id)
    /\ garbageListeners' = garbageListeners \cup Held(At(listeners, id))
    /\ IF At(streams, id) \cup At(listeners, id) # {}
       THEN garbageIds' = garbageIds \cup {id} /\ gcArmed' = TRUE
       ELSE UNCHANGED <<garbageIds, gcArmed>>

(* Mutant of CollectGarbage: the ids reported are not drained.             *)
CollectGarbageKeepsIds ==
    /\ gcArmed
    /\ gcArmed' = FALSE
    /\ garbageListeners' = {} /\ garbageStreams' = {}
    /\ UNCHANGED <<streams, listeners, connected, garbageIds>>

(* The io watch on gc_fd; the ids it drains are the caller's to report.    *)
CollectGarbage ==
    /\ gcArmed
    /\ gcArmed' = FALSE
    /\ garbageListeners' = {} /\ garbageStreams' = {} /\ garbageIds' = {}
    /\ UNCHANGED <<streams, listeners, connected>>

RegistryNext ==
    \/ \E id \in ObjectId : Remove(id) \/ \E s \in Stream : AddStream(id, s)
    \/ CollectGarbage

RegistrySpec == RegistryInit /\ [][RegistryNext]_registryVars

-----------------------------------------------------------------------------
(* No orphan: a stream the server still has a node for is the registered   *)
(* stream of its id; eviction and removal both disconnect (add_stream's    *)
(* doc on the node "left registered in the graph").                        *)
OnlyRegisteredConnected == connected = Held(streams)

(* A registered stream keeps the listener made with it and no other, so    *)
(* its callbacks run, and those of a stream it replaced are being dropped. *)
StreamsListen == listeners = streams

(* A listener is never held longer than its stream (the Drop impl).        *)
ListenersHaveStreams ==
    Held(listeners) \cup garbageListeners \subseteq Held(streams) \cup garbageStreams

(* Parked objects are never forgotten: while there is garbage, or an id to *)
(* report, the event fd is armed.                                          *)
GarbageIsSignalled ==
    garbageStreams \cup garbageListeners # {} \/ garbageIds # {} => gcArmed

(* Streams, and their listeners, are parked when they are evicted or       *)
(* removed, and freed by a signalled collection only ("It's not safe to    *)
(* delete proxies and listeners during PipeWire callbacks").               *)
DeferredStreams == INSTANCE Deferred WITH
    live <- Held(streams), parked <- garbageStreams, signalled <- gcArmed
DeferredListeners == INSTANCE Deferred WITH
    live <- Held(listeners), parked <- garbageListeners, signalled <- gcArmed

FreedOutsideCallbacks == DeferredStreams!DeferredSpec /\ DeferredListeners!DeferredSpec
=============================================================================
