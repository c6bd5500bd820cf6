------------------------ MODULE StreamRegistryProofs ------------------------
(***************************************************************************)
(* Safety of the stream registry for any object ids and streams, and any   *)
(* order of captures, stops, removals and collections.  The properties are *)
(* inductive together once it is known that no stream is registered twice. *)
(***************************************************************************)
EXTENDS StreamRegistry, TLAPS

RegisteredOnce == \A e, f \in streams : e.stream = f.stream => e = f

RegistryInv ==
    /\ RegistryTypeOK
    /\ RegisteredOnce
    /\ OnlyRegisteredConnected
    /\ StreamsListen
    /\ ListenersHaveStreams
    /\ GarbageIsSignalled

(* What taking the entries of an id away leaves, when streams are not      *)
(* shared between ids.                                                     *)
LEMMA HeldWithout ==
    ASSUME RegisteredOnce, NEW id
    PROVE  Held(streams \ At(streams, id)) = Held(streams) \ Held(At(streams, id))
BY DEF RegisteredOnce, Held, At

LEMMA HeldWith ==
    ASSUME NEW map, NEW id, NEW s
    PROVE  Held(map \cup {[id |-> id, stream |-> s]}) = Held(map) \cup {s}
<1> DEFINE new == [id |-> id, stream |-> s]
<1>1. new.stream = s
  OBVIOUS
<1> HIDE DEF new
<1>2. Held(map \cup {new}) = Held(map) \cup {s}
  BY <1>1 DEF Held
<1> QED
  BY <1>2 DEF new

LEMMA RegistryInitOK == RegistryInit => RegistryInv
BY DEF RegistryInit, RegistryInv, RegistryTypeOK, RegisteredOnce,
       OnlyRegisteredConnected, StreamsListen, ListenersHaveStreams,
       GarbageIsSignalled, Held

LEMMA AddStreamOK ==
    ASSUME RegistryInv, NEW id \in ObjectId, NEW s \in Stream, AddStream(id, s)
    PROVE  RegistryInv'
<1> DEFINE new == [id |-> id, stream |-> s]
           old == At(streams, id)
<1>0. /\ streams \subseteq Entry /\ listeners = streams /\ connected = Held(streams)
      /\ garbageListeners \subseteq Held(streams) \cup garbageStreams
      /\ RegisteredOnce /\ RegistryTypeOK
  BY DEF RegistryInv, RegistryTypeOK, OnlyRegisteredConnected, StreamsListen,
         ListenersHaveStreams
<1>1. new \in Entry /\ old \subseteq Entry /\ Held(old) \subseteq Stream
  BY <1>0 DEF Entry, At, Held
<1>2. streams' = (streams \ old) \cup {new} /\ listeners' = streams'
  BY <1>0 DEF AddStream, At
<1>3. /\ connected' = (connected \cup {s}) \ Held(old)
      /\ garbageStreams' = garbageStreams \cup Held(old)
      /\ garbageListeners' = garbageListeners \cup Held(old)
      /\ garbageIds' = garbageIds /\ s \notin Held(streams)
      /\ gcArmed' = (gcArmed \/ old # {})
  BY <1>0 DEF AddStream, At, Held, RegistryTypeOK
<1>4. Held(streams') = (Held(streams) \ Held(old)) \cup {s}
  <2>1. Held(streams \ old) = Held(streams) \ Held(old)
    BY <1>0, HeldWithout
  <2>2. Held((streams \ old) \cup {new}) = Held(streams \ old) \cup {s}
    BY HeldWith
  <2> QED
    BY <1>2, <2>1, <2>2
<1>5. s \notin Held(old)
  BY <1>3 DEF Held, At
<1>6. RegistryTypeOK'
  BY <1>0, <1>1, <1>2, <1>3 DEF RegistryTypeOK
<1>7. RegisteredOnce'
  BY <1>0, <1>2, <1>3 DEF RegisteredOnce, Held
<1>8. OnlyRegisteredConnected' /\ StreamsListen'
  BY <1>0, <1>2, <1>3, <1>4, <1>5 DEF OnlyRegisteredConnected, StreamsListen
<1>9. ListenersHaveStreams'
  BY <1>0, <1>2, <1>3, <1>4 DEF ListenersHaveStreams
<1>10. GarbageIsSignalled'
  BY <1>3 DEF RegistryInv, GarbageIsSignalled, Held
<1> QED
  BY <1>6, <1>7, <1>8, <1>9, <1>10 DEF RegistryInv

LEMMA RemoveOK ==
    ASSUME RegistryInv, NEW id \in ObjectId, Remove(id)
    PROVE  RegistryInv'
<1> DEFINE old == At(streams, id)
<1>0. /\ streams \subseteq Entry /\ listeners = streams /\ connected = Held(streams)
      /\ garbageListeners \subseteq Held(streams) \cup garbageStreams
      /\ RegisteredOnce /\ RegistryTypeOK
  BY DEF RegistryInv, RegistryTypeOK, OnlyRegisteredConnected, StreamsListen,
         ListenersHaveStreams
<1>1. Held(old) \subseteq Stream
  BY <1>0 DEF Entry, At, Held
<1>2. /\ streams' = streams \ old /\ listeners' = streams'
      /\ connected' = connected \ Held(old)
      /\ garbageStreams' = garbageStreams \cup Held(old)
      /\ garbageListeners' = garbageListeners \cup Held(old)
      /\ garbageIds' = (IF old # {} THEN garbageIds \cup {id} ELSE garbageIds)
      /\ gcArmed' = (gcArmed \/ old # {})
  BY <1>0 DEF Remove, RegistryTypeOK
<1>3. Held(streams') = Held(streams) \ Held(old)
  BY <1>0, <1>2, HeldWithout
<1>4. RegistryTypeOK'
  BY <1>0, <1>1, <1>2 DEF RegistryTypeOK
<1>5. RegisteredOnce'
  BY <1>0, <1>2 DEF RegisteredOnce
<1>6. OnlyRegisteredConnected' /\ StreamsListen'
  BY <1>0, <1>2, <1>3 DEF OnlyRegisteredConnected, StreamsListen
<1>7. ListenersHaveStreams'
  BY <1>0, <1>2, <1>3 DEF ListenersHaveStreams
<1>8. GarbageIsSignalled'
  BY <1>2 DEF RegistryInv, GarbageIsSignalled, Held
<1> QED
  BY <1>4, <1>5, <1>6, <1>7, <1>8 DEF RegistryInv

LEMMA CollectGarbageOK ==
    ASSUME RegistryInv, CollectGarbage
    PROVE  RegistryInv'
BY DEF CollectGarbage, RegistryInv, RegistryTypeOK, RegisteredOnce,
       OnlyRegisteredConnected, StreamsListen, ListenersHaveStreams,
       GarbageIsSignalled

(* RegistryInv is an inductive invariant of the registry. *)
THEOREM RegistryInductive == RegistrySpec => []RegistryInv
<1>1. RegistryInv /\ [RegistryNext]_registryVars => RegistryInv'
  <2> SUFFICES ASSUME RegistryInv, [RegistryNext]_registryVars PROVE RegistryInv'
    OBVIOUS
  <2>1. CASE UNCHANGED registryVars
    BY <2>1 DEF registryVars, RegistryInv, RegistryTypeOK, RegisteredOnce,
                OnlyRegisteredConnected, StreamsListen, ListenersHaveStreams,
                GarbageIsSignalled
  <2> QED
    BY <2>1, AddStreamOK, RemoveOK, CollectGarbageOK DEF RegistryNext
<1> QED
  BY <1>1, RegistryInitOK, PTL DEF RegistrySpec

(* Every step of the registry is a callback or a release of the deferred   *)
(* store, of its streams and of its listeners.                             *)
LEMMA AddStreamDefers ==
    ASSUME RegistryInv, NEW id \in ObjectId, NEW s \in Stream, AddStream(id, s)
    PROVE  DeferredStreams!Callback /\ DeferredListeners!Callback
<1> DEFINE old == At(streams, id)
<1>1. /\ listeners = streams /\ RegisteredOnce /\ gcArmed \in BOOLEAN
      /\ garbageListeners \subseteq Held(streams) \cup garbageStreams
  BY DEF RegistryInv, RegistryTypeOK, StreamsListen, ListenersHaveStreams
<1>2. /\ streams' = (streams \ old) \cup {[id |-> id, stream |-> s]}
      /\ listeners' = streams'
      /\ garbageStreams' = garbageStreams \cup Held(old)
      /\ garbageListeners' = garbageListeners \cup Held(old)
      /\ s \notin Held(streams) \cup garbageStreams
      /\ gcArmed' = (gcArmed \/ old # {})
  BY <1>1 DEF AddStream, At, Held
<1>3. Held(streams') = (Held(streams) \ Held(old)) \cup {s}
  <2>1. Held(streams \ old) = Held(streams) \ Held(old)
    BY <1>1, HeldWithout
  <2>2. Held((streams \ old) \cup {[id |-> id, stream |-> s]}) = Held(streams \ old) \cup {s}
    BY HeldWith
  <2> QED
    BY <1>2, <2>1, <2>2
<1>4. Held(old) \subseteq Held(streams) /\ (Held(old) # {} => old # {})
  BY DEF Held, At
<1>5. Held(streams) \ Held(streams') = Held(old) /\ Held(streams') \ Held(streams) = {s}
  BY <1>2, <1>3, <1>4
<1> HIDE DEF old
<1>6. DeferredStreams!Callback
  BY <1>1, <1>2, <1>4, <1>5 DEF DeferredStreams!Callback
<1>7. DeferredListeners!Callback
  BY <1>1, <1>2, <1>4, <1>5 DEF DeferredListeners!Callback
<1> QED
  BY <1>6, <1>7

LEMMA RemoveDefers ==
    ASSUME RegistryInv, NEW id \in ObjectId, Remove(id)
    PROVE  DeferredStreams!Callback /\ DeferredListeners!Callback
<1> DEFINE old == At(streams, id)
<1>1. listeners = streams /\ RegisteredOnce /\ gcArmed \in BOOLEAN
  BY DEF RegistryInv, RegistryTypeOK, StreamsListen
<1>2. /\ streams' = streams \ old /\ listeners' = streams'
      /\ garbageStreams' = garbageStreams \cup Held(old)
      /\ garbageListeners' = garbageListeners \cup Held(old)
      /\ gcArmed' = (gcArmed \/ old # {})
  BY <1>1 DEF Remove
<1>3. Held(streams') = Held(streams) \ Held(old)
  BY <1>1, <1>2, HeldWithout
<1>4. Held(old) \subseteq Held(streams) /\ (Held(old) # {} => old # {})
  BY DEF Held, At
<1> HIDE DEF old
<1>5. DeferredStreams!Callback
  BY <1>1, <1>2, <1>3, <1>4 DEF DeferredStreams!Callback
<1>6. DeferredListeners!Callback
  BY <1>1, <1>2, <1>3, <1>4 DEF DeferredListeners!Callback
<1> QED
  BY <1>5, <1>6

(* The registry implements the deferred store of its streams and that of   *)
(* its listeners: neither is ever freed in the callback that lets it go.   *)
THEOREM StreamsDeferred == RegistrySpec => FreedOutsideCallbacks
<1>1. RegistryInit => DeferredStreams!DeferredInit /\ DeferredListeners!DeferredInit
  BY DEF RegistryInit, DeferredStreams!DeferredInit, DeferredListeners!DeferredInit, Held
<1>2. RegistryInv /\ [RegistryNext]_registryVars =>
        /\ [DeferredStreams!DeferredNext]_(DeferredStreams!deferredVars)
        /\ [DeferredListeners!DeferredNext]_(DeferredListeners!deferredVars)
  <2> SUFFICES ASSUME RegistryInv, [RegistryNext]_registryVars
               PROVE  /\ [DeferredStreams!DeferredNext]_(DeferredStreams!deferredVars)
                      /\ [DeferredListeners!DeferredNext]_(DeferredListeners!deferredVars)
    OBVIOUS
  <2>1. CASE UNCHANGED registryVars
    BY <2>1 DEF registryVars, Held, DeferredStreams!deferredVars, DeferredListeners!deferredVars
  <2>2. CASE \E id \in ObjectId : Remove(id)
    BY <2>2, RemoveDefers DEF DeferredStreams!DeferredNext, DeferredListeners!DeferredNext
  <2>3. CASE \E id \in ObjectId : \E s \in Stream : AddStream(id, s)
    BY <2>3, AddStreamDefers DEF DeferredStreams!DeferredNext, DeferredListeners!DeferredNext
  <2>4. CASE CollectGarbage
    <3>1. DeferredStreams!Release /\ DeferredListeners!Release
      BY <2>4 DEF CollectGarbage, DeferredStreams!Release, DeferredListeners!Release, Held
    <3> QED
      BY <3>1 DEF DeferredStreams!DeferredNext, DeferredListeners!DeferredNext
  <2> QED
    BY <2>1, <2>2, <2>3, <2>4 DEF RegistryNext
<1> QED
  BY <1>1, <1>2, RegistryInductive, PTL
  DEF RegistrySpec, FreedOutsideCallbacks, DeferredStreams!DeferredSpec, DeferredListeners!DeferredSpec

(* No capture stream is left on the server's graph without the registry    *)
(* knowing it: eviction by a restart disconnects as removal does.          *)
THEOREM NoOrphans == RegistrySpec => []OnlyRegisteredConnected
<1>1. RegistryInv => OnlyRegisteredConnected
  BY DEF RegistryInv
<1> QED
  BY <1>1, RegistryInductive, PTL

(* A registered stream keeps its own listener and only that. *)
THEOREM ListenersPaired == RegistrySpec => []StreamsListen
<1>1. RegistryInv => StreamsListen
  BY DEF RegistryInv
<1> QED
  BY <1>1, RegistryInductive, PTL

(* No listener outlives the stream it listens to. *)
THEOREM ListenersSafe == RegistrySpec => []ListenersHaveStreams
<1>1. RegistryInv => ListenersHaveStreams
  BY DEF RegistryInv
<1> QED
  BY <1>1, RegistryInductive, PTL

(* Garbage never lies uncollected without a signal pending. *)
THEOREM GarbageSignalled == RegistrySpec => []GarbageIsSignalled
<1>1. RegistryInv => GarbageIsSignalled
  BY DEF RegistryInv
<1> QED
  BY <1>1, RegistryInductive, PTL

(* Every deferred store keeps what it promises, so this registry does: while*)
(* a stream or a listener is parked a collection is signalled, and none is  *)
(* both parked and in use.                                                  *)
THEOREM StreamsNotForgotten ==
    RegistrySpec => [](DeferredStreams!NothingForgotten /\ DeferredListeners!NothingForgotten)
<1>1. DeferredStreams!DeferredInit => DeferredStreams!NothingForgotten
  BY DEF DeferredStreams!DeferredInit, DeferredStreams!NothingForgotten
<1>2. /\ DeferredStreams!NothingForgotten
      /\ [DeferredStreams!DeferredNext]_(DeferredStreams!deferredVars)
      => DeferredStreams!NothingForgotten'
  BY DEF DeferredStreams!NothingForgotten, DeferredStreams!DeferredNext, DeferredStreams!Callback,
         DeferredStreams!Release, DeferredStreams!deferredVars
<1>3. DeferredListeners!DeferredInit => DeferredListeners!NothingForgotten
  BY DEF DeferredListeners!DeferredInit, DeferredListeners!NothingForgotten
<1>4. /\ DeferredListeners!NothingForgotten
      /\ [DeferredListeners!DeferredNext]_(DeferredListeners!deferredVars)
      => DeferredListeners!NothingForgotten'
  BY DEF DeferredListeners!NothingForgotten, DeferredListeners!DeferredNext,
         DeferredListeners!Callback, DeferredListeners!Release, DeferredListeners!deferredVars
<1> QED
  BY <1>1, <1>2, <1>3, <1>4, StreamsDeferred, PTL
  DEF FreedOutsideCallbacks, DeferredStreams!DeferredSpec, DeferredListeners!DeferredSpec
=============================================================================
