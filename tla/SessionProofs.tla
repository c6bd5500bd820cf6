--------------------------- MODULE SessionProofs ---------------------------
(***************************************************************************)
(* Safety of the session for any finite sets of ids and proxies, any       *)
(* kinds, and any order in which the server's answers cross the client's   *)
(* requests; and of the registry of proxies it holds, which is proved of   *)
(* first and by itself: that one pairs every listener with a registered    *)
(* proxy under its own id, without which a collection could free a proxy   *)
(* whose listener is still in the map.                                     *)
(*                                                                         *)
(* The session's invariants are about what is in flight.  Base ties every  *)
(* reference to a proxy, wherever it is (the maps, the server, the two     *)
(* queues), to the id and kind its callbacks hold.  InitialOK follows an   *)
(* object of the dump from its global, over the bind and the sync that is  *)
(* sent behind it, to its info in front of the answer.  Kept follows the   *)
(* objects that come and go under an id; it needs the id not to be used    *)
(* for two monitored kinds.                                                *)
(***************************************************************************)
EXTENDS Session, FiniteSetTheorems, TLAPS

-----------------------------------------------------------------------------
(* The registry of proxies, by itself.                                     *)
ListenersRegistered ==
    \A e \in listeners : \E f \in proxies : f.id = e.id /\ f.proxy = e.listener.proxy

RegisteredOnce == \A e, f \in proxies : e.proxy = f.proxy => e = f

ParkedListenersHaveProxies ==
    \A l \in garbageListeners : l.proxy \in Held(proxies) \cup garbageProxies

ProxyInv ==
    /\ ProxyTypeOK
    /\ ListenersRegistered
    /\ RegisteredOnce
    /\ ParkedListenersHaveProxies

LEMMA PairsFacts ==
    ASSUME NEW id \in ObjectId, NEW p \in Proxy
    PROVE  /\ Pair(id, p) \subseteq [id : ObjectId, listener : Listener]
           /\ \A e \in Pair(id, p) : e.id = id /\ e.listener.proxy = p
BY DEF Pair, Listener, Role

(* What taking a set of entries away from the proxies, and the entries     *)
(* under an id from the listeners, leaves of what they hold.               *)
LEMMA HeldWithout ==
    ASSUME RegisteredOnce, NEW old \in SUBSET proxies
    PROVE  Held(proxies \ old) = Held(proxies) \ Held(old)
BY DEF RegisteredOnce, Held

LEMMA ListeningWithout ==
    ASSUME ProxyInv, NEW id
    PROVE  Listening(listeners \ Under(listeners, id))
               = Listening(listeners) \ Listening(Under(listeners, id))
<1>1. ASSUME NEW e \in listeners, NEW f \in listeners, e.listener = f.listener
      PROVE  e.id = f.id
  <2>1. PICK g \in proxies : g.id = e.id /\ g.proxy = e.listener.proxy
    BY DEF ProxyInv, ListenersRegistered
  <2>2. PICK h \in proxies : h.id = f.id /\ h.proxy = f.listener.proxy
    BY DEF ProxyInv, ListenersRegistered
  <2> QED
    BY <1>1, <2>1, <2>2 DEF ProxyInv, RegisteredOnce
<1> QED
  BY <1>1 DEF Listening, Under

LEMMA HeldWith ==
    ASSUME NEW map, NEW new
    PROVE  Held(map \cup {new}) = Held(map) \cup {new.proxy}
BY DEF Held

-----------------------------------------------------------------------------
LEMMA RegisterOK ==
    ASSUME ProxyInv, NEW id \in ObjectId, NEW kind \in Kind, NEW p \in Proxy,
           Register(id, kind, p)
    PROVE  ProxyInv' /\ DeferredProxies!Callback /\ DeferredListeners!Callback
<1> DEFINE new == [id |-> id, kind |-> kind, proxy |-> p]
           old == {e \in proxies : e.id = id /\ e.kind = kind}
           gone == IF old # {} THEN Under(listeners, id) ELSE {}
<1>1. /\ proxies' = (proxies \ old) \cup {new}
      /\ garbageProxies' = garbageProxies \cup Held(old)
      /\ listeners' = (listeners \ gone) \cup Pair(id, p)
      /\ garbageListeners' = garbageListeners \cup Listening(gone)
      /\ gcArmed' = (gcArmed \/ old # {})
      /\ p \notin Held(proxies) \cup garbageProxies
  <2>1. Listening({}) = {} /\ gcArmed \in BOOLEAN
    BY DEF Listening, ProxyInv, ProxyTypeOK
  <2> QED
    BY <2>1 DEF Register
<1>2. new \in Entry /\ new.id = id /\ new.kind = kind /\ new.proxy = p
  BY DEF Entry
<1>3. Held(old) \subseteq Proxy /\ Listening(gone) \subseteq Listener /\ gcArmed \in BOOLEAN
  BY DEF ProxyInv, ProxyTypeOK, Held, Listening, Under, Entry
<1>4. Held(proxies') = (Held(proxies) \ Held(old)) \cup {p}
  <2>1. Held(proxies \ old) = Held(proxies) \ Held(old)
    BY HeldWithout DEF ProxyInv
  <2> HIDE DEF old, new
  <2>2. Held((proxies \ old) \cup {new}) = Held(proxies \ old) \cup {p}
    BY <1>2, HeldWith
  <2> QED
    BY <1>1, <2>1, <2>2
<1>5. ProxyTypeOK'
  BY <1>1, <1>2, <1>3, PairsFacts DEF ProxyInv, ProxyTypeOK
<1>6. RegisteredOnce'
  <2>1. \A e \in proxies : e.proxy # p
    BY <1>1 DEF Held
  <2> HIDE DEF new
  <2> QED
    BY <1>1, <1>2, <2>1 DEF ProxyInv, RegisteredOnce
<1>7. ListenersRegistered'
  <2> SUFFICES ASSUME NEW e \in listeners'
               PROVE  \E f \in proxies' : f.id = e.id /\ f.proxy = e.listener.proxy
    BY DEF ListenersRegistered
  <2>1. CASE e \in Pair(id, p)
    BY <1>1, <1>2, <2>1, PairsFacts
  <2>2. CASE e \in listeners \ gone
    <3>1. PICK f \in proxies : f.id = e.id /\ f.proxy = e.listener.proxy
      BY <2>2 DEF ProxyInv, ListenersRegistered
    <3>2. f \notin old
      BY <2>2, <3>1 DEF Under
    <3> QED
      BY <1>1, <3>1, <3>2
  <2> QED
    BY <1>1, <2>1, <2>2
<1>8. \A l \in Listening(listeners) \cup garbageListeners :
          l.proxy \in Held(proxies) \cup garbageProxies
  BY DEF ProxyInv, ListenersRegistered, ParkedListenersHaveProxies, Listening, Held
<1>9. Listening(gone) \subseteq Listening(listeners) /\ (Listening(gone) # {} => old # {})
  BY DEF Listening, Under
<1>10. ParkedListenersHaveProxies'
  BY <1>1, <1>4, <1>8, <1>9 DEF ParkedListenersHaveProxies
<1>11. Held(old) \subseteq Held(proxies) /\ (Held(old) # {} => old # {})
  BY DEF Held
<1>12. DeferredProxies!Callback
  <2>1. /\ Held(proxies) \ Held(proxies') = Held(old)
        /\ Held(proxies') \ Held(proxies) = {p}
    BY <1>1, <1>4, <1>11
  <2> HIDE DEF old
  <2> QED
    BY <1>1, <1>3, <1>11, <2>1 DEF DeferredProxies!Callback
<1>13. DeferredListeners!Callback
  <2>1. /\ Listening(listeners') = (Listening(listeners) \ Listening(gone))
                                        \cup Listening(Pair(id, p))
    <3>1. Listening(listeners \ gone) = Listening(listeners) \ Listening(gone)
      BY ListeningWithout DEF Listening
    <3>2. Listening((listeners \ gone) \cup Pair(id, p))
              = Listening(listeners \ gone) \cup Listening(Pair(id, p))
      BY DEF Listening
    <3> QED
      BY <1>1, <3>1, <3>2
  <2>2. Listening(Pair(id, p)) \cap (Listening(listeners) \cup garbageListeners) = {}
    BY <1>1, <1>8, PairsFacts DEF Listening
  <2>3. /\ Listening(listeners) \ Listening(listeners') = Listening(gone)
        /\ Listening(listeners') \ Listening(listeners) = Listening(Pair(id, p))
    BY <1>9, <2>1, <2>2
  <2> HIDE DEF gone, old
  <2> QED
    BY <1>1, <1>3, <1>9, <2>2, <2>3 DEF DeferredListeners!Callback
<1> QED
  BY <1>5, <1>6, <1>7, <1>10, <1>12, <1>13 DEF ProxyInv

LEMMA UnregisterOK ==
    ASSUME ProxyInv, NEW id \in ObjectId, Unregister(id)
    PROVE  ProxyInv' /\ DeferredProxies!Callback /\ DeferredListeners!Callback
<1> DEFINE old == Under(proxies, id)
           gone == Under(listeners, id)
<1>1. /\ proxies' = proxies \ old
      /\ garbageProxies' = garbageProxies \cup Held(old)
      /\ listeners' = listeners \ gone
      /\ garbageListeners' = garbageListeners \cup Listening(gone)
      /\ gcArmed' = (gcArmed \/ old # {} \/ gone # {})
  BY DEF Unregister
<1>2. Held(old) \subseteq Proxy /\ Listening(gone) \subseteq Listener /\ gcArmed \in BOOLEAN
  BY DEF ProxyInv, ProxyTypeOK, Held, Listening, Under, Entry
<1>3. Held(proxies') = Held(proxies) \ Held(old)
  BY <1>1, HeldWithout DEF ProxyInv, Under
<1>4. Listening(listeners') = Listening(listeners) \ Listening(gone)
  BY <1>1, ListeningWithout
<1>5. /\ Held(old) \subseteq Held(proxies) /\ (Held(old) # {} => old # {})
      /\ Listening(gone) \subseteq Listening(listeners) /\ (Listening(gone) # {} => gone # {})
  BY DEF Held, Listening, Under
<1>6. ProxyTypeOK' /\ RegisteredOnce'
  BY <1>1, <1>2 DEF ProxyInv, ProxyTypeOK, RegisteredOnce
<1>7. ListenersRegistered'
  BY <1>1 DEF ProxyInv, ListenersRegistered, Under
<1>8. ParkedListenersHaveProxies'
  <2>1. \A l \in Listening(listeners) : l.proxy \in Held(proxies)
    BY DEF ProxyInv, ListenersRegistered, Listening, Held
  <2> QED
    BY <1>1, <1>3, <1>5, <2>1 DEF ProxyInv, ParkedListenersHaveProxies
<1> HIDE DEF old, gone
<1>9. DeferredProxies!Callback
  BY <1>1, <1>2, <1>3, <1>5 DEF DeferredProxies!Callback
<1>10. DeferredListeners!Callback
  BY <1>1, <1>2, <1>4, <1>5 DEF DeferredListeners!Callback
<1> QED
  BY <1>6, <1>7, <1>8, <1>9, <1>10 DEF ProxyInv

LEMMA CollectOK ==
    ASSUME ProxyInv, CollectGarbage
    PROVE  ProxyInv' /\ DeferredProxies!Release /\ DeferredListeners!Release
BY DEF CollectGarbage, ProxyInv, ProxyTypeOK, ListenersRegistered, RegisteredOnce,
       ParkedListenersHaveProxies, DeferredProxies!Release, DeferredListeners!Release,
       Held, Listening

LEMMA ProxyInitOK ==
    ProxyInit => /\ ProxyInv
                 /\ DeferredProxies!DeferredInit /\ DeferredListeners!DeferredInit
BY DEF ProxyInit, ProxyInv, ProxyTypeOK, ListenersRegistered, RegisteredOnce,
       ParkedListenersHaveProxies, DeferredProxies!DeferredInit,
       DeferredListeners!DeferredInit, Held, Listening

LEMMA StepOK ==
    ASSUME ProxyInv, [ProxyNext]_proxyVars
    PROVE  /\ ProxyInv'
           /\ [DeferredProxies!DeferredNext]_(DeferredProxies!deferredVars)
           /\ [DeferredListeners!DeferredNext]_(DeferredListeners!deferredVars)
<1>1. CASE UNCHANGED proxyVars
  BY <1>1 DEF proxyVars, ProxyInv, ProxyTypeOK, ListenersRegistered, RegisteredOnce,
              ParkedListenersHaveProxies, DeferredProxies!deferredVars,
              DeferredListeners!deferredVars, Held, Listening
<1>2. CASE \E id \in ObjectId : Unregister(id)
  BY <1>2, UnregisterOK DEF DeferredProxies!DeferredNext, DeferredListeners!DeferredNext
<1>3. CASE \E id \in ObjectId : \E kind \in Kind, p \in Proxy : Register(id, kind, p)
  BY <1>3, RegisterOK DEF DeferredProxies!DeferredNext, DeferredListeners!DeferredNext
<1>4. CASE CollectGarbage
  BY <1>4, CollectOK DEF DeferredProxies!DeferredNext, DeferredListeners!DeferredNext
<1> QED
  BY <1>1, <1>2, <1>3, <1>4 DEF ProxyNext

(* ProxyInv is an inductive invariant of the proxy registry. *)
THEOREM ProxyInductive == ProxySpec => []ProxyInv
BY ProxyInitOK, StepOK, PTL DEF ProxySpec

(* No listener that can still be called is held longer than its proxy,     *)
(* also when several kinds of object hold one id.                          *)
THEOREM ListenersOutlived == ProxySpec => []ListenersHaveProxies
<1>1. ProxyInv => ListenersHaveProxies
  BY DEF ProxyInv, ListenersRegistered, ParkedListenersHaveProxies,
         ListenersHaveProxies, Listening, Held
<1> QED
  BY <1>1, ProxyInductive, PTL

(* The registry implements the deferred store of its proxies and that of   *)
(* its listeners.                                                          *)
THEOREM ProxiesDeferred == ProxySpec => FreedOutsideCallbacks
BY ProxyInitOK, StepOK, ProxyInductive, PTL
DEF ProxySpec, FreedOutsideCallbacks, DeferredProxies!DeferredSpec,
    DeferredListeners!DeferredSpec

(* Every deferred store keeps what it promises, so this registry does: while*)
(* a proxy or a listener is parked a collection is signalled, and none is   *)
(* both parked and in use.                                                  *)
THEOREM ProxiesNotForgotten ==
    ProxySpec => [](DeferredProxies!NothingForgotten /\ DeferredListeners!NothingForgotten)
<1>1. DeferredProxies!DeferredInit => DeferredProxies!NothingForgotten
  BY DEF DeferredProxies!DeferredInit, DeferredProxies!NothingForgotten
<1>2. /\ DeferredProxies!NothingForgotten
      /\ [DeferredProxies!DeferredNext]_(DeferredProxies!deferredVars)
      => DeferredProxies!NothingForgotten'
  BY DEF DeferredProxies!NothingForgotten, DeferredProxies!DeferredNext, DeferredProxies!Callback,
         DeferredProxies!Release, DeferredProxies!deferredVars
<1>3. DeferredListeners!DeferredInit => DeferredListeners!NothingForgotten
  BY DEF DeferredListeners!DeferredInit, DeferredListeners!NothingForgotten
<1>4. /\ DeferredListeners!NothingForgotten
      /\ [DeferredListeners!DeferredNext]_(DeferredListeners!deferredVars)
      => DeferredListeners!NothingForgotten'
  BY DEF DeferredListeners!NothingForgotten, DeferredListeners!DeferredNext,
         DeferredListeners!Callback, DeferredListeners!Release, DeferredListeners!deferredVars
<1> QED
  BY <1>1, <1>2, <1>3, <1>4, ProxiesDeferred, PTL
  DEF FreedOutsideCallbacks, DeferredProxies!DeferredSpec, DeferredListeners!DeferredSpec

-----------------------------------------------------------------------------
(* The messages of a session.                                              *)

(* An object the App may know, and the messages between server and client. *)
Object == {o \in [id : ObjectId, kind : Kind] : o.kind \in KindsOf[o.id]}

ClientMsg ==
    {m \in [t : {"global"}, id : ObjectId, kind : Kind \cup {"other"}] : m.kind \in KindsOf[m.id]}
        \cup [t : {"info", "removed"}, proxy : Proxy] \cup [t : {"done"}, seq : Nat]

ServerMsg ==
    [t : {"registry"}] \cup [t : {"sync"}, seq : Nat] \cup [t : {"destroy"}, proxy : Proxy]
        \cup [t : {"bind"}, id : ObjectId, kind : Kind, proxy : Proxy]

SessionTypeOK ==
    /\ objects \in [ObjectId -> Kind \cup {"other", None}]
    /\ \A id \in ObjectId : objects[id] \in KindsOf[id] \cup {None}
    /\ resources \subseteq [id : ObjectId, proxy : Proxy]
    /\ initial \subseteq ObjectId
    /\ toClient \in Seq(ClientMsg)
    /\ toServer \in Seq(ServerMsg)
    /\ pending \subseteq Nat /\ syncsDone \in BOOLEAN /\ nextSeq \in Nat
    /\ ready = syncsDone
    /\ mirror \subseteq Object
    /\ closure \in [Proxy -> Object \cup {None}]

(* Where in a queue from the server, and to it, an object or a proxy is    *)
(* named; c is what the callbacks of each proxy hold.                      *)
GlobalsIn(q, id) ==
    {i \in DOMAIN q : q[i].t = "global" /\ q[i].id = id /\ q[i].kind \in Kind}
AboutIn(q, c, t, id) ==
    {i \in DOMAIN q : t \in {"info", "removed"} /\ q[i].t = t /\ c[q[i].proxy].id = id}
ToldIn(q, t, p) == {i \in DOMAIN q : t \in {"info", "removed"} /\ q[i].t = t /\ q[i].proxy = p}
DonesIn(q, s) == {i \in DOMAIN q : q[i].t = "done" /\ q[i].seq = s}
BindsIn(q, p) == {i \in DOMAIN q : q[i].t = "bind" /\ q[i].proxy = p}
SyncsIn(q, s) == {i \in DOMAIN q : q[i].t = "sync" /\ q[i].seq = s}

LEMMA TailFacts ==
    ASSUME NEW S, NEW q \in Seq(S), q # <<>>
    PROVE  /\ Tail(q) \in Seq(S) /\ Head(q) = q[1] /\ 1 \in DOMAIN q /\ q[1] \in S
           /\ DOMAIN q \subseteq Nat \ {0}
           /\ \A i \in Nat : i \in DOMAIN Tail(q) <=> i > 0 /\ i + 1 \in DOMAIN q
           /\ \A i \in DOMAIN Tail(q) : i \in Nat /\ i > 0 /\ Tail(q)[i] = q[i + 1] /\ q[i + 1] \in S
OBVIOUS

LEMMA ConcatFacts ==
    ASSUME NEW S, NEW q \in Seq(S), NEW w \in Seq(S)
    PROVE  /\ q \o w \in Seq(S) /\ Len(q) \in Nat
           /\ DOMAIN q \subseteq Nat \ {0} /\ DOMAIN w \subseteq Nat \ {0}
           /\ DOMAIN (q \o w) \subseteq Nat \ {0}
           /\ \A i \in DOMAIN q : i <= Len(q) /\ i \in DOMAIN (q \o w) /\ (q \o w)[i] = q[i]
           /\ \A i \in DOMAIN w : i + Len(q) \in DOMAIN (q \o w) /\ (q \o w)[i + Len(q)] = w[i]
           /\ \A i \in DOMAIN (q \o w) :
                  i \in DOMAIN q \/ (i > Len(q) /\ i - Len(q) \in DOMAIN w
                                     /\ (q \o w)[i] = w[i - Len(q)])
OBVIOUS

(* What a client's queue names after its head is taken.                    *)
LEMMA PopClient ==
    ASSUME NEW q \in Seq(ClientMsg), q # <<>>
    PROVE  /\ \A id : \A i \in Nat : i \in GlobalsIn(Tail(q), id) <=> i > 0 /\ i + 1 \in GlobalsIn(q, id)
           /\ \A id, c, t : \A i \in Nat :
                  i \in AboutIn(Tail(q), c, t, id) <=> i > 0 /\ i + 1 \in AboutIn(q, c, t, id)
           /\ \A t, p : \A i \in Nat : i \in ToldIn(Tail(q), t, p) <=> i > 0 /\ i + 1 \in ToldIn(q, t, p)
           /\ \A s : \A i \in Nat : i \in DonesIn(Tail(q), s) <=> i > 0 /\ i + 1 \in DonesIn(q, s)
           /\ \A id : GlobalsIn(Tail(q), id) \subseteq Nat \ {0}
           /\ \A id, c, t : AboutIn(Tail(q), c, t, id) \subseteq Nat \ {0}
           /\ \A t, p : ToldIn(Tail(q), t, p) \subseteq Nat \ {0}
           /\ \A s : DonesIn(Tail(q), s) \subseteq Nat \ {0}
<1> DEFINE w == Tail(q)
<1>1. /\ \A i \in Nat : i \in DOMAIN w <=> i > 0 /\ i + 1 \in DOMAIN q
      /\ \A i \in DOMAIN w : i \in Nat /\ i > 0 /\ w[i] = q[i + 1]
  BY TailFacts
<1> HIDE DEF w
<1>2. DOMAIN w \subseteq Nat \ {0}
  BY <1>1
<1>3. \A id : \A i \in Nat : i \in GlobalsIn(w, id) <=> i > 0 /\ i + 1 \in GlobalsIn(q, id)
  BY <1>1 DEF GlobalsIn
<1>4. \A id, c, t : \A i \in Nat :
          i \in AboutIn(w, c, t, id) <=> i > 0 /\ i + 1 \in AboutIn(q, c, t, id)
  BY <1>1 DEF AboutIn
<1>5. \A t, p : \A i \in Nat : i \in ToldIn(w, t, p) <=> i > 0 /\ i + 1 \in ToldIn(q, t, p)
  BY <1>1 DEF ToldIn
<1>6. \A s : \A i \in Nat : i \in DonesIn(w, s) <=> i > 0 /\ i + 1 \in DonesIn(q, s)
  BY <1>1 DEF DonesIn
<1> QED
  BY <1>2, <1>3, <1>4, <1>5, <1>6 DEF GlobalsIn, AboutIn, ToldIn, DonesIn, w

(* And after messages are appended: those named before stay where they     *)
(* are, the others are the new ones, behind them.                          *)
LEMMA GrowClient ==
    ASSUME NEW q \in Seq(ClientMsg), NEW w \in Seq(ClientMsg)
    PROVE  /\ \A id : /\ GlobalsIn(q, id) \subseteq GlobalsIn(q \o w, id)
                      /\ \A i \in GlobalsIn(q \o w, id) :
                             i \in GlobalsIn(q, id) \/ i - Len(q) \in GlobalsIn(w, id)
           /\ \A id, c, t : /\ AboutIn(q, c, t, id) \subseteq AboutIn(q \o w, c, t, id)
                            /\ \A i \in AboutIn(q \o w, c, t, id) :
                                   \/ i \in AboutIn(q, c, t, id)
                                   \/ i - Len(q) \in AboutIn(w, c, t, id)
           /\ \A t, p : ToldIn(q, t, p) \subseteq ToldIn(q \o w, t, p)
           /\ \A s : /\ DonesIn(q, s) \subseteq DonesIn(q \o w, s)
                     /\ \A i \in DonesIn(q \o w, s) :
                            i \in DonesIn(q, s) \/ i - Len(q) \in DonesIn(w, s)
           /\ \A i \in DOMAIN w : i + Len(q) \in DOMAIN (q \o w) /\ (q \o w)[i + Len(q)] = w[i]
           /\ Len(q) \in Nat /\ DOMAIN w \subseteq Nat \ {0}
           /\ \A i \in DOMAIN q : i \in Nat /\ 0 < i /\ i <= Len(q)
           /\ \A i \in DOMAIN (q \o w) : i \in Nat /\ (i \in DOMAIN q \/ i > Len(q))
<1> DEFINE r == q \o w
<1>1. /\ Len(q) \in Nat /\ DOMAIN q \subseteq Nat \ {0} /\ DOMAIN w \subseteq Nat \ {0}
      /\ DOMAIN r \subseteq Nat \ {0}
      /\ \A i \in DOMAIN q : i <= Len(q) /\ i \in DOMAIN r /\ r[i] = q[i]
      /\ \A i \in DOMAIN w : i + Len(q) \in DOMAIN r /\ r[i + Len(q)] = w[i]
      /\ \A i \in DOMAIN r : i \in DOMAIN q \/ (i > Len(q) /\ i - Len(q) \in DOMAIN w
                                                /\ r[i] = w[i - Len(q)])
  BY ConcatFacts
<1> HIDE DEF r
<1>3. \A id : /\ GlobalsIn(q, id) \subseteq GlobalsIn(r, id)
              /\ \A i \in GlobalsIn(r, id) : i \in GlobalsIn(q, id) \/ i - Len(q) \in GlobalsIn(w, id)
  BY <1>1 DEF GlobalsIn
<1>4. \A id, c, t : /\ AboutIn(q, c, t, id) \subseteq AboutIn(r, c, t, id)
                    /\ \A i \in AboutIn(r, c, t, id) :
                           i \in AboutIn(q, c, t, id) \/ i - Len(q) \in AboutIn(w, c, t, id)
  BY <1>1 DEF AboutIn
<1>5. \A t, p : ToldIn(q, t, p) \subseteq ToldIn(r, t, p)
  BY <1>1 DEF ToldIn
<1>6. \A s : /\ DonesIn(q, s) \subseteq DonesIn(r, s)
             /\ \A i \in DonesIn(r, s) : i \in DonesIn(q, s) \/ i - Len(q) \in DonesIn(w, s)
  BY <1>1 DEF DonesIn
<1>7. /\ \A i \in DOMAIN q : i \in Nat /\ 0 < i /\ i <= Len(q)
      /\ \A i \in DOMAIN r : i \in Nat /\ (i \in DOMAIN q \/ i > Len(q))
  BY <1>1
<1> QED
  BY <1>1, <1>3, <1>4, <1>5, <1>6, <1>7 DEF r

LEMMA PopServer ==
    ASSUME NEW q \in Seq(ServerMsg), q # <<>>
    PROVE  /\ \A p : \A i \in Nat : i \in BindsIn(Tail(q), p) <=> i > 0 /\ i + 1 \in BindsIn(q, p)
           /\ \A s : \A i \in Nat : i \in SyncsIn(Tail(q), s) <=> i > 0 /\ i + 1 \in SyncsIn(q, s)
           /\ \A p : BindsIn(Tail(q), p) \subseteq Nat \ {0}
           /\ \A s : SyncsIn(Tail(q), s) \subseteq Nat \ {0}
<1> DEFINE w == Tail(q)
<1>1. /\ \A i \in Nat : i \in DOMAIN w <=> i > 0 /\ i + 1 \in DOMAIN q
      /\ \A i \in DOMAIN w : i \in Nat /\ i > 0 /\ w[i] = q[i + 1]
  BY TailFacts
<1> HIDE DEF w
<1> QED
  BY <1>1 DEF BindsIn, SyncsIn, w

LEMMA GrowServer ==
    ASSUME NEW q \in Seq(ServerMsg), NEW w \in Seq(ServerMsg)
    PROVE  /\ \A p : /\ BindsIn(q, p) \subseteq BindsIn(q \o w, p)
                     /\ \A i \in BindsIn(q \o w, p) : i \in BindsIn(q, p) \/ i - Len(q) \in BindsIn(w, p)
           /\ \A s : /\ SyncsIn(q, s) \subseteq SyncsIn(q \o w, s)
                     /\ \A i \in SyncsIn(q \o w, s) : i \in SyncsIn(q, s) \/ i - Len(q) \in SyncsIn(w, s)
           /\ \A i \in DOMAIN w : i + Len(q) \in DOMAIN (q \o w) /\ (q \o w)[i + Len(q)] = w[i]
           /\ Len(q) \in Nat /\ DOMAIN w \subseteq Nat \ {0}
           /\ \A i \in DOMAIN q : i \in Nat /\ 0 < i /\ i <= Len(q)
           /\ \A i \in DOMAIN (q \o w) : i \in Nat /\ (i \in DOMAIN q \/ i > Len(q))
<1> DEFINE r == q \o w
<1>1. /\ Len(q) \in Nat /\ DOMAIN q \subseteq Nat \ {0} /\ DOMAIN w \subseteq Nat \ {0}
      /\ DOMAIN r \subseteq Nat \ {0}
      /\ \A i \in DOMAIN q : i <= Len(q) /\ i \in DOMAIN r /\ r[i] = q[i]
      /\ \A i \in DOMAIN w : i + Len(q) \in DOMAIN r /\ r[i + Len(q)] = w[i]
      /\ \A i \in DOMAIN r : i \in DOMAIN q \/ (i > Len(q) /\ i - Len(q) \in DOMAIN w
                                                /\ r[i] = w[i - Len(q)])
  BY ConcatFacts
<1> HIDE DEF r
<1>3. \A p : /\ BindsIn(q, p) \subseteq BindsIn(r, p)
             /\ \A i \in BindsIn(r, p) : i \in BindsIn(q, p) \/ i - Len(q) \in BindsIn(w, p)
  BY <1>1 DEF BindsIn
<1>4. \A s : /\ SyncsIn(q, s) \subseteq SyncsIn(r, s)
             /\ \A i \in SyncsIn(r, s) : i \in SyncsIn(q, s) \/ i - Len(q) \in SyncsIn(w, s)
  BY <1>1 DEF SyncsIn
<1>7. /\ \A i \in DOMAIN q : i \in Nat /\ 0 < i /\ i <= Len(q)
      /\ \A i \in DOMAIN r : i \in Nat /\ (i \in DOMAIN q \/ i > Len(q))
  BY <1>1
<1> QED
  BY <1>1, <1>3, <1>4, <1>7 DEF r

LEMMA EmptySeq ==
    ASSUME NEW S, NEW w \in Seq(S), \A i \in DOMAIN w : FALSE
    PROVE  w = <<>>
<1>1. Len(w) \in Nat /\ DOMAIN w = 1 .. Len(w)
  OBVIOUS
<1>2. Len(w) # 0 => 1 \in DOMAIN w
  BY <1>1
<1> QED
  BY <1>2

(* The messages a set of proxies is sent, in any order.                    *)
LEMMA OrderFacts ==
    ASSUME NEW t, NEW ps \in SUBSET Proxy,
           NEW order \in InSomeOrder({[t |-> t, proxy |-> p] : p \in ps})
    PROVE  /\ order \in Seq({[t |-> t, proxy |-> p] : p \in ps})
           /\ \A i \in DOMAIN order : \E p \in ps : order[i] = [t |-> t, proxy |-> p]
           /\ \A p \in ps : \E i \in DOMAIN order : order[i] = [t |-> t, proxy |-> p]
<1> DEFINE set == {[t |-> t, proxy |-> p] : p \in ps}
<1>1. IsFiniteSet(set)
  <2> DEFINE f == [m \in set |-> m.proxy]
  <2>1. f \in Injection(set, Proxy)
    BY DEF Injection, IsInjective
  <2> HIDE DEF set, f
  <2> QED
    BY <2>1, SessionAssumption, FS_Injection
<1>2. Cardinality(set) \in Nat
  <2> HIDE DEF set
  <2> QED
    BY <1>1, FS_CardinalityType
<1>3. /\ order \in [1 .. Cardinality(set) -> set]
      /\ \A m \in set : \E i \in DOMAIN order : order[i] = m
  BY DEF InSomeOrder
<1>4. order \in Seq(set) /\ \A i \in DOMAIN order : order[i] \in set
  <2> DEFINE n == Cardinality(set)
  <2>1. n \in Nat /\ order \in [1 .. n -> set]
    BY <1>2, <1>3
  <2> HIDE DEF n, set
  <2> QED
    BY <2>1
<1>5. /\ \A m \in set : \E p \in ps : m = [t |-> t, proxy |-> p]
      /\ \A p \in ps : [t |-> t, proxy |-> p] \in set
  OBVIOUS
<1> HIDE DEF set
<1>6. /\ \A i \in DOMAIN order : \E p \in ps : order[i] = [t |-> t, proxy |-> p]
      /\ \A p \in ps : \E i \in DOMAIN order : order[i] = [t |-> t, proxy |-> p]
  BY <1>3, <1>4, <1>5
<1> QED
  BY <1>4, <1>6 DEF set

-----------------------------------------------------------------------------
(* The references between the parts of a session.                          *)

(* A proxy stands for the object its callbacks name, wherever it is        *)
(* mentioned: in the maps, on its way to be bound, bound, or told of; and  *)
(* the server is asked to forget none that is still held.                  *)
RefProxies ==
    \A e \in proxies :
        closure[e.proxy] = [id |-> e.id, kind |-> e.kind] /\ closure[e.proxy] \in Object
RefServer ==
    \A i \in DOMAIN toServer :
        /\ toServer[i].t = "bind" =>
               /\ closure[toServer[i].proxy] = [id |-> toServer[i].id, kind |-> toServer[i].kind]
               /\ closure[toServer[i].proxy] \in Object
        /\ toServer[i].t = "destroy" => toServer[i].proxy \notin Held(proxies)
RefResources ==
    \A r \in resources :
        closure[r.proxy] = [id |-> r.id, kind |-> objects[r.id]] /\ closure[r.proxy] \in Object
RefClient ==
    \A i \in DOMAIN toClient :
        toClient[i].t \in {"info", "removed"} => closure[toClient[i].proxy] \in Object

References == RefProxies /\ RefServer /\ RefResources /\ RefClient

(* Until the server has answered the request for the registry, nothing     *)
(* else has been said.                                                     *)
BeforeAnswer ==
    ~Requested =>
        /\ toServer = IF phase = "spawned" THEN <<>> ELSE <<[t |-> "registry"]>>
        /\ toClient = <<>> /\ proxies = {} /\ ~gcArmed /\ resources = {}
        /\ initial = {} /\ mirror = {} /\ ~syncsDone

(* A sync is on its way to the server or its answer is on its way back,    *)
(* once, and its number has been used.                                     *)
SyncsOnce ==
    \A s \in Nat :
        /\ SyncsIn(toServer, s) # {} \/ DonesIn(toClient, s) # {} => s < nextSeq
        /\ \A i, j \in SyncsIn(toServer, s) : i = j
        /\ \A i, j \in DonesIn(toClient, s) : i = j
        /\ SyncsIn(toServer, s) = {} \/ DonesIn(toClient, s) = {}

(* A parked proxy is not registered.                                       *)
ParkedApart == Held(proxies) \cap garbageProxies = {}

Base ==
    /\ SessionTypeOK /\ ProxyInv /\ ParkedApart
    /\ References /\ BeforeAnswer /\ SyncsOnce

LEMMA AppendIsConcat ==
    ASSUME NEW S, NEW q \in Seq(S), NEW m \in S
    PROVE  Append(q, m) = q \o <<m>> /\ <<m>> \in Seq(S) /\ DOMAIN <<m>> = {1} /\ <<m>>[1] = m
OBVIOUS

(* The queues keep their types and references as they are taken from and   *)
(* added to.                                                               *)
LEMMA ClientPops ==
    ASSUME SessionTypeOK, RefClient, toClient # <<>>, toClient' = Tail(toClient),
           \A i \in DOMAIN toClient : toClient[i].t \in {"info", "removed"} =>
               closure'[toClient[i].proxy] = closure[toClient[i].proxy]
    PROVE  toClient' \in Seq(ClientMsg) /\ RefClient'
<1>1. /\ Tail(toClient) \in Seq(ClientMsg)
      /\ \A i \in Nat : i \in DOMAIN Tail(toClient) <=> i > 0 /\ i + 1 \in DOMAIN toClient
      /\ \A i \in DOMAIN Tail(toClient) : i \in Nat /\ Tail(toClient)[i] = toClient[i + 1]
  BY TailFacts DEF SessionTypeOK
<1>2. \A i \in DOMAIN toClient' : i \in Nat /\ i + 1 \in DOMAIN toClient /\ toClient'[i] = toClient[i + 1]
  BY <1>1
<1> QED
  BY <1>1, <1>2 DEF RefClient

LEMMA ClientGrows ==
    ASSUME SessionTypeOK, RefClient, NEW w \in Seq(ClientMsg), toClient' = toClient \o w,
           closure' = closure,
           \A i \in DOMAIN w : w[i].t \in {"info", "removed"} => closure[w[i].proxy] \in Object
    PROVE  toClient' \in Seq(ClientMsg) /\ RefClient'
<1>1. /\ toClient \o w \in Seq(ClientMsg)
      /\ \A i \in DOMAIN toClient : (toClient \o w)[i] = toClient[i]
      /\ \A i \in DOMAIN (toClient \o w) :
             i \in DOMAIN toClient \/ (i - Len(toClient) \in DOMAIN w
                                       /\ (toClient \o w)[i] = w[i - Len(toClient)])
  BY ConcatFacts DEF SessionTypeOK
<1> QED
  BY <1>1 DEF RefClient

LEMMA ServerPops ==
    ASSUME SessionTypeOK, RefServer, toServer # <<>>, toServer' = Tail(toServer),
           closure' = closure, proxies' = proxies
    PROVE  toServer' \in Seq(ServerMsg) /\ RefServer'
<1>1. /\ Tail(toServer) \in Seq(ServerMsg)
      /\ \A i \in Nat : i \in DOMAIN Tail(toServer) <=> i > 0 /\ i + 1 \in DOMAIN toServer
      /\ \A i \in DOMAIN Tail(toServer) : i \in Nat /\ Tail(toServer)[i] = toServer[i + 1]
  BY TailFacts DEF SessionTypeOK
<1>2. \A i \in DOMAIN toServer' : i + 1 \in DOMAIN toServer /\ toServer'[i] = toServer[i + 1]
  BY <1>1
<1> QED
  BY <1>1, <1>2 DEF RefServer, Held

LEMMA ServerGrows ==
    ASSUME SessionTypeOK, RefServer, NEW w \in Seq(ServerMsg), toServer' = toServer \o w,
           \A i \in DOMAIN toServer :
               /\ toServer[i].t = "bind" =>
                      closure'[toServer[i].proxy] = closure[toServer[i].proxy]
               /\ toServer[i].t = "destroy" => toServer[i].proxy \notin Held(proxies'),
           \A i \in DOMAIN w :
               /\ w[i].t = "bind" =>
                      /\ closure'[w[i].proxy] = [id |-> w[i].id, kind |-> w[i].kind]
                      /\ closure'[w[i].proxy] \in Object
               /\ w[i].t = "destroy" => w[i].proxy \notin Held(proxies')
    PROVE  toServer' \in Seq(ServerMsg) /\ RefServer'
<1>1. /\ toServer \o w \in Seq(ServerMsg)
      /\ \A i \in DOMAIN toServer : (toServer \o w)[i] = toServer[i]
      /\ \A i \in DOMAIN (toServer \o w) :
             i \in DOMAIN toServer \/ (i - Len(toServer) \in DOMAIN w
                                       /\ (toServer \o w)[i] = w[i - Len(toServer)])
  BY ConcatFacts DEF SessionTypeOK
<1> QED
  BY <1>1 DEF RefServer, Held

(* Syncs are answered once: their numbers stay apart as the queues move.   *)
LEMMA SyncsClientPops ==
    ASSUME SessionTypeOK, SyncsOnce, toClient # <<>>, toClient' = Tail(toClient),
           toServer' = toServer, nextSeq' = nextSeq
    PROVE  SyncsOnce'
<1>1. \A s : \A i \in Nat : i \in DonesIn(Tail(toClient), s) <=> i > 0 /\ i + 1 \in DonesIn(toClient, s)
  BY PopClient DEF SessionTypeOK
<1>2. \A s : DonesIn(Tail(toClient), s) \subseteq Nat \ {0}
  BY PopClient DEF SessionTypeOK
<1>3. \A s : \A i \in DonesIn(toClient', s) : i \in Nat /\ i + 1 \in DonesIn(toClient, s)
  BY <1>1, <1>2
<1>4. \A s \in Nat : \A i, j \in DonesIn(toClient', s) : i + 1 = j + 1
  BY <1>3 DEF SyncsOnce
<1>5. \A s \in Nat : \A i, j \in DonesIn(toClient', s) : i = j
  BY <1>3, <1>4
<1>6. \A s \in Nat : DonesIn(toClient', s) # {} => DonesIn(toClient, s) # {}
  BY <1>3
<1> QED
  BY <1>5, <1>6 DEF SyncsOnce

LEMMA SyncsClientGrows ==
    ASSUME SessionTypeOK, SyncsOnce, NEW w \in Seq(ClientMsg), toClient' = toClient \o w,
           nextSeq' = nextSeq,
           toServer' = toServer \/ (toServer # <<>> /\ toServer' = Tail(toServer)),
           \A i \in DOMAIN w : w[i].t # "done"
    PROVE  SyncsOnce'
<1>1. \A s : DonesIn(w, s) = {}
  BY DEF DonesIn
<1>2. \A s : DonesIn(toClient', s) = DonesIn(toClient, s)
  <2>1. \A s : /\ DonesIn(toClient, s) \subseteq DonesIn(toClient \o w, s)
               /\ \A i \in DonesIn(toClient \o w, s) :
                      i \in DonesIn(toClient, s) \/ i - Len(toClient) \in DonesIn(w, s)
    BY GrowClient DEF SessionTypeOK
  <2> QED
    BY <1>1, <2>1
<1>3. CASE toServer' = toServer
  BY <1>2, <1>3 DEF SyncsOnce
<1>4. CASE toServer # <<>> /\ toServer' = Tail(toServer)
  <2>1. \A s : \A i \in Nat : i \in SyncsIn(Tail(toServer), s) <=> i > 0 /\ i + 1 \in SyncsIn(toServer, s)
    BY <1>4, PopServer DEF SessionTypeOK
  <2>2. \A s : SyncsIn(Tail(toServer), s) \subseteq Nat \ {0}
    BY <1>4, PopServer DEF SessionTypeOK
  <2>3. \A s : \A i \in SyncsIn(toServer', s) : i \in Nat /\ i + 1 \in SyncsIn(toServer, s)
    BY <1>4, <2>1, <2>2
  <2>4. \A s \in Nat : \A i, j \in SyncsIn(toServer', s) : i + 1 = j + 1
    BY <2>3 DEF SyncsOnce
  <2>5. \A s \in Nat : \A i, j \in SyncsIn(toServer', s) : i = j
    BY <2>3, <2>4
  <2>6. \A s \in Nat : SyncsIn(toServer', s) # {} => SyncsIn(toServer, s) # {}
    BY <2>3
  <2> QED
    BY <1>2, <2>5, <2>6 DEF SyncsOnce
<1> QED
  BY <1>3, <1>4

LEMMA SyncsAnswered ==
    ASSUME SessionTypeOK, SyncsOnce, toServer # <<>>, toServer' = Tail(toServer),
           toServer[1].t = "sync",
           toClient' = Append(toClient, [t |-> "done", seq |-> toServer[1].seq]),
           nextSeq' = nextSeq
    PROVE  SyncsOnce'
<1> DEFINE s0 == toServer[1].seq
           w == <<[t |-> "done", seq |-> s0]>>
<1>1. 1 \in DOMAIN toServer /\ toServer[1] \in ServerMsg /\ s0 \in Nat
  BY TailFacts DEF SessionTypeOK, ServerMsg
<1>2. /\ w \in Seq(ClientMsg) /\ toClient' = toClient \o w
      /\ DOMAIN w = {1} /\ w[1] = [t |-> "done", seq |-> s0]
  <2>1. [t |-> "done", seq |-> s0] \in ClientMsg
    BY <1>1 DEF ClientMsg
  <2> QED
    BY <2>1, AppendIsConcat DEF SessionTypeOK
<1> HIDE DEF w, s0
<1>3. \A s : DonesIn(w, s) = IF s = s0 THEN {1} ELSE {}
  BY <1>2 DEF DonesIn
<1>4. Len(toClient) \in Nat
  BY DEF SessionTypeOK
<1>5. \A s : \A i \in DonesIn(toClient', s) :
          i \in DonesIn(toClient, s) \/ (s = s0 /\ i = Len(toClient) + 1)
  <2>1. \A s : /\ DonesIn(toClient, s) \subseteq DonesIn(toClient \o w, s)
               /\ \A i \in DonesIn(toClient \o w, s) :
                      i \in DonesIn(toClient, s) \/ i - Len(toClient) \in DonesIn(w, s)
    BY <1>2, GrowClient DEF SessionTypeOK
  <2>2. \A i \in DOMAIN (toClient \o w) : i \in Nat
    BY <1>2, GrowClient DEF SessionTypeOK
  <2>3. \A s : DonesIn(toClient \o w, s) \subseteq DOMAIN (toClient \o w)
    BY DEF DonesIn
  <2>4. \A s : \A i \in DonesIn(toClient \o w, s) :
            i \in DonesIn(toClient, s) \/ (s = s0 /\ i - Len(toClient) = 1 /\ i \in Nat)
    BY <1>3, <2>1, <2>2, <2>3
  <2>5. \A i, n \in Nat : i - n = 1 => i = n + 1
    OBVIOUS
  <2>6. toClient' = toClient \o w
    BY <1>2
  <2>7. \A i \in Nat : i - Len(toClient) = 1 => i = Len(toClient) + 1
    BY <1>4, <2>5
  <2> QED
    BY <2>4, <2>6, <2>7
<1>6. /\ \A s : \A i \in Nat : i \in SyncsIn(Tail(toServer), s) <=> i > 0 /\ i + 1 \in SyncsIn(toServer, s)
      /\ \A s : SyncsIn(Tail(toServer), s) \subseteq Nat \ {0}
  BY PopServer DEF SessionTypeOK
<1>7. \A s : \A i \in SyncsIn(toServer', s) : i \in Nat /\ i > 0 /\ i + 1 \in SyncsIn(toServer, s)
  BY <1>6
<1>8. 1 \in SyncsIn(toServer, s0)
  BY <1>1 DEF SyncsIn, s0
<1>9. SyncsIn(toServer', s0) = {} /\ DonesIn(toClient, s0) = {} /\ s0 < nextSeq
  <2>1. \A i \in SyncsIn(toServer', s0) : i + 1 = 1 /\ i \in Nat /\ i > 0
    BY <1>1, <1>7, <1>8 DEF SyncsOnce
  <2> QED
    BY <1>1, <1>8, <2>1 DEF SyncsOnce
<1>10. \A s \in Nat : \A i, j \in SyncsIn(toServer', s) : i = j
  <2>1. \A s \in Nat : \A i, j \in SyncsIn(toServer', s) : i + 1 = j + 1
    BY <1>7 DEF SyncsOnce
  <2> QED
    BY <1>7, <2>1
<1>11. \A s \in Nat : SyncsIn(toServer', s) # {} => SyncsIn(toServer, s) # {}
  BY <1>7
<1> SUFFICES ASSUME NEW s \in Nat
             PROVE  /\ SyncsIn(toServer', s) # {} \/ DonesIn(toClient', s) # {} => s < nextSeq
                    /\ \A i, j \in SyncsIn(toServer', s) : i = j
                    /\ \A i, j \in DonesIn(toClient', s) : i = j
                    /\ SyncsIn(toServer', s) = {} \/ DonesIn(toClient', s) = {}
  BY DEF SyncsOnce
<1>12. CASE s = s0
  BY <1>5, <1>9, <1>12
<1>13. CASE s # s0
  <2>1. DonesIn(toClient', s) \subseteq DonesIn(toClient, s)
    BY <1>5, <1>13
  <2> QED
    BY <1>10, <1>11, <2>1 DEF SyncsOnce
<1> QED
  BY <1>12, <1>13

LEMMA SyncsServerGrows ==
    ASSUME SessionTypeOK, SyncsOnce, NEW w \in Seq(ServerMsg), toServer' = toServer \o w,
           toClient' = toClient \/ (toClient # <<>> /\ toClient' = Tail(toClient)),
           \/ nextSeq' = nextSeq /\ \A i \in DOMAIN w : w[i].t # "sync"
           \/ /\ nextSeq' = nextSeq + 1
              /\ \A s \in Nat : SyncsIn(w, s) = IF s = nextSeq THEN {2} ELSE {}
    PROVE  SyncsOnce'
<1>1. \A s \in Nat : /\ SyncsIn(w, s) # {} => s = nextSeq /\ SyncsIn(w, s) = {2} /\ nextSeq' = nextSeq + 1
                     /\ nextSeq <= nextSeq'
  BY DEF SyncsIn, SessionTypeOK
<1>2. \A s : /\ SyncsIn(toServer, s) \subseteq SyncsIn(toServer \o w, s)
             /\ \A i \in SyncsIn(toServer \o w, s) :
                    i \in SyncsIn(toServer, s) \/ i - Len(toServer) \in SyncsIn(w, s)
  BY GrowServer DEF SessionTypeOK
<1>3. \A s : SyncsIn(toServer \o w, s) \subseteq Nat
  <2>1. \A i \in DOMAIN (toServer \o w) : i \in Nat
    BY GrowServer DEF SessionTypeOK
  <2> QED
    BY <2>1 DEF SyncsIn
<1>4. nextSeq \in Nat /\ nextSeq' \in Nat /\ Len(toServer) \in Nat
  BY DEF SessionTypeOK
<1>5. \A s \in Nat : \A i \in SyncsIn(toServer', s) :
          i \in SyncsIn(toServer, s) \/ (s = nextSeq /\ s < nextSeq' /\ i = Len(toServer) + 2)
  <2>1. \A s \in Nat : \A i \in SyncsIn(toServer', s) :
            i \in SyncsIn(toServer, s) \/ (s = nextSeq /\ s < nextSeq' /\ i - Len(toServer) = 2 /\ i \in Nat)
    BY <1>1, <1>2, <1>3, <1>4
  <2> QED
    BY <1>4, <2>1
<1>6. \A s \in Nat : \A i \in DonesIn(toClient', s), j \in DonesIn(toClient', s) :
          i = j /\ DonesIn(toClient, s) # {}
  <2>1. CASE toClient' = toClient
    BY <2>1 DEF SyncsOnce
  <2>2. CASE toClient # <<>> /\ toClient' = Tail(toClient)
    <3>1. /\ \A s : \A i \in Nat : i \in DonesIn(Tail(toClient), s) <=> i > 0 /\ i + 1 \in DonesIn(toClient, s)
          /\ \A s : DonesIn(Tail(toClient), s) \subseteq Nat \ {0}
      BY <2>2, PopClient DEF SessionTypeOK
    <3>2. \A s : \A i \in DonesIn(toClient', s) : i \in Nat /\ i + 1 \in DonesIn(toClient, s)
      BY <2>2, <3>1
    <3>3. \A s \in Nat : \A i, j \in DonesIn(toClient', s) : i + 1 = j + 1
      BY <3>2 DEF SyncsOnce
    <3> QED
      BY <3>2, <3>3
  <2> QED
    BY <2>1, <2>2
<1>7. \A s \in Nat : SyncsIn(toServer, s) # {} \/ DonesIn(toClient, s) # {} => s < nextSeq
  BY DEF SyncsOnce
<1> SUFFICES ASSUME NEW s \in Nat
             PROVE  /\ SyncsIn(toServer', s) # {} \/ DonesIn(toClient', s) # {} => s < nextSeq'
                    /\ \A i, j \in SyncsIn(toServer', s) : i = j
                    /\ \A i, j \in DonesIn(toClient', s) : i = j
                    /\ SyncsIn(toServer', s) = {} \/ DonesIn(toClient', s) = {}
  BY DEF SyncsOnce
<1>8. CASE s = nextSeq
  <2>1. SyncsIn(toServer, s) = {} /\ DonesIn(toClient, s) = {}
    BY <1>4, <1>7, <1>8
  <2>2. DonesIn(toClient', s) = {}
    BY <1>6, <2>1
  <2>3. \A i, j \in SyncsIn(toServer', s) : i = j
    BY <1>5, <2>1
  <2>4. SyncsIn(toServer', s) # {} => s < nextSeq'
    BY <1>5, <2>1
  <2> QED
    BY <2>2, <2>3, <2>4
<1>9. CASE s # nextSeq
  <2>1. SyncsIn(toServer', s) \subseteq SyncsIn(toServer, s)
    BY <1>5, <1>9
  <2>2. DonesIn(toClient', s) # {} => DonesIn(toClient, s) # {}
    BY <1>6
  <2>3. s < nextSeq => s < nextSeq'
    BY <1>1, <1>4
  <2> QED
    BY <1>6, <1>7, <2>1, <2>2, <2>3 DEF SyncsOnce
<1> QED
  BY <1>8, <1>9

-----------------------------------------------------------------------------
(* Base is kept by the server ...                                          *)

(* What keeps the registry requested and answered.                         *)
LEMMA KeepsRequested ==
    ASSUME SessionTypeOK, Requested, phase' # "spawned",
           \/ toServer' = toServer
           \/ toServer # <<>> /\ toServer' = Tail(toServer)
           \/ \E w \in Seq(ServerMsg) : /\ toServer' = toServer \o w
                                        /\ \A i \in DOMAIN w : w[i].t # "registry"
    PROVE  Requested'
<1>1. CASE toServer' = toServer
  BY <1>1 DEF Requested
<1>2. CASE toServer # <<>> /\ toServer' = Tail(toServer)
  <2>1. \A i \in DOMAIN Tail(toServer) : i \in Nat /\ i > 0 /\ Tail(toServer)[i] = toServer[i + 1]
    BY <1>2, TailFacts DEF SessionTypeOK
  <2>2. \A i \in DOMAIN Tail(toServer) : i + 1 \in DOMAIN toServer
    BY <1>2, <2>1, TailFacts DEF SessionTypeOK
  <2> QED
    BY <1>2, <2>1, <2>2 DEF Requested
<1>3. ASSUME NEW w \in Seq(ServerMsg), toServer' = toServer \o w,
             \A i \in DOMAIN w : w[i].t # "registry"
      PROVE  Requested'
  <2>1. \A i \in DOMAIN (toServer \o w) :
             \/ i \in DOMAIN toServer /\ (toServer \o w)[i] = toServer[i]
             \/ i - Len(toServer) \in DOMAIN w /\ (toServer \o w)[i] = w[i - Len(toServer)]
    BY ConcatFacts DEF SessionTypeOK
  <2> QED
    BY <1>3, <2>1 DEF Requested
<1> QED
  BY <1>1, <1>2, <1>3

LEMMA CallbackApart ==
    ASSUME ParkedApart, DeferredProxies!Callback
    PROVE  ParkedApart'
BY DEF ParkedApart, DeferredProxies!Callback

(* Nothing is dispatched before the registry is answered.                  *)
LEMMA DispatchFacts ==
    ASSUME Base, NEW t, Dispatch(t)
    PROVE  /\ Requested /\ phase = "running" /\ phase' = phase
           /\ toClient # <<>> /\ toClient' = Tail(toClient) /\ Head(toClient) = toClient[1]
           /\ 1 \in DOMAIN toClient /\ toClient[1] \in ClientMsg /\ toClient[1].t = t
           /\ UNCHANGED <<objects, resources, added>>
<1>1. toClient # <<>> /\ toClient' = Tail(toClient) /\ Head(toClient).t = t
  BY DEF Dispatch
<1>2. Requested
  BY <1>1 DEF Base, BeforeAnswer
<1>3. Head(toClient) = toClient[1] /\ 1 \in DOMAIN toClient /\ toClient[1] \in ClientMsg
  BY <1>1, TailFacts DEF Base, SessionTypeOK
<1> QED
  BY <1>1, <1>2, <1>3 DEF Dispatch, ServerIdle

LEMMA ProxyIdle ==
    ASSUME UNCHANGED proxyVars, ProxyInv, ParkedApart
    PROVE  ProxyInv' /\ ParkedApart' /\ Held(proxies') = Held(proxies)
<1>1. ProxyInv'
  BY StepOK
<1> QED
  BY <1>1 DEF proxyVars, ParkedApart, Held

(* Base is inductive, action by action.                                    *)
LEMMA ServerAddsBase ==
    ASSUME Base, NEW id \in ObjectId, NEW kind \in KindsOf[id], ServerAdds(id, kind)
    PROVE  Base'
<1> DEFINE m == [t |-> "global", id |-> id, kind |-> kind]
<1>1. /\ objects[id] = None /\ objects' = [objects EXCEPT ![id] = kind]
      /\ UNCHANGED <<resources, initial, toServer, phase, quit, shutdownArmed, app, pending, syncsDone,
                     nextSeq, ready, mirror, closure, proxyVars>>
      /\ toClient' = IF Requested THEN Append(toClient, m) ELSE toClient
  BY DEF ServerAdds, ClientIdle, threadVars, syncVars
<1>2. kind \in Kind \cup {"other"} /\ m \in ClientMsg
  BY SessionAssumption DEF ClientMsg
<1>3. /\ toClient' \in Seq(ClientMsg) /\ RefClient' /\ SyncsOnce'
  <2>1. CASE Requested
    <3> DEFINE w == <<m>>
    <3>1. Append(toClient, m) = toClient \o w /\ w \in Seq(ClientMsg) /\ DOMAIN w = {1} /\ w[1] = m
      BY <1>2, AppendIsConcat DEF Base, SessionTypeOK
    <3>2. \A i \in DOMAIN w : w[i].t # "done" /\ w[i].t \notin {"info", "removed"}
      BY <3>1
    <3> HIDE DEF w, m
    <3>3. toClient' = toClient \o w /\ closure' = closure /\ toServer' = toServer /\ nextSeq' = nextSeq
      BY <1>1, <2>1, <3>1
    <3>4. SessionTypeOK /\ RefClient /\ SyncsOnce
      BY DEF Base, References
    <3>5. toClient' \in Seq(ClientMsg) /\ RefClient'
      BY <3>1, <3>2, <3>3, <3>4, ClientGrows
    <3>7. \A i \in DOMAIN w : w[i].t # "done"
      BY <3>2
    <3>8. w \in Seq(ClientMsg)
      BY <3>1
    <3>6. SyncsOnce'
      BY <3>3, <3>4, <3>7, <3>8, SyncsClientGrows
    <3> QED
      BY <3>5, <3>6
  <2>2. CASE ~Requested
    BY <1>1, <2>2 DEF Base, References, RefClient, SyncsOnce, SessionTypeOK
  <2> QED
    BY <2>1, <2>2
<1>4. SessionTypeOK'
  BY <1>1, <1>2, <1>3 DEF Base, SessionTypeOK
<1>5. References'
  <2>1. \A r \in resources : r.id # id /\ r.id \in ObjectId
    <3> SUFFICES ASSUME NEW r \in resources PROVE r.id # id /\ r.id \in ObjectId
      OBVIOUS
    <3>1. None \notin Kind
      BY SessionAssumption
    <3>2. r.id \in ObjectId
      BY DEF Base, SessionTypeOK
    <3>3. closure[r.proxy] = [id |-> r.id, kind |-> objects[r.id]] /\ closure[r.proxy].kind \in Kind
      BY DEF Base, References, RefResources, Object
    <3>4. objects[r.id] \in Kind
      BY <3>3
    <3> QED
      BY <1>1, <3>1, <3>2, <3>4
  <2>2. \A r \in resources : objects'[r.id] = objects[r.id]
    BY <1>1, <2>1 DEF Base, SessionTypeOK
  <2> QED
    BY <1>1, <1>3, <2>2 DEF Base, References, RefProxies, RefServer, RefResources, proxyVars, Held
<1>6. BeforeAnswer'
  BY <1>1 DEF Base, BeforeAnswer, Requested, proxyVars
<1> QED
  BY <1>1, <1>3, <1>4, <1>5, <1>6, ProxyIdle DEF Base

LEMMA ServerRemovesFacts ==
    ASSUME Base, NEW id \in ObjectId, ServerRemoves(id)
    PROVE  \E w \in Seq(ClientMsg) :
              /\ toClient' = toClient \o w
              /\ \A i \in DOMAIN w : \E p \in Proxy :
                     w[i] = [t |-> "removed", proxy |-> p] /\ [id |-> id, proxy |-> p] \in resources
              /\ \A p \in Proxy : [id |-> id, proxy |-> p] \in resources =>
                     \E i \in DOMAIN w : w[i] = [t |-> "removed", proxy |-> p]
<1> DEFINE bound == {r \in resources : r.id = id}
           ps == {r.proxy : r \in bound}
           set == {[t |-> "removed", proxy |-> r.proxy] : r \in bound}
<1>1. PICK order \in InSomeOrder(set) : toClient' = toClient \o order
  BY DEF ServerRemoves
<1>2. set = {[t |-> "removed", proxy |-> p] : p \in ps} /\ ps \in SUBSET Proxy
  BY DEF Base, SessionTypeOK
<1>3. \A p : p \in ps <=> p \in Proxy /\ [id |-> id, proxy |-> p] \in resources
  BY DEF Base, SessionTypeOK
<1>4. set \subseteq ClientMsg
  BY <1>2 DEF ClientMsg
<1> HIDE DEF ps
<1>7. order \in InSomeOrder({[t |-> "removed", proxy |-> p] : p \in ps})
  BY <1>2
<1> HIDE DEF set
<1>5. /\ order \in Seq({[t |-> "removed", proxy |-> p] : p \in ps})
      /\ \A i \in DOMAIN order : \E p \in ps : order[i] = [t |-> "removed", proxy |-> p]
      /\ \A p \in ps : \E i \in DOMAIN order : order[i] = [t |-> "removed", proxy |-> p]
  BY <1>2, <1>7, OrderFacts
<1>6. order \in Seq(ClientMsg)
  BY <1>2, <1>4, <1>5
<1> QED
  BY <1>1, <1>3, <1>5, <1>6

LEMMA ServerRemovesBase ==
    ASSUME Base, NEW id \in ObjectId, ServerRemoves(id)
    PROVE  Base'
<1>1. /\ objects[id] # None /\ objects' = [objects EXCEPT ![id] = None]
      /\ resources' = {r \in resources : r.id # id} /\ initial' = initial \ {id}
      /\ UNCHANGED <<toServer, phase, quit, shutdownArmed, app, pending, syncsDone,
                     nextSeq, ready, mirror, closure, proxyVars>>
  BY DEF ServerRemoves, ClientIdle, threadVars, syncVars
<1>2. PICK w \in Seq(ClientMsg) :
              /\ toClient' = toClient \o w
              /\ \A i \in DOMAIN w : \E p \in Proxy :
                     w[i] = [t |-> "removed", proxy |-> p] /\ [id |-> id, proxy |-> p] \in resources
  BY ServerRemovesFacts
<1>3. \A i \in DOMAIN w : w[i].t # "done" /\ closure[w[i].proxy] \in Object
  <2> SUFFICES ASSUME NEW i \in DOMAIN w PROVE w[i].t # "done" /\ closure[w[i].proxy] \in Object
    OBVIOUS
  <2>1. PICK p \in Proxy : w[i] = [t |-> "removed", proxy |-> p] /\ [id |-> id, proxy |-> p] \in resources
    BY <1>2
  <2>2. closure[p] \in Object
    <3>1. \A r \in resources : closure[r.proxy] \in Object
      BY DEF Base, References, RefResources
    <3>2. [id |-> id, proxy |-> p].proxy = p
      OBVIOUS
    <3> QED
      BY <2>1, <3>1, <3>2
  <2> QED
    BY <2>1, <2>2
<1>4. toClient' \in Seq(ClientMsg) /\ RefClient' /\ SyncsOnce'
  <2>1. SessionTypeOK /\ RefClient /\ SyncsOnce
    BY DEF Base, References
  <2>2. closure' = closure /\ toServer' = toServer /\ nextSeq' = nextSeq
    BY <1>1
  <2>3. toClient' \in Seq(ClientMsg) /\ RefClient'
    BY <1>2, <1>3, <2>1, <2>2, ClientGrows
  <2>4. SyncsOnce'
    BY <1>2, <1>3, <2>1, <2>2, SyncsClientGrows
  <2> QED
    BY <2>3, <2>4
<1>5. SessionTypeOK'
  BY <1>1, <1>4 DEF Base, SessionTypeOK
<1>6. References'
  <2>1. \A r \in resources' : r \in resources /\ objects'[r.id] = objects[r.id]
    BY <1>1 DEF Base, SessionTypeOK
  <2> QED
    BY <1>1, <1>4, <2>1 DEF Base, References, RefProxies, RefServer, RefResources, proxyVars, Held
<1>7. BeforeAnswer'
  <2> SUFFICES ASSUME ~Requested' PROVE BeforeAnswer'
    BY DEF BeforeAnswer
  <2>1. ~Requested
    BY <1>1 DEF Requested
  <2>2. resources = {} /\ toClient = <<>> /\ resources' = {} /\ initial' = {}
    BY <1>1, <2>1 DEF Base, BeforeAnswer
  <2>3. w = <<>>
    <3>1. \A i \in DOMAIN w : FALSE
      BY <1>2, <2>2
    <3> QED
      BY <3>1, EmptySeq
  <2>4. <<>> \o <<>> = <<>>
    OBVIOUS
  <2>5. toClient' = <<>>
    BY <1>2, <2>2, <2>3, <2>4
  <2> QED
    BY <1>1, <2>1, <2>2, <2>5 DEF Base, BeforeAnswer, proxyVars
<1> QED
  BY <1>1, <1>4, <1>5, <1>6, <1>7, ProxyIdle DEF Base

(* The server's answer to each message, one at a time.                     *)
AnswersRegistry ==
    /\ toServer # <<>> /\ toServer[1].t = "registry"
    /\ initial' = {id \in ObjectId : objects[id] \in Kind}
    /\ UNCHANGED resources
    /\ \E order \in InSomeOrder({[t |-> "global", id |-> id, kind |-> objects[id]] :
                                        id \in {o \in ObjectId : objects[o] # None}}) :
                toClient' = toClient \o order
AnswersBind(m) ==
    /\ toServer[1] = m /\ m.t = "bind" /\ objects[m.id] = m.kind
    /\ resources' = resources \cup {[id |-> m.id, proxy |-> m.proxy]}
    /\ toClient' = Append(toClient, [t |-> "info", proxy |-> m.proxy])
    /\ UNCHANGED initial
RefusesBind(m) ==
    /\ toServer[1] = m /\ m.t = "bind" /\ objects[m.id] # m.kind
    /\ toClient' = Append(toClient, [t |-> "removed", proxy |-> m.proxy])
    /\ UNCHANGED <<resources, initial>>
AnswersSync ==
    /\ toServer[1].t = "sync"
    /\ toClient' = Append(toClient, [t |-> "done", seq |-> toServer[1].seq])
    /\ UNCHANGED <<resources, initial>>
Destroys(p) ==
    /\ toServer[1].t = "destroy" /\ toServer[1].proxy = p
    /\ resources' = {r \in resources : r.proxy # p}
    /\ UNCHANGED <<initial, toClient>>

LEMMA AnswerFacts ==
    ASSUME Base, ServerAnswers
    PROVE  /\ toServer # <<>> /\ toServer' = Tail(toServer) /\ 1 \in DOMAIN toServer
           /\ toServer[1] \in ServerMsg
           /\ UNCHANGED <<objects, phase, quit, shutdownArmed, app, pending, syncsDone,
                          nextSeq, ready, mirror, closure, proxyVars>>
           /\ \/ AnswersRegistry
              \/ \E id \in ObjectId, kind \in Kind, p \in Proxy :
                    \E m \in {[t |-> "bind", id |-> id, kind |-> kind, proxy |-> p]} :
                        AnswersBind(m) \/ RefusesBind(m)
              \/ AnswersSync
              \/ \E p \in Proxy : Destroys(p)
           /\ AnswersRegistry <=> ~Requested
<1>1. toServer # <<>> /\ toServer' = Tail(toServer)
  BY DEF ServerAnswers
<1>2. Head(toServer) = toServer[1] /\ 1 \in DOMAIN toServer /\ toServer[1] \in ServerMsg
  BY <1>1, TailFacts DEF Base, SessionTypeOK
<1>3. UNCHANGED <<objects, phase, quit, shutdownArmed, app, pending, syncsDone,
                  nextSeq, ready, mirror, closure, proxyVars>>
  BY DEF ServerAnswers, ClientIdle, threadVars, syncVars
<1>4. \/ AnswersRegistry
      \/ \E m \in {toServer[1]} : AnswersBind(m) \/ RefusesBind(m)
      \/ AnswersSync
      \/ toServer[1].t = "destroy" /\ Destroys(toServer[1].proxy)
  BY <1>1, <1>2 DEF ServerAnswers, AnswersRegistry, AnswersBind, RefusesBind, AnswersSync, Destroys
<1>5. toServer[1].t = "bind" =>
          \E id \in ObjectId, kind \in Kind, p \in Proxy :
              toServer[1] = [t |-> "bind", id |-> id, kind |-> kind, proxy |-> p]
  BY <1>2 DEF ServerMsg
<1>6. toServer[1].t = "destroy" => toServer[1].proxy \in Proxy
  BY <1>2 DEF ServerMsg
<1>7. toServer[1].t = "registry" <=> ~Requested
  <2>1. toServer[1].t = "registry" => ~Requested
    BY <1>2 DEF Requested
  <2>2. ~Requested => toServer = <<[t |-> "registry"]>>
    BY <1>1 DEF Base, BeforeAnswer
  <2> QED
    BY <2>1, <2>2
<1>8. \/ AnswersRegistry
      \/ \E id \in ObjectId, kind \in Kind, p \in Proxy :
            \E m \in {[t |-> "bind", id |-> id, kind |-> kind, proxy |-> p]} :
                AnswersBind(m) \/ RefusesBind(m)
      \/ AnswersSync
      \/ \E p \in Proxy : Destroys(p)
  <2>1. CASE \E m \in {toServer[1]} : AnswersBind(m) \/ RefusesBind(m)
    <3>1. toServer[1].t = "bind"
      BY <2>1 DEF AnswersBind, RefusesBind
    <3>2. PICK id \in ObjectId, kind \in Kind, p \in Proxy :
              toServer[1] = [t |-> "bind", id |-> id, kind |-> kind, proxy |-> p]
      BY <1>5, <3>1
    <3>3. \E m \in {[t |-> "bind", id |-> id, kind |-> kind, proxy |-> p]} :
              AnswersBind(m) \/ RefusesBind(m)
      BY <2>1, <3>2
    <3> QED
      BY <3>3
  <2>2. CASE toServer[1].t = "destroy" /\ Destroys(toServer[1].proxy)
    BY <1>6, <2>2
  <2> QED
    BY <1>4, <2>1, <2>2
<1>9. AnswersRegistry => ~Requested
  BY <1>7 DEF AnswersRegistry
<1>10. ~Requested => AnswersRegistry
  BY <1>4, <1>7 DEF AnswersBind, RefusesBind, AnswersSync
<1> QED
  BY <1>1, <1>2, <1>3, <1>8, <1>9, <1>10

-----------------------------------------------------------------------------
(* ... by its answers and by connecting ...                                *)

(* The answer to the registry request: a global for each object, in some   *)
(* order.                                                                  *)
LEMMA DumpFacts ==
    ASSUME Base, AnswersRegistry, ~Requested
    PROVE  \E w \in Seq(ClientMsg) :
              /\ toClient = <<>> /\ toClient' = toClient \o w /\ toClient' = w
              /\ \A i \in DOMAIN w : \E id \in ObjectId :
                     objects[id] # None /\ w[i] = [t |-> "global", id |-> id, kind |-> objects[id]]
              /\ \A id \in ObjectId : objects[id] # None =>
                     \E i \in DOMAIN w : w[i] = [t |-> "global", id |-> id, kind |-> objects[id]]
<1> DEFINE there == {o \in ObjectId : objects[o] # None}
           set == {[t |-> "global", id |-> id, kind |-> objects[id]] : id \in there}
<1>1. PICK order \in InSomeOrder(set) : toClient' = toClient \o order
  BY DEF AnswersRegistry
<1>2. toClient = <<>>
  BY DEF Base, BeforeAnswer
<1>3. IsFiniteSet(set)
  <2> DEFINE f == [m \in set |-> m.id]
  <2>1. f \in Injection(set, ObjectId)
    BY DEF Injection, IsInjective
  <2> HIDE DEF set, f
  <2> QED
    BY <2>1, SessionAssumption, FS_Injection
<1>4. set \subseteq ClientMsg
  <2> SUFFICES ASSUME NEW id \in there PROVE [t |-> "global", id |-> id, kind |-> objects[id]] \in ClientMsg
    OBVIOUS
  <2>1. objects[id] \in KindsOf[id] /\ objects[id] \in Kind \cup {"other"}
    BY SessionAssumption DEF Base, SessionTypeOK
  <2> QED
    BY <2>1 DEF ClientMsg
<1>5. /\ \A m \in set : \E id \in ObjectId :
             objects[id] # None /\ m = [t |-> "global", id |-> id, kind |-> objects[id]]
      /\ \A id \in ObjectId : objects[id] # None =>
             [t |-> "global", id |-> id, kind |-> objects[id]] \in set
  OBVIOUS
<1> HIDE DEF set
<1>6. /\ order \in [1 .. Cardinality(set) -> set]
      /\ \A m \in set : \E i \in DOMAIN order : order[i] = m
  BY DEF InSomeOrder
<1>7. order \in Seq(set) /\ \A i \in DOMAIN order : order[i] \in set
  <2> DEFINE n == Cardinality(set)
  <2>1. n \in Nat /\ order \in [1 .. n -> set]
    BY <1>3, <1>6, FS_CardinalityType
  <2> HIDE DEF n
  <2> QED
    BY <2>1
<1>8. order \in Seq(ClientMsg)
  BY <1>4, <1>7
<1>9. <<>> \o order = order
  BY <1>8
<1>10. \A i \in DOMAIN order : \E id \in ObjectId :
             objects[id] # None /\ order[i] = [t |-> "global", id |-> id, kind |-> objects[id]]
  BY <1>5, <1>7
<1>11. \A id \in ObjectId : objects[id] # None =>
             \E i \in DOMAIN order : order[i] = [t |-> "global", id |-> id, kind |-> objects[id]]
  BY <1>5, <1>6
<1> QED
  BY <1>1, <1>2, <1>8, <1>9, <1>10, <1>11

LEMMA AnswerBase ==
    ASSUME Base, ServerAnswers
    PROVE  Base'
<1>1. /\ toServer # <<>> /\ toServer' = Tail(toServer) /\ 1 \in DOMAIN toServer
      /\ toServer[1] \in ServerMsg
      /\ UNCHANGED <<objects, phase, quit, shutdownArmed, app, pending, syncsDone,
                     nextSeq, ready, mirror, closure, proxyVars>>
      /\ AnswersRegistry <=> ~Requested
  BY AnswerFacts
<1>2. SessionTypeOK /\ RefClient /\ RefServer /\ SyncsOnce /\ closure' = closure /\ proxies' = proxies
      /\ nextSeq' = nextSeq /\ RefProxies
  BY <1>1 DEF Base, References, proxyVars
<1>3. toServer' \in Seq(ServerMsg) /\ RefServer'
  BY <1>1, <1>2, ServerPops
<1>4. ProxyInv' /\ ParkedApart' /\ RefProxies'
  BY <1>1, <1>2, ProxyIdle DEF Base, RefProxies
<1>5. ASSUME NEW w \in Seq(ClientMsg), toClient' = toClient \o w,
             \A i \in DOMAIN w : w[i].t # "done",
             \A i \in DOMAIN w : w[i].t \in {"info", "removed"} => closure[w[i].proxy] \in Object
      PROVE  toClient' \in Seq(ClientMsg) /\ RefClient' /\ SyncsOnce'
  <2>1. toClient' \in Seq(ClientMsg) /\ RefClient'
    BY <1>2, <1>5, ClientGrows
  <2>2. SyncsOnce'
    BY <1>1, <1>2, <1>5, SyncsClientGrows
  <2> QED
    BY <2>1, <2>2
<1>6. Requested => BeforeAnswer'
  <2>1. Requested => Requested'
    <3>1. Requested => phase' # "spawned"
      BY <1>1 DEF Requested
    <3> QED
      BY <1>1, <1>2, <3>1, KeepsRequested
  <2> QED
    BY <2>1 DEF BeforeAnswer
<1>7. CASE AnswersRegistry
  <2>1. PICK w \in Seq(ClientMsg) :
              /\ toClient = <<>> /\ toClient' = toClient \o w
              /\ \A i \in DOMAIN w : \E id \in ObjectId :
                     w[i] = [t |-> "global", id |-> id, kind |-> objects[id]]
    BY <1>1, <1>7, DumpFacts
  <2>2. \A i \in DOMAIN w : w[i].t # "done" /\ w[i].t \notin {"info", "removed"}
    BY <2>1
  <2>3. toClient' \in Seq(ClientMsg) /\ RefClient' /\ SyncsOnce'
    BY <1>5, <2>1, <2>2
  <2>4. resources' = resources /\ initial' \subseteq ObjectId
    BY <1>7 DEF AnswersRegistry
  <2>5. Requested'
    <3>1. phase # "spawned" /\ toServer = <<[t |-> "registry"]>>
      BY <1>1, <1>7 DEF Base, BeforeAnswer
    <3>2. Tail(<<[t |-> "registry"]>>) = <<>> /\ DOMAIN <<>> = {}
      OBVIOUS
    <3>3. toServer' = <<>> /\ phase' = phase
      BY <1>1, <3>1, <3>2
    <3> QED
      BY <3>1, <3>2, <3>3 DEF Requested
  <2>6. SessionTypeOK'
    BY <1>1, <1>2, <1>3, <2>3, <2>4 DEF SessionTypeOK
  <2>7. RefResources'
    BY <1>1, <2>4 DEF Base, References, RefResources
  <2> QED
    BY <1>3, <1>4, <2>3, <2>5, <2>6, <2>7 DEF Base, References, BeforeAnswer
<1>8. ASSUME NEW id \in ObjectId, NEW kind \in Kind, NEW p \in Proxy,
             NEW m, m = [t |-> "bind", id |-> id, kind |-> kind, proxy |-> p],
             AnswersBind(m) \/ RefusesBind(m)
      PROVE  Base'
  <2>1. closure[p] = [id |-> id, kind |-> kind] /\ closure[p] \in Object
    <3>1. toServer[1] = m
      BY <1>8 DEF AnswersBind, RefusesBind
    <3>2. closure[m.proxy] = [id |-> m.id, kind |-> m.kind] /\ closure[m.proxy] \in Object
      BY <1>1, <1>2, <1>8, <3>1 DEF RefServer
    <3> QED
      BY <1>8, <3>2
  <2>2. \E t \in {"info", "removed"} : toClient' = Append(toClient, [t |-> t, proxy |-> p])
    BY <1>8 DEF AnswersBind, RefusesBind
  <2>3. toClient' \in Seq(ClientMsg) /\ RefClient' /\ SyncsOnce'
    <3>1. PICK t \in {"info", "removed"} : toClient' = Append(toClient, [t |-> t, proxy |-> p])
      BY <2>2
    <3> DEFINE n == [t |-> t, proxy |-> p]
               w == <<n>>
    <3>2. n \in ClientMsg
      BY <3>1 DEF ClientMsg
    <3>3. toClient' = toClient \o w /\ w \in Seq(ClientMsg) /\ DOMAIN w = {1} /\ w[1] = n
      BY <1>2, <3>1, <3>2, AppendIsConcat DEF SessionTypeOK
    <3>4. \A i \in DOMAIN w : w[i].t # "done" /\ closure[w[i].proxy] \in Object
      BY <2>1, <3>1, <3>3
    <3> HIDE DEF w
    <3> QED
      BY <1>5, <3>3, <3>4
  <2>4. Requested
    <3>1. ~AnswersRegistry
      BY <1>8 DEF AnswersBind, RefusesBind, AnswersRegistry
    <3> QED
      BY <1>1, <3>1
  <2>5. /\ initial' = initial
        /\ resources' = resources \/ (/\ resources' = resources \cup {[id |-> id, proxy |-> p]}
                                      /\ objects[id] = kind)
    BY <1>8 DEF AnswersBind, RefusesBind
  <2>6. SessionTypeOK'
    BY <1>1, <1>2, <1>3, <2>3, <2>5 DEF SessionTypeOK
  <2>7. RefResources'
    <3>1. RefResources /\ objects' = objects
      BY <1>1 DEF Base, References
    <3> QED
      BY <1>2, <2>1, <2>5, <3>1 DEF RefResources
  <2> QED
    BY <1>3, <1>4, <1>6, <2>3, <2>4, <2>6, <2>7 DEF Base, References
<1>9. CASE AnswersSync
  <2>1. toServer[1].seq \in Nat /\ toServer[1].t = "sync"
    BY <1>1, <1>9 DEF ServerMsg, AnswersSync
  <2> DEFINE n == [t |-> "done", seq |-> toServer[1].seq]
             w == <<n>>
  <2>2. n \in ClientMsg
    BY <2>1 DEF ClientMsg
  <2>3. toClient' = Append(toClient, n)
    BY <1>9 DEF AnswersSync
  <2>4. toClient' = toClient \o w /\ w \in Seq(ClientMsg) /\ DOMAIN w = {1} /\ w[1] = n
    BY <1>2, <2>2, <2>3, AppendIsConcat DEF SessionTypeOK
  <2>5. \A i \in DOMAIN w : w[i].t \notin {"info", "removed"}
    BY <2>4
  <2>6. toClient' \in Seq(ClientMsg) /\ RefClient'
    <3> HIDE DEF w
    <3> QED
      BY <1>2, <2>4, <2>5, ClientGrows
  <2>7. SyncsOnce'
    BY <1>1, <1>2, <2>1, <2>3, SyncsAnswered
  <2>8. resources' = resources /\ initial' = initial
    BY <1>9 DEF AnswersSync
  <2>9. Requested
    BY <1>1, <2>1 DEF AnswersRegistry
  <2>10. SessionTypeOK'
    BY <1>1, <1>2, <1>3, <2>6, <2>8 DEF SessionTypeOK
  <2>11. RefResources'
    BY <1>1, <2>8 DEF Base, References, RefResources
  <2> QED
    BY <1>3, <1>4, <1>6, <2>6, <2>7, <2>9, <2>10, <2>11 DEF Base, References
<1>10. ASSUME NEW p \in Proxy, Destroys(p) PROVE Base'
  <2>1. toClient' = toClient /\ initial' = initial /\ resources' \subseteq resources
    BY <1>10 DEF Destroys
  <2>2. RefClient'
    BY <1>2, <2>1 DEF RefClient
  <2>3. SyncsOnce'
    <3> DEFINE w == <<>>
    <3>1. w \in Seq(ClientMsg) /\ toClient' = toClient \o w /\ \A i \in DOMAIN w : w[i].t # "done"
      BY <1>2, <2>1 DEF SessionTypeOK
    <3> HIDE DEF w
    <3> QED
      BY <1>1, <1>2, <3>1, SyncsClientGrows
  <2>4. Requested
    BY <1>1, <1>10 DEF AnswersRegistry, Destroys
  <2>5. SessionTypeOK'
    BY <1>1, <1>2, <1>3, <2>1 DEF SessionTypeOK
  <2>6. RefResources'
    BY <1>1, <1>2, <2>1 DEF Base, References, RefResources
  <2> QED
    BY <1>3, <1>4, <1>6, <2>2, <2>3, <2>4, <2>5, <2>6 DEF Base, References
<1> QED
  BY <1>7, <1>8, <1>9, <1>10, AnswerFacts

LEMMA ConnectBase ==
    ASSUME Base, Connect
    PROVE  Base'
<1>1. /\ phase = "spawned"
      /\ \/ phase' = "running" /\ toServer' = <<[t |-> "registry"]>>
         \/ phase' = "ended" /\ toServer' = toServer
      /\ UNCHANGED <<objects, resources, initial, toClient, pending, syncsDone, nextSeq, ready, mirror,
                     closure, proxyVars>>
  BY DEF Connect, ServerIdle, syncVars
<1>2. ~Requested /\ toServer = <<>>
  BY <1>1 DEF Requested, Base, BeforeAnswer
<1>3. toServer' \in Seq(ServerMsg)
  <2>1. [t |-> "registry"] \in ServerMsg
    BY DEF ServerMsg
  <2>2. \A m \in ServerMsg : <<m>> \in Seq(ServerMsg)
    OBVIOUS
  <2> QED
    BY <1>1, <2>1, <2>2 DEF Base, SessionTypeOK
<1>4. SessionTypeOK'
  BY <1>1, <1>3 DEF Base, SessionTypeOK
<1>5. DOMAIN <<[t |-> "registry"]>> = {1} /\ DOMAIN <<>> = {}
  OBVIOUS
<1>6. \A i \in DOMAIN toServer' : toServer'[i].t = "registry"
  BY <1>1, <1>2, <1>5
<1>7. \A s : SyncsIn(toServer', s) = {} /\ SyncsIn(toServer, s) = {}
  BY <1>2, <1>5, <1>6 DEF SyncsIn
<1>8. SyncsOnce'
  BY <1>1, <1>7 DEF Base, SyncsOnce
<1>9. References'
  BY <1>1, <1>6 DEF Base, References, RefProxies, RefServer, RefResources, RefClient, proxyVars, Held
<1>10. BeforeAnswer'
  <2>1. CASE phase' = "running" /\ toServer' = <<[t |-> "registry"]>>
    BY <1>1, <1>2, <2>1 DEF Base, BeforeAnswer, proxyVars
  <2>2. CASE phase' = "ended" /\ toServer' = toServer
    <3>1. Requested'
      BY <1>2, <1>5, <2>2 DEF Requested
    <3> QED
      BY <3>1 DEF BeforeAnswer
  <2> QED
    BY <1>1, <2>1, <2>2
<1> QED
  BY <1>1, <1>4, <1>8, <1>9, <1>10, ProxyIdle DEF Base

-----------------------------------------------------------------------------
(* ... and by the callbacks.                                               *)

(* A global of a monitored kind: its proxy is one nothing refers to yet.   *)
Bound(id, kind, p) ==
    LET bind == [t |-> "bind", id |-> id, kind |-> kind, proxy |-> p] IN
    /\ Register(id, kind, p)
    /\ closure' = [closure EXCEPT ![p] = [id |-> id, kind |-> kind]]
    /\ toServer' = toServer \o (IF syncsDone THEN <<bind>>
                                ELSE <<bind, [t |-> "sync", seq |-> nextSeq]>>)
    /\ pending' = IF syncsDone THEN pending ELSE pending \cup {nextSeq}
    /\ nextSeq' = IF syncsDone THEN nextSeq ELSE nextSeq + 1

LEMMA GlobalFacts ==
    ASSUME Base, Global
    PROVE  /\ Dispatch("global")
           /\ UNCHANGED <<quit, initial, ready, mirror, syncsDone>>
           /\ \/ /\ toClient[1].kind \notin Kind
                 /\ UNCHANGED <<toServer, pending, nextSeq, closure, proxyVars>>
              \/ \E id \in ObjectId, kind \in Kind, p \in FreeProxies :
                    /\ toClient[1] = [t |-> "global", id |-> id, kind |-> kind]
                    /\ kind \in KindsOf[id] /\ Bound(id, kind, p)
<1>1. Dispatch("global") /\ UNCHANGED <<quit, initial, ready, mirror>>
  BY DEF Global
<1>2. toClient[1] \in ClientMsg /\ toClient[1].t = "global" /\ Head(toClient) = toClient[1]
  BY <1>1, DispatchFacts
<1>3. \E id \in ObjectId, kind \in Kind \cup {"other"} :
          toClient[1] = [t |-> "global", id |-> id, kind |-> kind] /\ kind \in KindsOf[id]
  BY <1>2 DEF ClientMsg
<1>4. syncsDone' = syncsDone
  BY DEF Global, SyncGlobal, syncVars
<1>5. CASE toClient[1].kind \notin Kind
  BY <1>1, <1>2, <1>4, <1>5 DEF Global, syncVars
<1>6. CASE toClient[1].kind \in Kind
  <2>1. PICK id \in ObjectId, kind \in Kind :
          toClient[1] = [t |-> "global", id |-> id, kind |-> kind] /\ kind \in KindsOf[id]
    BY <1>3, <1>6
  <2>2. PICK p \in FreeProxies :
            /\ Register(toClient[1].id, toClient[1].kind, p)
            /\ closure' = [closure EXCEPT ![p] = [id |-> toClient[1].id, kind |-> toClient[1].kind]]
            /\ SyncGlobal([t |-> "bind", id |-> toClient[1].id, kind |-> toClient[1].kind, proxy |-> p])
    BY <1>2, <1>6 DEF Global
  <2>3. toClient[1].id = id /\ toClient[1].kind = kind
    BY <2>1
  <2>4. Bound(id, kind, p)
    BY <2>2, <2>3 DEF Bound, SyncGlobal
  <2> QED
    BY <1>1, <1>4, <2>1, <2>4
<1> QED
  BY <1>5, <1>6

(* Nothing refers to a proxy that is free.                                 *)
LEMMA FreeFacts ==
    ASSUME Base, NEW p \in FreeProxies
    PROVE  /\ p \in Proxy /\ p \notin Held(proxies) /\ p \notin garbageProxies
           /\ \A e \in proxies : e.proxy # p
           /\ \A r \in resources : r.proxy # p
           /\ \A i \in DOMAIN toClient : toClient[i].t \in {"info", "removed"} => toClient[i].proxy # p
           /\ \A i \in DOMAIN toServer : toServer[i].t \in {"bind", "destroy"} => toServer[i].proxy # p
<1>1. p \notin Held(proxies)
  BY DEF FreeProxies
<1> QED
  BY <1>1 DEF FreeProxies, Held

(* What a binding sends.                                                   *)
LEMMA BoundSends ==
    ASSUME Base, NEW id \in ObjectId, NEW kind \in Kind, NEW p \in Proxy, Bound(id, kind, p)
    PROVE  \E w \in Seq(ServerMsg) :
              /\ toServer' = toServer \o w
              /\ 1 \in DOMAIN w /\ w[1] = [t |-> "bind", id |-> id, kind |-> kind, proxy |-> p]
              /\ \A i \in DOMAIN w : w[i] = w[1] \/ (i = 2 /\ w[i] = [t |-> "sync", seq |-> nextSeq])
              /\ syncsDone => DOMAIN w = {1} /\ nextSeq' = nextSeq
              /\ ~syncsDone => DOMAIN w = {1, 2} /\ w[2] = [t |-> "sync", seq |-> nextSeq]
                               /\ nextSeq' = nextSeq + 1
<1> DEFINE bind == [t |-> "bind", id |-> id, kind |-> kind, proxy |-> p]
           sync == [t |-> "sync", seq |-> nextSeq]
<1>1. bind \in ServerMsg /\ sync \in ServerMsg
  BY DEF ServerMsg, Base, SessionTypeOK
<1>2. /\ toServer' = toServer \o (IF syncsDone THEN <<bind>> ELSE <<bind, sync>>)
      /\ nextSeq' = IF syncsDone THEN nextSeq ELSE nextSeq + 1
  BY DEF Bound
<1> HIDE DEF bind, sync
<1>3. /\ <<bind>> \in Seq(ServerMsg) /\ <<bind, sync>> \in Seq(ServerMsg)
      /\ DOMAIN <<bind>> = {1} /\ <<bind>>[1] = bind
      /\ DOMAIN <<bind, sync>> = {1, 2} /\ <<bind, sync>>[1] = bind /\ <<bind, sync>>[2] = sync
  BY <1>1
<1>4. CASE syncsDone
  BY <1>2, <1>3, <1>4 DEF bind, sync
<1>5. CASE ~syncsDone
  BY <1>2, <1>3, <1>5 DEF bind, sync
<1> QED
  BY <1>4, <1>5

LEMMA GlobalBase ==
    ASSUME Base, Global
    PROVE  Base'
<1>1. /\ Dispatch("global") /\ UNCHANGED <<quit, initial, ready, mirror, syncsDone>>
  BY GlobalFacts
<1>2. /\ Requested /\ phase' = phase /\ toClient # <<>> /\ toClient' = Tail(toClient)
      /\ UNCHANGED <<objects, resources, added>> /\ phase # "spawned"
  BY <1>1, DispatchFacts
<1>3. SessionTypeOK /\ RefClient /\ RefServer /\ SyncsOnce /\ RefProxies /\ RefResources
      /\ ProxyInv /\ ParkedApart
  BY DEF Base, References
<1>4. CASE UNCHANGED <<toServer, pending, nextSeq, closure, proxyVars>>
  <2>1. toClient' \in Seq(ClientMsg) /\ RefClient'
    BY <1>2, <1>3, <1>4, ClientPops
  <2>2. SyncsOnce'
    BY <1>2, <1>3, <1>4, SyncsClientPops
  <2>3. SessionTypeOK'
    BY <1>1, <1>2, <1>3, <1>4, <2>1 DEF SessionTypeOK
  <2>4. References'
    BY <1>2, <1>3, <1>4, <2>1 DEF References, RefProxies, RefServer, RefResources, proxyVars, Held
  <2>5. BeforeAnswer'
    BY <1>2, <1>4 DEF BeforeAnswer, Requested
  <2> QED
    BY <1>3, <1>4, <2>2, <2>3, <2>4, <2>5, ProxyIdle DEF Base
<1>5. ASSUME NEW id \in ObjectId, NEW kind \in Kind, NEW p \in FreeProxies,
             kind \in KindsOf[id], Bound(id, kind, p)
      PROVE  Base'
  <2>1. /\ p \in Proxy /\ p \notin Held(proxies)
        /\ \A e \in proxies : e.proxy # p
        /\ \A r \in resources : r.proxy # p
        /\ \A i \in DOMAIN toClient : toClient[i].t \in {"info", "removed"} => toClient[i].proxy # p
        /\ \A i \in DOMAIN toServer : toServer[i].t \in {"bind", "destroy"} => toServer[i].proxy # p
    BY FreeFacts
  <2>2. /\ Register(id, kind, p) /\ closure' = [closure EXCEPT ![p] = [id |-> id, kind |-> kind]]
        /\ pending' = IF syncsDone THEN pending ELSE pending \cup {nextSeq}
    BY <1>5 DEF Bound
  <2>3. [id |-> id, kind |-> kind] \in Object
    BY <1>5 DEF Object
  <2>4. /\ closure' \in [Proxy -> Object \cup {None}] /\ closure'[p] = [id |-> id, kind |-> kind]
        /\ \A q \in Proxy : q # p => closure'[q] = closure[q]
    BY <1>3, <2>1, <2>2, <2>3 DEF SessionTypeOK
  <2>5. ProxyInv' /\ ParkedApart'
    BY <1>3, <2>1, <2>2, RegisterOK, CallbackApart
  <2>6. \A i \in DOMAIN toClient : toClient[i].t \in {"info", "removed"} =>
            toClient[i].proxy \in Proxy /\ closure'[toClient[i].proxy] = closure[toClient[i].proxy]
    <3>1. \A i \in DOMAIN toClient : toClient[i].t \in {"info", "removed"} => toClient[i].proxy \in Proxy
      BY <1>3 DEF SessionTypeOK, ClientMsg
    <3> QED
      BY <2>1, <2>4, <3>1
  <2>7. toClient' \in Seq(ClientMsg) /\ RefClient'
    BY <1>2, <1>3, <2>6, ClientPops
  <2>8. PICK w \in Seq(ServerMsg) :
              /\ toServer' = toServer \o w
              /\ w[1] = [t |-> "bind", id |-> id, kind |-> kind, proxy |-> p]
              /\ \A i \in DOMAIN w : w[i] = w[1] \/ (i = 2 /\ w[i] = [t |-> "sync", seq |-> nextSeq])
              /\ 1 \in DOMAIN w
              /\ syncsDone => DOMAIN w = {1} /\ nextSeq' = nextSeq
              /\ ~syncsDone => DOMAIN w = {1, 2} /\ w[2] = [t |-> "sync", seq |-> nextSeq]
                               /\ nextSeq' = nextSeq + 1
    BY <1>5, <2>1, BoundSends
  <2>9. Held(proxies') \subseteq Held(proxies) \cup {p}
    BY <2>2 DEF Register, Held
  <2>10. toServer' \in Seq(ServerMsg) /\ RefServer'
    <3>1. \A i \in DOMAIN toServer :
               /\ toServer[i].t = "bind" => closure'[toServer[i].proxy] = closure[toServer[i].proxy]
               /\ toServer[i].t = "destroy" => toServer[i].proxy \notin Held(proxies')
      <4>1. \A i \in DOMAIN toServer : toServer[i].t = "bind" => toServer[i].proxy \in Proxy
        BY <1>3 DEF SessionTypeOK, ServerMsg
      <4> QED
        BY <1>3, <2>1, <2>4, <2>9, <4>1 DEF RefServer
    <3>2. \A i \in DOMAIN w :
               /\ w[i].t = "bind" =>
                      /\ closure'[w[i].proxy] = [id |-> w[i].id, kind |-> w[i].kind]
                      /\ closure'[w[i].proxy] \in Object
               /\ w[i].t = "destroy" => w[i].proxy \notin Held(proxies')
      BY <2>3, <2>4, <2>8
    <3> QED
      BY <1>3, <2>8, <3>1, <3>2, ServerGrows
  <2>11. SyncsOnce'
    <3>1. \/ nextSeq' = nextSeq /\ \A i \in DOMAIN w : w[i].t # "sync"
          \/ /\ nextSeq' = nextSeq + 1
             /\ \A s \in Nat : SyncsIn(w, s) = IF s = nextSeq THEN {2} ELSE {}
      BY <2>8 DEF SyncsIn
    <3> QED
      BY <1>2, <1>3, <2>8, <3>1, SyncsServerGrows
  <2>12. nextSeq' \in Nat /\ pending' \subseteq Nat
    BY <1>3, <2>2, <2>8 DEF SessionTypeOK
  <2>13. SessionTypeOK'
    BY <1>1, <1>2, <1>3, <2>4, <2>7, <2>10, <2>12 DEF SessionTypeOK
  <2>14. RefProxies'
    <3>1. \A e \in proxies' :
              e = [id |-> id, kind |-> kind, proxy |-> p] \/ e \in proxies
      BY <2>2 DEF Register
    <3>2. \A e \in proxies : e.proxy \in Proxy
      BY <1>3 DEF ProxyInv, ProxyTypeOK, Entry
    <3>3. \A e \in proxies : closure'[e.proxy] = closure[e.proxy]
      BY <2>1, <2>4, <3>2
    <3> SUFFICES ASSUME NEW e \in proxies'
                 PROVE  closure'[e.proxy] = [id |-> e.id, kind |-> e.kind] /\ closure'[e.proxy] \in Object
      BY DEF RefProxies
    <3>4. CASE e = [id |-> id, kind |-> kind, proxy |-> p]
      <4>1. e.id = id /\ e.kind = kind /\ e.proxy = p
        BY <3>4
      <4> QED
        BY <2>3, <2>4, <4>1
    <3>5. CASE e \in proxies
      BY <1>3, <3>3, <3>5 DEF RefProxies
    <3> QED
      BY <3>1, <3>4, <3>5
  <2>15. RefResources'
    <3>1. \A r \in resources : r.proxy \in Proxy
      BY <1>3 DEF SessionTypeOK
    <3> QED
      BY <1>2, <1>3, <2>1, <2>4, <3>1 DEF RefResources
  <2>16. BeforeAnswer'
    <3>1. \A i \in DOMAIN w : w[i].t # "registry"
      BY <2>8
    <3>2. Requested'
      BY <1>2, <1>3, <2>8, <3>1, KeepsRequested
    <3> QED
      BY <3>2 DEF BeforeAnswer
  <2> QED
    BY <2>5, <2>7, <2>10, <2>11, <2>13, <2>14, <2>15, <2>16 DEF Base, References
<1> QED
  BY <1>4, <1>5, GlobalFacts

(* The callbacks that send nothing to the server and bind nothing.         *)
LEMMA QuietBase ==
    ASSUME Base, NEW t, Dispatch(t),
           toServer' = toServer, nextSeq' = nextSeq, closure' = closure,
           ProxyInv', ParkedApart', proxies' \subseteq proxies,
           pending' \subseteq Nat, syncsDone' \in BOOLEAN, ready' = syncsDone',
           initial' \subseteq ObjectId, mirror' \subseteq Object
    PROVE  Base'
<1>1. /\ Requested /\ phase' = phase /\ toClient # <<>> /\ toClient' = Tail(toClient)
      /\ objects' = objects /\ resources' = resources
  BY DispatchFacts
<1>2. SessionTypeOK /\ RefClient /\ RefServer /\ SyncsOnce /\ RefProxies /\ RefResources
  BY DEF Base, References
<1>3. toClient' \in Seq(ClientMsg) /\ RefClient'
  BY <1>1, <1>2, ClientPops
<1>4. SyncsOnce'
  BY <1>1, <1>2, SyncsClientPops
<1>5. SessionTypeOK'
  BY <1>1, <1>2, <1>3 DEF SessionTypeOK
<1>6. References'
  <2>1. Held(proxies') \subseteq Held(proxies)
    BY DEF Held
  <2> QED
    BY <1>1, <1>2, <1>3, <2>1 DEF References, RefProxies, RefServer, RefResources
<1>7. BeforeAnswer'
  BY <1>1 DEF BeforeAnswer, Requested
<1> QED
  BY <1>4, <1>5, <1>6, <1>7 DEF Base

LEMMA InfoBase ==
    ASSUME Base, Info
    PROVE  Base'
<1>1. /\ Dispatch("info") /\ UNCHANGED <<toServer, pending, syncsDone, nextSeq, ready, closure, proxyVars>>
  BY DEF Info, syncVars
<1>2. closure[toClient[1].proxy] \in Object
  BY <1>1, DispatchFacts DEF Base, References, RefClient
<1>3. Head(toClient) = toClient[1]
  BY <1>1, DispatchFacts
<1>4. initial' \subseteq ObjectId /\ mirror' \subseteq Object
  BY <1>2, <1>3 DEF Info, Base, SessionTypeOK
<1>5. ProxyInv' /\ ParkedApart' /\ proxies' = proxies
  BY <1>1, ProxyIdle DEF Base, proxyVars
<1>6. pending' \subseteq Nat /\ syncsDone' \in BOOLEAN /\ ready' = syncsDone'
  BY <1>1 DEF Base, SessionTypeOK
<1> QED
  BY <1>1, <1>4, <1>5, <1>6, QuietBase

LEMMA RemovedBase ==
    ASSUME Base, Removed
    PROVE  Base'
<1>1. /\ Dispatch("removed")
      /\ UNCHANGED <<initial, toServer, pending, syncsDone, nextSeq, ready, closure>>
  BY DEF Removed, syncVars
<1>2. closure[toClient[1].proxy] \in Object /\ Head(toClient) = toClient[1]
  BY <1>1, DispatchFacts DEF Base, References, RefClient
<1>3. \/ mirror' = mirror /\ UNCHANGED proxyVars
      \/ mirror' \subseteq mirror /\ Unregister(closure[toClient[1].proxy].id)
  BY <1>2 DEF Removed
<1>4. closure[toClient[1].proxy].id \in ObjectId
  BY <1>2 DEF Object
<1>5. ProxyInv' /\ ParkedApart' /\ proxies' \subseteq proxies
  <2>1. CASE UNCHANGED proxyVars
    BY <2>1, ProxyIdle DEF Base, proxyVars
  <2>2. CASE Unregister(closure[toClient[1].proxy].id)
    <3>1. proxies' \subseteq proxies
      BY <2>2 DEF Unregister
    <3> QED
      BY <1>4, <2>2, <3>1, UnregisterOK, CallbackApart DEF Base
  <2> QED
    BY <1>3, <2>1, <2>2
<1>6. /\ pending' \subseteq Nat /\ syncsDone' \in BOOLEAN /\ ready' = syncsDone'
      /\ initial' \subseteq ObjectId /\ mirror' \subseteq Object
  BY <1>1, <1>3 DEF Base, SessionTypeOK
<1> QED
  BY <1>1, <1>5, <1>6, QuietBase

LEMMA DoneBase ==
    ASSUME Base, Done
    PROVE  Base'
<1>1. /\ Dispatch("done") /\ UNCHANGED <<initial, toServer, nextSeq, mirror, closure, proxyVars>>
  BY DEF Done
<1>2. pending' \subseteq Nat /\ syncsDone' \in BOOLEAN /\ ready' = syncsDone'
  BY DEF Done, Base, SessionTypeOK
<1>3. ProxyInv' /\ ParkedApart' /\ proxies' = proxies
  BY <1>1, ProxyIdle DEF Base, proxyVars
<1>4. initial' \subseteq ObjectId /\ mirror' \subseteq Object
  BY <1>1 DEF Base, SessionTypeOK
<1> QED
  BY <1>1, <1>2, <1>3, <1>4, QuietBase

(* A collection tells the server to forget proxies that were parked.       *)
LEMMA CollectFacts ==
    ASSUME Base, CollectProxies
    PROVE  /\ CollectGarbage /\ phase = "running" /\ Requested
           /\ UNCHANGED <<phase, objects, resources, initial, toClient, pending, syncsDone, nextSeq,
                          ready, mirror, closure>>
           /\ \E w \in Seq(ServerMsg) :
                 /\ toServer' = toServer \o w
                 /\ \A i \in DOMAIN w : \E p \in garbageProxies : w[i] = [t |-> "destroy", proxy |-> p]
<1>1. /\ CollectGarbage /\ phase = "running"
      /\ UNCHANGED <<phase, objects, resources, initial, toClient, pending, syncsDone, nextSeq,
                     ready, mirror, closure>>
  BY DEF CollectProxies, ServerIdle, threadVars, syncVars
<1>2. Requested
  BY <1>1 DEF Base, BeforeAnswer, CollectGarbage
<1> DEFINE ps == {q \in garbageProxies : \/ \E r \in resources : r.proxy = q
                                         \/ \E i \in DOMAIN toServer :
                                              toServer[i].t = "bind" /\ toServer[i].proxy = q}
<1>3. PICK w \in InSomeOrder({[t |-> "destroy", proxy |-> p] : p \in ps}) : toServer' = toServer \o w
  BY DEF CollectProxies
<1>4. ps \in SUBSET Proxy /\ ps \subseteq garbageProxies
  BY DEF Base, ProxyInv, ProxyTypeOK
<1> HIDE DEF ps
<1>5. /\ w \in Seq({[t |-> "destroy", proxy |-> p] : p \in ps})
      /\ \A i \in DOMAIN w : \E p \in ps : w[i] = [t |-> "destroy", proxy |-> p]
  BY <1>3, <1>4, OrderFacts
<1>6. {[t |-> "destroy", proxy |-> p] : p \in ps} \subseteq ServerMsg
  BY <1>4 DEF ServerMsg
<1>7. w \in Seq(ServerMsg)
  BY <1>5, <1>6
<1> QED
  BY <1>1, <1>2, <1>3, <1>4, <1>5, <1>7

LEMMA CollectBase ==
    ASSUME Base, CollectProxies
    PROVE  Base'
<1>1. /\ CollectGarbage /\ phase = "running" /\ Requested
      /\ UNCHANGED <<phase, objects, resources, initial, toClient, pending, syncsDone, nextSeq,
                     ready, mirror, closure>>
  BY CollectFacts
<1>2. PICK w \in Seq(ServerMsg) :
          /\ toServer' = toServer \o w
          /\ \A i \in DOMAIN w : \E p \in garbageProxies : w[i] = [t |-> "destroy", proxy |-> p]
  BY CollectFacts
<1>3. SessionTypeOK /\ RefClient /\ RefServer /\ SyncsOnce /\ RefProxies /\ RefResources
      /\ ProxyInv /\ ParkedApart
  BY DEF Base, References
<1>4. proxies' = proxies /\ Held(proxies') = Held(proxies) /\ garbageProxies' = {}
  BY <1>1 DEF CollectGarbage, Held
<1>5. ProxyInv' /\ ParkedApart'
  BY <1>1, <1>3, <1>4, CollectOK DEF ParkedApart
<1>6. \A i \in DOMAIN w : /\ w[i].t \notin {"bind", "sync", "registry"}
                          /\ w[i].proxy \notin Held(proxies')
  BY <1>2, <1>3, <1>4 DEF ParkedApart
<1>7. toServer' \in Seq(ServerMsg) /\ RefServer'
  <2>1. \A i \in DOMAIN toServer :
             /\ toServer[i].t = "bind" => closure'[toServer[i].proxy] = closure[toServer[i].proxy]
             /\ toServer[i].t = "destroy" => toServer[i].proxy \notin Held(proxies')
    BY <1>1, <1>3, <1>4 DEF RefServer
  <2>2. \A i \in DOMAIN w :
             /\ w[i].t = "bind" =>
                    /\ closure'[w[i].proxy] = [id |-> w[i].id, kind |-> w[i].kind]
                    /\ closure'[w[i].proxy] \in Object
             /\ w[i].t = "destroy" => w[i].proxy \notin Held(proxies')
    BY <1>6
  <2> QED
    BY <1>2, <1>3, <2>1, <2>2, ServerGrows
<1>8. SyncsOnce'
  <2>1. nextSeq' = nextSeq /\ toClient' = toClient /\ \A i \in DOMAIN w : w[i].t # "sync"
    BY <1>1, <1>6
  <2> QED
    BY <1>2, <1>3, <2>1, SyncsServerGrows
<1>9. SessionTypeOK'
  BY <1>1, <1>3, <1>7 DEF SessionTypeOK
<1>10. RefProxies' /\ RefResources' /\ RefClient'
  BY <1>1, <1>3, <1>4 DEF RefProxies, RefResources, RefClient
<1>11. BeforeAnswer'
  <2>1. Requested'
    BY <1>1, <1>2, <1>3, <1>6, KeepsRequested
  <2> QED
    BY <2>1 DEF BeforeAnswer
<1> QED
  BY <1>5, <1>7, <1>8, <1>9, <1>10, <1>11 DEF Base, References

(* Everything else leaves the server, its messages and the registries be.  *)
Elsewhere ==
    /\ UNCHANGED <<objects, resources, initial, toClient, toServer, pending, syncsDone, nextSeq,
                   ready, mirror, closure, proxyVars>>
    /\ phase' = phase \/ (phase = "running" /\ phase' = "ended")

LEMMA ElsewhereBase ==
    ASSUME Base, Elsewhere
    PROVE  Base'
<1>1. SessionTypeOK' /\ References'
  BY DEF Elsewhere, Base, SessionTypeOK, References, RefProxies, RefServer, RefResources, RefClient,
         proxyVars, Held
<1>2. SyncsOnce'
  BY DEF Elsewhere, Base, SyncsOnce
<1>3. BeforeAnswer'
  BY DEF Elsewhere, Base, BeforeAnswer, Requested, proxyVars
<1>4. ProxyInv' /\ ParkedApart'
  BY ProxyIdle DEF Elsewhere, Base
<1> QED
  BY <1>1, <1>2, <1>3, <1>4 DEF Base

(* The steps of the session, one by one.                                   *)
LEMMA SessionSteps ==
    ASSUME [SessionNext]_sessionVars
    PROVE  \/ \E id \in ObjectId : ServerRemoves(id)
           \/ \E id \in ObjectId : \E kind \in KindsOf[id] : ServerAdds(id, kind)
           \/ ServerAnswers \/ Connect \/ Global \/ Info \/ Removed \/ Done \/ CollectProxies
           \/ Elsewhere
<1>1. ShutdownWatch \/ ThreadEnds \/ AppExits \/ DropSession \/ Join \/ UNCHANGED sessionVars => Elsewhere
  BY DEF Elsewhere, ShutdownWatch, ThreadEnds, AppExits, DropSession, Join, sessionVars, serverVars,
         syncVars, threadVars
<1> QED
  BY <1>1 DEF SessionNext, ServerNext, LoopNext, Callbacks, AppNext

LEMMA BaseOK ==
    ASSUME Base, [SessionNext]_sessionVars
    PROVE  Base'
BY SessionSteps, ServerRemovesBase, ServerAddsBase, AnswerBase, ConnectBase, GlobalBase, InfoBase,
   RemovedBase, DoneBase, CollectBase, ElsewhereBase

LEMMA BaseInit == SessionInit => Base
<1> SUFFICES ASSUME SessionInit PROVE Base
  OBVIOUS
<1>1. ProxyInv /\ ParkedApart
  BY ProxyInitOK DEF SessionInit, ParkedApart, ProxyInit, Held
<1>2. SessionTypeOK
  <2>1. closure \in [Proxy -> Object \cup {None}]
    BY DEF SessionInit
  <2>2. <<>> \in Seq(ClientMsg) /\ <<>> \in Seq(ServerMsg)
    OBVIOUS
  <2>3. objects \in [ObjectId -> Kind \cup {"other", None}]
        /\ \A id \in ObjectId : objects[id] \in KindsOf[id] \cup {None}
    BY DEF SessionInit
  <2> QED
    BY <2>1, <2>2, <2>3 DEF SessionInit, SessionTypeOK
<1>3. \A i \in DOMAIN toServer : FALSE
  BY DEF SessionInit
<1>4. \A i \in DOMAIN toClient : FALSE
  BY DEF SessionInit
<1>5. References
  BY <1>3, <1>4 DEF SessionInit, ProxyInit, References, RefProxies, RefServer, RefResources, RefClient
<1>6. SyncsOnce
  BY <1>3, <1>4 DEF SyncsOnce, SyncsIn, DonesIn
<1>7. BeforeAnswer
  BY DEF SessionInit, ProxyInit, BeforeAnswer
<1> QED
  BY <1>1, <1>2, <1>5, <1>6, <1>7 DEF Base

-----------------------------------------------------------------------------
(* The objects of the dump, until they are reported.                       *)

(* An object of the dump that has not been reported: its global is on its  *)
(* way, before any answer to a sync, or its info is, before the answer to  *)
(* a sync that is pending.                                                 *)
Named(id) ==
    /\ GlobalsIn(toClient, id) # {}
    /\ \A i \in GlobalsIn(toClient, id), s \in Nat : \A j \in DonesIn(toClient, s) : i < j

Awaited(id, p, s) ==
    /\ [id |-> id, listener |-> [proxy |-> p, role |-> "object"]] \in listeners
    /\ \/ \E i \in BindsIn(toServer, p), j \in SyncsIn(toServer, s) : i < j
       \/ \E i \in ToldIn(toClient, "info", p) :
             SyncsIn(toServer, s) # {} \/ \E j \in DonesIn(toClient, s) : i < j

(* Nothing in flight takes the object for one of another kind.             *)
OneKindNamed(id) ==
    /\ \A i \in DOMAIN toClient :
           toClient[i].t = "global" /\ toClient[i].id = id => toClient[i].kind = objects[id]
    /\ \A i \in DOMAIN toServer :
           toServer[i].t = "bind" /\ toServer[i].id = id => toServer[i].kind = objects[id]

(* It has not been removed either, nor has Ready been sent.                *)
Unreported(id) ==
    /\ objects[id] \in Kind /\ ~syncsDone
    /\ OneKindNamed(id)
    /\ AboutIn(toClient, closure, "removed", id) = {}
    /\ \/ Named(id)
       \/ /\ GlobalsIn(toClient, id) = {}
          /\ \E e \in Under(proxies, id), s \in pending : Awaited(id, e.proxy, s)

InitialOK == \A id \in initial : Unreported(id)

(* What is awaited stays so while the queues move, as long as neither its  *)
(* bind, its sync nor its info is what is taken.                           *)
LEMMA AwaitedPops ==
    ASSUME Base, NEW id, NEW p, NEW s, Awaited(id, p, s),
           toClient # <<>>, toClient' = Tail(toClient), 1 \notin ToldIn(toClient, "info", p),
           BindsIn(toServer, p) \subseteq BindsIn(toServer', p),
           SyncsIn(toServer, s) \subseteq SyncsIn(toServer', s),
           [id |-> id, listener |-> [proxy |-> p, role |-> "object"]] \in listeners'
    PROVE  Awaited(id, p, s)'
<1> DEFINE q == Tail(toClient)
<1>1. /\ \A i \in Nat : i \in ToldIn(q, "info", p) <=> i > 0 /\ i + 1 \in ToldIn(toClient, "info", p)
      /\ \A i \in Nat : i \in DonesIn(q, s) <=> i > 0 /\ i + 1 \in DonesIn(toClient, s)
  BY PopClient DEF Base, SessionTypeOK
<1>2. DOMAIN toClient \subseteq Nat \ {0}
  BY TailFacts DEF Base, SessionTypeOK
<1> HIDE DEF q
<1>3. toClient' = q
  BY DEF q
<1>4. CASE \E i \in BindsIn(toServer, p), j \in SyncsIn(toServer, s) : i < j
  <2>1. \E i \in BindsIn(toServer', p), j \in SyncsIn(toServer', s) : i < j
    BY <1>4
  <2> QED
    BY <2>1 DEF Awaited
<1>5. ASSUME NEW i \in ToldIn(toClient, "info", p),
             SyncsIn(toServer, s) # {} \/ \E j \in DonesIn(toClient, s) : i < j
      PROVE  Awaited(id, p, s)'
  <2>1. i \in Nat /\ i > 1
    BY <1>2 DEF ToldIn
  <2>2. PICK k \in Nat : i = k + 1 /\ k > 0
    BY <2>1, i - 1 \in Nat, i = (i - 1) + 1
  <2>3. k \in ToldIn(toClient', "info", p)
    BY <1>1, <1>3, <2>2
  <2>4. CASE SyncsIn(toServer, s) # {}
    <3>1. SyncsIn(toServer', s) # {}
      BY <2>4
    <3> QED
      BY <2>3, <3>1 DEF Awaited
  <2>5. ASSUME NEW j \in DonesIn(toClient, s), i < j PROVE Awaited(id, p, s)'
    <3>1. j \in Nat /\ j > 1
      BY <1>2, <2>1, <2>5 DEF DonesIn
    <3>2. PICK m \in Nat : j = m + 1 /\ m > 0
      BY <3>1, j - 1 \in Nat, j = (j - 1) + 1
    <3>3. m \in DonesIn(toClient', s)
      BY <1>1, <1>3, <3>2
    <3>4. k < m
      BY <2>2, <2>5, <3>2
    <3> QED
      BY <2>3, <3>3, <3>4 DEF Awaited
  <2> QED
    BY <1>5, <2>4, <2>5
<1> QED
  BY <1>4, <1>5 DEF Awaited

LEMMA AwaitedGrows ==
    ASSUME Base, NEW id, NEW p, NEW s, Awaited(id, p, s),
           NEW w \in Seq(ClientMsg), toClient' = toClient \o w, listeners' = listeners,
           \/ toServer' = toServer
           \/ /\ toServer # <<>> /\ toServer' = Tail(toServer)
              /\ 1 \notin BindsIn(toServer, p) /\ 1 \notin SyncsIn(toServer, s)
    PROVE  Awaited(id, p, s)'
<1>1. /\ ToldIn(toClient, "info", p) \subseteq ToldIn(toClient', "info", p)
      /\ DonesIn(toClient, s) \subseteq DonesIn(toClient', s)
  BY GrowClient DEF Base, SessionTypeOK
<1>2. CASE toServer' = toServer
  BY <1>1, <1>2 DEF Awaited
<1>3. CASE /\ toServer # <<>> /\ toServer' = Tail(toServer)
           /\ 1 \notin BindsIn(toServer, p) /\ 1 \notin SyncsIn(toServer, s)
  <2>1. /\ \A i \in Nat : i \in BindsIn(toServer', p) <=> i > 0 /\ i + 1 \in BindsIn(toServer, p)
        /\ \A i \in Nat : i \in SyncsIn(toServer', s) <=> i > 0 /\ i + 1 \in SyncsIn(toServer, s)
    BY <1>3, PopServer DEF Base, SessionTypeOK
  <2>2. DOMAIN toServer \subseteq Nat \ {0}
    BY <1>3, TailFacts DEF Base, SessionTypeOK
  <2>3. /\ \A i \in BindsIn(toServer, p) : \E k \in Nat : k > 0 /\ i = k + 1
        /\ \A i \in SyncsIn(toServer, s) : \E k \in Nat : k > 0 /\ i = k + 1
    <3>1. /\ \A i \in BindsIn(toServer, p) : i \in Nat \ {0, 1}
          /\ \A i \in SyncsIn(toServer, s) : i \in Nat \ {0, 1}
      BY <1>3, <2>2 DEF BindsIn, SyncsIn
    <3>2. \A i \in Nat \ {0, 1} : i - 1 \in Nat /\ i - 1 > 0 /\ i = (i - 1) + 1
      OBVIOUS
    <3> QED
      BY <3>1, <3>2
  <2>4. SyncsIn(toServer, s) # {} => SyncsIn(toServer', s) # {}
    BY <2>1, <2>3
  <2>5. ASSUME NEW i \in BindsIn(toServer, p), NEW j \in SyncsIn(toServer, s), i < j
        PROVE  \E k \in BindsIn(toServer', p), m \in SyncsIn(toServer', s) : k < m
    <3>1. PICK k \in Nat : k > 0 /\ i = k + 1
      BY <2>3
    <3>2. PICK m \in Nat : m > 0 /\ j = m + 1
      BY <2>3
    <3>3. k \in BindsIn(toServer', p) /\ m \in SyncsIn(toServer', s)
      BY <2>1, <3>1, <3>2
    <3>4. k < m
      BY <2>5, <3>1, <3>2
    <3> QED
      BY <3>3, <3>4
  <2> QED
    BY <1>1, <2>4, <2>5 DEF Awaited
<1> QED
  BY <1>2, <1>3

(* What taking the head of the client's queue leaves of an object's        *)
(* globals and removals.                                                   *)
LEMMA NamesPop ==
    ASSUME Base, NEW id, Unreported(id), toClient # <<>>, toClient' = Tail(toClient),
           objects' = objects,
           \A i \in DOMAIN toServer' :
               toServer'[i].t = "bind" /\ toServer'[i].id = id => toServer'[i].kind = objects[id],
           \A i \in DOMAIN toClient : toClient[i].t \in {"info", "removed"} =>
               closure'[toClient[i].proxy] = closure[toClient[i].proxy]
    PROVE  /\ OneKindNamed(id)' /\ AboutIn(toClient', closure', "removed", id) = {}
           /\ GlobalsIn(toClient, id) = {} => GlobalsIn(toClient', id) = {}
           /\ Named(id) /\ 1 \notin GlobalsIn(toClient, id) => GlobalsIn(toClient', id) # {}
           /\ Named(id) /\ GlobalsIn(toClient', id) # {} => Named(id)'
<1> DEFINE q == Tail(toClient)
<1>1. /\ \A i \in Nat : i \in GlobalsIn(q, id) <=> i > 0 /\ i + 1 \in GlobalsIn(toClient, id)
      /\ \A c, t : \A i \in Nat :
             i \in AboutIn(q, c, t, id) <=> i > 0 /\ i + 1 \in AboutIn(toClient, c, t, id)
      /\ \A s : \A i \in Nat : i \in DonesIn(q, s) <=> i > 0 /\ i + 1 \in DonesIn(toClient, s)
      /\ GlobalsIn(q, id) \subseteq Nat \ {0}
      /\ \A c, t : AboutIn(q, c, t, id) \subseteq Nat \ {0}
      /\ \A s : DonesIn(q, s) \subseteq Nat \ {0}
  BY PopClient DEF Base, SessionTypeOK
<1>2. /\ \A i \in DOMAIN q : i \in Nat /\ q[i] = toClient[i + 1]
      /\ \A i \in DOMAIN q : i + 1 \in DOMAIN toClient
      /\ DOMAIN toClient \subseteq Nat \ {0}
  BY TailFacts DEF Base, SessionTypeOK
<1> HIDE DEF q
<1>3. toClient' = q
  BY DEF q
<1>4. OneKindNamed(id)'
  <2>1. \A i \in DOMAIN q : q[i].t = "global" /\ q[i].id = id => q[i].kind = objects[id]
    BY <1>2 DEF Unreported, OneKindNamed
  <2> QED
    BY <1>3, <2>1 DEF OneKindNamed
<1>5. AboutIn(toClient', closure', "removed", id) = {}
  <2>1. AboutIn(toClient, closure', "removed", id) = {}
    BY DEF Unreported, AboutIn
  <2> QED
    BY <1>1, <1>3, <2>1
<1>6. GlobalsIn(toClient, id) = {} => GlobalsIn(toClient', id) = {}
  BY <1>1, <1>3
<1>7. ASSUME Named(id), 1 \notin GlobalsIn(toClient, id) PROVE GlobalsIn(toClient', id) # {}
  <2>1. PICK i \in GlobalsIn(toClient, id) : TRUE
    BY <1>7 DEF Named
  <2>2. i \in Nat /\ i > 1
    BY <1>2, <1>7 DEF GlobalsIn
  <2>3. PICK n \in Nat : i = n + 1 /\ n > 0
    BY <2>2, i - 1 \in Nat, i = (i - 1) + 1
  <2>4. n \in GlobalsIn(q, id)
    BY <1>1, <2>3
  <2> QED
    BY <1>3, <2>4
<1>8. ASSUME Named(id), GlobalsIn(toClient', id) # {} PROVE Named(id)'
  <2>1. \A k \in GlobalsIn(q, id), s \in Nat : \A j \in DonesIn(q, s) :
            k \in Nat /\ j \in Nat /\ k + 1 < j + 1
    BY <1>1, <1>8 DEF Named
  <2>2. \A k \in GlobalsIn(q, id), s \in Nat : \A j \in DonesIn(q, s) : k < j
    BY <2>1
  <2> QED
    BY <1>3, <1>8, <2>2 DEF Named
<1> QED
  BY <1>4, <1>5, <1>6, <1>7, <1>8

LEMMA UnreportedPops ==
    ASSUME Base, NEW id, Unreported(id), toClient # <<>>, toClient' = Tail(toClient),
           objects' = objects, ~syncsDone',
           \A i \in DOMAIN toServer' :
               toServer'[i].t = "bind" /\ toServer'[i].id = id => toServer'[i].kind = objects[id],
           \A i \in DOMAIN toClient : toClient[i].t \in {"info", "removed"} =>
               closure'[toClient[i].proxy] = closure[toClient[i].proxy],
           1 \notin GlobalsIn(toClient, id),
           \A e \in Under(proxies, id), s \in pending :
               Awaited(id, e.proxy, s) => e \in proxies' /\ s \in pending' /\ Awaited(id, e.proxy, s)'
    PROVE  Unreported(id)'
<1>1. /\ OneKindNamed(id)' /\ AboutIn(toClient', closure', "removed", id) = {}
      /\ GlobalsIn(toClient, id) = {} => GlobalsIn(toClient', id) = {}
      /\ Named(id) => Named(id)'
  BY NamesPop
<1>2. CASE Named(id)
  BY <1>1, <1>2 DEF Unreported
<1>3. ASSUME GlobalsIn(toClient, id) = {}, NEW e \in Under(proxies, id), NEW s \in pending,
             Awaited(id, e.proxy, s)
      PROVE  Unreported(id)'
  <2>1. e \in proxies' /\ s \in pending' /\ Awaited(id, e.proxy, s)'
    BY <1>3
  <2>2. e \in Under(proxies', id)
    BY <2>1 DEF Under
  <2> QED
    BY <1>1, <1>3, <2>1, <2>2 DEF Unreported
<1> QED
  BY <1>2, <1>3 DEF Unreported

LEMMA UnreportedGrows ==
    ASSUME Base, NEW id, Unreported(id), NEW w \in Seq(ClientMsg), toClient' = toClient \o w,
           objects'[id] = objects[id], syncsDone' = syncsDone, closure' = closure,
           proxies' = proxies, pending' = pending,
           \A i \in DOMAIN w : /\ w[i].t = "global" => w[i].id # id
                               /\ w[i].t = "removed" => closure[w[i].proxy].id # id,
           \A i \in DOMAIN toServer' :
               toServer'[i].t = "bind" /\ toServer'[i].id = id => toServer'[i].kind = objects[id],
           \A e \in Under(proxies, id), s \in pending :
               Awaited(id, e.proxy, s) => Awaited(id, e.proxy, s)'
    PROVE  Unreported(id)'
<1>1. /\ GlobalsIn(toClient, id) \subseteq GlobalsIn(toClient', id)
      /\ \A i \in GlobalsIn(toClient', id) :
                             i \in GlobalsIn(toClient, id) \/ i - Len(toClient) \in GlobalsIn(w, id)
      /\ \A c, t : \A i \in AboutIn(toClient', c, t, id) :
                       i \in AboutIn(toClient, c, t, id) \/ i - Len(toClient) \in AboutIn(w, c, t, id)
      /\ \A s : \A i \in DonesIn(toClient', s) :
                       i \in DonesIn(toClient, s) \/ i - Len(toClient) \in DonesIn(w, s)
      /\ Len(toClient) \in Nat /\ DOMAIN w \subseteq Nat \ {0}
      /\ \A i \in DOMAIN toClient : i \in Nat /\ i <= Len(toClient)
      /\ \A i \in DOMAIN toClient' : i \in Nat
  BY GrowClient DEF Base, SessionTypeOK
<1>2. GlobalsIn(w, id) = {} /\ AboutIn(w, closure, "removed", id) = {}
  BY DEF GlobalsIn, AboutIn
<1>3. /\ GlobalsIn(toClient', id) = GlobalsIn(toClient, id)
      /\ AboutIn(toClient', closure', "removed", id) = {}
  BY <1>1, <1>2 DEF Unreported
<1>4. OneKindNamed(id)'
  <2>1. \A i \in DOMAIN (toClient \o w) :
             \/ i \in DOMAIN toClient /\ (toClient \o w)[i] = toClient[i]
             \/ i - Len(toClient) \in DOMAIN w /\ (toClient \o w)[i] = w[i - Len(toClient)]
    BY ConcatFacts DEF Base, SessionTypeOK
  <2>2. \A i \in DOMAIN toClient' : toClient'[i].t = "global" /\ toClient'[i].id = id
            => toClient'[i].kind = objects[id]
    BY <2>1 DEF Unreported, OneKindNamed
  <2> QED
    BY <2>2 DEF OneKindNamed
<1>5. ASSUME Named(id) PROVE Named(id)'
  <2>1. \A s \in Nat : \A i \in GlobalsIn(toClient, id), j \in DonesIn(toClient', s) : i < j
    <3> SUFFICES ASSUME NEW s \in Nat, NEW i \in GlobalsIn(toClient, id), NEW j \in DonesIn(toClient', s)
                 PROVE  i < j
      OBVIOUS
    <3>1. i \in Nat /\ i <= Len(toClient)
      BY <1>1 DEF GlobalsIn
    <3>2. CASE j \in DonesIn(toClient, s)
      BY <1>5, <3>2 DEF Named
    <3>3. CASE j - Len(toClient) \in DonesIn(w, s)
      <4>1. j \in Nat /\ j - Len(toClient) \in Nat \ {0}
        BY <1>1, <3>3 DEF DonesIn
      <4> QED
        BY <1>1, <3>1, <4>1
    <3> QED
      BY <1>1, <3>2, <3>3
  <2> QED
    BY <1>3, <1>5, <2>1 DEF Named
<1> QED
  BY <1>3, <1>4, <1>5 DEF Unreported, Under

(* While an unreported object's queue to the server does not change.       *)
LEMMA InitialAdds ==
    ASSUME Base, InitialOK, NEW x \in ObjectId, NEW kind \in KindsOf[x], ServerAdds(x, kind)
    PROVE  InitialOK'
<1> DEFINE m == [t |-> "global", id |-> x, kind |-> kind]
<1>1. /\ objects[x] = None /\ objects' = [objects EXCEPT ![x] = kind]
      /\ UNCHANGED <<initial, toServer, pending, syncsDone, closure, proxies, listeners>>
      /\ toClient' = IF Requested THEN Append(toClient, m) ELSE toClient
  BY DEF ServerAdds, ClientIdle, syncVars, proxyVars
<1>2. m \in ClientMsg
  BY SessionAssumption DEF ClientMsg
<1> HIDE DEF m
<1>3. CASE ~Requested
  BY <1>1, <1>3 DEF Base, BeforeAnswer, InitialOK
<1>4. ASSUME Requested, NEW id \in initial PROVE Unreported(id)'
  <2>1. Unreported(id)
    BY DEF InitialOK
  <2>2. id # x /\ objects'[id] = objects[id]
    <3>1. objects[id] \in Kind /\ None \notin Kind
      BY <2>1, SessionAssumption DEF Unreported
    <3>2. id \in ObjectId
      BY DEF Base, SessionTypeOK
    <3> QED
      BY <1>1, <3>1, <3>2 DEF Base, SessionTypeOK
  <2>3. /\ <<m>> \in Seq(ClientMsg) /\ toClient' = toClient \o <<m>> /\ DOMAIN <<m>> = {1}
        /\ <<m>>[1] = m
    BY <1>1, <1>2, <1>4, AppendIsConcat DEF Base, SessionTypeOK
  <2>4. \A i \in DOMAIN <<m>> : /\ <<m>>[i].t = "global" => <<m>>[i].id # id
                                /\ <<m>>[i].t = "removed" => closure[<<m>>[i].proxy].id # id
    BY <2>2, <2>3 DEF m
  <2>5. \A e \in Under(proxies, id), s \in pending : Awaited(id, e.proxy, s) => Awaited(id, e.proxy, s)'
    BY <1>1, <2>3, AwaitedGrows
  <2>6. \A i \in DOMAIN toServer' :
               toServer'[i].t = "bind" /\ toServer'[i].id = id => toServer'[i].kind = objects[id]
    BY <1>1, <2>1 DEF Unreported, OneKindNamed
  <2> QED
    BY <1>1, <2>1, <2>2, <2>3, <2>4, <2>5, <2>6, UnreportedGrows
<1> QED
  BY <1>1, <1>3, <1>4 DEF InitialOK

LEMMA InitialServerRemoves ==
    ASSUME Base, InitialOK, NEW x \in ObjectId, ServerRemoves(x)
    PROVE  InitialOK'
<1>1. /\ objects' = [objects EXCEPT ![x] = None] /\ initial' = initial \ {x}
      /\ UNCHANGED <<toServer, pending, syncsDone, closure, proxies, listeners>>
  BY DEF ServerRemoves, ClientIdle, syncVars, proxyVars
<1>2. PICK w \in Seq(ClientMsg) :
              /\ toClient' = toClient \o w
              /\ \A i \in DOMAIN w : \E p \in Proxy :
                     w[i] = [t |-> "removed", proxy |-> p] /\ [id |-> x, proxy |-> p] \in resources
  BY ServerRemovesFacts
<1>3. ASSUME NEW id \in initial, id # x PROVE Unreported(id)'
  <2>1. Unreported(id)
    BY DEF InitialOK
  <2>2. objects'[id] = objects[id]
    BY <1>1, <1>3 DEF Base, SessionTypeOK
  <2>3. \A i \in DOMAIN w : /\ w[i].t = "global" => w[i].id # id
                            /\ w[i].t = "removed" => closure[w[i].proxy].id # id
    <3>1. \A r \in resources : closure[r.proxy].id = r.id
      <4> SUFFICES ASSUME NEW r \in resources PROVE closure[r.proxy].id = r.id
        OBVIOUS
      <4>1. closure[r.proxy] = [id |-> r.id, kind |-> objects[r.id]]
        BY DEF Base, References, RefResources
      <4> QED
        BY <4>1
    <3> SUFFICES ASSUME NEW i \in DOMAIN w
                 PROVE  w[i].t = "removed" /\ closure[w[i].proxy].id = x
      BY <1>3
    <3>2. PICK p \in Proxy : w[i] = [t |-> "removed", proxy |-> p] /\ [id |-> x, proxy |-> p] \in resources
      BY <1>2
    <3>3. closure[p].id = x
      BY <3>1, <3>2
    <3> QED
      BY <3>2, <3>3
  <2>4. \A e \in Under(proxies, id), s \in pending : Awaited(id, e.proxy, s) => Awaited(id, e.proxy, s)'
    BY <1>1, <1>2, AwaitedGrows
  <2>5. \A i \in DOMAIN toServer' :
               toServer'[i].t = "bind" /\ toServer'[i].id = id => toServer'[i].kind = objects[id]
    BY <1>1, <2>1 DEF Unreported, OneKindNamed
  <2> QED
    BY <1>1, <1>2, <2>1, <2>2, <2>3, <2>4, <2>5, UnreportedGrows
<1> QED
  BY <1>1, <1>3 DEF InitialOK

(* The dump names each of its objects, before any sync has been sent.      *)
LEMMA InitialDump ==
    ASSUME Base, AnswersRegistry, ~Requested, objects' = objects, syncsDone' = syncsDone,
           closure' = closure, toServer' = Tail(toServer)
    PROVE  InitialOK'
<1>1. PICK w \in Seq(ClientMsg) :
              /\ toClient' = w
              /\ \A i \in DOMAIN w : \E id \in ObjectId :
                     objects[id] # None /\ w[i] = [t |-> "global", id |-> id, kind |-> objects[id]]
              /\ \A id \in ObjectId : objects[id] # None =>
                     \E i \in DOMAIN w : w[i] = [t |-> "global", id |-> id, kind |-> objects[id]]
  BY DumpFacts
<1>2. initial' = {id \in ObjectId : objects[id] \in Kind}
  BY DEF AnswersRegistry
<1>3. ~syncsDone /\ toServer' = <<>>
  <2>1. ~syncsDone /\ toServer # <<>> /\ toServer = IF phase = "spawned" THEN <<>> ELSE <<[t |-> "registry"]>>
    BY DEF Base, BeforeAnswer, AnswersRegistry
  <2>2. Tail(<<[t |-> "registry"]>>) = <<>>
    OBVIOUS
  <2> QED
    BY <2>1, <2>2
<1>4. ASSUME NEW id \in ObjectId, objects[id] \in Kind PROVE Unreported(id)'
  <2>1. \A i \in DOMAIN w : /\ w[i].t = "global"
                            /\ w[i].id = id => w[i].kind = objects[id]
    BY <1>1
  <2>2. OneKindNamed(id)'
    BY <1>1, <1>3, <2>1 DEF OneKindNamed
  <2>3. AboutIn(toClient', closure', "removed", id) = {} /\ \A s : DonesIn(toClient', s) = {}
    BY <1>1, <2>1 DEF AboutIn, DonesIn
  <2>4. GlobalsIn(toClient', id) # {}
    <3>1. PICK i \in DOMAIN w : w[i] = [t |-> "global", id |-> id, kind |-> objects[id]]
      BY <1>1, <1>4, SessionAssumption
    <3>2. w[i].t = "global" /\ w[i].id = id /\ w[i].kind \in Kind
      BY <1>4, <3>1
    <3> QED
      BY <1>1, <3>2 DEF GlobalsIn
  <2>5. Named(id)'
    BY <2>3, <2>4 DEF Named
  <2> QED
    BY <1>3, <1>4, <2>2, <2>3, <2>5 DEF Unreported
<1> QED
  BY <1>2, <1>4 DEF InitialOK

(* An object whose bind is refused is not one that is unreported: it would *)
(* have been bound as what it is.                                          *)
LEMMA InitialAnswers ==
    ASSUME Base, InitialOK, ServerAnswers
    PROVE  InitialOK'
<1>1. /\ toServer # <<>> /\ toServer' = Tail(toServer) /\ 1 \in DOMAIN toServer
      /\ UNCHANGED <<objects, pending, syncsDone, closure, proxyVars>>
      /\ AnswersRegistry <=> ~Requested
  BY AnswerFacts
<1>2. proxies' = proxies /\ listeners' = listeners
  BY <1>1 DEF proxyVars
<1>3. CASE AnswersRegistry
  BY <1>1, <1>3, InitialDump
<1>4. ASSUME NEW id, Unreported(id), NEW w \in Seq(ClientMsg), toClient' = toClient \o w,
             \A i \in DOMAIN w : w[i].t # "global",
             \A i \in DOMAIN w : w[i].t = "removed" => closure[w[i].proxy].id # id,
             \A e \in Under(proxies, id), s \in pending :
                 Awaited(id, e.proxy, s) => Awaited(id, e.proxy, s)'
      PROVE  Unreported(id)'
  <2>1. \A i \in DOMAIN toServer' :
               toServer'[i].t = "bind" /\ toServer'[i].id = id => toServer'[i].kind = objects[id]
    <3>1. \A i \in DOMAIN Tail(toServer) : i + 1 \in DOMAIN toServer /\ Tail(toServer)[i] = toServer[i + 1]
      BY <1>1, TailFacts DEF Base, SessionTypeOK
    <3>2. \A i \in DOMAIN toServer' : i + 1 \in DOMAIN toServer /\ toServer'[i] = toServer[i + 1]
      BY <1>1, <3>1
    <3> QED
      BY <1>4, <3>2 DEF Unreported, OneKindNamed
  <2> QED
    BY <1>1, <1>2, <1>4, <2>1, UnreportedGrows
<1>5. ASSUME NEW x \in ObjectId, NEW kind \in Kind, NEW p \in Proxy,
             NEW m, m = [t |-> "bind", id |-> x, kind |-> kind, proxy |-> p],
             AnswersBind(m) \/ RefusesBind(m), NEW id \in initial, initial' = initial
      PROVE  Unreported(id)'
  <2>1. /\ toServer[1].t = "bind" /\ toServer[1].id = x /\ toServer[1].kind = kind
        /\ toServer[1].proxy = p /\ closure[p] = [id |-> x, kind |-> kind]
    <3>1. toServer[1] = m
      BY <1>5 DEF AnswersBind, RefusesBind
    <3>2. /\ toServer[1].t = "bind" /\ toServer[1].id = x /\ toServer[1].kind = kind
          /\ toServer[1].proxy = p
      BY <1>5, <3>1
    <3> QED
      BY <1>1, <3>2 DEF Base, References, RefServer
  <2>2. Unreported(id) /\ closure[p].id = x
    BY <2>1 DEF InitialOK
  <2>3. x = id => objects[x] = kind
    BY <1>1, <2>1, <2>2 DEF Unreported, OneKindNamed
  <2>4. PICK n : /\ toClient' = Append(toClient, n)
                 /\ \/ n = [t |-> "info", proxy |-> p] /\ objects[x] = kind
                    \/ n = [t |-> "removed", proxy |-> p] /\ objects[x] # kind
    BY <1>5 DEF AnswersBind, RefusesBind
  <2>5. n \in ClientMsg
    BY <2>4 DEF ClientMsg
  <2>6. /\ <<n>> \in Seq(ClientMsg) /\ toClient' = toClient \o <<n>> /\ DOMAIN <<n>> = {1}
        /\ <<n>>[1] = n
    BY <2>4, <2>5, AppendIsConcat DEF Base, SessionTypeOK
  <2>7. \A i \in DOMAIN <<n>> : /\ <<n>>[i].t # "global"
                                /\ <<n>>[i].t = "removed" => closure[<<n>>[i].proxy].id # id
    BY <2>2, <2>3, <2>4, <2>6
  <2>8. ASSUME NEW e \in Under(proxies, id), NEW s \in pending, Awaited(id, e.proxy, s)
        PROVE  Awaited(id, e.proxy, s)'
    <3>1. 1 \notin SyncsIn(toServer, s)
      BY <2>1 DEF SyncsIn
    <3>2. CASE e.proxy # p
      <4>1. 1 \notin BindsIn(toServer, e.proxy)
        BY <2>1, <3>2 DEF BindsIn
      <4> QED
        BY <1>1, <1>2, <2>6, <2>8, <3>1, <4>1, AwaitedGrows
    <3>3. CASE e.proxy = p
      <4>1. e.id = id /\ closure[p].id = e.id
        <5>1. e \in proxies /\ e.id = id
          BY DEF Under
        <5>2. closure[e.proxy] = [id |-> e.id, kind |-> e.kind]
          BY <5>1 DEF Base, References, RefProxies
        <5> QED
          BY <3>3, <5>1, <5>2
      <4>2. n = [t |-> "info", proxy |-> p]
        BY <2>2, <2>3, <2>4, <4>1
      <4>3. Len(toClient) \in Nat
        BY DEF Base, SessionTypeOK
      <4>4. Len(toClient) + 1 \in ToldIn(toClient', "info", p)
        <5>1. 1 + Len(toClient) \in DOMAIN toClient' /\ toClient'[1 + Len(toClient)] = n
          BY <2>6, GrowClient DEF Base, SessionTypeOK
        <5>2. 1 + Len(toClient) = Len(toClient) + 1
          BY <4>3
        <5>3. n.t = "info" /\ n.proxy = p
          BY <4>2
        <5> QED
          BY <5>1, <5>2, <5>3 DEF ToldIn
      <4>5. CASE SyncsIn(toServer, s) # {}
        <5>1. PICK j \in SyncsIn(toServer, s) : TRUE
          BY <4>5
        <5>2. j \in Nat /\ j > 1
          <6>1. j \in DOMAIN toServer /\ DOMAIN toServer \subseteq Nat \ {0}
            BY <1>1, TailFacts DEF Base, SessionTypeOK, SyncsIn
          <6> QED
            BY <3>1, <6>1
        <5>3. j - 1 \in Nat /\ j - 1 > 0 /\ (j - 1) + 1 = j
          BY <5>2
        <5>4. j - 1 \in SyncsIn(toServer', s)
          <6>1. j - 1 \in SyncsIn(toServer', s) <=> j - 1 > 0 /\ (j - 1) + 1 \in SyncsIn(toServer, s)
            BY <1>1, <5>3, PopServer DEF Base, SessionTypeOK
          <6> QED
            BY <5>3, <6>1
        <5>5. [id |-> id, listener |-> [proxy |-> p, role |-> "object"]] \in listeners'
          BY <1>2, <2>8, <3>3 DEF Awaited
        <5> QED
          BY <3>3, <4>4, <5>4, <5>5 DEF Awaited
      <4>6. CASE SyncsIn(toServer, s) = {}
        <5>1. PICK i \in ToldIn(toClient, "info", p), j \in DonesIn(toClient, s) : i < j
          BY <2>8, <3>3, <4>6 DEF Awaited
        <5>2. i \in ToldIn(toClient', "info", p) /\ j \in DonesIn(toClient', s)
          BY <2>6, <5>1, GrowClient DEF Base, SessionTypeOK
        <5>3. [id |-> id, listener |-> [proxy |-> p, role |-> "object"]] \in listeners'
          BY <1>2, <2>8, <3>3 DEF Awaited
        <5> QED
          BY <3>3, <5>1, <5>2, <5>3 DEF Awaited
      <4> QED
        BY <4>5, <4>6
    <3> QED
      BY <3>2, <3>3
  <2> QED
    BY <1>4, <2>2, <2>6, <2>7, <2>8
<1>6. ASSUME AnswersSync, NEW id \in initial
      PROVE  Unreported(id)'
  <2> DEFINE s0 == toServer[1].seq
             n == [t |-> "done", seq |-> s0]
  <2>1. toServer[1].t = "sync" /\ s0 \in Nat /\ toClient' = Append(toClient, n)
    <3>1. toServer[1] \in ServerMsg /\ toServer[1].t = "sync"
      BY <1>6, AnswerFacts DEF AnswersSync
    <3> QED
      BY <1>6, <3>1 DEF ServerMsg, AnswersSync
  <2>2. n \in ClientMsg /\ n.t = "done" /\ n.seq = s0
    BY <2>1 DEF ClientMsg
  <2> HIDE DEF n
  <2>3. /\ <<n>> \in Seq(ClientMsg) /\ toClient' = toClient \o <<n>> /\ DOMAIN <<n>> = {1}
        /\ <<n>>[1] = n
    BY <2>1, <2>2, AppendIsConcat DEF Base, SessionTypeOK
  <2>4. \A p : 1 \notin BindsIn(toServer, p)
    BY <2>1 DEF BindsIn
  <2>5. ASSUME NEW e \in Under(proxies, id), NEW s \in pending, Awaited(id, e.proxy, s)
        PROVE  Awaited(id, e.proxy, s)'
    <3>1. CASE s # s0
      <4>1. 1 \notin SyncsIn(toServer, s)
        BY <3>1 DEF SyncsIn
      <4> QED
        BY <1>1, <1>2, <2>3, <2>4, <2>5, <4>1, AwaitedGrows
    <3>2. CASE s = s0
      <4>1. 1 \in SyncsIn(toServer, s) /\ \A j \in SyncsIn(toServer, s) : j = 1
        <5>1. 1 \in SyncsIn(toServer, s)
          BY <1>1, <2>1, <3>2 DEF SyncsIn
        <5> QED
          BY <2>1, <3>2, <5>1 DEF Base, SyncsOnce
      <4>2. \A i \in BindsIn(toServer, e.proxy) : i \in Nat /\ ~(i < 1)
        <5>1. DOMAIN toServer \subseteq Nat \ {0}
          BY <1>1, TailFacts DEF Base, SessionTypeOK
        <5> QED
          BY <5>1 DEF BindsIn
      <4>3. PICK i \in ToldIn(toClient, "info", e.proxy) : TRUE
        BY <2>5, <4>1, <4>2 DEF Awaited
      <4>4. /\ i \in ToldIn(toClient', "info", e.proxy)
            /\ i \in Nat /\ i <= Len(toClient) /\ Len(toClient) \in Nat
        BY <2>3, GrowClient DEF Base, SessionTypeOK, ToldIn
      <4>5. 1 + Len(toClient) \in DonesIn(toClient', s)
        <5>1. 1 + Len(toClient) \in DOMAIN toClient' /\ toClient'[1 + Len(toClient)] = n
          BY <2>3, GrowClient DEF Base, SessionTypeOK
        <5> QED
          BY <2>2, <3>2, <5>1 DEF DonesIn
      <4>6. i < 1 + Len(toClient)
        BY <4>4
      <4>7. [id |-> id, listener |-> [proxy |-> e.proxy, role |-> "object"]] \in listeners'
        BY <1>2, <2>5 DEF Awaited
      <4> QED
        BY <4>4, <4>5, <4>6, <4>7 DEF Awaited
    <3> QED
      BY <3>1, <3>2
  <2>6. Unreported(id) /\ \A i \in DOMAIN <<n>> : <<n>>[i].t = "done"
    BY <2>2, <2>3 DEF InitialOK
  <2> QED
    BY <1>4, <2>3, <2>5, <2>6
<1>7. ASSUME NEW p \in Proxy, Destroys(p), NEW id \in initial
      PROVE  Unreported(id)'
  <2>1. /\ <<>> \in Seq(ClientMsg) /\ DOMAIN <<>> = {} /\ toClient \o <<>> = toClient
    BY DEF Base, SessionTypeOK
  <2>2. toClient' = toClient \o <<>> /\ \A q : 1 \notin BindsIn(toServer, q) /\ 1 \notin SyncsIn(toServer, q)
    BY <1>7, <2>1 DEF Destroys, BindsIn, SyncsIn
  <2>3. \A e \in Under(proxies, id), s \in pending :
                 Awaited(id, e.proxy, s) => Awaited(id, e.proxy, s)'
    BY <1>1, <1>2, <2>1, <2>2, AwaitedGrows
  <2>4. Unreported(id)
    BY DEF InitialOK
  <2> QED
    BY <1>4, <2>1, <2>2, <2>3, <2>4
<1>8. CASE ~AnswersRegistry
  <2>1. initial' = initial
    BY <1>8, AnswerFacts DEF AnswersBind, RefusesBind, AnswersSync, Destroys
  <2>2. \A id \in initial : Unreported(id)'
    BY <1>5, <1>6, <1>7, <1>8, <2>1, AnswerFacts
  <2> QED
    BY <2>1, <2>2 DEF InitialOK
<1> QED
  BY <1>3, <1>8

LEMMA InitialConnect ==
    ASSUME Base, Connect
    PROVE  InitialOK'
<1>1. initial' = initial /\ phase = "spawned"
  BY DEF Connect
<1> QED
  BY <1>1 DEF Base, BeforeAnswer, Requested, InitialOK

(* The bind of a global is followed by a sync, pending until its answer.   *)
LEMMA InitialGlobal ==
    ASSUME Base, InitialOK, Global
    PROVE  InitialOK'
<1>1. /\ Dispatch("global") /\ UNCHANGED <<initial, syncsDone>>
      /\ \/ /\ toClient[1].kind \notin Kind
            /\ UNCHANGED <<toServer, pending, nextSeq, closure, proxyVars>>
         \/ \E x \in ObjectId, kind \in Kind, p \in FreeProxies :
               /\ toClient[1] = [t |-> "global", id |-> x, kind |-> kind]
               /\ kind \in KindsOf[x] /\ Bound(x, kind, p)
  BY GlobalFacts
<1>2. /\ toClient # <<>> /\ toClient' = Tail(toClient) /\ 1 \in DOMAIN toClient
      /\ toClient[1].t = "global" /\ objects' = objects
  BY <1>1, DispatchFacts
<1>3. \A q : 1 \notin ToldIn(toClient, "info", q)
  BY <1>2 DEF ToldIn
<1>4. ASSUME toClient[1].kind \notin Kind, UNCHANGED <<toServer, pending, nextSeq, closure, proxyVars>>,
             NEW id \in initial
      PROVE  Unreported(id)'
  <2>1. Unreported(id) /\ proxies' = proxies /\ listeners' = listeners
    BY <1>4 DEF InitialOK, proxyVars
  <2>2. \A e \in Under(proxies, id), s \in pending :
            Awaited(id, e.proxy, s) => e \in proxies' /\ s \in pending' /\ Awaited(id, e.proxy, s)'
    <3> SUFFICES ASSUME NEW e \in Under(proxies, id), NEW s \in pending, Awaited(id, e.proxy, s)
                 PROVE  e \in proxies' /\ s \in pending' /\ Awaited(id, e.proxy, s)'
      OBVIOUS
    <3>1. [id |-> id, listener |-> [proxy |-> e.proxy, role |-> "object"]] \in listeners'
      BY <2>1 DEF Awaited
    <3>2. Awaited(id, e.proxy, s)'
      BY <1>2, <1>3, <1>4, <3>1, AwaitedPops
    <3> QED
      BY <1>4, <2>1, <3>2 DEF Under
  <2>3. 1 \notin GlobalsIn(toClient, id) /\ ~syncsDone'
    BY <1>1, <1>4, <2>1 DEF GlobalsIn, Unreported
  <2>4. \A i \in DOMAIN toServer' :
               toServer'[i].t = "bind" /\ toServer'[i].id = id => toServer'[i].kind = objects[id]
    BY <1>4, <2>1 DEF Unreported, OneKindNamed
  <2> QED
    BY <1>2, <1>4, <2>1, <2>2, <2>3, <2>4, UnreportedPops
<1>5. ASSUME NEW x \in ObjectId, NEW kind \in Kind, NEW p \in FreeProxies,
             toClient[1] = [t |-> "global", id |-> x, kind |-> kind], Bound(x, kind, p),
             NEW id \in initial
      PROVE  Unreported(id)'
  <2>1. Unreported(id) /\ ~syncsDone /\ ~syncsDone'
    BY <1>1 DEF InitialOK, Unreported
  <2>2. /\ Register(x, kind, p) /\ closure' = [closure EXCEPT ![p] = [id |-> x, kind |-> kind]]
        /\ pending' = pending \cup {nextSeq}
    BY <1>5, <2>1 DEF Bound
  <2>3. p \in Proxy /\ \A i \in DOMAIN toClient : toClient[i].t \in {"info", "removed"} =>
               closure'[toClient[i].proxy] = closure[toClient[i].proxy]
    BY <2>2, FreeFacts DEF Base, SessionTypeOK
  <2>4. PICK w \in Seq(ServerMsg) :
              /\ toServer' = toServer \o w
              /\ w[1] = [t |-> "bind", id |-> x, kind |-> kind, proxy |-> p]
              /\ DOMAIN w = {1, 2} /\ w[2] = [t |-> "sync", seq |-> nextSeq]
    BY <1>5, <2>1, <2>3, BoundSends
  <2>5. x = id => kind = objects[id]
    BY <1>2, <1>5, <2>1 DEF Unreported, OneKindNamed
  <2>6. \A i \in DOMAIN toServer' :
               toServer'[i].t = "bind" /\ toServer'[i].id = id => toServer'[i].kind = objects[id]
    <3>1. \A i \in DOMAIN (toServer \o w) :
             \/ i \in DOMAIN toServer /\ (toServer \o w)[i] = toServer[i]
             \/ i - Len(toServer) \in DOMAIN w /\ (toServer \o w)[i] = w[i - Len(toServer)]
      BY ConcatFacts DEF Base, SessionTypeOK
    <3>2. \A i \in DOMAIN w : w[i].t = "bind" /\ w[i].id = id => w[i].kind = objects[id]
      BY <2>4, <2>5
    <3> QED
      BY <2>1, <2>4, <3>1, <3>2 DEF Unreported, OneKindNamed
  <2>7. CASE x # id
    <3>1. 1 \notin GlobalsIn(toClient, id)
      BY <1>5, <2>7 DEF GlobalsIn
    <3>2. \A e \in Under(proxies, id), s \in pending :
              Awaited(id, e.proxy, s) => e \in proxies' /\ s \in pending' /\ Awaited(id, e.proxy, s)'
      <4> SUFFICES ASSUME NEW e \in Under(proxies, id), NEW s \in pending, Awaited(id, e.proxy, s)
                   PROVE  e \in proxies' /\ s \in pending' /\ Awaited(id, e.proxy, s)'
        OBVIOUS
      <4>1. e \in proxies'
        BY <2>2, <2>7 DEF Under, Register
      <4> DEFINE l == [id |-> id, listener |-> [proxy |-> e.proxy, role |-> "object"]]
      <4>2. l \in listeners /\ l.id = id
        BY DEF Awaited
      <4> HIDE DEF l
      <4>3. l \in listeners'
        BY <2>2, <2>7, <4>2 DEF Under, Register
      <4>4. /\ BindsIn(toServer, e.proxy) \subseteq BindsIn(toServer', e.proxy)
            /\ SyncsIn(toServer, s) \subseteq SyncsIn(toServer', s)
        BY <2>4, GrowServer DEF Base, SessionTypeOK
      <4>5. Awaited(id, e.proxy, s)'
        BY <1>2, <1>3, <4>3, <4>4, AwaitedPops DEF l
      <4> QED
        BY <2>2, <4>1, <4>5
    <3> QED
      BY <1>2, <2>1, <2>3, <2>6, <3>1, <3>2, UnreportedPops
  <2>8. CASE x = id
    <3>1. 1 \in GlobalsIn(toClient, id)
      BY <1>2, <1>5, <2>8 DEF GlobalsIn
    <3>2. Named(id)
      BY <2>1, <3>1 DEF Unreported
    <3>3. /\ OneKindNamed(id)' /\ AboutIn(toClient', closure', "removed", id) = {}
          /\ GlobalsIn(toClient', id) # {} => Named(id)'
      BY <1>2, <2>1, <2>3, <2>6, <3>2, NamesPop
    <3> DEFINE e == [id |-> id, kind |-> kind, proxy |-> p]
    <3>4. e \in Under(proxies', id) /\ e.proxy = p
      BY <2>2, <2>8 DEF Register, Under
    <3>5. PICK n \in Nat : n = nextSeq /\ n \in pending'
      BY <2>2 DEF Base, SessionTypeOK
    <3>6. [id |-> id, listener |-> [proxy |-> p, role |-> "object"]] \in listeners'
      BY <2>2, <2>8 DEF Register, Pair, Role
    <3>7. Awaited(id, p, n)'
      <4>1. /\ \A i \in DOMAIN w : i + Len(toServer) \in DOMAIN toServer' /\ toServer'[i + Len(toServer)] = w[i]
            /\ Len(toServer) \in Nat
        BY <2>4, GrowServer DEF Base, SessionTypeOK
      <4>2. 1 + Len(toServer) \in BindsIn(toServer', p)
        BY <2>4, <4>1 DEF BindsIn
      <4>3. 2 + Len(toServer) \in SyncsIn(toServer', n)
        BY <2>4, <3>5, <4>1 DEF SyncsIn
      <4>4. 1 + Len(toServer) < 2 + Len(toServer)
        BY <4>1
      <4>5. \E i \in BindsIn(toServer', p), j \in SyncsIn(toServer', n) : i < j
        BY <4>2, <4>3, <4>4
      <4> QED
        BY <3>6, <4>5 DEF Awaited
    <3> HIDE DEF e
    <3> QED
      BY <1>2, <2>1, <3>3, <3>4, <3>5, <3>7 DEF Unreported
  <2> QED
    BY <2>7, <2>8
<1> QED
  BY <1>1, <1>4, <1>5 DEF InitialOK

(* The info that is awaited is heard, its listener being registered.       *)
LEMMA InitialInfo ==
    ASSUME Base, InitialOK, Info
    PROVE  InitialOK'
<1>1. /\ Dispatch("info") /\ UNCHANGED <<toServer, pending, syncsDone, closure>>
      /\ proxies' = proxies /\ listeners' = listeners
  BY DEF Info, syncVars, proxyVars
<1>2. /\ toClient # <<>> /\ toClient' = Tail(toClient) /\ 1 \in DOMAIN toClient
      /\ Head(toClient) = toClient[1] /\ toClient[1].t = "info" /\ objects' = objects
  BY <1>1, DispatchFacts
<1> DEFINE p == toClient[1].proxy
<1>3. initial' = IF Hears(p, "object") THEN initial \ {closure[p].id} ELSE initial
  BY <1>2 DEF Info
<1>4. ASSUME NEW id \in initial, Hears(p, "object") => closure[p].id # id
      PROVE  Unreported(id)'
  <2>1. Unreported(id)
    BY DEF InitialOK
  <2>2. \A e \in Under(proxies, id), s \in pending :
            Awaited(id, e.proxy, s) => e \in proxies' /\ s \in pending' /\ Awaited(id, e.proxy, s)'
    <3> SUFFICES ASSUME NEW e \in Under(proxies, id), NEW s \in pending, Awaited(id, e.proxy, s)
                 PROVE  e \in proxies' /\ s \in pending' /\ Awaited(id, e.proxy, s)'
      OBVIOUS
    <3>1. e \in proxies /\ e.id = id
      BY DEF Under
    <3> DEFINE l == [id |-> id, listener |-> [proxy |-> e.proxy, role |-> "object"]]
    <3>2. l \in listeners /\ l.listener = [proxy |-> e.proxy, role |-> "object"]
      BY DEF Awaited
    <3> HIDE DEF l
    <3>3. Hears(e.proxy, "object")
      BY <3>2 DEF Hears, Listening
    <3>4. closure[e.proxy] = [id |-> e.id, kind |-> e.kind]
      BY <3>1 DEF Base, References, RefProxies
    <3>5. closure[e.proxy].id = id
      BY <3>1, <3>4
    <3>6. 1 \notin ToldIn(toClient, "info", e.proxy)
      BY <1>4, <3>3, <3>5 DEF ToldIn
    <3>7. Awaited(id, e.proxy, s)'
      BY <1>1, <1>2, <3>2, <3>6, AwaitedPops DEF l
    <3> QED
      BY <1>1, <3>1, <3>7
  <2>3. 1 \notin GlobalsIn(toClient, id) /\ ~syncsDone'
    BY <1>1, <1>2, <2>1 DEF GlobalsIn, Unreported
  <2>4. \A i \in DOMAIN toServer' :
               toServer'[i].t = "bind" /\ toServer'[i].id = id => toServer'[i].kind = objects[id]
    BY <1>1, <2>1 DEF Unreported, OneKindNamed
  <2> QED
    BY <1>1, <1>2, <2>1, <2>2, <2>3, <2>4, UnreportedPops
<1> QED
  BY <1>3, <1>4 DEF InitialOK

(* A removal is of another object.                                         *)
LEMMA InitialRemoved ==
    ASSUME Base, InitialOK, Removed
    PROVE  InitialOK'
<1>1. /\ Dispatch("removed") /\ UNCHANGED <<toServer, pending, syncsDone, closure, initial>>
  BY DEF Removed, syncVars
<1>2. /\ toClient # <<>> /\ toClient' = Tail(toClient) /\ 1 \in DOMAIN toClient
      /\ Head(toClient) = toClient[1] /\ toClient[1].t = "removed" /\ objects' = objects
  BY <1>1, DispatchFacts
<1> DEFINE x == closure[toClient[1].proxy].id
<1>3. UNCHANGED proxyVars \/ Unregister(x)
  BY <1>2 DEF Removed
<1>4. ASSUME NEW id \in initial
      PROVE  Unreported(id)'
  <2>1. Unreported(id)
    BY DEF InitialOK
  <2>2. x # id
    BY <1>2, <2>1 DEF Unreported, AboutIn
  <2> HIDE DEF x
  <2>3. \A e \in Under(proxies, id), s \in pending :
            Awaited(id, e.proxy, s) => e \in proxies' /\ s \in pending' /\ Awaited(id, e.proxy, s)'
    <3> SUFFICES ASSUME NEW e \in Under(proxies, id), NEW s \in pending, Awaited(id, e.proxy, s)
                 PROVE  e \in proxies' /\ s \in pending' /\ Awaited(id, e.proxy, s)'
      OBVIOUS
    <3>1. e \in proxies /\ e.id = id
      BY DEF Under
    <3> DEFINE l == [id |-> id, listener |-> [proxy |-> e.proxy, role |-> "object"]]
    <3>2. l \in listeners /\ l.id = id
      BY DEF Awaited
    <3> HIDE DEF l
    <3>3. e \in proxies' /\ l \in listeners'
      BY <1>3, <2>2, <3>1, <3>2 DEF proxyVars, Unregister, Under
    <3>4. 1 \notin ToldIn(toClient, "info", e.proxy)
      BY <1>2 DEF ToldIn
    <3>5. Awaited(id, e.proxy, s)'
      BY <1>1, <1>2, <3>3, <3>4, AwaitedPops DEF l
    <3> QED
      BY <1>1, <3>3, <3>5
  <2>4. 1 \notin GlobalsIn(toClient, id) /\ ~syncsDone'
    BY <1>1, <1>2, <2>1 DEF GlobalsIn, Unreported
  <2>5. \A i \in DOMAIN toServer' :
               toServer'[i].t = "bind" /\ toServer'[i].id = id => toServer'[i].kind = objects[id]
    BY <1>1, <2>1 DEF Unreported, OneKindNamed
  <2> QED
    BY <1>1, <1>2, <2>1, <2>3, <2>4, <2>5, UnreportedPops
<1> QED
  BY <1>1, <1>4 DEF InitialOK

(* The answer to a sync is not the one an unreported object awaits, so     *)
(* that one stays pending.                                                 *)
LEMMA InitialDone ==
    ASSUME Base, InitialOK, Done
    PROVE  InitialOK'
<1>1. /\ Dispatch("done") /\ UNCHANGED <<toServer, closure, initial>>
      /\ proxies' = proxies /\ listeners' = listeners
  BY DEF Done, proxyVars
<1>2. /\ toClient # <<>> /\ toClient' = Tail(toClient) /\ 1 \in DOMAIN toClient
      /\ Head(toClient) = toClient[1] /\ toClient[1].t = "done" /\ objects' = objects
      /\ toClient[1] \in ClientMsg
  BY <1>1, DispatchFacts
<1>3. PICK s0 \in Nat : s0 = toClient[1].seq
  BY <1>2 DEF ClientMsg
<1>4. ~syncsDone => pending' = pending \ {s0} /\ syncsDone' = (pending' = {})
  BY <1>2, <1>3 DEF Done
<1>5. 1 \in DonesIn(toClient, s0)
  BY <1>2, <1>3 DEF DonesIn
<1>6. DOMAIN toClient \subseteq Nat \ {0}
  BY <1>2, TailFacts DEF Base, SessionTypeOK
<1>7. ASSUME NEW id \in initial
      PROVE  Unreported(id)'
  <2>1. Unreported(id) /\ ~syncsDone
    BY DEF InitialOK, Unreported
  <2>2. ~Named(id)
    <3> SUFFICES ASSUME NEW i \in GlobalsIn(toClient, id), \A j \in DonesIn(toClient, s0) : i < j
                 PROVE  FALSE
      BY DEF Named
    <3>1. i \in Nat \ {0} /\ i < 1
      BY <1>5, <1>6 DEF GlobalsIn
    <3> QED
      BY <3>1
  <2>3. ASSUME NEW p, Awaited(id, p, s0) PROVE FALSE
    <3>1. SyncsIn(toServer, s0) = {} /\ \A j \in DonesIn(toClient, s0) : j = 1
      BY <1>5 DEF Base, SyncsOnce
    <3>2. PICK i \in ToldIn(toClient, "info", p), j \in DonesIn(toClient, s0) : i < j
      BY <2>3, <3>1 DEF Awaited
    <3>3. i \in Nat \ {0} /\ i < 1
      BY <1>6, <3>1, <3>2 DEF ToldIn
    <3> QED
      BY <3>3
  <2>4. \A e \in Under(proxies, id), s \in pending :
            Awaited(id, e.proxy, s) => e \in proxies' /\ s \in pending' /\ Awaited(id, e.proxy, s)'
    <3> SUFFICES ASSUME NEW e \in Under(proxies, id), NEW s \in pending, Awaited(id, e.proxy, s)
                 PROVE  e \in proxies' /\ s \in pending' /\ Awaited(id, e.proxy, s)'
      OBVIOUS
    <3>1. [id |-> id, listener |-> [proxy |-> e.proxy, role |-> "object"]] \in listeners'
      BY <1>1 DEF Awaited
    <3>2. 1 \notin ToldIn(toClient, "info", e.proxy)
      BY <1>2 DEF ToldIn
    <3>3. Awaited(id, e.proxy, s)'
      BY <1>1, <1>2, <3>1, <3>2, AwaitedPops
    <3>4. s # s0
      BY <2>3
    <3> QED
      BY <1>1, <1>4, <2>1, <3>3, <3>4 DEF Under
  <2>5. ~syncsDone'
    <3>1. PICK e \in Under(proxies, id), s \in pending : Awaited(id, e.proxy, s)
      BY <2>1, <2>2 DEF Unreported
    <3>2. s \in pending'
      BY <2>4, <3>1
    <3> QED
      BY <1>4, <2>1, <3>2
  <2>6. \A i \in DOMAIN toServer' :
               toServer'[i].t = "bind" /\ toServer'[i].id = id => toServer'[i].kind = objects[id]
    BY <1>1, <2>1 DEF Unreported, OneKindNamed
  <2>7. 1 \notin GlobalsIn(toClient, id)
    BY <1>2 DEF GlobalsIn
  <2> QED
    BY <1>1, <1>2, <2>1, <2>4, <2>5, <2>6, <2>7, UnreportedPops
<1> QED
  BY <1>1, <1>7 DEF InitialOK

LEMMA InitialCollect ==
    ASSUME Base, InitialOK, CollectProxies
    PROVE  InitialOK'
<1>1. /\ UNCHANGED <<objects, initial, toClient, pending, syncsDone, closure>>
      /\ proxies' = proxies /\ listeners' = listeners
  BY CollectFacts DEF CollectGarbage
<1>2. PICK w \in Seq(ServerMsg) :
          /\ toServer' = toServer \o w
          /\ \A i \in DOMAIN w : \E p \in garbageProxies : w[i] = [t |-> "destroy", proxy |-> p]
  BY CollectFacts
<1>3. ASSUME NEW id \in initial
      PROVE  Unreported(id)'
  <2>1. Unreported(id)
    BY DEF InitialOK
  <2>2. \A p, s : Awaited(id, p, s) => Awaited(id, p, s)'
    <3>1. \A p : BindsIn(toServer, p) \subseteq BindsIn(toServer', p)
      BY <1>2, GrowServer DEF Base, SessionTypeOK
    <3>2. \A s : SyncsIn(toServer, s) \subseteq SyncsIn(toServer', s)
      BY <1>2, GrowServer DEF Base, SessionTypeOK
    <3> SUFFICES ASSUME NEW p, NEW s, Awaited(id, p, s) PROVE Awaited(id, p, s)'
      OBVIOUS
    <3>3. BindsIn(toServer, p) \subseteq BindsIn(toServer', p) /\ SyncsIn(toServer, s) \subseteq SyncsIn(toServer', s)
      BY <3>1, <3>2
    <3> QED
      BY <1>1, <3>3 DEF Awaited
  <2>3. \A i \in DOMAIN toServer' :
               toServer'[i].t = "bind" /\ toServer'[i].id = id => toServer'[i].kind = objects[id]
    <3>1. \A i \in DOMAIN (toServer \o w) :
             \/ i \in DOMAIN toServer /\ (toServer \o w)[i] = toServer[i]
             \/ i - Len(toServer) \in DOMAIN w /\ (toServer \o w)[i] = w[i - Len(toServer)]
      BY ConcatFacts DEF Base, SessionTypeOK
    <3>2. \A i \in DOMAIN w : w[i].t = "destroy"
      BY <1>2
    <3> QED
      BY <1>2, <2>1, <3>1, <3>2 DEF Unreported, OneKindNamed
  <2>4. OneKindNamed(id)'
    BY <1>1, <2>1, <2>3 DEF Unreported, OneKindNamed
  <2>5. AboutIn(toClient', closure', "removed", id) = {}
    BY <1>1, <2>1 DEF Unreported
  <2>6. Named(id) => Named(id)'
    BY <1>1 DEF Named
  <2> QED
    BY <1>1, <2>1, <2>2, <2>4, <2>5, <2>6 DEF Unreported, Under
<1> QED
  BY <1>1, <1>3 DEF InitialOK

LEMMA InitialElsewhere ==
    ASSUME Base, InitialOK, Elsewhere
    PROVE  InitialOK'
BY DEF Elsewhere, proxyVars, InitialOK, Unreported, OneKindNamed, Named, Awaited, Under

LEMMA InitialStep ==
    ASSUME Base, InitialOK, [SessionNext]_sessionVars
    PROVE  InitialOK'
BY SessionSteps, InitialServerRemoves, InitialAdds, InitialAnswers, InitialConnect, InitialGlobal,
   InitialInfo, InitialRemoved, InitialDone, InitialCollect, InitialElsewhere

(* Base and InitialOK are inductive.                                       *)
THEOREM SessionInductive == SessionSpec => [](Base /\ InitialOK)
<1>1. SessionInit => Base /\ InitialOK
  BY BaseInit DEF SessionInit, InitialOK
<1>2. Base /\ InitialOK /\ [SessionNext]_sessionVars => (Base /\ InitialOK)'
  BY BaseOK, InitialStep
<1> QED
  BY <1>1, <1>2, PTL DEF SessionSpec

(* When Ready is sent every object of the dump that has not left since has *)
(* been reported.                                                          *)
THEOREM ReadyIsAfterInitial == SessionSpec => []ReadyAfterInitial
<1>1. Base /\ InitialOK => ReadyAfterInitial
  BY DEF Base, SessionTypeOK, InitialOK, Unreported, ReadyAfterInitial
<1> QED
  BY <1>1, SessionInductive, PTL

-----------------------------------------------------------------------------
(* The objects under an id, one after the other.                           *)

Infos(id) == AboutIn(toClient, closure, "info", id)
Removals(id) == AboutIn(toClient, closure, "removed", id)
Globals(id) == GlobalsIn(toClient, id)
Binding(p) == BindsIn(toServer, p) # {}
Told(t, p) == ToldIn(toClient, t, p) # {}
Alive(id) == objects[id] \in Kind
Mirrored(id) == \E o \in mirror : o.id = id

(* The removal of one object under an id and the info of the next are told *)
(* apart by the global between them.                                       *)
InTurn(id) ==
    /\ Alive(id) => \A i \in Removals(id) : \E j \in Globals(id) : i < j
    /\ \A i \in Removals(id), j \in Infos(id) :
           i < j => \E m \in Globals(id) : i < m /\ m < j

Followed(id) ==
    /\ InTurn(id)
    /\ Alive(id) => Globals(id) # {} \/ Under(proxies, id) # {}
    /\ Under(proxies, id) = {} =>
           ~Mirrored(id) /\ \A j \in Infos(id) : \E m \in Globals(id) : m < j
    /\ \A e \in Under(proxies, id) :
           Binding(e.proxy) \/ [id |-> id, proxy |-> e.proxy] \in resources \/ Told("removed", e.proxy)
    /\ Alive(id) => \/ Globals(id) # {} \/ Mirrored(id)
                    \/ \E e \in Under(proxies, id) : Binding(e.proxy) \/ Told("info", e.proxy)

(* What taking the head of the queue leaves of the order.                  *)
LEMMA InTurnPops ==
    ASSUME Base, NEW id, InTurn(id), toClient # <<>>, toClient' = Tail(toClient),
           objects' = objects,
           \A i \in DOMAIN toClient : toClient[i].t \in {"info", "removed"} =>
               closure'[toClient[i].proxy] = closure[toClient[i].proxy]
    PROVE  /\ InTurn(id)'
           /\ 1 \notin Globals(id) =>
                 /\ Globals(id) # {} => Globals(id)' # {}
                 /\ (\A j \in Infos(id) : \E m \in Globals(id) : m < j)
                        => \A j \in Infos(id)' : \E m \in Globals(id)' : m < j
           /\ 1 \in Removals(id) =>
                 /\ Alive(id) => Globals(id)' # {}
                 /\ \A j \in Infos(id)' : \E m \in Globals(id)' : m < j
           /\ \A t, p : 1 \notin ToldIn(toClient, t, p) /\ Told(t, p) => Told(t, p)'
<1> DEFINE q == Tail(toClient)
           before(S, T) == S \subseteq Nat \ {0}
                               /\ \A i \in Nat : i \in S <=> i > 0 /\ i + 1 \in T
<1>1. /\ before(GlobalsIn(q, id), Globals(id))
      /\ \A t : before(AboutIn(q, closure, t, id), AboutIn(toClient, closure, t, id))
      /\ \A t, p : before(ToldIn(q, t, p), ToldIn(toClient, t, p))
  BY PopClient DEF Base, SessionTypeOK, Globals
<1>2. \A t : AboutIn(q, closure', t, id) = AboutIn(q, closure, t, id)
  <2>1. \A i \in DOMAIN q : q[i].t \in {"info", "removed"} => closure'[q[i].proxy] = closure[q[i].proxy]
    <3>1. \A i \in DOMAIN Tail(toClient) : i + 1 \in DOMAIN toClient /\ Tail(toClient)[i] = toClient[i + 1]
      BY TailFacts DEF Base, SessionTypeOK
    <3> QED
      BY <3>1
  <2> HIDE DEF q
  <2> QED
    BY <2>1 DEF AboutIn
<1>3. /\ Globals(id) \subseteq Nat \ {0} /\ Removals(id) \subseteq Nat \ {0}
      /\ Infos(id) \subseteq Nat \ {0} /\ \A t, p : ToldIn(toClient, t, p) \subseteq Nat \ {0}
  <2>1. DOMAIN toClient \subseteq Nat \ {0}
    BY TailFacts DEF Base, SessionTypeOK
  <2> QED
    BY <2>1 DEF Globals, Removals, Infos, GlobalsIn, AboutIn, ToldIn
<1>4. /\ before(Globals(id)', Globals(id)) /\ before(Removals(id)', Removals(id))
      /\ before(Infos(id)', Infos(id))
      /\ \A t, p : before(ToldIn(toClient', t, p), ToldIn(toClient, t, p))
  BY <1>1, <1>2 DEF Globals, Removals, Infos
<1> HIDE DEF q
<1>5. \A S, T : before(S, T) /\ T \subseteq Nat \ {0} =>
          /\ \A i \in S : i \in Nat \ {0} /\ i + 1 \in T
          /\ \A i \in T : i # 1 => i - 1 \in S /\ (i - 1) + 1 = i /\ i - 1 \in Nat /\ i \in Nat
          /\ 1 \notin T /\ T # {} => S # {}
  <2> SUFFICES ASSUME NEW S, NEW T, before(S, T), T \subseteq Nat \ {0}
               PROVE  /\ \A i \in S : i \in Nat \ {0} /\ i + 1 \in T
                      /\ \A i \in T : i # 1 => i - 1 \in S /\ (i - 1) + 1 = i /\ i - 1 \in Nat /\ i \in Nat
                      /\ 1 \notin T /\ T # {} => S # {}
    OBVIOUS
  <2>1. \A i \in S : i \in Nat \ {0} /\ i + 1 \in T
    OBVIOUS
  <2>2. ASSUME NEW i \in T, i # 1 PROVE i - 1 \in S /\ (i - 1) + 1 = i /\ i - 1 \in Nat /\ i \in Nat
    <3>1. i - 1 \in Nat /\ i - 1 > 0 /\ (i - 1) + 1 = i /\ i \in Nat
      BY <2>2
    <3>2. i - 1 \in S <=> i - 1 > 0 /\ (i - 1) + 1 \in T
      BY <3>1
    <3> QED
      BY <3>1, <3>2
  <2>3. 1 \notin T /\ T # {} => S # {}
    BY <2>2
  <2> QED
    BY <2>1, <2>2, <2>3
<1> DEFINE G == Globals(id)
           G2 == Globals(id)'
           R == Removals(id)
           R2 == Removals(id)'
           I == Infos(id)
           I2 == Infos(id)'
<1>6. /\ \A i \in G2 : i \in Nat \ {0} /\ i + 1 \in G
      /\ \A i \in R2 : i \in Nat \ {0} /\ i + 1 \in R
      /\ \A i \in I2 : i \in Nat \ {0} /\ i + 1 \in I
      /\ \A i \in G : i \in Nat \ {0} /\ (i # 1 => i - 1 \in G2 /\ i - 1 \in Nat)
      /\ 1 \notin G /\ G # {} => G2 # {}
      /\ \A t, p : 1 \notin ToldIn(toClient, t, p) /\ Told(t, p) => Told(t, p)'
  <2>1. /\ \A i \in G2 : i \in Nat \ {0} /\ i + 1 \in G
        /\ \A i \in R2 : i \in Nat \ {0} /\ i + 1 \in R
        /\ \A i \in I2 : i \in Nat \ {0} /\ i + 1 \in I
    BY <1>3, <1>4, <1>5
  <2>2. /\ \A i \in G : i # 1 => i - 1 \in G2 /\ i - 1 \in Nat
        /\ 1 \notin G /\ G # {} => G2 # {}
    <3>1. before(G2, G) /\ G \subseteq Nat \ {0}
      BY <1>3, <1>4
    <3> HIDE DEF before, G, G2
    <3> QED
      BY <1>5, <3>1
  <2>3. \A t, p : 1 \notin ToldIn(toClient, t, p) /\ Told(t, p) => Told(t, p)'
    <3> SUFFICES ASSUME NEW t, NEW p, 1 \notin ToldIn(toClient, t, p), Told(t, p) PROVE Told(t, p)'
      OBVIOUS
    <3>1. before(ToldIn(toClient', t, p), ToldIn(toClient, t, p)) /\ ToldIn(toClient, t, p) \subseteq Nat \ {0}
      BY <1>3, <1>4
    <3> HIDE DEF before
    <3> QED
      BY <1>5, <3>1 DEF Told
  <2> QED
    BY <1>3, <2>1, <2>2, <2>3
<1>7. Alive(id)' = Alive(id)
  BY DEF Alive
<1>8. /\ Alive(id) => \A i \in R : \E j \in G : i < j
      /\ \A i \in R, j \in I : i < j => \E m \in G : i < m /\ m < j
  BY DEF InTurn
<1> HIDE DEF G, G2, R, R2, I, I2, before
<1>9. ASSUME Alive(id), NEW i \in R2 PROVE \E j \in G2 : i < j
  <2>1. PICK j \in G : i + 1 < j
    BY <1>6, <1>8, <1>9
  <2>2. j - 1 \in G2 /\ i < j - 1
    BY <1>6, <1>9, <2>1
  <2> QED
    BY <2>2
<1>10. ASSUME NEW i \in R2, NEW j \in I2, i < j PROVE \E m \in G2 : i < m /\ m < j
  <2>1. i + 1 \in R /\ j + 1 \in I /\ i + 1 < j + 1 /\ i \in Nat /\ j \in Nat
    BY <1>6, <1>10
  <2>2. PICK m \in G : i + 1 < m /\ m < j + 1
    BY <1>8, <2>1
  <2>3. m - 1 \in G2 /\ i < m - 1 /\ m - 1 < j
    BY <1>6, <2>1, <2>2
  <2> QED
    BY <2>3
<1>11. ASSUME 1 \notin G, \A j \in I : \E m \in G : m < j, NEW j \in I2 PROVE \E m \in G2 : m < j
  <2>1. j + 1 \in I /\ j \in Nat
    BY <1>6
  <2>2. PICK m \in G : m < j + 1
    BY <1>11, <2>1
  <2>3. m - 1 \in G2 /\ m - 1 < j
    BY <1>6, <1>11, <2>1, <2>2
  <2> QED
    BY <2>3
<1>12. ASSUME 1 \in R, Alive(id) PROVE G2 # {}
  <2>1. PICK j \in G : 1 < j
    BY <1>8, <1>12
  <2> QED
    BY <1>6, <2>1
<1>13. ASSUME 1 \in R, NEW j \in I2 PROVE \E m \in G2 : m < j
  <2>1. j + 1 \in I /\ j \in Nat /\ 1 < j + 1
    BY <1>6
  <2>2. PICK m \in G : 1 < m /\ m < j + 1
    BY <1>8, <1>13, <2>1
  <2>3. m - 1 \in G2 /\ m - 1 < j
    BY <1>6, <2>1, <2>2
  <2> QED
    BY <2>3
<1>14. InTurn(id)'
  BY <1>7, <1>9, <1>10 DEF InTurn, G2, R2, I2
<1> QED
  BY <1>6, <1>11, <1>12, <1>13, <1>14 DEF G, G2, R, R2, I, I2

(* A message that is no global of the id, nor the removal of its proxy.    *)
LEMMA FollowedPops ==
    ASSUME Base, NEW id, Followed(id), toClient # <<>>, toClient' = Tail(toClient),
           objects' = objects, resources' = resources,
           \A i \in DOMAIN toClient : toClient[i].t \in {"info", "removed"} =>
               closure'[toClient[i].proxy] = closure[toClient[i].proxy],
           Under(proxies', id) = Under(proxies, id),
           \A p : BindsIn(toServer, p) \subseteq BindsIn(toServer', p),
           1 \notin Globals(id),
           Mirrored(id) => Mirrored(id)',
           Under(proxies, id) = {} => ~Mirrored(id)',
           \A e \in Under(proxies, id) :
               /\ 1 \notin ToldIn(toClient, "removed", e.proxy)
               /\ 1 \in ToldIn(toClient, "info", e.proxy) => Mirrored(id)'
    PROVE  Followed(id)'
<1>1. /\ InTurn(id)' /\ (Globals(id) # {} => Globals(id)' # {})
      /\ (\A j \in Infos(id) : \E m \in Globals(id) : m < j)
             => \A j \in Infos(id)' : \E m \in Globals(id)' : m < j
      /\ \A t, p : 1 \notin ToldIn(toClient, t, p) /\ Told(t, p) => Told(t, p)'
  BY InTurnPops DEF Followed
<1>2. \A p : Binding(p) => Binding(p)'
  BY DEF Binding
<1>3. Alive(id)' = Alive(id)
  BY DEF Alive
<1>4. \A e \in Under(proxies', id) :
           (Binding(e.proxy) \/ [id |-> id, proxy |-> e.proxy] \in resources \/ Told("removed", e.proxy))'
  BY <1>1, <1>2 DEF Followed
<1>5. Alive(id)' => \/ Globals(id)' # {} \/ Mirrored(id)'
                    \/ \E e \in Under(proxies', id) : Binding(e.proxy)' \/ Told("info", e.proxy)'
  BY <1>1, <1>2, <1>3 DEF Followed
<1> QED
  BY <1>1, <1>3, <1>4, <1>5 DEF Followed

(* Messages of the server about the id: none to proxies of an object that  *)
(* is not there, and none of a removal while one is.                       *)
LEMMA FollowedGrows ==
    ASSUME Base, NEW id, Followed(id), NEW w \in Seq(ClientMsg), toClient' = toClient \o w,
           proxies' = proxies, mirror' = mirror, closure' = closure,
           Alive(id)' => Alive(id) \/ GlobalsIn(w, id) # {},
           AboutIn(w, closure, "removed", id) # {} => ~Alive(id)' /\ AboutIn(w, closure, "info", id) = {},
           AboutIn(w, closure, "info", id) # {} => Alive(id),
           \A e \in Under(proxies, id) :
               /\ Binding(e.proxy) \/ [id |-> id, proxy |-> e.proxy] \in resources =>
                      (Binding(e.proxy) \/ [id |-> id, proxy |-> e.proxy] \in resources
                           \/ Told("removed", e.proxy))'
               /\ Alive(id)' /\ Binding(e.proxy) => Binding(e.proxy)' \/ Told("info", e.proxy)'
    PROVE  Followed(id)'
<1> DEFINE n == Len(toClient)
           G == Globals(id)
           G2 == Globals(id)'
           R == Removals(id)
           R2 == Removals(id)'
           I == Infos(id)
           I2 == Infos(id)'
<1>1. /\ n \in Nat /\ DOMAIN w \subseteq Nat \ {0}
      /\ \A i \in DOMAIN toClient : i \in Nat /\ i <= n
      /\ \A i \in DOMAIN (toClient \o w) : i \in Nat /\ (i \in DOMAIN toClient \/ i > n)
  BY GrowClient DEF Base, SessionTypeOK
<1>2. /\ G \subseteq G2 /\ I \subseteq I2 /\ R \subseteq R2
      /\ \A i \in G2 : i \in G \/ i - n \in GlobalsIn(w, id)
      /\ \A i \in R2 : i \in R \/ i - n \in AboutIn(w, closure, "removed", id)
      /\ \A i \in I2 : i \in I \/ i - n \in AboutIn(w, closure, "info", id)
      /\ \A t, p : Told(t, p) => Told(t, p)'
  <2>1. /\ G \subseteq G2 /\ I \subseteq I2 /\ R \subseteq R2
        /\ \A i \in G2 : i \in G \/ i - n \in GlobalsIn(w, id)
        /\ \A i \in R2 : i \in R \/ i - n \in AboutIn(w, closure, "removed", id)
        /\ \A i \in I2 : i \in I \/ i - n \in AboutIn(w, closure, "info", id)
    BY GrowClient DEF Base, SessionTypeOK, Globals, Infos, Removals
  <2>2. \A t, p : Told(t, p) => Told(t, p)'
    <3>1. \A t, p : ToldIn(toClient, t, p) \subseteq ToldIn(toClient \o w, t, p)
      BY GrowClient DEF Base, SessionTypeOK
    <3> QED
      BY <3>1 DEF Told
  <2> QED
    BY <2>1, <2>2
<1>3. /\ \A i \in G : i \in Nat /\ i <= n
      /\ \A i \in R : i \in Nat /\ i <= n
      /\ \A i \in I : i \in Nat /\ i <= n
  BY <1>1 DEF Globals, Removals, Infos, GlobalsIn, AboutIn
<1>4. /\ \A i \in R2 : i \in Nat /\ (i \in R \/ (i > n /\ AboutIn(w, closure, "removed", id) # {}))
      /\ \A i \in I2 : i \in Nat /\ (i \in I \/ (i > n /\ AboutIn(w, closure, "info", id) # {}))
  <2>1. R2 \subseteq DOMAIN (toClient \o w) /\ I2 \subseteq DOMAIN (toClient \o w)
    BY DEF Removals, Infos, AboutIn
  <2>2. \A i \in Nat : i - n \in DOMAIN w => i > n
    BY <1>1
  <2>3. \A t : AboutIn(w, closure, t, id) \subseteq DOMAIN w
    BY DEF AboutIn
  <2> QED
    BY <1>1, <1>2, <2>1, <2>2, <2>3
<1>5. GlobalsIn(w, id) # {} => \E j \in G2 : j \in Nat /\ j > n
  <2> SUFFICES ASSUME NEW k \in GlobalsIn(w, id) PROVE \E j \in G2 : j \in Nat /\ j > n
    OBVIOUS
  <2>1. k \in DOMAIN w /\ k \in Nat \ {0} /\ w[k].t = "global" /\ w[k].id = id /\ w[k].kind \in Kind
    BY <1>1 DEF GlobalsIn
  <2>2. k + n \in DOMAIN (toClient \o w) /\ (toClient \o w)[k + n] = w[k]
    BY <2>1, ConcatFacts DEF Base, SessionTypeOK
  <2>3. k + n \in G2
    BY <2>1, <2>2 DEF Globals, GlobalsIn
  <2>4. k + n \in Nat /\ k + n > n
    BY <1>1, <2>1
  <2> QED
    BY <2>3, <2>4
<1>6. /\ Alive(id) => \A i \in R : \E j \in G : i < j
      /\ \A i \in R, j \in I : i < j => \E m \in G : i < m /\ m < j
      /\ Alive(id) => G # {} \/ Under(proxies, id) # {}
      /\ Under(proxies, id) = {} => ~Mirrored(id) /\ \A j \in I : \E m \in G : m < j
  BY DEF Followed, InTurn
<1> HIDE DEF n, G, G2, R, R2, I, I2
<1>7. ASSUME Alive(id)', NEW i \in R2 PROVE \E j \in G2 : i < j
  <2>1. i \in R
    BY <1>4, <1>7
  <2>2. CASE Alive(id)
    BY <1>2, <1>6, <2>1, <2>2
  <2>3. CASE GlobalsIn(w, id) # {}
    <3>1. PICK j \in G2 : j \in Nat /\ j > n
      BY <1>5, <2>3
    <3> QED
      BY <1>1, <1>3, <2>1, <3>1
  <2> QED
    BY <1>7, <2>2, <2>3
<1>8. ASSUME NEW i \in R2, NEW j \in I2, i < j PROVE \E m \in G2 : i < m /\ m < j
  <2>1. CASE i \in R /\ j \in I
    BY <1>2, <1>6, <1>8, <2>1
  <2>2. CASE i \in R /\ j > n /\ AboutIn(w, closure, "info", id) # {}
    <3>1. PICK m \in G : i < m
      BY <1>6, <2>2
    <3>2. m < j
      BY <1>1, <1>3, <1>4, <2>2
    <3> QED
      BY <1>2, <3>1, <3>2
  <2>3. CASE i > n /\ AboutIn(w, closure, "removed", id) # {}
    <3>1. j \in I
      BY <1>4, <2>3
    <3> QED
      BY <1>1, <1>3, <1>4, <1>8, <2>3, <3>1
  <2> QED
    BY <1>4, <2>1, <2>2, <2>3
<1>9. ASSUME Under(proxies, id) = {}, NEW j \in I2 PROVE \E m \in G2 : m < j
  <2>1. CASE j \in I
    BY <1>2, <1>6, <1>9, <2>1
  <2>2. CASE j > n /\ AboutIn(w, closure, "info", id) # {}
    <3>1. PICK m \in G : TRUE
      BY <1>6, <1>9, <2>2
    <3>2. m < j
      BY <1>1, <1>3, <1>4, <2>2
    <3> QED
      BY <1>2, <3>2
  <2> QED
    BY <1>4, <2>1, <2>2
<1>10. InTurn(id)'
  BY <1>7, <1>8 DEF InTurn, G2, R2, I2
<1>11. GlobalsIn(w, id) # {} => G2 # {}
  BY <1>5
<1>12. Alive(id)' => G2 # {} \/ Under(proxies', id) # {}
  BY <1>2, <1>6, <1>11
<1>13. Mirrored(id)' = Mirrored(id)
  BY DEF Mirrored
<1>14. \A e \in Under(proxies', id) :
           (Binding(e.proxy) \/ [id |-> id, proxy |-> e.proxy] \in resources \/ Told("removed", e.proxy))'
  <2> SUFFICES ASSUME NEW e \in Under(proxies, id)
               PROVE (Binding(e.proxy) \/ [id |-> id, proxy |-> e.proxy] \in resources \/ Told("removed", e.proxy))'
    OBVIOUS
  <2>1. Binding(e.proxy) \/ [id |-> id, proxy |-> e.proxy] \in resources \/ Told("removed", e.proxy)
    BY DEF Followed
  <2> QED
    BY <1>2, <2>1
<1>15. ASSUME Alive(id)'
       PROVE  \/ G2 # {} \/ Mirrored(id)'
              \/ \E e \in Under(proxies', id) : Binding(e.proxy)' \/ Told("info", e.proxy)'
  <2>1. CASE GlobalsIn(w, id) # {}
    BY <1>11, <2>1
  <2>2. CASE Alive(id)
    <3>1. \/ G # {} \/ Mirrored(id)
          \/ \E e \in Under(proxies, id) : Binding(e.proxy) \/ Told("info", e.proxy)
      BY <2>2 DEF Followed, G
    <3> QED
      BY <1>2, <1>13, <1>15, <3>1
  <2> QED
    BY <1>15, <2>1, <2>2
<1> QED
  BY <1>6, <1>9, <1>10, <1>12, <1>13, <1>14, <1>15 DEF Followed, G2, I2

(* Each id is used for objects of at most one monitored kind.              *)
OneKind == \A id \in ObjectId : \A j, k \in KindsOf[id] \cap Kind : j = k

(* Then a proxy is the only one under its id, its listeners are the only   *)
(* ones, and every object is followed.                                     *)
OneEach == \A e, f \in proxies : e.id = f.id => e = f
Attended == \A e \in proxies : Under(listeners, e.id) = Pair(e.id, e.proxy)
FollowedAll == phase = "running" /\ Requested => \A id \in ObjectId : Followed(id)

Kept == OneEach /\ Attended /\ FollowedAll

LEMMA KindFacts ==
    ASSUME OneKind, Base, NEW o \in Object
    PROVE  /\ o.id \in ObjectId /\ o.kind \in Kind /\ o.kind \in KindsOf[o.id]
           /\ objects[o.id] \in Kind => objects[o.id] = o.kind
<1>1. o.id \in ObjectId /\ o.kind \in Kind /\ o.kind \in KindsOf[o.id]
  BY DEF Object
<1>2. objects[o.id] \in Kind => objects[o.id] \in KindsOf[o.id]
  BY <1>1, SessionAssumption DEF Base, SessionTypeOK
<1> QED
  BY <1>1, <1>2 DEF OneKind

(* What a binding replaces: all there is under the id.                     *)
LEMMA BoundFacts ==
    ASSUME OneKind, Base, NEW x \in ObjectId, NEW kind \in Kind, NEW p \in Proxy,
           kind \in KindsOf[x], Register(x, kind, p)
    PROVE  /\ proxies' = (proxies \ Under(proxies, x)) \cup {[id |-> x, kind |-> kind, proxy |-> p]}
           /\ listeners' = (listeners \ Under(listeners, x)) \cup Pair(x, p)
<1> DEFINE old == {e \in proxies : e.id = x /\ e.kind = kind}
<1>1. old = Under(proxies, x)
  <2> SUFFICES ASSUME NEW e \in proxies, e.id = x PROVE e.kind = kind
    BY DEF Under
  <2>1. closure[e.proxy] = [id |-> e.id, kind |-> e.kind] /\ closure[e.proxy] \in Object
    BY DEF Base, References, RefProxies
  <2>2. e.kind \in Kind /\ e.kind \in KindsOf[x]
    BY <2>1, KindFacts
  <2> QED
    BY <2>2 DEF OneKind
<1>2. CASE old # {}
  BY <1>1, <1>2 DEF Register
<1>3. CASE old = {}
  <2>1. Under(listeners, x) = {}
    BY <1>1, <1>3 DEF Base, ProxyInv, ListenersRegistered, Under
  <2>2. listeners' = listeners \cup Pair(x, p)
    BY <1>3 DEF Register
  <2> QED
    BY <1>1, <1>3, <2>1, <2>2 DEF Register
<1> QED
  BY <1>2, <1>3

(* Kept is inductive, action by action.                                    *)
LEMMA KeptIdle ==
    ASSUME OneEach, Attended, UNCHANGED proxyVars
    PROVE  OneEach' /\ Attended'
BY DEF OneEach, Attended, proxyVars, Under

LEMMA KeptAdds ==
    ASSUME Base, Kept, NEW x \in ObjectId, NEW kind \in KindsOf[x], ServerAdds(x, kind)
    PROVE  Kept'
<1> DEFINE m == [t |-> "global", id |-> x, kind |-> kind]
<1>1. /\ objects[x] = None /\ objects' = [objects EXCEPT ![x] = kind] /\ phase' = phase
      /\ UNCHANGED <<toServer, closure, mirror, resources, proxyVars>>
      /\ toClient' = IF Requested THEN Append(toClient, m) ELSE toClient
  BY DEF ServerAdds, ClientIdle, threadVars
<1>2. m \in ClientMsg /\ m.t = "global" /\ m.id = x /\ m.kind = kind
  BY SessionAssumption DEF ClientMsg
<1> HIDE DEF m
<1>3. Requested' = Requested
  BY <1>1 DEF Requested
<1>4. ASSUME Requested, NEW id \in ObjectId, Followed(id) PROVE Followed(id)'
  <2>1. /\ <<m>> \in Seq(ClientMsg) /\ toClient' = toClient \o <<m>> /\ DOMAIN <<m>> = {1}
        /\ <<m>>[1] = m
    BY <1>1, <1>2, <1>4, AppendIsConcat DEF Base, SessionTypeOK
  <2>2. Alive(id)' => Alive(id) \/ GlobalsIn(<<m>>, id) # {}
    <3>1. objects'[id] = IF id = x THEN kind ELSE objects[id]
      BY <1>1 DEF Base, SessionTypeOK
    <3> QED
      BY <1>2, <2>1, <3>1 DEF Alive, GlobalsIn
  <2>3. \A t : AboutIn(<<m>>, closure, t, id) = {}
    BY <1>2, <2>1 DEF AboutIn
  <2>4. \A p : Binding(p)' = Binding(p)
    BY <1>1 DEF Binding
  <2> QED
    BY <1>1, <1>4, <2>1, <2>2, <2>3, <2>4, FollowedGrows DEF proxyVars
<1>5. FollowedAll'
  BY <1>1, <1>3, <1>4 DEF Kept, FollowedAll
<1> QED
  BY <1>1, <1>5, KeptIdle DEF Kept

LEMMA KeptServerRemoves ==
    ASSUME Base, Kept, NEW x \in ObjectId, ServerRemoves(x)
    PROVE  Kept'
<1>1. /\ objects' = [objects EXCEPT ![x] = None] /\ phase' = phase
      /\ resources' = {r \in resources : r.id # x}
      /\ UNCHANGED <<toServer, closure, mirror, proxyVars>>
  BY DEF ServerRemoves, ClientIdle, threadVars
<1>2. PICK w \in Seq(ClientMsg) :
              /\ toClient' = toClient \o w
              /\ \A i \in DOMAIN w : \E p \in Proxy :
                     w[i] = [t |-> "removed", proxy |-> p] /\ [id |-> x, proxy |-> p] \in resources
              /\ \A p \in Proxy : [id |-> x, proxy |-> p] \in resources =>
                     \E i \in DOMAIN w : w[i] = [t |-> "removed", proxy |-> p]
  BY ServerRemovesFacts
<1>3. Requested' = Requested
  BY <1>1 DEF Requested
<1>4. \A i \in DOMAIN w : w[i].t = "removed" /\ closure[w[i].proxy].id = x
  <2> SUFFICES ASSUME NEW i \in DOMAIN w
               PROVE  w[i].t = "removed" /\ closure[w[i].proxy].id = x
    OBVIOUS
  <2>1. PICK p \in Proxy : w[i] = [t |-> "removed", proxy |-> p] /\ [id |-> x, proxy |-> p] \in resources
    BY <1>2
  <2> DEFINE r == [id |-> x, proxy |-> p]
  <2>2. closure[r.proxy] = [id |-> r.id, kind |-> objects[r.id]]
    BY <2>1 DEF Base, References, RefResources
  <2> QED
    BY <2>1, <2>2
<1>5. ASSUME NEW id \in ObjectId, Followed(id) PROVE Followed(id)'
  <2>1. /\ Alive(id)' => Alive(id) /\ id # x
        /\ GlobalsIn(w, id) = {} /\ AboutIn(w, closure, "info", id) = {}
        /\ AboutIn(w, closure, "removed", id) # {} => id = x
    <3>1. objects'[id] = IF id = x THEN None ELSE objects[id]
      BY <1>1 DEF Base, SessionTypeOK
    <3> QED
      BY <1>4, <3>1, SessionAssumption DEF Alive, GlobalsIn, AboutIn
  <2>2. \A p : Binding(p)' = Binding(p)
    BY <1>1 DEF Binding
  <2>3. ASSUME NEW e \in Under(proxies, id), [id |-> id, proxy |-> e.proxy] \in resources
        PROVE  [id |-> id, proxy |-> e.proxy] \in resources' \/ Told("removed", e.proxy)'
    <3>1. CASE id # x
      BY <1>1, <2>3, <3>1
    <3>2. CASE id = x
      <4>1. e.proxy \in Proxy
        BY DEF Under, Base, ProxyInv, ProxyTypeOK, Entry
      <4>2. PICK i \in DOMAIN w : w[i] = [t |-> "removed", proxy |-> e.proxy]
        BY <1>2, <2>3, <3>2, <4>1
      <4>3. i + Len(toClient) \in DOMAIN toClient' /\ toClient'[i + Len(toClient)] = w[i]
        BY <1>2, GrowClient DEF Base, SessionTypeOK
      <4>4. i + Len(toClient) \in ToldIn(toClient', "removed", e.proxy)
        BY <4>2, <4>3 DEF ToldIn
      <4> QED
        BY <4>4 DEF Told
    <3> QED
      BY <3>1, <3>2
  <2> QED
    BY <1>1, <1>2, <1>5, <2>1, <2>2, <2>3, FollowedGrows DEF proxyVars
<1>6. FollowedAll'
  BY <1>1, <1>3, <1>5 DEF Kept, FollowedAll
<1> QED
  BY <1>1, <1>6, KeptIdle DEF Kept

LEMMA KeptDump ==
    ASSUME Base, AnswersRegistry, ~Requested, UNCHANGED <<objects, closure, mirror, proxyVars>>,
           toServer' = Tail(toServer), NEW id \in ObjectId
    PROVE  Followed(id)'
<1>1. PICK w \in Seq(ClientMsg) :
              /\ toClient' = w
              /\ \A i \in DOMAIN w : \E o \in ObjectId :
                     objects[o] # None /\ w[i] = [t |-> "global", id |-> o, kind |-> objects[o]]
              /\ \A o \in ObjectId : objects[o] # None =>
                     \E i \in DOMAIN w : w[i] = [t |-> "global", id |-> o, kind |-> objects[o]]
  BY DumpFacts
<1>2. proxies' = {} /\ mirror' = {}
  BY DEF Base, BeforeAnswer, proxyVars
<1>3. Removals(id)' = {} /\ Infos(id)' = {}
  <2>1. \A i \in DOMAIN w : w[i].t = "global"
    BY <1>1
  <2> QED
    BY <1>1, <2>1 DEF Removals, Infos, AboutIn
<1>4. ASSUME Alive(id)' PROVE Globals(id)' # {}
  <2>1. objects[id] \in Kind
    BY <1>4 DEF Alive
  <2>2. PICK i \in DOMAIN w : w[i] = [t |-> "global", id |-> id, kind |-> objects[id]]
    BY <1>1, <2>1, SessionAssumption
  <2>3. i \in Globals(id)'
    <3>1. w[i].t = "global" /\ w[i].id = id /\ w[i].kind \in Kind
      BY <2>1, <2>2
    <3> QED
      BY <1>1, <3>1 DEF Globals, GlobalsIn
  <2> QED
    BY <2>3
<1>5. InTurn(id)'
  BY <1>3 DEF InTurn
<1>6. Under(proxies', id) = {} /\ ~Mirrored(id)'
  BY <1>2 DEF Under, Mirrored
<1> QED
  BY <1>3, <1>4, <1>5, <1>6 DEF Followed

(* A bind is refused only when no object is there, for what is there would *)
(* be of the kind that is asked for.                                       *)
LEMMA KeptAnswers ==
    ASSUME OneKind, Base, Kept, ServerAnswers
    PROVE  Kept'
<1>1. /\ toServer # <<>> /\ toServer' = Tail(toServer) /\ 1 \in DOMAIN toServer
      /\ toServer[1] \in ServerMsg
      /\ UNCHANGED <<objects, phase, closure, mirror, proxyVars>>
      /\ AnswersRegistry <=> ~Requested
  BY AnswerFacts
<1>2. proxies' = proxies
  BY <1>1 DEF proxyVars
<1>3. \A p : /\ 1 \notin BindsIn(toServer, p) /\ Binding(p) => Binding(p)'
  <2> SUFFICES ASSUME NEW p, 1 \notin BindsIn(toServer, p), Binding(p) PROVE Binding(p)'
    OBVIOUS
  <2>1. PICK i \in BindsIn(toServer, p) : TRUE
    BY DEF Binding
  <2>2. i \in Nat /\ i > 1
    <3>1. DOMAIN toServer \subseteq Nat \ {0}
      BY <1>1, TailFacts DEF Base, SessionTypeOK
    <3> QED
      BY <3>1 DEF BindsIn
  <2>3. i - 1 \in Nat /\ i - 1 > 0 /\ (i - 1) + 1 = i
    BY <2>2
  <2>4. i - 1 \in BindsIn(toServer', p)
    <3>1. \A k \in Nat : k \in BindsIn(Tail(toServer), p) <=> k > 0 /\ k + 1 \in BindsIn(toServer, p)
      BY <1>1, PopServer DEF Base, SessionTypeOK
    <3> QED
      BY <1>1, <2>3, <3>1
  <2> QED
    BY <2>4 DEF Binding
<1>4. CASE AnswersRegistry
  <2>1. ~Requested
    BY <1>1, <1>4
  <2>2. \A id \in ObjectId : Followed(id)'
    BY <1>1, <1>4, <2>1, KeptDump
  <2> QED
    BY <1>1, <2>2, KeptIdle DEF Kept, FollowedAll
<1>5. ASSUME \A id \in ObjectId : Followed(id) => Followed(id)', ~AnswersRegistry
      PROVE  Kept'
  <2>1. FollowedAll'
    BY <1>1, <1>5 DEF Kept, FollowedAll
  <2> QED
    BY <1>1, <2>1, KeptIdle DEF Kept
<1>6. ASSUME NEW x \in ObjectId, NEW kind \in Kind, NEW p \in Proxy,
             NEW m, m = [t |-> "bind", id |-> x, kind |-> kind, proxy |-> p],
             AnswersBind(m) \/ RefusesBind(m), NEW id \in ObjectId, Followed(id)
      PROVE  Followed(id)'
  <2>1. /\ toServer[1].t = "bind" /\ toServer[1].proxy = p /\ m.id = x /\ m.kind = kind /\ m.proxy = p
        /\ closure[p] = [id |-> x, kind |-> kind] /\ closure[p] \in Object
    <3>1. toServer[1] = m
      BY <1>6 DEF AnswersBind, RefusesBind
    <3>2. /\ m.t = "bind" /\ m.id = x /\ m.kind = kind /\ m.proxy = p
      BY <1>6
    <3> QED
      BY <1>1, <3>1, <3>2 DEF Base, References, RefServer
  <2>2. closure[p].id = x /\ (objects[x] \in Kind => objects[x] = kind)
    <3>1. closure[p].id = x /\ closure[p].kind = kind
      BY <2>1
    <3> QED
      BY <2>1, <3>1, KindFacts
  <2>3. PICK n : /\ toClient' = Append(toClient, n)
                 /\ \/ /\ n = [t |-> "info", proxy |-> p] /\ objects[x] = kind
                       /\ resources' = resources \cup {[id |-> x, proxy |-> p]}
                    \/ /\ n = [t |-> "removed", proxy |-> p] /\ objects[x] # kind
                       /\ resources' = resources
    BY <1>6, <2>1 DEF AnswersBind, RefusesBind
  <2>4. n \in ClientMsg /\ n.proxy = p /\ n.t \in {"info", "removed"}
        /\ (n.t = "removed" => ~Alive(x)) /\ (n.t = "info" => Alive(x))
    BY <2>2, <2>3 DEF ClientMsg, Alive
  <2>5. /\ <<n>> \in Seq(ClientMsg) /\ toClient' = toClient \o <<n>> /\ DOMAIN <<n>> = {1}
        /\ <<n>>[1] = n
    BY <2>3, <2>4, AppendIsConcat DEF Base, SessionTypeOK
  <2>6. GlobalsIn(<<n>>, id) = {}
        /\ \A t : AboutIn(<<n>>, closure, t, id) # {} => id = x /\ n.t = t
    BY <2>2, <2>4, <2>5 DEF GlobalsIn, AboutIn
  <2>7. Alive(id)' = Alive(id)
    BY <1>1 DEF Alive
  <2>8. Told(n.t, p)'
    <3>1. 1 + Len(toClient) \in DOMAIN toClient' /\ toClient'[1 + Len(toClient)] = n
      BY <2>5, GrowClient DEF Base, SessionTypeOK
    <3>2. 1 + Len(toClient) \in ToldIn(toClient', n.t, p)
      BY <2>4, <3>1 DEF ToldIn
    <3> QED
      BY <3>2 DEF Told
  <2>9. ASSUME NEW e \in Under(proxies, id)
        PROVE  /\ Binding(e.proxy) \/ [id |-> id, proxy |-> e.proxy] \in resources =>
                      (Binding(e.proxy) \/ [id |-> id, proxy |-> e.proxy] \in resources
                           \/ Told("removed", e.proxy))'
               /\ Alive(id)' /\ Binding(e.proxy) => Binding(e.proxy)' \/ Told("info", e.proxy)'
    <3>1. resources \subseteq resources'
      BY <2>3
    <3>2. CASE e.proxy # p
      <4>1. 1 \notin BindsIn(toServer, e.proxy)
        BY <2>1, <3>2 DEF BindsIn
      <4> QED
        BY <1>3, <3>1, <4>1
    <3>3. CASE e.proxy = p
      <4>1. id = x
        <5>1. e \in proxies /\ e.id = id
          BY DEF Under
        <5>2. closure[e.proxy] = [id |-> e.id, kind |-> e.kind]
          BY <5>1 DEF Base, References, RefProxies
        <5> QED
          BY <2>2, <3>3, <5>1, <5>2
      <4>2. CASE n.t = "info"
        <5>1. Told("info", e.proxy)' /\ [id |-> id, proxy |-> e.proxy] \in resources'
          BY <2>3, <2>8, <3>3, <4>1, <4>2
        <5> QED
          BY <5>1
      <4>3. CASE n.t = "removed"
        <5>1. Told("removed", e.proxy)' /\ ~Alive(id)'
          BY <2>4, <2>7, <2>8, <3>3, <4>1, <4>3
        <5> QED
          BY <5>1
      <4> QED
        BY <2>4, <4>2, <4>3
    <3> QED
      BY <3>2, <3>3
  <2> QED
    BY <1>1, <1>2, <1>6, <2>4, <2>5, <2>6, <2>7, <2>9, FollowedGrows
<1>7. ASSUME AnswersSync, NEW id \in ObjectId, Followed(id) PROVE Followed(id)'
  <2> DEFINE n == [t |-> "done", seq |-> toServer[1].seq]
  <2>1. /\ n \in ClientMsg /\ n.t = "done" /\ toClient' = Append(toClient, n) /\ resources' = resources
        /\ toServer[1].t = "sync"
    BY <1>1, <1>7 DEF ServerMsg, AnswersSync, ClientMsg
  <2> HIDE DEF n
  <2>2. /\ <<n>> \in Seq(ClientMsg) /\ toClient' = toClient \o <<n>> /\ DOMAIN <<n>> = {1}
        /\ <<n>>[1] = n
    BY <2>1, AppendIsConcat DEF Base, SessionTypeOK
  <2>3. GlobalsIn(<<n>>, id) = {} /\ \A t : AboutIn(<<n>>, closure, t, id) = {}
    BY <2>1, <2>2 DEF GlobalsIn, AboutIn
  <2>4. Alive(id)' = Alive(id) /\ \A p : Binding(p) => Binding(p)'
    <3>1. \A p : 1 \notin BindsIn(toServer, p)
      BY <2>1 DEF BindsIn
    <3> QED
      BY <1>1, <1>3, <3>1 DEF Alive
  <2> QED
    BY <1>1, <1>2, <1>7, <2>1, <2>2, <2>3, <2>4, FollowedGrows
<1>8. ASSUME NEW p \in Proxy, Destroys(p), NEW id \in ObjectId, Followed(id) PROVE Followed(id)'
  <2>1. /\ <<>> \in Seq(ClientMsg) /\ DOMAIN <<>> = {} /\ toClient \o <<>> = toClient
    BY DEF Base, SessionTypeOK
  <2>2. toServer[1].t = "destroy" /\ toServer[1].proxy = p /\ toClient' = toClient \o <<>>
        /\ resources' = {r \in resources : r.proxy # p}
    BY <1>8, <2>1 DEF Destroys
  <2>3. GlobalsIn(<<>>, id) = {} /\ \A t : AboutIn(<<>>, closure, t, id) = {}
    BY <2>1 DEF GlobalsIn, AboutIn
  <2>4. Alive(id)' = Alive(id) /\ \A q : Binding(q) => Binding(q)'
    <3>1. \A q : 1 \notin BindsIn(toServer, q)
      BY <2>2 DEF BindsIn
    <3> QED
      BY <1>1, <1>3, <3>1 DEF Alive
  <2>5. \A e \in Under(proxies, id) : e.proxy # p
    BY <1>1, <2>2 DEF Base, References, RefServer, Held, Under
  <2>6. \A e \in Under(proxies, id) : [id |-> id, proxy |-> e.proxy] \in resources
            => [id |-> id, proxy |-> e.proxy] \in resources'
    BY <2>2, <2>5
  <2> QED
    BY <1>1, <1>2, <1>8, <2>1, <2>2, <2>3, <2>4, <2>6, FollowedGrows
<1>9. CASE ~AnswersRegistry
  <2>1. \A id \in ObjectId : Followed(id) => Followed(id)'
    BY <1>6, <1>7, <1>8, <1>9, AnswerFacts
  <2> QED
    BY <1>5, <1>9, <2>1
<1> QED
  BY <1>4, <1>9

LEMMA KeptConnect ==
    ASSUME Base, Kept, Connect
    PROVE  Kept'
<1>1. UNCHANGED proxyVars /\ (phase' = "ended" \/ toServer' = <<[t |-> "registry"]>>)
  BY DEF Connect
<1>2. phase' = "ended" \/ ~Requested'
  BY <1>1 DEF Requested
<1> QED
  BY <1>1, <1>2, KeptIdle DEF Kept, FollowedAll

(* The new proxy replaces those under the id; the global it came with is   *)
(* not the one that later events of the id are told apart by.              *)
LEMMA KeptGlobal ==
    ASSUME OneKind, Base, Kept, Global
    PROVE  Kept'
<1>1. /\ Dispatch("global") /\ mirror' = mirror
      /\ \/ /\ toClient[1].kind \notin Kind
            /\ UNCHANGED <<toServer, pending, nextSeq, closure, proxyVars>>
         \/ \E x \in ObjectId, kind \in Kind, p \in FreeProxies :
               /\ toClient[1] = [t |-> "global", id |-> x, kind |-> kind]
               /\ kind \in KindsOf[x] /\ Bound(x, kind, p)
  BY GlobalFacts
<1>2. /\ Requested /\ phase = "running" /\ toClient # <<>> /\ toClient' = Tail(toClient)
      /\ 1 \in DOMAIN toClient /\ toClient[1].t = "global" /\ objects' = objects
      /\ resources' = resources
  BY <1>1, DispatchFacts
<1>3. /\ \A id \in ObjectId : Followed(id)
      /\ \A id : Mirrored(id)' = Mirrored(id)
      /\ \A t, q : 1 \notin ToldIn(toClient, t, q)
  BY <1>1, <1>2 DEF Kept, FollowedAll, Mirrored, ToldIn
<1>4. CASE toClient[1].kind \notin Kind /\ UNCHANGED <<toServer, pending, nextSeq, closure, proxyVars>>
  <2>1. proxies' = proxies
    BY <1>4 DEF proxyVars
  <2>2. ASSUME NEW id \in ObjectId PROVE Followed(id)'
    <3>1. 1 \notin Globals(id)
      BY <1>4 DEF Globals, GlobalsIn
    <3>2. Followed(id) /\ (Under(proxies, id) = {} => ~Mirrored(id)')
      BY <1>3 DEF Followed
    <3> QED
      BY <1>2, <1>3, <1>4, <2>1, <3>1, <3>2, FollowedPops
  <2> QED
    BY <1>4, <2>2, KeptIdle DEF Kept, FollowedAll
<1>5. ASSUME NEW x \in ObjectId, NEW kind \in Kind, NEW p \in FreeProxies, kind \in KindsOf[x],
             toClient[1] = [t |-> "global", id |-> x, kind |-> kind], Bound(x, kind, p)
      PROVE  Kept'
  <2>1. /\ Register(x, kind, p) /\ closure' = [closure EXCEPT ![p] = [id |-> x, kind |-> kind]]
    BY <1>5 DEF Bound
  <2>2. p \in Proxy /\ \A i \in DOMAIN toClient : toClient[i].t \in {"info", "removed"} =>
               closure'[toClient[i].proxy] = closure[toClient[i].proxy]
    BY <2>1, FreeFacts DEF Base, SessionTypeOK
  <2> DEFINE new == [id |-> x, kind |-> kind, proxy |-> p]
  <2>3. /\ proxies' = (proxies \ Under(proxies, x)) \cup {new}
        /\ listeners' = (listeners \ Under(listeners, x)) \cup Pair(x, p)
    BY <1>5, <2>1, <2>2, BoundFacts
  <2>4. new.id = x /\ new.proxy = p
    OBVIOUS
  <2> HIDE DEF new
  <2>5. /\ Under(proxies', x) = {new}
        /\ \A id : id # x => Under(proxies', id) = Under(proxies, id)
        /\ Under(listeners', x) = Pair(x, p)
        /\ \A id : id # x => Under(listeners', id) = Under(listeners, id)
    BY <2>2, <2>3, <2>4, PairsFacts DEF Under
  <2>6. OneEach' /\ Attended'
    <3>1. \A e \in proxies' : e.id = x => e = new
      BY <2>5 DEF Under
    <3>2. \A e \in proxies' : e.id # x => e \in proxies
      BY <2>3, <2>4
    <3> QED
      BY <2>4, <2>5, <3>1, <3>2 DEF Kept, OneEach, Attended
  <2>7. PICK w \in Seq(ServerMsg) :
              /\ toServer' = toServer \o w
              /\ 1 \in DOMAIN w /\ w[1] = [t |-> "bind", id |-> x, kind |-> kind, proxy |-> p]
    BY <1>5, <2>2, BoundSends
  <2>8. /\ \A q : BindsIn(toServer, q) \subseteq BindsIn(toServer', q)
        /\ Binding(p)'
    <3>1. 1 + Len(toServer) \in DOMAIN toServer' /\ toServer'[1 + Len(toServer)] = w[1]
      BY <2>7, GrowServer DEF Base, SessionTypeOK
    <3>2. 1 + Len(toServer) \in BindsIn(toServer', p)
      BY <2>7, <3>1 DEF BindsIn
    <3> QED
      BY <2>7, <3>2, GrowServer DEF Base, SessionTypeOK, Binding
  <2>9. ASSUME NEW id \in ObjectId, id # x PROVE Followed(id)'
    <3>1. 1 \notin Globals(id)
      BY <1>5, <2>9 DEF Globals, GlobalsIn
    <3>2. Followed(id) /\ (Under(proxies, id) = {} => ~Mirrored(id)')
      BY <1>3 DEF Followed
    <3> QED
      BY <1>2, <1>3, <2>2, <2>5, <2>8, <2>9, <3>1, <3>2, FollowedPops
  <2>10. Followed(x)'
    <3>1. InTurn(x)'
      BY <1>2, <1>3, <2>2, InTurnPops DEF Followed
    <3> QED
      BY <2>4, <2>5, <2>8, <3>1 DEF Followed
  <2> QED
    BY <2>6, <2>9, <2>10 DEF Kept, FollowedAll
<1> QED
  BY <1>1, <1>4, <1>5

(* The info of the proxy under an id is heard.                             *)
LEMMA KeptInfo ==
    ASSUME Base, Kept, Info
    PROVE  Kept'
<1>1. Dispatch("info") /\ UNCHANGED <<toServer, closure, proxyVars>>
  BY DEF Info
<1>2. /\ Requested /\ phase = "running" /\ toClient # <<>> /\ toClient' = Tail(toClient)
      /\ 1 \in DOMAIN toClient /\ toClient[1].t = "info" /\ objects' = objects
      /\ resources' = resources /\ Head(toClient) = toClient[1]
  BY <1>1, DispatchFacts
<1>3. proxies' = proxies /\ listeners' = listeners
  BY <1>1 DEF proxyVars
<1> DEFINE q == toClient[1].proxy
<1>4. mirror' = IF Hears(q, "object") THEN mirror \cup {closure[q]} ELSE mirror
  BY <1>2 DEF Info
<1>5. ASSUME NEW id \in ObjectId PROVE Followed(id)'
  <2>1. Followed(id) /\ 1 \notin Globals(id) /\ \A p : 1 \notin ToldIn(toClient, "removed", p)
    BY <1>2 DEF Kept, FollowedAll, Globals, GlobalsIn, ToldIn
  <2>2. Mirrored(id) => Mirrored(id)'
    BY <1>4 DEF Mirrored
  <2>3. ASSUME Under(proxies, id) = {} PROVE ~Mirrored(id)'
    <3>1. ~Mirrored(id) /\ \A j \in Infos(id) : \E m \in Globals(id) : m < j
      BY <2>1, <2>3 DEF Followed
    <3>2. closure[q].id # id
      <4> SUFFICES ASSUME closure[q].id = id PROVE FALSE
        OBVIOUS
      <4>1. 1 \in Infos(id)
        BY <1>2 DEF Infos, AboutIn
      <4>2. PICK m \in Globals(id) : m < 1
        BY <3>1, <4>1
      <4>3. DOMAIN toClient \subseteq Nat \ {0}
        BY <1>2, TailFacts DEF Base, SessionTypeOK
      <4>4. m \in Nat \ {0}
        BY <4>3 DEF Globals, GlobalsIn
      <4> QED
        BY <4>2, <4>4
    <3> QED
      BY <1>4, <3>1, <3>2 DEF Mirrored
  <2>4. ASSUME NEW e \in Under(proxies, id), 1 \in ToldIn(toClient, "info", e.proxy)
        PROVE  Mirrored(id)'
    <3>1. e \in proxies /\ e.id = id /\ q = e.proxy
      BY <2>4 DEF Under, ToldIn
    <3>2. Hears(q, "object")
      <4> DEFINE l == [id |-> e.id, listener |-> [proxy |-> e.proxy, role |-> "object"]]
      <4>1. l \in Under(listeners, e.id) /\ l.listener = [proxy |-> e.proxy, role |-> "object"]
        BY <3>1 DEF Kept, Attended, Pair, Role
      <4>2. l \in listeners
        BY <4>1 DEF Under
      <4> QED
        BY <3>1, <4>1, <4>2 DEF Hears, Listening
    <3>3. closure[e.proxy] = [id |-> e.id, kind |-> e.kind]
      BY <3>1 DEF Base, References, RefProxies
    <3>4. closure[q].id = id /\ closure[q] \in mirror'
      BY <1>4, <3>1, <3>2, <3>3
    <3> QED
      BY <3>4 DEF Mirrored
  <2> HIDE DEF q
  <2> QED
    BY <1>1, <1>2, <1>3, <2>1, <2>2, <2>3, <2>4, FollowedPops
<1> QED
  BY <1>1, <1>5, KeptIdle DEF Kept, FollowedAll

(* The removal takes all there is under the id; if another object is there *)
(* by then, its global is still to come.                                   *)
LEMMA KeptRemoved ==
    ASSUME Base, Kept, Removed
    PROVE  Kept'
<1>1. Dispatch("removed") /\ UNCHANGED <<toServer, closure>>
  BY DEF Removed
<1>2. /\ Requested /\ phase = "running" /\ toClient # <<>> /\ toClient' = Tail(toClient)
      /\ 1 \in DOMAIN toClient /\ toClient[1].t = "removed" /\ objects' = objects
      /\ resources' = resources /\ Head(toClient) = toClient[1]
  BY <1>1, DispatchFacts
<1>0. PICK q, x : q = toClient[1].proxy /\ x = closure[q].id
  OBVIOUS
<1>3. \/ Hears(q, "removed") /\ mirror' = {o \in mirror : o.id # x} /\ Unregister(x)
      \/ ~Hears(q, "removed") /\ mirror' = mirror /\ UNCHANGED proxyVars
  BY <1>0, <1>2 DEF Removed
<1>4. \A id : 1 \notin Globals(id) /\ \A p : 1 \notin ToldIn(toClient, "info", p)
  BY <1>2 DEF Globals, GlobalsIn, ToldIn
<1>5. ASSUME NEW e \in proxies, q = e.proxy PROVE Hears(q, "removed") /\ x = e.id
  <2> DEFINE l == [id |-> e.id, listener |-> [proxy |-> e.proxy, role |-> "removed"]]
  <2>1. l \in Under(listeners, e.id) /\ l.listener = [proxy |-> e.proxy, role |-> "removed"]
    BY DEF Kept, Attended, Pair, Role
  <2>2. l \in listeners
    BY <2>1 DEF Under
  <2>3. closure[e.proxy] = [id |-> e.id, kind |-> e.kind]
    BY DEF Base, References, RefProxies
  <2>4. [proxy |-> e.proxy, role |-> "removed"] \in Listening(listeners)
    BY <2>1, <2>2 DEF Listening
  <2> QED
    BY <1>0, <1>5, <2>3, <2>4 DEF Hears
<1>6. \A id \in ObjectId : Followed(id)
  BY <1>2 DEF Kept, FollowedAll
<1>7. \A i \in DOMAIN toClient : toClient[i].t \in {"info", "removed"} =>
          closure'[toClient[i].proxy] = closure[toClient[i].proxy]
  BY <1>1
<1>8. \A p : BindsIn(toServer, p) \subseteq BindsIn(toServer', p)
  BY <1>1
<1>9. CASE ~Hears(q, "removed") /\ mirror' = mirror /\ UNCHANGED proxyVars
  <2>1. proxies' = proxies
    BY <1>9 DEF proxyVars
  <2>2. ASSUME NEW id \in ObjectId PROVE Followed(id)'
    <3>1. \A e \in Under(proxies, id) : 1 \notin ToldIn(toClient, "removed", e.proxy)
      BY <1>0, <1>5, <1>9 DEF Under, ToldIn
    <3>2. Mirrored(id)' = Mirrored(id)
      BY <1>9 DEF Mirrored
    <3>3. Followed(id) /\ (Under(proxies, id) = {} => ~Mirrored(id)')
      BY <1>6, <3>2 DEF Followed
    <3> QED
      BY <1>2, <1>4, <1>7, <1>8, <2>1, <3>1, <3>2, <3>3, FollowedPops
  <2> QED
    BY <1>9, <2>2, KeptIdle DEF Kept, FollowedAll
<1>10. CASE Hears(q, "removed") /\ mirror' = {o \in mirror : o.id # x} /\ Unregister(x)
  <2>1. /\ proxies' = proxies \ Under(proxies, x) /\ listeners' = listeners \ Under(listeners, x)
    BY <1>10 DEF Unregister
  <2>2. /\ Under(proxies', x) = {}
        /\ \A id : id # x => Under(proxies', id) = Under(proxies, id)
        /\ \A id : id # x => Under(listeners', id) = Under(listeners, id)
        /\ \A e \in proxies' : e \in proxies /\ e.id # x
    BY <2>1 DEF Under
  <2>3. OneEach' /\ Attended'
    BY <2>2 DEF Kept, OneEach, Attended
  <2>4. ~Mirrored(x)' /\ \A id : id # x => Mirrored(id)' = Mirrored(id)
    BY <1>10 DEF Mirrored
  <2>5. ASSUME NEW id \in ObjectId, id # x PROVE Followed(id)'
    <3>1. \A e \in Under(proxies, id) : 1 \notin ToldIn(toClient, "removed", e.proxy)
      BY <1>0, <1>5, <2>5 DEF Under, ToldIn
    <3>2. Followed(id) /\ Mirrored(id)' = Mirrored(id) /\ (Under(proxies, id) = {} => ~Mirrored(id)')
      BY <1>6, <2>4, <2>5 DEF Followed
    <3>3. Under(proxies', id) = Under(proxies, id)
      BY <2>2, <2>5
    <3> QED
      BY <1>2, <1>4, <1>7, <1>8, <3>1, <3>2, <3>3, FollowedPops
  <2>6. ASSUME x \in ObjectId PROVE Followed(x)'
    <3>1. 1 \in Removals(x)
      BY <1>0, <1>2 DEF Removals, AboutIn
    <3>2. Followed(x) /\ InTurn(x)
      BY <1>6, <2>6 DEF Followed
    <3>3. /\ InTurn(x)' /\ (Alive(x) => Globals(x)' # {})
          /\ \A j \in Infos(x)' : \E m \in Globals(x)' : m < j
      BY <1>2, <1>7, <3>1, <3>2, InTurnPops
    <3>4. Alive(x)' = Alive(x) /\ Under(proxies', x) = {} /\ ~Mirrored(x)'
      BY <1>2, <2>2, <2>4 DEF Alive
    <3> QED
      BY <3>3, <3>4 DEF Followed
  <2> QED
    BY <2>3, <2>5, <2>6 DEF Kept, FollowedAll
<1> QED
  BY <1>3, <1>9, <1>10

LEMMA KeptDone ==
    ASSUME Base, Kept, Done
    PROVE  Kept'
<1>1. /\ Dispatch("done") /\ UNCHANGED <<toServer, mirror, closure, proxyVars>>
      /\ proxies' = proxies
  BY DEF Done, proxyVars
<1>2. /\ Requested /\ phase = "running" /\ toClient # <<>> /\ toClient' = Tail(toClient)
      /\ toClient[1].t = "done" /\ objects' = objects /\ resources' = resources
  BY <1>1, DispatchFacts
<1>3. ASSUME NEW id \in ObjectId PROVE Followed(id)'
  <2>1. /\ Followed(id) /\ 1 \notin Globals(id)
        /\ \A t, p : 1 \notin ToldIn(toClient, t, p)
    BY <1>2 DEF Kept, FollowedAll, Globals, GlobalsIn, ToldIn
  <2>2. Mirrored(id)' = Mirrored(id) /\ (Under(proxies, id) = {} => ~Mirrored(id)')
    BY <1>1, <2>1 DEF Mirrored, Followed
  <2> QED
    BY <1>1, <1>2, <2>1, <2>2, FollowedPops
<1> QED
  BY <1>1, <1>3, KeptIdle DEF Kept, FollowedAll

LEMMA KeptCollect ==
    ASSUME Base, Kept, CollectProxies
    PROVE  Kept'
<1>1. /\ UNCHANGED <<objects, resources, toClient, mirror, closure>> /\ phase = "running" /\ Requested
      /\ proxies' = proxies /\ listeners' = listeners
  BY CollectFacts DEF CollectGarbage
<1>2. PICK w \in Seq(ServerMsg) : toServer' = toServer \o w
  BY CollectFacts
<1>3. \A p : Binding(p) => Binding(p)'
  <2>1. \A p : BindsIn(toServer, p) \subseteq BindsIn(toServer', p)
    BY <1>2, GrowServer DEF Base, SessionTypeOK
  <2> QED
    BY <2>1 DEF Binding
<1>4. ASSUME NEW id \in ObjectId PROVE Followed(id)'
  <2>1. Followed(id)
    BY <1>1 DEF Kept, FollowedAll
  <2>2. /\ Globals(id)' = Globals(id) /\ InTurn(id)' /\ Infos(id)' = Infos(id)
        /\ Alive(id)' = Alive(id) /\ Mirrored(id)' = Mirrored(id)
        /\ \A t, p : Told(t, p)' = Told(t, p)
    BY <1>1, <2>1 DEF Globals, Infos, Removals, InTurn, Alive, Mirrored, Told, Followed
  <2> QED
    BY <1>1, <1>3, <2>1, <2>2 DEF Followed
<1> QED
  BY <1>1, <1>4 DEF Kept, FollowedAll, OneEach, Attended

LEMMA KeptElsewhere ==
    ASSUME Kept, Elsewhere
    PROVE  Kept'
<1>1. phase' = "running" => phase = "running" /\ (Requested' => Requested)
  BY DEF Elsewhere, Requested
<1>2. ASSUME NEW id, Followed(id) PROVE Followed(id)'
  BY <1>2 DEF Elsewhere, proxyVars, Followed, InTurn, Globals, Infos, Removals, Alive, Mirrored,
              Told, Binding
<1> QED
  BY <1>1, <1>2, KeptIdle DEF Elsewhere, Kept, FollowedAll

LEMMA KeptStep ==
    ASSUME OneKind, Base, Kept, [SessionNext]_sessionVars
    PROVE  Kept'
BY SessionSteps, KeptServerRemoves, KeptAdds, KeptAnswers, KeptConnect, KeptGlobal, KeptInfo,
   KeptRemoved, KeptDone, KeptCollect, KeptElsewhere

LEMMA KeptInit == SessionInit => Kept
BY DEF SessionInit, ProxyInit, Kept, OneEach, Attended, FollowedAll

(* Nothing in flight: the proxies are those of the objects there are.      *)
LEMMA AtRest ==
    ASSUME OneKind, Base, Kept, phase = "running", toClient = <<>>, toServer = <<>>
    PROVE  /\ mirror = {o \in [id : ObjectId, kind : Kind] : objects[o.id] = o.kind}
           /\ {[id |-> e.id, kind |-> e.kind] : e \in proxies} = mirror
<1>1. \A id \in ObjectId : Followed(id)
  BY DEF Kept, FollowedAll, Requested
<1>2. /\ \A id : Globals(id) = {}
      /\ \A p : ~Binding(p)
      /\ \A t, p : ~Told(t, p)
  BY DEF Globals, GlobalsIn, Told, ToldIn, Binding, BindsIn
<1>3. ASSUME NEW e \in proxies
      PROVE  /\ e.id \in ObjectId /\ e.kind \in Kind /\ objects[e.id] = e.kind
  <2>1. e.id \in ObjectId /\ e \in Under(proxies, e.id)
    BY DEF Base, ProxyInv, ProxyTypeOK, Entry, Under
  <2>2. [id |-> e.id, proxy |-> e.proxy] \in resources
    BY <1>1, <1>2, <2>1 DEF Followed
  <2> DEFINE r == [id |-> e.id, proxy |-> e.proxy]
  <2>3. /\ closure[r.proxy] = [id |-> r.id, kind |-> objects[r.id]]
    BY <2>2 DEF Base, References, RefResources
  <2>4. closure[e.proxy] = [id |-> e.id, kind |-> e.kind] /\ closure[e.proxy] \in Object
    BY DEF Base, References, RefProxies
  <2>5. e.kind \in Kind
    BY <2>4 DEF Object
  <2> QED
    BY <2>1, <2>3, <2>4, <2>5
<1>4. ASSUME NEW o \in mirror
      PROVE  /\ o \in [id : ObjectId, kind : Kind] /\ objects[o.id] = o.kind
             /\ \E e \in proxies : o = [id |-> e.id, kind |-> e.kind]
  <2>1. o \in Object /\ o.id \in ObjectId /\ o \in [id : ObjectId, kind : Kind]
    BY DEF Base, SessionTypeOK, Object
  <2>2. PICK e \in proxies : e.id = o.id
    BY <1>1, <2>1 DEF Followed, Mirrored, Under
  <2>3. objects[o.id] = e.kind /\ e.kind \in Kind
    BY <1>3, <2>2
  <2>4. objects[o.id] = o.kind
    BY <2>1, <2>3, KindFacts
  <2>5. o = [id |-> o.id, kind |-> o.kind]
    BY <2>1
  <2> QED
    BY <2>1, <2>2, <2>3, <2>4, <2>5
<1>5. ASSUME NEW id \in ObjectId, NEW k \in Kind, objects[id] = k
      PROVE  [id |-> id, kind |-> k] \in mirror
  <2>1. PICK o \in mirror : o.id = id
    BY <1>1, <1>2, <1>5 DEF Followed, Alive, Mirrored
  <2>2. o = [id |-> o.id, kind |-> o.kind] /\ objects[o.id] = o.kind
    BY <1>4
  <2> QED
    BY <1>5, <2>1, <2>2
<1>6. mirror = {o \in [id : ObjectId, kind : Kind] : objects[o.id] = o.kind}
  <2>1. \A o \in [id : ObjectId, kind : Kind] : objects[o.id] = o.kind => o \in mirror
    <3> SUFFICES ASSUME NEW o \in [id : ObjectId, kind : Kind], objects[o.id] = o.kind
                 PROVE  o \in mirror
      OBVIOUS
    <3>1. [id |-> o.id, kind |-> o.kind] \in mirror
      BY <1>5
    <3> QED
      BY <3>1
  <2> QED
    BY <1>4, <2>1
<1>7. {[id |-> e.id, kind |-> e.kind] : e \in proxies} = mirror
  BY <1>3, <1>4, <1>5
<1> QED
  BY <1>6, <1>7

(* Base and Kept are inductive when no id is used for two monitored kinds. *)
THEOREM SessionFollows ==
    ASSUME OneKind
    PROVE  SessionSpec => [](Base /\ Kept)
<1>1. SessionInit => Base /\ Kept
  BY BaseInit, KeptInit
<1>2. Base /\ Kept /\ [SessionNext]_sessionVars => (Base /\ Kept)'
  BY BaseOK, KeptStep
<1> QED
  BY <1>1, <1>2, PTL DEF SessionSpec

(* Then, with nothing in flight, the App knows what the server has.        *)
THEOREM SessionCatchesUp ==
    ASSUME OneKind
    PROVE  SessionSpec => []SessionMirrors
<1>1. Base /\ Kept => SessionMirrors
  BY AtRest DEF SessionMirrors
<1> QED
  BY <1>1, SessionFollows, PTL

(* And holds a proxy of each of these, with its two listeners.             *)
THEOREM SessionListens ==
    ASSUME OneKind
    PROVE  SessionSpec => []KnownAreHeard
<1>1. Base /\ Kept => KnownAreHeard
  BY AtRest DEF KnownAreHeard, Kept, Attended
<1> QED
  BY <1>1, SessionFollows, PTL

(* The session drives its registry by the steps of ProxyRegistry only, for *)
(* any use of ids: a bind never reuses a proxy the registry still holds.   *)
THEOREM SessionDrivesRegistry == SessionSpec => ProxySpec
<1>1. SessionInit => ProxyInit
  BY DEF SessionInit
<1>2. ASSUME Base, [SessionNext]_sessionVars PROVE [ProxyNext]_proxyVars
  <2>1. CASE \E x \in ObjectId : ServerRemoves(x)
    BY <2>1 DEF ServerRemoves, ClientIdle
  <2>2. CASE \E x \in ObjectId : \E kind \in KindsOf[x] : ServerAdds(x, kind)
    BY <2>2 DEF ServerAdds, ClientIdle
  <2>3. CASE ServerAnswers
    BY <2>3 DEF ServerAnswers, ClientIdle
  <2>4. CASE Connect
    BY <2>4 DEF Connect
  <2>5. CASE Global
    <3>1. \/ UNCHANGED proxyVars
          \/ \E x \in ObjectId, kind \in Kind, p \in FreeProxies : Bound(x, kind, p)
      BY <1>2, <2>5, GlobalFacts
    <3>2. \/ UNCHANGED proxyVars
          \/ \E x \in ObjectId, kind \in Kind, p \in Proxy : Register(x, kind, p)
      BY <1>2, <3>1, FreeFacts DEF Bound
    <3> QED
      BY <3>2 DEF ProxyNext
  <2>6. CASE Info
    BY <2>6 DEF Info
  <2>7. CASE Removed
    <3>1. closure[toClient[1].proxy] \in Object /\ Head(toClient) = toClient[1]
      BY <1>2, <2>7, DispatchFacts DEF Base, References, RefClient, Removed
    <3>2. closure[toClient[1].proxy].id \in ObjectId
      BY <3>1 DEF Object
    <3> QED
      BY <2>7, <3>1, <3>2 DEF Removed, ProxyNext
  <2>8. CASE Done
    BY <2>8 DEF Done
  <2>9. CASE CollectProxies
    BY <2>9 DEF CollectProxies, ProxyNext
  <2>10. CASE Elsewhere
    BY <2>10 DEF Elsewhere
  <2> QED
    BY <1>2, <2>1, <2>2, <2>3, <2>4, <2>5, <2>6, <2>7, <2>8, <2>9, <2>10, SessionSteps
<1> QED
  BY <1>1, <1>2, SessionInductive, PTL DEF SessionSpec, ProxySpec

(* So no listener of a session outlives its proxy.                         *)
THEOREM SessionListenersOutlived == SessionSpec => []ListenersHaveProxies
BY SessionDrivesRegistry, ListenersOutlived, PTL
=============================================================================
