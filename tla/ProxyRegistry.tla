--------------------------- MODULE ProxyRegistry ---------------------------
(***************************************************************************)
(* wirehose::proxy_registry::ProxyRegistry: keeps the proxies of bound     *)
(* objects alive in one map per kind, and the listeners of all kinds in    *)
(* one map by object id.  What it lets go of is freed outside callbacks.   *)
(* Maps are sets of entries; a listener is named by its proxy and by what  *)
(* it listens to: the object's own events, or the proxy's removal.         *)
(***************************************************************************)
EXTENDS FiniteSets

CONSTANTS
    ObjectId,   \* global ids on the server
    Kind,       \* "device", "client", "node", "link", "metadata"
    Proxy       \* the proxies Registry::bind returns

VARIABLES
    proxies,            \* entries [id, kind, proxy], over the five maps
    listeners,          \* entries [id, proxy, role]
    garbageProxies,
    garbageListeners,   \* [proxy, role]
    gcArmed             \* gc_fd is readable

proxyVars == <<proxies, listeners, garbageProxies, garbageListeners, gcArmed>>

Role == {"object", "removed"}
Entry == [id : ObjectId, kind : Kind, proxy : Proxy]
Listener == [proxy : Proxy, role : Role]

ProxyTypeOK ==
    /\ proxies \subseteq Entry
    /\ listeners \subseteq [id : ObjectId, listener : Listener]
    /\ garbageProxies \subseteq Proxy
    /\ garbageListeners \subseteq Listener
    /\ gcArmed \in BOOLEAN

ProxyInit ==
    /\ proxies = {} /\ listeners = {}
    /\ garbageProxies = {} /\ garbageListeners = {}
    /\ gcArmed = FALSE

Held(map) == {e.proxy : e \in map}
Listening(map) == {e.listener : e \in map}
Under(map, id) == {e \in map : e.id = id}

(* The two listeners of a proxy: add_device and its like register one with *)
(* the proxy, add_proxy_listener the other.                                *)
Pair(id, p) == {[id |-> id, listener |-> [proxy |-> p, role |-> r]] : r \in Role}

(* Mutants of Register: the listeners of what is evicted stay, or nobody   *)
(* is told to collect.                                                     *)
RegisterBut(id, kind, p, parksListeners, signals) ==
    LET old == {e \in proxies : e.id = id /\ e.kind = kind} IN
    /\ p \notin Held(proxies) \cup garbageProxies
    /\ proxies' = (proxies \ old) \cup {[id |-> id, kind |-> kind, proxy |-> p]}
    /\ garbageProxies' = garbageProxies \cup Held(old)
    /\ IF old # {} /\ parksListeners
       THEN /\ listeners' = (listeners \ Under(listeners, id)) \cup Pair(id, p)
            /\ garbageListeners' = garbageListeners \cup Listening(Under(listeners, id))
       ELSE /\ listeners' = listeners \cup Pair(id, p)
            /\ UNCHANGED garbageListeners
    /\ gcArmed' = (gcArmed \/ (signals /\ old # {}))
RegisterKeepingListeners(id, kind, p) == RegisterBut(id, kind, p, FALSE, TRUE)
RegisterSilent(id, kind, p) == RegisterBut(id, kind, p, TRUE, FALSE)

(* add_device, add_client, add_node, add_link or add_metadata, followed in *)
(* the same callback by add_proxy_listener.  Evicting a proxy of the kind  *)
(* parks every listener of the id, whatever kind it listens to.            *)
Register(id, kind, p) ==
    LET old == {e \in proxies : e.id = id /\ e.kind = kind} IN
    /\ p \notin Held(proxies) \cup garbageProxies
    /\ proxies' = (proxies \ old) \cup {[id |-> id, kind |-> kind, proxy |-> p]}
    /\ garbageProxies' = garbageProxies \cup Held(old)
    /\ IF old # {}
       THEN /\ listeners' = (listeners \ Under(listeners, id)) \cup Pair(id, p)
            /\ garbageListeners' = garbageListeners \cup Listening(Under(listeners, id))
            /\ gcArmed' = TRUE
       ELSE /\ listeners' = listeners \cup Pair(id, p)
            /\ UNCHANGED <<garbageListeners, gcArmed>>

(* Mutant of Unregister: the listeners stay.                               *)
UnregisterProxy(id) ==
    /\ proxies' = proxies \ Under(proxies, id)
    /\ garbageProxies' = garbageProxies \cup Held(Under(proxies, id))
    /\ gcArmed' = (gcArmed \/ Under(proxies, id) # {})
    /\ UNCHANGED <<listeners, garbageListeners>>

(* Called from the removed callback: everything under the id.              *)
Unregister(id) ==
    /\ proxies' = proxies \ Under(proxies, id)
    /\ garbageProxies' = garbageProxies \cup Held(Under(proxies, id))
    /\ listeners' = listeners \ Under(listeners, id)
    /\ garbageListeners' = garbageListeners \cup Listening(Under(listeners, id))
    /\ gcArmed' = (gcArmed \/ Under(proxies, id) # {} \/ Under(listeners, id) # {})

(* Listeners first, while their proxies are alive.                         *)
CollectGarbage ==
    /\ gcArmed
    /\ garbageListeners' = {} /\ garbageProxies' = {}
    /\ gcArmed' = FALSE
    /\ UNCHANGED <<proxies, listeners>>

ProxyNext ==
    \/ \E id \in ObjectId :
        \/ Unregister(id)
        \/ \E kind \in Kind, p \in Proxy : Register(id, kind, p)
    \/ CollectGarbage

ProxySpec == ProxyInit /\ [][ProxyNext]_proxyVars

-----------------------------------------------------------------------------
(* Every listener that can still be called has its proxy in memory: no map *)
(* or garbage list outlives the other (the Drop impl, "Drop listeners      *)
(* while their proxies are still alive").                                  *)
ListenersHaveProxies ==
    \A l \in Listening(listeners) \cup garbageListeners :
        l.proxy \in Held(proxies) \cup garbageProxies

(* Proxies, and listeners, are parked when they are evicted or removed,    *)
(* and freed by a signalled collection only.                               *)
DeferredProxies == INSTANCE Deferred WITH
    live <- Held(proxies), parked <- garbageProxies, signalled <- gcArmed
DeferredListeners == INSTANCE Deferred WITH
    live <- Listening(listeners), parked <- garbageListeners, signalled <- gcArmed

FreedOutsideCallbacks == DeferredProxies!DeferredSpec /\ DeferredListeners!DeferredSpec
=============================================================================
