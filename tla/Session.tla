------------------------------ MODULE Session ------------------------------
(***************************************************************************)
(* wirehose::session: the PipeWire thread from Session::spawn through the  *)
(* initial dump, with SyncRegistry and ProxyRegistry, to Session's Drop    *)
(* joining it.                                                             *)
(*                                                                         *)
(* The server is external: it serves a connection's messages in order and  *)
(* its answers arrive in order; it binds by global id and type, refuses a  *)
(* bind whose object is gone by removing the proxy, and frees ids at once. *)
(* The events sent to the App are applied as they are sent (that the       *)
(* channel keeps their order is module Pipeline's subject).                *)
(***************************************************************************)
EXTENDS ProxyRegistry, Naturals, Sequences

CONSTANTS
    KindsOf,    \* the kinds each id is used for; "other" is not monitored
    Own,        \* the id of this connection's own client
    None,
    MaxObjects, \* bound on the objects the server adds after the dump
    MaxInitial  \* bound on the objects in the dump

ASSUME SessionAssumption ==
    /\ IsFiniteSet(ObjectId) /\ IsFiniteSet(Proxy)
    /\ KindsOf \in [ObjectId -> SUBSET (Kind \cup {"other"})]
    /\ Own \in ObjectId /\ "client" \in Kind /\ KindsOf[Own] = {"client"}
    /\ None \notin Kind \cup {"other"} /\ None \notin Proxy
    /\ Proxy \subseteq Nat /\ MaxObjects \in Nat /\ MaxInitial \in Nat

VARIABLES
    phase,      \* the thread: "spawned", "running", "ended"
    quit,       \* main_loop.quit() has been called
    shutdownArmed,  \* Session::fd is readable
    app,        \* main: "run", "exited", "joining", "done"
    objects,    \* kind of each live object on the server, or None
    resources,  \* the server's side of bound proxies: [id, proxy]
    added,      \* objects added so far
    initial,    \* ids of the dump still alive and not yet reported
    toClient,   \* global, info, removed, destroy, done
    toServer,   \* registry, bind, sync, destroy
    pending,    \* SyncRegistry::pending
    syncsDone,  \* SyncRegistry::done
    nextSeq,    \* the sequence number core.sync would return
    ready,      \* Event::Ready has been sent
    closure,    \* the id and kind the callbacks of each proxy hold
    mirror      \* the App's clients, devices, nodes, links, metadatas: [id, kind]

serverVars == <<objects, resources, added, initial>>
syncVars == <<pending, syncsDone, nextSeq>>
threadVars == <<phase, quit, shutdownArmed, app>>
sessionVars == <<threadVars, serverVars, toClient, toServer, syncVars, ready,
                 mirror, closure, proxyVars>>

(* The dump has at least this program's own client in it, which stays as   *)
(* long as the connection.                                                 *)
SessionInit ==
    /\ ProxyInit
    /\ phase = "spawned" /\ quit = FALSE /\ shutdownArmed = FALSE /\ app = "run"
    /\ objects \in [ObjectId -> Kind \cup {"other", None}]
    /\ \A id \in ObjectId : objects[id] \in KindsOf[id] \cup {None}
    /\ objects[Own] = "client"
    /\ Cardinality({id \in ObjectId : objects[id] # None}) <= MaxInitial
    /\ resources = {} /\ added = 0 /\ initial = {}
    /\ toClient = <<>> /\ toServer = <<>>
    /\ pending = {} /\ syncsDone = FALSE /\ nextSeq = 1
    /\ ready = FALSE /\ mirror = {} /\ closure = [p \in Proxy |-> None]

-----------------------------------------------------------------------------
(* The server. *)
ClientIdle == UNCHANGED <<threadVars, syncVars, ready, mirror, closure, proxyVars>>

Requested == phase # "spawned" /\ \A i \in DOMAIN toServer : toServer[i].t # "registry"

ServerAdds(id, kind) ==
    /\ objects[id] = None /\ kind \in KindsOf[id] /\ added < MaxObjects
    /\ objects' = [objects EXCEPT ![id] = kind]
    /\ added' = added + 1
    /\ toClient' = IF Requested
                   THEN Append(toClient, [t |-> "global", id |-> id, kind |-> kind])
                   ELSE toClient
    /\ UNCHANGED <<resources, initial, toServer>> /\ ClientIdle

(* Some order of a set of messages. *)
InSomeOrder(set) ==
    {f \in [1 .. Cardinality(set) -> set] : \A m \in set : \E i \in DOMAIN f : f[i] = m}

(* Every proxy bound to the object is told.                                *)
ServerRemoves(id) ==
    LET bound == {r \in resources : r.id = id} IN
    /\ objects[id] # None /\ id # Own
    /\ objects' = [objects EXCEPT ![id] = None]
    /\ resources' = resources \ bound
    /\ initial' = initial \ {id}
    /\ \E order \in InSomeOrder({[t |-> "removed", proxy |-> r.proxy] : r \in bound}) :
        toClient' = toClient \o order
    /\ UNCHANGED <<added, toServer>> /\ ClientIdle

ServerAnswers ==
    LET m == Head(toServer) IN
    /\ toServer # <<>> /\ toServer' = Tail(toServer)
    /\ \/ /\ m.t = "registry"
          /\ initial' = {id \in ObjectId : objects[id] \in Kind}
          /\ \E order \in InSomeOrder({[t |-> "global", id |-> id, kind |-> objects[id]] :
                                        id \in {o \in ObjectId : objects[o] # None}}) :
                toClient' = toClient \o order
          /\ UNCHANGED resources
       \/ /\ m.t = "bind" /\ objects[m.id] = m.kind
          /\ resources' = resources \cup {[id |-> m.id, proxy |-> m.proxy]}
          /\ toClient' = Append(toClient, [t |-> "info", proxy |-> m.proxy])
          /\ UNCHANGED initial
       \/ /\ m.t = "bind" /\ objects[m.id] # m.kind
          /\ toClient' = Append(toClient, [t |-> "removed", proxy |-> m.proxy])
          /\ UNCHANGED <<resources, initial>>
       \/ /\ m.t = "sync"
          /\ toClient' = Append(toClient, [t |-> "done", seq |-> m.seq])
          /\ UNCHANGED <<resources, initial>>
       \/ /\ m.t = "destroy"
          /\ resources' = {r \in resources : r.proxy # m.proxy}
          /\ UNCHANGED <<initial, toClient>>
    /\ UNCHANGED <<objects, added>> /\ ClientIdle

-----------------------------------------------------------------------------
(* The PipeWire thread. *)
ServerIdle == UNCHANGED <<objects, resources, added>>

(* connect_rc and the set-up of watches and listeners; the shutdown fd may *)
(* have been armed before its watch exists.  On an error the App is told   *)
(* and the thread ends.                                                    *)
Connect ==
    /\ phase = "spawned"
    /\ \/ phase' = "running" /\ toServer' = <<[t |-> "registry"]>>
       \/ phase' = "ended" /\ UNCHANGED toServer
    /\ UNCHANGED <<quit, shutdownArmed, app, initial, toClient, syncVars, ready, mirror, closure, proxyVars>>
    /\ ServerIdle

(* EventSender: a handler that returns false, for the App has dropped its  *)
(* receiver, quits the loop.                                               *)
Sent == quit' = (quit \/ app # "run")

(* A callback of the main loop on the next message of the server.          *)
Dispatch(t) ==
    /\ phase = "running" /\ toClient # <<>> /\ Head(toClient).t = t
    /\ toClient' = Tail(toClient)
    /\ UNCHANGED <<phase, shutdownArmed, app>> /\ ServerIdle

(* Mutant of SyncGlobal: one sync is enough.                               *)
SyncGlobalOnce(bind) ==
    /\ toServer' = toServer \o (IF syncsDone \/ pending # {} THEN <<bind>>
                                ELSE <<bind, [t |-> "sync", seq |-> nextSeq]>>)
    /\ pending' = IF syncsDone \/ pending # {} THEN pending ELSE pending \cup {nextSeq}
    /\ nextSeq' = IF syncsDone THEN nextSeq ELSE nextSeq + 1
    /\ UNCHANGED syncsDone

(* SyncRegistry::global, after the bind it is to be answered behind.       *)
SyncGlobal(bind) ==
    /\ toServer' = toServer \o (IF syncsDone THEN <<bind>>
                                ELSE <<bind, [t |-> "sync", seq |-> nextSeq]>>)
    /\ pending' = IF syncsDone THEN pending ELSE pending \cup {nextSeq}
    /\ nextSeq' = IF syncsDone THEN nextSeq ELSE nextSeq + 1
    /\ UNCHANGED syncsDone

(* Proxies nothing refers to; the least stands for a new one.              *)
FreeProxies ==
    Proxy \ (Held(proxies) \cup garbageProxies \cup {r.proxy : r \in resources}
             \cup {toClient[i].proxy : i \in {j \in DOMAIN toClient :
                                                toClient[j].t \in {"info", "removed"}}}
             \cup {toServer[i].proxy : i \in {j \in DOMAIN toServer :
                                                toServer[j].t \in {"bind", "destroy"}}})

(* The registry's global callback: monitor_client and its like bind; what  *)
(* they refuse is not synchronised with either.                            *)
Global ==
    /\ Dispatch("global")
    /\ \E m \in {Head(toClient)} :
        \/ /\ m.kind \notin Kind
           /\ UNCHANGED <<toServer, syncVars, closure, proxyVars>>
        \/ /\ m.kind \in Kind
           /\ \E p \in FreeProxies :
                /\ \A q \in FreeProxies : p <= q
                /\ Register(m.id, m.kind, p)
                /\ closure' = [closure EXCEPT ![p] = [id |-> m.id, kind |-> m.kind]]
                /\ SyncGlobal([t |-> "bind", id |-> m.id, kind |-> m.kind, proxy |-> p])
    /\ UNCHANGED <<quit, initial, ready, mirror>>

(* A listener that has not been freed is called, though it be parked.      *)
Hears(p, role) ==
    [proxy |-> p, role |-> role] \in Listening(listeners) \cup garbageListeners

(* The object's info, reported under the id its proxy was bound for.       *)
Info ==
    /\ Dispatch("info")
    /\ \E p \in {Head(toClient).proxy} :
        IF Hears(p, "object")
        THEN /\ mirror' = mirror \cup {closure[p]}
             /\ initial' = initial \ {closure[p].id}
             /\ Sent
        ELSE UNCHANGED <<mirror, initial, quit>>
    /\ UNCHANGED <<toServer, syncVars, ready, closure, proxyVars>>

(* Mutant of Removed: the App is not told.                                 *)
RemovedSilently ==
    /\ Dispatch("removed")
    /\ \E p \in {Head(toClient).proxy} :
        IF Hears(p, "removed") THEN Unregister(closure[p].id) ELSE UNCHANGED proxyVars
    /\ UNCHANGED <<quit, initial, toServer, syncVars, ready, mirror, closure>>

(* The removed callback of a proxy: StateEvent::Removed takes the id from  *)
(* every map of the App, and remove takes every proxy under it.            *)
Removed ==
    /\ Dispatch("removed")
    /\ \E p \in {Head(toClient).proxy} :
        IF Hears(p, "removed")
        THEN /\ mirror' = {o \in mirror : o.id # closure[p].id}
             /\ Unregister(closure[p].id)
             /\ Sent
        ELSE UNCHANGED <<mirror, proxyVars, quit>>
    /\ UNCHANGED <<initial, toServer, syncVars, ready, closure>>

(* Mutant of Done: looks whether syncs are pending before it removes one.  *)
DoneTooLate ==
    /\ Dispatch("done")
    /\ IF syncsDone THEN UNCHANGED <<pending, syncsDone, ready, quit>>
       ELSE /\ pending' = pending \ {Head(toClient).seq}
            /\ syncsDone' = (pending = {})
            /\ IF syncsDone' THEN ready' = TRUE /\ Sent ELSE UNCHANGED <<ready, quit>>
    /\ UNCHANGED <<initial, toServer, nextSeq, mirror, closure, proxyVars>>

(* The core's done event: SyncRegistry::done, and Ready the first time.    *)
Done ==
    /\ Dispatch("done")
    /\ IF syncsDone THEN UNCHANGED <<pending, syncsDone, ready, quit>>
       ELSE /\ pending' = pending \ {Head(toClient).seq}
            /\ syncsDone' = (pending' = {})
            /\ IF syncsDone' THEN ready' = TRUE /\ Sent ELSE UNCHANGED <<ready, quit>>
    /\ UNCHANGED <<initial, toServer, nextSeq, mirror, closure, proxyVars>>

(* The watch on gc_fd.  A proxy freed while its object lives tells the     *)
(* server to forget it.                                                    *)
CollectProxies ==
    /\ phase = "running"
    /\ CollectGarbage
    /\ \E order \in InSomeOrder({[t |-> "destroy", proxy |-> p] : p \in
            {q \in garbageProxies : \/ \E r \in resources : r.proxy = q
                                   \/ \E i \in DOMAIN toServer :
                                        toServer[i].t = "bind" /\ toServer[i].proxy = q}}) :
        toServer' = toServer \o order
    /\ UNCHANGED <<threadVars, initial, toClient, syncVars, ready, mirror, closure>>
    /\ ServerIdle

(* The watch on the shutdown fd.                                           *)
ShutdownWatch ==
    /\ phase = "running" /\ shutdownArmed
    /\ quit' = TRUE
    /\ UNCHANGED <<phase, shutdownArmed, app, serverVars, toClient, toServer, syncVars,
                   ready, mirror, closure, proxyVars>>

(* main_loop.run returns, and the thread drops what it holds.              *)
ThreadEnds ==
    /\ phase = "running" /\ quit
    /\ phase' = "ended"
    /\ UNCHANGED <<quit, shutdownArmed, app, serverVars, toClient, toServer, syncVars,
                   ready, mirror, closure, proxyVars>>

-----------------------------------------------------------------------------
(* main: App::run returns, at any time, and the App drops its receiver ... *)
AppExits ==
    /\ app = "run" /\ app' = "exited"
    /\ UNCHANGED <<phase, quit, shutdownArmed, serverVars, toClient, toServer, syncVars,
                   ready, mirror, closure, proxyVars>>

(* Mutant of DropSession: joins without arming the fd.                     *)
DropJoins ==
    /\ app = "exited" /\ app' = "joining"
    /\ UNCHANGED <<phase, quit, shutdownArmed, serverVars, toClient, toServer, syncVars,
                   ready, mirror, closure, proxyVars>>

(* ... before Session::drop arms the fd and joins the thread.              *)
DropSession ==
    /\ app = "exited" /\ app' = "joining"
    /\ shutdownArmed' = TRUE
    /\ UNCHANGED <<phase, quit, serverVars, toClient, toServer, syncVars,
                   ready, mirror, closure, proxyVars>>

Join ==
    /\ app = "joining" /\ phase = "ended"
    /\ app' = "done"
    /\ UNCHANGED <<phase, quit, shutdownArmed, serverVars, toClient, toServer, syncVars,
                   ready, mirror, closure, proxyVars>>

ServerNext ==
    \/ \E id \in ObjectId :
        \/ ServerRemoves(id)
        \/ \E kind \in KindsOf[id] : ServerAdds(id, kind)
    \/ ServerAnswers

Callbacks == Global \/ Info \/ Removed \/ Done

LoopNext == Callbacks \/ CollectProxies \/ ShutdownWatch \/ ThreadEnds

AppNext == AppExits \/ DropSession \/ Join

SessionNext == ServerNext \/ Connect \/ LoopNext \/ AppNext

SessionSpec == SessionInit /\ [][SessionNext]_sessionVars

(* The server answers, connect returns, and the main loop serves each of   *)
(* its sources, those that are always ready included.  Only App::run need  *)
(* not return.                                                             *)
SessionFairness ==
    /\ WF_sessionVars(ServerAnswers) /\ WF_sessionVars(Connect)
    /\ WF_sessionVars(Callbacks) /\ WF_sessionVars(CollectProxies)
    /\ WF_sessionVars(ShutdownWatch) /\ WF_sessionVars(ThreadEnds)
    /\ WF_sessionVars(DropSession) /\ WF_sessionVars(Join)

FairSessionSpec == SessionSpec /\ SessionFairness

-----------------------------------------------------------------------------
(* When Ready is sent, the properties of every object that was on the      *)
(* server when the registry was asked for, and has not left since, have    *)
(* been (SyncRegistry: "all initial information").                         *)
ReadyAfterInitial == ready => initial = {}

(* Once nothing is in flight, the App knows the objects of the monitored   *)
(* kinds and no others, whatever removals and reuses of ids crossed the    *)
(* binds.  It holds where no id is used for two monitored kinds: the       *)
(* removal of a refused proxy takes the other kind's with it.              *)
SessionMirrors ==
    phase = "running" /\ toClient = <<>> /\ toServer = <<>> =>
        mirror = {o \in [id : ObjectId, kind : Kind] : objects[o.id] = o.kind}

(* And the proxy of each of them is held, with both of its listeners and   *)
(* no other under the id, so that later events and the removal will be     *)
(* heard.                                                                  *)
KnownAreHeard ==
    phase = "running" /\ toClient = <<>> /\ toServer = <<>> =>
        /\ {[id |-> e.id, kind |-> e.kind] : e \in proxies} = mirror
        /\ \A e \in proxies : Under(listeners, e.id) = Pair(e.id, e.proxy)

(* The dump comes to an end: if the thread lives on, the App becomes ready.*)
EventuallyReady == <>(ready \/ phase = "ended" \/ app # "run")

(* Dropping the session returns, whether the thread is connecting, in the  *)
(* dump, in a collection, or gone.                                         *)
JoinReturns == app = "joining" ~> app = "done"
=============================================================================
