------------------------------- MODULE Mixer -------------------------------
(***************************************************************************)
(* Volumes, mute, targets, routes and profiles: from the keys of the App,  *)
(* through View's methods, the command queue and execute_command, to the   *)
(* server, and back through the event queue, State::update and             *)
(* Node::from.  Every key computes what it sends from the View, which lags *)
(* behind the server by both queues; other clients act meanwhile.          *)
(*                                                                         *)
(* One stream, one sound card, and the sink the card has in some of its    *)
(* profiles.  A setting is what has volumes and mute of its own: a node,   *)
(* or a route of the card, which while active replaces its node's.  Volume *)
(* is counted in steps of the cube root the code adds to.  A queue stands  *)
(* for the channel between the threads and the socket behind it.  Both     *)
(* nodes are on the screen, and a frame is due whenever one is needed.  Of *)
(* the two the stream is captured: its capture stream reports new peaks.   *)
(***************************************************************************)
EXTENDS Integers, Sequences, FiniteSets

CONSTANTS
    None,
    Route,          \* the routes of the card
    Profile,
    ProfilesOf,     \* [Route -> SUBSET Profile]
    SinkProfiles,   \* the profiles in which the card has the sink
    Initial,        \* [Setting -> volumes]
    MaxLevel,       \* config.max_volume_percent, enforced
    AbsoluteLevels, \* the levels the number keys set
    OtherVolumes,   \* [Setting -> SUBSET volumes]: what other clients set
    MaxKeys,        \* bound: keys pressed
    MaxOthers,      \* bound: acts of other clients
    MaxPeaks,       \* bound: peak events
    MaxActs         \* bound: all of these together

Node == {"stream", "sink"}
Setting == Node \cup Route

(* The volumes a setting can have: it keeps its channels.                  *)
VolumesOf(x) == [DOMAIN Initial[x] -> 0 .. MaxLevel]

ASSUME NodeAssumption == Node \cap Route = {}
ASSUME LevelAssumption == MaxLevel \in Nat /\ AbsoluteLevels \subseteq Nat
ASSUME ProfileAssumption ==
    ProfilesOf \in [Route -> SUBSET Profile] /\ SinkProfiles \subseteq Profile
ASSUME VolumesAssumption ==
    \A x \in Setting : Initial[x] \in VolumesOf(x) /\ OtherVolumes[x] \subseteq VolumesOf(x)

(* What State may hold of a node and of the card's route, as it is told,   *)
(* and what the View holds of a node.                                      *)
AnyVolumes == UNION {VolumesOf(x) : x \in Setting}
NodeRecord == [known : BOOLEAN, volumes : AnyVolumes \cup {None}, mute : BOOLEAN \cup {None}]
RouteRecord == [index : Route, volumes : AnyVolumes, mute : BOOLEAN]
ViewRecord == [volumes : AnyVolumes, mute : BOOLEAN, at : Setting,
               target : Route \cup {None, "chosen", "default"}, isDefault : BOOLEAN]

Unset == "unset"    \* a metadata value of -1

(* None is told apart from all it stands for the absence of.               *)
ASSUME NoneAssumption ==
    /\ None # Unset
    /\ None \notin Setting /\ None \notin BOOLEAN /\ None \notin AnyVolumes
    /\ None \notin NodeRecord /\ None \notin RouteRecord /\ None \notin ViewRecord

VARIABLES
    server,     \* what PipeWire and the session manager hold
    commands,   \* on their way to the server
    events,     \* on their way to the App
    peaksDirty, \* Node::peaks_dirty of the stream, shared by the threads
    state,      \* wirehose::State
    dirty,      \* App::state_dirty
    view,       \* App::view
    visible,    \* App::visible_objects
    needsRender,    \* of App::run
    screen,     \* the nodes as last drawn
    keys, others, peaks,    \* counted for the bounds
    reach,      \* levels that keys and others have asked of each channel
    chosen,     \* the target of the stream, if the App was last to set it
    missed      \* history: a peak event cancelled a rebuild, and the view,
                \* or only the screen by now, has still to make up for it

appVars == <<state, dirty, view, visible, screen, missed>>
vars == <<server, commands, events, peaksDirty, appVars, needsRender, keys, others, peaks, reach,
          chosen>>

NoMetadata == [object |-> None, node |-> None, default |-> None]

-----------------------------------------------------------------------------
(* What the App derives from its state.                                    *)

(* active_route: the route of the sink's card device, if the profile has   *)
(* it.                                                                     *)
ActiveRoute(st) ==
    IF st.route # None /\ st.profile \in ProfilesOf[st.route.index]
    THEN st.route ELSE None

(* has_target.                                                             *)
HasTarget(metadata) == metadata.node \notin {None, Unset} \/ metadata.object \notin {None, Unset}

(* Mutant of NodeView: any route the card last reported counts.            *)
NodeViewAnyRoute(st, n) ==
    LET own == st.node[n]
        of == IF n = "sink" /\ st.route # None THEN st.route ELSE own
    IN  IF own = None \/ ~own.known \/ None \in {of.volumes, of.mute} THEN None
        ELSE [volumes |-> of.volumes, mute |-> of.mute,
              at |-> IF n = "sink" /\ st.route # None THEN st.route.index ELSE n,
              target |-> None,
              isDefault |-> n = st.metadata.default]

(* Node::from: a device node has the volumes and mute of the active route; *)
(* `at` is the setting its keys act on, which device_info tells.           *)
NodeView(st, n) ==
    LET own == st.node[n]
        active == IF n = "sink" THEN ActiveRoute(st) ELSE None
        of == IF active # None THEN active ELSE own
    IN  IF own = None \/ ~own.known \/ None \in {of.volumes, of.mute} THEN None
        ELSE [volumes |-> of.volumes, mute |-> of.mute,
              at |-> IF active # None THEN active.index ELSE n,
              target |-> IF n = "sink" THEN (IF active = None THEN None ELSE active.index)
                         ELSE IF HasTarget(st.metadata) THEN "chosen" ELSE "default",
              isDefault |-> n = st.metadata.default]

(* route_targets: the routes of the sink's profile.                        *)
RouteTargets(st) == {r \in Route : st.profile \in ProfilesOf[r]}

(* View::from; metadata_id, and the routes and profile of Device::from.    *)
ViewOf(st) ==
    [node |-> [n \in Node |-> NodeView(st, n)],
     routes |-> RouteTargets(st),
     profile |-> st.profile,
     metadata |-> st.metadataId]

(* Mutant of VisibleObjects: the card is not among them.                   *)
VisibleNodes(v) == {"core"} \cup {n \in Node : v.node[n] # None}

(* ObjectList::visible_objects: the nodes, which are also the targets, and *)
(* the device a node gets its volumes from.                                *)
VisibleObjects(v) ==
    {"core"} \cup {n \in Node : v.node[n] # None}
        \cup {"card" : n \in {m \in Node : v.node[m] # None /\ v.node[m].at \in Route}}

(* The state of an App that has been told everything about a server.       *)
NodeKnown(s, n) ==
    IF n = "sink" /\ s.profile \notin SinkProfiles THEN None
    ELSE [known |-> TRUE, volumes |-> s.set[n].volumes, mute |-> s.set[n].mute]

RouteKnown(s, r) ==
    IF r = None THEN None
    ELSE [index |-> r, volumes |-> s.set[r].volumes, mute |-> s.set[r].mute]

StateOf(s) ==
    [node |-> [n \in Node |-> NodeKnown(s, n)],
     route |-> RouteKnown(s, s.route),
     profile |-> s.profile,
     metadata |-> s.metadata,
     metadataId |-> s.metadataId]

(* After the initial dump.                                                 *)
Init ==
    /\ server \in {[set |-> [x \in Setting |-> [volumes |-> Initial[x], mute |-> FALSE]],
                    profile |-> p, route |-> r,
                    metadata |-> NoMetadata, metadataId |-> 1] :
                        p \in Profile, r \in Route \cup {None}}
    /\ LET routes == {r \in Route : server.profile \in ProfilesOf[r]}
       IN  IF routes = {} THEN server.route = None ELSE server.route \in routes
    /\ commands = <<>> /\ events = <<>>
    /\ state = StateOf(server) /\ dirty = FALSE /\ view = ViewOf(state)
    /\ visible = VisibleObjects(view) /\ needsRender = FALSE /\ screen = view.node
    /\ keys = 0 /\ others = 0 /\ peaks = 0
    /\ reach = [x \in Setting |-> [c \in DOMAIN Initial[x] |->
                                       [low |-> Initial[x][c], high |-> Initial[x][c]]]]
    /\ chosen = None
    /\ peaksDirty = FALSE /\ missed = "no"

-----------------------------------------------------------------------------
(* Keys of the App.                                                        *)

More == keys + others + peaks < MaxActs

(* A key handled asks for a redraw.                                        *)
Pressed == More /\ keys < MaxKeys /\ keys' = keys + 1 /\ needsRender' = TRUE
ServerIdle == UNCHANGED <<server, events, peaksDirty, others, peaks, chosen>>
AppIdle == UNCHANGED appVars

Send(cs) == commands' = commands \o cs

Stepped(level, d) == IF level + d > 0 THEN level + d ELSE 0
TooLoud(level, d) == d > 0 /\ level > MaxLevel

(* The key has asked for d steps, or for a level, of some channels.        *)
Asked(x, channels, d) ==
    reach' = [reach EXCEPT ![x] = [c \in DOMAIN reach[x] |->
                LET was == reach[x][c] IN
                IF c \notin channels THEN was
                ELSE IF d > 0 THEN [was EXCEPT !.high = was.high + d]
                ELSE [was EXCEPT !.low = Stepped(was.low, d)]]]

AskedLevel(x, channels, level) ==
    reach' = [reach EXCEPT ![x] = [c \in DOMAIN reach[x] |->
                LET was == reach[x][c] IN
                IF c \notin channels THEN was
                ELSE [low |-> IF level < was.low THEN level ELSE was.low,
                      high |-> IF level > was.high THEN level ELSE was.high]]]

Volumes(at, volumes) == [op |-> "volumes", at |-> at, volumes |-> volumes]

(* Mutants of Relative: the channels are set to the loudest and a step; the*)
(* step is checked before it is made.                                      *)
RelativeFromLoudest(n, channels, d) ==
    LET v == view.node[n] IN
    /\ Pressed /\ ServerIdle /\ AppIdle
    /\ v # None /\ channels # {}
    /\ LET loudest == CHOOSE l \in {v.volumes[c] : c \in channels} :
                          \A c \in channels : v.volumes[c] <= l
           after == [c \in DOMAIN v.volumes |->
                         IF c \in channels THEN Stepped(loudest, d) ELSE v.volumes[c]]
       IN  /\ \A c \in channels : ~TooLoud(after[c], d)
           /\ Send(<<Volumes(v.at, after)>>)
    /\ Asked(v.at, channels, d)

RelativeCheckedBefore(n, channels, d) ==
    LET v == view.node[n] IN
    /\ Pressed /\ ServerIdle /\ AppIdle
    /\ v # None /\ channels # {}
    /\ \A c \in channels : ~TooLoud(v.volumes[c], d)
    /\ Send(<<Volumes(v.at, [c \in DOMAIN v.volumes |->
                IF c \in channels THEN Stepped(v.volumes[c], d) ELSE v.volumes[c]])>>)
    /\ Asked(v.at, channels, d)

(* View::volume and View::channel_volume, Relative: all channels, or one;  *)
(* refused if a channel it raises would pass the maximum.                  *)
Relative(n, channels, d) ==
    LET v == view.node[n]
        after == [c \in DOMAIN v.volumes |->
                      IF c \in channels THEN Stepped(v.volumes[c], d) ELSE v.volumes[c]]
    IN
    /\ Pressed /\ ServerIdle /\ AppIdle
    /\ v # None /\ channels # {}
    /\ \A c \in channels : ~TooLoud(after[c], d)
    /\ Send(<<Volumes(v.at, after)>>)
    /\ Asked(v.at, channels, d)

(* Absolute; set_absolute_volume is called twice for all channels.         *)
Absolute(n, channels, level) ==
    LET v == view.node[n]
        after == [c \in DOMAIN v.volumes |-> IF c \in channels THEN level ELSE v.volumes[c]]
        command == Volumes(v.at, after)
    IN
    /\ Pressed /\ ServerIdle /\ AppIdle
    /\ v # None /\ channels # {}
    /\ level <= MaxLevel
    /\ Send(IF channels = DOMAIN v.volumes THEN <<command, command>> ELSE <<command>>)
    /\ AskedLevel(v.at, channels, level)

(* View::mute.                                                             *)
Mute(n) ==
    /\ Pressed /\ ServerIdle /\ AppIdle /\ UNCHANGED reach
    /\ view.node[n] # None
    /\ Send(<<[op |-> "mute", at |-> view.node[n].at, mute |-> ~view.node[n].mute]>>)

Metadata(key, value) ==
    [op |-> "metadata", at |-> view.metadata, key |-> key, value |-> value]

(* Mutant of SetTarget: the default only unsets the object.                *)
SetTargetObjectOnly(target) ==
    /\ Pressed /\ ServerIdle /\ AppIdle /\ UNCHANGED reach
    /\ view.node["stream"] # None /\ view.metadata # None
    /\ Send(IF target = "default" THEN <<Metadata("object", Unset)>>
            ELSE <<Metadata("object", None), Metadata("node", "sink")>>)

(* View::set_target of the stream: two writes, the object first.           *)
SetTarget(target) ==
    /\ Pressed /\ ServerIdle /\ AppIdle /\ UNCHANGED reach
    /\ view.node["stream"] # None /\ view.metadata # None
    /\ Send(IF target = "default"
            THEN <<Metadata("object", Unset), Metadata("node", Unset)>>
            ELSE <<Metadata("object", None), Metadata("node", "sink")>>)

(* View::set_target of a route of the sink or a profile of the card: it    *)
(* too returns early when there is no metadata.                            *)
SetRoute(r) ==
    /\ Pressed /\ ServerIdle /\ AppIdle /\ UNCHANGED reach
    /\ view.node["sink"] # None /\ view.metadata # None /\ r \in view.routes
    /\ Send(<<[op |-> "route", at |-> r]>>)

SetProfile(p) ==
    /\ Pressed /\ ServerIdle /\ AppIdle /\ UNCHANGED reach
    /\ view.metadata # None /\ p # view.profile
    /\ Send(<<[op |-> "profile", at |-> p]>>)

(* View::set_default, of the sink.                                         *)
SetDefault ==
    /\ Pressed /\ ServerIdle /\ AppIdle /\ UNCHANGED reach
    /\ view.node["sink"] # None /\ view.metadata # None
    /\ Send(<<Metadata("default", "sink")>>)

Key ==
    \/ \E n \in Node :
        /\ view.node[n] # None
        /\ LET all == DOMAIN view.node[n].volumes
               Channels == {all} \cup {{c} : c \in all}
           IN  \/ \E cs \in Channels, d \in {-1, 1} : Relative(n, cs, d)
               \/ \E cs \in Channels, l \in AbsoluteLevels : Absolute(n, cs, l)
    \/ \E n \in Node : Mute(n)
    \/ \E target \in {"default", "sink"} : SetTarget(target)
    \/ \E r \in Route : SetRoute(r)
    \/ \E p \in Profile : SetProfile(p)
    \/ SetDefault

-----------------------------------------------------------------------------
(* The server, and what the monitors send when told by it.                 *)

(* node_param_props: channelVolumes and mute are two events.               *)
NodeEvents(s, n) ==
    <<[type |-> "volumes", id |-> n, volumes |-> s.set[n].volumes],
      [type |-> "mute", id |-> n, mute |-> s.set[n].mute]>>

(* The property listener of the metadata: one event for the key set.       *)
MetadataEvents(key, value) == <<[type |-> "metadata", key |-> key, value |-> value]>>

RouteEvents(s) ==
    IF s.route = None THEN <<>>
    ELSE <<[type |-> "route", route |-> RouteKnown(s, s.route)]>>

(* device_profile.                                                         *)
ProfileEvents(s) == <<[type |-> "profile", profile |-> s.profile]>>

(* A change of profile: the sink goes and comes back under its id, the card*)
(* reports profile and route in either order, and the sink's info follows. *)
ProfileReports(s) ==
    LET profile == ProfileEvents(s)
        gone == <<[type |-> "removed", id |-> "sink"]>>
        back == IF s.profile \in SinkProfiles
                THEN <<[type |-> "properties", id |-> "sink"]>> \o NodeEvents(s, "sink")
                ELSE <<>>
    IN  UNION {{gone \o card \o back, card \o gone \o back, gone \o back \o card} :
                   card \in {profile \o RouteEvents(s), RouteEvents(s) \o profile}}

(* What a command, or an act of another client, leaves of the server, with *)
(* the events that follow.  Volumes or mute of a route also select it: all *)
(* are one Route parameter.                                                *)
After(c) ==
    LET s == server IN
    CASE c.op \in {"volumes", "mute"} /\ c.at \in Node ->
            IF c.at = "sink" /\ s.profile \notin SinkProfiles THEN {}
            ELSE LET t == IF c.op = "mute" THEN [s EXCEPT !.set[c.at].mute = c.mute]
                          ELSE [s EXCEPT !.set[c.at].volumes = c.volumes]
                 IN  {<<t, NodeEvents(t, c.at)>>}
      [] c.op \in {"volumes", "mute", "route"} /\ c.at \in Route ->
            IF s.profile \notin ProfilesOf[c.at] THEN {}
            ELSE LET u == [s EXCEPT !.route = c.at]
                     t == CASE c.op = "mute" -> [u EXCEPT !.set[c.at].mute = c.mute]
                            [] c.op = "volumes" -> [u EXCEPT !.set[c.at].volumes = c.volumes]
                            [] OTHER -> u
                 IN  {<<t, RouteEvents(t)>>}
      [] c.op = "profile" ->
            LET routes == {r \in Route : c.at \in ProfilesOf[r]}
            IN  UNION {LET t == [s EXCEPT !.profile = c.at, !.route = r]
                       IN  {<<t, es>> : es \in ProfileReports(t)} :
                       r \in IF routes = {} THEN {None} ELSE routes}
      [] c.op = "metadata" ->
            IF c.at # s.metadataId THEN {}
            ELSE {<<[s EXCEPT !.metadata[c.key] = c.value],
                    MetadataEvents(c.key, c.value)>>}

Does(c) ==
    IF After(c) = {} THEN UNCHANGED <<server, events>>
    ELSE \E after \in After(c) : server' = after[1] /\ events' = events \o after[2]

(* execute_command and the server; the last to set the target is noted.    *)
Execute ==
    /\ commands # <<>>
    /\ commands' = Tail(commands)
    /\ Does(Head(commands))
    /\ chosen' = IF Head(commands).op = "metadata" /\ Head(commands).at = server.metadataId
                 THEN CASE Head(commands).key = "object" ->
                              IF Head(commands).value = Unset THEN "default" ELSE "chosen"
                        [] OTHER -> chosen
                 ELSE chosen
    /\ UNCHANGED <<peaksDirty, needsRender, keys, others, peaks, reach>> /\ AppIdle

Other == More /\ others < MaxOthers /\ others' = others + 1

(* Another client sets volumes, switches route or profile (a plug), moves  *)
(* the stream to the sink, which it is linked to anyway; the session       *)
(* manager goes and comes back.                                            *)
OtherVolume(x, v) ==
    /\ Other
    /\ x \in Route => server.route = x
    /\ Does(Volumes(x, v))
    /\ reach' = [reach EXCEPT ![x] = [c \in DOMAIN reach[x] |->
                    LET was == reach[x][c] IN
                    [low |-> IF v[c] < was.low THEN v[c] ELSE was.low,
                     high |-> IF v[c] > was.high THEN v[c] ELSE was.high]]]
    /\ UNCHANGED <<commands, peaksDirty, needsRender, keys, peaks, chosen>> /\ AppIdle

OtherRoute(r) ==
    /\ Other
    /\ Does([op |-> "route", at |-> r])
    /\ UNCHANGED <<commands, peaksDirty, needsRender, keys, peaks, reach, chosen>> /\ AppIdle

OtherTarget(value) ==
    /\ Other
    /\ server.metadataId # None
    /\ Does([op |-> "metadata", at |-> server.metadataId, key |-> "object", value |-> value])
    /\ chosen' = None
    /\ UNCHANGED <<commands, peaksDirty, needsRender, keys, peaks, reach>> /\ AppIdle

SessionManagerGone ==
    /\ Other
    /\ server.metadataId = 1
    /\ server' = [server EXCEPT !.metadata = NoMetadata, !.metadataId = None]
    /\ events' = Append(events, [type |-> "removed", id |-> "metadata"])
    /\ chosen' = None
    /\ UNCHANGED <<commands, peaksDirty, needsRender, keys, peaks, reach>> /\ AppIdle

SessionManagerBack ==
    /\ server.metadataId = None
    /\ server' = [server EXCEPT !.metadataId = 2]
    /\ events' = Append(events, [type |-> "name", id |-> 2])
    /\ UNCHANGED <<commands, peaksDirty, needsRender, keys, others, peaks, reach, chosen>> /\ AppIdle

(* The process callback of the stream's capture finds new peaks; it tells  *)
(* the App if the flag was clear.                                          *)
Peaks ==
    /\ More /\ peaks < MaxPeaks /\ peaks' = peaks + 1
    /\ ~peaksDirty
    /\ peaksDirty' = TRUE
    /\ events' = Append(events, [type |-> "peaks", id |-> "stream"])
    /\ UNCHANGED <<server, commands, needsRender, keys, others, reach, chosen>> /\ AppIdle

Outside ==
    \/ Peaks
    \/ \E x \in Setting : \E v \in OtherVolumes[x] : OtherVolume(x, v)
    \/ \E r \in Route : OtherRoute(r)
    \/ \E value \in {Unset, "sink"} : OtherTarget(value)
    \/ SessionManagerGone
    \/ SessionManagerBack

-----------------------------------------------------------------------------
(* The App's thread.                                                       *)

(* node_entry.                                                             *)
Entry(st, n) ==
    IF st.node[n] # None THEN st.node[n]
    ELSE [known |-> FALSE, volumes |-> None, mute |-> None]

(* A removed node or metadata takes what was known of it along.            *)
Forgotten(st, id) ==
    IF id = "metadata" THEN [st EXCEPT !.metadata = NoMetadata, !.metadataId = None]
    ELSE [st EXCEPT !.node[id] = None]

(* State::update: the card's one route slot keeps the last reported.       *)
Updated(st, e) ==
    CASE e.type = "properties" ->
            [st EXCEPT !.node[e.id] = [Entry(st, e.id) EXCEPT !.known = TRUE]]
      [] e.type = "volumes" ->
            [st EXCEPT !.node[e.id] = [Entry(st, e.id) EXCEPT !.volumes = e.volumes]]
      [] e.type = "mute" ->
            [st EXCEPT !.node[e.id] = [Entry(st, e.id) EXCEPT !.mute = e.mute]]
      [] e.type = "route" -> [st EXCEPT !.route = e.route]
      [] e.type = "profile" -> [st EXCEPT !.profile = e.profile]
      [] e.type = "name" -> [st EXCEPT !.metadataId = e.id]
      [] e.type = "metadata" -> [st EXCEPT !.metadata[e.key] = e.value]
      [] e.type = "removed" -> Forgotten(st, e.id)
      [] e.type = "peaks" -> st

(* StateEvent::affected_objects: of metadata, only what is said of the core*)
(* affects an object, and only while there is metadata.                    *)
Affected(st, e) ==
    CASE e.type \in {"route", "profile"} -> {"card"}
      [] e.type = "name" -> {"metadata"}
      [] e.type = "metadata" ->
            IF e.key = "default" /\ st.metadataId # None THEN {"core"} ELSE {}
      [] OTHER -> {e.id}

(* StateEvent::handle: "Peaks are shared between state and view", so their *)
(* event needs no rebuild; it takes back one that an event before needs.   *)
HandleEvent ==
    /\ events # <<>>
    /\ events' = Tail(events)
    /\ needsRender' = (needsRender \/ Affected(state, Head(events)) \cap visible # {})
    /\ state' = Updated(state, Head(events))
    /\ dirty' = (Head(events).type # "peaks")
    /\ missed' = IF dirty /\ ~dirty' THEN "view" ELSE missed
    /\ UNCHANGED <<server, commands, peaksDirty, view, visible, screen, keys, others, peaks, reach,
                   chosen>>

(* A turn of App::run: the view is rebuilt if dirty, and drawn, meters     *)
(* included, if an event or a change of the visible objects needs it.      *)
Turn ==
    /\ dirty \/ needsRender
    /\ view' = IF dirty THEN ViewOf(state) ELSE view
    /\ dirty' = FALSE
    /\ visible' = VisibleObjects(view')
    /\ needsRender' = FALSE
    /\ LET draws == needsRender \/ visible' # visible IN
       /\ screen' = IF draws THEN view'.node ELSE screen
       /\ peaksDirty' = (peaksDirty /\ ~(draws /\ view'.node["stream"] # None))
       /\ missed' = CASE missed = "view" /\ ~dirty -> "view"
                      [] missed # "no" /\ ~draws -> "screen"
                      [] OTHER -> "no"
    /\ UNCHANGED <<server, commands, events, state, keys, others, peaks, reach, chosen>>

Next == Key \/ Execute \/ Outside \/ HandleEvent \/ Turn

Spec == Init /\ [][Next]_vars

-----------------------------------------------------------------------------
(* Properties.                                                             *)

AtRest == commands = <<>> /\ events = <<>> /\ ~dirty /\ ~needsRender

(* What a view v shows is what the server has.                             *)
Current(v) ==
    /\ v.profile = server.profile /\ v.metadata = server.metadataId
    /\ \A n \in Node :
        LET at == IF n = "sink" /\ server.route # None THEN server.route ELSE n
        IN  IF n = "sink" /\ server.profile \notin SinkProfiles THEN v.node[n] = None
            ELSE /\ v.node[n] # None
                 /\ v.node[n].at = at
                 /\ v.node[n].volumes = server.set[at].volumes
                 /\ v.node[n].mute = server.set[at].mute
                 /\ v.node[n].isDefault <=> server.metadata.default = n

(* Once the queues are empty every view that is built shows the server's   *)
(* volumes, mute, targets, routes and default: "Nodes for devices should   *)
(* get their volume and mute status from the associated device's active    *)
(* route", whatever routes and profiles came between and in which order    *)
(* they were reported.  So does the view there is, but for a rebuild that a*)
(* peak event has cancelled and no event has asked for again.              *)
ViewAtRest ==
    commands = <<>> /\ events = <<>> =>
        /\ Current(ViewOf(state))
        /\ ~dirty /\ missed # "view" => Current(view)

(* Once at rest the screen shows the volumes, mute and route of the view:  *)
(* no event changes them without a redraw, for visible_objects "includes   *)
(* all dependencies that affect the display", here the device of a node.   *)
(* But what a cancelled rebuild has left out, a later one, for an event    *)
(* that affects nothing on the screen, leaves to the next redraw.          *)
ScreenAtRest ==
    AtRest /\ missed = "no" =>
        \A n \in Node :
            /\ screen[n] = None <=> view.node[n] = None
            /\ screen[n] # None =>
                /\ screen[n].at = view.node[n].at
                /\ screen[n].volumes = view.node[n].volumes
                /\ screen[n].mute = view.node[n].mute

(* The same doc, of the target a node shows.                               *)
TargetOnScreen ==
    AtRest /\ missed = "no" /\ screen["stream"] # None /\ view.node["stream"] # None
        => screen["stream"].target = view.node["stream"].target

(* No channel ever leaves the range that keys on that channel, and other   *)
(* clients, have asked of it, although every step is computed from a view  *)
(* that may be old and sends all channels.                                 *)
StepsWithinKeys ==
    \A x \in Setting : \A c \in DOMAIN server.set[x].volumes :
        /\ reach[x][c].low <= server.set[x].volumes[c]
        /\ server.set[x].volumes[c] <= reach[x][c].high

(* With enforce_max_volume no sequence of keys takes a channel past the    *)
(* maximum, while no other client does.                                    *)
MaxRespected ==
    \A x \in Setting : \A c \in DOMAIN server.set[x].volumes :
        server.set[x].volumes[c] <= MaxLevel

(* A target the App set last, uninterrupted, is the one shown: the two     *)
(* writes of set_target leave nothing of an earlier target that has_target *)
(* would count.  Shown by every view built once the queues are empty, and  *)
(* by the view there is, with the exception of ViewAtRest.                 *)
ShowsChosen(v) == v.node["stream"] # None => v.node["stream"].target = chosen

ChosenTargetKept ==
    commands = <<>> /\ events = <<>> /\ chosen # None =>
        /\ ShowsChosen(ViewOf(state))
        /\ ~dirty /\ missed # "view" => ShowsChosen(view)
=============================================================================
