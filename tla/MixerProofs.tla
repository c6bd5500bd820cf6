---------------------------- MODULE MixerProofs ----------------------------
(***************************************************************************)
(* Volumes, targets and what the screen shows of them, for any channels,   *)
(* routes, profiles and levels, and any number of keys and other clients.  *)
(***************************************************************************)
EXTENDS Mixer, TLAPS

(* The range of what has been asked of each channel, and volumes in it.    *)
Reach(r) ==
    /\ DOMAIN r = Setting
    /\ \A x \in Setting : r[x] \in [DOMAIN Initial[x] -> [low : Nat, high : Nat]]

Fitting(x, r) ==
    {v \in VolumesOf(x) : \A c \in DOMAIN Initial[x] : r[x][c].low <= v[c] /\ v[c] <= r[x][c].high}

MetaValue == {None, Unset, "sink"}
MetaKey == {"object", "node", "default"}
MetaId == {None, 1, 2}
MetaRecord == [object : MetaValue, node : MetaValue, default : MetaValue]

(* What the server and State may hold, what may be on its way, and what    *)
(* the View may show: volumes everywhere in the range.                     *)
Server(r) ==
    {s \in [set : [Setting -> [volumes : AnyVolumes, mute : BOOLEAN]],
            profile : Profile, route : Route \cup {None},
            metadata : MetaRecord, metadataId : MetaId] :
        \A x \in Setting : s.set[x].volumes \in Fitting(x, r)}

NodesKnown(n, r) ==
    {k \in NodeRecord : k.volumes # None => k.volumes \in Fitting(n, r)}

RoutesKnown(r) == {k \in RouteRecord : k.volumes \in Fitting(k.index, r)}

States(r) ==
    {st \in [node : [Node -> NodeRecord \cup {None}], route : RoutesKnown(r) \cup {None},
             profile : Profile, metadata : MetaRecord, metadataId : MetaId] :
        \A n \in Node : st.node[n] \in NodesKnown(n, r) \cup {None}}

Commands(r) ==
    {c \in [op : {"volumes"}, at : Setting, volumes : AnyVolumes] : c.volumes \in Fitting(c.at, r)}
        \cup [op : {"mute"}, at : Setting, mute : BOOLEAN]
        \cup [op : {"route"}, at : Route]
        \cup [op : {"profile"}, at : Profile]
        \cup [op : {"metadata"}, at : MetaId, key : MetaKey, value : MetaValue]

Events(r) ==
    [type : {"properties"}, id : Node]
        \cup {e \in [type : {"volumes"}, id : Node, volumes : AnyVolumes] :
                 e.volumes \in Fitting(e.id, r)}
        \cup [type : {"mute"}, id : Node, mute : BOOLEAN]
        \cup [type : {"route"}, route : RoutesKnown(r)]
        \cup [type : {"profile"}, profile : Profile]
        \cup [type : {"name"}, id : {1, 2}]
        \cup [type : {"metadata"}, key : MetaKey, value : MetaValue]
        \cup [type : {"removed"}, id : {"sink", "metadata"}]
        \cup [type : {"peaks"}, id : {"stream"}]

NodesViewed(n, r) ==
    {v \in ViewRecord : /\ v.at \in IF n = "sink" THEN {n} \cup Route ELSE {n}
                        /\ v.volumes \in Fitting(v.at, r)}

Views(r) ==
    {v \in [node : [Node -> ViewRecord \cup {None}], routes : SUBSET Route,
            profile : Profile, metadata : MetaId] :
        \A n \in Node : v.node[n] \in NodesViewed(n, r) \cup {None}}

MixerOK ==
    /\ Reach(reach)
    /\ server \in Server(reach)
    /\ commands \in Seq(Commands(reach))
    /\ events \in Seq(Events(reach))
    /\ state \in States(reach)
    /\ view \in Views(reach)
    /\ dirty \in BOOLEAN /\ needsRender \in BOOLEAN
    /\ missed \in {"no", "view", "screen"}
    /\ visible = VisibleObjects(view)

Wider(r, q) ==
    \A x \in Setting : \A c \in DOMAIN Initial[x] :
        q[x][c].low <= r[x][c].low /\ r[x][c].high <= q[x][c].high

-----------------------------------------------------------------------------
LEMMA VolumesFacts ==
    ASSUME NEW x \in Setting
    PROVE  /\ \A v \in VolumesOf(x) : v \in AnyVolumes /\ DOMAIN v = DOMAIN Initial[x]
           /\ \A v \in VolumesOf(x), c \in DOMAIN Initial[x] : v[c] \in Nat /\ v[c] <= MaxLevel
BY LevelAssumption DEF VolumesOf, AnyVolumes

(* What fits a range fits a wider one. *)
LEMMA WiderFits ==
    ASSUME NEW r, NEW q, Reach(r), Reach(q), Wider(r, q)
    PROVE  \A x \in Setting : Fitting(x, r) \subseteq Fitting(x, q)
<1> SUFFICES ASSUME NEW x \in Setting, NEW v \in Fitting(x, r), NEW c \in DOMAIN Initial[x]
             PROVE  q[x][c].low <= v[c] /\ v[c] <= q[x][c].high
  BY DEF Fitting
<1>1. v[c] \in Nat /\ r[x][c].low <= v[c] /\ v[c] <= r[x][c].high
  BY VolumesFacts DEF Fitting
<1>2. q[x][c].low <= r[x][c].low /\ r[x][c].high <= q[x][c].high
  BY DEF Wider
<1>3. r[x][c].low \in Nat /\ r[x][c].high \in Nat /\ q[x][c].low \in Nat /\ q[x][c].high \in Nat
  BY DEF Reach
<1> QED
  BY <1>1, <1>2, <1>3

LEMMA WiderSets ==
    ASSUME NEW r, NEW q, Reach(r), Reach(q), Wider(r, q)
    PROVE  /\ Server(r) \subseteq Server(q) /\ States(r) \subseteq States(q)
           /\ Commands(r) \subseteq Commands(q) /\ Events(r) \subseteq Events(q)
           /\ Views(r) \subseteq Views(q)
<1>1. \A x \in Setting : Fitting(x, r) \subseteq Fitting(x, q)
  BY WiderFits
<1>2. \A n \in Node : NodesKnown(n, r) \subseteq NodesKnown(n, q)
  BY <1>1 DEF NodesKnown, Setting
<1>3. RoutesKnown(r) \subseteq RoutesKnown(q)
  BY <1>1 DEF RoutesKnown, RouteRecord, Setting
<1>4. \A n \in Node : NodesViewed(n, r) \subseteq NodesViewed(n, q)
  BY <1>1 DEF NodesViewed, ViewRecord
<1>5. Server(r) \subseteq Server(q)
  BY <1>1 DEF Server
<1>6. States(r) \subseteq States(q)
  BY <1>2, <1>3 DEF States
<1>7. Commands(r) \subseteq Commands(q)
  BY <1>1 DEF Commands
<1>8. Events(r) \subseteq Events(q)
  BY <1>1, <1>3 DEF Events, Setting
<1>9. Views(r) \subseteq Views(q)
  BY <1>4 DEF Views
<1> QED
  BY <1>5, <1>6, <1>7, <1>8, <1>9

LEMMA SeqWider ==
    ASSUME NEW S, NEW T, S \subseteq T, NEW s \in Seq(S)
    PROVE  s \in Seq(T)
OBVIOUS

(* A wider range alone disturbs nothing. *)
LEMMA Widened ==
    ASSUME MixerOK, NEW q, Reach(q), Wider(reach, q)
    PROVE  /\ server \in Server(q) /\ state \in States(q) /\ view \in Views(q)
           /\ commands \in Seq(Commands(q)) /\ events \in Seq(Events(q))
<1>1. /\ Server(reach) \subseteq Server(q) /\ States(reach) \subseteq States(q)
      /\ Commands(reach) \subseteq Commands(q) /\ Events(reach) \subseteq Events(q)
      /\ Views(reach) \subseteq Views(q)
  BY WiderSets DEF MixerOK
<1>2. commands \in Seq(Commands(q)) /\ events \in Seq(Events(q))
  BY <1>1, SeqWider DEF MixerOK
<1> QED
  BY <1>1, <1>2 DEF MixerOK

-----------------------------------------------------------------------------
(* The App and the server keep volumes in the range.                       *)
LEMMA ActiveRouteKnown ==
    ASSUME NEW r, NEW st \in States(r)
    PROVE  /\ ActiveRoute(st) \in RoutesKnown(r) \cup {None}
           /\ ActiveRoute(st) # None =>
                ActiveRoute(st) = st.route /\ st.profile \in ProfilesOf[st.route.index]
BY DEF ActiveRoute, States

LEMMA NodeViewFits ==
    ASSUME NEW r, NEW st \in States(r), NEW n \in Node
    PROVE  NodeView(st, n) \in NodesViewed(n, r) \cup {None}
<1> DEFINE own == st.node[n]
           active == IF n = "sink" THEN ActiveRoute(st) ELSE None
           of == IF active # None THEN active ELSE own
<1> SUFFICES ASSUME own # None, own.known, None \notin {of.volumes, of.mute}
             PROVE  NodeView(st, n) \in NodesViewed(n, r)
  BY DEF NodeView
<1>1. own \in NodesKnown(n, r) /\ own \in NodeRecord
  BY DEF States, NodesKnown
<1>2. active = None \/ active \in RoutesKnown(r)
  BY ActiveRouteKnown
<1> HIDE DEF own, active
<1>3. of.mute \in BOOLEAN
  BY <1>1, <1>2 DEF NodeRecord, RoutesKnown, RouteRecord
<1> DEFINE at == IF active # None THEN active.index ELSE n
           target == IF n = "sink" THEN (IF active = None THEN None ELSE active.index)
                     ELSE IF HasTarget(st.metadata) THEN "chosen" ELSE "default"
<1>4. at \in Setting /\ of.volumes \in Fitting(at, r)
  BY <1>1, <1>2 DEF NodesKnown, RoutesKnown, RouteRecord, Setting
<1>5. at \in IF n = "sink" THEN {n} \cup Route ELSE {n}
  BY <1>2 DEF active, RoutesKnown, RouteRecord
<1>6. target \in Route \cup {None, "chosen", "default"}
  BY <1>2 DEF RoutesKnown, RouteRecord
<1>7. of.volumes \in AnyVolumes
  BY <1>4, VolumesFacts DEF Fitting
<1>8. NodeView(st, n) = [volumes |-> of.volumes, mute |-> of.mute, at |-> at, target |-> target,
                         isDefault |-> n = st.metadata.default]
  BY DEF NodeView, own, active
<1> HIDE DEF of, at, target
<1>9. NodeView(st, n) \in ViewRecord
  BY <1>3, <1>4, <1>6, <1>7, <1>8 DEF ViewRecord
<1> QED
  BY <1>4, <1>5, <1>8, <1>9 DEF NodesViewed

LEMMA ViewOfFits ==
    ASSUME NEW r, NEW st \in States(r)
    PROVE  ViewOf(st) \in Views(r)
<1>1. \A n \in Node : NodeView(st, n) \in NodesViewed(n, r) \cup {None}
  BY NodeViewFits
<1>2. \A n \in Node : NodeView(st, n) \in ViewRecord \cup {None}
  BY <1>1 DEF NodesViewed
<1>3. RouteTargets(st) \subseteq Route /\ st.profile \in Profile /\ st.metadataId \in MetaId
  BY DEF RouteTargets, States
<1> QED
  BY <1>1, <1>2, <1>3 DEF ViewOf, Views

LEMMA EntryFits ==
    ASSUME NEW r, NEW st \in States(r), NEW n \in Node
    PROVE  /\ Entry(st, n) \in NodesKnown(n, r)
           /\ st.node[n] # None => Entry(st, n) = st.node[n]
BY DEF Entry, States, NodesKnown, NodeRecord

(* One property of a node. *)
LEMMA KnownSet ==
    ASSUME NEW r, NEW n, NEW k \in NodesKnown(n, r)
    PROVE  /\ [k EXCEPT !.known = TRUE] \in NodesKnown(n, r)
           /\ \A v \in AnyVolumes : v \in Fitting(n, r) =>
                [k EXCEPT !.volumes = v] \in NodesKnown(n, r)
           /\ \A m \in BOOLEAN : [k EXCEPT !.mute = m] \in NodesKnown(n, r)
<1>1. k \in NodeRecord
  BY DEF NodesKnown
<1>2. [k EXCEPT !.known = TRUE] \in NodesKnown(n, r)
  BY <1>1 DEF NodesKnown, NodeRecord
<1>3. ASSUME NEW v \in AnyVolumes, v \in Fitting(n, r)
      PROVE  [k EXCEPT !.volumes = v] \in NodesKnown(n, r)
  BY <1>1, <1>3 DEF NodesKnown, NodeRecord
<1>4. ASSUME NEW m \in BOOLEAN PROVE [k EXCEPT !.mute = m] \in NodesKnown(n, r)
  BY <1>1 DEF NodesKnown, NodeRecord
<1> QED
  BY <1>2, <1>3, <1>4

(* One node of State, or none any more. *)
LEMMA NodeSet ==
    ASSUME NEW r, NEW st \in States(r), NEW n \in Node, NEW k \in NodesKnown(n, r) \cup {None}
    PROVE  [st EXCEPT !.node[n] = k] \in States(r)
<1>1. [st.node EXCEPT ![n] = k] \in [Node -> NodeRecord \cup {None}]
  BY DEF States, NodesKnown
<1> QED
  BY <1>1 DEF States

LEMMA UpdatedFits ==
    ASSUME NEW r, NEW st \in States(r), NEW e \in Events(r)
    PROVE  Updated(st, e) \in States(r)
<1>1. CASE e.type = "properties"
  <2>1. e.id \in Node
    BY <1>1 DEF Events
  <2>2. [Entry(st, e.id) EXCEPT !.known = TRUE] \in NodesKnown(e.id, r)
    BY <2>1, EntryFits, KnownSet
  <2> QED
    BY <1>1, <2>1, <2>2, NodeSet DEF Updated
<1>2. CASE e.type = "volumes"
  <2>1. e.id \in Node /\ e.volumes \in Fitting(e.id, r) /\ e.volumes \in AnyVolumes
    BY <1>2 DEF Events
  <2>2. [Entry(st, e.id) EXCEPT !.volumes = e.volumes] \in NodesKnown(e.id, r)
    BY <2>1, EntryFits, KnownSet
  <2> QED
    BY <1>2, <2>1, <2>2, NodeSet DEF Updated
<1>3. CASE e.type = "mute"
  <2>1. e.id \in Node /\ e.mute \in BOOLEAN
    BY <1>3 DEF Events
  <2>2. [Entry(st, e.id) EXCEPT !.mute = e.mute] \in NodesKnown(e.id, r)
    BY <2>1, EntryFits, KnownSet
  <2> QED
    BY <1>3, <2>1, <2>2, NodeSet DEF Updated
<1>4. CASE e.type = "route"
  BY <1>4 DEF Events, Updated, States
<1>5. CASE e.type = "profile"
  BY <1>5 DEF Events, Updated, States
<1>6. CASE e.type = "name"
  BY <1>6 DEF Events, Updated, States, MetaId
<1>7. CASE e.type = "metadata"
  <2>1. e.key \in MetaKey /\ e.value \in MetaValue
    BY <1>7 DEF Events
  <2>2. [st.metadata EXCEPT ![e.key] = e.value] \in MetaRecord
    BY <2>1 DEF MetaKey, MetaRecord, States
  <2> QED
    BY <1>7, <2>2 DEF Updated, States
<1>8. CASE e.type = "removed"
  <2>1. CASE e.id = "metadata"
    BY <1>8, <2>1 DEF Updated, Forgotten, States, NoMetadata, MetaRecord, MetaValue, MetaId
  <2>2. CASE e.id = "sink"
    BY <1>8, <2>2, NodeSet DEF Updated, Forgotten, Node
  <2> QED
    BY <1>8, <2>1, <2>2 DEF Events
<1>9. CASE e.type = "peaks"
  BY <1>9 DEF Updated
<1> QED
  BY <1>1, <1>2, <1>3, <1>4, <1>5, <1>6, <1>7, <1>8, <1>9 DEF Events

-----------------------------------------------------------------------------
LEMMA NodeEventsFit ==
    ASSUME NEW r, NEW s \in Server(r), NEW n \in Node
    PROVE  NodeEvents(s, n) \in Seq(Events(r))
<1>1. /\ s.set[n].volumes \in AnyVolumes /\ s.set[n].volumes \in Fitting(n, r)
      /\ s.set[n].mute \in BOOLEAN
  BY DEF Server, Setting
<1> QED
  BY <1>1 DEF NodeEvents, Events

LEMMA RouteEventsFit ==
    ASSUME NEW r, NEW s \in Server(r)
    PROVE  /\ RouteEvents(s) \in Seq(Events(r))
           /\ s.route # None => RouteKnown(s, s.route) \in RoutesKnown(r)
<1>1. CASE s.route = None
  BY <1>1 DEF RouteEvents
<1>2. CASE s.route # None
  <2>1. s.route \in Route /\ s.route \in Setting
    BY <1>2 DEF Server, Setting
  <2>2. RouteKnown(s, s.route) \in RoutesKnown(r)
    BY <1>2, <2>1 DEF RouteKnown, RoutesKnown, RouteRecord, Server
  <2> QED
    BY <1>2, <2>2 DEF RouteEvents, Events
<1> QED
  BY <1>1, <1>2

LEMMA SeqConcat ==
    ASSUME NEW S, NEW s \in Seq(S), NEW t \in Seq(S)
    PROVE  s \o t \in Seq(S)
OBVIOUS

LEMMA ProfileReportsFit ==
    ASSUME NEW r, NEW s \in Server(r), NEW es \in ProfileReports(s)
    PROVE  es \in Seq(Events(r))
<1> DEFINE gone == <<[type |-> "removed", id |-> "sink"]>>
           back == IF s.profile \in SinkProfiles
                   THEN <<[type |-> "properties", id |-> "sink"]>> \o NodeEvents(s, "sink")
                   ELSE <<>>
<1>1. gone \in Seq(Events(r)) /\ <<[type |-> "properties", id |-> "sink"]>> \in Seq(Events(r))
  BY DEF Events, Node
<1>2. NodeEvents(s, "sink") \in Seq(Events(r))
  BY NodeEventsFit DEF Node
<1>3. back \in Seq(Events(r))
  <2>1. CASE s.profile \in SinkProfiles
    BY <1>1, <1>2, <2>1, SeqConcat
  <2>2. CASE s.profile \notin SinkProfiles
    BY <2>2
  <2> QED
    BY <2>1, <2>2
<1>4. ProfileEvents(s) \in Seq(Events(r)) /\ RouteEvents(s) \in Seq(Events(r))
  <2>1. s.profile \in Profile
    BY DEF Server
  <2> QED
    BY <2>1, RouteEventsFit DEF ProfileEvents, Events
<1>5. PICK card \in {ProfileEvents(s) \o RouteEvents(s), RouteEvents(s) \o ProfileEvents(s)} :
          es \in {gone \o card \o back, card \o gone \o back, gone \o back \o card}
  BY DEF ProfileReports
<1>6. card \in Seq(Events(r))
  BY <1>4, <1>5, SeqConcat
<1> HIDE DEF gone, back
<1>7. gone \o card \in Seq(Events(r)) /\ card \o gone \in Seq(Events(r))
      /\ gone \o back \in Seq(Events(r))
  BY <1>1, <1>3, <1>6, SeqConcat
<1> QED
  BY <1>3, <1>5, <1>6, <1>7, SeqConcat

-----------------------------------------------------------------------------
(* What a command may do: to a node, to a route, to the profile or to the  *)
(* metadata, from server s to t with the events es.                        *)
NodeStep(s, t, es, n) ==
    /\ n = "sink" => s.profile \in SinkProfiles
    /\ t = [s EXCEPT !.set[n] = t.set[n]]
    /\ es = NodeEvents(t, n)

RouteStep(s, t, es, x) ==
    /\ s.profile \in ProfilesOf[x]
    /\ t = [s EXCEPT !.route = x, !.set[x] = t.set[x]]
    /\ es = RouteEvents(t)

ProfileStep(s, t, es, x) ==
    /\ x \in Route => t.profile \in ProfilesOf[x]
    /\ x = None => \A y \in Route : t.profile \notin ProfilesOf[y]
    /\ t = [s EXCEPT !.profile = t.profile, !.route = x]
    /\ es \in ProfileReports(t)

MetadataStep(s, t, es, c) ==
    /\ c.op = "metadata" /\ c.at = s.metadataId
    /\ t = [s EXCEPT !.metadata[c.key] = c.value]
    /\ es = MetadataEvents(c.key, c.value)

ServerStep(s, t, es, c) ==
    \/ c.op # "metadata" /\ \E n \in Node : NodeStep(s, t, es, n)
    \/ c.op # "metadata" /\ \E x \in Route : RouteStep(s, t, es, x)
    \/ c.op # "metadata" /\ \E x \in Route \cup {None} : ProfileStep(s, t, es, x)
    \/ MetadataStep(s, t, es, c)

(* A setting with other volumes or mute in it. *)
LEMMA SettingSet ==
    ASSUME NEW r, NEW s \in Server(r), NEW x \in Setting
    PROVE  /\ \A v \in Fitting(x, r) : [s EXCEPT !.set[x].volumes = v] \in Server(r)
           /\ \A m \in BOOLEAN : [s EXCEPT !.set[x].mute = m] \in Server(r)
<1>1. ASSUME NEW v \in Fitting(x, r) PROVE [s EXCEPT !.set[x].volumes = v] \in Server(r)
  <2>1. v \in AnyVolumes
    BY VolumesFacts DEF Fitting
  <2> QED
    BY <2>1 DEF Server
<1>2. ASSUME NEW m \in BOOLEAN PROVE [s EXCEPT !.set[x].mute = m] \in Server(r)
  BY DEF Server
<1> QED
  BY <1>1, <1>2

LEMMA AfterNode ==
    ASSUME NEW r, server \in Server(r), NEW c \in Commands(r), NEW a \in After(c),
           c.op \in {"volumes", "mute"}, c.at \in Node
    PROVE  a[1] \in Server(r) /\ NodeStep(server, a[1], a[2], c.at)
<1> DEFINE t == IF c.op = "mute" THEN [server EXCEPT !.set[c.at].mute = c.mute]
                ELSE [server EXCEPT !.set[c.at].volumes = c.volumes]
<1>0. After(c) = IF c.at = "sink" /\ server.profile \notin SinkProfiles THEN {}
                 ELSE {<<t, NodeEvents(t, c.at)>>}
  <2>1. c.at \notin Route
    BY NodeAssumption
  <2>2. CASE c.op = "mute"
    BY <2>1, <2>2 DEF After
  <2>3. CASE c.op = "volumes"
    BY <2>1, <2>3 DEF After
  <2> QED
    BY <2>2, <2>3
<1>1. c.at = "sink" => server.profile \in SinkProfiles
  BY <1>0
<1>2. a = <<t, NodeEvents(t, c.at)>>
  BY <1>0, <1>1
<1>3. t \in Server(r) /\ t = [server EXCEPT !.set[c.at] = t.set[c.at]]
  <2>1. CASE c.op = "mute"
    <3>1. c.mute \in BOOLEAN /\ c.at \in Setting
      BY <2>1 DEF Commands
    <3>2. t = [server EXCEPT !.set[c.at].mute = c.mute]
      BY <2>1
    <3>3. t \in Server(r)
      BY <3>1, <3>2, SettingSet
    <3> QED
      BY <3>1, <3>2, <3>3 DEF Server
  <2>2. CASE c.op = "volumes"
    <3>1. c.volumes \in Fitting(c.at, r) /\ c.at \in Setting
      BY <2>2 DEF Commands
    <3>2. t = [server EXCEPT !.set[c.at].volumes = c.volumes]
      BY <2>2
    <3>3. t \in Server(r)
      BY <3>1, <3>2, SettingSet
    <3> QED
      BY <3>1, <3>2, <3>3 DEF Server
  <2> QED
    BY <2>1, <2>2
<1> HIDE DEF t
<1> QED
  BY <1>1, <1>2, <1>3 DEF NodeStep

LEMMA AfterRoute ==
    ASSUME NEW r, server \in Server(r), NEW c \in Commands(r), NEW a \in After(c),
           c.op \in {"volumes", "mute", "route"}, c.at \in Route
    PROVE  a[1] \in Server(r) /\ RouteStep(server, a[1], a[2], c.at)
<1> DEFINE u == [server EXCEPT !.route = c.at]
           t == CASE c.op = "mute" -> [u EXCEPT !.set[c.at].mute = c.mute]
                  [] c.op = "volumes" -> [u EXCEPT !.set[c.at].volumes = c.volumes]
                  [] OTHER -> u
<1>1. c.at \notin Node /\ c.at \in Setting
  BY NodeAssumption DEF Setting
<1>2. server.profile \in ProfilesOf[c.at]
  BY <1>1 DEF After
<1>3. a = <<t, RouteEvents(t)>>
  BY <1>1, <1>2 DEF After
<1>4. u \in Server(r)
  BY DEF Server
<1>5. t \in Server(r) /\ t = [server EXCEPT !.route = c.at, !.set[c.at] = t.set[c.at]]
  <2>1. CASE c.op = "mute"
    <3>1. c.mute \in BOOLEAN
      BY <2>1 DEF Commands
    <3>2. t \in Server(r)
      BY <1>1, <1>4, <2>1, <3>1, SettingSet
    <3> QED
      BY <1>1, <2>1, <3>2 DEF Server
  <2>2. CASE c.op = "volumes"
    <3>1. c.volumes \in Fitting(c.at, r)
      BY <2>2 DEF Commands
    <3>2. t \in Server(r)
      BY <1>1, <1>4, <2>2, <3>1, SettingSet
    <3> QED
      BY <1>1, <2>2, <3>2 DEF Server
  <2>3. CASE c.op = "route"
    BY <1>1, <1>4, <2>3 DEF Server
  <2> QED
    BY <2>1, <2>2, <2>3
<1> HIDE DEF t
<1> QED
  BY <1>2, <1>3, <1>5 DEF RouteStep

LEMMA AfterProfile ==
    ASSUME NEW r, server \in Server(r), NEW c \in Commands(r), NEW a \in After(c),
           c.op = "profile"
    PROVE  a[1] \in Server(r) /\ \E x \in Route \cup {None} : ProfileStep(server, a[1], a[2], x)
<1>1. c.at \in Profile
  BY DEF Commands
<1> DEFINE routes == {y \in Route : c.at \in ProfilesOf[y]}
           T(x) == [server EXCEPT !.profile = c.at, !.route = x]
<1>2. PICK x \in IF routes = {} THEN {None} ELSE routes :
          \E es \in ProfileReports(T(x)) : a = <<T(x), es>>
  BY DEF After
<1>3. x \in Route \cup {None} /\ T(x) \in Server(r)
  BY <1>1, <1>2 DEF Server
<1>4. T(x).profile = c.at /\ T(x).route = x
  BY DEF Server
<1>5. /\ x \in Route => c.at \in ProfilesOf[x]
      /\ x = None => \A y \in Route : c.at \notin ProfilesOf[y]
  BY <1>2, NoneAssumption DEF Setting
<1>6. T(x) = [server EXCEPT !.profile = T(x).profile, !.route = x]
  BY <1>4
<1> HIDE DEF T
<1>7. PICK es \in ProfileReports(T(x)) : a = <<T(x), es>>
  BY <1>2
<1>8. ProfileStep(server, T(x), es, x)
  BY <1>4, <1>5, <1>6, <1>7 DEF ProfileStep
<1> QED
  BY <1>3, <1>7, <1>8

LEMMA AfterMetadata ==
    ASSUME NEW r, server \in Server(r), NEW c \in Commands(r), NEW a \in After(c),
           c.op = "metadata"
    PROVE  a[1] \in Server(r) /\ MetadataStep(server, a[1], a[2], c)
<1>1. c.key \in MetaKey /\ c.value \in MetaValue
  BY DEF Commands
<1>2. /\ c.at = server.metadataId
      /\ a = <<[server EXCEPT !.metadata[c.key] = c.value], MetadataEvents(c.key, c.value)>>
  BY DEF After
<1>3. [server.metadata EXCEPT ![c.key] = c.value] \in MetaRecord
  BY <1>1 DEF Server, MetaRecord, MetaKey
<1>4. [server EXCEPT !.metadata[c.key] = c.value] \in Server(r)
  BY <1>3 DEF Server
<1> QED
  BY <1>2, <1>4 DEF MetadataStep

LEMMA ServerSteps ==
    ASSUME NEW r, server \in Server(r), NEW c \in Commands(r), Does(c)
    PROVE  \/ UNCHANGED <<server, events>>
           \/ \E t \in Server(r) : \E es :
                 server' = t /\ events' = events \o es /\ ServerStep(server, t, es, c)
<1>1. CASE After(c) = {}
  BY <1>1 DEF Does
<1>2. CASE After(c) # {}
  <2>1. PICK a \in After(c) : server' = a[1] /\ events' = events \o a[2]
    BY <1>2 DEF Does
  <2>2. CASE c.op \in {"volumes", "mute"} /\ c.at \in Node
    BY <2>1, <2>2, AfterNode DEF ServerStep
  <2>3. CASE c.op \in {"volumes", "mute", "route"} /\ c.at \in Route
    BY <2>1, <2>3, AfterRoute DEF ServerStep
  <2>4. CASE c.op = "profile"
    BY <2>1, <2>4, AfterProfile DEF ServerStep
  <2>5. CASE c.op = "metadata"
    BY <2>1, <2>5, AfterMetadata DEF ServerStep
  <2>6. \/ c.op \in {"volumes", "mute"} /\ c.at \in Node
        \/ c.op \in {"volumes", "mute", "route"} /\ c.at \in Route
        \/ c.op = "profile" \/ c.op = "metadata"
    BY DEF Commands, Setting
  <2> QED
    BY <2>2, <2>3, <2>4, <2>5, <2>6
<1> QED
  BY <1>1, <1>2

LEMMA StepEventsFit ==
    ASSUME NEW r, NEW s \in Server(r), NEW t \in Server(r), NEW es, NEW c \in Commands(r),
           ServerStep(s, t, es, c)
    PROVE  es \in Seq(Events(r))
<1>1. ASSUME NEW n \in Node, NodeStep(s, t, es, n) PROVE es \in Seq(Events(r))
  BY <1>1, NodeEventsFit DEF NodeStep
<1>2. ASSUME NEW x \in Route, RouteStep(s, t, es, x) PROVE es \in Seq(Events(r))
  BY <1>2, RouteEventsFit DEF RouteStep
<1>3. ASSUME NEW x \in Route \cup {None}, ProfileStep(s, t, es, x) PROVE es \in Seq(Events(r))
  BY <1>3, ProfileReportsFit DEF ProfileStep
<1>4. ASSUME MetadataStep(s, t, es, c) PROVE es \in Seq(Events(r))
  <2>1. c.key \in MetaKey /\ c.value \in MetaValue
    BY <1>4 DEF MetadataStep, Commands
  <2> QED
    BY <1>4, <2>1 DEF MetadataStep, MetadataEvents, Events
<1> QED
  BY <1>1, <1>2, <1>3, <1>4 DEF ServerStep

LEMMA DoesFits ==
    ASSUME NEW r, server \in Server(r), events \in Seq(Events(r)),
           NEW c \in Commands(r), Does(c)
    PROVE  server' \in Server(r) /\ events' \in Seq(Events(r))
<1>1. CASE UNCHANGED <<server, events>>
  BY <1>1
<1>2. ASSUME NEW t \in Server(r), NEW es, server' = t, events' = events \o es,
             ServerStep(server, t, es, c)
      PROVE  server' \in Server(r) /\ events' \in Seq(Events(r))
  BY <1>2, StepEventsFit, SeqConcat
<1> QED
  BY <1>1, <1>2, ServerSteps

-----------------------------------------------------------------------------
(* Keys ask for a wider range and send volumes that fit it.                *)
LEMMA SameReach ==
    ASSUME MixerOK, UNCHANGED reach
    PROVE  Reach(reach') /\ Wider(reach, reach')
BY DEF MixerOK, Reach, Wider

LEMMA SteppedFacts ==
    ASSUME NEW level \in Nat, NEW d \in {-1, 1}
    PROVE  /\ Stepped(level, d) \in Nat
           /\ d = 1 => Stepped(level, d) = level + 1
           /\ d = -1 => /\ Stepped(level, d) <= level
                        /\ \A low \in Nat : low <= level => Stepped(low, d) <= Stepped(level, d)
BY DEF Stepped

(* The range of one setting replaced by a wider one. *)
LEMMA ReachSet ==
    ASSUME MixerOK, NEW x \in Setting,
           NEW new \in [DOMAIN Initial[x] -> [low : Nat, high : Nat]],
           \A c \in DOMAIN Initial[x] :
                new[c].low <= reach[x][c].low /\ reach[x][c].high <= new[c].high,
           reach' = [reach EXCEPT ![x] = new]
    PROVE  Reach(reach') /\ Wider(reach, reach') /\ reach'[x] = new
<1>1. DOMAIN reach = Setting /\ Reach(reach)
  BY DEF MixerOK, Reach
<1>2. DOMAIN reach' = Setting /\ reach'[x] = new /\ \A y \in Setting \ {x} : reach'[y] = reach[y]
  BY <1>1
<1>3. Reach(reach')
  BY <1>1, <1>2 DEF Reach
<1>4. Wider(reach, reach')
  <2> SUFFICES ASSUME NEW y \in Setting, NEW c \in DOMAIN Initial[y]
               PROVE  reach'[y][c].low <= reach[y][c].low /\ reach[y][c].high <= reach'[y][c].high
    BY DEF Wider
  <2>1. reach[y][c].low \in Nat /\ reach[y][c].high \in Nat
    BY <1>1 DEF Reach
  <2> QED
    BY <1>2, <2>1
<1> QED
  BY <1>2, <1>3, <1>4

LEMMA AskedFits ==
    ASSUME MixerOK, NEW x \in Setting, NEW cs, NEW d \in {-1, 1}, Asked(x, cs, d),
           NEW v \in Fitting(x, reach), NEW after,
           after = [c \in DOMAIN v |-> IF c \in cs THEN Stepped(v[c], d) ELSE v[c]],
           cs \subseteq DOMAIN v, \A c \in cs : ~TooLoud(after[c], d)
    PROVE  Reach(reach') /\ Wider(reach, reach') /\ after \in Fitting(x, reach')
<1> DEFINE new == [c \in DOMAIN reach[x] |->
                IF c \notin cs THEN reach[x][c]
                ELSE IF d > 0 THEN [reach[x][c] EXCEPT !.high = reach[x][c].high + d]
                ELSE [reach[x][c] EXCEPT !.low = Stepped(reach[x][c].low, d)]]
<1>1. /\ DOMAIN v = DOMAIN Initial[x]
      /\ \A c \in DOMAIN Initial[x] :
            v[c] \in Nat /\ v[c] <= MaxLevel /\ reach[x][c].low <= v[c] /\ v[c] <= reach[x][c].high
  BY VolumesFacts DEF Fitting
<1>2. reach[x] \in [DOMAIN Initial[x] -> [low : Nat, high : Nat]]
  BY DEF MixerOK, Reach
<1>3. reach' = [reach EXCEPT ![x] = new]
  BY DEF Asked
<1>4. ASSUME NEW c \in DOMAIN Initial[x]
      PROVE  /\ new[c] \in [low : Nat, high : Nat]
             /\ new[c].low <= reach[x][c].low /\ reach[x][c].high <= new[c].high
             /\ after[c] \in Nat /\ after[c] <= MaxLevel
             /\ new[c].low <= after[c] /\ after[c] <= new[c].high
  <2>1. reach[x][c] \in [low : Nat, high : Nat]
    BY <1>2
  <2>2. CASE c \notin cs
    <3>1. new[c] = reach[x][c] /\ after[c] = v[c]
      BY <1>1, <1>2, <2>2
    <3> QED
      BY <1>1, <2>1, <3>1
  <2>3. CASE c \in cs /\ d = 1
    <3>1. new[c] = [reach[x][c] EXCEPT !.high = reach[x][c].high + 1]
      BY <1>2, <2>3
    <3>2. after[c] = v[c] + 1
      BY <1>1, <2>3, SteppedFacts
    <3>3. after[c] <= MaxLevel
      BY <1>1, <2>3, <3>2, LevelAssumption DEF TooLoud
    <3> QED
      BY <1>1, <2>1, <3>1, <3>2, <3>3
  <2>4. CASE c \in cs /\ d = -1
    <3>1. new[c] = [reach[x][c] EXCEPT !.low = Stepped(reach[x][c].low, d)]
      BY <1>2, <2>4
    <3>2. after[c] = Stepped(v[c], d)
      BY <1>1, <2>4
    <3>3. /\ Stepped(reach[x][c].low, d) \in Nat /\ Stepped(v[c], d) \in Nat
          /\ Stepped(reach[x][c].low, d) <= reach[x][c].low /\ Stepped(v[c], d) <= v[c]
          /\ Stepped(reach[x][c].low, d) <= Stepped(v[c], d)
      BY <1>1, <2>1, <2>4, SteppedFacts
    <3> QED
      BY <1>1, <2>1, <3>1, <3>2, <3>3, LevelAssumption
  <2> QED
    BY <2>2, <2>3, <2>4
<1>5. new \in [DOMAIN Initial[x] -> [low : Nat, high : Nat]]
  BY <1>2, <1>4
<1> HIDE DEF new
<1>6. Reach(reach') /\ Wider(reach, reach') /\ reach'[x] = new
  BY <1>3, <1>4, <1>5, ReachSet
<1>7. after \in VolumesOf(x)
  <2>1. \A c \in DOMAIN Initial[x] : after[c] \in 0 .. MaxLevel
    BY <1>4, LevelAssumption
  <2>2. after \in [DOMAIN v -> 0 .. MaxLevel]
    BY <1>1, <2>1
  <2> QED
    BY <1>1, <2>2 DEF VolumesOf
<1> QED
  BY <1>4, <1>6, <1>7 DEF Fitting

(* The range stretched to new levels of some channels.                     *)
LEMMA Stretched ==
    ASSUME MixerOK, NEW x \in Setting, NEW cs, NEW l \in [DOMAIN Initial[x] -> Nat], NEW new,
           new = [c \in DOMAIN Initial[x] |->
                IF c \notin cs THEN reach[x][c]
                ELSE [low |-> IF l[c] < reach[x][c].low THEN l[c] ELSE reach[x][c].low,
                      high |-> IF l[c] > reach[x][c].high THEN l[c] ELSE reach[x][c].high]],
           reach' = [reach EXCEPT ![x] = new]
    PROVE  /\ Reach(reach') /\ Wider(reach, reach')
           /\ \A c \in cs \cap DOMAIN Initial[x] :
                 reach'[x][c].low <= l[c] /\ l[c] <= reach'[x][c].high
<1>1. ASSUME NEW c \in DOMAIN Initial[x]
      PROVE  /\ new[c] \in [low : Nat, high : Nat]
             /\ new[c].low <= reach[x][c].low /\ reach[x][c].high <= new[c].high
             /\ c \in cs => new[c].low <= l[c] /\ l[c] <= new[c].high
  <2>1. reach[x][c].low \in Nat /\ reach[x][c].high \in Nat /\ l[c] \in Nat
    BY DEF MixerOK, Reach
  <2>2. reach[x][c] \in [low : Nat, high : Nat]
    BY DEF MixerOK, Reach
  <2>3. CASE c \notin cs
    BY <2>1, <2>2, <2>3
  <2>4. CASE c \in cs
    BY <2>1, <2>4
  <2> QED
    BY <2>3, <2>4
<1>2. new \in [DOMAIN Initial[x] -> [low : Nat, high : Nat]]
  BY <1>1
<1>3. Reach(reach') /\ Wider(reach, reach') /\ reach'[x] = new
  <2>1. \A c \in DOMAIN Initial[x] :
            new[c].low <= reach[x][c].low /\ reach[x][c].high <= new[c].high
    BY <1>1
  <2> QED
    BY <1>2, <2>1, ReachSet, Zenon
<1> QED
  BY <1>1, <1>3

LEMMA AskedLevelFits ==
    ASSUME MixerOK, NEW x \in Setting, NEW cs, NEW level \in Nat, level <= MaxLevel,
           AskedLevel(x, cs, level),
           NEW v \in Fitting(x, reach), NEW after,
           after = [c \in DOMAIN v |-> IF c \in cs THEN level ELSE v[c]]
    PROVE  Reach(reach') /\ Wider(reach, reach') /\ after \in Fitting(x, reach')
<1> DEFINE l == [c \in DOMAIN Initial[x] |-> level]
           new == [c \in DOMAIN Initial[x] |->
                IF c \notin cs THEN reach[x][c]
                ELSE [low |-> IF l[c] < reach[x][c].low THEN l[c] ELSE reach[x][c].low,
                      high |-> IF l[c] > reach[x][c].high THEN l[c] ELSE reach[x][c].high]]
           asked == [c \in DOMAIN reach[x] |->
                IF c \notin cs THEN reach[x][c]
                ELSE [low |-> IF level < reach[x][c].low THEN level ELSE reach[x][c].low,
                      high |-> IF level > reach[x][c].high THEN level ELSE reach[x][c].high]]
<1>1. reach' = [reach EXCEPT ![x] = asked]
  BY DEF AskedLevel
<1>2. DOMAIN reach[x] = DOMAIN Initial[x]
  BY DEF MixerOK, Reach
<1>3. asked = new
  BY <1>2
<1> HIDE DEF asked
<1>4. /\ Reach(reach') /\ Wider(reach, reach')
      /\ \A c \in cs \cap DOMAIN Initial[x] :
            reach'[x][c].low <= l[c] /\ l[c] <= reach'[x][c].high
  BY <1>1, <1>3, Stretched
<1>5. v \in Fitting(x, reach')
  BY <1>4, WiderFits DEF MixerOK
<1>6. /\ DOMAIN v = DOMAIN Initial[x]
      /\ \A c \in DOMAIN Initial[x] :
            /\ v[c] \in Nat /\ v[c] <= MaxLevel
            /\ reach'[x][c].low <= v[c] /\ v[c] <= reach'[x][c].high
  BY <1>5, VolumesFacts DEF Fitting
<1>7. \A c \in cs \cap DOMAIN Initial[x] :
          reach'[x][c].low <= level /\ level <= reach'[x][c].high
  BY <1>4
<1> HIDE DEF l, new
<1>8. \A c \in DOMAIN Initial[x] : after[c] = (IF c \in cs THEN level ELSE v[c])
  BY <1>6
<1>9. after \in VolumesOf(x)
  <2>1. \A c \in DOMAIN Initial[x] : after[c] \in 0 .. MaxLevel
    BY <1>6, <1>8, LevelAssumption
  <2>2. after \in [DOMAIN v -> 0 .. MaxLevel]
    BY <1>6, <2>1
  <2> QED
    BY <1>6, <2>2 DEF VolumesOf
<1> QED
  BY <1>4, <1>6, <1>7, <1>8, <1>9 DEF Fitting

-----------------------------------------------------------------------------
(* Every step keeps the volumes in the range.                              *)
LEMMA Sent ==
    ASSUME MixerOK, Reach(reach'), Wider(reach, reach'),
           NEW cs \in Seq(Commands(reach')), commands' = commands \o cs,
           UNCHANGED <<server, events>>, UNCHANGED appVars, needsRender' \in BOOLEAN
    PROVE  MixerOK'
<1>1. /\ server \in Server(reach') /\ state \in States(reach') /\ view \in Views(reach')
      /\ commands \in Seq(Commands(reach')) /\ events \in Seq(Events(reach'))
  BY Widened
<1>2. commands' \in Seq(Commands(reach'))
  BY <1>1, SeqConcat
<1> QED
  BY <1>1, <1>2 DEF MixerOK, appVars

(* What a key that acts on a shown node finds there. *)
LEMMA Shown ==
    ASSUME MixerOK, NEW n \in Node, view.node[n] # None
    PROVE  /\ view.node[n].at \in Setting /\ view.node[n].mute \in BOOLEAN
           /\ view.node[n].volumes \in Fitting(view.node[n].at, reach)
           /\ DOMAIN view.node[n].volumes = DOMAIN Initial[view.node[n].at]
<1>1. view.node[n] \in NodesViewed(n, reach)
  BY DEF MixerOK, Views
<1>2. view.node[n].at \in Setting /\ view.node[n].volumes \in Fitting(view.node[n].at, reach)
  BY <1>1 DEF NodesViewed, ViewRecord
<1> QED
  BY <1>1, <1>2, VolumesFacts DEF NodesViewed, ViewRecord, Fitting

LEMMA VolumesCommand ==
    ASSUME NEW r, NEW x \in Setting, NEW v \in Fitting(x, r)
    PROVE  Volumes(x, v) \in Commands(r)
BY VolumesFacts DEF Volumes, Commands, Fitting

LEMMA RelativeFits ==
    ASSUME MixerOK, NEW n \in Node, NEW cs, NEW d \in {-1, 1}, Relative(n, cs, d),
           cs \subseteq DOMAIN view.node[n].volumes
    PROVE  MixerOK' /\ Reach(reach') /\ Wider(reach, reach')
<1> DEFINE v == view.node[n]
           after == [c \in DOMAIN v.volumes |->
                         IF c \in cs THEN Stepped(v.volumes[c], d) ELSE v.volumes[c]]
<1>1. /\ v # None /\ \A c \in cs : ~TooLoud(after[c], d)
      /\ commands' = commands \o <<Volumes(v.at, after)>>
      /\ Asked(v.at, cs, d)
  BY DEF Relative, Send
<1>2. UNCHANGED <<server, events>> /\ UNCHANGED appVars /\ needsRender' \in BOOLEAN
  BY DEF Relative, Pressed, ServerIdle, AppIdle
<1>3. v.at \in Setting /\ v.volumes \in Fitting(v.at, reach)
  BY <1>1, Shown
<1>4. Reach(reach') /\ Wider(reach, reach') /\ after \in Fitting(v.at, reach')
  BY <1>1, <1>3, AskedFits
<1> HIDE DEF after
<1>5. <<Volumes(v.at, after)>> \in Seq(Commands(reach'))
  BY <1>3, <1>4, VolumesCommand
<1> QED
  BY <1>1, <1>2, <1>4, <1>5, Sent

LEMMA AbsoluteFits ==
    ASSUME MixerOK, NEW n \in Node, NEW cs, NEW l \in AbsoluteLevels, Absolute(n, cs, l)
    PROVE  MixerOK' /\ Reach(reach') /\ Wider(reach, reach')
<1> DEFINE v == view.node[n]
           after == [c \in DOMAIN v.volumes |-> IF c \in cs THEN l ELSE v.volumes[c]]
           sent == IF cs = DOMAIN v.volumes
                   THEN <<Volumes(v.at, after), Volumes(v.at, after)>> ELSE <<Volumes(v.at, after)>>
<1>1. /\ v # None /\ l <= MaxLevel /\ l \in Nat
      /\ commands' = commands \o sent
      /\ AskedLevel(v.at, cs, l)
  BY LevelAssumption DEF Absolute, Send
<1>2. UNCHANGED <<server, events>> /\ UNCHANGED appVars /\ needsRender' \in BOOLEAN
  BY DEF Absolute, Pressed, ServerIdle, AppIdle
<1>3. v.at \in Setting /\ v.volumes \in Fitting(v.at, reach)
  BY <1>1, Shown
<1>4. Reach(reach') /\ Wider(reach, reach') /\ after \in Fitting(v.at, reach')
  BY <1>1, <1>3, AskedLevelFits
<1> HIDE DEF after
<1>5. sent \in Seq(Commands(reach'))
  BY <1>3, <1>4, VolumesCommand
<1> QED
  BY <1>1, <1>2, <1>4, <1>5, Sent

LEMMA MetadataCommand ==
    ASSUME MixerOK, NEW key \in MetaKey, NEW value \in MetaValue
    PROVE  Metadata(key, value) \in Commands(reach)
<1>1. view.metadata \in MetaId
  BY DEF MixerOK, Views
<1> QED
  BY <1>1 DEF Metadata, Commands

(* The other keys ask for no volume. *)
LEMMA SentOnly ==
    ASSUME MixerOK, Pressed, ServerIdle, AppIdle, UNCHANGED reach,
           NEW cs \in Seq(Commands(reach)), Send(cs)
    PROVE  MixerOK' /\ Reach(reach') /\ Wider(reach, reach')
<1>1. cs \in Seq(Commands(reach'))
  OBVIOUS
<1> QED
  BY <1>1, SameReach, Sent DEF Pressed, ServerIdle, AppIdle, Send

LEMMA KeyFits ==
    MixerOK /\ Key => MixerOK' /\ Reach(reach') /\ Wider(reach, reach')
<1> SUFFICES ASSUME MixerOK, Key PROVE MixerOK' /\ Reach(reach') /\ Wider(reach, reach')
  OBVIOUS
<1>1. ASSUME NEW n \in Node, view.node[n] # None,
             NEW cs \in {DOMAIN view.node[n].volumes} \cup {{c} : c \in DOMAIN view.node[n].volumes},
             NEW d \in {-1, 1}, Relative(n, cs, d)
      PROVE  MixerOK' /\ Reach(reach') /\ Wider(reach, reach')
  <2>1. cs \subseteq DOMAIN view.node[n].volumes
    BY <1>1
  <2> QED
    BY <1>1, <2>1, RelativeFits
<1>2. ASSUME NEW n \in Node, NEW cs, NEW l \in AbsoluteLevels, Absolute(n, cs, l)
      PROVE  MixerOK' /\ Reach(reach') /\ Wider(reach, reach')
  BY <1>2, AbsoluteFits
<1>3. ASSUME NEW n \in Node, Mute(n) PROVE MixerOK' /\ Reach(reach') /\ Wider(reach, reach')
  <2>1. view.node[n] # None
    BY <1>3 DEF Mute
  <2>2. <<[op |-> "mute", at |-> view.node[n].at, mute |-> ~view.node[n].mute]>>
            \in Seq(Commands(reach))
    BY <2>1, Shown DEF Commands
  <2> QED
    BY <1>3, <2>2, SentOnly DEF Mute
<1>4. ASSUME NEW target \in {"default", "sink"}, SetTarget(target) PROVE MixerOK' /\ Reach(reach') /\ Wider(reach, reach')
  <2>1. /\ Metadata("object", Unset) \in Commands(reach) /\ Metadata("node", Unset) \in Commands(reach)
        /\ Metadata("object", None) \in Commands(reach) /\ Metadata("node", "sink") \in Commands(reach)
    BY MetadataCommand DEF MetaKey, MetaValue
  <2>2. <<Metadata("object", Unset), Metadata("node", Unset)>> \in Seq(Commands(reach))
        /\ <<Metadata("object", None), Metadata("node", "sink")>> \in Seq(Commands(reach))
    BY <2>1
  <2>3. CASE target = "default"
    BY <1>4, <2>2, <2>3, SentOnly DEF SetTarget
  <2>4. CASE target # "default"
    BY <1>4, <2>2, <2>4, SentOnly DEF SetTarget
  <2> QED
    BY <2>3, <2>4
<1>5. ASSUME NEW x \in Route, SetRoute(x) PROVE MixerOK' /\ Reach(reach') /\ Wider(reach, reach')
  <2>1. <<[op |-> "route", at |-> x]>> \in Seq(Commands(reach))
    BY DEF Commands
  <2> QED
    BY <1>5, <2>1, SentOnly DEF SetRoute
<1>6. ASSUME NEW p \in Profile, SetProfile(p) PROVE MixerOK' /\ Reach(reach') /\ Wider(reach, reach')
  <2>1. <<[op |-> "profile", at |-> p]>> \in Seq(Commands(reach))
    BY DEF Commands
  <2> QED
    BY <1>6, <2>1, SentOnly DEF SetProfile
<1>7. CASE SetDefault
  <2>1. <<Metadata("default", "sink")>> \in Seq(Commands(reach))
    BY MetadataCommand DEF MetaKey, MetaValue
  <2> QED
    BY <1>7, <2>1, SentOnly DEF SetDefault
<1> QED
  BY <1>1, <1>2, <1>3, <1>4, <1>5, <1>6, <1>7 DEF Key

(* A step of the server alone. *)
LEMMA Served ==
    ASSUME MixerOK, Reach(reach'), Wider(reach, reach'),
           server' \in Server(reach'), events' \in Seq(Events(reach')),
           commands' \in Seq(Commands(reach')), UNCHANGED needsRender, UNCHANGED appVars
    PROVE  MixerOK'
<1>1. state \in States(reach') /\ view \in Views(reach')
  BY Widened
<1> QED
  BY <1>1 DEF MixerOK, appVars

LEMMA ServerDoes ==
    ASSUME MixerOK, UNCHANGED reach, NEW c \in Commands(reach), Does(c),
           commands' \in Seq(Commands(reach)), UNCHANGED needsRender, UNCHANGED appVars
    PROVE  MixerOK'
<1>1. server' \in Server(reach) /\ events' \in Seq(Events(reach))
  BY DoesFits DEF MixerOK
<1> QED
  BY <1>1, SameReach, Served

(* Another client's volumes widen the range by themselves. *)
LEMMA OtherVolumeAsks ==
    ASSUME MixerOK, NEW x \in Setting, NEW v \in OtherVolumes[x], OtherVolume(x, v)
    PROVE  Reach(reach') /\ Wider(reach, reach') /\ Volumes(x, v) \in Commands(reach')
<1> DEFINE asked == [c \in DOMAIN reach[x] |->
                        [low |-> IF v[c] < reach[x][c].low THEN v[c] ELSE reach[x][c].low,
                         high |-> IF v[c] > reach[x][c].high THEN v[c] ELSE reach[x][c].high]]
           new == [c \in DOMAIN Initial[x] |->
                IF c \notin DOMAIN Initial[x] THEN reach[x][c]
                ELSE [low |-> IF v[c] < reach[x][c].low THEN v[c] ELSE reach[x][c].low,
                      high |-> IF v[c] > reach[x][c].high THEN v[c] ELSE reach[x][c].high]]
<1>1. v \in VolumesOf(x)
  BY VolumesAssumption
<1>2. v \in [DOMAIN Initial[x] -> Nat]
  BY <1>1, LevelAssumption DEF VolumesOf
<1>3. reach' = [reach EXCEPT ![x] = asked]
  BY DEF OtherVolume
<1>4. DOMAIN reach[x] = DOMAIN Initial[x]
  BY DEF MixerOK, Reach
<1> DEFINE all == DOMAIN Initial[x]
<1>5. reach' = [reach EXCEPT ![x] = new]
  BY <1>3, <1>4
<1>6. /\ Reach(reach') /\ Wider(reach, reach')
      /\ \A c \in DOMAIN Initial[x] : reach'[x][c].low <= v[c] /\ v[c] <= reach'[x][c].high
  <2>1. new = [c \in DOMAIN Initial[x] |->
                IF c \notin all THEN reach[x][c]
                ELSE [low |-> IF v[c] < reach[x][c].low THEN v[c] ELSE reach[x][c].low,
                      high |-> IF v[c] > reach[x][c].high THEN v[c] ELSE reach[x][c].high]]
    OBVIOUS
  <2> HIDE DEF new, all
  <2>2. /\ Reach(reach') /\ Wider(reach, reach')
        /\ \A c \in all \cap DOMAIN Initial[x] :
              reach'[x][c].low <= v[c] /\ v[c] <= reach'[x][c].high
    BY <1>2, <1>5, <2>1, Stretched
  <2> QED
    BY <2>2 DEF all
<1>7. v \in Fitting(x, reach')
  BY <1>1, <1>6 DEF Fitting
<1>8. Volumes(x, v) \in Commands(reach')
  BY <1>7, VolumesCommand
<1> QED
  BY <1>6, <1>8

LEMMA OtherVolumeFits ==
    ASSUME MixerOK, NEW x \in Setting, NEW v \in OtherVolumes[x], OtherVolume(x, v)
    PROVE  MixerOK'
<1>1. Reach(reach') /\ Wider(reach, reach') /\ Volumes(x, v) \in Commands(reach')
  BY OtherVolumeAsks
<1>2. /\ server \in Server(reach') /\ commands \in Seq(Commands(reach'))
      /\ events \in Seq(Events(reach'))
  BY <1>1, Widened
<1>3. /\ Does(Volumes(x, v)) /\ UNCHANGED commands /\ UNCHANGED needsRender /\ UNCHANGED appVars
  BY DEF OtherVolume, AppIdle
<1>4. server' \in Server(reach') /\ events' \in Seq(Events(reach'))
  BY <1>1, <1>2, <1>3, DoesFits
<1> QED
  BY <1>1, <1>2, <1>3, <1>4, Served

LEMMA OutsideFits == MixerOK /\ Outside => MixerOK'
<1> SUFFICES ASSUME MixerOK, Outside PROVE MixerOK'
  OBVIOUS
<1>1. ASSUME NEW x \in Setting, NEW v \in OtherVolumes[x], OtherVolume(x, v) PROVE MixerOK'
  BY <1>1, OtherVolumeFits
<1>2. ASSUME NEW x \in Route, OtherRoute(x) PROVE MixerOK'
  <2>1. [op |-> "route", at |-> x] \in Commands(reach)
    BY DEF Commands
  <2> QED
    BY <1>2, <2>1, ServerDoes DEF OtherRoute, AppIdle, MixerOK
<1>3. ASSUME NEW value \in {Unset, "sink"}, OtherTarget(value) PROVE MixerOK'
  <2>1. [op |-> "metadata", at |-> server.metadataId, key |-> "object", value |-> value]
            \in Commands(reach)
    BY DEF Commands, MixerOK, Server, MetaKey, MetaValue
  <2> QED
    BY <1>3, <2>1, ServerDoes DEF OtherTarget, AppIdle, MixerOK
<1>4. CASE SessionManagerGone
  <2>1. server' \in Server(reach)
    BY <1>4 DEF SessionManagerGone, MixerOK, Server, NoMetadata, MetaRecord, MetaValue, MetaId
  <2>2. events' \in Seq(Events(reach))
    BY <1>4 DEF SessionManagerGone, MixerOK, Events
  <2> QED
    BY <1>4, <2>1, <2>2, SameReach, Served DEF SessionManagerGone, AppIdle, MixerOK
<1>5. CASE SessionManagerBack
  <2>1. server' \in Server(reach)
    BY <1>5 DEF SessionManagerBack, MixerOK, Server, MetaId
  <2>2. events' \in Seq(Events(reach))
    BY <1>5 DEF SessionManagerBack, MixerOK, Events
  <2> QED
    BY <1>5, <2>1, <2>2, SameReach, Served DEF SessionManagerBack, AppIdle, MixerOK
<1>6. CASE Peaks
  <2>1. events' \in Seq(Events(reach)) /\ UNCHANGED <<server, commands, needsRender, reach>>
    BY <1>6 DEF Peaks, MixerOK, Events
  <2>2. UNCHANGED appVars
    BY <1>6 DEF Peaks, AppIdle
  <2> QED
    BY <2>1, <2>2, SameReach, Served DEF MixerOK
<1> QED
  BY <1>1, <1>2, <1>3, <1>4, <1>5, <1>6 DEF Outside

LEMMA MixerInit == Init => MixerOK
<1> SUFFICES ASSUME Init PROVE MixerOK
  OBVIOUS
<1>1. \A x \in Setting : \A c \in DOMAIN Initial[x] : Initial[x][c] \in Nat
  BY VolumesAssumption, VolumesFacts
<1>2. reach = [x \in Setting |-> [c \in DOMAIN Initial[x] |->
                                       [low |-> Initial[x][c], high |-> Initial[x][c]]]]
  BY DEF Init
<1>3. Reach(reach)
  BY <1>1, <1>2 DEF Reach
<1>4. \A x \in Setting : Initial[x] \in Fitting(x, reach)
  BY <1>1, <1>2, VolumesAssumption DEF Fitting
<1>5. \A x \in Setting : Initial[x] \in AnyVolumes
  BY VolumesAssumption, VolumesFacts
<1>6. /\ server.set = [x \in Setting |-> [volumes |-> Initial[x], mute |-> FALSE]]
      /\ server \in [set : {server.set}, profile : Profile, route : Route \cup {None},
                     metadata : {NoMetadata}, metadataId : {1}]
  <2>1. PICK p \in Profile, y \in Route \cup {None} :
            server = [set |-> [x \in Setting |-> [volumes |-> Initial[x], mute |-> FALSE]],
                      profile |-> p, route |-> y, metadata |-> NoMetadata, metadataId |-> 1]
    BY DEF Init
  <2> QED
    BY <2>1
<1>7. NoMetadata \in MetaRecord
  BY DEF NoMetadata, MetaRecord, MetaValue
<1>8. server.set \in [Setting -> [volumes : AnyVolumes, mute : BOOLEAN]]
  BY <1>5, <1>6
<1>9. \A x \in Setting : server.set[x].volumes \in Fitting(x, reach)
  BY <1>4, <1>6
<1>10. server \in Server(reach)
  BY <1>6, <1>7, <1>8, <1>9 DEF Server, MetaId
<1>11. \A n \in Node : NodeKnown(server, n) \in NodesKnown(n, reach) \cup {None}
  BY <1>10 DEF NodeKnown, NodesKnown, NodeRecord, Server, Setting
<1>12. RouteKnown(server, server.route) \in RoutesKnown(reach) \cup {None}
  <2>1. CASE server.route = None
    BY <2>1 DEF RouteKnown
  <2>2. CASE server.route # None
    BY <1>10, <2>2, RouteEventsFit
  <2> QED
    BY <2>1, <2>2
<1>13. \A n \in Node : NodeKnown(server, n) \in NodeRecord \cup {None}
  BY <1>11 DEF NodesKnown
<1>14. state \in States(reach)
  <2>1. state = StateOf(server)
    BY DEF Init
  <2>2. server.profile \in Profile /\ server.metadata \in MetaRecord /\ server.metadataId \in MetaId
    BY <1>10 DEF Server
  <2>3. StateOf(server) \in States(reach)
    BY <1>11, <1>12, <1>13, <2>2 DEF States, StateOf
  <2> QED
    BY <2>1, <2>3
<1>15. view \in Views(reach)
  BY <1>14, ViewOfFits DEF Init
<1>16. commands \in Seq(Commands(reach)) /\ events \in Seq(Events(reach))
  <2>1. commands = <<>> /\ events = <<>>
    BY DEF Init
  <2> QED
    BY <2>1
<1>17. /\ dirty \in BOOLEAN /\ needsRender \in BOOLEAN /\ visible = VisibleObjects(view)
       /\ missed \in {"no", "view", "screen"}
  BY DEF Init
<1> QED
  BY <1>3, <1>10, <1>14, <1>15, <1>16, <1>17 DEF MixerOK

LEMMA MixerNext == MixerOK /\ [Next]_vars => MixerOK'
<1> SUFFICES ASSUME MixerOK, [Next]_vars PROVE MixerOK'
  OBVIOUS
<1>1. CASE Key
  BY <1>1, KeyFits
<1>2. CASE Execute
  <2>1. Head(commands) \in Commands(reach) /\ Tail(commands) \in Seq(Commands(reach))
    BY <1>2 DEF Execute, MixerOK
  <2> QED
    BY <1>2, <2>1, ServerDoes DEF Execute, AppIdle
<1>3. CASE Outside
  BY <1>3, OutsideFits
<1>4. CASE HandleEvent
  <2>1. Head(events) \in Events(reach) /\ Tail(events) \in Seq(Events(reach))
    BY <1>4 DEF HandleEvent, MixerOK
  <2>2. state' \in States(reach)
    BY <1>4, <2>1, UpdatedFits DEF HandleEvent, MixerOK
  <2> QED
    BY <1>4, <2>1, <2>2 DEF HandleEvent, MixerOK
<1>5. CASE Turn
  <2>1. view' \in Views(reach)
    BY <1>5, ViewOfFits DEF Turn, MixerOK
  <2> QED
    BY <1>5, <2>1 DEF Turn, MixerOK
<1>6. CASE UNCHANGED vars
  BY <1>6 DEF vars, appVars, MixerOK
<1> QED
  BY <1>1, <1>2, <1>3, <1>4, <1>5, <1>6 DEF Next

(* Volumes at the server, in every queue, in State and in the View stay in *)
(* the range of what has been asked of them.                               *)
THEOREM MixerInductive == Spec => []MixerOK
<1> QED
  BY MixerInit, MixerNext, PTL DEF Spec

(* No sequence of keys takes a channel past the enforced maximum, with any *)
(* view however old, any levels, channels and other clients that respect   *)
(* it.                                                                     *)
THEOREM MaximumKept == Spec => []MaxRespected
<1>1. MixerOK => MaxRespected
  <2> SUFFICES ASSUME MixerOK, NEW x \in Setting, NEW c \in DOMAIN server.set[x].volumes
               PROVE  server.set[x].volumes[c] <= MaxLevel
    BY DEF MaxRespected
  <2>1. server.set[x].volumes \in VolumesOf(x)
    BY DEF MixerOK, Server, Fitting
  <2> QED
    BY <2>1, VolumesFacts
<1> QED
  BY <1>1, MixerInductive, PTL

(* No channel leaves the range that its keys and other clients asked for.  *)
THEOREM StepsKept == Spec => []StepsWithinKeys
<1>1. MixerOK => StepsWithinKeys
  <2> SUFFICES ASSUME MixerOK, NEW x \in Setting, NEW c \in DOMAIN server.set[x].volumes
               PROVE  /\ reach[x][c].low <= server.set[x].volumes[c]
                      /\ server.set[x].volumes[c] <= reach[x][c].high
    BY DEF StepsWithinKeys
  <2>1. server.set[x].volumes \in Fitting(x, reach)
    BY DEF MixerOK, Server
  <2>2. DOMAIN server.set[x].volumes = DOMAIN Initial[x]
    BY <2>1, VolumesFacts DEF Fitting
  <2> QED
    BY <2>1, <2>2 DEF Fitting
<1> QED
  BY <1>1, MixerInductive, PTL

-----------------------------------------------------------------------------
(* The events on their way lead from what the App knows to what the server *)
(* holds.                                                                  *)
Leads(a, es, b) ==
    \E f : /\ DOMAIN f = 0 .. Len(es) /\ f[0] = a /\ f[Len(es)] = b
          /\ \A k \in 1 .. Len(es) : f[k] = Updated(f[k - 1], es[k])

Told(b, s) ==
    /\ b.profile = s.profile /\ b.metadata = s.metadata /\ b.metadataId = s.metadataId
    /\ \A n \in Node : b.node[n] = NodeKnown(s, n)
    /\ s.route # None => b.route = RouteKnown(s, s.route)

RouteOK(s) ==
    /\ s.route # None => s.profile \in ProfilesOf[s.route]
    /\ s.route = None => \A y \in Route : s.profile \notin ProfilesOf[y]

ToldOK ==
    /\ RouteOK(server)
    /\ \E b \in States(reach) : Leads(state, events, b) /\ Told(b, server)
    /\ ~dirty /\ missed # "view" => view = ViewOf(state)

LEMMA LeadsNone == \A a, b : Leads(a, <<>>, b) <=> a = b
<1>1. ASSUME NEW a PROVE Leads(a, <<>>, a)
  <2> DEFINE f == [k \in 0 .. 0 |-> a]
  <2>1. DOMAIN f = 0 .. Len(<<>>) /\ f[0] = a /\ f[Len(<<>>)] = a
    OBVIOUS
  <2> HIDE DEF f
  <2> QED
    BY <2>1 DEF Leads
<1>2. ASSUME NEW a, NEW b, Leads(a, <<>>, b) PROVE a = b
  BY <1>2 DEF Leads
<1> QED
  BY <1>1, <1>2

LEMMA LeadsOne == \A a, e : Leads(a, <<e>>, Updated(a, e))
<1> TAKE a, e
<1> DEFINE f == [k \in 0 .. 1 |-> IF k = 0 THEN a ELSE Updated(a, e)]
<1>1. DOMAIN f = 0 .. Len(<<e>>) /\ f[0] = a /\ f[Len(<<e>>)] = Updated(a, e)
  OBVIOUS
<1>2. \A k \in 1 .. Len(<<e>>) : f[k] = Updated(f[k - 1], <<e>>[k])
  OBVIOUS
<1> HIDE DEF f
<1> QED
  BY <1>1, <1>2 DEF Leads

LEMMA LeadsOn ==
    ASSUME NEW S, NEW es \in Seq(S), NEW fs \in Seq(S), NEW a, NEW b, NEW c,
           Leads(a, es, b), Leads(b, fs, c)
    PROVE  Leads(a, es \o fs, c)
<1>1. PICK f : /\ DOMAIN f = 0 .. Len(es) /\ f[0] = a /\ f[Len(es)] = b
               /\ \A k \in 1 .. Len(es) : f[k] = Updated(f[k - 1], es[k])
  BY DEF Leads
<1>2. PICK g : /\ DOMAIN g = 0 .. Len(fs) /\ g[0] = b /\ g[Len(fs)] = c
               /\ \A k \in 1 .. Len(fs) : g[k] = Updated(g[k - 1], fs[k])
  BY DEF Leads
<1> DEFINE all == es \o fs
           h == [k \in 0 .. Len(all) |-> IF k <= Len(es) THEN f[k] ELSE g[k - Len(es)]]
<1>3. /\ Len(es) \in Nat /\ Len(fs) \in Nat /\ Len(all) = Len(es) + Len(fs)
      /\ \A k \in 1 .. Len(all) :
            all[k] = IF k <= Len(es) THEN es[k] ELSE fs[k - Len(es)]
  OBVIOUS
<1> HIDE DEF all
<1>4. DOMAIN h = 0 .. Len(all) /\ h[0] = a /\ h[Len(all)] = c
  BY <1>1, <1>2, <1>3
<1>5. ASSUME NEW k \in 1 .. Len(all) PROVE h[k] = Updated(h[k - 1], all[k])
  <2>1. CASE k <= Len(es)
    <3>1. k \in 1 .. Len(es) /\ h[k] = f[k] /\ h[k - 1] = f[k - 1] /\ all[k] = es[k]
      BY <1>3, <2>1
    <3> QED
      BY <1>1, <3>1
  <2>2. CASE k > Len(es)
    <3>1. k - Len(es) \in 1 .. Len(fs) /\ h[k] = g[k - Len(es)] /\ all[k] = fs[k - Len(es)]
      BY <1>3, <2>2
    <3>2. h[k - 1] = g[(k - Len(es)) - 1]
      <4>1. CASE k - 1 = Len(es)
        BY <1>1, <1>2, <1>3, <4>1
      <4>2. CASE k - 1 # Len(es)
        <5>1. k - 1 \in 0 .. Len(all) /\ ~(k - 1 <= Len(es))
          BY <1>3, <2>2, <4>2
        <5> QED
          BY <1>3, <5>1
      <4> QED
        BY <4>1, <4>2
    <3> QED
      BY <1>2, <3>1, <3>2
  <2> QED
    BY <1>3, <2>1, <2>2
<1> HIDE DEF h
<1> QED
  BY <1>4, <1>5 DEF Leads, all

LEMMA LeadsTail ==
    ASSUME NEW S, NEW es \in Seq(S), es # <<>>, NEW a, NEW b, Leads(a, es, b)
    PROVE  Leads(Updated(a, Head(es)), Tail(es), b)
<1>1. PICK f : /\ DOMAIN f = 0 .. Len(es) /\ f[0] = a /\ f[Len(es)] = b
               /\ \A k \in 1 .. Len(es) : f[k] = Updated(f[k - 1], es[k])
  BY DEF Leads
<1> DEFINE rest == Tail(es)
           g == [k \in 0 .. Len(rest) |-> f[k + 1]]
<1>2. /\ Len(rest) \in Nat /\ Len(es) = Len(rest) + 1 /\ Head(es) = es[1]
      /\ \A k \in 1 .. Len(rest) : rest[k] = es[k + 1]
  OBVIOUS
<1> HIDE DEF rest
<1>3. DOMAIN g = 0 .. Len(rest) /\ g[Len(rest)] = b
  BY <1>1, <1>2
<1>4. g[0] = Updated(a, Head(es))
  BY <1>1, <1>2
<1>5. ASSUME NEW k \in 1 .. Len(rest) PROVE g[k] = Updated(g[k - 1], rest[k])
  <2>1. g[k] = f[k + 1] /\ g[k - 1] = f[k] /\ rest[k] = es[k + 1] /\ k + 1 \in 1 .. Len(es)
    BY <1>2
  <2> QED
    BY <1>1, <2>1
<1> HIDE DEF g
<1> QED
  BY <1>3, <1>4, <1>5 DEF Leads, rest

-----------------------------------------------------------------------------
(* What State b has heard of node n, and that b2 differs there only.       *)
Heard(b, n, kn, v, m) == b.node[n] = [known |-> kn, volumes |-> v, mute |-> m]

ElseAs(b, b2, n) ==
    /\ \A o \in Node \ {n} : b2.node[o] = b.node[o]
    /\ b2.profile = b.profile /\ b2.route = b.route /\ b2.metadata = b.metadata
    /\ b2.metadataId = b.metadataId

LEMMA VolumesHeard ==
    ASSUME NEW r, NEW b \in States(r), NEW n \in Node, NEW kn, NEW v, NEW m, NEW w,
           Heard(b, n, kn, v, m), b.node[n] # None,
           NEW b1, b1 = Updated(b, [type |-> "volumes", id |-> n, volumes |-> w])
    PROVE  Heard(b1, n, kn, w, m) /\ ElseAs(b, b1, n)
<1>1. PICK k : k = b.node[n] /\ k = [known |-> kn, volumes |-> v, mute |-> m]
  BY DEF Heard
<1>2. [k EXCEPT !.volumes = w] = [known |-> kn, volumes |-> w, mute |-> m]
  BY <1>1
<1>3. Entry(b, n) = k
  BY <1>1 DEF Entry
<1>4. PICK k2 : k2 = [k EXCEPT !.volumes = w]
  OBVIOUS
<1>5. b1 = [b EXCEPT !.node[n] = k2]
  BY <1>3, <1>4 DEF Updated
<1> QED
  BY <1>2, <1>4, <1>5 DEF States, Heard, ElseAs

LEMMA MuteHeard ==
    ASSUME NEW r, NEW b \in States(r), NEW n \in Node, NEW kn, NEW v, NEW m, NEW w,
           Heard(b, n, kn, v, m), b.node[n] # None,
           NEW b1, b1 = Updated(b, [type |-> "mute", id |-> n, mute |-> w])
    PROVE  Heard(b1, n, kn, v, w) /\ ElseAs(b, b1, n)
<1>1. PICK k : k = b.node[n] /\ k = [known |-> kn, volumes |-> v, mute |-> m]
  BY DEF Heard
<1>2. [k EXCEPT !.mute = w] = [known |-> kn, volumes |-> v, mute |-> w]
  BY <1>1
<1>3. Entry(b, n) = k
  BY <1>1 DEF Entry
<1>4. PICK k2 : k2 = [k EXCEPT !.mute = w]
  OBVIOUS
<1>5. b1 = [b EXCEPT !.node[n] = k2]
  BY <1>3, <1>4 DEF Updated
<1> QED
  BY <1>2, <1>4, <1>5 DEF States, Heard, ElseAs

LEMMA HeardSome ==
    ASSUME NEW b, NEW n, NEW kn \in BOOLEAN, NEW v \in AnyVolumes \cup {None},
           NEW m \in BOOLEAN \cup {None}, Heard(b, n, kn, v, m)
    PROVE  b.node[n] # None
<1>1. b.node[n] \in NodeRecord
  BY DEF NodeRecord, Heard
<1> QED
  BY <1>1, NoneAssumption

(* Volumes and mute of a node, told in two events.                         *)
LEMMA NodeHeard ==
    ASSUME NEW r, NEW t \in Server(r), NEW n \in Node, NEW b \in States(r),
           NEW kn \in BOOLEAN, NEW v \in AnyVolumes \cup {None}, NEW m \in BOOLEAN \cup {None},
           Heard(b, n, kn, v, m)
    PROVE  \E b2 \in States(r) :
              /\ Leads(b, NodeEvents(t, n), b2)
              /\ Heard(b2, n, kn, t.set[n].volumes, t.set[n].mute)
              /\ ElseAs(b, b2, n)
<1> DEFINE e1 == [type |-> "volumes", id |-> n, volumes |-> t.set[n].volumes]
           e2 == [type |-> "mute", id |-> n, mute |-> t.set[n].mute]
           b1 == Updated(b, e1)
           b2 == Updated(b1, e2)
<1>1. NodeEvents(t, n) = <<e1>> \o <<e2>> /\ NodeEvents(t, n) = <<e1, e2>>
  BY DEF NodeEvents
<1>2. e1 \in Events(r) /\ e2 \in Events(r)
  BY <1>1, NodeEventsFit
<1>3. b1 \in States(r) /\ b2 \in States(r)
  BY <1>2, UpdatedFits
<1>4. Leads(b, NodeEvents(t, n), b2)
  <2>1. <<e1>> \in Seq(Events(r)) /\ <<e2>> \in Seq(Events(r))
    BY <1>2
  <2> QED
    BY <1>1, <2>1, LeadsOne, LeadsOn
<1>5. t.set[n].volumes \in AnyVolumes /\ t.set[n].mute \in BOOLEAN
  BY DEF Server, Setting
<1>6. Heard(b1, n, kn, t.set[n].volumes, m) /\ ElseAs(b, b1, n)
  BY HeardSome, VolumesHeard
<1> HIDE DEF b1
<1>7. Heard(b2, n, kn, t.set[n].volumes, t.set[n].mute) /\ ElseAs(b1, b2, n)
  BY <1>3, <1>5, <1>6, HeardSome, MuteHeard
<1> HIDE DEF b2
<1>8. ElseAs(b, b2, n)
  BY <1>6, <1>7 DEF ElseAs
<1> QED
  BY <1>3, <1>4, <1>7, <1>8

LEMMA NodeStepTold ==
    ASSUME NEW r, NEW s \in Server(r), NEW t \in Server(r), NEW es, NEW n \in Node,
           NEW b \in States(r), Told(b, s), NodeStep(s, t, es, n)
    PROVE  \E b2 \in States(r) : Leads(b, es, b2) /\ Told(b2, t)
<1>1. /\ t.profile = s.profile /\ t.route = s.route /\ t.metadata = s.metadata
      /\ t.metadataId = s.metadataId
      /\ \A x \in Setting \ {n} : t.set[x] = s.set[x]
  BY DEF NodeStep, Server
<1>2. Heard(b, n, TRUE, s.set[n].volumes, s.set[n].mute)
  BY DEF Told, NodeKnown, NodeStep, Heard
<1>3. s.set[n].volumes \in AnyVolumes /\ s.set[n].mute \in BOOLEAN
  BY DEF Server, Setting
<1>4. PICK b2 \in States(r) :
              /\ Leads(b, es, b2)
              /\ Heard(b2, n, TRUE, t.set[n].volumes, t.set[n].mute)
              /\ ElseAs(b, b2, n)
  BY <1>2, <1>3, NodeHeard DEF NodeStep
<1>5. Told(b2, t)
  <2>1. b2.node[n] = NodeKnown(t, n)
    BY <1>1, <1>4 DEF NodeKnown, NodeStep, Heard
  <2>2. \A m \in Node \ {n} : b2.node[m] = NodeKnown(t, m)
    BY <1>1, <1>4 DEF NodeKnown, Told, Setting, ElseAs
  <2>3. t.route # None => b2.route = RouteKnown(t, t.route)
    <3>1. t.route # None => t.route \in Setting \ {n}
      BY NodeAssumption DEF Server, Setting
    <3> QED
      BY <1>1, <1>4, <3>1 DEF RouteKnown, Told, ElseAs
  <2> QED
    BY <1>1, <1>4, <2>1, <2>2, <2>3 DEF Told, ElseAs
<1> QED
  BY <1>4, <1>5

LEMMA RouteStepTold ==
    ASSUME NEW r, NEW s \in Server(r), NEW t \in Server(r), NEW es, NEW x \in Route,
           NEW b \in States(r), Told(b, s), RouteStep(s, t, es, x)
    PROVE  /\ \E b2 \in States(r) : Leads(b, es, b2) /\ Told(b2, t)
           /\ RouteOK(t)
<1>1. x # None /\ x \in Setting /\ x \notin Node
  BY NoneAssumption, NodeAssumption DEF Setting
<1>2. /\ t.profile = s.profile /\ t.route = x /\ t.metadata = s.metadata
      /\ t.metadataId = s.metadataId
      /\ \A n \in Node : t.set[n] = s.set[n]
  <2>1. t = [s EXCEPT !.route = x, !.set[x] = t.set[x]]
    BY DEF RouteStep
  <2>2. \A n \in Node : n \in Setting /\ n # x
    BY <1>1 DEF Setting
  <2> QED
    BY <2>1, <2>2 DEF Server
<1> DEFINE e == [type |-> "route", route |-> RouteKnown(t, x)]
           b2 == Updated(b, e)
<1>3. es = <<e>> /\ es \in Seq(Events(r))
  BY <1>1, <1>2, RouteEventsFit DEF RouteStep, RouteEvents
<1>4. b2 \in States(r)
  <2>1. e \in Events(r)
    BY <1>3
  <2> QED
    BY <2>1, UpdatedFits
<1>5. Leads(b, es, b2)
  BY <1>3, LeadsOne
<1>6. b2 = [b EXCEPT !.route = RouteKnown(t, x)]
  BY DEF Updated
<1>7. Told(b2, t)
  <2>1. \A n \in Node : b2.node[n] = NodeKnown(t, n)
    BY <1>2, <1>6 DEF Told, NodeKnown, States
  <2> QED
    BY <1>2, <1>6, <2>1 DEF Told, States
<1>8. RouteOK(t)
  BY <1>1, <1>2 DEF RouteOK, RouteStep
<1> QED
  BY <1>4, <1>5, <1>7, <1>8

LEMMA MetadataStepTold ==
    ASSUME NEW r, NEW s \in Server(r), NEW t \in Server(r), NEW es, NEW c \in Commands(r),
           NEW b \in States(r), Told(b, s), MetadataStep(s, t, es, c)
    PROVE  \E b2 \in States(r) : Leads(b, es, b2) /\ Told(b2, t)
<1>1. c.key \in MetaKey /\ c.value \in MetaValue
  BY DEF MetadataStep, Commands
<1> DEFINE e == [type |-> "metadata", key |-> c.key, value |-> c.value]
           b2 == Updated(b, e)
<1>2. es = <<e>>
  BY DEF MetadataStep, MetadataEvents
<1>3. b2 \in States(r)
  <2>1. e \in Events(r)
    BY <1>1 DEF Events
  <2> QED
    BY <2>1, UpdatedFits
<1>4. Leads(b, es, b2)
  BY <1>2, LeadsOne
<1>5. b2 = [b EXCEPT !.metadata[c.key] = c.value]
  BY DEF Updated
<1>6. t = [s EXCEPT !.metadata[c.key] = c.value]
  BY DEF MetadataStep
<1>7. Told(b2, t)
  <2>1. t.set = s.set /\ t.profile = s.profile /\ t.route = s.route /\ t.metadataId = s.metadataId
    BY <1>6 DEF Server
  <2>2. b2.node = b.node /\ b2.route = b.route /\ b2.profile = b.profile /\ b2.metadataId = b.metadataId
    BY <1>5 DEF States
  <2>3. b2.metadata = t.metadata
    BY <1>5, <1>6 DEF States, Server, Told
  <2> QED
    BY <2>1, <2>2, <2>3 DEF Told, NodeKnown, RouteKnown
<1> QED
  BY <1>3, <1>4, <1>7

-----------------------------------------------------------------------------
(* A change of profile, in three parts told in one of several orders.      *)
Gone == <<[type |-> "removed", id |-> "sink"]>>
Back(t) == IF t.profile \in SinkProfiles
           THEN <<[type |-> "properties", id |-> "sink"]>> \o NodeEvents(t, "sink")
           ELSE <<>>
Cards(t) == {ProfileEvents(t) \o RouteEvents(t), RouteEvents(t) \o ProfileEvents(t)}

(* What the card tells leaves the nodes alone. *)
CardAs(b, b2, t) ==
    /\ b2.node = b.node /\ b2.metadata = b.metadata /\ b2.metadataId = b.metadataId
    /\ b2.profile = t.profile
    /\ t.route # None => b2.route = RouteKnown(t, t.route)

CardKept(b, b2) == b2.profile = b.profile /\ b2.route = b.route

SinkAs(b, b2) ==
    /\ b2.node["stream"] = b.node["stream"] /\ b2.metadata = b.metadata
    /\ b2.metadataId = b.metadataId /\ CardKept(b, b2)

LEMMA GoneTold ==
    ASSUME NEW r, NEW b \in States(r)
    PROVE  \E b2 \in States(r) :
              Leads(b, Gone, b2) /\ SinkAs(b, b2) /\ b2.node["sink"] = None
<1> DEFINE e == [type |-> "removed", id |-> "sink"]
           b2 == Updated(b, e)
<1>1. e \in Events(r)
  BY DEF Events
<1>2. b2 \in States(r)
  BY <1>1, UpdatedFits
<1>3. Leads(b, Gone, b2)
  BY LeadsOne DEF Gone
<1>4. b2 = [b EXCEPT !.node["sink"] = None]
  BY DEF Updated, Forgotten
<1>5. SinkAs(b, b2) /\ b2.node["sink"] = None
  BY <1>4 DEF States, SinkAs, CardKept, Node
<1> QED
  BY <1>2, <1>3, <1>5

LEMMA BackTold ==
    ASSUME NEW r, NEW b \in States(r), NEW t \in Server(r), b.node["sink"] = None
    PROVE  \E b2 \in States(r) :
              Leads(b, Back(t), b2) /\ SinkAs(b, b2) /\ b2.node["sink"] = NodeKnown(t, "sink")
<1> USE DEF Node
<1>1. CASE t.profile \notin SinkProfiles
  <2>1. Back(t) = <<>> /\ NodeKnown(t, "sink") = None
    BY <1>1 DEF Back, NodeKnown
  <2>2. SinkAs(b, b)
    BY DEF SinkAs, CardKept
  <2> QED
    BY <2>1, <2>2, LeadsNone
<1>2. CASE t.profile \in SinkProfiles
  <2> DEFINE e == [type |-> "properties", id |-> "sink"]
             b1 == Updated(b, e)
             k == [Entry(b, "sink") EXCEPT !.known = TRUE]
  <2>1. e \in Events(r) /\ b1 \in States(r) /\ Leads(b, <<e>>, b1)
    <3>1. e \in Events(r)
      BY DEF Events
    <3> QED
      BY <3>1, UpdatedFits, LeadsOne
  <2>2. b1 = [b EXCEPT !.node["sink"] = k]
    BY DEF Updated
  <2>3. k = [known |-> TRUE, volumes |-> None, mute |-> None]
    <3>1. PICK no, yes : no = FALSE /\ yes = TRUE
      OBVIOUS
    <3>2. PICK old : old = Entry(b, "sink") /\ old = [known |-> no, volumes |-> None, mute |-> None]
      BY <3>1 DEF Entry
    <3>3. [old EXCEPT !.known = yes] = [known |-> yes, volumes |-> None, mute |-> None]
      BY <3>2
    <3>4. k = [old EXCEPT !.known = yes]
      BY <3>1, <3>2
    <3> QED
      BY <3>1, <3>3, <3>4
  <2> HIDE DEF b1, k
  <2>4. SinkAs(b, b1) /\ b1.node["sink"] = k
    BY <2>2 DEF States, SinkAs, CardKept
  <2>5. Heard(b1, "sink", TRUE, None, None)
    BY <2>3, <2>4 DEF Heard
  <2>6. PICK b2 \in States(r) :
              /\ Leads(b1, NodeEvents(t, "sink"), b2)
              /\ Heard(b2, "sink", TRUE, t.set["sink"].volumes, t.set["sink"].mute)
              /\ ElseAs(b1, b2, "sink")
    BY <2>1, <2>5, NodeHeard
  <2>7. Leads(b, Back(t), b2)
    <3>1. <<e>> \in Seq(Events(r)) /\ NodeEvents(t, "sink") \in Seq(Events(r))
      BY <2>1, NodeEventsFit
    <3> QED
      BY <1>2, <2>1, <2>6, <3>1, LeadsOn DEF Back
  <2>8. SinkAs(b, b2)
    BY <2>4, <2>6 DEF SinkAs, CardKept, ElseAs
  <2>9. b2.node["sink"] = NodeKnown(t, "sink")
    BY <1>2, <2>6 DEF NodeKnown, Heard
  <2> QED
    BY <2>7, <2>8, <2>9
<1> QED
  BY <1>1, <1>2

LEMMA ProfileTold ==
    ASSUME NEW r, NEW b \in States(r), NEW t \in Server(r)
    PROVE  \E b2 \in States(r) :
              /\ Leads(b, ProfileEvents(t), b2)
              /\ b2 = [b EXCEPT !.profile = t.profile]
<1> DEFINE e == [type |-> "profile", profile |-> t.profile]
<1>1. e \in Events(r)
  BY DEF Events, Server
<1>2. Updated(b, e) = [b EXCEPT !.profile = t.profile]
  BY DEF Updated
<1> QED
  BY <1>1, <1>2, UpdatedFits, LeadsOne DEF ProfileEvents

LEMMA RouteTold ==
    ASSUME NEW r, NEW b \in States(r), NEW t \in Server(r)
    PROVE  \E b2 \in States(r) :
              /\ Leads(b, RouteEvents(t), b2)
              /\ b2 = IF t.route = None THEN b ELSE [b EXCEPT !.route = RouteKnown(t, t.route)]
<1>1. CASE t.route = None
  BY <1>1, LeadsNone DEF RouteEvents
<1>2. CASE t.route # None
  <2> DEFINE e == [type |-> "route", route |-> RouteKnown(t, t.route)]
  <2>1. e \in Events(r) /\ RouteEvents(t) = <<e>>
    BY <1>2, RouteEventsFit DEF RouteEvents, Events
  <2>2. Updated(b, e) = [b EXCEPT !.route = RouteKnown(t, t.route)]
    BY DEF Updated
  <2> QED
    BY <1>2, <2>1, <2>2, UpdatedFits, LeadsOne
<1> QED
  BY <1>1, <1>2

LEMMA CardTold ==
    ASSUME NEW r, NEW b \in States(r), NEW t \in Server(r), NEW card \in Cards(t)
    PROVE  \E b2 \in States(r) : Leads(b, card, b2) /\ CardAs(b, b2, t)
<1>1. ProfileEvents(t) \in Seq(Events(r)) /\ RouteEvents(t) \in Seq(Events(r))
  <2>1. t.profile \in Profile
    BY DEF Server
  <2> QED
    BY <2>1, RouteEventsFit DEF ProfileEvents, Events
<1>2. CASE card = ProfileEvents(t) \o RouteEvents(t)
  <2>1. PICK b1 \in States(r) :
            Leads(b, ProfileEvents(t), b1) /\ b1 = [b EXCEPT !.profile = t.profile]
    BY ProfileTold
  <2>2. PICK b2 \in States(r) :
            /\ Leads(b1, RouteEvents(t), b2)
            /\ b2 = IF t.route = None THEN b1 ELSE [b1 EXCEPT !.route = RouteKnown(t, t.route)]
    BY RouteTold
  <2>3. Leads(b, card, b2)
    BY <1>1, <1>2, <2>1, <2>2, LeadsOn
  <2>4. CardAs(b, b2, t)
    BY <2>1, <2>2 DEF CardAs, States
  <2> QED
    BY <2>3, <2>4
<1>3. CASE card = RouteEvents(t) \o ProfileEvents(t)
  <2>1. PICK b1 \in States(r) :
            /\ Leads(b, RouteEvents(t), b1)
            /\ b1 = IF t.route = None THEN b ELSE [b EXCEPT !.route = RouteKnown(t, t.route)]
    BY RouteTold
  <2>2. PICK b2 \in States(r) :
            Leads(b1, ProfileEvents(t), b2) /\ b2 = [b1 EXCEPT !.profile = t.profile]
    BY ProfileTold
  <2>3. Leads(b, card, b2)
    BY <1>1, <1>3, <2>1, <2>2, LeadsOn
  <2>4. CardAs(b, b2, t)
    BY <2>1, <2>2 DEF CardAs, States
  <2> QED
    BY <2>3, <2>4
<1> QED
  BY <1>2, <1>3 DEF Cards

LEMMA ProfileStepTold ==
    ASSUME NEW r, NEW s \in Server(r), NEW t \in Server(r), NEW es, NEW x \in Route \cup {None},
           NEW b \in States(r), Told(b, s), ProfileStep(s, t, es, x)
    PROVE  /\ \E b2 \in States(r) : Leads(b, es, b2) /\ Told(b2, t)
           /\ RouteOK(t)
<1>1. /\ t.set = s.set /\ t.metadata = s.metadata /\ t.metadataId = s.metadataId /\ t.route = x
  BY DEF ProfileStep, Server
<1>2. RouteOK(t)
  BY <1>1, NoneAssumption DEF RouteOK, ProfileStep, Setting
<1>3. PICK card \in Cards(t) :
          es \in {Gone \o card \o Back(t), card \o Gone \o Back(t), Gone \o Back(t) \o card}
  BY DEF ProfileStep, ProfileReports, Cards, Gone, Back
<1>4. /\ Gone \in Seq(Events(r)) /\ Back(t) \in Seq(Events(r)) /\ card \in Seq(Events(r))
      /\ Gone \o card \in Seq(Events(r)) /\ card \o Gone \in Seq(Events(r))
      /\ Gone \o Back(t) \in Seq(Events(r))
  <2>1. Gone \in Seq(Events(r)) /\ <<[type |-> "properties", id |-> "sink"]>> \in Seq(Events(r))
    BY DEF Events, Node, Gone
  <2>2. Back(t) \in Seq(Events(r))
    <3>1. NodeEvents(t, "sink") \in Seq(Events(r))
      BY NodeEventsFit DEF Node
    <3>2. CASE t.profile \in SinkProfiles
      BY <2>1, <3>1, <3>2, SeqConcat DEF Back
    <3>3. CASE t.profile \notin SinkProfiles
      BY <3>3 DEF Back
    <3> QED
      BY <3>2, <3>3
  <2>3. ProfileEvents(t) \in Seq(Events(r)) /\ RouteEvents(t) \in Seq(Events(r))
    <3>1. t.profile \in Profile
      BY DEF Server
    <3> QED
      BY <3>1, RouteEventsFit DEF ProfileEvents, Events
  <2>4. card \in Seq(Events(r))
    BY <2>3, SeqConcat DEF Cards
  <2> QED
    BY <2>1, <2>2, <2>4, SeqConcat
(* Whatever the order, the end is the same. *)
<1> DEFINE Ends(c) == /\ c.node["stream"] = b.node["stream"]
                      /\ c.node["sink"] = NodeKnown(t, "sink")
                      /\ c.metadata = b.metadata /\ c.metadataId = b.metadataId
                      /\ c.profile = t.profile
                      /\ t.route # None => c.route = RouteKnown(t, t.route)
<1>5. PICK c \in States(r) : Leads(b, es, c) /\ Ends(c)
  <2>1. CASE es = Gone \o card \o Back(t)
    <3>1. PICK b1 \in States(r) : Leads(b, Gone, b1) /\ SinkAs(b, b1) /\ b1.node["sink"] = None
      BY GoneTold
    <3>2. PICK b2 \in States(r) : Leads(b1, card, b2) /\ CardAs(b1, b2, t)
      BY CardTold
    <3>3. b2.node["sink"] = None
      BY <3>1, <3>2 DEF CardAs
    <3>4. PICK b3 \in States(r) :
              Leads(b2, Back(t), b3) /\ SinkAs(b2, b3) /\ b3.node["sink"] = NodeKnown(t, "sink")
      BY <3>3, BackTold
    <3>5. Leads(b, Gone \o card, b2)
      BY <1>4, <3>1, <3>2, LeadsOn
    <3>6. Leads(b, es, b3)
      BY <1>4, <2>1, <3>4, <3>5, LeadsOn
    <3>7. Ends(b3)
      BY <3>1, <3>2, <3>4 DEF SinkAs, CardKept, CardAs
    <3> QED
      BY <3>6, <3>7
  <2>2. CASE es = card \o Gone \o Back(t)
    <3>1. PICK b1 \in States(r) : Leads(b, card, b1) /\ CardAs(b, b1, t)
      BY CardTold
    <3>2. PICK b2 \in States(r) : Leads(b1, Gone, b2) /\ SinkAs(b1, b2) /\ b2.node["sink"] = None
      BY GoneTold
    <3>3. PICK b3 \in States(r) :
              Leads(b2, Back(t), b3) /\ SinkAs(b2, b3) /\ b3.node["sink"] = NodeKnown(t, "sink")
      BY <3>2, BackTold
    <3>4. Leads(b, card \o Gone, b2)
      BY <1>4, <3>1, <3>2, LeadsOn
    <3>5. Leads(b, es, b3)
      BY <1>4, <2>2, <3>3, <3>4, LeadsOn
    <3>6. Ends(b3)
      BY <3>1, <3>2, <3>3 DEF SinkAs, CardKept, CardAs
    <3> QED
      BY <3>5, <3>6
  <2>3. CASE es = Gone \o Back(t) \o card
    <3>1. PICK b1 \in States(r) : Leads(b, Gone, b1) /\ SinkAs(b, b1) /\ b1.node["sink"] = None
      BY GoneTold
    <3>2. PICK b2 \in States(r) :
              Leads(b1, Back(t), b2) /\ SinkAs(b1, b2) /\ b2.node["sink"] = NodeKnown(t, "sink")
      BY <3>1, BackTold
    <3>3. PICK b3 \in States(r) : Leads(b2, card, b3) /\ CardAs(b2, b3, t)
      BY CardTold
    <3>4. Leads(b, Gone \o Back(t), b2)
      BY <1>4, <3>1, <3>2, LeadsOn
    <3>5. Leads(b, es, b3)
      BY <1>4, <2>3, <3>3, <3>4, LeadsOn
    <3>6. Ends(b3)
      BY <3>1, <3>2, <3>3 DEF SinkAs, CardKept, CardAs
    <3> QED
      BY <3>5, <3>6
  <2> QED
    BY <1>3, <2>1, <2>2, <2>3
<1>6. Told(c, t)
  <2>1. c.node["stream"] = NodeKnown(t, "stream")
    BY <1>1, <1>5 DEF Told, NodeKnown, Node
  <2>2. \A n \in Node : c.node[n] = NodeKnown(t, n)
    BY <1>5, <2>1 DEF Node
  <2> QED
    BY <1>1, <1>5, <2>2 DEF Told
<1> QED
  BY <1>2, <1>5, <1>6

-----------------------------------------------------------------------------
(* What the view shows of a node that is known, and of its route if one is *)
(* active.                                                                 *)
LEMMA ShownAs ==
    ASSUME NEW st, NEW n \in Node, NEW x \in Setting, NEW r, NEW s \in Server(r),
           st.node[n] \in NodeRecord, st.node[n].known,
           NEW active, active = IF n = "sink" THEN ActiveRoute(st) ELSE None,
           active # None =>
                x \in Route /\ active.index = x /\ active.volumes = s.set[x].volumes /\ active.mute = s.set[x].mute,
           active = None =>
                x = n /\ st.node[n].volumes = s.set[x].volumes /\ st.node[n].mute = s.set[x].mute
    PROVE  /\ NodeView(st, n) # None
           /\ NodeView(st, n).at = x
           /\ NodeView(st, n).volumes = s.set[x].volumes
           /\ NodeView(st, n).mute = s.set[x].mute
           /\ NodeView(st, n).isDefault <=> n = st.metadata.default
<1> DEFINE of == IF active # None THEN active ELSE st.node[n]
           target == IF n = "sink" THEN (IF active = None THEN None ELSE active.index)
                     ELSE IF HasTarget(st.metadata) THEN "chosen" ELSE "default"
           v == [volumes |-> of.volumes, mute |-> of.mute, at |-> x, target |-> target,
                 isDefault |-> n = st.metadata.default]
<1>1. of.volumes = s.set[x].volumes /\ of.mute = s.set[x].mute
  OBVIOUS
<1>2. s.set[x].volumes \in AnyVolumes /\ s.set[x].mute \in BOOLEAN
  BY DEF Server
<1>3. None \notin {of.volumes, of.mute} /\ st.node[n] # None
  BY <1>1, <1>2, NoneAssumption
<1>4. (IF active # None THEN active.index ELSE n) = x
  OBVIOUS
<1>5. target \in Route \cup {None, "chosen", "default"}
  OBVIOUS
<1>6. NodeView(st, n) = v
  BY <1>3, <1>4 DEF NodeView
<1> HIDE DEF of, target
<1>7. v \in ViewRecord
  BY <1>1, <1>2, <1>5 DEF ViewRecord
<1>8. v # None
  BY <1>7, NoneAssumption
<1>9. v.at = x /\ v.volumes = s.set[x].volumes /\ v.mute = s.set[x].mute
  BY <1>1
<1>10. v.isDefault = (n = st.metadata.default)
  OBVIOUS
<1> HIDE DEF v
<1> QED
  BY <1>6, <1>8, <1>9, <1>10

-----------------------------------------------------------------------------
LEMMA ServerStepTold ==
    ASSUME NEW r, NEW s \in Server(r), NEW t \in Server(r), NEW es, NEW c \in Commands(r),
           NEW b \in States(r), Told(b, s), RouteOK(s), ServerStep(s, t, es, c)
    PROVE  /\ \E b2 \in States(r) : Leads(b, es, b2) /\ Told(b2, t)
           /\ RouteOK(t)
<1>1. ASSUME NEW n \in Node, NodeStep(s, t, es, n) PROVE RouteOK(t)
  BY <1>1 DEF NodeStep, Server, RouteOK
<1>2. ASSUME MetadataStep(s, t, es, c) PROVE RouteOK(t)
  BY <1>2 DEF MetadataStep, Server, RouteOK
<1> QED
  BY <1>1, <1>2, NodeStepTold, RouteStepTold, ProfileStepTold, MetadataStepTold DEF ServerStep

(* What the server does is told by the events it sends. *)
LEMMA DoesTold ==
    ASSUME MixerOK, ToldOK, Wider(reach, reach'), Reach(reach'),
           NEW c \in Commands(reach'), Does(c), UNCHANGED appVars
    PROVE  ToldOK'
<1> DEFINE r == reach'
<1>1. /\ server \in Server(r) /\ events \in Seq(Events(r)) /\ States(reach) \subseteq States(r)
  BY Widened, WiderSets DEF MixerOK
<1>2. PICK b \in States(r) : Leads(state, events, b) /\ Told(b, server)
  BY <1>1 DEF ToldOK
<1>3. state' = state /\ dirty' = dirty /\ view' = view /\ missed' = missed
  BY DEF appVars
<1>4. CASE UNCHANGED <<server, events>>
  BY <1>2, <1>3, <1>4 DEF ToldOK
<1>5. ASSUME NEW t \in Server(r), NEW es, server' = t, events' = events \o es,
             ServerStep(server, t, es, c)
      PROVE  ToldOK'
  <2>1. RouteOK(server)
    BY DEF ToldOK
  <2>2. PICK b2 \in States(r) : Leads(b, es, b2) /\ Told(b2, t) /\ RouteOK(t)
    BY <1>1, <1>2, <1>5, <2>1, ServerStepTold
  <2>3. es \in Seq(Events(r))
    BY <1>1, <1>5, StepEventsFit
  <2>4. Leads(state, events', b2)
    BY <1>1, <1>2, <1>5, <2>2, <2>3, LeadsOn
  <2> QED
    BY <1>3, <1>5, <2>2, <2>4 DEF ToldOK
<1> QED
  BY <1>1, <1>4, <1>5, ServerSteps

(* One event more, for what changes outside every command. *)
LEMMA OneMoreTold ==
    ASSUME MixerOK, ToldOK, UNCHANGED reach, UNCHANGED appVars,
           NEW e \in Events(reach), events' = Append(events, e), RouteOK(server'),
           \A b \in States(reach) : Told(b, server) => Told(Updated(b, e), server')
    PROVE  ToldOK'
<1>1. PICK b \in States(reach) : Leads(state, events, b) /\ Told(b, server)
  BY DEF ToldOK
<1>2. events \in Seq(Events(reach)) /\ <<e>> \in Seq(Events(reach))
  BY DEF MixerOK
<1>3. events' = events \o <<e>>
  BY <1>2
<1>4. Leads(state, events', Updated(b, e))
  BY <1>1, <1>2, <1>3, LeadsOne, LeadsOn
<1>5. Updated(b, e) \in States(reach') /\ Told(Updated(b, e), server')
  BY <1>1, UpdatedFits
<1> QED
  BY <1>4, <1>5 DEF ToldOK, appVars

LEMMA ToldInit == Init => ToldOK
<1> SUFFICES ASSUME Init PROVE ToldOK
  OBVIOUS
<1>1. MixerOK
  BY MixerInit
<1>2. RouteOK(server)
  <2> DEFINE routes == {x \in Route : server.profile \in ProfilesOf[x]}
  <2>1. CASE routes = {}
    <3>1. server.route = None
      BY <2>1 DEF Init
    <3> QED
      BY <2>1, <3>1 DEF RouteOK
  <2>2. CASE routes # {}
    <3>1. server.route \in routes
      BY <2>2 DEF Init
    <3> QED
      BY <3>1, NoneAssumption DEF RouteOK, Setting
  <2> QED
    BY <2>1, <2>2
<1>3. state = StateOf(server) /\ events = <<>> /\ view = ViewOf(state)
  BY DEF Init
<1>4. Told(state, server)
  BY <1>3 DEF Told, StateOf
<1>5. Leads(state, events, state)
  BY <1>3, LeadsNone
<1> QED
  BY <1>1, <1>2, <1>3, <1>4, <1>5 DEF ToldOK, MixerOK

LEMMA ToldNext == MixerOK /\ ToldOK /\ [Next]_vars => ToldOK'
<1> SUFFICES ASSUME MixerOK, ToldOK, [Next]_vars PROVE ToldOK'
  OBVIOUS
<1>1. ASSUME UNCHANGED <<server, events>>, UNCHANGED appVars, Reach(reach'), Wider(reach, reach')
      PROVE  ToldOK'
  <2>1. States(reach) \subseteq States(reach')
    BY <1>1, WiderSets DEF MixerOK
  <2> QED
    BY <1>1, <2>1 DEF ToldOK, appVars
<1>2. CASE Key
  <2>1. UNCHANGED <<server, events>> /\ UNCHANGED appVars
    BY <1>2 DEF Key, Relative, Absolute, Mute, SetTarget, SetRoute, SetProfile, SetDefault,
                ServerIdle, AppIdle
  <2>2. Reach(reach') /\ Wider(reach, reach')
    BY <1>2, KeyFits
  <2> QED
    BY <1>1, <2>1, <2>2
<1>3. CASE Execute
  <2>1. Head(commands) \in Commands(reach')
    BY <1>3 DEF Execute, MixerOK
  <2> QED
    BY <1>3, <2>1, SameReach, DoesTold DEF Execute, AppIdle
<1>4. ASSUME NEW x \in Setting, NEW v \in OtherVolumes[x], OtherVolume(x, v) PROVE ToldOK'
  BY <1>4, OtherVolumeAsks, DoesTold DEF OtherVolume, AppIdle
<1>5. ASSUME NEW x \in Route, OtherRoute(x) PROVE ToldOK'
  <2>1. [op |-> "route", at |-> x] \in Commands(reach')
    BY DEF Commands
  <2> QED
    BY <1>5, <2>1, SameReach, DoesTold DEF OtherRoute, AppIdle
<1>6. ASSUME NEW value \in {Unset, "sink"}, OtherTarget(value) PROVE ToldOK'
  <2>1. [op |-> "metadata", at |-> server.metadataId, key |-> "object", value |-> value]
            \in Commands(reach')
    BY DEF Commands, MixerOK, Server, MetaKey, MetaValue
  <2> QED
    BY <1>6, <2>1, SameReach, DoesTold DEF OtherTarget, AppIdle
<1>7. CASE SessionManagerGone
  <2> DEFINE e == [type |-> "removed", id |-> "metadata"]
  <2>1. e \in Events(reach)
    BY DEF Events
  <2>2. /\ server' = [server EXCEPT !.metadata = NoMetadata, !.metadataId = None]
        /\ events' = Append(events, e) /\ UNCHANGED reach /\ UNCHANGED appVars
    BY <1>7 DEF SessionManagerGone, AppIdle
  <2>3. /\ server'.metadata = NoMetadata /\ server'.metadataId = None
        /\ server'.set = server.set /\ server'.route = server.route /\ server'.profile = server.profile
    BY <2>2 DEF MixerOK, Server
  <2>4. ASSUME NEW b \in States(reach), Told(b, server) PROVE Told(Updated(b, e), server')
    <3>1. Updated(b, e) = [b EXCEPT !.metadata = NoMetadata, !.metadataId = None]
      BY DEF Updated, Forgotten
    <3> QED
      BY <2>3, <2>4, <3>1 DEF Told, States, NodeKnown, RouteKnown
  <2>5. RouteOK(server')
    BY <2>3 DEF RouteOK, ToldOK
  <2> QED
    BY <2>1, <2>2, <2>4, <2>5, OneMoreTold
<1>8. CASE SessionManagerBack
  <2> DEFINE e == [type |-> "name", id |-> 2]
  <2>1. e \in Events(reach)
    BY DEF Events
  <2>2. /\ server' = [server EXCEPT !.metadataId = 2]
        /\ events' = Append(events, e) /\ UNCHANGED reach /\ UNCHANGED appVars
    BY <1>8 DEF SessionManagerBack, AppIdle
  <2>3. /\ server'.metadata = server.metadata /\ server'.metadataId = 2
        /\ server'.set = server.set /\ server'.route = server.route /\ server'.profile = server.profile
    BY <2>2 DEF MixerOK, Server
  <2>4. ASSUME NEW b \in States(reach), Told(b, server) PROVE Told(Updated(b, e), server')
    <3>1. Updated(b, e) = [b EXCEPT !.metadataId = 2]
      BY DEF Updated
    <3> QED
      BY <2>3, <2>4, <3>1 DEF Told, States, NodeKnown, RouteKnown
  <2>5. RouteOK(server')
    BY <2>3 DEF RouteOK, ToldOK
  <2> QED
    BY <2>1, <2>2, <2>4, <2>5, OneMoreTold
<1>9. CASE HandleEvent
  <2>1. PICK b \in States(reach) : Leads(state, events, b) /\ Told(b, server)
    BY DEF ToldOK
  <2>2. /\ events # <<>> /\ events' = Tail(events) /\ state' = Updated(state, Head(events))
        /\ UNCHANGED <<server, reach>>
    BY <1>9 DEF HandleEvent
  <2>3. Leads(state', events', b)
    BY <2>1, <2>2, LeadsTail DEF MixerOK
  <2>4. ASSUME ~dirty', missed' # "view" PROVE view' = ViewOf(state')
    <3>1. Head(events).type = "peaks" /\ view' = view /\ ~dirty /\ missed # "view"
      BY <1>9, <2>4 DEF HandleEvent
    <3>2. state' = state
      BY <2>2, <3>1 DEF Updated
    <3> QED
      BY <3>1, <3>2 DEF ToldOK
  <2> QED
    BY <2>1, <2>2, <2>3, <2>4 DEF ToldOK
<1>10. CASE Turn
  <2>1. /\ view' = (IF dirty THEN ViewOf(state) ELSE view) /\ UNCHANGED <<server, events, state, reach>>
    BY <1>10 DEF Turn
  <2>2. ASSUME missed' # "view" PROVE view' = ViewOf(state')
    <3>1. dirty \/ missed # "view"
      BY <1>10, <2>2 DEF Turn
    <3> QED
      BY <2>1, <3>1 DEF ToldOK
  <2> QED
    BY <2>1, <2>2 DEF ToldOK
<1>11. CASE UNCHANGED vars
  BY <1>1, <1>11, SameReach DEF vars
<1>12. CASE Peaks
  <2> DEFINE e == [type |-> "peaks", id |-> "stream"]
  <2>1. e \in Events(reach)
    BY DEF Events
  <2>2. /\ server' = server /\ events' = Append(events, e) /\ UNCHANGED reach
        /\ UNCHANGED appVars
    BY <1>12 DEF Peaks, AppIdle
  <2>3. \A b : Updated(b, e) = b
    BY DEF Updated
  <2>4. RouteOK(server')
    BY <2>2 DEF ToldOK
  <2> QED
    BY <2>1, <2>2, <2>3, <2>4, OneMoreTold
<1> QED
  BY <1>2, <1>3, <1>4, <1>5, <1>6, <1>7, <1>8, <1>9, <1>10, <1>11, <1>12 DEF Next, Outside

(* The events on their way always bring the App to what the server holds.  *)
THEOREM MixerCatchesUp == Spec => [](MixerOK /\ ToldOK)
<1> QED
  BY MixerInit, MixerNext, ToldInit, ToldNext, PTL DEF Spec

(* An App that has been told everything builds a view of what the server   *)
(* has.                                                                    *)
LEMMA BuiltCurrent ==
    ASSUME MixerOK, Told(state, server), RouteOK(server)
    PROVE  Current(ViewOf(state))
<1> DEFINE built == ViewOf(state)
<1>1. built.profile = server.profile /\ built.metadata = server.metadataId
  BY DEF Told, ViewOf
<1>2. ASSUME NEW n \in Node
      PROVE  LET at == IF n = "sink" /\ server.route # None THEN server.route ELSE n
             IN  IF n = "sink" /\ server.profile \notin SinkProfiles THEN built.node[n] = None
                 ELSE /\ built.node[n] # None
                      /\ built.node[n].at = at
                      /\ built.node[n].volumes = server.set[at].volumes
                      /\ built.node[n].mute = server.set[at].mute
                      /\ built.node[n].isDefault <=> server.metadata.default = n
  <2>3. built.node[n] = NodeView(state, n) /\ state.node[n] = NodeKnown(server, n)
    BY DEF ViewOf, Told
  <2> HIDE DEF built
  <2>4. CASE n = "sink" /\ server.profile \notin SinkProfiles
    BY <2>3, <2>4 DEF NodeView, NodeKnown
  <2>5. CASE ~(n = "sink" /\ server.profile \notin SinkProfiles)
    <3> DEFINE at == IF n = "sink" /\ server.route # None THEN server.route ELSE n
               active == IF n = "sink" THEN ActiveRoute(state) ELSE None
    <3>1. server \in Server(reach) /\ at \in Setting
      BY DEF MixerOK, Server, Setting
    <3>2. state.node[n] \in NodeRecord /\ state.node[n].known
      BY <2>3, <2>5, <3>1 DEF NodeKnown, NodeRecord, Server, Setting
    <3>3. CASE n = "sink" /\ server.route # None
      <4>1. active = state.route /\ active = RouteKnown(server, server.route) /\ active # None
        <5>1. RouteKnown(server, server.route) \in RouteRecord
          BY <3>1, <3>3, RouteEventsFit DEF RoutesKnown
        <5>2. server.route \in Route /\ RouteKnown(server, server.route).index = server.route
          BY <3>1, <3>3 DEF RouteKnown, Server
        <5> QED
          BY <3>3, <5>1, <5>2, NoneAssumption DEF ActiveRoute, Told, RouteOK
      <4>2. /\ active.index = at /\ active.volumes = server.set[at].volumes
            /\ active.mute = server.set[at].mute /\ at \in Route
        BY <3>1, <3>3, <4>1 DEF RouteKnown, Server
      <4> QED
        BY <2>3, <2>5, <3>1, <3>2, <4>1, <4>2, ShownAs DEF Told
    <3>4. CASE ~(n = "sink" /\ server.route # None)
      <4>1. active = None
        <5>1. CASE n = "sink"
          <6>1. ActiveRoute(state) # None =>
                    state.route \in RoutesKnown(reach) /\ state.profile \in ProfilesOf[state.route.index]
            BY ActiveRouteKnown DEF MixerOK
          <6>2. \A y \in Route : state.profile \notin ProfilesOf[y]
            BY <3>4, <5>1 DEF RouteOK, Told
          <6> QED
            BY <5>1, <6>1, <6>2 DEF RoutesKnown, RouteRecord
        <5> QED
          BY <5>1
      <4>2. /\ at = n /\ state.node[n].volumes = server.set[at].volumes
            /\ state.node[n].mute = server.set[at].mute
        BY <2>3, <2>5, <3>4 DEF NodeKnown
      <4> QED
        BY <2>3, <2>5, <3>1, <3>2, <4>1, <4>2, ShownAs DEF Told
    <3> QED
      BY <3>3, <3>4
  <2> QED
    BY <2>4, <2>5
<1> QED
  BY <1>1, <1>2 DEF Current

(* Once the queues are empty every view that is built shows the server's   *)
(* volumes, mute, routes and default, and so does the view there is, but   *)
(* for a rebuild that a peak event cancelled: whatever routes and profiles *)
(* came between and in which order they were reported, for any routes,     *)
(* profiles and channels.                                                  *)
THEOREM ViewCatchesUp == Spec => []ViewAtRest
<1>1. MixerOK /\ ToldOK => ViewAtRest
  <2> SUFFICES ASSUME MixerOK, ToldOK, commands = <<>>, events = <<>>
               PROVE  /\ Current(ViewOf(state))
                      /\ ~dirty /\ missed # "view" => Current(view)
    BY DEF ViewAtRest
  <2>1. Told(state, server) /\ RouteOK(server)
    BY LeadsNone DEF ToldOK
  <2>2. Current(ViewOf(state))
    BY <2>1, BuiltCurrent
  <2>3. ~dirty /\ missed # "view" => view = ViewOf(state)
    BY DEF ToldOK
  <2> QED
    BY <2>2, <2>3
<1> QED
  BY <1>1, MixerCatchesUp, PTL

-----------------------------------------------------------------------------
(* What is drawn of a node is what the view has, and what State says still:*)
(* while nothing asks for a redraw, no event has told otherwise.           *)
Alike(v, w) == v.at = w.at /\ v.volumes = w.volumes /\ v.mute = w.mute

StillSo(v, st, n) ==
    /\ v.at = n => /\ st.node[n] # None /\ st.node[n].known
                   /\ st.node[n].volumes = v.volumes /\ st.node[n].mute = v.mute
    /\ v.at # n => NodeView(st, n) # None /\ Alike(v, NodeView(st, n))

Drawn(shown, v, st, n) ==
    /\ v = None => shown = None
    /\ v # None => shown # None /\ Alike(shown, v) /\ StillSo(v, st, n)

ScreenOK ==
    ~needsRender /\ missed = "no" => \A n \in Node : Drawn(screen[n], view.node[n], state, n)

(* What Node::from makes of a node, and whose its volumes are. *)
LEMMA NodeViewOf ==
    ASSUME NEW r, NEW st \in States(r), NEW n \in Node, NodeView(st, n) # None
    PROVE  /\ st.node[n] # None /\ st.node[n].known
           /\ NodeView(st, n).at \in {n} \cup Route
           /\ NodeView(st, n).at = n => /\ st.node[n].volumes = NodeView(st, n).volumes
                                        /\ st.node[n].mute = NodeView(st, n).mute
           /\ NodeView(st, n).at # n => n = "sink" /\ NodeView(st, n).at \in Route
<1> DEFINE active == IF n = "sink" THEN ActiveRoute(st) ELSE None
           of == IF active # None THEN active ELSE st.node[n]
<1>1. st.node[n] # None /\ st.node[n].known
  BY DEF NodeView
<1>2. /\ NodeView(st, n).volumes = of.volumes /\ NodeView(st, n).mute = of.mute
      /\ NodeView(st, n).at = IF active # None THEN active.index ELSE n
  BY DEF NodeView
<1>3. active # None => n = "sink" /\ active.index \in Route
  BY ActiveRouteKnown DEF RoutesKnown, RouteRecord
<1> HIDE DEF active
<1>4. n \notin Route
  BY NodeAssumption
<1> QED
  BY <1>1, <1>2, <1>3, <1>4

LEMMA FreshDrawn ==
    ASSUME NEW r, NEW st \in States(r), NEW n \in Node
    PROVE  Drawn(NodeView(st, n), NodeView(st, n), st, n)
<1>1. CASE NodeView(st, n) = None
  BY <1>1 DEF Drawn
<1>2. CASE NodeView(st, n) # None
  BY <1>2, NodeViewOf DEF Drawn, StillSo, Alike
<1> QED
  BY <1>1, <1>2

LEMMA ScreenInit == Init => ScreenOK
<1> SUFFICES ASSUME Init, NEW n \in Node PROVE Drawn(screen[n], view.node[n], state, n)
  BY DEF ScreenOK
<1>1. state \in States(reach)
  BY MixerInit DEF MixerOK
<1>2. view = ViewOf(state) /\ screen = view.node
  BY DEF Init
<1>3. view.node[n] = NodeView(state, n) /\ screen[n] = NodeView(state, n)
  BY <1>2 DEF ViewOf
<1> QED
  BY <1>1, <1>3, FreshDrawn

(* A node on the screen is visible, and so is the card if its volumes are  *)
(* of a route.                                                             *)
LEMMA SeenObjects ==
    ASSUME NEW r, NEW v \in Views(r)
    PROVE  /\ \A n \in Node : n \in VisibleObjects(v) <=> v.node[n] # None
           /\ "card" \in VisibleObjects(v) <=> v.node["sink"] # None /\ v.node["sink"].at \in Route
<1>1. \A n \in Node : n # "card" /\ n # "core"
  BY DEF Node
<1>2. v.node["stream"] # None => v.node["stream"].at \notin Route
  BY NodeAssumption DEF Views, NodesViewed, Node
<1> QED
  BY <1>1, <1>2 DEF VisibleObjects, Node

(* An event that affects nothing visible changes nothing of what is shown. *)
LEMMA NotAffected ==
    ASSUME MixerOK, NEW e \in Events(reach), Affected(state, e) \cap visible = {},
           NEW n \in Node, NEW st, st = Updated(state, e)
    PROVE  Drawn(screen[n], view.node[n], state, n) => Drawn(screen[n], view.node[n], st, n)
<1> SUFFICES ASSUME view.node[n] # None, StillSo(view.node[n], state, n)
             PROVE  StillSo(view.node[n], st, n)
  BY DEF Drawn
<1>1. n \in visible /\ (n = "sink" /\ view.node[n].at \in Route => "card" \in visible)
  BY SeenObjects DEF MixerOK
<1>2. st.node[n] = state.node[n]
  <2>1. CASE e.type \in {"properties", "volumes", "mute"}
    <3>1. e.id \in Node /\ e.id # n
      BY <1>1, <2>1 DEF Events, Affected
    <3>2. \E k : st = [state EXCEPT !.node[e.id] = k]
      BY <2>1 DEF Updated
    <3> QED
      BY <3>1, <3>2 DEF MixerOK, States
  <2>2. CASE e.type = "removed"
    <3>1. e.id \in {"sink", "metadata"} /\ e.id # n
      BY <1>1, <2>2 DEF Events, Affected
    <3>2. CASE e.id = "metadata"
      BY <2>2, <3>2 DEF Updated, Forgotten, MixerOK, States
    <3>3. CASE e.id = "sink"
      BY <2>2, <3>1, <3>3 DEF Updated, Forgotten, MixerOK, States, Node
    <3> QED
      BY <3>1, <3>2, <3>3
  <2>3. CASE e.type \in {"route", "profile", "name", "metadata", "peaks"}
    BY <2>3 DEF Updated, MixerOK, States
  <2> QED
    BY <2>1, <2>2, <2>3 DEF Events
<1>3. CASE view.node[n].at = n
  BY <1>2, <1>3 DEF StillSo
<1>4. CASE view.node[n].at # n
  <2>1. NodeView(state, n) # None /\ Alike(view.node[n], NodeView(state, n))
    BY <1>4 DEF StillSo
  <2>2. n = "sink" /\ view.node[n].at \in Route
    BY <1>4, <2>1, NodeViewOf DEF Alike, MixerOK
  <2>3. e.type \notin {"route", "profile"}
    BY <1>1, <2>2 DEF Affected
  <2>4. st.route = state.route /\ st.profile = state.profile
    <3>1. CASE e.type \in {"properties", "volumes", "mute", "name", "metadata", "peaks"}
      BY <3>1 DEF Updated, MixerOK, States
    <3>2. CASE e.type = "removed"
      BY <3>2 DEF Updated, Forgotten, MixerOK, States
    <3> QED
      BY <2>3, <3>1, <3>2 DEF Events
  <2>5. ActiveRoute(st) = ActiveRoute(state)
    BY <2>4 DEF ActiveRoute
  <2>6. st \in States(reach)
    BY UpdatedFits DEF MixerOK
  <2>7. NodeView(st, n) # None /\ Alike(NodeView(state, n), NodeView(st, n))
    <3> DEFINE active == IF n = "sink" THEN ActiveRoute(st) ELSE None
               of == IF active # None THEN active ELSE state.node[n]
               target == IF n = "sink" THEN (IF active = None THEN None ELSE active.index)
                         ELSE IF HasTarget(st.metadata) THEN "chosen" ELSE "default"
               w == [volumes |-> of.volumes, mute |-> of.mute,
                     at |-> IF active # None THEN active.index ELSE n,
                     target |-> target, isDefault |-> n = st.metadata.default]
    <3>1. state.node[n] # None /\ state.node[n].known /\ None \notin {of.volumes, of.mute}
      BY <2>1, <2>5 DEF NodeView
    <3>2. NodeView(st, n) = w
      BY <1>2, <3>1 DEF NodeView
    <3>3. /\ NodeView(state, n).volumes = of.volumes /\ NodeView(state, n).mute = of.mute
          /\ NodeView(state, n).at = IF active # None THEN active.index ELSE n
      BY <2>1, <2>5 DEF NodeView
    <3>4. w \in ViewRecord
      <4>1. NodeView(state, n) \in ViewRecord
        BY <2>1, NodeViewFits DEF NodesViewed, MixerOK
      <4>2. target \in Route \cup {None, "chosen", "default"}
        BY ActiveRouteKnown, <2>6 DEF RoutesKnown, RouteRecord
      <4> HIDE DEF of, active, target
      <4> QED
        BY <3>3, <4>1, <4>2 DEF ViewRecord
    <3>5. w # None
      BY <3>4, NoneAssumption
    <3>6. w.volumes = of.volumes /\ w.mute = of.mute
          /\ w.at = IF active # None THEN active.index ELSE n
      OBVIOUS
    <3> HIDE DEF of, active, target, w
    <3> QED
      BY <3>2, <3>3, <3>5, <3>6 DEF Alike
  <2> QED
    BY <1>4, <2>1, <2>7 DEF StillSo, Alike
<1> QED
  BY <1>3, <1>4

(* A node rebuilt from State unseen, as the visible objects are the same,  *)
(* is the one drawn.                                                       *)
LEMMA UnseenAlike ==
    ASSUME MixerOK, VisibleObjects(ViewOf(state)) = visible,
           NEW n \in Node, Drawn(screen[n], view.node[n], state, n)
    PROVE  Drawn(screen[n], NodeView(state, n), state, n)
<1> DEFINE new == ViewOf(state)
<1>1. new \in Views(reach) /\ new.node[n] = NodeView(state, n) /\ view \in Views(reach)
      /\ visible = VisibleObjects(view) /\ state \in States(reach)
  BY ViewOfFits DEF MixerOK, ViewOf
<1>2. /\ new.node[n] # None <=> view.node[n] # None
      /\ (new.node["sink"] # None /\ new.node["sink"].at \in Route)
            <=> (view.node["sink"] # None /\ view.node["sink"].at \in Route)
  BY <1>1, SeenObjects
<1>3. CASE NodeView(state, n) = None
  BY <1>1, <1>2, <1>3 DEF Drawn
<1>4. CASE NodeView(state, n) # None
  <2>1. /\ view.node[n] # None /\ screen[n] # None /\ Alike(screen[n], view.node[n])
        /\ StillSo(view.node[n], state, n)
    BY <1>1, <1>2, <1>4 DEF Drawn
  <2>2. Drawn(NodeView(state, n), NodeView(state, n), state, n)
    BY <1>1, FreshDrawn
  <2>3. Alike(view.node[n], NodeView(state, n))
    <3>1. CASE view.node[n].at # n
      BY <2>1, <3>1 DEF StillSo
    <3>2. CASE view.node[n].at = n
      <4>1. NodeView(state, n).at = n
        <5>1. CASE n = "sink"
          BY <1>1, <1>2, <1>4, <3>2, <5>1, NodeViewOf, NodeAssumption
        <5>2. CASE n # "sink"
          BY <1>1, <1>4, <5>2, NodeViewOf
        <5> QED
          BY <5>1, <5>2
      <4>2. /\ state.node[n].volumes = NodeView(state, n).volumes
            /\ state.node[n].mute = NodeView(state, n).mute
        BY <1>1, <1>4, <4>1, NodeViewOf
      <4> QED
        BY <2>1, <3>2, <4>1, <4>2 DEF StillSo, Alike
    <3> QED
      BY <3>1, <3>2
  <2>4. Alike(screen[n], NodeView(state, n))
    BY <2>1, <2>3 DEF Alike
  <2> QED
    BY <1>4, <2>1, <2>2, <2>4 DEF Drawn
<1> QED
  BY <1>3, <1>4

LEMMA ScreenNext == MixerOK /\ ToldOK /\ ScreenOK /\ [Next]_vars => ScreenOK'
<1> SUFFICES ASSUME MixerOK, ToldOK, ScreenOK, [Next]_vars, ~needsRender',
                    missed' = "no", NEW n \in Node
             PROVE  Drawn(screen'[n], view'.node[n], state', n)
  BY DEF ScreenOK
<1>1. CASE Key
  BY <1>1 DEF Key, Relative, Absolute, Mute, SetTarget, SetRoute, SetProfile, SetDefault, Pressed
<1>2. CASE UNCHANGED <<needsRender, missed, screen, view, state>>
  BY <1>2 DEF ScreenOK
<1>3. CASE Execute \/ Outside \/ UNCHANGED vars
  <2>1. UNCHANGED <<needsRender, missed, screen, view, state>>
    BY <1>3 DEF Execute, Outside, Peaks, OtherVolume, OtherRoute, OtherTarget, SessionManagerGone,
                SessionManagerBack, AppIdle, appVars, vars
  <2> QED
    BY <1>2, <2>1
<1>4. CASE HandleEvent
  <2>1. /\ ~needsRender /\ Affected(state, Head(events)) \cap visible = {}
        /\ state' = Updated(state, Head(events)) /\ UNCHANGED <<view, screen>>
        /\ missed = "no"
    BY <1>4 DEF HandleEvent
  <2>2. Head(events) \in Events(reach)
    BY <1>4 DEF HandleEvent, MixerOK
  <2>3. Drawn(screen[n], view.node[n], state, n)
    BY <2>1 DEF ScreenOK
  <2> QED
    BY <2>1, <2>2, <2>3, NotAffected
<1>5. CASE Turn
  <2>1. view' = (IF dirty THEN ViewOf(state) ELSE view) /\ state' = state
    BY <1>5 DEF Turn
  <2>2. /\ visible' = VisibleObjects(view')
        /\ screen' = IF needsRender \/ visible' # visible THEN view'.node ELSE screen
    BY <1>5 DEF Turn
  <2>3. (dirty \/ missed # "view") /\ (needsRender \/ visible' # visible \/ missed = "no")
    BY <1>5 DEF Turn
  <2>4. view' = ViewOf(state)
    BY <2>1, <2>3 DEF ToldOK
  <2>5. view'.node[n] = NodeView(state, n) /\ state \in States(reach)
    BY <2>4 DEF ViewOf, MixerOK
  <2>6. CASE needsRender \/ visible' # visible
    BY <2>1, <2>2, <2>5, <2>6, FreshDrawn
  <2>7. CASE ~needsRender /\ visible' = visible
    <3>1. Drawn(screen[n], view.node[n], state, n)
      BY <2>3, <2>7 DEF ScreenOK
    <3> QED
      BY <2>1, <2>2, <2>4, <2>5, <2>7, <3>1, UnseenAlike
  <2> QED
    BY <2>6, <2>7
<1> QED
  BY <1>1, <1>3, <1>4, <1>5 DEF Next

(* Once at rest the screen shows the volumes, mute and route of the view:  *)
(* no event changes them without a redraw, for any routes and profiles, but*)
(* for what a cancelled rebuild left out.                                  *)
THEOREM ScreenCatchesUp == Spec => []ScreenAtRest
<1>1. MixerOK /\ ToldOK /\ ScreenOK => ScreenAtRest
  BY DEF ScreenOK, ScreenAtRest, AtRest, Drawn, Alike
<1> QED
  BY <1>1, MixerInit, MixerNext, ToldInit, ToldNext, ScreenInit, ScreenNext, PTL DEF Spec

-----------------------------------------------------------------------------
(* The two writes of set_target stay together in the queue, and no other   *)
(* write comes between them; between them the server holds half a target.  *)
ObjectWrite(c) == c.op = "metadata" /\ c.key = "object"
NodeWrite(c) == c.op = "metadata" /\ c.key = "node"

Paired(c, d) ==
    /\ NodeWrite(d) /\ d.at = c.at /\ c.at # None
    /\ \/ c.value = Unset /\ d.value = Unset
       \/ c.value = None /\ d.value = "sink"

PairsOK(cs) ==
    /\ \A k \in 1 .. Len(cs) :
          ObjectWrite(cs[k]) => k + 1 \in 1 .. Len(cs) /\ Paired(cs[k], cs[k + 1])
    /\ \A k \in 1 .. Len(cs) :
          NodeWrite(cs[k]) /\ k > 1 => ObjectWrite(cs[k - 1]) /\ Paired(cs[k - 1], cs[k])

Half(cs, id) == cs # <<>> /\ NodeWrite(Head(cs)) /\ Head(cs).at = id

TargetSet(s, cs, ch) ==
    \/ ch = None
    \/ /\ s.metadataId # None
       /\ \/ ch = "default" /\ s.metadata.object = Unset
          \/ ch = "chosen" /\ s.metadata.object = None
       /\ Half(cs, s.metadataId) =>
            Head(cs).value = IF s.metadata.object = Unset THEN Unset ELSE "sink"
       /\ ~Half(cs, s.metadataId) =>
            s.metadata.node = IF s.metadata.object = Unset THEN Unset ELSE "sink"

TargetOK == PairsOK(commands) /\ TargetSet(server, commands, chosen)

(* Only metadata commands touch the metadata. *)
LEMMA StepSparesMetadata ==
    ASSUME NEW r, NEW s \in Server(r), NEW t \in Server(r), NEW es,
           \/ \E n \in Node : NodeStep(s, t, es, n)
           \/ \E x \in Route : RouteStep(s, t, es, x)
           \/ \E x \in Route \cup {None} : ProfileStep(s, t, es, x)
    PROVE  t.metadata = s.metadata /\ t.metadataId = s.metadataId
<1>1. ASSUME NEW n \in Node, NodeStep(s, t, es, n)
      PROVE  t.metadata = s.metadata /\ t.metadataId = s.metadataId
  BY <1>1 DEF NodeStep, Server
<1>2. ASSUME NEW x \in Route, RouteStep(s, t, es, x)
      PROVE  t.metadata = s.metadata /\ t.metadataId = s.metadataId
  BY <1>2 DEF RouteStep, Server
<1>3. ASSUME NEW x \in Route \cup {None}, ProfileStep(s, t, es, x)
      PROVE  t.metadata = s.metadata /\ t.metadataId = s.metadataId
  BY <1>3 DEF ProfileStep, Server
<1> QED
  BY <1>1, <1>2, <1>3

LEMMA MetadataSpared ==
    ASSUME NEW r, server \in Server(r), NEW c \in Commands(r), Does(c), c.op # "metadata"
    PROVE  server'.metadata = server.metadata /\ server'.metadataId = server.metadataId
<1>1. CASE After(c) = {}
  BY <1>1 DEF Does
<1>2. CASE After(c) # {}
  <2>1. PICK a \in After(c) : server' = a[1]
    BY <1>2 DEF Does
  <2>2. CASE c.op \in {"volumes", "mute"} /\ c.at \in Node
    <3>1. a[1] \in Server(r) /\ NodeStep(server, a[1], a[2], c.at)
      BY <2>1, <2>2, AfterNode
    <3> QED
      BY <2>1, <2>2, <3>1, StepSparesMetadata
  <2>3. CASE c.op \in {"volumes", "mute", "route"} /\ c.at \in Route
    <3>1. a[1] \in Server(r) /\ RouteStep(server, a[1], a[2], c.at)
      BY <2>1, <2>3, AfterRoute
    <3> QED
      BY <2>1, <2>3, <3>1, StepSparesMetadata
  <2>4. CASE c.op = "profile"
    <3>1. a[1] \in Server(r) /\ \E x \in Route \cup {None} : ProfileStep(server, a[1], a[2], x)
      BY <2>1, <2>4, AfterProfile
    <3> QED
      BY <2>1, <2>4, <3>1, StepSparesMetadata
  <2>5. \/ c.op \in {"volumes", "mute"} /\ c.at \in Node
        \/ c.op \in {"volumes", "mute", "route"} /\ c.at \in Route
        \/ c.op = "profile"
    BY DEF Commands, Setting
  <2> QED
    BY <2>1, <2>2, <2>3, <2>4, <2>5
<1> QED
  BY <1>1, <1>2

LEMMA MetadataWritten ==
    ASSUME NEW r, server \in Server(r), NEW c \in Commands(r), Does(c), c.op = "metadata"
    PROVE  IF c.at = server.metadataId
           THEN /\ server'.metadataId = server.metadataId
                /\ server'.metadata = [server.metadata EXCEPT ![c.key] = c.value]
           ELSE server' = server
<1>1. CASE c.at # server.metadataId
  BY <1>1 DEF Does, After
<1>2. CASE c.at = server.metadataId
  <2>1. After(c) = {<<[server EXCEPT !.metadata[c.key] = c.value], MetadataEvents(c.key, c.value)>>}
    BY <1>2 DEF After
  <2>2. PICK a \in After(c) : server' = a[1]
    BY <2>1 DEF Does
  <2>3. server' = [server EXCEPT !.metadata[c.key] = c.value]
    BY <2>1, <2>2
  <2> QED
    BY <1>2, <2>3 DEF Server
<1> QED
  BY <1>1, <1>2

(* What a key appends neither parts a pair nor begins with a half. *)
LEMMA PairsOn ==
    ASSUME NEW S, NEW cs \in Seq(S), NEW new \in Seq(S), PairsOK(cs), PairsOK(new),
           new # <<>>, ~NodeWrite(new[1])
    PROVE  /\ PairsOK(cs \o new)
           /\ \A id : Half(cs \o new, id) <=> Half(cs, id)
           /\ cs # <<>> => Head(cs \o new) = Head(cs)
<1> DEFINE all == cs \o new
<1>1. /\ Len(cs) \in Nat /\ Len(new) \in Nat /\ Len(all) = Len(cs) + Len(new) /\ Len(new) > 0
      /\ \A k \in 1 .. Len(all) : all[k] = IF k <= Len(cs) THEN cs[k] ELSE new[k - Len(cs)]
  OBVIOUS
<1>2. /\ all # <<>> /\ Head(all) = all[1]
      /\ cs # <<>> => Head(cs) = cs[1] /\ Len(cs) > 0
      /\ cs = <<>> => Len(cs) = 0
  OBVIOUS
<1> HIDE DEF all
<1>3. ASSUME NEW k \in 1 .. Len(all), ObjectWrite(all[k])
      PROVE  k + 1 \in 1 .. Len(all) /\ Paired(all[k], all[k + 1])
  <2>1. CASE k <= Len(cs)
    <3>1. k \in 1 .. Len(cs) /\ all[k] = cs[k]
      BY <1>1, <2>1
    <3>2. k + 1 \in 1 .. Len(cs) /\ Paired(cs[k], cs[k + 1])
      BY <1>3, <3>1 DEF PairsOK
    <3> QED
      BY <1>1, <3>1, <3>2
  <2>2. CASE k > Len(cs)
    <3>1. k - Len(cs) \in 1 .. Len(new) /\ all[k] = new[k - Len(cs)]
      BY <1>1, <2>2
    <3>2. (k - Len(cs)) + 1 \in 1 .. Len(new) /\ Paired(new[k - Len(cs)], new[(k - Len(cs)) + 1])
      BY <1>3, <3>1 DEF PairsOK
    <3>3. k + 1 \in 1 .. Len(all) /\ all[k + 1] = new[(k + 1) - Len(cs)]
          /\ (k + 1) - Len(cs) = (k - Len(cs)) + 1
      BY <1>1, <2>2, <3>2
    <3> QED
      BY <3>1, <3>2, <3>3
  <2> QED
    BY <1>1, <2>1, <2>2
<1>4. ASSUME NEW k \in 1 .. Len(all), NodeWrite(all[k]), k > 1
      PROVE  ObjectWrite(all[k - 1]) /\ Paired(all[k - 1], all[k])
  <2>1. CASE k <= Len(cs)
    <3>1. k \in 1 .. Len(cs) /\ all[k] = cs[k] /\ all[k - 1] = cs[k - 1]
      BY <1>1, <1>4, <2>1
    <3> QED
      BY <1>4, <3>1 DEF PairsOK
  <2>2. CASE k > Len(cs)
    <3>1. k - Len(cs) \in 1 .. Len(new) /\ all[k] = new[k - Len(cs)]
      BY <1>1, <2>2
    <3>2. k - Len(cs) > 1
      BY <1>1, <1>4, <2>2, <3>1
    <3>3. all[k - 1] = new[(k - Len(cs)) - 1]
      <4>1. k - 1 \in 1 .. Len(all) /\ ~(k - 1 <= Len(cs)) /\ (k - 1) - Len(cs) = (k - Len(cs)) - 1
        BY <1>1, <2>2, <3>2
      <4> QED
        BY <1>1, <4>1
    <3> QED
      BY <1>4, <3>1, <3>2, <3>3 DEF PairsOK
  <2> QED
    BY <1>1, <2>1, <2>2
<1>5. PairsOK(all)
  BY <1>3, <1>4 DEF PairsOK
<1>6. CASE cs # <<>>
  <2>1. Head(all) = Head(cs)
    BY <1>1, <1>2, <1>6
  <2> QED
    BY <1>2, <1>5, <1>6, <2>1 DEF all, Half
<1>7. CASE cs = <<>>
  <2>1. Head(all) = new[1]
    BY <1>1, <1>2, <1>7
  <2> QED
    BY <1>2, <1>5, <1>7, <2>1 DEF all, Half
<1> QED
  BY <1>6, <1>7

(* The first command gone. *)
LEMMA PairsTail ==
    ASSUME NEW S, NEW cs \in Seq(S), PairsOK(cs), cs # <<>>
    PROVE  /\ PairsOK(Tail(cs))
           /\ ObjectWrite(Head(cs)) =>
                Tail(cs) # <<>> /\ Paired(Head(cs), Head(Tail(cs)))
           /\ Tail(cs) # <<>> /\ NodeWrite(Head(Tail(cs))) =>
                ObjectWrite(Head(cs)) /\ Paired(Head(cs), Head(Tail(cs)))
<1> DEFINE rest == Tail(cs)
<1>0. rest \in Seq(S)
  OBVIOUS
<1>1. /\ Len(rest) \in Nat /\ Len(cs) = Len(rest) + 1 /\ Head(cs) = cs[1]
      /\ \A k \in 1 .. Len(rest) : rest[k] = cs[k + 1]
      /\ rest # <<>> => Len(rest) > 0 /\ Head(rest) = rest[1]
  <2>1. Len(cs) = Len(rest) + 1 /\ Head(cs) = cs[1] /\ \A k \in 1 .. Len(rest) : rest[k] = cs[k + 1]
    OBVIOUS
  <2> HIDE DEF rest
  <2>2. Len(rest) \in Nat /\ (rest # <<>> => Len(rest) > 0 /\ Head(rest) = rest[1])
    BY <1>0
  <2> QED
    BY <2>1, <2>2
<1> HIDE DEF rest
<1>2. ASSUME NEW k \in 1 .. Len(rest), ObjectWrite(rest[k])
      PROVE  k + 1 \in 1 .. Len(rest) /\ Paired(rest[k], rest[k + 1])
  <2>1. k + 1 \in 1 .. Len(cs) /\ rest[k] = cs[k + 1]
    BY <1>1
  <2>2. (k + 1) + 1 \in 1 .. Len(cs) /\ Paired(cs[k + 1], cs[(k + 1) + 1])
    BY <1>2, <2>1 DEF PairsOK
  <2> QED
    BY <1>1, <2>1, <2>2
<1>3. ASSUME NEW k \in 1 .. Len(rest), NodeWrite(rest[k]), k > 1
      PROVE  ObjectWrite(rest[k - 1]) /\ Paired(rest[k - 1], rest[k])
  <2>1. k + 1 \in 1 .. Len(cs) /\ rest[k] = cs[k + 1] /\ rest[k - 1] = cs[(k + 1) - 1] /\ k + 1 > 1
    BY <1>1, <1>3
  <2> QED
    BY <1>3, <2>1 DEF PairsOK
<1>4. PairsOK(rest)
  BY <1>2, <1>3 DEF PairsOK
<1>5. ASSUME ObjectWrite(Head(cs)) PROVE rest # <<>> /\ Paired(Head(cs), Head(rest))
  <2>1. 1 + 1 \in 1 .. Len(cs) /\ Paired(cs[1], cs[1 + 1])
    BY <1>1, <1>5 DEF PairsOK
  <2> QED
    BY <1>1, <2>1
<1>6. ASSUME rest # <<>>, NodeWrite(Head(rest))
      PROVE  ObjectWrite(Head(cs)) /\ Paired(Head(cs), Head(rest))
  <2>1. 2 \in 1 .. Len(cs) /\ Head(rest) = cs[2] /\ 2 - 1 = 1
    BY <1>1, <1>6
  <2>2. ObjectWrite(cs[2 - 1]) /\ Paired(cs[2 - 1], cs[2])
    BY <1>6, <2>1 DEF PairsOK
  <2> QED
    BY <1>1, <2>1, <2>2
<1> QED
  BY <1>4, <1>5, <1>6 DEF rest

LEMMA TargetInit == Init => TargetOK
BY DEF Init, TargetOK, PairsOK, TargetSet

(* What a key sends: a pair, or no write of a target. *)
LEMMA OneSent ==
    ASSUME NEW c, ~NodeWrite(c), ~ObjectWrite(c)
    PROVE  PairsOK(<<c>>) /\ PairsOK(<<c, c>>) /\ ~NodeWrite(<<c>>[1]) /\ ~NodeWrite(<<c, c>>[1])
<1>1. \A k \in 1 .. Len(<<c>>) : <<c>>[k] = c
  OBVIOUS
<1>2. \A k \in 1 .. Len(<<c, c>>) : <<c, c>>[k] = c
  OBVIOUS
<1> QED
  BY <1>1, <1>2 DEF PairsOK

LEMMA PairSent ==
    ASSUME NEW c, NEW d, ObjectWrite(c), Paired(c, d)
    PROVE  PairsOK(<<c, d>>) /\ ~NodeWrite(<<c, d>>[1])
<1> DEFINE p == <<c, d>>
<1>1. ~NodeWrite(c) /\ NodeWrite(d) /\ ~ObjectWrite(d)
  BY DEF Paired, NodeWrite, ObjectWrite
<1>2. Len(p) = 2 /\ p[1] = c /\ p[2] = d
  OBVIOUS
<1> HIDE DEF p
<1>3. \A k \in 1 .. Len(p) : k = 1 \/ k = 2
  BY <1>2
<1>4. ASSUME NEW k \in 1 .. Len(p), ObjectWrite(p[k])
      PROVE  k + 1 \in 1 .. Len(p) /\ Paired(p[k], p[k + 1])
  <2>1. k = 1
    BY <1>1, <1>2, <1>3, <1>4
  <2> QED
    BY <1>2, <2>1
<1>5. ASSUME NEW k \in 1 .. Len(p), NodeWrite(p[k]), k > 1
      PROVE  ObjectWrite(p[k - 1]) /\ Paired(p[k - 1], p[k])
  <2>1. k = 2
    BY <1>3, <1>5
  <2> QED
    BY <1>2, <2>1
<1> QED
  BY <1>1, <1>2, <1>4, <1>5 DEF PairsOK, p

Sends(new, T) == new \in Seq(T) /\ new # <<>> /\ ~NodeWrite(new[1]) /\ PairsOK(new)

LEMMA SendsSome ==
    /\ \A c : ~NodeWrite(c) /\ ~ObjectWrite(c) => Sends(<<c>>, {c}) /\ Sends(<<c, c>>, {c})
    /\ \A c, d : ObjectWrite(c) /\ Paired(c, d) => Sends(<<c, d>>, {c, d})
<1>1. ASSUME NEW c, ~NodeWrite(c), ~ObjectWrite(c)
      PROVE  Sends(<<c>>, {c}) /\ Sends(<<c, c>>, {c})
  <2>1. /\ <<c>> \in Seq({c}) /\ <<c>> # <<>>
        /\ <<c, c>> \in Seq({c}) /\ <<c, c>> # <<>>
    OBVIOUS
  <2> QED
    BY <1>1, <2>1, OneSent DEF Sends
<1>2. ASSUME NEW c, NEW d, ObjectWrite(c), Paired(c, d) PROVE Sends(<<c, d>>, {c, d})
  <2>1. <<c, d>> \in Seq({c, d}) /\ <<c, d>> # <<>>
    OBVIOUS
  <2> QED
    BY <1>2, <2>1, PairSent DEF Sends
<1> QED
  BY <1>1, <1>2

LEMMA KeySends ==
    ASSUME Key
    PROVE  \E new, T : commands' = commands \o new /\ Sends(new, T)
<1>1. ASSUME NEW n \in Node, NEW cs, NEW d, Relative(n, cs, d)
      PROVE  \E new, T : commands' = commands \o new /\ Sends(new, T)
  <2>1. PICK c : c.op = "volumes" /\ commands' = commands \o <<c>>
    BY <1>1 DEF Relative, Send, Volumes
  <2> QED
    BY <2>1, SendsSome DEF NodeWrite, ObjectWrite
<1>2. ASSUME NEW n \in Node, NEW cs, NEW l, Absolute(n, cs, l)
      PROVE  \E new, T : commands' = commands \o new /\ Sends(new, T)
  <2>1. PICK x, v : LET c == Volumes(x, v)
                    IN  commands' = commands \o <<c, c>> \/ commands' = commands \o <<c>>
    BY <1>2 DEF Absolute, Send
  <2>2. ~NodeWrite(Volumes(x, v)) /\ ~ObjectWrite(Volumes(x, v))
    BY DEF NodeWrite, ObjectWrite, Volumes
  <2> QED
    BY <2>1, <2>2, SendsSome
<1>3. ASSUME NEW n \in Node, Mute(n)
      PROVE  \E new, T : commands' = commands \o new /\ Sends(new, T)
  <2>1. PICK c : c = [op |-> "mute", at |-> view.node[n].at, mute |-> ~view.node[n].mute]
    OBVIOUS
  <2>2. commands' = commands \o <<c>>
    BY <1>3, <2>1 DEF Mute, Send
  <2>3. c.op = "mute"
    BY <2>1
  <2> QED
    BY <2>2, <2>3, SendsSome DEF NodeWrite, ObjectWrite
<1>4. ASSUME NEW target, SetTarget(target)
      PROVE  \E new, T : commands' = commands \o new /\ Sends(new, T)
  <2>1. view.metadata # None
    BY <1>4 DEF SetTarget
  <2>2. /\ ObjectWrite(Metadata("object", Unset)) /\ ObjectWrite(Metadata("object", None))
        /\ Paired(Metadata("object", Unset), Metadata("node", Unset))
        /\ Paired(Metadata("object", None), Metadata("node", "sink"))
    BY <2>1 DEF ObjectWrite, Paired, NodeWrite, Metadata
  <2>3. \/ commands' = commands \o <<Metadata("object", Unset), Metadata("node", Unset)>>
        \/ commands' = commands \o <<Metadata("object", None), Metadata("node", "sink")>>
    BY <1>4 DEF SetTarget, Send
  <2> QED
    BY <2>2, <2>3, SendsSome
<1>5. ASSUME NEW x, SetRoute(x)
      PROVE  \E new, T : commands' = commands \o new /\ Sends(new, T)
  <2>1. PICK c : c.op = "route" /\ commands' = commands \o <<c>>
    BY <1>5 DEF SetRoute, Send
  <2> QED
    BY <2>1, SendsSome DEF NodeWrite, ObjectWrite
<1>6. ASSUME NEW p, SetProfile(p)
      PROVE  \E new, T : commands' = commands \o new /\ Sends(new, T)
  <2>1. PICK c : c.op = "profile" /\ commands' = commands \o <<c>>
    BY <1>6 DEF SetProfile, Send
  <2> QED
    BY <2>1, SendsSome DEF NodeWrite, ObjectWrite
<1>7. CASE SetDefault
  <2>1. PICK c : c.key = "default" /\ commands' = commands \o <<c>>
    BY <1>7 DEF SetDefault, Send, Metadata
  <2> QED
    BY <2>1, SendsSome DEF NodeWrite, ObjectWrite
<1> QED
  BY <1>1, <1>2, <1>3, <1>4, <1>5, <1>6, <1>7 DEF Key

LEMMA KeyKeepsTarget ==
    ASSUME MixerOK, TargetOK, Key
    PROVE  TargetOK'
<1>1. PICK new, T : commands' = commands \o new /\ Sends(new, T)
  BY KeySends
<1> DEFINE S == Commands(reach) \cup T
<1>2. commands \in Seq(S) /\ new \in Seq(S)
  BY <1>1, SeqWider DEF MixerOK, Sends
<1> HIDE DEF S
<1>3. /\ PairsOK(commands')
      /\ \A id : Half(commands', id) <=> Half(commands, id)
      /\ commands # <<>> => Head(commands') = Head(commands)
  BY <1>1, <1>2, PairsOn DEF TargetOK, Sends
<1>4. UNCHANGED <<server, chosen>>
  BY DEF Key, Relative, Absolute, Mute, SetTarget, SetRoute, SetProfile, SetDefault, ServerIdle
<1>5. \A id : Half(commands, id) => commands # <<>>
  BY DEF Half
<1>6. TargetSet(server, commands', chosen)
  BY <1>3, <1>5 DEF TargetOK, TargetSet
<1> QED
  BY <1>3, <1>4, <1>6 DEF TargetOK

LEMMA ExecuteKeepsTarget ==
    ASSUME MixerOK, TargetOK, Execute
    PROVE  TargetOK'
<1> DEFINE c == Head(commands)
           rest == Tail(commands)
<1>1. /\ commands # <<>> /\ commands' = rest /\ Does(c)
      /\ chosen' = IF c.op = "metadata" /\ c.at = server.metadataId
                   THEN CASE c.key = "object" -> IF c.value = Unset THEN "default" ELSE "chosen"
                          [] OTHER -> chosen
                   ELSE chosen
  BY DEF Execute
<1>2. commands \in Seq(Commands(reach)) /\ c \in Commands(reach) /\ server \in Server(reach)
  BY <1>1 DEF MixerOK
<1>3. /\ PairsOK(rest)
      /\ ObjectWrite(c) => rest # <<>> /\ Paired(c, Head(rest))
      /\ rest # <<>> /\ NodeWrite(Head(rest)) => ObjectWrite(c) /\ Paired(c, Head(rest))
  BY <1>1, <1>2, PairsTail DEF TargetOK
<1>4. TargetSet(server, commands, chosen)
  BY DEF TargetOK
<1>5. server.metadata \in MetaRecord
  BY <1>2 DEF Server
<1> HIDE DEF c, rest
<1>6. CASE c.op = "metadata" /\ c.at = server.metadataId
  <2>1. /\ server'.metadataId = server.metadataId
        /\ server'.metadata = [server.metadata EXCEPT ![c.key] = c.value]
    BY <1>1, <1>2, <1>6, MetadataWritten
  <2>2. c.key \in MetaKey
    BY <1>2, <1>6 DEF Commands
  <2>3. CASE c.key = "object"
    <3>1. ObjectWrite(c)
      BY <1>6, <2>3 DEF ObjectWrite
    <3>2. rest # <<>> /\ Paired(c, Head(rest))
      BY <1>3, <3>1
    <3>3. server'.metadata.object = c.value
      BY <1>5, <2>1, <2>3 DEF MetaRecord
    <3>4. Half(rest, server'.metadataId)
      BY <1>6, <2>1, <3>2 DEF Half, Paired
    <3>5. chosen' = IF c.value = Unset THEN "default" ELSE "chosen"
      BY <1>1, <1>6, <2>3
    <3>6. TargetSet(server', rest, chosen')
      BY <1>6, <2>1, <3>2, <3>3, <3>4, <3>5, NoneAssumption DEF TargetSet, Paired
    <3> QED
      BY <1>1, <1>3, <3>6 DEF TargetOK
  <2>4. CASE c.key # "object"
    <3>1. ~ObjectWrite(c) /\ chosen' = chosen
      BY <1>1, <1>6, <2>4 DEF ObjectWrite
    <3>2. ~Half(rest, server'.metadataId)
      BY <1>3, <3>1 DEF Half
    <3>3. server'.metadata.object = server.metadata.object
      BY <1>5, <2>1, <2>4, <2>2 DEF MetaRecord, MetaKey
    <3>4. c.key = "node" => Half(commands, server.metadataId) /\ server'.metadata.node = c.value
      BY <1>1, <1>5, <1>6, <2>1 DEF MetaRecord, Half, NodeWrite, c
    <3>5. c.key # "node" => ~Half(commands, server.metadataId)
                            /\ server'.metadata.node = server.metadata.node
      BY <1>5, <2>1, <2>2, <2>4 DEF MetaRecord, MetaKey, Half, NodeWrite, c
    <3>6. TargetSet(server', rest, chosen')
      BY <1>4, <2>1, <3>1, <3>2, <3>3, <3>4, <3>5 DEF TargetSet, c
    <3> QED
      BY <1>1, <1>3, <3>6 DEF TargetOK
  <2> QED
    BY <2>3, <2>4
<1>7. CASE ~(c.op = "metadata" /\ c.at = server.metadataId)
  <2>1. server'.metadata = server.metadata /\ server'.metadataId = server.metadataId
    BY <1>1, <1>2, <1>7, MetadataWritten, MetadataSpared
  <2>2. chosen' = chosen
    BY <1>1, <1>7
  <2>3. ~Half(commands, server.metadataId)
    BY <1>7 DEF Half, NodeWrite, c
  <2>4. ~Half(rest, server.metadataId)
    BY <1>3, <1>7 DEF Half, Paired, ObjectWrite
  <2>5. TargetSet(server', rest, chosen')
    BY <1>4, <2>1, <2>2, <2>3, <2>4 DEF TargetSet
  <2> QED
    BY <1>1, <1>3, <2>5 DEF TargetOK
<1> QED
  BY <1>6, <1>7

LEMMA TargetNext == MixerOK /\ TargetOK /\ [Next]_vars => TargetOK'
<1> SUFFICES ASSUME MixerOK, TargetOK, [Next]_vars PROVE TargetOK'
  OBVIOUS
<1>1. CASE Key
  BY <1>1, KeyKeepsTarget
<1>2. CASE Execute
  BY <1>2, ExecuteKeepsTarget
<1>3. ASSUME UNCHANGED <<commands, chosen>>, server'.metadata = server.metadata,
             server'.metadataId = server.metadataId
      PROVE  TargetOK'
  BY <1>3 DEF TargetOK, TargetSet
<1>4. ASSUME UNCHANGED commands, chosen' = None PROVE TargetOK'
  BY <1>4 DEF TargetOK, TargetSet
<1>5. ASSUME NEW x \in Setting, NEW v \in OtherVolumes[x], OtherVolume(x, v) PROVE TargetOK'
  <2>1. Does(Volumes(x, v)) /\ UNCHANGED <<commands, chosen>>
    BY <1>5 DEF OtherVolume
  <2>2. server \in Server(reach') /\ Volumes(x, v) \in Commands(reach')
    BY <1>5, OtherVolumeAsks, Widened
  <2>3. Volumes(x, v).op # "metadata"
    BY DEF Volumes
  <2> QED
    BY <1>3, <2>1, <2>2, <2>3, MetadataSpared
<1>6. ASSUME NEW x \in Route, OtherRoute(x) PROVE TargetOK'
  <2>1. PICK c : c = [op |-> "route", at |-> x]
    OBVIOUS
  <2>2. c \in Commands(reach) /\ c.op # "metadata" /\ server \in Server(reach)
    BY <2>1 DEF Commands, MixerOK
  <2>3. Does(c) /\ UNCHANGED <<commands, chosen>>
    BY <1>6, <2>1 DEF OtherRoute
  <2> QED
    BY <1>3, <2>2, <2>3, MetadataSpared
<1>7. ASSUME NEW value, OtherTarget(value) PROVE TargetOK'
  BY <1>4, <1>7 DEF OtherTarget
<1>8. CASE SessionManagerGone
  BY <1>4, <1>8 DEF SessionManagerGone
<1>9. CASE SessionManagerBack
  <2>1. chosen = None /\ UNCHANGED <<commands, chosen>>
    BY <1>9 DEF SessionManagerBack, TargetOK, TargetSet
  <2> QED
    BY <1>4, <2>1
<1>10. CASE HandleEvent \/ Turn \/ UNCHANGED vars
  <2>1. UNCHANGED <<server, commands, chosen>>
    BY <1>10 DEF HandleEvent, Turn, vars
  <2> QED
    BY <1>3, <2>1
<1>11. CASE Peaks
  <2>1. UNCHANGED <<server, commands, chosen>>
    BY <1>11 DEF Peaks
  <2> QED
    BY <1>3, <2>1
<1> QED
  BY <1>1, <1>2, <1>5, <1>6, <1>7, <1>8, <1>9, <1>10, <1>11 DEF Next, Outside

(* A target the App set last, uninterrupted, is the one shown once the     *)
(* queues are empty, whatever metadata objects came and went and whatever  *)
(* was set before: by every view built then, and by the view there is, but *)
(* for a rebuild that a peak event cancelled.                              *)
THEOREM ChosenKept == Spec => []ChosenTargetKept
<1>1. MixerOK /\ ToldOK /\ TargetOK => ChosenTargetKept
  <2> SUFFICES ASSUME MixerOK, ToldOK, TargetOK, commands = <<>>, events = <<>>, chosen # None
               PROVE  /\ ShowsChosen(ViewOf(state))
                      /\ ~dirty /\ missed # "view" => ShowsChosen(view)
    BY DEF ChosenTargetKept
  <2> DEFINE built == ViewOf(state)
  <2>1. Told(state, server)
    BY LeadsNone DEF ToldOK
  <2>2. built.node["stream"] # None =>
            built.node["stream"].target = IF HasTarget(server.metadata) THEN "chosen" ELSE "default"
    BY <2>1 DEF ViewOf, NodeView, Told, Node
  <2>3. ~Half(commands, server.metadataId)
    BY DEF Half
  <2>4. \/ chosen = "default" /\ server.metadata.object = Unset /\ server.metadata.node = Unset
        \/ chosen = "chosen" /\ server.metadata.object = None /\ server.metadata.node = "sink"
    BY <2>3, NoneAssumption DEF TargetOK, TargetSet
  <2>5. None # "sink"
    BY NoneAssumption DEF Setting, Node
  <2> HIDE DEF built
  <2>6. ShowsChosen(built)
    BY <2>2, <2>4, <2>5 DEF ShowsChosen, HasTarget, Unset
  <2>7. ~dirty /\ missed # "view" => view = built
    BY DEF ToldOK, built
  <2> QED
    BY <2>6, <2>7 DEF built
<1> QED
  BY <1>1, MixerInit, MixerNext, ToldInit, ToldNext, TargetInit, TargetNext, PTL DEF Spec
=============================================================================
