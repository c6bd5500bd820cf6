----------------------------- MODULE ObjectList -----------------------------
(***************************************************************************)
(* The lists of the user interface: object_list::ObjectList for each tab,  *)
(* the order View::from gives the objects, the keys and mouse areas that   *)
(* act on a list, and the frame of App::run that reconciles it with a new  *)
(* view.                                                                   *)
(*                                                                         *)
(* Keys and clicks are handled in batches between two frames: they act on  *)
(* the view and the mouse areas of the frame before, and at most MaxBatch  *)
(* events are taken here before the next frame.  A node keeps the serial   *)
(* order of its id.  Devices are nodes without volumes: their rows have the*)
(* same heights and they have no channel to cycle through.  Targets are    *)
(* known by the object they were collected for and their number.           *)
(*                                                                         *)
(* The help menu, the drag row and the frame pacing are left out, and so   *)
(* are the commands keys send: module Mixer has them.                      *)
(***************************************************************************)
EXTENDS NodeLayout

CONSTANTS
    Id,             \* object ids
    Shapes,         \* [Id -> SUBSET of node records]: what an object may be
    InTab,          \* a sequence: the objects the list of each tab holds
    TargetCount,    \* [Id -> Nat]: how many targets an object offers
    Areas,          \* heights of the terminal
    ShowDividers,   \* config.show_dividers
    Compact,        \* config.compact_layout
    Imbalance,      \* config.unified_imbalance
    Split,          \* config.split_style
    ViewCycle,      \* config.view_cycle
    InitialView,    \* config.initial_view
    ViewKeys,       \* the views a key selects directly
    Hideable,       \* bound: the objects the hide keys are used on
    MaxBatch        \* bound: events handled between two frames

ASSUME IdAssumption == Id \subseteq Nat /\ IsFiniteSet(Id) /\ None \notin Nat
ASSUME TabAssumption == InTab \in Seq(SUBSET Id) /\ InTab # <<>>
ASSUME MaxBatchAssumption == MaxBatch \in Nat \ {0}

(* What view::Node carries of the channels of an object.                   *)
NodeShape == [volumes : Seq(Nat), positions : Seq(STRING) \cup {None}]

ASSUME ShapeAssumption ==
    /\ None \notin NodeShape
    /\ Shapes \in [Id -> SUBSET NodeShape]
ASSUME TargetAssumption == TargetCount \in [Id -> Nat]
ASSUME ScreenAssumption == Areas \subseteq Nat /\ Hideable \subseteq Id
ASSUME ViewAssumption ==
    /\ InitialView \in ChannelView /\ ViewKeys \subseteq ChannelView
    /\ ViewCycle \in Seq(ChannelView)

Tab == DOMAIN InTab

VARIABLES
    nodes,          \* State: the objects present and their shapes
    hidden,         \* [instance, permanent]: App::hidden_instance, hidden_permanent
    dirty,          \* App::state_dirty
    view,           \* App::view
    area,           \* height of the terminal
    tab,            \* App::current_tab_index
    lists,          \* App::tabs, the ObjectList of each
    drawn,          \* what App::mouse_areas was built from
    batch           \* events since the last frame

vars == <<nodes, hidden, dirty, view, area, tab, lists, drawn, batch>>

(* The fields of ObjectList that change.  The dropdown is index, which is  *)
(* selected() of dropdown_state, and owner, the object it was opened for.  *)
List == [top : Nat, selected : Id \cup {None}, channel : Nat \cup {None}, view : ChannelView,
         index : Nat \cup {None}, owner : Id \cup {None}, page : Nat]

(* A mouse area: where it is, the buttons it takes, and the Action it      *)
(* performs on its object, for one channel or one target.                  *)
Deed == {"nothing", "SetDefault", "SetRelativeVolume", "ActivateDropdown", "ToggleMute",
         "SetAbsoluteVolume", "SetChannelAbsoluteVolume"}

Button == {"left", "right", "drag", "scroll"}

MouseArea == [id : Id, row : Nat, by : SUBSET Button,
              channel : Nat \cup {None}, does : Deed, of : Nat \cup {None}]

(* The type invariant, a part of the inductive one.                        *)
TypeOK ==
    /\ nodes \in [Id -> NodeShape \cup {None}]
    /\ hidden \in [instance : SUBSET Id, permanent : SUBSET Id]
    /\ dirty \in BOOLEAN
    /\ view \in [node : [Id -> NodeShape \cup {None}], ids : [Tab -> Seq(Id)]]
    /\ area \in Nat
    /\ tab \in Tab
    /\ lists \in [Tab -> List]
    /\ drawn \in [areas : SUBSET MouseArea, open : BOOLEAN]
    /\ batch \in Nat

-----------------------------------------------------------------------------
(* View.                                                                   *)

(* Of two nodes the one with the lower id comes first.                     *)
Ascending(S) ==
    [i \in 1 .. Cardinality(S) |->
        CHOOSE id \in S : Cardinality({other \in S : other <= id}) = i]

(* View::from: the objects of each list by serial, then stably by hidden   *)
(* rank.                                                                   *)
Order(S) ==
    LET last == S \cap hidden.permanent
        middle == (S \cap hidden.instance) \ last
    IN  Ascending(S \ (middle \cup last)) \o Ascending(middle) \o Ascending(last)

ViewOf == [node |-> nodes,
           ids |-> [t \in Tab |-> Order({id \in InTab[t] : nodes[id] # None})]]

(* View::object_ids and View::position; positions count from 0.            *)
Ids(v, t) == v.ids[t]

Position(v, t, id) ==
    LET ids == Ids(v, t)
    IN  IF \E i \in DOMAIN ids : ids[i] = id
        THEN (CHOOSE i \in DOMAIN ids : ids[i] = id) - 1 ELSE None

(* objects.get(i).                                                         *)
IdAt(v, t, i) == IF i < Len(Ids(v, t)) THEN Ids(v, t)[i + 1] ELSE None

NextId(v, t, id) ==
    IF id = None THEN IdAt(v, t, 0)
    ELSE LET i == Position(v, t, id) IN IF i = None THEN None ELSE IdAt(v, t, i + 1)

Monus(a, b) == IF a > b THEN a - b ELSE 0

(* previous_id of the first object is that object: saturating_sub.         *)
PreviousId(v, t, id) ==
    IF id = None THEN IdAt(v, t, 0)
    ELSE LET i == Position(v, t, id) IN IF i = None THEN None ELSE IdAt(v, t, Monus(i, 1))

-----------------------------------------------------------------------------
(* ObjectList.                                                             *)

(* dropdown_state: the index may run past the targets until it is drawn;   *)
(* LastIndex stands for every index select_last and repeated steps reach.  *)
LastIndex == 1 + (CHOOSE n \in {TargetCount[id] : id \in Id} :
                      \A id \in Id : TargetCount[id] <= n)

(* ObjectList::new, with the initial view of the configuration.            *)
NewList(cv) == [top |-> 0, selected |-> None, channel |-> None, view |-> cv,
                index |-> None, owner |-> None, page |-> 0]

(* dropdown_close; `targets` is read only while the dropdown is open.      *)
Closed(l) == [l EXCEPT !.index = None, !.owner = None]

ChannelCount(v, id) ==
    IF v.node[id] = None THEN 0 ELSE Len(v.node[id].volumes)

InitialChannel(v, l, id, fromEnd) ==
    IF l.view # "Channels" \/ id = None THEN None
    ELSE IF ChannelCount(v, id) <= 1 THEN None
    ELSE IF fromEnd THEN ChannelCount(v, id) - 1 ELSE 0

Select(v, l, id, fromEnd) ==
    Closed([l EXCEPT !.selected = id, !.channel = InitialChannel(v, l, id, fromEnd)])

SelectSome(v, l, id, fromEnd) == IF id = None THEN l ELSE Select(v, l, id, fromEnd)

(* ListState::select_next and select_previous of the open dropdown.        *)
StepIndex(l, up) ==
    [l EXCEPT !.index = IF up THEN Monus(@, 1) ELSE IF @ < LastIndex THEN @ + 1 ELSE @]

Down(v, t, l) ==
    IF l.index # None THEN StepIndex(l, FALSE)
    ELSE IF /\ l.selected # None /\ l.channel # None
            /\ l.channel + 1 < ChannelCount(v, l.selected)
    THEN [l EXCEPT !.channel = @ + 1]
    ELSE SelectSome(v, l, NextId(v, t, l.selected), FALSE)

(* Mutant of Up: the object before is entered at its first channel.        *)
UpToFirst(v, t, l) ==
    IF l.index # None THEN StepIndex(l, TRUE)
    ELSE IF l.channel \notin {None, 0} THEN [l EXCEPT !.channel = @ - 1]
    ELSE SelectSome(v, l, PreviousId(v, t, l.selected), FALSE)

Up(v, t, l) ==
    IF l.index # None THEN StepIndex(l, TRUE)
    ELSE IF l.channel \notin {None, 0} THEN [l EXCEPT !.channel = @ - 1]
    ELSE SelectSome(v, l, PreviousId(v, t, l.selected), TRUE)

(* page_down and page_up: page_size steps, at least one, stopping at None. *)
Paged(v, t, l, up) ==
    LET n == IF l.page = 0 THEN 1 ELSE l.page
        go[i \in 0 .. n] ==
            IF i = 0 THEN l.selected
            ELSE LET id == IF up THEN PreviousId(v, t, go[i - 1]) ELSE NextId(v, t, go[i - 1])
                 IN  IF id = None THEN go[i - 1] ELSE id
    IN  go[n]

PageDown(v, t, l) ==
    IF l.index # None THEN StepIndex(l, FALSE)
    ELSE SelectSome(v, l, Paged(v, t, l, FALSE), FALSE)

PageUp(v, t, l) ==
    IF l.index # None THEN StepIndex(l, TRUE)
    ELSE SelectSome(v, l, Paged(v, t, l, TRUE), TRUE)

First(v, t, l) ==
    IF l.index # None THEN [l EXCEPT !.index = 0]
    ELSE SelectSome(v, l, IdAt(v, t, 0), FALSE)

Last(v, t, l) ==
    IF l.index # None THEN [l EXCEPT !.index = LastIndex]
    ELSE SelectSome(v, l, IdAt(v, t, Monus(Len(Ids(v, t)), 1)), TRUE)

SelectView(v, l, cv) ==
    [l EXCEPT !.view = cv,
              !.channel = InitialChannel(v, [l EXCEPT !.view = cv], l.selected, FALSE)]

(* cycle_channel_view: a view outside the cycle leads to its first entry.  *)
CycleView(v, l) ==
    LET at == {i \in DOMAIN ViewCycle : ViewCycle[i] = l.view}
    IN  SelectView(v, l,
            IF ViewCycle = <<>> THEN "Unified"
            ELSE IF at = {} THEN ViewCycle[1]
            ELSE ViewCycle[(Least(at) % Len(ViewCycle)) + 1])

(* release_hidden_selection: the object after, else before, else nothing.  *)
ReleaseHidden(v, t, l, id) ==
    LET next == NextId(v, t, id)
        previous == PreviousId(v, t, id)
    IN  Select(v, l, IF next \notin {None, id} THEN next
                     ELSE IF previous # id THEN previous ELSE None, FALSE)

(* dropdown_activate: opens it at the current target (any of them here), or*)
(* sets the chosen target and closes it.                                   *)
Activate(v, t, l, i) ==
    IF l.index # None THEN Closed(l)
    ELSE IF l.selected = None THEN l
    ELSE IF v.node[l.selected] = None \/ TargetCount[l.selected] = 0 THEN l
    ELSE [l EXCEPT !.index = i, !.owner = l.selected]

-----------------------------------------------------------------------------
(* Layout: the rows of the list that fit, counted from `top`.              *)

Spacing == IF ShowDividers THEN 3 ELSE 2

ChannelState(l) == [view |-> l.view, imbalance |-> Imbalance, split |-> Split]

(* item_heights: of the objects from `top` on.                             *)
ItemHeights(v, t, l) ==
    LET ids == Ids(v, t)
    IN  [i \in 1 .. Monus(Len(ids), l.top) |->
            NodeHeight(ChannelState(l), v.node[ids[l.top + i]], Compact)]

(* Rows used by the first k of them, each with the spacing below it.       *)
Used(heights) ==
    LET sum[k \in 0 .. Len(heights)] ==
            IF k = 0 THEN 0 ELSE sum[k - 1] + heights[k] + Spacing
    IN  sum

VisibleCount(v, t, l, rows) ==
    LET heights == ItemHeights(v, t, l)
        used == Used(heights)
    IN  Cardinality({k \in 1 .. Len(heights) : used[k] <= rows})

(* update() and visible_objects() are given the whole frame, of which the  *)
(* header and the footer of the list are taken; render() is given the frame*)
(* without the menu line, one row less.                                    *)
UpdateRows == Monus(area, 2)
RenderRows == Monus(area, 3)

(* Mutants of Update: the viewport is not clamped; a new selection leaves  *)
(* the dropdown open; the viewport follows one object too late.            *)
UpdateUnclamped(v, t, l) ==
    LET s == IF Position(v, t, l.selected) # None THEN l
             ELSE Select(v, l, NextId(v, t, None), FALSE)
        at == Position(v, t, s.selected)
        count == VisibleCount(v, t, s, UpdateRows)
    IN  [s EXCEPT !.page = count,
                  !.top = IF at = None THEN s.top
                          ELSE IF at >= s.top + count THEN Monus(at, Monus(count, 1))
                          ELSE s.top]

UpdateKeepsDropdown(v, t, l) ==
    LET s == IF Position(v, t, l.selected) # None THEN l
             ELSE [l EXCEPT !.selected = NextId(v, t, None)]
        at == Position(v, t, s.selected)
        len == Len(Ids(v, t))
        count == VisibleCount(v, t, s, UpdateRows)
        top == IF s.top >= len THEN Monus(len, count) ELSE s.top
    IN  [s EXCEPT !.page = count,
                  !.top = IF at = None THEN top
                          ELSE IF at >= top + count THEN Monus(at, Monus(count, 1))
                          ELSE IF at < top THEN at ELSE top]

UpdateOffByOne(v, t, l) ==
    LET s == IF Position(v, t, l.selected) # None THEN l
             ELSE Select(v, l, NextId(v, t, None), FALSE)
        at == Position(v, t, s.selected)
        len == Len(Ids(v, t))
        count == VisibleCount(v, t, s, UpdateRows)
        top == IF s.top >= len THEN Monus(len, count) ELSE s.top
    IN  [s EXCEPT !.page = count,
                  !.top = IF at = None THEN top
                          ELSE IF at > top + count THEN Monus(at, Monus(count, 1))
                          ELSE IF at < top THEN at ELSE top]

(* ObjectList::update.  Its last arm, a selection that is not listed, is   *)
(* dead: by then the selection is listed or None.                          *)
Update(v, t, l) ==
    LET s == IF Position(v, t, l.selected) # None THEN l
             ELSE Select(v, l, NextId(v, t, None), FALSE)
        at == Position(v, t, s.selected)
        len == Len(Ids(v, t))
        count == VisibleCount(v, t, s, UpdateRows)
        top == IF s.top >= len THEN Monus(len, count) ELSE s.top
    IN  [s EXCEPT !.page = count,
                  !.top = IF at = None THEN top
                          ELSE IF at >= top + count THEN Monus(at, Monus(count, 1))
                          ELSE IF at < top THEN at ELSE top]

(* The rows drawn: the objects that fit and one more, perhaps in part.     *)
RowsDrawn(v, t, l) ==
    LET ids == Ids(v, t)
        n == VisibleCount(v, t, l, RenderRows) + 1
    IN  [i \in 1 .. Monus(IF l.top + n < Len(ids) THEN l.top + n ELSE Len(ids), l.top)
            |-> ids[l.top + i]]

(* Render clamps the index of a dropdown it draws: one whose object is     *)
(* among the rows drawn.                                                   *)
Rendered(v, t, l) ==
    LET last == TargetCount[l.owner] - 1
        rows == RowsDrawn(v, t, l)
    IN  IF l.index # None /\ (\E i \in DOMAIN rows : rows[i] = l.selected) /\ l.index > last
        THEN [l EXCEPT !.index = last] ELSE l

-----------------------------------------------------------------------------
(* Mouse areas.  Each selects its object, perhaps a channel of it, and then*)
(* does one more thing; `row` is the row of the node it lies on, and `of`  *)
(* the channel whose volume alone it sets.                                 *)

Area(id, row, by, channel, does, of) ==
    [id |-> id, row |-> row, by |-> by, channel |-> channel, does |-> does, of |-> of]

Press == {"left"}
PressOrDrag == {"left", "drag"}

(* NodeWidget: the whole row.                                              *)
WholeAreas(id) ==
    {Area(id, 0, Press, None, "nothing", None),
     Area(id, 0, {"right"}, None, "SetDefault", None),
     Area(id, 0, {"scroll"}, None, "SetRelativeVolume", None)}

(* HeaderWidget: the target.                                               *)
HeaderAreas(id) == {Area(id, 0, Press, None, "ActivateDropdown", None)}

(* VolumeWidget: one label, and one bar for all channels.                  *)
VolumeAreas(id) ==
    {Area(id, 0, Press, None, "ToggleMute", None),
     Area(id, 0, PressOrDrag, None, "SetAbsoluteVolume", None)}

(* StereoVolumeWidget: two bars, which set a channel without selecting it. *)
StereoAreas(id, pair) ==
    {Area(id, 0, Press, None, "ToggleMute", None)}
        \cup {Area(id, 0, PressOrDrag, None, "SetChannelAbsoluteVolume", pair[k] - 1) :
                  k \in DOMAIN pair}

(* A label and a bar that select their channel.                            *)
ChannelAreas(id, row, c) ==
    {Area(id, row, Press, c, "ToggleMute", None),
     Area(id, row, PressOrDrag, c, "SetChannelAbsoluteVolume", c)}

(* ChannelRowWidget and RadiatingRowWidget, without and with a partner.    *)
ChannelRowAreas(id, row, c) == ChannelAreas(id, row, c)
LoneRowAreas(id, row, c) == ChannelAreas(id, row, c)
PairRowAreas(id, row, pair) ==
    ChannelAreas(id, row, pair[1] - 1) \cup ChannelAreas(id, row, pair[2] - 1)

(* render_channel_rows: the header, then a row per group.                  *)
StackedAreas(cs, id, n) ==
    LET groups == DisplayRows(cs, n)
        radiating == cs.view # "Channels" /\ cs.split = "Radiating"
    IN  HeaderAreas(id) \cup UNION
            {CASE Len(groups[i]) = 2 -> PairRowAreas(id, i, groups[i])
               [] Len(groups[i]) = 1 /\ radiating -> LoneRowAreas(id, i, groups[i][1] - 1)
               [] OTHER -> ChannelRowAreas(id, i, groups[i][1] - 1) : i \in DOMAIN groups}

(* render_volume.                                                          *)
BarAreas(cs, id, n) ==
    IF VolumeDisplay(cs, n) = "Radiating" THEN StereoAreas(id, GroupChannels(n.positions)[1])
    ELSE VolumeAreas(id)

(* NodeWidget::render.                                                     *)
NodeAreas(cs, id, n) ==
    WholeAreas(id) \cup IF VolumeDisplay(cs, n) = "Stacked" THEN StackedAreas(cs, id, n)
                        ELSE HeaderAreas(id) \cup BarAreas(cs, id, n)

(* render_node_list: the areas of the rows drawn, the last of which counts *)
(* whole, and the dropdown if its row is drawn.                            *)
MouseAreas(v, t, l) ==
    LET rows == RowsDrawn(v, t, l)
        ids == {rows[i] : i \in DOMAIN rows}
    IN  [areas |-> UNION {NodeAreas(ChannelState(l), id, v.node[id]) : id \in ids},
         open |-> l.index # None /\ l.selected \in ids]

-----------------------------------------------------------------------------
(* App::run and the handlers.                                              *)

Init ==
    /\ nodes = [id \in Id |-> None]
    /\ hidden = [instance |-> {}, permanent |-> {}]
    /\ dirty = FALSE
    /\ view = [node |-> nodes, ids |-> [t \in Tab |-> <<>>]]
    /\ area \in Areas
    /\ tab = 1
    /\ lists = [t \in Tab |-> NewList(InitialView)]
    /\ drawn = [areas |-> {}, open |-> FALSE]
    /\ batch = 0

(* One turn of the loop up to handle_events: the view is rebuilt if dirty, *)
(* the current list reconciled and drawn.                                  *)
Frame ==
    LET v == IF dirty THEN ViewOf ELSE view
        l == Update(v, tab, lists[tab])
    IN  /\ view' = v
        /\ dirty' = FALSE
        /\ batch' = 0
        /\ lists' = [lists EXCEPT ![tab] = Rendered(v, tab, l)]
        /\ drawn' = MouseAreas(v, tab, l)
        /\ UNCHANGED <<nodes, hidden, area, tab>>

(* An event of the batch.                                                  *)
Handled == batch < MaxBatch /\ batch' = batch + 1

StateUnchanged == UNCHANGED <<nodes, hidden, dirty>>

(* StateEvent::handle: an object appears, changes or is removed.           *)
ObjectChanged(id, shape) ==
    /\ Handled
    /\ nodes' = [nodes EXCEPT ![id] = shape]
    /\ dirty' = TRUE
    /\ UNCHANGED <<hidden, view, area, tab, lists, drawn>>

(* NodePeaksDirty: state_dirty is assigned, not accumulated.               *)
PeaksDirty ==
    /\ Handled
    /\ dirty' = FALSE
    /\ UNCHANGED <<nodes, hidden, view, area, tab, lists, drawn>>

Resize(h) ==
    /\ Handled
    /\ area' = h
    /\ UNCHANGED <<nodes, hidden, dirty, view, tab, lists, drawn>>

(* SelectTab, TabLeft and TabRight.                                        *)
SelectTab(t) ==
    /\ Handled
    /\ tab' = t
    /\ StateUnchanged
    /\ UNCHANGED <<view, area, lists, drawn>>

(* A handler that only touches the current list.                           *)
OnList(l) ==
    /\ Handled
    /\ lists' = [lists EXCEPT ![tab] = l]
    /\ StateUnchanged
    /\ UNCHANGED <<view, area, tab, drawn>>

Move(l) ==
    \/ OnList(Down(view, tab, l))
    \/ OnList(Up(view, tab, l))
    \/ OnList(PageDown(view, tab, l))
    \/ OnList(PageUp(view, tab, l))
    \/ OnList(First(view, tab, l))
    \/ OnList(Last(view, tab, l))

Dropdown(l) ==
    \/ \E i \in 0 .. LastIndex :
        /\ i < TargetCount[IF l.selected = None THEN Least(Id) ELSE l.selected]
        /\ OnList(Activate(view, tab, l, i))
    \/ OnList(Closed(l))

ViewKey(l) ==
    \/ \E cv \in ViewKeys : OnList(SelectView(view, l, cv))
    \/ OnList(CycleView(view, l))

(* ToggleHiddenInstance.                                                   *)
ToggleHiddenInstance(l) ==
    /\ Handled
    /\ l.selected \in Hideable
    /\ dirty' = TRUE
    /\ IF l.selected \in hidden.instance
       THEN /\ hidden' = [hidden EXCEPT !.instance = @ \ {l.selected}]
            /\ UNCHANGED lists
       ELSE /\ hidden' = [hidden EXCEPT !.instance = @ \cup {l.selected}]
            /\ lists' = [lists EXCEPT ![tab] = ReleaseHidden(view, tab, l, l.selected)]
    /\ UNCHANGED <<nodes, view, area, tab, drawn>>

(* ToggleHiddenPermanent, of a node the state still has.                   *)
ToggleHiddenPermanent(l) ==
    /\ Handled
    /\ l.selected \in Hideable
    /\ nodes[l.selected] # None
    /\ dirty' = TRUE
    /\ IF l.selected \in hidden.permanent
       THEN /\ hidden' = [hidden EXCEPT !.permanent = @ \ {l.selected}]
            /\ UNCHANGED lists
       ELSE /\ hidden' = [hidden EXCEPT !.permanent = @ \cup {l.selected}]
            /\ lists' = [lists EXCEPT ![tab] = ReleaseHidden(view, tab, l, l.selected)]
    /\ UNCHANGED <<nodes, view, area, tab, drawn>>

(* SelectObject, SelectChannel: assigned directly, not through select().   *)
SelectObject(l, id) == [l EXCEPT !.selected = id]
SelectChannel(l, c) == [l EXCEPT !.channel = c]

(* What an area does to the list; the commands it sends are in Mixer.      *)
Acted(l, a, i) ==
    LET s == SelectObject(l, a.id)
        c == IF a.channel = None THEN s ELSE SelectChannel(s, a.channel)
    IN  IF a.does = "ActivateDropdown" THEN Activate(view, tab, c, i) ELSE c

(* DropdownWidget: a press beside it, or on a target, closes it; on its    *)
(* arrows it moves.                                                        *)
PressDropdown(l) ==
    \/ OnList(Closed(l))
    \/ OnList(Up(view, tab, l))
    \/ OnList(Down(view, tab, l))

(* Mouse.  A drawn dropdown covers the rows for left presses only.         *)
Click(l) ==
    \/ \E a \in drawn.areas, i \in 0 .. LastIndex :
        /\ i < TargetCount[a.id] \/ i = 0
        /\ ~(drawn.open /\ a.by = Press)
        /\ OnList(Acted(l, a, i))
    \/ drawn.open /\ PressDropdown(l)

Event ==
    \/ \E id \in Id : \E shape \in (Shapes[id] \cup {None}) \ {nodes[id]} :
        ObjectChanged(id, shape)
    \/ PeaksDirty
    \/ \E h \in Areas \ {area} : Resize(h)
    \/ \E t \in Tab \ {tab} : SelectTab(t)
    \/ Move(lists[tab])
    \/ Dropdown(lists[tab])
    \/ ViewKey(lists[tab])
    \/ ToggleHiddenInstance(lists[tab])
    \/ ToggleHiddenPermanent(lists[tab])
    \/ Click(lists[tab])

Next == Frame \/ Event

Spec == Init /\ [][Next]_vars

-----------------------------------------------------------------------------
(* Properties.                                                             *)

(* A step that is a frame: only Frame ends a batch.                        *)
Framed == batch' = 0

(* visible_objects slices the list from `top` right after update(): `top`  *)
(* is never past its end, however the list shrank since (object_list.rs).  *)
SliceInBounds == [][Framed => lists'[tab].top <= Len(Ids(view', tab))]_vars

(* A selection survives every frame in which its object is still listed,   *)
(* whatever moved around it, and with it the open dropdown; otherwise the  *)
(* first object is selected, the dropdown is closed, and nothing is        *)
(* selected only in an empty list.                                         *)
SelectionFollowsObject ==
    [][Framed =>
        LET was == lists[tab]
            is == lists'[tab]
            ids == Ids(view', tab)
        IN  IF \E i \in DOMAIN ids : ids[i] = was.selected
            THEN is.selected = was.selected /\ (is.index = None <=> was.index = None)
            ELSE /\ is.selected = IF ids = <<>> THEN None ELSE ids[1]
                 /\ is.index = None]_vars

(* Rows of one height, each of which fits: after a frame the selected row  *)
(* is drawn whole.                                                         *)
SelectionOnScreen(v, t, l) ==
    LET at == Position(v, t, l.selected)
        heights == ItemHeights(v, t, [l EXCEPT !.top = 0])
    IN  /\ l.top <= at
        /\ LET above == {i \in DOMAIN heights : l.top < i /\ i <= at}
               used[i \in 0 .. Len(heights)] ==
                   IF i = 0 THEN 0
                   ELSE used[i - 1] + IF i \in above THEN heights[i] + Spacing ELSE 0
           IN  used[Len(heights)] + heights[at + 1] <= RenderRows

UniformOnScreen ==
    [][Framed =>
        LET l == lists'[tab]
            heights == ItemHeights(view', tab, [l EXCEPT !.top = 0])
        IN  l.selected # None
            /\ (\A i \in DOMAIN heights :
                    heights[i] = heights[1] /\ heights[i] + Spacing <= UpdateRows)
            => SelectionOnScreen(view', tab, l)]_vars

(* up() undoes down(): "up/down are exact reverses of each other", from    *)
(* every selection whose cursor is where select() or down() leaves it.     *)
CursorFits(v, l) ==
    LET count == ChannelCount(v, l.selected)
    IN  IF l.view = "Channels" /\ count > 1
        THEN l.channel # None /\ l.channel < count ELSE l.channel = None

UpUndoesDown ==
    \A t \in Tab :
        LET l == lists[t]
            below == Down(view, t, l)
        IN  /\ l.index = None
            /\ Position(view, t, l.selected) # None
            /\ CursorFits(view, l)
            /\ below # l
            => Up(view, t, below) = l

(* Every channel of a node the view shows is on exactly one of its rows,   *)
(* in every view of the list, while positions and volumes agree on their   *)
(* number ("nothing is ever silently left off-screen"); and one bar sets   *)
(* its volume, of all channels or, in a split row, of that one only.       *)
RowsCoverChannels ==
    \A id \in {i \in Id : view.node[i] # None}, cs \in {ChannelState(lists[t]) : t \in Tab} :
        LET n == view.node[id]
            shown == ShownIn(cs, n)
            places == UNION {{i} \X DOMAIN shown[i] : i \in DOMAIN shown}
            bars == {a \in NodeAreas(cs, id, n) : a.by = PressOrDrag}
        IN  n.positions = None \/ Len(n.positions) = Len(n.volumes)
            => /\ \A c \in DOMAIN n.volumes :
                    /\ Cardinality({p \in places : shown[p[1]][p[2]] = c}) = 1
                    /\ Cardinality({a \in bars : a.of \in {c - 1, None}}) = 1
               /\ \A a \in bars : a.channel \in {a.of, None}

(* The doc of selected_channel: "Only meaningful while `view` is           *)
(* `Channels`; `None` otherwise, or whenever the selected object has fewer *)
(* than two channels".                                                     *)
CursorOnlyInChannels ==
    \A t \in Tab : lists[t].channel # None => lists[t].view = "Channels"
=============================================================================
