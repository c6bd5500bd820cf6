------------------------------ MODULE Capture ------------------------------
(***************************************************************************)
(* The capture manager of the App: which nodes have their peak levels      *)
(* monitored, under lazy capture, the two caps on concurrent captures,     *)
(* hidden items and the rotation that shares a cap out.  One action per    *)
(* event handler of the App thread, plus the two halves of an iteration of *)
(* its main loop: Refresh (rebuild the view, find what is on screen) and   *)
(* RenderFrame (rotate, draw).  Between two iterations handle_events       *)
(* drains a batch of any length, so event handlers interleave freely with  *)
(* iterations of the loop.                                                 *)
(*                                                                         *)
(* The source iterates over HashSets, whose order is arbitrary: a loop     *)
(* that calls start_capture for each member of a set is the nondetermin-   *)
(* istic choice of a maximal set of starts the caps allow (Admit).         *)
(***************************************************************************)
EXTENDS PwState

CONSTANTS
    PropsOf,        \* PropsOf[id]: the property stores node id may announce
    CaptureName,    \* node.name of every peak-capture stream
    FilteredNames,  \* node.names the configured filters match
    PeaksOn,        \* peaks # Peaks::Off
    Lazy,           \* lazy_capture
    MaxCaptures,    \* max_concurrent_captures, or None
    MaxGlobal,      \* max_concurrent_captures_global, or None
    CaptureHidden,  \* capture_hidden
    Screens,        \* the sets of nodes that can be on screen together
    HideFiles       \* the contents the permanent-hide file takes

ROTATION_FRAME_INTERVAL == 3

ASSUME PropsAssumption ==
    /\ PropsOf \in [NodeId -> SUBSET Props]
    /\ CaptureName \in Name
    /\ FilteredNames \subseteq Name
    /\ CaptureName \in FilteredNames    \* Filter::defaults, which has no id
ASSUME ConfigAssumption ==
    /\ PeaksOn \in BOOLEAN /\ Lazy \in BOOLEAN /\ CaptureHidden \in BOOLEAN
    /\ MaxCaptures \in Nat \cup {None} /\ MaxGlobal \in Nat \cup {None}
ASSUME BoundsAssumption ==
    /\ Screens \subseteq SUBSET NodeId
    /\ HideFiles \subseteq SUBSET Name

VARIABLES
    ready,              \* is_ready: the initial registry dump has arrived
    phase,              \* which half of the main loop runs next
    stateDirty,         \* state_dirty
    needsRender,        \* needs_render: a frame has been asked for
    view,               \* ids of the nodes in the View last built
    visible,            \* visible_objects, as far as they are nodes
    capturable,         \* capturable_objects
    capturing,          \* capturing_objects
    hiddenInstance,     \* hidden_instance
    matchers,           \* hidden_permanent_matchers, by the name they match
    hiddenPermanent,    \* hidden_permanent, the cached evaluation of matchers
    rotationStart,      \* capture_rotation_start
    framesSince,        \* frames_since_rotation
    issued              \* node_capture_stop/start commands of the last handler

loopVars == <<ready, phase, stateDirty, needsRender, view, visible>>
hideVars == <<hiddenInstance, matchers, hiddenPermanent>>
captureVars == <<capturable, capturing, issued>>
rotationVars == <<rotationStart, framesSince>>
vars == <<stateVars, loopVars, hideVars, captureVars, rotationVars>>

TypeOK ==
    /\ StateTypeOK
    /\ ready \in BOOLEAN
    /\ phase \in {"events", "frame"}
    /\ stateDirty \in BOOLEAN
    /\ needsRender \in BOOLEAN
    /\ view \subseteq NodeId
    /\ visible \subseteq NodeId
    /\ capturable \subseteq NodeId
    /\ capturing \subseteq NodeId
    /\ hiddenInstance \subseteq NodeId
    /\ matchers \subseteq Name
    /\ hiddenPermanent \subseteq NodeId
    /\ rotationStart \in Nat
    /\ framesSince \in 0 .. ROTATION_FRAME_INTERVAL
    /\ issued \in [stop : SUBSET NodeId, start : SUBSET NodeId]

(* The two commands never name the same node within one handler, so their  *)
(* relative order is immaterial to the PipeWire thread.                    *)
NoCommands == [stop |-> {}, start |-> {}]

Init ==
    /\ StateInit
    /\ ready = FALSE
    /\ phase = "events"
    /\ stateDirty = FALSE
    /\ needsRender = TRUE
    /\ view = {} /\ visible = {}
    /\ capturable = {} /\ capturing = {}
    /\ hiddenInstance = {}
    /\ matchers \in HideFiles               \* load_hidden_state
    /\ hiddenPermanent = {}
    /\ rotationStart = 0 /\ framesSince = 0
    /\ issued = NoCommands

-----------------------------------------------------------------------------
(* A durable hide matches on node.name; None is never a name.              *)
MatchesHidden(id) == node[id].name \in matchers
Filtered(id) == node[id].name \in FilteredNames

HiddenNow == {id \in nodes : MatchesHidden(id)}

(* The nodes View::from lists: complete (volumes and mute are taken to     *)
(* come with the properties) and not filtered.                             *)
ViewNow == {id \in nodes : /\ node[id].class # None
                           /\ node[id].name # None
                           /\ node[id].serial # None
                           /\ ~Filtered(id)}

GlobalCaptureCount == Cardinality({id \in nodes : node[id].name = CaptureName})

(* Mutants of CanStart, without the lazy_capture check and without the     *)
(* hidden_instance check.                                                  *)
CanStartOffScreen(id) ==
    id \in nodes /\ ~Filtered(id) /\ node[id].serial # None
    /\ (~CaptureHidden => id \notin hiddenInstance /\ ~MatchesHidden(id))
CanStartHidden(id) ==
    id \in nodes /\ ~Filtered(id) /\ node[id].serial # None /\ (Lazy => id \in visible)
    /\ (~CaptureHidden => ~MatchesHidden(id))

(* The conditions of start_capture that do not concern the caps.           *)
CanStart(id) ==
    /\ Lazy => id \in visible
    /\ ~CaptureHidden => id \notin hiddenInstance
    /\ id \in nodes
    /\ ~CaptureHidden => ~MatchesHidden(id)
    /\ ~Filtered(id)
    /\ node[id].serial # None

(* Mutants of AtCap: an off-by-one, and the graph count taken alone.       *)
AtCapOffByOne(n, g) ==
    \/ MaxCaptures # None /\ n > MaxCaptures
    \/ MaxGlobal # None /\ (g >= MaxGlobal \/ n >= MaxGlobal)
AtCapNoFloor(n, g) ==
    \/ MaxCaptures # None /\ n >= MaxCaptures
    \/ MaxGlobal # None /\ g >= MaxGlobal

(* The caps refuse one more capture when n are running and the graph shows *)
(* g capture nodes.  The graph count lags behind this instance's own       *)
(* commands, so n is folded in as a floor.                                 *)
AtCap(n, g) ==
    \/ MaxCaptures # None /\ n >= MaxCaptures
    \/ MaxGlobal # None /\ (g >= MaxGlobal \/ n >= MaxGlobal)

(* The sets of captures that calling start_capture for each member of      *)
(* `wanted`, in any order, can add to the running captures cur.            *)
Admit(cur, wanted, g) ==
    {S \in SUBSET wanted :
        LET n == Cardinality(cur \cup S) IN
        /\ S # {} => ~AtCap(n - 1, g)
        /\ S # wanted => AtCap(n, g)}

(* Stop the captures in `stopped`, then call start_capture for each of     *)
(* `candidates` that is not running.                                       *)
StopThenStart(stopped, candidates) ==
    LET kept == capturing \ stopped IN
    \E S \in Admit(kept, {id \in candidates \ kept : CanStart(id)'},
                   GlobalCaptureCount') :
        /\ capturing' = kept \cup S
        /\ issued' = [stop |-> stopped, start |-> S]

(* start_capture: a node that already runs is restarted, whatever the caps.*)
StartCapture(id) ==
    IF id \in capturing
    THEN /\ capturing' = capturing
         /\ issued' = [stop |-> {}, start |-> {i \in {id} : CanStart(i)'}]
    ELSE StopThenStart({}, {id})

(* Mutants of StopCapture: the command without the bookkeeping, and the    *)
(* bookkeeping without the command.                                        *)
StopCaptureCommandOnly(id) ==
    /\ capturing' = capturing
    /\ issued' = [stop |-> {id}, start |-> {}]
StopCaptureBooksOnly(id) ==
    /\ capturing' = capturing \ {id}
    /\ issued' = NoCommands

(* stop_capture sends the command even when nothing was running.           *)
StopCapture(id) ==
    /\ capturing' = capturing \ {id}
    /\ issued' = [stop |-> {id}, start |-> {}]

KeepCaptures ==
    /\ capturing' = capturing
    /\ issued' = NoCommands

(* App::set_capture_eligibility. *)
SetCaptureEligibility(eligibility, id) ==
    \/ /\ ~PeaksOn \/ eligibility = "Unchanged"
       /\ UNCHANGED capturable
       /\ KeepCaptures
    \/ /\ PeaksOn /\ eligibility = "Eligible"
       /\ capturable' = capturable \cup {id}
       /\ IF id \in capturing THEN KeepCaptures ELSE StartCapture(id)
    \/ /\ PeaksOn /\ eligibility = "NeedsRestart"
       /\ capturable' = capturable \cup {id}
       /\ StartCapture(id)
    \/ /\ PeaksOn /\ eligibility = "Ineligible"
       /\ capturable' = capturable \ {id}
       /\ StopCapture(id)

-----------------------------------------------------------------------------
(* StateEvent::handle: state_dirty is assigned, not accumulated, and a     *)
(* frame is asked for when the event affects an object on screen.          *)
HandleStateEvent(dirty, affected) ==
    /\ phase = "events"
    /\ stateDirty' = dirty
    /\ needsRender' = (needsRender \/ affected \cap visible # {})
    /\ UNCHANGED <<ready, phase, view, visible, hideVars, rotationVars>>

NodeProperties(id, p) ==
    /\ HandleStateEvent(TRUE, {id})
    /\ UpdateNodeProperties(id, p)
    /\ SetCaptureEligibility(OnNode(node[id])', id)

(* The node's info event comes before its port configuration.              *)
NodePositions(id, layout) ==
    /\ node[id].class # None
    /\ HandleStateEvent(TRUE, {id})
    /\ UpdateNodePositions(id, layout)
    /\ SetCaptureEligibility(PositionsEligibility(id, layout), id)

StreamStarted(id) ==
    /\ HandleStateEvent(TRUE, {id})
    /\ UpdateStreamStarted(id)
    /\ UNCHANGED capturable /\ KeepCaptures

PeaksDirty(id) ==
    /\ HandleStateEvent(FALSE, {id})
    /\ UNCHANGED <<stateVars, capturable>> /\ KeepCaptures

LinkAdded(l, out, in) ==
    /\ HandleStateEvent(TRUE, {out, in})
    /\ UpdateLink(l, out, in)
    /\ SetCaptureEligibility(LinkEligibility(out, in), in)

LinkRemoved(k) ==
    /\ HandleStateEvent(TRUE, {k.output, k.input})
    /\ UpdateLinkRemoved(k)
    /\ SetCaptureEligibility(LinkRemovedEligibility(k), k.input)

NodeRemoved(id) ==
    /\ HandleStateEvent(TRUE, {id})
    /\ UpdateNodeRemoved(id)
    /\ SetCaptureEligibility(NodeRemovedEligibility(id), id)

(* Volume, mute and NodeStreamStopped events of a node, client, device and *)
(* metadata events, and the Removed of an object of those other kinds.     *)
(* They affect a node, an object the screen depends on, or nothing on it.  *)
OtherStateEvent(affected) ==
    /\ HandleStateEvent(TRUE, affected)
    /\ UNCHANGED <<stateVars, capturable>> /\ KeepCaptures

Ready ==
    /\ ~ready /\ phase = "events"
    /\ ready' = TRUE
    /\ needsRender' = TRUE
    /\ UNCHANGED <<stateVars, phase, stateDirty, view, visible, hideVars,
                   capturable, rotationVars>>
    /\ KeepCaptures

-----------------------------------------------------------------------------
(* Action::ToggleHiddenInstance on the selected row.  The view may be      *)
(* older than the state, so the row's node may be gone.                    *)
HideInstance(id) ==
    /\ phase = "events" /\ id \in view \ hiddenInstance
    /\ hiddenInstance' = hiddenInstance \cup {id}
    /\ stateDirty' = TRUE
    /\ needsRender' = TRUE
    /\ UNCHANGED <<stateVars, ready, phase, view, visible, matchers,
                   hiddenPermanent, capturable, rotationVars>>
    /\ IF CaptureHidden THEN KeepCaptures ELSE StopCapture(id)

UnhideInstance(id) ==
    /\ phase = "events" /\ id \in view \cap hiddenInstance
    /\ hiddenInstance' = hiddenInstance \ {id}
    /\ stateDirty' = TRUE
    /\ needsRender' = TRUE
    /\ UNCHANGED <<stateVars, ready, phase, view, visible, matchers,
                   hiddenPermanent, capturable, rotationVars>>
    /\ IF ~CaptureHidden /\ id \in capturable
       THEN StartCapture(id) ELSE KeepCaptures

(* Action::ToggleHiddenPermanent, whose direction the cached set decides.  *)
(* The file the new matchers are saved to is the subject of another module.*)
ToggleHiddenPermanent(id) ==
    /\ phase = "events" /\ id \in view \cap nodes
    /\ id \notin hiddenPermanent => node[id].name # None
    /\ matchers' = IF id \in hiddenPermanent THEN matchers \ {node[id].name}
                                             ELSE matchers \cup {node[id].name}
    /\ stateDirty' = TRUE
    /\ needsRender' = TRUE
    /\ UNCHANGED <<stateVars, ready, phase, view, visible, hiddenInstance,
                   capturable, rotationVars>>
    /\ hiddenPermanent' = HiddenNow'
    /\ CASE CaptureHidden -> KeepCaptures
         [] ~CaptureHidden /\ id \in hiddenPermanent' -> StopCapture(id)
         [] ~CaptureHidden /\ id \notin hiddenPermanent' ->
                IF id \in capturable THEN StartCapture(id) ELSE KeepCaptures

(* apply_file_hidden_state_change, when the file differs from memory.      *)
HiddenFileChanged(ms) ==
    /\ phase = "events" /\ ms # matchers
    /\ matchers' = ms
    /\ stateDirty' = TRUE
    /\ needsRender' = TRUE
    /\ UNCHANGED <<stateVars, ready, phase, view, visible, hiddenInstance,
                   capturable, rotationVars>>
    /\ hiddenPermanent' = HiddenNow'
    /\ StopThenStart(IF CaptureHidden THEN {} ELSE capturing \cap hiddenPermanent',
                     capturable)

-----------------------------------------------------------------------------
(* Mutant of UpdateCapturing: starts from the visible set of last time.    *)
UpdateCapturingStale ==
    \E S \in Admit(capturing, {id \in (visible \cap capturable) \ capturing : CanStart(id)},
                   GlobalCaptureCount') :
        /\ capturing' = (capturing \cup S) \cap visible'
        /\ issued' = [stop |-> capturing \ visible', start |-> S]

(* App::update_capturing, on the visible set just found: start first, then *)
(* stop.                                                                   *)
UpdateCapturing ==
    \E S \in Admit(capturing,
                   {id \in (visible' \cap capturable) \ capturing : CanStart(id)'},
                   GlobalCaptureCount') :
        /\ capturing' = (capturing \cup S) \cap visible'
        /\ issued' = [stop |-> capturing \ visible', start |-> S]

(* The first half of an iteration of App::run, the list scrolled to v.     *)
(* `changed` may hold though the same nodes are on screen: visible_objects *)
(* also holds their devices and clients.                                   *)
Refresh(v, changed) ==
    /\ ready /\ phase = "events"
    /\ phase' = "frame"
    /\ stateDirty' = FALSE
    /\ view' = IF stateDirty THEN ViewNow ELSE view
    /\ hiddenPermanent' = IF stateDirty THEN HiddenNow ELSE hiddenPermanent
    /\ visible' = v \cap view'
    /\ visible' # visible => changed
    /\ needsRender' = (needsRender \/ changed)
    /\ UNCHANGED <<stateVars, ready, hiddenInstance, matchers, capturable,
                   rotationVars>>
    /\ IF changed /\ Lazy THEN UpdateCapturing ELSE KeepCaptures

(* What rotate_capturing shares the cap among, and the window of           *)
(* MaxCaptures of them, in id order, from a start position.                *)
Rotatable == IF Lazy THEN visible \cap capturable ELSE capturable

Window(eligible, start) ==
    LET n == Cardinality(eligible)
        Rank(id) == Cardinality({i \in eligible : i < id})
    IN  {id \in eligible : (Rank(id) + n - start) % n < MaxCaptures}

FrameCount == IF framesSince < ROTATION_FRAME_INTERVAL
              THEN framesSince + 1 ELSE framesSince

Rotating ==
    /\ MaxCaptures # None
    /\ FrameCount = ROTATION_FRAME_INTERVAL
    /\ Cardinality(Rotatable) > MaxCaptures

(* Mutants of RotateCapturing: the position runs backwards below zero, is  *)
(* advanced by a whole window, or is not advanced.                         *)
RotateTo(next(_, _)) ==
    LET n == Cardinality(Rotatable)
        start == rotationStart % n
        window == Window(Rotatable, start)
    IN  /\ framesSince' = 0
        /\ rotationStart' = next(start, n)
        /\ StopThenStart(capturing \ window, window)
RotateBackwards == RotateTo(LAMBDA start, n : start - 1)
RotateByWindow == RotateTo(LAMBDA start, n : (start + MaxCaptures) % n)
RotateInPlace == RotateTo(LAMBDA start, n : start)

(* App::rotate_capturing.  The frame counter saturates at the interval, at *)
(* which all its larger values behave alike.                               *)
RotateCapturing ==
    LET n == Cardinality(Rotatable)
        start == rotationStart % n
        window == Window(Rotatable, start)
    IN  /\ framesSince' = 0
        /\ rotationStart' = (start + 1) % n
        /\ StopThenStart(capturing \ window, window)

(* The second half of the iteration, when a frame has been asked for and   *)
(* the pacer finds it is time to render.                                   *)
RenderFrame ==
    /\ phase = "frame"
    /\ needsRender
    /\ needsRender' = FALSE
    /\ phase' = "events"
    /\ UNCHANGED <<stateVars, ready, stateDirty, view, visible, hideVars,
                   capturable>>
    /\ \/ Rotating /\ RotateCapturing
       \/ /\ ~Rotating
          /\ framesSince' = IF MaxCaptures = None THEN framesSince ELSE FrameCount
          /\ UNCHANGED rotationStart
          /\ KeepCaptures

(* The second half of the iteration, when nothing is to be drawn yet.      *)
SkipFrame ==
    /\ phase = "frame"
    /\ phase' = "events"
    /\ UNCHANGED <<stateVars, ready, stateDirty, needsRender, view, visible, hideVars,
                   capturable, rotationVars>>
    /\ KeepCaptures

(* What else asks for a frame: a key, a resize, a hide file that equals    *)
(* memory, and the wake-up of a cycling label.                             *)
AskForFrame ==
    /\ phase = "events"
    /\ needsRender' = TRUE
    /\ UNCHANGED <<stateVars, ready, phase, stateDirty, view, visible, hideVars,
                   capturable, rotationVars>>
    /\ KeepCaptures

StateEventNext ==
    \/ \E id \in NodeId : \/ \E p \in PropsOf[id] : NodeProperties(id, p)
                          \/ \E layout \in Layout : NodePositions(id, layout)
                          \/ StreamStarted(id)
                          \/ PeaksDirty(id)
                          \/ NodeRemoved(id)
    \/ \E l \in LinkId, out, in \in NodeId : LinkAdded(l, out, in)
    \/ \E k \in links : LinkRemoved(k)
    \/ \E affected \in SUBSET NodeId : OtherStateEvent(affected)

HideNext ==
    \/ \E id \in NodeId : \/ HideInstance(id)
                          \/ UnhideInstance(id)
                          \/ ToggleHiddenPermanent(id)
    \/ \E ms \in HideFiles : HiddenFileChanged(ms)

LoopNext ==
    \/ \E v \in Screens, changed \in BOOLEAN : Refresh(v, changed)
    \/ RenderFrame
    \/ SkipFrame
    \/ AskForFrame

Next == StateEventNext \/ Ready \/ HideNext \/ LoopNext

Spec == Init /\ [][Next]_vars

(* PipeWire ends its initial dump.  While a frame is asked for, the loop   *)
(* waits no longer than until the next one is due, and then draws it:      *)
(* needs_render stays set through the iterations that come too early.      *)
(* Otherwise the loop may block for ever.                                  *)
Fairness ==
    /\ WF_vars(Ready)
    /\ WF_vars(needsRender /\ \E v \in Screens, changed \in BOOLEAN : Refresh(v, changed))
    /\ WF_vars(RenderFrame \/ SkipFrame)
    /\ SF_vars(RenderFrame)

FairSpec == Spec /\ Fairness

-----------------------------------------------------------------------------
(* The cap on concurrent captures holds after every handler: not only when *)
(* rotation has run but in the middle of a burst of newly eligible nodes   *)
(* (start_capture: "so it can never be transiently exceeded").             *)
CapNeverExceeded ==
    MaxCaptures # None => Cardinality(capturing) <= MaxCaptures

(* One instance alone never takes more than the global cap, although the   *)
(* graph count it reads lags behind its own commands.                      *)
GlobalCapHasNoSelfLag ==
    MaxGlobal # None => Cardinality(capturing) <= MaxGlobal

(* What is captured is always a live node that is still eligible: nothing  *)
(* (a removal, a lost link, an unhide, a reload of the hide file) leaves a *)
(* capture running that set_capture_eligibility has given up.              *)
CapturesAreEligible == capturing \subseteq capturable \cap nodes

(* Without capture_hidden, an item hidden for this instance is never       *)
(* captured, whichever of eligibility events, restarts, rotation, scrolling*)
(* and file reloads comes next.                                            *)
HiddenInstanceNotCaptured ==
    ~CaptureHidden => capturing \cap hiddenInstance = {}

(* Under lazy capture only what is on screen is captured, also while the   *)
(* set on screen changes under rotation, hiding and eligibility changes.   *)
LazyCapturesVisible == Lazy => capturing \subseteq visible

(* What NothingLeftOut takes of the server: a node keeps its media class, a*)
(* sink comes with its serial and keeps its name, and unless hidden items  *)
(* are captured no two nodes share a name (a durable hide is lifted for all*)
(* nodes of a name, but starts only the selected one).                     *)
Steady ==
    /\ \A id \in NodeId : \A p, q \in PropsOf[id] :
          /\ p.class = q.class
          /\ p.class = "Sink" => p.serial # None /\ p.name = q.name
    /\ ~CaptureHidden =>
          \A i, j \in NodeId : \A p \in PropsOf[i], q \in PropsOf[j] :
              i # j /\ p.name # None => p.name # q.name

(* Without caps no eligible node that start_capture would accept is ever   *)
(* left out: whatever stopped a capture or refused it, the handler that    *)
(* lifts the reason starts it.                                             *)
NothingLeftOut ==
    Steady /\ PeaksOn /\ MaxCaptures = None /\ MaxGlobal = None =>
        \A id \in capturable : CanStart(id) => id \in capturing

(* A tick of the rotation fills the window that starts one place before the*)
(* next one, and starting from such a window over the same eligible set it *)
(* stops at most one capture and starts at most one (the doc of            *)
(* rotate_capturing: "at most one capture starts and one stops per tick"). *)
RotationIsStaggered ==
    [][ LET n == Cardinality(Rotatable)
            Last(start) == Window(Rotatable, (start + n - 1) % n)
        IN  Rotating /\ phase = "frame" /\ framesSince' = 0 =>
                /\ (\A id \in Rotatable : CanStart(id)) => capturing' = Last(rotationStart')
                /\ capturing = Last(rotationStart) =>
                       /\ Cardinality(capturing \ capturing') <= 1
                       /\ Cardinality(capturing' \ capturing) <= 1 ]_vars

(* While exactly the nodes of E are eligible and none of them is refused,  *)
(* each of them is captured again and again.                               *)
KeepsSampling(E) ==
    <>[](Rotatable = E /\ \A id \in E : CanStart(id))
        => \A id \in E : []<>(id \in capturing)

(* As long as frames are asked for again and again, the rotation reaches   *)
(* every one of more nodes than the cap allows (rotate_capturing, which is *)
(* only called for a frame that is drawn).                                 *)
RotationSamplesAll ==
    []<>needsRender =>
        \A E \in SUBSET NodeId :
            MaxCaptures \in 1 .. (Cardinality(E) - 1) => KeepsSampling(E)

(* What the code and its documentation say, and the code does not do:      *)

(* wiremix.toml: when more nodes are eligible than the cap allows, "each   *)
(* eventually gets sampled".  Without an object on screen whose events ask *)
(* for frames (its peaks are one), none is drawn and nothing rotates.      *)
RotationNeverStalls ==
    \A E \in SUBSET NodeId :
        MaxCaptures \in 1 .. (Cardinality(E) - 1) => KeepsSampling(E)

(* The doc of rotate_capturing: under the cap, "every eligible object      *)
(* eventually gets sampled"; here, however few they are.                   *)
EveryEligibleSampled ==
    []<>needsRender => \A E \in SUBSET NodeId : KeepsSampling(E)

(* The doc of update_capturing: it makes "sure visible nodes are captured".*)
(* Stated for the case that they all fit under the cap.                    *)
VisibleNodesCaptured ==
    [][ LET eligible == {id \in visible' \cap capturable : CanStart(id)'} IN
        /\ Lazy /\ phase = "events" /\ phase' = "frame" /\ visible' # visible
        /\ MaxGlobal = None
        /\ MaxCaptures # None => Cardinality(eligible) <= MaxCaptures
        => eligible \subseteq capturing' ]_vars

(* wiremix.toml, capture_hidden: "If false, hidden items are excluded from *)
(* peak monitoring", here those hidden permanently.                        *)
HiddenPermanentNotCaptured ==
    ~CaptureHidden => capturing \cap HiddenNow = {}

(* state_dirty: "Does the view need to be updated with the current PipeWire*)
(* state?"  A frame is drawn from a view that was brought up to date.      *)
FrameShowsCurrentState ==
    phase = "frame" => view = ViewNow /\ hiddenPermanent = HiddenNow
=============================================================================
