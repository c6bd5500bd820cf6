----------------------------- MODULE PeakMeter -----------------------------
(***************************************************************************)
(* The peaks of one captured node: written by the process callback on the  *)
(* PipeWire thread, read by the widgets on the App thread, and shared as an*)
(* array of atomics (Node::peaks) with one flag (Node::peaks_dirty) that   *)
(* says the App has been woken up for them.  The callback wakes the App up *)
(* only when it finds the flag clear, and a widget clears it when it has   *)
(* drawn a row of the meter: a channel, a pair, or the whole.  Each atomic *)
(* access is a step here; the accesses are taken to be seen in program     *)
(* order, which Relaxed does not promise.                                  *)
(*                                                                         *)
(* Of a peak only counts whether the screen has been given it: the search  *)
(* for it in the samples, the ballistics of the peak processor and the     *)
(* drawing of a level are abstracted away.  When streams start and stop is *)
(* decided in module Pipeline and free here.                               *)
(***************************************************************************)
EXTENDS Naturals, Sequences

CONSTANTS
    None,
    Channels,   \* number of channels of the node
    Array,      \* identities of Arc<[AtomicF32]>
    MaxQueue    \* bound on the App's channel; unbounded in the source

ASSUME MeterAssumption ==
    Channels \in Nat \ {0} /\ None \notin Array /\ MaxQueue \in Nat

VARIABLES
    \* PipeWire thread
    pw,         \* step of the process callback: "idle", "store", "swap", "send"
    stream,     \* StreamData::peaks of the stream, or None when there is none
    seen,       \* buffers_seen, up to 2
    at,         \* the channel pw or app is at
    \* shared
    unread,     \* channels the stream has stored and no widget loaded since
    flag,       \* peaks_dirty
    queue,      \* the App's mpsc channel
    \* App thread
    app,        \* "turn", "load", "clear", "events"
    handled,    \* handle_events has received its first event
    peaks,      \* State's Node::peaks
    viewPeaks,  \* View's Node::peaks
    dirty,      \* state_dirty
    wanted,     \* where list and hidden items put the node's meter: "off"
                \* screen, "suspended" (drawn without it), "metered"
    place,      \* the same, as of visible_objects and the view
    needsRender,
    drawn,      \* the array the meter was last drawn from
    overtaken   \* a callback found the flag set by a meter being drawn

pwVars == <<pw, stream, seen>>
appVars == <<app, handled, peaks, viewPeaks, dirty, wanted, place, needsRender, drawn>>
vars == <<pwVars, at, unread, flag, queue, appVars, overtaken>>

Init ==
    /\ pw = "idle" /\ stream = None /\ seen = 0
    /\ at = [pw |-> 1, app |-> 1]
    /\ unread = {} /\ flag = FALSE /\ queue = <<>>
    /\ app = "turn" /\ handled = FALSE
    /\ peaks = None /\ viewPeaks = None /\ dirty = FALSE
    /\ wanted = "metered" /\ place = "off" /\ needsRender = TRUE
    /\ drawn = None
    /\ overtaken = FALSE

-----------------------------------------------------------------------------
(* The PipeWire thread, and what else reaches the App's channel.           *)

Send(e) == Len(queue) < MaxQueue /\ queue' = Append(queue, e)

Free ==
    Array \ ({stream, peaks, viewPeaks, drawn}
             \cup {queue[i].array : i \in {j \in DOMAIN queue : queue[j].t = "started"}})

(* capture_node, and the first format of the new stream.                   *)
CaptureNode(a) ==
    /\ pw = "idle" /\ stream = None
    /\ stream' = a /\ seen' = 0
    /\ unread' = {}
    /\ Send([t |-> "started", array |-> a])
    /\ UNCHANGED <<pw, at, flag, appVars, overtaken>>

(* param_changed of a running stream: another array, the same stream.      *)
ParamChanged(a) ==
    /\ pw = "idle" /\ stream # None
    /\ stream' = a
    /\ unread' = {}
    /\ Send([t |-> "started", array |-> a])
    /\ UNCHANGED <<pw, seen, at, flag, appVars, overtaken>>

(* The stream is removed and collected.                                    *)
StreamStopped ==
    /\ pw = "idle" /\ stream # None
    /\ stream' = None /\ unread' = {}
    /\ Send([t |-> "stopped"])
    /\ UNCHANGED <<pw, seen, at, flag, appVars, overtaken>>

(* process: the first buffer of a stream is skipped.                       *)
Process ==
    /\ pw = "idle" /\ stream # None
    /\ seen' = IF seen < 2 THEN seen + 1 ELSE seen
    /\ pw' = IF seen' = 1 THEN "idle" ELSE "store"
    /\ UNCHANGED <<stream, at, unread, flag, queue, appVars, overtaken>>

(* ... the peak of one channel after the other ...                         *)
Store ==
    /\ pw = "store"
    /\ unread' = unread \cup {at.pw}
    /\ at' = [at EXCEPT !.pw = (@ % Channels) + 1]
    /\ pw' = IF at.pw = Channels THEN "swap" ELSE "store"
    /\ UNCHANGED <<stream, seen, flag, queue, appVars, overtaken>>

(* ... then peaks_dirty.swap(true), and a wake-up if it was clear.         *)
Swap ==
    /\ pw = "swap"
    /\ flag' = TRUE
    /\ pw' = IF flag THEN "idle" ELSE "send"
    /\ overtaken' = (overtaken \/ (flag /\ app \in {"load", "clear"}))
    /\ UNCHANGED <<stream, seen, at, unread, queue, appVars>>

SendPeaksDirty ==
    /\ pw = "send"
    /\ Send([t |-> "peaks"])
    /\ pw' = "idle"
    /\ UNCHANGED <<stream, seen, at, unread, flag, appVars, overtaken>>

(* An event of an object that is not on the screen; a key that scrolls, or *)
(* hides or shows the node.                                                *)
OtherEvent(e) ==
    /\ Send(e)
    /\ UNCHANGED <<pwVars, at, unread, flag, appVars, overtaken>>

-----------------------------------------------------------------------------
(* The App thread.                                                         *)

(* RenderPacer::is_time_to_render: the clock may say either.               *)
IsTimeToRender == BOOLEAN

(* App::run from the top of the loop: the view is rebuilt, visible_objects *)
(* computed, and a frame drawn if one is needed and due.                   *)
TurnForgetful(due) ==
    LET needed == needsRender \/ (place = "off") # (wanted = "off") IN
    /\ app = "turn"
    /\ viewPeaks' = IF dirty THEN peaks ELSE viewPeaks
    /\ dirty' = FALSE
    /\ place' = wanted
    /\ needsRender' = FALSE
    /\ app' = IF needed /\ due /\ wanted = "metered" THEN "load" ELSE "events"
    /\ overtaken' = IF app' = "load" THEN FALSE ELSE overtaken
    /\ UNCHANGED <<pwVars, at, unread, flag, queue, handled, peaks, wanted, drawn>>

Turn(due) ==
    LET needed == needsRender \/ (place = "off") # (wanted = "off") IN
    /\ app = "turn"
    /\ viewPeaks' = IF dirty THEN peaks ELSE viewPeaks
    /\ dirty' = FALSE
    /\ place' = wanted
    /\ needsRender' = (needed /\ ~due)
    /\ app' = IF needed /\ due /\ wanted = "metered" THEN "load" ELSE "events"
    /\ overtaken' = IF app' = "load" THEN FALSE ELSE overtaken
    /\ UNCHANGED <<pwVars, at, unread, flag, queue, handled, peaks, wanted, drawn>>

(* The rows of the meter, of any channels, or MeterWidget's one: those of  *)
(* the array are loaded ...                                                *)
Load ==
    /\ app = "load"
    /\ unread' = IF viewPeaks = stream THEN unread \ {at.app} ELSE unread
    /\ drawn' = viewPeaks
    /\ at' = [at EXCEPT !.app = (@ % Channels) + 1]
    /\ app' \in IF at.app = Channels THEN {"clear"} ELSE {"load", "clear"}
    /\ UNCHANGED <<pwVars, flag, queue, handled, peaks, viewPeaks, dirty, wanted, place,
                   needsRender, overtaken>>

(* Mutant of Clear: not of a meter drawn empty.                            *)
ClearFilled ==
    /\ app = "clear"
    /\ flag' = (flag /\ viewPeaks = None)
    /\ app' = IF at.app = 1 THEN "events" ELSE "load"
    /\ UNCHANGED <<pwVars, at, unread, queue, handled, peaks, viewPeaks, dirty, wanted,
                   place, needsRender, drawn, overtaken>>

(* ... and the flag is cleared, also for a node without peaks; then comes  *)
(* the next row, if there is one.                                          *)
Clear ==
    /\ app = "clear"
    /\ flag' = FALSE
    /\ app' = IF at.app = 1 THEN "events" ELSE "load"
    /\ UNCHANGED <<pwVars, at, unread, queue, handled, peaks, viewPeaks, dirty, wanted,
                   place, needsRender, drawn, overtaken>>

(* handle_events on one event.  StateEvent::handle assigns state_dirty, and*)
(* asks for a frame if the node is among visible_objects.                  *)
HandleEvent ==
    /\ app = "events" /\ queue # <<>>
    /\ queue' = Tail(queue)
    /\ handled' = TRUE
    /\ \E e \in {Head(queue)} :
        /\ peaks' = CASE e.t = "started" -> e.array
                      [] e.t = "stopped" -> None
                      [] OTHER -> peaks
        /\ dirty' = CASE e.t = "peaks" -> FALSE
                      [] e.t = "key" -> dirty
                      [] OTHER -> TRUE
        /\ wanted' = IF e.t = "key" THEN e.wanted ELSE wanted
        /\ needsRender' = CASE e.t = "key" -> TRUE
                            [] e.t = "other" -> needsRender
                            [] OTHER -> needsRender \/ place # "off"
    /\ UNCHANGED <<pwVars, at, unread, flag, app, viewPeaks, place, drawn, overtaken>>

(* handle_events returns: nothing more to receive, after at least one event*)
(* or, when a frame is pending, the timeout.                               *)
EndBatch ==
    /\ app = "events" /\ queue = <<>>
    /\ handled \/ needsRender
    /\ app' = "turn" /\ handled' = FALSE
    /\ UNCHANGED <<pwVars, at, unread, flag, queue, peaks, viewPeaks, dirty, wanted,
                   place, needsRender, drawn, overtaken>>

PwNext ==
    \/ \E a \in Free : CaptureNode(a) \/ ParamChanged(a)
    \/ StreamStopped
    \/ Process
    \/ Store \/ Swap \/ SendPeaksDirty

Others ==
    \/ OtherEvent([t |-> "other"])
    \/ \E w \in {"off", "suspended", "metered"} : OtherEvent([t |-> "key", wanted |-> w])

AppNext == (\E due \in IsTimeToRender : Turn(due)) \/ Load \/ Clear \/ HandleEvent \/ EndBatch

Next == PwNext \/ Others \/ AppNext

(* A callback runs to its end, the App's loop goes on, a batch ends if its *)
(* queue is found empty again and again, and so the pacer lets frames      *)
(* through.                                                                *)
Fairness ==
    /\ WF_vars(Store \/ Swap)
    /\ SF_vars(SendPeaksDirty)
    /\ WF_vars(AppNext) /\ SF_vars(EndBatch) /\ SF_vars(Turn(TRUE))

Spec == Init /\ [][Next]_vars /\ Fairness

-----------------------------------------------------------------------------
(* Nothing moves by itself.                                                *)
Quiet == pw = "idle" /\ queue = <<>> /\ app = "events" /\ ~handled /\ ~needsRender

(* When all is quiet, a meter drawn from the array of its stream shows what*)
(* the last buffer left there, whatever happened between the two threads,  *)
(* but for a callback that found the flag still set by the meter being     *)
(* drawn: it leaves the wake-up to a frame that has read the peaks already.*)
QuietShowsLast ==
    Quiet /\ stream # None /\ drawn = stream /\ place = "metered" /\ ~overtaken
        => unread = {}

(* The same without the exception.                                         *)
LastPeaksShown ==
    Quiet /\ stream # None /\ drawn = stream /\ place = "metered"
        => unread = {}

(* While buffers keep coming and the meter stays on the screen it keeps    *)
(* being drawn: the flag is never left set with no wake-up on its way,     *)
(* though streams stop and restart and the node was off the screen before. *)
(* (handle_events returns only when it finds the queue empty.)             *)
MeterKeepsUp ==
    []<>(queue = <<>>) /\ []<>(pw = "store")
        /\ <>[](place = "metered" /\ wanted = "metered")
        => []<>(app = "clear")
=============================================================================
