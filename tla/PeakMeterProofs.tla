-------------------------- MODULE PeakMeterProofs ---------------------------
(***************************************************************************)
(* No wake-up of the meter is lost, but in the one window QuietShowsLast   *)
(* states: for any number of channels, arrays and messages in flight.  The *)
(* argument: while the meter is on the screen a set flag means that a      *)
(* wake-up is on its way, so a callback that finds it set may rely on it;  *)
(* and what a drawing misses belongs to a callback that is not done, that  *)
(* has announced it, or that overtook the drawing.                         *)
(***************************************************************************)
EXTENDS PeakMeter, TLAPS

MeterTypeOK ==
    /\ pw \in {"idle", "store", "swap", "send"}
    /\ app \in {"turn", "load", "clear", "events"}
    /\ at \in [pw : 1 .. Channels, app : 1 .. Channels]
    /\ unread \subseteq 1 .. Channels
    /\ flag \in BOOLEAN /\ needsRender \in BOOLEAN /\ overtaken \in BOOLEAN
    /\ \E E : queue \in Seq(E)

InQueue == \E i \in DOMAIN queue : queue[i].t = "peaks"

(* The App will be woken up for what has been stored.                      *)
Announced == pw = "send" \/ InQueue
Pending == pw \in {"store", "swap"} \/ Announced

AtLoop == app \in {"turn", "events"}
OnScreen == place = "metered" /\ ~needsRender

Drawing == app \in {"load", "clear"}

LoadsFromFirst ==
    /\ AtLoop => at.app = 1
    /\ app = "clear" => drawn = viewPeaks
MovesAreDrawn == wanted # place => needsRender
FlagIsAnnounced == AtLoop /\ OnScreen /\ flag => Announced
MissedWhileLoading ==
    Drawing /\ viewPeaks = stream /\ ~overtaken
        => \A c \in unread : c < at.app => Pending
MissedWhileClearing ==
    app = "clear" /\ at.app = 1 /\ drawn = stream /\ ~overtaken /\ unread # {} => Pending
MissedSince ==
    AtLoop /\ OnScreen /\ drawn = stream /\ ~overtaken /\ unread # {} => Pending

MeterInv ==
    /\ MeterTypeOK
    /\ LoadsFromFirst
    /\ MovesAreDrawn
    /\ FlagIsAnnounced
    /\ MissedWhileLoading
    /\ MissedWhileClearing
    /\ MissedSince

-----------------------------------------------------------------------------

(* Sending keeps what is in the queue.                                     *)
LEMMA SendKeeps ==
    ASSUME MeterTypeOK, NEW e, Send(e)
    PROVE  /\ \E E : queue' \in Seq(E)
           /\ InQueue => InQueue'
           /\ e.t = "peaks" => InQueue'
<1>1. PICK E : queue \in Seq(E)
  BY DEF MeterTypeOK
<1>2. queue' = Append(queue, e)
  BY DEF Send
<1>3. queue' \in Seq(E \cup {e}) /\ Len(queue') = Len(queue) + 1
  BY <1>1, <1>2
<1>4. \A i \in DOMAIN queue : i \in DOMAIN queue' /\ queue'[i] = queue[i]
  BY <1>1, <1>2
<1>5. Len(queue') \in DOMAIN queue' /\ queue'[Len(queue')] = e
  BY <1>1, <1>2
<1> QED
  BY <1>3, <1>4, <1>5 DEF InQueue

LEMMA InitOK == Init => MeterInv
<1> SUFFICES ASSUME Init PROVE MeterInv
  OBVIOUS
<1>1. MeterTypeOK
  <2>1. \E E : queue \in Seq(E)
    <3>1. <<>> \in Seq({})
      OBVIOUS
    <3> QED
      BY <3>1 DEF Init
  <2>2. 1 \in 1 .. Channels
    BY MeterAssumption
  <2>3. at \in [pw : 1 .. Channels, app : 1 .. Channels]
    BY <2>2 DEF Init
  <2> QED
    BY <2>1, <2>3 DEF Init, MeterTypeOK
<1> QED
  BY <1>1 DEF Init, MeterInv, LoadsFromFirst, MovesAreDrawn, FlagIsAnnounced,
              MissedWhileLoading, MissedWhileClearing, MissedSince, AtLoop, Drawing, OnScreen

(* A fresh array is neither drawn nor in the view, and nothing of it is    *)
(* unread; a stopped stream leaves nothing unread either.                  *)
LEMMA StreamChanges ==
    ASSUME MeterInv, unread' = {}, pw' = pw, pw = "idle",
           UNCHANGED <<at, flag, appVars, overtaken>>,
           \E E : queue' \in Seq(E), InQueue => InQueue'
    PROVE  MeterInv'
BY DEF MeterInv, MeterTypeOK, LoadsFromFirst, MovesAreDrawn, FlagIsAnnounced,
       MissedWhileLoading, MissedWhileClearing, MissedSince, AtLoop, Drawing, OnScreen,
       Pending, Announced, appVars

LEMMA CaptureNodeOK == ASSUME MeterInv, NEW a, CaptureNode(a) PROVE MeterInv'
BY SendKeeps, StreamChanges DEF CaptureNode, MeterInv

LEMMA ParamChangedOK == ASSUME MeterInv, NEW a, ParamChanged(a) PROVE MeterInv'
BY SendKeeps, StreamChanges DEF ParamChanged, MeterInv

LEMMA StreamStoppedOK == ASSUME MeterInv, StreamStopped PROVE MeterInv'
BY SendKeeps, StreamChanges DEF StreamStopped, MeterInv

LEMMA ProcessOK == ASSUME MeterInv, Process PROVE MeterInv'
BY DEF Process, MeterInv, MeterTypeOK, LoadsFromFirst, MovesAreDrawn, FlagIsAnnounced,
       MissedWhileLoading, MissedWhileClearing, MissedSince, AtLoop, Drawing, OnScreen,
       Pending, Announced, InQueue, appVars

LEMMA StoreOK == ASSUME MeterInv, Store PROVE MeterInv'
<1>1. at'.app = at.app /\ at' \in [pw : 1 .. Channels, app : 1 .. Channels]
  BY MeterAssumption DEF Store, MeterInv, MeterTypeOK
<1>2. pw' \in {"store", "swap"} /\ unread' \subseteq 1 .. Channels
  BY DEF Store, MeterInv, MeterTypeOK
<1> QED
  BY <1>1, <1>2
     DEF Store, MeterInv, MeterTypeOK, LoadsFromFirst, MovesAreDrawn, FlagIsAnnounced,
         MissedWhileLoading, MissedWhileClearing, MissedSince, AtLoop, Drawing, OnScreen,
         Pending, Announced, InQueue, appVars

(* The step that may lose a wake-up: the flag is found set.                *)
LEMMA SwapOK == ASSUME MeterInv, Swap PROVE MeterInv'
<1>1. CASE ~flag
  <2>1. pw' = "send"
    BY <1>1 DEF Swap
  <2> QED
    BY <1>1, <2>1
       DEF Swap, MeterInv, MeterTypeOK, LoadsFromFirst, MovesAreDrawn, FlagIsAnnounced,
           MissedWhileLoading, MissedWhileClearing, MissedSince, Pending, Announced,
           AtLoop, Drawing, OnScreen, appVars
<1>2. CASE flag /\ app \in {"load", "clear"}
  <2>1. overtaken' /\ ~AtLoop'
    BY <1>2 DEF Swap, AtLoop, appVars
  <2> QED
    BY <1>2, <2>1
       DEF Swap, MeterInv, MeterTypeOK, LoadsFromFirst, MovesAreDrawn, FlagIsAnnounced,
           MissedWhileLoading, MissedWhileClearing, MissedSince, AtLoop, appVars
<1>3. CASE flag /\ app \notin {"load", "clear"}
  <2>1. AtLoop /\ app' = app
    BY <1>3 DEF Swap, AtLoop, MeterInv, MeterTypeOK, appVars
  <2>2. OnScreen => InQueue
    BY <1>3, <2>1 DEF Swap, MeterInv, FlagIsAnnounced, Announced
  <2>3. (OnScreen' <=> OnScreen) /\ (InQueue' <=> InQueue)
    BY DEF Swap, OnScreen, InQueue, appVars
  <2> QED
    BY <1>3, <2>1, <2>2, <2>3
       DEF Swap, MeterInv, MeterTypeOK, LoadsFromFirst, MovesAreDrawn, FlagIsAnnounced,
           MissedWhileLoading, MissedWhileClearing, MissedSince, Pending, Announced,
           AtLoop, Drawing, appVars
<1> QED
  BY <1>1, <1>2, <1>3

LEMMA SendPeaksDirtyOK == ASSUME MeterInv, SendPeaksDirty PROVE MeterInv'
<1>1. (\E E : queue' \in Seq(E)) /\ InQueue'
  BY SendKeeps DEF SendPeaksDirty, MeterInv
<1> QED
  BY <1>1
     DEF SendPeaksDirty, MeterInv, MeterTypeOK, LoadsFromFirst, MovesAreDrawn, FlagIsAnnounced,
         MissedWhileLoading, MissedWhileClearing, MissedSince, AtLoop, Drawing, OnScreen,
         Pending, Announced, appVars

LEMMA OtherEventOK == ASSUME MeterInv, NEW e, OtherEvent(e) PROVE MeterInv'
<1>1. (\E E : queue' \in Seq(E)) /\ (InQueue => InQueue')
  BY SendKeeps DEF OtherEvent, MeterInv
<1> QED
  BY <1>1
     DEF OtherEvent, MeterInv, MeterTypeOK, LoadsFromFirst, MovesAreDrawn, FlagIsAnnounced,
         MissedWhileLoading, MissedWhileClearing, MissedSince, AtLoop, Drawing, OnScreen,
         Pending, Announced, pwVars, appVars

LEMMA TurnOK == ASSUME MeterInv, NEW due \in BOOLEAN, Turn(due) PROVE MeterInv'
<1>0. /\ at' = at /\ unread' = unread /\ flag' = flag /\ queue' = queue
      /\ pw' = pw /\ stream' = stream /\ drawn' = drawn /\ wanted' = wanted
      /\ place' = wanted /\ app = "turn"
  BY DEF Turn, pwVars
<1>1. MeterTypeOK' /\ MovesAreDrawn' /\ LoadsFromFirst'
  BY <1>0 DEF Turn, MeterInv, MeterTypeOK, MovesAreDrawn, LoadsFromFirst, AtLoop
<1>2. MissedWhileLoading' /\ MissedWhileClearing'
  <2>1. app' # "clear"
    BY DEF Turn
  <2>2. \A c \in unread : ~(c < at.app)
    BY <1>0 DEF MeterInv, LoadsFromFirst, MeterTypeOK, AtLoop
  <2> QED
    BY <1>0, <2>1, <2>2 DEF MissedWhileLoading, MissedWhileClearing
<1>3. CASE app' = "load"
  BY <1>1, <1>2, <1>3 DEF MeterInv, FlagIsAnnounced, MissedSince, AtLoop
<1>4. CASE app' # "load"
  <2>1. overtaken' = overtaken /\ app' = "events"
    BY <1>4 DEF Turn
  <2>2. OnScreen' => OnScreen
    BY <1>0, <1>4 DEF Turn, OnScreen, MeterInv, MovesAreDrawn, MeterTypeOK
  <2> QED
    BY <1>0, <1>1, <1>2, <2>1, <2>2
       DEF MeterInv, FlagIsAnnounced, MissedSince, AtLoop, Pending, Announced, InQueue
<1> QED
  BY <1>3, <1>4

LEMMA LoadOK == ASSUME MeterInv, Load PROVE MeterInv'
<1>0. /\ pw' = pw /\ stream' = stream /\ queue' = queue /\ overtaken' = overtaken
      /\ viewPeaks' = viewPeaks /\ drawn' = viewPeaks /\ app = "load" /\ flag' = flag
      /\ wanted' = wanted /\ place' = place /\ needsRender' = needsRender
  BY DEF Load, pwVars
<1>1. /\ at.app \in 1 .. Channels /\ Channels \in Nat \ {0}
      /\ unread \in SUBSET (1 .. Channels)
  BY MeterAssumption DEF MeterInv, MeterTypeOK
<1>2. MeterTypeOK' /\ MovesAreDrawn'
  BY <1>0, <1>1 DEF Load, MeterInv, MeterTypeOK, MovesAreDrawn
<1>3. at'.app = (at.app % Channels) + 1
  BY DEF Load, MeterInv, MeterTypeOK
<1>4. ~AtLoop'
  BY DEF Load, AtLoop
<1>5. viewPeaks = stream => unread' = unread \ {at.app}
  BY DEF Load
<1>6. CASE at.app = Channels
  <2>1. app' = "clear" /\ at'.app = 1
    BY <1>1, <1>3, <1>6 DEF Load
  <2>2. viewPeaks = stream => \A c \in unread' : c \in unread /\ c < at.app
    <3> SUFFICES ASSUME viewPeaks = stream, NEW c \in unread'
                 PROVE  c \in unread /\ c < at.app
      OBVIOUS
    <3>1. c \in unread /\ c # at.app
      BY <1>5
    <3>2. c \in 1 .. Channels
      BY <1>1, <3>1
    <3> QED
      BY <1>1, <1>6, <3>1, <3>2
  <2>3. MissedWhileLoading'
    BY <1>0, <2>1, <2>2 DEF MeterInv, MissedWhileLoading, Drawing, Pending, Announced, InQueue
  <2>4. MissedWhileClearing'
    BY <1>0, <2>1, <2>2
       DEF MeterInv, MissedWhileLoading, MissedWhileClearing, Drawing, Pending, Announced, InQueue
  <2> QED
    BY <1>0, <1>2, <1>4, <2>1, <2>3, <2>4
       DEF MeterInv, LoadsFromFirst, FlagIsAnnounced, MissedSince
<1>7. CASE at.app # Channels
  <2>1. app' \in {"load", "clear"} /\ at'.app = at.app + 1 /\ at'.app # 1
    BY <1>1, <1>3, <1>7 DEF Load
  <2>2. viewPeaks = stream =>
            \A c \in unread' : c < at'.app => c \in unread /\ c < at.app
    <3> SUFFICES ASSUME viewPeaks = stream, NEW c \in unread', c < at'.app
                 PROVE  c \in unread /\ c < at.app
      OBVIOUS
    <3>1. c \in unread /\ c # at.app
      BY <1>5
    <3>2. c \in 1 .. Channels
      BY <1>1, <3>1
    <3> QED
      BY <1>1, <2>1, <3>1, <3>2
  <2>3. MissedWhileLoading'
    BY <1>0, <2>1, <2>2 DEF MeterInv, MissedWhileLoading, Drawing, Pending, Announced, InQueue
  <2> QED
    BY <1>0, <1>2, <1>4, <2>1, <2>3
       DEF MeterInv, LoadsFromFirst, FlagIsAnnounced, MissedWhileClearing, MissedSince
<1> QED
  BY <1>6, <1>7

LEMMA ClearOK == ASSUME MeterInv, Clear PROVE MeterInv'
BY DEF Clear, MeterInv, MeterTypeOK, LoadsFromFirst, MovesAreDrawn, FlagIsAnnounced,
       MissedWhileLoading, MissedWhileClearing, MissedSince, AtLoop, Drawing, OnScreen,
       Pending, Announced, InQueue, pwVars

(* A wake-up is used up only by asking for a frame, while on the screen.   *)
LEMMA HandleEventOK == ASSUME MeterInv, HandleEvent PROVE MeterInv'
<1>0. /\ pw' = pw /\ stream' = stream /\ overtaken' = overtaken /\ at' = at
      /\ drawn' = drawn /\ unread' = unread /\ flag' = flag /\ app' = app
      /\ place' = place /\ app = "events"
  BY DEF HandleEvent, pwVars
<1>1. PICK E : queue \in Seq(E)
  BY DEF MeterInv, MeterTypeOK
<1> DEFINE e == Head(queue)
<1>2. queue # <<>> /\ queue' = Tail(queue) /\ queue' \in Seq(E) /\ e = queue[1]
  BY <1>1 DEF HandleEvent
<1>3. /\ wanted' = IF e.t = "key" THEN e.wanted ELSE wanted
      /\ needsRender' = CASE e.t = "key" -> TRUE
                          [] e.t = "other" -> needsRender
                          [] OTHER -> needsRender \/ place # "off"
  BY DEF HandleEvent
<1>4. InQueue => InQueue' \/ e.t = "peaks"
  <2>1. \A i \in DOMAIN queue : i = 1 \/ (i - 1 \in DOMAIN queue' /\ queue'[i - 1] = queue[i])
    BY <1>1, <1>2
  <2> QED
    BY <1>2, <2>1 DEF InQueue
<1> HIDE DEF e
<1>5. needsRender' \in BOOLEAN /\ (needsRender => needsRender')
      /\ (e.t = "peaks" /\ place # "off" => needsRender')
  BY <1>3 DEF MeterInv, MeterTypeOK
<1>6. MeterTypeOK' /\ LoadsFromFirst'
  BY <1>0, <1>2, <1>5 DEF MeterInv, MeterTypeOK, LoadsFromFirst, AtLoop
<1>7. MovesAreDrawn'
  BY <1>0, <1>3, <1>5 DEF MeterInv, MovesAreDrawn
<1>8. OnScreen' => OnScreen /\ e.t # "peaks"
  BY <1>0, <1>5 DEF OnScreen
<1> QED
  BY <1>0, <1>4, <1>6, <1>7, <1>8
     DEF MeterInv, FlagIsAnnounced, MissedWhileLoading, MissedWhileClearing, MissedSince,
         AtLoop, Drawing, Pending, Announced

LEMMA EndBatchOK == ASSUME MeterInv, EndBatch PROVE MeterInv'
BY DEF EndBatch, MeterInv, MeterTypeOK, LoadsFromFirst, MovesAreDrawn, FlagIsAnnounced,
       MissedWhileLoading, MissedWhileClearing, MissedSince, AtLoop, Drawing, OnScreen,
       Pending, Announced, InQueue, pwVars

LEMMA StepOK == MeterInv /\ [Next]_vars => MeterInv'
<1> SUFFICES ASSUME MeterInv, [Next]_vars PROVE MeterInv'
  OBVIOUS
<1>1. CASE UNCHANGED vars
  BY <1>1
     DEF vars, pwVars, appVars, MeterInv, MeterTypeOK, LoadsFromFirst, MovesAreDrawn,
         FlagIsAnnounced, MissedWhileLoading, MissedWhileClearing, MissedSince, AtLoop,
         Drawing, OnScreen, Pending, Announced, InQueue
<1>2. CASE PwNext
  BY <1>2, CaptureNodeOK, ParamChangedOK, StreamStoppedOK, ProcessOK, StoreOK, SwapOK,
     SendPeaksDirtyOK DEF PwNext
<1>3. CASE Others
  BY <1>3, OtherEventOK DEF Others
<1>4. CASE AppNext
  BY <1>4, TurnOK, LoadOK, ClearOK, HandleEventOK, EndBatchOK DEF AppNext, IsTimeToRender
<1> QED
  BY <1>1, <1>2, <1>3, <1>4 DEF Next

(* The invariant behind the hand-over of peaks from callback to meter.     *)
THEOREM MeterInductive == Spec => []MeterInv
BY InitOK, StepOK, PTL DEF Spec

(* A meter drawn from the array of its stream shows the last buffer when   *)
(* all is quiet, unless a callback overtook its drawing.                   *)
THEOREM NoWakeUpLost == Spec => []QuietShowsLast
<1>1. MeterInv => QuietShowsLast
  <2> SUFFICES ASSUME MeterInv, Quiet, drawn = stream, place = "metered", ~overtaken
               PROVE  unread = {}
    BY DEF QuietShowsLast
  <2>1. ~Pending
    BY DEF Quiet, Pending, Announced, InQueue
  <2> QED
    BY <2>1 DEF MeterInv, MissedSince, AtLoop, Drawing, OnScreen, Quiet
<1> QED
  BY <1>1, MeterInductive, PTL
=============================================================================
