--------------------------- MODULE CaptureProofs ---------------------------
(***************************************************************************)
(* Safety of the capture manager for every set of nodes, links and names,  *)
(* every configuration and every hide file.  The inductive invariant IInv  *)
(* joins the type invariant to the facts the handlers rely on together:    *)
(* captures are eligible live nodes within both caps, on screen under lazy *)
(* capture and never hidden for this instance, and nothing is eligible     *)
(* when peaks are off.                                                     *)
(***************************************************************************)
EXTENDS Capture, FiniteSetTheorems, TLAPS

WithinCaps(c) ==
    /\ MaxCaptures # None => Cardinality(c) <= MaxCaptures
    /\ MaxGlobal # None => Cardinality(c) <= MaxGlobal

(* With peaks off set_capture_eligibility returns early, also for an       *)
(* Ineligible; that is harmless because nothing was eligible.              *)
IdleWithoutPeaks == ~PeaksOn => capturable = {}

IInv ==
    /\ TypeOK
    /\ CapturesAreEligible
    /\ IdleWithoutPeaks
    /\ WithinCaps(capturing)
    /\ HiddenInstanceNotCaptured
    /\ LazyCapturesVisible

-----------------------------------------------------------------------------
(* A set of starts that the caps admit keeps running captures within them. *)
LEMMA AdmitWithinCaps ==
    ASSUME NEW cur \in SUBSET NodeId, NEW wanted \in SUBSET NodeId, NEW g,
           WithinCaps(cur), NEW S \in Admit(cur, wanted, g)
    PROVE  WithinCaps(cur \cup S)
<1> DEFINE n == Cardinality(cur \cup S)
<1>1. n \in Nat
  BY FS_Subset, FS_CardinalityType, NodeIdAssumption DEF Admit
<1>2. CASE S = {}
  BY <1>2
<1>3. CASE S # {}
  <2>1. ~AtCap(n - 1, g)
    BY <1>3 DEF Admit
  <2> QED
    BY <1>1, <2>1, ConfigAssumption DEF AtCap, WithinCaps
<1> QED
  BY <1>2, <1>3

(* Stopping captures keeps the rest within the caps. *)
LEMMA FewerWithinCaps ==
    ASSUME NEW c \in SUBSET NodeId, NEW d \in SUBSET c, WithinCaps(c)
    PROVE  WithinCaps(d)
<1>1. IsFiniteSet(c)
  BY FS_Subset, NodeIdAssumption
<1>2. /\ Cardinality(d) \in Nat /\ Cardinality(c) \in Nat
      /\ Cardinality(d) <= Cardinality(c)
  BY <1>1, FS_Subset, FS_CardinalityType
<1> QED
  BY <1>2, ConfigAssumption DEF WithinCaps

-----------------------------------------------------------------------------
Commands == [stop : SUBSET NodeId, start : SUBSET NodeId]

CapturesType == capturing \in SUBSET NodeId /\ issued \in Commands

(* The four ways a handler ends leave well-typed captures and commands.    *)
LEMMA KeepCapturesType ==
    ASSUME TypeOK, KeepCaptures
    PROVE  CapturesType'
BY DEF TypeOK, KeepCaptures, NoCommands, CapturesType, Commands

LEMMA StopCaptureType ==
    ASSUME TypeOK, NEW id \in NodeId, StopCapture(id)
    PROVE  CapturesType'
BY DEF TypeOK, StopCapture, CapturesType, Commands

LEMMA StopThenStartType ==
    ASSUME TypeOK, NEW stopped \in SUBSET NodeId,
           NEW candidates \in SUBSET NodeId, StopThenStart(stopped, candidates)
    PROVE  CapturesType'
BY DEF TypeOK, StopThenStart, Admit, CapturesType, Commands

LEMMA StartCaptureType ==
    ASSUME TypeOK, NEW id \in NodeId, StartCapture(id)
    PROVE  CapturesType'
<1>1. CASE id \in capturing
  BY <1>1 DEF TypeOK, StartCapture, CapturesType, Commands
<1>2. CASE id \notin capturing
  BY <1>2, StopThenStartType DEF StartCapture
<1> QED
  BY <1>1, <1>2

LEMMA SetCaptureEligibilityType ==
    ASSUME TypeOK, NEW e, NEW id \in NodeId, SetCaptureEligibility(e, id)
    PROVE  CapturesType' /\ capturable' \in SUBSET NodeId
BY KeepCapturesType, StopCaptureType, StartCaptureType
   DEF TypeOK, SetCaptureEligibility

(* Every action leaves the state well typed. *)
LEMMA TypeInit == Init => TypeOK
<1> SUFFICES ASSUME Init PROVE TypeOK
  OBVIOUS
<1>1. StateTypeOK
  BY DEF Init, StateInit, StateTypeOK, DefaultNode, Node
<1>2. matchers \subseteq Name
  BY BoundsAssumption DEF Init
<1>3. ready \in BOOLEAN /\ stateDirty \in BOOLEAN
  BY DEF Init
<1>4. rotationStart \in Nat /\ framesSince \in 0 .. ROTATION_FRAME_INTERVAL
  BY DEF Init, ROTATION_FRAME_INTERVAL
<1>5. issued \in [stop : SUBSET NodeId, start : SUBSET NodeId]
  BY DEF Init, NoCommands
<1> QED
  BY <1>1, <1>2, <1>3, <1>4, <1>5 DEF Init, TypeOK

LEMMA TypeNodeProperties ==
    ASSUME StateTypeOK, NEW id \in NodeId, NEW p \in PropsOf[id],
           UpdateNodeProperties(id, p)
    PROVE  StateTypeOK'
<1>1. p \in Props
  BY PropsAssumption
<1> DEFINE n == [class |-> p.class, name |-> p.name, serial |-> p.serial,
                 positions |-> node[id].positions]
<1>2. n \in Node
  BY <1>1 DEF StateTypeOK, Node, Props
<1> QED
  BY <1>2 DEF UpdateNodeProperties, StateTypeOK

LEMMA TypeNodePositions ==
    ASSUME StateTypeOK, NEW id \in NodeId, NEW layout \in Layout,
           UpdateNodePositions(id, layout)
    PROVE  StateTypeOK'
<1> DEFINE n == [class |-> node[id].class, name |-> node[id].name,
                 serial |-> node[id].serial, positions |-> layout]
<1>1. n \in Node
  BY DEF StateTypeOK, Node
<1> QED
  BY <1>1 DEF UpdateNodePositions, StateTypeOK

LEMMA TypeStateEvent ==
    ASSUME TypeOK, NEW dirty \in BOOLEAN, NEW affected, HandleStateEvent(dirty, affected),
           StateTypeOK', CapturesType', capturable' \in SUBSET NodeId
    PROVE  TypeOK'
BY DEF TypeOK, HandleStateEvent, hideVars, rotationVars, CapturesType, Commands

LEMMA TypeHide ==
    ASSUME TypeOK, stateVars' = stateVars, UNCHANGED <<ready, phase, view, visible>>,
           stateDirty' = TRUE, needsRender' = TRUE, hiddenInstance' \in SUBSET NodeId,
           matchers' \in SUBSET Name, hiddenPermanent' \in SUBSET NodeId,
           capturable' = capturable, rotationVars' = rotationVars, CapturesType'
    PROVE  TypeOK'
BY DEF TypeOK, StateTypeOK, stateVars, rotationVars, CapturesType, Commands

LEMMA TypeStateEventNext == TypeOK /\ StateEventNext => TypeOK'
<1> SUFFICES ASSUME TypeOK, StateEventNext PROVE TypeOK'
  OBVIOUS
<1> USE DEF stateVars
<1>0. StateTypeOK
  BY DEF TypeOK
<1>1. ASSUME NEW id \in NodeId, NEW p \in PropsOf[id], NodeProperties(id, p)
      PROVE  TypeOK'
  BY <1>0, <1>1, TypeNodeProperties, TypeStateEvent, SetCaptureEligibilityType
     DEF NodeProperties
<1>2. ASSUME NEW id \in NodeId, NEW layout \in Layout, NodePositions(id, layout)
      PROVE  TypeOK'
  BY <1>0, <1>2, TypeNodePositions, TypeStateEvent, SetCaptureEligibilityType
     DEF NodePositions
<1>3. ASSUME NEW id \in NodeId, StreamStarted(id) PROVE TypeOK'
  <2>1. StateTypeOK'
    BY <1>0, <1>3 DEF StreamStarted, UpdateStreamStarted, StateTypeOK
  <2>2. CapturesType' /\ capturable' \in SUBSET NodeId
    BY <1>3, KeepCapturesType DEF StreamStarted, TypeOK
  <2> QED
    BY <1>3, <2>1, <2>2, TypeStateEvent DEF StreamStarted
<1>4. ASSUME NEW id \in NodeId, PeaksDirty(id) PROVE TypeOK'
  <2>1. StateTypeOK'
    BY <1>0, <1>4 DEF PeaksDirty, StateTypeOK
  <2>2. CapturesType' /\ capturable' \in SUBSET NodeId
    BY <1>4, KeepCapturesType DEF PeaksDirty, TypeOK
  <2> QED
    BY <1>4, <2>1, <2>2, TypeStateEvent DEF PeaksDirty
<1>5. ASSUME NEW l \in LinkId, NEW out \in NodeId, NEW in \in NodeId, LinkAdded(l, out, in)
      PROVE  TypeOK'
  <2>1. StateTypeOK'
    BY <1>0, <1>5 DEF LinkAdded, UpdateLink, StateTypeOK, Link
  <2> QED
    BY <1>5, <2>1, TypeStateEvent, SetCaptureEligibilityType DEF LinkAdded
<1>6. ASSUME NEW k \in links, LinkRemoved(k) PROVE TypeOK'
  <2>1. StateTypeOK'
    BY <1>0, <1>6 DEF LinkRemoved, UpdateLinkRemoved, StateTypeOK
  <2>2. k.input \in NodeId
    BY <1>0 DEF StateTypeOK, Link
  <2> QED
    BY <1>6, <2>1, <2>2, TypeStateEvent, SetCaptureEligibilityType DEF LinkRemoved
<1>7. ASSUME NEW id \in NodeId, NodeRemoved(id) PROVE TypeOK'
  <2>1. DefaultNode \in Node
    BY DEF DefaultNode, Node
  <2>2. StateTypeOK'
    BY <1>0, <1>7, <2>1 DEF NodeRemoved, UpdateNodeRemoved, StateTypeOK
  <2> QED
    BY <1>7, <2>2, TypeStateEvent, SetCaptureEligibilityType DEF NodeRemoved
<1>8. ASSUME NEW affected \in SUBSET NodeId, OtherStateEvent(affected) PROVE TypeOK'
  <2>1. StateTypeOK'
    BY <1>0, <1>8 DEF OtherStateEvent, StateTypeOK
  <2>2. CapturesType' /\ capturable' \in SUBSET NodeId
    BY <1>8, KeepCapturesType DEF OtherStateEvent, TypeOK
  <2> QED
    BY <1>8, <2>1, <2>2, TypeStateEvent DEF OtherStateEvent
<1> QED
  BY <1>1, <1>2, <1>3, <1>4, <1>5, <1>6, <1>7, <1>8 DEF StateEventNext

LEMMA TypeHideNext == TypeOK /\ HideNext => TypeOK'
<1> SUFFICES ASSUME TypeOK, HideNext PROVE TypeOK'
  OBVIOUS
<1>0. /\ nodes \in SUBSET NodeId /\ hiddenInstance \in SUBSET NodeId
      /\ hiddenPermanent \in SUBSET NodeId /\ matchers \in SUBSET Name
      /\ capturable \in SUBSET NodeId /\ capturing \in SUBSET NodeId
      /\ node \in [NodeId -> Node]
  BY DEF TypeOK, StateTypeOK
<1>1. ASSUME NEW id \in NodeId, HideInstance(id) PROVE TypeOK'
  <2>1. CapturesType'
    BY <1>1, KeepCapturesType, StopCaptureType DEF HideInstance
  <2> QED
    BY <1>0, <1>1, <2>1, TypeHide DEF HideInstance, stateVars, rotationVars
<1>2. ASSUME NEW id \in NodeId, UnhideInstance(id) PROVE TypeOK'
  <2>1. CapturesType'
    BY <1>2, KeepCapturesType, StartCaptureType DEF UnhideInstance
  <2> QED
    BY <1>0, <1>2, <2>1, TypeHide DEF UnhideInstance, stateVars, rotationVars
<1>3. ASSUME NEW id \in NodeId, ToggleHiddenPermanent(id) PROVE TypeOK'
  <2>1. CapturesType'
    BY <1>3, KeepCapturesType, StopCaptureType, StartCaptureType, ConfigAssumption
       DEF ToggleHiddenPermanent
  <2>2. hiddenPermanent' \in SUBSET NodeId
    BY <1>0, <1>3 DEF ToggleHiddenPermanent, HiddenNow, stateVars
  <2>3. matchers' \in SUBSET Name
    <3>1. node[id].name \in Name \cup {None}
      BY <1>0 DEF Node
    <3>2. CASE id \in hiddenPermanent
      BY <1>0, <1>3, <3>2 DEF ToggleHiddenPermanent
    <3>3. CASE id \notin hiddenPermanent
      BY <1>0, <1>3, <3>1, <3>3 DEF ToggleHiddenPermanent
    <3> QED
      BY <3>2, <3>3
  <2> QED
    BY <1>0, <1>3, <2>1, <2>2, <2>3, TypeHide
       DEF ToggleHiddenPermanent, stateVars, rotationVars
<1>4. ASSUME NEW ms \in HideFiles, HiddenFileChanged(ms) PROVE TypeOK'
  <2>1. hiddenPermanent' \in SUBSET NodeId
    BY <1>0, <1>4 DEF HiddenFileChanged, HiddenNow, stateVars
  <2>2. (IF CaptureHidden THEN {} ELSE capturing \cap hiddenPermanent') \in SUBSET NodeId
    BY <1>0
  <2>3. CapturesType'
    BY <1>0, <1>4, <2>2, StopThenStartType DEF HiddenFileChanged
  <2>4. ms \in SUBSET Name
    BY BoundsAssumption
  <2> QED
    BY <1>0, <1>4, <2>1, <2>3, <2>4, TypeHide
       DEF HiddenFileChanged, stateVars, rotationVars
<1> QED
  BY <1>1, <1>2, <1>3, <1>4 DEF HideNext

LEMMA TypeLoopNext == TypeOK /\ LoopNext => TypeOK'
<1> SUFFICES ASSUME TypeOK, LoopNext PROVE TypeOK'
  OBVIOUS
<1>0. /\ capturing \in SUBSET NodeId /\ capturable \in SUBSET NodeId
      /\ visible \in SUBSET NodeId /\ nodes \in SUBSET NodeId
      /\ view \in SUBSET NodeId /\ rotationStart \in Nat
      /\ hiddenPermanent \in SUBSET NodeId
      /\ framesSince \in 0 .. ROTATION_FRAME_INTERVAL
  BY DEF TypeOK, StateTypeOK
<1>1. ASSUME NEW v \in Screens, NEW changed \in BOOLEAN, Refresh(v, changed)
      PROVE  TypeOK'
  <2>1. view' \in SUBSET NodeId
    BY <1>0, <1>1 DEF Refresh, ViewNow
  <2>2. hiddenPermanent' \in SUBSET NodeId
    BY <1>0, <1>1 DEF Refresh, HiddenNow
  <2>3. visible' \in SUBSET NodeId
    BY <1>1, BoundsAssumption DEF Refresh
  <2>4. UpdateCapturing => CapturesType'
    BY <1>0, <2>3 DEF UpdateCapturing, Admit, CapturesType, Commands
  <2>5. CapturesType'
    BY <1>1, <2>4, KeepCapturesType DEF Refresh
  <2> QED
    BY <1>1, <2>1, <2>2, <2>3, <2>5
       DEF Refresh, TypeOK, StateTypeOK, stateVars, rotationVars, CapturesType, Commands
<1>2. CASE RenderFrame
  <2>1. FrameCount \in 0 .. ROTATION_FRAME_INTERVAL
    BY <1>0 DEF FrameCount, ROTATION_FRAME_INTERVAL
  <2>2. Rotatable \in SUBSET NodeId
    BY <1>0 DEF Rotatable
  <2>3. CASE Rotating /\ RotateCapturing
    <3> DEFINE n == Cardinality(Rotatable)
               w == Window(Rotatable, rotationStart % n)
    <3>1. n \in Nat /\ n > 0
      <4>1. n \in Nat
        BY <2>2, NodeIdAssumption, FS_Subset, FS_CardinalityType
      <4> QED
        BY <2>3, <4>1, ConfigAssumption DEF Rotating
    <3>2. capturing \ w \in SUBSET NodeId /\ w \in SUBSET NodeId
      BY <1>0, <2>2 DEF Window
    <3>3. CapturesType'
      BY <2>3, <3>2, StopThenStartType DEF RotateCapturing
    <3>4. rotationStart' \in Nat
      <4>1. rotationStart % n \in Nat
        BY <1>0, <3>1
      <4>2. rotationStart' = ((rotationStart % n) + 1) % n
        BY <2>3 DEF RotateCapturing
      <4> HIDE DEF n
      <4> QED
        BY <3>1, <4>1, <4>2
    <3>5. framesSince' \in 0 .. ROTATION_FRAME_INTERVAL
      BY <2>3 DEF RotateCapturing, ROTATION_FRAME_INTERVAL
    <3> QED
      BY <1>2, <3>3, <3>4, <3>5
         DEF RenderFrame, TypeOK, StateTypeOK, stateVars, hideVars, CapturesType, Commands
  <2>4. CASE KeepCaptures /\ UNCHANGED rotationStart /\
             framesSince' = (IF MaxCaptures = None THEN framesSince ELSE FrameCount)
    <3>1. CapturesType'
      BY <2>4, KeepCapturesType
    <3> QED
      BY <1>0, <1>2, <2>1, <2>4, <3>1
         DEF RenderFrame, TypeOK, StateTypeOK, stateVars, hideVars, CapturesType, Commands
  <2> QED
    BY <1>2, <2>3, <2>4 DEF RenderFrame
<1>3. CASE SkipFrame
  BY <1>3, KeepCapturesType
     DEF SkipFrame, TypeOK, StateTypeOK, stateVars, hideVars, rotationVars,
         CapturesType, Commands
<1>4. CASE AskForFrame
  BY <1>4, KeepCapturesType
     DEF AskForFrame, TypeOK, StateTypeOK, stateVars, hideVars, rotationVars,
         CapturesType, Commands
<1> QED
  BY <1>1, <1>2, <1>3, <1>4 DEF LoopNext

LEMMA TypeNext == TypeOK /\ [Next]_vars => TypeOK'
<1> SUFFICES ASSUME TypeOK, [Next]_vars PROVE TypeOK'
  OBVIOUS
<1>1. CASE Ready
  BY <1>1, KeepCapturesType
     DEF Ready, TypeOK, StateTypeOK, stateVars, hideVars, rotationVars,
         CapturesType, Commands
<1>2. CASE UNCHANGED vars
  BY <1>2 DEF TypeOK, StateTypeOK, vars, stateVars, loopVars, hideVars,
              captureVars, rotationVars
<1> QED
  BY <1>1, <1>2, TypeStateEventNext, TypeHideNext, TypeLoopNext DEF Next

(* Types are kept for every instance: the mirror of the graph, the capture *)
(* sets and the commands sent stay within the node ids the server gave,    *)
(* and the rotation's position and frame counter within their ranges.      *)
THEOREM TypeCorrect == Spec => []TypeOK
<1> QED
  BY TypeInit, TypeNext, PTL DEF Spec

-----------------------------------------------------------------------------
(* What a set of captures must satisfy apart from the caps, and the parts  *)
(* of IInv that are about captures.                                        *)
Allowed(c) ==
    /\ c \subseteq capturable \cap nodes
    /\ ~CaptureHidden => c \cap hiddenInstance = {}
    /\ Lazy => c \subseteq visible

CapturesOK == IdleWithoutPeaks /\ Allowed(capturing) /\ WithinCaps(capturing)

LEMMA IInvParts == IInv <=> TypeOK /\ CapturesOK
BY DEF IInv, CapturesOK, Allowed, CapturesAreEligible, HiddenInstanceNotCaptured,
       LazyCapturesVisible

(* start_capture accepts only nodes that may be captured. *)
LEMMA StartsAllowed ==
    ASSUME NEW kept, NEW S, Allowed(kept)', S \subseteq capturable',
           \A id \in S : CanStart(id)'
    PROVE  Allowed(kept \cup S)'
BY DEF Allowed, CanStart

(* A handler that stops captures and then starts others. *)
LEMMA StopThenStartOK ==
    ASSUME TypeOK, WithinCaps(capturing), NEW stopped \in SUBSET NodeId,
           NEW candidates \in SUBSET NodeId, StopThenStart(stopped, candidates),
           candidates \subseteq capturable',
           NEW kept, kept = capturing \ stopped, Allowed(kept)'
    PROVE  Allowed(capturing)' /\ WithinCaps(capturing)'
<1>0. kept \in SUBSET NodeId /\ capturing \in SUBSET NodeId /\ kept \in SUBSET capturing
  BY DEF TypeOK
<1> DEFINE wanted == {id \in candidates \ kept : CanStart(id)'}
<1>1. PICK S \in Admit(kept, wanted, GlobalCaptureCount') : capturing' = kept \cup S
  BY DEF StopThenStart
<1>2. S \subseteq wanted
  BY DEF Admit
<1>3. WithinCaps(kept)
  BY <1>0, FewerWithinCaps
<1>4. WithinCaps(kept \cup S)
  BY <1>0, <1>1, <1>3, AdmitWithinCaps
<1>5. WithinCaps(capturing)'
  BY <1>1, <1>4 DEF WithinCaps
<1>6. S \subseteq capturable' /\ \A id \in S : CanStart(id)'
  BY <1>2
<1>7. Allowed(kept \cup S)'
  BY <1>6, StartsAllowed
<1>8. Allowed(capturing)'
  BY <1>1, <1>7 DEF Allowed
<1> QED
  BY <1>5, <1>8

LEMMA KeepCapturesOK ==
    ASSUME WithinCaps(capturing), KeepCaptures, NEW kept, kept = capturing, Allowed(kept)'
    PROVE  Allowed(capturing)' /\ WithinCaps(capturing)'
BY DEF KeepCaptures, Allowed, WithinCaps

LEMMA StopCaptureOK ==
    ASSUME TypeOK, WithinCaps(capturing), NEW id, StopCapture(id),
           NEW kept, kept = capturing \ {id}, Allowed(kept)'
    PROVE  Allowed(capturing)' /\ WithinCaps(capturing)'
<1>1. WithinCaps(kept)
  BY FewerWithinCaps DEF TypeOK
<1> QED
  BY <1>1 DEF StopCapture, Allowed, WithinCaps

LEMMA StartCaptureOK ==
    ASSUME TypeOK, WithinCaps(capturing), NEW id \in NodeId, StartCapture(id),
           id \in capturable', NEW kept, kept = capturing, Allowed(kept)'
    PROVE  Allowed(capturing)' /\ WithinCaps(capturing)'
<1>1. CASE id \in capturing
  BY <1>1 DEF StartCapture, Allowed, WithinCaps
<1>2. CASE id \notin capturing
  <2>1. kept = capturing \ {} /\ {id} \in SUBSET NodeId /\ {id} \subseteq capturable'
    OBVIOUS
  <2>2. StopThenStart({}, {id})
    BY <1>2 DEF StartCapture
  <2> QED
    BY <2>1, <2>2, StopThenStartOK
<1> QED
  BY <1>1, <1>2

(* A state event about node id, which alone can make id disappear. *)
LEMMA StateEventOK ==
    ASSUME TypeOK, CapturesOK, NEW id \in NodeId, NEW e,
           SetCaptureEligibility(e, id),
           UNCHANGED <<visible, hiddenInstance>>,
           \A i \in nodes \ {id} : i \in nodes',
           id \in nodes \ nodes' => e = "Ineligible",
           e \in {"Unchanged", "Eligible", "NeedsRestart", "Ineligible"}
    PROVE  CapturesOK'
<1>0. Allowed(capturing) /\ WithinCaps(capturing) /\ IdleWithoutPeaks
  BY DEF CapturesOK
<1>1. CASE ~PeaksOn
  <2>1. capturing = {} /\ capturable = {} /\ KeepCaptures /\ capturable' = capturable
    BY <1>0, <1>1 DEF SetCaptureEligibility, IdleWithoutPeaks, Allowed
  <2> QED
    BY <1>0, <2>1 DEF KeepCaptures, CapturesOK, Allowed, WithinCaps, IdleWithoutPeaks
<1>2. CASE PeaksOn /\ e = "Unchanged"
  <2>1. KeepCaptures /\ capturable' = capturable
    BY <1>2 DEF SetCaptureEligibility
  <2> QED
    BY <1>0, <1>2, <2>1 DEF KeepCaptures, CapturesOK, Allowed, WithinCaps, IdleWithoutPeaks
<1>3. CASE PeaksOn /\ e \in {"Eligible", "NeedsRestart"}
  <2>1. /\ capturable' = capturable \cup {id}
        /\ KeepCaptures \/ StartCapture(id)
    BY <1>3 DEF SetCaptureEligibility
  <2>2. \A kept : kept = capturing => Allowed(kept)'
    BY <1>0, <1>3, <2>1 DEF Allowed
  <2>3. Allowed(capturing)' /\ WithinCaps(capturing)'
    BY <1>0, <2>1, <2>2, KeepCapturesOK, StartCaptureOK
  <2> QED
    BY <1>3, <2>3 DEF CapturesOK, IdleWithoutPeaks
<1>4. CASE PeaksOn /\ e = "Ineligible"
  <2>1. capturable' = capturable \ {id} /\ StopCapture(id)
    BY <1>4 DEF SetCaptureEligibility
  <2>2. \A kept : kept = capturing \ {id} => Allowed(kept)'
    BY <1>0, <2>1 DEF Allowed
  <2>3. Allowed(capturing)' /\ WithinCaps(capturing)'
    BY <1>0, <2>1, <2>2, StopCaptureOK
  <2> QED
    BY <1>4, <2>3 DEF CapturesOK, IdleWithoutPeaks
<1> QED
  BY <1>1, <1>2, <1>3, <1>4

LEMMA CapturesStateEvent == TypeOK /\ CapturesOK /\ StateEventNext => CapturesOK'
<1> SUFFICES ASSUME TypeOK, CapturesOK, StateEventNext PROVE CapturesOK'
  OBVIOUS
<1> DEFINE Eligibility == {"Unchanged", "Eligible", "NeedsRestart", "Ineligible"}
<1>1. ASSUME NEW id \in NodeId, NEW p \in PropsOf[id], NodeProperties(id, p)
      PROVE  CapturesOK'
  <2>1. OnNode(node[id])' \in Eligibility
    BY DEF OnNode
  <2> QED
    BY <1>1, <2>1, StateEventOK
       DEF NodeProperties, HandleStateEvent, UpdateNodeProperties, hideVars
<1>2. ASSUME NEW id \in NodeId, NEW layout \in Layout, NodePositions(id, layout)
      PROVE  CapturesOK'
  <2>1. PositionsEligibility(id, layout) \in Eligibility
    BY DEF PositionsEligibility
  <2> QED
    BY <1>2, <2>1, StateEventOK
       DEF NodePositions, HandleStateEvent, UpdateNodePositions, hideVars
<1>3. ASSUME nodes \subseteq nodes', UNCHANGED <<capturable, visible, hiddenInstance>>,
             KeepCaptures
      PROVE  CapturesOK'
  BY <1>3 DEF KeepCaptures, CapturesOK, Allowed, WithinCaps, IdleWithoutPeaks
<1>4. ASSUME NEW id \in NodeId, StreamStarted(id) PROVE CapturesOK'
  BY <1>3, <1>4 DEF StreamStarted, HandleStateEvent, UpdateStreamStarted, hideVars
<1>5. ASSUME NEW id \in NodeId, PeaksDirty(id) PROVE CapturesOK'
  BY <1>3, <1>5 DEF PeaksDirty, HandleStateEvent, stateVars, hideVars
<1>6. ASSUME NEW l \in LinkId, NEW out \in NodeId, NEW in \in NodeId, LinkAdded(l, out, in)
      PROVE  CapturesOK'
  <2>1. LinkEligibility(out, in) \in Eligibility
    BY DEF LinkEligibility, OnLink
  <2> QED
    BY <1>6, <2>1, StateEventOK DEF LinkAdded, HandleStateEvent, UpdateLink, hideVars
<1>7. ASSUME NEW k \in links, LinkRemoved(k) PROVE CapturesOK'
  <2>1. LinkRemovedEligibility(k) \in Eligibility
    BY DEF LinkRemovedEligibility
  <2>2. k.input \in NodeId
    BY DEF TypeOK, StateTypeOK, Link
  <2> QED
    BY <1>7, <2>1, <2>2, StateEventOK
       DEF LinkRemoved, HandleStateEvent, UpdateLinkRemoved, hideVars
<1>8. ASSUME NEW id \in NodeId, NodeRemoved(id) PROVE CapturesOK'
  <2>1. /\ NodeRemovedEligibility(id) \in Eligibility
        /\ id \in nodes => NodeRemovedEligibility(id) = "Ineligible"
    BY DEF NodeRemovedEligibility
  <2> QED
    BY <1>8, <2>1, StateEventOK
       DEF NodeRemoved, HandleStateEvent, UpdateNodeRemoved, hideVars
<1>9. ASSUME NEW affected \in SUBSET NodeId, OtherStateEvent(affected) PROVE CapturesOK'
  BY <1>3, <1>9 DEF OtherStateEvent, HandleStateEvent, stateVars, hideVars
<1> QED
  BY <1>1, <1>2, <1>4, <1>5, <1>6, <1>7, <1>8, <1>9 DEF StateEventNext

LEMMA CapturesHide == TypeOK /\ CapturesOK /\ HideNext => CapturesOK'
<1> SUFFICES ASSUME TypeOK, CapturesOK, HideNext PROVE CapturesOK'
  OBVIOUS
<1>0. Allowed(capturing) /\ WithinCaps(capturing) /\ IdleWithoutPeaks
  BY DEF CapturesOK
<1>1. ASSUME capturable' = capturable, Allowed(capturing)' /\ WithinCaps(capturing)'
      PROVE  CapturesOK'
  BY <1>0, <1>1 DEF CapturesOK, IdleWithoutPeaks
<1>2. ASSUME NEW id \in NodeId, HideInstance(id) PROVE CapturesOK'
  <2>1. CASE CaptureHidden
    <3>1. \A kept : kept = capturing => Allowed(kept)'
      BY <1>0, <1>2, <2>1 DEF Allowed, HideInstance, stateVars
    <3> QED
      BY <1>0, <1>1, <1>2, <2>1, <3>1, KeepCapturesOK DEF HideInstance
  <2>2. CASE ~CaptureHidden
    <3>1. \A kept : kept = capturing \ {id} => Allowed(kept)'
      BY <1>0, <1>2, <2>2 DEF Allowed, HideInstance, stateVars
    <3> QED
      BY <1>0, <1>1, <1>2, <2>2, <3>1, StopCaptureOK DEF HideInstance
  <2> QED
    BY <2>1, <2>2
<1>3. ASSUME NEW id \in NodeId, UnhideInstance(id) PROVE CapturesOK'
  <2>1. \A kept : kept = capturing => Allowed(kept)'
    BY <1>0, <1>3 DEF Allowed, UnhideInstance, stateVars
  <2>2. KeepCaptures \/ (StartCapture(id) /\ id \in capturable')
    BY <1>3 DEF UnhideInstance
  <2> QED
    BY <1>0, <1>1, <1>3, <2>1, <2>2, KeepCapturesOK, StartCaptureOK DEF UnhideInstance
<1>4. ASSUME NEW id \in NodeId, ToggleHiddenPermanent(id) PROVE CapturesOK'
  <2>1. \A kept : kept = capturing => Allowed(kept)'
    BY <1>0, <1>4 DEF Allowed, ToggleHiddenPermanent, stateVars
  <2>2. \A kept : kept = capturing \ {id} => Allowed(kept)'
    BY <1>0, <1>4 DEF Allowed, ToggleHiddenPermanent, stateVars
  <2>3. KeepCaptures \/ StopCapture(id) \/ (StartCapture(id) /\ id \in capturable')
    BY <1>4, ConfigAssumption DEF ToggleHiddenPermanent
  <2> QED
    BY <1>0, <1>1, <1>4, <2>1, <2>2, <2>3, KeepCapturesOK, StopCaptureOK, StartCaptureOK
       DEF ToggleHiddenPermanent
<1>5. ASSUME NEW ms \in HideFiles, HiddenFileChanged(ms) PROVE CapturesOK'
  <2> DEFINE stopped == IF CaptureHidden THEN {} ELSE capturing \cap hiddenPermanent'
             kept == capturing \ stopped
  <2>1. stopped \in SUBSET NodeId /\ capturable \in SUBSET NodeId
    BY DEF TypeOK
  <2>2. \A c : c \subseteq capturing => Allowed(c)'
    BY <1>0, <1>5 DEF Allowed, HiddenFileChanged, stateVars
  <2>3. /\ StopThenStart(stopped, capturable)
        /\ capturable \subseteq capturable' /\ capturable' = capturable
    BY <1>5 DEF HiddenFileChanged
  <2>4. kept \subseteq capturing
    OBVIOUS
  <2> QED
    BY <1>0, <1>1, <2>1, <2>2, <2>3, <2>4, StopThenStartOK
<1> QED
  BY <1>2, <1>3, <1>4, <1>5 DEF HideNext

(* The order of update_capturing, start first and stop afterwards, keeps   *)
(* the caps because the starts were admitted with the old captures running.*)
LEMMA UpdateCapturingOK ==
    ASSUME TypeOK, TypeOK', CapturesOK, Lazy, UpdateCapturing,
           UNCHANGED <<nodes, capturable, hiddenInstance>>
    PROVE  CapturesOK'
<1>0. /\ Allowed(capturing) /\ WithinCaps(capturing) /\ IdleWithoutPeaks
      /\ capturing \in SUBSET NodeId /\ visible' \in SUBSET NodeId
  BY DEF CapturesOK, TypeOK
<1> DEFINE wanted == {id \in (visible' \cap capturable) \ capturing : CanStart(id)'}
<1>1. PICK S \in Admit(capturing, wanted, GlobalCaptureCount') :
        capturing' = (capturing \cup S) \cap visible'
  BY DEF UpdateCapturing
<1>2. wanted \in SUBSET NodeId /\ S \subseteq wanted
  BY <1>0 DEF Admit
<1>3. WithinCaps(capturing \cup S)
  BY <1>0, <1>1, <1>2, AdmitWithinCaps
<1>4. WithinCaps((capturing \cup S) \cap visible')
  <2>1. capturing \cup S \in SUBSET NodeId
    BY <1>0, <1>2
  <2>2. (capturing \cup S) \cap visible' \in SUBSET (capturing \cup S)
    OBVIOUS
  <2> QED
    BY <1>3, <2>1, <2>2, FewerWithinCaps
<1>5. Allowed(capturing)'
  BY <1>0, <1>1, <1>2 DEF Allowed, CanStart
<1>6. WithinCaps(capturing)'
  BY <1>1, <1>4 DEF WithinCaps
<1> QED
  BY <1>0, <1>5, <1>6 DEF CapturesOK, IdleWithoutPeaks

LEMMA CapturesLoop == TypeOK /\ TypeOK' /\ CapturesOK /\ LoopNext => CapturesOK'
<1> SUFFICES ASSUME TypeOK, TypeOK', CapturesOK, LoopNext PROVE CapturesOK'
  OBVIOUS
<1>0. Allowed(capturing) /\ WithinCaps(capturing) /\ IdleWithoutPeaks
  BY DEF CapturesOK
<1>1. ASSUME NEW v \in Screens, NEW changed \in BOOLEAN, Refresh(v, changed)
      PROVE  CapturesOK'
  <2>1. CASE changed /\ Lazy
    BY <1>1, <2>1, UpdateCapturingOK DEF Refresh, stateVars
  <2>2. CASE ~(changed /\ Lazy)
    <3>1. /\ KeepCaptures
          /\ UNCHANGED <<nodes, capturable, hiddenInstance>>
          /\ Lazy => visible' = visible
      BY <1>1, <2>2, ConfigAssumption DEF Refresh, stateVars
    <3> QED
      BY <1>0, <3>1 DEF KeepCaptures, CapturesOK, Allowed, WithinCaps, IdleWithoutPeaks
  <2> QED
    BY <2>1, <2>2
<1>2. ASSUME UNCHANGED <<nodes, capturable, hiddenInstance, visible>>,
             KeepCaptures
      PROVE  CapturesOK'
  BY <1>0, <1>2 DEF KeepCaptures, CapturesOK, Allowed, WithinCaps, IdleWithoutPeaks
<1>3. CASE RenderFrame
  <2>1. UNCHANGED <<nodes, capturable, hiddenInstance, visible>>
    BY <1>3 DEF RenderFrame, stateVars, hideVars
  <2>2. CASE RotateCapturing
    <3> DEFINE w == Window(Rotatable, rotationStart % Cardinality(Rotatable))
               kept == capturing \ (capturing \ w)
    <3>1. /\ w \subseteq capturable /\ w \in SUBSET NodeId
          /\ capturing \ w \in SUBSET NodeId
      BY DEF Window, Rotatable, TypeOK
    <3>2. StopThenStart(capturing \ w, w)
      BY <2>2 DEF RotateCapturing
    <3>3. \A c : c \subseteq capturing => Allowed(c)'
      BY <1>0, <2>1 DEF Allowed
    <3>4. kept \subseteq capturing /\ w \subseteq capturable'
      BY <2>1, <3>1
    <3> HIDE DEF w
    <3>5. Allowed(capturing)' /\ WithinCaps(capturing)'
      BY <1>0, <3>1, <3>2, <3>3, <3>4, StopThenStartOK
    <3> QED
      BY <1>0, <2>1, <3>5 DEF CapturesOK, IdleWithoutPeaks
  <2> QED
    BY <1>2, <1>3, <2>1, <2>2 DEF RenderFrame
<1>4. CASE SkipFrame
  BY <1>2, <1>4 DEF SkipFrame, stateVars, hideVars
<1>5. CASE AskForFrame
  BY <1>2, <1>5 DEF AskForFrame, stateVars, hideVars
<1> QED
  BY <1>1, <1>3, <1>4, <1>5 DEF LoopNext

LEMMA CapturesNext == TypeOK /\ CapturesOK /\ [Next]_vars => CapturesOK'
<1> SUFFICES ASSUME TypeOK, CapturesOK, [Next]_vars PROVE CapturesOK'
  OBVIOUS
<1>1. TypeOK'
  BY TypeNext
<1>2. CASE Ready
  BY <1>2 DEF Ready, KeepCaptures, stateVars, hideVars, CapturesOK, Allowed,
              WithinCaps, IdleWithoutPeaks
<1>3. CASE UNCHANGED vars
  BY <1>3 DEF vars, stateVars, loopVars, hideVars, captureVars,
              CapturesOK, Allowed, WithinCaps, IdleWithoutPeaks
<1> QED
  BY <1>1, <1>2, <1>3, CapturesStateEvent, CapturesHide, CapturesLoop DEF Next

LEMMA CapturesInit == Init => CapturesOK
<1> SUFFICES ASSUME Init PROVE CapturesOK
  OBVIOUS
<1>1. Cardinality({}) = 0
  BY FS_EmptySet
<1>2. WithinCaps({})
  BY <1>1, ConfigAssumption DEF WithinCaps
<1> QED
  BY <1>2 DEF Init, CapturesOK, Allowed, IdleWithoutPeaks

-----------------------------------------------------------------------------
(* IInv is an inductive invariant of the capture manager. *)
THEOREM Inductive == Spec => []IInv
<1>1. Init => IInv
  BY TypeInit, CapturesInit, IInvParts
<1>2. IInv /\ [Next]_vars => IInv'
  <2> SUFFICES ASSUME IInv, [Next]_vars PROVE IInv'
    OBVIOUS
  <2>1. TypeOK /\ CapturesOK
    BY IInvParts
  <2>2. TypeOK' /\ CapturesOK'
    BY <2>1, TypeNext, CapturesNext
  <2> QED
    BY <2>2 DEF IInv, CapturesOK, Allowed, CapturesAreEligible,
                HiddenInstanceNotCaptured, LazyCapturesVisible
<1> QED
  BY <1>1, <1>2, PTL DEF Spec

(* The cap on concurrent captures is never exceeded, not even transiently, *)
(* whatever the number of nodes and the order of start_capture's callers.  *)
THEOREM CapHolds == Spec => []CapNeverExceeded
<1>1. IInv => CapNeverExceeded
  BY DEF IInv, WithinCaps, CapNeverExceeded
<1> QED
  BY <1>1, Inductive, PTL

(* One instance stays within the global cap by itself, however far the     *)
(* graph it counts lags behind its own starts.                             *)
THEOREM GlobalCapHolds == Spec => []GlobalCapHasNoSelfLag
<1>1. IInv => GlobalCapHasNoSelfLag
  BY DEF IInv, WithinCaps, GlobalCapHasNoSelfLag
<1> QED
  BY <1>1, Inductive, PTL

(* Every running capture is of a live and eligible node. *)
THEOREM CapturesEligible == Spec => []CapturesAreEligible
<1>1. IInv => CapturesAreEligible
  BY DEF IInv
<1> QED
  BY <1>1, Inductive, PTL

(* Without capture_hidden no node hidden for this instance is captured. *)
THEOREM HiddenNotCaptured == Spec => []HiddenInstanceNotCaptured
<1>1. IInv => HiddenInstanceNotCaptured
  BY DEF IInv
<1> QED
  BY <1>1, Inductive, PTL

(* Under lazy capture nothing off screen is captured. *)
THEOREM LazyOnScreen == Spec => []LazyCapturesVisible
<1>1. IInv => LazyCapturesVisible
  BY DEF IInv
<1> QED
  BY <1>1, Inductive, PTL

-----------------------------------------------------------------------------
(* Without caps: what State knows of a node is what the server announced,  *)
(* what is eligible is known, and what could start runs.                   *)
Uncapped == Steady /\ PeaksOn /\ MaxCaptures = None /\ MaxGlobal = None

As(n, p) == n.class = p.class /\ n.name = p.name /\ n.serial = p.serial

Unheard(n) == n.class = None /\ n.name = None /\ n.serial = None

Announced ==
    \A id \in NodeId : Unheard(node[id]) \/ \E p \in PropsOf[id] : As(node[id], p)

EligibleKnown == \A id \in capturable : id \in nodes /\ node[id].class # None

AllStarted == \A id \in capturable : CanStart(id) => id \in capturing

StartedOK == Announced /\ EligibleKnown /\ AllStarted

(* Nothing is refused: all that is wanted starts. *)
LEMMA AdmitsAll ==
    ASSUME Uncapped, NEW cur, NEW wanted, NEW g, NEW S \in Admit(cur, wanted, g)
    PROVE  S = wanted
BY DEF Uncapped, Admit, AtCap

LEMMA StopThenStartAll ==
    ASSUME Uncapped, NEW stopped, NEW candidates, StopThenStart(stopped, candidates)
    PROVE  capturing' = (capturing \ stopped) \cup {id \in candidates : id \notin capturing \ stopped /\ CanStart(id)'}
<1> DEFINE kept == capturing \ stopped
           wanted == {id \in candidates \ kept : CanStart(id)'}
<1>1. PICK S \in Admit(kept, wanted, GlobalCaptureCount') : capturing' = kept \cup S
  BY DEF StopThenStart
<1>2. S = wanted
  BY AdmitsAll
<1> QED
  BY <1>1, <1>2

LEMMA StartCaptureStarts ==
    ASSUME Uncapped, NEW id, StartCapture(id)
    PROVE  capturing \subseteq capturing' /\ (CanStart(id)' => id \in capturing')
<1>1. CASE id \in capturing
  BY <1>1 DEF StartCapture
<1>2. CASE id \notin capturing
  BY <1>2, StopThenStartAll DEF StartCapture
<1> QED
  BY <1>1, <1>2

(* Nodes the step does not concern can start as before. *)
LEMMA SameStart ==
    ASSUME NEW id, UNCHANGED <<hiddenInstance, matchers>>, id \in visible' <=> id \in visible,
           id \in nodes' <=> id \in nodes, node'[id] = node[id]
    PROVE  CanStart(id)' <=> CanStart(id)
BY DEF CanStart, MatchesHidden, Filtered

LEMMA StartedEvent ==
    ASSUME Uncapped, AllStarted, NEW id \in NodeId,
           NEW e \in {"Unchanged", "Eligible", "NeedsRestart", "Ineligible"},
           SetCaptureEligibility(e, id),
           UNCHANGED <<visible, hiddenInstance, matchers>>,
           \A i \in NodeId \ {id} : (i \in nodes' <=> i \in nodes) /\ node'[i] = node[i],
           e = "Unchanged" /\ id \in capturable => (CanStart(id)' => CanStart(id)),
           capturable \subseteq NodeId
    PROVE  AllStarted'
<1>1. \A i \in NodeId \ {id} : CanStart(i)' <=> CanStart(i)
  BY SameStart
<1>2. PeaksOn
  BY DEF Uncapped
<1>3. CASE e = "Unchanged"
  <2>1. capturable' = capturable /\ capturing' = capturing
    BY <1>2, <1>3 DEF SetCaptureEligibility, KeepCaptures
  <2> QED
    BY <1>1, <1>3, <2>1 DEF AllStarted
<1>4. CASE e \in {"Eligible", "NeedsRestart"}
  <2>1. /\ capturable' = capturable \cup {id} /\ capturing \subseteq capturing'
        /\ CanStart(id)' => id \in capturing'
    BY <1>2, <1>4, StartCaptureStarts DEF SetCaptureEligibility, KeepCaptures
  <2> QED
    BY <1>1, <2>1 DEF AllStarted
<1>5. CASE e = "Ineligible"
  <2>1. capturable' = capturable \ {id} /\ capturing' = capturing \ {id}
    BY <1>2, <1>5 DEF SetCaptureEligibility, StopCapture
  <2> QED
    BY <1>1, <2>1 DEF AllStarted
<1> QED
  BY <1>3, <1>4, <1>5

(* Only what is known becomes eligible, and a removed node is given up. *)
LEMMA KnownEvent ==
    ASSUME TypeOK, PeaksOn, EligibleKnown, NEW id \in NodeId,
           NEW e \in {"Unchanged", "Eligible", "NeedsRestart", "Ineligible"},
           SetCaptureEligibility(e, id),
           \A i \in NodeId \ {id} : (i \in nodes => i \in nodes') /\ node'[i] = node[i],
           e \in {"Eligible", "NeedsRestart"} => id \in nodes' /\ node'[id].class # None,
           e = "Unchanged" /\ id \in capturable => id \in nodes' /\ node'[id].class # None
    PROVE  EligibleKnown'
<1>1. capturable \subseteq NodeId
  BY DEF TypeOK
<1>2. \/ e = "Unchanged" /\ capturable' = capturable
      \/ e \in {"Eligible", "NeedsRestart"} /\ capturable' = capturable \cup {id}
      \/ e = "Ineligible" /\ capturable' = capturable \ {id}
  BY DEF SetCaptureEligibility
<1> QED
  BY <1>1, <1>2 DEF EligibleKnown

LEMMA StartedInit == Init => StartedOK
<1> SUFFICES ASSUME Init PROVE StartedOK
  OBVIOUS
<1>1. \A id \in NodeId : Unheard(node[id])
  BY DEF Init, StateInit, DefaultNode, Unheard
<1> QED
  BY <1>1 DEF Init, StartedOK, Announced, EligibleKnown, AllStarted

LEMMA StartedProperties ==
    ASSUME Uncapped, TypeOK, StartedOK, NEW id \in NodeId, NEW p \in PropsOf[id],
           NodeProperties(id, p)
    PROVE  StartedOK'
<1> DEFINE e == OnNode(node'[id])
           n == [class |-> p.class, name |-> p.name, serial |-> p.serial,
                 positions |-> node[id].positions]
<1>1. /\ nodes' = nodes \cup {id} /\ node' = [node EXCEPT ![id] = n]
      /\ UNCHANGED <<visible, hiddenInstance, matchers>>
      /\ SetCaptureEligibility(OnNode(node[id])', id)
  BY DEF NodeProperties, HandleStateEvent, UpdateNodeProperties, hideVars
<1>2. node \in [NodeId -> Node] /\ capturable \subseteq NodeId
  BY DEF TypeOK, StateTypeOK
<1>3. node'[id] = n /\ \A i \in NodeId \ {id} : node'[i] = node[i]
  BY <1>1, <1>2
<1>4. As(node'[id], p)
  BY <1>3 DEF As
<1>5. OnNode(node[id])' = e /\ e \in {"Unchanged", "Eligible"}
  BY DEF OnNode
<1>6. SetCaptureEligibility(e, id)
  BY <1>1, <1>5
<1>7. Announced'
  BY <1>3, <1>4 DEF Announced, StartedOK
<1>8. /\ e = "Eligible" => p.class \in {"Source", "SinkInput", "SourceOutput"} /\ p.serial # None
      /\ e = "Unchanged" => p.class \notin {"Source", "SinkInput", "SourceOutput"} \/ p.serial = None
  BY <1>4 DEF OnNode, As
<1>9. ASSUME id \in capturable
      PROVE  /\ p.class # None
             /\ e = "Unchanged" /\ CanStart(id)' => CanStart(id)
  <2>1. id \in nodes /\ node[id].class # None
    BY <1>9 DEF StartedOK, EligibleKnown
  <2>2. PICK q \in PropsOf[id] : As(node[id], q)
    BY <2>1 DEF StartedOK, Announced, Unheard
  <2>3. p.class = node[id].class
    BY <2>2 DEF Uncapped, Steady, As
  <2>4. ASSUME e = "Unchanged", CanStart(id)' PROVE CanStart(id)
    <3>1. p.serial # None /\ node'[id].serial = p.serial
      BY <1>4, <2>4 DEF CanStart, As
    <3>2. p \in Props
      BY PropsAssumption
    <3>3. p.class = "Sink"
      BY <1>8, <2>1, <2>3, <2>4, <3>1, <3>2 DEF Props, Class
    <3>4. node[id].serial # None /\ node[id].name = p.name
      BY <2>2, <2>3, <3>3 DEF Uncapped, Steady, As
    <3>5. node'[id].name = node[id].name
      BY <1>4, <3>4 DEF As
    <3> QED
      BY <1>1, <2>1, <2>4, <3>4, <3>5 DEF CanStart, MatchesHidden, Filtered
  <2> QED
    BY <2>1, <2>3, <2>4
<1>10. node'[id].class = p.class
  BY <1>4 DEF As
<1> HIDE DEF e, n
<1>11. None \notin {"Source", "SinkInput", "SourceOutput"}
  BY NoneAssumption DEF Class
<1>12. EligibleKnown'
  BY <1>1, <1>3, <1>5, <1>6, <1>8, <1>9, <1>10, <1>11, KnownEvent DEF StartedOK, Uncapped
<1>13. AllStarted'
  BY <1>1, <1>2, <1>3, <1>5, <1>6, <1>9, StartedEvent DEF StartedOK
<1> QED
  BY <1>7, <1>12, <1>13 DEF StartedOK

(* An event that leaves what is known of the nodes as it is. *)
LEMMA StartedSameNodes ==
    ASSUME Uncapped, TypeOK, StartedOK, NEW id \in NodeId,
           NEW e \in {"Unchanged", "NeedsRestart", "Ineligible"},
           SetCaptureEligibility(e, id), UNCHANGED <<visible, hiddenInstance, matchers>>,
           UNCHANGED nodes,
           \A i \in NodeId : As(node'[i], node[i]),
           e = "NeedsRestart" => id \in nodes /\ node[id].class # None
    PROVE  StartedOK'
<1>1. capturable \subseteq NodeId
  BY DEF TypeOK
<1>2. \A i \in NodeId : CanStart(i)' <=> CanStart(i)
  BY DEF CanStart, MatchesHidden, Filtered, As
<1>3. Announced'
  BY DEF Announced, StartedOK, As, Unheard
<1>4. PeaksOn
  BY DEF Uncapped
<1>5. \/ e = "Unchanged" /\ capturable' = capturable /\ capturing' = capturing
      \/ /\ e = "NeedsRestart" /\ capturable' = capturable \cup {id}
         /\ capturing \subseteq capturing' /\ (CanStart(id)' => id \in capturing')
      \/ e = "Ineligible" /\ capturable' = capturable \ {id} /\ capturing' = capturing \ {id}
  BY <1>4, StartCaptureStarts DEF SetCaptureEligibility, KeepCaptures, StopCapture
<1>6. EligibleKnown'
  BY <1>1, <1>5 DEF EligibleKnown, StartedOK, As
<1>7. AllStarted'
  BY <1>1, <1>2, <1>5 DEF AllStarted, StartedOK
<1> QED
  BY <1>3, <1>6, <1>7 DEF StartedOK

LEMMA StartedRemoved ==
    ASSUME Uncapped, TypeOK, StartedOK, NEW id \in NodeId, NodeRemoved(id)
    PROVE  StartedOK'
<1> DEFINE e == NodeRemovedEligibility(id)
<1>1. /\ nodes' = nodes \ {id} /\ node' = [node EXCEPT ![id] = DefaultNode]
      /\ UNCHANGED <<visible, hiddenInstance, matchers>>
      /\ SetCaptureEligibility(e, id)
  BY DEF NodeRemoved, HandleStateEvent, UpdateNodeRemoved, hideVars
<1>2. node \in [NodeId -> Node] /\ capturable \subseteq NodeId
  BY DEF TypeOK, StateTypeOK
<1>3. node'[id] = DefaultNode /\ \A i \in NodeId \ {id} : node'[i] = node[i]
  BY <1>1, <1>2
<1>4. e \in {"Unchanged", "Ineligible"} /\ (e = "Unchanged" => id \notin nodes)
  BY DEF NodeRemovedEligibility
<1> HIDE DEF e
<1>5. id \notin nodes => id \notin capturable
  BY DEF StartedOK, EligibleKnown
<1>6. Announced'
  BY <1>3 DEF Announced, StartedOK, DefaultNode, Unheard
<1>7. EligibleKnown'
  BY <1>1, <1>3, <1>4, <1>5, KnownEvent DEF StartedOK, Uncapped
<1>8. AllStarted'
  BY <1>1, <1>2, <1>3, <1>4, <1>5, StartedEvent DEF StartedOK
<1> QED
  BY <1>6, <1>7, <1>8 DEF StartedOK

(* A step that neither starts nor stops, nor touches what starts depend on.*)
LEMMA StartedIdle ==
    ASSUME TypeOK, StartedOK, KeepCaptures, UNCHANGED <<capturable, node, hiddenInstance, matchers>>,
           \A i \in capturable : i \in nodes' <=> i \in nodes,
           Lazy => UNCHANGED visible
    PROVE  StartedOK'
<1>1. \A i \in capturable : CanStart(i)' <=> CanStart(i)
  BY DEF CanStart, MatchesHidden, Filtered
<1> QED
  BY <1>1 DEF StartedOK, Announced, EligibleKnown, AllStarted, KeepCaptures

LEMMA StartedStateEvent == Uncapped /\ TypeOK /\ StartedOK /\ StateEventNext => StartedOK'
<1> SUFFICES ASSUME Uncapped, TypeOK, StartedOK, StateEventNext PROVE StartedOK'
  OBVIOUS
<1>0. node \in [NodeId -> Node] /\ nodes \subseteq NodeId
  BY DEF TypeOK, StateTypeOK
<1>1. ASSUME NEW id \in NodeId, NEW p \in PropsOf[id], NodeProperties(id, p) PROVE StartedOK'
  BY <1>1, StartedProperties
<1>2. ASSUME NEW id \in NodeId, NEW layout \in Layout, NodePositions(id, layout) PROVE StartedOK'
  <2> DEFINE n == [class |-> node[id].class, name |-> node[id].name,
                   serial |-> node[id].serial, positions |-> layout]
             e == PositionsEligibility(id, layout)
  <2>1. /\ nodes' = nodes \cup {id} /\ node' = [node EXCEPT ![id] = n]
        /\ UNCHANGED <<visible, hiddenInstance, matchers>> /\ node[id].class # None
        /\ SetCaptureEligibility(e, id)
    BY <1>2 DEF NodePositions, HandleStateEvent, UpdateNodePositions, hideVars
  <2>2. e \in {"Unchanged", "NeedsRestart"} /\ (e = "NeedsRestart" => id \in nodes)
    BY DEF PositionsEligibility
  <2>3. node'[id] = n /\ \A i \in NodeId \ {id} : node'[i] = node[i]
    BY <1>0, <2>1
  <2>4. \A i \in NodeId : As(node'[i], node[i])
    BY <2>3 DEF As
  <2>5. CASE id \in nodes
    <3>1. nodes' = nodes
      BY <2>1, <2>5
    <3> HIDE DEF e
    <3> QED
      BY <2>1, <2>2, <2>4, <3>1, StartedSameNodes
  <2>6. CASE id \notin nodes
    <3> HIDE DEF e
    <3>1. id \notin capturable /\ e = "Unchanged"
      BY <2>2, <2>6 DEF StartedOK, EligibleKnown
    <3>2. Announced'
      BY <2>4 DEF Announced, StartedOK, As, Unheard
    <3>3. EligibleKnown'
      BY <2>1, <2>3, <3>1, KnownEvent DEF StartedOK, Uncapped
    <3>4. AllStarted'
      BY <2>1, <2>3, <3>1, StartedEvent DEF StartedOK, TypeOK
    <3> QED
      BY <3>2, <3>3, <3>4 DEF StartedOK
  <2> QED
    BY <2>5, <2>6
<1>3. ASSUME NEW id \in NodeId, StreamStarted(id) PROVE StartedOK'
  <2>1. \A i \in capturable : i \in nodes
    BY DEF StartedOK, EligibleKnown
  <2> QED
    BY <1>3, <2>1, StartedIdle DEF StreamStarted, HandleStateEvent, UpdateStreamStarted, hideVars
<1>4. ASSUME NEW id \in NodeId, PeaksDirty(id) PROVE StartedOK'
  BY <1>4, StartedIdle DEF PeaksDirty, HandleStateEvent, stateVars, hideVars
<1>5. ASSUME NEW l \in LinkId, NEW out \in NodeId, NEW in \in NodeId, LinkAdded(l, out, in)
      PROVE  StartedOK'
  <2> DEFINE e == LinkEligibility(out, in)
  <2>1. /\ UNCHANGED <<nodes, node>> /\ UNCHANGED <<visible, hiddenInstance, matchers>>
        /\ SetCaptureEligibility(e, in)
    BY <1>5 DEF LinkAdded, HandleStateEvent, UpdateLink, hideVars
  <2>2. /\ e \in {"Unchanged", "NeedsRestart"}
        /\ e = "NeedsRestart" => in \in nodes /\ node[in].class # None
    BY NoneAssumption DEF LinkEligibility, OnLink
  <2>3. \A i \in NodeId : As(node'[i], node[i])
    BY <2>1 DEF As
  <2> HIDE DEF e
  <2> QED
    BY <2>1, <2>2, <2>3, StartedSameNodes
<1>6. ASSUME NEW k \in links, LinkRemoved(k) PROVE StartedOK'
  <2> DEFINE e == LinkRemovedEligibility(k)
  <2>1. /\ UNCHANGED <<nodes, node>> /\ UNCHANGED <<visible, hiddenInstance, matchers>>
        /\ SetCaptureEligibility(e, k.input)
    BY <1>6 DEF LinkRemoved, HandleStateEvent, UpdateLinkRemoved, hideVars
  <2>2. e \in {"Unchanged", "Ineligible"} /\ k.input \in NodeId
    BY DEF LinkRemovedEligibility, TypeOK, StateTypeOK, Link
  <2>3. \A i \in NodeId : As(node'[i], node[i])
    BY <2>1 DEF As
  <2> HIDE DEF e
  <2> QED
    BY <2>1, <2>2, <2>3, StartedSameNodes
<1>7. ASSUME NEW id \in NodeId, NodeRemoved(id) PROVE StartedOK'
  BY <1>7, StartedRemoved
<1>8. ASSUME NEW affected \in SUBSET NodeId, OtherStateEvent(affected) PROVE StartedOK'
  BY <1>8, StartedIdle DEF OtherStateEvent, HandleStateEvent, stateVars, hideVars
<1> QED
  BY <1>1, <1>2, <1>3, <1>4, <1>5, <1>6, <1>7, <1>8 DEF StateEventNext

(* A step on what is hidden: it starts whatever may start only now.        *)
LEMMA StartedHiding ==
    ASSUME StartedOK, UNCHANGED <<nodes, node, capturable>>,
           \A i \in capturable : CanStart(i)' /\ CanStart(i) /\ i \in capturing => i \in capturing',
           \A i \in capturable : CanStart(i)' /\ ~CanStart(i) => i \in capturing'
    PROVE  StartedOK'
<1>1. Announced' /\ EligibleKnown'
  BY DEF StartedOK, Announced, EligibleKnown
<1>2. AllStarted'
  BY DEF StartedOK, AllStarted
<1> QED
  BY <1>1, <1>2 DEF StartedOK

LEMMA StartedHide == Uncapped /\ TypeOK /\ StartedOK /\ HideNext => StartedOK'
<1> SUFFICES ASSUME Uncapped, TypeOK, StartedOK, HideNext PROVE StartedOK'
  OBVIOUS
<1>0. /\ capturable \subseteq NodeId /\ matchers \subseteq Name /\ None \notin matchers
      /\ \A i \in capturable : i \in nodes
  BY NoneAssumption DEF TypeOK, StartedOK, EligibleKnown
<1>1. ASSUME NEW id \in NodeId, HideInstance(id) PROVE StartedOK'
  <2>1. /\ UNCHANGED <<nodes, node, capturable, visible, matchers>>
        /\ hiddenInstance' = hiddenInstance \cup {id}
        /\ IF CaptureHidden THEN KeepCaptures ELSE StopCapture(id)
    BY <1>1 DEF HideInstance, stateVars
  <2>2. \A i \in capturable : CanStart(i)' => CanStart(i)
    BY <2>1 DEF CanStart, MatchesHidden, Filtered
  <2>3. CASE CaptureHidden
    BY <2>1, <2>2, <2>3, StartedHiding DEF KeepCaptures
  <2>4. CASE ~CaptureHidden
    <3>1. ~CanStart(id)' /\ capturing' = capturing \ {id}
      BY <2>1, <2>4 DEF CanStart, StopCapture
    <3> QED
      BY <2>1, <2>2, <3>1, StartedHiding
  <2> QED
    BY <2>3, <2>4
<1>2. ASSUME NEW id \in NodeId, UnhideInstance(id) PROVE StartedOK'
  <2>1. /\ UNCHANGED <<nodes, node, capturable, visible, matchers>>
        /\ hiddenInstance' = hiddenInstance \ {id}
        /\ IF ~CaptureHidden /\ id \in capturable THEN StartCapture(id) ELSE KeepCaptures
    BY <1>2 DEF UnhideInstance, stateVars
  <2>2. \A i \in capturable : CanStart(i)' /\ ~CanStart(i) => i = id /\ ~CaptureHidden
    BY <2>1 DEF CanStart, MatchesHidden, Filtered
  <2>3. CASE ~CaptureHidden /\ id \in capturable
    <3>1. capturing \subseteq capturing' /\ (CanStart(id)' => id \in capturing')
      BY <2>1, <2>3, StartCaptureStarts
    <3> QED
      BY <2>1, <2>2, <3>1, StartedHiding
  <2>4. CASE CaptureHidden \/ id \notin capturable
    <3>1. capturing' = capturing
      BY <2>1, <2>4 DEF KeepCaptures
    <3> QED
      BY <2>1, <2>2, <2>4, <3>1, StartedHiding
  <2> QED
    BY <2>3, <2>4
<1>3. ASSUME NEW id \in NodeId, ToggleHiddenPermanent(id) PROVE StartedOK'
  <2>1. /\ UNCHANGED <<nodes, node, capturable, visible, hiddenInstance>> /\ id \in nodes
        /\ matchers' = IF id \in hiddenPermanent THEN matchers \ {node[id].name}
                                                 ELSE matchers \cup {node[id].name}
        /\ hiddenPermanent' = {i \in nodes : node[i].name \in matchers'}
    BY <1>3 DEF ToggleHiddenPermanent, stateVars, HiddenNow, MatchesHidden
  <2>2. CASE CaptureHidden
    <3>1. capturing' = capturing
      BY <1>3, <2>2 DEF ToggleHiddenPermanent, KeepCaptures
    <3>2. \A i \in capturable : CanStart(i)' <=> CanStart(i)
      BY <2>1, <2>2 DEF CanStart, Filtered
    <3> QED
      BY <2>1, <3>1, <3>2, StartedHiding
  <2>3. CASE ~CaptureHidden /\ id \notin hiddenPermanent
    <3>1. matchers' = matchers \cup {node[id].name} /\ id \in hiddenPermanent'
      BY <2>1, <2>3
    <3>2. capturing' = capturing \ {id}
      BY <1>3, <2>3, <3>1 DEF ToggleHiddenPermanent, StopCapture
    <3>3. ~CanStart(id)' /\ \A i \in capturable : CanStart(i)' => CanStart(i)
      BY <2>1, <2>3, <3>1 DEF CanStart, MatchesHidden, Filtered
    <3> QED
      BY <2>1, <3>2, <3>3, StartedHiding
  <2>4. CASE ~CaptureHidden /\ id \in hiddenPermanent
    <3>1. matchers' = matchers \ {node[id].name} /\ id \notin hiddenPermanent'
      BY <2>1, <2>4
    <3>2. \/ id \in capturable /\ StartCapture(id)
          \/ id \notin capturable /\ KeepCaptures
      BY <1>3, <2>4, <3>1 DEF ToggleHiddenPermanent
    <3>3. /\ capturing \subseteq capturing'
          /\ id \in capturable /\ CanStart(id)' => id \in capturing'
      BY <3>2, StartCaptureStarts DEF KeepCaptures
    <3>4. ASSUME NEW i \in capturable, CanStart(i)', ~CanStart(i) PROVE i = id
      <4>1. node[i].name = node[id].name /\ node[i].name # None
        BY <1>0, <2>1, <3>1, <3>4 DEF CanStart, MatchesHidden, Filtered
      <4>2. PICK p \in PropsOf[i] : As(node[i], p)
        BY <1>0, <4>1 DEF StartedOK, Announced, Unheard
      <4>3. PICK q \in PropsOf[id] : As(node[id], q)
        BY <4>1 DEF StartedOK, Announced, Unheard
      <4>4. p.name = q.name /\ p.name # None
        BY <4>1, <4>2, <4>3 DEF As
      <4> QED
        BY <1>0, <2>4, <4>2, <4>3, <4>4 DEF Uncapped, Steady
    <3> QED
      BY <2>1, <3>3, <3>4, StartedHiding
  <2> QED
    BY <2>2, <2>3, <2>4
<1>4. ASSUME NEW ms \in HideFiles, HiddenFileChanged(ms) PROVE StartedOK'
  <2> DEFINE stopped == IF CaptureHidden THEN {} ELSE capturing \cap hiddenPermanent'
  <2>1. UNCHANGED <<nodes, node, capturable>> /\ StopThenStart(stopped, capturable)
    BY <1>4 DEF HiddenFileChanged, stateVars
  <2>2. capturing' = (capturing \ stopped)
            \cup {id \in capturable : id \notin capturing \ stopped /\ CanStart(id)'}
    BY <2>1, StopThenStartAll
  <2>3. \A i \in capturable : CanStart(i)' => i \in capturing'
    BY <2>2
  <2> QED
    BY <2>1, <2>3, StartedHiding
<1> QED
  BY <1>1, <1>2, <1>3, <1>4 DEF HideNext

LEMMA StartedRefresh ==
    ASSUME Uncapped, TypeOK, StartedOK, NEW v \in Screens, NEW changed \in BOOLEAN,
           Refresh(v, changed)
    PROVE  StartedOK'
<1>1. /\ UNCHANGED <<nodes, node, capturable, hiddenInstance, matchers>>
      /\ visible' # visible => changed
      /\ IF changed /\ Lazy THEN UpdateCapturing ELSE KeepCaptures
  BY DEF Refresh, stateVars
<1>2. CASE ~(changed /\ Lazy)
  BY <1>1, <1>2, StartedIdle
<1>3. CASE changed /\ Lazy
  <2> DEFINE wanted == {id \in (visible' \cap capturable) \ capturing : CanStart(id)'}
  <2>1. PICK S \in Admit(capturing, wanted, GlobalCaptureCount') :
            capturing' = (capturing \cup S) \cap visible'
    BY <1>1, <1>3 DEF UpdateCapturing
  <2>2. S = wanted
    BY AdmitsAll
  <2>3. \A i \in capturable : CanStart(i)' => i \in visible'
    BY <1>3 DEF CanStart
  <2>4. AllStarted'
    BY <1>1, <2>1, <2>2, <2>3 DEF AllStarted
  <2>5. Announced' /\ EligibleKnown'
    BY <1>1 DEF StartedOK, Announced, EligibleKnown
  <2> QED
    BY <2>4, <2>5 DEF StartedOK
<1> QED
  BY <1>2, <1>3

LEMMA StartedLoop == Uncapped /\ TypeOK /\ StartedOK /\ LoopNext => StartedOK'
<1> SUFFICES ASSUME Uncapped, TypeOK, StartedOK, LoopNext PROVE StartedOK'
  OBVIOUS
<1>1. ASSUME NEW v \in Screens, NEW changed \in BOOLEAN, Refresh(v, changed) PROVE StartedOK'
  BY <1>1, StartedRefresh
<1>2. CASE RenderFrame
  <2>1. ~Rotating
    BY DEF Rotating, Uncapped
  <2> QED
    BY <1>2, <2>1, StartedIdle DEF RenderFrame, stateVars, hideVars
<1>3. CASE SkipFrame
  BY <1>3, StartedIdle DEF SkipFrame, stateVars, hideVars
<1>4. CASE AskForFrame
  BY <1>4, StartedIdle DEF AskForFrame, stateVars, hideVars
<1> QED
  BY <1>1, <1>2, <1>3, <1>4 DEF LoopNext

LEMMA StartedNext == Uncapped /\ TypeOK /\ StartedOK /\ [Next]_vars => StartedOK'
<1> SUFFICES ASSUME Uncapped, TypeOK, StartedOK, [Next]_vars PROVE StartedOK'
  OBVIOUS
<1>1. CASE Ready
  BY <1>1, StartedIdle DEF Ready, stateVars, hideVars
<1>2. CASE UNCHANGED vars
  <2>1. UNCHANGED <<nodes, node, capturable, capturing, visible, hiddenInstance, matchers>>
    BY <1>2 DEF vars, stateVars, loopVars, hideVars, captureVars
  <2>2. \A i \in capturable : CanStart(i)' <=> CanStart(i)
    BY <2>1 DEF CanStart, MatchesHidden, Filtered
  <2> QED
    BY <2>1, <2>2, StartedHiding DEF StartedOK, AllStarted
<1> QED
  BY <1>1, <1>2, StartedStateEvent, StartedHide, StartedLoop DEF Next

(* Without caps nothing eligible that start_capture would accept is left   *)
(* out, in any interleaving of events, hides, scrolling and frames, given  *)
(* what Steady takes of the server.                                        *)
THEOREM NothingMissed == Spec => []NothingLeftOut
<1>1. CASE Uncapped
  <2> DEFINE Inv == TypeOK /\ StartedOK
  <2>1. Init => Inv
    BY TypeInit, StartedInit
  <2>2. Inv /\ [Next]_vars => Inv'
    BY <1>1, TypeNext, StartedNext
  <2>3. Inv => NothingLeftOut
    BY DEF NothingLeftOut, StartedOK, AllStarted
  <2> QED
    BY <2>1, <2>2, <2>3, PTL DEF Spec
<1>2. CASE ~Uncapped
  <2>1. NothingLeftOut
    BY <1>2 DEF NothingLeftOut, Uncapped
  <2> QED
    BY <2>1, PTL
<1> QED
  BY <1>1, <1>2

-----------------------------------------------------------------------------
(* The rotation.  Its window is the eligible nodes whose offset from the   *)
(* start, around the circle of ranks, is below the cap.                    *)
LEMMA QuotientsEqual ==
    ASSUME NEW n \in Nat, n > 0, NEW p \in Int, NEW q \in Int,
           NEW r \in 0 .. n - 1, NEW s \in 0 .. n - 1, n * p + r = n * q + s
    PROVE  r = s
<1>1. CASE p = q
  BY <1>1
<1>2. CASE p >= q + 1
  <2>1. n * p >= n * (q + 1)
    BY <1>2
  <2>2. n * (q + 1) = n * q + n
    OBVIOUS
  <2> QED
    BY <2>1, <2>2
<1>3. CASE q >= p + 1
  <2>1. n * q >= n * (p + 1)
    BY <1>3
  <2>2. n * (p + 1) = n * p + n
    OBVIOUS
  <2> QED
    BY <2>1, <2>2
<1> QED
  BY <1>1, <1>2, <1>3

LEMMA Remainder ==
    ASSUME NEW n \in Nat, n > 0, NEW q \in Int, NEW r \in 0 .. n - 1
    PROVE  (n * q + r) % n = r
<1> DEFINE b == n * q + r
<1>1. b \in Int /\ b % n \in 0 .. n - 1 /\ b \div n \in Int /\ b = (n * (b \div n)) + (b % n)
  OBVIOUS
<1> QED
  BY <1>1, QuotientsEqual

LEMMA Turns ==
    ASSUME NEW n \in Nat, n > 0
    PROVE  /\ \A a \in 0 .. n - 1 : a % n = a
           /\ \A a \in n .. n + n - 1 : a % n = a - n
           /\ \A a \in Nat : /\ a % n \in 0 .. n - 1
                             /\ (a + n - 1) % n = IF a % n = 0 THEN n - 1 ELSE (a % n) - 1
<1>1. ASSUME NEW a \in 0 .. n - 1 PROVE a % n = a
  BY Remainder, n * 0 + a = a
<1>2. ASSUME NEW a \in n .. n + n - 1 PROVE a % n = a - n
  BY Remainder, n * 1 + (a - n) = a, a - n \in 0 .. n - 1
<1>3. ASSUME NEW a \in Nat
      PROVE  /\ a % n \in 0 .. n - 1
             /\ (a + n - 1) % n = IF a % n = 0 THEN n - 1 ELSE (a % n) - 1
  <2> DEFINE q == a \div n
             s == a % n
  <2>1. q \in Int /\ s \in 0 .. n - 1 /\ a = n * q + s
    OBVIOUS
  <2>2. CASE s = 0
    BY <2>1, <2>2, Remainder, a + n - 1 = n * q + (n - 1), n - 1 \in 0 .. n - 1
  <2>3. CASE s # 0
    <3>1. n * (q + 1) = n * q + n
      BY <2>1
    <3>2. a + n - 1 = n * (q + 1) + (s - 1) /\ q + 1 \in Int /\ s - 1 \in 0 .. n - 1
      BY <2>1, <2>3, <3>1
    <3>3. (n * (q + 1) + (s - 1)) % n = s - 1
      BY <3>2, Remainder
    <3> QED
      BY <2>1, <2>3, <3>2, <3>3
  <2> QED
    BY <2>1, <2>2, <2>3
<1> QED
  BY <1>1, <1>2, <1>3

RankIn(E, id) == Cardinality({i \in E : i < id})
Offset(E, id, s) == (RankIn(E, id) + Cardinality(E) - s) % Cardinality(E)

LEMMA Ranks ==
    ASSUME NEW E \in SUBSET NodeId
    PROVE  /\ \A id \in E : RankIn(E, id) \in 0 .. Cardinality(E) - 1
           /\ \A i, j \in E : RankIn(E, i) = RankIn(E, j) => i = j
<1> DEFINE below(id) == {i \in E : i < id}
<1>0. E \subseteq Nat /\ IsFiniteSet(E) /\ Cardinality(E) \in Nat
  BY FS_Subset, FS_CardinalityType, NodeIdAssumption
<1>1. ASSUME NEW id \in E
      PROVE  RankIn(E, id) \in 0 .. Cardinality(E) - 1
  <2>1. below(id) \in SUBSET E /\ id \notin below(id)
    BY <1>0, <1>1
  <2>2. /\ Cardinality(below(id)) <= Cardinality(E) /\ Cardinality(below(id)) # Cardinality(E)
        /\ Cardinality(below(id)) \in Nat
    BY <1>0, <1>1, <2>1, FS_Subset, FS_CardinalityType
  <2> QED
    BY <1>0, <2>2 DEF RankIn
<1>2. ASSUME NEW i \in E, NEW j \in E, i < j
      PROVE  RankIn(E, i) # RankIn(E, j)
  <2>0. ~(i < i) /\ \A k \in E : k < i => k < j
    BY <1>0, <1>2
  <2>1. below(i) \in SUBSET below(j) /\ i \in below(j) /\ i \notin below(i)
    BY <2>0, <1>2, Zenon
  <2>2. IsFiniteSet(below(j))
    BY <1>0, FS_Subset, below(j) \in SUBSET E
  <2>3. Cardinality(below(i)) # Cardinality(below(j))
    BY <2>1, <2>2, FS_Subset
  <2> QED
    BY <2>3 DEF RankIn
<1>3. \A i, j \in E : i = j \/ i < j \/ j < i
  BY <1>0
<1> QED
  BY <1>1, <1>2, <1>3

(* The start moving forth by one moves every offset back by one.           *)
LEMMA Offsets ==
    ASSUME NEW E \in SUBSET NodeId, NEW n \in Nat, n = Cardinality(E), n > 0, NEW s \in 0 .. n - 1
    PROVE  /\ \A id \in E : Offset(E, id, s) \in 0 .. n - 1
           /\ \A i, j \in E : Offset(E, i, s) = Offset(E, j, s) => i = j
           /\ \A id \in E : Offset(E, id, IF s = 0 THEN n - 1 ELSE s - 1)
                  = IF Offset(E, id, s) = n - 1 THEN 0 ELSE Offset(E, id, s) + 1
<1>0. /\ \A a \in 0 .. n - 1 : a % n = a
      /\ \A a \in n .. n + n - 1 : a % n = a - n
  BY Turns
<1>1. ASSUME NEW id \in E, NEW t \in 0 .. n - 1
      PROVE  Offset(E, id, t) = IF RankIn(E, id) >= t THEN RankIn(E, id) - t
                                ELSE RankIn(E, id) + n - t
  <2>1. RankIn(E, id) \in 0 .. n - 1
    BY Ranks
  <2>2. Offset(E, id, t) = (RankIn(E, id) + n - t) % n
    BY DEF Offset
  <2>3. CASE RankIn(E, id) >= t
    <3>1. RankIn(E, id) + n - t \in n .. n + n - 1
      BY <2>1, <2>3
    <3> QED
      BY <1>0, <2>1, <2>2, <2>3, <3>1
  <2>4. CASE ~(RankIn(E, id) >= t)
    <3>1. RankIn(E, id) + n - t \in 0 .. n - 1
      BY <2>1, <2>4
    <3> QED
      BY <1>0, <2>1, <2>2, <2>4, <3>1
  <2> QED
    BY <2>3, <2>4
<1>2. \A id \in E : RankIn(E, id) \in 0 .. n - 1
  BY Ranks
<1>3. ASSUME NEW i \in E, NEW j \in E, Offset(E, i, s) = Offset(E, j, s) PROVE i = j
  <2>1. RankIn(E, i) = RankIn(E, j)
    BY <1>1, <1>2, <1>3
  <2> QED
    BY <2>1, Ranks
<1>4. ASSUME NEW id \in E
      PROVE  /\ Offset(E, id, s) \in 0 .. n - 1
             /\ Offset(E, id, IF s = 0 THEN n - 1 ELSE s - 1)
                  = IF Offset(E, id, s) = n - 1 THEN 0 ELSE Offset(E, id, s) + 1
  <2> DEFINE t == IF s = 0 THEN n - 1 ELSE s - 1
  <2>1. t \in 0 .. n - 1
    OBVIOUS
  <2> HIDE DEF t
  <2>2. /\ Offset(E, id, s) = IF RankIn(E, id) >= s THEN RankIn(E, id) - s
                              ELSE RankIn(E, id) + n - s
        /\ Offset(E, id, t) = IF RankIn(E, id) >= t THEN RankIn(E, id) - t
                              ELSE RankIn(E, id) + n - t
    BY <1>1, <2>1
  <2>3. /\ Offset(E, id, s) \in 0 .. n - 1
        /\ Offset(E, id, t) = IF Offset(E, id, s) = n - 1 THEN 0 ELSE Offset(E, id, s) + 1
    BY <1>2, <2>2 DEF t
  <2> QED
    BY <2>3 DEF t
<1> QED
  BY <1>3, <1>4

LEMMA AtMostOne ==
    ASSUME NEW S, \A x, y \in S : x = y
    PROVE  Cardinality(S) <= 1
<1>1. CASE S = {}
  BY <1>1, FS_EmptySet
<1>2. CASE S # {}
  <2>1. PICK x \in S : S = {x}
    BY <1>2
  <2> QED
    BY <2>1, FS_Singleton
<1> QED
  BY <1>1, <1>2

(* A window has no more places than the cap, and those that start in       *)
(* neighbouring places differ by one node at either end.                   *)
LEMMA Windows ==
    ASSUME MaxCaptures # None, NEW E \in SUBSET NodeId, NEW n \in Nat, n = Cardinality(E),
           n > MaxCaptures, NEW s \in 0 .. n - 1
    PROVE  LET w == Window(E, s)
               last == Window(E, IF s = 0 THEN n - 1 ELSE s - 1)
           IN  /\ w \in SUBSET E /\ IsFiniteSet(w) /\ Cardinality(w) <= MaxCaptures
               /\ Cardinality(w \ last) <= 1 /\ Cardinality(last \ w) <= 1
<1> DEFINE t == IF s = 0 THEN n - 1 ELSE s - 1
<1>0. MaxCaptures \in Nat /\ n > 0 /\ t \in 0 .. n - 1
  BY ConfigAssumption
<1>1. \A r : Window(E, r) = {id \in E : Offset(E, id, r) < MaxCaptures}
  BY DEF Window, Offset, RankIn
<1> HIDE DEF t
<1>2. /\ \A id \in E : Offset(E, id, s) \in 0 .. n - 1
      /\ \A i, j \in E : Offset(E, i, s) = Offset(E, j, s) => i = j
      /\ \A id \in E : Offset(E, id, t) = IF Offset(E, id, s) = n - 1 THEN 0 ELSE Offset(E, id, s) + 1
  BY <1>0, Offsets DEF t
<1>3. IsFiniteSet(Window(E, s)) /\ Cardinality(Window(E, s)) <= MaxCaptures
  <2> DEFINE f == [id \in Window(E, s) |-> Offset(E, id, s)]
             T == 0 .. MaxCaptures - 1
  <2>1. IsFiniteSet(T) /\ Cardinality(T) = MaxCaptures
    <3>1. /\ IsFiniteSet(T)
          /\ Cardinality(T) = IF 0 > MaxCaptures - 1 THEN 0 ELSE MaxCaptures - 1 - 0 + 1
      BY <1>0, FS_Interval, 0 \in Int, MaxCaptures - 1 \in Int
    <3> QED
      BY <1>0, <3>1
  <2>2. \A id \in Window(E, s) : id \in E /\ Offset(E, id, s) \in T
    BY <1>0, <1>1, <1>2
  <2>3. f \in Injection(Window(E, s), T)
    BY <1>2, <2>2 DEF Injection, IsInjective
  <2> QED
    BY <2>1, <2>3, FS_Injection
<1>4. Cardinality(Window(E, s) \ Window(E, t)) <= 1
  <2>1. \A id \in Window(E, s) \ Window(E, t) : id \in E /\ Offset(E, id, s) = MaxCaptures - 1
    BY <1>0, <1>1, <1>2
  <2>2. \A i, j \in Window(E, s) \ Window(E, t) : i = j
    BY <1>2, <2>1
  <2> QED
    BY <2>2, AtMostOne
<1>5. Cardinality(Window(E, t) \ Window(E, s)) <= 1
  <2>1. \A id \in Window(E, t) \ Window(E, s) : id \in E /\ Offset(E, id, s) = n - 1
    BY <1>0, <1>1, <1>2
  <2>2. \A i, j \in Window(E, t) \ Window(E, s) : i = j
    BY <1>2, <2>1
  <2> QED
    BY <2>2, AtMostOne
<1>6. Window(E, s) \in SUBSET E
  BY <1>1
<1> QED
  BY <1>3, <1>4, <1>5, <1>6 DEF t

(* What a tick of the rotation does to the captures.                       *)
Tick(s) ==
    /\ \A id \in NodeId : CanStart(id)' = CanStart(id)
    /\ rotationStart' = (s + 1) % Cardinality(Rotatable)
    /\ StopThenStart(capturing \ Window(Rotatable, s), Window(Rotatable, s))

LEMMA TickFacts ==
    ASSUME IInv, [Next]_vars, Rotating, phase = "frame", framesSince' = 0
    PROVE  /\ Rotatable \in SUBSET NodeId /\ MaxCaptures # None
           /\ Cardinality(Rotatable) \in Nat /\ Cardinality(Rotatable) > MaxCaptures
           /\ Tick(rotationStart % Cardinality(Rotatable))
<1>0. TypeOK
  BY DEF IInv
<1>1. /\ Rotatable \in SUBSET NodeId /\ MaxCaptures # None
      /\ Cardinality(Rotatable) > MaxCaptures
  BY <1>0 DEF TypeOK, Rotatable, Rotating
<1>2. Cardinality(Rotatable) \in Nat
  BY <1>1, FS_Subset, FS_CardinalityType, NodeIdAssumption
<1>3. framesSince # 0
  BY DEF Rotating, FrameCount, ROTATION_FRAME_INTERVAL
<1>4. RenderFrame
  <2>1. ~SkipFrame /\ ~AskForFrame /\ ~UNCHANGED vars
    BY <1>3 DEF SkipFrame, AskForFrame, vars, rotationVars
  <2>2. ~StateEventNext
    BY DEF StateEventNext, NodeProperties, NodePositions, StreamStarted, PeaksDirty, LinkAdded,
           LinkRemoved, NodeRemoved, OtherStateEvent, HandleStateEvent
  <2>3. ~HideNext /\ ~Ready
    BY DEF HideNext, HideInstance, UnhideInstance, ToggleHiddenPermanent, HiddenFileChanged, Ready
  <2>4. \A v, changed : ~Refresh(v, changed)
    BY DEF Refresh
  <2> QED
    BY <2>1, <2>2, <2>3, <2>4 DEF Next, LoopNext
<1>5. RotateCapturing
  BY <1>4 DEF RenderFrame
<1>6. \A id \in NodeId : CanStart(id)' = CanStart(id)
  BY <1>4 DEF RenderFrame, stateVars, hideVars, CanStart, MatchesHidden, Filtered
<1> QED
  BY <1>1, <1>2, <1>5, <1>6 DEF RotateCapturing, Tick

(* A tick of the rotation fills the window one place on from that of the   *)
(* last tick, and from there stops and starts one capture at most.  A      *)
(* global cap could keep the window from being filled, as other instances  *)
(* share it.                                                               *)
THEOREM RotationByOne ==
    ASSUME MaxGlobal = None
    PROVE  Spec => RotationIsStaggered
<1> DEFINE n == Cardinality(Rotatable)
           Last(start) == Window(Rotatable, (start + n - 1) % n)
           s == rotationStart % n
           w == Window(Rotatable, s)
<1>1. ASSUME IInv, [Next]_vars, Rotating, phase = "frame", framesSince' = 0
      PROVE  /\ (\A id \in Rotatable : CanStart(id)) => capturing' = Last(rotationStart')
             /\ capturing = Last(rotationStart) =>
                    /\ Cardinality(capturing \ capturing') <= 1
                    /\ Cardinality(capturing' \ capturing) <= 1
  <2>1. /\ Rotatable \in SUBSET NodeId /\ MaxCaptures # None /\ n \in Nat /\ n > MaxCaptures
        /\ Tick(s)
    BY <1>1, TickFacts
  <2>2. MaxCaptures \in Nat /\ n > 0 /\ rotationStart \in Nat /\ capturing \in SUBSET NodeId
    BY <1>1, <2>1, ConfigAssumption DEF IInv, TypeOK
  <2>3. s \in 0 .. n - 1 /\ Last(rotationStart) = Window(Rotatable, IF s = 0 THEN n - 1 ELSE s - 1)
    BY <2>1, <2>2, Turns
  <2>4. /\ w \in SUBSET Rotatable /\ IsFiniteSet(w) /\ Cardinality(w) <= MaxCaptures
        /\ Cardinality(w \ Last(rotationStart)) <= 1 /\ Cardinality(Last(rotationStart) \ w) <= 1
    BY <2>1, <2>3, Windows
  <2>5. Last(rotationStart') = w
    <3>1. rotationStart' = (s + 1) % n
      BY <2>1 DEF Tick
    <3>2. rotationStart' = IF s = n - 1 THEN 0 ELSE s + 1
      <4>1. /\ \A a \in 0 .. n - 1 : a % n = a
            /\ \A a \in n .. n + n - 1 : a % n = a - n
        BY <2>1, <2>2, Turns
      <4> HIDE DEF s, n
      <4>2. IF s = n - 1 THEN s + 1 \in n .. n + n - 1 ELSE s + 1 \in 0 .. n - 1
        BY <2>1, <2>2, <2>3
      <4> QED
        BY <2>1, <2>2, <2>3, <3>1, <4>1, <4>2
    <3>3. /\ rotationStart' \in 0 .. n - 1 /\ rotationStart' % n = rotationStart'
          /\ (rotationStart' + n - 1) % n
                = IF rotationStart' % n = 0 THEN n - 1 ELSE (rotationStart' % n) - 1
      BY <2>1, <2>2, <2>3, <3>2, Turns
    <3>4. (rotationStart' + n - 1) % n = s
      BY <2>1, <2>2, <2>3, <3>2, <3>3
    <3> QED
      BY <3>4
  <2> HIDE DEF w, s, Last, n
  <2>6. PICK S \in Admit(capturing \cap w, {id \in w \ (capturing \cap w) : CanStart(id)'},
                         GlobalCaptureCount') :
            capturing' = (capturing \cap w) \cup S
    BY <2>1, capturing \ (capturing \ w) = capturing \cap w DEF Tick, StopThenStart, w
  <2>7. S \subseteq w /\ capturing' \subseteq w
    BY <2>6 DEF Admit
  <2>8. ASSUME \A id \in Rotatable : CanStart(id) PROVE capturing' = w
    <3>1. {id \in w \ (capturing \cap w) : CanStart(id)'} = w \ capturing
      BY <2>1, <2>4, <2>8 DEF Tick
    <3>2. S # w \ capturing => AtCap(Cardinality(capturing'), GlobalCaptureCount')
      BY <2>6, <3>1 DEF Admit
    <3>3. Cardinality(capturing') <= Cardinality(w) /\ Cardinality(capturing') \in Nat
          /\ Cardinality(w) \in Nat /\ (Cardinality(capturing') = Cardinality(w) => capturing' = w)
      BY <2>4, <2>7, FS_Subset, FS_CardinalityType
    <3>4. AtCap(Cardinality(capturing'), GlobalCaptureCount') => Cardinality(capturing') >= MaxCaptures
      BY DEF AtCap
    <3>5. CASE S = w \ capturing
      BY <2>6, <3>5
    <3>6. CASE S # w \ capturing
      BY <2>2, <2>4, <3>2, <3>3, <3>4, <3>6
    <3> QED
      BY <3>5, <3>6
  <2>9. ASSUME capturing = Last(rotationStart)
        PROVE  /\ Cardinality(capturing \ capturing') <= 1
               /\ Cardinality(capturing' \ capturing) <= 1
    <3>1. /\ capturing \ capturing' \in SUBSET (capturing \ w)
          /\ capturing' \ capturing \in SUBSET (w \ capturing)
      BY <2>6, <2>7
    <3>2. IsFiniteSet(capturing \ w) /\ IsFiniteSet(w \ capturing)
      BY <2>2, <2>4, FS_Subset, NodeIdAssumption
    <3>3. /\ Cardinality(capturing \ capturing') <= Cardinality(capturing \ w)
          /\ Cardinality(capturing' \ capturing) <= Cardinality(w \ capturing)
          /\ Cardinality(capturing \ capturing') \in Nat /\ Cardinality(capturing' \ capturing) \in Nat
          /\ Cardinality(capturing \ w) \in Nat /\ Cardinality(w \ capturing) \in Nat
      BY <3>1, <3>2, FS_Subset, FS_CardinalityType
    <3> QED
      BY <2>4, <2>9, <3>3
  <2> QED
    BY <2>5, <2>8, <2>9
<1>2. IInv /\ [Next]_vars =>
        [ LET m == Cardinality(Rotatable)
              Before(start) == Window(Rotatable, (start + m - 1) % m)
          IN  Rotating /\ phase = "frame" /\ framesSince' = 0 =>
                /\ (\A id \in Rotatable : CanStart(id)) => capturing' = Before(rotationStart')
                /\ capturing = Before(rotationStart) =>
                       /\ Cardinality(capturing \ capturing') <= 1
                       /\ Cardinality(capturing' \ capturing) <= 1 ]_vars
  BY <1>1
<1> QED
  BY <1>2, Inductive, PTL DEF Spec, RotationIsStaggered
=============================================================================
