--------------------------- MODULE PipelineProofs ---------------------------
(***************************************************************************)
(* The two threads agree about the captures, for every graph, every        *)
(* configuration and channels of every length.  The App decides on its own *)
(* set `capturing`; the streams lag behind it by the commands in flight.   *)
(* The invariant follows them: Running(q, c, k) is what the streams c come *)
(* to when the first k commands of q have been executed.                   *)
(*                                                                         *)
(* The second half follows the events the other way: what the App's mirror *)
(* of the graph, the serials it starts captures by and its meters come to  *)
(* when it has handled those in flight.                                    *)
(***************************************************************************)
EXTENDS Pipeline, CaptureProofs, StreamRegistryProofs, FunctionTheorems

Command == [op : {"stop"}, id : NodeId]
           \cup [op : {"start"}, id : NodeId, serial : Serial \cup {None}]

Event == {e \in [kind : {"props"}, id : NodeId, props : Props] : e.props \in PropsOf[e.id]}
         \cup [kind : {"positions"}, id : NodeId, layout : Layout]
         \cup [kind : {"removed", "stopped"}, id : NodeId]
         \cup [kind : {"started"}, id : NodeId, stream : Stream]

ChannelsTypeOK ==
    /\ cmdQ \in Seq(Command)
    /\ eventQ \in Seq(Event)
    /\ streams \subseteq [id : NodeId, stream : Stream]
    /\ garbageIds \subseteq NodeId

Stops(c, id) == c.op = "stop" /\ c.id = id
Starts(c, id) == c.op = "start" /\ c.id = id

Running(q, c, k) ==
    {id \in NodeId :
        \/ id \in c /\ \A j \in 1 .. k : ~Stops(q[j], id)
        \/ \E i \in 1 .. k : /\ Starts(q[i], id)
                             /\ \A j \in (i + 1) .. k : ~Stops(q[j], id)}

(* All the commands executed, and what they keep the streams within.       *)
Run(q, c) == Running(q, c, Len(q))
Within(q, c, m) == \A k \in 0 .. Len(q) : Running(q, c, k) \subseteq m

RemovalPending(id) ==
    \E i \in 1 .. Len(eventQ) : eventQ[i].kind = "removed" /\ eventQ[i].id = id

(* At every point of the command channel the streams are within the caps,  *)
(* and at its end they are those the App captures, but for a start that    *)
(* failed and for a node whose removal the App has yet to hear of.         *)
InFlightWithinCaps ==
    \A k \in 0 .. Len(cmdQ) : WithinCaps(Running(cmdQ, Captured, k))
EndsInCapturing == Run(cmdQ, Captured) \subseteq capturing
NotStopped == capturing \subseteq Run(cmdQ, NodeId)
NoneMissing ==
    \A id \in capturing \ failed :
        id \in Run(cmdQ, Captured) \/ RemovalPending(id)

CommandsOK == InFlightWithinCaps /\ EndsInCapturing /\ NotStopped /\ NoneMissing

PInv == IInv /\ ChannelsTypeOK /\ CommandsOK

-----------------------------------------------------------------------------
(* SetToSeq enumerates a finite set.                                       *)
LEMMA Enumerates ==
    ASSUME NEW S, IsFiniteSet(S)
    PROVE  /\ Seqs!SetToSeq(S) \in Seq(S)
           /\ \A x \in S : \E i \in 1 .. Len(Seqs!SetToSeq(S)) : Seqs!SetToSeq(S)[i] = x
<1> DEFINE n == Cardinality(S)
           f == Seqs!SetToSeq(S)
<1>1. n \in Nat /\ ExistsBijection(1 .. n, S)
  BY FS_CardinalityType
<1>2. \E g \in [1 .. n -> S] : Seqs!IsInjective(g)
  <2>1. PICK g : g \in Bijection(1 .. n, S)
    BY <1>1 DEF ExistsBijection
  <2>2. /\ g \in [1 .. n -> S]
        /\ \A a, b \in 1 .. n : g[a] = g[b] => a = b
    BY <2>1, Fun_BijectionProperties
  <2> QED
    BY <2>2 DEF Seqs!IsInjective
<1>3. f \in [1 .. n -> S] /\ Seqs!IsInjective(f)
  <2>1. Seqs!Cardinality(S) = n
    BY DEF Seqs!Cardinality, Cardinality
  <2> QED
    BY <1>2, <2>1 DEF Seqs!SetToSeq
<1>4. f \in Injection(1 .. n, S)
  <2>1. \A a, b \in 1 .. n : f[a] = f[b] => a = b
    BY <1>3 DEF Seqs!IsInjective
  <2> QED
    BY <1>3, <2>1, Fun_IsInj
<1>5. f \in Surjection(1 .. n, S)
  <2>1. IsFiniteSet(1 .. n) /\ Cardinality(1 .. n) = n
    BY <1>1, FS_Interval
  <2> QED
    BY <1>4, <2>1, FS_Injection
<1>6. f \in Seq(S) /\ Len(f) = n
  BY <1>1, <1>3
<1>7. \A x \in S : \E i \in 1 .. n : f[i] = x
  BY <1>5 DEF Surjection
<1> QED
  BY <1>6, <1>7

LEMMA FiniteStops ==
    ASSUME NEW I \in SUBSET NodeId
    PROVE  IsFiniteSet({[op |-> "stop", id |-> id] : id \in I})
<1> DEFINE S == {[op |-> "stop", id |-> id] : id \in I}
           f == [id \in I |-> [op |-> "stop", id |-> id]]
<1>1. IsFiniteSet(I)
  BY FS_Subset, NodeIdAssumption
<1>2. f \in Surjection(I, S)
  BY Fun_IsSurj
<1> QED
  BY <1>1, <1>2, FS_Surjection

LEMMA FiniteStarts ==
    ASSUME NEW J \in SUBSET NodeId, NEW n
    PROVE  IsFiniteSet({[op |-> "start", id |-> id, serial |-> n[id].serial] : id \in J})
<1> DEFINE S == {[op |-> "start", id |-> id, serial |-> n[id].serial] : id \in J}
           f == [id \in J |-> [op |-> "start", id |-> id, serial |-> n[id].serial]]
<1>1. IsFiniteSet(J)
  BY FS_Subset, NodeIdAssumption
<1>2. f \in Surjection(J, S)
  BY Fun_IsSurj
<1> QED
  BY <1>1, <1>2, FS_Surjection

-----------------------------------------------------------------------------
(* Commands appended to a channel take effect after those it holds.        *)
LEMMA RunningBefore ==
    ASSUME NEW q \in Seq(Command), NEW w \in Seq(Command), NEW c, NEW k \in 0 .. Len(q)
    PROVE  Running(q \o w, c, k) = Running(q, c, k)
<1>1. \A j \in 1 .. k : (q \o w)[j] = q[j]
  OBVIOUS
<1> HIDE DEF Command
<1> QED
  BY <1>1 DEF Running

LEMMA RunningAfter ==
    ASSUME NEW q \in Seq(Command), NEW w \in Seq(Command), NEW c, NEW k \in 0 .. Len(w)
    PROVE  Running(q \o w, c, Len(q) + k) = Running(w, Running(q, c, Len(q)), k)
<1> DEFINE n == Len(q)
           qw == q \o w
           d == Running(q, c, n)
<1>0. n \in Nat
  OBVIOUS
<1>1. /\ \A j \in 1 .. n : qw[j] = q[j]
      /\ \A j \in 1 .. k : qw[n + j] = w[j]
  OBVIOUS
<1>2. \A j \in (n + 1) .. (n + k) : j - n \in 1 .. k /\ qw[j] = w[j - n]
  BY <1>0, <1>1
<1> HIDE DEF n, qw
<1>3. ASSUME NEW id \in Running(qw, c, n + k) PROVE id \in Running(w, d, k)
  <2>1. CASE \E i \in (n + 1) .. (n + k) :
                /\ Starts(qw[i], id)
                /\ \A j \in (i + 1) .. (n + k) : ~Stops(qw[j], id)
    <3>1. PICK i \in (n + 1) .. (n + k) :
                /\ Starts(qw[i], id)
                /\ \A j \in (i + 1) .. (n + k) : ~Stops(qw[j], id)
      BY <2>1
    <3>2. Starts(w[i - n], id) /\ i - n \in 1 .. k
      BY <1>2, <3>1
    <3>3. \A j \in (i - n + 1) .. k : ~Stops(w[j], id)
      BY <1>0, <1>1, <3>1
    <3> QED
      BY <1>0, <3>2, <3>3 DEF Running
  <2>2. CASE /\ \A j \in (n + 1) .. (n + k) : ~Stops(qw[j], id)
             /\ \/ id \in c /\ \A j \in 1 .. n : ~Stops(qw[j], id)
                \/ \E i \in 1 .. n : /\ Starts(qw[i], id)
                                     /\ \A j \in (i + 1) .. n : ~Stops(qw[j], id)
    <3>1. id \in d
      BY <1>0, <1>1, <2>2 DEF Running
    <3>2. ASSUME NEW j \in 1 .. k PROVE ~Stops(w[j], id)
      <4>1. n + j \in (n + 1) .. (n + k) /\ qw[n + j] = w[j]
        BY <1>0, <1>1
      <4> QED
        BY <2>2, <4>1
    <3> QED
      BY <3>1, <3>2 DEF Running
  <2> QED
    BY <1>0, <2>1, <2>2 DEF Running
<1>4. ASSUME NEW id \in Running(w, d, k) PROVE id \in Running(qw, c, n + k)
  <2>1. CASE \E i \in 1 .. k : /\ Starts(w[i], id)
                               /\ \A j \in (i + 1) .. k : ~Stops(w[j], id)
    <3>1. PICK i \in 1 .. k : /\ Starts(w[i], id)
                              /\ \A j \in (i + 1) .. k : ~Stops(w[j], id)
      BY <2>1
    <3>2. Starts(qw[n + i], id) /\ n + i \in 1 .. (n + k)
      BY <1>0, <1>1, <3>1
    <3>3. \A j \in (n + i + 1) .. (n + k) : ~Stops(qw[j], id)
      BY <1>0, <1>2, <3>1
    <3> QED
      BY <3>2, <3>3 DEF Running
  <2>2. CASE id \in d /\ \A j \in 1 .. k : ~Stops(w[j], id)
    <3>1. \A j \in (n + 1) .. (n + k) : ~Stops(qw[j], id)
      BY <1>2, <2>2
    <3>2. CASE id \in c /\ \A j \in 1 .. n : ~Stops(q[j], id)
      BY <1>0, <1>1, <3>1, <3>2 DEF Running
    <3>3. CASE \E i \in 1 .. n : /\ Starts(q[i], id)
                                 /\ \A j \in (i + 1) .. n : ~Stops(q[j], id)
      <4>1. PICK i \in 1 .. n : /\ Starts(q[i], id)
                                /\ \A j \in (i + 1) .. n : ~Stops(q[j], id)
        BY <3>3
      <4>2. Starts(qw[i], id) /\ i \in 1 .. (n + k)
        BY <1>0, <1>1, <4>1
      <4>3. \A j \in (i + 1) .. (n + k) : ~Stops(qw[j], id)
        BY <1>0, <1>1, <3>1, <4>1
      <4> QED
        BY <4>2, <4>3 DEF Running
    <3> QED
      BY <2>2, <3>2, <3>3 DEF Running
  <2> QED
    BY <2>1, <2>2 DEF Running
<1> QED
  BY <1>3, <1>4 DEF qw, n

(* What a burst of stops, and a burst of starts, does to the streams.      *)
Stopping(w, I) ==
    /\ w \in Seq(Command)
    /\ \A j \in 1 .. Len(w) : w[j].op = "stop" /\ w[j].id \in I
    /\ \A id \in I : \E j \in 1 .. Len(w) : w[j].id = id

Starting(w, J) ==
    /\ w \in Seq(Command) /\ J \subseteq NodeId
    /\ \A j \in 1 .. Len(w) : w[j].op = "start" /\ w[j].id \in J
    /\ \A id \in J : \E j \in 1 .. Len(w) : w[j].id = id

LEMMA RunStopping ==
    ASSUME NEW w, NEW I, Stopping(w, I), NEW d \in SUBSET NodeId
    PROVE  Within(w, d, d) /\ Run(w, d) = d \ I
<1>1. Len(w) \in Nat
  BY DEF Stopping
<1>2. \A j \in 1 .. Len(w) : \A id : ~Starts(w[j], id) /\ (Stops(w[j], id) <=> w[j].id = id)
  BY DEF Stopping, Starts, Stops
<1>3. ASSUME NEW k \in 0 .. Len(w)
      PROVE  Running(w, d, k) = {id \in d : \A j \in 1 .. k : w[j].id # id}
  <2>1. \A j \in 1 .. k : j \in 1 .. Len(w)
    BY <1>1
  <2>2. \A id : ~\E i \in 1 .. k : Starts(w[i], id)
    BY <1>2, <2>1
  <2>3. \A id : (\A j \in 1 .. k : ~Stops(w[j], id)) <=> \A j \in 1 .. k : w[j].id # id
    BY <1>2, <2>1
  <2> QED
    BY <2>2, <2>3 DEF Running
<1> QED
  BY <1>1, <1>3 DEF Stopping, Within, Run

LEMMA RunStarting ==
    ASSUME NEW w, NEW J, Starting(w, J), NEW d \in SUBSET NodeId
    PROVE  Within(w, d, d \cup J) /\ Run(w, d) = d \cup J
<1>1. Len(w) \in Nat
  BY DEF Starting
<1>2. \A j \in 1 .. Len(w) : \A id : ~Stops(w[j], id) /\ (Starts(w[j], id) <=> w[j].id = id)
  BY DEF Starting, Starts, Stops
<1>3. ASSUME NEW k \in 0 .. Len(w)
      PROVE  Running(w, d, k) = d \cup {id \in NodeId : \E i \in 1 .. k : w[i].id = id}
  <2>1. \A j \in 1 .. k : j \in 1 .. Len(w)
    BY <1>1
  <2>2. \A id : \A j \in 1 .. k : ~Stops(w[j], id)
    BY <1>2, <2>1
  <2>3. \A i \in 1 .. k : \A j \in (i + 1) .. k : j \in 1 .. k
    BY <1>1
  <2>4. \A id : \A i \in 1 .. k : Starts(w[i], id) <=> w[i].id = id
    BY <1>2, <2>1
  <2> QED
    BY <2>2, <2>3, <2>4 DEF Running
<1> QED
  BY <1>1, <1>3 DEF Starting, Within, Run

(* While w, appended to q, is executed, the streams are within mid or last.*)
Burst(q, w, c, mid, last) ==
    \A k \in 0 .. Len(q \o w) :
        \/ k \in 0 .. Len(q) /\ Running(q \o w, c, k) = Running(q, c, k)
        \/ Running(q \o w, c, k) \subseteq mid
        \/ Running(q \o w, c, k) \subseteq last

(* Two bursts, when the streams are within mid during the first and within *)
(* last during the second.                                                 *)
LEMMA RunTwo ==
    ASSUME NEW q \in Seq(Command), NEW s \in Seq(Command), NEW t \in Seq(Command),
           NEW c, NEW mid, NEW last,
           Within(s, Run(q, c), mid), Within(t, Run(s, Run(q, c)), last)
    PROVE  /\ Burst(q, s \o t, c, mid, last)
           /\ Run(q \o (s \o t), c) = Run(t, Run(s, Run(q, c)))
<1> DEFINE d == Run(q, c)
           e == Run(s, d)
           f == Run(t, e)
<1>0. /\ d = Running(q, c, Len(q)) /\ e = Running(s, d, Len(s)) /\ f = Running(t, e, Len(t))
      /\ \A k \in 0 .. Len(s) : Running(s, d, k) \subseteq mid
      /\ \A k \in 0 .. Len(t) : Running(t, e, k) \subseteq last
  BY DEF Run, Within
<1> HIDE DEF d, e, f
<1> DEFINE w == q \o (s \o t)
<1>1. /\ s \o t \in Seq(Command)
      /\ Len(s) \in Nat /\ Len(t) \in Nat /\ Len(q) \in Nat
      /\ Len(s \o t) = Len(s) + Len(t) /\ Len(w) = Len(q) + (Len(s) + Len(t))
  OBVIOUS
<1>2. \A k \in 0 .. Len(s) : Running(s \o t, d, k) = Running(s, d, k)
  BY RunningBefore
<1>3. \A k \in 0 .. Len(t) : Running(s \o t, d, Len(s) + k) = Running(t, e, k)
  <2>1. \A k \in 0 .. Len(t) :
           Running(s \o t, d, Len(s) + k) = Running(t, Running(s, d, Len(s)), k)
    BY RunningAfter
  <2> QED
    BY <1>0, <2>1
<1> DEFINE st == s \o t
<1> HIDE DEF st
<1>4. st \in Seq(Command) /\ Len(st) = Len(s) + Len(t)
  BY <1>1 DEF st
<1>5. \A k \in 0 .. Len(q) : Running(q \o st, c, k) = Running(q, c, k)
  BY <1>4, RunningBefore
<1>6. \A k \in 0 .. (Len(s) + Len(t)) : Running(q \o st, c, Len(q) + k) = Running(st, d, k)
  <2>1. \A k \in 0 .. Len(st) :
           Running(q \o st, c, Len(q) + k) = Running(st, Running(q, c, Len(q)), k)
    BY <1>4, RunningAfter
  <2> QED
    BY <1>0, <1>4, <2>1
<1>7. ASSUME NEW k \in 0 .. (Len(s) + Len(t))
      PROVE  /\ Running(st, d, k) \subseteq mid \/ Running(st, d, k) \subseteq last
             /\ k = Len(s) + Len(t) => Running(st, d, k) = f
  <2>1. CASE k \in 0 .. Len(s) /\ k # Len(s) + Len(t)
    BY <1>0, <1>2, <2>1 DEF st
  <2>2. CASE k \notin 0 .. Len(s) \/ k = Len(s) + Len(t)
    <3> DEFINE m == k - Len(s)
    <3>1. m \in 0 .. Len(t) /\ k = Len(s) + m
      BY <1>1, <2>2
    <3>2. k = Len(s) + Len(t) => m = Len(t)
      BY <1>1, <3>1
    <3> HIDE DEF m
    <3> QED
      BY <1>0, <1>3, <3>1, <3>2 DEF st
  <2> QED
    BY <2>1, <2>2
<1>8. ASSUME NEW k \in 0 .. Len(w)
      PROVE  /\ \/ k \in 0 .. Len(q) /\ Running(w, c, k) = Running(q, c, k)
                \/ Running(w, c, k) \subseteq mid
                \/ Running(w, c, k) \subseteq last
             /\ k = Len(w) => Running(w, c, k) = f
  <2>1. CASE k \in 0 .. Len(q) /\ k # Len(w)
    BY <1>5, <2>1 DEF st
  <2>2. CASE k \notin 0 .. Len(q) \/ k = Len(w)
    <3> DEFINE m == k - Len(q)
    <3>1. m \in 0 .. (Len(s) + Len(t)) /\ k = Len(q) + m
      BY <1>1, <2>2
    <3>2. k = Len(w) => m = Len(s) + Len(t)
      BY <1>1, <3>1
    <3> HIDE DEF m
    <3> QED
      BY <1>6, <1>7, <3>1, <3>2 DEF st
  <2> QED
    BY <2>1, <2>2
<1>9. Len(w) \in 0 .. Len(w)
  BY <1>1
<1> HIDE DEF w
<1> QED
  BY <1>8, <1>9 DEF w, d, e, f, Run, Burst

-----------------------------------------------------------------------------
(* What a handler issued and what it did to `capturing` agree: the set is  *)
(* that left by the commands, stops first, and in update_capturing, starts *)
(* first.                                                                  *)
StopsThenStarts == capturing' = (capturing \ issued'.stop) \cup issued'.start
StartsThenStops ==
    /\ capturing' = (capturing \cup issued'.start) \ issued'.stop
    /\ WithinCaps(capturing \cup issued'.start)

LEMMA BooksStopThenStart ==
    ASSUME NEW stopped, NEW candidates, StopThenStart(stopped, candidates)
    PROVE  StopsThenStarts
BY DEF StopThenStart, StopsThenStarts

LEMMA BooksKeep == KeepCaptures => StopsThenStarts
BY DEF KeepCaptures, NoCommands, StopsThenStarts

LEMMA BooksStop == ASSUME NEW id, StopCapture(id) PROVE StopsThenStarts
BY DEF StopCapture, StopsThenStarts

LEMMA BooksStart == ASSUME NEW id, StartCapture(id) PROVE StopsThenStarts
<1>1. CASE id \in capturing
  BY <1>1 DEF StartCapture, StopsThenStarts
<1>2. CASE id \notin capturing
  BY <1>2, BooksStopThenStart DEF StartCapture
<1> QED
  BY <1>1, <1>2

LEMMA BooksEligibility ==
    ASSUME NEW e, NEW id, SetCaptureEligibility(e, id) PROVE StopsThenStarts
BY BooksKeep, BooksStop, BooksStart DEF SetCaptureEligibility

LEMMA BooksStateEvent == StateEventNext => StopsThenStarts
BY BooksKeep, BooksEligibility
   DEF StateEventNext, NodeProperties, NodePositions, StreamStarted, PeaksDirty,
       LinkAdded, LinkRemoved, NodeRemoved, OtherStateEvent

LEMMA BooksAppStep ==
    Ready \/ HideNext \/ RenderFrame \/ SkipFrame \/ AskForFrame => StopsThenStarts
<1>1. HideNext => StopsThenStarts
  BY BooksKeep, BooksStop, BooksStart, BooksStopThenStart, ConfigAssumption
     DEF HideNext, HideInstance, UnhideInstance, ToggleHiddenPermanent, HiddenFileChanged
<1>2. RenderFrame => StopsThenStarts
  BY BooksKeep, BooksStopThenStart DEF RenderFrame, RotateCapturing
<1> QED
  BY <1>1, <1>2, BooksKeep DEF Ready, SkipFrame, AskForFrame

LEMMA BooksRefresh ==
    ASSUME IInv, TypeOK', NEW v, NEW changed, Refresh(v, changed)
    PROVE  StartsThenStops
<1>0. /\ capturing \in SUBSET NodeId /\ capturable \in SUBSET NodeId
      /\ visible' \in SUBSET NodeId /\ WithinCaps(capturing)
  BY DEF IInv, TypeOK
<1>1. CASE KeepCaptures
  BY <1>0, <1>1 DEF KeepCaptures, NoCommands, StartsThenStops
<1>2. CASE UpdateCapturing
  <2> DEFINE wanted == {id \in (visible' \cap capturable) \ capturing : CanStart(id)'}
  <2>1. PICK S \in Admit(capturing, wanted, GlobalCaptureCount') :
          /\ capturing' = (capturing \cup S) \cap visible'
          /\ issued' = [stop |-> capturing \ visible', start |-> S]
    BY <1>2 DEF UpdateCapturing
  <2>2. wanted \in SUBSET NodeId /\ S \subseteq wanted
    BY <1>0 DEF Admit
  <2>3. WithinCaps(capturing \cup S)
    BY <1>0, <2>1, <2>2, AdmitWithinCaps
  <2>4. (capturing \cup S) \cap visible' = (capturing \cup S) \ (capturing \ visible')
    BY <2>2
  <2> QED
    BY <2>1, <2>3, <2>4 DEF StartsThenStops
<1> QED
  BY <1>1, <1>2 DEF Refresh

(* Issue sends the stops and the starts of the handler, in either order.   *)
LEMMA IssueBursts ==
    ASSUME TypeOK', NEW startsFirst \in BOOLEAN, Issue(startsFirst)
    PROVE  \E s, t : /\ Stopping(s, issued'.stop) /\ Starting(t, issued'.start)
                     /\ \A j \in 1 .. Len(t) : t[j].serial = node'[t[j].id].serial
                     /\ cmdQ' = cmdQ \o (IF startsFirst THEN t \o s ELSE s \o t)
<1> DEFINE I == issued'.stop
           J == issued'.start
           n == node'
           S == {[op |-> "stop", id |-> id] : id \in I}
           T == {[op |-> "start", id |-> id, serial |-> n[id].serial] : id \in J}
           s == Seqs!SetToSeq(S)
           t == Seqs!SetToSeq(T)
<1>0. /\ I \in SUBSET NodeId /\ J \in SUBSET NodeId
      /\ \A id \in NodeId : n[id].serial \in Serial \cup {None}
  BY DEF TypeOK, StateTypeOK, Node
<1>1. S \subseteq Command /\ T \subseteq Command
  BY <1>0 DEF Command
<1>2. IsFiniteSet(S) /\ IsFiniteSet(T)
  BY <1>0, FiniteStops, FiniteStarts
<1>3. /\ s \in Seq(S) /\ \A x \in S : \E i \in 1 .. Len(s) : s[i] = x
      /\ t \in Seq(T) /\ \A x \in T : \E i \in 1 .. Len(t) : t[i] = x
  BY <1>2, Enumerates
<1>4. cmdQ' = cmdQ \o (IF startsFirst THEN t \o s ELSE s \o t)
  BY DEF Issue
<1> HIDE DEF s, t, I, J, n
<1>5. Stopping(s, I)
  <2>1. \A j \in 1 .. Len(s) : s[j] \in S
    BY <1>3
  <2>2. s \in Seq(Command)
    BY <1>1, <1>3
  <2>3. \A x \in S : x.op = "stop" /\ x.id \in I
    OBVIOUS
  <2>4. ASSUME NEW id \in I PROVE \E j \in 1 .. Len(s) : s[j].id = id
    <3>1. [op |-> "stop", id |-> id] \in S
      OBVIOUS
    <3>2. PICK j \in 1 .. Len(s) : s[j] = [op |-> "stop", id |-> id]
      BY <1>3, <3>1
    <3> QED
      BY <3>2
  <2> HIDE DEF S
  <2>5. \A j \in 1 .. Len(s) : s[j].op = "stop" /\ s[j].id \in I
    BY <2>1, <2>3
  <2> QED
    BY <2>2, <2>4, <2>5 DEF Stopping
<1>6. Starting(t, J)
  <2>1. \A j \in 1 .. Len(t) : t[j] \in T
    BY <1>3
  <2>2. t \in Seq(Command)
    BY <1>1, <1>3
  <2>3. \A x \in T : x.op = "start" /\ x.id \in J
    OBVIOUS
  <2>4. ASSUME NEW id \in J PROVE \E j \in 1 .. Len(t) : t[j].id = id
    <3>1. [op |-> "start", id |-> id, serial |-> n[id].serial] \in T
      OBVIOUS
    <3>2. PICK j \in 1 .. Len(t) : t[j] = [op |-> "start", id |-> id, serial |-> n[id].serial]
      BY <1>3, <3>1
    <3> QED
      BY <3>2
  <2> HIDE DEF T
  <2>5. \A j \in 1 .. Len(t) : t[j].op = "start" /\ t[j].id \in J
    BY <2>1, <2>3
  <2> QED
    BY <1>0, <2>2, <2>4, <2>5 DEF Starting, J
<1>7. \A j \in 1 .. Len(t) : t[j].serial = n[t[j].id].serial
  <2>1. \A j \in 1 .. Len(t) : t[j] \in T
    BY <1>3
  <2>2. \A x \in T : x.serial = n[x.id].serial
    OBVIOUS
  <2> HIDE DEF T
  <2> QED
    BY <2>1, <2>2
<1> QED
  BY <1>4, <1>5, <1>6, <1>7 DEF I, J, n

(* A step of the App keeps the invariant of the commands in flight.        *)
AppStepOK ==
    /\ Captured' = Captured /\ failed' = failed
    /\ \A id \in capturing' : RemovalPending(id) => RemovalPending(id)'

LEMMA CommandsStopsFirst ==
    ASSUME TypeOK, TypeOK', cmdQ \in Seq(Command), CommandsOK,
           WithinCaps(capturing), WithinCaps(capturing)',
           StopsThenStarts, Issue(FALSE), AppStepOK
    PROVE  cmdQ' \in Seq(Command) /\ CommandsOK'
<1> DEFINE I == issued'.stop
           J == issued'.start
           Q == cmdQ'
           C == Captured
           d == Run(cmdQ, C)
<1>0. /\ J \in SUBSET NodeId /\ capturing \in SUBSET NodeId
      /\ capturing' \in SUBSET NodeId
      /\ capturing' = (capturing \ I) \cup J /\ WithinCaps(capturing')
      /\ d \subseteq capturing
  BY DEF TypeOK, StopsThenStarts, WithinCaps, CommandsOK, EndsInCapturing
<1>1. PICK s, t : /\ Stopping(s, I) /\ Starting(t, J)
                  /\ cmdQ' = cmdQ \o (s \o t)
  BY IssueBursts
<1>2. cmdQ' \in Seq(Command) /\ s \in Seq(Command) /\ t \in Seq(Command)
  BY <1>1 DEF Stopping, Starting
<1> HIDE DEF I, J, Q, C, d
<1>3. ASSUME NEW c
      PROVE  /\ \A k \in 0 .. Len(Q) :
                   \/ k \in 0 .. Len(cmdQ) /\ Running(Q, c, k) = Running(cmdQ, c, k)
                   \/ Running(Q, c, k) \subseteq Run(cmdQ, c)
                   \/ Running(Q, c, k) \subseteq (Run(cmdQ, c) \ I) \cup J
             /\ Run(Q, c) = (Run(cmdQ, c) \ I) \cup J
  <2> DEFINE e == Run(cmdQ, c)
             m == (e \ I) \cup J
  <2>1. e \in SUBSET NodeId /\ e \ I \in SUBSET NodeId
    BY DEF Run, Running
  <2> HIDE DEF e
  <2>2. Within(s, e, e) /\ Run(s, e) = e \ I
    BY <1>1, <2>1, RunStopping
  <2>3. Within(t, e \ I, m) /\ Run(t, e \ I) = m
    BY <1>1, <2>1, RunStarting
  <2> HIDE DEF m
  <2>4. /\ Within(s, Run(cmdQ, c), e) /\ Within(t, Run(s, Run(cmdQ, c)), m)
        /\ Run(t, Run(s, Run(cmdQ, c))) = m
    BY <2>2, <2>3 DEF e
  <2>5. /\ Burst(cmdQ, s \o t, c, e, m)
        /\ Run(cmdQ \o (s \o t), c) = Run(t, Run(s, Run(cmdQ, c)))
    BY <1>2, <2>4, RunTwo
  <2>6. Q = cmdQ \o (s \o t)
    BY <1>1 DEF Q
  <2> QED
    BY <2>4, <2>5, <2>6 DEF Burst, e, m
<1>4. ASSUME NEW k \in 0 .. Len(Q) PROVE WithinCaps(Running(Q, C, k))
  <2>1. CASE k \in 0 .. Len(cmdQ) /\ Running(Q, C, k) = Running(cmdQ, C, k)
    BY <2>1 DEF CommandsOK, InFlightWithinCaps, C
  <2>2. CASE Running(Q, C, k) \subseteq d
    <3>1. Running(Q, C, k) \in SUBSET capturing
      BY <1>0, <2>2
    <3> QED
      BY <1>0, <3>1, FewerWithinCaps
  <2>3. CASE Running(Q, C, k) \subseteq (d \ I) \cup J
    <3>1. Running(Q, C, k) \in SUBSET capturing'
      BY <1>0, <2>3
    <3> QED
      BY <1>0, <3>1, FewerWithinCaps
  <2> QED
    BY <1>3, <2>1, <2>2, <2>3 DEF d
<1>5. Run(Q, C) = (d \ I) \cup J
  BY <1>3 DEF d
<1>6. Run(Q, C) \subseteq capturing'
  BY <1>0, <1>5
<1>7. capturing' \subseteq Run(Q, NodeId)
  <2>1. capturing \subseteq Run(cmdQ, NodeId)
    BY DEF CommandsOK, NotStopped
  <2>2. Run(Q, NodeId) = (Run(cmdQ, NodeId) \ I) \cup J
    BY <1>3
  <2> QED
    BY <1>0, <2>1, <2>2
<1>8. \A id \in capturing' \ failed : id \in Run(Q, C) \/ RemovalPending(id)'
  <2>1. \A id \in capturing \ failed : id \in d \/ RemovalPending(id)
    BY DEF CommandsOK, NoneMissing, d, C
  <2> QED
    BY <1>0, <1>5, <2>1 DEF AppStepOK
<1>9. Captured' = C /\ failed' = failed
  BY DEF AppStepOK, C
<1>10. InFlightWithinCaps'
  BY <1>4, <1>9 DEF InFlightWithinCaps, Q
<1>11. EndsInCapturing' /\ NotStopped'
  BY <1>6, <1>7, <1>9 DEF EndsInCapturing, NotStopped, Q
<1>12. NoneMissing'
  BY <1>8, <1>9 DEF NoneMissing, Q
<1> QED
  BY <1>2, <1>10, <1>11, <1>12 DEF CommandsOK

LEMMA CommandsStartsFirst ==
    ASSUME TypeOK, TypeOK', cmdQ \in Seq(Command), CommandsOK,
           StartsThenStops, Issue(TRUE), AppStepOK
    PROVE  cmdQ' \in Seq(Command) /\ CommandsOK'
<1> DEFINE I == issued'.stop
           J == issued'.start
           Q == cmdQ'
           C == Captured
           d == Run(cmdQ, C)
<1>0. /\ J \in SUBSET NodeId /\ capturing \cup J \in SUBSET NodeId
      /\ capturing' = (capturing \cup J) \ I /\ WithinCaps(capturing \cup J)
      /\ d \subseteq capturing
  BY DEF TypeOK, StartsThenStops, CommandsOK, EndsInCapturing
<1>1. PICK s, t : /\ Stopping(s, I) /\ Starting(t, J)
                  /\ cmdQ' = cmdQ \o (t \o s)
  BY IssueBursts
<1>2. cmdQ' \in Seq(Command) /\ s \in Seq(Command) /\ t \in Seq(Command)
  BY <1>1 DEF Stopping, Starting
<1> HIDE DEF I, J, Q, C, d
<1>3. ASSUME NEW c
      PROVE  /\ \A k \in 0 .. Len(Q) :
                   \/ k \in 0 .. Len(cmdQ) /\ Running(Q, c, k) = Running(cmdQ, c, k)
                   \/ Running(Q, c, k) \subseteq Run(cmdQ, c) \cup J
             /\ Run(Q, c) = (Run(cmdQ, c) \cup J) \ I
  <2> DEFINE e == Run(cmdQ, c)
             m == e \cup J
  <2>1. e \in SUBSET NodeId /\ m \in SUBSET NodeId
    BY <1>0 DEF Run, Running
  <2> HIDE DEF e
  <2>2. Within(t, e, m) /\ Run(t, e) = m
    BY <1>1, <2>1, RunStarting
  <2> HIDE DEF m
  <2>3. Within(s, m, m) /\ Run(s, m) = m \ I
    BY <1>1, <2>1, RunStopping
  <2>4. /\ Within(t, Run(cmdQ, c), m) /\ Within(s, Run(t, Run(cmdQ, c)), m)
        /\ Run(s, Run(t, Run(cmdQ, c))) = m \ I
    BY <2>2, <2>3 DEF e
  <2>5. /\ Burst(cmdQ, t \o s, c, m, m)
        /\ Run(cmdQ \o (t \o s), c) = Run(s, Run(t, Run(cmdQ, c)))
    BY <1>2, <2>4, RunTwo
  <2>6. Q = cmdQ \o (t \o s)
    BY <1>1 DEF Q
  <2> QED
    BY <2>4, <2>5, <2>6 DEF Burst, e, m
<1>4. ASSUME NEW k \in 0 .. Len(Q) PROVE WithinCaps(Running(Q, C, k))
  <2>1. CASE k \in 0 .. Len(cmdQ) /\ Running(Q, C, k) = Running(cmdQ, C, k)
    BY <2>1 DEF CommandsOK, InFlightWithinCaps, C
  <2>2. CASE Running(Q, C, k) \subseteq d \cup J
    <3>1. Running(Q, C, k) \in SUBSET (capturing \cup J)
      BY <1>0, <2>2
    <3> QED
      BY <1>0, <3>1, FewerWithinCaps
  <2> QED
    BY <1>3, <2>1, <2>2 DEF d
<1>5. Run(Q, C) = (d \cup J) \ I
  BY <1>3 DEF d
<1>6. Run(Q, C) \subseteq capturing'
  BY <1>0, <1>5
<1>7. capturing' \subseteq Run(Q, NodeId)
  <2>1. capturing \subseteq Run(cmdQ, NodeId)
    BY DEF CommandsOK, NotStopped
  <2>2. Run(Q, NodeId) = (Run(cmdQ, NodeId) \cup J) \ I
    BY <1>3
  <2> QED
    BY <1>0, <2>1, <2>2
<1>8. \A id \in capturing' \ failed : id \in Run(Q, C) \/ RemovalPending(id)'
  <2>1. \A id \in capturing \ failed : id \in d \/ RemovalPending(id)
    BY DEF CommandsOK, NoneMissing, d, C
  <2> QED
    BY <1>0, <1>5, <2>1 DEF AppStepOK
<1>9. Captured' = C /\ failed' = failed
  BY DEF AppStepOK, C
<1>10. InFlightWithinCaps'
  BY <1>4, <1>9 DEF InFlightWithinCaps, Q
<1>11. EndsInCapturing' /\ NotStopped'
  BY <1>6, <1>7, <1>9 DEF EndsInCapturing, NotStopped, Q
<1>12. NoneMissing'
  BY <1>8, <1>9 DEF NoneMissing, Q
<1> QED
  BY <1>2, <1>10, <1>11, <1>12 DEF CommandsOK

(* A step of the PipeWire thread other than a command: streams may only go,*)
(* and a stream that goes unasked has its removal announced.               *)
LEMMA CommandsUntouched ==
    ASSUME cmdQ \in Seq(Command), CommandsOK,
           UNCHANGED <<cmdQ, capturing, failed>>, Captured \subseteq NodeId,
           Captured' \subseteq Captured,
           \A id \in NodeId : RemovalPending(id) => RemovalPending(id)',
           \A id \in Captured \ Captured' : RemovalPending(id)'
    PROVE  cmdQ' \in Seq(Command) /\ CommandsOK'
<1> DEFINE C == Captured
           D == Captured'
<1> HIDE DEF C, D
<1>1. D \subseteq C /\ C \subseteq NodeId
  BY DEF C, D
<1>2. \A k \in 0 .. Len(cmdQ) :
         /\ Running(cmdQ, D, k) \subseteq Running(cmdQ, C, k)
         /\ Running(cmdQ, C, k) \ Running(cmdQ, D, k) \subseteq C \ D
  BY <1>1 DEF Running
<1>3. Len(cmdQ) \in 0 .. Len(cmdQ)
  OBVIOUS
<1>4. ASSUME NEW k \in 0 .. Len(cmdQ) PROVE WithinCaps(Running(cmdQ, D, k))
  <2>1. WithinCaps(Running(cmdQ, C, k))
    BY DEF CommandsOK, InFlightWithinCaps, C
  <2>2. /\ Running(cmdQ, C, k) \in SUBSET NodeId
        /\ Running(cmdQ, D, k) \in SUBSET Running(cmdQ, C, k)
    BY <1>2 DEF Running
  <2> QED
    BY <2>1, <2>2, FewerWithinCaps
<1>5. /\ Run(cmdQ, D) \subseteq Run(cmdQ, C)
      /\ Run(cmdQ, C) \ Run(cmdQ, D) \subseteq C \ D
  BY <1>2, <1>3 DEF Run
<1>6. Run(cmdQ, D) \subseteq capturing
  BY <1>5 DEF CommandsOK, EndsInCapturing, C
<1>7. capturing \subseteq Run(cmdQ, NodeId)
  BY DEF CommandsOK, NotStopped
<1>8. \A id \in capturing \ failed : id \in Run(cmdQ, D) \/ RemovalPending(id)'
  <2>1. \A id \in capturing \ failed : id \in Run(cmdQ, C) \/ RemovalPending(id)
    BY DEF CommandsOK, NoneMissing, C
  <2>2. \A id \in C \ D : RemovalPending(id)'
    BY DEF C, D
  <2>3. capturing \subseteq NodeId
    BY <1>7 DEF Run, Running
  <2> QED
    BY <1>5, <2>1, <2>2, <2>3
<1>10. InFlightWithinCaps'
  BY <1>4 DEF InFlightWithinCaps, D
<1>11. EndsInCapturing' /\ NotStopped'
  BY <1>6, <1>7 DEF EndsInCapturing, NotStopped, D
<1>12. NoneMissing'
  BY <1>8 DEF NoneMissing, D
<1> QED
  BY <1>10, <1>11, <1>12 DEF CommandsOK

(* Whether id runs depends on the streams only as far as id is concerned.  *)
LEMMA RunningPointwise ==
    ASSUME NEW q, NEW c, NEW d, NEW k, NEW id, id \in c <=> id \in d
    PROVE  id \in Running(q, c, k) <=> id \in Running(q, d, k)
BY DEF Running

LEMMA RunningMonotone ==
    ASSUME NEW q, NEW c, NEW d, NEW k, c \subseteq d
    PROVE  Running(q, c, k) \subseteq Running(q, d, k)
BY DEF Running

(* Executing the first command: the streams c have become those it leaves. *)
Executed(cmd, c) == IF cmd.op = "start" THEN c \cup {cmd.id} ELSE c \ {cmd.id}

LEMMA RunningFirst ==
    ASSUME NEW q \in Seq(Command), q # <<>>, NEW c \in SUBSET NodeId,
           NEW k \in 0 .. Len(Tail(q))
    PROVE  Running(q, c, k + 1) = Running(Tail(q), Executed(Head(q), c), k)
<1> DEFINE h == Head(q)
           w == Tail(q)
<1>1. /\ h \in Command /\ w \in Seq(Command) /\ Len(w) \in Nat
      /\ <<h>> \in Seq(Command) /\ Len(<<h>>) = 1 /\ <<h>>[1] = h
  OBVIOUS
<1>2. q = <<h>> \o w
  OBVIOUS
<1>3. Running(<<h>>, c, 1) = Executed(h, c)
  <2>1. h.id \in NodeId /\ h.op \in {"start", "stop"}
    BY <1>1 DEF Command
  <2>2. Running(<<h>>, c, 1) =
          {id \in NodeId : (id \in c /\ ~Stops(h, id)) \/ Starts(h, id)}
    BY DEF Running
  <2> QED
    BY <2>1, <2>2 DEF Stops, Starts, Executed
<1> HIDE DEF h, w
<1>4. Running(<<h>> \o w, c, 1 + k) = Running(w, Running(<<h>>, c, 1), k)
  <2>1. k \in 0 .. Len(w)
    BY DEF w
  <2>2. \A j \in 0 .. Len(w) : Running(<<h>> \o w, c, Len(<<h>>) + j)
                                = Running(w, Running(<<h>>, c, Len(<<h>>)), j)
    BY <1>1, RunningAfter
  <2> QED
    BY <1>1, <2>1, <2>2
<1>5. k + 1 = 1 + k
  OBVIOUS
<1> QED
  BY <1>2, <1>3, <1>4, <1>5 DEF h, w

(* The streams after a command: those it leaves, unless a start failed.    *)
LEMMA StreamsAfterCommand ==
    ASSUME ExecuteCommand
    PROVE  \/ /\ Captured' = Executed(Head(cmdQ), Captured)
              /\ failed' = failed \ {Head(cmdQ).id}
           \/ /\ Captured' = Captured
              /\ Head(cmdQ).op = "start"
              /\ failed' = failed \cup {Head(cmdQ).id}
<1> DEFINE c == Head(cmdQ)
<1>1. CASE ExecuteStop(c)
  <2>1. streams' = {e \in streams : e.id # c.id}
    BY <1>1 DEF ExecuteStop, Remove, At
  <2>2. Captured' = Captured \ {c.id}
    BY <2>1 DEF Captured
  <2> QED
    BY <1>1, <2>2 DEF ExecuteStop, Executed
<1>2. CASE ExecuteStart(c) /\ failed' # failed \cup {c.id}
  <2>1. PICK s : AddStream(c.id, s) /\ failed' = failed \ {c.id}
    BY <1>2 DEF ExecuteStart
  <2>2. streams' = {e \in streams : e.id # c.id} \cup {[id |-> c.id, stream |-> s]}
    BY <2>1 DEF AddStream, At
  <2>3. Captured' = Captured \cup {c.id}
    <3> DEFINE n == [id |-> c.id, stream |-> s]
    <3>1. n.id = c.id
      OBVIOUS
    <3> HIDE DEF n
    <3>2. \A e : e \in streams' <=> (e \in streams /\ e.id # c.id) \/ e = n
      BY <2>2 DEF n
    <3> QED
      BY <3>1, <3>2 DEF Captured
  <2> QED
    BY <1>2, <2>1, <2>3 DEF ExecuteStart, Executed
<1>3. CASE ExecuteStart(c) /\ failed' = failed \cup {c.id}
  <2>1. CASE UNCHANGED registryVars
    BY <1>3, <2>1 DEF ExecuteStart, registryVars, Captured
  <2>2. CASE ~UNCHANGED registryVars
    BY <1>3, <2>2 DEF ExecuteStart
  <2> QED
    BY <2>1, <2>2
<1> QED
  BY <1>1, <1>2, <1>3 DEF ExecuteCommand

LEMMA CommandsExecuted ==
    ASSUME cmdQ \in Seq(Command), CommandsOK, Captured \subseteq NodeId,
           ExecuteCommand
    PROVE  cmdQ' \in Seq(Command) /\ CommandsOK'
<1> DEFINE h == Head(cmdQ)
           Q == Tail(cmdQ)
           C == Captured
           D == Captured'
<1>0. /\ cmdQ # <<>> /\ cmdQ' = Q /\ capturing' = capturing /\ eventQ' = eventQ
  BY DEF ExecuteCommand, AppIdle, vars, captureVars
<1>1. /\ h \in Command /\ Q \in Seq(Command) /\ Len(Q) \in Nat
      /\ Len(cmdQ) = Len(Q) + 1 /\ h.id \in NodeId
  BY <1>0 DEF Command
<1>2. \/ D = Executed(h, C) /\ failed' = failed \ {h.id}
      \/ D = C /\ h.op = "start" /\ failed' = failed \cup {h.id}
  BY StreamsAfterCommand
<1>3. \A c \in SUBSET NodeId, k \in 0 .. Len(Q) :
         Running(cmdQ, c, k + 1) = Running(Q, Executed(h, c), k)
  BY <1>0, RunningFirst
<1>4. \A c \in SUBSET NodeId : Run(cmdQ, c) = Run(Q, Executed(h, c))
  BY <1>1, <1>3 DEF Run
<1> HIDE DEF h, Q, C, D
<1>5. C \in SUBSET NodeId /\ D \subseteq Executed(h, C)
  BY <1>2 DEF C, Executed
<1>6. ASSUME NEW k \in 0 .. Len(Q) PROVE WithinCaps(Running(Q, D, k))
  <2>1. k + 1 \in 0 .. Len(cmdQ)
    BY <1>1
  <2>2. WithinCaps(Running(cmdQ, C, k + 1))
    BY <2>1 DEF CommandsOK, InFlightWithinCaps, C
  <2>3. Running(Q, D, k) \subseteq Running(cmdQ, C, k + 1)
    <3>1. Running(cmdQ, C, k + 1) = Running(Q, Executed(h, C), k)
      BY <1>3, <1>5
    <3>2. Running(Q, D, k) \subseteq Running(Q, Executed(h, C), k)
      BY <1>5, RunningMonotone
    <3> QED
      BY <3>1, <3>2
  <2>4. Running(cmdQ, C, k + 1) \in SUBSET NodeId
    BY DEF Running
  <2> QED
    BY <2>2, <2>3, <2>4, FewerWithinCaps
<1>7. Run(Q, D) \subseteq capturing
  <2>1. Run(Q, D) \subseteq Run(cmdQ, C)
    BY <1>4, <1>5, RunningMonotone DEF Run
  <2> QED
    BY <2>1 DEF CommandsOK, EndsInCapturing, C
<1>8. capturing \subseteq Run(Q, NodeId) /\ capturing \subseteq Run(Q, Executed(h, NodeId))
  <2>1. capturing \subseteq Run(cmdQ, NodeId)
    BY DEF CommandsOK, NotStopped
  <2>2. Executed(h, NodeId) \subseteq NodeId
    BY <1>1 DEF Executed
  <2> QED
    BY <1>4, <2>1, <2>2, RunningMonotone DEF Run
<1>9. ASSUME NEW id \in capturing \ failed' PROVE id \in Run(Q, D) \/ RemovalPending(id)
  <2>1. CASE id # h.id
    <3>1. id \in Run(cmdQ, C) \/ RemovalPending(id)
      BY <1>2, <2>1 DEF CommandsOK, NoneMissing, C
    <3>2. id \in Executed(h, C) <=> id \in D
      BY <1>2, <2>1 DEF Executed
    <3>3. id \in Run(Q, Executed(h, C)) <=> id \in Run(Q, D)
      BY <3>2, RunningPointwise DEF Run
    <3> QED
      BY <1>4, <1>5, <3>1, <3>3
  <2>2. CASE id = h.id
    <3>1. D = Executed(h, C)
      BY <1>2, <2>2
    <3>2. id \in Executed(h, NodeId) <=> id \in D
      BY <1>1, <2>2, <3>1 DEF Executed
    <3>3. id \in Run(Q, Executed(h, NodeId)) <=> id \in Run(Q, D)
      BY <3>2, RunningPointwise DEF Run
    <3> QED
      BY <1>8, <3>3
  <2> QED
    BY <2>1, <2>2
<1>10. InFlightWithinCaps'
  BY <1>0, <1>6 DEF InFlightWithinCaps, D
<1>11. EndsInCapturing' /\ NotStopped'
  BY <1>0, <1>7, <1>8 DEF EndsInCapturing, NotStopped, D
<1>12. NoneMissing'
  BY <1>0, <1>9 DEF NoneMissing, D, RemovalPending
<1> QED
  BY <1>0, <1>1, <1>10, <1>11, <1>12 DEF CommandsOK

-----------------------------------------------------------------------------
(* Every step of the two threads is a step of the capture manager or       *)
(* leaves it alone.                                                        *)
LEMMA EventFields ==
    ASSUME NEW e \in Event
    PROVE  /\ e.id \in NodeId
           /\ e.kind = "props" => e.props \in PropsOf[e.id]
           /\ e.kind = "positions" => e.layout \in Layout
<1>1. CASE e \in {x \in [kind : {"props"}, id : NodeId, props : Props] : x.props \in PropsOf[x.id]}
  BY <1>1
<1>2. CASE e \in [kind : {"positions"}, id : NodeId, layout : Layout]
  BY <1>2
<1>3. CASE e \in [kind : {"removed", "stopped"}, id : NodeId]
  BY <1>3
<1>4. CASE e \in [kind : {"started"}, id : NodeId, stream : Stream]
  BY <1>4
<1> QED
  BY <1>1, <1>2, <1>3, <1>4 DEF Event

LEMMA HandledEvent ==
    ASSUME ChannelsTypeOK, HandleEvent
    PROVE  StateEventNext
<1>1. PICK e \in Event : Apply(e)
  BY DEF HandleEvent, ChannelsTypeOK
<1>2. /\ e.id \in NodeId
      /\ e.kind = "props" => e.props \in PropsOf[e.id]
      /\ e.kind = "positions" => e.layout \in Layout
  BY EventFields
<1> QED
  BY <1>1, <1>2 DEF Apply, StateEventNext

LEMMA AppStepNext == AppStep => Next
BY DEF AppStep, Next, LoopNext

LEMMA PwStepIdle == PwStep => UNCHANGED vars
BY DEF PwStep, AppIdle, NodeAppears, NodeInfo, PortConfig, NodeVanishes, StreamFormat,
       CollectStreams, ExecuteCommand

LEMMA PipelineStep ==
    ASSUME ChannelsTypeOK, [PipelineNext]_pipelineVars
    PROVE  [Next]_vars
BY HandledEvent, AppStepNext, PwStepIdle DEF PipelineNext, pipelineVars, Next

LEMMA IInvNext == IInv /\ [Next]_vars => IInv'
<1> SUFFICES ASSUME IInv, [Next]_vars PROVE IInv'
  OBVIOUS
<1>1. TypeOK /\ CapturesOK
  BY IInvParts
<1>2. TypeOK' /\ CapturesOK'
  BY <1>1, TypeNext, CapturesNext
<1> QED
  BY <1>2 DEF IInv, CapturesOK, Allowed, CapturesAreEligible,
              HiddenInstanceNotCaptured, LazyCapturesVisible

-----------------------------------------------------------------------------
(* Events sent keep the channel well typed and the removals in it.         *)
LEMMA Sent ==
    ASSUME eventQ \in Seq(Event), NEW w \in Seq(Event), eventQ' = eventQ \o w
    PROVE  /\ eventQ' \in Seq(Event)
           /\ \A id : RemovalPending(id) => RemovalPending(id)'
           /\ \A i \in 1 .. Len(w) : \A id :
                 w[i].kind = "removed" /\ w[i].id = id => RemovalPending(id)'
<1> DEFINE n == Len(eventQ)
           q == eventQ'
<1>1. /\ eventQ' \in Seq(Event) /\ n \in Nat /\ Len(w) \in Nat /\ Len(q) = n + Len(w)
      /\ \A i \in 1 .. n : q[i] = eventQ[i]
      /\ \A i \in 1 .. Len(w) : q[n + i] = w[i]
  BY DEF Event
<1> HIDE DEF n, q
<1>2. ASSUME NEW id, RemovalPending(id) PROVE RemovalPending(id)'
  <2>1. PICK i \in 1 .. n : eventQ[i].kind = "removed" /\ eventQ[i].id = id
    BY <1>2 DEF RemovalPending, n
  <2>2. i \in 1 .. Len(q) /\ q[i] = eventQ[i]
    BY <1>1
  <2> QED
    BY <2>1, <2>2 DEF RemovalPending, q
<1>3. ASSUME NEW i \in 1 .. Len(w), NEW id, w[i].kind = "removed", w[i].id = id
      PROVE  RemovalPending(id)'
  <2>1. n + i \in 1 .. Len(q) /\ q[n + i] = w[i]
    BY <1>1
  <2> QED
    BY <1>3, <2>1 DEF RemovalPending, q
<1> QED
  BY <1>1, <1>2, <1>3 DEF q

LEMMA FiniteStopped ==
    ASSUME NEW I \in SUBSET NodeId
    PROVE  IsFiniteSet({[kind |-> "stopped", id |-> id] : id \in I})
<1> DEFINE S == {[kind |-> "stopped", id |-> id] : id \in I}
           f == [id \in I |-> [kind |-> "stopped", id |-> id]]
<1>1. IsFiniteSet(I)
  BY FS_Subset, NodeIdAssumption
<1>2. f \in Surjection(I, S)
  BY Fun_IsSurj
<1> QED
  BY <1>1, <1>2, FS_Surjection

(* The parts of ChannelsTypeOK but for the commands, and the streams.      *)
EventsTypeOK ==
    /\ eventQ \in Seq(Event)
    /\ streams \subseteq [id : NodeId, stream : Stream]
    /\ garbageIds \subseteq NodeId

LEMMA CapturedType == EventsTypeOK => Captured \subseteq NodeId
BY DEF EventsTypeOK, Captured

LEMMA PInvParts ==
    PInv <=> IInv /\ cmdQ \in Seq(Command) /\ EventsTypeOK /\ CommandsOK
BY DEF PInv, ChannelsTypeOK, EventsTypeOK

(* Removing the stream of an id. *)
LEMMA RemoveTypes ==
    ASSUME EventsTypeOK, NEW id \in NodeId, Remove(id)
    PROVE  /\ streams' \subseteq [id : NodeId, stream : Stream]
           /\ garbageIds' \subseteq NodeId
           /\ Captured' = Captured \ {id}
<1>1. streams' = {e \in streams : e.id # id}
  BY DEF Remove, At
<1>2. garbageIds' \subseteq garbageIds \cup {id}
  BY DEF Remove
<1> QED
  BY <1>1, <1>2 DEF EventsTypeOK, Captured

(* A step of the PipeWire thread that executes no command.                 *)
LEMMA PwStepOK ==
    ASSUME PInv, PwStep, ~ExecuteCommand
    PROVE  cmdQ' \in Seq(Command) /\ EventsTypeOK' /\ CommandsOK'
<1>0. /\ cmdQ \in Seq(Command) /\ CommandsOK /\ EventsTypeOK /\ Captured \subseteq NodeId
      /\ eventQ \in Seq(Event) /\ UNCHANGED <<capturing, issued>>
  BY PInvParts, CapturedType, PwStepIdle DEF EventsTypeOK, vars, captureVars
<1>1. ASSUME NEW w \in Seq(Event), eventQ' = eventQ \o w, UNCHANGED <<cmdQ, failed>>,
             UNCHANGED streams, garbageIds' \subseteq garbageIds
      PROVE  cmdQ' \in Seq(Command) /\ EventsTypeOK' /\ CommandsOK'
  <2>1. Captured' = Captured
    BY <1>1 DEF Captured
  <2>2. \A id \in NodeId : RemovalPending(id) => RemovalPending(id)'
    BY <1>0, <1>1, Sent
  <2>3. EventsTypeOK'
    BY <1>0, <1>1, Sent DEF EventsTypeOK
  <2> QED
    BY <1>0, <1>1, <2>1, <2>2, <2>3, CommandsUntouched
<1>2. ASSUME NEW id \in NodeId, NodeAppears(id)
      PROVE  cmdQ' \in Seq(Command) /\ EventsTypeOK' /\ CommandsOK'
  <2>1. <<>> \in Seq(Event) /\ eventQ' = eventQ \o <<>>
    BY <1>0, <1>2 DEF NodeAppears
  <2> QED
    BY <1>1, <1>2, <2>1 DEF NodeAppears, registryVars
<1>3. ASSUME NEW id \in NodeId, NodeInfo(id)
      PROVE  cmdQ' \in Seq(Command) /\ EventsTypeOK' /\ CommandsOK'
  <2>1. PICK p \in PropsOf[id] :
          eventQ' = eventQ \o <<[kind |-> "props", id |-> id, props |-> p]>>
    BY <1>3 DEF NodeInfo, Send
  <2>2. p \in Props
    BY PropsAssumption
  <2>3. [kind |-> "props", id |-> id, props |-> p] \in Event
    BY <2>2 DEF Event
  <2>4. <<[kind |-> "props", id |-> id, props |-> p]>> \in Seq(Event)
    BY <2>3
  <2> QED
    BY <1>1, <1>3, <2>1, <2>4 DEF NodeInfo, registryVars
<1>4. ASSUME NEW id \in NodeId, PortConfig(id)
      PROVE  cmdQ' \in Seq(Command) /\ EventsTypeOK' /\ CommandsOK'
  <2>1. PICK layout \in Layout :
          eventQ' = eventQ \o <<[kind |-> "positions", id |-> id, layout |-> layout]>>
    BY <1>4 DEF PortConfig, Send
  <2>2. [kind |-> "positions", id |-> id, layout |-> layout] \in Event
    BY DEF Event
  <2>3. <<[kind |-> "positions", id |-> id, layout |-> layout]>> \in Seq(Event)
    BY <2>2
  <2> QED
    BY <1>1, <1>4, <2>1, <2>3 DEF PortConfig, pwVars, registryVars
<1>5. ASSUME NEW id \in NodeId, NodeVanishes(id)
      PROVE  cmdQ' \in Seq(Command) /\ EventsTypeOK' /\ CommandsOK'
  <2> DEFINE w == <<[kind |-> "removed", id |-> id]>>
  <2>1. /\ w \in Seq(Event) /\ eventQ' = eventQ \o w
        /\ 1 \in 1 .. Len(w) /\ w[1].kind = "removed" /\ w[1].id = id
    <3>1. [kind |-> "removed", id |-> id] \in Event
      BY DEF Event
    <3> QED
      BY <1>5, <3>1 DEF NodeVanishes, Send
  <2> HIDE DEF w
  <2>2. /\ eventQ' \in Seq(Event) /\ RemovalPending(id)'
        /\ \A i \in NodeId : RemovalPending(i) => RemovalPending(i)'
    BY <1>0, <2>1, Sent
  <2>3. /\ streams' \subseteq [id : NodeId, stream : Stream]
        /\ garbageIds' \subseteq NodeId
        /\ Captured' = Captured \ {id}
    BY <1>0, <1>5, RemoveTypes DEF NodeVanishes
  <2>4. UNCHANGED <<cmdQ, failed>>
    BY <1>5 DEF NodeVanishes
  <2>5. EventsTypeOK'
    BY <2>2, <2>3 DEF EventsTypeOK
  <2> QED
    BY <1>0, <2>2, <2>3, <2>4, <2>5, CommandsUntouched
<1>6. ASSUME NEW e \in streams, StreamFormat(e)
      PROVE  cmdQ' \in Seq(Command) /\ EventsTypeOK' /\ CommandsOK'
  <2>1. eventQ' = eventQ \o <<[kind |-> "started", id |-> e.id, stream |-> e.stream]>>
    BY <1>6 DEF StreamFormat, Send
  <2>2. e.id \in NodeId /\ e.stream \in Stream
    BY <1>0 DEF EventsTypeOK
  <2>3. [kind |-> "started", id |-> e.id, stream |-> e.stream] \in Event
    BY <2>2 DEF Event
  <2>4. <<[kind |-> "started", id |-> e.id, stream |-> e.stream]>> \in Seq(Event)
    BY <2>3
  <2> QED
    BY <1>1, <1>6, <2>1, <2>4 DEF StreamFormat, pwVars, registryVars
<1>7. ASSUME CollectStreams
      PROVE  cmdQ' \in Seq(Command) /\ EventsTypeOK' /\ CommandsOK'
  <2> DEFINE S == {[kind |-> "stopped", id |-> id] : id \in garbageIds}
  <2>1. S \subseteq Event
    BY <1>0 DEF EventsTypeOK, Event
  <2>2. IsFiniteSet(S)
    BY <1>0, FiniteStopped DEF EventsTypeOK
  <2>3. Seqs!SetToSeq(S) \in Seq(S)
    BY <2>2, Enumerates
  <2>4. eventQ' = eventQ \o Seqs!SetToSeq(S)
    BY <1>7 DEF CollectStreams, Send
  <2> HIDE DEF S
  <2>5. Seqs!SetToSeq(S) \in Seq(Event)
    BY <2>1, <2>3
  <2> QED
    BY <1>1, <1>7, <2>4, <2>5 DEF CollectStreams, CollectGarbage
<1> QED
  BY <1>2, <1>3, <1>4, <1>5, <1>6, <1>7 DEF PwStep

LEMMA ExecuteCommandOK ==
    ASSUME PInv, ExecuteCommand
    PROVE  cmdQ' \in Seq(Command) /\ EventsTypeOK' /\ CommandsOK'
<1> DEFINE c == Head(cmdQ)
<1>0. /\ cmdQ \in Seq(Command) /\ CommandsOK /\ EventsTypeOK /\ Captured \subseteq NodeId
  BY PInvParts, CapturedType
<1>1. c.id \in NodeId
  <2>1. c \in Command
    BY <1>0 DEF ExecuteCommand
  <2> QED
    BY <2>1 DEF Command
<1>2. streams' \subseteq [id : NodeId, stream : Stream] /\ garbageIds' \subseteq NodeId
  <2>1. CASE ExecuteStop(c)
    BY <1>0, <1>1, <2>1, RemoveTypes DEF ExecuteStop
  <2>2. CASE UNCHANGED registryVars
    BY <1>0, <2>2 DEF registryVars, EventsTypeOK
  <2>3. ASSUME NEW s \in FreeStreams, AddStream(c.id, s)
        PROVE  streams' \subseteq [id : NodeId, stream : Stream] /\ garbageIds' \subseteq NodeId
    <3>1. [id |-> c.id, stream |-> s] \in [id : NodeId, stream : Stream]
      BY <1>1 DEF FreeStreams
    <3> QED
      BY <1>0, <2>3, <3>1 DEF AddStream, EventsTypeOK
  <2> QED
    BY <2>1, <2>2, <2>3 DEF ExecuteCommand, ExecuteStart
<1>3. EventsTypeOK'
  BY <1>0, <1>2 DEF EventsTypeOK, ExecuteCommand
<1> QED
  BY <1>0, <1>3, CommandsExecuted

(* A removal the App handles leaves the node uncaptured.                   *)
LEMMA RemovalHeard ==
    ASSUME HandleEvent, eventQ \in Seq(Event), CapturesAreEligible', NEW id \in capturing',
           RemovalPending(id)
    PROVE  RemovalPending(id)'
<1>0. /\ eventQ # <<>> /\ eventQ' = Tail(eventQ) /\ Apply(Head(eventQ))
  BY DEF HandleEvent
<1>1. PICK i \in 1 .. Len(eventQ) : eventQ[i].kind = "removed" /\ eventQ[i].id = id
  BY DEF RemovalPending
<1>2. CASE i = 1
  <2>1. NodeRemoved(id)
    <3>1. Head(eventQ) = eventQ[1]
      BY <1>0
    <3>2. Head(eventQ).kind = "removed" /\ Head(eventQ).id = id
      BY <1>1, <1>2, <3>1
    <3> QED
      BY <1>0, <3>2 DEF Apply
  <2>2. id \notin nodes'
    BY <2>1 DEF NodeRemoved, UpdateNodeRemoved
  <2> QED
    BY <2>2 DEF CapturesAreEligible
<1>3. CASE i # 1
  <2> DEFINE Q == eventQ'
  <2>1. i - 1 \in 1 .. Len(Q) /\ Q[i - 1] = eventQ[i]
    BY <1>0, <1>1, <1>3 DEF Event
  <2> HIDE DEF Q
  <2> QED
    BY <1>1, <2>1 DEF RemovalPending, Q
<1> QED
  BY <1>2, <1>3

(* A handled event leaves the channel. *)
LEMMA HandleEventOK ==
    ASSUME PInv, IInv', HandleEvent
    PROVE  cmdQ' \in Seq(Command) /\ EventsTypeOK' /\ CommandsOK'
<1>0. /\ IInv /\ TypeOK /\ TypeOK' /\ cmdQ \in Seq(Command) /\ CommandsOK /\ EventsTypeOK
      /\ WithinCaps(capturing) /\ WithinCaps(capturing)' /\ CapturesAreEligible'
  BY PInvParts DEF IInv
<1>1. /\ eventQ # <<>> /\ eventQ' = Tail(eventQ) /\ eventQ \in Seq(Event)
      /\ Apply(Head(eventQ)) /\ Issue(FALSE) /\ UNCHANGED pwVars
  BY <1>0 DEF HandleEvent, EventsTypeOK
<1>2. StopsThenStarts
  BY HandledEvent, BooksStateEvent DEF PInv
<1>3. \A id \in capturing' : RemovalPending(id) => RemovalPending(id)'
  BY <1>0, <1>1, RemovalHeard
<1>4. AppStepOK
  BY <1>1, <1>3 DEF AppStepOK, pwVars, registryVars, Captured
<1>5. EventsTypeOK'
  BY <1>0, <1>1 DEF EventsTypeOK, pwVars, registryVars
<1> QED
  BY <1>0, <1>1, <1>2, <1>4, <1>5, CommandsStopsFirst

LEMMA AppStepKeeps ==
    ASSUME PInv, IInv', AppStep
    PROVE  cmdQ' \in Seq(Command) /\ EventsTypeOK' /\ CommandsOK'
<1>0. /\ IInv /\ TypeOK /\ TypeOK' /\ cmdQ \in Seq(Command) /\ CommandsOK /\ EventsTypeOK
      /\ WithinCaps(capturing) /\ WithinCaps(capturing)'
  BY PInvParts DEF IInv
<1>1. AppStepOK
  BY DEF AppStep, AppStepOK, pwVars, registryVars, Captured, RemovalPending
<1>2. EventsTypeOK'
  BY <1>0 DEF AppStep, EventsTypeOK, pwVars, registryVars
<1>3. CASE (Ready \/ HideNext \/ RenderFrame \/ SkipFrame \/ AskForFrame) /\ Issue(FALSE)
  BY <1>0, <1>1, <1>2, <1>3, BooksAppStep, CommandsStopsFirst
<1>4. CASE (\E v \in Screens, changed \in BOOLEAN : Refresh(v, changed)) /\ Issue(TRUE)
  BY <1>0, <1>1, <1>2, <1>4, BooksRefresh, CommandsStartsFirst
<1> QED
  BY <1>3, <1>4 DEF AppStep

LEMMA PInvInit == PipelineInit => PInv
<1> SUFFICES ASSUME PipelineInit PROVE PInv
  OBVIOUS
<1>1. IInv
  BY TypeInit, CapturesInit, IInvParts DEF PipelineInit
<1>2. /\ cmdQ = <<>> /\ eventQ = <<>> /\ streams = {} /\ garbageIds = {} /\ capturing = {}
      /\ Captured = {}
  BY DEF PipelineInit, RegistryInit, Init, Captured
<1>3. ChannelsTypeOK
  BY <1>2 DEF ChannelsTypeOK
<1>4. Running(<<>>, {}, 0) = {}
  BY DEF Running
<1>5. InFlightWithinCaps /\ EndsInCapturing
  <2>1. Len(cmdQ) = 0 /\ \A k \in 0 .. Len(cmdQ) : k = 0
    BY <1>2
  <2>2. Running(cmdQ, Captured, 0) = {} /\ Run(cmdQ, Captured) = {}
    BY <1>2, <1>4, <2>1 DEF Run
  <2>3. WithinCaps({})
    BY <1>1, <1>2 DEF IInv
  <2>4. InFlightWithinCaps
    BY <2>1, <2>2, <2>3 DEF InFlightWithinCaps
  <2>5. EndsInCapturing
    BY <1>2, <2>2 DEF EndsInCapturing
  <2> QED
    BY <2>4, <2>5
<1>6. NotStopped /\ NoneMissing
  BY <1>2 DEF NotStopped, NoneMissing
<1> QED
  BY <1>1, <1>3, <1>5, <1>6 DEF PInv, CommandsOK

LEMMA PInvNext == PInv /\ [PipelineNext]_pipelineVars => PInv'
<1> SUFFICES ASSUME PInv, [PipelineNext]_pipelineVars PROVE PInv'
  OBVIOUS
<1>1. IInv'
  BY PipelineStep, IInvNext DEF PInv
<1>2. CASE HandleEvent
  BY <1>1, <1>2, HandleEventOK, PInvParts DEF PInv, ChannelsTypeOK, EventsTypeOK
<1>3. CASE AppStep
  BY <1>1, <1>3, AppStepKeeps DEF PInv, ChannelsTypeOK, EventsTypeOK
<1>4. CASE PwStep
  BY <1>1, <1>4, PwStepOK, ExecuteCommandOK DEF PInv, ChannelsTypeOK, EventsTypeOK
<1>5. CASE UNCHANGED pipelineVars
  <2>1. UNCHANGED <<cmdQ, eventQ, streams, garbageIds, failed, capturing>>
    BY <1>5 DEF pipelineVars, pwVars, registryVars, vars, captureVars
  <2>2. ChannelsTypeOK'
    BY <2>1 DEF PInv, ChannelsTypeOK
  <2>3. CommandsOK'
    BY <2>1 DEF PInv, CommandsOK, InFlightWithinCaps, EndsInCapturing, NotStopped,
                NoneMissing, RemovalPending, Captured
  <2> QED
    BY <1>1, <2>2, <2>3 DEF PInv
<1> QED
  BY <1>2, <1>3, <1>4, <1>5 DEF PipelineNext

-----------------------------------------------------------------------------
(* PInv is an inductive invariant of the two threads and their channels.   *)
THEOREM PipelineInductive == PipelineSpec => []PInv
BY PInvInit, PInvNext, PTL DEF PipelineSpec

(* The App of the pipeline is the capture manager: whatever the other      *)
(* thread and the server do, in whatever order, it makes only the steps of *)
(* module Capture, so that every theorem about Capture holds here.         *)
THEOREM PipelineIsCapture == PipelineSpec => Spec
<1>1. PipelineInit => Init
  BY DEF PipelineInit
<1>2. PInv /\ [PipelineNext]_pipelineVars => [Next]_vars
  BY PipelineStep DEF PInv
<1> QED
  BY <1>1, <1>2, PipelineInductive, PTL DEF PipelineSpec, Spec

(* The cap bounds the real streams at every moment, however many commands  *)
(* and events are in flight: neither a rotation nor a scroll, which starts *)
(* before it stops, ever makes the PipeWire thread run one stream too many.*)
THEOREM RealStreamsWithinCap == PipelineSpec => []StreamsWithinCap
<1>1. PInv => StreamsWithinCap
  <2> SUFFICES ASSUME PInv PROVE StreamsWithinCap
    OBVIOUS
  <2>1. Captured \subseteq NodeId /\ Len(cmdQ) \in Nat
    BY PInvParts, CapturedType
  <2>2. Running(cmdQ, Captured, 0) = Captured
    BY <2>1 DEF Running
  <2>3. WithinCaps(Running(cmdQ, Captured, 0))
    BY <2>1 DEF PInv, CommandsOK, InFlightWithinCaps
  <2> QED
    BY <2>2, <2>3 DEF WithinCaps, StreamsWithinCap
<1> QED
  BY <1>1, PipelineInductive, PTL

(* At rest the two threads agree: the streams are the captures the App     *)
(* believes in, but for starts that capture_node refused, whatever ids the *)
(* server freed and reused while commands and events crossed each other.   *)
THEOREM ThreadsAgreeAtRest == PipelineSpec => []StreamsMatchCapturing
<1>1. PInv => StreamsMatchCapturing
  <2> SUFFICES ASSUME PInv, AtRest PROVE /\ Captured \subseteq capturing
                                         /\ capturing \ failed \subseteq Captured
    BY DEF StreamsMatchCapturing
  <2>1. Captured \subseteq NodeId /\ Len(cmdQ) = 0 /\ Len(eventQ) = 0
    BY PInvParts, CapturedType DEF AtRest
  <2>2. Run(cmdQ, Captured) = Captured
    BY <2>1 DEF Run, Running
  <2>3. \A id : ~RemovalPending(id)
    BY <2>1 DEF RemovalPending
  <2> QED
    BY <2>2, <2>3 DEF PInv, CommandsOK, EndsInCapturing, NoneMissing
<1> QED
  BY <1>1, PipelineInductive, PTL

-----------------------------------------------------------------------------
(* What the events of a queue q announce. *)
Removes(e, id) == e.kind = "removed" /\ e.id = id
Announces(e, id) == e.kind = "props" /\ e.id = id
Touches(e, id) == e.kind = "positions" /\ e.id = id

(* The nodes whose properties the App has. *)
Mirrored == {id \in NodeId : node[id].serial # None}

(* No removal of the node comes after the first i events, or with the      *)
(* first k handled the App, which has those of m now, has its properties.  *)
Final(q, i, id) == \A j \in (i + 1) .. Len(q) : ~Removes(q[j], id)
Present(q, m, k, id) ==
    \/ id \in m /\ \A j \in 1 .. k : ~Removes(q[j], id)
    \/ \E i \in 1 .. k : /\ Announces(q[i], id)
                         /\ \A j \in (i + 1) .. k : ~Removes(q[j], id)

(* What an event in flight may say of a node whose serial is s in the graph*)
(* (a is: the thread has announced it): the last properties to arrive are  *)
(* those of the node that holds the id now, and other events find some.    *)
EventOK(q, m, i, id, s, a) ==
    /\ Announces(q[i], id) => q[i].props.serial # None
    /\ Announces(q[i], id) /\ Final(q, i, id) => a /\ q[i].props.serial = s
    /\ Touches(q[i], id) => Present(q, m, i - 1, id) /\ (Final(q, i, id) => a)

(* The App has the properties of an announced node once all is handled, and*)
(* anything at all of an announced node only.  A late format may bring the *)
(* id of another back among the nodes: an entry that holds nothing.        *)
MirrorOf(id) ==
    /\ id \in announced => graph[id] # None /\ Present(eventQ, Mirrored, Len(eventQ), id)
    /\ \A i \in 1 .. Len(eventQ) :
          EventOK(eventQ, Mirrored, i, id, graph[id], id \in announced)
    /\ node[id] # DefaultNode =>
          /\ id \in nodes
          /\ Final(eventQ, 0, id) => id \in announced /\ node[id].serial = graph[id]

MirrorOK == \A id \in NodeId : MirrorOf(id)

LEMMA SentIndex ==
    ASSUME NEW q \in Seq(Event), NEW w \in Seq(Event)
    PROVE  /\ q \o w \in Seq(Event) /\ Len(q) \in Nat /\ Len(w) \in Nat
           /\ Len(q \o w) = Len(q) + Len(w)
           /\ \A i \in 1 .. Len(q) : (q \o w)[i] = q[i]
           /\ \A i \in 1 .. Len(w) : (q \o w)[Len(q) + i] = w[i]
<1> HIDE DEF Event
<1> QED
  OBVIOUS

LEMMA HandledIndex ==
    ASSUME NEW q \in Seq(Event), q # <<>>
    PROVE  /\ Tail(q) \in Seq(Event) /\ Len(q) \in Nat \ {0}
           /\ Len(Tail(q)) = Len(q) - 1 /\ Head(q) = q[1] /\ q[1] \in Event
           /\ \A i \in 1 .. Len(Tail(q)) : Tail(q)[i] = q[i + 1]
<1> HIDE DEF Event
<1> QED
  OBVIOUS

(* What an event does to the entry of a node. *)
LEMMA HandledNode ==
    ASSUME TypeOK, eventQ \in Seq(Event), HandleEvent, NEW id \in NodeId, NEW e, e = eventQ[1]
    PROVE  /\ Removes(e, id) => node'[id] = DefaultNode
           /\ Announces(e, id) => id \in nodes' /\ node'[id].serial = e.props.serial
           /\ Touches(e, id) => id \in nodes' /\ node'[id].serial = node[id].serial
           /\ ~Removes(e, id) /\ ~Announces(e, id) /\ ~Touches(e, id) =>
                  (id \in nodes => id \in nodes') /\ node'[id] = node[id]
<1>0. /\ Apply(e) /\ e \in Event /\ e.id \in NodeId /\ node \in [NodeId -> Node]
  BY HandledIndex, EventFields DEF HandleEvent, TypeOK, StateTypeOK
<1>1. CASE e.kind = "props" /\ NodeProperties(e.id, e.props)
  BY <1>0, <1>1 DEF NodeProperties, UpdateNodeProperties, Removes, Announces, Touches
<1>2. CASE e.kind = "positions" /\ NodePositions(e.id, e.layout)
  BY <1>0, <1>2 DEF NodePositions, UpdateNodePositions, Removes, Announces, Touches
<1>3. CASE e.kind = "removed" /\ NodeRemoved(e.id)
  BY <1>0, <1>3 DEF NodeRemoved, UpdateNodeRemoved, Removes, Announces, Touches
<1>4. CASE e.kind = "started" /\ StreamStarted(e.id)
  BY <1>0, <1>4 DEF StreamStarted, UpdateStreamStarted, Removes, Announces, Touches
<1>5. CASE e.kind = "stopped" /\ OtherStateEvent({e.id})
  BY <1>0, <1>5 DEF OtherStateEvent, stateVars, Removes, Announces, Touches
<1> QED
  BY <1>0, <1>1, <1>2, <1>3, <1>4, <1>5 DEF Apply

LEMMA PresentHandled ==
    ASSUME NEW q \in Seq(Event), q # <<>>, NEW id, NEW m, NEW n,
           id \in m /\ ~Removes(q[1], id) => id \in n,
           Announces(q[1], id) => id \in n,
           NEW k \in 0 .. Len(Tail(q)), Present(q, m, k + 1, id)
    PROVE  Present(Tail(q), n, k, id)
<1> DEFINE w == Tail(q)
<1>1. /\ Len(w) = Len(q) - 1 /\ Len(q) \in Nat
      /\ \A i \in 1 .. Len(w) : w[i] = q[i + 1]
  BY HandledIndex
<1>2. \A i \in 1 .. k : i + 1 \in 1 .. (k + 1) /\ w[i] = q[i + 1]
  BY <1>1
<1> HIDE DEF w
<1>3. CASE id \in m /\ \A j \in 1 .. (k + 1) : ~Removes(q[j], id)
  <2>1. \A j \in 1 .. k : ~Removes(w[j], id)
    BY <1>2, <1>3
  <2> QED
    BY <1>3, <2>1 DEF Present, w
<1>4. ASSUME NEW i \in 1 .. (k + 1), Announces(q[i], id),
             \A j \in (i + 1) .. (k + 1) : ~Removes(q[j], id)
      PROVE  Present(w, n, k, id)
  <2>1. CASE i = 1
    <3>1. \A j \in 1 .. k : ~Removes(w[j], id)
      BY <1>2, <1>4, <2>1
    <3> QED
      BY <1>4, <2>1, <3>1 DEF Present
  <2>2. CASE i # 1
    <3>1. i - 1 \in 1 .. k /\ Announces(w[i - 1], id)
      BY <1>2, <1>4, <2>2
    <3>2. \A j \in (i - 1 + 1) .. k : ~Removes(w[j], id)
      BY <1>2, <1>4, <2>2
    <3> QED
      BY <3>1, <3>2 DEF Present
  <2> QED
    BY <2>1, <2>2
<1> QED
  BY <1>3, <1>4 DEF Present, w

LEMMA FinalHandled ==
    ASSUME NEW q \in Seq(Event), q # <<>>, NEW id,
           NEW i \in 0 .. Len(Tail(q)), Final(Tail(q), i, id)
    PROVE  Final(q, i + 1, id)
<1> DEFINE w == Tail(q)
<1>1. /\ Len(w) = Len(q) - 1 /\ Len(q) \in Nat
      /\ \A j \in 1 .. Len(w) : w[j] = q[j + 1]
      /\ \A j \in (i + 1) .. Len(w) : ~Removes(w[j], id)
  BY HandledIndex DEF Final
<1> HIDE DEF w
<1>2. ASSUME NEW j \in (i + 1 + 1) .. Len(q) PROVE ~Removes(q[j], id)
  <2>1. j - 1 \in (i + 1) .. Len(w) /\ w[j - 1] = q[j]
    BY <1>1
  <2> QED
    BY <1>1, <2>1
<1> QED
  BY <1>2 DEF Final

LEMMA MirrorHandled ==
    ASSUME TypeOK, eventQ \in Seq(Event), HandleEvent, MirrorOK
    PROVE  MirrorOK'
<1> DEFINE q == eventQ
           w == Tail(q)
           e == q[1]
           m == Mirrored
           n == Mirrored'
<1>0. q # <<>> /\ q \in Seq(Event) /\ eventQ' = w /\ UNCHANGED <<graph, announced>>
  BY DEF HandleEvent, pwVars
<1>1. /\ Len(w) = Len(q) - 1 /\ Len(q) \in Nat \ {0}
      /\ \A i \in 1 .. Len(w) : w[i] = q[i + 1] /\ i + 1 \in 1 .. Len(q)
  BY <1>0, HandledIndex
<1> HIDE DEF q, w, e, n, m
<1> SUFFICES ASSUME NEW id \in NodeId PROVE MirrorOf(id)'
  BY DEF MirrorOK
<1> DEFINE s == graph[id]
           a == id \in announced
<1>2. /\ a => s # None /\ Present(q, m, Len(q), id)
      /\ \A i \in 1 .. Len(q) : EventOK(q, m, i, id, s, a)
      /\ node[id] # DefaultNode =>
             id \in nodes /\ (Final(q, 0, id) => a /\ node[id].serial = s)
  BY DEF MirrorOK, MirrorOf, q, m
<1>3. /\ Removes(e, id) => node'[id] = DefaultNode
      /\ Announces(e, id) => id \in nodes' /\ node'[id].serial = e.props.serial
      /\ Touches(e, id) => id \in nodes' /\ node'[id].serial = node[id].serial
      /\ ~Removes(e, id) /\ ~Announces(e, id) /\ ~Touches(e, id) =>
             (id \in nodes => id \in nodes') /\ node'[id] = node[id]
  BY HandledNode DEF e, q
<1>9. /\ id \in m <=> node[id].serial # None
      /\ id \in n <=> node'[id].serial # None
      /\ DefaultNode.serial = None
      /\ Announces(e, id) => e.props.serial # None
  <2>1. EventOK(q, m, 1, id, s, a)
    BY <1>1, <1>2
  <2> QED
    BY <2>1 DEF EventOK, e, m, n, Mirrored, DefaultNode
<1> HIDE DEF s, a
<1>4. \A k \in 0 .. Len(w) : Present(q, m, k + 1, id) => Present(w, n, k, id)
  <2>1. /\ id \in m /\ ~Removes(e, id) => id \in n
        /\ Announces(e, id) => id \in n
    BY <1>3, <1>9
  <2> QED
    BY <1>0, <2>1, PresentHandled DEF w, e
<1>5. \A i \in 0 .. Len(w) : Final(w, i, id) => Final(q, i + 1, id)
  BY <1>0, FinalHandled DEF w
<1>6. a => s # None /\ Present(w, n, Len(w), id)
  <2>1. Len(w) \in 0 .. Len(w) /\ Len(w) + 1 = Len(q)
    BY <1>1
  <2> QED
    BY <1>2, <1>4, <2>1
<1>7. ASSUME NEW i \in 1 .. Len(w) PROVE EventOK(w, n, i, id, s, a)
  <2>1. /\ w[i] = q[i + 1] /\ i + 1 \in 1 .. Len(q) /\ i + 1 - 1 = i - 1 + 1
        /\ i - 1 \in 0 .. Len(w) /\ i \in 0 .. Len(w)
    BY <1>1
  <2>2. EventOK(q, m, i + 1, id, s, a)
    BY <1>2, <2>1
  <2> QED
    BY <1>4, <1>5, <2>1, <2>2 DEF EventOK
<1>10. ASSUME node'[id] # DefaultNode PROVE id \in nodes'
  BY <1>2, <1>3, <1>10
<1>8. ASSUME node'[id] # DefaultNode, Final(w, 0, id)
      PROVE  a /\ node'[id].serial = s
  <2>1. Final(q, 1, id) /\ ~Removes(e, id) /\ 1 \in 1 .. Len(q)
    BY <1>1, <1>3, <1>5, <1>8
  <2>2. Final(q, 0, id)
    BY <2>1 DEF Final, e
  <2>3. EventOK(q, m, 1, id, s, a)
    BY <1>2, <2>1
  <2>4. CASE Announces(e, id)
    BY <1>3, <2>1, <2>3, <2>4 DEF EventOK, e
  <2>5. CASE Touches(e, id)
    <3>1. Present(q, m, 0, id)
      BY <2>3, <2>5 DEF EventOK, e
    <3>2. id \in m
      BY <3>1 DEF Present
    <3>3. node[id] # DefaultNode
      BY <1>9, <3>2
    <3> QED
      BY <1>2, <1>3, <2>2, <2>5, <3>3
  <2>6. CASE ~Announces(e, id) /\ ~Touches(e, id)
    BY <1>2, <1>3, <1>8, <2>1, <2>2, <2>6
  <2> QED
    BY <2>4, <2>5, <2>6
<1> QED
  BY <1>0, <1>6, <1>7, <1>8, <1>10 DEF MirrorOf, n, s, a

(* Events w sent after those of q. *)
LEMMA PresentBefore ==
    ASSUME NEW q \in Seq(Event), NEW w \in Seq(Event), NEW id, NEW m,
           NEW k \in 0 .. Len(q)
    PROVE  Present(q \o w, m, k, id) <=> Present(q, m, k, id)
<1> DEFINE p == q \o w
<1>1. \A i \in 1 .. k : p[i] = q[i]
  BY SentIndex
<1> HIDE DEF p
<1>2. Present(p, m, k, id) <=> Present(q, m, k, id)
  BY <1>1 DEF Present
<1> QED
  BY <1>2 DEF p

LEMMA FinalBefore ==
    ASSUME NEW q \in Seq(Event), NEW w \in Seq(Event), NEW id,
           NEW i \in 0 .. Len(q), Final(q \o w, i, id)
    PROVE  Final(q, i, id) /\ \A j \in 1 .. Len(w) : ~Removes(w[j], id)
<1> DEFINE p == q \o w
           n == Len(q)
<1>1. /\ n \in Nat /\ Len(w) \in Nat /\ Len(p) = n + Len(w)
      /\ \A j \in 1 .. n : p[j] = q[j]
      /\ \A j \in 1 .. Len(w) : p[n + j] = w[j]
      /\ \A j \in (i + 1) .. Len(p) : ~Removes(p[j], id)
  BY SentIndex DEF Final
<1> HIDE DEF p
<1>2. ASSUME NEW j \in (i + 1) .. n PROVE ~Removes(q[j], id)
  <2>1. j \in (i + 1) .. Len(p) /\ p[j] = q[j]
    BY <1>1
  <2> QED
    BY <1>1, <2>1
<1>3. ASSUME NEW j \in 1 .. Len(w) PROVE ~Removes(w[j], id)
  <2>1. n + j \in (i + 1) .. Len(p) /\ p[n + j] = w[j]
    BY <1>1
  <2> QED
    BY <1>1, <2>1
<1> QED
  BY <1>2, <1>3 DEF Final

LEMMA PresentAfter ==
    ASSUME NEW q \in Seq(Event), NEW w \in Seq(Event), NEW id, NEW m,
           \A i \in 1 .. Len(w) : ~Removes(w[i], id),
           NEW k \in 0 .. Len(w),
           Present(q, m, Len(q), id) \/ \E i \in 1 .. k : Announces(w[i], id)
    PROVE  Present(q \o w, m, Len(q) + k, id)
<1> DEFINE p == q \o w
           n == Len(q)
<1>1. /\ n \in Nat /\ Len(w) \in Nat /\ Len(p) = n + Len(w)
      /\ \A i \in 1 .. n : p[i] = q[i]
      /\ \A i \in 1 .. Len(w) : p[n + i] = w[i]
  BY SentIndex
<1> HIDE DEF p, n
<1>2. ASSUME NEW j \in (n + 1) .. (n + k) PROVE ~Removes(p[j], id)
  <2>1. j - n \in 1 .. Len(w) /\ p[j] = w[j - n]
    BY <1>1
  <2> QED
    BY <2>1
<1>3. ASSUME id \in m, \A j \in 1 .. n : ~Removes(q[j], id)
      PROVE  Present(p, m, n + k, id)
  <2>1. ASSUME NEW j \in 1 .. (n + k) PROVE ~Removes(p[j], id)
    <3>1. j \in 1 .. n \/ j \in (n + 1) .. (n + k)
      BY <1>1
    <3> QED
      BY <1>1, <1>2, <1>3, <3>1
  <2> QED
    BY <1>3, <2>1 DEF Present
<1>4. ASSUME NEW i \in 1 .. n, Announces(q[i], id),
             \A j \in (i + 1) .. n : ~Removes(q[j], id)
      PROVE  Present(p, m, n + k, id)
  <2>1. i \in 1 .. (n + k) /\ Announces(p[i], id)
    BY <1>1, <1>4
  <2>2. \A j \in (i + 1) .. (n + k) : ~Removes(p[j], id)
    BY <1>1, <1>2, <1>4
  <2> QED
    BY <2>1, <2>2 DEF Present
<1>5. ASSUME NEW i \in 1 .. k, Announces(w[i], id)
      PROVE  Present(p, m, n + k, id)
  <2>1. n + i \in 1 .. (n + k) /\ i \in 1 .. Len(w) /\ p[n + i] = w[i]
    BY <1>1
  <2>2. \A j \in (n + i + 1) .. (n + k) : j \in (n + 1) .. (n + k)
    BY <1>1
  <2> QED
    BY <1>2, <1>5, <2>1, <2>2 DEF Present
<1> QED
  BY <1>3, <1>4, <1>5 DEF Present, p, n

(* What the thread sends keeps the mirror: either it removes the node, or  *)
(* it says of the node only what the graph has.                            *)
Tells(w, id) ==
    /\ \A i \in 1 .. Len(w) :
          /\ ~Removes(w[i], id)
          /\ Announces(w[i], id) => id \in announced' /\ w[i].props.serial = graph'[id]
          /\ Touches(w[i], id) => id \in announced
    /\ id \in announced => id \in announced' /\ graph'[id] = graph[id]
    /\ id \in announced' => /\ graph'[id] # None
                            /\ id \in announced \/ \E i \in 1 .. Len(w) : Announces(w[i], id)

LEMMA MirrorTold ==
    ASSUME eventQ \in Seq(Event), NEW id \in NodeId, MirrorOf(id), UNCHANGED <<nodes, node>>,
           NEW w \in Seq(Event), eventQ' = eventQ \o w,
           \/ Tells(w, id)
           \/ /\ id \notin announced' /\ \E i \in 1 .. Len(w) : Removes(w[i], id)
              /\ \A i \in 1 .. Len(w) : ~Announces(w[i], id) /\ ~Touches(w[i], id)
    PROVE  MirrorOf(id)'
<1> DEFINE q == eventQ
           p == q \o w
           n == Len(q)
           m == Mirrored
           s == graph[id]
           a == id \in announced
           s1 == graph'[id]
           a1 == id \in announced'
           gone == \E i \in 1 .. Len(w) : Removes(w[i], id)
<1>1. /\ n \in Nat /\ Len(w) \in Nat /\ Len(p) = n + Len(w)
      /\ \A i \in 1 .. n : p[i] = q[i]
      /\ \A i \in 1 .. Len(w) : p[n + i] = w[i]
  BY SentIndex
<1>2. /\ a => s # None /\ Present(q, m, n, id)
      /\ \A i \in 1 .. n : EventOK(q, m, i, id, s, a)
      /\ node[id] # DefaultNode =>
             id \in nodes /\ (Final(q, 0, id) => a /\ node[id].serial = s)
  BY DEF MirrorOf
<1>3. \/ /\ ~gone /\ \A i \in 1 .. Len(w) :
                        /\ Announces(w[i], id) => a1 /\ w[i].props.serial = s1
                        /\ Touches(w[i], id) => a
         /\ a => a1 /\ s1 = s
         /\ a1 => s1 # None /\ (a \/ \E i \in 1 .. Len(w) : Announces(w[i], id))
      \/ /\ ~a1 /\ gone
         /\ \A i \in 1 .. Len(w) : ~Announces(w[i], id) /\ ~Touches(w[i], id)
  BY DEF Tells
<1>4. \A k \in 0 .. n : /\ Present(p, m, k, id) <=> Present(q, m, k, id)
                        /\ Final(p, k, id) => Final(q, k, id) /\ ~gone
  BY PresentBefore, FinalBefore
<1>5. \A k \in 0 .. Len(w) :
         ~gone /\ (Present(q, m, n, id) \/ \E i \in 1 .. k : Announces(w[i], id)) =>
             Present(p, m, n + k, id)
  BY PresentAfter
<1>6. eventQ' = p /\ Mirrored' = m
  BY DEF Mirrored
<1> HIDE DEF q, p, n, m, s, a, s1, a1, gone
<1>7. a1 => s1 # None /\ Present(p, m, Len(p), id)
  <2>1. Len(w) \in 0 .. Len(w)
    BY <1>1
  <2> QED
    BY <1>1, <1>2, <1>3, <1>5, <2>1
<1>8. ASSUME NEW i \in 1 .. n PROVE EventOK(p, m, i, id, s1, a1)
  <2>1. p[i] = q[i] /\ i \in 0 .. n /\ i - 1 \in 0 .. n /\ EventOK(q, m, i, id, s, a)
    BY <1>1, <1>2
  <2> QED
    BY <1>3, <1>4, <2>1 DEF EventOK
<1>9. ASSUME NEW i \in (n + 1) .. Len(p) PROVE EventOK(p, m, i, id, s1, a1)
  <2> DEFINE j == i - n
  <2>1. j \in 1 .. Len(w) /\ p[i] = w[j] /\ j - 1 \in 0 .. Len(w) /\ i - 1 = n + (j - 1)
    BY <1>1
  <2> HIDE DEF j
  <2>2. Touches(w[j], id) => a /\ ~gone
    BY <1>3, <2>1
  <2>3. Touches(w[j], id) => Present(p, m, i - 1, id) /\ a1
    BY <1>2, <1>3, <1>5, <2>1, <2>2
  <2> QED
    BY <1>3, <2>1, <2>3 DEF EventOK
<1>10. ASSUME node[id] # DefaultNode, Final(p, 0, id) PROVE a1 /\ node[id].serial = s1
  <2>1. Final(q, 0, id) /\ ~gone
    BY <1>1, <1>4, <1>10
  <2> QED
    BY <1>2, <1>3, <1>10, <2>1
<1>11. \A i \in 1 .. Len(p) : i \in 1 .. n \/ i \in (n + 1) .. Len(p)
  BY <1>1
<1> QED
  BY <1>2, <1>6, <1>7, <1>8, <1>9, <1>10, <1>11 DEF MirrorOf, s1, a1

-----------------------------------------------------------------------------
(* Every serial in circulation has been given out, and if a node still has *)
(* it in the graph, the thread has announced that node.                    *)
KnownIn(g, n, a, id, s) ==
    /\ s \in Nat /\ s <= n
    /\ s = g[id] => id \in a
Known(id, s) == KnownIn(graph, lastSerial, announced, id, s)
KnownNext(id, s) == KnownIn(graph', lastSerial', announced', id, s)

SerialsTypeOK ==
    /\ lastSerial \in Nat
    /\ graph \in [NodeId -> Nat \cup {None}]
    /\ target \in [Stream -> Nat \cup {None}]
    /\ announced \subseteq NodeId

SerialsKnown ==
    /\ \A id \in NodeId :
          /\ graph[id] # None => graph[id] <= lastSerial
          /\ node[id].serial # None => Known(id, node[id].serial)
    /\ \A i \in 1 .. Len(eventQ) :
          eventQ[i].kind = "props" => Known(eventQ[i].id, eventQ[i].props.serial)
    /\ \A i \in 1 .. Len(cmdQ) :
          cmdQ[i].op = "start" => Known(cmdQ[i].id, cmdQ[i].serial)
    /\ \A e \in streams : Known(e.id, target[e.stream])

SerialsOK == SerialsTypeOK /\ SerialsKnown

(* A capture is started for a node whose serial is known. *)
StartsSerial == \A id \in issued'.start : id \in nodes' /\ node'[id].serial # None

LEMMA SerialStop == ASSUME NEW id, StopCapture(id) PROVE StartsSerial
BY DEF StopCapture, StartsSerial

LEMMA SerialKeep == KeepCaptures => StartsSerial
BY DEF KeepCaptures, NoCommands, StartsSerial

LEMMA SerialStopThenStart ==
    ASSUME NEW stopped, NEW candidates, StopThenStart(stopped, candidates)
    PROVE  StartsSerial
<1>1. PICK S \in SUBSET {id \in candidates \ (capturing \ stopped) : CanStart(id)'} :
         issued'.start = S
  BY DEF StopThenStart, Admit
<1>2. \A id \in S : CanStart(id)'
  BY <1>1
<1> QED
  BY <1>1, <1>2 DEF CanStart, StartsSerial

LEMMA SerialStart == ASSUME NEW id, StartCapture(id) PROVE StartsSerial
<1>1. CASE id \in capturing
  <2>1. issued'.start = {i \in {id} : CanStart(i)'}
    BY <1>1 DEF StartCapture
  <2> QED
    BY <2>1 DEF StartsSerial, CanStart
<1>2. CASE id \notin capturing
  BY <1>2, SerialStopThenStart DEF StartCapture
<1> QED
  BY <1>1, <1>2

LEMMA SerialEligibility ==
    ASSUME NEW e, NEW id, SetCaptureEligibility(e, id) PROVE StartsSerial
BY SerialKeep, SerialStop, SerialStart DEF SetCaptureEligibility

LEMMA SerialStateEvent == StateEventNext => StartsSerial
BY SerialKeep, SerialEligibility
   DEF StateEventNext, NodeProperties, NodePositions, StreamStarted, PeaksDirty,
       LinkAdded, LinkRemoved, NodeRemoved, OtherStateEvent

LEMMA SerialAppStep == AppStep => StartsSerial
<1>1. HideNext => StartsSerial
  BY SerialKeep, SerialStop, SerialStart, SerialStopThenStart, ConfigAssumption
     DEF HideNext, HideInstance, UnhideInstance, ToggleHiddenPermanent, HiddenFileChanged
<1>2. RenderFrame => StartsSerial
  BY SerialKeep, SerialStopThenStart DEF RenderFrame, RotateCapturing
<1>3. UpdateCapturing => StartsSerial
  <2> SUFFICES ASSUME UpdateCapturing PROVE StartsSerial
    OBVIOUS
  <2>1. PICK S \in SUBSET {id \in (visible' \cap capturable) \ capturing : CanStart(id)'} :
           issued'.start = S
    BY DEF UpdateCapturing, Admit
  <2>2. \A id \in S : CanStart(id)'
    BY <2>1
  <2> QED
    BY <2>1, <2>2 DEF CanStart, StartsSerial
<1> QED
  BY <1>1, <1>2, <1>3, SerialKeep DEF AppStep, Ready, SkipFrame, AskForFrame, Refresh

LEMMA ConcatIndex ==
    ASSUME NEW S, NEW a \in Seq(S), NEW b \in Seq(S), NEW j \in 1 .. Len(a \o b)
    PROVE  \/ j \in 1 .. Len(a) /\ (a \o b)[j] = a[j]
           \/ j - Len(a) \in 1 .. Len(b) /\ (a \o b)[j] = b[j - Len(a)]
<1>1. Len(a) \in Nat /\ Len(b) \in Nat /\ Len(a \o b) = Len(a) + Len(b)
  OBVIOUS
<1>2. CASE j <= Len(a)
  BY <1>1, <1>2
<1>3. CASE j > Len(a)
  BY <1>1, <1>3
<1> QED
  BY <1>1, <1>2, <1>3

(* The commands a step of the App adds.                                    *)
Issued(w) ==
    /\ w \in Seq(Command)
    /\ \A j \in 1 .. Len(w) :
          w[j].op = "start" => /\ w[j].id \in issued'.start
                               /\ w[j].serial = node'[w[j].id].serial

LEMMA IssuedCommands ==
    ASSUME TypeOK', NEW startsFirst \in BOOLEAN, Issue(startsFirst)
    PROVE  \E w : Issued(w) /\ cmdQ' = cmdQ \o w
<1>1. PICK s, t : /\ Stopping(s, issued'.stop) /\ Starting(t, issued'.start)
                  /\ \A j \in 1 .. Len(t) : t[j].serial = node'[t[j].id].serial
                  /\ cmdQ' = cmdQ \o (IF startsFirst THEN t \o s ELSE s \o t)
  BY IssueBursts
<1>2. /\ s \in Seq(Command) /\ t \in Seq(Command)
      /\ \A j \in 1 .. Len(s) : s[j].op # "start"
      /\ \A j \in 1 .. Len(t) : t[j].id \in issued'.start
  BY <1>1 DEF Stopping, Starting
<1>3. ASSUME NEW a \in Seq(Command), NEW b \in Seq(Command), Issued(a), Issued(b)
      PROVE  Issued(a \o b)
  <2>1. a \o b \in Seq(Command)
    OBVIOUS
  <2>2. \A j \in 1 .. Len(a \o b) :
           \/ j \in 1 .. Len(a) /\ (a \o b)[j] = a[j]
           \/ j - Len(a) \in 1 .. Len(b) /\ (a \o b)[j] = b[j - Len(a)]
    BY ConcatIndex
  <2> QED
    BY <1>3, <2>1, <2>2 DEF Issued
<1>4. Issued(s) /\ Issued(t)
  BY <1>1, <1>2 DEF Issued
<1> QED
  BY <1>1, <1>2, <1>3, <1>4

LEMMA KnownKept ==
    ASSUME SerialsOK, PwStep
    PROVE  /\ lastSerial' \in Nat /\ graph' \in [NodeId -> Nat \cup {None}]
           /\ announced' \subseteq NodeId
           /\ \A id \in NodeId : graph'[id] # None => graph'[id] <= lastSerial'
           /\ \A id \in NodeId : \A s : Known(id, s) => KnownNext(id, s)
<1>0. /\ lastSerial \in Nat /\ graph \in [NodeId -> Nat \cup {None}] /\ None \notin Nat
      /\ \A id \in NodeId : graph[id] # None => graph[id] <= lastSerial
  BY NoneAssumption DEF SerialsOK, SerialsTypeOK, SerialsKnown
<1>1. announced' \subseteq NodeId
  BY DEF SerialsOK, SerialsTypeOK, PwStep, NodeAppears, NodeInfo, NodeVanishes, PortConfig,
         StreamFormat, CollectStreams, ExecuteCommand, pwVars
<1>2. CASE UNCHANGED <<graph, lastSerial>> /\ announced \subseteq announced'
  BY <1>0, <1>1, <1>2 DEF Known, KnownNext, KnownIn
<1>3. ASSUME NEW n \in NodeId, NodeAppears(n)
      PROVE  /\ lastSerial' \in Nat /\ graph' \in [NodeId -> Nat \cup {None}]
             /\ \A id \in NodeId : graph'[id] # None => graph'[id] <= lastSerial'
             /\ \A id \in NodeId : \A s : Known(id, s) => KnownNext(id, s)
  <2>1. /\ lastSerial' = lastSerial + 1 /\ graph' = [graph EXCEPT ![n] = lastSerial']
        /\ announced' = announced
    BY <1>3 DEF NodeAppears
  <2>2. \A id \in NodeId : graph'[id] = IF id = n THEN lastSerial + 1 ELSE graph[id]
    BY <1>0, <2>1
  <2> QED
    BY <1>0, <2>1, <2>2 DEF Known, KnownNext, KnownIn
<1>4. ASSUME NEW n \in NodeId, NodeVanishes(n)
      PROVE  /\ lastSerial' \in Nat /\ graph' \in [NodeId -> Nat \cup {None}]
             /\ \A id \in NodeId : graph'[id] # None => graph'[id] <= lastSerial'
             /\ \A id \in NodeId : \A s : Known(id, s) => KnownNext(id, s)
  <2>1. /\ lastSerial' = lastSerial /\ graph' = [graph EXCEPT ![n] = None]
        /\ announced' = announced \ {n}
    BY <1>4 DEF NodeVanishes
  <2>2. \A id \in NodeId : graph'[id] = IF id = n THEN None ELSE graph[id]
    BY <1>0, <2>1
  <2> QED
    BY <1>0, <2>1, <2>2 DEF Known, KnownNext, KnownIn
<1> QED
  BY <1>1, <1>2, <1>3, <1>4 DEF PwStep, NodeInfo, PortConfig, StreamFormat, CollectStreams,
                          ExecuteCommand, pwVars

(* A collection reports every id it drains. *)
LEMMA CollectSends ==
    ASSUME EventsTypeOK, CollectStreams
    PROVE  \E w \in Seq(Event) :
              /\ eventQ' = eventQ \o w
              /\ \A i \in 1 .. Len(w) : w[i].kind = "stopped"
              /\ \A id \in garbageIds : \E i \in 1 .. Len(w) : w[i].id = id
<1> DEFINE S == {[kind |-> "stopped", id |-> id] : id \in garbageIds}
           w == Seqs!SetToSeq(S)
<1>1. S \subseteq Event /\ IsFiniteSet(S)
  <2>1. S \subseteq Event
    BY DEF EventsTypeOK, Event
  <2>2. IsFiniteSet(S)
    BY FiniteStopped DEF EventsTypeOK
  <2> QED
    BY <2>1, <2>2
<1>2. w \in Seq(S) /\ \A x \in S : \E i \in 1 .. Len(w) : w[i] = x
  BY <1>1, Enumerates
<1>3. eventQ' = eventQ \o w
  BY DEF CollectStreams, Send
<1> HIDE DEF w
<1>4. \A i \in 1 .. Len(w) : w[i].kind = "stopped"
  <2>1. \A i \in 1 .. Len(w) : w[i] \in S
    BY <1>2
  <2>2. \A x \in S : x.kind = "stopped"
    OBVIOUS
  <2> HIDE DEF S
  <2> QED
    BY <2>1, <2>2
<1>5. ASSUME NEW id \in garbageIds PROVE \E i \in 1 .. Len(w) : w[i].id = id
  <2>1. [kind |-> "stopped", id |-> id] \in S
    OBVIOUS
  <2>2. PICK i \in 1 .. Len(w) : w[i] = [kind |-> "stopped", id |-> id]
    BY <1>2, <2>1
  <2> QED
    BY <2>2
<1> HIDE DEF S
<1>6. w \in Seq(Event)
  BY <1>1, <1>2
<1> QED
  BY <1>3, <1>4, <1>5, <1>6

(* It reports no other.                                                    *)
LEMMA CollectSendsOnly ==
    ASSUME EventsTypeOK, CollectStreams
    PROVE  \E w \in Seq(Event) :
              /\ eventQ' = eventQ \o w
              /\ \A i \in 1 .. Len(w) : w[i].kind = "stopped" /\ w[i].id \in garbageIds
<1> DEFINE S == {[kind |-> "stopped", id |-> id] : id \in garbageIds}
           w == Seqs!SetToSeq(S)
<1>1. S \subseteq Event /\ IsFiniteSet(S)
  <2>1. S \subseteq Event
    BY DEF EventsTypeOK, Event
  <2>2. IsFiniteSet(S)
    BY FiniteStopped DEF EventsTypeOK
  <2> QED
    BY <2>1, <2>2
<1>2. w \in Seq(S)
  BY <1>1, Enumerates
<1>3. eventQ' = eventQ \o w
  BY DEF CollectStreams, Send
<1>4. \A x \in S : x.kind = "stopped" /\ x.id \in garbageIds
  OBVIOUS
<1> HIDE DEF w, S
<1>5. w \in Seq(Event) /\ \A i \in 1 .. Len(w) : w[i] \in S
  BY <1>1, <1>2
<1> QED
  BY <1>3, <1>4, <1>5

(* What the thread sends: properties only of a node just announced.        *)
LEMMA PwSends ==
    ASSUME PInv, PwStep
    PROVE  \E w \in Seq(Event) :
              /\ eventQ' = eventQ \o w
              /\ \A i \in 1 .. Len(w) :
                    w[i].kind = "props" =>
                        /\ w[i].id \in announced' /\ graph'[w[i].id] # None
                        /\ w[i].props.serial = graph'[w[i].id]
<1>0. eventQ \in Seq(Event) /\ EventsTypeOK
  BY PInvParts DEF EventsTypeOK
<1> DEFINE Goal == \E w \in Seq(Event) :
              /\ eventQ' = eventQ \o w
              /\ \A i \in 1 .. Len(w) :
                    w[i].kind = "props" =>
                        /\ w[i].id \in announced' /\ graph'[w[i].id] # None
                        /\ w[i].props.serial = graph'[w[i].id]
<1>1. CASE UNCHANGED eventQ
  <2> DEFINE w == <<>>
  <2>1. w \in Seq(Event) /\ eventQ' = eventQ \o w
    BY <1>0, <1>1
  <2>2. \A i \in 1 .. Len(w) : FALSE
    OBVIOUS
  <2> HIDE DEF w
  <2> QED
    BY <2>1, <2>2
<1>2. ASSUME NEW e \in Event, eventQ' = eventQ \o <<e>>,
             e.kind = "props" => /\ e.id \in announced' /\ graph'[e.id] # None
                                 /\ e.props.serial = graph'[e.id]
      PROVE  Goal
  <2> DEFINE w == <<e>>
  <2>1. w \in Seq(Event) /\ Len(w) = 1 /\ w[1] = e
    OBVIOUS
  <2> HIDE DEF w
  <2>2. \A i \in 1 .. Len(w) : w[i] = e
    BY <2>1
  <2> QED
    BY <1>2, <2>1, <2>2 DEF w
<1>3. ASSUME NEW id \in NodeId, NodeInfo(id) PROVE Goal
  <2>1. PICK p \in PropsOf[id] :
          /\ eventQ' = eventQ \o <<[kind |-> "props", id |-> id, props |-> p]>>
          /\ p.serial = graph[id] /\ id \in announced' /\ graph' = graph /\ graph[id] # None
    BY <1>3 DEF NodeInfo, Send
  <2>2. [kind |-> "props", id |-> id, props |-> p] \in Event
    BY PropsAssumption DEF Event
  <2> QED
    BY <1>2, <2>1, <2>2
<1>4. ASSUME NEW id \in NodeId, PortConfig(id) PROVE Goal
  <2>1. PICK layout \in Layout :
          eventQ' = eventQ \o <<[kind |-> "positions", id |-> id, layout |-> layout]>>
    BY <1>4 DEF PortConfig, Send
  <2>2. [kind |-> "positions", id |-> id, layout |-> layout] \in Event
    BY DEF Event
  <2> QED
    BY <1>2, <2>1, <2>2
<1>5. ASSUME NEW id \in NodeId, NodeVanishes(id) PROVE Goal
  <2>1. eventQ' = eventQ \o <<[kind |-> "removed", id |-> id]>>
    BY <1>5 DEF NodeVanishes, Send
  <2>2. [kind |-> "removed", id |-> id] \in Event
    BY DEF Event
  <2> QED
    BY <1>2, <2>1, <2>2
<1>6. ASSUME NEW e \in streams, StreamFormat(e) PROVE Goal
  <2>1. eventQ' = eventQ \o <<[kind |-> "started", id |-> e.id, stream |-> e.stream]>>
    BY <1>6 DEF StreamFormat, Send
  <2>2. e.id \in NodeId /\ e.stream \in Stream
    BY <1>0 DEF EventsTypeOK
  <2>3. [kind |-> "started", id |-> e.id, stream |-> e.stream] \in Event
    BY <2>2 DEF Event
  <2> QED
    BY <1>2, <2>1, <2>3
<1>7. ASSUME CollectStreams PROVE Goal
  <2>1. PICK w \in Seq(Event) :
          eventQ' = eventQ \o w /\ \A i \in 1 .. Len(w) : w[i].kind = "stopped"
    BY <1>0, <1>7, CollectSends
  <2> QED
    BY <2>1
<1> QED
  BY <1>1, <1>3, <1>4, <1>5, <1>6, <1>7 DEF PwStep, NodeAppears, ExecuteCommand

LEMMA CommandFields ==
    ASSUME NEW c \in Command
    PROVE  c.id \in NodeId /\ (c.op = "start" => c.serial \in Serial \cup {None})
<1>1. CASE c \in [op : {"stop"}, id : NodeId]
  BY <1>1
<1>2. CASE c \in [op : {"start"}, id : NodeId, serial : Serial \cup {None}]
  BY <1>2
<1> QED
  BY <1>1, <1>2 DEF Command

LEMMA CommandTail ==
    ASSUME NEW q \in Seq(Command), q # <<>>
    PROVE  /\ Tail(q) \in Seq(Command) /\ Len(q) \in Nat \ {0}
           /\ Len(Tail(q)) = Len(q) - 1 /\ Head(q) = q[1] /\ q[1] \in Command
           /\ \A i \in 1 .. Len(Tail(q)) : Tail(q)[i] = q[i + 1] /\ i + 1 \in 1 .. Len(q)
<1> HIDE DEF Command
<1> QED
  OBVIOUS

(* A registered stream after a step of the thread: it was there before, or *)
(* the command just executed created it.                                   *)
LEMMA StreamsFrom ==
    ASSUME PInv, SerialsOK, PwStep
    PROVE  /\ target' \in [Stream -> Nat \cup {None}]
           /\ \A e \in streams' :
                 \/ /\ e \in streams /\ target'[e.stream] = target[e.stream]
                    /\ ExecuteCommand /\ Head(cmdQ).op = "start" =>
                          e.id # Head(cmdQ).id \/ UNCHANGED streams
                 \/ /\ ExecuteCommand /\ Head(cmdQ).op = "start"
                    /\ e.id = Head(cmdQ).id /\ target'[e.stream] = Head(cmdQ).serial
           /\ \A e \in streams' : ExecuteCommand /\ Head(cmdQ).op = "stop" => e.id # Head(cmdQ).id
<1>0. /\ target \in [Stream -> Nat \cup {None}] /\ cmdQ \in Seq(Command)
      /\ streams \subseteq [id : NodeId, stream : Stream]
  BY PInvParts DEF EventsTypeOK, SerialsOK, SerialsTypeOK
<1>1. CASE ExecuteCommand
  <2> DEFINE c == Head(cmdQ)
  <2>1. c \in Command
    BY <1>0, <1>1, CommandTail DEF ExecuteCommand
  <2>2. c.id \in NodeId /\ (c.op = "start" => c.serial \in Nat \cup {None})
    BY <2>1, CommandFields, PipelineAssumption
  <2> HIDE DEF c
  <2>3. CASE ExecuteStop(c)
    <3>1. target' = target /\ streams' = {e \in streams : e.id # c.id} /\ c.op = "stop"
      BY <2>3 DEF ExecuteStop, Remove, At
    <3> QED
      BY <1>0, <1>1, <3>1 DEF c
  <2>4. CASE c.op = "start" /\ UNCHANGED <<streams, target>>
    BY <1>0, <1>1, <2>4 DEF c
  <2>5. ASSUME NEW s \in FreeStreams, AddStream(c.id, s), c.op = "start",
               target' = [target EXCEPT ![s] = c.serial]
        PROVE  /\ target' \in [Stream -> Nat \cup {None}]
               /\ \A e \in streams' :
                     \/ e \in streams /\ target'[e.stream] = target[e.stream] /\ e.id # c.id
                     \/ e.id = c.id /\ target'[e.stream] = c.serial
    <3>1. /\ s \in Stream /\ s \notin Held(streams)
      BY <2>5 DEF FreeStreams
    <3>2. streams' = {e \in streams : e.id # c.id} \cup {[id |-> c.id, stream |-> s]}
      BY <2>5 DEF AddStream, At
    <3>3. target' \in [Stream -> Nat \cup {None}]
      BY <1>0, <2>2, <2>5, <3>1
    <3>4. \A e \in streams : e.stream \in Stream /\ e.stream # s
      BY <1>0, <3>1 DEF Held
    <3>5. \A e \in streams : target'[e.stream] = target[e.stream]
      BY <1>0, <2>5, <3>4
    <3>6. target'[s] = c.serial
      BY <1>0, <2>5, <3>1
    <3> DEFINE n == [id |-> c.id, stream |-> s]
    <3>7. n.id = c.id /\ n.stream = s
      OBVIOUS
    <3> HIDE DEF n
    <3>8. \A e \in streams' : (e \in streams /\ e.id # c.id) \/ e = n
      BY <3>2 DEF n
    <3> QED
      BY <3>3, <3>5, <3>6, <3>7, <3>8
  <2>6. ExecuteStart(c) \/ ExecuteStop(c)
    BY <1>1 DEF ExecuteCommand, c
  <2>7. CASE c.op = "start" /\ \E s \in FreeStreams :
               AddStream(c.id, s) /\ target' = [target EXCEPT ![s] = c.serial]
    BY <1>1, <2>5, <2>7 DEF c
  <2> QED
    BY <2>3, <2>4, <2>6, <2>7 DEF ExecuteStart, registryVars
<1>2. ASSUME ~ExecuteCommand, streams' \subseteq streams, UNCHANGED target
      PROVE  /\ target' \in [Stream -> Nat \cup {None}]
             /\ \A e \in streams' : e \in streams /\ target'[e.stream] = target[e.stream]
  BY <1>0, <1>2
<1>3. ASSUME ~ExecuteCommand PROVE streams' \subseteq streams /\ UNCHANGED target
  BY <1>3 DEF PwStep, NodeAppears, NodeInfo, PortConfig, NodeVanishes, Remove, At,
              StreamFormat, CollectStreams, CollectGarbage, pwVars, registryVars
<1> QED
  BY <1>1, <1>2, <1>3

LEMMA SerialsPw ==
    ASSUME PInv, SerialsOK, PwStep
    PROVE  SerialsOK'
<1>0. /\ cmdQ \in Seq(Command) /\ eventQ \in Seq(Event) /\ UNCHANGED node
      /\ streams \subseteq [id : NodeId, stream : Stream] /\ SerialsKnown
  BY PInvParts, PwStepIdle DEF EventsTypeOK, vars, stateVars, SerialsOK
<1>1. /\ lastSerial' \in Nat /\ graph' \in [NodeId -> Nat \cup {None}]
      /\ announced' \subseteq NodeId
      /\ \A id \in NodeId : graph'[id] # None => graph'[id] <= lastSerial'
      /\ \A id \in NodeId : \A s : Known(id, s) => KnownNext(id, s)
  BY KnownKept
<1>2. ASSUME NEW i \in 1 .. Len(eventQ'), eventQ'[i].kind = "props"
      PROVE  KnownNext(eventQ'[i].id, eventQ'[i].props.serial)
  <2>1. PICK w \in Seq(Event) :
          /\ eventQ' = eventQ \o w
          /\ \A j \in 1 .. Len(w) :
                w[j].kind = "props" =>
                    /\ w[j].id \in announced' /\ graph'[w[j].id] # None
                    /\ w[j].props.serial = graph'[w[j].id]
    BY PwSends
  <2>2. \/ i \in 1 .. Len(eventQ) /\ eventQ'[i] = eventQ[i]
        \/ i - Len(eventQ) \in 1 .. Len(w) /\ eventQ'[i] = w[i - Len(eventQ)]
    BY <1>0, <2>1, ConcatIndex
  <2> DEFINE e == eventQ'[i]
             id == e.id
             s == e.props.serial
  <2> HIDE DEF e
  <2>3. CASE i \in 1 .. Len(eventQ) /\ e = eventQ[i]
    <3>1. id \in NodeId
      BY <1>0, <2>3, EventFields
    <3>2. Known(id, s)
      BY <1>0, <1>2, <2>3 DEF SerialsKnown, e
    <3> HIDE DEF id, s
    <3>3. KnownNext(id, s)
      BY <1>1, <3>1, <3>2
    <3> QED
      BY <3>3 DEF id, s, e, KnownNext
  <2>4. CASE i - Len(eventQ) \in 1 .. Len(w) /\ e = w[i - Len(eventQ)]
    <3>1. id \in NodeId /\ id \in announced' /\ graph'[id] # None /\ s = graph'[id]
      BY <1>2, <2>1, <2>4, EventFields DEF e
    <3> QED
      BY <1>1, <3>1 DEF KnownNext, KnownIn, e
  <2> QED
    BY <2>2, <2>3, <2>4 DEF e
<1>3. ASSUME NEW i \in 1 .. Len(cmdQ'), cmdQ'[i].op = "start"
      PROVE  KnownNext(cmdQ'[i].id, cmdQ'[i].serial)
  <2>1. PICK j \in 1 .. Len(cmdQ) : cmdQ'[i] = cmdQ[j]
    <3>1. CASE UNCHANGED cmdQ
      BY <3>1
    <3>2. CASE ExecuteCommand
      BY <1>0, <3>2, CommandTail DEF ExecuteCommand
    <3> QED
      BY <3>1, <3>2 DEF PwStep, NodeAppears, NodeInfo, PortConfig, NodeVanishes,
                        StreamFormat, CollectStreams
  <2>2. cmdQ[j].id \in NodeId
    BY <1>0, CommandFields
  <2>3. Known(cmdQ[j].id, cmdQ[j].serial)
    BY <1>0, <1>3, <2>1 DEF SerialsKnown
  <2> DEFINE id == cmdQ[j].id
             s == cmdQ[j].serial
  <2> HIDE DEF id, s
  <2>4. KnownNext(id, s)
    BY <1>1, <2>2, <2>3 DEF id, s
  <2> QED
    BY <2>1, <2>4 DEF id, s, KnownNext
<1>4. ASSUME NEW e \in streams' PROVE KnownNext(e.id, target'[e.stream])
  <2> DEFINE id == e.id
             s == target'[e.stream]
  <2>1. Known(id, s) /\ id \in NodeId
    <3>1. CASE e \in streams /\ s = target[e.stream]
      BY <1>0, <3>1 DEF SerialsKnown
    <3>2. CASE /\ ExecuteCommand /\ Head(cmdQ).op = "start"
               /\ e.id = Head(cmdQ).id /\ s = Head(cmdQ).serial
      <4>1. 1 \in 1 .. Len(cmdQ) /\ Head(cmdQ) = cmdQ[1] /\ cmdQ[1] \in Command
        BY <1>0, <3>2, CommandTail DEF ExecuteCommand
      <4> QED
        BY <1>0, <3>2, <4>1, CommandFields DEF SerialsKnown
    <3> QED
      BY <3>1, <3>2, StreamsFrom
  <2> HIDE DEF id, s
  <2>2. KnownNext(id, s)
    BY <1>1, <2>1
  <2> QED
    BY <2>2 DEF id, s, KnownNext
<1>5. ASSUME NEW id \in NodeId, node'[id].serial # None PROVE KnownNext(id, node'[id].serial)
  <2> DEFINE s == node[id].serial
  <2>1. Known(id, s)
    BY <1>0, <1>5 DEF SerialsKnown
  <2> HIDE DEF s
  <2>2. KnownNext(id, s)
    BY <1>1, <2>1
  <2> QED
    BY <1>0, <2>2 DEF s, KnownNext
<1>6. target' \in [Stream -> Nat \cup {None}]
  BY StreamsFrom
<1> QED
  BY <1>1, <1>2, <1>3, <1>4, <1>5, <1>6 DEF SerialsOK, SerialsTypeOK, SerialsKnown, Known, KnownNext

LEMMA SerialsApp ==
    ASSUME PInv, TypeOK', SerialsOK, HandleEvent \/ AppStep
    PROVE  SerialsOK'
<1>0. /\ cmdQ \in Seq(Command) /\ eventQ \in Seq(Event) /\ TypeOK /\ SerialsKnown
      /\ UNCHANGED <<graph, lastSerial, announced, target, streams>>
  BY PInvParts DEF EventsTypeOK, IInv, SerialsOK, HandleEvent, AppStep, pwVars, registryVars
<1>1. \A id, s : Known(id, s) <=> KnownNext(id, s)
  BY <1>0 DEF Known, KnownNext
<1>2. \A i \in 1 .. Len(eventQ') : \E j \in 1 .. Len(eventQ) : eventQ'[i] = eventQ[j]
  <2>1. CASE AppStep
    BY <2>1 DEF AppStep
  <2>2. CASE HandleEvent
    <3>1. /\ Len(Tail(eventQ)) = Len(eventQ) - 1 /\ Len(eventQ) \in Nat \ {0}
          /\ \A i \in 1 .. Len(Tail(eventQ)) : Tail(eventQ)[i] = eventQ[i + 1]
          /\ eventQ' = Tail(eventQ)
      BY <1>0, <2>2, HandledIndex DEF HandleEvent
    <3>2. \A i \in 1 .. Len(eventQ') : i + 1 \in 1 .. Len(eventQ)
      BY <3>1
    <3> QED
      BY <3>1, <3>2
  <2> QED
    BY <2>1, <2>2
<1>3. ASSUME NEW id \in NodeId, node'[id].serial # None PROVE Known(id, node'[id].serial)
  <2>1. CASE AppStep
    <3>1. UNCHANGED node
      BY <2>1 DEF AppStep, Ready, HideNext, HideInstance, UnhideInstance, ToggleHiddenPermanent,
                  HiddenFileChanged, RenderFrame, SkipFrame, AskForFrame, Refresh, stateVars
    <3> QED
      BY <1>0, <1>3, <3>1 DEF SerialsKnown
  <2>2. CASE HandleEvent
    <3> DEFINE e == eventQ[1]
    <3>1. /\ Removes(e, id) => node'[id].serial = None
          /\ Announces(e, id) => node'[id].serial = e.props.serial
          /\ ~Removes(e, id) /\ ~Announces(e, id) => node'[id].serial = node[id].serial
      BY <1>0, <2>2, HandledNode DEF DefaultNode
    <3>2. 1 \in 1 .. Len(eventQ)
      BY <1>0, <2>2, HandledIndex DEF HandleEvent
    <3>3. CASE Announces(e, id)
      BY <1>0, <3>1, <3>2, <3>3 DEF SerialsKnown, Announces
    <3>4. CASE ~Announces(e, id)
      BY <1>0, <1>3, <3>1, <3>4 DEF SerialsKnown
    <3> QED
      BY <3>3, <3>4
  <2> QED
    BY <2>1, <2>2
<1>4. ASSUME NEW i \in 1 .. Len(cmdQ'), cmdQ'[i].op = "start"
      PROVE  Known(cmdQ'[i].id, cmdQ'[i].serial)
  <2>1. PICK w : Issued(w) /\ cmdQ' = cmdQ \o w
    BY IssuedCommands DEF HandleEvent, AppStep
  <2>2. \/ i \in 1 .. Len(cmdQ) /\ cmdQ'[i] = cmdQ[i]
        \/ i - Len(cmdQ) \in 1 .. Len(w) /\ cmdQ'[i] = w[i - Len(cmdQ)]
    BY <1>0, <2>1, ConcatIndex DEF Issued
  <2>3. CASE i \in 1 .. Len(cmdQ) /\ cmdQ'[i] = cmdQ[i]
    BY <1>0, <1>4, <2>3 DEF SerialsKnown
  <2>4. CASE i - Len(cmdQ) \in 1 .. Len(w) /\ cmdQ'[i] = w[i - Len(cmdQ)]
    <3> DEFINE c == cmdQ'[i]
    <3>1. c.id \in issued'.start /\ c.serial = node'[c.id].serial /\ c \in Command
      BY <1>4, <2>1, <2>4 DEF Issued
    <3>2. c.id \in NodeId /\ node'[c.id].serial # None
      <4>1. StartsSerial
        BY <1>0, SerialAppStep, SerialStateEvent, HandledEvent DEF PInv
      <4> QED
        BY <3>1, <4>1, CommandFields DEF StartsSerial
    <3> QED
      BY <1>3, <3>1, <3>2
  <2> QED
    BY <2>2, <2>3, <2>4
<1>5. SerialsTypeOK'
  BY <1>0 DEF SerialsOK, SerialsTypeOK
<1>6. SerialsKnown'
  <2>1. /\ \A id \in NodeId : graph'[id] # None => graph'[id] <= lastSerial'
        /\ \A e \in streams' : Known(e.id, target'[e.stream])
    BY <1>0 DEF SerialsKnown
  <2>2. \A i \in 1 .. Len(eventQ') :
           eventQ'[i].kind = "props" => Known(eventQ'[i].id, eventQ'[i].props.serial)
    BY <1>0, <1>2 DEF SerialsKnown
  <2> QED
    BY <1>1, <1>3, <1>4, <2>1, <2>2 DEF SerialsKnown, Known, KnownNext
<1> QED
  BY <1>5, <1>6 DEF SerialsOK

LEMMA MirrorPw ==
    ASSUME PInv, SerialsOK, MirrorOK, PwStep
    PROVE  MirrorOK'
<1>0. /\ eventQ \in Seq(Event) /\ EventsTypeOK /\ UNCHANGED <<nodes, node>>
      /\ \A id \in NodeId : id \in announced => graph[id] # None
      /\ graph \in [NodeId -> Nat \cup {None}]
  BY PInvParts, PwStepIdle
     DEF EventsTypeOK, vars, stateVars, MirrorOK, MirrorOf, SerialsOK, SerialsTypeOK
<1> SUFFICES ASSUME NEW id \in NodeId PROVE MirrorOf(id)'
  BY DEF MirrorOK
<1>1. MirrorOf(id)
  BY DEF MirrorOK
<1>2. ASSUME NEW w \in Seq(Event), eventQ' = eventQ \o w, Tells(w, id) PROVE MirrorOf(id)'
  BY <1>0, <1>1, <1>2, MirrorTold
<1>3. ASSUME NEW e \in Event, eventQ' = eventQ \o <<e>>, Tells(<<e>>, id) PROVE MirrorOf(id)'
  <2>1. <<e>> \in Seq(Event)
    OBVIOUS
  <2> QED
    BY <1>2, <1>3, <2>1
<1>4. ASSUME NEW n \in NodeId, NodeAppears(n) PROVE MirrorOf(id)'
  <2>1. <<>> \in Seq(Event) /\ eventQ' = eventQ \o <<>>
    BY <1>0, <1>4 DEF NodeAppears
  <2>2. id \in announced => graph'[id] = graph[id]
    <3>1. graph[n] = None /\ graph' = [graph EXCEPT ![n] = lastSerial']
      BY <1>4 DEF NodeAppears
    <3> QED
      BY <1>0, <3>1
  <2>3. Tells(<<>>, id)
    BY <1>0, <1>4, <2>2 DEF Tells, NodeAppears
  <2> QED
    BY <1>2, <2>1, <2>3
<1>5. ASSUME NEW n \in NodeId, NodeInfo(n) PROVE MirrorOf(id)'
  <2>1. PICK p \in PropsOf[n] :
          /\ eventQ' = eventQ \o <<[kind |-> "props", id |-> n, props |-> p]>>
          /\ p.serial = graph[n]
    BY <1>5 DEF NodeInfo, Send
  <2> DEFINE e == [kind |-> "props", id |-> n, props |-> p]
  <2>2. e \in Event /\ e.kind = "props" /\ e.id = n /\ e.props.serial = graph[n]
    BY <2>1, PropsAssumption DEF Event
  <2> HIDE DEF e
  <2>3. graph' = graph /\ graph[n] # None /\ announced' = announced \cup {n}
    BY <1>5 DEF NodeInfo
  <2>4. Tells(<<e>>, id)
    BY <1>0, <2>2, <2>3 DEF Tells, Announces, Removes, Touches
  <2> QED
    BY <1>3, <2>1, <2>2, <2>4 DEF e
<1>6. ASSUME NEW n \in NodeId, PortConfig(n) PROVE MirrorOf(id)'
  <2>1. PICK layout \in Layout :
          eventQ' = eventQ \o <<[kind |-> "positions", id |-> n, layout |-> layout]>>
    BY <1>6 DEF PortConfig, Send
  <2> DEFINE e == [kind |-> "positions", id |-> n, layout |-> layout]
  <2>2. e \in Event /\ e.kind = "positions" /\ e.id = n
    BY <2>1 DEF Event
  <2> HIDE DEF e
  <2>3. Tells(<<e>>, id)
    BY <1>0, <1>6, <2>2 DEF PortConfig, pwVars, Tells, Announces, Removes, Touches
  <2> QED
    BY <1>3, <2>1, <2>2, <2>3 DEF e
<1>7. ASSUME NEW n \in NodeId, NodeVanishes(n) PROVE MirrorOf(id)'
  <2> DEFINE e == [kind |-> "removed", id |-> n]
  <2>1. eventQ' = eventQ \o <<e>>
    BY <1>7 DEF NodeVanishes, Send
  <2>2. e \in Event /\ e.kind = "removed" /\ e.id = n
    BY DEF Event
  <2> HIDE DEF e
  <2>3. /\ announced' = announced \ {n}
        /\ \A i \in NodeId : graph'[i] = IF i = n THEN None ELSE graph[i]
    BY <1>0, <1>7 DEF NodeVanishes
  <2>4. CASE id # n
    <3>1. Tells(<<e>>, id)
      BY <1>0, <2>2, <2>3, <2>4 DEF Tells, Announces, Removes, Touches
    <3> QED
      BY <1>3, <2>1, <2>2, <3>1
  <2>5. CASE id = n
    <3> DEFINE w == <<e>>
    <3>1. w \in Seq(Event) /\ Len(w) = 1 /\ w[1] = e
      BY <2>2
    <3>2. eventQ' = eventQ \o w
      BY <2>1
    <3> HIDE DEF w
    <3>3. /\ id \notin announced' /\ \E i \in 1 .. Len(w) : Removes(w[i], id)
          /\ \A i \in 1 .. Len(w) : ~Announces(w[i], id) /\ ~Touches(w[i], id)
      BY <2>2, <2>3, <2>5, <3>1 DEF Announces, Removes, Touches
    <3> QED
      BY <1>0, <1>1, <3>1, <3>2, <3>3, MirrorTold
  <2> QED
    BY <2>4, <2>5
<1>8. ASSUME NEW s \in streams, StreamFormat(s) PROVE MirrorOf(id)'
  <2> DEFINE e == [kind |-> "started", id |-> s.id, stream |-> s.stream]
  <2>1. eventQ' = eventQ \o <<e>>
    BY <1>8 DEF StreamFormat, Send
  <2>2. s.id \in NodeId /\ s.stream \in Stream
    BY <1>0 DEF EventsTypeOK
  <2>3. e \in Event /\ e.kind = "started" /\ e.id = s.id
    BY <2>2 DEF Event
  <2> HIDE DEF e
  <2>4. Tells(<<e>>, id)
    BY <1>0, <1>8, <2>3 DEF StreamFormat, pwVars, Tells, Announces, Removes, Touches
  <2> QED
    BY <1>3, <2>1, <2>3, <2>4
<1>9. ASSUME CollectStreams PROVE MirrorOf(id)'
  <2>1. PICK w \in Seq(Event) :
          eventQ' = eventQ \o w /\ \A i \in 1 .. Len(w) : w[i].kind = "stopped"
    BY <1>0, <1>9, CollectSends
  <2>2. Tells(w, id)
    BY <1>0, <1>9, <2>1 DEF CollectStreams, Tells, Announces, Removes, Touches
  <2> QED
    BY <1>2, <2>1, <2>2
<1>10. CASE ExecuteCommand
  <2>1. <<>> \in Seq(Event) /\ eventQ' = eventQ \o <<>>
    BY <1>0, <1>10 DEF ExecuteCommand
  <2>2. Tells(<<>>, id)
    BY <1>0, <1>10 DEF ExecuteCommand, Tells
  <2> QED
    BY <1>2, <2>1, <2>2
<1> QED
  BY <1>4, <1>5, <1>6, <1>7, <1>8, <1>9, <1>10 DEF PwStep

LEMMA MirrorApp ==
    ASSUME PInv, MirrorOK, AppStep
    PROVE  MirrorOK'
<1>1. UNCHANGED <<nodes, node, eventQ, graph, announced>>
  BY DEF AppStep, Ready, HideNext, HideInstance, UnhideInstance, ToggleHiddenPermanent,
         HiddenFileChanged, RenderFrame, SkipFrame, AskForFrame, Refresh, stateVars, pwVars
<1> QED
  BY <1>1 DEF MirrorOK, MirrorOf, EventOK, Mirrored

-----------------------------------------------------------------------------
(* A stream, or a start, that no stop in flight undoes is for the node that*)
(* holds the id, unless the App has yet to hear that its node has gone.    *)
Lasting(q, i, id) == \A j \in (i + 1) .. Len(q) : ~Stops(q[j], id)

TargetsLast ==
    \A id \in NodeId :
        /\ \A i \in 1 .. Len(cmdQ) :
              Starts(cmdQ[i], id) /\ Lasting(cmdQ, i, id) =>
                  cmdQ[i].serial = graph[id] \/ RemovalPending(id)
        /\ \A e \in streams :
              e.id = id /\ Lasting(cmdQ, 0, id) =>
                  target[e.stream] = graph[id] \/ RemovalPending(id)

LEMMA LastingBefore ==
    ASSUME NEW q \in Seq(Command), NEW w \in Seq(Command), NEW id,
           NEW i \in 0 .. Len(q), Lasting(q \o w, i, id)
    PROVE  Lasting(q, i, id)
<1>1. /\ Len(q) \in Nat /\ Len(w) \in Nat /\ Len(q \o w) = Len(q) + Len(w)
      /\ \A j \in 1 .. Len(q) : (q \o w)[j] = q[j]
  OBVIOUS
<1>2. \A j \in (i + 1) .. Len(q) : j \in (i + 1) .. Len(q \o w) /\ j \in 1 .. Len(q)
  BY <1>1
<1> QED
  BY <1>1, <1>2 DEF Lasting

LEMMA LastingTail ==
    ASSUME NEW q \in Seq(Command), q # <<>>, NEW id,
           NEW i \in 0 .. Len(Tail(q)), Lasting(Tail(q), i, id)
    PROVE  /\ Lasting(q, i + 1, id)
           /\ i = 0 /\ ~Stops(q[1], id) => Lasting(q, 0, id)
<1> DEFINE w == Tail(q)
<1>1. /\ Len(w) = Len(q) - 1 /\ Len(q) \in Nat
      /\ \A j \in 1 .. Len(w) : w[j] = q[j + 1]
      /\ \A j \in (i + 1) .. Len(w) : ~Stops(w[j], id)
  BY CommandTail DEF Lasting
<1> HIDE DEF w
<1>2. ASSUME NEW j \in (i + 1 + 1) .. Len(q) PROVE ~Stops(q[j], id)
  <2>1. j - 1 \in (i + 1) .. Len(w) /\ w[j - 1] = q[j]
    BY <1>1
  <2> QED
    BY <1>1, <2>1
<1>3. ASSUME i = 0, ~Stops(q[1], id), NEW j \in (0 + 1) .. Len(q) PROVE ~Stops(q[j], id)
  BY <1>1, <1>2, <1>3
<1> QED
  BY <1>2, <1>3 DEF Lasting

LEMMA TargetsApp ==
    ASSUME PInv, PInv', MirrorOK', TargetsLast, HandleEvent \/ AppStep,
           \A id \in capturing' : RemovalPending(id) => RemovalPending(id)'
    PROVE  TargetsLast'
<1>0. /\ cmdQ \in Seq(Command) /\ TypeOK'
      /\ UNCHANGED <<graph, target, streams>>
  BY PInvParts DEF PInv, IInv, HandleEvent, AppStep, pwVars, registryVars
<1>1. PICK w : Issued(w) /\ cmdQ' = cmdQ \o w
  BY <1>0, IssuedCommands DEF HandleEvent, AppStep
<1>2. StartsSerial
  BY SerialAppStep, SerialStateEvent, HandledEvent DEF PInv
<1>3. w \in Seq(Command)
  BY <1>1 DEF Issued
<1> DEFINE Q == cmdQ'
<1> SUFFICES ASSUME NEW id \in NodeId
             PROVE  /\ \A i \in 1 .. Len(Q) :
                          Starts(Q[i], id) /\ Lasting(Q, i, id) =>
                              Q[i].serial = graph[id] \/ RemovalPending(id)'
                    /\ \A e \in streams :
                          e.id = id /\ Lasting(Q, 0, id) =>
                              target[e.stream] = graph[id] \/ RemovalPending(id)'
  BY <1>0 DEF TargetsLast
<1>4. /\ \A i \in 1 .. Len(Q) : Starts(Q[i], id) /\ Lasting(Q, i, id) => id \in capturing'
      /\ \A e \in streams : e.id = id /\ Lasting(Q, 0, id) => id \in capturing'
  <2>1. /\ \A i \in 1 .. Len(cmdQ') :
             Starts(cmdQ'[i], id) /\ Lasting(cmdQ', i, id) => id \in capturing'
        /\ \A e \in streams' : e.id = id /\ Lasting(cmdQ', 0, id) => id \in capturing'
    <3>1. Run(cmdQ', Captured') \subseteq capturing'
      BY DEF PInv, CommandsOK, EndsInCapturing
    <3>2. \A i \in 1 .. Len(cmdQ') :
             Starts(cmdQ'[i], id) /\ Lasting(cmdQ', i, id) => id \in Run(cmdQ', Captured')
      BY DEF Run, Running, Lasting
    <3>3. \A e \in streams' : e.id = id /\ Lasting(cmdQ', 0, id) => id \in Run(cmdQ', Captured')
      BY DEF Run, Running, Lasting, Captured
    <3> QED
      BY <3>1, <3>2, <3>3
  <2> QED
    BY <1>0, <2>1
<1> HIDE DEF Q
<1>5. ASSUME NEW i \in 1 .. Len(Q), Starts(Q[i], id), Lasting(Q, i, id)
      PROVE  Q[i].serial = graph[id] \/ RemovalPending(id)'
  <2>1. \/ i \in 1 .. Len(cmdQ) /\ Q[i] = cmdQ[i]
        \/ i - Len(cmdQ) \in 1 .. Len(w) /\ Q[i] = w[i - Len(cmdQ)]
    BY <1>0, <1>1, <1>3, ConcatIndex DEF Q
  <2>2. CASE i \in 1 .. Len(cmdQ) /\ Q[i] = cmdQ[i]
    <3>1. Lasting(cmdQ, i, id)
      BY <1>0, <1>1, <1>3, <1>5, <2>2, LastingBefore DEF Q
    <3>2. cmdQ[i].serial = graph[id] \/ RemovalPending(id)
      BY <1>5, <2>2, <3>1 DEF TargetsLast
    <3> QED
      BY <1>4, <1>5, <2>2, <3>2
  <2>3. CASE i - Len(cmdQ) \in 1 .. Len(w) /\ Q[i] = w[i - Len(cmdQ)]
    <3>1. Q[i].serial = node'[id].serial /\ node'[id] # DefaultNode
      <4>1. Q[i].serial = node'[id].serial /\ node'[id].serial # None
        BY <1>1, <1>2, <1>5, <2>3 DEF Issued, Starts, StartsSerial
      <4>2. DefaultNode.serial = None
        BY DEF DefaultNode
      <4> QED
        BY <4>1, <4>2
    <3>2. CASE Final(eventQ', 0, id)
      BY <1>0, <3>1, <3>2 DEF MirrorOK, MirrorOf
    <3>3. CASE ~Final(eventQ', 0, id)
      BY <3>3 DEF Final, RemovalPending, Removes
    <3> QED
      BY <3>2, <3>3
  <2> QED
    BY <2>1, <2>2, <2>3
<1>6. ASSUME NEW e \in streams, e.id = id, Lasting(Q, 0, id)
      PROVE  target[e.stream] = graph[id] \/ RemovalPending(id)'
  <2>1. 0 \in 0 .. Len(cmdQ)
    BY <1>0
  <2>2. Lasting(cmdQ, 0, id)
    BY <1>0, <1>1, <1>3, <1>6, <2>1, LastingBefore DEF Q
  <2> QED
    BY <1>4, <1>6, <2>2 DEF TargetsLast
<1> QED
  BY <1>5, <1>6

LEMMA TargetsPw ==
    ASSUME PInv, SerialsOK, TargetsLast, PwStep
    PROVE  TargetsLast'
<1>0. /\ cmdQ \in Seq(Command) /\ eventQ \in Seq(Event) /\ SerialsKnown
      /\ graph \in [NodeId -> Nat \cup {None}] /\ None \notin Nat
  BY PInvParts, NoneAssumption DEF EventsTypeOK, SerialsOK, SerialsTypeOK
<1> DEFINE Current(id, s) == s = graph[id] \/ RemovalPending(id)
<1>1. ASSUME NEW id \in NodeId, NEW s \in Nat, Current(id, s)
      PROVE  s = graph'[id] \/ RemovalPending(id)'
  <2>1. CASE RemovalPending(id)
    BY <1>0, <2>1, PwSends, Sent
  <2>2. CASE s = graph[id]
    <3>1. ASSUME NEW n \in NodeId, NodeAppears(n) PROVE graph'[id] = graph[id]
      <4>1. graph[n] = None /\ graph' = [graph EXCEPT ![n] = lastSerial']
        BY <3>1 DEF NodeAppears
      <4> QED
        BY <1>0, <2>2, <4>1
    <3>2. ASSUME NEW n \in NodeId, NodeVanishes(n)
          PROVE  graph'[id] = graph[id] \/ RemovalPending(id)'
      <4>1. CASE n = id
        <5> DEFINE w == <<[kind |-> "removed", id |-> id]>>
        <5>1. /\ w \in Seq(Event) /\ eventQ' = eventQ \o w
              /\ 1 \in 1 .. Len(w) /\ w[1].kind = "removed" /\ w[1].id = id
          <6>1. [kind |-> "removed", id |-> id] \in Event
            BY DEF Event
          <6> QED
            BY <3>2, <4>1, <6>1 DEF NodeVanishes, Send
        <5> HIDE DEF w
        <5> QED
          BY <1>0, <5>1, Sent
      <4>2. CASE n # id
        BY <1>0, <3>2, <4>2 DEF NodeVanishes
      <4> QED
        BY <4>1, <4>2
    <3> QED
      BY <2>2, <3>1, <3>2 DEF PwStep, NodeInfo, PortConfig, StreamFormat, CollectStreams,
                              ExecuteCommand, pwVars
  <2> QED
    BY <1>1, <2>1, <2>2
<1> SUFFICES ASSUME NEW id \in NodeId
             PROVE  /\ \A i \in 1 .. Len(cmdQ') :
                          Starts(cmdQ'[i], id) /\ Lasting(cmdQ', i, id) =>
                              Current(id, cmdQ'[i].serial) /\ cmdQ'[i].serial \in Nat
                    /\ \A e \in streams' :
                          e.id = id /\ Lasting(cmdQ', 0, id) =>
                              Current(id, target'[e.stream]) /\ target'[e.stream] \in Nat
  BY <1>1 DEF TargetsLast
<1>2. ASSUME NEW i \in 1 .. Len(cmdQ), Starts(cmdQ[i], id), Lasting(cmdQ, i, id)
      PROVE  Current(id, cmdQ[i].serial) /\ cmdQ[i].serial \in Nat
  BY <1>0, <1>2 DEF TargetsLast, SerialsKnown, Known, KnownIn, Starts
<1>3. ASSUME NEW e \in streams, e.id = id, Lasting(cmdQ, 0, id)
      PROVE  Current(id, target[e.stream]) /\ target[e.stream] \in Nat
  BY <1>0, <1>3 DEF TargetsLast, SerialsKnown, Known, KnownIn
<1> HIDE DEF Current
<1>4. CASE ExecuteCommand
  <2> DEFINE Q == Tail(cmdQ)
  <2>1. /\ cmdQ # <<>> /\ cmdQ' = Q /\ Len(Q) = Len(cmdQ) - 1 /\ Len(cmdQ) \in Nat \ {0}
        /\ Head(cmdQ) = cmdQ[1] /\ cmdQ[1] \in Command
        /\ \A i \in 1 .. Len(Q) : Q[i] = cmdQ[i + 1] /\ i + 1 \in 1 .. Len(cmdQ)
    BY <1>0, <1>4, CommandTail DEF ExecuteCommand
  <2>2. \A i \in 0 .. Len(Q) :
           Lasting(Q, i, id) => /\ Lasting(cmdQ, i + 1, id)
                                /\ i = 0 /\ ~Stops(cmdQ[1], id) => Lasting(cmdQ, 0, id)
    BY <1>0, <2>1, LastingTail
  <2> HIDE DEF Q
  <2>3. ASSUME NEW i \in 1 .. Len(Q), Starts(Q[i], id), Lasting(Q, i, id)
        PROVE  Current(id, Q[i].serial) /\ Q[i].serial \in Nat
    <3>1. i \in 0 .. Len(Q) /\ i + 1 \in 1 .. Len(cmdQ) /\ Q[i] = cmdQ[i + 1]
      BY <2>1
    <3> QED
      BY <1>2, <2>2, <2>3, <3>1
  <2>4. ASSUME NEW e \in streams', e.id = id, Lasting(Q, 0, id)
        PROVE  Current(id, target'[e.stream]) /\ target'[e.stream] \in Nat
    <3>1. /\ Lasting(cmdQ, 1, id) /\ (~Stops(cmdQ[1], id) => Lasting(cmdQ, 0, id))
          /\ 1 \in 1 .. Len(cmdQ)
      BY <2>1, <2>2, <2>4
    <3>2. CASE cmdQ[1].op = "start" /\ e.id = cmdQ[1].id /\ target'[e.stream] = cmdQ[1].serial
      BY <1>2, <2>4, <3>1, <3>2 DEF Starts
    <3>3. CASE e \in streams /\ target'[e.stream] = target[e.stream] /\ ~Stops(cmdQ[1], id)
      BY <1>3, <2>4, <3>1, <3>3
    <3> QED
      BY <1>4, <2>1, <2>4, <3>2, <3>3, StreamsFrom DEF Stops
  <2> QED
    BY <2>1, <2>3, <2>4
<1>5. CASE ~ExecuteCommand
  <2>1. UNCHANGED cmdQ
    BY <1>5 DEF PwStep, NodeAppears, NodeInfo, PortConfig, NodeVanishes, StreamFormat,
                CollectStreams
  <2>2. \A e \in streams' : e \in streams /\ target'[e.stream] = target[e.stream]
    BY <1>5, StreamsFrom
  <2> QED
    BY <1>2, <1>3, <2>1, <2>2
<1> QED
  BY <1>4, <1>5

-----------------------------------------------------------------------------
(* A node whose meter will be shown once all events are handled is captured*)
(* or has a stopped event coming.                                          *)
Clears(e, id) == e.kind \in {"removed", "stopped"} /\ e.id = id
Shows(e, id) == e.kind = "started" /\ e.id = id
Cleared(q, i, id) == \E j \in (i + 1) .. Len(q) : Clears(q[j], id)

EndsShown(q, p, id) ==
    \/ p[id] # None /\ ~Cleared(q, 0, id)
    \/ \E i \in 1 .. Len(q) : Shows(q[i], id) /\ ~Cleared(q, i, id)

MetersOK ==
    /\ peaks \in [NodeId -> Stream \cup {None}]
    /\ \A id \in NodeId : EndsShown(eventQ, peaks, id) => id \in Captured \cup garbageIds

LEMMA ShownSent ==
    ASSUME NEW q \in Seq(Event), NEW w \in Seq(Event), NEW p, NEW id,
           EndsShown(q \o w, p, id)
    PROVE  \/ EndsShown(q, p, id) /\ \A j \in 1 .. Len(w) : ~Clears(w[j], id)
           \/ \E j \in 1 .. Len(w) : Shows(w[j], id)
<1> DEFINE n == Len(q)
           r == q \o w
<1>1. /\ n \in Nat /\ Len(w) \in Nat /\ Len(r) = n + Len(w)
      /\ \A i \in 1 .. n : r[i] = q[i]
      /\ \A i \in 1 .. Len(w) : r[n + i] = w[i]
  BY SentIndex
<1> HIDE DEF n, r
<1>2. ASSUME NEW i \in 0 .. n, ~Cleared(r, i, id)
      PROVE  ~Cleared(q, i, id) /\ \A j \in 1 .. Len(w) : ~Clears(w[j], id)
  <2>1. \A j \in (i + 1) .. n : j \in (i + 1) .. Len(r) /\ r[j] = q[j]
    BY <1>1
  <2>2. \A j \in 1 .. Len(w) : n + j \in (i + 1) .. Len(r) /\ r[n + j] = w[j]
    BY <1>1
  <2> QED
    BY <1>2, <2>1, <2>2 DEF Cleared, n
<1>3. ASSUME NEW i \in 1 .. Len(r), Shows(r[i], id), ~Cleared(r, i, id)
      PROVE  \/ i \in 1 .. n /\ Shows(q[i], id)
             \/ \E j \in 1 .. Len(w) : Shows(w[j], id)
  <2>1. CASE i <= n
    BY <1>1, <1>3, <2>1
  <2>2. CASE i > n
    <3>1. i - n \in 1 .. Len(w) /\ r[i] = w[i - n]
      BY <1>1, <2>2
    <3> QED
      BY <1>3, <3>1
  <2> QED
    BY <1>1, <2>1, <2>2
<1>4. EndsShown(r, p, id)
  BY DEF r
<1>5. CASE p[id] # None /\ ~Cleared(r, 0, id)
  <2>1. 0 \in 0 .. n
    BY <1>1
  <2> QED
    BY <1>2, <1>5, <2>1 DEF EndsShown
<1>6. ASSUME NEW i \in 1 .. Len(r), Shows(r[i], id), ~Cleared(r, i, id)
      PROVE  \/ EndsShown(q, p, id) /\ \A j \in 1 .. Len(w) : ~Clears(w[j], id)
             \/ \E j \in 1 .. Len(w) : Shows(w[j], id)
  <2>1. i \in 1 .. n => i \in 0 .. n
    BY <1>1
  <2> QED
    BY <1>2, <1>3, <1>6, <2>1 DEF EndsShown, n
<1> QED
  BY <1>4, <1>5, <1>6 DEF EndsShown

LEMMA ShownHandled ==
    ASSUME NEW q \in Seq(Event), q # <<>>, NEW p, NEW r, NEW id,
           Clears(q[1], id) => r[id] = None,
           ~Clears(q[1], id) /\ ~Shows(q[1], id) => r[id] = p[id],
           EndsShown(Tail(q), r, id)
    PROVE  EndsShown(q, p, id)
<1> DEFINE w == Tail(q)
<1>1. /\ Len(w) = Len(q) - 1 /\ Len(q) \in Nat \ {0}
      /\ \A i \in 1 .. Len(w) : w[i] = q[i + 1] /\ i + 1 \in 1 .. Len(q)
  BY HandledIndex
<1> HIDE DEF w
<1>2. ASSUME NEW i \in 0 .. Len(w), ~Cleared(w, i, id)
      PROVE  ~Cleared(q, i + 1, id)
  <2>1. \A j \in (i + 1 + 1) .. Len(q) : j - 1 \in (i + 1) .. Len(w) /\ w[j - 1] = q[j]
    BY <1>1
  <2> QED
    BY <1>2, <2>1 DEF Cleared
<1>3. CASE r[id] # None /\ ~Cleared(w, 0, id)
  <2>1. ~Cleared(q, 1, id) /\ ~Clears(q[1], id) /\ 1 \in 1 .. Len(q)
    BY <1>1, <1>2, <1>3
  <2>2. CASE Shows(q[1], id)
    BY <2>1, <2>2 DEF EndsShown
  <2>3. CASE ~Shows(q[1], id)
    <3>1. \A j \in 1 .. Len(q) : j = 1 \/ j \in (1 + 1) .. Len(q)
      BY <1>1
    <3>2. ~Cleared(q, 0, id)
      BY <2>1, <3>1 DEF Cleared
    <3> QED
      BY <1>3, <2>1, <2>3, <3>2 DEF EndsShown
  <2> QED
    BY <2>2, <2>3
<1>4. ASSUME NEW i \in 1 .. Len(w), Shows(w[i], id), ~Cleared(w, i, id)
      PROVE  EndsShown(q, p, id)
  <2>1. i + 1 \in 1 .. Len(q) /\ Shows(q[i + 1], id) /\ ~Cleared(q, i + 1, id)
    BY <1>1, <1>2, <1>4
  <2> QED
    BY <2>1 DEF EndsShown
<1>5. EndsShown(w, r, id)
  BY DEF w
<1> QED
  BY <1>3, <1>4, <1>5 DEF EndsShown

LEMMA MetersHandled ==
    ASSUME PInv, MetersOK, HandleEvent
    PROVE  MetersOK'
<1>0. /\ eventQ \in Seq(Event) /\ eventQ # <<>> /\ eventQ' = Tail(eventQ)
      /\ peaks \in [NodeId -> Stream \cup {None}]
      /\ UNCHANGED <<streams, garbageIds>>
  BY PInvParts DEF EventsTypeOK, MetersOK, HandleEvent, pwVars, registryVars
<1> DEFINE e == eventQ[1]
<1>1. Apply(e) /\ e \in Event
  BY <1>0, HandledIndex DEF HandleEvent
<1> HIDE DEF e
<1>2. e.id \in NodeId /\ (e.kind = "started" => e.stream \in Stream)
  <2>1. e.kind = "started" => e \in [kind : {"started"}, id : NodeId, stream : Stream]
    BY <1>1 DEF Event
  <2> QED
    BY <1>1, <2>1, EventFields
<1>3. /\ peaks' \in [NodeId -> Stream \cup {None}]
      /\ \A id \in NodeId :
            /\ Clears(e, id) => peaks'[id] = None
            /\ ~Clears(e, id) /\ ~Shows(e, id) => peaks'[id] = peaks[id]
  BY <1>0, <1>1, <1>2 DEF Apply, Clears, Shows
<1>4. \A id \in NodeId : EndsShown(eventQ', peaks', id) => EndsShown(eventQ, peaks, id)
  BY <1>0, <1>3, ShownHandled DEF e
<1>5. \A id \in NodeId : EndsShown(eventQ', peaks', id) => id \in Captured' \cup garbageIds'
  BY <1>0, <1>4 DEF MetersOK, Captured
<1> QED
  BY <1>3, <1>5 DEF MetersOK

(* What the thread sends clears the meter of a stream it lets go of.       *)
LEMMA MetersPw ==
    ASSUME PInv, MetersOK, PwStep
    PROVE  MetersOK'
<1>0. /\ eventQ \in Seq(Event) /\ EventsTypeOK /\ UNCHANGED peaks
      /\ peaks \in [NodeId -> Stream \cup {None}]
      /\ \A id \in NodeId : EndsShown(eventQ, peaks, id) => id \in Captured \cup garbageIds
  BY PInvParts
     DEF EventsTypeOK, MetersOK, PwStep, AppIdle, NodeAppears, NodeInfo, PortConfig,
         NodeVanishes, StreamFormat, CollectStreams, ExecuteCommand
<1> SUFFICES ASSUME NEW id \in NodeId, EndsShown(eventQ', peaks, id)
             PROVE  id \in Captured' \cup garbageIds'
  BY <1>0 DEF MetersOK
<1>1. CASE UNCHANGED <<eventQ, streams, garbageIds>>
  BY <1>0, <1>1 DEF Captured
<1>2. ASSUME NEW e \in Event, eventQ' = eventQ \o <<e>>
      PROVE  \/ EndsShown(eventQ, peaks, id) /\ ~Clears(e, id)
             \/ Shows(e, id)
  <2> DEFINE w == <<e>>
  <2>1. w \in Seq(Event) /\ eventQ' = eventQ \o w /\ Len(w) = 1 /\ w[1] = e
    BY <1>2
  <2> HIDE DEF w
  <2>2. \A j \in 1 .. Len(w) : w[j] = e
    BY <2>1
  <2>3. \/ EndsShown(eventQ, peaks, id) /\ \A j \in 1 .. Len(w) : ~Clears(w[j], id)
        \/ \E j \in 1 .. Len(w) : Shows(w[j], id)
    BY <1>0, <2>1, ShownSent
  <2>4. 1 \in 1 .. Len(w)
    BY <2>1
  <2> QED
    BY <2>1, <2>2, <2>3, <2>4
<1>3. ASSUME NEW n \in NodeId, NodeInfo(n) PROVE id \in Captured' \cup garbageIds'
  <2>1. PICK p \in PropsOf[n] :
          eventQ' = eventQ \o <<[kind |-> "props", id |-> n, props |-> p]>>
    BY <1>3 DEF NodeInfo, Send
  <2> DEFINE e == [kind |-> "props", id |-> n, props |-> p]
  <2>2. e \in Event /\ ~Shows(e, id)
    BY <2>1, PropsAssumption DEF Event, Shows
  <2>3. EndsShown(eventQ, peaks, id)
    BY <1>2, <2>1, <2>2
  <2> QED
    BY <1>0, <1>3, <2>3 DEF NodeInfo, registryVars, Captured
<1>4. ASSUME NEW n \in NodeId, PortConfig(n) PROVE id \in Captured' \cup garbageIds'
  <2>1. PICK layout \in Layout :
          eventQ' = eventQ \o <<[kind |-> "positions", id |-> n, layout |-> layout]>>
    BY <1>4 DEF PortConfig, Send
  <2> DEFINE e == [kind |-> "positions", id |-> n, layout |-> layout]
  <2>2. e \in Event /\ ~Shows(e, id)
    BY <2>1 DEF Event, Shows
  <2>3. EndsShown(eventQ, peaks, id)
    BY <1>2, <2>1, <2>2
  <2> QED
    BY <1>0, <1>4, <2>3 DEF PortConfig, pwVars, registryVars, Captured
<1>5. ASSUME NEW n \in NodeId, NodeVanishes(n) PROVE id \in Captured' \cup garbageIds'
  <2> DEFINE e == [kind |-> "removed", id |-> n]
  <2>1. eventQ' = eventQ \o <<e>> /\ e \in Event /\ ~Shows(e, id) /\ (n = id => Clears(e, id))
    BY <1>5 DEF NodeVanishes, Send, Event, Shows, Clears
  <2> HIDE DEF e
  <2>2. EndsShown(eventQ, peaks, id) /\ n # id
    BY <1>2, <2>1
  <2>3. Captured' = Captured \ {n} /\ garbageIds \subseteq garbageIds'
    BY <1>0, <1>5, RemoveTypes DEF NodeVanishes, Remove
  <2> QED
    BY <1>0, <2>2, <2>3
<1>6. ASSUME NEW s \in streams, StreamFormat(s) PROVE id \in Captured' \cup garbageIds'
  <2> DEFINE e == [kind |-> "started", id |-> s.id, stream |-> s.stream]
  <2>1. eventQ' = eventQ \o <<e>>
    BY <1>6 DEF StreamFormat, Send
  <2>2. s.id \in NodeId /\ s.stream \in Stream
    BY <1>0 DEF EventsTypeOK
  <2>3. e \in Event /\ (Shows(e, id) => id = s.id)
    BY <2>2 DEF Event, Shows
  <2> HIDE DEF e
  <2>4. EndsShown(eventQ, peaks, id) \/ id = s.id
    BY <1>2, <2>1, <2>3
  <2>5. UNCHANGED <<streams, garbageIds>> /\ s.id \in Captured
    BY <1>6 DEF StreamFormat, pwVars, registryVars, Captured
  <2> QED
    BY <1>0, <2>4, <2>5 DEF Captured
<1>7. ASSUME CollectStreams PROVE id \in Captured' \cup garbageIds'
  <2>1. PICK w \in Seq(Event) :
          /\ eventQ' = eventQ \o w
          /\ \A i \in 1 .. Len(w) : w[i].kind = "stopped"
          /\ \A n \in garbageIds : \E i \in 1 .. Len(w) : w[i].id = n
    BY <1>0, <1>7, CollectSends
  <2>2. EndsShown(eventQ, peaks, id) /\ \A j \in 1 .. Len(w) : ~Clears(w[j], id)
    <3>1. ~\E j \in 1 .. Len(w) : Shows(w[j], id)
      BY <2>1 DEF Shows
    <3> QED
      BY <1>0, <2>1, <3>1, ShownSent
  <2>3. id \notin garbageIds
    BY <2>1, <2>2 DEF Clears
  <2> QED
    BY <1>0, <1>7, <2>2, <2>3 DEF CollectStreams, CollectGarbage, Captured
<1>8. CASE ExecuteCommand
  <2> DEFINE c == Head(cmdQ)
  <2>1. EndsShown(eventQ, peaks, id)
    BY <1>8 DEF ExecuteCommand
  <2>2. CASE ExecuteStop(c)
    <3>1. /\ streams' = {s \in streams : s.id # c.id} /\ garbageIds \subseteq garbageIds'
          /\ c.id \in Captured => c.id \in garbageIds'
      BY <2>2 DEF ExecuteStop, Remove, At, Captured
    <3> QED
      BY <1>0, <2>1, <3>1 DEF Captured
  <2>3. CASE ExecuteStart(c)
    <3>1. Captured \subseteq Captured'
      <4>1. CASE Captured' = Executed(c, Captured)
        BY <2>3, <4>1 DEF ExecuteStart, Executed
      <4> QED
        BY <1>8, <4>1, StreamsAfterCommand
    <3>2. UNCHANGED garbageIds
      BY <2>3 DEF ExecuteStart, AddStream, registryVars
    <3> QED
      BY <1>0, <2>1, <3>1, <3>2
  <2> QED
    BY <1>8, <2>2, <2>3 DEF ExecuteCommand
<1> QED
  BY <1>1, <1>3, <1>4, <1>5, <1>6, <1>7, <1>8 DEF PwStep, NodeAppears, registryVars

LEMMA MetersApp ==
    ASSUME MetersOK, AppStep
    PROVE  MetersOK'
BY DEF MetersOK, AppStep, pwVars, registryVars, Captured

-----------------------------------------------------------------------------
(* A stream in use whose format reached the App, none stopped before it    *)
(* still waiting for its collection, ends up with the meter of its id once *)
(* all events are handled.                                                 *)
Disturbs(e, id, s) == Clears(e, id) \/ (Shows(e, id) /\ e.stream # s)
Undisturbed(q, i, id, s) == \A j \in (i + 1) .. Len(q) : ~Disturbs(q[j], id, s)

EndsFed(q, p, id, s) ==
    \/ p[id] = s /\ Undisturbed(q, 0, id, s)
    \/ \E i \in 1 .. Len(q) :
          Shows(q[i], id) /\ q[i].stream = s /\ Undisturbed(q, i, id, s)

FedOK ==
    /\ garbageIds \subseteq owed
    /\ \A e, f \in streams : e.id = f.id \/ e.stream = f.stream => e = f
    /\ \A e \in streams :
          e.stream \in fed =>
              e.id \notin garbageIds /\ EndsFed(eventQ, peaks, e.id, e.stream)

LEMMA FedSent ==
    ASSUME NEW q \in Seq(Event), NEW w \in Seq(Event), NEW p, NEW id, NEW s,
           \A j \in 1 .. Len(w) : ~Disturbs(w[j], id, s),
           \/ EndsFed(q, p, id, s)
           \/ \E j \in 1 .. Len(w) : Shows(w[j], id) /\ w[j].stream = s
    PROVE  EndsFed(q \o w, p, id, s)
<1> DEFINE n == Len(q)
           r == q \o w
<1>1. /\ n \in Nat /\ Len(w) \in Nat /\ Len(r) = n + Len(w)
      /\ \A i \in 1 .. n : r[i] = q[i]
      /\ \A i \in 1 .. Len(w) : r[n + i] = w[i]
  BY SentIndex
<1> HIDE DEF n, r
<1>2. \A j \in (n + 1) .. Len(r) : ~Disturbs(r[j], id, s)
  <2> SUFFICES ASSUME NEW j \in (n + 1) .. Len(r) PROVE ~Disturbs(r[j], id, s)
    OBVIOUS
  <2>1. j - n \in 1 .. Len(w) /\ r[j] = w[j - n]
    BY <1>1
  <2> QED
    BY <2>1
<1>3. ASSUME NEW i \in 0 .. n, Undisturbed(q, i, id, s) PROVE Undisturbed(r, i, id, s)
  <2> SUFFICES ASSUME NEW j \in (i + 1) .. Len(r) PROVE ~Disturbs(r[j], id, s)
    BY DEF Undisturbed
  <2>1. CASE j <= n
    <3>1. j \in (i + 1) .. n /\ r[j] = q[j]
      BY <1>1, <2>1
    <3> QED
      BY <1>3, <3>1 DEF Undisturbed, n
  <2>2. CASE j > n
    <3>1. j \in (n + 1) .. Len(r)
      BY <1>1, <2>2
    <3> QED
      BY <1>2, <3>1
  <2> QED
    BY <1>1, <2>1, <2>2
<1>4. CASE p[id] = s /\ Undisturbed(q, 0, id, s)
  <2>1. 0 \in 0 .. n
    BY <1>1
  <2> QED
    BY <1>3, <1>4, <2>1 DEF EndsFed, r
<1>5. ASSUME NEW i \in 1 .. n, Shows(q[i], id), q[i].stream = s, Undisturbed(q, i, id, s)
      PROVE  EndsFed(r, p, id, s)
  <2>1. i \in 0 .. n /\ i \in 1 .. Len(r) /\ r[i] = q[i]
    BY <1>1
  <2> QED
    BY <1>3, <1>5, <2>1 DEF EndsFed
<1>6. ASSUME NEW k \in 1 .. Len(w), Shows(w[k], id), w[k].stream = s
      PROVE  EndsFed(r, p, id, s)
  <2>1. /\ n + k \in 1 .. Len(r) /\ r[n + k] = w[k]
        /\ \A j \in (n + k + 1) .. Len(r) : j \in (n + 1) .. Len(r)
    BY <1>1
  <2> QED
    BY <1>2, <1>6, <2>1 DEF EndsFed, Undisturbed
<1> QED
  BY <1>4, <1>5, <1>6 DEF EndsFed, r, n

(* Handled events are the first of the queue.                              *)
LEMMA FedHandled ==
    ASSUME NEW q \in Seq(Event), q # <<>>, NEW p, NEW r, NEW id, NEW s,
           Shows(q[1], id) => r[id] = q[1].stream,
           ~Clears(q[1], id) /\ ~Shows(q[1], id) => r[id] = p[id],
           EndsFed(q, p, id, s)
    PROVE  EndsFed(Tail(q), r, id, s)
<1> DEFINE w == Tail(q)
<1>1. /\ Len(w) = Len(q) - 1 /\ Len(q) \in Nat \ {0}
      /\ \A i \in 1 .. Len(w) : w[i] = q[i + 1] /\ i + 1 \in 1 .. Len(q)
  BY HandledIndex
<1> HIDE DEF w
<1>2. ASSUME NEW i \in 0 .. Len(w), Undisturbed(q, i + 1, id, s)
      PROVE  Undisturbed(w, i, id, s)
  <2>1. \A j \in (i + 1) .. Len(w) : j + 1 \in (i + 1 + 1) .. Len(q) /\ w[j] = q[j + 1]
    BY <1>1
  <2> QED
    BY <1>2, <2>1 DEF Undisturbed
<1>3. CASE p[id] = s /\ Undisturbed(q, 0, id, s)
  <2>1. /\ 0 \in 0 .. Len(w) /\ 1 \in (0 + 1) .. Len(q)
        /\ \A j \in (0 + 1 + 1) .. Len(q) : j \in (0 + 1) .. Len(q)
    BY <1>1
  <2>2. ~Disturbs(q[1], id, s) /\ Undisturbed(q, 0 + 1, id, s)
    BY <1>3, <2>1 DEF Undisturbed
  <2>3. r[id] = s
    BY <1>3, <2>2 DEF Disturbs
  <2> QED
    BY <1>2, <2>1, <2>2, <2>3 DEF EndsFed, w
<1>4. ASSUME NEW i \in 1 .. Len(q), Shows(q[i], id), q[i].stream = s, Undisturbed(q, i, id, s)
      PROVE  EndsFed(w, r, id, s)
  <2>1. CASE i = 1
    <3>1. 0 \in 0 .. Len(w) /\ 0 + 1 = i
      BY <1>1, <2>1
    <3>2. Undisturbed(w, 0, id, s)
      BY <1>2, <1>4, <3>1
    <3> QED
      BY <1>4, <2>1, <3>2 DEF EndsFed
  <2>2. CASE i # 1
    <3>1. i - 1 \in 0 .. Len(w) /\ i - 1 \in 1 .. Len(w) /\ i - 1 + 1 = i /\ w[i - 1] = q[i]
      BY <1>1, <2>2
    <3>2. Undisturbed(w, i - 1, id, s)
      BY <1>2, <1>4, <3>1
    <3> QED
      BY <1>4, <3>1, <3>2 DEF EndsFed
  <2> QED
    BY <2>1, <2>2
<1> QED
  BY <1>3, <1>4 DEF EndsFed, w

LEMMA FedHandleEvent ==
    ASSUME PInv, FedOK, MetersOK, HandleEvent
    PROVE  FedOK'
<1>0. /\ eventQ \in Seq(Event) /\ eventQ # <<>> /\ eventQ' = Tail(eventQ) /\ EventsTypeOK
      /\ peaks \in [NodeId -> Stream \cup {None}]
      /\ UNCHANGED <<streams, garbageIds, owed, fed>>
  BY PInvParts DEF EventsTypeOK, MetersOK, HandleEvent, MetersStay, meterVars, pwVars, registryVars
<1> DEFINE e == eventQ[1]
<1>1. Apply(e) /\ e \in Event
  BY <1>0, HandledIndex DEF HandleEvent
<1> HIDE DEF e
<1>2. e.id \in NodeId
  BY <1>1, EventFields
<1>3. \A id \in NodeId :
         /\ Shows(e, id) => peaks'[id] = e.stream
         /\ ~Clears(e, id) /\ ~Shows(e, id) => peaks'[id] = peaks[id]
  BY <1>0, <1>1, <1>2 DEF Apply, Clears, Shows
<1>4. ASSUME NEW f \in streams, f.stream \in fed
      PROVE  f.id \notin garbageIds /\ EndsFed(eventQ', peaks', f.id, f.stream)
  <2>1. f.id \in NodeId
    BY <1>0 DEF EventsTypeOK
  <2>2. f.id \notin garbageIds /\ EndsFed(eventQ, peaks, f.id, f.stream)
    BY <1>4 DEF FedOK
  <2> QED
    BY <1>0, <1>3, <2>1, <2>2, FedHandled DEF e
<1> QED
  BY <1>0, <1>4 DEF FedOK

(* The PipeWire thread: it lets go of a stream, or evicts it, before it can*)
(* say anything of the id that would not end with the stream it has.       *)
LEMMA FedPw ==
    ASSUME PInv, StreamsListen, FedOK, PwStep
    PROVE  FedOK'
<1>0. /\ eventQ \in Seq(Event) /\ EventsTypeOK /\ UNCHANGED peaks /\ garbageIds \subseteq owed
      /\ \A e, f \in streams : e.id = f.id \/ e.stream = f.stream => e = f
      /\ \A e \in streams :
            e.stream \in fed =>
                e.id \notin garbageIds /\ EndsFed(eventQ, peaks, e.id, e.stream)
  BY PInvParts
     DEF EventsTypeOK, FedOK, PwStep, AppIdle, NodeAppears, NodeInfo, PortConfig,
         NodeVanishes, StreamFormat, CollectStreams, ExecuteCommand
<1>1. ASSUME NEW w \in Seq(Event), eventQ' = eventQ \o w, streams' \subseteq streams,
             garbageIds' \subseteq owed',
             \A f \in streams' : f.stream \in fed' =>
                 /\ f.stream \in fed \/ \E j \in 1 .. Len(w) :
                                           Shows(w[j], f.id) /\ w[j].stream = f.stream
                 /\ f.id \notin garbageIds'
                 /\ \A j \in 1 .. Len(w) : ~Disturbs(w[j], f.id, f.stream)
      PROVE  FedOK'
  <2>1. ASSUME NEW f \in streams', f.stream \in fed'
        PROVE  f.id \notin garbageIds' /\ EndsFed(eventQ', peaks', f.id, f.stream)
    <3>1. \/ EndsFed(eventQ, peaks, f.id, f.stream)
          \/ \E j \in 1 .. Len(w) : Shows(w[j], f.id) /\ w[j].stream = f.stream
      BY <1>0, <1>1, <2>1
    <3> QED
      BY <1>0, <1>1, <2>1, <3>1, FedSent
  <2> QED
    BY <1>0, <1>1, <2>1 DEF FedOK
<1>2. ASSUME NEW e \in Event, eventQ' = eventQ \o <<e>>, streams' \subseteq streams,
             garbageIds' \subseteq owed',
             \A f \in streams' : f.stream \in fed' =>
                 /\ f.stream \in fed \/ (Shows(e, f.id) /\ e.stream = f.stream)
                 /\ f.id \notin garbageIds' /\ ~Disturbs(e, f.id, f.stream)
      PROVE  FedOK'
  <2> DEFINE w == <<e>>
  <2>1. w \in Seq(Event) /\ eventQ' = eventQ \o w /\ Len(w) = 1 /\ w[1] = e
    BY <1>2
  <2> HIDE DEF w
  <2>2. 1 \in 1 .. Len(w) /\ \A j \in 1 .. Len(w) : w[j] = e
    BY <2>1
  <2> QED
    BY <1>1, <1>2, <2>1, <2>2
<1>3. CASE UNCHANGED <<eventQ, streams, garbageIds, owed>> /\ fed' \subseteq fed
  BY <1>0, <1>3 DEF FedOK
<1>4. ASSUME NEW n \in NodeId, NodeInfo(n) PROVE FedOK'
  <2>1. PICK p \in PropsOf[n] :
          eventQ' = eventQ \o <<[kind |-> "props", id |-> n, props |-> p]>>
    BY <1>4 DEF NodeInfo, Send
  <2> DEFINE e == [kind |-> "props", id |-> n, props |-> p]
  <2>2. e \in Event /\ \A id, s : ~Disturbs(e, id, s)
    BY <2>1, PropsAssumption DEF Event, Disturbs, Clears, Shows
  <2>3. UNCHANGED <<streams, garbageIds, owed, fed>>
    BY <1>4 DEF NodeInfo, registryVars, MetersStay, meterVars
  <2> HIDE DEF e
  <2> QED
    BY <1>0, <1>2, <2>1, <2>2, <2>3 DEF e
<1>5. ASSUME NEW n \in NodeId, PortConfig(n) PROVE FedOK'
  <2>1. PICK layout \in Layout :
          eventQ' = eventQ \o <<[kind |-> "positions", id |-> n, layout |-> layout]>>
    BY <1>5 DEF PortConfig, Send
  <2> DEFINE e == [kind |-> "positions", id |-> n, layout |-> layout]
  <2>2. e \in Event /\ \A id, s : ~Disturbs(e, id, s)
    BY <2>1 DEF Event, Disturbs, Clears, Shows
  <2>3. UNCHANGED <<streams, garbageIds, owed, fed>>
    BY <1>5 DEF PortConfig, pwVars, registryVars, MetersStay, meterVars
  <2> HIDE DEF e
  <2> QED
    BY <1>0, <1>2, <2>1, <2>2, <2>3 DEF e
<1>6. ASSUME NEW id \in NodeId, Remove(id), MeterTaken(id)
      PROVE  /\ streams' = {s \in streams : s.id # id} /\ garbageIds' \subseteq owed'
             /\ fed' \subseteq fed
             /\ \A f \in streams' : f.stream \in fed' => f.id \notin garbageIds'
  <2>1. streams' = {s \in streams : s.id # id} /\ fed' \subseteq fed
    BY <1>6 DEF Remove, MeterTaken, At
  <2>2. garbageIds' \subseteq garbageIds \cup {id}
    BY <1>6 DEF Remove
  <2>3. garbageIds' \subseteq owed'
    <3>1. owed' = owed \cup {e.id : e \in At(streams, id)}
      BY <1>6 DEF MeterTaken
    <3>2. CASE At(streams, id) = {}
      BY <1>0, <1>6, <3>1, <3>2 DEF Remove, StreamsListen
    <3>3. CASE At(streams, id) # {}
      <4>1. id \in owed'
        BY <3>1, <3>3 DEF At
      <4> QED
        BY <1>0, <2>2, <3>1, <4>1
    <3> QED
      BY <3>2, <3>3
  <2> QED
    BY <1>0, <2>1, <2>2, <2>3
<1>7. ASSUME NEW n \in NodeId, NodeVanishes(n) PROVE FedOK'
  <2> DEFINE e == [kind |-> "removed", id |-> n]
  <2>1. /\ eventQ' = eventQ \o <<e>> /\ e \in Event
        /\ \A id, s : Disturbs(e, id, s) => id = n
    BY <1>7 DEF NodeVanishes, Send, Event, Disturbs, Shows, Clears
  <2> HIDE DEF e
  <2>2. Remove(n) /\ MeterTaken(n)
    BY <1>7 DEF NodeVanishes
  <2> QED
    BY <1>2, <1>6, <2>1, <2>2
<1>8. ASSUME NEW s \in streams, StreamFormat(s) PROVE FedOK'
  <2> DEFINE e == [kind |-> "started", id |-> s.id, stream |-> s.stream]
  <2>1. eventQ' = eventQ \o <<e>>
    BY <1>8 DEF StreamFormat, Send
  <2>2. s.id \in NodeId /\ s.stream \in Stream
    BY <1>0 DEF EventsTypeOK
  <2>3. e \in Event /\ \A id, t : /\ Disturbs(e, id, t) => id = s.id /\ t # s.stream
                                  /\ Shows(e, s.id) /\ e.stream = s.stream
    BY <2>2 DEF Event, Disturbs, Shows, Clears
  <2> HIDE DEF e
  <2>4. /\ UNCHANGED <<streams, garbageIds, owed>>
        /\ fed' = IF s.id \in owed THEN fed \ {s.stream} ELSE fed \cup {s.stream}
    BY <1>8 DEF StreamFormat, pwVars, registryVars, MeterStarted
  <2>5. ASSUME NEW f \in streams, f.stream \in fed'
        PROVE  /\ f.stream \in fed \/ (Shows(e, f.id) /\ e.stream = f.stream)
               /\ f.id \notin garbageIds /\ ~Disturbs(e, f.id, f.stream)
    <3>1. CASE f = s
      BY <1>0, <2>3, <2>4, <2>5, <3>1
    <3>2. CASE f # s
      <4>1. f.id # s.id /\ f.stream # s.stream
        BY <1>0, <3>2
      <4> QED
        BY <1>0, <2>3, <2>4, <2>5, <4>1
    <3> QED
      BY <3>1, <3>2
  <2> QED
    BY <1>0, <1>2, <2>1, <2>3, <2>4, <2>5
<1>9. ASSUME CollectStreams PROVE FedOK'
  <2>1. PICK w \in Seq(Event) :
          /\ eventQ' = eventQ \o w
          /\ \A i \in 1 .. Len(w) : w[i].kind = "stopped" /\ w[i].id \in garbageIds
    BY <1>0, <1>9, CollectSendsOnly
  <2>2. UNCHANGED <<streams, fed>> /\ garbageIds' = {} /\ owed' = {}
    BY <1>9 DEF CollectStreams, CollectGarbage, MetersCollected
  <2>3. \A f \in streams : f.stream \in fed =>
           \A j \in 1 .. Len(w) : ~Disturbs(w[j], f.id, f.stream)
    BY <1>0, <2>1 DEF Disturbs, Shows, Clears
  <2> QED
    BY <1>1, <2>1, <2>2, <2>3
<1>10. CASE ExecuteCommand
  <2> DEFINE c == Head(cmdQ)
  <2>1. eventQ' = eventQ /\ c.id \in NodeId
    <3>1. cmdQ \in Seq(Command) /\ cmdQ # <<>> /\ c \in Command
      BY <1>10, PInvParts, CommandTail DEF ExecuteCommand
    <3> QED
      BY <1>10, <3>1, CommandFields DEF ExecuteCommand
  <2> HIDE DEF c
  <2>2. CASE ExecuteStop(c)
    <3>1. /\ streams' = {s \in streams : s.id # c.id} /\ garbageIds' \subseteq owed'
          /\ fed' \subseteq fed
          /\ \A f \in streams' : f.stream \in fed' => f.id \notin garbageIds'
      BY <1>6, <2>1, <2>2 DEF ExecuteStop
    <3> QED
      BY <1>0, <2>1, <3>1 DEF FedOK
  <2>3. ASSUME NEW s \in FreeStreams, AddStream(c.id, s), MeterRenewed(c.id, s)
        PROVE  FedOK'
    <3>1. /\ s \notin Held(streams) /\ UNCHANGED <<garbageIds, owed>>
          /\ streams' = (streams \ At(streams, c.id)) \cup {[id |-> c.id, stream |-> s]}
          /\ fed' \subseteq fed /\ s \notin fed'
      BY <2>3 DEF AddStream, MeterRenewed
    <3>2. \A f \in streams' : \/ f \in streams /\ f.id # c.id /\ f.stream # s
                              \/ f = [id |-> c.id, stream |-> s]
      BY <3>1 DEF At, Held
    <3> QED
      BY <1>0, <2>1, <3>1, <3>2 DEF FedOK
  <2>4. CASE UNCHANGED registryVars /\ MetersStay
    BY <1>3, <2>1, <2>4 DEF registryVars, MetersStay, meterVars
  <2> QED
    BY <1>10, <2>2, <2>3, <2>4 DEF ExecuteCommand, ExecuteStart, c
<1>11. ASSUME NEW n \in NodeId, NodeAppears(n) PROVE FedOK'
  BY <1>3, <1>11 DEF NodeAppears, registryVars, MetersStay, meterVars
<1> QED
  BY <1>4, <1>5, <1>7, <1>8, <1>9, <1>10, <1>11 DEF PwStep

-----------------------------------------------------------------------------
(* The mirror, the serials, the targets and the meters are kept together.  *)
MInv == SerialsOK /\ MirrorOK /\ TargetsLast /\ MetersOK

LEMMA MInvInit == PipelineInit => MInv
<1> SUFFICES ASSUME PipelineInit PROVE MInv
  OBVIOUS
<1>1. /\ graph = [id \in NodeId |-> None] /\ lastSerial = 0 /\ announced = {}
      /\ eventQ = <<>> /\ cmdQ = <<>> /\ Len(<<>>) = 0 /\ streams = {} /\ nodes = {}
      /\ target = [s \in Stream |-> None] /\ peaks = [id \in NodeId |-> None]
      /\ node = [id \in NodeId |-> DefaultNode]
  BY DEF PipelineInit, RegistryInit, Init, StateInit
<1>2. \A i \in 1 .. 0 : FALSE
  OBVIOUS
<1>3. SerialsOK
  <2>1. \A id \in NodeId : node[id].serial = None /\ graph[id] = None
    BY <1>1 DEF DefaultNode
  <2> QED
    BY <1>1, <1>2, <2>1 DEF SerialsOK, SerialsTypeOK, SerialsKnown
<1>4. MirrorOK
  BY <1>1, <1>2 DEF MirrorOK, MirrorOf
<1>5. TargetsLast
  BY <1>1, <1>2 DEF TargetsLast
<1>6. MetersOK
  <2>1. \A id \in NodeId : ~EndsShown(eventQ, peaks, id)
    BY <1>1, <1>2 DEF EndsShown
  <2> QED
    BY <1>1, <2>1 DEF MetersOK
<1> QED
  BY <1>3, <1>4, <1>5, <1>6 DEF MInv

LEMMA MInvNext == PInv /\ PInv' /\ MInv /\ [PipelineNext]_pipelineVars => MInv'
<1> SUFFICES ASSUME PInv, PInv', MInv, [PipelineNext]_pipelineVars PROVE MInv'
  OBVIOUS
<1>0. /\ TypeOK /\ TypeOK' /\ CapturesAreEligible' /\ eventQ \in Seq(Event)
      /\ SerialsOK /\ MirrorOK /\ TargetsLast /\ MetersOK
  BY PInvParts DEF PInv, IInv, EventsTypeOK, MInv
<1>1. CASE HandleEvent
  <2>1. \A id \in capturing' : RemovalPending(id) => RemovalPending(id)'
    BY <1>0, <1>1, RemovalHeard
  <2>2. SerialsOK' /\ MirrorOK' /\ MetersOK'
    BY <1>0, <1>1, SerialsApp, MirrorHandled, MetersHandled
  <2> QED
    BY <1>0, <1>1, <2>1, <2>2, TargetsApp DEF MInv
<1>2. CASE AppStep
  <2>1. \A id \in capturing' : RemovalPending(id) => RemovalPending(id)'
    BY <1>2 DEF AppStep, RemovalPending
  <2>2. SerialsOK' /\ MirrorOK' /\ MetersOK'
    BY <1>0, <1>2, SerialsApp, MirrorApp, MetersApp
  <2> QED
    BY <1>0, <1>2, <2>1, <2>2, TargetsApp DEF MInv
<1>3. CASE PwStep
  BY <1>0, <1>3, SerialsPw, MirrorPw, TargetsPw, MetersPw DEF MInv
<1>4. CASE UNCHANGED pipelineVars
  <2>1. UNCHANGED <<cmdQ, eventQ, streams, garbageIds, peaks, graph, lastSerial, announced,
                    target, nodes, node>>
    BY <1>4 DEF pipelineVars, pwVars, registryVars, vars, stateVars
  <2>2. SerialsOK'
    BY <1>0, <2>1 DEF SerialsOK, SerialsTypeOK, SerialsKnown, Known
  <2>3. MirrorOK'
    BY <1>0, <2>1 DEF MirrorOK, MirrorOf, Mirrored
  <2>4. TargetsLast' /\ MetersOK'
    BY <1>0, <2>1 DEF TargetsLast, RemovalPending, MetersOK, Captured
  <2> QED
    BY <2>2, <2>3, <2>4 DEF MInv
<1> QED
  BY <1>1, <1>2, <1>3, <1>4 DEF PipelineNext

LEMMA FedNext ==
    PInv /\ MInv /\ StreamsListen /\ FedOK /\ [PipelineNext]_pipelineVars => FedOK'
<1> SUFFICES ASSUME PInv, MInv, StreamsListen, FedOK, [PipelineNext]_pipelineVars PROVE FedOK'
  OBVIOUS
<1>1. CASE HandleEvent
  BY <1>1, FedHandleEvent DEF MInv
<1>2. CASE AppStep
  BY <1>2 DEF AppStep, pwVars, registryVars, MetersStay, meterVars, FedOK
<1>3. CASE PwStep
  BY <1>3, FedPw
<1>4. CASE UNCHANGED pipelineVars
  BY <1>4 DEF pipelineVars, pwVars, registryVars, meterVars, FedOK
<1> QED
  BY <1>1, <1>2, <1>3, <1>4 DEF PipelineNext

(* Between them the steps of the two threads make only registry steps.     *)
LEMMA RegistryStep ==
    ASSUME PInv, [PipelineNext]_pipelineVars
    PROVE  [RegistryNext]_registryVars
<1>0. \A e \in streams : e.id \in ObjectId
  BY PInvParts, PipelineAssumption DEF EventsTypeOK
<1>1. CASE HandleEvent \/ AppStep \/ UNCHANGED pipelineVars
  BY <1>1 DEF HandleEvent, AppStep, pipelineVars, pwVars
<1>2. ASSUME NEW id \in NodeId, NodeVanishes(id) PROVE RegistryNext
  BY <1>2, PipelineAssumption DEF NodeVanishes, RegistryNext
<1>3. CASE CollectStreams
  BY <1>3 DEF CollectStreams, RegistryNext
<1>4. CASE ExecuteCommand
  <2> DEFINE c == Head(cmdQ)
  <2>1. c.id \in ObjectId
    <3>1. cmdQ \in Seq(Command) /\ cmdQ # <<>>
      BY <1>4, PInvParts DEF ExecuteCommand
    <3>2. c \in Command
      BY <3>1, CommandTail
    <3> QED
      BY <3>2, CommandFields, PipelineAssumption
  <2> HIDE DEF c
  <2>2. CASE ExecuteStop(c)
    BY <2>1, <2>2 DEF ExecuteStop, RegistryNext
  <2>3. CASE ExecuteStart(c)
    <3>1. ASSUME NEW s \in FreeStreams, AddStream(c.id, s) PROVE RegistryNext
      <4>1. s \in Stream
        BY DEF FreeStreams
      <4> QED
        BY <2>1, <3>1, <4>1 DEF RegistryNext
    <3> QED
      BY <2>3, <3>1 DEF ExecuteStart
  <2> QED
    BY <1>4, <2>2, <2>3 DEF ExecuteCommand, c
<1> QED
  BY <1>1, <1>2, <1>3, <1>4
     DEF PipelineNext, PwStep, NodeAppears, NodeInfo, PortConfig, StreamFormat, pwVars

(* MInv, next to PInv, is inductive. *)
THEOREM MirrorInductive == PipelineSpec => []MInv
BY MInvInit, MInvNext, PipelineInductive, PTL DEF PipelineSpec

(* The registry of the pipeline is the stream registry. *)
THEOREM PipelineIsRegistry == PipelineSpec => RegistrySpec
<1>1. PipelineInit => RegistryInit
  BY DEF PipelineInit
<1>2. PInv /\ [PipelineNext]_pipelineVars => [RegistryNext]_registryVars
  BY RegistryStep
<1> QED
  BY <1>1, <1>2, PipelineInductive, PTL DEF PipelineSpec, RegistrySpec

(* What the App mirrors at rest is the graph: whatever ids the server freed*)
(* and reused while properties, removals and stream events crossed, it has *)
(* of every announced node the serial of the present holder of the id, and *)
(* of any other nothing, although a format that comes late, for a stream   *)
(* whose node has gone, puts the id back among the App's nodes.            *)
THEOREM MirrorCatchesUp == PipelineSpec => []MirrorAtRest
<1>1. PInv /\ MInv => MirrorAtRest
  <2> SUFFICES ASSUME MirrorOK, eventQ = <<>>, announced \subseteq NodeId
               PROVE  /\ announced \subseteq nodes
                      /\ \A id \in announced : node[id].serial = graph[id]
                      /\ \A id \in NodeId \ announced : node[id] = DefaultNode
    BY DEF MirrorAtRest, MInv, SerialsOK, SerialsTypeOK
  <2>1. ASSUME NEW id \in NodeId
        PROVE  /\ id \in announced => id \in nodes /\ node[id].serial = graph[id]
               /\ id \notin announced => node[id] = DefaultNode
    <3>1. Len(eventQ) = 0 /\ MirrorOf(id)
      BY DEF MirrorOK
    <3>2. Final(eventQ, 0, id) /\ (Present(eventQ, Mirrored, 0, id) => id \in Mirrored)
      BY <3>1 DEF Final, Present
    <3>3. id \in Mirrored => node[id] # DefaultNode
      BY DEF Mirrored, DefaultNode
    <3> QED
      BY <3>1, <3>2, <3>3 DEF MirrorOf
  <2> QED
    BY <2>1
<1> QED
  BY <1>1, MirrorInductive, PipelineInductive, PTL

(* At rest every stream taps the node that holds its id now, though the App*)
(* starts captures by serials it learnt a while ago: a start that is for a *)
(* node already gone is undone by the stop its removal causes.             *)
THEOREM TargetsCatchUp == PipelineSpec => []TargetsAreCurrent
<1>1. PInv /\ MInv => TargetsAreCurrent
  <2> SUFFICES ASSUME PInv, MInv, AtRest, NEW e \in streams
               PROVE  target[e.stream] = graph[e.id]
    BY DEF TargetsAreCurrent
  <2>1. e.id \in NodeId /\ Len(eventQ) = 0 /\ Len(cmdQ) = 0
    BY PInvParts DEF EventsTypeOK, AtRest
  <2>2. Lasting(cmdQ, 0, e.id) /\ ~RemovalPending(e.id)
    BY <2>1 DEF Lasting, RemovalPending
  <2> QED
    BY <2>1, <2>2 DEF MInv, TargetsLast
<1> QED
  BY <1>1, MirrorInductive, PipelineInductive, PTL

(* A meter that is shown at rest belongs to a capture: the stopped event of*)
(* a stream that was dropped is never lost, nor overtaken for good by its  *)
(* started event.                                                          *)
THEOREM MetersHaveCaptures == PipelineSpec => []NoMeterWithoutCapture
<1>1. PInv /\ MInv /\ GarbageIsSignalled => NoMeterWithoutCapture
  <2> SUFFICES ASSUME PInv, MInv, GarbageIsSignalled, AtRest, ~gcArmed,
                      NEW id \in NodeId, peaks[id] # None
               PROVE  id \in capturing
    BY DEF NoMeterWithoutCapture
  <2>1. garbageIds = {} /\ Len(eventQ) = 0 /\ Len(cmdQ) = 0 /\ Captured \subseteq NodeId
    BY PInvParts, CapturedType DEF GarbageIsSignalled, AtRest
  <2>2. EndsShown(eventQ, peaks, id)
    BY <2>1 DEF EndsShown, Cleared
  <2>3. id \in Captured
    BY <2>1, <2>2 DEF MInv, MetersOK
  <2>4. Run(cmdQ, Captured) = Captured
    BY <2>1 DEF Run, Running
  <2> QED
    BY <2>3, <2>4 DEF PInv, CommandsOK, EndsInCapturing
<1> QED
  BY <1>1, MirrorInductive, PipelineInductive, PipelineIsRegistry, GarbageSignalled, PTL

(* A stream feeds the meter of its node from its format on, until it is    *)
(* stopped or replaced itself: whatever streams of the id were evicted or  *)
(* collected before, and whatever events of theirs come late, none clears  *)
(* its meter or takes it over.  Formats that come while a stopped stream of*)
(* the id waits for its collection are excepted, as in the property.       *)
THEOREM MetersFollow == PipelineSpec => []MeterFollowsStream
<1>1. PipelineInit => FedOK
  <2> SUFFICES ASSUME PipelineInit PROVE FedOK
    OBVIOUS
  <2>1. streams = {} /\ garbageIds = {}
    BY DEF PipelineInit, RegistryInit
  <2> QED
    BY <2>1 DEF FedOK
<1>2. FedOK => MeterFollowsStream
  <2> SUFFICES ASSUME FedOK, eventQ = <<>>, NEW e \in streams, e.stream \in fed
               PROVE  peaks[e.id] = e.stream
    BY DEF MeterFollowsStream
  <2>1. Len(eventQ) = 0 /\ EndsFed(eventQ, peaks, e.id, e.stream)
    BY DEF FedOK
  <2> QED
    BY <2>1 DEF EndsFed
<1> QED
  BY <1>1, <1>2, FedNext, MirrorInductive, PipelineInductive, PipelineIsRegistry,
     ListenersPaired, PTL DEF PipelineSpec
=============================================================================
