----------------------------- MODULE MCCapture -----------------------------
(***************************************************************************)
(* Instances of Capture for TLC.  Three node ids, two or three names, at   *)
(* most one link; what differs between the runs is the configuration and   *)
(* which property stores the nodes announce.                               *)
(***************************************************************************)
EXTENDS Capture

Plain(class, name) == [class |-> class, name |-> name, serial |-> 1]

(* Every node is a playback stream with a name of its own.                 *)
DistinctStreams == [id \in NodeId |-> {Plain("SinkInput", IF id = 1 THEN "a" ELSE "b")}]

(* Two streams of one application, which share a node.name.                *)
SharedName == [id \in NodeId |-> {Plain("SinkInput", "a")}]

(* A sink that is captured only while linked, and streams feeding it, one  *)
(* of which is announced before its serial is known.                       *)
SinkAndStreams ==
    [id \in NodeId |->
        IF id = 1 THEN {Plain("Sink", "a")}
        ELSE {Plain("SinkInput", "b"),
              [class |-> "SinkInput", name |-> "b", serial |-> None]}]

(* Streams, and the capture node (id 2) wiremix itself puts on the graph.  *)
WithCaptureNode ==
    [id \in NodeId |-> {Plain("SourceOutput", IF id = 2 THEN CaptureName ELSE "a")}]

(* Rotation without a user who hides items.                                *)
RotationSpec ==
    /\ Init
    /\ [][StateEventNext \/ Ready \/ LoopNext]_vars
    /\ Fairness
=============================================================================
