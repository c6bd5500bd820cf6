----------------------------- MODULE MCPipeline -----------------------------
(***************************************************************************)
(* Instances of Pipeline for TLC: one or two node ids and two serials, so  *)
(* that an id is reused, and channels of one or two messages.              *)
(***************************************************************************)
EXTENDS Pipeline

(* Playback streams, under whatever serial the server gives them.          *)
AnySerial ==
    [id \in NodeId |-> [class : {"SinkInput"}, name : {"a"}, serial : Serial]]

(* The App before it is ready: events, commands and reloads of the hide    *)
(* file, which stop and resume captures of nodes that live on.             *)
CrossingSpec ==
    /\ PipelineInit
    /\ [][HandleEvent \/ PwStep \/ (AppStep /\ ~ready')]_pipelineVars
    /\ PipelineFairness

(* The App runs its loop, and so rotates, but nobody hides anything; what  *)
(* does not matter to the cap (formats, port configurations) is left out.  *)
RotatingNext ==
    \/ HandleEvent
    \/ AppStep /\ UNCHANGED <<hiddenInstance, matchers>>
    \/ \E id \in NodeId : NodeAppears(id) \/ NodeInfo(id) \/ NodeVanishes(id)
    \/ CollectStreams
    \/ ExecuteCommand
RotatingSpec == PipelineInit /\ [][RotatingNext]_pipelineVars
=============================================================================
