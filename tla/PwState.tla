------------------------------ MODULE PwState ------------------------------
(***************************************************************************)
(* wirehose::state::State: the App's mirror of the PipeWire graph, as far  *)
(* as it decides which nodes may be peak-captured.  The `nodes` HashMap is *)
(* split into its key set `nodes` and the stored fields `node`; `links` is *)
(* the set of Link entries, each carrying its key.  An update of the       *)
(* source returns the CaptureEligibility it causes; here that value is a   *)
(* state function the caller combines with the update (module Capture).    *)
(*                                                                         *)
(* monitor_node binds nodes of four media classes only.  Volumes, mute,    *)
(* clients, devices and metadata are not mirrored here; nothing below reads*)
(* them.                                                                   *)
(***************************************************************************)
EXTENDS Naturals, FiniteSets

CONSTANTS
    NodeId,     \* object ids of nodes; u32 in the source, ordered
    LinkId,     \* object ids of links
    Name,       \* values of node.name
    Serial,     \* values of object.serial, unique over the life of the server
    Layout,     \* channel position vectors
    None        \* an absent Option

Class == {"Sink", "Source", "SinkInput", "SourceOutput"}

ASSUME NodeIdAssumption == NodeId \subseteq Nat /\ IsFiniteSet(NodeId)
ASSUME NoneAssumption ==
    /\ None \notin Class /\ None \notin Name /\ None \notin Serial
    /\ None \notin Layout /\ None \notin Nat

VARIABLES
    nodes,      \* keys of State::nodes
    node,       \* the Node stored under each key
    links       \* State::links

stateVars == <<nodes, node, links>>

(* The part of a PropertyStore the capture logic and the view look at.     *)
Props == [class : Class \cup {None}, name : Name \cup {None},
          serial : Serial \cup {None}]

Node == [class : Class \cup {None}, name : Name \cup {None},
         serial : Serial \cup {None}, positions : Layout \cup {None}]

(* Node::default(), what node_entry inserts for an id it has not seen.     *)
DefaultNode == [class |-> None, name |-> None, serial |-> None,
                positions |-> None]

Link == [id : LinkId, output : NodeId, input : NodeId]

StateTypeOK ==
    /\ nodes \subseteq NodeId
    /\ node \in [NodeId -> Node]
    /\ links \subseteq Link

StateInit ==
    /\ nodes = {}
    /\ node = [id \in NodeId |-> DefaultNode]
    /\ links = {}

(* State::inputs: the objects that feed the given object.                  *)
Inputs(id) == {l.output : l \in {k \in links : k.input = id}}

(* State::on_node and State::on_link: the eligibility a NodeProperties     *)
(* event, respectively a new input, gives to node n.                       *)
OnNode(n) ==
    IF n.class \in {"Source", "SinkInput", "SourceOutput"} /\ n.serial # None
    THEN "Eligible" ELSE "Unchanged"

OnLink(n) == IF n.class \in Class THEN "NeedsRestart" ELSE "Unchanged"

(* StateEvent::NodeProperties replaces the whole PropertyStore.            *)
UpdateNodeProperties(id, p) ==
    /\ nodes' = nodes \cup {id}
    /\ node' = [node EXCEPT ![id] = [class |-> p.class, name |-> p.name,
                    serial |-> p.serial, positions |-> node[id].positions]]
    /\ UNCHANGED links

UpdateNodePositions(id, layout) ==
    /\ nodes' = nodes \cup {id}
    /\ node' = [node EXCEPT ![id] = [class |-> node[id].class, name |-> node[id].name,
                    serial |-> node[id].serial, positions |-> layout]]
    /\ UNCHANGED links

(* A change of known positions restarts the capture, whatever the class.   *)
PositionsEligibility(id, layout) ==
    IF id \in nodes /\ node[id].positions \notin {None, layout}
    THEN "NeedsRestart" ELSE "Unchanged"

(* Mutant of UpdateStreamStarted: a fresh Node is inserted.                *)
UpdateStreamStartedFresh(id) ==
    /\ nodes' = nodes \cup {id}
    /\ node' = [node EXCEPT ![id] = DefaultNode]
    /\ UNCHANGED links

(* NodeStreamStarted goes through node_entry, so it inserts an entry for a *)
(* node that is already gone; NodeStreamStopped uses and_modify.           *)
UpdateStreamStarted(id) ==
    /\ nodes' = nodes \cup {id}
    /\ UNCHANGED <<node, links>>

(* A link that brings a new input; HashMap::insert replaces a same-id link.*)
UpdateLink(l, out, in) ==
    /\ links' = {k \in links : k.id # l} \cup {[id |-> l, output |-> out, input |-> in]}
    /\ UNCHANGED <<nodes, node>>

LinkEligibility(out, in) ==
    IF out \notin Inputs(in) /\ in \in nodes THEN OnLink(node[in]) ELSE "Unchanged"

(* StateEvent::Removed, for a link and for a node: global ids are unique   *)
(* over all object kinds, so one event removes one of them.                *)
UpdateLinkRemoved(k) ==
    /\ links' = links \ {k}
    /\ UNCHANGED <<nodes, node>>

(* Evaluated after the removal: the input lost its last input.             *)
LinkRemovedEligibility(k) ==
    IF k.input \in nodes /\ ~\E m \in links \ {k} : m.input = k.input
    THEN "Ineligible" ELSE "Unchanged"

UpdateNodeRemoved(id) ==
    /\ nodes' = nodes \ {id}
    /\ node' = [node EXCEPT ![id] = DefaultNode]
    /\ UNCHANGED links

(* Mutant of NodeRemovedEligibility: a removed node is just forgotten.     *)
NodeRemovedUnchanged(id) == "Unchanged"

NodeRemovedEligibility(id) == IF id \in nodes THEN "Ineligible" ELSE "Unchanged"
=============================================================================
