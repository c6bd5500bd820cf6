---------------------------- MODULE MCObjectList ----------------------------
(* Two tabs, one of which lists nothing; a node with three channels of     *)
(* which the outer two are a pair, right first, and mono nodes.            *)
EXTENDS ObjectList

Mono == [volumes |-> <<1>>, positions |-> None]
Tri == [volumes |-> <<1, 2, 1>>, positions |-> <<"FR", "LFE", "FL">>]

OneSplits == [id \in Id |-> IF id = 1 THEN {Tri} ELSE {Mono}]
TwoTabs == <<Id, {}>>
TwoTargets == [id \in Id |-> IF id = 1 THEN 1 ELSE 0]
ShortCycle == <<"Linked", "Channels">>
=============================================================================
