----------------------------- MODULE MCSession -----------------------------
(***************************************************************************)
(* Two ids: the program's own client, and one the server uses in turn for  *)
(* a node and for objects that are not monitored.  A node, its successor   *)
(* under the id and the client make three proxies; a fourth is free while  *)
(* an evicted one waits for the collection.                                *)
(***************************************************************************)
EXTENDS Session

Kinds == [id \in ObjectId |-> IF id = Own THEN {"client"} ELSE {"node", "other"}]

(***************************************************************************)
(* For finding_kinds.cfg: the id is used for a node and for a link.        *)
(***************************************************************************)
TwoKinds == [id \in ObjectId |-> IF id = Own THEN {"client"} ELSE {"node", "link"}]
=============================================================================
