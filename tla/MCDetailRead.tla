---------------------------- MODULE MCDetailRead ----------------------------
(***************************************************************************)
(* A small instance of DetailRead: the root, a flow and a task in it;      *)
(* two groups, fields of two bytes and of three.                           *)
(***************************************************************************)
EXTENDS DetailRead

TreeOrder == <<"/", "/f", "/f/t">>
FlowOfNode == [n \in {"/f", "/f/t"} |-> "/f"]
FieldSizes == [v \in Contents |-> IF v = "long" THEN 2 ELSE 3]
=============================================================================
