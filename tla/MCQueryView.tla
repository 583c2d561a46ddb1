---------------------------- MODULE MCQueryView ----------------------------
(***************************************************************************)
(* Small instances of QueryView: a flow f, a container a in it and a task  *)
(* x in that.                                                              *)
(***************************************************************************)
EXTENDS QueryView

RootPath == <<>>
FlowPath == <<"f">>
InnerPath == <<"f", "a">>

TreePaths == {<<>>, <<"f">>, <<"f", "a">>, <<"f", "a", "x">>}
EmptyContainer == {<<>>, <<"f">>, <<"f", "a">>}
=============================================================================
