---------------------------- MODULE MCPagingModel ----------------------------
(* Instances of PagingModel for TLC. *)
EXTENDS PagingModel

ThreeItems == <<1, 2, 3>>
==============================================================================
