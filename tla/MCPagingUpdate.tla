--------------------------- MODULE MCPagingUpdate ---------------------------
(* Instances of PagingUpdate: the cores are model values. *)
EXTENDS PagingUpdate
=============================================================================
