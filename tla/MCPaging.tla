------------------------------ MODULE MCPaging -------------------------------
(***************************************************************************)
(* Instances of Paging for TLC: memory of 6 pages, tables of 5 entries, so *)
(* one physical page lies above the identity map of the first table.  Page *)
(* 0 is the kernel with firstPageTable, page 1 the heap.                   *)
(***************************************************************************)
EXTENDS Paging
==============================================================================
