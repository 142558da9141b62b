--------------------------- MODULE MCRowCompaction ---------------------------
(* A small table for RowCompaction with a column of each kind that matters. *)
EXTENDS RowCompaction

SmallTable == [c \in 0 .. 2 |-> <<"witness", "selector", "public">>[c + 1]]
===============================================================================
