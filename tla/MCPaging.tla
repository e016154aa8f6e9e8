------------------------------ MODULE MCPaging -------------------------------
(***************************************************************************)
(* A small instance of Paging for TLC: three time stamps with two event    *)
(* ids in each cache, one row of each pair matching.                       *)
(***************************************************************************)
EXTENDS Paging

MCMatching == {r \in Row : (r.at + r.id) % 2 = 0}
=============================================================================
