----------------------------- MODULE MCLegacyDm -----------------------------
(***************************************************************************)
(* A small instance of LegacyDm for TLC: a participant whose events take   *)
(* two reads and a conversation that takes one; the client names the first *)
(* of them twice.                                                          *)
(***************************************************************************)
EXTENDS LegacyDm

CONSTANTS person, group

MCArchive == [t \in Target |-> IF t = person THEN 3 ELSE 1]
MCWanted  == <<person, group, person>>
MCLimits  == {<<2, 9>>, <<9, 2>>, <<9, 9>>}
=============================================================================
