------------------------------ MODULE MCServer ------------------------------
(***************************************************************************)
(* A small instance of Server for TLC: a state key that two handlers       *)
(* change, two calls of the X API, and three secrets.                      *)
(***************************************************************************)
EXTENDS Server

CONSTANTS old, new, other
=============================================================================
