--------------------------- MODULE MCXChatSession ---------------------------
(***************************************************************************)
(* Small instances of XChatSession for TLC: a session is replaced by that  *)
(* of another identity, and its successor too.                             *)
(***************************************************************************)
EXTENDS XChatSession
=============================================================================
