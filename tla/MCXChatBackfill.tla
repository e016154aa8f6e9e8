-------------------------- MODULE MCXChatBackfill ---------------------------
(***************************************************************************)
(* Small instances of XChatBackfill for TLC: a conversation whose archive  *)
(* takes several reads and one that takes a single read, on two pages of   *)
(* the conversation list.                                                  *)
(***************************************************************************)
EXTENDS XChatBackfill, TLC

CONSTANTS dm, group

MCArchive   == [c \in Conversation |-> IF c = dm THEN 3 ELSE 1]
\* The list changes while it is read: dm is on both of its pages.
MCListPages == <<<<dm>>, <<dm, group>>>>
=============================================================================
