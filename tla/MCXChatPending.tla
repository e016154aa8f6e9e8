--------------------------- MODULE MCXChatPending ---------------------------
(***************************************************************************)
(* Small instances of XChatPending for TLC: one conversation of one sender *)
(* with one signing key; what matters is how many rows there are and who   *)
(* asks for them.                                                          *)
(***************************************************************************)
EXTENDS XChatPending

CONSTANTS dm, alice, a1

MCHome    == [x \in Event \cup KeyEvent |-> dm]
MCIds     == [c \in Conversation |-> c]
MCSender  == [e \in Event |-> alice]
MCMessage == [e \in Event |-> None]
MCKey     == [e \in Event |-> a1]
MCKeyEvent == [e \in Event |-> None]
MCOwner   == [k \in SigningKey |-> alice]
MCVersion == [k \in SigningKey |-> 1]
=============================================================================
