-------------------------- MODULE MCXChatIngestion --------------------------
(***************************************************************************)
(* A small instance of XChatIngestion for TLC: one conversation, with two  *)
(* events of one sender in its archive.                                    *)
(***************************************************************************)
EXTENDS XChatIngestion, TLC

CONSTANTS e1, e2, dm, alice, a1, m1, m2

MCHome     == [x \in Event \cup KeyEvent |-> dm]
MCIds      == [c \in Conversation |-> c]
MCSender   == [e \in Event |-> alice]
MCMessage  == [e \in Event |-> IF e = e1 THEN m1 ELSE m2]
MCKey      == [e \in Event |-> a1]
MCKeyEvent == [e \in Event |-> None]
MCOwner    == [k \in SigningKey |-> alice]
MCVersion  == [k \in SigningKey |-> 1]
MCArchive  == [c \in Conversation |-> <<e1, e2>>]
MCListPages == <<<<dm>>>>
=============================================================================
