--------------------------- MODULE MCXChatEvents ----------------------------
(***************************************************************************)
(* Small instances of XChatEvents for TLC: two events of two senders, one  *)
(* of whom changes keys, in one conversation.                              *)
(***************************************************************************)
EXTENDS XChatEvents, TLC

CONSTANTS e1, e2, k1, dm, raw, alice, bob, a1, a2, b1, m1, m2

\* Conversation dm is also written raw (with a colon) by X.
MCCanonical == [c \in Conversation |-> dm]
MCHome      == [x \in Event \cup KeyEvent |-> dm]

\* e1 by alice depends on key change k1; e2 by bob.
MCSender   == [e \in Event |-> IF e = e1 THEN alice ELSE bob]
MCMessage  == [e \in Event |-> IF e = e1 THEN m1 ELSE m2]
MCKey      == [e \in Event |-> IF e = e1 THEN a1 ELSE b1]
MCKeyEvent == [e \in Event |-> IF e = e1 THEN k1 ELSE None]

\* a1 and a2 are two states of the same key of alice.
MCOwner   == [k \in SigningKey |-> IF k = b1 THEN bob ELSE alice]
MCVersion == [k \in SigningKey |-> 1]
=============================================================================
