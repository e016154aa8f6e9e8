---------------------------- MODULE MessageInbox ----------------------------
(***************************************************************************)
(* What the encrypted-message cache promises its readers, without saying   *)
(* how: an event that was accepted is never forgotten, and is settled at   *)
(* most once, in the same step in which the message it carries becomes     *)
(* readable.  XChatEvents implements this specification with a SQLite      *)
(* table, retries, key refreshes, crashes and a batching decryptor.        *)
(***************************************************************************)
CONSTANTS Event,        \* encrypted events, by event_uuid
          Message,      \* decrypted messages, by message id
          None,         \* "no message"
          MessageOf     \* the message an event carries (None for a receipt)

VARIABLES phase,        \* what is known of each event
          readable      \* messages a reader can list

inboxVars == <<phase, readable>>

Phase == {"unknown", "open", "settled"}

InboxTypeOK ==
  /\ phase \in [Event -> Phase]
  /\ readable \subseteq Message

Init ==
  /\ phase = [e \in Event |-> "unknown"]
  /\ readable = {}

Carried(E) == {MessageOf[e] : e \in E} \ {None}

\* A delivery of events, some of which may be known already.
Accept(E) ==
  /\ phase' = [e \in Event |-> IF e \in E /\ phase[e] = "unknown"
                               THEN "open" ELSE phase[e]]
  /\ UNCHANGED readable

\* Open events are settled together with the messages they carry.
Settle(E) ==
  /\ \A e \in E : phase[e] = "open"
  /\ phase' = [e \in Event |-> IF e \in E THEN "settled" ELSE phase[e]]
  /\ readable' = readable \cup Carried(E)

Next == \E E \in SUBSET Event : Accept(E) \/ Settle(E)

Spec == Init /\ [][Next]_inboxVars
=============================================================================
