---------------------------- MODULE XChatEvents -----------------------------
(***************************************************************************)
(* The encrypted-event table of XChatCache and the drain that decrypts it  *)
(* (src/xchat-cache.js).                                                   *)
(*                                                                         *)
(* The program is one JavaScript event loop over a synchronous SQLite      *)
(* database.  An action is therefore the code between two awaits: a whole  *)
(* HTTP handler or transaction for the writers, and for the drain the code *)
(* that runs from one await to the next.  Everything in memory is lost by  *)
(* a crash; every table survives it.                                       *)
(*                                                                         *)
(* External: the Chat XDK behind XChatDecryptor.decrypt.  It returns one   *)
(* output for each event it can verify and open with the signing keys and  *)
(* conversation key changes of the call, reports an error for each event   *)
(* it cannot, may report errors about unrelated key changes, may return    *)
(* output that does not name its source, and may throw.                    *)
(***************************************************************************)
EXTENDS Integers, FiniteSets

CONSTANTS
  Event,           \* encrypted events, by event_uuid
  KeyEvent,        \* conversation key changes, by hash of the encoded event
  Conversation,    \* conversation ids, as X writes them
  Sender,          \* X user ids
  SigningKey,      \* published signing keys
  Message,         \* decrypted messages, by message id
  None,
  ConversationOf,  \* the (canonical) conversation of an event or key change
  Canonical,       \* conversation id with ':' replaced by '-'
  SenderOf,        \* sender_id of an event, None when X omits it
  MessageOf,       \* message an event carries, None for one without output
  KeyOf,           \* signing key that verifies an event
  KeyEventOf,      \* key change an event is encrypted under, or None
  OwnerOf,         \* user_id of a signing key
  VersionOf,       \* public_key_version of a signing key
  MaxAttempts,     \* failures before an event is given up (10 in the code)
  BatchSize,       \* rows decrypted in one call (100 in the code)
  Limits,          \* limits callers of processPending pass
  Faults,          \* what may go wrong in a call: see Fault
  FullDrain,       \* cap of the selected-rows counter (1000, XChatPending)
  HasKeyProvider   \* whether a signing key provider is installed

ASSUME EventsAssumption ==
  /\ IsFiniteSet(Event)
  /\ None \notin Sender \cup Message \cup KeyEvent \cup Conversation \cup Event
  /\ ConversationOf \in [Event \cup KeyEvent -> Conversation]
  /\ Canonical \in [Conversation -> Conversation]
  /\ SenderOf \in [Event -> Sender \cup {None}]
  /\ MessageOf \in [Event -> Message \cup {None}]
  /\ KeyEventOf \in [Event -> KeyEvent \cup {None}]
  /\ OwnerOf \in [SigningKey -> Sender]
  /\ MaxAttempts \in Nat \ {0}
  /\ BatchSize \in Nat \ {0}
  /\ Limits \subseteq Nat \ {0}
  /\ FullDrain \in Nat \ {0}
  /\ HasKeyProvider \in BOOLEAN
  /\ Faults \subseteq {"infra", "other", "blind", "noise"}

(***************************************************************************)
(* Faults: "infra" and "other", the call throws an error with or without a *)
(* status that stopsRetryFanout recognises (401, 403, 429, 5xx); "blind",  *)
(* the outputs lack originalB64; "noise", an error about another key       *)
(* change comes with the outputs.                                          *)
(***************************************************************************)
Kinds == {"infra", "other"} \cap Faults

VARIABLES
  \* xchat_events
  status, attempts, lastError, source, conversation, received,
  \* xchat_key_events: the conversation a key change is filed under
  keyEvents, keyReceived,
  \* xchat_signing_keys, xchat_conversations, identity in xchat_cache_config
  signingKeys, conversations, configured,
  \* xchat_decrypted_events, by message id
  messages,
  \* the wall clock, as the number of the last delivery
  clock,
  \* #processRequested, and the locals of #drainPending
  requested, pc, limit, todo, batch, isolated, selected,
  \* the locals of #processEvent and #processEventBatch across an await
  current, callKeys, callKeyEvents, cause,
  \* how the last call of processPending ended
  outcome

rowVars     == <<status, attempts, lastError>>
deliverVars == <<source, conversation, received, keyEvents, keyReceived, clock>>
keyVars     == <<signingKeys, conversations, configured>>
workVars    == <<limit, todo, batch, isolated, selected>>
callVars    == <<current, callKeys, callKeyEvents, cause>>
drainVars   == <<requested, pc, workVars, callVars, outcome>>
vars == <<rowVars, deliverVars, keyVars, messages, drainVars>>

Status == {"absent", "pending", "failed", "processed"}
Steps  == {"idle", "yield", "batch", "turn", "row", "refresh", "again"}

RowsOK ==
  /\ status \in [Event -> Status]
  /\ attempts \in [Event -> 0..MaxAttempts]
  /\ lastError \in [Event -> {"none", "nokey", "error"}]

DeliveriesOK ==
  /\ source \in [Event -> {"none", "webhook", "backfill"}]
  /\ conversation \in [Event -> Conversation \cup {None}]
  /\ received \in [Event -> Nat]
  /\ keyEvents \in [KeyEvent -> Conversation \cup {None}]
  /\ keyReceived \in [KeyEvent -> Nat]
  /\ clock \in Nat

KeysOK ==
  /\ signingKeys \subseteq SigningKey
  /\ conversations \subseteq Conversation
  /\ configured \in BOOLEAN

DrainOK ==
  /\ requested \in BOOLEAN
  /\ pc \in Steps
  /\ limit \in Limits \cup {0}
  /\ todo \subseteq Event
  /\ batch \subseteq Event
  /\ isolated \in BOOLEAN
  /\ selected \in 0..FullDrain
  /\ current \in Event \cup {None}
  /\ callKeys \subseteq SigningKey
  /\ callKeyEvents \subseteq KeyEvent
  /\ cause \in {"none", "infra", "other"}
  /\ outcome \in {"none", "resolved", "rejected"}

TypeOK ==
  /\ RowsOK /\ DeliveriesOK /\ KeysOK /\ DrainOK
  /\ messages \subseteq Message

NothingInHand ==
  /\ todo = {} /\ batch = {} /\ isolated = FALSE
  /\ current = None /\ callKeys = {} /\ callKeyEvents = {} /\ cause = "none"

Init ==
  /\ status = [e \in Event |-> "absent"]
  /\ attempts = [e \in Event |-> 0]
  /\ lastError = [e \in Event |-> "none"]
  /\ source = [e \in Event |-> "none"]
  /\ conversation = [e \in Event |-> None]
  /\ received = [e \in Event |-> 0]
  /\ keyEvents = [k \in KeyEvent |-> None]
  /\ keyReceived = [k \in KeyEvent |-> 0]
  /\ signingKeys = {} /\ conversations = {} /\ configured = FALSE
  /\ messages = {} /\ clock = 0
  /\ requested = FALSE /\ pc = "idle" /\ limit = 0 /\ selected = 0
  /\ outcome = "none"
  /\ NothingInHand

-----------------------------------------------------------------------------
(* The tables *)

Owners(ks) == {OwnerOf[k] : k \in ks}

SameRow(j, k) == OwnerOf[j] = OwnerOf[k] /\ VersionOf[j] = VersionOf[k]

\* Writing keys replaces the ones with the same user and version.
Upsert(ks) == {k \in signingKeys : \A j \in ks : ~SameRow(j, k)} \cup ks

\* What a caller sends: one key for a user and version.
KeyLists == {ks \in SUBSET SigningKey : \A j, k \in ks : SameRow(j, k) => j = k}

\* Mutant of Eligible: the bound is off by one.
EligibleTwiceTired == {e \in Event : /\ status[e] \in {"pending", "failed"}
                                     /\ attempts[e] <= MaxAttempts}

\* WHERE status IN ('pending', 'failed') AND attempts < 10
Eligible == {e \in Event : /\ status[e] \in {"pending", "failed"}
                           /\ attempts[e] < MaxAttempts}

MissingKey == {e \in Eligible : /\ SenderOf[e] # None
                                /\ SenderOf[e] \notin Owners(signingKeys)}

\* Mutant of Failed: configure pends whatever is not pending.
NotPending == {e \in Event : status[e] \in {"failed", "processed"}}

Failed == {e \in Event : status[e] = "failed"}

\* Mutants of Unlocked: exhausted rows are forgotten; a changed key is no news.
UnlockedUnlessExhausted(ks) ==
  {e \in Failed \cap Eligible : SenderOf[e] \in Owners(ks \ signingKeys)}
UnlockedByFirstKey(ks) ==
  {e \in Failed : SenderOf[e] \in Owners(ks) \ Owners(signingKeys)}

\* Failed events of the senders for whom ks brings a key that is new.
Unlocked(ks) == {e \in Failed : SenderOf[e] \in Owners(ks \ signingKeys)}

\* The only three ways a row changes.
Pend(E) ==
  /\ status'    = [e \in Event |-> IF e \in E THEN "pending" ELSE status[e]]
  /\ attempts'  = [e \in Event |-> IF e \in E THEN 0 ELSE attempts[e]]
  /\ lastError' = [e \in Event |-> IF e \in E THEN "none" ELSE lastError[e]]

GiveUp(E) ==
  /\ status'    = [e \in Event |-> IF e \in E THEN "failed" ELSE status[e]]
  /\ attempts'  = [e \in Event |-> IF e \in E THEN MaxAttempts ELSE attempts[e]]
  /\ lastError' = [e \in Event |-> IF e \in E THEN "nokey" ELSE lastError[e]]

Carried(P) == {MessageOf[e] : e \in P} \ {None}

\* Events P are processed and events F failed, in one transaction that also
\* inserts (OR IGNORE, by message id) the outputs of the events in M.
Settle(P, F, M) ==
  /\ status'    = [e \in Event |-> IF e \in P THEN "processed"
                                   ELSE IF e \in F THEN "failed" ELSE status[e]]
  /\ attempts'  = [e \in Event |-> IF e \in P \cup F THEN attempts[e] + 1
                                   ELSE attempts[e]]
  /\ lastError' = [e \in Event |-> IF e \in P THEN "none"
                                   ELSE IF e \in F THEN "error" ELSE lastError[e]]
  /\ messages' = messages \cup Carried(M)

-----------------------------------------------------------------------------
(* Selecting work *)

\* The n oldest members of S (ties in any order), or all of them.
Oldest(S, n) ==
  {T \in SUBSET S : /\ Cardinality(T) = IF n < Cardinality(S) THEN n
                                        ELSE Cardinality(S)
                    /\ \A x \in T, y \in S \ T : received[x] <= received[y]}

\* The next call to the decryptor takes rows of one conversation.
Batches(S) ==
  UNION {Oldest({e \in S : conversation[e] = c}, BatchSize) :
           c \in {conversation[e] : e \in S}}

\* Mutant of KeyEventsOf: those of the last delivery are left out.
OlderKeyEventsOf(c) == {k \in KeyEvent : keyEvents[k] = c /\ keyReceived[k] < clock}

KeyEventsOf(c) == {k \in KeyEvent : keyEvents[k] = c}

ClearCall ==
  /\ current' = None /\ cause' = "none"
  /\ callKeys' = {} /\ callKeyEvents' = {}

Finish(result) ==
  /\ pc' = "idle" /\ outcome' = result
  /\ limit' = 0 /\ todo' = {} /\ batch' = {} /\ isolated' = FALSE
  /\ ClearCall

\* Mutant of Take: the batch stays in the list of work.
TakeAndKeep(S) ==
  /\ \E b \in Batches(S) : batch' = b /\ todo' = S
  /\ pc' = "yield" /\ isolated' = FALSE
  /\ ClearCall

Take(S) ==
  /\ \E b \in Batches(S) : batch' = b /\ todo' = S \ b
  /\ pc' = "yield" /\ isolated' = FALSE
  /\ ClearCall

Capped(n) == IF n < FullDrain THEN n ELSE FullDrain

\* One turn of the do-while loop: the rows eligible now, oldest first.
Select(n, found) ==
  \E S \in Oldest(Eligible', n) :
    /\ requested' = FALSE
    /\ selected' = Capped(found + Cardinality(S))
    /\ \/ S = {} /\ Finish("resolved")
       \/ S # {} /\ limit' = n /\ Take(S) /\ outcome' = "none"

\* Mutant of Continue: the loop does not look at #processRequested.
ContinueOnce(rest) ==
  \/ /\ rest # {}
     /\ batch' = rest /\ pc' = "turn" /\ ClearCall
     /\ UNCHANGED <<requested, limit, todo, isolated, selected, outcome>>
  \/ /\ rest = {} /\ todo # {}
     /\ Take(todo)
     /\ UNCHANGED <<requested, limit, selected, outcome>>
  \/ /\ rest = {} /\ todo = {}
     /\ Finish("resolved")
     /\ UNCHANGED <<requested, selected>>

\* What follows a settled row or batch: the rows left of a batch that is
\* retried one by one, the next batch, the next turn of the loop, or the end.
Continue(rest) ==
  \/ /\ rest # {}
     /\ batch' = rest /\ pc' = "turn" /\ ClearCall
     /\ UNCHANGED <<requested, limit, todo, isolated, selected, outcome>>
  \/ /\ rest = {} /\ todo # {}
     /\ Take(todo)
     /\ UNCHANGED <<requested, limit, selected, outcome>>
  \/ /\ rest = {} /\ todo = {} /\ requested
     /\ Select(limit, selected)
  \/ /\ rest = {} /\ todo = {} /\ ~requested
     /\ Finish("resolved")
     /\ UNCHANGED <<requested, selected>>

\* The error leaves drainPending: rows keep their attempts.
Abort ==
  /\ Finish("rejected")
  /\ selected' = 0
  /\ UNCHANGED <<rowVars, messages, requested>>

-----------------------------------------------------------------------------
(* The writers: handlers that run to completion without an await *)

NewRows(E) == {e \in E : status[e] = "absent"}

NewKeyEvents(K) == {k \in K : keyEvents[k] = None}

\* INSERT OR IGNORE: a row or key change that is known keeps its columns.
Deliver(c, E, K, src) ==
  LET N == NewRows(E)
      L == NewKeyEvents(K)
  IN /\ source' = [e \in Event |-> IF e \in N THEN src ELSE source[e]]
     /\ conversation' = [e \in Event |-> IF e \in N THEN c ELSE conversation[e]]
     /\ received' = [e \in Event |-> IF e \in N THEN clock + 1 ELSE received[e]]
     /\ keyEvents' = [k \in KeyEvent |-> IF k \in L THEN c ELSE keyEvents[k]]
     /\ keyReceived' = [k \in KeyEvent |-> IF k \in L THEN clock + 1
                                           ELSE keyReceived[k]]
     /\ clock' = IF N = {} /\ L = {} THEN clock ELSE clock + 1
     /\ conversations' = conversations \cup {c}

AcceptWebhook(c, E, K) ==
  /\ Deliver(c, E, K, "webhook")
  /\ Pend(NewRows(E))
  /\ UNCHANGED <<signingKeys, configured, messages, drainVars>>

IngestBackfill(c, E, K, ks, identity) ==
  /\ Deliver(c, E, K, "backfill")
  /\ signingKeys' = Upsert(ks)
  /\ configured' = (configured \/ identity)
  /\ Pend(NewRows(E) \cup IF identity THEN Failed ELSE Unlocked(ks))
  /\ UNCHANGED <<messages, drainVars>>

AddSigningKeys(ks) ==
  /\ ks # {}
  /\ signingKeys' = Upsert(ks)
  /\ Pend(Unlocked(ks))
  /\ UNCHANGED <<deliverVars, conversations, configured, messages, drainVars>>

Configure(ks, C) ==
  /\ configured' = TRUE
  /\ signingKeys' = Upsert(ks)
  /\ conversations' = conversations \cup C
  /\ Pend(Failed)
  /\ UNCHANGED <<deliverVars, messages, drainVars>>

\* A crash at any await, and the next start: memory is lost, and events filed
\* under a ':' id move to the '-' id if that conversation is known.
Moved(c) ==
  IF c # None /\ Canonical[c] \in conversations THEN Canonical[c] ELSE c

Reopen ==
  /\ conversation' = [e \in Event |-> Moved(conversation[e])]
  /\ requested' = FALSE /\ pc' = "idle" /\ limit' = 0 /\ selected' = 0
  /\ todo' = {} /\ batch' = {} /\ isolated' = FALSE /\ outcome' = "none"
  /\ ClearCall
  /\ UNCHANGED <<rowVars, source, received, keyEvents, keyReceived, clock,
                 keyVars, messages>>

-----------------------------------------------------------------------------
(* The drain: one action for the code between two awaits *)

tables == <<deliverVars, keyVars>>

\* Mutant of ProcessPending: the sweep for missing keys comes before the check
\* for a running drain.
ProcessPendingSweepsFirst(n) ==
  \/ /\ pc # "idle"
     /\ requested' = TRUE
     /\ GiveUp(MissingKey)
     /\ UNCHANGED <<tables, messages, pc, workVars, callVars, outcome>>
  \/ /\ pc = "idle"
     /\ GiveUp(MissingKey)
     /\ Select(n, Cardinality(MissingKey))
     /\ UNCHANGED <<tables, messages>>

\* processPending: single flight.  A call that finds a drain running asks it
\* for one more turn and shares its result; otherwise the drain starts, gives
\* up the events of senders without a key, and selects.
ProcessPending(n) ==
  \/ /\ pc # "idle"
     /\ requested' = TRUE
     /\ UNCHANGED <<rowVars, tables, messages, pc, workVars, callVars, outcome>>
  \/ /\ pc = "idle"
     /\ GiveUp(MissingKey)
     /\ Select(n, Cardinality(MissingKey))
     /\ UNCHANGED <<tables, messages>>

\* External: what the decryptor can open, and what it returns for rows E.
Opened(e) == /\ KeyOf[e] \in callKeys
             /\ KeyEventOf[e] \in callKeyEvents \cup {None}

Outputs(E) == {e \in E : Opened(e) /\ MessageOf[e] # None}

CallPossible == configured /\ signingKeys # {}

\* The snapshot a call to the decryptor works with.
Snapshot(c) ==
  /\ callKeys' = signingKeys
  /\ callKeyEvents' = KeyEventsOf(c)
  /\ cause' = "none"

KeepDrain == UNCHANGED <<requested, workVars, outcome>>

\* Mutant of RowFails: a failure does not count as an attempt.
RowFailsUncounted(e, kind) ==
  /\ status' = [status EXCEPT ![e] = "failed"]
  /\ lastError' = [lastError EXCEPT ![e] = "error"]
  /\ UNCHANGED <<attempts, messages>>
  /\ Continue(batch \ {e})

\* An attempt at a single row failed.  Rows that are retried one by one stop
\* at an infrastructure error, which costs no attempt; a batch of one row
\* does not look at the kind of error.
RowFails(e, kind) ==
  \/ isolated /\ kind = "infra" /\ Abort
  \/ /\ ~(isolated /\ kind = "infra")
     /\ Settle({}, {e}, {})
     /\ Continue(batch \ {e})

RowSucceeds(e) ==
  /\ Settle({e}, {}, Outputs({e}))
  /\ Continue(batch \ {e})

\* The synchronous part of processEvent: check, snapshot, call.
BeginRow(e) ==
  \/ /\ CallPossible
     /\ pc' = "row" /\ current' = e
     /\ Snapshot(conversation[e])
     /\ KeepDrain
     /\ UNCHANGED <<rowVars, messages>>
  \/ /\ ~CallPossible
     /\ RowFails(e, "other")

\* After yieldToIo.  rows[0] names the conversation of the whole batch.
StartBatch ==
  /\ pc = "yield"
  /\ \/ \E e \in batch : batch = {e} /\ BeginRow(e)
     \/ /\ Cardinality(batch) > 1 /\ CallPossible
        /\ pc' = "batch" /\ current' = None
        /\ \E e \in batch : Snapshot(conversation[e])
        /\ KeepDrain
        /\ UNCHANGED <<rowVars, messages>>
     \/ Cardinality(batch) > 1 /\ ~CallPossible /\ Abort
  /\ UNCHANGED tables

StartRow ==
  /\ pc = "turn"
  /\ \E T \in Oldest(batch, 1) : \E e \in T : BeginRow(e)
  /\ UNCHANGED tables

Errors(E, noise) == noise \/ \E e \in E : ~Opened(e)

\* Rows without an output that names them, when errors were reported.
Unverified(E, noise, blind) ==
  IF ~Errors(E, noise) THEN {} ELSE IF blind THEN E ELSE E \ Outputs(E)

Flag(f) == IF f \in Faults THEN BOOLEAN ELSE {FALSE}

\* Errors about other key changes need another key change.
Noise == IF callKeyEvents = {} THEN {FALSE} ELSE Flag("noise")

AllBackfilled == \A e \in batch : source[e] = "backfill"

\* Mutant of BatchReturns: failedIndexes is ignored.
BatchReturnsUnchecked ==
  /\ pc = "batch"
  /\ Settle(batch, {}, Outputs(batch))
  /\ Continue({})
  /\ UNCHANGED tables

\* The batch call returned.  A batch with a webhook row tolerates no unverified
\* row, and no batch tolerates output that does not name its source: its rows
\* are then retried one by one.
BatchReturns ==
  /\ pc = "batch"
  /\ \E noise \in Noise, blind \in Flag("blind") :
       LET F == Unverified(batch, noise, blind)
           unusable == \/ ~AllBackfilled /\ F # {}
                       \/ blind /\ Outputs(batch) # {}
       IN \/ /\ unusable
             /\ pc' = "turn" /\ isolated' = TRUE
             /\ ClearCall
             /\ UNCHANGED <<rowVars, messages, requested, limit, todo, batch,
                            selected, outcome>>
          \/ /\ ~unusable
             /\ Settle(batch \ F, F, Outputs(batch) \ F)
             /\ Continue({})
  /\ UNCHANGED tables

\* Any error of the call itself ends the drain.
BatchThrows ==
  /\ pc = "batch"
  /\ Kinds # {}
  /\ Abort
  /\ UNCHANGED tables

\* The catch block of processEvent: whether fresh keys are worth a request.
CanRefresh(e) ==
  /\ HasKeyProvider
  /\ SenderOf[e] # None
  /\ source[e] # "backfill"
  /\ SenderOf[e] \in Owners(signingKeys)

AskForKeys(kind) ==
  /\ pc' = "refresh" /\ cause' = kind
  /\ UNCHANGED <<current, callKeys, callKeyEvents, rowVars, messages>>
  /\ KeepDrain

FirstCallFails(e, kind) ==
  \/ CanRefresh(e) /\ AskForKeys(kind)
  \/ ~CanRefresh(e) /\ RowFails(e, kind)

\* A result without an error about the row.  Output that does not name its
\* source counts only when nothing else can have produced it.
AcceptResult(e, blind) ==
  \/ /\ blind /\ Outputs({e}) # {} /\ callKeyEvents # {}
     /\ RowFails(e, "other")
  \/ /\ ~(blind /\ Outputs({e}) # {} /\ callKeyEvents # {})
     /\ RowSucceeds(e)

RowReturns ==
  /\ pc = "row"
  /\ \E noise \in Noise, blind \in Flag("blind") :
       \/ /\ Unverified({current}, noise, blind) # {}
          /\ FirstCallFails(current, "other")
       \/ /\ Unverified({current}, noise, blind) = {}
          /\ AcceptResult(current, blind)
  /\ UNCHANGED tables

RowThrows ==
  /\ pc = "row"
  /\ \E kind \in Kinds : FirstCallFails(current, kind)
  /\ UNCHANGED tables

\* The provider answered with keys of the sender.  Storing them pends the
\* sender's failed events, the one in hand included; without news the first
\* error stands.
KeysArrive(ks) ==
  /\ pc = "refresh"
  /\ Owners(ks) \subseteq {SenderOf[current]}
  /\ \/ /\ ks \subseteq signingKeys
        /\ RowFails(current, cause)
        /\ UNCHANGED tables
     \/ /\ ~(ks \subseteq signingKeys)
        /\ signingKeys' = Upsert(ks)
        /\ Pend(Unlocked(ks))
        /\ pc' = "again" /\ callKeys' = signingKeys' /\ cause' = "none"
        /\ KeepDrain
        /\ UNCHANGED <<deliverVars, conversations, configured, messages,
                       current, callKeyEvents>>

ProviderThrows ==
  /\ pc = "refresh"
  /\ \E kind \in Kinds : RowFails(current, kind)
  /\ UNCHANGED tables

AgainReturns ==
  /\ pc = "again"
  /\ \E noise \in Noise, blind \in Flag("blind") :
       \/ /\ Unverified({current}, noise, blind) # {}
          /\ RowFails(current, "other")
       \/ /\ Unverified({current}, noise, blind) = {}
          /\ AcceptResult(current, blind)
  /\ UNCHANGED tables

AgainThrows ==
  /\ pc = "again"
  /\ \E kind \in Kinds : RowFails(current, kind)
  /\ UNCHANGED tables

-----------------------------------------------------------------------------
\* A delivery is about one conversation, under any spelling of its id.
About(S, c) == SUBSET {x \in S : Canonical[ConversationOf[x]] = Canonical[c]}

Deliveries ==
  \E c \in Conversation : \E E \in About(Event, c), K \in About(KeyEvent, c) :
    \/ AcceptWebhook(c, E, K)
    \/ \E ks \in KeyLists, identity \in BOOLEAN :
         IngestBackfill(c, E, K, ks, identity)

Writers ==
  \/ Deliveries
  \/ \E ks \in KeyLists : AddSigningKeys(ks)
  \/ \E ks \in KeyLists, C \in SUBSET Conversation : Configure(ks, C)

\* What a running drain does; every await of it settles.
DrainStep ==
  \/ StartBatch \/ StartRow
  \/ BatchReturns \/ BatchThrows
  \/ RowReturns \/ RowThrows
  \/ \E ks \in KeyLists : KeysArrive(ks)
  \/ ProviderThrows
  \/ AgainReturns \/ AgainThrows

Request == \E n \in Limits : ProcessPending(n)

Next == Writers \/ Request \/ DrainStep \/ Reopen

Spec == Init /\ [][Next]_vars

\* The event loop runs on: a drain that awaits is resumed.
DrainFair == Spec /\ WF_vars(DrainStep)

-----------------------------------------------------------------------------
(* Properties *)

Processed == {e \in Event : status[e] = "processed"}

\* The table of messages and the status of events never disagree: an event is
\* processed exactly when its message is readable, whatever batch, retry or
\* crash came between (transactions at xchat-cache.js:814-854 and 902-937).
CommittedTogether == messages = Carried(Processed)

\* Rows a drain holds in memory across its awaits are still its to settle: no
\* handler that ran meanwhile has processed them or given them up.
InHand == todo \cup batch

HandIsOpen ==
  /\ InHand \subseteq Eligible
  /\ todo \cap batch = {}
  /\ current # None => current \in batch

\* "No cached signing key exists for this sender" is never stale: whichever
\* way a first key of the sender arrives, its events are tried again.
NoKeyIsCurrent ==
  \A e \in Event : lastError[e] = "nokey" =>
    /\ status[e] = "failed"
    /\ SenderOf[e] \notin Owners(signingKeys)

\* README: "It applies conversation key changes before it decrypts dependent
\* messages."  A call to the decryptor gets every key change of the
\* conversation that was stored no later than a row it is asked to decrypt.
InCall == IF pc = "batch" THEN batch
          ELSE IF pc \in {"row", "refresh", "again"} THEN {current} ELSE {}

KeyChangesFirst ==
  \A e \in InCall, k \in KeyEvent :
    (/\ keyEvents[k] # None
     /\ Canonical[keyEvents[k]] = Canonical[conversation[e]]
     /\ keyReceived[k] <= received[e]) => k \in callKeyEvents

\* With calls that only fail for want of keys, an event is given up for good
\* only if it cannot be read with what is stored: a message with a sender id
\* whose key, and key change if it came first, are there is always retried.
Readable(e) ==
  /\ configured /\ MessageOf[e] # None
  /\ SenderOf[e] # None /\ KeyOf[e] \in signingKeys
  /\ \/ KeyEventOf[e] = None
     \/ /\ keyEvents[KeyEventOf[e]] # None
        /\ keyReceived[KeyEventOf[e]] <= received[e]

GivenUp(e) == status[e] = "failed" /\ attempts[e] = MaxAttempts

GivenUpIsUnreadable == \A e \in Event : GivenUp(e) => ~Readable(e)

\* The table implements the abstract inbox: no event is forgotten, none is
\* settled twice, and its message becomes readable in the same step.
PhaseOf(e) == CASE status[e] = "absent"    -> "unknown"
                [] status[e] = "processed" -> "settled"
                [] OTHER                   -> "open"

Inbox == INSTANCE MessageInbox
           WITH phase <- [e \in Event |-> PhaseOf(e)], readable <- messages

InboxSpec == Inbox!Spec

\* processPending during a drain is not lost (test/xchat-cache.test.js:531):
\* an event that is pending when one more turn is requested is tried, if the
\* drain takes that many rows and does not end in an error or a crash.
RequestServed ==
  \A e \in Event :
    (requested /\ limit >= Cardinality(Eligible) /\ status[e] = "pending")
      ~> (status[e] # "pending" \/ (pc = "idle" /\ outcome # "resolved"))

\* Once keys and identity are there and calls stop failing as a whole, every
\* event is processed or given up after a bounded number of attempts, if
\* somebody keeps asking (the README says who): none starves behind others
\* that fail again and again.
Disturbance ==
  \/ BatchThrows \/ RowThrows \/ ProviderThrows \/ AgainThrows \/ Reopen
  \/ \E ks \in KeyLists : AddSigningKeys(ks) \/ KeysArrive(ks)
  \/ \E ks \in KeyLists, C \in SUBSET Conversation : Configure(ks, C)

AllSettled == \A e \in Event : status[e] \in {"absent", "processed"} \/ GivenUp(e)

SettlesWhenCalm ==
  (WF_vars(Request) /\ <>[][~Disturbance]_vars /\ <>[]CallPossible) => <>[]AllSettled
=============================================================================
