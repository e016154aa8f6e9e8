---------------------------- MODULE XChatPending ----------------------------
(***************************************************************************)
(* The event table and drain of XChatEvents together with the background   *)
(* processor that runs it (XChatPendingProcessor, src/xchat-pending.js)    *)
(* and with everyone who writes rows or asks for a drain: the webhook, the *)
(* backfill slices, the HTTP routes and the start of the workers.          *)
(*                                                                         *)
(* The promise callbacks that follow the end of a drain run before any     *)
(* other callback of the event loop, so the end of a drain and what the    *)
(* processor does about it are one step.                                   *)
(***************************************************************************)
EXTENDS XChatEvents

\* The processor's own limit is one that callers pass.
ASSUME PendingAssumption == FullDrain \in Limits

VARIABLES
  asked,      \* #requested: a request no drain of the processor has begun for
  timer,      \* #timer: none, due at once, or due when the back-off is over
  running,    \* #running: the processor awaits a drain
  backoff,    \* the clock has not reached #retryNotBefore
  started     \* startXChatWorkers has succeeded in this process

processorVars == <<asked, timer, running, backoff>>
pendingVars == <<vars, processorVars, started>>

PendingTypeOK ==
  /\ asked \in BOOLEAN /\ running \in BOOLEAN
  /\ timer \in {"none", "now", "later"}
  /\ backoff \in BOOLEAN /\ started \in BOOLEAN

PendingInit ==
  /\ Init
  /\ asked = FALSE /\ timer = "none" /\ running = FALSE /\ backoff = FALSE
  /\ started = FALSE

-----------------------------------------------------------------------------
(* The processor *)

\* Mutant of Due: the back-off is forgotten.
DueAtOnce(delayed) == "now"

Due(delayed) == IF delayed THEN "later" ELSE "now"

\* request(): remembered, and a timer unless there is one or a drain runs.
Ask ==
  /\ asked' = TRUE
  /\ timer' = IF running \/ timer # "none" THEN timer ELSE Due(backoff)
  /\ UNCHANGED <<running, backoff>>

\* Mutants of Awaiting: nothing is scheduled when the drain is over; a full
\* drain is not continued.
AwaitingUnscheduled(ask) ==
  LET ended == pc' = "idle"
  IN /\ running' = ~ended
     /\ backoff' = (ended /\ outcome' = "rejected")
     /\ asked' = \/ ask
                 \/ ended /\ (outcome' = "rejected" \/ selected' = FullDrain)
     /\ timer' = "none"

AwaitingOnce(ask) ==
  LET ended == pc' = "idle"
  IN /\ running' = ~ended
     /\ backoff' = (ended /\ outcome' = "rejected")
     /\ asked' = (ask \/ (ended /\ outcome' = "rejected"))
     /\ timer' = IF ended /\ asked' THEN Due(backoff') ELSE "none"

\* The processor awaits a drain; ask tells whether it was asked for another.
\* When the drain is over, an error or a full drain asks once more.
Awaiting(ask) ==
  LET ended == pc' = "idle"
  IN /\ running' = ~ended
     /\ backoff' = (ended /\ outcome' = "rejected")
     /\ asked' = \/ ask
                 \/ ended /\ (outcome' = "rejected" \/ selected' = FullDrain)
     /\ timer' = IF ended /\ asked' THEN Due(backoff') ELSE "none"

\* run(): start a drain or join the one that runs, whoever started it.
TimerFires ==
  /\ timer = "now" \/ (timer = "later" /\ ~backoff)
  /\ ProcessPending(FullDrain)
  /\ Awaiting(FALSE)
  /\ UNCHANGED started

\* The clock reaches #retryNotBefore.
BackoffEnds ==
  /\ backoff /\ backoff' = FALSE
  /\ UNCHANGED <<vars, asked, timer, running, started>>

\* A step of the drain, with the processor waiting for its end or not.
Drain ==
  /\ DrainStep
  /\ \/ running /\ Awaiting(asked)
     \/ ~running /\ UNCHANGED processorVars
  /\ UNCHANGED started

-----------------------------------------------------------------------------
(* Everyone else *)

\* POST /xchat/webhook, and a page of events in XChatSync: store, then ask.
Webhook ==
  /\ \E c \in Conversation : \E E \in About(Event, c), K \in About(KeyEvent, c) :
       AcceptWebhook(c, E, K)
  /\ Ask
  /\ UNCHANGED started

SyncPage ==
  /\ \E c \in Conversation : \E E \in About(Event, c), K \in About(KeyEvent, c) :
       IngestBackfill(c, E, K, {}, FALSE)
  /\ Ask
  /\ UNCHANGED started

\* Handlers that write rows and ask for nothing: new keys, a new identity, a
\* page whose checkpoint was refused with 409, and a webhook whose legacy part
\* was refused.
Silent ==
  /\ \/ \E ks \in KeyLists : AddSigningKeys(ks)
     \/ \E ks \in KeyLists, C \in SUBSET Conversation : Configure(ks, C)
     \/ \E c \in Conversation : \E E \in About(Event, c), K \in About(KeyEvent, c) :
          \/ AcceptWebhook(c, E, K)
          \/ \E ks \in KeyLists, identity \in BOOLEAN : IngestBackfill(c, E, K, ks, identity)
  /\ UNCHANGED <<processorVars, started>>

\* POST /xchat/cache/process, and the end of POST /xchat/cache/backfill: the
\* handler awaits a drain of its own limit.
Process ==
  /\ Request
  /\ UNCHANGED <<processorVars, started>>

\* startXChatWorkers; server.js tries again while it fails.
StartWorkers ==
  /\ ~started /\ started' = TRUE
  /\ Ask
  /\ UNCHANGED vars

Crash ==
  /\ Reopen
  /\ asked' = FALSE /\ timer' = "none" /\ running' = FALSE /\ backoff' = FALSE
  /\ started' = FALSE

PendingNext ==
  \/ Webhook \/ SyncPage \/ Silent \/ Process
  \/ TimerFires \/ BackoffEnds \/ Drain
  \/ StartWorkers \/ Crash

PendingSpec == PendingInit /\ [][PendingNext]_pendingVars

\* Timers fire, time passes, awaits settle, and the start is retried.
PendingFair ==
  /\ PendingSpec
  /\ WF_pendingVars(TimerFires) /\ WF_pendingVars(BackoffEnds)
  /\ WF_pendingVars(Drain) /\ WF_pendingVars(StartWorkers)

-----------------------------------------------------------------------------
(* Properties *)

\* No request is lost: between any two callbacks a request that no drain has
\* taken up has a timer, or a drain whose end will look at it; and a timer
\* never runs beside the drain it would start.
RequestKept ==
  /\ asked => running \/ timer # "none"
  /\ running => timer = "none" /\ pc # "idle"

\* After a failed drain the processor leaves X alone until the back-off is
\* over, whoever asks meanwhile.
BackoffHeld == backoff => timer = "later" /\ ~running

\* Once calls stop failing as a whole and the process stays up, a request gets
\* every pending event tried, the rest of a backlog larger than one drain
\* included (test/xchat-pending.test.js:142).  So does a restart: no work is
\* lost with the drain, timer or back-off that a crash ended.
Upset ==
  \/ BatchThrows \/ RowThrows \/ ProviderThrows \/ AgainThrows \/ Crash

BacklogTried ==
  (<>[][~Upset]_pendingVars /\ <>CallPossible) =>
    \A e \in Event :
      ((asked \/ ~started) /\ status[e] = "pending") ~> status[e] # "pending"
=============================================================================
