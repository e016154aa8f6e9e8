------------------------- MODULE XChatPendingProofs -------------------------
(***************************************************************************)
(* Proofs about XChatPending.  The composed system takes only steps of the *)
(* event table, so that every theorem about the table holds of it too; and *)
(* the flags and the timer of the processor never lose a request.          *)
(***************************************************************************)
EXTENDS XChatPending, XChatEventsProofs

-----------------------------------------------------------------------------
(* The composed system implements the event table *)

LEMMA PendingStep == [PendingNext]_pendingVars => [Next]_vars
  <1>1. ASSUME Webhook PROVE Next
    BY <1>1 DEF Webhook, Next, Writers, Deliveries
  <1>2. ASSUME SyncPage PROVE Next
    BY <1>2, NoKeys DEF SyncPage, Next, Writers, Deliveries
  <1>3. ASSUME Silent PROVE Next
    BY <1>3 DEF Silent, Next, Writers, Deliveries
  <1>4. ASSUME Process PROVE Next
    BY <1>4 DEF Process, Next
  <1>5. ASSUME TimerFires PROVE Next
    BY <1>5, PendingAssumption DEF TimerFires, Next, Request
  <1>6. ASSUME BackoffEnds PROVE UNCHANGED vars
    BY <1>6 DEF BackoffEnds
  <1>7. ASSUME Drain PROVE Next
    BY <1>7 DEF Drain, Next
  <1>8. ASSUME StartWorkers PROVE UNCHANGED vars
    BY <1>8 DEF StartWorkers
  <1>9. ASSUME Crash PROVE Next
    BY <1>9 DEF Crash, Next
  <1>10. ASSUME UNCHANGED pendingVars PROVE UNCHANGED vars
    BY <1>10 DEF pendingVars
  <1>11. QED
    BY <1>1, <1>2, <1>3, <1>4, <1>5, <1>6, <1>7, <1>8, <1>9, <1>10
    DEF PendingNext

\* With the processor, the slices, the routes and the start of the workers
\* around it, the event table still does only what XChatEvents allows.
THEOREM PendingImplementsEvents == PendingSpec => Spec
  <1>1. PendingInit => Init
    BY DEF PendingInit
  <1>2. QED
    BY <1>1, PendingStep, PTL DEF PendingSpec, Spec

\* So what is proved of the table holds of the composed system: messages and
\* processed events agree, and a drain's rows stay its own.
THEOREM PendingKeepsTable == PendingSpec => [](CommittedTogether /\ HandIsOpen)
  BY PendingImplementsEvents, MessagesCommittedTogether, HandStaysOpen, PTL

-----------------------------------------------------------------------------
(* The processor *)

ProcessorInv == PendingTypeOK /\ RequestKept /\ BackoffHeld

LEMMA AskInv ==
  ASSUME ProcessorInv, Ask, UNCHANGED pc, started' \in BOOLEAN
  PROVE  ProcessorInv'
  BY DEF ProcessorInv, PendingTypeOK, RequestKept, BackoffHeld, Ask, Due

LEMMA KeptInv ==
  ASSUME ProcessorInv, UNCHANGED <<processorVars, started>>,
         running => UNCHANGED pc
  PROVE  ProcessorInv'
  BY DEF ProcessorInv, PendingTypeOK, RequestKept, BackoffHeld, processorVars

LEMMA AwaitingInv ==
  ASSUME ProcessorInv, NEW ask \in BOOLEAN, Awaiting(ask), UNCHANGED started
  PROVE  ProcessorInv'
  BY DEF ProcessorInv, PendingTypeOK, RequestKept, BackoffHeld, Awaiting, Due

\* Each action either asks, leaves the processor alone, or awaits a drain.
LEMMA ProcessorStep ==
  ASSUME ProcessorInv, [PendingNext]_pendingVars
  PROVE  ProcessorInv'
  <1>1. CASE Webhook
    <2>1. Ask /\ UNCHANGED <<pc, started>>
      BY <1>1 DEF Webhook, AcceptWebhook, drainVars
    <2>2. QED
      BY <2>1, AskInv DEF ProcessorInv, PendingTypeOK
  <1>2. CASE SyncPage
    <2>1. Ask /\ UNCHANGED <<pc, started>>
      BY <1>2 DEF SyncPage, IngestBackfill, drainVars
    <2>2. QED
      BY <2>1, AskInv DEF ProcessorInv, PendingTypeOK
  <1>3. CASE Silent
    <2>1. UNCHANGED <<pc, processorVars, started>>
      BY <1>3 DEF Silent, AddSigningKeys, Configure, AcceptWebhook, IngestBackfill,
                  drainVars
    <2>2. QED
      BY <2>1, KeptInv
  <1>4. CASE Process
    <2>1. running => pc # "idle"
      BY DEF ProcessorInv, RequestKept
    <2>2. running => UNCHANGED pc
      BY <1>4, <2>1 DEF Process, Request, ProcessPending
    <2>3. QED
      BY <1>4, <2>2, KeptInv DEF Process
  <1>5. CASE TimerFires
    BY <1>5, AwaitingInv DEF TimerFires
  <1>6. CASE BackoffEnds
    BY <1>6 DEF BackoffEnds, ProcessorInv, PendingTypeOK, RequestKept,
                BackoffHeld, vars, drainVars
  <1>7. CASE Drain
    <2>1. CASE running /\ Awaiting(asked)
      BY <1>7, <2>1, AwaitingInv DEF Drain, ProcessorInv, PendingTypeOK
    <2>2. CASE ~running /\ UNCHANGED processorVars
      BY <1>7, <2>2, KeptInv DEF Drain
    <2>3. QED
      BY <1>7, <2>1, <2>2 DEF Drain
  <1>8. CASE StartWorkers
    <2>1. Ask /\ UNCHANGED pc /\ started' = TRUE
      BY <1>8 DEF StartWorkers, vars, drainVars
    <2>2. QED
      BY <2>1, AskInv
  <1>9. CASE Crash
    BY <1>9 DEF Crash, ProcessorInv, PendingTypeOK, RequestKept, BackoffHeld
  <1>10. CASE UNCHANGED pendingVars
    <2>1. UNCHANGED <<pc, processorVars, started>>
      BY <1>10 DEF pendingVars, vars, drainVars
    <2>2. QED
      BY <2>1, KeptInv
  <1>11. QED
    BY <1>1, <1>2, <1>3, <1>4, <1>5, <1>6, <1>7, <1>8, <1>9, <1>10
    DEF PendingNext

LEMMA ProcessorAlways == PendingSpec => []ProcessorInv
  <1>1. PendingInit => ProcessorInv
    BY DEF PendingInit, ProcessorInv, PendingTypeOK, RequestKept, BackoffHeld
  <1>2. QED
    BY <1>1, ProcessorStep, PTL DEF PendingSpec

\* A request always has a timer, or a drain that looks at it when it ends:
\* the wake-up of the background processor cannot be lost.
THEOREM RequestIsKept == PendingSpec => []RequestKept
  <1>1. ProcessorInv => RequestKept
    BY DEF ProcessorInv
  <1>2. QED
    BY <1>1, ProcessorAlways, PTL

\* While it backs off, the processor neither runs nor is about to.
THEOREM BackoffIsHeld == PendingSpec => []BackoffHeld
  <1>1. ProcessorInv => BackoffHeld
    BY DEF ProcessorInv
  <1>2. QED
    BY <1>1, ProcessorAlways, PTL
=============================================================================
