--------------------------- MODULE XChatIngestion ---------------------------
(***************************************************************************)
(* The archive backfill job of XChatBackfill over the event table and      *)
(* drain of XChatEvents: whoever brings a page of events, ingestBackfill   *)
(* (src/xchat-cache.js) writes its rows, and what the job takes for stored *)
(* is what has a row in xchat_events.                                      *)
(*                                                                         *)
(* Each action is one of XChatEvents, one of XChatBackfill, or, where the  *)
(* code does both without an await, one of each.  Who asks for drains is   *)
(* left to XChatPending.  A process that dies in the middle of a page      *)
(* leaves rows behind and is down until the next start opens the tables.   *)
(***************************************************************************)
EXTENDS XChatEvents, Sequences

CONSTANTS
  ArchiveOf,      \* the events of a conversation's archive, as X lists them
  ListPages, PageSize, SliceLength, EventLimits, PageLimits, Clients, CountBound

VARIABLES
  job, queue, slicePc, left, snap, scheduled, awaited, resumed, work, clients,
  down        \* the process has died and was not started again

jobVars == <<job, queue, slicePc, left, snap, scheduled, awaited, resumed, work, clients>>
ingestionVars == <<vars, jobVars, down>>

Lengths == [c \in Conversation |-> Len(ArchiveOf[c])]

\* The positions of the archives whose events have a row.
Archived ==
  [c \in Conversation |-> {i \in 1..Len(ArchiveOf[c]) : status[ArchiveOf[c][i]] # "absent"}]

Job == INSTANCE XChatBackfill
         WITH Archive <- Lengths, stored <- Archived, pc <- slicePc

\* An event is in the archive of one conversation, at one place.
ASSUME IngestionAssumption ==
  /\ Job!BackfillAssumption
  /\ ArchiveOf \in [Conversation -> Seq(Event)]
  /\ \A c \in Conversation : \A i \in 1..Len(ArchiveOf[c]) :
       /\ Canonical[ConversationOf[ArchiveOf[c][i]]] = Canonical[c]
       /\ \A d \in Conversation : \A j \in 1..Len(ArchiveOf[d]) :
            ArchiveOf[c][i] = ArchiveOf[d][j] => c = d /\ i = j

IngestionInit == Init /\ Job!Init /\ down = FALSE

-----------------------------------------------------------------------------
\* ingestBackfill of a page of n events, with the key changes X sends along.
Ingests(c, first, n, ks, identity) ==
  \E K \in About(KeyEvent, c) :
    IngestBackfill(c, {ArchiveOf[c][i] : i \in Job!Page(first, n)}, K, ks, identity)

\* A slice gets a page, and goes on to its next call.
PageArrives ==
  /\ ~down /\ slicePc = "page"
  /\ \E n \in Job!Answers(snap.conv, snap.cursor, snap.want) :
       Ingests(snap.conv, snap.cursor, n, {}, FALSE) /\ Job!PageOf(n)
  /\ UNCHANGED down

\* A client posts the page it fetched.
PagePosted ==
  /\ ~down /\ work # None /\ job.pages < CountBound
  /\ \E n \in Job!Answers(work.conv, work.cursor, work.want) :
       /\ \E ks \in KeyLists, identity \in BOOLEAN :
            Ingests(work.conv, work.cursor, n, ks, identity)
       /\ Job!Posted(n)
  /\ UNCHANGED down

\* What the job is not part of.
TableAlone ==
  /\ ~down
  /\ Writers \/ Request \/ DrainStep
  /\ UNCHANGED <<jobVars, down>>

\* What no row is part of.
JobAlone ==
  /\ ~down /\ UNCHANGED <<vars, down>>
  /\ \/ Job!SetLimits \/ Job!RunNow \/ Job!TakeWork \/ Job!StartWorkers
     \/ Job!TimerFires \/ Job!ListReturns \/ Job!RateLimited \/ Job!CallFails

Dies ==
  /\ ~down /\ down' = TRUE
  /\ \/ UNCHANGED vars /\ (Job!Crash \/ Job!CrashAfterEnqueue)
     \/ /\ slicePc = "page"
        /\ \E n \in Job!Answers(snap.conv, snap.cursor, snap.want) :
             Ingests(snap.conv, snap.cursor, n, {}, FALSE) /\ Job!StoredOnly(n)

\* The next start of the process.
Revives == down /\ down' = FALSE /\ Reopen /\ UNCHANGED jobVars

IngestionNext == PageArrives \/ PagePosted \/ TableAlone \/ JobAlone \/ Dies \/ Revives

IngestionSpec == IngestionInit /\ [][IngestionNext]_ingestionVars

-----------------------------------------------------------------------------
(* Properties *)

\* An event that can be read now, or will be tried, or cannot be read.
Accounted(e) ==
  \/ status[e] = "processed" /\ MessageOf[e] \in messages \cup {None}
  \/ e \in Eligible
  \/ GivenUp(e) /\ ~Readable(e)

\* What a job says it has read is not lost on its way to the reader: every
\* event behind a checkpoint, and with "completed" every event of the listed
\* conversations, has its message readable or is still to be tried, unless
\* what is stored cannot read it; whatever crash, client or webhook came
\* between the page, its checkpoint and the drain.
ReadIsAccounted ==
  \A c \in Conversation : \A i \in 1..Len(ArchiveOf[c]) :
    (i <= queue[c].cursor \/ (job.status = "completed" /\ c \in Job!Listing))
      => Accounted(ArchiveOf[c][i])
=============================================================================
