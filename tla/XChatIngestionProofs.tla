------------------------ MODULE XChatIngestionProofs ------------------------
(***************************************************************************)
(* Proofs about XChatIngestion.  The composition takes only steps of the   *)
(* event table and only steps of the backfill job, so that every theorem   *)
(* about either holds of it; together they account for every event that a  *)
(* job says it has read.                                                   *)
(***************************************************************************)
EXTENDS XChatIngestion, XChatEventsProofs

JobProofs == INSTANCE XChatBackfillProofs
               WITH Archive <- Lengths, stored <- Archived, pc <- slicePc

-----------------------------------------------------------------------------
(* The job of the composition is the one the proofs are about *)

LEMMA JobParameters == JobProofs!BackfillAssumption
  BY IngestionAssumption DEF IsFiniteSet, Job!IsFiniteSet, JobProofs!IsFiniteSet

LEMMA SameInit == Job!Init <=> JobProofs!Init
  BY DEF Job!Init, JobProofs!Init, Job!NoCall, JobProofs!NoCall

LEMMA SameListing == Job!Listing = JobProofs!Listing
  BY DEF Job!Listing, JobProofs!Listing

LEMMA SameCardinality ==
  ASSUME NEW S
  PROVE  Job!Cardinality(S) = JobProofs!Cardinality(S)
  BY DEF Job!Cardinality, JobProofs!Cardinality

LEMMA SameNext == Job!Next <=> JobProofs!Next
  <1>1. Job!SetLimits <=> JobProofs!SetLimits
    BY DEF Job!SetLimits, JobProofs!SetLimits, Job!CreateJob, JobProofs!CreateJob,
           Job!RaiseLimits, JobProofs!RaiseLimits, Job!sliceVars,
           JobProofs!sliceVars
  <1>2. Job!RunNow <=> JobProofs!RunNow
    BY DEF Job!RunNow, JobProofs!RunNow, Job!RunJob, JobProofs!RunJob, Job!NoCall,
           JobProofs!NoCall, Job!EndSlice, JobProofs!EndSlice, Job!Call,
           JobProofs!Call, Job!Iterate, JobProofs!Iterate, Job!LimitReached,
           JobProofs!LimitReached, Job!Room, JobProofs!Room, Job!Least,
           JobProofs!Least, Job!Most, JobProofs!Most, Job!Paused, JobProofs!Paused,
           Job!Completed, JobProofs!Completed, Job!Heads, JobProofs!Heads,
           Job!Open, JobProofs!Open, Job!Incomplete, JobProofs!Incomplete
  <1>3. Job!TimerFires <=> JobProofs!TimerFires
    BY DEF Job!TimerFires, JobProofs!TimerFires, Job!RunJob, JobProofs!RunJob,
           Job!NoCall, JobProofs!NoCall, Job!EndSlice, JobProofs!EndSlice,
           Job!Call, JobProofs!Call, Job!Iterate, JobProofs!Iterate,
           Job!LimitReached, JobProofs!LimitReached, Job!Room, JobProofs!Room,
           Job!Least, JobProofs!Least, Job!Most, JobProofs!Most, Job!Paused,
           JobProofs!Paused, Job!Completed, JobProofs!Completed, Job!Heads,
           JobProofs!Heads, Job!Open, JobProofs!Open, Job!Incomplete,
           JobProofs!Incomplete
  <1>4. Job!TakeWork <=> JobProofs!TakeWork
    BY DEF Job!TakeWork, JobProofs!TakeWork, Job!Incomplete, JobProofs!Incomplete,
           Job!Heads, JobProofs!Heads, Job!Open, JobProofs!Open, Job!Room,
           JobProofs!Room, Job!Least, JobProofs!Least, Job!Most, JobProofs!Most,
           Job!sliceVars, JobProofs!sliceVars
  <1>5. Job!ListReturns <=> JobProofs!ListReturns
    BY DEF Job!ListReturns, JobProofs!ListReturns, Job!Enqueued,
           JobProofs!Enqueued, Job!Listed, JobProofs!Listed, Job!Cardinality,
           JobProofs!Cardinality, Job!NoCall, JobProofs!NoCall, Job!EndSlice,
           JobProofs!EndSlice, Job!Call, JobProofs!Call, Job!Iterate,
           JobProofs!Iterate, Job!LimitReached, JobProofs!LimitReached, Job!Room,
           JobProofs!Room, Job!Least, JobProofs!Least, Job!Most, JobProofs!Most,
           Job!Paused, JobProofs!Paused, Job!Completed, JobProofs!Completed,
           Job!Heads, JobProofs!Heads, Job!Open, JobProofs!Open, Job!Incomplete,
           JobProofs!Incomplete
  <1>6. Job!RateLimited <=> JobProofs!RateLimited
    BY DEF Job!RateLimited, JobProofs!RateLimited, Job!EndSlice,
           JobProofs!EndSlice, Job!NoCall, JobProofs!NoCall, Job!Incomplete,
           JobProofs!Incomplete
  <1>7. Job!CallFails <=> JobProofs!CallFails
    BY DEF Job!CallFails, JobProofs!CallFails, Job!EndSlice, JobProofs!EndSlice,
           Job!NoCall, JobProofs!NoCall, Job!Incomplete, JobProofs!Incomplete
  <1>8. Job!PageReturns <=> JobProofs!PageReturns
    BY DEF Job!PageReturns, JobProofs!PageReturns, Job!PageOf, JobProofs!PageOf,
           Job!Answers, JobProofs!Answers, Job!Store, JobProofs!Store, Job!Page,
           JobProofs!Page, Job!Fresh, JobProofs!Fresh, Job!Moved, JobProofs!Moved,
           Job!AtEnd, JobProofs!AtEnd, Job!Counted, JobProofs!Counted,
           Job!Cardinality, JobProofs!Cardinality, Job!NoCall, JobProofs!NoCall,
           Job!EndSlice, JobProofs!EndSlice, Job!Call, JobProofs!Call, Job!Iterate,
           JobProofs!Iterate, Job!LimitReached, JobProofs!LimitReached, Job!Room,
           JobProofs!Room, Job!Least, JobProofs!Least, Job!Most, JobProofs!Most,
           Job!Paused, JobProofs!Paused, Job!Completed, JobProofs!Completed,
           Job!Heads, JobProofs!Heads, Job!Open, JobProofs!Open, Job!Incomplete,
           JobProofs!Incomplete
  <1>9. Job!PostPage <=> JobProofs!PostPage
    BY DEF Job!PostPage, JobProofs!PostPage, Job!Posted, JobProofs!Posted,
           Job!Answers, JobProofs!Answers, Job!Store, JobProofs!Store, Job!Page,
           JobProofs!Page, Job!Fresh, JobProofs!Fresh, Job!Moved, JobProofs!Moved,
           Job!AtEnd, JobProofs!AtEnd, Job!Accepts, JobProofs!Accepts,
           Job!Cardinality, JobProofs!Cardinality, Job!Completed,
           JobProofs!Completed, Job!Heads, JobProofs!Heads, Job!Open,
           JobProofs!Open, Job!Incomplete, JobProofs!Incomplete, Job!sliceVars,
           JobProofs!sliceVars
  <1>10. Job!Arrives <=> JobProofs!Arrives
    BY DEF Job!Arrives, JobProofs!Arrives, Job!sliceVars, JobProofs!sliceVars
  <1>11. Job!StartWorkers <=> JobProofs!StartWorkers
    BY DEF Job!StartWorkers, JobProofs!StartWorkers, Job!Incomplete,
           JobProofs!Incomplete, Job!sliceVars, JobProofs!sliceVars
  <1>12. Job!Crashes <=> JobProofs!Crashes
    BY DEF Job!Crashes, JobProofs!Crashes, Job!Crash, JobProofs!Crash,
           Job!CrashAfterEnqueue, JobProofs!CrashAfterEnqueue, Job!CrashAfterStore,
           JobProofs!CrashAfterStore, Job!StoredOnly, JobProofs!StoredOnly,
           Job!Restart, JobProofs!Restart, Job!Enqueued, JobProofs!Enqueued,
           Job!Answers, JobProofs!Answers, Job!Store, JobProofs!Store, Job!Page,
           JobProofs!Page, Job!Moved, JobProofs!Moved, Job!AtEnd, JobProofs!AtEnd,
           Job!NoCall, JobProofs!NoCall, Job!Cardinality, JobProofs!Cardinality
  <1>13. QED
    BY <1>1, <1>2, <1>3, <1>4, <1>5, <1>6, <1>7, <1>8, <1>9, <1>10, <1>11, <1>12
    DEF Job!Next, JobProofs!Next, Job!Slice, JobProofs!Slice

\* What the proofs about the job keep, in the composition.
JobInv == JobProofs!Inv

LEMMA JobInitInv == Job!Init => JobInv
  BY JobParameters, SameInit, JobProofs!InitInv DEF JobInv

LEMMA JobNextInv == JobInv /\ [Job!Next]_(Job!vars) => JobInv'
  <1> SUFFICES ASSUME JobInv, [Job!Next]_(Job!vars) PROVE JobInv'
    OBVIOUS
  <1>1. [JobProofs!Next]_(JobProofs!vars)
    BY SameNext DEF Job!vars, JobProofs!vars, Job!sliceVars, JobProofs!sliceVars
  <1>2. QED
    BY <1>1, JobParameters, JobProofs!NextInv DEF JobInv

-----------------------------------------------------------------------------
(* A page *)

\* What a slice or a client asks for is a place in an archive.
LEMMA AskedPlace ==
  ASSUME JobInv
  PROVE  /\ slicePc = "page" => snap.conv \in Conversation /\ snap.cursor \in Nat
         /\ work # None => work.conv \in Conversation /\ work.cursor \in Nat
  BY DEF JobInv, JobProofs!Inv, JobProofs!SliceTypes, JobProofs!PageInv, JobProofs!Calls,
         JobProofs!OtherTypes, JobProofs!Items

LEMMA AnsweredPage ==
  ASSUME NEW c \in Conversation, NEW first \in Nat, NEW want,
         NEW n \in Job!Answers(c, first, want)
  PROVE  /\ n \in Nat
         /\ Job!Page(first, n) \subseteq 1..Len(ArchiveOf[c])
         /\ {ArchiveOf[c][i] : i \in Job!Page(first, n)} \in About(Event, c)
  <1>1. ArchiveOf[c] \in Seq(Event) /\ Lengths[c] = Len(ArchiveOf[c])
    BY IngestionAssumption DEF Lengths
  <1>2. n \in Nat
    BY DEF Job!Answers
  <1>3. Job!Page(first, n) \subseteq 1..Len(ArchiveOf[c])
    BY <1>1, <1>2 DEF Job!Answers, Job!Page
  <1>4. ASSUME NEW i \in 1..Len(ArchiveOf[c])
        PROVE  /\ ArchiveOf[c][i] \in Event
               /\ Canonical[ConversationOf[ArchiveOf[c][i]]] = Canonical[c]
    <2>1. ArchiveOf[c][i] \in Event
      BY <1>1
    <2>2. Canonical[ConversationOf[ArchiveOf[c][i]]] = Canonical[c]
      BY IngestionAssumption
    <2>3. QED
      BY <2>1, <2>2
  <1>5. QED
    BY <1>2, <1>3, <1>4 DEF About

LEMMA IngestsIsNext ==
  ASSUME NEW c \in Conversation, NEW first \in Nat, NEW want,
         NEW n \in Job!Answers(c, first, want),
         NEW ks \in KeyLists, NEW identity \in BOOLEAN,
         Ingests(c, first, n, ks, identity)
  PROVE  Next
  BY AnsweredPage DEF Ingests, Next, Writers, Deliveries

\* Whoever brings a page of events, exactly its places of the archive are filled:
\* what XChatBackfill takes for the effect of a page on the rows is the effect of
\* ingestBackfill on xchat_events.
THEOREM PageFillsItsPlaces ==
  ASSUME NEW c \in Conversation, NEW first \in Nat, NEW want,
         NEW n \in Job!Answers(c, first, want),
         NEW ks \in KeyLists, NEW identity \in BOOLEAN,
         Inv, Ingests(c, first, n, ks, identity)
  PROVE  Job!Store(c, first, n)
  <1> DEFINE E == {ArchiveOf[c][i] : i \in Job!Page(first, n)}
             R == NewRows(E) \cup IF identity THEN Failed ELSE Unlocked(ks)
  <1>1. Pend(R)
    BY DEF Ingests, IngestBackfill
  <1>2. E \subseteq Event /\ Job!Page(first, n) \subseteq 1..Len(ArchiveOf[c])
    BY AnsweredPage DEF About
  <1>3. ASSUME NEW e \in Event
        PROVE  status'[e] # "absent" <=> status[e] # "absent" \/ e \in E
    BY <1>1, <1>2, <1>3 DEF Pend, NewRows, Failed, Unlocked
  <1>4. \A d \in Conversation : \A i \in 1..Len(ArchiveOf[d]) :
          ArchiveOf[d][i] \in Event
    BY IngestionAssumption
  <1>5. ASSUME NEW d \in Conversation, NEW i \in 1..Len(ArchiveOf[d])
        PROVE  ArchiveOf[d][i] \in E <=> d = c /\ i \in Job!Page(first, n)
    BY <1>2, IngestionAssumption
  <1> HIDE DEF E
  <1>6. \A d \in Conversation :
          Archived'[d] = IF d = c THEN Archived[d] \cup Job!Page(first, n) ELSE Archived[d]
    <2> TAKE d \in Conversation
    <2>1. Archived'[d] = {i \in 1..Len(ArchiveOf[d]) :
                            status[ArchiveOf[d][i]] # "absent" \/ ArchiveOf[d][i] \in E}
      BY <1>3, <1>4 DEF Archived
    <2>2. QED
      BY <2>1, <1>2, <1>5 DEF Archived
  <1>7. Archived' = [Archived EXCEPT ![c] = @ \cup Job!Page(first, n)]
    BY <1>6 DEF Archived
  <1>8. QED
    BY <1>7 DEF Job!Store

-----------------------------------------------------------------------------
(* Steps of the composition *)

\* No row is removed.
LEMMA RowsRemain ==
  ASSUME Inv, [Next]_vars, NEW e \in Event, status[e] # "absent"
  PROVE  status'[e] # "absent"
  <1>1. CASE RowsStand
    BY <1>1 DEF RowsStand, rowVars
  <1>2. CASE RowsSettle
    BY <1>2 DEF RowsSettle, Settle
  <1>3. CASE RowsPend
    BY <1>3 DEF RowsPend, Pend
  <1>4. CASE RowsGiveUp
    BY <1>4 DEF RowsGiveUp, GiveUp
  <1>5. QED
    BY <1>1, <1>2, <1>3, <1>4, NextRowStep DEF RowStep

\* To the job, the table on its own brings some events of the archives.
LEMMA TableArrives ==
  ASSUME Inv, [Next]_vars, UNCHANGED jobVars
  PROVE  Job!Arrives
  <1> DEFINE Spots == UNION {{c} \X (1..Lengths[c]) : c \in Conversation}
             N == {s \in Spots : status'[ArchiveOf[s[1]][s[2]]] # "absent"}
  <1>1. \A c \in Conversation : Lengths[c] = Len(ArchiveOf[c])
    BY DEF Lengths
  <1>2. \A c \in Conversation : \A i \in 1..Len(ArchiveOf[c]) : ArchiveOf[c][i] \in Event
    BY IngestionAssumption
  <1>3. ASSUME NEW c \in Conversation, NEW i \in 1..Lengths[c]
        PROVE  <<c, i>> \in N <=> status'[ArchiveOf[c][i]] # "absent"
    OBVIOUS
  <1>4. ASSUME NEW c \in Conversation
        PROVE  Archived'[c] = Archived[c] \cup {i \in 1..Lengths[c] : <<c, i>> \in N}
    BY <1>1, <1>2, <1>3, RowsRemain DEF Archived
  <1> HIDE DEF N
  <1>5. Archived' = [c \in Conversation |->
                       Archived[c] \cup {i \in 1..Lengths[c] : <<c, i>> \in N}]
    BY <1>4 DEF Archived
  <1>6. N \in SUBSET Spots
    BY DEF N
  <1>7. QED
    BY <1>5, <1>6 DEF Job!Arrives, Job!sliceVars, jobVars

LEMMA StepOfTable ==
  ASSUME JobInv, [IngestionNext]_ingestionVars
  PROVE  [Next]_vars
  <1>1. CASE PageArrives
    <2>1. PICK n \in Job!Answers(snap.conv, snap.cursor, snap.want) :
            Ingests(snap.conv, snap.cursor, n, {}, FALSE)
      BY <1>1 DEF PageArrives
    <2>2. QED
      BY <1>1, <2>1, AskedPlace, IngestsIsNext, NoKeys DEF PageArrives
  <1>2. CASE PagePosted
    <2>1. PICK n \in Job!Answers(work.conv, work.cursor, work.want),
               ks \in KeyLists, identity \in BOOLEAN :
            Ingests(work.conv, work.cursor, n, ks, identity)
      BY <1>2 DEF PagePosted
    <2>2. QED
      BY <1>2, <2>1, AskedPlace, IngestsIsNext DEF PagePosted
  <1>3. CASE TableAlone
    BY <1>3 DEF TableAlone, Next
  <1>4. CASE JobAlone
    BY <1>4 DEF JobAlone
  <1>5. CASE Dies
    <2>1. CASE UNCHANGED vars
      BY <2>1
    <2>2. CASE /\ slicePc = "page"
               /\ \E n \in Job!Answers(snap.conv, snap.cursor, snap.want) :
                    Ingests(snap.conv, snap.cursor, n, {}, FALSE)
      <3>1. PICK n \in Job!Answers(snap.conv, snap.cursor, snap.want) :
              Ingests(snap.conv, snap.cursor, n, {}, FALSE)
        BY <2>2
      <3>2. QED
        BY <2>2, <3>1, AskedPlace, IngestsIsNext, NoKeys
    <2>3. QED
      BY <1>5, <2>1, <2>2 DEF Dies
  <1>6. CASE Revives
    BY <1>6 DEF Revives, Next
  <1>7. CASE UNCHANGED ingestionVars
    BY <1>7 DEF ingestionVars
  <1>8. QED
    BY <1>1, <1>2, <1>3, <1>4, <1>5, <1>6, <1>7 DEF IngestionNext

LEMMA StepOfJob ==
  ASSUME Inv, JobInv, [IngestionNext]_ingestionVars
  PROVE  [Job!Next]_(Job!vars)
  <1>1. CASE PageArrives
    BY <1>1 DEF PageArrives, Job!Next, Job!Slice, Job!PageReturns
  <1>2. CASE PagePosted
    BY <1>2 DEF PagePosted, Job!Next, Job!PostPage
  <1>3. CASE TableAlone
    BY <1>3, StepOfTable, TableArrives DEF TableAlone, Job!Next
  <1>4. CASE JobAlone
    BY <1>4 DEF JobAlone, Job!Next, Job!Slice
  <1>5. CASE Dies
    BY <1>5 DEF Dies, Job!Next, Job!Crashes, Job!CrashAfterStore
  <1>6. CASE Revives
    BY <1>6, StepOfTable, TableArrives DEF Revives, Job!Next
  <1>7. CASE UNCHANGED ingestionVars
    <2>1. UNCHANGED vars /\ UNCHANGED jobVars
      BY <1>7 DEF ingestionVars
    <2>2. QED
      BY <2>1, TableArrives DEF Job!Next
  <1>8. QED
    BY <1>1, <1>2, <1>3, <1>4, <1>5, <1>6, <1>7 DEF IngestionNext

LEMMA BothAlways == IngestionSpec => [](Inv /\ JobInv)
  <1>1. IngestionInit => Inv /\ JobInv
    BY InitInv, JobInitInv DEF IngestionInit
  <1>2. Inv /\ JobInv /\ [IngestionNext]_ingestionVars => Inv' /\ JobInv'
    BY StepOfTable, StepOfJob, NextInv, JobNextInv
  <1>3. QED
    BY <1>1, <1>2, PTL DEF IngestionSpec

\* Around the backfill job, the table still does only what XChatEvents allows.
THEOREM IngestionImplementsEvents == IngestionSpec => Spec
  <1>1. IngestionInit => Init
    BY DEF IngestionInit
  <1>2. JobInv /\ [IngestionNext]_ingestionVars => [Next]_vars
    BY StepOfTable
  <1>3. QED
    BY <1>1, <1>2, BothAlways, PTL DEF IngestionSpec, Spec

\* Over the event table, with "stored" the places whose events have a row, the
\* job still does only what XChatBackfill allows.
THEOREM IngestionImplementsJob == IngestionSpec => Job!Spec
  <1>1. IngestionInit => Job!Init
    BY DEF IngestionInit
  <1>2. Inv /\ JobInv /\ [IngestionNext]_ingestionVars => [Job!Next]_(Job!vars)
    BY StepOfJob
  <1>3. QED
    BY <1>1, <1>2, BothAlways, PTL DEF IngestionSpec, Job!Spec

-----------------------------------------------------------------------------
(* What was read is accounted for *)

LEMMA JobTheorems == Job!Spec => [](Job!CheckpointBehindIngestion /\ Job!CompletedMeansRead)
  <1>1. Job!Init <=> JobProofs!Init
    BY SameInit
  <1>2. [Job!Next]_(Job!vars) <=> [JobProofs!Next]_(JobProofs!vars)
    BY SameNext DEF Job!vars, JobProofs!vars, Job!sliceVars, JobProofs!sliceVars
  <1>3. Job!CheckpointBehindIngestion <=> JobProofs!CheckpointBehindIngestion
    BY DEF Job!CheckpointBehindIngestion, JobProofs!CheckpointBehindIngestion
  <1>4. Job!CompletedMeansRead <=> JobProofs!CompletedMeansRead
    BY SameListing DEF Job!CompletedMeansRead, JobProofs!CompletedMeansRead
  <1>5. JobProofs!BackfillAssumption
    BY JobParameters
  <1>6. QED
    BY <1>1, <1>2, <1>3, <1>4, <1>5, JobProofs!CheckpointStaysBehind,
       JobProofs!CompletedHasRead, PTL DEF Job!Spec, JobProofs!Spec

LEMMA KnownIsAccounted ==
  ASSUME Inv, Fresh, GivenUpIsUnreadable, NEW e \in Event, status[e] # "absent"
  PROVE  Accounted(e)
  <1>1. status[e] \in {"pending", "failed", "processed"} /\ attempts[e] \in 0..MaxAttempts
    BY DEF Inv, TableInv, RowsOK, Status
  <1>2. CASE status[e] = "processed"
    BY <1>2 DEF Accounted, Inv, TableInv, CommittedTogether, Carried, Processed
  <1>3. CASE status[e] \in {"pending", "failed"} /\ attempts[e] < MaxAttempts
    BY <1>3 DEF Accounted, Eligible
  <1>4. CASE status[e] = "failed" /\ attempts[e] = MaxAttempts
    BY <1>4 DEF Accounted, GivenUp, GivenUpIsUnreadable
  <1>5. CASE status[e] = "pending" /\ attempts[e] = MaxAttempts
    BY <1>5, EventsAssumption DEF Fresh
  <1>6. QED
    BY <1>1, <1>2, <1>3, <1>4, <1>5, EventsAssumption

\* Where calls fail only for want of keys, no event that a job says it has read
\* is lost on its way to the reader, whatever crash, client, webhook or change of
\* keys comes between the page, its checkpoint and the drain.
THEOREM ReadStaysAccounted == Calm => (IngestionSpec => []ReadIsAccounted)
  <1> SUFFICES ASSUME Calm PROVE IngestionSpec => []ReadIsAccounted
    OBVIOUS
  <1>1. Spec => [](Fresh /\ GivenUpIsUnreadable)
    BY ReadAlways, PTL DEF ReadInv
  <1>2. Inv /\ JobInv /\ Fresh /\ GivenUpIsUnreadable /\
        Job!CheckpointBehindIngestion /\ Job!CompletedMeansRead => ReadIsAccounted
    <2> SUFFICES ASSUME Inv, JobInv, Fresh, GivenUpIsUnreadable,
                        Job!CheckpointBehindIngestion, Job!CompletedMeansRead,
                        NEW c \in Conversation, NEW i \in 1..Len(ArchiveOf[c]),
                        i <= queue[c].cursor \/ (job.status = "completed" /\ c \in Job!Listing)
                 PROVE  Accounted(ArchiveOf[c][i])
      BY DEF ReadIsAccounted
    <2>1. i \in Archived[c]
      <3>1. CASE i <= queue[c].cursor
        <4>1. queue[c].cursor \in Nat
          BY DEF JobInv, JobProofs!Inv, JobProofs!TableTypes, JobProofs!Entries
        <4>2. QED
          BY <3>1, <4>1 DEF Job!CheckpointBehindIngestion
      <3>2. CASE job.status = "completed" /\ c \in Job!Listing
        BY <3>2 DEF Job!CompletedMeansRead, Lengths
      <3>3. QED
        BY <3>1, <3>2
    <2>2. ArchiveOf[c][i] \in Event
      BY IngestionAssumption
    <2>3. QED
      BY <2>1, <2>2, KnownIsAccounted DEF Archived
  <1>3. QED
    BY <1>1, <1>2, BothAlways, IngestionImplementsEvents, IngestionImplementsJob,
       JobTheorems, PTL
=============================================================================
