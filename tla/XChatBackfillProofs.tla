------------------------ MODULE XChatBackfillProofs -------------------------
(***************************************************************************)
(* Proofs about XChatBackfill, for any number of conversations, archives,  *)
(* page sizes and limits: types are kept; a cursor never runs ahead of     *)
(* what is stored, whoever reads the pages and wherever a crash falls; a   *)
(* completed job has read its list; and slices alone keep the limits,      *)
(* charge an event once and go forward only.                               *)
(***************************************************************************)
EXTENDS XChatBackfill, FiniteSetTheorems, TLAPS

-----------------------------------------------------------------------------
(* Types *)

LEMMA RoomType ==
  ASSUME NEW j \in Jobs
  PROVE  /\ Room(j) \in Nat
         /\ j.seen < j.maxEvents => Room(j) <= j.maxEvents - j.seen
  BY BackfillAssumption DEF Room, Least, Most, Jobs

LEMMA PausedType ==
  ASSUME NEW j \in Jobs
  PROVE  /\ Paused(j) \in Jobs /\ Completed(j) \in Jobs
         /\ [j EXCEPT !.status = "running", !.error = "none"] \in Jobs
         /\ [j EXCEPT !.status = "pending", !.error = "rate"] \in Jobs
         /\ [j EXCEPT !.status = "failed", !.error = "error"] \in Jobs
  BY DEF Paused, Completed, Jobs

LEMMA CountersType ==
  ASSUME NEW j \in Jobs, NEW p \in Nat, NEW s \in Nat, NEW u \in Nat
  PROVE  /\ [j EXCEPT !.pages = p, !.seen = s, !.unique = u] \in Jobs
         /\ [j EXCEPT !.pages = p, !.seen = s, !.unique = u, !.error = "none"] \in Jobs
  BY DEF Jobs

LEMMA StageType ==
  ASSUME NEW j \in Jobs, NEW p \in Nat, NEW k \in Nat,
         NEW g \in {"conversations", "events", "complete"}
  PROVE  [j EXCEPT !.pages = p, !.cursor = k, !.stage = g] \in Jobs
  BY DEF Jobs

LEMMA MovedType ==
  ASSUME NEW q \in [Conversation -> Entries], NEW c \in Conversation,
         NEW n \in Nat
  PROVE  /\ Moved(q, c, n) \in [Conversation -> Entries]
         /\ Moved(q, c, n)[c].cursor = n
         /\ Moved(q, c, n)[c].status = "completed" => n = Archive[c]
         /\ \A d \in Conversation \ {c} : Moved(q, c, n)[d] = q[d]
  <1> DEFINE s == IF AtEnd(c, n) THEN "completed" ELSE "running"
             m == [q[c] EXCEPT !.cursor = n, !.status = s]
  <1>1. q[c] \in Entries
    OBVIOUS
  <1>2. m \in Entries /\ m.cursor = n /\ m.status = s
    BY <1>1 DEF Entries
  <1>3. Moved(q, c, n) = [q EXCEPT ![c] = m]
    BY DEF Moved
  <1>4. Moved(q, c, n)[c] = m
    BY <1>3
  <1>5. QED
    BY <1>2, <1>3, <1>4 DEF AtEnd

LEMMA FreshType ==
  ASSUME NEW c, NEW first \in Nat, NEW n \in Nat
  PROVE  Fresh(c, first, n) \in Nat
  <1>1. IsFiniteSet((first + 1)..(first + n))
    BY FS_Interval
  <1>2. IsFiniteSet(Page(first, n) \ stored[c])
    BY <1>1, FS_Subset DEF Page
  <1>3. QED
    BY <1>2, FS_CardinalityType DEF Fresh

LEMMA EnqueuedType ==
  ASSUME NEW q \in [Conversation -> Entries], NEW page \in Seq(Conversation)
  PROVE  Enqueued(q, page) \in [Conversation -> Entries]
  <1> DEFINE known == {c \in Conversation : q[c].status # "absent"}
             UpTo(c) == {page[k] : k \in {i \in 1..Len(page) :
                           \A j \in 1..(i - 1) : page[j] # c}}
  <1>1. ASSUME NEW c \in Conversation PROVE Cardinality(known \cup UpTo(c)) \in Nat
    <2>1. known \cup UpTo(c) \subseteq Conversation
      OBVIOUS
    <2>2. IsFiniteSet(known \cup UpTo(c))
      BY <2>1, FS_Subset, BackfillAssumption
    <2>3. QED
      BY <2>2, FS_CardinalityType
  <1>2. QED
    BY <1>1 DEF Enqueued, Entries

-----------------------------------------------------------------------------
(* The loop of a slice, whichever way it goes *)

\* What a slice may leave behind after its synchronous part: it is over, or a
\* call is in flight that was made from the job row j and the queue q.
SliceOff ==
  /\ job' \in Jobs
  /\ pc' = "off" /\ left' = 0 /\ snap' = NoCall /\ awaited' = FALSE

SliceCalls(j, q) ==
  /\ job' = j /\ left' \in 1..SliceLength
  /\ j.seen < j.maxEvents /\ j.pages < j.maxPages
  /\ \/ pc' = "list" /\ j.stage = "conversations"
     \/ pc' = "page" /\ j.stage = "events"
  /\ IF pc' = "page" THEN snap'.conv \in Open(q) /\ snap'.cursor = q[snap'.conv].cursor
     ELSE snap'.conv = None /\ snap'.cursor = j.cursor
  /\ snap' \in Calls
  /\ snap'.want = Room(j)
  /\ snap'.pages = j.pages /\ snap'.seen = j.seen /\ snap'.unique = j.unique

LEMMA EndSliceShape ==
  ASSUME NEW j \in Jobs, NEW timer \in {"no", "soon", "later"},
         NEW waits \in BOOLEAN, EndSlice(j, timer, waits)
  PROVE  SliceOff /\ job' = j /\ scheduled' \in {"no", "soon", "later"}
  BY DEF EndSlice, SliceOff

LEMMA IterateShape ==
  ASSUME NEW j \in Jobs, NEW q \in [Conversation -> Entries],
         NEW n \in 0..SliceLength, NEW timer \in {"no", "soon", "later"},
         NEW waits \in BOOLEAN, Iterate(j, q, n, timer, waits)
  PROVE  /\ scheduled' \in {"no", "soon", "later"} /\ awaited' \in BOOLEAN
         /\ \/ SliceOff /\ job' \in {j, Paused(j), Completed(j)}
            \/ SliceCalls(j, q)
  <1>1. CASE n = 0 /\ EndSlice(j, timer, waits)
    BY <1>1, EndSliceShape DEF SliceOff
  <1>2. CASE EndSlice(Paused(j), timer, waits)
    BY <1>2, EndSliceShape, PausedType DEF SliceOff
  <1>3. CASE EndSlice(Completed(j), timer, waits)
    BY <1>3, EndSliceShape, PausedType DEF SliceOff
  <1>4. CASE /\ n > 0 /\ ~LimitReached(j) /\ j.stage = "conversations"
             /\ Call("list", None, j, q, n, timer, waits)
    BY <1>4, RoomType DEF Call, SliceCalls, LimitReached, Jobs, Calls
  <1>5. CASE /\ n > 0 /\ ~LimitReached(j) /\ j.stage = "events"
             /\ \E c \in Heads(q) : Call("page", c, j, q, n, timer, waits)
    <2>1. PICK c \in Heads(q) : Call("page", c, j, q, n, timer, waits)
      BY <1>5
    <2>2. c \in Open(q) /\ c \in Conversation /\ c # None
      BY BackfillAssumption DEF Heads, Open
    <2>3. QED
      BY <1>5, <2>1, <2>2, RoomType
      DEF Call, SliceCalls, LimitReached, Jobs, Calls, Entries
  <1>6. QED
    BY <1>1, <1>2, <1>3, <1>4, <1>5 DEF Iterate

-----------------------------------------------------------------------------
(* The inductive invariant *)

SliceTypes ==
  /\ job \in Jobs
  /\ pc \in {"off", "list", "page"}
  /\ left \in 0..SliceLength
  /\ pc # "off" => left > 0
  /\ snap \in Calls
  /\ scheduled \in {"no", "soon", "later"}
  /\ awaited \in BOOLEAN

TableTypes ==
  /\ queue \in [Conversation -> Entries]
  /\ stored \in [Conversation -> SUBSET Nat]
  /\ \A c \in Conversation : stored[c] \subseteq 1..Archive[c]

OtherTypes == resumed \in BOOLEAN /\ work \in Items \cup {None}

\* The conversation list is never read past its last page.
ListInv ==
  /\ job.stage = "conversations" => job.cursor < Len(ListPages)
  /\ pc = "list" => snap.cursor < Len(ListPages)

\* What is in flight, in a slice or at a client, follows what is stored.
PageInv ==
  pc = "page" => /\ snap.conv \in Conversation
                 /\ 1..snap.cursor \subseteq stored[snap.conv]

WorkInv == work # None => 1..work.cursor \subseteq stored[work.conv]

Inv == /\ SliceTypes /\ TableTypes /\ OtherTypes
       /\ CheckpointBehindIngestion
       /\ ListInv /\ PageInv /\ WorkInv

LEMMA NoCallType == NoCall \in Calls
  BY DEF NoCall, Calls

LEMMA SliceOffInv ==
  ASSUME SliceOff, scheduled' \in {"no", "soon", "later"},
         job'.stage = "conversations" => job'.cursor < Len(ListPages)
  PROVE  SliceTypes' /\ ListInv' /\ PageInv'
  <1>1. left' \in 0..SliceLength
    BY BackfillAssumption DEF SliceOff
  <1>2. snap' \in Calls
    BY NoCallType DEF SliceOff
  <1>3. QED
    BY <1>1, <1>2 DEF SliceOff, SliceTypes, ListInv, PageInv

LEMMA IterateInv ==
  ASSUME NEW j \in Jobs, NEW q \in [Conversation -> Entries],
         NEW n \in 0..SliceLength, NEW timer \in {"no", "soon", "later"},
         NEW waits \in BOOLEAN, Iterate(j, q, n, timer, waits),
         j.stage = "conversations" => j.cursor < Len(ListPages),
         \A c \in Conversation : 1..q[c].cursor \subseteq stored'[c]
  PROVE  SliceTypes' /\ ListInv' /\ PageInv'
  <1>1. CASE SliceOff /\ job' \in {j, Paused(j), Completed(j)}
    <2>1. job'.stage = "conversations" => job'.cursor < Len(ListPages)
      BY <1>1 DEF Paused, Completed, Jobs
    <2>2. QED
      BY <1>1, <2>1, IterateShape, SliceOffInv
  <1>2. CASE SliceCalls(j, q)
    <2>1. SliceTypes'
      BY <1>2, IterateShape DEF SliceCalls, SliceTypes
    <2>2. ListInv'
      BY <1>2 DEF SliceCalls, ListInv
    <2>3. PageInv'
      BY <1>2 DEF SliceCalls, PageInv, Open
    <2>4. QED
      BY <2>1, <2>2, <2>3
  <1>3. QED
    BY <1>1, <1>2, IterateShape

\* A page that was read at a stored cursor leaves its end stored.
LEMMA StoreInv ==
  ASSUME TableTypes, NEW c \in Conversation, NEW first \in Nat,
         1..first \subseteq stored[c], NEW want \in Nat,
         NEW n \in Answers(c, first, want), Store(c, first, n)
  PROVE  /\ n \in Nat /\ first + n <= Archive[c]
         /\ stored' \in [Conversation -> SUBSET Nat]
         /\ \A d \in Conversation : /\ stored[d] \subseteq stored'[d]
                                    /\ stored'[d] \subseteq 1..Archive[d]
         /\ 1..(first + n) \subseteq stored'[c]
  <1>1. n \in Nat /\ first + n <= Archive[c] /\ Archive[c] \in Nat
    BY BackfillAssumption DEF Answers
  <1>2. Page(first, n) \subseteq 1..Archive[c] /\ Page(first, n) \subseteq Nat
    BY <1>1 DEF Page
  <1>3. stored' = [stored EXCEPT ![c] = stored[c] \cup Page(first, n)]
    BY DEF Store
  <1>4. 1..(first + n) \subseteq stored[c] \cup Page(first, n)
    BY <1>1 DEF Page
  <1>5. QED
    BY <1>1, <1>2, <1>3, <1>4 DEF TableTypes

\* Storing the page and then moving the cursor keeps the cursor behind.
LEMMA MoveInv ==
  ASSUME TableTypes, CheckpointBehindIngestion,
         NEW c \in Conversation, NEW first \in Nat,
         1..first \subseteq stored[c], NEW want \in Nat,
         NEW n \in Answers(c, first, want), Store(c, first, n),
         queue' \in {queue, Moved(queue, c, first + n)}
  PROVE  TableTypes' /\ CheckpointBehindIngestion'
  <1>1. /\ n \in Nat /\ first + n <= Archive[c]
        /\ stored' \in [Conversation -> SUBSET Nat]
        /\ \A d \in Conversation : /\ stored[d] \subseteq stored'[d]
                                   /\ stored'[d] \subseteq 1..Archive[d]
        /\ 1..(first + n) \subseteq stored'[c]
    BY StoreInv
  <1>2. queue \in [Conversation -> Entries]
    BY DEF TableTypes
  <1>3. Moved(queue, c, first + n) \in [Conversation -> Entries]
    BY <1>1, <1>2, MovedType
  <1>4. TableTypes'
    BY <1>1, <1>2, <1>3 DEF TableTypes
  <1>5. ASSUME NEW d \in Conversation
        PROVE  /\ 1..queue'[d].cursor \subseteq stored'[d]
               /\ queue'[d].status = "completed" => stored'[d] = 1..Archive[d]
    <2>1. CASE queue' = queue \/ d # c
      <3>1. queue'[d] = queue[d]
        BY <1>1, <1>2, <2>1, MovedType
      <3>2. QED
        BY <1>1, <3>1 DEF CheckpointBehindIngestion
    <2>2. CASE queue' = Moved(queue, c, first + n) /\ d = c
      <3>1. /\ queue'[d].cursor = first + n
            /\ queue'[d].status = "completed" => first + n = Archive[c]
        BY <1>1, <1>2, <2>2, MovedType
      <3>2. QED
        BY <1>1, <2>2, <3>1
    <2>3. QED
      BY <2>1, <2>2
  <1>6. QED
    BY <1>4, <1>5 DEF CheckpointBehindIngestion

-----------------------------------------------------------------------------
(* One lemma per action *)

LEMMA RunJobInv ==
  ASSUME Inv, NEW timer \in {"no", "soon", "later"}, NEW waits \in BOOLEAN,
         RunJob(timer, waits), UNCHANGED <<queue, stored>>
  PROVE  SliceTypes' /\ ListInv' /\ PageInv'
  <1> DEFINE started == [job EXCEPT !.status = "running", !.error = "none"]
  <1>1. job \in Jobs /\ started \in Jobs /\ queue \in [Conversation -> Entries]
    BY PausedType DEF Inv, SliceTypes, TableTypes
  <1>2. SliceLength \in 0..SliceLength
    BY BackfillAssumption
  <1>3. CASE /\ pc # "off" /\ awaited' = (awaited \/ waits) /\ scheduled' = timer
             /\ UNCHANGED <<job, pc, left, snap>>
    BY <1>3 DEF Inv, SliceTypes, ListInv, PageInv
  <1>4. CASE EndSlice(job, timer, waits)
    BY <1>1, <1>4, EndSliceShape, SliceOffInv DEF Inv, ListInv
  <1>5. CASE EndSlice(Paused(job), timer, waits)
    <2>1. Paused(job) \in Jobs /\ Paused(job).stage = job.stage
          /\ Paused(job).cursor = job.cursor
      BY <1>1, PausedType DEF Paused, Jobs
    <2>2. QED
      BY <1>5, <2>1, EndSliceShape, SliceOffInv DEF Inv, ListInv
  <1>6. CASE Iterate(started, queue, SliceLength, timer, waits)
    <2>1. started.stage = job.stage /\ started.cursor = job.cursor
      BY <1>1 DEF Jobs
    <2>2. \A c \in Conversation : 1..queue[c].cursor \subseteq stored'[c]
      BY DEF Inv, CheckpointBehindIngestion
    <2>3. QED
      BY <1>1, <1>2, <1>6, <2>1, <2>2, IterateInv DEF Inv, ListInv
  <1>7. QED
    BY <1>3, <1>4, <1>5, <1>6 DEF RunJob

\* Nothing but the slice changed.
LEMMA RestKept ==
  ASSUME Inv, UNCHANGED <<queue, stored, work>>, resumed' \in BOOLEAN
  PROVE  TableTypes' /\ OtherTypes' /\ CheckpointBehindIngestion' /\ WorkInv'
  BY DEF Inv, TableTypes, OtherTypes, CheckpointBehindIngestion, WorkInv

LEMMA TimerInv == Inv /\ (TimerFires \/ RunNow) => Inv'
  <1> SUFFICES ASSUME Inv, TimerFires \/ RunNow PROVE Inv'
    OBVIOUS
  <1>1. UNCHANGED <<queue, stored, work>> /\ resumed' \in BOOLEAN
    BY DEF TimerFires, RunNow, Inv, OtherTypes
  <1>2. SliceTypes' /\ ListInv' /\ PageInv'
    BY <1>1, RunJobInv DEF TimerFires, RunNow, Inv, SliceTypes
  <1>3. QED
    BY <1>1, <1>2, RestKept DEF Inv

LEMMA ListedType ==
  ASSUME job \in Jobs, snap.pages \in Nat, NEW n \in Nat, n <= Len(ListPages)
  PROVE  /\ Listed(n) \in Jobs
         /\ Listed(n).stage = "conversations" => Listed(n).cursor < Len(ListPages)
  <1> DEFINE p == snap.pages + 1
             end == n >= Len(ListPages)
             k == IF end THEN 0 ELSE n
             g == IF end THEN "events" ELSE "conversations"
  <1>1. Len(ListPages) \in Nat /\ p \in Nat
    BY BackfillAssumption
  <1>2. k \in Nat /\ g \in {"conversations", "events", "complete"}
    OBVIOUS
  <1>3. g = "conversations" => k < Len(ListPages)
    BY <1>1
  <1>4. Listed(n) = [job EXCEPT !.pages = p, !.cursor = k, !.stage = g]
    BY DEF Listed
  <1> HIDE DEF p, k, g
  <1>5. [job EXCEPT !.pages = p, !.cursor = k, !.stage = g] \in Jobs
    BY <1>1, <1>2, StageType
  <1>6. Listed(n).cursor = k /\ Listed(n).stage = g
    BY <1>4 DEF Jobs
  <1>7. QED
    BY <1>3, <1>4, <1>5, <1>6

\* A page of the list that is enqueued adds conversations without a cursor.
LEMMA EnqueueInv ==
  ASSUME Inv, pc = "list", UNCHANGED <<stored, work>>, resumed' \in BOOLEAN,
         queue' = Enqueued(queue, ListPages[snap.cursor + 1])
  PROVE  TableTypes' /\ OtherTypes' /\ CheckpointBehindIngestion' /\ WorkInv'
  <1> DEFINE n == snap.cursor + 1
             q == Enqueued(queue, ListPages[n])
  <1>1. n \in Nat \ {0} /\ n <= Len(ListPages)
    BY BackfillAssumption DEF Inv, ListInv, SliceTypes, Calls
  <1>2. ListPages[n] \in Seq(Conversation)
    BY <1>1, BackfillAssumption
  <1>3. queue \in [Conversation -> Entries] /\ q \in [Conversation -> Entries]
    BY <1>2, EnqueuedType DEF Inv, TableTypes
  <1>4. ASSUME NEW c \in Conversation
        PROVE  q[c] = queue[c] \/ (q[c].cursor = 0 /\ q[c].status = "pending")
    BY DEF Enqueued
  <1>5. CheckpointBehindIngestion'
    BY <1>3, <1>4 DEF CheckpointBehindIngestion, Inv
  <1>6. QED
    BY <1>3, <1>5 DEF Inv, TableTypes, OtherTypes, WorkInv

LEMMA ListReturnsInv == Inv /\ ListReturns => Inv'
  <1> SUFFICES ASSUME Inv, ListReturns PROVE Inv'
    OBVIOUS
  <1> DEFINE n == snap.cursor + 1
  <1>1. n \in Nat /\ n <= Len(ListPages) /\ snap.pages \in Nat
    BY BackfillAssumption DEF ListReturns, Inv, ListInv, SliceTypes, Calls
  <1>2. TableTypes' /\ OtherTypes' /\ CheckpointBehindIngestion' /\ WorkInv'
    BY EnqueueInv DEF ListReturns, Inv, OtherTypes
  <1>3. Listed(n) \in Jobs
        /\ (Listed(n).stage = "conversations" => Listed(n).cursor < Len(ListPages))
    BY <1>1, ListedType DEF Inv, SliceTypes
  <1>4. left - 1 \in 0..SliceLength
    BY BackfillAssumption DEF Inv, SliceTypes, ListReturns
  <1>5. Iterate(Listed(n), queue', left - 1, scheduled, awaited)
    BY DEF ListReturns
  <1>6. SliceTypes' /\ ListInv' /\ PageInv'
    BY <1>2, <1>3, <1>4, <1>5, IterateInv
    DEF Inv, SliceTypes, TableTypes, CheckpointBehindIngestion
  <1>7. QED
    BY <1>2, <1>6 DEF Inv

LEMMA CountedType ==
  ASSUME Inv, pc = "page", NEW n \in Nat
  PROVE  /\ Counted(n) \in Jobs
         /\ Counted(n).stage = job.stage /\ Counted(n).cursor = job.cursor
  <1> DEFINE p == snap.pages + 1
             s == snap.seen + n
             u == snap.unique + Fresh(snap.conv, snap.cursor, n)
  <1>1. job \in Jobs /\ snap \in Calls
    BY DEF Inv, SliceTypes
  <1>2. Fresh(snap.conv, snap.cursor, n) \in Nat
    BY <1>1, FreshType DEF Calls
  <1>3. p \in Nat /\ s \in Nat /\ u \in Nat
    BY <1>1, <1>2 DEF Calls
  <1>4. Counted(n) = [job EXCEPT !.pages = p, !.seen = s, !.unique = u]
    BY DEF Counted
  <1> HIDE DEF p, s, u
  <1>5. [job EXCEPT !.pages = p, !.seen = s, !.unique = u] \in Jobs
    BY <1>1, <1>3, CountersType
  <1>6. QED
    BY <1>1, <1>4, <1>5 DEF Jobs

\* What a page does to the tables, whether a slice or a client read it.
LEMMA PageTables ==
  ASSUME Inv, NEW c \in Conversation, NEW first \in Nat,
         1..first \subseteq stored[c], NEW want \in Nat,
         NEW n \in Answers(c, first, want), Store(c, first, n),
         queue' \in {queue, Moved(queue, c, first + n)}
  PROVE  /\ TableTypes' /\ CheckpointBehindIngestion'
         /\ \A d \in Conversation : stored[d] \subseteq stored'[d]
         /\ n \in Nat
  BY MoveInv, StoreInv DEF Inv

LEMMA WorkGrows ==
  ASSUME Inv, UNCHANGED work,
         \A d \in Conversation : stored[d] \subseteq stored'[d]
  PROVE  WorkInv'
  BY BackfillAssumption DEF Inv, WorkInv, OtherTypes, Items

LEMMA SnapPage ==
  ASSUME Inv, pc = "page"
  PROVE  /\ snap.conv \in Conversation /\ snap.cursor \in Nat /\ snap.want \in Nat
         /\ 1..snap.cursor \subseteq stored[snap.conv]
  BY DEF Inv, SliceTypes, PageInv, Calls

LEMMA PageReturnsInv == Inv /\ PageReturns => Inv'
  <1> SUFFICES ASSUME Inv, PageReturns PROVE Inv'
    OBVIOUS
  <1>1. PICK n \in Answers(snap.conv, snap.cursor, snap.want) :
          /\ Store(snap.conv, snap.cursor, n)
          /\ queue' = Moved(queue, snap.conv, snap.cursor + n)
          /\ Iterate(Counted(n), queue', left - 1, scheduled, awaited)
    BY DEF PageReturns, PageOf
  <1>2. pc = "page" /\ UNCHANGED <<resumed, work>>
    BY DEF PageReturns, PageOf
  <1>3. /\ TableTypes' /\ CheckpointBehindIngestion'
        /\ \A d \in Conversation : stored[d] \subseteq stored'[d]
        /\ n \in Nat
    BY <1>1, <1>2, SnapPage, PageTables
  <1>4. OtherTypes' /\ WorkInv'
    BY <1>2, <1>3, WorkGrows DEF Inv, OtherTypes
  <1>5. left - 1 \in 0..SliceLength
    BY <1>2, BackfillAssumption DEF Inv, SliceTypes
  <1>6. /\ Counted(n) \in Jobs
        /\ Counted(n).stage = "conversations" => Counted(n).cursor < Len(ListPages)
    BY <1>2, <1>3, CountedType DEF Inv, ListInv
  <1>7. SliceTypes' /\ ListInv' /\ PageInv'
    BY <1>1, <1>3, <1>5, <1>6, IterateInv
    DEF Inv, SliceTypes, TableTypes, CheckpointBehindIngestion
  <1>8. QED
    BY <1>3, <1>4, <1>7 DEF Inv

LEMMA FailureInv == Inv /\ (RateLimited \/ CallFails) => Inv'
  <1> SUFFICES ASSUME Inv, RateLimited \/ CallFails PROVE Inv'
    OBVIOUS
  <1> DEFINE limited == [job EXCEPT !.status = "pending", !.error = "rate"]
             failed == [job EXCEPT !.status = "failed", !.error = "error"]
  <1>1. job \in Jobs /\ limited \in Jobs /\ failed \in Jobs
    BY PausedType DEF Inv, SliceTypes
  <1>2. \A j \in {limited, failed} : j.stage = job.stage /\ j.cursor = job.cursor
    BY <1>1 DEF Jobs
  <1>3. /\ SliceOff /\ job' \in {limited, failed}
        /\ scheduled' \in {"no", "soon", "later"}
    BY <1>1, EndSliceShape DEF RateLimited, CallFails, Inv, SliceTypes
  <1>4. SliceTypes' /\ ListInv' /\ PageInv'
    BY <1>2, <1>3, SliceOffInv DEF Inv, ListInv
  <1>5. UNCHANGED <<queue, stored, work>> /\ resumed' \in BOOLEAN
    BY DEF RateLimited, CallFails, Inv, OtherTypes
  <1>6. QED
    BY <1>4, <1>5, RestKept DEF Inv

LEMMA RestartInv ==
  ASSUME Inv, Restart, UNCHANGED job
  PROVE  /\ SliceTypes' /\ ListInv' /\ PageInv'
         /\ resumed' \in BOOLEAN /\ UNCHANGED work
  <1>1. SliceOff /\ scheduled' \in {"no", "soon", "later"}
    BY DEF Restart, SliceOff, Inv, SliceTypes
  <1>2. QED
    BY <1>1, SliceOffInv DEF Restart, Inv, ListInv

LEMMA CrashesInv == Inv /\ Crashes => Inv'
  <1>1. ASSUME Inv, Crash PROVE Inv'
    BY <1>1, RestartInv, RestKept DEF Crash, Inv
  <1>2. ASSUME Inv, CrashAfterEnqueue PROVE Inv'
    BY <1>2, RestartInv, EnqueueInv DEF CrashAfterEnqueue, Inv
  <1>3. ASSUME Inv, CrashAfterStore PROVE Inv'
    <2>1. PICK n \in Answers(snap.conv, snap.cursor, snap.want) :
            /\ Store(snap.conv, snap.cursor, n)
            /\ queue' \in {queue, Moved(queue, snap.conv, snap.cursor + n)}
      BY <1>3 DEF CrashAfterStore, StoredOnly
    <2>2. /\ TableTypes' /\ CheckpointBehindIngestion'
          /\ \A d \in Conversation : stored[d] \subseteq stored'[d]
      BY <1>3, <2>1, SnapPage, PageTables DEF CrashAfterStore, StoredOnly
    <2>3. /\ SliceTypes' /\ ListInv' /\ PageInv'
          /\ resumed' \in BOOLEAN /\ UNCHANGED work
      BY <1>3, RestartInv DEF CrashAfterStore, StoredOnly
    <2>4. OtherTypes' /\ WorkInv'
      BY <1>3, <2>2, <2>3, WorkGrows DEF Inv, OtherTypes
    <2>5. QED
      BY <2>2, <2>3, <2>4 DEF Inv
  <1>4. QED
    BY <1>1, <1>2, <1>3 DEF Crashes

LEMMA StartWorkersInv == Inv /\ StartWorkers => Inv'
  BY DEF StartWorkers, sliceVars, Inv, SliceTypes, TableTypes, OtherTypes,
         CheckpointBehindIngestion, ListInv, PageInv, WorkInv

\* A handler that changes the job row, and perhaps its timer, only.
LEMMA RowInv ==
  ASSUME Inv, job' \in Jobs, job'.stage = job.stage, job'.cursor = job.cursor,
         scheduled' \in {"no", "soon", "later"},
         UNCHANGED <<queue, stored, sliceVars, resumed, work>>
  PROVE  Inv'
  BY DEF sliceVars, Inv, SliceTypes, TableTypes, OtherTypes,
         CheckpointBehindIngestion, ListInv, PageInv, WorkInv

LEMMA LimitsInv == Inv /\ SetLimits => Inv'
  <1> SUFFICES ASSUME Inv, NEW e \in EventLimits, NEW p \in PageLimits,
                      CreateJob(e, p) \/ RaiseLimits(e, p)
               PROVE  Inv'
    BY DEF SetLimits
  <1>1. job \in Jobs /\ e \in Nat /\ p \in Nat
        /\ scheduled \in {"no", "soon", "later"}
    BY BackfillAssumption DEF Inv, SliceTypes
  <1>2. CASE CreateJob(e, p)
    <2>1. job' = [job EXCEPT !.status = "pending", !.maxEvents = e, !.maxPages = p]
      BY <1>2 DEF CreateJob
    <2>2. job' \in Jobs /\ job'.stage = job.stage /\ job'.cursor = job.cursor
      BY <1>1, <2>1 DEF Jobs
    <2>3. QED
      BY <1>2, <2>2, RowInv DEF CreateJob
  <1>3. CASE RaiseLimits(e, p)
    <2> DEFINE raised == [job EXCEPT !.maxEvents = e, !.maxPages = p]
    <2>1. raised \in Jobs /\ raised.stage = job.stage /\ raised.cursor = job.cursor
      BY <1>1 DEF Jobs
    <2>2. job' \in {raised, [raised EXCEPT !.status = "pending", !.error = "none"]}
      BY <1>3 DEF RaiseLimits
    <2>3. scheduled' \in {"no", "soon", "later"}
      BY <1>1, <1>3 DEF RaiseLimits
    <2> HIDE DEF raised
    <2>4. job' \in Jobs /\ job'.stage = job.stage /\ job'.cursor = job.cursor
      BY <2>1, <2>2 DEF Jobs
    <2>5. QED
      BY <1>3, <2>3, <2>4, RowInv DEF RaiseLimits
  <1>4. QED
    BY <1>2, <1>3

LEMMA TakeWorkInv == Inv /\ TakeWork => Inv'
  <1> SUFFICES ASSUME Inv, TakeWork PROVE Inv'
    OBVIOUS
  <1>1. PICK c \in Heads(queue) :
          work' = [conv |-> c, cursor |-> queue[c].cursor, want |-> Room(job)]
    BY DEF TakeWork
  <1>2. c \in Conversation /\ queue[c].cursor \in Nat /\ Room(job) \in Nat
    BY RoomType DEF Heads, Open, Inv, TableTypes, SliceTypes, Entries
  <1>3. work' \in Items
    BY <1>1, <1>2 DEF Items
  <1>4. 1..work'.cursor \subseteq stored[work'.conv]
    BY <1>1, <1>2 DEF Inv, CheckpointBehindIngestion
  <1>5. UNCHANGED <<job, queue, stored, sliceVars, scheduled, resumed>>
    BY DEF TakeWork
  <1>6. QED
    BY <1>3, <1>4, <1>5
    DEF sliceVars, Inv, SliceTypes, TableTypes, OtherTypes,
        CheckpointBehindIngestion, ListInv, PageInv, WorkInv

LEMMA PostPageInv == Inv /\ PostPage => Inv'
  <1> SUFFICES ASSUME Inv, PostPage PROVE Inv'
    OBVIOUS
  <1> DEFINE c == work.conv
             counted(n) == [job EXCEPT !.pages = job.pages + 1, !.seen = job.seen + n,
                              !.unique = job.unique + Fresh(c, work.cursor, n),
                              !.error = "none"]
  <1>1. PICK n \in Answers(c, work.cursor, work.want) :
          /\ Store(c, work.cursor, n)
          /\ \/ /\ queue' = Moved(queue, c, work.cursor + n)
                /\ job' \in {counted(n), Completed(counted(n))}
             \/ UNCHANGED <<job, queue>>
    BY DEF PostPage, Posted
  <1>2. /\ work # None /\ work' = None
        /\ UNCHANGED <<sliceVars, scheduled, resumed>>
    BY DEF PostPage, Posted
  <1>3. /\ c \in Conversation /\ work.cursor \in Nat /\ work.want \in Nat
        /\ 1..work.cursor \subseteq stored[c]
    BY <1>2 DEF Inv, OtherTypes, WorkInv, Items
  <1>4. /\ TableTypes' /\ CheckpointBehindIngestion'
        /\ \A d \in Conversation : stored[d] \subseteq stored'[d]
        /\ n \in Nat
    BY <1>1, <1>3, PageTables
  <1>5. counted(n) \in Jobs
    <2>1. job \in Jobs /\ Fresh(c, work.cursor, n) \in Nat
      BY <1>3, <1>4, FreshType DEF Inv, SliceTypes
    <2> DEFINE pages == job.pages + 1
               seen == job.seen + n
               unique == job.unique + Fresh(c, work.cursor, n)
    <2>2. pages \in Nat /\ seen \in Nat /\ unique \in Nat
      BY <1>4, <2>1 DEF Jobs
    <2>3. counted(n) = [job EXCEPT !.pages = pages, !.seen = seen,
                                   !.unique = unique, !.error = "none"]
      OBVIOUS
    <2> HIDE DEF pages, seen, unique, counted
    <2>4. [job EXCEPT !.pages = pages, !.seen = seen,
                      !.unique = unique, !.error = "none"] \in Jobs
      BY <2>1, <2>2, CountersType
    <2>5. QED
      BY <2>3, <2>4
  <1>6. counted(n).stage = job.stage /\ counted(n).cursor = job.cursor
    BY DEF Inv, SliceTypes, Jobs
  <1> HIDE DEF counted
  <1>7. /\ job' \in Jobs
        /\ job'.stage = "conversations" => job'.cursor < Len(ListPages)
    <2>1. CASE job' = job
      BY <2>1 DEF Inv, SliceTypes, ListInv
    <2>2. CASE job' = counted(n)
      BY <1>5, <1>6, <2>2 DEF Inv, ListInv
    <2>3. CASE job' = Completed(counted(n))
      <3>1. Completed(counted(n)) \in Jobs
        BY <1>5, PausedType
      <3>2. Completed(counted(n)).stage = "complete"
        BY <1>5 DEF Completed, Jobs
      <3>3. QED
        BY <2>3, <3>1, <3>2
    <2>4. QED
      BY <1>1, <2>1, <2>2, <2>3
  <1>8. SliceTypes' /\ ListInv'
    BY <1>2, <1>7 DEF sliceVars, Inv, SliceTypes, ListInv
  <1>9. PageInv'
    BY <1>2, <1>4 DEF sliceVars, Inv, PageInv
  <1>10. OtherTypes' /\ WorkInv'
    BY <1>2 DEF Inv, OtherTypes, WorkInv
  <1>11. QED
    BY <1>4, <1>8, <1>9, <1>10 DEF Inv

\* Events that come by other ways only add to the table.
LEMMA ArrivesGrows ==
  ASSUME Inv, Arrives
  PROVE  /\ stored' \in [Conversation -> SUBSET Nat]
         /\ \A c \in Conversation : stored[c] \subseteq stored'[c]
                                   /\ stored'[c] \subseteq 1..Archive[c]
  BY BackfillAssumption DEF Arrives, Inv, TableTypes

LEMMA ArrivesInv == Inv /\ Arrives => Inv'
  <1> SUFFICES ASSUME Inv, Arrives PROVE Inv'
    OBVIOUS
  <1>1. UNCHANGED <<job, queue, pc, left, snap, awaited, scheduled, resumed, work>>
    BY DEF Arrives, sliceVars
  <1>2. SliceTypes' /\ TableTypes' /\ OtherTypes' /\ ListInv'
    BY <1>1, ArrivesGrows DEF Inv, SliceTypes, TableTypes, OtherTypes, ListInv
  <1>3. CheckpointBehindIngestion'
    BY <1>1, ArrivesGrows DEF Inv, CheckpointBehindIngestion
  <1>4. PageInv' /\ WorkInv'
    BY <1>1, ArrivesGrows, WorkGrows DEF Inv, PageInv
  <1>5. QED
    BY <1>2, <1>3, <1>4 DEF Inv

LEMMA StutterInv == Inv /\ UNCHANGED vars => Inv'
  BY DEF vars, sliceVars, Inv, SliceTypes, TableTypes, OtherTypes,
         CheckpointBehindIngestion, ListInv, PageInv, WorkInv

LEMMA InitInv == Init => Inv
  <1> SUFFICES ASSUME Init PROVE Inv
    OBVIOUS
  <1>1. SliceTypes
    <2>1. job \in Jobs
      BY DEF Init, Jobs
    <2>2. 0 \in 0..SliceLength
      BY BackfillAssumption
    <2>3. QED
      BY <2>1, <2>2, NoCallType DEF Init, SliceTypes
  <1>2. TableTypes
    BY DEF Init, TableTypes, Entries
  <1>3. Len(ListPages) > 0
    BY BackfillAssumption
  <1>4. OtherTypes /\ ListInv /\ PageInv /\ WorkInv
    BY <1>3 DEF Init, OtherTypes, ListInv, PageInv, WorkInv
  <1>5. CheckpointBehindIngestion
    BY DEF Init, CheckpointBehindIngestion
  <1>6. QED
    BY <1>1, <1>2, <1>4, <1>5 DEF Inv

LEMMA NextInv == Inv /\ [Next]_vars => Inv'
  BY TimerInv, ListReturnsInv, PageReturnsInv, FailureInv, CrashesInv,
     StartWorkersInv, LimitsInv, TakeWorkInv, PostPageInv, ArrivesInv, StutterInv
  DEF Next, Slice

LEMMA InvAlways == Spec => []Inv
  BY InitInv, NextInv, PTL DEF Spec

\* What clients do is chosen once.
LEMMA ClientsFixed == [Next]_vars => UNCHANGED clients
  BY DEF Next, vars, SetLimits, CreateJob, RaiseLimits, RunNow, TakeWork, PostPage, Posted,
         Arrives, TimerFires, Slice, ListReturns, PageReturns, PageOf, RateLimited,
         CallFails, StartWorkers, Crashes, Crash, CrashAfterEnqueue, CrashAfterStore,
         StoredOnly, Restart

LEMMA ClientsAlways == Spec => [](clients \in Clients)
  <1>1. Init => clients \in Clients
    BY DEF Init
  <1>2. clients \in Clients /\ [Next]_vars => (clients \in Clients)'
    BY ClientsFixed
  <1>3. QED
    BY <1>1, <1>2, PTL DEF Spec

\* The row of the job, its queue, the slice and the client keep their types.
THEOREM BackfillTypeCorrect == Spec => []BackfillTypeOK
  <1>1. Inv /\ clients \in Clients => BackfillTypeOK
    BY DEF Inv, SliceTypes, TableTypes, OtherTypes, BackfillTypeOK
  <1>2. QED
    BY <1>1, InvAlways, ClientsAlways, PTL

\* No crash, limit, failure, client or second reader makes a job skip events:
\* what lies before a cursor is stored, and so is the whole archive of a
\* conversation that counts as completed.
THEOREM CheckpointStaysBehind == Spec => []CheckpointBehindIngestion
  <1>1. Inv => CheckpointBehindIngestion
    BY DEF Inv
  <1>2. QED
    BY <1>1, InvAlways, PTL

-----------------------------------------------------------------------------
(* What changes of the job's row keep *)

\* Rows as slices and handlers change them, named for the provers.
Begun(j) == [j EXCEPT !.status = "running", !.error = "none"]
Limited(j) == [j EXCEPT !.status = "pending", !.error = "rate"]
Broken(j) == [j EXCEPT !.status = "failed", !.error = "error"]
Read(j, p, s, u) == [j EXCEPT !.pages = p, !.seen = s, !.unique = u]
Taken(j, p, s, u) == [j EXCEPT !.pages = p, !.seen = s, !.unique = u, !.error = "none"]
Turned(j, p, k, g) == [j EXCEPT !.pages = p, !.cursor = k, !.stage = g]
Created(j, e, p) == [j EXCEPT !.status = "pending", !.maxEvents = e, !.maxPages = p]
Raised(j, e, p) == [j EXCEPT !.maxEvents = e, !.maxPages = p]
Resumed(j) == [j EXCEPT !.status = "pending", !.error = "none"]

Place(k, j) == k.stage = j.stage /\ k.cursor = j.cursor
Counts(k, j) == k.pages = j.pages /\ k.seen = j.seen
Bounds(k, j) == k.maxPages = j.maxPages /\ k.maxEvents = j.maxEvents

LEMMA StatusFields ==
  ASSUME NEW j \in Jobs, NEW k \in {Paused(j), Begun(j), Limited(j), Broken(j), Resumed(j)}
  PROVE  /\ k \in Jobs /\ k.status \notin {"completed", "none"}
         /\ Place(k, j) /\ Counts(k, j) /\ Bounds(k, j)
  BY DEF Jobs, Paused, Begun, Limited, Broken, Resumed, Place, Counts, Bounds

LEMMA CompletedFields ==
  ASSUME NEW j \in Jobs
  PROVE  /\ Completed(j) \in Jobs /\ Completed(j).status = "completed"
         /\ Completed(j).stage = "complete"
         /\ Counts(Completed(j), j) /\ Bounds(Completed(j), j)
  BY DEF Jobs, Completed, Counts, Bounds

LEMMA ReadFields ==
  ASSUME NEW j \in Jobs, NEW p \in Nat, NEW s \in Nat, NEW u \in Nat
  PROVE  /\ Read(j, p, s, u) \in Jobs /\ Read(j, p, s, u).status = j.status
         /\ Place(Read(j, p, s, u), j) /\ Bounds(Read(j, p, s, u), j)
         /\ Read(j, p, s, u).pages = p /\ Read(j, p, s, u).seen = s
  BY DEF Jobs, Read, Place, Bounds

LEMMA TakenFields ==
  ASSUME NEW j \in Jobs, NEW p \in Nat, NEW s \in Nat, NEW u \in Nat
  PROVE  /\ Taken(j, p, s, u) \in Jobs /\ Taken(j, p, s, u).status = j.status
         /\ Place(Taken(j, p, s, u), j)
  BY DEF Jobs, Taken, Place

LEMMA TurnedFields ==
  ASSUME NEW j \in Jobs, NEW p \in Nat, NEW c \in Nat,
         NEW g, g = "conversations" \/ g = "events"
  PROVE  /\ Turned(j, p, c, g) \in Jobs
         /\ Turned(j, p, c, g).status = j.status
         /\ Turned(j, p, c, g).stage = g /\ Turned(j, p, c, g).cursor = c
         /\ Turned(j, p, c, g).pages = p /\ Turned(j, p, c, g).seen = j.seen
         /\ Bounds(Turned(j, p, c, g), j)
  BY DEF Jobs, Turned, Bounds

LEMMA LimitFields ==
  ASSUME NEW j \in Jobs, NEW e \in Nat, NEW p \in Nat
  PROVE  /\ Created(j, e, p) \in Jobs /\ Created(j, e, p).status = "pending"
         /\ Place(Created(j, e, p), j) /\ Counts(Created(j, e, p), j)
         /\ Created(j, e, p).maxEvents = e /\ Created(j, e, p).maxPages = p
         /\ Raised(j, e, p) \in Jobs /\ Raised(j, e, p).status = j.status
         /\ Place(Raised(j, e, p), j) /\ Counts(Raised(j, e, p), j)
         /\ Raised(j, e, p).maxEvents = e /\ Raised(j, e, p).maxPages = p
  BY DEF Jobs, Created, Raised, Place, Counts

\* The row with which the loop goes on, or ends.
LEMMA IterateJob ==
  ASSUME NEW j, NEW q, NEW n, NEW timer, NEW waits, Iterate(j, q, n, timer, waits)
  PROVE  \/ job' \in {j, Paused(j)}
         \/ /\ job' = Completed(j)
            /\ j.stage = "complete" \/ (j.stage = "events" /\ Open(q) = {})
  BY DEF Iterate, EndSlice, Call

\* What the steps of a slice do to the row.
LEMMA ListedRow ==
  ASSUME Inv, pc = "list"
  PROVE  \E p \in Nat, c \in Nat, g \in {"conversations", "events"} :
           /\ Listed(snap.cursor + 1) = Turned(job, p, c, g) /\ p = snap.pages + 1
           /\ c = IF g = "events" THEN 0 ELSE snap.cursor + 1
           /\ g = "events" <=> snap.cursor + 1 = Len(ListPages)
  <1> DEFINE p == snap.pages + 1
             end == snap.cursor + 1 >= Len(ListPages)
             c == IF end THEN 0 ELSE snap.cursor + 1
             g == IF end THEN "events" ELSE "conversations"
  <1>1. snap.pages \in Nat /\ snap.cursor \in Nat /\ snap.cursor < Len(ListPages)
        /\ Len(ListPages) \in Nat
    BY BackfillAssumption DEF Inv, SliceTypes, ListInv, Calls
  <1>2. p \in Nat /\ c \in Nat /\ g \in {"conversations", "events"}
    BY <1>1
  <1>3. Listed(snap.cursor + 1) = Turned(job, p, c, g)
    BY DEF Listed, Turned
  <1>4. c = (IF g = "events" THEN 0 ELSE snap.cursor + 1)
        /\ (g = "events" <=> snap.cursor + 1 = Len(ListPages))
    BY <1>1
  <1> HIDE DEF p, c, g
  <1>5. p = snap.pages + 1
    BY DEF p
  <1>6. QED
    BY <1>2, <1>3, <1>4, <1>5

LEMMA CountedRow ==
  ASSUME Inv, pc = "page", NEW n \in Nat
  PROVE  /\ Counted(n) \in Jobs /\ Counted(n).status = job.status
         /\ Place(Counted(n), job) /\ Bounds(Counted(n), job)
         /\ Counted(n).pages = snap.pages + 1 /\ Counted(n).seen = snap.seen + n
  <1> DEFINE p == snap.pages + 1
             s == snap.seen + n
             u == snap.unique + Fresh(snap.conv, snap.cursor, n)
  <1>1. snap \in Calls /\ job \in Jobs
    BY DEF Inv, SliceTypes
  <1>2. Fresh(snap.conv, snap.cursor, n) \in Nat
    BY <1>1, FreshType DEF Calls
  <1>3. u \in Nat /\ p \in Nat /\ s \in Nat
    BY <1>1, <1>2 DEF Calls
  <1>4. Counted(n) = Read(job, p, s, u) /\ p = snap.pages + 1 /\ s = snap.seen + n
    BY DEF Counted, Read
  <1> HIDE DEF p, s, u
  <1>5. /\ Read(job, p, s, u) \in Jobs /\ Read(job, p, s, u).status = job.status
        /\ Place(Read(job, p, s, u), job) /\ Bounds(Read(job, p, s, u), job)
        /\ Read(job, p, s, u).pages = p /\ Read(job, p, s, u).seen = s
    BY <1>1, <1>3, ReadFields
  <1>6. QED
    BY <1>4, <1>5

-----------------------------------------------------------------------------
(* A completed job has read its list *)

OnPage(i) == {ListPages[i][k] : k \in 1..Len(ListPages[i])}

\* How far a job has come: what its stage says was listed is in the queue, and
\* what its stage says was read is stored.
ReadOk(j, q, s) ==
  /\ j.stage \in {"events", "complete"} => \A c \in Listing : q[c].status # "absent"
  /\ j.stage = "conversations" =>
       \A i \in 1..j.cursor : \A c \in OnPage(i) : q[c].status # "absent"
  /\ j.stage = "complete" => \A c \in Listing : s[c] = 1..Archive[c]
  /\ j.status = "completed" => j.stage = "complete"

\* The call that reads the list reads on where the job stands.
ListCall == pc = "list" => job.stage = "conversations" /\ snap.cursor = job.cursor

ReadInv == ReadOk(job, queue, stored) /\ ListCall

Kept(q, r) == \A c \in Conversation : q[c].status # "absent" => r[c].status # "absent"

LEMMA ListingPages ==
  /\ Len(ListPages) \in Nat
  /\ \A i \in 1..Len(ListPages) : OnPage(i) \subseteq Conversation
  /\ Listing = UNION {OnPage(i) : i \in 1..Len(ListPages)}
  /\ Listing \subseteq Conversation
  <1>1. ASSUME NEW i \in 1..Len(ListPages) PROVE OnPage(i) \subseteq Conversation
    <2>1. ListPages[i] \in Seq(Conversation)
      BY BackfillAssumption
    <2>2. QED
      BY <2>1 DEF OnPage
  <1>2. Listing = UNION {OnPage(i) : i \in 1..Len(ListPages)}
    BY DEF Listing, OnPage
  <1>3. Len(ListPages) \in Nat
    BY BackfillAssumption
  <1>4. QED
    BY <1>1, <1>2, <1>3

\* Rows are not removed from the queue, nor events from the table.
LEMMA ReadGrows ==
  ASSUME NEW j \in Jobs, NEW q, NEW r, NEW s, NEW t, ReadOk(j, q, s), Kept(q, r),
         j.stage = "conversations" => j.cursor < Len(ListPages),
         \A c \in Conversation : s[c] \subseteq t[c] /\ t[c] \subseteq 1..Archive[c]
  PROVE  ReadOk(j, r, t)
  <1>1. j.cursor \in Nat
    BY DEF Jobs
  <1>2. j.stage = "conversations" =>
          \A i \in 1..j.cursor : \A c \in OnPage(i) : r[c].status # "absent"
    BY <1>1, ListingPages DEF ReadOk, Kept
  <1>3. j.stage \in {"events", "complete"} => \A c \in Listing : r[c].status # "absent"
    BY ListingPages DEF ReadOk, Kept
  <1>4. j.stage = "complete" => \A c \in Listing : t[c] = 1..Archive[c]
    BY ListingPages DEF ReadOk
  <1>5. QED
    BY <1>2, <1>3, <1>4 DEF ReadOk

LEMMA ReadPlace ==
  ASSUME NEW j, NEW k, NEW q, NEW s, ReadOk(j, q, s), Place(k, j),
         k.status \in {j.status} \/ k.status # "completed"
  PROVE  ReadOk(k, q, s)
  BY DEF ReadOk, Place

\* With nothing left open, everything that was listed is stored.
LEMMA ReadDone ==
  ASSUME NEW j \in Jobs, NEW q \in [Conversation -> Entries], NEW s, ReadOk(j, q, s),
         \A c \in Conversation : q[c].status = "completed" => s[c] = 1..Archive[c],
         j.stage = "complete" \/ (j.stage = "events" /\ Open(q) = {})
  PROVE  ReadOk(Completed(j), q, s)
  <1>1. Completed(j).stage = "complete"
    BY CompletedFields
  <1>2. \A c \in Listing : q[c].status # "absent"
    BY DEF ReadOk
  <1>3. ASSUME NEW c \in Listing PROVE s[c] = 1..Archive[c]
    <2>1. CASE j.stage = "complete"
      BY <2>1 DEF ReadOk
    <2>2. CASE Open(q) = {}
      <3>1. c \in Conversation /\ q[c] \in Entries
        BY ListingPages
      <3>2. q[c].status \notin {"pending", "running"}
        BY <2>2, <3>1 DEF Open
      <3>3. q[c].status = "completed"
        BY <1>2, <3>1, <3>2 DEF Entries
      <3>4. QED
        BY <3>1, <3>3
    <2>3. QED
      BY <2>1, <2>2
  <1>4. QED
    BY <1>1, <1>2, <1>3 DEF ReadOk

LEMMA IterateRead ==
  ASSUME NEW j \in Jobs, queue' \in [Conversation -> Entries],
         NEW n \in 0..SliceLength, NEW timer \in {"no", "soon", "later"},
         NEW waits \in BOOLEAN, Iterate(j, queue', n, timer, waits),
         ReadOk(j, queue', stored'), CheckpointBehindIngestion'
  PROVE  ReadInv'
  <1>1. \/ SliceOff /\ job' \in {j, Paused(j), Completed(j)}
        \/ SliceCalls(j, queue')
    BY IterateShape
  <1>2. ListCall'
    BY <1>1 DEF SliceOff, SliceCalls, ListCall
  <1>3. CASE job' \in {j, Paused(j)}
    <2>1. Place(job', j) /\ (job'.status = j.status \/ job'.status # "completed")
      BY <1>3, StatusFields DEF Place
    <2>2. ReadOk(job', queue', stored')
      BY <2>1, ReadPlace
    <2>3. QED
      BY <1>2, <2>2 DEF ReadInv
  <1>4. CASE /\ job' = Completed(j)
             /\ j.stage = "complete" \/ (j.stage = "events" /\ Open(queue') = {})
    <2>1. ReadOk(Completed(j), queue', stored')
      BY <1>4, ReadDone DEF CheckpointBehindIngestion
    <2>2. QED
      BY <1>2, <1>4, <2>1 DEF ReadInv
  <1>5. QED
    BY <1>3, <1>4, IterateJob

LEMMA MovedKeeps ==
  ASSUME NEW q \in [Conversation -> Entries], NEW c \in Conversation, NEW n \in Nat
  PROVE  Kept(q, Moved(q, c, n))
  <1> DEFINE s == IF AtEnd(c, n) THEN "completed" ELSE "running"
             m == [q[c] EXCEPT !.cursor = n, !.status = s]
  <1>1. m.status # "absent"
    BY DEF Entries
  <1>2. Moved(q, c, n) = [q EXCEPT ![c] = m]
    BY DEF Moved
  <1> HIDE DEF m
  <1>3. QED
    BY <1>1, <1>2 DEF Kept

LEMMA EnqueuedKeeps ==
  ASSUME NEW q \in [Conversation -> Entries], NEW i \in 1..Len(ListPages)
  PROVE  /\ Kept(q, Enqueued(q, ListPages[i]))
         /\ \A c \in OnPage(i) : Enqueued(q, ListPages[i])[c].status # "absent"
  <1>1. ASSUME NEW c \in Conversation
        PROVE  /\ q[c].status # "absent" => Enqueued(q, ListPages[i])[c] = q[c]
               /\ c \in OnPage(i) => \/ Enqueued(q, ListPages[i])[c].status = "pending"
                                     \/ q[c].status # "absent"
    BY DEF Enqueued, OnPage
  <1>2. OnPage(i) \subseteq Conversation
    BY ListingPages
  <1>3. QED
    BY <1>1, <1>2 DEF Kept

\* Nothing is in the way of a step that leaves the tables alone.
LEMMA RowRead ==
  ASSUME ReadInv, UNCHANGED <<queue, stored>>, Place(job', job),
         job'.status = job.status \/ job'.status # "completed",
         pc' \in {pc, "off"}, pc' # "off" => UNCHANGED snap
  PROVE  ReadInv'
  <1>1. ReadOk(job', queue, stored)
    BY ReadPlace DEF ReadInv
  <1>2. ListCall'
    BY DEF ReadInv, ListCall, Place
  <1>3. QED
    BY <1>1, <1>2 DEF ReadInv

LEMMA RunJobRead ==
  ASSUME Inv, ReadInv, NEW timer \in {"no", "soon", "later"}, NEW waits \in BOOLEAN,
         RunJob(timer, waits), UNCHANGED <<queue, stored>>
  PROVE  ReadInv'
  <1>1. job \in Jobs /\ queue \in [Conversation -> Entries] /\ CheckpointBehindIngestion'
    BY DEF Inv, SliceTypes, TableTypes, CheckpointBehindIngestion
  <1>2. CASE UNCHANGED <<job, pc, left, snap>>
    BY <1>2, RowRead DEF Place
  <1>3. CASE \E j \in {job, Paused(job)} : EndSlice(j, timer, waits)
    <2>1. job' \in {job, Paused(job)} /\ pc' = "off"
      BY <1>3 DEF EndSlice
    <2>2. Place(job', job) /\ (job'.status = job.status \/ job'.status # "completed")
      BY <1>1, <2>1, StatusFields DEF Place
    <2>3. QED
      BY <2>1, <2>2, RowRead
  <1>4. CASE Iterate(Begun(job), queue, SliceLength, timer, waits)
    <2>1. ReadOk(Begun(job), queue', stored')
      BY <1>1, StatusFields, ReadPlace DEF ReadInv
    <2>2. SliceLength \in 0..SliceLength
      BY BackfillAssumption
    <2>3. Begun(job) \in Jobs
      BY <1>1, StatusFields
    <2>4. QED
      BY <1>1, <1>4, <2>1, <2>2, <2>3, IterateRead
  <1>5. QED
    BY <1>2, <1>3, <1>4 DEF RunJob, Begun

LEMMA TimerRead == Inv /\ ReadInv /\ (TimerFires \/ RunNow) => ReadInv'
  BY RunJobRead DEF TimerFires, RunNow, Inv, SliceTypes

\* A page of the list is in the queue before the row says that it was read.
LEMMA EnqueueRead ==
  ASSUME Inv, ReadInv, pc = "list", UNCHANGED stored,
         queue' = Enqueued(queue, ListPages[snap.cursor + 1])
  PROVE  /\ Kept(queue, queue') /\ ReadOk(job, queue', stored')
         /\ \A c \in OnPage(snap.cursor + 1) : queue'[c].status # "absent"
  <1>1. snap.cursor + 1 \in 1..Len(ListPages)
    BY ListingPages DEF Inv, ListInv, SliceTypes, Calls
  <1>2. queue \in [Conversation -> Entries] /\ job \in Jobs
    BY DEF Inv, TableTypes, SliceTypes
  <1>3. /\ Kept(queue, queue')
        /\ \A c \in OnPage(snap.cursor + 1) : queue'[c].status # "absent"
    BY <1>1, <1>2, EnqueuedKeeps
  <1>4. ReadOk(job, queue', stored')
    BY <1>2, <1>3, ReadGrows DEF ReadInv, Inv, TableTypes, ListInv
  <1>5. QED
    BY <1>3, <1>4

LEMMA ListReturnsRead == Inv /\ ReadInv /\ ListReturns => ReadInv'
  <1> SUFFICES ASSUME Inv, ReadInv, ListReturns PROVE ReadInv'
    OBVIOUS
  <1> DEFINE i == snap.cursor + 1
  <1>1. /\ pc = "list" /\ UNCHANGED stored
        /\ queue' = Enqueued(queue, ListPages[i])
        /\ Iterate(Listed(i), queue', left - 1, scheduled, awaited)
    BY DEF ListReturns
  <1>2. job.stage = "conversations" /\ job.cursor = snap.cursor /\ snap.cursor \in Nat
    BY <1>1 DEF ReadInv, ListCall, Inv, SliceTypes, Calls
  <1>3. /\ Kept(queue, queue') /\ ReadOk(job, queue', stored')
        /\ \A c \in OnPage(i) : queue'[c].status # "absent"
    BY <1>1, EnqueueRead
  <1>4. PICK p \in Nat, c \in Nat, g \in {"conversations", "events"} :
          /\ Listed(i) = Turned(job, p, c, g)
          /\ c = IF g = "events" THEN 0 ELSE i
          /\ g = "events" <=> i = Len(ListPages)
    BY <1>1, ListedRow
  <1>5. job \in Jobs /\ Listed(i) \in Jobs /\ Listed(i).status = job.status
        /\ Listed(i).stage = g /\ Listed(i).cursor = c
    <2>1. job \in Jobs /\ (g = "conversations" \/ g = "events")
      BY DEF Inv, SliceTypes
    <2>2. /\ Turned(job, p, c, g) \in Jobs
          /\ Turned(job, p, c, g).status = job.status
          /\ Turned(job, p, c, g).stage = g /\ Turned(job, p, c, g).cursor = c
      BY <2>1, TurnedFields
    <2>3. QED
      BY <1>4, <2>1, <2>2
  <1>6. \A k \in 1..i : \A d \in OnPage(k) : queue'[d].status # "absent"
    <2>1. \A k \in 1..snap.cursor : \A d \in OnPage(k) : queue'[d].status # "absent"
      BY <1>2, <1>3 DEF ReadOk
    <2>2. QED
      BY <1>2, <1>3, <2>1
  <1>7. g = "events" => \A d \in Listing : queue'[d].status # "absent"
    BY <1>4, <1>6, ListingPages
  <1>8. job.status # "completed"
    BY <1>2 DEF ReadInv, ReadOk
  <1>9. ReadOk(Listed(i), queue', stored')
    BY <1>4, <1>5, <1>6, <1>7, <1>8 DEF ReadOk
  <1>10. CheckpointBehindIngestion' /\ queue' \in [Conversation -> Entries]
    BY ListReturnsInv DEF Inv, TableTypes
  <1>11. left - 1 \in 0..SliceLength
    BY <1>1, BackfillAssumption DEF Inv, SliceTypes
  <1>12. QED
    BY <1>1, <1>5, <1>9, <1>10, <1>11, IterateRead DEF Inv, SliceTypes

\* A page of events, whoever read it, leaves the job where it was.
LEMMA PageRead ==
  ASSUME Inv, ReadInv, NEW c \in Conversation, NEW first \in Nat,
         1..first \subseteq stored[c], NEW want \in Nat,
         NEW n \in Answers(c, first, want), Store(c, first, n),
         queue' \in {queue, Moved(queue, c, first + n)}
  PROVE  /\ ReadOk(job, queue', stored')
         /\ queue' \in [Conversation -> Entries] /\ CheckpointBehindIngestion'
  <1>1. TableTypes' /\ CheckpointBehindIngestion' /\ n \in Nat
        /\ \A d \in Conversation : stored[d] \subseteq stored'[d]
    BY PageTables
  <1>2. queue \in [Conversation -> Entries] /\ job \in Jobs
    BY DEF Inv, TableTypes, SliceTypes
  <1>3. Kept(queue, queue')
    BY <1>1, <1>2, MovedKeeps DEF Kept
  <1>4. QED
    BY <1>1, <1>2, <1>3, ReadGrows DEF ReadInv, Inv, ListInv, TableTypes

LEMMA PageReturnsRead == Inv /\ ReadInv /\ PageReturns => ReadInv'
  <1> SUFFICES ASSUME Inv, ReadInv, PageReturns PROVE ReadInv'
    OBVIOUS
  <1>1. PICK n \in Answers(snap.conv, snap.cursor, snap.want) :
          /\ Store(snap.conv, snap.cursor, n)
          /\ queue' = Moved(queue, snap.conv, snap.cursor + n)
          /\ Iterate(Counted(n), queue', left - 1, scheduled, awaited)
    BY DEF PageReturns, PageOf
  <1>2. pc = "page"
    BY DEF PageReturns, PageOf
  <1>3. /\ ReadOk(job, queue', stored')
        /\ queue' \in [Conversation -> Entries] /\ CheckpointBehindIngestion'
    BY <1>1, <1>2, SnapPage, PageRead
  <1>4. n \in Nat
    BY <1>1, <1>2, SnapPage DEF Answers
  <1>5. Counted(n) \in Jobs /\ Place(Counted(n), job) /\ Counted(n).status = job.status
    BY <1>2, <1>4, CountedRow
  <1>6. ReadOk(Counted(n), queue', stored')
    BY <1>3, <1>5, ReadPlace
  <1>7. left - 1 \in 0..SliceLength
    BY <1>2, BackfillAssumption DEF Inv, SliceTypes
  <1>8. QED
    BY <1>1, <1>3, <1>5, <1>6, <1>7, IterateRead DEF Inv, SliceTypes

LEMMA FailureRead == Inv /\ ReadInv /\ (RateLimited \/ CallFails) => ReadInv'
  <1> SUFFICES ASSUME Inv, ReadInv, RateLimited \/ CallFails PROVE ReadInv'
    OBVIOUS
  <1>1. job' \in {Limited(job), Broken(job)} /\ pc' = "off" /\ UNCHANGED <<queue, stored>>
    BY DEF RateLimited, CallFails, EndSlice, Limited, Broken
  <1>2. Place(job', job) /\ job'.status # "completed"
    BY <1>1, StatusFields DEF Inv, SliceTypes
  <1>3. QED
    BY <1>1, <1>2, RowRead

LEMMA CrashesRead == Inv /\ ReadInv /\ Crashes => ReadInv'
  <1> SUFFICES ASSUME Inv, ReadInv, Crashes PROVE ReadInv'
    OBVIOUS
  <1>1. pc' = "off" /\ job' = job
    BY DEF Crashes, Crash, CrashAfterEnqueue, CrashAfterStore, StoredOnly, Restart
  <1>2. ListCall'
    BY <1>1 DEF ListCall
  <1>3. ASSUME Crash PROVE ReadOk(job, queue', stored')
    BY <1>3 DEF Crash, ReadInv
  <1>4. ASSUME CrashAfterEnqueue PROVE ReadOk(job, queue', stored')
    BY <1>4, EnqueueRead DEF CrashAfterEnqueue
  <1>5. ASSUME CrashAfterStore PROVE ReadOk(job, queue', stored')
    BY <1>5, SnapPage, PageRead DEF CrashAfterStore, StoredOnly
  <1>6. QED
    BY <1>1, <1>2, <1>3, <1>4, <1>5 DEF Crashes, ReadInv

LEMMA LimitsRead == Inv /\ ReadInv /\ SetLimits => ReadInv'
  <1> SUFFICES ASSUME Inv, ReadInv, NEW e \in EventLimits, NEW p \in PageLimits,
                      CreateJob(e, p) \/ RaiseLimits(e, p)
               PROVE  ReadInv'
    BY DEF SetLimits
  <1>1. job \in Jobs /\ e \in Nat /\ p \in Nat
    BY BackfillAssumption DEF Inv, SliceTypes
  <1>2. job' \in {Created(job, e, p), Raised(job, e, p), Resumed(Raised(job, e, p))}
    BY DEF CreateJob, RaiseLimits, Created, Raised, Resumed
  <1>3. Place(job', job) /\ (job'.status = job.status \/ job'.status # "completed")
    <2>1. CASE job' \in {Created(job, e, p), Raised(job, e, p)}
      <3>1. Place(Created(job, e, p), job) /\ Created(job, e, p).status = "pending"
        BY <1>1, LimitFields
      <3>2. Place(Raised(job, e, p), job) /\ Raised(job, e, p).status = job.status
        BY <1>1, LimitFields
      <3>3. QED
        BY <2>1, <3>1, <3>2
    <2>2. CASE job' = Resumed(Raised(job, e, p))
      <3>1. Raised(job, e, p) \in Jobs /\ Place(Raised(job, e, p), job)
        BY <1>1, LimitFields
      <3>2. Place(job', Raised(job, e, p)) /\ job'.status # "completed"
        BY <2>2, <3>1, StatusFields
      <3>3. QED
        BY <3>1, <3>2 DEF Place
    <2>3. QED
      BY <1>2, <2>1, <2>2
  <1>4. QED
    BY <1>3, RowRead DEF CreateJob, RaiseLimits, sliceVars

\* The client's checkpoint completes a job only when it closes the last
\* conversation of a list that was read to its end.
LEMMA PostPageRead == Inv /\ ReadInv /\ PostPage => ReadInv'
  <1> SUFFICES ASSUME Inv, ReadInv, PostPage PROVE ReadInv'
    OBVIOUS
  <1> DEFINE c == work.conv
             counted(n) == Taken(job, job.pages + 1, job.seen + n,
                                 job.unique + Fresh(c, work.cursor, n))
  <1>1. PICK n \in Answers(c, work.cursor, work.want) :
          /\ Store(c, work.cursor, n)
          /\ \/ /\ queue' = Moved(queue, c, work.cursor + n)
                /\ job.stage = "events" /\ Incomplete(job)
                /\ \/ job' = counted(n)
                   \/ /\ job' = Completed(counted(n))
                      /\ \A d \in Conversation : queue'[d].status \in {"absent", "completed"}
             \/ UNCHANGED <<job, queue>>
    BY DEF PostPage, Posted, Accepts, Taken
  <1>2. work # None /\ UNCHANGED sliceVars
    BY DEF PostPage, Posted
  <1>3. /\ c \in Conversation /\ work.cursor \in Nat /\ work.want \in Nat
        /\ 1..work.cursor \subseteq stored[c] /\ job \in Jobs
    BY <1>2 DEF Inv, SliceTypes, OtherTypes, WorkInv, Items
  <1>4. /\ ReadOk(job, queue', stored')
        /\ queue' \in [Conversation -> Entries] /\ CheckpointBehindIngestion'
    BY <1>1, <1>3, PageRead
  <1>5. /\ counted(n) \in Jobs /\ Place(counted(n), job)
        /\ counted(n).status = job.status
    <2>1. n \in Nat /\ Fresh(c, work.cursor, n) \in Nat
      BY <1>1, <1>3, FreshType DEF Answers
    <2> DEFINE p == job.pages + 1
               s == job.seen + n
               u == job.unique + Fresh(c, work.cursor, n)
    <2>2. p \in Nat /\ s \in Nat /\ u \in Nat
      BY <1>3, <2>1 DEF Jobs
    <2> HIDE DEF p, s, u
    <2>3. Taken(job, p, s, u) \in Jobs /\ Place(Taken(job, p, s, u), job)
          /\ Taken(job, p, s, u).status = job.status
      BY <1>3, <2>2, TakenFields
    <2>4. counted(n) = Taken(job, p, s, u)
      BY DEF p, s, u
    <2>5. QED
      BY <2>3, <2>4
  <1> HIDE DEF counted
  <1>6. CASE UNCHANGED <<job, queue>>
    BY <1>2, <1>4, <1>6 DEF ReadInv, ListCall, sliceVars
  <1>7. CASE /\ job.stage = "events"
             /\ \/ job' = counted(n)
                \/ /\ job' = Completed(counted(n))
                   /\ \A d \in Conversation : queue'[d].status \in {"absent", "completed"}
    <2>1. ReadOk(counted(n), queue', stored')
      BY <1>4, <1>5, ReadPlace
    <2>2. counted(n).stage = "events"
      BY <1>5, <1>7 DEF Place
    <2>3. ReadOk(job', queue', stored')
      <3>1. CASE job' = counted(n)
        BY <2>1, <3>1
      <3>2. CASE /\ job' = Completed(counted(n))
                 /\ \A d \in Conversation : queue'[d].status \in {"absent", "completed"}
        <4>1. Open(queue') = {}
          BY <3>2 DEF Open
        <4>2. ReadOk(Completed(counted(n)), queue', stored')
          BY <1>4, <1>5, <2>1, <2>2, <4>1, ReadDone DEF CheckpointBehindIngestion
        <4>3. QED
          BY <3>2, <4>2
      <3>3. QED
        BY <1>7, <3>1, <3>2
    <2>4. ListCall'
      BY <1>2, <1>7 DEF ReadInv, ListCall, sliceVars
    <2>5. QED
      BY <2>3, <2>4 DEF ReadInv
  <1>8. QED
    BY <1>1, <1>6, <1>7

LEMMA ArrivesRead == Inv /\ ReadInv /\ Arrives => ReadInv'
  <1> SUFFICES ASSUME Inv, ReadInv, Arrives PROVE ReadInv'
    OBVIOUS
  <1>1. UNCHANGED <<job, queue, pc, snap>>
    BY DEF Arrives, sliceVars
  <1>2. ReadOk(job, queue, stored')
    BY ArrivesGrows, ReadGrows DEF ReadInv, Inv, ListInv, SliceTypes, Kept
  <1>3. QED
    BY <1>1, <1>2 DEF ReadInv, ListCall

LEMMA OtherRead == ReadInv /\ (StartWorkers \/ TakeWork \/ UNCHANGED vars) => ReadInv'
  BY DEF StartWorkers, TakeWork, vars, sliceVars, ReadInv, ListCall

LEMMA ReadStep == Inv /\ ReadInv /\ [Next]_vars => ReadInv'
  BY TimerRead, ListReturnsRead, PageReturnsRead, FailureRead, CrashesRead,
     LimitsRead, PostPageRead, ArrivesRead, OtherRead
  DEF Next, Slice

LEMMA ReadAlways == Spec => []ReadInv
  <1>1. Init => ReadInv
    BY DEF Init, ReadInv, ReadOk, ListCall
  <1>2. QED
    BY <1>1, InvAlways, ReadStep, PTL DEF Spec

\* A job does not report that it is completed while a conversation of its list
\* is unknown or half read: not after a crash between the commits of a page,
\* not after its limits were raised, not when a client closes the last one.
THEOREM CompletedHasRead == Spec => []CompletedMeansRead
  <1>1. ReadInv => CompletedMeansRead
    BY DEF ReadInv, ReadOk, CompletedMeansRead
  <1>2. QED
    BY <1>1, ReadAlways, PTL

-----------------------------------------------------------------------------
(* Slices alone keep the limits, and never go back *)

Within(j) == j.pages <= j.maxPages /\ j.seen <= j.maxEvents

\* Without a client that brings pages, what a slice read before its call is
\* still true when the call returns.
CallInv ==
  /\ pc # "off" => /\ snap.pages = job.pages /\ snap.seen = job.seen
                   /\ job.pages < job.maxPages
                   /\ job.seen + snap.want <= job.maxEvents
                   /\ job.status # "none"
  /\ pc = "page" => /\ snap.conv \in Conversation
                    /\ snap.cursor = queue[snap.conv].cursor
                    /\ queue[snap.conv].status # "absent"

RowLimits == Within(job) /\ (job.status = "none" => job.pages = 0 /\ job.seen = 0)

Unread(q) == \A c \in Conversation : q[c].status = "absent" => q[c].cursor = 0

LimitInv == work = None /\ RowLimits /\ CallInv /\ Unread(queue)

Forward ==
  /\ job'.pages >= job.pages /\ job'.seen >= job.seen
  /\ \A c \in Conversation : queue'[c].cursor >= queue[c].cursor

LEMMA IterateCount ==
  ASSUME NEW j \in Jobs, queue' \in [Conversation -> Entries],
         NEW n \in 0..SliceLength, NEW timer \in {"no", "soon", "later"},
         NEW waits \in BOOLEAN, Iterate(j, queue', n, timer, waits),
         Within(j), j.status # "none"
  PROVE  RowLimits' /\ CallInv' /\ Counts(job', j)
  <1>1. Counts(job', j) /\ Bounds(job', j) /\ job'.status # "none"
    <2>1. /\ Counts(Paused(j), j) /\ Bounds(Paused(j), j) /\ Paused(j).status # "none"
          /\ Counts(Completed(j), j) /\ Bounds(Completed(j), j)
          /\ Completed(j).status # "none"
          /\ Counts(j, j) /\ Bounds(j, j)
      BY StatusFields, CompletedFields DEF Counts, Bounds
    <2>2. job' \in {j, Paused(j), Completed(j)}
      BY IterateJob
    <2>3. QED
      BY <2>1, <2>2
  <1>2. RowLimits'
    BY <1>1 DEF RowLimits, Within, Counts, Bounds
  <1>3. CASE pc' = "off"
    BY <1>1, <1>2, <1>3 DEF CallInv
  <1>4. CASE SliceCalls(j, queue')
    <2>1. Room(j) <= j.maxEvents - j.seen /\ Room(j) \in Nat
          /\ j.seen \in Nat /\ j.maxEvents \in Nat
      BY <1>4, RoomType DEF SliceCalls, Jobs
    <2>2. j.seen + Room(j) <= j.maxEvents
      BY <2>1
    <2>3. QED
      BY <1>1, <1>2, <1>4, <2>2 DEF SliceCalls, CallInv, Open
  <1>5. QED
    BY <1>1, <1>2, <1>3, <1>4, IterateShape DEF SliceOff

\* A step that leaves the tables alone, and the row's counters.
LEMMA RowCount ==
  ASSUME Inv, LimitInv, UNCHANGED <<queue, work>>,
         Counts(job', job), Bounds(job', job), job'.status = "none" => job.status = "none",
         pc' \in {pc, "off"}, pc' # "off" => UNCHANGED snap
  PROVE  LimitInv' /\ Forward
  <1>1. /\ job.pages \in Nat /\ job.seen \in Nat
        /\ \A c \in Conversation : queue[c].cursor \in Nat
    BY DEF Inv, SliceTypes, TableTypes, Jobs, Entries
  <1>2. RowLimits' /\ CallInv'
    BY DEF LimitInv, RowLimits, CallInv, Within, Counts, Bounds
  <1>3. Forward
    BY <1>1 DEF Forward, Counts
  <1>4. QED
    BY <1>2, <1>3 DEF LimitInv, Unread

LEMMA RunJobCount ==
  ASSUME Inv, LimitInv, NEW timer \in {"no", "soon", "later"}, NEW waits \in BOOLEAN,
         RunJob(timer, waits), UNCHANGED <<queue, work>>
  PROVE  LimitInv' /\ Forward
  <1>1. job \in Jobs /\ queue \in [Conversation -> Entries]
    BY DEF Inv, SliceTypes, TableTypes
  <1>2. CASE UNCHANGED <<job, pc, left, snap>>
    BY <1>2, RowCount DEF Counts, Bounds
  <1>3. CASE \E j \in {job, Paused(job)} : EndSlice(j, timer, waits)
    <2>1. job' \in {job, Paused(job)} /\ pc' = "off"
      BY <1>3 DEF EndSlice
    <2>2. /\ Counts(job', job) /\ Bounds(job', job)
          /\ job'.status = "none" => job.status = "none"
      BY <1>1, <2>1, StatusFields DEF Counts, Bounds
    <2>3. QED
      BY <2>1, <2>2, RowCount
  <1>4. CASE Iterate(Begun(job), queue, SliceLength, timer, waits)
    <2>1. /\ Begun(job) \in Jobs /\ Begun(job).status # "none"
          /\ Counts(Begun(job), job) /\ Bounds(Begun(job), job)
      BY <1>1, StatusFields
    <2>2. Within(Begun(job)) /\ SliceLength \in 0..SliceLength
      BY <2>1, BackfillAssumption DEF LimitInv, RowLimits, Within, Counts, Bounds
    <2>3. RowLimits' /\ CallInv' /\ Counts(job', Begun(job))
      BY <1>1, <1>4, <2>1, <2>2, IterateCount
    <2>4. Forward
      <3>1. /\ job.pages \in Nat /\ job.seen \in Nat
            /\ \A c \in Conversation : queue[c].cursor \in Nat
        BY <1>1 DEF Jobs, Entries
      <3>2. QED
        BY <2>1, <2>3, <3>1 DEF Forward, Counts
    <2>5. QED
      BY <2>3, <2>4 DEF LimitInv, Unread
  <1>5. QED
    BY <1>2, <1>3, <1>4 DEF RunJob, Begun

LEMMA TimerCount == Inv /\ LimitInv /\ (TimerFires \/ RunNow) => LimitInv' /\ Forward
  BY RunJobCount DEF TimerFires, RunNow, Inv, SliceTypes

\* A page of the list adds rows that were read nowhere.
LEMMA EnqueueCount ==
  ASSUME Inv, Unread(queue), pc = "list",
         queue' = Enqueued(queue, ListPages[snap.cursor + 1])
  PROVE  /\ Unread(queue') /\ queue' \in [Conversation -> Entries]
         /\ \A c \in Conversation : queue'[c].cursor >= queue[c].cursor
  <1>1. snap.cursor + 1 \in 1..Len(ListPages)
    BY ListingPages DEF Inv, ListInv, SliceTypes, Calls
  <1>2. ListPages[snap.cursor + 1] \in Seq(Conversation)
    BY <1>1, BackfillAssumption
  <1>3. queue \in [Conversation -> Entries] /\ queue' \in [Conversation -> Entries]
    BY <1>2, EnqueuedType DEF Inv, TableTypes
  <1>4. ASSUME NEW c \in Conversation
        PROVE  \/ queue'[c] = queue[c]
               \/ queue'[c].cursor = 0 /\ queue[c].status = "absent"
    BY DEF Enqueued
  <1>5. \A c \in Conversation : queue[c].cursor \in Nat
    BY <1>3 DEF Entries
  <1>6. ASSUME NEW c \in Conversation
        PROVE  /\ queue'[c].status = "absent" => queue'[c].cursor = 0
               /\ queue'[c].cursor >= queue[c].cursor
    BY <1>4, <1>5 DEF Unread
  <1>7. QED
    BY <1>3, <1>6 DEF Unread

LEMMA ListReturnsCount == Inv /\ LimitInv /\ ListReturns => LimitInv' /\ Forward
  <1> SUFFICES ASSUME Inv, LimitInv, ListReturns PROVE LimitInv' /\ Forward
    OBVIOUS
  <1> DEFINE i == snap.cursor + 1
  <1>1. /\ pc = "list" /\ UNCHANGED work
        /\ queue' = Enqueued(queue, ListPages[i])
        /\ Iterate(Listed(i), queue', left - 1, scheduled, awaited)
    BY DEF ListReturns
  <1>2. /\ Unread(queue') /\ queue' \in [Conversation -> Entries]
        /\ \A c \in Conversation : queue'[c].cursor >= queue[c].cursor
    BY <1>1, EnqueueCount DEF LimitInv
  <1>3. PICK p \in Nat, c \in Nat, g \in {"conversations", "events"} :
          Listed(i) = Turned(job, p, c, g) /\ p = snap.pages + 1
    BY <1>1, ListedRow
  <1>4. job \in Jobs /\ (g = "conversations" \/ g = "events")
    BY DEF Inv, SliceTypes
  <1>5. /\ Turned(job, p, c, g) \in Jobs /\ Turned(job, p, c, g).status = job.status
        /\ Turned(job, p, c, g).pages = p /\ Turned(job, p, c, g).seen = job.seen
        /\ Bounds(Turned(job, p, c, g), job)
    BY <1>4, TurnedFields
  <1>6. /\ Listed(i) \in Jobs /\ Listed(i).status = job.status
        /\ Listed(i).pages = job.pages + 1 /\ Listed(i).seen = job.seen
        /\ Bounds(Listed(i), job)
    BY <1>1, <1>3, <1>5 DEF LimitInv, CallInv
  <1>7. /\ job.pages \in Nat /\ job.seen \in Nat /\ job.maxPages \in Nat
        /\ job.pages < job.maxPages /\ job.status # "none" /\ job.seen <= job.maxEvents
    BY <1>1, <1>4 DEF Jobs, LimitInv, CallInv, RowLimits, Within
  <1>8. Within(Listed(i)) /\ Listed(i).status # "none"
    BY <1>6, <1>7 DEF Within, Bounds
  <1>9. left - 1 \in 0..SliceLength
    BY <1>1, BackfillAssumption DEF Inv, SliceTypes
  <1>10. RowLimits' /\ CallInv' /\ Counts(job', Listed(i))
    BY <1>1, <1>2, <1>6, <1>8, <1>9, IterateCount DEF Inv, SliceTypes
  <1>11. Forward
    BY <1>2, <1>6, <1>7, <1>10 DEF Forward, Counts
  <1>12. QED
    BY <1>1, <1>2, <1>10, <1>11 DEF LimitInv

\* A page of events that was read at the cursor moves it forward.
LEMMA MovedCount ==
  ASSUME Inv, LimitInv, pc = "page", NEW n \in Nat,
         queue' \in {queue, Moved(queue, snap.conv, snap.cursor + n)}
  PROVE  /\ Unread(queue') /\ queue' \in [Conversation -> Entries]
         /\ \A c \in Conversation : queue'[c].cursor >= queue[c].cursor
  <1>1. /\ snap.conv \in Conversation /\ snap.cursor = queue[snap.conv].cursor
        /\ queue \in [Conversation -> Entries]
    BY DEF LimitInv, CallInv, Inv, TableTypes
  <1>2. snap.cursor + n \in Nat /\ \A c \in Conversation : queue[c].cursor \in Nat
    BY <1>1 DEF Entries
  <1> DEFINE q == Moved(queue, snap.conv, snap.cursor + n)
  <1>3. /\ q \in [Conversation -> Entries] /\ q[snap.conv].cursor = snap.cursor + n
        /\ \A d \in Conversation \ {snap.conv} : q[d] = queue[d]
    BY <1>1, <1>2, MovedType
  <1>4. Kept(queue, q)
    BY <1>1, <1>2, MovedKeeps
  <1>5. queue[snap.conv].status # "absent"
    BY DEF LimitInv, CallInv
  <1> HIDE DEF q
  <1>6. Unread(q)
    BY <1>1, <1>3, <1>4, <1>5 DEF Unread, Kept, LimitInv
  <1>7. \A c \in Conversation : q[c].cursor >= queue[c].cursor
    BY <1>1, <1>2, <1>3
  <1>8. QED
    BY <1>1, <1>2, <1>3, <1>6, <1>7 DEF q, LimitInv

LEMMA PageReturnsCount == Inv /\ LimitInv /\ PageReturns => LimitInv' /\ Forward
  <1> SUFFICES ASSUME Inv, LimitInv, PageReturns PROVE LimitInv' /\ Forward
    OBVIOUS
  <1>1. PICK n \in Answers(snap.conv, snap.cursor, snap.want) :
          /\ queue' = Moved(queue, snap.conv, snap.cursor + n)
          /\ Iterate(Counted(n), queue', left - 1, scheduled, awaited)
    BY DEF PageReturns, PageOf
  <1>2. pc = "page" /\ UNCHANGED work
    BY DEF PageReturns, PageOf
  <1>3. n \in Nat /\ n <= snap.want /\ snap.want \in Nat
    BY <1>1, <1>2, SnapPage DEF Answers
  <1>4. /\ Unread(queue') /\ queue' \in [Conversation -> Entries]
        /\ \A c \in Conversation : queue'[c].cursor >= queue[c].cursor
    BY <1>1, <1>2, <1>3, MovedCount
  <1>5. /\ Counted(n) \in Jobs /\ Counted(n).status = job.status
        /\ Bounds(Counted(n), job)
        /\ Counted(n).pages = job.pages + 1 /\ Counted(n).seen = job.seen + n
    BY <1>2, <1>3, CountedRow DEF LimitInv, CallInv
  <1>6. /\ job.pages \in Nat /\ job.seen \in Nat
        /\ job.maxPages \in Nat /\ job.maxEvents \in Nat
        /\ job.pages < job.maxPages /\ job.status # "none"
        /\ job.seen + snap.want <= job.maxEvents
    BY <1>2 DEF Inv, SliceTypes, Jobs, LimitInv, CallInv
  <1>7. Within(Counted(n)) /\ Counted(n).status # "none"
    BY <1>3, <1>5, <1>6 DEF Within, Bounds
  <1>8. left - 1 \in 0..SliceLength
    BY <1>2, BackfillAssumption DEF Inv, SliceTypes
  <1>9. RowLimits' /\ CallInv' /\ Counts(job', Counted(n))
    BY <1>1, <1>4, <1>5, <1>7, <1>8, IterateCount DEF Inv, SliceTypes
  <1>10. Forward
    BY <1>3, <1>4, <1>5, <1>6, <1>9 DEF Forward, Counts
  <1>11. QED
    BY <1>2, <1>4, <1>9, <1>10 DEF LimitInv

LEMMA FailureCount ==
  Inv /\ LimitInv /\ (RateLimited \/ CallFails) => LimitInv' /\ Forward
  <1> SUFFICES ASSUME Inv, LimitInv, RateLimited \/ CallFails PROVE LimitInv' /\ Forward
    OBVIOUS
  <1>1. job' \in {Limited(job), Broken(job)} /\ pc' = "off" /\ UNCHANGED <<queue, work>>
    BY DEF RateLimited, CallFails, EndSlice, Limited, Broken
  <1>2. Counts(job', job) /\ Bounds(job', job) /\ job'.status # "none"
    BY <1>1, StatusFields DEF Inv, SliceTypes
  <1>3. QED
    BY <1>1, <1>2, RowCount

LEMMA CrashesCount == Inv /\ LimitInv /\ Crashes => LimitInv' /\ Forward
  <1> SUFFICES ASSUME Inv, LimitInv, Crashes PROVE LimitInv' /\ Forward
    OBVIOUS
  <1>1. pc' = "off" /\ UNCHANGED <<job, work>>
    BY DEF Crashes, Crash, CrashAfterEnqueue, CrashAfterStore, StoredOnly, Restart
  <1>2. /\ Unread(queue')
        /\ \A c \in Conversation : queue'[c].cursor >= queue[c].cursor
    <2>1. ASSUME queue' = queue
          PROVE  /\ Unread(queue')
                 /\ \A c \in Conversation : queue'[c].cursor >= queue[c].cursor
      <3>1. \A c \in Conversation : queue[c].cursor \in Nat
        BY DEF Inv, TableTypes, Entries
      <3>2. QED
        BY <2>1, <3>1 DEF LimitInv
    <2>2. CASE CrashAfterEnqueue
      BY <2>2, EnqueueCount DEF CrashAfterEnqueue, LimitInv
    <2>3. CASE CrashAfterStore
      <3>1. PICK n \in Answers(snap.conv, snap.cursor, snap.want) :
              queue' \in {queue, Moved(queue, snap.conv, snap.cursor + n)}
        BY <2>3 DEF CrashAfterStore, StoredOnly
      <3>2. pc = "page" /\ n \in Nat
        BY <2>3, <3>1, SnapPage DEF CrashAfterStore, StoredOnly, Answers
      <3>3. QED
        BY <3>1, <3>2, MovedCount
    <2>4. QED
      BY <2>1, <2>2, <2>3 DEF Crashes, Crash
  <1>3. job.pages \in Nat /\ job.seen \in Nat
    BY DEF Inv, SliceTypes, Jobs
  <1>4. QED
    BY <1>1, <1>2, <1>3 DEF LimitInv, RowLimits, CallInv, Forward

LEMMA LimitsCount == Inv /\ LimitInv /\ SetLimits => LimitInv' /\ Forward
  <1> SUFFICES ASSUME Inv, LimitInv, NEW e \in EventLimits, NEW p \in PageLimits,
                      CreateJob(e, p) \/ RaiseLimits(e, p)
               PROVE  LimitInv' /\ Forward
    BY DEF SetLimits
  <1>1. job \in Jobs /\ e \in Nat /\ p \in Nat
    BY BackfillAssumption DEF Inv, SliceTypes
  <1>2. UNCHANGED <<queue, work, pc, snap>>
    BY DEF CreateJob, RaiseLimits, sliceVars
  <1>3. /\ Counts(job', job) /\ job'.maxPages = p /\ job'.maxEvents = e
        /\ job'.status = "none" => job.status = "none"
    <2>1. CASE job' = Created(job, e, p)
      <3>1. /\ Counts(Created(job, e, p), job) /\ Created(job, e, p).status = "pending"
            /\ Created(job, e, p).maxPages = p /\ Created(job, e, p).maxEvents = e
        BY <1>1, LimitFields
      <3>2. QED
        BY <2>1, <3>1
    <2>2. CASE job' = Raised(job, e, p)
      <3>1. /\ Counts(Raised(job, e, p), job) /\ Raised(job, e, p).status = job.status
            /\ Raised(job, e, p).maxPages = p /\ Raised(job, e, p).maxEvents = e
        BY <1>1, LimitFields
      <3>2. QED
        BY <2>2, <3>1
    <2>3. CASE job' = Resumed(Raised(job, e, p))
      <3>1. /\ Raised(job, e, p) \in Jobs /\ Counts(Raised(job, e, p), job)
            /\ Raised(job, e, p).maxPages = p /\ Raised(job, e, p).maxEvents = e
        BY <1>1, LimitFields
      <3>2. /\ Counts(job', Raised(job, e, p)) /\ Bounds(job', Raised(job, e, p))
            /\ job'.status # "none"
        BY <2>3, <3>1, StatusFields
      <3>3. QED
        BY <3>1, <3>2 DEF Counts, Bounds
    <2>4. QED
      BY <2>1, <2>2, <2>3 DEF CreateJob, RaiseLimits, Created, Raised, Resumed
  <1>4. /\ job.pages \in Nat /\ job.seen \in Nat
        /\ job.maxPages \in Nat /\ job.maxEvents \in Nat /\ snap.want \in Nat
        /\ \A c \in Conversation : queue[c].cursor \in Nat
    BY <1>1 DEF Inv, SliceTypes, TableTypes, Jobs, Calls, Entries
  <1>5. \/ job.status = "none" /\ job.pages = 0 /\ job.seen = 0 /\ pc = "off"
        \/ e >= job.maxEvents /\ p >= job.maxPages
    BY DEF CreateJob, RaiseLimits, LimitInv, RowLimits, CallInv, Inv, SliceTypes
  <1>6. RowLimits' /\ CallInv'
    BY <1>1, <1>2, <1>3, <1>4, <1>5 DEF LimitInv, RowLimits, Within, CallInv, Counts
  <1>7. Forward
    BY <1>2, <1>3, <1>4 DEF Forward, Counts
  <1>8. QED
    BY <1>2, <1>6, <1>7 DEF LimitInv

LEMMA OtherCount ==
  /\ Inv /\ LimitInv /\ (StartWorkers \/ Arrives \/ UNCHANGED vars) => LimitInv' /\ Forward
  /\ LimitInv => ~PostPage
  <1>1. ASSUME Inv, LimitInv, StartWorkers \/ Arrives \/ UNCHANGED vars
        PROVE  LimitInv' /\ Forward
    <2>1. UNCHANGED <<job, queue, pc, snap, work>>
      BY <1>1 DEF StartWorkers, Arrives, vars, sliceVars
    <2>2. QED
      BY <1>1, <2>1, RowCount DEF Counts, Bounds
  <1>2. QED
    BY <1>1 DEF LimitInv, PostPage, Posted

LEMMA LimitStep ==
  ASSUME Inv, LimitInv, [Next]_vars, "pages" \notin clients
  PROVE  LimitInv' /\ Forward
  <1>1. ~TakeWork
    BY DEF TakeWork
  <1>2. QED
    BY <1>1, TimerCount, ListReturnsCount, PageReturnsCount, FailureCount,
       CrashesCount, LimitsCount, OtherCount
    DEF Next, Slice

LEMMA LimitAlways == Spec => []("pages" \notin clients => LimitInv)
  <1>1. Init => LimitInv
    <2>1. ASSUME Init PROVE RowLimits /\ CallInv /\ Unread(queue) /\ work = None
      BY <2>1 DEF Init, RowLimits, Within, CallInv, Unread
    <2>2. QED
      BY <2>1 DEF LimitInv
  <1>2. Inv /\ ("pages" \notin clients => LimitInv) /\ [Next]_vars
          => ("pages" \notin clients => LimitInv)'
    BY LimitStep, ClientsFixed
  <1>3. QED
    BY <1>1, <1>2, InvAlways, PTL DEF Spec

\* Slices never count more pages or events than the job allows, wherever a
\* crash interrupts them and whatever limits are raised while they wait.
THEOREM SlicesStayWithin == Spec => []WithinLimits
  <1>1. ("pages" \notin clients => LimitInv) => WithinLimits
    BY DEF LimitInv, RowLimits, Within, WithinLimits
  <1>2. QED
    BY <1>1, LimitAlways, PTL

\* No slice, crash or change of limits takes a checkpoint or a counter back.
THEOREM SlicesGoForward == Spec => NeverBackwards
  <1>1. /\ Inv /\ ("pages" \notin clients => LimitInv) /\ [Next]_vars
        => [("pages" \notin clients) =>
              /\ job'.pages >= job.pages /\ job'.seen >= job.seen
              /\ \A c \in Conversation : queue'[c].cursor >= queue[c].cursor]_vars
    BY LimitStep DEF Forward
  <1>2. QED
    BY <1>1, InvAlways, LimitAlways, PTL DEF Spec, NeverBackwards

-----------------------------------------------------------------------------
(* Events are charged once *)

SumOk(n, q) == IsFiniteSet(Passed(q)) /\ n <= Cardinality(Passed(q))

LEMMA PassedPairs ==
  ASSUME NEW q, NEW p
  PROVE  p \in Passed(q) <=>
           \E c \in Conversation : \E i \in 1..q[c].cursor : p = <<c, i>>
  BY DEF Passed

\* Checkpoints that stay where they are.
LEMMA PassedSame ==
  ASSUME NEW q, NEW r, \A c \in Conversation : q[c].cursor = r[c].cursor
  PROVE  Passed(q) = Passed(r)
  <1>1. ASSUME NEW p PROVE p \in Passed(q) <=> p \in Passed(r)
    BY PassedPairs
  <1>2. QED
    BY <1>1

\* A checkpoint that moves by n events passes exactly n more.
LEMMA PassedMoved ==
  ASSUME NEW q, NEW r, NEW c \in Conversation, NEW k \in Nat, NEW n \in Nat,
         q[c].cursor = k, r[c].cursor = k + n,
         \A d \in Conversation \ {c} : q[d].cursor = r[d].cursor,
         IsFiniteSet(Passed(q))
  PROVE  /\ IsFiniteSet(Passed(r))
         /\ Cardinality(Passed(r)) = Cardinality(Passed(q)) + n
         /\ Cardinality(Passed(q)) \in Nat
  <1> DEFINE I == (k + 1)..(k + n)
             N == {c} \X I
  <1>1. IsFiniteSet(I) /\ Cardinality(I) = n
    BY FS_Interval
  <1>2. IsFiniteSet({c}) /\ Cardinality({c}) = 1
    BY FS_Singleton
  <1>3. IsFiniteSet(N) /\ Cardinality(N) = n
    <2> HIDE DEF I
    <2>1. IsFiniteSet(N) /\ Cardinality(N) = Cardinality({c}) * Cardinality(I)
      BY <1>1, <1>2, FS_Product
    <2>2. QED
      BY <1>1, <1>2, <2>1
  <1>4. ASSUME NEW p PROVE p \in N <=> \E i \in (k + 1)..(k + n) : p = <<c, i>>
    OBVIOUS
  <1> HIDE DEF N, I
  <1>5. ASSUME NEW p PROVE p \in Passed(r) <=> p \in Passed(q) \/ p \in N
    <2>1. \A i \in 1..(k + n) : i \in 1..k \/ i \in (k + 1)..(k + n)
      OBVIOUS
    <2>2. /\ \A i \in 1..k : i \in 1..(k + n)
          /\ \A i \in (k + 1)..(k + n) : i \in 1..(k + n)
      OBVIOUS
    <2>3. ASSUME p \in Passed(r) PROVE p \in Passed(q) \/ p \in N
      <3>1. PICK d \in Conversation : \E i \in 1..r[d].cursor : p = <<d, i>>
        BY <2>3, PassedPairs
      <3>2. CASE d = c
        BY <1>4, <2>1, <3>1, <3>2, PassedPairs
      <3>3. CASE d # c
        BY <3>1, <3>3, PassedPairs
      <3>4. QED
        BY <3>2, <3>3
    <2>4. ASSUME p \in Passed(q) PROVE p \in Passed(r)
      <3>1. PICK d \in Conversation : \E i \in 1..q[d].cursor : p = <<d, i>>
        BY <2>4, PassedPairs
      <3>2. \E i \in 1..r[d].cursor : p = <<d, i>>
        BY <2>2, <3>1
      <3>3. QED
        BY <3>2, PassedPairs
    <2>5. ASSUME p \in N PROVE p \in Passed(r)
      BY <1>4, <2>2, <2>5, PassedPairs
    <2>6. QED
      BY <2>3, <2>4, <2>5
  <1>6. Passed(r) = Passed(q) \cup N
    BY <1>5
  <1>7. Passed(q) \cap N = {}
    <2>1. ASSUME NEW p \in Passed(q), p \in N PROVE FALSE
      <3>1. PICK d \in Conversation : \E i \in 1..q[d].cursor : p = <<d, i>>
        BY PassedPairs
      <3>2. PICK i \in 1..q[d].cursor : p = <<d, i>>
        BY <3>1
      <3>3. PICK j \in (k + 1)..(k + n) : p = <<c, j>>
        BY <1>4, <2>1
      <3>4. d = c /\ i = j
        BY <3>2, <3>3
      <3>5. QED
        BY <3>2, <3>3, <3>4
    <2>2. QED
      BY <2>1
  <1>8. /\ IsFiniteSet(Passed(r))
        /\ Cardinality(Passed(r)) =
             Cardinality(Passed(q)) + Cardinality(N) - Cardinality(Passed(q) \cap N)
    BY <1>3, <1>6, FS_Union
  <1>9. Cardinality(Passed(q)) \in Nat /\ Cardinality(Passed(q) \cap N) = 0
    BY <1>7, FS_CardinalityType, FS_EmptySet
  <1>10. QED
    BY <1>3, <1>8, <1>9

\* A page is counted with the events that its checkpoint passes, or, after a
\* crash, not yet.
LEMMA MovedSum ==
  ASSUME Inv, LimitInv, SumOk(job.seen, queue), pc = "page", NEW n \in Nat,
         queue' = Moved(queue, snap.conv, snap.cursor + n)
  PROVE  SumOk(job.seen + n, queue') /\ SumOk(job.seen, queue')
  <1>1. /\ snap.conv \in Conversation /\ snap.cursor = queue[snap.conv].cursor
        /\ queue \in [Conversation -> Entries] /\ job.seen \in Nat
    BY DEF LimitInv, CallInv, Inv, TableTypes, SliceTypes, Jobs
  <1>2. snap.cursor \in Nat /\ snap.cursor + n \in Nat
    BY <1>1 DEF Entries
  <1>3. /\ queue'[snap.conv].cursor = snap.cursor + n
        /\ \A d \in Conversation \ {snap.conv} : queue'[d] = queue[d]
    BY <1>1, <1>2, MovedType
  <1>4. /\ IsFiniteSet(Passed(queue'))
        /\ Cardinality(Passed(queue')) = Cardinality(Passed(queue)) + n
        /\ Cardinality(Passed(queue)) \in Nat
    BY <1>1, <1>2, <1>3, PassedMoved DEF SumOk
  <1>5. QED
    BY <1>1, <1>4 DEF SumOk

\* A list page moves no checkpoint.
LEMMA EnqueueSum ==
  ASSUME Unread(queue), SumOk(job.seen, queue), NEW page, queue' = Enqueued(queue, page)
  PROVE  SumOk(job.seen, queue')
  <1>1. \A c \in Conversation : queue[c].cursor = queue'[c].cursor
    BY DEF Enqueued, Unread
  <1>2. QED
    BY <1>1, PassedSame DEF SumOk

LEMMA IterateSeen ==
  ASSUME NEW j \in Jobs, NEW q, NEW n, NEW timer, NEW waits, Iterate(j, q, n, timer, waits)
  PROVE  job'.seen = j.seen
  BY IterateJob, StatusFields, CompletedFields DEF Counts

\* Steps that move no checkpoint and count nothing.
LEMMA OtherSeen ==
  ASSUME Inv, TimerFires \/ RunNow \/ RateLimited \/ CallFails \/ SetLimits \/ Crash
              \/ StartWorkers \/ Arrives \/ UNCHANGED vars
  PROVE  job'.seen = job.seen /\ UNCHANGED queue
  <1>1. job \in Jobs
    BY DEF Inv, SliceTypes
  <1>2. ASSUME NEW timer, NEW waits, RunJob(timer, waits) PROVE job'.seen = job.seen
    <2>1. Begun(job) \in Jobs /\ Begun(job).seen = job.seen /\ Paused(job).seen = job.seen
      BY <1>1, StatusFields DEF Counts
    <2>2. CASE Iterate(Begun(job), queue, SliceLength, timer, waits)
      BY <2>1, <2>2, IterateSeen
    <2>3. CASE ~Iterate(Begun(job), queue, SliceLength, timer, waits)
      BY <1>2, <2>1, <2>3 DEF RunJob, EndSlice, Begun
    <2>4. QED
      BY <2>2, <2>3
  <1>3. CASE TimerFires \/ RunNow
    BY <1>2, <1>3 DEF TimerFires, RunNow
  <1>4. CASE RateLimited \/ CallFails
    <2>1. job' \in {Limited(job), Broken(job)} /\ UNCHANGED queue
      BY <1>4 DEF RateLimited, CallFails, EndSlice, Limited, Broken
    <2>2. QED
      BY <1>1, <2>1, StatusFields DEF Counts
  <1>5. CASE SetLimits
    BY <1>1, <1>5 DEF SetLimits, CreateJob, RaiseLimits, Jobs
  <1>6. CASE Crash \/ StartWorkers \/ Arrives \/ UNCHANGED vars
    BY <1>6 DEF Crash, StartWorkers, Arrives, vars
  <1>7. QED
    BY <1>3, <1>4, <1>5, <1>6

LEMMA SumStep ==
  ASSUME Inv, LimitInv, SumOk(job.seen, queue), [Next]_vars, "pages" \notin clients
  PROVE  SumOk(job'.seen, queue')
  <1>1. CASE ListReturns
    <2>1. /\ pc = "list" /\ queue' = Enqueued(queue, ListPages[snap.cursor + 1])
          /\ Iterate(Listed(snap.cursor + 1), queue', left - 1, scheduled, awaited)
      BY <1>1 DEF ListReturns
    <2>2. PICK p \in Nat, c \in Nat, g \in {"conversations", "events"} :
            Listed(snap.cursor + 1) = Turned(job, p, c, g)
      BY <2>1, ListedRow
    <2>3. job \in Jobs /\ (g = "conversations" \/ g = "events")
      BY DEF Inv, SliceTypes
    <2>4. Turned(job, p, c, g) \in Jobs /\ Turned(job, p, c, g).seen = job.seen
      BY <2>3, TurnedFields
    <2>5. job'.seen = job.seen
      BY <2>1, <2>2, <2>4, IterateSeen
    <2>6. QED
      BY <2>1, <2>5, EnqueueSum DEF LimitInv
  <1>2. CASE PageReturns
    <2>1. PICK n \in Answers(snap.conv, snap.cursor, snap.want) :
            /\ queue' = Moved(queue, snap.conv, snap.cursor + n)
            /\ Iterate(Counted(n), queue', left - 1, scheduled, awaited)
      BY <1>2 DEF PageReturns, PageOf
    <2>2. pc = "page"
      BY <1>2 DEF PageReturns, PageOf
    <2>3. n \in Nat
      BY <2>1, <2>2, SnapPage DEF Answers
    <2>4. Counted(n) \in Jobs /\ Counted(n).seen = job.seen + n
      BY <2>2, <2>3, CountedRow DEF LimitInv, CallInv
    <2>5. job'.seen = job.seen + n
      BY <2>1, <2>4, IterateSeen
    <2>6. QED
      BY <2>1, <2>2, <2>3, <2>5, MovedSum
  <1>3. CASE CrashAfterEnqueue
    BY <1>3, EnqueueSum DEF CrashAfterEnqueue, LimitInv
  <1>4. CASE CrashAfterStore
    <2>1. PICK n \in Answers(snap.conv, snap.cursor, snap.want) :
            queue' \in {queue, Moved(queue, snap.conv, snap.cursor + n)}
      BY <1>4 DEF CrashAfterStore, StoredOnly
    <2>2. pc = "page" /\ UNCHANGED job
      BY <1>4 DEF CrashAfterStore, StoredOnly
    <2>3. n \in Nat
      BY <2>1, <2>2, SnapPage DEF Answers
    <2>4. QED
      BY <2>1, <2>2, <2>3, MovedSum
  <1>5. CASE TimerFires \/ RunNow \/ RateLimited \/ CallFails \/ SetLimits \/ Crash
             \/ StartWorkers \/ Arrives \/ UNCHANGED vars
    BY <1>5, OtherSeen
  <1>6. ~TakeWork /\ ~PostPage
    BY OtherCount DEF TakeWork
  <1>7. QED
    BY <1>1, <1>2, <1>3, <1>4, <1>5, <1>6 DEF Next, Slice, Crashes

\* Every event that a job was charged for lies behind a checkpoint: a page that
\* a crash makes a slice read again is charged once.
THEOREM EventsChargedOnce == Spec => []ChargedOnce
  <1> DEFINE Charged == "pages" \notin clients => SumOk(job.seen, queue)
  <1>1. Init => Charged
    <2>1. ASSUME Init PROVE Passed(queue) = {} /\ job.seen = 0
      <3>1. \A c \in Conversation : queue[c].cursor = 0
        BY <2>1 DEF Init
      <3>2. \A p : p \notin Passed(queue)
        BY <3>1, PassedPairs
      <3>3. QED
        BY <2>1, <3>2 DEF Init
    <2>2. QED
      BY <2>1, FS_EmptySet DEF SumOk
  <1>2. /\ Inv /\ ("pages" \notin clients => LimitInv) /\ Charged /\ [Next]_vars
        => Charged'
    BY SumStep, ClientsFixed
  <1>3. Charged => ChargedOnce
    BY DEF SumOk, ChargedOnce
  <1> HIDE DEF Charged
  <1>4. QED
    BY <1>1, <1>2, <1>3, InvAlways, LimitAlways, PTL DEF Spec
=============================================================================
