--------------------------- MODULE XChatBackfill ----------------------------
(***************************************************************************)
(* One archive backfill job: its row and its queue of conversations in     *)
(* XChatCache (src/xchat-cache.js), the slices in which XChatSync          *)
(* (src/xchat-sync.js) works on it, and the HTTP client that may fetch     *)
(* pages itself and post them with a compare-and-set checkpoint.           *)
(*                                                                         *)
(* A cursor is the number of events of the conversation's archive that the *)
(* pages up to it contain, 0 for null.  A slice runs to completion between *)
(* two API calls, but commits several times: a crash may come between any  *)
(* two of its commits.                                                     *)
(*                                                                         *)
(* External: the X API lists conversations in ListPages, answers an event  *)
(* read of at most m results with 1..m of the events that follow the       *)
(* cursor, and may fail, with a rate limit or otherwise.                   *)
(***************************************************************************)
EXTENDS Integers, Sequences, FiniteSets

CONSTANTS
  Conversation,
  None,
  Archive,        \* number of events in a conversation's archive
  ListPages,      \* pages of the conversation list, each a sequence of ids
  PageSize,       \* most events of one read (100 in the code)
  SliceLength,    \* API requests of one slice (10 in the code)
  EventLimits,    \* values of max_events a client chooses
  PageLimits,     \* values of max_pages a client chooses
  Clients,        \* what clients may do: any of these sets of "runs" (POST to
                  \* the job to run a slice) and "pages" (fetch them themselves)
  CountBound      \* bound on pages_fetched for the client's checkpoints

ASSUME BackfillAssumption ==
  /\ IsFiniteSet(Conversation) /\ None \notin Conversation
  /\ Archive \in [Conversation -> Nat]
  /\ ListPages \in Seq(Seq(Conversation)) /\ ListPages # <<>>
  /\ PageSize \in Nat \ {0} /\ SliceLength \in Nat \ {0}
  /\ EventLimits \subseteq Nat \ {0} /\ PageLimits \subseteq Nat \ {0}
  /\ Clients \subseteq SUBSET {"runs", "pages"}
  /\ CountBound \in Nat

VARIABLES
  job,        \* xchat_backfill_jobs: the row of the job
  queue,      \* xchat_backfill_job_conversations: the rows of its queue
  stored,     \* xchat_events: events of each archive, by position
  \* The running slice: the call it awaits, the requests it has left, and
  \* what it read from the tables before the call.
  pc, left, snap,
  \* XChatSync: the timer of the job; whether a timer callback awaits the slice
  scheduled, awaited,
  resumed,    \* startXChatWorkers has resumed jobs since the process started
  work,       \* the work item a client holds
  clients     \* what the clients of this behaviour do; it never changes

sliceVars == <<pc, left, snap, awaited>>
vars == <<job, queue, stored, sliceVars, scheduled, resumed, work, clients>>

Jobs ==
  [status : {"none", "pending", "running", "paused", "completed", "failed"},
   stage : {"conversations", "events", "complete"},
   maxEvents : Nat, maxPages : Nat, pages : Nat, seen : Nat, unique : Nat,
   cursor : Nat, error : {"none", "limit", "rate", "error"}]

Entries == [status : {"absent", "pending", "running", "completed"},
            cursor : Nat, position : Nat]

\* An API call in flight: the conversation and cursor it reads, how many
\* events it asks for, and the job's counters as they were before.
Calls == [conv : Conversation \cup {None}, cursor : Nat, want : Nat,
          pages : Nat, seen : Nat, unique : Nat]

NoCall == [conv |-> None, cursor |-> 0, want |-> 0,
           pages |-> 0, seen |-> 0, unique |-> 0]

Items == [conv : Conversation, cursor : Nat, want : Nat]

BackfillTypeOK ==
  /\ job \in Jobs
  /\ queue \in [Conversation -> Entries]
  /\ stored \in [Conversation -> SUBSET Nat]
  /\ \A c \in Conversation : stored[c] \subseteq 1..Archive[c]
  /\ pc \in {"off", "list", "page"}
  /\ left \in 0..SliceLength
  /\ snap \in Calls
  /\ scheduled \in {"no", "soon", "later"}
  /\ awaited \in BOOLEAN /\ resumed \in BOOLEAN
  /\ work \in Items \cup {None}
  /\ clients \in Clients

Init ==
  /\ job = [status |-> "none", stage |-> "conversations",
            maxEvents |-> 0, maxPages |-> 0, pages |-> 0, seen |-> 0,
            unique |-> 0, cursor |-> 0, error |-> "none"]
  /\ queue = [c \in Conversation |->
                [status |-> "absent", cursor |-> 0, position |-> 0]]
  /\ stored = [c \in Conversation |-> {}]
  /\ pc = "off" /\ left = 0 /\ snap = NoCall /\ awaited = FALSE
  /\ scheduled = "no" /\ resumed = FALSE
  /\ work = None
  /\ clients \in Clients

-----------------------------------------------------------------------------
(* The tables *)

Least(a, b) == IF a < b THEN a ELSE b
Most(a, b)  == IF a < b THEN b ELSE a

\* Mutant: a job interrupted in the middle of a slice is not resumed.
NotStarted(j) == j.status = "pending"

Incomplete(j) == j.status \in {"pending", "running"}

\* Mutant: the limit is noticed only once it was exceeded.
LimitExceeded(j) == j.pages > j.maxPages \/ j.seen > j.maxEvents

LimitReached(j) == j.pages >= j.maxPages \/ j.seen >= j.maxEvents

Paused(j)    == [j EXCEPT !.status = "paused", !.error = "limit"]
Completed(j) == [j EXCEPT !.status = "completed", !.stage = "complete",
                          !.error = "none"]

\* Mutant: a conversation read in part is not taken up again.
Untouched(q) == {c \in Conversation : q[c].status = "pending"}

\* status IN ('pending', 'running') ORDER BY position LIMIT 1
Open(q) == {c \in Conversation : q[c].status \in {"pending", "running"}}

Heads(q) == {c \in Open(q) : \A d \in Open(q) : q[c].position <= q[d].position}

Room(j) == Least(PageSize, Most(1, j.maxEvents - j.seen))

\* The n events that follow a cursor, and the rows INSERT OR IGNORE adds.
Page(first, n) == (first + 1)..(first + n)

Fresh(c, first, n) == Cardinality(Page(first, n) \ stored[c])

Store(c, first, n) == stored' = [stored EXCEPT ![c] = @ \cup Page(first, n)]

\* What the API may answer to a read: some events, unless there are no more.
Answers(c, first, want) ==
  {n \in 0..want : /\ n <= Archive[c] - first
                   /\ n = 0 => first = Archive[c]}

AtEnd(c, offset) == offset = Archive[c]

Moved(q, c, offset) ==
  [q EXCEPT ![c].cursor = offset,
            ![c].status = IF AtEnd(c, offset) THEN "completed" ELSE "running"]

-----------------------------------------------------------------------------
(* Slices *)

\* The slice is over: a timer callback that awaits it schedules the next one,
\* unless the job has a timer already.
EndSlice(j, timer, waits) ==
  /\ job' = j
  /\ pc' = "off" /\ left' = 0 /\ snap' = NoCall /\ awaited' = FALSE
  /\ scheduled' = IF timer = "no" /\ waits /\ Incomplete(j)
                  THEN IF j.error = "rate" THEN "later" ELSE "soon"
                  ELSE timer

Call(kind, c, j, q, n, timer, waits) ==
  /\ job' = j
  /\ pc' = kind /\ left' = n /\ awaited' = waits /\ scheduled' = timer
  /\ snap' = [conv |-> c, cursor |-> IF c = None THEN j.cursor ELSE q[c].cursor,
              want |-> Room(j),
              pages |-> j.pages, seen |-> j.seen, unique |-> j.unique]

\* Mutant of Iterate: the loop does not count its requests.
IterateUncounted(j, q, n, timer, waits) ==
  \/ LimitReached(j) /\ EndSlice(Paused(j), timer, waits)
  \/ /\ ~LimitReached(j)
     /\ \/ j.stage = "conversations" /\ Call("list", None, j, q, n, timer, waits)
        \/ /\ j.stage = "events"
           /\ \E c \in Heads(q) : Call("page", c, j, q, n, timer, waits)
        \/ /\ j.stage = "complete" \/ (j.stage = "events" /\ Open(q) = {})
           /\ EndSlice(Completed(j), timer, waits)

\* The loop of runJob with n requests left, job row j and queue q.
Iterate(j, q, n, timer, waits) ==
  \/ n = 0 /\ EndSlice(j, timer, waits)
  \/ n > 0 /\ LimitReached(j) /\ EndSlice(Paused(j), timer, waits)
  \/ /\ n > 0 /\ ~LimitReached(j)
     /\ \/ j.stage = "conversations" /\ Call("list", None, j, q, n, timer, waits)
        \/ /\ j.stage = "events"
           /\ \E c \in Heads(q) : Call("page", c, j, q, n, timer, waits)
        \/ /\ j.stage = "complete" \/ (j.stage = "events" /\ Open(q) = {})
           /\ EndSlice(Completed(j), timer, waits)

\* runJob: single flight; completed and paused jobs are left alone, a job at
\* its limit is paused, any other one runs.
RunJob(timer, waits) ==
  \/ /\ pc # "off"
     /\ awaited' = (awaited \/ waits) /\ scheduled' = timer
     /\ UNCHANGED <<job, pc, left, snap>>
  \/ /\ pc = "off" /\ job.status \in {"completed", "paused"}
     /\ EndSlice(job, timer, waits)
  \/ /\ pc = "off" /\ job.status \in {"pending", "running", "failed"}
     /\ IF LimitReached(job) THEN EndSlice(Paused(job), timer, waits)
        ELSE Iterate([job EXCEPT !.status = "running", !.error = "none"],
                     queue, SliceLength, timer, waits)

TimerFires ==
  /\ scheduled # "no"
  /\ RunJob("no", TRUE)
  /\ UNCHANGED <<queue, stored, resumed, work, clients>>

\* POST .../backfill-jobs/{id}: nobody schedules what this slice leaves over.
RunNow ==
  /\ "runs" \in clients
  /\ job.status # "none"
  /\ RunJob(scheduled, FALSE)
  /\ UNCHANGED <<queue, stored, resumed, work, clients>>

\* addBackfillJobConversations: unknown conversations go to the end of the
\* queue, in the order of the page.  Positions are 1, 2, ... without gaps.
Enqueued(q, page) ==
  LET known == {c \in Conversation : q[c].status # "absent"}
      UpTo(c) == {page[k] : k \in {i \in 1..Len(page) : \A j \in 1..(i - 1) : page[j] # c}}
  IN [c \in Conversation |->
        IF c \notin known /\ \E i \in 1..Len(page) : page[i] = c
        THEN [status |-> "pending", cursor |-> 0,
              position |-> Cardinality(known \cup UpTo(c))]
        ELSE q[c]]

\* The page of the conversation list arrived: two commits, then the loop.
Listed(n) ==
  LET end == n >= Len(ListPages)
  IN [job EXCEPT !.pages = snap.pages + 1,
                 !.cursor = IF end THEN 0 ELSE n,
                 !.stage = IF end THEN "events" ELSE "conversations"]

ListReturns ==
  /\ pc = "list"
  /\ LET n == snap.cursor + 1
         q == Enqueued(queue, ListPages[n])
     IN /\ queue' = q
        /\ Iterate(Listed(n), q, left - 1, scheduled, awaited)
  /\ UNCHANGED <<stored, resumed, work, clients>>

\* A page of n events arrived: the events are stored, the conversation's
\* cursor moves, and the counters are written from what the slice had read.
Counted(n) ==
  [job EXCEPT !.pages = snap.pages + 1,
              !.seen = snap.seen + n,
              !.unique = snap.unique + Fresh(snap.conv, snap.cursor, n)]

PageOf(n) ==
  LET q == Moved(queue, snap.conv, snap.cursor + n)
  IN /\ Store(snap.conv, snap.cursor, n)
     /\ queue' = q
     /\ Iterate(Counted(n), q, left - 1, scheduled, awaited)
     /\ UNCHANGED <<resumed, work, clients>>

PageReturns ==
  pc = "page" /\ \E n \in Answers(snap.conv, snap.cursor, snap.want) : PageOf(n)

\* The API call failed: with a rate limit the job waits for its timer, and
\* any other error fails it.
RateLimited ==
  /\ pc # "off"
  /\ LET timer == IF scheduled = "no" THEN "later" ELSE scheduled
     IN EndSlice([job EXCEPT !.status = "pending", !.error = "rate"],
                 timer, awaited)
  /\ UNCHANGED <<queue, stored, resumed, work, clients>>

CallFails ==
  /\ pc # "off"
  /\ EndSlice([job EXCEPT !.status = "failed", !.error = "error"],
              scheduled, awaited)
  /\ UNCHANGED <<queue, stored, resumed, work, clients>>

-----------------------------------------------------------------------------
(* Crashes *)

Restart ==
  /\ pc' = "off" /\ left' = 0 /\ snap' = NoCall /\ awaited' = FALSE
  /\ scheduled' = "no" /\ resumed' = FALSE
  /\ UNCHANGED <<work, clients>>

Crash == Restart /\ UNCHANGED <<job, queue, stored>>

\* Between the commits of a list page, and of an event page.
CrashAfterEnqueue ==
  /\ pc = "list"
  /\ queue' = Enqueued(queue, ListPages[snap.cursor + 1])
  /\ Restart /\ UNCHANGED <<job, stored>>

\* Mutants: the cursor moves before the events are stored; the counters are
\* written before the cursor moves.
CrashAfterMove ==
  /\ pc = "page"
  /\ \E n \in Answers(snap.conv, snap.cursor, snap.want) :
       queue' = Moved(queue, snap.conv, snap.cursor + n)
  /\ Restart /\ UNCHANGED <<job, stored>>

CrashAfterCount ==
  /\ pc = "page"
  /\ \E n \in Answers(snap.conv, snap.cursor, snap.want) :
       Store(snap.conv, snap.cursor, n) /\ job' = Counted(n)
  /\ Restart /\ UNCHANGED queue

StoredOnly(n) ==
  /\ Store(snap.conv, snap.cursor, n)
  /\ \/ UNCHANGED queue
     \/ queue' = Moved(queue, snap.conv, snap.cursor + n)
  /\ Restart /\ UNCHANGED job

CrashAfterStore ==
  pc = "page" /\ \E n \in Answers(snap.conv, snap.cursor, snap.want) : StoredOnly(n)

\* startXChatWorkers, once the decryptor is ready.
StartWorkers ==
  /\ ~resumed /\ resumed' = TRUE
  /\ scheduled' = IF scheduled = "no" /\ Incomplete(job) THEN "soon" ELSE scheduled
  /\ UNCHANGED <<job, queue, stored, sliceVars, work, clients>>

-----------------------------------------------------------------------------
(* HTTP *)

CreateJob(e, p) ==
  /\ job.status = "none"
  /\ job' = [job EXCEPT !.status = "pending", !.maxEvents = e, !.maxPages = p]
  /\ scheduled' = "soon"
  /\ UNCHANGED <<queue, stored, sliceVars, resumed, work, clients>>

\* Mutant: the job starts again from its first page.
RestartWithLimits(e, p) ==
  /\ job.status # "none" /\ e >= job.maxEvents /\ p >= job.maxPages
  /\ job' = [job EXCEPT !.status = "pending", !.maxEvents = e, !.maxPages = p,
                         !.pages = 0, !.error = "none"]
  /\ scheduled' = IF scheduled = "no" THEN "soon" ELSE scheduled
  /\ UNCHANGED <<queue, stored, sliceVars, resumed, work, clients>>

\* PATCH: limits are never lowered, and a job that was paused by them resumes.
RaiseLimits(e, p) ==
  /\ job.status # "none" /\ e >= job.maxEvents /\ p >= job.maxPages
  /\ LET raised == [job EXCEPT !.maxEvents = e, !.maxPages = p]
     IN job' = IF job.status = "paused" /\ job.error = "limit"
               THEN [raised EXCEPT !.status = "pending", !.error = "none"]
               ELSE raised
  /\ scheduled' = IF scheduled = "no" THEN "soon" ELSE scheduled
  /\ UNCHANGED <<queue, stored, sliceVars, resumed, work, clients>>

\* GET .../status: the work item a client may fetch.
TakeWork ==
  /\ "pages" \in clients /\ work = None
  /\ job.stage = "events" /\ Incomplete(job)
  /\ \E c \in Heads(queue) :
       work' = [conv |-> c, cursor |-> queue[c].cursor, want |-> Room(job)]
  /\ UNCHANGED <<job, queue, stored, sliceVars, scheduled, resumed, clients>>

Accepts(c, expected) ==
  /\ job.stage = "events" /\ Incomplete(job)
  /\ c \in Heads(queue) /\ queue[c].cursor = expected

\* POST /xchat/cache/backfill with a checkpoint: the page is stored, then the
\* checkpoint is compared and set, or refused with 409.
Posted(n) ==
  LET c == work.conv
      q == Moved(queue, c, work.cursor + n)
      counted == [job EXCEPT !.pages = @ + 1, !.seen = @ + n,
                             !.unique = @ + Fresh(c, work.cursor, n),
                             !.error = "none"]
      done == \A d \in Conversation : q[d].status \in {"absent", "completed"}
  IN /\ Store(c, work.cursor, n)
     /\ \/ /\ Accepts(c, work.cursor)
           /\ queue' = q
           /\ job' = IF done THEN Completed(counted) ELSE counted
        \/ ~Accepts(c, work.cursor) /\ UNCHANGED <<job, queue>>
     /\ work' = None
     /\ UNCHANGED <<sliceVars, scheduled, resumed, clients>>

PostPage ==
  /\ work # None /\ job.pages < CountBound
  /\ \E n \in Answers(work.conv, work.cursor, work.want) : Posted(n)

\* Webhooks, and pages without a checkpoint, bring events of archives too.
Arrives ==
  /\ \E N \in SUBSET UNION {{c} \X (1..Archive[c]) : c \in Conversation} :
       stored' = [c \in Conversation |->
                    stored[c] \cup {i \in 1..Archive[c] : <<c, i>> \in N}]
  /\ UNCHANGED <<job, queue, sliceVars, scheduled, resumed, work, clients>>

-----------------------------------------------------------------------------
SetLimits == \E e \in EventLimits, p \in PageLimits : CreateJob(e, p) \/ RaiseLimits(e, p)

Slice == ListReturns \/ PageReturns \/ RateLimited \/ CallFails

Crashes == Crash \/ CrashAfterEnqueue \/ CrashAfterStore

Next == \/ SetLimits \/ RunNow \/ TakeWork \/ PostPage \/ Arrives
        \/ TimerFires \/ Slice \/ StartWorkers
        \/ Crashes

Spec == Init /\ [][Next]_vars

\* Timers fire, API calls settle, and the workers of a process start.
FairSpec == Spec /\ WF_vars(TimerFires) /\ WF_vars(Slice) /\ WF_vars(StartWorkers)
-----------------------------------------------------------------------------
(* Properties *)

\* A cursor never runs ahead of what is stored, whatever commit a crash or a
\* client's page falls behind: no event of an archive is skipped.
CheckpointBehindIngestion ==
  \A c \in Conversation :
    /\ 1..queue[c].cursor \subseteq stored[c]
    /\ queue[c].status = "completed" => stored[c] = 1..Archive[c]

Listing == UNION {{ListPages[i][k] : k \in 1..Len(ListPages[i])} : i \in 1..Len(ListPages)}

\* A job that reports "completed" has read every conversation of the list to
\* its end: it is not taken for complete because a limit, a failure or a crash
\* left the queue empty or a conversation half read.
CompletedMeansRead ==
  job.status = "completed" => \A c \in Listing : stored[c] = 1..Archive[c]

\* "Hard event-read limit", "Hard API page limit": slices never count more
\* than the job allows, however often they are interrupted and resumed.  A
\* client that brings pages itself may bring more.
WithinLimits ==
  "pages" \notin clients => job.pages <= job.maxPages /\ job.seen <= job.maxEvents

\* The events that the checkpoints have passed.
Passed(q) == UNION {{c} \X (1..q[c].cursor) : c \in Conversation}

\* An event is counted once: re-reading a page after a crash does not charge
\* it to the job's limit again, so a job is paused only by events it has read.
\* A slice that a client overtakes charges the page of both.
ChargedOnce ==
  "pages" \notin clients => job.seen <= Cardinality(Passed(queue))

\* "It checkpoints every page": no step, restart or change of limits takes a
\* checkpoint back.  A slice that awaits its page when a client checkpoints
\* does: it writes the counters and the cursor it had read.
NeverBackwards ==
  [][("pages" \notin clients) =>
       /\ job'.pages >= job.pages /\ job'.seen >= job.seen
       /\ \A c \in Conversation : queue'[c].cursor >= queue[c].cursor]_vars

Failures == Crashes \/ RateLimited \/ CallFails

\* "resumes incomplete jobs after a restart": when crashes, rate limits and
\* failed calls stop, an incomplete job reaches its end or its limit, in
\* whatever slice or commit it was interrupted.  Nobody schedules what is left
\* of a failed job that a client runs.
JobFinishes ==
  ("runs" \notin clients) /\ <>[][~Failures]_vars =>
    (job.status \in {"pending", "running"} ~> job.status \in {"paused", "completed", "failed"})
=============================================================================
