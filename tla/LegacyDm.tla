------------------------------ MODULE LegacyDm ------------------------------
(***************************************************************************)
(* The cache of plaintext direct messages and what fills it: LegacyDmSync  *)
(* (src/legacy-dm-sync.js) with one backfill job over a list of targets,   *)
(* the poll of recent events and the webhook, over the tables of           *)
(* LegacyDmCache (src/legacy-dm-cache.js).                                 *)
(*                                                                         *)
(* As everywhere in this program an action is the code between two awaits. *)
(* A page of a job is written in three commits, and a crash may come       *)
(* between any two of them.                                                *)
(*                                                                         *)
(* External: X answers a read of a target with one or more of the events   *)
(* that follow the token, or none at the end; it lists recent events       *)
(* newest first, behind tokens that name an event; and it may fail.        *)
(***************************************************************************)
EXTENDS Integers, Sequences, FiniteSets

CONSTANTS
  Target,         \* participants and conversations, as (type, id)
  None,
  Archive,        \* number of events of a target
  Wanted,         \* the targets a client asks for, in order
  PageSize,       \* most events of one read (100 in the code)
  SliceLength,    \* requests of one slice (10 in the code)
  Limits,         \* <<max_events, max_pages>> a client chooses
  StartPages,     \* pages of the poll at start (5 in the code)
  MaxPosted       \* bound on the events of the recent list

ASSUME LegacyAssumption ==
  /\ IsFiniteSet(Target) /\ None \notin Target
  /\ Archive \in [Target -> Nat]
  /\ Wanted \in Seq(Target) /\ Wanted # <<>>
  /\ PageSize \in Nat \ {0} /\ SliceLength \in Nat \ {0}
  /\ Limits \subseteq (Nat \ {0}) \X (Nat \ {0})
  /\ StartPages \in Nat \ {0} /\ MaxPosted \in Nat

VARIABLES
  job,        \* legacy_dm_backfill_jobs: the row of the job
  targets,    \* legacy_dm_backfill_targets: the rows of its targets
  fetched,    \* legacy_dm_events: the events of each target, by position
  configured, \* self_id is in legacy_dm_config
  \* The running slice: the call it awaits, the requests it has left, and
  \* what it read from the tables before the call.
  pc, left, call,
  chain,      \* schedule(): no timer, a timer, or its callback awaits a slice
  started,    \* the listen callback of server.js has run
  posted,     \* X: how many events the recent list has had
  recents,    \* legacy_dm_events: those of them that are stored
  poll,       \* #runningRecent: the await it is at, and its locals
  covered     \* recent events that an answer with "complete" has vouched for

jobVars  == <<job, targets, fetched, pc, left, call, chain>>
pollVars == <<posted, recents, poll, covered>>
vars == <<jobVars, configured, started, pollVars>>

Jobs ==
  [status : {"none", "pending", "running", "paused", "completed", "failed"},
   maxEvents : Nat, maxPages : Nat, pages : Nat, seen : Nat]

Rows == [status : {"absent", "pending", "running", "completed", "failed"},
         token : Nat]

Calls == [target : Target \cup {None}, token : Nat, want : Nat,
          pages : Nat, seen : Nat]

NoCall == [target |-> None, token |-> 0, want |-> 0, pages |-> 0, seen |-> 0]

Polls == [at : {"off", "me", "page"}, goal : Nat, below : Nat, left : Nat]

NoPoll == [at |-> "off", goal |-> 0, below |-> 0, left |-> 0]

LegacyTypeOK ==
  /\ job \in Jobs
  /\ targets \in [Target -> Rows]
  /\ fetched \in [Target -> SUBSET Nat]
  /\ \A t \in Target : fetched[t] \subseteq 1..Archive[t]
  /\ pc \in {"off", "me", "page"} /\ left \in 0..SliceLength
  /\ call \in Calls
  /\ chain \in {"none", "timer", "waits"}
  /\ configured \in BOOLEAN /\ started \in BOOLEAN
  /\ posted \in 0..MaxPosted /\ recents \subseteq 1..posted
  /\ poll \in Polls /\ covered \in 0..posted

LegacyInit ==
  /\ job = [status |-> "none", maxEvents |-> 0, maxPages |-> 0,
            pages |-> 0, seen |-> 0]
  /\ targets = [t \in Target |-> [status |-> "absent", token |-> 0]]
  /\ fetched = [t \in Target |-> {}]
  /\ pc = "off" /\ left = 0 /\ call = NoCall /\ chain = "none"
  /\ configured = FALSE /\ started = FALSE
  /\ posted = 0 /\ recents = {} /\ poll = NoPoll /\ covered = 0

-----------------------------------------------------------------------------
(* The tables *)

Least(a, b) == IF a < b THEN a ELSE b
Most(a, b)  == IF a < b THEN b ELSE a

Incomplete(j) == j.status \in {"pending", "running"}

\* Mutant: the events that were read are not compared.
PagesExhausted(j) == j.pages >= j.maxPages

LimitReached(j) == j.pages >= j.maxPages \/ j.seen >= j.maxEvents

\* Mutant: a target read in part is not taken up again.
Untouched(T) == {t \in Target : T[t].status = "pending"}

\* status IN ('pending', 'running')
OpenTargets(T) == {t \in Target : T[t].status \in {"pending", "running"}}

\* ORDER BY position LIMIT 1; a target that is named twice has its first place.
Heads(T) ==
  {t \in OpenTargets(T) :
     \E i \in 1..Len(Wanted) :
       /\ Wanted[i] = t
       /\ \A k \in 1..(i - 1) : Wanted[k] \notin OpenTargets(T)}

Room(j) == Least(PageSize, Most(1, j.maxEvents - j.seen))

\* The n events behind a token; INSERT OR IGNORE.
Ingested(t, token, n) ==
  [fetched EXCEPT ![t] = @ \cup ((token + 1)..(token + n))]

Answers(t, token, want) ==
  {n \in 0..want : /\ n <= Archive[t] - token
                   /\ n = 0 => token = Archive[t]}

\* No next_token: the target is completed.
Moved(T, t, token, n) ==
  [T EXCEPT ![t] = [status |-> IF token + n = Archive[t] THEN "completed"
                               ELSE "running",
                    token |-> token + n]]

Skipped(T, t) == [T EXCEPT ![t] = [status |-> "failed", token |-> T[t].token]]

-----------------------------------------------------------------------------
(* Slices *)

WithStatus(j, s) == [j EXCEPT !.status = s]

\* The promise of runJob settles with row j: the callback of the timer that
\* awaits it sets the next one, if the job is not at an end.
EndSlice(j, ch) ==
  /\ job' = j
  /\ pc' = "off" /\ left' = 0 /\ call' = NoCall
  /\ chain' = IF ch # "waits" THEN ch
              ELSE IF Incomplete(j) THEN "timer" ELSE "none"

\* The loop of #runJob with n requests left.  It reads the counters of the job
\* again each time round, and never its status.
Iterate(j, T, n, ch) ==
  \/ n = 0 /\ EndSlice(j, ch)
  \/ n > 0 /\ LimitReached(j) /\ EndSlice(WithStatus(j, "paused"), ch)
  \/ /\ n > 0 /\ ~LimitReached(j) /\ OpenTargets(T) = {}
     /\ EndSlice(WithStatus(j, "completed"), ch)
  \/ /\ n > 0 /\ ~LimitReached(j)
     /\ \E t \in Heads(T) :
          call' = [target |-> t, token |-> T[t].token, want |-> Room(j),
                   pages |-> j.pages, seen |-> j.seen]
     /\ job' = j /\ pc' = "page" /\ left' = n /\ chain' = ch

\* Mutant: the slice does not look at the status of the job.
BeginAnyway(ch) ==
  Iterate(WithStatus(job, "running"), targets, SliceLength, ch)

Begin(ch) ==
  \/ /\ job.status \in {"completed", "paused"}
     /\ EndSlice(job, ch)
  \/ /\ job.status \notin {"completed", "paused"}
     /\ Iterate(WithStatus(job, "running"), targets, SliceLength, ch)

\* runJob: single flight.  Who we are is asked first, if it is not known.
RunJob(ch) ==
  \/ /\ pc # "off"
     /\ chain' = ch /\ UNCHANGED <<job, pc, left, call>>
  \/ pc = "off" /\ configured /\ Begin(ch)
  \/ /\ pc = "off" /\ ~configured
     /\ pc' = "me" /\ chain' = ch /\ UNCHANGED <<job, left, call>>

KeepRest == UNCHANGED <<configured, started, pollVars>>

TimerFires ==
  /\ chain = "timer"
  /\ RunJob("waits")
  /\ UNCHANGED <<targets, fetched>> /\ KeepRest

MeReturns ==
  /\ pc = "me"
  /\ configured' = TRUE
  /\ Begin(chain)
  /\ UNCHANGED <<targets, fetched, started, pollVars>>

\* ensureConfigured stands before the try block: the promise of runJob is
\* rejected, the catch of schedule() swallows it, and the chain ends.
MeFails ==
  /\ pc = "me"
  /\ pc' = "off" /\ chain' = IF chain = "waits" THEN "none" ELSE chain
  /\ UNCHANGED <<job, targets, fetched, left, call>> /\ KeepRest

PageReturns ==
  /\ pc = "page"
  /\ \E n \in Answers(call.target, call.token, call.want) :
       LET T == Moved(targets, call.target, call.token, n)
       IN /\ fetched' = Ingested(call.target, call.token, n)
          /\ targets' = T
          /\ Iterate([job EXCEPT !.pages = call.pages + 1,
                                 !.seen = call.seen + n], T, left - 1, chain)
  /\ KeepRest

\* 400, 403, 404, 410: the target is given up, and the slice goes on.
Unavailable ==
  /\ pc = "page"
  /\ LET T == Skipped(targets, call.target)
     IN /\ targets' = T
        /\ Iterate([job EXCEPT !.pages = call.pages + 1], T, left - 1, chain)
  /\ UNCHANGED fetched /\ KeepRest

\* 408, 425, 429, 5xx or no status: the job waits for its timer.
Busy ==
  /\ pc = "page"
  /\ EndSlice(WithStatus(job, "pending"), chain)
  /\ UNCHANGED <<targets, fetched>> /\ KeepRest

\* Any other error, or a page with an event that ingest() rejects.
Rejected ==
  /\ pc = "page"
  /\ EndSlice(WithStatus(job, "failed"), chain)
  /\ UNCHANGED <<targets, fetched>> /\ KeepRest

-----------------------------------------------------------------------------
(* Recent events *)

\* syncRecent(m): the poll of every hour, the one at start, and over HTTP.  A
\* caller that finds one running gets its result.
Sync(m) ==
  /\ started
  /\ poll.at = "off"
  /\ poll' = [at |-> IF configured THEN "page" ELSE "me",
              goal |-> posted, below |-> 0, left |-> m]
  /\ UNCHANGED <<jobVars, configured, started, posted, recents, covered>>

PollMeReturns ==
  /\ poll.at = "me"
  /\ configured' = TRUE
  /\ poll' = [poll EXCEPT !.at = "page"]
  /\ UNCHANGED <<jobVars, started, posted, recents, covered>>

\* The newest events, or those before the last page; at least one of them.
PollPages ==
  LET top == IF poll.below = 0 THEN posted ELSE poll.below - 1
  IN {low..top : low \in (top - Least(PageSize, top) + 1)..Most(1, top)}

\* Mutant: a sync that read all its pages is taken for complete.
PollReturnsComplete ==
  /\ poll.at = "page"
  /\ \E page \in PollPages :
       LET first == page = {} \/ 1 \in page
       IN /\ recents' = recents \cup page
          /\ IF first \/ poll.left = 1
             THEN poll' = NoPoll /\ covered' = Most(covered, poll.goal)
             ELSE /\ \E low \in page :
                       /\ \A e \in page : low <= e
                       /\ poll' = [poll EXCEPT !.below = low, !.left = @ - 1]
                  /\ UNCHANGED covered
  /\ UNCHANGED <<jobVars, configured, started, posted>>

\* A page is stored at once.  The sync ends with the last page of the list, and
\* says "complete", or with the last page it was allowed.
PollReturns ==
  /\ poll.at = "page"
  /\ \E page \in PollPages :
       LET first == page = {} \/ 1 \in page
       IN /\ recents' = recents \cup page
          /\ covered' = IF first THEN Most(covered, poll.goal) ELSE covered
          /\ \/ (first \/ poll.left = 1) /\ poll' = NoPoll
             \/ /\ ~first /\ poll.left > 1
                /\ \E low \in page :
                     /\ \A e \in page : low <= e
                     /\ poll' = [poll EXCEPT !.below = low, !.left = @ - 1]
  /\ UNCHANGED <<jobVars, configured, started, posted>>

PollFails ==
  /\ poll.at # "off"
  /\ poll' = NoPoll
  /\ UNCHANGED <<jobVars, configured, started, posted, recents, covered>>

\* External: somebody writes a message; its webhook may arrive late or never.
Post ==
  /\ posted < MaxPosted /\ posted' = posted + 1
  /\ UNCHANGED <<jobVars, configured, started, recents, poll, covered>>

Webhook ==
  /\ started
  /\ \E e \in 1..posted : recents' = recents \cup {e}
  /\ UNCHANGED <<jobVars, configured, started, posted, poll, covered>>

-----------------------------------------------------------------------------
(* HTTP, start and crashes *)

CreateJob ==
  /\ started /\ job.status = "none"
  /\ \E l \in Limits :
       job' = [job EXCEPT !.status = "pending", !.maxEvents = l[1], !.maxPages = l[2]]
  /\ targets' = [t \in Target |->
                   [status |-> IF \E i \in 1..Len(Wanted) : Wanted[i] = t
                               THEN "pending" ELSE "absent",
                    token |-> 0]]
  /\ chain' = "timer"
  /\ UNCHANGED <<fetched, pc, left, call>> /\ KeepRest

\* POST .../legacy/backfill-jobs/{id}: nobody schedules what is left over.
RunNow ==
  /\ started /\ job.status # "none"
  /\ RunJob(chain)
  /\ UNCHANGED <<targets, fetched>> /\ KeepRest

\* POST .../pause, whatever the status of the job and with a slice or without.
Pause ==
  /\ started /\ job.status # "none"
  /\ job' = WithStatus(job, "paused")
  /\ UNCHANGED <<targets, fetched, pc, left, call, chain>> /\ KeepRest

\* Mutant: a job interrupted in the middle of a slice is not resumed.
StartPendingOnly ==
  /\ ~started /\ started' = TRUE
  /\ chain' = IF job.status = "pending" THEN "timer" ELSE chain
  /\ poll' = [at |-> IF configured THEN "page" ELSE "me",
              goal |-> posted, below |-> 0, left |-> StartPages]
  /\ UNCHANGED <<job, targets, fetched, pc, left, call, configured, posted,
                 recents, covered>>

\* The listen callback: incomplete jobs are resumed and a poll is begun.
Start ==
  /\ ~started /\ started' = TRUE
  /\ chain' = IF Incomplete(job) THEN "timer" ELSE chain
  /\ poll' = [at |-> IF configured THEN "page" ELSE "me",
              goal |-> posted, below |-> 0, left |-> StartPages]
  /\ UNCHANGED <<job, targets, fetched, pc, left, call, configured, posted,
                 recents, covered>>

Stop ==
  /\ pc' = "off" /\ left' = 0 /\ call' = NoCall /\ chain' = "none"
  /\ started' = FALSE /\ poll' = NoPoll
  /\ UNCHANGED <<configured, posted, recents, covered>>

Crash == Stop /\ UNCHANGED <<job, targets, fetched>>

\* Mutant: the token moves before the events are stored.
CrashAfterMove ==
  /\ pc = "page"
  /\ \E n \in Answers(call.target, call.token, call.want) :
       targets' = Moved(targets, call.target, call.token, n)
  /\ Stop /\ UNCHANGED <<job, fetched>>

\* Between the commits of a page.
CrashAfterStore ==
  /\ pc = "page"
  /\ \E n \in Answers(call.target, call.token, call.want) :
       /\ fetched' = Ingested(call.target, call.token, n)
       /\ targets' \in {targets, Moved(targets, call.target, call.token, n)}
  /\ Stop /\ UNCHANGED job

CrashAfterSkip ==
  /\ pc = "page"
  /\ targets' = Skipped(targets, call.target)
  /\ Stop /\ UNCHANGED <<job, fetched>>

-----------------------------------------------------------------------------
Settles == MeReturns \/ MeFails \/ PageReturns \/ Unavailable \/ Busy \/ Rejected

Recent == \/ \E m \in 1..StartPages : Sync(m)
          \/ PollMeReturns \/ PollReturns \/ PollFails \/ Post \/ Webhook

Crashes == Crash \/ CrashAfterStore \/ CrashAfterSkip

LegacyNext ==
  \/ CreateJob \/ RunNow \/ Pause \/ TimerFires \/ Settles
  \/ Recent \/ Start \/ Crashes

LegacySpec == LegacyInit /\ [][LegacyNext]_vars

\* Timers fire, API calls settle, and a process that crashed is started.
LegacyFair ==
  /\ LegacySpec
  /\ WF_vars(TimerFires) /\ WF_vars(Settles) /\ WF_vars(Start)

-----------------------------------------------------------------------------
(* Properties *)

\* A token never runs ahead of what is stored, whatever commit a crash, a pause
\* or an unavailable target falls behind.
TokenBehindEvents ==
  \A t \in Target : /\ 1..targets[t].token \subseteq fetched[t]
                    /\ targets[t].status = "completed" => fetched[t] = 1..Archive[t]

\* "completed" is said only of a job whose every target was read to its end or
\* refused by X: not of one that was paused, limited or interrupted.
CompletedMeansEnded ==
  job.status = "completed" =>
    \A i \in 1..Len(Wanted) :
      \/ targets[Wanted[i]].status = "failed"
      \/ fetched[Wanted[i]] = 1..Archive[Wanted[i]]

\* The events that the tokens have passed.
Passed(T) == UNION {{t} \X (1..T[t].token) : t \in Target}

\* max_events and max_pages hold over all slices.
CountersWithin == job.pages <= job.maxPages /\ job.seen <= job.maxEvents

\* The limits hold, and what is charged to them was read: a page that a crash
\* makes the job read again counts once.
WithinLimits ==
  /\ CountersWithin
  /\ job.seen <= Cardinality(Passed(targets))

\* A pause outlives everything but the slice it found running: timers, POST,
\* a restart and the answer to getMe leave the job paused
\* (test/legacy-dm-sync.test.js:103).
PauseHolds ==
  [][job.status = "paused" /\ job'.status # "paused" => pc = "page"]_vars

\* A sync that answers "complete" has stored every event there was when it
\* began, though new ones push the others down while it reads.
RecentComplete == 1..covered \subseteq recents

\* "Historical jobs ... with durable page checkpoints": once crashes and
\* temporary failures stop, a job with a timer, a slice that one awaits, or a
\* start to come reaches its end or its limit, or is paused or fails; provided
\* that self_id is known and not asked for: a failing getMe ends the chain.
Upset == Busy \/ Crashes

LegacyFinishes ==
  <>[][~Upset]_vars =>
    ((/\ job.status \in {"pending", "running"}
      /\ configured /\ pc # "me" /\ (chain # "none" \/ ~started))
       ~> job.status \in {"paused", "completed", "failed"})
=============================================================================
