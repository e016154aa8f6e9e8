# TLA+ verification of the XChat DM cache

Specifications, model-checking configurations and machine-checked proofs about
the service in `src/`: a durable cache of encrypted X direct messages that is
fed by webhooks and archive backfills, decrypts through the Chat XDK, and serves
the result over HTTP.

`tlc -config EventsCore.cfg MCXChatEvents.tla` runs one configuration;
`tlapm XChatEventsProofs.tla` checks the proofs of one module.
`PROJECT.json` lists components, runs, theorems, findings and hazards, and maps
each definition to the lines it models.

## 1. The system

One Node process: a single JavaScript event loop over synchronous SQLite
databases. Between two `await`s nothing else runs, so interleaving happens at
awaits only; everything in memory is lost by a crash, and every committed row
survives it. A handler that commits several times may be cut between any two
commits.

| Component | State | Operations | Talks to |
|---|---|---|---|
| Event table and drain, `xchat-cache.js` | events with status, attempts and last error; key changes; signing keys; identity; decrypted events; in memory: `#processRequested`, `#processing` and the locals of a drain | `acceptWebhook`, `ingestBackfill`, `addSigningKeys`, `configure`, `processPending`, open and migrate | decryptor, signing key provider |
| Pending processor, `xchat-pending.js` | `#requested`, `#timer`, `#running`, `#retryNotBefore` | `request`, timer callback | `processPending` |
| Backfill jobs, `xchat-sync.js` and `xchat-cache.js` | job row, queue of conversations with cursors; in memory: running slices, timers | `createJob`, `schedule`, `runJob`, `resumeIncompleteJobs`, `raiseBackfillJobLimits`, `getBackfillWorkItem`, `checkpointBackfillPage` | X API, event table, processor |
| Decryptor, `xchat.js` | current session, its identity, fingerprint of installed keys | `prepare`, `decrypt` | Chat XDK, X API |
| Legacy DM cache and sync, `legacy-dm-cache.js`, `legacy-dm-sync.js` | plaintext events, who we are, jobs with targets; in memory: running slices, timers, `#runningRecent` | `syncRecent`, `ingest`, `createJob`, `runJob`, `schedule`, pause, resume at start | X API |
| X API client, `xchat-api.js` | `#accessToken`, `#refreshToken`, `#loadedStoredToken`; tokens in the encrypted config of the XChat cache | calls with one refresh on 401 | X, XChat cache |
| Encryption at rest, both caches | encryption marker, encrypted columns | open: check or rekey | all tables |
| JSON store, `store.js` | `#state`, `#writeQueue`, the state file | `load`, `get`, `set`, `delete` | file system |
| Readers, both caches and `message-search.js` | none | lists with cursors, searches over pages | tables |
| HTTP handler, `app.js` | none | one route per operation | all of them |
| Start, `server.js`, `xchat-startup.js` | none | load the state, open the caches, listen, start the workers and retry | all of them |
| Legacy seed script | none | reads a file, posts a job | HTTP |

What makes each correct, and what is hard about it:

* **Event table and drain.** An accepted event is not forgotten, is processed
  exactly when its message is readable, and is given up only when it cannot be
  read. Hard: handlers run at each await of a drain that holds rows in memory;
  batches fall back to single rows; keys change under a call; verdicts such as
  "no key for this sender" become stale; a drain is shared by its callers.
* **Pending processor.** No request is lost and no back-off is broken; a backlog
  larger than one drain is worked off. Hard: requests that arrive between the
  end of a drain and the bookkeeping after it, drains started by others.
* **Backfill jobs.** A checkpoint never runs ahead of what is stored; limits
  hold; a job ends and is not complete before everything is read. Hard: three
  commits per page, slices that interleave with a client doing the same work,
  timers that live in memory.
* **Decryptor.** Events are verified with the keys of their own call; one unlock
  serves concurrent calls; a failed unlock poisons nothing. Hard: sessions
  replaced while calls wait for them, failures that arrive late.
* **Legacy cache and sync.** The same of tokens, limits and completion; a pause
  holds; a poll that says it is complete is. Hard: pauses and POSTs during a
  slice that reads its job only once, an identity that must be asked for first,
  a list that grows at its head while it is paged.
* **X API client.** The one good refresh token is not lost. Hard: concurrent
  calls that refresh a token which X accepts once, answers that arrive late,
  crashes.
* **Encryption at rest.** No start leaves rows under two secrets, and a server
  that is up opens every row. Hard: markers that are missing, wrong or older
  than the rows; two caches of which one is rekeyed.
* **JSON store.** An acknowledged change survives; versions reach the file in
  order; everybody is answered. Hard: a write takes the object of a later time
  than it was asked for; a failed write rejects those behind it.
* **Readers.** Pages neither repeat nor skip rows while rows are inserted, a
  search says when it has not seen everything. Hard: equal time stamps, ends of
  pages and limits that coincide.

## 2. Modules

| Module | Models | Extends |
|---|---|---|
| `MessageInbox` | the promise of the event table to its readers | |
| `XChatEvents` | tables and drain of `XChatCache`, with crashes | |
| `XChatPending` | `XChatEvents` with the processor and all its callers | `XChatEvents` |
| `XChatBackfill` | one archive backfill job, its slices, timers and clients | |
| `XChatIngestion` | the job of `XChatBackfill` over the table and drain of `XChatEvents` | `XChatEvents`, instantiates `XChatBackfill` |
| `XChatSession` | sessions of `XChatDecryptor` shared by concurrent calls | |
| `LegacyDm` | the legacy cache with one job over targets, the poll and the webhook | |
| `DurableRegister` | the promise of a store with one durable value | |
| `JsonStore` | memory, file and queue of writes of the state store | |
| `XApiTokens` | the tokens of the X API client under concurrent calls | |
| `CacheKeys` | secrets of both caches, opening and rekeying them | |
| `Server` | the process: state store, tokens and caches with its start and its end | `JsonStore`, `XApiTokens`, `CacheKeys` |
| `Paging` | lists, cursors and searches over both caches | |
| `MCXChatEvents`, `MCXChatPending`, `MCXChatBackfill`, `MCXChatIngestion`, `MCXChatSession`, `MCLegacyDm`, `MCServer`, `MCPaging` | small instances | the above |
| `XChatEventsProofs`, `XChatPendingProofs`, `XChatBackfillProofs`, `XChatIngestionProofs`, `XChatSessionProofs`, `LegacyDmProofs`, `ServerProofs`, `PagingProofs` | theorems; those about `JsonStore`, `XApiTokens` and `CacheKeys` are in `ServerProofs` | the above |

`XChatPending` shares the variables of `XChatEvents` (its actions conjoin theirs),
so a step of the processor is a step of the table. `XChatBackfill` and the event
table meet in `ingestBackfill`: the former keeps of it which events are stored,
the latter models the same call in full, and `XChatIngestion` has both at once;
`XChatPending` has the page of a slice as `SyncPage`. `XChatSession` models in
detail the calls that `XChatEvents` takes as external. `Server` conjoins the actions of its three parts where the process
makes them depend on each other: the caches are opened only after the state is
loaded, a failed opening ends the process and with it store and tokens, tokens
are stored as a row sealed with the key of the process.

### XChatEvents

A row of `xchat_events` is spread over functions from events (`status`,
`attempts`, `lastError`, `source`, `conversation`, `received`). `keyEvents` and
`signingKeys` are the other tables, `messages` the decrypted events by message
id. `pc` says at which await a drain stands:

| `pc` | await | next action |
|---|---|---|
| `yield` | `yieldToIo` before a batch | `StartBatch` |
| `batch` | `decrypt` of a batch | `BatchReturns`, `BatchThrows` |
| `turn` | `yieldToIo` before a row that is retried alone | `StartRow` |
| `row` | first `decrypt` of a single row | `RowReturns`, `RowThrows` |
| `refresh` | the signing key provider | `KeysArrive`, `ProviderThrows` |
| `again` | `decrypt` with the refreshed keys | `AgainReturns`, `AgainThrows` |

`Select`, `Take` and `Continue` are the code between awaits that finds the next
thing to do, the loop on `#processRequested` included. Rows, signing keys,
conversations and messages are model values; an event has a fixed message, key
and key change. `clock` counts deliveries, which is what `received_at` orders;
rows of one delivery have the same time and are taken in any order.

The decryptor is external: `Opened` says which events it can open with the keys
and key changes of the call, and `Faults` switches on what else it may do: throw
an error that stops the retries (`infra`) or one that does not (`other`), return
output that does not name its source (`blind`), or report errors about unrelated
key changes (`noise`).

`ingestBackfill` commits up to three transactions without an await in between; a
crash between them leaves what `Configure` or `AddSigningKeys` alone would have
left, and those followed by a crash are behaviours of the model. `Reopen` is a
crash and the next open, with the migration of `:` ids. The key provider is a
constructor option that `server.js` does not set; runs cover both settings.

### XChatPending

`timer` is `none`, `now` or `later` (due when the back-off is over), `backoff`
whether the clock is short of `#retryNotBefore`. `Awaiting` is the part of `#run`
after the drain. The promise reactions between the end of a drain and the
`finally` blocks run in one turn of the microtask queue, before any other
callback, and are one step with it. `Silent` groups handlers that store rows
without asking for processing.

### XChatBackfill

A cursor is the number of events up to it; the API answers a read with one or
more of the events that follow, or none at the end. `Iterate` is the loop of
`#runJob` up to its next call, `snap` what the slice read before it. Timers are
`no`, `soon` or `later`. `CrashAfterEnqueue` and `CrashAfterStore` are crashes
between the commits of a page. `Arrives` is what others store of the archives: webhooks,
and pages without a checkpoint. A client may hold one work item at a time.

`clients` is chosen once and says what clients of this behaviour do: run slices
by POST (`"runs"`), and fetch and post pages themselves (`"pages"`). Some
properties are about behaviours without one or the other, because the code
promises nothing to the rest (section 4).

### XChatIngestion

`ArchiveOf` lists the events of each archive, and `Archived` computes from
`status` the places whose events have a row. The job is an `INSTANCE` of
`XChatBackfill` with `Archived` for its variable `stored`, so that no second copy
of the rows is kept. `PageArrives` and `PagePosted` are a page in one turn of the
event loop: `ingestBackfill` writes rows, key changes and keys (`Ingests`), and
the job moves. `TableAlone` is everything the job has no part in, `JobAlone` what
no row has a part in. A process that `Dies` between the commits of a page leaves
the rows and what is committed of the job, and `down` holds until `Revives`, the
next open; until then no other step is possible. Who asks for drains is left
open (`XChatPending` models that), and so drains come at any time here.

### XChatSession

Sessions are numbered as they are created. `session` is `#session`, and each
call remembers the session it waits for (`on`), which others may replace.
`Unlocks` and `UnlockFails` settle in any order; a session that fails late clears
whichever is current by then. `refreshIdentity` may come back with any identity.
`strayed` is a history variable: a call has decrypted in a session that was not
current since the current one was created, or forgotten.

### LegacyDm

A target is the number of its events, a token the number of those before it.
`Iterate` is the loop of `#runJob`, `call` what it read from the tables before
the await; it does not look at the status of the job again, so that a `Pause`
ends no slice. `pc = "me"` is the await of `ensureConfigured`, which stands
before the loop and outside of its `try`. `chain` is `schedule`: no timer, a
timer, or its callback that awaits a slice. A page is written in three commits;
`CrashAfterStore` and `CrashAfterSkip` are the crashes between them.

The recent list is a count of events `posted`; a page is a run of positions below
the last page, because a token of X names an event. `poll` holds the locals of
`syncRecent`, `goal` the events there were when it began. `covered` is a history
variable: what answers with "complete" have vouched for.

### JsonStore and DurableRegister

The object is known by the number of changes that led to it and by its keys.
`queue` holds the writes that `#persist` has chained, and `step` the await of the
one at the head: `dir` before the object is serialised into `temp`, `write`
before `temp` is renamed. `WriteFails` leaves `#writeQueue` a rejected promise
(`broken`), which rejects the writes behind it and all later ones. `acked` is a
history variable. `DurableRegister` has the newest and the saved version; saved
versions move forward, to versions that were the newest, and a crash goes back
to the saved one.

### XApiTokens

Tokens are numbered as X issues them; `live` is the refresh token X accepts.
Each call is idle, or awaits the API, the refresh, or the answer with the new
pair (`granted`). `Refreshed` replaces and stores the tokens without an await
between. `AnswerLost` and `TokenCrash` lose answers.

### CacheKeys and Server

A cache is the secret of its marker and the set of secrets of its rows.
`OpenXChat` has the three outcomes of `#prepareEncryption`: the key opens it, it
is rekeyed from the previous secret in one transaction, or it is refused.
`OpenLegacy` never rekeys. `Server` adds `Spawn`, `LoadState`, `OpenCaches`,
`ServeState`, `WriteState`, `CallApi`, `RotateTokens`, `WriteRows` and `Die`.

### Paging

Rows have a time stamp, an id and a source. A list is fetched page by page by one
client while `Store` inserts rows at any time stamp; `Page`, `NextBefore` and
`CursorOf` are the queries and cursors of the three lists. The variable
`search` is the loop of `searchMessagePages`: `SearchBegins` enters it,
`SearchPage` is one turn, `Ended` is what follows it (the second cache, then the
merge). The loop has no `await`, so while it scans no other action is enabled
(`Free`). The answer is compared with the set of all matches.

## 3. Runs

| Run | Bounds | Shows |
|---|---|---|
| `EventsCore` | 2 events of 2 senders, one under a key change and with a signing key that changes; 2 attempts, limit 2, all faults, provider on | `TypeOK`, `CommittedTogether`, `NoKeyIsCurrent`, `HandIsOpen`, `KeyChangesFirst`, and that the table implements `MessageInbox` (`InboxSpec`) |
| `EventsLive` | 2 events of 2 senders, one of whom has a key that changes, limits 1 and 2, no faults, `DrainFair` | `GivenUpIsUnreadable`, `RequestServed`, `SettlesWhenCalm` |
| `EventsColon` | 1 event, 1 key change, 2 spellings of a conversation | violation of `KeyChangesFirst` |
| `Pending` | 3 events, every drain of 2, 1 attempt, infrastructure errors, `PendingFair` | `RequestKept`, `BackoffHeld`, `BacklogTried` |
| `PendingJoin` | 3 events, limits 1 and 3, full drain 3 | violation of `BacklogTried` |
| `Backfill` | archives of 3 and 1 events on 2 list pages, pages and slices of 2, two values for each limit, no client, one with pages, one with pages and runs; at most 6 pages counted before a checkpoint; `FairSpec` | `BackfillTypeOK`, `CheckpointBehindIngestion`, `CompletedMeansRead`, `WithinLimits`, `ChargedOnce`, `NeverBackwards`, `JobFinishes` |
| `Ingestion` | an archive of 2 events of one sender with one key, pages of 1, slices of 2, limits of 3, 2 attempts, batches and drains of 2, a client with pages and runs; no faults | `ReadIsAccounted` |
| `Session` | 3 calls, 2 identities, 2 key lists, 3 sessions | `OneUnlock`, `OwnKeysUnlessStrayed` |
| `SessionKeys` | 2 calls, 2 identities | violation of `VerifiedWithOwnKeys` |
| `Legacy` | targets of 3 and 1 events, one named twice, pages and slices of 2, limits of 2 events, of 2 pages and of neither, polls of up to 2 pages, 2 recent events; `LegacyFair` | `TokenBehindEvents`, `CompletedMeansEnded`, `WithinLimits`, `RecentComplete`, `PauseHolds`, `LegacyFinishes` |
| `Server` | 1 key, 2 handlers, 3 changes, 2 calls, 2 rotations, 3 secrets, no access token in the environment; `ServerFair` | `ServerTypeOK`, `AckedIsDurable`, `TokenSurvives`, `StartedOpensRows`, `OneSecret`, `StoreIsRegister`, `Answered` |
| `Paging` | every table of at most 5 rows out of 3 time stamps, 2 ids and 2 caches; lists and limits of 1 and 2, pages of 2 in a search, scan limits 1, 3 and 5 | `EachRowOnce`, `XChatPagesComplete`, `OnlyTiesMissing`, `SearchFindsAll` |

Why these bounds are enough: two attempts separate "failed once" from "given up"
(10 in the code). With a single attempt `GivenUpIsUnreadable` would fail for a
reason the code does not have: a key that arrives during the only call of a row
would come too late, where the code has nine calls left. The processor does not
look at attempts, so one is enough in `Pending`. A batch of two separates the
batched path from the path of a single row, and limit 1 makes a drain leave rows
behind. Batches of several conversations and copies of one message are in no run,
because a third event, which a batch of two beside another conversation needs,
takes the run of all faults out of reach: that batches keep conversations apart,
that rows in hand stay open and that calls get their key changes is proved for
any number of both (section 5). A full drain of 2 or 3 (1000 in the code) is
smaller than the backlog. For jobs, an archive of 3 with pages of 2 needs a page,
a rest and possibly an empty last read; a slice of 2 requests ends in the middle
of it, and `group`, read in one page, comes after `dm` in the queue while `dm` is
on both list pages. Three sessions let one be replaced and its successor too, and
let the late failure of the first clear the second, so that the third is of an
identity that still has a live session: without the second alternative of
`LostBefore` the run violates `OneUnlock`. The legacy job has the same shape,
with a target that is named twice. In `Ingestion`, pages of one put a checkpoint
between the two events, and the room for a third page lets a client and a slice
overtake each other. Two handlers with three changes put a write behind another
and a change behind both; two calls with two rotations make one refresh with a
token that the other has used up, and again with the next; three secrets are the
old, the new and a wrong one. Five rows make three pages of two, or a page that
ends among equal time stamps with rows on both sides. `CountBound`,
`MaxSessions`, `MaxPosted`, `MaxWrites`, `MaxToken` and `MaxRows` are bounds of
the models alone.

### Deadlock

`CHECK_DEADLOCK FALSE` is set where the system may stop: a job that is completed
with no client, a caller that has no session left under `MaxSessions`, and the
processor with no work, where the remaining steps leave the state unchanged.

### Fairness

* `DrainFair`: every await of a drain settles and the event loop resumes it.
  `SettlesWhenCalm` has as a further condition that somebody keeps calling
  `processPending`, `WF_vars(Request)`. The processor does so while drains are
  full or fail, and every webhook and page does; `XChatPending` asks who calls.
  `RequestServed` speaks of drains that take all eligible rows; a smaller limit
  leaves the rest to the next request.
* `PendingFair`: timers fire, time passes, awaits settle, and `server.js`
  retries the start of the workers (60 seconds, 15 minutes or as told by X).
* `FairSpec` of `XChatBackfill`: timers fire, API calls settle, workers start.
* `LegacyFair`: timers fire, API calls settle, a process that crashed is started
  again.
* `ServerFair`: the file system answers, with success or an error.

No fairness is assumed for webhooks, HTTP requests or crashes. The liveness
properties speak of the time after the last disturbance, e.g.
`<>[][~Upset]_pendingVars`: an outage that never ends, or a process that keeps
crashing, excuses the program. `Answered` needs no such condition, because a
crash closes the connection of everybody who waits.

## 4. What the violations show, and what the properties except

* **`EventsColon`.** The migration at `xchat-cache.js:382` moves events from a
  `:` id to a `-` id and not the key changes, and the calls select key changes
  by the literal id (783, 869). README: "It applies conversation key changes
  before it decrypts dependent messages."
* **`PendingJoin`.** The processor continues when the drain it awaited selected
  1000 rows (`xchat-pending.js:122`), but the drain may be one that
  `POST /xchat/cache/process` started with a smaller limit. The test at
  `xchat-pending.test.js:142` states the continuation.
* **`SessionKeys`.** The fingerprint of the installed signing keys belongs to
  the decryptor (`xchat.js:185`), so a call holding a replaced session may skip
  the installation of its keys. The test at `xchat.test.js:87` states the
  reinstallation. `OwnKeysUnlessStrayed` says that nothing else goes wrong: a
  call gets other keys only after a call, itself or one before it, has decrypted
  in a session that was not current.

Elsewhere the code does something a reader may not expect, and the property says
so by a condition instead:

* A backfill batch in which some event fails also fails the events that give no
  output, such as receipts (`xchat-cache.js:808`), and gives them up after ten
  such batches. They carry no message: `GivenUpIsUnreadable` is about those that
  do.
* A slice writes its cursor and counters from rows read before its await
  (`xchat-sync.js:202`) over a checkpoint that a client set meanwhile. What is
  lost is progress, not events: `NeverBackwards` is about jobs without pages of
  a client, `CheckpointBehindIngestion` and `CompletedMeansRead` about all.
* `checkpointBackfillPage` compares nothing with the limits of the job:
  `WithinLimits` and `ChargedOnce` are about jobs without pages of a client.
* `POST /xchat/cache/backfill-jobs/{id}` on a failed job (`app.js:328`) runs one
  slice and schedules nothing; the job then says `running` until a restart.
  `JobFinishes` is about jobs without such runs.
* A slice of a legacy job overwrites a pause that it did not see
  (`legacy-dm-sync.js:89`), which is the exception in `PauseHolds`. A paused
  legacy job, by hand or by its limit, stays paused: no route resumes it, though
  `app.js:542` names one so.
* A `getMe` that fails in `ensureConfigured` (`legacy-dm-sync.js:118`) rejects
  the slice before its `try`, and the timer chain of the job ends until the next
  start: `LegacyFinishes` is about a cache that knows who we are.
* An unlock that fails late clears the current session though another one has
  taken the place of its own (`xchat.js:253`): the next call of that identity
  recovers the PIN again while its session lives on. `OneUnlock` says that a
  second unlock of one identity happens only so, or when another identity took
  the place of the session. With one identity it says that at most one session
  lives.
* Only the XChat cache is rekeyed. A start with a new key rekeys it and then
  fails at the marker of the legacy cache; after that neither key starts the
  server. `OneSecret` says that no row is lost by it.
* Tokens stored in the cache win over those of the environment, dead or not
  (`xchat-api.js:146`): after `lost`, new ones in the environment do not help.
* After one failed write the JSON store rejects every later one until the
  process restarts, while memory keeps the changes (`store.js:51`).
* A batch of one row counts an outage as an attempt of the row
  (`xchat-cache.js:738`), a larger batch does not.
* In lists with a time stamp as cursor, rows that share it with the last row of a
  page are passed over; `OnlyTiesMissing` says that nothing else is.

## 5. Proofs

The theorems hold for every value of the constants under the named assumptions,
all of them evaluated by the runs: `EventsAssumption` (finitely many events,
well-typed functions, positive bounds), `PendingAssumption` (the limit of the
processor is among the limits that callers pass), `BackfillAssumption`,
`SessionAssumption`, `LegacyAssumption`, `StoreAssumption`, `TokenAssumption`,
`KeysAssumption`, `PagingAssumption` and `IngestionAssumption` (an event is in one
place of one archive, that of its conversation).

* `XChatEventsProofs`
  * `TypeCorrect`: `Spec => []TypeOK`. The bound of `attempts` is not inductive
    from the types alone: a drain adds an attempt to a row it selected earlier,
    so the proof carries that rows in hand are eligible (`HandIsOpen`).
  * `HandStaysOpen`: handlers only pend rows, which keeps them eligible, and the
    sweep for missing keys, which would not, runs only when no drain does.
  * `MessagesCommittedTogether`: every action that processes rows also inserts
    their messages. It needs that a row is settled as processed only if its
    output was inserted, hence that rows of a call that reports no error about
    them were opened, and that open rows were not processed before.
  * `NoKeyStaysCurrent`: with the fact that no step removes the last key of a
    sender.
  * `ImplementsInbox`: the initial state maps to the initial state, and each
    action to `Accept`, `Settle` or a stutter of `MessageInbox`.
  * `KeyChangesComeFirst`: `OneSpelling => (Spec => []KeyChangesFirst)`.
    `OrderInv` adds that nothing stored is dated in the future, that rows are
    filed under the conversation they are of, that the rows of a batch share
    one, and that a call holds every key change stored no later than its rows;
    what arrives during the call is younger than the rows in it. `OneSpelling`
    says that no two conversation ids have the same canonical one; `EventsColon`
    shows that the theorem needs it.
  * `NothingReadableGivenUp`: `Calm => (Spec => []GivenUpIsUnreadable)`. `Calm`
    says what the property needs: no faults, more than one attempt, one spelling
    of ids, and messages signed by a key of their sender and encrypted under a
    key change of their conversation. `ReadInv` adds that a pending row has all
    its attempts before it, so that a row given up had failed before its last
    call, and that a key which came during the call has reset it; with `OrderInv`
    for the key changes, what the call could not open cannot be read now.
* `XChatPendingProofs`
  * `PendingImplementsEvents`: `PendingSpec => Spec`, so every safety theorem of
    the table holds in the composition (`PendingKeepsTable`).
  * `RequestIsKept` and `BackoffIsHeld`: `ProcessorInv`, the conjunction of
    both with the types, is inductive.
* `XChatBackfillProofs`
  * `BackfillTypeCorrect`, and `CheckpointStaysBehind`: strengthened with what
    the slice remembers (its cursor is behind what is stored, and its read fits
    the archive) and what the client holds, because both are written or posted
    after steps in which others moved the job.
  * `CompletedHasRead`: `ReadInv` relates the stage of the job to the queue and
    the store. What the list cursor says was listed is in the queue, once the
    stage is past the list all of it is, and a job that is complete has no open
    conversation. A slice that awaits a list page keeps a cursor that is still
    that of the job. Both hold under any client, since neither a checkpoint nor
    an overtaken slice removes an entry or stores less.
  * `SlicesStayWithin` and `SlicesGoForward`: `LimitInv`. Without pages of a
    client, what a slice read before its call (counters, cursor, room) is still
    in the tables when the call returns, and unread rows have cursor 0; each
    step then only raises counters and cursors, and by no more than the room.
  * `EventsChargedOnce`: the pairs of a conversation and a position behind its
    cursor form a finite set, and the page that adds to the counter moves the
    cursor, so the set grows by as many pairs as the counter.
* `XChatIngestionProofs`
  * `PageFillsItsPlaces`: the rows that `ingestBackfill` writes are the places of
    the archive that `XChatBackfill` says a page fills. The conjunction of both in
    one action therefore forbids nothing that the code does.
  * `IngestionImplementsEvents` and `IngestionImplementsJob`: a step of the
    composition is a step or a stutter of the table, and of the job with
    `Archived` for `stored`; to the job, what the table does alone is `Arrives`,
    because no row is ever removed (`RowsRemain`). The invariants of both parts
    (`Inv`, `JobInv`) are what the steps are shown from.
  * `ReadStaysAccounted`: `Calm => (IngestionSpec => []ReadIsAccounted)`. From the
    job, what a checkpoint has passed is stored; from the table, what is stored is
    readable, eligible or given up, and what is given up cannot be read
    (`NothingReadableGivenUp`, which is where `Calm` comes in).
* `XChatSessionProofs`
  * `SessionTypeCorrect` and `WaitsForOwnSession`, from `SessionInv`: sessions
    are numbered as they are created, so that a new one is nobody's yet, the
    fingerprint is the owner of the current session, and that session has not
    failed.
  * `OneUnlockWhileKept`, from `UnlockInv`: every live session is the current
    one, or is lost already to a session created next. When a session fails that
    was not current, it was lost itself, and what took its place is what its
    failure loses the current one to (`UnlockFailsUnlock`).
  * `OwnKeysInCurrentSession`, from `FingerprintHolds`: until a call strays, the
    fingerprint tells the keys of the current session.
  * `OwnKeysOfOneIdentity`, under the condition that the identity does not
    change: then only the current session lives, and it holds the keys that the
    decryptor believes installed. `SessionKeys` shows that it needs the
    condition.
* `LegacyDmProofs`
  * `LegacyTypeCorrect`, `TokenStaysBehind`, `CompletedHasEnded`,
    `LimitsAlwaysHold`, `PauseAlwaysHolds` and `CompletePollsAre`, from
    `LegacyInv`. Its part about slices says that what a slice read before its
    call is still true when the call returns (there are no client pages here, and
    a pause touches nothing but the status); the part about polls that all
    recent events from the last page up to the goal are stored, whatever was
    posted meanwhile. `LimitsAlwaysHold` follows the events behind the tokens as
    `EventsChargedOnce` does.
* `ServerProofs`
  * `StoreTypeCorrect`, `AckedStaysDurable` and `StoreImplementsRegister`, from
    `StoreInv`: the writes in the queue are in the order of their changes, none
    newer than memory and none older than what was acknowledged, and the object
    serialised for the head of the queue has its change.
  * `TokenTypeCorrect` and `GoodTokenSurvives`, from `TokensInv`: at most one
    granted answer carries the good token, nobody else has that token yet, and
    no token in the program is newer than the one X takes for good.
  * `StartedAlwaysOpensRows` and `AlwaysOneSecret`, from `KeysInv`: each cache is
    under one secret, and once the start has opened it that secret is the key of
    the process.
  * `ServerImplementsParts`: every step of the process is a step or a stutter of
    each part, so that `ServerKeepsAcknowledged`, `ServerKeepsToken` and
    `ServerTypeCorrect` follow from the theorems about the parts.
* `PagingProofs`
  * `PageIs` says what a page is: the newest rows before its cursor, shorter than
    asked only if there are no more; for both caches together it needs that the
    newest of the newest of each are the newest of all (`MergeIs`). That a
    non-empty set of rows has an oldest and a newest one, which induction on its
    size would give, follows from the well-foundedness of strict inclusion
    among finite sets (`SmallestSet`).
  * `EachRowIsOnce`, `XChatListsComplete` and `OnlyTiesAreMissing`, from `ListInv`:
    the cursor is that of the last page, every row before it is older than what was
    served, and a row that was there at the start and has not been served is
    still before the cursor or shares a time stamp with the last row of a page
    (never in the XChat cache). Rows stored meanwhile disturb none of it,
    wherever they are put.
  * `SearchesFindAll`, from `SearchInv`: what a loop has found is exactly the
    matches behind its cursor, if no row shares a time stamp with the cursor or
    the cursor has an id; and the first loop of a search of both caches has left
    the same for the XChat cache.
  * `SearchesEnd`: a turn that asks for another page has looked at one row more,
    of at most `scan_limit`. It is an action property of the proof module alone:
    the loop ends, without a word about fairness.

Only model-checked are the liveness properties (`RequestServed`,
`SettlesWhenCalm`, `BacklogTried`, `JobFinishes`, `LegacyFinishes`, `Answered`),
since fairness and `ENABLED` are beyond the prover.

## 6. Not modelled

* Single queries (status, diagnostics, list of conversations, filters),
  authorisation, OpenAPI, validation that rejects a request before any change,
  wording and logs.
* Cryptography and encodings; a message is identified by its id, a secret opens
  what it has sealed.
* The pacing of public key reads and their cache of 15 minutes, and the length of
  all delays: they decide when something happens, never whether.
* Several jobs at once, which share only the tables of events; the limit of 100
  jobs looked at when jobs are resumed.
* The seed script, which reads a file and posts one job.
* Failures of SQLite itself, whose transactions are taken as atomic and durable.

## 7. Plan

Built, in this order: the event table with its abstract inbox, the processor,
backfill jobs, sessions, legacy sync, the state store with its abstract
register, tokens, secrets, the process around them, readers, and the job over the
event table. What is left:

1. The processor inside `XChatIngestion`, to state that what a job has read is
   in the end decrypted: `ReadIsAccounted` says that it is not lost,
   `BacklogTried` that the processor gets to it.
