--------------------------- MODULE LegacyDmProofs ---------------------------
(***************************************************************************)
(* Safety of the legacy jobs and of the poll of recent events, for any     *)
(* targets, archives, limits and pages.                                    *)
(***************************************************************************)
EXTENDS LegacyDm, FiniteSetTheorems, TLAPS

\* The job and its slice.  A slice knows the row that it works on: nobody else
\* moves the token of its target or the counters of the job.
SliceInv ==
  /\ job \in Jobs /\ pc \in {"off", "me", "page"} /\ left \in 0..SliceLength
  /\ call \in Calls /\ chain \in {"none", "timer", "waits"}
  /\ chain # "none" => job.status # "none"
  /\ pc # "off" => job.status # "none"
  /\ CountersWithin
  /\ job.status = "none" => job.pages = 0 /\ job.seen = 0
  /\ pc = "page" => /\ left > 0 /\ call.target \in OpenTargets(targets)
                    /\ call.token = targets[call.target].token
                    /\ call.pages = job.pages /\ call.seen = job.seen
                    /\ call.pages < job.maxPages
                    /\ call.want <= job.maxEvents - call.seen

\* The rows of the targets and the events that are stored.
TablesOK ==
  /\ targets \in [Target -> Rows]
  /\ fetched \in [Target -> SUBSET Nat]
  /\ \A t \in Target : fetched[t] \subseteq 1..Archive[t]
  /\ TokenBehindEvents

\* A target of the job is over when it failed or is stored to its end.
EndedNow(t) == targets[t].status = "failed" \/ fetched[t] = 1..Archive[t]

TablesInv ==
  /\ TablesOK
  /\ job.status # "none" =>
       \A i \in 1..Len(Wanted) : targets[Wanted[i]].status # "absent"
  /\ CompletedMeansEnded

\* The poll: what it has passed over is stored, down to the event it is at.
PollInv ==
  /\ configured \in BOOLEAN /\ started \in BOOLEAN
  /\ posted \in 0..MaxPosted /\ recents \subseteq 1..posted
  /\ poll \in Polls /\ covered \in 0..posted
  /\ poll.goal <= posted /\ poll.below <= posted
  /\ poll.below # 0 => poll.below >= 2 /\ poll.below..poll.goal \subseteq recents
  /\ poll.at = "me" => poll.below = 0
  /\ RecentComplete

LegacyInv == SliceInv /\ TablesInv /\ PollInv

Statuses == {"none", "pending", "running", "paused", "completed", "failed"}

-----------------------------------------------------------------------------
(* Rows *)

LEMMA JobsType ==
  ASSUME NEW j \in Jobs
  PROVE  /\ j.status \in Statuses /\ j.pages \in Nat /\ j.seen \in Nat
         /\ j.maxPages \in Nat /\ j.maxEvents \in Nat
         /\ \A s \in Statuses :
              /\ WithStatus(j, s) \in Jobs /\ WithStatus(j, s).status = s
              /\ WithStatus(j, s).pages = j.pages
              /\ WithStatus(j, s).seen = j.seen
              /\ WithStatus(j, s).maxPages = j.maxPages
              /\ WithStatus(j, s).maxEvents = j.maxEvents
  BY DEF Jobs, Statuses, WithStatus

\* Rows as handlers and slices change them, named for the provers.
Charged(j, p, s) == [j EXCEPT !.pages = p, !.seen = s]
Turned(j, p) == [j EXCEPT !.pages = p]
Created(j, e, p) == [j EXCEPT !.status = "pending", !.maxEvents = e, !.maxPages = p]

LEMMA ChargedType ==
  ASSUME job \in Jobs, NEW p \in Nat, NEW s \in Nat
  PROVE  /\ Charged(job, p, s) \in Jobs /\ Charged(job, p, s).status = job.status
         /\ Charged(job, p, s).pages = p /\ Charged(job, p, s).seen = s
         /\ Charged(job, p, s).maxPages = job.maxPages /\ Charged(job, p, s).maxEvents = job.maxEvents
  BY DEF Jobs, Charged

LEMMA TurnedType ==
  ASSUME job \in Jobs, NEW p \in Nat
  PROVE  /\ Turned(job, p) \in Jobs /\ Turned(job, p).status = job.status
         /\ Turned(job, p).pages = p /\ Turned(job, p).seen = job.seen
         /\ Turned(job, p).maxPages = job.maxPages /\ Turned(job, p).maxEvents = job.maxEvents
  BY DEF Jobs, Turned

LEMMA CreatedType ==
  ASSUME job \in Jobs, NEW p \in Nat, NEW e \in Nat
  PROVE  /\ Created(job, e, p) \in Jobs /\ Created(job, e, p).status = "pending"
         /\ Created(job, e, p).pages = job.pages /\ Created(job, e, p).seen = job.seen
         /\ Created(job, e, p).maxPages = p /\ Created(job, e, p).maxEvents = e
  BY DEF Jobs, Created

LEMMA RoomType ==
  ASSUME NEW j \in Jobs, ~LimitReached(j)
  PROVE  Room(j) \in Nat /\ Room(j) <= j.maxEvents - j.seen
  BY JobsType, LegacyAssumption DEF Room, Least, Most, LimitReached

LEMMA HeadsOpen ==
  ASSUME NEW T
  PROVE  Heads(T) \subseteq OpenTargets(T) /\ OpenTargets(T) \subseteq Target
  BY DEF Heads, OpenTargets

-----------------------------------------------------------------------------
(* Slices *)

\* The parts of a slice that has ended with row j.
LEMMA EndSliceOk ==
  ASSUME NEW j \in Jobs, j.status # "none",
         j.pages <= j.maxPages, j.seen <= j.maxEvents,
         NEW ch \in {"none", "timer", "waits"}, EndSlice(j, ch)
  PROVE  SliceInv' /\ job' = j
  <1>1. NoCall \in Calls /\ 0 \in 0..SliceLength
    BY LegacyAssumption DEF NoCall, Calls
  <1>2. QED
    BY <1>1 DEF EndSlice, SliceInv, CountersWithin

LEMMA IterateOk ==
  ASSUME NEW j \in Jobs, j.status # "none",
         j.pages <= j.maxPages, j.seen <= j.maxEvents,
         NEW n \in 0..SliceLength, NEW ch \in {"none", "timer", "waits"},
         targets' \in [Target -> Rows],
         Iterate(j, targets', n, ch)
  PROVE  /\ SliceInv'
         /\ job'.status # "none"
         /\ job'.status = "completed" =>
              j.status = "completed" \/ OpenTargets(targets') = {}
  <1>1. CASE n = 0 /\ EndSlice(j, ch)
    BY <1>1, EndSliceOk
  <1>2. CASE EndSlice(WithStatus(j, "paused"), ch)
    <2> DEFINE k == WithStatus(j, "paused")
    <2>1. k \in Jobs /\ k.status = "paused" /\ k.pages <= k.maxPages /\ k.seen <= k.maxEvents
      BY JobsType DEF Statuses
    <2> HIDE DEF k
    <2>2. SliceInv' /\ job' = k
      BY <1>2, <2>1, EndSliceOk DEF k
    <2>3. QED
      BY <2>1, <2>2
  <1>3. CASE OpenTargets(targets') = {} /\ EndSlice(WithStatus(j, "completed"), ch)
    <2> DEFINE k == WithStatus(j, "completed")
    <2>1. k \in Jobs /\ k.status = "completed" /\ k.pages <= k.maxPages /\ k.seen <= k.maxEvents
      BY JobsType DEF Statuses
    <2> HIDE DEF k
    <2>2. SliceInv' /\ job' = k
      BY <1>3, <2>1, EndSliceOk DEF k
    <2>3. QED
      BY <1>3, <2>1, <2>2
  <1>4. CASE /\ ~LimitReached(j)
             /\ \E t \in Heads(targets') :
                  call' = [target |-> t, token |-> targets'[t].token, want |-> Room(j),
                           pages |-> j.pages, seen |-> j.seen]
             /\ n > 0 /\ job' = j /\ pc' = "page" /\ left' = n /\ chain' = ch
    <2>1. PICK t \in Heads(targets') :
            call' = [target |-> t, token |-> targets'[t].token, want |-> Room(j),
                     pages |-> j.pages, seen |-> j.seen]
      BY <1>4
    <2>2. t \in OpenTargets(targets') /\ t \in Target
      BY HeadsOpen
    <2>3. targets'[t] \in Rows /\ targets'[t].token \in Nat
      BY <2>2 DEF Rows
    <2>4. /\ Room(j) \in Nat /\ Room(j) <= j.maxEvents - j.seen
          /\ j.pages \in Nat /\ j.seen \in Nat /\ j.maxPages \in Nat
      BY <1>4, RoomType, JobsType
    <2>5. call' \in Calls
      BY <2>1, <2>2, <2>3, <2>4 DEF Calls
    <2>6. j.pages < j.maxPages
      BY <1>4, <2>4 DEF LimitReached
    <2>7. QED
      BY <1>4, <2>1, <2>2, <2>4, <2>5, <2>6 DEF SliceInv, CountersWithin
  <1>5. QED
    BY <1>1, <1>2, <1>3, <1>4 DEF Iterate

LEMMA JobOk ==
  ASSUME SliceInv
  PROVE  /\ job \in Jobs /\ job.pages \in Nat /\ job.seen \in Nat
         /\ job.maxPages \in Nat /\ job.maxEvents \in Nat
         /\ job.pages <= job.maxPages /\ job.seen <= job.maxEvents
         /\ chain \in {"none", "timer", "waits"}
  BY JobsType DEF SliceInv, CountersWithin

\* A job whose status changes keeps its counters.
LEMMA StatusOk ==
  ASSUME SliceInv, NEW s \in Statuses
  PROVE  /\ WithStatus(job, s) \in Jobs /\ WithStatus(job, s).status = s
         /\ WithStatus(job, s).pages <= WithStatus(job, s).maxPages
         /\ WithStatus(job, s).seen <= WithStatus(job, s).maxEvents
  BY JobOk, JobsType

LEMMA BeginOk ==
  ASSUME SliceInv, job.status # "none", targets \in [Target -> Rows],
         UNCHANGED targets, NEW ch \in {"none", "timer", "waits"}, Begin(ch)
  PROVE  /\ SliceInv' /\ job'.status # "none"
         /\ job'.status = "completed" =>
              job.status = "completed" \/ OpenTargets(targets') = {}
  <1>1. CASE EndSlice(job, ch)
    BY <1>1, JobOk, EndSliceOk
  <1>2. CASE Iterate(WithStatus(job, "running"), targets, SliceLength, ch)
    <2> DEFINE k == WithStatus(job, "running")
    <2>1. /\ k \in Jobs /\ k.status = "running"
          /\ k.pages <= k.maxPages /\ k.seen <= k.maxEvents
      BY StatusOk DEF Statuses
    <2>2. SliceLength \in 0..SliceLength /\ targets' \in [Target -> Rows]
      BY LegacyAssumption
    <2>3. Iterate(k, targets', SliceLength, ch)
      BY <1>2
    <2> HIDE DEF k
    <2>4. QED
      BY <2>1, <2>2, <2>3, IterateOk
  <1>3. QED
    BY <1>1, <1>2 DEF Begin

-----------------------------------------------------------------------------
(* Tables *)

\* A job that was not completed before, or whose targets end here, is completed
\* with all of them ended; and what has ended stays so.
LEMMA TablesStep ==
  ASSUME TablesInv, TablesOK', job.status # "none",
         \A t \in Target : EndedNow(t) => EndedNow(t)',
         \A t \in Target : targets[t].status # "absent" => targets'[t].status # "absent",
         job'.status = "completed" =>
           job.status = "completed" \/ OpenTargets(targets') = {}
  PROVE  TablesInv'
  <1>1. \A i \in 1..Len(Wanted) : Wanted[i] \in Target
    BY LegacyAssumption
  <1>2. \A i \in 1..Len(Wanted) : targets'[Wanted[i]].status # "absent"
    BY <1>1 DEF TablesInv
  <1>3. ASSUME OpenTargets(targets') = {}, NEW i \in 1..Len(Wanted)
        PROVE  EndedNow(Wanted[i])'
    <2>1. targets'[Wanted[i]] \in Rows /\ Wanted[i] \in Target
      BY <1>1 DEF TablesOK
    <2>2. targets'[Wanted[i]].status \in {"completed", "failed"}
      BY <1>2, <1>3, <2>1 DEF Rows, OpenTargets
    <2>3. QED
      BY <2>1, <2>2 DEF TablesOK, TokenBehindEvents, EndedNow
  <1>4. CompletedMeansEnded'
    BY <1>1, <1>3 DEF TablesInv, CompletedMeansEnded, EndedNow
  <1>5. QED
    BY <1>2, <1>4 DEF TablesInv

LEMMA TablesKept ==
  ASSUME TablesInv, UNCHANGED <<targets, fetched>>, job.status # "none",
         job'.status = "completed" =>
           job.status = "completed" \/ OpenTargets(targets') = {}
  PROVE  TablesInv'
  <1>1. TablesOK'
    BY DEF TablesInv, TablesOK, TokenBehindEvents
  <1>2. QED
    BY <1>1, TablesStep DEF EndedNow

LEMMA Answer ==
  ASSUME TablesOK, NEW t \in Target, NEW token \in Nat, NEW want \in Nat,
         token <= Archive[t], NEW n \in Answers(t, token, want)
  PROVE  n \in Nat /\ n <= want /\ token + n \in Nat /\ token + n <= Archive[t]
         /\ Archive[t] \in Nat
  BY LegacyAssumption DEF Answers

\* What a page does to the tables; the token may follow in a later commit.
LEMMA PageTables ==
  ASSUME TablesOK, NEW t \in Target, t \in OpenTargets(targets),
         NEW token \in Nat, token = targets[t].token,
         NEW want \in Nat, NEW n \in Answers(t, token, want),
         fetched' = Ingested(t, token, n),
         targets' \in {targets, Moved(targets, t, token, n)}
  PROVE  /\ TablesOK' /\ n \in Nat /\ n <= want
         /\ \A u \in Target : EndedNow(u) => EndedNow(u)'
         /\ \A u \in Target : targets[u].status # "absent" => targets'[u].status # "absent"
  <1>1. 1..token \subseteq fetched[t] /\ fetched[t] \subseteq 1..Archive[t]
        /\ Archive[t] \in Nat
    BY LegacyAssumption DEF TablesOK, TokenBehindEvents
  <1>2. token <= Archive[t]
    BY <1>1
  <1>3. /\ n \in Nat /\ n <= want /\ token + n \in Nat /\ token + n <= Archive[t]
    BY <1>2, Answer
  <1> DEFINE new == (token + 1)..(token + n)
             row == [status |-> IF token + n = Archive[t] THEN "completed" ELSE "running",
                     token |-> token + n]
  <1>4. /\ fetched' \in [Target -> SUBSET Nat]
        /\ fetched'[t] = fetched[t] \cup new
        /\ \A u \in Target : u # t => fetched'[u] = fetched[u]
    <2>1. new \subseteq Nat /\ fetched \in [Target -> SUBSET Nat]
      BY <1>3 DEF TablesOK
    <2>2. fetched' = [fetched EXCEPT ![t] = fetched[t] \cup new]
      BY DEF Ingested
    <2> HIDE DEF new
    <2>3. QED
      BY <2>1, <2>2
  <1>5. 1..(token + n) \subseteq fetched'[t] /\ fetched'[t] \subseteq 1..Archive[t]
    BY <1>1, <1>3, <1>4
  <1>6. row \in Rows /\ row.token = token + n /\ row.status \in {"completed", "running"}
        /\ (row.status = "completed" => token + n = Archive[t])
    BY <1>3 DEF Rows
  <1>7. targets' = targets \/ targets' = [targets EXCEPT ![t] = row]
    BY DEF Moved
  <1> HIDE DEF row, new
  <1>8. /\ targets' \in [Target -> Rows]
        /\ targets'[t] = targets[t] \/ targets'[t] = row
        /\ \A u \in Target : u # t => targets'[u] = targets[u]
    BY <1>6, <1>7 DEF TablesOK
  <1>9. targets[t].status \in {"pending", "running"}
    BY DEF OpenTargets
  <1>10. TokenBehindEvents'
    <2>1. ASSUME NEW u \in Target
          PROVE  /\ 1..targets'[u].token \subseteq fetched'[u]
                 /\ targets'[u].status = "completed" => fetched'[u] = 1..Archive[u]
      <3>1. CASE u # t
        BY <1>4, <1>8, <3>1 DEF TablesOK, TokenBehindEvents
      <3>2. CASE u = t /\ targets'[t] = targets[t]
        BY <1>1, <1>4, <1>9, <3>2
      <3>3. CASE u = t /\ targets'[t] = row
        BY <1>1, <1>5, <1>6, <3>3
      <3>4. QED
        BY <1>8, <3>1, <3>2, <3>3
    <2>2. QED
      BY <2>1 DEF TokenBehindEvents
  <1>11. TablesOK'
    BY <1>4, <1>5, <1>8, <1>10 DEF TablesOK
  <1>12. ASSUME NEW u \in Target, EndedNow(u) PROVE EndedNow(u)'
    <2>1. CASE u # t
      BY <1>4, <1>8, <1>12, <2>1 DEF EndedNow
    <2>2. CASE u = t
      BY <1>4, <1>5, <1>9, <1>12, <2>2 DEF EndedNow
    <2>3. QED
      BY <2>1, <2>2
  <1>13. ASSUME NEW u \in Target, targets[u].status # "absent"
         PROVE  targets'[u].status # "absent"
    BY <1>6, <1>8, <1>13
  <1>14. QED
    BY <1>3, <1>11, <1>12, <1>13

LEMMA SkipTables ==
  ASSUME TablesOK, NEW t \in Target, targets' = Skipped(targets, t), UNCHANGED fetched
  PROVE  /\ TablesOK'
         /\ \A u \in Target : EndedNow(u) => EndedNow(u)'
         /\ \A u \in Target : targets[u].status # "absent" => targets'[u].status # "absent"
  <1> DEFINE row == [status |-> "failed", token |-> targets[t].token]
  <1>1. row \in Rows /\ row.status = "failed" /\ row.token = targets[t].token
    BY DEF TablesOK, Rows
  <1>2. targets' = [targets EXCEPT ![t] = row]
    BY DEF Skipped
  <1> HIDE DEF row
  <1>3. /\ targets' \in [Target -> Rows] /\ targets'[t] = row
        /\ \A u \in Target : u # t => targets'[u] = targets[u]
    BY <1>1, <1>2 DEF TablesOK
  <1>4. TokenBehindEvents'
    BY <1>1, <1>3 DEF TablesOK, TokenBehindEvents
  <1>5. QED
    BY <1>1, <1>3, <1>4 DEF TablesOK, EndedNow

-----------------------------------------------------------------------------
(* Steps of the job *)

\* What a slice that awaits a page knows.
LEMMA Paging ==
  ASSUME SliceInv, TablesInv, pc = "page"
  PROVE  /\ call.target \in Target /\ call.target \in OpenTargets(targets)
         /\ call.token \in Nat /\ call.token = targets[call.target].token
         /\ call.want \in Nat /\ call.pages \in Nat /\ call.seen \in Nat
         /\ call.pages = job.pages /\ call.seen = job.seen
         /\ call.pages + 1 <= job.maxPages /\ call.want <= job.maxEvents - call.seen
         /\ job.status # "none" /\ TablesOK
         /\ left - 1 \in 0..SliceLength
  BY JobOk, LegacyAssumption DEF SliceInv, TablesInv, Calls, OpenTargets

LEMMA SliceRest == KeepRest /\ PollInv => PollInv'
  BY DEF KeepRest, pollVars, PollInv, RecentComplete

LEMMA PageReturnsInv == LegacyInv /\ PageReturns => LegacyInv'
  <1> SUFFICES ASSUME LegacyInv, PageReturns PROVE LegacyInv'
    OBVIOUS
  <1>1. /\ pc = "page" /\ KeepRest /\ SliceInv /\ TablesInv /\ PollInv
        /\ chain \in {"none", "timer", "waits"} /\ job \in Jobs
    BY JobOk DEF PageReturns, LegacyInv
  <1>2. PICK n \in Answers(call.target, call.token, call.want) :
          /\ fetched' = Ingested(call.target, call.token, n)
          /\ targets' = Moved(targets, call.target, call.token, n)
          /\ Iterate([job EXCEPT !.pages = call.pages + 1, !.seen = call.seen + n],
                     targets', left - 1, chain)
    BY DEF PageReturns
  <1>3. /\ TablesOK' /\ n \in Nat /\ n <= call.want
        /\ \A u \in Target : EndedNow(u) => EndedNow(u)'
        /\ \A u \in Target : targets[u].status # "absent" => targets'[u].status # "absent"
    BY <1>1, <1>2, Paging, PageTables
  <1> DEFINE p == call.pages + 1
             s == call.seen + n
             k == Charged(job, p, s)
  <1>4. p \in Nat /\ s \in Nat /\ p <= job.maxPages /\ s <= job.maxEvents
    BY <1>1, <1>3, Paging, JobOk
  <1>5. Iterate(k, targets', left - 1, chain)
    BY <1>2 DEF Charged
  <1> HIDE DEF p, s
  <1>6. /\ k \in Jobs /\ k.status = job.status
        /\ k.pages <= k.maxPages /\ k.seen <= k.maxEvents
    <2>1. /\ k \in Jobs /\ k.status = job.status /\ k.pages = p /\ k.seen = s
          /\ k.maxPages = job.maxPages /\ k.maxEvents = job.maxEvents
      BY <1>1, <1>4, ChargedType
    <2>2. QED
      BY <1>4, <2>1
  <1> HIDE DEF k
  <1>7. job.status # "none" /\ left - 1 \in 0..SliceLength /\ targets' \in [Target -> Rows]
    BY <1>1, <1>3, Paging DEF TablesOK
  <1>8. /\ SliceInv'
        /\ job'.status = "completed" =>
             job.status = "completed" \/ OpenTargets(targets') = {}
    BY <1>1, <1>5, <1>6, <1>7, IterateOk
  <1>9. TablesInv'
    BY <1>1, <1>3, <1>7, <1>8, TablesStep
  <1>10. QED
    BY <1>1, <1>8, <1>9, SliceRest DEF LegacyInv

LEMMA UnavailableInv == LegacyInv /\ Unavailable => LegacyInv'
  <1> SUFFICES ASSUME LegacyInv, Unavailable PROVE LegacyInv'
    OBVIOUS
  <1>1. /\ pc = "page" /\ KeepRest /\ SliceInv /\ TablesInv /\ PollInv
        /\ chain \in {"none", "timer", "waits"} /\ job \in Jobs
        /\ targets' = Skipped(targets, call.target) /\ UNCHANGED fetched
        /\ Iterate([job EXCEPT !.pages = call.pages + 1], targets', left - 1, chain)
    BY JobOk DEF Unavailable, LegacyInv
  <1>2. /\ TablesOK'
        /\ \A u \in Target : EndedNow(u) => EndedNow(u)'
        /\ \A u \in Target : targets[u].status # "absent" => targets'[u].status # "absent"
    BY <1>1, Paging, SkipTables
  <1> DEFINE p == call.pages + 1
             k == Turned(job, p)
  <1>3. p \in Nat /\ p <= job.maxPages
    BY <1>1, Paging
  <1>4. Iterate(k, targets', left - 1, chain)
    BY <1>1 DEF Turned
  <1> HIDE DEF p
  <1>5. /\ k \in Jobs /\ k.status = job.status
        /\ k.pages <= k.maxPages /\ k.seen <= k.maxEvents
    <2>1. /\ k \in Jobs /\ k.status = job.status /\ k.pages = p /\ k.seen = job.seen
          /\ k.maxPages = job.maxPages /\ k.maxEvents = job.maxEvents
      BY <1>1, <1>3, TurnedType
    <2>2. QED
      BY <1>1, <1>3, <2>1, JobOk
  <1> HIDE DEF k
  <1>6. job.status # "none" /\ left - 1 \in 0..SliceLength /\ targets' \in [Target -> Rows]
    BY <1>1, <1>2, Paging DEF TablesOK
  <1>7. /\ SliceInv'
        /\ job'.status = "completed" =>
             job.status = "completed" \/ OpenTargets(targets') = {}
    BY <1>1, <1>4, <1>5, <1>6, IterateOk
  <1>8. TablesInv'
    BY <1>1, <1>2, <1>6, <1>7, TablesStep
  <1>9. QED
    BY <1>1, <1>7, <1>8, SliceRest DEF LegacyInv

LEMMA FailureInv == LegacyInv /\ (Busy \/ Rejected) => LegacyInv'
  <1> SUFFICES ASSUME LegacyInv, NEW s \in {"pending", "failed"}, pc = "page",
                      EndSlice(WithStatus(job, s), chain),
                      UNCHANGED <<targets, fetched>>, KeepRest
               PROVE  LegacyInv'
    BY DEF Busy, Rejected
  <1> DEFINE k == WithStatus(job, s)
  <1>1. s \in Statuses /\ SliceInv /\ TablesInv /\ PollInv
    BY DEF Statuses, LegacyInv
  <1>2. /\ k \in Jobs /\ k.status = s
        /\ k.pages <= k.maxPages /\ k.seen <= k.maxEvents
    BY <1>1, StatusOk
  <1>3. EndSlice(k, chain) /\ chain \in {"none", "timer", "waits"} /\ job.status # "none"
    BY <1>1, JobOk, Paging
  <1> HIDE DEF k
  <1>4. SliceInv' /\ job' = k
    BY <1>2, <1>3, EndSliceOk
  <1>5. TablesInv'
    BY <1>1, <1>2, <1>3, <1>4, TablesKept
  <1>6. QED
    BY <1>1, <1>4, <1>5, SliceRest DEF LegacyInv

LEMMA RunJobInv ==
  ASSUME LegacyInv, job.status # "none", NEW ch \in {"none", "timer", "waits"},
         RunJob(ch), UNCHANGED <<targets, fetched>>, KeepRest
  PROVE  LegacyInv'
  <1>1. SliceInv /\ TablesInv /\ PollInv /\ targets \in [Target -> Rows]
    BY DEF LegacyInv, TablesInv, TablesOK
  <1>2. CASE UNCHANGED <<job, left, call>> /\ chain' = ch /\ pc' \in {pc, "me"}
    <2>1. SliceInv'
      BY <1>1, <1>2 DEF SliceInv, CountersWithin
    <2>2. TablesInv'
      BY <1>1, <1>2, TablesKept
    <2>3. QED
      BY <1>1, <2>1, <2>2, SliceRest DEF LegacyInv
  <1>3. CASE Begin(ch)
    <2>1. /\ SliceInv'
          /\ job'.status = "completed" =>
               job.status = "completed" \/ OpenTargets(targets') = {}
      BY <1>1, <1>3, BeginOk
    <2>2. TablesInv'
      BY <1>1, <2>1, TablesKept
    <2>3. QED
      BY <1>1, <2>1, <2>2, SliceRest DEF LegacyInv
  <1>4. QED
    BY <1>2, <1>3 DEF RunJob

LEMMA RunsInv == LegacyInv /\ (TimerFires \/ RunNow) => LegacyInv'
  <1> SUFFICES ASSUME LegacyInv, TimerFires \/ RunNow PROVE LegacyInv'
    OBVIOUS
  <1>1. job.status # "none" /\ chain \in {"none", "timer", "waits"}
    BY DEF LegacyInv, SliceInv, TimerFires, RunNow
  <1>2. QED
    BY <1>1, RunJobInv DEF TimerFires, RunNow

LEMMA MeInv == LegacyInv /\ (MeReturns \/ MeFails) => LegacyInv'
  <1> SUFFICES ASSUME LegacyInv, MeReturns \/ MeFails PROVE LegacyInv'
    OBVIOUS
  <1>1. /\ SliceInv /\ TablesInv /\ PollInv /\ targets \in [Target -> Rows]
        /\ job.status # "none" /\ chain \in {"none", "timer", "waits"}
        /\ UNCHANGED <<targets, fetched>>
    BY DEF LegacyInv, TablesInv, TablesOK, SliceInv, MeReturns, MeFails
  <1>2. CASE MeReturns
    <2>1. /\ SliceInv'
          /\ job'.status = "completed" =>
               job.status = "completed" \/ OpenTargets(targets') = {}
      BY <1>1, <1>2, BeginOk DEF MeReturns
    <2>2. TablesInv'
      BY <1>1, <2>1, TablesKept
    <2>3. PollInv'
      BY <1>1, <1>2 DEF MeReturns, pollVars, PollInv, RecentComplete
    <2>4. QED
      BY <2>1, <2>2, <2>3 DEF LegacyInv
  <1>3. CASE MeFails
    <2>1. SliceInv'
      BY <1>1, <1>3 DEF MeFails, SliceInv, CountersWithin
    <2>2. TablesInv'
      BY <1>1, <1>3, TablesKept DEF MeFails
    <2>3. QED
      BY <1>1, <1>3, <2>1, <2>2, SliceRest DEF LegacyInv, MeFails
  <1>4. QED
    BY <1>2, <1>3

LEMMA CreateJobInv == LegacyInv /\ CreateJob => LegacyInv'
  <1> SUFFICES ASSUME LegacyInv, CreateJob PROVE LegacyInv'
    OBVIOUS
  <1>1. PICK l \in Limits :
          job' = [job EXCEPT !.status = "pending", !.maxEvents = l[1], !.maxPages = l[2]]
    BY DEF CreateJob
  <1> DEFINE e == l[1]
             p == l[2]
  <1>2. /\ SliceInv /\ TablesInv /\ PollInv
        /\ job \in Jobs /\ job.status = "none" /\ pc = "off"
        /\ job.pages = 0 /\ job.seen = 0
    BY DEF CreateJob, LegacyInv, SliceInv
  <1>3. e \in Nat /\ p \in Nat
    BY LegacyAssumption
  <1>4. job' = Created(job, e, p)
    BY <1>1 DEF Created
  <1> HIDE DEF e, p
  <1>5. /\ job' \in Jobs /\ job'.status = "pending"
        /\ job'.pages <= job'.maxPages /\ job'.seen <= job'.maxEvents
    <2>1. /\ job' \in Jobs /\ job'.status = "pending"
          /\ job'.pages = job.pages /\ job'.seen = job.seen
          /\ job'.maxPages = p /\ job'.maxEvents = e
      BY <1>2, <1>3, <1>4, CreatedType
    <2>2. QED
      BY <1>2, <1>3, <2>1
  <1>6. /\ chain' = "timer" /\ UNCHANGED <<fetched, pc, left, call>> /\ KeepRest
    BY DEF CreateJob
  <1>7. SliceInv'
    BY <1>2, <1>5, <1>6 DEF SliceInv, CountersWithin
  <1>8. ASSUME NEW t \in Target
        PROVE  /\ targets'[t] \in Rows /\ targets'[t].token = 0
               /\ targets'[t].status \in {"pending", "absent"}
               /\ (\E i \in 1..Len(Wanted) : Wanted[i] = t)
                    => targets'[t].status = "pending"
    BY DEF CreateJob, Rows
  <1>9. targets' \in [Target -> Rows]
    BY <1>8 DEF CreateJob
  <1>10. TablesOK'
    <2>1. \A t \in Target : 1..targets'[t].token = {}
      BY <1>8
    <2>2. QED
      BY <1>2, <1>6, <1>8, <1>9, <2>1 DEF TablesInv, TablesOK, TokenBehindEvents
  <1>11. \A i \in 1..Len(Wanted) : Wanted[i] \in Target
    BY LegacyAssumption
  <1>12. TablesInv'
    BY <1>5, <1>8, <1>10, <1>11 DEF TablesInv, CompletedMeansEnded
  <1>13. QED
    BY <1>2, <1>6, <1>7, <1>12, SliceRest DEF LegacyInv

LEMMA PauseInv == LegacyInv /\ Pause => LegacyInv'
  <1> SUFFICES ASSUME LegacyInv, Pause PROVE LegacyInv'
    OBVIOUS
  <1>1. /\ SliceInv /\ TablesInv /\ PollInv /\ job \in Jobs /\ job.status # "none"
        /\ job' = WithStatus(job, "paused") /\ KeepRest
        /\ UNCHANGED <<targets, fetched, pc, left, call, chain>>
    BY DEF LegacyInv, SliceInv, Pause
  <1>2. /\ job' \in Jobs /\ job'.status = "paused"
        /\ job'.pages = job.pages /\ job'.seen = job.seen
        /\ job'.maxPages = job.maxPages /\ job'.maxEvents = job.maxEvents
    BY <1>1, JobsType DEF Statuses
  <1>3. SliceInv'
    BY <1>1, <1>2 DEF SliceInv, CountersWithin
  <1>4. TablesInv'
    BY <1>1, <1>2, TablesKept
  <1>5. QED
    BY <1>1, <1>3, <1>4, SliceRest DEF LegacyInv

\* No sync runs.
LEMMA PollOff ==
  ASSUME poll = NoPoll, configured \in BOOLEAN, started \in BOOLEAN,
         posted \in 0..MaxPosted, recents \subseteq 1..posted,
         covered \in 0..posted, RecentComplete
  PROVE  PollInv
  <1>1. /\ poll \in Polls /\ poll.at = "off" /\ poll.goal = 0 /\ poll.below = 0
    BY DEF NoPoll, Polls
  <1>2. poll.goal <= posted /\ poll.below <= posted
    BY <1>1, LegacyAssumption
  <1>3. QED
    BY <1>1, <1>2 DEF PollInv

LEMMA PollEnds ==
  ASSUME PollInv, poll' = NoPoll, configured' \in BOOLEAN, started' \in BOOLEAN,
         posted' = posted, recents' \subseteq 1..posted,
         covered' \in 0..posted, RecentComplete'
  PROVE  PollInv'
  <1>1. /\ poll' \in Polls /\ poll'.at = "off" /\ poll'.goal = 0 /\ poll'.below = 0
    BY DEF NoPoll, Polls
  <1>2. posted \in 0..MaxPosted /\ poll'.goal <= posted' /\ poll'.below <= posted'
    BY <1>1, LegacyAssumption DEF PollInv
  <1>3. QED
    BY <1>1, <1>2 DEF PollInv

LEMMA StopInv == SliceInv /\ PollInv /\ Stop /\ UNCHANGED job => SliceInv' /\ PollInv'
  <1> SUFFICES ASSUME SliceInv, PollInv, Stop, UNCHANGED job PROVE SliceInv' /\ PollInv'
    OBVIOUS
  <1>1. NoCall \in Calls /\ 0 \in 0..SliceLength
    BY LegacyAssumption DEF NoCall, Calls
  <1>2. SliceInv'
    BY <1>1 DEF Stop, SliceInv, CountersWithin
  <1>3. PollInv'
    BY PollEnds DEF Stop, PollInv, RecentComplete
  <1>4. QED
    BY <1>2, <1>3

LEMMA CrashesInv == LegacyInv /\ Crashes => LegacyInv'
  <1> SUFFICES ASSUME LegacyInv, Crashes PROVE LegacyInv'
    OBVIOUS
  <1>1. SliceInv /\ TablesInv /\ PollInv /\ TablesOK
    BY DEF LegacyInv, TablesInv
  <1>2. Stop /\ UNCHANGED job
    BY DEF Crashes, Crash, CrashAfterStore, CrashAfterSkip
  <1>3. SliceInv' /\ PollInv'
    BY <1>1, <1>2, StopInv
  <1>4. CASE Crash
    BY <1>1, <1>3, <1>4 DEF Crash, LegacyInv, TablesInv, TablesOK,
       TokenBehindEvents, CompletedMeansEnded
  <1>5. CASE CrashAfterStore
    <2>1. PICK n \in Answers(call.target, call.token, call.want) :
            /\ fetched' = Ingested(call.target, call.token, n)
            /\ targets' \in {targets, Moved(targets, call.target, call.token, n)}
      BY <1>5 DEF CrashAfterStore
    <2>2. pc = "page"
      BY <1>5 DEF CrashAfterStore
    <2>3. /\ TablesOK'
          /\ \A u \in Target : EndedNow(u) => EndedNow(u)'
          /\ \A u \in Target : targets[u].status # "absent" => targets'[u].status # "absent"
      BY <1>1, <2>1, <2>2, Paging, PageTables
    <2>4. job.status # "none"
      BY <1>1, <2>2, Paging
    <2>5. TablesInv'
      BY <1>1, <1>2, <2>3, <2>4, TablesStep
    <2>6. QED
      BY <1>3, <2>5 DEF LegacyInv
  <1>6. CASE CrashAfterSkip
    <2>1. /\ pc = "page" /\ UNCHANGED fetched
          /\ targets' = Skipped(targets, call.target)
      BY <1>6 DEF CrashAfterSkip
    <2>2. /\ TablesOK'
          /\ \A u \in Target : EndedNow(u) => EndedNow(u)'
          /\ \A u \in Target : targets[u].status # "absent" => targets'[u].status # "absent"
      BY <1>1, <2>1, Paging, SkipTables
    <2>3. TablesInv'
      BY <1>1, <1>2, <2>1, <2>2, Paging, TablesStep
    <2>4. QED
      BY <1>3, <2>3 DEF LegacyInv
  <1>7. QED
    BY <1>4, <1>5, <1>6 DEF Crashes

-----------------------------------------------------------------------------
(* Start and recent events *)

LEMMA PollType ==
  ASSUME NEW at \in {"off", "me", "page"}, NEW g \in Nat, NEW b \in Nat, NEW l \in Nat,
         NEW p, p = [at |-> at, goal |-> g, below |-> b, left |-> l]
  PROVE  p \in Polls /\ p.at = at /\ p.goal = g /\ p.below = b /\ p.left = l
  BY DEF Polls

\* A sync begins.
LEMMA BeginPoll ==
  ASSUME PollInv, NEW m \in Nat,
         poll' = [at |-> IF configured THEN "page" ELSE "me",
                  goal |-> posted, below |-> 0, left |-> m],
         UNCHANGED <<configured, posted, recents, covered>>, started' \in BOOLEAN
  PROVE  PollInv'
  <1>1. posted \in Nat /\ 0 <= posted
    BY LegacyAssumption DEF PollInv
  <1>2. poll' \in Polls /\ poll'.goal = posted /\ poll'.below = 0
    BY <1>1, PollType
  <1>3. QED
    BY <1>1, <1>2 DEF PollInv, RecentComplete

LEMMA JobVarsKept == SliceInv /\ TablesInv /\ UNCHANGED jobVars => SliceInv' /\ TablesInv'
  BY DEF jobVars, SliceInv, CountersWithin, TablesInv, TablesOK, TokenBehindEvents,
         CompletedMeansEnded

LEMMA StartInv == LegacyInv /\ Start => LegacyInv'
  <1> SUFFICES ASSUME LegacyInv, Start PROVE LegacyInv'
    OBVIOUS
  <1>1. SliceInv'
    BY DEF Start, LegacyInv, SliceInv, CountersWithin, Incomplete
  <1>2. TablesInv'
    BY DEF Start, LegacyInv, TablesInv, TablesOK, TokenBehindEvents, CompletedMeansEnded
  <1>3. PollInv'
    BY BeginPoll, LegacyAssumption DEF Start, LegacyInv
  <1>4. QED
    BY <1>1, <1>2, <1>3 DEF LegacyInv

LEMMA PollReturnsInv == PollInv /\ PollReturns => PollInv'
  <1> SUFFICES ASSUME PollInv, PollReturns PROVE PollInv'
    OBVIOUS
  <1>1. /\ posted \in Nat /\ poll \in Polls /\ poll.goal \in Nat /\ poll.below \in Nat
        /\ poll.left \in Nat /\ covered \in Nat /\ PageSize \in Nat \ {0}
        /\ poll.goal <= posted /\ poll.below <= posted /\ covered <= posted
    BY LegacyAssumption DEF PollInv, Polls
  <1> DEFINE top == IF poll.below = 0 THEN posted ELSE poll.below - 1
  <1>2. top \in Nat /\ top <= posted
    BY <1>1
  <1>3. PICK page \in PollPages :
          /\ recents' = recents \cup page
          /\ covered' = IF page = {} \/ 1 \in page THEN Most(covered, poll.goal) ELSE covered
          /\ \/ poll' = NoPoll
             \/ /\ page # {} /\ 1 \notin page /\ poll.left > 1
                /\ \E low \in page :
                     /\ \A e \in page : low <= e
                     /\ poll' = [poll EXCEPT !.below = low, !.left = @ - 1]
    BY DEF PollReturns
  <1>4. PICK low \in (top - Least(PageSize, top) + 1)..Most(1, top) : page = low..top
    BY DEF PollPages
  <1> HIDE DEF top
  <1>5. low \in Int /\ low >= 1 /\ (top > 0 => low <= top)
    BY <1>1, <1>2, <1>4 DEF Least, Most
  <1>6. /\ page \subseteq 1..posted
        /\ page = {} => top = 0
        /\ 1 \in page => low = 1
    <2>1. page \subseteq 1..posted
      BY <1>1, <1>2, <1>4, <1>5
    <2>2. top > 0 => low \in page
      BY <1>2, <1>4, <1>5
    <2>3. QED
      BY <1>2, <1>4, <1>5, <2>1, <2>2
  <1>7. low..poll.goal \subseteq recents'
    <2>1. CASE poll.below = 0
      <3>1. top = posted
        BY <2>1 DEF top
      <3>2. \A e \in low..poll.goal : e \in page
        BY <1>1, <1>4, <1>5, <3>1
      <3>3. QED
        BY <1>3, <3>2
    <2>2. CASE poll.below # 0
      <3>1. poll.below..poll.goal \subseteq recents /\ top = poll.below - 1
        BY <2>2 DEF PollInv, top
      <3>2. ASSUME NEW e \in low..poll.goal PROVE e \in page \/ e \in poll.below..poll.goal
        BY <1>1, <1>2, <1>4, <1>5, <3>1
      <3>3. QED
        BY <1>3, <3>1, <3>2
    <2>3. QED
      BY <2>1, <2>2
  <1>8. page = {} \/ 1 \in page => 1..poll.goal \subseteq recents'
    <2>1. CASE 1 \in page
      BY <1>6, <1>7, <2>1
    <2>2. CASE page = {}
      <3>1. top = 0 /\ poll.below = 0
        BY <1>1, <1>6, <2>2 DEF top, PollInv
      <3>2. posted = 0 /\ poll.goal = 0
        BY <1>1, <3>1 DEF top
      <3>3. QED
        BY <3>2
    <2>3. QED
      BY <2>1, <2>2
  <1>9. /\ recents' \subseteq 1..posted /\ recents \subseteq recents'
        /\ UNCHANGED <<configured, started, posted>>
    BY <1>3, <1>6 DEF PollInv, PollReturns
  <1>10. covered' \in 0..posted /\ 1..covered' \subseteq recents'
    <2>1. 1..covered \subseteq recents'
      BY <1>9 DEF PollInv, RecentComplete
    <2>2. CASE page = {} \/ 1 \in page
      <3>1. covered' = Most(covered, poll.goal)
        BY <1>3, <2>2
      <3>2. covered' \in {covered, poll.goal}
        BY <1>1, <3>1 DEF Most
      <3>3. QED
        <4>1. 1..poll.goal \subseteq recents' /\ poll.goal \in 0..posted
          BY <1>1, <1>8, <2>2
        <4>2. covered \in 0..posted
          BY <1>1
        <4>3. QED
          BY <2>1, <3>2, <4>1, <4>2
    <2>3. CASE ~(page = {} \/ 1 \in page)
      <3>1. covered' = covered
        BY <1>3, <2>3
      <3>2. QED
        BY <1>1, <2>1, <3>1
    <2>4. QED
      BY <2>2, <2>3
  <1>11. CASE poll' = NoPoll
    BY <1>9, <1>10, <1>11, PollEnds DEF PollInv, RecentComplete
  <1>12. CASE /\ page # {} /\ 1 \notin page /\ poll.left > 1
              /\ \E l \in page :
                   /\ \A e \in page : l <= e
                   /\ poll' = [poll EXCEPT !.below = l, !.left = @ - 1]
    <2>1. PICK l \in page : /\ \A e \in page : l <= e
                           /\ poll' = [poll EXCEPT !.below = l, !.left = @ - 1]
      BY <1>12
    <2>2. l = low /\ low >= 2 /\ low <= posted /\ low \in Nat
      BY <1>1, <1>2, <1>4, <1>5, <1>6, <1>12, <2>1
    <2> DEFINE rest == poll.left - 1
    <2>3. rest \in Nat /\ poll' = [poll EXCEPT !.below = low, !.left = rest]
      BY <1>1, <1>12, <2>1, <2>2
    <2> HIDE DEF rest
    <2>4. /\ poll' \in Polls /\ poll'.below = low /\ poll'.goal = poll.goal
          /\ poll'.at = poll.at
      BY <1>1, <2>2, <2>3 DEF Polls
    <2>5. poll.at = "page"
      BY DEF PollReturns
    <2>6. QED
      BY <1>1, <1>7, <1>9, <1>10, <2>2, <2>4, <2>5 DEF PollInv, RecentComplete
  <1>13. QED
    BY <1>3, <1>11, <1>12

LEMMA RecentInv == LegacyInv /\ Recent => LegacyInv'
  <1> SUFFICES ASSUME LegacyInv, Recent PROVE LegacyInv'
    OBVIOUS
  <1>1. UNCHANGED jobVars
    BY DEF Recent, Sync, PollMeReturns, PollReturns, PollFails, Post, Webhook
  <1>2. SliceInv' /\ TablesInv'
    BY <1>1, JobVarsKept DEF LegacyInv
  <1>3. PollInv /\ posted \in Nat /\ covered \in Nat /\ poll \in Polls
    BY LegacyAssumption DEF LegacyInv, PollInv
  <1>4. ASSUME NEW m \in 1..StartPages, Sync(m) PROVE PollInv'
    BY <1>3, <1>4, LegacyAssumption, BeginPoll DEF Sync, PollInv
  <1>5. ASSUME PollMeReturns PROVE PollInv'
    <2>1. poll' \in Polls /\ poll'.at = "page" /\ poll'.goal = poll.goal
          /\ poll'.below = poll.below
      BY <1>3, <1>5 DEF PollMeReturns, Polls
    <2>2. QED
      BY <1>3, <1>5, <2>1 DEF PollMeReturns, PollInv, RecentComplete
  <1>6. ASSUME PollFails PROVE PollInv'
    BY <1>3, <1>6, PollEnds DEF PollFails, PollInv, RecentComplete
  <1>7. ASSUME Post PROVE PollInv'
    <2>1. posted' \in 0..MaxPosted /\ posted' = posted + 1
          /\ UNCHANGED <<configured, started, recents, poll, covered>>
      BY <1>3, <1>7, LegacyAssumption DEF Post
    <2>2. poll.goal \in Nat /\ poll.below \in Nat
      BY <1>3 DEF Polls
    <2>3. QED
      BY <1>3, <2>1, <2>2 DEF PollInv, RecentComplete
  <1>8. ASSUME Webhook PROVE PollInv'
    <2>1. PICK e \in 1..posted : recents' = recents \cup {e}
      BY <1>8 DEF Webhook
    <2>2. QED
      BY <1>3, <1>8, <2>1 DEF Webhook, PollInv, RecentComplete
  <1>9. PollInv'
    BY <1>3, <1>4, <1>5, <1>6, <1>7, <1>8, PollReturnsInv DEF Recent
  <1>10. QED
    BY <1>2, <1>9 DEF LegacyInv

-----------------------------------------------------------------------------
(* Theorems *)

LEMMA LegacyInitInv == LegacyInit => LegacyInv
  <1> SUFFICES ASSUME LegacyInit PROVE LegacyInv
    OBVIOUS
  <1>1. NoCall \in Calls /\ 0 \in 0..SliceLength /\ 0 \in 0..MaxPosted
    BY LegacyAssumption DEF NoCall, Calls
  <1>2. /\ job \in Jobs /\ job.status = "none" /\ job.pages = 0 /\ job.seen = 0
        /\ job.maxPages = 0 /\ job.maxEvents = 0
    BY DEF LegacyInit, Jobs
  <1>3. SliceInv
    BY <1>1, <1>2 DEF LegacyInit, SliceInv, CountersWithin
  <1>4. \A t \in Target : /\ targets[t] \in Rows /\ targets[t].token = 0
                         /\ targets[t].status = "absent" /\ fetched[t] = {}
    BY DEF LegacyInit, Rows
  <1>5. TablesInv
    <2>1. targets \in [Target -> Rows] /\ fetched \in [Target -> SUBSET Nat]
      BY <1>4 DEF LegacyInit
    <2>2. TokenBehindEvents
      BY <1>4 DEF TokenBehindEvents
    <2>3. QED
      BY <1>2, <1>4, <2>1, <2>2 DEF TablesInv, TablesOK, CompletedMeansEnded
  <1>6. PollInv
    <2>1. /\ poll = NoPoll /\ configured \in BOOLEAN /\ started \in BOOLEAN
          /\ posted = 0 /\ covered = 0 /\ recents = {}
      BY DEF LegacyInit
    <2>2. /\ posted \in 0..MaxPosted /\ covered \in 0..posted
          /\ recents \subseteq 1..posted /\ 1..covered \subseteq recents
      BY <1>1, <2>1
    <2>3. QED
      BY <2>1, <2>2, PollOff DEF RecentComplete
  <1>7. QED
    BY <1>3, <1>5, <1>6 DEF LegacyInv

LEMMA LegacyNextInv == LegacyInv /\ [LegacyNext]_vars => LegacyInv'
  <1>1. LegacyInv /\ UNCHANGED vars => LegacyInv'
    BY JobVarsKept DEF vars, pollVars, LegacyInv, PollInv, RecentComplete
  <1>2. QED
    BY <1>1, PageReturnsInv, UnavailableInv, FailureInv, RunsInv, MeInv, CreateJobInv,
       PauseInv, CrashesInv, StartInv, RecentInv DEF LegacyNext, Settles

LEMMA LegacyAlways == LegacySpec => []LegacyInv
  BY LegacyInitInv, LegacyNextInv, PTL DEF LegacySpec

\* Job, targets, slice and poll keep their types.
THEOREM LegacyTypeCorrect == LegacySpec => []LegacyTypeOK
  <1>1. LegacyInv => LegacyTypeOK
    BY DEF LegacyInv, SliceInv, TablesInv, TablesOK, PollInv, LegacyTypeOK
  <1>2. QED
    BY <1>1, LegacyAlways, PTL

\* What lies before a token is stored, and a completed target is stored whole.
THEOREM TokenStaysBehind == LegacySpec => []TokenBehindEvents
  <1>1. LegacyInv => TokenBehindEvents
    BY DEF LegacyInv, TablesInv, TablesOK
  <1>2. QED
    BY <1>1, LegacyAlways, PTL

\* A job that says it is completed has read, or been refused, all its targets.
THEOREM CompletedHasEnded == LegacySpec => []CompletedMeansEnded
  <1>1. LegacyInv => CompletedMeansEnded
    BY DEF LegacyInv, TablesInv
  <1>2. QED
    BY <1>1, LegacyAlways, PTL

\* No slice, restart or POST takes the counters past the limits.
THEOREM CountersStayWithin == LegacySpec => []CountersWithin
  <1>1. LegacyInv => CountersWithin
    BY DEF LegacyInv, SliceInv
  <1>2. QED
    BY <1>1, LegacyAlways, PTL

\* A poll that answers "complete" has stored all there was when it began.
THEOREM CompletePollsAre == LegacySpec => []RecentComplete
  <1>1. LegacyInv => RecentComplete
    BY DEF LegacyInv, PollInv
  <1>2. QED
    BY <1>1, LegacyAlways, PTL

LEMMA PauseStep ==
  ASSUME LegacyInv, [LegacyNext]_vars, job.status = "paused", job'.status # "paused"
  PROVE  pc = "page"
  <1>1. ASSUME NEW ch, RunJob(ch) PROVE FALSE
    BY <1>1 DEF RunJob, Begin, EndSlice
  <1>2. ~TimerFires /\ ~RunNow
    BY <1>1 DEF TimerFires, RunNow
  <1>3. ~MeReturns /\ ~MeFails
    BY DEF MeReturns, MeFails, Begin, EndSlice
  <1>4. job \in Jobs
    BY DEF LegacyInv, SliceInv
  <1>5. ~Pause
    BY <1>4, JobsType DEF Pause, Statuses
  <1>6. ~CreateJob /\ ~Start /\ ~Recent /\ ~UNCHANGED vars
    BY DEF CreateJob, Start, Recent, Sync, PollMeReturns, PollReturns, PollFails,
           Post, Webhook, jobVars, vars
  <1>7. ~Crashes
    BY DEF Crashes, Crash, CrashAfterStore, CrashAfterSkip
  <1>8. PageReturns \/ Unavailable \/ Busy \/ Rejected
    BY <1>2, <1>3, <1>5, <1>6, <1>7 DEF LegacyNext, Settles
  <1>9. QED
    BY <1>8 DEF PageReturns, Unavailable, Busy, Rejected

\* A job leaves "paused" only by the slice that the pause found running.
THEOREM PauseAlwaysHolds == LegacySpec => PauseHolds
  <1>1. LegacyInv /\ [LegacyNext]_vars =>
          [job.status = "paused" /\ job'.status # "paused" => pc = "page"]_vars
    BY PauseStep
  <1>2. QED
    BY <1>1, LegacyAlways, PTL DEF LegacySpec, PauseHolds

-----------------------------------------------------------------------------
(* Events are charged once *)

SumOk(n, T) == IsFiniteSet(Passed(T)) /\ n <= Cardinality(Passed(T))

LEMMA PassedPairs ==
  ASSUME NEW q, NEW p
  PROVE  p \in Passed(q) <=>
           \E c \in Target : \E i \in 1..q[c].token : p = <<c, i>>
  BY DEF Passed

\* Tokens that stay where they are.
LEMMA PassedSame ==
  ASSUME NEW q, NEW r, \A c \in Target : q[c].token = r[c].token
  PROVE  Passed(q) = Passed(r)
  <1>1. ASSUME NEW p PROVE p \in Passed(q) <=> p \in Passed(r)
    BY PassedPairs
  <1>2. QED
    BY <1>1

\* A token that moves by n events passes exactly n more.
LEMMA PassedMoved ==
  ASSUME NEW q, NEW r, NEW c \in Target, NEW k \in Nat, NEW n \in Nat,
         q[c].token = k, r[c].token = k + n,
         \A d \in Target \ {c} : q[d].token = r[d].token,
         IsFiniteSet(Passed(q))
  PROVE  /\ IsFiniteSet(Passed(r))
         /\ Cardinality(Passed(r)) = Cardinality(Passed(q)) + n
         /\ Cardinality(Passed(q)) \in Nat
  <1> DEFINE I == (k + 1)..(k + n)
             N == {c} \X I
  <1>1. IsFiniteSet(I) /\ Cardinality(I) = n
    BY FS_Interval
  <1>2. IsFiniteSet({c}) /\ Cardinality({c}) = 1
    BY FS_Singleton
  <1>3. IsFiniteSet(N) /\ Cardinality(N) = n
    <2> HIDE DEF I
    <2>1. IsFiniteSet(N) /\ Cardinality(N) = Cardinality({c}) * Cardinality(I)
      BY <1>1, <1>2, FS_Product
    <2>2. QED
      BY <1>1, <1>2, <2>1
  <1>4. ASSUME NEW p PROVE p \in N <=> \E i \in (k + 1)..(k + n) : p = <<c, i>>
    OBVIOUS
  <1> HIDE DEF N, I
  <1>5. ASSUME NEW p PROVE p \in Passed(r) <=> p \in Passed(q) \/ p \in N
    <2>1. \A i \in 1..(k + n) : i \in 1..k \/ i \in (k + 1)..(k + n)
      OBVIOUS
    <2>2. /\ \A i \in 1..k : i \in 1..(k + n)
          /\ \A i \in (k + 1)..(k + n) : i \in 1..(k + n)
      OBVIOUS
    <2>3. ASSUME p \in Passed(r) PROVE p \in Passed(q) \/ p \in N
      <3>1. PICK d \in Target : \E i \in 1..r[d].token : p = <<d, i>>
        BY <2>3, PassedPairs
      <3>2. CASE d = c
        BY <1>4, <2>1, <3>1, <3>2, PassedPairs
      <3>3. CASE d # c
        BY <3>1, <3>3, PassedPairs
      <3>4. QED
        BY <3>2, <3>3
    <2>4. ASSUME p \in Passed(q) PROVE p \in Passed(r)
      <3>1. PICK d \in Target : \E i \in 1..q[d].token : p = <<d, i>>
        BY <2>4, PassedPairs
      <3>2. \E i \in 1..r[d].token : p = <<d, i>>
        BY <2>2, <3>1
      <3>3. QED
        BY <3>2, PassedPairs
    <2>5. ASSUME p \in N PROVE p \in Passed(r)
      BY <1>4, <2>2, <2>5, PassedPairs
    <2>6. QED
      BY <2>3, <2>4, <2>5
  <1>6. Passed(r) = Passed(q) \cup N
    BY <1>5
  <1>7. Passed(q) \cap N = {}
    <2>1. ASSUME NEW p \in Passed(q), p \in N PROVE FALSE
      <3>1. PICK d \in Target : \E i \in 1..q[d].token : p = <<d, i>>
        BY PassedPairs
      <3>2. PICK i \in 1..q[d].token : p = <<d, i>>
        BY <3>1
      <3>3. PICK j \in (k + 1)..(k + n) : p = <<c, j>>
        BY <1>4, <2>1
      <3>4. d = c /\ i = j
        BY <3>2, <3>3
      <3>5. QED
        BY <3>2, <3>3, <3>4
    <2>2. QED
      BY <2>1
  <1>8. /\ IsFiniteSet(Passed(r))
        /\ Cardinality(Passed(r)) =
             Cardinality(Passed(q)) + Cardinality(N) - Cardinality(Passed(q) \cap N)
    BY <1>3, <1>6, FS_Union
  <1>9. Cardinality(Passed(q)) \in Nat /\ Cardinality(Passed(q) \cap N) = 0
    BY <1>7, FS_CardinalityType, FS_EmptySet
  <1>10. QED
    BY <1>3, <1>8, <1>9

LEMMA MovedSum ==
  ASSUME LegacyInv, SumOk(job.seen, targets), pc = "page", NEW n \in Nat,
         targets' = Moved(targets, call.target, call.token, n)
  PROVE  SumOk(job.seen + n, targets') /\ SumOk(job.seen, targets')
  <1> DEFINE t == call.target
             k == call.token
  <1>1. /\ t \in Target /\ k \in Nat /\ targets[t].token = k
        /\ targets \in [Target -> Rows] /\ job.seen \in Nat
    BY Paging, JobOk DEF LegacyInv, TablesOK
  <1>2. /\ targets'[t].token = k + n
        /\ \A u \in Target \ {t} : targets[u].token = targets'[u].token
    BY <1>1 DEF Moved
  <1> HIDE DEF t, k
  <1>3. IsFiniteSet(Passed(targets))
    BY DEF SumOk
  <1>4. /\ IsFiniteSet(Passed(targets'))
        /\ Cardinality(Passed(targets')) = Cardinality(Passed(targets)) + n
        /\ Cardinality(Passed(targets)) \in Nat
    <2>1. t \in Target /\ k \in Nat
      BY <1>1
    <2>2. targets[t].token = k /\ targets'[t].token = k + n
      BY <1>1, <1>2
    <2>3. QED
      BY <1>2, <1>3, <2>1, <2>2, PassedMoved
  <1>5. QED
    BY <1>1, <1>4 DEF SumOk

\* A target that is given up keeps its token.
LEMMA SkippedSum ==
  ASSUME LegacyInv, SumOk(job.seen, targets), pc = "page",
         targets' = Skipped(targets, call.target)
  PROVE  SumOk(job.seen, targets')
  <1>1. targets \in [Target -> Rows] /\ call.target \in Target
    BY Paging DEF LegacyInv, TablesInv, TablesOK
  <1>2. \A t \in Target : targets[t].token = targets'[t].token
    BY <1>1 DEF Skipped, Rows
  <1>3. QED
    BY <1>2, PassedSame DEF SumOk

LEMMA IterateSeen ==
  ASSUME NEW j \in Jobs, NEW T, NEW n, NEW ch, Iterate(j, T, n, ch)
  PROVE  job'.seen = j.seen
  <1>1. job' \in {j, WithStatus(j, "paused"), WithStatus(j, "completed")}
    BY DEF Iterate, EndSlice
  <1>2. QED
    BY <1>1, JobsType DEF Statuses

\* Steps that move no token and count nothing.
LEMMA OtherSeen ==
  ASSUME LegacyInv, TimerFires \/ RunNow \/ Pause \/ MeReturns \/ MeFails \/ Busy
                    \/ Rejected \/ Recent \/ Start \/ Crash \/ UNCHANGED vars
  PROVE  job'.seen = job.seen /\ UNCHANGED targets
  <1>1. job \in Jobs
    BY DEF LegacyInv, SliceInv
  <1>2. \A s \in Statuses : WithStatus(job, s) \in Jobs /\ WithStatus(job, s).seen = job.seen
    BY <1>1, JobsType
  <1>3. ASSUME NEW ch, Begin(ch) PROVE job'.seen = job.seen
    BY <1>2, <1>3, IterateSeen DEF Begin, EndSlice, Statuses
  <1>4. ASSUME NEW ch, RunJob(ch) PROVE job'.seen = job.seen
    BY <1>3, <1>4 DEF RunJob
  <1>5. CASE TimerFires \/ RunNow
    BY <1>4, <1>5 DEF TimerFires, RunNow
  <1>6. CASE MeReturns \/ MeFails
    BY <1>3, <1>6 DEF MeReturns, MeFails
  <1>7. CASE Pause \/ Busy \/ Rejected
    BY <1>2, <1>7 DEF Pause, Busy, Rejected, EndSlice, Statuses
  <1>8. CASE Recent \/ Start \/ Crash \/ UNCHANGED vars
    BY <1>8 DEF Recent, Sync, PollMeReturns, PollReturns, PollFails, Post, Webhook,
       jobVars, Start, Crash, vars
  <1>9. QED
    BY <1>5, <1>6, <1>7, <1>8

LEMMA SumStep ==
  ASSUME LegacyInv, SumOk(job.seen, targets), [LegacyNext]_vars
  PROVE  SumOk(job'.seen, targets')
  <1>1. job \in Jobs
    BY DEF LegacyInv, SliceInv
  <1>2. CASE PageReturns
    <2>1. /\ pc = "page"
          /\ \E n \in Answers(call.target, call.token, call.want) :
               /\ targets' = Moved(targets, call.target, call.token, n)
               /\ Iterate([job EXCEPT !.pages = call.pages + 1, !.seen = call.seen + n],
                          targets', left - 1, chain)
      BY <1>2 DEF PageReturns
    <2>2. PICK n \in Answers(call.target, call.token, call.want) :
            /\ targets' = Moved(targets, call.target, call.token, n)
            /\ Iterate([job EXCEPT !.pages = call.pages + 1, !.seen = call.seen + n],
                       targets', left - 1, chain)
      BY <2>1
    <2> DEFINE p == call.pages + 1
               s == call.seen + n
    <2>3. n \in Nat /\ p \in Nat /\ s \in Nat /\ call.seen = job.seen
      BY <2>1, Paging DEF LegacyInv, Answers
    <2>4. Iterate(Charged(job, p, s), targets', left - 1, chain)
      BY <2>2 DEF Charged
    <2> HIDE DEF p, s
    <2>5. Charged(job, p, s) \in Jobs /\ Charged(job, p, s).seen = s
      BY <1>1, <2>3, ChargedType
    <2>6. job'.seen = job.seen + n
      BY <2>3, <2>4, <2>5, IterateSeen DEF s
    <2>7. QED
      BY <2>1, <2>2, <2>3, <2>6, MovedSum
  <1>3. CASE Unavailable
    <2> DEFINE p == call.pages + 1
    <2>1. /\ pc = "page" /\ targets' = Skipped(targets, call.target)
          /\ Iterate(Turned(job, p), targets', left - 1, chain)
      BY <1>3 DEF Unavailable, Turned
    <2>2. p \in Nat
      BY <2>1, Paging DEF LegacyInv
    <2> HIDE DEF p
    <2>3. Turned(job, p) \in Jobs /\ Turned(job, p).seen = job.seen
      BY <1>1, <2>2, TurnedType
    <2>4. job'.seen = job.seen
      BY <2>1, <2>3, IterateSeen
    <2>5. QED
      BY <2>1, <2>4, SkippedSum
  <1>4. CASE CreateJob
    <2>1. job'.seen = 0 /\ \A t \in Target : targets'[t].token = 0
      BY <1>1, <1>4 DEF CreateJob, LegacyInv, SliceInv, Jobs
    <2>2. \A x : x \notin Passed(targets')
      BY <2>1, PassedPairs
    <2>3. QED
      BY <2>1, <2>2, FS_EmptySet DEF SumOk
  <1>5. CASE CrashAfterStore
    <2>1. PICK n \in Answers(call.target, call.token, call.want) :
            targets' \in {targets, Moved(targets, call.target, call.token, n)}
      BY <1>5 DEF CrashAfterStore
    <2>2. pc = "page" /\ UNCHANGED job /\ n \in Nat
      BY <1>5, <2>1, Paging DEF CrashAfterStore, LegacyInv, Answers
    <2>3. QED
      BY <2>1, <2>2, MovedSum
  <1>6. CASE CrashAfterSkip
    BY <1>6, SkippedSum DEF CrashAfterSkip
  <1>7. CASE TimerFires \/ RunNow \/ Pause \/ MeReturns \/ MeFails \/ Busy
             \/ Rejected \/ Recent \/ Start \/ Crash \/ UNCHANGED vars
    BY <1>7, OtherSeen
  <1>8. QED
    BY <1>2, <1>3, <1>4, <1>5, <1>6, <1>7 DEF LegacyNext, Settles, Crashes

\* Every event that was charged to the limits lies behind a token: a page that
\* a crash makes a slice read again counts once.
THEOREM LimitsAlwaysHold == LegacySpec => []WithinLimits
  <1> DEFINE Charge == SumOk(job.seen, targets)
  <1>1. LegacyInit => Charge
    <2>1. ASSUME LegacyInit PROVE job.seen = 0 /\ \A t \in Target : targets[t].token = 0
      BY <2>1 DEF LegacyInit
    <2>2. ASSUME LegacyInit PROVE Passed(targets) = {}
      BY <2>1, <2>2, PassedPairs
    <2>3. QED
      BY <2>1, <2>2, FS_EmptySet DEF SumOk
  <1>2. LegacyInv /\ Charge /\ [LegacyNext]_vars => Charge'
    BY SumStep
  <1>3. LegacyInv /\ Charge => WithinLimits
    BY DEF LegacyInv, SliceInv, SumOk, WithinLimits
  <1> HIDE DEF Charge
  <1>4. QED
    BY <1>1, <1>2, <1>3, LegacyAlways, PTL DEF LegacySpec
=============================================================================
