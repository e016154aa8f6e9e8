------------------------------- MODULE Paging --------------------------------
(***************************************************************************)
(* The readers of the two caches: lists that a client fetches page by page *)
(* while events keep being stored, at any time stamp, and searches, which  *)
(* page through a list without an await (src/message-search.js): an action *)
(* for each page, and nothing else between them.  A list of XChatCache has *)
(* a cursor of time stamp and event id, the lists of LegacyDmCache and of  *)
(* both caches together have only the time stamp.                          *)
(*                                                                         *)
(* Rows are those that pass the filters of the request, "after" included.  *)
(***************************************************************************)
EXTENDS Integers, Sequences, FiniteSets

CONSTANTS
  Time, Id,       \* created_at and event_id of the rows
  PageMost,       \* rows of one page of a search (100 in the code)
  Sizes,          \* limits a client chooses
  ScanLimits,     \* values of scan_limit
  Matching,       \* rows whose text has the words of a search
  MaxRows         \* bound on the rows

Row == [source : {"xchat", "legacy_dm"}, at : Time, id : Id]

ASSUME PagingAssumption ==
  /\ Time \subseteq Nat \ {0} /\ Id \subseteq Nat \ {0}
  /\ PageMost \in Nat \ {0} /\ MaxRows \in Nat
  /\ Sizes \subseteq Nat \ {0} /\ ScanLimits \subseteq Nat \ {0}
  /\ Matching \subseteq Row

VARIABLES
  rows,     \* xchat_decrypted_events and legacy_dm_events
  reader,   \* the list a client reads, its page size and its cursor
  pages,    \* the pages it got, as sets of rows
  there,    \* the rows there were when it fetched its first page
  search    \* the search that runs, or that was answered last

pagingVars == <<rows, reader, pages, there, search>>

Kinds == {"xchat", "legacy_dm", "unified"}

NoCursor == [at |-> 0, id |-> 0]

NoList(n) == [at |-> "idle", kind |-> "unified", size |-> n, cursor |-> NoCursor]

NoSearch == [at |-> "idle", kind |-> "unified", list |-> "xchat", limit |-> 0,
             most |-> 0, cursor |-> NoCursor, scanned |-> 0, found |-> {},
             first |-> {}, cut |-> FALSE]

PagingInit ==
  /\ rows = {} /\ pages = <<>> /\ there = {} /\ search = NoSearch
  /\ \E n \in Sizes : reader = NoList(n)

-----------------------------------------------------------------------------
(* Lists *)

\* ORDER BY created_at DESC, event_id DESC; a sort of both lists keeps the
\* rows of the XChat cache first where that does not decide.
Newer(r, q) ==
  \/ r.at > q.at
  \/ r.at = q.at /\ r.id > q.id
  \/ r.at = q.at /\ r.id = q.id /\ r.source = "xchat" /\ q.source = "legacy_dm"

\* ... LIMIT n
Newest(S, n) == {r \in S : Cardinality({q \in S : Newer(q, r)}) < n}

Oldest(S) == CHOOSE r \in S : \A q \in S \ {r} : Newer(q, r)

\* Mutant: the row of the cursor is part of the next page.
FromCursor(S, c) ==
  {r \in S : c = NoCursor \/ r.at < c.at \/ (r.at = c.at /\ r.id <= c.id)}

\* A cursor without an event id is a time stamp, which all rows are before.
Before(S, c) ==
  {r \in S : c = NoCursor \/ r.at < c.at \/ (r.at = c.at /\ r.id < c.id)}

Table(kind) == {r \in rows : kind \in {r.source, "unified"}}

\* The newest n of each cache, and of those the newest n.
Page(kind, c, n) ==
  Newest(UNION {Newest(Before(Table(s), c), n) :
                  s \in {"xchat", "legacy_dm"} \cap
                        (IF kind = "unified" THEN Kinds ELSE {kind})}, n)

\* Mutant: a cursor of the time stamp alone.
CursorByTime(kind, page) == [at |-> Oldest(page).at, id |-> 0]

\* encodeCursor, or created_at.
CursorOf(kind, page) ==
  [at |-> Oldest(page).at, id |-> IF kind = "xchat" THEN Oldest(page).id ELSE 0]

\* Mutant: a full page is taken for the last one.
NextOfLonger(kind, page, n) ==
  IF Cardinality(page) > n THEN CursorOf(kind, page) ELSE NoCursor

\* next_before: only a full page has one.
NextBefore(kind, page, n) ==
  IF Cardinality(page) = n THEN CursorOf(kind, page) ELSE NoCursor

\* A search runs to its end before anything else does.
Free == search.at # "scans" /\ search' = NoSearch

Store(r) ==
  /\ Free
  /\ r \notin rows /\ Cardinality(rows) < MaxRows
  /\ rows' = rows \cup {r}
  /\ UNCHANGED <<reader, pages, there>>

\* A client asks for the first page of a list, or for the one that follows.
Fetches(kind, c, n, got) ==
  LET page == Page(kind, c, n)
      next == NextBefore(kind, page, n)
  IN /\ pages' = Append(got, page)
     /\ reader' = [at |-> IF next = NoCursor THEN "done" ELSE "reads",
                   kind |-> kind, size |-> n, cursor |-> next]

First(kind, n) ==
  /\ Free /\ reader.at # "reads"
  /\ Fetches(kind, NoCursor, n, <<>>)
  /\ there' = Table(kind)
  /\ UNCHANGED rows

Following ==
  /\ Free /\ reader.at = "reads"
  /\ Fetches(reader.kind, reader.cursor, reader.size, pages)
  /\ UNCHANGED <<rows, there>>

-----------------------------------------------------------------------------
(* Searches *)

\* A search of one cache, or of one after the other; the client has left its list.
SearchBegins(kind, n, most) ==
  /\ search.at # "scans" /\ reader.at # "reads"
  /\ search' = [NoSearch EXCEPT !.at = "scans", !.kind = kind, !.limit = n, !.most = most,
                                !.list = IF kind = "unified" THEN "xchat" ELSE kind]
  /\ reader' = NoList(n) /\ pages' = <<>> /\ there' = {}
  /\ UNCHANGED rows

\* The rows of a page that are looked at: none after the last match wanted.
Scanned(page, found, limit) ==
  {r \in page : Cardinality(found)
                + Cardinality({q \in page \cap Matching : Newer(q, r)}) < limit}

Least(a, b) == IF a < b THEN a ELSE b

\* Mutant: a search that ends at its scan limit does not say so.
NeverTruncated(s) == s.scanned > s.most /\ s.cursor # NoCursor

Truncated(s) == s.scanned = s.most /\ s.cursor # NoCursor

\* The end of a loop: a search of both caches goes on with the other one, and
\* then merges (unifiedMessageSearch).
Ended(s) ==
  IF s.kind = "unified" /\ s.list = "xchat"
  THEN [s EXCEPT !.list = "legacy_dm", !.cursor = NoCursor, !.scanned = 0, !.found = {},
                 !.first = s.found, !.cut = Truncated(s)]
  ELSE [s EXCEPT !.at = "answered", !.cut = s.cut \/ Truncated(s),
                 !.found = IF s.kind = "unified" THEN Newest(s.first \cup s.found, s.limit)
                           ELSE s.found]

\* One turn of the loop of searchMessagePages.
SearchPage ==
  LET want == Least(PageMost, search.most - search.scanned)
      page == Page(search.list, search.cursor, want)
      look == Scanned(page, search.found, search.limit)
      s    == [search EXCEPT !.cursor  = NextBefore(search.list, page, want),
                             !.scanned = search.scanned + Cardinality(look),
                             !.found   = search.found \cup (look \cap Matching)]
  IN /\ search.at = "scans"
     /\ search' = IF \/ s.cursor \in {NoCursor, search.cursor}
                     \/ s.scanned >= s.most \/ Cardinality(s.found) >= s.limit
                  THEN Ended(s) ELSE s
     /\ UNCHANGED <<rows, reader, pages, there>>

PagingNext ==
  \/ \E r \in Row : Store(r)
  \/ \E kind \in Kinds, n \in Sizes : First(kind, n)
  \/ Following
  \/ \E kind \in Kinds, n \in Sizes, most \in ScanLimits : SearchBegins(kind, n, most)
  \/ SearchPage

PagingSpec == PagingInit /\ [][PagingNext]_pagingVars

-----------------------------------------------------------------------------
(* Properties *)

Got == UNION {pages[i] : i \in 1..Len(pages)}

\* No row is served twice, and a later page has only older rows, whatever is
\* stored while a client pages.
EachRowOnce ==
  \A i, j \in 1..Len(pages) :
    i < j => \A r \in pages[i], q \in pages[j] : Newer(r, q)

\* "uses a stable tuple cursor when events have the same timestamp": a client
\* that pages to the end of a list of the XChat cache has had every row there
\* was when it began.
XChatPagesComplete ==
  reader.at = "done" /\ reader.kind = "xchat" => there \subseteq Got

\* In the lists whose cursor is a time stamp, the rows that are missing share
\* their time stamp with the last row of a page, and only those.
OnlyTiesMissing ==
  reader.at = "done" =>
    \A r \in there \ Got : \E i \in 1..Len(pages) :
      pages[i] # {} /\ r.at = Oldest(pages[i]).at

NoTies(S) == \A r, q \in S : r.at = q.at => r = q

\* The newest rows of T, however many.
NewestOf(S, T) == S \subseteq T /\ \A r \in S, q \in T \ S : Newer(r, q)

\* What a search says of the rows T it is asked about.
Finds(s, T) ==
  /\ NewestOf(s.found, T \cap Matching)
  /\ Cardinality(s.found) <= s.limit
  /\ ~s.cut /\ Cardinality(s.found) < s.limit => s.found = T \cap Matching

\* A search returns the newest matches without a gap, as many as were asked
\* for, and if it returns fewer and does not say "truncated" there are no
\* others; in the legacy cache, unless messages share a time stamp, and of both
\* caches together, unless it says so.
SearchFindsAll ==
  /\ search.at = "answered"
  /\ search.kind # "xchat" => NoTies(Table("legacy_dm"))
  /\ search.kind = "unified" => ~search.cut
  => Finds(search, Table(search.kind))
=============================================================================
