---------------------------- MODULE PagingProofs -----------------------------
(***************************************************************************)
(* Proofs about Paging, for any time stamps, ids, page sizes and limits:   *)
(* what the pages of a list have in common, and what a search has found.   *)
(***************************************************************************)
EXTENDS Paging, FiniteSetTheorems, WellFoundedInduction, TLAPS

-----------------------------------------------------------------------------
(* The order of rows *)

LEMMA RowFields ==
  ASSUME NEW r \in Row
  PROVE  /\ r.source \in {"xchat", "legacy_dm"}
         /\ r.at \in Nat \ {0} /\ r.id \in Nat \ {0}
         /\ r = [source |-> r.source, at |-> r.at, id |-> r.id]
  BY PagingAssumption DEF Row

LEMMA NewerOrder ==
  ASSUME NEW p \in Row, NEW q \in Row, NEW r \in Row
  PROVE  /\ ~Newer(r, r)
         /\ Newer(p, q) /\ Newer(q, r) => Newer(p, r)
         /\ Newer(p, q) => ~Newer(q, p)
         /\ p # q => Newer(p, q) \/ Newer(q, p)
  <1>1. /\ p.at \in Nat /\ q.at \in Nat /\ r.at \in Nat
        /\ p.id \in Nat /\ q.id \in Nat /\ r.id \in Nat
        /\ p.source \in {"xchat", "legacy_dm"} /\ q.source \in {"xchat", "legacy_dm"}
        /\ r.source \in {"xchat", "legacy_dm"}
    BY RowFields
  <1>2. p.source = q.source /\ p.at = q.at /\ p.id = q.id => p = q
    BY RowFields
  <1>3. QED
    BY <1>1, <1>2 DEF Newer

\* Of the subsets of a finite set, some that have a property have no smaller
\* one that has it.
LEMMA SmallestSet ==
  ASSUME NEW S, IsFiniteSet(S), NEW U \in SUBSET SUBSET S, U # {}
  PROVE  \E X \in U : \A Y \in U : Y \subseteq X => Y = X
  <1>1. IsWellFoundedOn(StrictSubsetOrdering(S), SUBSET S)
    BY FS_StrictSubsetOrderingWellFounded, FS_FiniteSubsetsOfFinite
  <1>2. PICK X \in U : \A Y \in U : ~(<<Y, X>> \in StrictSubsetOrdering(S))
    <2> DEFINE R == StrictSubsetOrdering(S)
               T == SUBSET S
    <2>1. IsWellFoundedOn(R, T) /\ U \subseteq T
      BY <1>1
    <2> HIDE DEF R, T
    <2>2. \E X \in U : \A Y \in U : ~(<<Y, X>> \in R)
      BY <2>1, WFMin, Zenon
    <2>3. QED
      BY <2>2 DEF R
  <1>3. ASSUME NEW Y \in U, Y \subseteq X, Y # X PROVE FALSE
    <2>1. <<Y, X>> \in StrictSubsetOrdering(S)
      BY <1>3 DEF StrictSubsetOrdering
    <2>2. QED
      BY <1>2, <2>1
  <1>4. QED
    BY <1>2, <1>3

\* A finite set of rows has an oldest and a newest one.
LEMMA HasOldest ==
  ASSUME NEW S \in SUBSET Row, IsFiniteSet(S), S # {}
  PROVE  \E o \in S : \A q \in S \ {o} : Newer(q, o)
  <1> DEFINE U == {{q \in S : Newer(r, q)} : r \in S}
  <1>0. U \in SUBSET SUBSET S /\ U # {}
    OBVIOUS
  <1> HIDE DEF U
  <1>1. PICK X \in U : \A Y \in U : Y \subseteq X => Y = X
    BY <1>0, SmallestSet
  <1>2. PICK o \in S : X = {q \in S : Newer(o, q)}
    BY <1>1 DEF U
  <1>3. ASSUME NEW q \in S \ {o}, ~Newer(q, o) PROVE FALSE
    <2>1. Newer(o, q) /\ q \in X
      BY <1>2, <1>3, NewerOrder
    <2>2. \A p \in S : Newer(q, p) => Newer(o, p)
      BY <2>1, NewerOrder
    <2>3. {p \in S : Newer(q, p)} = X
      <3>1. {p \in S : Newer(q, p)} \in U
        BY <1>3 DEF U
      <3>2. {p \in S : Newer(q, p)} \subseteq X
        BY <1>2, <2>2
      <3>3. QED
        BY <1>1, <3>1, <3>2
    <2>4. q \notin {p \in S : Newer(q, p)}
      BY <1>3, NewerOrder
    <2>5. QED
      BY <2>1, <2>3, <2>4
  <1>4. QED
    BY <1>3

LEMMA HasNewest ==
  ASSUME NEW S \in SUBSET Row, IsFiniteSet(S), S # {}
  PROVE  \E o \in S : \A q \in S \ {o} : Newer(o, q)
  <1> DEFINE U == {{q \in S : Newer(q, r)} : r \in S}
  <1>0. U \in SUBSET SUBSET S /\ U # {}
    OBVIOUS
  <1> HIDE DEF U
  <1>1. PICK X \in U : \A Y \in U : Y \subseteq X => Y = X
    BY <1>0, SmallestSet
  <1>2. PICK o \in S : X = {q \in S : Newer(q, o)}
    BY <1>1 DEF U
  <1>3. ASSUME NEW q \in S \ {o}, ~Newer(o, q) PROVE FALSE
    <2>1. Newer(q, o) /\ q \in X
      BY <1>2, <1>3, NewerOrder
    <2>2. \A p \in S : Newer(p, q) => Newer(p, o)
      BY <2>1, NewerOrder
    <2>3. {p \in S : Newer(p, q)} = X
      <3>1. {p \in S : Newer(p, q)} \in U
        BY <1>3 DEF U
      <3>2. {p \in S : Newer(p, q)} \subseteq X
        BY <1>2, <2>2
      <3>3. QED
        BY <1>1, <3>1, <3>2
    <2>4. q \notin {p \in S : Newer(p, q)}
      BY <1>3, NewerOrder
    <2>5. QED
      BY <2>1, <2>3, <2>4
  <1>4. QED
    BY <1>3

LEMMA OldestIs ==
  ASSUME NEW S \in SUBSET Row, IsFiniteSet(S), S # {}
  PROVE  Oldest(S) \in S /\ \A q \in S \ {Oldest(S)} : Newer(q, Oldest(S))
  BY HasOldest DEF Oldest

-----------------------------------------------------------------------------
(* The newest n rows *)

\* D has the newest rows of S: n of them, or all.
IsNewest(D, S, n) ==
  /\ NewestOf(D, S) /\ IsFiniteSet(D)
  /\ Cardinality(D) <= n
  /\ Cardinality(D) < n => D = S

LEMMA NewestIs ==
  ASSUME NEW S \in SUBSET Row, IsFiniteSet(S), NEW n \in Nat \ {0}
  PROVE  IsNewest(Newest(S, n), S, n)
  <1> DEFINE D == Newest(S, n)
             Sooner(r) == {q \in S : Newer(q, r)}
  <1>1. /\ \A r \in S : IsFiniteSet(Sooner(r)) /\ Cardinality(Sooner(r)) \in Nat
        /\ \A r, q \in S : q \in Sooner(r) <=> Newer(q, r)
        /\ \A r \in S : Sooner(r) \subseteq S
    BY FS_Subset, FS_CardinalityType
  <1>2. D \subseteq S /\ \A r \in S : r \in D <=> Cardinality(Sooner(r)) < n
    BY DEF Newest
  <1>3. IsFiniteSet(D) /\ Cardinality(D) \in Nat
    BY <1>2, FS_Subset, FS_CardinalityType
  <1> HIDE DEF D, Sooner
  <1>4. ASSUME NEW r \in D, NEW q \in S \ D PROVE Newer(r, q)
    <2> SUFFICES ASSUME Newer(q, r) PROVE FALSE
      BY <1>2, <1>4, NewerOrder
    <2>1. Sooner(q) \subseteq Sooner(r)
      <3>1. \A p \in S : Newer(p, q) => Newer(p, r)
        BY <1>2, NewerOrder
      <3>2. QED
        BY <1>1, <1>2, <3>1
    <2>2. Cardinality(Sooner(q)) <= Cardinality(Sooner(r))
      BY <1>1, <1>2, <2>1, FS_Subset
    <2>3. QED
      BY <1>1, <1>2, <1>4, <2>2
  <1>5. Cardinality(D) <= n
    <2>1. CASE D = {}
      BY <2>1, FS_EmptySet
    <2>2. CASE D # {}
      <3>1. PICK o \in D : \A q \in D \ {o} : Newer(q, o)
        BY <1>2, <1>3, <2>2, HasOldest
      <3>2. o \in S /\ Cardinality(Sooner(o)) < n
        BY <1>2
      <3>3. D \subseteq Sooner(o) \cup {o}
        BY <1>1, <1>2, <3>1, <3>2
      <3> DEFINE A == Sooner(o) \cup {o}
      <3>4. IsFiniteSet(Sooner(o)) /\ Cardinality(Sooner(o)) \in Nat
        BY <1>1, <3>2
      <3>5. IsFiniteSet(A) /\ Cardinality(A) \in {Cardinality(Sooner(o)), Cardinality(Sooner(o)) + 1}
        BY <3>4, FS_AddElement
      <3> HIDE DEF A
      <3>6. Cardinality(D) <= Cardinality(A)
        BY <3>3, <3>5, FS_Subset DEF A
      <3>7. QED
        BY <1>3, <3>2, <3>4, <3>5, <3>6
    <2>3. QED
      BY <2>1, <2>2
  <1>6. ASSUME Cardinality(D) < n, D # S PROVE FALSE
    <2>1. S \ D \in SUBSET Row /\ IsFiniteSet(S \ D) /\ S \ D # {}
      BY <1>2, <1>6, FS_Subset
    <2>2. PICK r \in S \ D : \A q \in (S \ D) \ {r} : Newer(r, q)
      BY <2>1, HasNewest
    <2>3. Sooner(r) \subseteq D
      <3>1. \A q \in S : Newer(q, r) => q \in D
        BY <2>2, NewerOrder
      <3>2. QED
        BY <1>1, <2>2, <3>1
    <2>4. Cardinality(Sooner(r)) <= Cardinality(D)
      BY <1>3, <2>3, FS_Subset
    <2>5. QED
      BY <1>1, <1>2, <1>3, <1>6, <2>2, <2>4
  <1>7. QED
    BY <1>2, <1>3, <1>4, <1>5, <1>6 DEF IsNewest, NewestOf, D

\* The newest n of the newest n of two tables are the newest n of both.
LEMMA MergeIs ==
  ASSUME NEW A \in SUBSET Row, NEW B \in SUBSET Row, IsFiniteSet(A), IsFiniteSet(B),
         NEW n \in Nat \ {0}, NEW X, NEW Y, NewestOf(X, A), NewestOf(Y, B),
         X = A \/ Cardinality(X) >= n, Y = B \/ Cardinality(Y) >= n
  PROVE  IsNewest(Newest(X \cup Y, n), A \cup B, n)
  <1> DEFINE Z == X \cup Y
             D == Newest(Z, n)
  <1>1. X \subseteq A /\ Y \subseteq B /\ Z \in SUBSET Row
    BY DEF NewestOf
  <1>2. IsFiniteSet(X) /\ IsFiniteSet(Y) /\ IsFiniteSet(Z)
    BY <1>1, FS_Subset, FS_Union
  <1>3. IsNewest(D, Z, n)
    BY <1>1, <1>2, NewestIs
  <1>4. D \subseteq Z /\ IsFiniteSet(D)
    BY <1>3 DEF IsNewest, NewestOf
  <1>5. ASSUME NEW V, NEW r \in D, NEW q \in Row, q \notin Z, V \subseteq Z,
               Cardinality(V) >= n, \A v \in V : Newer(v, q)
        PROVE  Newer(r, q)
    <2> SUFFICES ASSUME Newer(q, r) PROVE FALSE
      BY <1>1, <1>4, <1>5, NewerOrder
    <2>1. V \subseteq {p \in Z : Newer(p, r)}
      BY <1>1, <1>4, <1>5, NewerOrder
    <2>2. IsFiniteSet({p \in Z : Newer(p, r)})
      BY <1>2, FS_Subset
    <2>3. /\ Cardinality(V) <= Cardinality({p \in Z : Newer(p, r)})
          /\ Cardinality(V) \in Nat /\ Cardinality({p \in Z : Newer(p, r)}) \in Nat
      BY <2>1, <2>2, FS_Subset, FS_CardinalityType
    <2>4. Cardinality({p \in Z : Newer(p, r)}) < n
      BY <1>5 DEF Newest
    <2>5. QED
      BY <1>5, <2>3, <2>4
  <1>6. ASSUME NEW r \in D, NEW q \in (A \cup B) \ D PROVE Newer(r, q)
    <2>1. CASE q \in Z
      BY <1>3, <1>6, <2>1 DEF IsNewest, NewestOf
    <2>2. CASE q \in A /\ q \notin Z
      BY <1>5, <2>2 DEF NewestOf
    <2>3. CASE q \in B /\ q \notin Z
      BY <1>5, <2>3 DEF NewestOf
    <2>4. QED
      BY <1>6, <2>1, <2>2, <2>3
  <1>7. ASSUME Cardinality(D) < n PROVE D = A \cup B
    <2>1. D = Z
      BY <1>3, <1>7 DEF IsNewest
    <2>2. Cardinality(X) <= Cardinality(D) /\ Cardinality(Y) <= Cardinality(D)
      BY <1>2, <2>1, FS_Subset
    <2>3. Cardinality(X) \in Nat /\ Cardinality(Y) \in Nat /\ Cardinality(D) \in Nat
      BY <1>2, <1>4, FS_CardinalityType
    <2>4. X = A /\ Y = B
      BY <1>7, <2>2, <2>3
    <2>5. QED
      BY <2>1, <2>4
  <1>8. QED
    BY <1>1, <1>3, <1>4, <1>6, <1>7 DEF IsNewest, NewestOf
-----------------------------------------------------------------------------
(* Pages and their cursors *)

RowsOK == rows \in SUBSET Row /\ IsFiniteSet(rows)

Cursors == {NoCursor} \cup [at : Nat \ {0}, id : Nat]

\* The rows a list can ever have.
AllOf(kind) == {r \in Row : kind \in {r.source, "unified"}}

LEMMA TableRows ==
  ASSUME RowsOK, NEW kind, NEW c
  PROVE  /\ Table(kind) \in SUBSET Row /\ IsFiniteSet(Table(kind))
         /\ Before(Table(kind), c) \in SUBSET Row /\ IsFiniteSet(Before(Table(kind), c))
         /\ Before(Table(kind), c) \subseteq Table(kind)
         /\ Table(kind) \subseteq AllOf(kind)
  <1>1. Table(kind) \subseteq rows /\ Before(Table(kind), c) \subseteq Table(kind)
    BY DEF Table, Before
  <1>2. Table(kind) \subseteq AllOf(kind)
    BY DEF Table, AllOf, RowsOK
  <1>3. QED
    BY <1>1, <1>2, FS_Subset DEF RowsOK

\* A page has the newest rows of its list that are older than the cursor.
LEMMA PageIs ==
  ASSUME RowsOK, NEW kind \in Kinds, NEW c, NEW n \in Nat \ {0}
  PROVE  IsNewest(Page(kind, c, n), Before(Table(kind), c), n)
  <1> DEFINE B(s) == Before(Table(s), c)
             Part(s) == Newest(B(s), n)
  <1>1. /\ B("xchat") \in SUBSET Row /\ IsFiniteSet(B("xchat"))
        /\ B("legacy_dm") \in SUBSET Row /\ IsFiniteSet(B("legacy_dm"))
    BY TableRows
  <1>2. IsNewest(Part("xchat"), B("xchat"), n) /\ IsNewest(Part("legacy_dm"), B("legacy_dm"), n)
    BY <1>1, NewestIs
  <1>3. /\ NewestOf(Part("xchat"), B("xchat"))
        /\ Part("xchat") = B("xchat") \/ Cardinality(Part("xchat")) >= n
        /\ NewestOf(Part("legacy_dm"), B("legacy_dm"))
        /\ Part("legacy_dm") = B("legacy_dm") \/ Cardinality(Part("legacy_dm")) >= n
    BY <1>2, FS_CardinalityType DEF IsNewest
  <1>4. NewestOf({}, {}) /\ IsFiniteSet({}) /\ {} \in SUBSET Row
    BY FS_EmptySet DEF NewestOf
  <1>5. CASE kind = "unified"
    <2>1. B("unified") = B("xchat") \cup B("legacy_dm")
      BY DEF Before, Table, RowsOK, Row
    <2>2. Page(kind, c, n) = Newest(Part("xchat") \cup Part("legacy_dm"), n)
      <3>1. {"xchat", "legacy_dm"} \cap (IF kind = "unified" THEN Kinds ELSE {kind})
            = {"xchat", "legacy_dm"}
        BY <1>5 DEF Kinds
      <3>2. UNION {Part(s) : s \in {"xchat", "legacy_dm"}} = Part("xchat") \cup Part("legacy_dm")
        OBVIOUS
      <3>3. QED
        BY <3>1, <3>2 DEF Page
    <2> HIDE DEF B, Part
    <2>3. IsNewest(Newest(Part("xchat") \cup Part("legacy_dm"), n),
                   B("xchat") \cup B("legacy_dm"), n)
      BY <1>1, <1>3, MergeIs
    <2>4. QED
      BY <1>5, <2>1, <2>2, <2>3 DEF B
  <1>6. ASSUME NEW s \in {"xchat", "legacy_dm"}, kind = s
        PROVE  IsNewest(Page(kind, c, n), B(kind), n)
    <2>1. Page(kind, c, n) = Newest(Part(s) \cup {}, n)
      <3>1. {"xchat", "legacy_dm"} \cap (IF kind = "unified" THEN Kinds ELSE {kind}) = {s}
        BY <1>6 DEF Kinds
      <3>2. UNION {Part(t) : t \in {s}} = Part(s) \cup {}
        OBVIOUS
      <3>3. QED
        BY <3>1, <3>2 DEF Page
    <2> HIDE DEF B, Part
    <2>2. IsNewest(Newest(Part(s) \cup {}, n), B(s) \cup {}, n)
      BY <1>1, <1>3, <1>4, <1>6, MergeIs
    <2>3. QED
      BY <1>6, <2>1, <2>2
  <1>7. QED
    BY <1>5, <1>6 DEF Kinds

\* The cursor of a page divides the rows that are older than the one before
\* it into those of the page and the rest, ties of a time stamp apart.
LEMMA CursorSplits ==
  ASSUME RowsOK, NEW kind \in Kinds, NEW c \in Cursors, NEW n \in Nat \ {0}, NEW P,
         IsNewest(P, Before(Table(kind), c), n), P # {},
         NEW d, d = CursorOf(kind, P)
  PROVE  /\ d \in Cursors /\ d # NoCursor /\ d # c
         /\ \A r \in P, q \in Before(AllOf(kind), d) : Newer(r, q)
         /\ \A q \in Before(Table(kind), c) \ P :
              \/ q \in Before(Table(kind), d)
              \/ kind # "xchat" /\ q.at = Oldest(P).at
         /\ Before(AllOf(kind), d) \subseteq Before(AllOf(kind), c)
         /\ Oldest(P) \in P
  <1> DEFINE o == Oldest(P)
  <1>1. P \in SUBSET Row /\ IsFiniteSet(P) /\ P \subseteq Before(Table(kind), c)
    BY TableRows DEF IsNewest, NewestOf
  <1>2. o \in P /\ \A q \in P \ {o} : Newer(q, o)
    BY <1>1, OldestIs
  <1>3. o \in Row /\ o.at \in Nat \ {0} /\ o.id \in Nat \ {0}
    BY <1>1, <1>2, RowFields
  <1>4. d = [at |-> o.at, id |-> IF kind = "xchat" THEN o.id ELSE 0]
    BY DEF CursorOf
  <1> HIDE DEF o
  <1>5. d.at = o.at /\ d.id \in {0, o.id} /\ (kind = "xchat" => d.id = o.id)
        /\ (kind # "xchat" => d.id = 0) /\ d.id \in Nat
    BY <1>3, <1>4
  <1>6. d \in Cursors /\ d # NoCursor
    BY <1>3, <1>4 DEF Cursors, NoCursor
  <1>7. c = NoCursor \/ (c.at \in Nat /\ c.id \in Nat)
    BY DEF Cursors
  <1>8. c = NoCursor \/ o.at < c.at \/ (o.at = c.at /\ o.id < c.id)
    BY <1>1, <1>2 DEF Before
  <1>9. ASSUME NEW q \in Before(AllOf(kind), d)
        PROVE  /\ q \in Row /\ Newer(o, q)
               /\ q.at < o.at \/ (q.at = o.at /\ q.id < o.id)
    <2>1. q \in Row /\ (q.at < d.at \/ (q.at = d.at /\ q.id < d.id))
      BY <1>6 DEF Before, AllOf
    <2>2. q.at \in Nat \ {0} /\ q.id \in Nat \ {0}
      BY <2>1, RowFields
    <2>3. q.at < o.at \/ (q.at = o.at /\ q.id < o.id)
      BY <1>3, <1>5, <2>1, <2>2
    <2>4. QED
      BY <1>3, <2>1, <2>2, <2>3 DEF Newer
  <1>10. ASSUME NEW r \in P, NEW q \in Before(AllOf(kind), d) PROVE Newer(r, q)
    <2>1. r \in Row /\ o \in Row /\ q \in Row
      BY <1>1, <1>3, <1>9
    <2>2. r = o \/ Newer(r, o)
      BY <1>2
    <2>3. QED
      BY <1>9, <2>1, <2>2, NewerOrder
  <1>11. ASSUME NEW q \in Before(Table(kind), c) \ P
         PROVE  q \in Before(Table(kind), d) \/ (kind # "xchat" /\ q.at = o.at)
    <2>1. q \in Table(kind) /\ q \in Row /\ Newer(o, q)
      BY <1>2, TableRows DEF IsNewest, NewestOf
    <2>2. q.at \in Nat /\ q.id \in Nat
      BY <2>1, RowFields
    <2>3. CASE o.at > q.at
      BY <1>3, <1>5, <2>1, <2>2, <2>3 DEF Before
    <2>4. CASE o.at = q.at /\ kind = "xchat"
      <3>1. q.source = "xchat"
        BY <2>1, <2>4 DEF Table
      <3>2. q.id < o.id
        BY <1>3, <2>1, <2>2, <2>4, <3>1 DEF Newer
      <3>3. QED
        BY <1>5, <2>1, <2>4, <3>2 DEF Before
    <2>5. QED
      BY <1>3, <2>1, <2>2, <2>3, <2>4 DEF Newer
  <1>12. ASSUME NEW q \in Before(AllOf(kind), d) PROVE q \in Before(AllOf(kind), c)
    <2>1. q \in AllOf(kind) /\ q.at \in Nat /\ q.id \in Nat
      BY <1>9, RowFields DEF Before
    <2>2. c = NoCursor \/ q.at < c.at \/ (q.at = c.at /\ q.id < c.id)
      BY <1>3, <1>7, <1>8, <1>9, <2>1
    <2>3. QED
      BY <2>1, <2>2 DEF Before
  <1>13. d # c
    BY <1>3, <1>5, <1>6, <1>8
  <1>14. QED
    BY <1>2, <1>6, <1>10, <1>11, <1>12, <1>13 DEF o

\* A list has another page if this one is full; a page that is not has the rest.
LEMMA NextIs ==
  ASSUME RowsOK, NEW kind \in Kinds, NEW c, NEW n \in Nat \ {0}, NEW P,
         IsNewest(P, Before(Table(kind), c), n)
  PROVE  \/ P # {} /\ NextBefore(kind, P, n) = CursorOf(kind, P)
         \/ P = Before(Table(kind), c) /\ NextBefore(kind, P, n) = NoCursor
  <1>1. IsFiniteSet(P) /\ Cardinality(P) \in Nat /\ Cardinality(P) <= n
    BY FS_CardinalityType DEF IsNewest
  <1>2. CASE Cardinality(P) = n
    BY <1>2, FS_EmptySet DEF NextBefore
  <1>3. CASE Cardinality(P) # n
    BY <1>1, <1>3 DEF NextBefore, IsNewest
  <1>4. QED
    BY <1>2, <1>3
-----------------------------------------------------------------------------
(* Lists *)

Had(got) == UNION {got[i] : i \in 1..Len(got)}

Apart(got) ==
  \A i, j \in 1..Len(got) : i < j => \A r \in got[i], q \in got[j] : Newer(r, q)

\* A row that shares its time stamp with the last one of a page.
Tie(kind, q, got) ==
  kind # "xchat" /\ \E i \in 1..Len(got) : got[i] # {} /\ q.at = Oldest(got[i]).at

\* The pages a client got, with the cursor c it has: they are apart, every row
\* before c is older than theirs, and a row of T they do not have is before c
\* or a tie.
ListOK(kind, c, got, T) ==
  /\ Apart(got)
  /\ \A i \in 1..Len(got) : \A r \in got[i], q \in Before(AllOf(kind), c) : Newer(r, q)
  /\ \A q \in T \ Had(got) : q \in Before(T, c) \/ Tie(kind, q, got)

EndOK(kind, got, T) == Apart(got) /\ \A q \in T \ Had(got) : Tie(kind, q, got)

ListInv ==
  /\ pages \in Seq(SUBSET Row)
  /\ reader.at \in {"idle", "reads", "done"}
  /\ reader.kind \in Kinds /\ reader.size \in Sizes /\ reader.cursor \in Cursors
  /\ there \subseteq Table(reader.kind)
  /\ reader.at = "idle" => pages = <<>>
  /\ reader.at = "reads" => ListOK(reader.kind, reader.cursor, pages, there)
  /\ reader.at = "done" => EndOK(reader.kind, pages, there)

LEMMA AppendIs ==
  ASSUME NEW got \in Seq(SUBSET Row), NEW P \in SUBSET Row
  PROVE  /\ Append(got, P) \in Seq(SUBSET Row)
         /\ Len(Append(got, P)) = Len(got) + 1 /\ Len(got) \in Nat
         /\ \A i \in 1..Len(got) : Append(got, P)[i] = got[i]
         /\ Append(got, P)[Len(got) + 1] = P
         /\ Had(Append(got, P)) = Had(got) \cup P
  <1>1. /\ Append(got, P) \in Seq(SUBSET Row)
        /\ Len(Append(got, P)) = Len(got) + 1 /\ Len(got) \in Nat
        /\ \A i \in 1..Len(got) : Append(got, P)[i] = got[i]
        /\ Append(got, P)[Len(got) + 1] = P
    OBVIOUS
  <1> DEFINE G == Append(got, P)
  <1> HIDE DEF G
  <1>2. 1..Len(G) = (1..Len(got)) \cup {Len(got) + 1}
    BY <1>1 DEF G
  <1>3. /\ \A i \in 1..Len(got) : G[i] = got[i]
        /\ G[Len(got) + 1] = P
    BY <1>1 DEF G
  <1>4. Had(G) = Had(got) \cup P
    BY <1>2, <1>3 DEF Had
  <1>5. QED
    BY <1>1, <1>4 DEF G

\* A page more, fetched with the cursor the client has.
LEMMA FetchesInv ==
  ASSUME RowsOK, NEW kind \in Kinds, NEW c \in Cursors, NEW n \in Sizes,
         NEW got \in Seq(SUBSET Row), NEW T \in SUBSET Table(kind),
         ListOK(kind, c, got, T), Fetches(kind, c, n, got)
  PROVE  /\ pages' \in Seq(SUBSET Row)
         /\ reader'.at \in {"reads", "done"}
         /\ reader'.kind = kind /\ reader'.size = n /\ reader'.cursor \in Cursors
         /\ reader'.at = "reads" => ListOK(kind, reader'.cursor, pages', T)
         /\ reader'.at = "done" => EndOK(kind, pages', T)
  <1> DEFINE P == Page(kind, c, n)
             S == Before(Table(kind), c)
             G == Append(got, P)
             d == NextBefore(kind, P, n)
  <1>1. /\ pages' = G
        /\ reader' = [at |-> IF d = NoCursor THEN "done" ELSE "reads",
                      kind |-> kind, size |-> n, cursor |-> d]
    BY DEF Fetches
  <1>2. n \in Nat \ {0}
    BY PagingAssumption
  <1>3. IsNewest(P, S, n) /\ P \subseteq S /\ S \in SUBSET Row /\ S \subseteq AllOf(kind)
    BY <1>2, PageIs, TableRows DEF IsNewest, NewestOf
  <1>4. S \subseteq Before(AllOf(kind), c)
    BY TableRows DEF Before
  <1>5. \/ P # {} /\ d = CursorOf(kind, P)
        \/ P = S /\ d = NoCursor
    BY <1>2, <1>3, NextIs
  <1>6. d \in Cursors
    BY <1>2, <1>3, <1>5, CursorSplits DEF Cursors
  <1> HIDE DEF P, d
  <1>7. /\ G \in Seq(SUBSET Row)
        /\ Len(G) = Len(got) + 1 /\ Len(got) \in Nat
        /\ \A i \in 1..Len(got) : G[i] = got[i]
        /\ G[Len(got) + 1] = P
        /\ Had(G) = Had(got) \cup P
    BY <1>3, AppendIs
  <1> HIDE DEF G
  <1>8. Apart(G)
    <2> SUFFICES ASSUME NEW i \in 1..Len(G), NEW j \in 1..Len(G), i < j,
                        NEW r \in G[i], NEW q \in G[j]
                 PROVE  Newer(r, q)
      BY DEF Apart
    <2>1. i \in 1..Len(got) /\ G[i] = got[i]
      BY <1>7
    <2>2. CASE j \in 1..Len(got)
      BY <1>7, <2>1, <2>2 DEF ListOK, Apart
    <2>3. CASE j = Len(got) + 1
      BY <1>3, <1>4, <1>7, <2>1, <2>3 DEF ListOK
    <2>4. QED
      BY <1>7, <2>2, <2>3
  <1>9. ASSUME NEW q, Tie(kind, q, got) PROVE Tie(kind, q, G)
    BY <1>7, <1>9 DEF Tie
  <1>10. ASSUME NEW q \in T \ Had(G), ~Tie(kind, q, G) PROVE q \in S \ P
    BY <1>7, <1>9, <1>10 DEF ListOK, Before
  <1>11. CASE P = S /\ d = NoCursor
    BY <1>1, <1>6, <1>7, <1>8, <1>10, <1>11 DEF EndOK
  <1>12. CASE P # {} /\ d = CursorOf(kind, P)
    <2>1. /\ d \in Cursors /\ d # NoCursor
          /\ \A r \in P, q \in Before(AllOf(kind), d) : Newer(r, q)
          /\ \A q \in S \ P : q \in Before(Table(kind), d) \/ (kind # "xchat" /\ q.at = Oldest(P).at)
          /\ Before(AllOf(kind), d) \subseteq Before(AllOf(kind), c)
      BY <1>2, <1>3, <1>12, CursorSplits
    <2>2. ASSUME NEW i \in 1..Len(G), NEW r \in G[i], NEW q \in Before(AllOf(kind), d)
          PROVE  Newer(r, q)
      <3>1. CASE i \in 1..Len(got)
        BY <1>7, <2>1, <2>2, <3>1 DEF ListOK
      <3>2. CASE i = Len(got) + 1
        BY <1>7, <2>1, <2>2, <3>2
      <3>3. QED
        BY <1>7, <3>1, <3>2
    <2>3. ASSUME NEW q \in T \ Had(G) PROVE q \in Before(T, d) \/ Tie(kind, q, G)
      <3> SUFFICES ASSUME ~Tie(kind, q, G) PROVE q \in Before(T, d)
        OBVIOUS
      <3>1. q \in S \ P
        BY <1>10
      <3>2. ~(kind # "xchat" /\ q.at = Oldest(P).at)
        BY <1>7, <1>12 DEF Tie
      <3>3. q \in Before(Table(kind), d)
        BY <2>1, <3>1, <3>2
      <3>4. QED
        BY <3>3 DEF Before
    <2>4. ListOK(kind, d, G, T)
      BY <1>8, <2>2, <2>3 DEF ListOK
    <2>5. QED
      BY <1>1, <1>7, <2>1, <2>4
  <1>13. QED
    BY <1>5, <1>11, <1>12

LEMMA EmptyList ==
  ASSUME NEW kind, NEW T
  PROVE  ListOK(kind, NoCursor, <<>>, T)
  BY DEF ListOK, Apart, Had, Before

LEMMA RowsInit == PagingInit => RowsOK
  BY FS_EmptySet DEF PagingInit, RowsOK

LEMMA RowsNext == RowsOK /\ [PagingNext]_pagingVars => RowsOK' /\ rows \subseteq rows'
  <1> SUFFICES ASSUME RowsOK, [PagingNext]_pagingVars PROVE RowsOK' /\ rows \subseteq rows'
    OBVIOUS
  <1>1. ASSUME NEW r \in Row, Store(r) PROVE RowsOK' /\ rows \subseteq rows'
    <2>1. rows' = rows \cup {r}
      BY <1>1 DEF Store
    <2>2. IsFiniteSet(rows \cup {r})
      BY FS_AddElement DEF RowsOK
    <2>3. QED
      BY <2>1, <2>2 DEF RowsOK
  <1>2. CASE UNCHANGED rows
    BY <1>2 DEF RowsOK
  <1>3. QED
    BY <1>1, <1>2
       DEF PagingNext, pagingVars, First, Following, SearchBegins, SearchPage

LEMMA ListInit == PagingInit => ListInv
  BY DEF PagingInit, ListInv, NoList, Kinds, Cursors

LEMMA ListNext == RowsOK /\ ListInv /\ [PagingNext]_pagingVars => ListInv'
  <1> SUFFICES ASSUME RowsOK, ListInv, [PagingNext]_pagingVars PROVE ListInv'
    OBVIOUS
  <1>1. \A kind : Table(kind) \subseteq Table(kind)'
    BY RowsNext DEF Table
  <1>2. CASE UNCHANGED <<reader, pages, there>>
    BY <1>1, <1>2 DEF ListInv
  <1>3. ASSUME NEW kind \in Kinds, NEW n \in Sizes, First(kind, n) PROVE ListInv'
    <2>1. /\ Fetches(kind, NoCursor, n, <<>>) /\ there' = Table(kind)
          /\ Table(kind)' = Table(kind)
      BY <1>3 DEF First, Table
    <2>2. /\ pages' \in Seq(SUBSET Row)
          /\ reader'.at \in {"reads", "done"}
          /\ reader'.kind = kind /\ reader'.size = n /\ reader'.cursor \in Cursors
          /\ reader'.at = "reads" => ListOK(kind, reader'.cursor, pages', Table(kind))
          /\ reader'.at = "done" => EndOK(kind, pages', Table(kind))
      <3>1. /\ <<>> \in Seq(SUBSET Row) /\ NoCursor \in Cursors
            /\ Table(kind) \in SUBSET Table(kind)
        BY DEF Cursors
      <3>2. ListOK(kind, NoCursor, <<>>, Table(kind))
        BY EmptyList
      <3>3. QED
        BY <2>1, <3>1, <3>2, FetchesInv
    <2>3. QED
      BY <2>1, <2>2 DEF ListInv
  <1>4. CASE Following
    <2>1. /\ reader.at = "reads" /\ there' = there /\ rows' = rows
          /\ Fetches(reader.kind, reader.cursor, reader.size, pages)
      BY <1>4 DEF Following
    <2>2. /\ pages' \in Seq(SUBSET Row)
          /\ reader'.at \in {"reads", "done"}
          /\ reader'.kind = reader.kind /\ reader'.size = reader.size
          /\ reader'.cursor \in Cursors
          /\ reader'.at = "reads" => ListOK(reader.kind, reader'.cursor, pages', there)
          /\ reader'.at = "done" => EndOK(reader.kind, pages', there)
      BY <2>1, FetchesInv DEF ListInv
    <2>3. QED
      BY <1>1, <2>1, <2>2 DEF ListInv
  <1>5. ASSUME NEW kind \in Kinds, NEW n \in Sizes, NEW most \in ScanLimits,
               SearchBegins(kind, n, most)
        PROVE  ListInv'
    BY <1>5 DEF SearchBegins, ListInv, NoList, Kinds, Cursors
  <1>6. QED
    BY <1>2, <1>3, <1>4, <1>5 DEF PagingNext, pagingVars, Store, SearchPage

LEMMA ListsAlways == PagingSpec => [](RowsOK /\ ListInv)
  BY RowsInit, RowsNext, ListInit, ListNext, PTL DEF PagingSpec

\* For any time stamps, page sizes and arrivals, no row of a list is served on
\* two pages, and every later page is older than every earlier one.
THEOREM EachRowIsOnce == PagingSpec => []EachRowOnce
  <1>1. ListInv => EachRowOnce
    BY DEF ListInv, ListOK, EndOK, Apart, EachRowOnce
  <1>2. QED
    BY <1>1, ListsAlways, PTL

\* A client that pages through a list of the XChat cache to its end has had
\* every row that was there when it began: none is lost between two pages.
THEOREM XChatListsComplete == PagingSpec => []XChatPagesComplete
  <1>1. ListInv => XChatPagesComplete
    BY DEF ListInv, EndOK, Tie, Had, Got, XChatPagesComplete
  <1>2. QED
    BY <1>1, ListsAlways, PTL

\* What the cursor of a time stamp alone loses is rows that share it with the
\* last row of a page, and nothing else.
THEOREM OnlyTiesAreMissing == PagingSpec => []OnlyTiesMissing
  <1>1. ListInv => OnlyTiesMissing
    BY DEF ListInv, EndOK, Tie, Had, Got, OnlyTiesMissing
  <1>2. QED
    BY <1>1, ListsAlways, PTL
-----------------------------------------------------------------------------
(* Searches *)

\* A list whose cursor divides it: that of the XChat cache, or one without ties.
Clean(list) == list = "xchat" \/ NoTies(Table(list))

\* The matches among the rows that a loop has left behind.
Passed(list, c) == (Table(list) \ Before(Table(list), c)) \cap Matching

\* What the loop of a search knows when it asks for its next page, and what a
\* search of both caches has from the first loop: all up to here, of a list
\* that its cursor divides.
ScanOK(s) ==
  /\ s.kind # "unified" => s.list = s.kind
  /\ s.limit # 0 /\ s.scanned < s.most
  /\ IsFiniteSet(s.found) /\ Cardinality(s.found) < s.limit
  /\ Clean(s.list) => s.found = Passed(s.list, s.cursor)
  /\ IF s.kind = "unified" /\ s.list = "legacy_dm"
     THEN /\ NewestOf(s.first, Table("xchat") \cap Matching)
          /\ s.cut \/ Cardinality(s.first) >= s.limit
             \/ s.first = Table("xchat") \cap Matching
     ELSE ~s.cut

AnswerOK(s) ==
  /\ s.at = "answered"
  /\ s.kind # "xchat" => NoTies(Table("legacy_dm"))
  /\ s.kind = "unified" => ~s.cut
  => Finds(s, Table(s.kind))

Searches ==
  [at : {"idle", "scans", "answered"}, kind : Kinds, list : {"xchat", "legacy_dm"},
   limit : Nat, most : Nat, cursor : Cursors, scanned : Nat,
   found : SUBSET Row, first : SUBSET Row, cut : BOOLEAN]

SearchInv ==
  /\ search \in Searches
  /\ search.at = "scans" => ScanOK(search)
  /\ AnswerOK(search)

\* What a loop has found when it ends.
LoopOK(s) ==
  /\ IsFiniteSet(s.found) /\ Cardinality(s.found) <= s.limit
  /\ NewestOf(s.found, Table(s.list) \cap Matching)
  /\ \/ Truncated(s) \/ Cardinality(s.found) >= s.limit
     \/ s.found = Table(s.list) \cap Matching

LEMMA LeastIs ==
  ASSUME NEW a \in Int, NEW b \in Int
  PROVE  /\ Least(a, b) <= a /\ Least(a, b) <= b /\ Least(a, b) \in {a, b}
         /\ Least(a, b) \in Int
  BY DEF Least

\* A cursor divides a list: what is behind it is newer than what is before it.
LEMMA BehindCursor ==
  ASSUME NEW T \in SUBSET Row, NEW c \in Cursors, NEW r \in T \ Before(T, c),
         NEW q \in Before(T, c)
  PROVE  Newer(r, q)
  <1>1. /\ r.at \in Nat /\ r.id \in Nat /\ q.at \in Nat /\ q.id \in Nat
    BY RowFields DEF Before
  <1>2. c # NoCursor /\ c.at \in Nat /\ c.id \in Nat
    BY DEF Cursors, Before
  <1>3. ~(r.at < c.at) /\ ~(r.at = c.at /\ r.id < c.id)
    BY DEF Before
  <1>4. q.at < c.at \/ (q.at = c.at /\ q.id < c.id)
    BY <1>2 DEF Before
  <1>5. r.at > q.at \/ (r.at = q.at /\ r.id > q.id)
    BY <1>1, <1>2, <1>3, <1>4
  <1>6. QED
    BY <1>5 DEF Newer

\* The rows of a page that a search takes are its newest matches, no more than
\* are still wanted.
LEMMA TakenIs ==
  ASSUME NEW P \in SUBSET Row, IsFiniteSet(P), NEW found, IsFiniteSet(found),
         NEW limit \in Nat, Cardinality(found) < limit
  PROVE  /\ Scanned(P, found, limit) \subseteq P /\ IsFiniteSet(Scanned(P, found, limit))
         /\ Cardinality(Scanned(P, found, limit)) <= Cardinality(P)
         /\ IsNewest(Scanned(P, found, limit) \cap Matching, P \cap Matching,
                     limit - Cardinality(found))
  <1>1. Cardinality(found) \in Nat /\ limit - Cardinality(found) \in Nat \ {0}
    BY FS_CardinalityType
  <1>2. Scanned(P, found, limit) \subseteq P
    BY DEF Scanned
  <1>3. P \cap Matching \in SUBSET Row /\ IsFiniteSet(P \cap Matching)
    BY FS_Subset
  <1>4. \A r \in P : /\ IsFiniteSet({q \in P \cap Matching : Newer(q, r)})
                     /\ Cardinality({q \in P \cap Matching : Newer(q, r)}) \in Nat
    BY <1>3, FS_Subset, FS_CardinalityType
  <1>5. Scanned(P, found, limit) \cap Matching
        = Newest(P \cap Matching, limit - Cardinality(found))
    <2> DEFINE n(r) == Cardinality({q \in P \cap Matching : Newer(q, r)})
    <2>1. \A r \in P : n(r) \in Nat
      BY <1>4
    <2>2. /\ Scanned(P, found, limit) = {r \in P : Cardinality(found) + n(r) < limit}
          /\ Newest(P \cap Matching, limit - Cardinality(found))
             = {r \in P \cap Matching : n(r) < limit - Cardinality(found)}
      BY DEF Scanned, Newest
    <2> HIDE DEF n
    <2>3. \A r \in P : Cardinality(found) + n(r) < limit <=> n(r) < limit - Cardinality(found)
      BY <1>1, <2>1
    <2>4. QED
      BY <2>2, <2>3
  <1>6. QED
    BY <1>1, <1>2, <1>3, <1>5, NewestIs, FS_Subset
\* What the loop of s has found, F, when its next cursor is N.
Took(s, N, F) ==
  /\ NewestOf(F, Table(s.list) \cap Matching)
  /\ \/ Cardinality(F) >= s.limit
     \/ N = NoCursor /\ F = Table(s.list) \cap Matching
     \/ N # NoCursor /\ F = Passed(s.list, N)

\* One turn of the loop takes the newest matches of what it has not seen.
LEMMA TurnIs ==
  ASSUME RowsOK, search \in Searches, ScanOK(search),
         NEW want, want = Least(PageMost, search.most - search.scanned),
         NEW P, P = Page(search.list, search.cursor, want),
         NEW look, look = Scanned(P, search.found, search.limit),
         NEW N, N = NextBefore(search.list, P, want),
         NEW F, F = search.found \cup (look \cap Matching)
  PROVE  /\ N \in Cursors
         /\ F \in SUBSET Row /\ IsFiniteSet(F) /\ Cardinality(F) <= search.limit
         /\ Cardinality(look) \in Nat /\ search.scanned + Cardinality(look) <= search.most
         /\ N # NoCursor => N # search.cursor /\ Cardinality(look) > 0
         /\ Clean(search.list) => Took(search, N, F)
  <1> DEFINE list == search.list
             T == Table(list)
             c == search.cursor
             S == Before(T, c)
             found == search.found
             limit == search.limit
             A == look \cap Matching
             wanted == limit - Cardinality(found)
  <1>1. /\ list \in {"xchat", "legacy_dm"} /\ list \in Kinds /\ c \in Cursors
        /\ found \in SUBSET Row /\ limit \in Nat /\ search.most \in Nat /\ search.scanned \in Nat
    BY DEF Searches, Kinds
  <1>2. /\ IsFiniteSet(found) /\ Cardinality(found) \in Nat /\ Cardinality(found) < limit
        /\ search.scanned < search.most
    BY FS_CardinalityType DEF ScanOK
  <1>3. want \in Nat \ {0} /\ want <= search.most - search.scanned
    <2>1. PageMost \in Int /\ search.most - search.scanned \in Int
      BY <1>1, PagingAssumption
    <2>2. /\ want <= search.most - search.scanned
          /\ want \in {PageMost, search.most - search.scanned}
      BY <2>1, LeastIs
    <2>3. QED
      BY <1>1, <1>2, <2>2, PagingAssumption
  <1>4. /\ T \in SUBSET Row /\ IsFiniteSet(T) /\ S \in SUBSET Row /\ S \subseteq T
    BY TableRows
  <1>5. IsNewest(P, S, want)
    BY <1>1, <1>3, PageIs
  <1>6. /\ P \subseteq S /\ P \in SUBSET Row /\ IsFiniteSet(P)
        /\ Cardinality(P) \in Nat /\ Cardinality(P) <= want
        /\ \A r \in P, q \in S \ P : Newer(r, q)
    BY <1>4, <1>5, FS_CardinalityType DEF IsNewest, NewestOf
  <1> HIDE DEF list, T, c, S, found, limit, wanted
  <1>7. /\ look \subseteq P /\ IsFiniteSet(look) /\ Cardinality(look) <= Cardinality(P)
        /\ IsNewest(A, P \cap Matching, wanted)
    BY <1>1, <1>2, <1>6, TakenIs DEF found, limit, wanted
  <1>8. /\ A \subseteq look /\ IsFiniteSet(A) /\ Cardinality(A) \in Nat
        /\ Cardinality(look) \in Nat /\ Cardinality(A) <= wanted
        /\ Cardinality(A) < wanted => A = P \cap Matching
        /\ \A r \in A, q \in (P \cap Matching) \ A : Newer(r, q)
    BY <1>7, FS_CardinalityType DEF IsNewest, NewestOf
  <1>9. search.scanned + Cardinality(look) <= search.most
    BY <1>1, <1>2, <1>3, <1>6, <1>7, <1>8
  <1>10. F = found \cup A
    BY DEF found
  <1> HIDE DEF A
  <1>11. F \in SUBSET Row /\ IsFiniteSet(F) /\ Cardinality(F) <= limit
    <2>1. F \in SUBSET Row
      BY <1>1, <1>6, <1>7, <1>8, <1>10 DEF found
    <2>2. /\ IsFiniteSet(F)
          /\ Cardinality(F) = Cardinality(found) + Cardinality(A) - Cardinality(found \cap A)
      BY <1>2, <1>8, <1>10, FS_Union DEF found
    <2>3. Cardinality(found \cap A) \in Nat
      BY <1>8, FS_Intersection, FS_CardinalityType
    <2>4. QED
      BY <1>1, <1>2, <1>8, <2>1, <2>2, <2>3 DEF wanted, found, limit
  <1>12. \/ P # {} /\ N = CursorOf(list, P)
         \/ P = S /\ N = NoCursor
    BY <1>1, <1>3, <1>5, NextIs DEF list, T, S, c
  <1>13. P # {} =>
           LET d == CursorOf(list, P)
           IN /\ d \in Cursors /\ d # NoCursor /\ d # c
              /\ \A r \in P, q \in Before(AllOf(list), d) : Newer(r, q)
              /\ \A q \in S \ P : \/ q \in Before(T, d)
                                  \/ list # "xchat" /\ q.at = Oldest(P).at
              /\ Before(AllOf(list), d) \subseteq Before(AllOf(list), c)
              /\ Oldest(P) \in P
    BY <1>1, <1>3, <1>5, CursorSplits DEF list, T, S, c
  <1>14. N \in Cursors
    BY <1>12, <1>13 DEF Cursors
  <1>15. ASSUME N # NoCursor PROVE N # c /\ Cardinality(look) > 0
    <2>1. P # {} /\ N # c
      BY <1>12, <1>13, <1>15
    <2>2. PICK r \in P : \A q \in P \ {r} : Newer(r, q)
      BY <1>6, <2>1, HasNewest
    <2>3. {q \in P \cap Matching : Newer(q, r)} = {}
      BY <1>6, <2>2, NewerOrder
    <2>4. r \in look
      BY <1>2, <2>3, FS_EmptySet DEF Scanned, found, limit
    <2>5. Cardinality(look) # 0
      BY <1>7, <2>4, FS_EmptySet
    <2>6. QED
      BY <1>8, <2>1, <2>5
  <1>16. ASSUME Clean(list)
         PROVE  /\ NewestOf(F, T \cap Matching)
                /\ \/ Cardinality(F) >= limit
                   \/ N = NoCursor /\ F = T \cap Matching
                   \/ N # NoCursor /\ F = Passed(list, N)
    <2>1. found = (T \ S) \cap Matching
      BY <1>16 DEF ScanOK, Passed, found, list, T, S, c
    <2>2. ASSUME NEW r \in F, NEW q \in (T \cap Matching) \ F PROVE Newer(r, q)
      <3>1. q \in S
        BY <1>10, <2>1, <2>2
      <3>2. CASE r \in found
        BY <1>1, <1>4, <2>1, <3>1, <3>2, BehindCursor DEF S, c
      <3>3. CASE r \in A /\ q \in P
        BY <1>8, <1>10, <2>2, <3>3
      <3>4. CASE r \in A /\ q \notin P
        BY <1>6, <1>7, <1>8, <3>1, <3>4
      <3>5. QED
        BY <1>10, <3>2, <3>3, <3>4
    <2>3. F \subseteq T \cap Matching
      BY <1>4, <1>6, <1>7, <1>10, <2>1 DEF A
    <2>4. ASSUME Cardinality(F) < limit PROVE F = found \cup (P \cap Matching)
      <3>1. found \cap A = {}
        BY <1>6, <1>7, <1>8, <2>1
      <3>2. Cardinality(F) = Cardinality(found) + Cardinality(A)
        <4>1. Cardinality(F) = Cardinality(found) + Cardinality(A) - Cardinality(found \cap A)
          BY <1>2, <1>8, <1>10, FS_Union
        <4>2. Cardinality(found \cap A) = 0
          BY <3>1, FS_EmptySet
        <4>3. QED
          BY <1>2, <1>8, <4>1, <4>2 DEF found
      <3>3. Cardinality(A) < wanted
        BY <1>1, <1>2, <1>8, <2>4, <3>2 DEF wanted, found, limit
      <3>4. QED
        BY <1>8, <1>10, <3>3
    <2>5. CASE P = S /\ N = NoCursor /\ Cardinality(F) < limit
      BY <1>4, <2>1, <2>2, <2>3, <2>4, <2>5 DEF NewestOf
    <2>6. CASE P # {} /\ N = CursorOf(list, P) /\ Cardinality(F) < limit
      <3>1. /\ N # NoCursor
            /\ \A r \in P, q \in Before(AllOf(list), N) : Newer(r, q)
            /\ \A q \in S \ P : q \in Before(T, N) \/ (list # "xchat" /\ q.at = Oldest(P).at)
            /\ Before(AllOf(list), N) \subseteq Before(AllOf(list), c)
            /\ Oldest(P) \in P
        BY <1>13, <2>6
      <3>2. Before(T, N) \subseteq Before(AllOf(list), N) /\ T \subseteq AllOf(list)
        BY TableRows DEF Before, T
      <3>3. Before(T, N) \subseteq S
        BY <3>1, <3>2 DEF Before, S
      <3>4. P \cap Before(T, N) = {}
        BY <1>6, <3>1, <3>2, NewerOrder
      <3>5. S \ P \subseteq Before(T, N)
        BY <1>4, <1>6, <1>16, <3>1 DEF Clean, NoTies, T
      <3>6. T \ Before(T, N) = (T \ S) \cup P
        BY <1>4, <1>6, <3>3, <3>4, <3>5
      <3>7. F = Passed(list, N)
        BY <2>1, <2>4, <2>6, <3>6 DEF Passed, T
      <3>8. QED
        BY <2>2, <2>3, <3>1, <3>7 DEF NewestOf
    <2>7. CASE Cardinality(F) >= limit
      BY <2>2, <2>3, <2>7 DEF NewestOf
    <2>8. QED
      BY <1>1, <1>11, <1>12, <2>5, <2>6, <2>7, FS_CardinalityType DEF limit
  <1>17. QED
    BY <1>8, <1>9, <1>11, <1>14, <1>15, <1>16 DEF list, T, c, limit, Took
\* The state of a search after a turn: goes on, or ends this loop.
LEMMA TurnInv ==
  ASSUME RowsOK, search \in Searches, search.at = "scans", ScanOK(search), SearchPage
  PROVE  /\ search' \in Searches /\ search'.at \in {"scans", "answered"}
         /\ search'.at = "scans" => ScanOK(search')
         /\ AnswerOK(search')
         /\ search'.at = "scans" /\ search'.list = search.list =>
              /\ search'.scanned > search.scanned
              /\ search'.limit = search.limit /\ search'.most = search.most
  <1> DEFINE list == search.list
             T == Table(list)
  <1>a. PICK want : want = Least(PageMost, search.most - search.scanned)
    OBVIOUS
  <1>b. PICK P : P = Page(search.list, search.cursor, want)
    OBVIOUS
  <1>c. PICK look : look = Scanned(P, search.found, search.limit)
    OBVIOUS
  <1>d. PICK N : N = NextBefore(search.list, P, want)
    OBVIOUS
  <1>e. PICK F : F = search.found \cup (look \cap Matching)
    OBVIOUS
  <1> DEFINE n == search.scanned + Cardinality(look)
             s == [search EXCEPT !.cursor = N, !.scanned = n, !.found = F]
  <1>1. /\ N \in Cursors
        /\ F \in SUBSET Row /\ IsFiniteSet(F) /\ Cardinality(F) <= search.limit
        /\ Cardinality(look) \in Nat /\ n <= search.most
        /\ N # NoCursor => N # search.cursor /\ Cardinality(look) > 0
        /\ Clean(list) =>
             /\ NewestOf(F, T \cap Matching)
             /\ \/ Cardinality(F) >= search.limit
                \/ N = NoCursor /\ F = T \cap Matching
                \/ N # NoCursor /\ F = Passed(list, N)
    <2>1. /\ N \in Cursors
          /\ F \in SUBSET Row /\ IsFiniteSet(F) /\ Cardinality(F) <= search.limit
          /\ Cardinality(look) \in Nat /\ search.scanned + Cardinality(look) <= search.most
          /\ N # NoCursor => N # search.cursor /\ Cardinality(look) > 0
      BY <1>a, <1>b, <1>c, <1>d, <1>e, TurnIs
    <2>2. Clean(search.list) => Took(search, N, F)
      BY <1>a, <1>b, <1>c, <1>d, <1>e, TurnIs
    <2>3. QED
      BY <2>1, <2>2 DEF Took
  <1>2. search' = IF \/ N \in {NoCursor, search.cursor}
                     \/ n >= search.most \/ Cardinality(F) >= search.limit
                  THEN Ended(s) ELSE s
    BY <1>a, <1>b, <1>c, <1>d, <1>e DEF SearchPage
  <1>3. /\ search.scanned \in Nat /\ search.most \in Nat /\ search.limit \in Nat \ {0}
        /\ search.scanned < search.most /\ Cardinality(F) \in Nat /\ n \in Nat
    BY <1>1, FS_CardinalityType DEF Searches, ScanOK
  <1>4. /\ s \in Searches
        /\ s.at = "scans" /\ s.kind = search.kind /\ s.list = list
        /\ s.limit = search.limit /\ s.most = search.most /\ s.cursor = N
        /\ s.scanned = n /\ s.found = F /\ s.first = search.first /\ s.cut = search.cut
    BY <1>1, <1>3 DEF Searches
  <1> HIDE DEF s, n
  <1>5. CASE search' = s /\ N # NoCursor /\ n < search.most /\ Cardinality(F) < search.limit
    <2>1. Clean(list) => F = Passed(list, N)
      BY <1>1, <1>3, <1>5
    <2>2. ScanOK(s)
      BY <1>1, <1>3, <1>4, <1>5, <2>1 DEF ScanOK
    <2>3. n > search.scanned
      BY <1>1, <1>3, <1>5 DEF n
    <2>4. QED
      BY <1>4, <1>5, <2>2, <2>3 DEF AnswerOK
  <1>6. CASE /\ search' = Ended(s)
             /\ N = NoCursor \/ n = search.most \/ Cardinality(F) >= search.limit
    <2>1. Clean(list) => LoopOK(s)
      <3>1. n = search.most /\ N # NoCursor => Truncated(s)
        BY <1>4 DEF Truncated
      <3>2. QED
        BY <1>1, <1>3, <1>4, <1>6, <3>1 DEF LoopOK
    <2>2. Truncated(s) \in BOOLEAN
      BY DEF Truncated
    <2>3. CASE s.kind = "unified" /\ s.list = "xchat"
      <3> DEFINE t == [s EXCEPT !.list = "legacy_dm", !.cursor = NoCursor, !.scanned = 0,
                                !.found = {}, !.first = s.found, !.cut = Truncated(s)]
      <3>1. search' = t
        BY <1>6, <2>3 DEF Ended
      <3>2. /\ t \in Searches
            /\ t.at = "scans" /\ t.kind = "unified" /\ t.list = "legacy_dm"
            /\ t.limit = search.limit /\ t.most = search.most /\ t.cursor = NoCursor
            /\ t.scanned = 0 /\ t.found = {} /\ t.first = F /\ t.cut = Truncated(s)
        BY <1>4, <2>2, <2>3 DEF Searches, Cursors
      <3> HIDE DEF t
      <3>3. LoopOK(s)
        BY <1>4, <2>1, <2>3 DEF Clean
      <3>4. {} = Passed("legacy_dm", NoCursor)
        BY DEF Passed, Before
      <3>5. /\ NewestOf(F, Table("xchat") \cap Matching)
            /\ t.cut \/ Cardinality(F) >= search.limit \/ F = Table("xchat") \cap Matching
        BY <1>4, <2>3, <3>2, <3>3 DEF LoopOK
      <3>6. ScanOK(t)
        BY <1>3, <3>2, <3>4, <3>5, FS_EmptySet DEF ScanOK
      <3>7. QED
        BY <1>4, <2>3, <3>1, <3>2, <3>6 DEF AnswerOK
    <2>4. CASE ~(s.kind = "unified" /\ s.list = "xchat")
      <3> DEFINE merged == IF s.kind = "unified" THEN Newest(s.first \cup s.found, s.limit)
                           ELSE s.found
                 t == [s EXCEPT !.at = "answered", !.cut = s.cut \/ Truncated(s),
                                !.found = merged]
      <3>1. search' = t
        BY <1>6, <2>4 DEF Ended
      <3>2. merged \in SUBSET Row
        BY <1>1, <1>4 DEF Newest, Searches
      <3> HIDE DEF merged
      <3>3. /\ t \in Searches
            /\ t.at = "answered" /\ t.kind = s.kind /\ t.limit = search.limit
            /\ t.cut = (s.cut \/ Truncated(s)) /\ t.found = merged
        BY <1>4, <2>2, <3>2 DEF Searches
      <3> HIDE DEF t
      <3>4. SUFFICES ASSUME t.kind # "xchat" => NoTies(Table("legacy_dm")),
                            t.kind = "unified" => ~t.cut
                     PROVE  Finds(t, Table(t.kind))
        BY <3>1, <3>3 DEF AnswerOK
      <3>5. list \in {"xchat", "legacy_dm"} /\ (s.kind # "unified" => s.list = s.kind)
        BY <1>4 DEF Searches, ScanOK
      <3>6. Clean(list) /\ LoopOK(s)
        BY <1>4, <2>1, <2>4, <3>3, <3>4, <3>5 DEF Clean
      <3>7. CASE s.kind # "unified"
        <4>1. /\ t.found = F /\ t.limit = search.limit /\ t.kind = list
              /\ t.cut = (s.cut \/ Truncated(s))
          BY <1>4, <3>3, <3>5, <3>7 DEF merged
        <4>2. /\ NewestOf(F, T \cap Matching) /\ Cardinality(F) <= search.limit
              /\ ~Truncated(s) /\ Cardinality(F) < search.limit => F = T \cap Matching
          BY <1>3, <1>4, <3>6 DEF LoopOK
        <4>3. QED
          BY <4>1, <4>2 DEF Finds
      <3>8. CASE s.kind = "unified"
        <4>1. s.list = "legacy_dm" /\ ~s.cut /\ ~Truncated(s)
          BY <1>4, <2>4, <3>3, <3>4, <3>5, <3>8
        <4> DEFINE A == Table("xchat") \cap Matching
                   B == Table("legacy_dm") \cap Matching
        <4>2. /\ A \in SUBSET Row /\ B \in SUBSET Row /\ IsFiniteSet(A) /\ IsFiniteSet(B)
              /\ A \cup B = Table("unified") \cap Matching
          <5>1. Table("unified") = Table("xchat") \cup Table("legacy_dm")
            BY DEF Table, RowsOK, Row
          <5>2. Table("xchat") \in SUBSET Row /\ IsFiniteSet(Table("xchat"))
                /\ Table("legacy_dm") \in SUBSET Row /\ IsFiniteSet(Table("legacy_dm"))
            BY TableRows
          <5>3. QED
            BY <5>1, <5>2, FS_Subset
        <4>3. NewestOf(s.first, A) /\ (s.first = A \/ Cardinality(s.first) >= s.limit)
          BY <1>4, <3>8, <4>1 DEF ScanOK
        <4>4. NewestOf(s.found, B) /\ (s.found = B \/ Cardinality(s.found) >= s.limit)
          BY <3>6, <4>1 DEF LoopOK
        <4>5. s.limit \in Nat \ {0}
          BY <1>3, <1>4
        <4> HIDE DEF A, B
        <4>6. IsNewest(Newest(s.first \cup s.found, s.limit), A \cup B, s.limit)
          BY <4>2, <4>3, <4>4, <4>5, MergeIs
        <4>7. QED
          BY <1>4, <3>3, <3>8, <4>2, <4>6 DEF IsNewest, Finds, merged
      <3>9. QED
        BY <3>7, <3>8
    <2>5. QED
      BY <2>3, <2>4
  <1>7. N \in {NoCursor, search.cursor} => N = NoCursor
    BY <1>1
  <1>8. QED
    BY <1>1, <1>2, <1>3, <1>5, <1>6, <1>7

LEMMA SearchInit == PagingInit => SearchInv
  BY DEF PagingInit, SearchInv, NoSearch, Searches, Kinds, Cursors, AnswerOK

LEMMA SearchNext == RowsOK /\ SearchInv /\ [PagingNext]_pagingVars => SearchInv'
  <1> SUFFICES ASSUME RowsOK, SearchInv, [PagingNext]_pagingVars PROVE SearchInv'
    OBVIOUS
  <1>1. CASE search' = NoSearch
    BY <1>1 DEF SearchInv, NoSearch, Searches, Kinds, Cursors, AnswerOK
  <1>2. ASSUME UNCHANGED rows
        PROVE  /\ ScanOK(search)' <=> ScanOK(search')
               /\ AnswerOK(search)' <=> AnswerOK(search')
    BY <1>2 DEF ScanOK, AnswerOK, Clean, Passed, Table
  <1>3. CASE UNCHANGED <<rows, search>>
    BY <1>2, <1>3 DEF SearchInv
  <1>4. ASSUME NEW kind \in Kinds, NEW n \in Sizes, NEW most \in ScanLimits,
               SearchBegins(kind, n, most)
        PROVE  SearchInv'
    <2> DEFINE s == [at |-> "scans", kind |-> kind,
                     list |-> IF kind = "unified" THEN "xchat" ELSE kind,
                     limit |-> n, most |-> most, cursor |-> NoCursor, scanned |-> 0,
                     found |-> {}, first |-> {}, cut |-> FALSE]
    <2>1. search' = s /\ UNCHANGED rows
      BY <1>4 DEF SearchBegins, NoSearch
    <2>2. n \in Nat \ {0} /\ most \in Nat \ {0}
      BY PagingAssumption
    <2>3. s \in Searches
      BY <2>2 DEF Searches, Kinds, Cursors
    <2>4. {} = Passed(s.list, NoCursor)
      BY DEF Passed, Before
    <2>5. ScanOK(s)
      BY <2>2, <2>4, FS_EmptySet DEF ScanOK
    <2>6. QED
      BY <1>2, <2>1, <2>3, <2>5 DEF SearchInv, AnswerOK
  <1>5. CASE SearchPage
    <2>1. search.at = "scans" /\ UNCHANGED rows
      BY <1>5 DEF SearchPage
    <2>2. QED
      BY <1>2, <1>5, <2>1, TurnInv DEF SearchInv
  <1>6. QED
    BY <1>1, <1>3, <1>4, <1>5
       DEF PagingNext, pagingVars, Store, First, Following, Free

LEMMA SearchesAlways == PagingSpec => [](RowsOK /\ SearchInv)
  BY RowsInit, RowsNext, SearchInit, SearchNext, PTL DEF PagingSpec

\* What a search answers is right for any rows, limits and scan limits: the
\* newest matches without a gap, and all there are unless it says "truncated".
THEOREM SearchesFindAll == PagingSpec => []SearchFindsAll
  <1>1. SearchInv => SearchFindsAll
    BY DEF SearchInv, AnswerOK, SearchFindsAll
  <1>2. QED
    BY <1>1, SearchesAlways, PTL

\* The loop of a search ends: a turn that asks for another page has looked at
\* one row more, of the "most" it may look at.
SearchAdvances ==
  [][search.at = "scans" /\ search'.at = "scans" /\ search'.list = search.list =>
       /\ search.scanned < search'.scanned /\ search'.scanned < search.most
       /\ search'.most = search.most]_search

\* No cursor, time stamp or limit makes a search go round without end.
THEOREM SearchesEnd == PagingSpec => SearchAdvances
  <1>1. RowsOK /\ SearchInv /\ SearchInv' /\ [PagingNext]_pagingVars =>
          [search.at = "scans" /\ search'.at = "scans" /\ search'.list = search.list =>
             /\ search.scanned < search'.scanned /\ search'.scanned < search.most
             /\ search'.most = search.most]_search
    <2> SUFFICES ASSUME RowsOK, SearchInv, SearchInv', [PagingNext]_pagingVars,
                        search.at = "scans", search'.at = "scans", search'.list = search.list,
                        search' # search
                 PROVE  /\ search.scanned < search'.scanned /\ search'.scanned < search.most
                        /\ search'.most = search.most
      OBVIOUS
    <2>1. SearchPage
      BY DEF PagingNext, pagingVars, Store, First, Following, SearchBegins, Free
    <2>2. search'.scanned > search.scanned /\ search'.most = search.most
      BY <2>1, TurnInv DEF SearchInv
    <2>3. search'.scanned < search'.most /\ search'.scanned \in Nat /\ search.scanned \in Nat
      BY DEF SearchInv, Searches, ScanOK
    <2>4. QED
      BY <2>2, <2>3
  <1>2. QED
    BY <1>1, SearchesAlways, PTL DEF PagingSpec, SearchAdvances
=============================================================================
