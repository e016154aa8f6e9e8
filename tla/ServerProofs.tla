---------------------------- MODULE ServerProofs ----------------------------
(***************************************************************************)
(* The state store for any number of handlers, keys and changes, which     *)
(* implements DurableRegister; the tokens of the X API client for any      *)
(* number of concurrent calls; encryption at rest for any number of        *)
(* secrets; and the process as a whole: it implements its state store, its *)
(* tokens and its caches, so that what is proved of each holds of it.      *)
(***************************************************************************)
EXTENDS Server, SequenceTheorems, TLAPS

-----------------------------------------------------------------------------
(* The state store *)

\* Writes wait in the order of their changes, each of them for a change that is
\* in memory and newer than what was acknowledged; what the write at the head
\* has serialised is at least as new as its change and as the file.
StoreInv ==
  /\ StoreTypeOK
  /\ AckedIsDurable
  /\ step = "idle" <=> queue = <<>>
  /\ queue # <<>> => loaded
  /\ loaded => file.at <= memory.at
  /\ \A i \in 1..Len(queue) : acked <= queue[i].at /\ queue[i].at <= memory.at
  /\ \A i, j \in 1..Len(queue) : i <= j => queue[i].at <= queue[j].at
  /\ step = "write" => /\ queue[1].at <= temp.at
                       /\ file.at <= temp.at /\ temp.at <= memory.at

Writes == [client : Client, at : 1..MaxWrites]

LEMMA ObjectsType ==
  /\ Empty \in Objects
  /\ \A o \in Objects : o.at \in Nat /\ o.at <= MaxWrites /\ o.keys \subseteq Key
  BY StoreAssumption DEF Objects, Empty

LEMMA WritesOf ==
  ASSUME NEW q \in Seq(Writes)
  PROVE  /\ Len(q) \in Nat
         /\ q # <<>> => 1 \in 1..Len(q) /\ Head(q) = q[1]
         /\ \A i \in 1..Len(q) : /\ q[i] \in Writes /\ q[i].client \in Client
                                /\ q[i].at \in Nat /\ q[i].at <= MaxWrites
  <1>1. \A i \in 1..Len(q) : q[i] \in Writes
    BY ElementOfSeq
  <1>2. \A w \in Writes : w.client \in Client /\ w.at \in Nat /\ w.at <= MaxWrites
    BY StoreAssumption DEF Writes
  <1>3. Len(q) \in Nat /\ (q # <<>> => 1 \in 1..Len(q) /\ Head(q) = q[1])
    OBVIOUS
  <1>4. QED
    BY <1>1, <1>2, <1>3

LEMMA StoreInitInv == StoreInit => StoreInv
  <1> SUFFICES ASSUME StoreInit PROVE StoreInv
    OBVIOUS
  <1>1. StoreTypeOK
    <2>1. queue \in Seq([client : Client, at : 1..MaxWrites]) /\ 0 \in 0..MaxWrites
      BY StoreAssumption DEF StoreInit
    <2>2. answer \in [Client -> {"none", "waiting", "stored", "absent", "error"}]
      BY DEF StoreInit
    <2>3. QED
      BY <2>1, <2>2, ObjectsType DEF StoreInit, StoreTypeOK
  <1>2. Len(queue) = 0 /\ queue = <<>>
    BY DEF StoreInit
  <1>3. QED
    BY <1>1, <1>2 DEF StoreInit, StoreInv, AckedIsDurable, Empty

\* A write behind the others.
LEMMA Queued ==
  ASSUME NEW q \in Seq(Writes), NEW w \in Writes,
         \A i, j \in 1..Len(q) : i <= j => q[i].at <= q[j].at,
         \A i \in 1..Len(q) : q[i].at <= w.at
  PROVE  /\ Append(q, w) \in Seq(Writes) /\ Append(q, w) # <<>>
         /\ Len(Append(q, w)) = Len(q) + 1
         /\ q # <<>> => Append(q, w)[1] = q[1]
         /\ \A i \in 1..(Len(q) + 1) :
              Append(q, w)[i] = IF i = Len(q) + 1 THEN w ELSE q[i]
         /\ \A i, j \in 1..(Len(q) + 1) :
              i <= j => Append(q, w)[i].at <= Append(q, w)[j].at
  <1>1. /\ Len(q) \in Nat /\ w.at \in Int /\ \A i \in 1..Len(q) : q[i].at \in Int
        /\ q # <<>> => 1 \in 1..Len(q)
    <2>1. w.at \in Int
      BY StoreAssumption DEF Writes
    <2>2. /\ Len(q) \in Nat /\ \A i \in 1..Len(q) : q[i].at \in Nat
          /\ q # <<>> => 1 \in 1..Len(q)
      BY WritesOf
    <2>3. QED
      BY <2>1, <2>2
  <1> DEFINE r == Append(q, w)
  <1>2. /\ r \in Seq(Writes) /\ r # <<>> /\ Len(r) = Len(q) + 1
        /\ \A i \in 1..Len(q) : r[i] = q[i]
        /\ r[Len(q) + 1] = w
    BY AppendProperties
  <1> HIDE DEF r
  <1>3. /\ r \in Seq(Writes) /\ r # <<>> /\ Len(r) = Len(q) + 1
        /\ \A i \in 1..(Len(q) + 1) : r[i] = IF i = Len(q) + 1 THEN w ELSE q[i]
    BY <1>1, <1>2
  <1>4. q # <<>> => r[1] = q[1]
    BY <1>1, <1>2
  <1>5. \A i, j \in 1..(Len(q) + 1) : i <= j => r[i].at <= r[j].at
    BY <1>1, <1>3
  <1>6. QED
    BY <1>3, <1>4, <1>5 DEF r

LEMMA ChangeInv ==
  ASSUME StoreInv, loaded, NEW c \in Client, NEW keys \in SUBSET Key,
         answer[c] # "waiting", Change(c, keys)
  PROVE  StoreInv'
  <1> DEFINE w == [client |-> c, at |-> memory.at + 1]
  <1>1. /\ memory \in Objects /\ file \in Objects /\ temp \in Objects
        /\ memory.at \in Nat /\ memory.at < MaxWrites /\ MaxWrites \in Nat
        /\ file.at \in Nat /\ temp.at \in Nat /\ acked \in Nat
        /\ acked <= file.at /\ file.at <= memory.at
    BY StoreAssumption, ObjectsType
    DEF Change, StoreInv, StoreTypeOK, AckedIsDurable
  <1>2. /\ memory' \in Objects /\ memory'.at = memory.at + 1
        /\ UNCHANGED <<file, loaded, temp, broken, acked>>
    BY <1>1 DEF Change, Objects
  <1>3. /\ answer' \in [Client -> {"none", "waiting", "stored", "absent", "error"}]
        /\ step' \in {"idle", "dir", "write"}
    BY DEF Change, Persist, StoreInv, StoreTypeOK
  <1>4. CASE UNCHANGED <<queue, step>>
    <2>1. queue \in Seq(Writes)
      BY DEF StoreInv, StoreTypeOK, Writes
    <2>2. \A i \in 1..Len(queue) : queue[i].at \in Nat
      BY <2>1, WritesOf
    <2>3. \A i \in 1..Len(queue) : queue[i].at <= memory.at + 1
      BY <1>1, <2>2 DEF StoreInv
    <2>4. StoreTypeOK'
      BY <1>1, <1>2, <1>3, <1>4 DEF StoreInv, StoreTypeOK
    <2>5. /\ file'.at <= memory'.at /\ AckedIsDurable'
          /\ step' = "write" => temp'.at <= memory'.at
      BY <1>1, <1>2, <1>4 DEF StoreInv, AckedIsDurable
    <2>6. QED
      BY <1>2, <1>4, <2>3, <2>4, <2>5 DEF StoreInv
  <1>5. CASE /\ queue' = Append(queue, w)
             /\ step' = IF step = "idle" THEN "dir" ELSE step
    <2>1. queue \in Seq(Writes) /\ w \in Writes /\ w.at = memory.at + 1
      BY <1>1 DEF StoreInv, StoreTypeOK, Writes
    <2>2. \A i \in 1..Len(queue) : queue[i] \in Writes /\ queue[i].at \in Nat
      BY <2>1, WritesOf
    <2>3. \A i \in 1..Len(queue) : queue[i].at <= w.at
      BY <1>1, <2>1, <2>2 DEF StoreInv
    <2> HIDE DEF w
    <2>4. /\ queue' \in Seq(Writes) /\ queue' # <<>> /\ Len(queue') = Len(queue) + 1
          /\ queue # <<>> => queue'[1] = queue[1]
          /\ \A i \in 1..Len(queue') :
               queue'[i] = IF i = Len(queue) + 1 THEN w ELSE queue[i]
          /\ \A i, j \in 1..Len(queue') : i <= j => queue'[i].at <= queue'[j].at
      BY <1>5, <2>1, <2>3, Queued DEF StoreInv
    <2>5. \A i \in 1..Len(queue') :
            acked' <= queue'[i].at /\ queue'[i].at <= memory'.at
      BY <1>1, <1>2, <2>1, <2>2, <2>4 DEF StoreInv
    <2>6. StoreTypeOK' /\ AckedIsDurable'
      BY <1>1, <1>2, <1>3, <2>4 DEF StoreInv, StoreTypeOK, AckedIsDurable, Writes
    <2>7. step' # "idle"
      BY <1>5
    <2>8. step' = "write" => /\ queue'[1].at <= temp'.at
                             /\ file'.at <= temp'.at /\ temp'.at <= memory'.at
      BY <1>1, <1>2, <1>5, <2>4 DEF StoreInv
    <2>9. loaded' /\ file'.at <= memory'.at
      BY <1>1, <1>2
    <2>10. QED
      BY <2>4, <2>5, <2>6, <2>7, <2>8, <2>9 DEF StoreInv
  <1>6. QED
    BY <1>4, <1>5 DEF Change, Persist

LEMMA RenameInv == StoreInv /\ Rename => StoreInv'
  <1> SUFFICES ASSUME StoreInv, Rename PROVE StoreInv'
    OBVIOUS
  <1>1. /\ memory \in Objects /\ file \in Objects /\ temp \in Objects
        /\ memory.at \in Nat /\ temp.at \in Nat /\ MaxWrites \in Nat
        /\ queue \in Seq(Writes) /\ queue # <<>> /\ Len(queue) \in Nat \ {0}
        /\ file.at <= temp.at /\ temp.at <= memory.at /\ queue[1].at <= temp.at
    BY StoreAssumption, ObjectsType DEF Rename, StoreInv, StoreTypeOK, Writes
  <1>2. \A i \in 1..Len(queue) :
          /\ queue[i] \in Writes /\ queue[i].client \in Client
          /\ queue[i].at \in Nat /\ queue[i].at <= MaxWrites
    BY <1>1, WritesOf
  <1>3. /\ Tail(queue) \in Seq(Writes) /\ Len(Tail(queue)) = Len(queue) - 1
        /\ \A i \in 1..(Len(queue) - 1) : Tail(queue)[i] = queue[i + 1]
        /\ Head(queue) = queue[1]
        /\ Tail(queue) = <<>> <=> Len(queue) = 1
    <2>1. /\ Tail(queue) \in Seq(Writes) /\ Len(Tail(queue)) = Len(queue) - 1
          /\ \A i \in 1..Len(Tail(queue)) : Tail(queue)[i] = queue[i + 1]
      BY <1>1, HeadTailProperties
    <2>2. Tail(queue) = <<>> <=> Len(Tail(queue)) = 0
      BY <2>1, EmptySeq
    <2>3. Head(queue) = queue[1]
      BY <1>1, WritesOf
    <2>4. QED
      BY <1>1, <2>1, <2>2, <2>3
  <1>4. /\ file' = temp /\ queue' = Tail(queue) /\ acked' = queue[1].at
        /\ step' = IF Len(queue) = 1 THEN "idle" ELSE "dir"
        /\ UNCHANGED <<memory, loaded, temp, broken>>
        /\ answer' = [answer EXCEPT ![queue[1].client] = "stored"]
    BY <1>3 DEF Rename
  <1>5. acked' \in Nat /\ acked' <= temp.at /\ acked' <= MaxWrites
    BY <1>1, <1>2, <1>4
  <1>6. StoreTypeOK' /\ AckedIsDurable'
    BY <1>1, <1>2, <1>3, <1>4, <1>5
    DEF StoreInv, StoreTypeOK, AckedIsDurable, Writes
  <1>7. \A i \in 1..Len(queue') :
          /\ i + 1 \in 1..Len(queue) /\ 1 \in 1..Len(queue)
          /\ queue'[i] = queue[i + 1]
    BY <1>1, <1>3, <1>4
  <1>8. \A i \in 1..Len(queue') : acked' <= queue'[i].at /\ queue'[i].at <= memory'.at
    BY <1>4, <1>7 DEF StoreInv
  <1>9. \A i, j \in 1..Len(queue') : i <= j => queue'[i].at <= queue'[j].at
    BY <1>7 DEF StoreInv
  <1>10. loaded' /\ file'.at <= memory'.at
    BY <1>1, <1>4 DEF StoreInv
  <1>11. step' # "write" /\ (step' = "idle" <=> queue' = <<>>)
    BY <1>3, <1>4
  <1>12. QED
    BY <1>6, <1>8, <1>9, <1>10, <1>11 DEF StoreInv

\* Steps that leave the queue empty, or as it is.
LEMMA OtherStepsInv ==
  StoreInv /\ (Load \/ Serialise \/ WriteFails \/ StoreCrash) => StoreInv'
  <1> SUFFICES ASSUME StoreInv, Load \/ Serialise \/ WriteFails \/ StoreCrash
               PROVE  StoreInv'
    OBVIOUS
  <1>1. /\ memory.at \in Nat /\ file.at \in Nat /\ memory \in Objects
        /\ file \in Objects /\ Empty \in Objects
    BY ObjectsType DEF StoreInv, StoreTypeOK
  <1>2. CASE Load
    <2>1. queue = <<>> /\ step = "idle" /\ Len(queue) = 0
      BY <1>2 DEF Load, StoreInv
    <2>2. QED
      BY <1>1, <1>2, <2>1 DEF Load, StoreInv, StoreTypeOK, AckedIsDurable
  <1>3. CASE Serialise
    <2>1. queue # <<>> /\ queue \in Seq(Writes) /\ loaded
      BY <1>3 DEF Serialise, StoreInv, StoreTypeOK, Writes
    <2>2. 1 \in 1..Len(queue)
      BY <2>1, WritesOf
    <2>3. QED
      BY <1>1, <1>3, <2>1, <2>2 DEF Serialise, StoreInv, StoreTypeOK, AckedIsDurable
  <1>4. CASE WriteFails
    <2>1. queue' = <<>> /\ Len(queue') = 0
      BY <1>4 DEF WriteFails
    <2>2. queue' \in Seq([client : Client, at : 1..MaxWrites])
      BY <2>1
    <2>3. StoreTypeOK'
      BY <1>4, <2>2 DEF WriteFails, StoreInv, StoreTypeOK
    <2>4. QED
      BY <1>4, <2>1, <2>3 DEF WriteFails, StoreInv, AckedIsDurable
  <1>5. CASE StoreCrash
    <2>1. queue' = <<>> /\ Len(queue') = 0
      BY <1>5 DEF StoreCrash
    <2>2. queue' \in Seq([client : Client, at : 1..MaxWrites])
      BY <2>1
    <2>3. StoreTypeOK'
      BY <1>1, <1>5, <2>2 DEF StoreCrash, StoreInv, StoreTypeOK
    <2>4. QED
      BY <1>5, <2>1, <2>3 DEF StoreCrash, StoreInv, AckedIsDurable
  <1>6. QED
    BY <1>2, <1>3, <1>4, <1>5

LEMMA ChangesInv == StoreInv /\ Changes => StoreInv'
  <1> SUFFICES ASSUME StoreInv, NEW c \in Client, NEW k \in Key,
                      Set(c, k) \/ Delete(c, k)
               PROVE  StoreInv'
    BY DEF Changes
  <1>1. loaded /\ answer[c] # "waiting"
        /\ memory.keys \cup {k} \in SUBSET Key /\ memory.keys \ {k} \in SUBSET Key
    BY DEF Set, Delete, StoreInv, StoreTypeOK, Objects
  <1>2. CASE /\ answer' = [answer EXCEPT ![c] = "absent"]
             /\ UNCHANGED <<memory, file, loaded, queue, temp, step, broken, acked>>
    BY <1>2 DEF StoreInv, StoreTypeOK, AckedIsDurable
  <1>3. QED
    BY <1>1, <1>2, ChangeInv DEF Set, Delete

LEMMA StoreNextInv == StoreInv /\ [StoreNext]_storeVars => StoreInv'
  <1>1. StoreInv /\ UNCHANGED storeVars => StoreInv'
    BY DEF storeVars, StoreInv, StoreTypeOK, AckedIsDurable
  <1>2. QED
    BY <1>1, ChangesInv, RenameInv, OtherStepsInv DEF StoreNext, Writing

LEMMA StoreAlways == StoreSpec => []StoreInv
  BY StoreInitInv, StoreNextInv, PTL DEF StoreSpec

\* Memory, file, queue and answers keep their types.
THEOREM StoreTypeCorrect == StoreSpec => []StoreTypeOK
  <1>1. StoreInv => StoreTypeOK
    BY DEF StoreInv
  <1>2. QED
    BY <1>1, StoreAlways, PTL

\* A change whose client was told that it is stored is in the file from then
\* on, though the write serialised the object later, with other changes.
THEOREM AckedStaysDurable == StoreSpec => []AckedIsDurable
  <1>1. StoreInv => AckedIsDurable
    BY DEF StoreInv
  <1>2. QED
    BY <1>1, StoreAlways, PTL

LEMMA RegisterStep ==
  StoreInv /\ [StoreNext]_storeVars =>
    [Register!Write \/ Register!Save \/ Register!Lose]_(Register!registerVars)
  <1> SUFFICES ASSUME StoreInv, [StoreNext]_storeVars
               PROVE  [Register!Write \/ Register!Save \/ Register!Lose]_(Register!registerVars)
    OBVIOUS
  <1>1. /\ memory.at \in Nat /\ file.at \in Nat /\ temp.at \in Nat
        /\ memory.at + 0 = memory.at /\ acked \in Nat /\ acked <= file.at
    BY ObjectsType DEF StoreInv, StoreTypeOK, AckedIsDurable
  <1>2. CASE Changes
    <2>1. PICK c \in Client, k \in Key : Set(c, k) \/ Delete(c, k)
      BY <1>2 DEF Changes
    <2>2. /\ loaded /\ loaded' /\ UNCHANGED <<file, acked>>
          /\ memory' = memory \/ memory'.at = memory.at + 1
      BY <2>1 DEF Set, Delete, Change
    <2>3. QED
      BY <2>2 DEF Register!Write, Register!registerVars
  <1>3. CASE Rename
    <2>1. queue \in Seq(Writes) /\ queue # <<>> /\ loaded
      BY <1>3 DEF Rename, StoreInv, StoreTypeOK, Writes
    <2>2. 1 \in 1..Len(queue) /\ Head(queue) = queue[1] /\ queue[1].at \in Nat
      BY <2>1, WritesOf
    <2>3. /\ file.at <= temp.at /\ temp.at <= memory.at
          /\ queue[1].at \in Nat /\ acked <= queue[1].at /\ queue[1].at <= temp.at
      BY <1>3, <2>2 DEF Rename, StoreInv
    <2>4. /\ file'.at = temp.at /\ acked' = queue[1].at
          /\ loaded' /\ memory' = memory
      BY <1>3, <2>1, <2>2 DEF Rename
    <2>5. QED
      BY <1>1, <2>1, <2>3, <2>4 DEF Register!Save
  <1>4. CASE StoreCrash
    BY <1>4 DEF StoreCrash, Register!Lose
  <1>5. CASE Load
    BY <1>5 DEF Load, Register!registerVars
  <1>6. CASE Serialise \/ WriteFails \/ UNCHANGED storeVars
    BY <1>6 DEF Serialise, WriteFails, storeVars, Register!registerVars
  <1>7. QED
    BY <1>2, <1>3, <1>4, <1>5, <1>6 DEF StoreNext, Writing

\* The store is a register whose versions become durable in order and as a
\* whole, and whose acknowledged versions survive every crash.
THEOREM StoreImplementsRegister == StoreSpec => StoreIsRegister
  <1>1. StoreInit => Register!RegisterInit
    BY DEF StoreInit, Empty, Register!RegisterInit
  <1>2. QED
    BY <1>1, StoreAlways, RegisterStep, PTL
    DEF StoreSpec, StoreIsRegister, Register!RegisterSpec

-----------------------------------------------------------------------------
(* Tokens: the refresh token is lost with an answer only *)

\* Memory has what the cache has once it was looked for, and what the
\* environment has before; and a token that X has issued and whose answer is
\* under way is known to nobody else, so that X issues no other one.
TokensInv ==
  /\ TokenTypeOK
  /\ Loaded = (IF stored = NoToken THEN 0 ELSE stored)
  /\ ~asked => token = 0 /\ \A c \in Call : calls[c].at = "idle"
  /\ token <= live
  /\ stored # NoToken => stored <= live
  /\ \A c \in Call : calls[c].used <= live
  /\ \A c \in Call : calls[c].at = "granted" =>
       /\ calls[c].used = live /\ token < live /\ stored # live
       /\ \A d \in Call : d # c => calls[d].used < live /\ calls[d].at # "granted"
  /\ TokenSurvives

LEMMA WaitsType ==
  /\ Idle \in Waits /\ Idle.at = "idle" /\ Idle.used = 0
  /\ \A at \in {"idle", "api", "refresh", "granted"}, u \in Tokens, b \in BOOLEAN :
       [at |-> at, used |-> u, again |-> b] \in Waits
  /\ \A w \in Waits : /\ w.at \in {"idle", "api", "refresh", "granted"}
                      /\ w.used \in Tokens /\ w.again \in BOOLEAN
  /\ Tokens \subseteq Nat /\ 0 \in Tokens /\ NoToken \notin Tokens
  BY TokenAssumption DEF Waits, Idle, Tokens

\* A call awaits something else, or nothing.
LEMMA CallsAfter ==
  ASSUME calls \in [Call -> Waits], NEW c \in Call, NEW w \in Waits,
         calls' = [calls EXCEPT ![c] = w]
  PROVE  /\ calls' \in [Call -> Waits] /\ calls'[c] = w
         /\ \A d \in Call : d # c => calls'[d] = calls[d]
  OBVIOUS

\* A step that moves neither the tokens nor X, to a call that is not answered.
LEMMA CallMoves ==
  ASSUME TokensInv, NEW c \in Call, NEW w \in Waits,
         calls' = [calls EXCEPT ![c] = w],
         w.at # "granted", calls[c].at # "granted", asked,
         w.used = 0 \/ w.used = token,
         UNCHANGED <<live, stored, token, asked, lost>>,
         client' \in BOOLEAN
  PROVE  TokensInv'
  <1>1. /\ calls' \in [Call -> Waits] /\ calls'[c] = w
        /\ \A d \in Call : d # c => calls'[d] = calls[d]
    BY CallsAfter DEF TokensInv, TokenTypeOK
  <1>2. TokenTypeOK'
    BY <1>1 DEF TokensInv, TokenTypeOK
  <1>3. live \in Nat /\ token \in Nat /\ Loaded' = Loaded
    BY WaitsType DEF TokensInv, TokenTypeOK, Loaded, FindsStored
  <1>4. \A d \in Call : calls'[d].used <= live'
    BY <1>1, <1>3 DEF TokensInv
  <1>5. \A d \in Call : calls'[d].at = "granted" =>
          /\ calls'[d].used = live' /\ token' < live' /\ stored' # live'
          /\ \A e \in Call : e # d => calls'[e].used < live' /\ calls'[e].at # "granted"
    BY <1>1, <1>3 DEF TokensInv
  <1>6. TokenSurvives'
    BY <1>1, <1>3 DEF TokensInv, TokenSurvives
  <1>7. QED
    BY <1>2, <1>3, <1>4, <1>5, <1>6 DEF TokensInv

LEMMA Busy ==
  ASSUME TokensInv, NEW c \in Call, calls[c].at # "idle"
  PROVE  asked /\ Loaded = token
  BY DEF TokensInv, Loaded, FindsStored

LEMMA BeginCallInv ==
  ASSUME TokensInv, NEW c \in Call, BeginCall(c)
  PROVE  TokensInv'
  <1> DEFINE w == [at |-> IF client' THEN "api" ELSE "refresh",
                   used |-> Loaded, again |-> FALSE]
  <1>1. /\ live \in Tokens /\ token \in Tokens /\ stored \in Tokens \cup {NoToken}
        /\ live \in Nat /\ token \in Nat
    BY WaitsType DEF TokensInv, TokenTypeOK
  <1>2. Loaded \in Tokens /\ Loaded \in Nat /\ Loaded <= live
    BY <1>1, WaitsType DEF TokensInv, Loaded, FindsStored
  <1>3. w \in Waits /\ w.at # "granted" /\ w.used = Loaded
    BY <1>2, WaitsType
  <1>4. calls' = [calls EXCEPT ![c] = w] /\ calls[c].at = "idle"
    BY DEF BeginCall, Awaits
  <1> HIDE DEF w
  <1>5. /\ calls' \in [Call -> Waits] /\ calls'[c] = w
        /\ \A d \in Call : d # c => calls'[d] = calls[d]
    BY <1>3, <1>4, CallsAfter DEF TokensInv, TokenTypeOK
  <1>6. token' = Loaded /\ asked' = TRUE /\ UNCHANGED <<live, stored, lost>>
        /\ client' \in BOOLEAN
    BY DEF BeginCall, FindsStored, TokensInv, TokenTypeOK
  <1>7. Loaded' = Loaded
    BY <1>6 DEF Loaded, FindsStored
  <1>8. TokenTypeOK'
    BY <1>2, <1>5, <1>6 DEF TokensInv, TokenTypeOK
  <1>9. \A d \in Call : calls'[d].used <= live'
    BY <1>2, <1>3, <1>5, <1>6 DEF TokensInv
  <1>10. ASSUME NEW d \in Call, calls'[d].at = "granted"
         PROVE  /\ calls'[d].used = live' /\ token' < live' /\ stored' # live'
                /\ \A e \in Call : e # d => calls'[e].used < live'
                                            /\ calls'[e].at # "granted"
    <2>1. d # c /\ calls[d].at = "granted"
      BY <1>3, <1>5, <1>10
    <2>2. Loaded = token
      BY <2>1, Busy
    <2>3. QED
      BY <1>3, <1>5, <1>6, <2>1, <2>2 DEF TokensInv
  <1>11. TokenSurvives'
    BY <1>3, <1>4, <1>5, <1>6, <1>7 DEF TokensInv, TokenSurvives
  <1>12. QED
    BY <1>2, <1>6, <1>7, <1>8, <1>9, <1>10, <1>11 DEF TokensInv

LEMMA EndsInv ==
  ASSUME TokensInv, NEW c \in Call, Settled(c) \/ Unauthorized(c) \/ Denied(c)
  PROVE  TokensInv'
  <1>1. /\ calls[c].at \in {"api", "refresh"}
        /\ UNCHANGED <<live, stored, token, client, asked, lost>>
    BY DEF Settled, Unauthorized, Denied
  <1>2. asked /\ client' \in BOOLEAN /\ token \in Tokens
    BY <1>1, Busy DEF TokensInv, TokenTypeOK
  <1>3. \/ calls' = [calls EXCEPT ![c] = Idle]
        \/ calls' = [calls EXCEPT ![c] = [at |-> "refresh", used |-> token, again |-> TRUE]]
    BY DEF Settled, Unauthorized, Denied, Ends, Awaits
  <1>4. PICK w \in Waits : /\ calls' = [calls EXCEPT ![c] = w]
                           /\ w.at # "granted" /\ (w.used = 0 \/ w.used = token)
    BY <1>2, <1>3, WaitsType
  <1>5. QED
    BY <1>1, <1>2, <1>4, CallMoves

LEMMA GrantedInv ==
  ASSUME TokensInv, NEW c \in Call, Granted(c)
  PROVE  TokensInv'
  <1> DEFINE w == [at |-> "granted", used |-> live + 1, again |-> calls[c].again]
  <1>1. /\ live \in Nat /\ token \in Nat /\ live + 1 \in Tokens
        /\ stored \in Nat \cup {NoToken} /\ live + 1 # NoToken
    BY TokenAssumption, WaitsType DEF Granted, TokensInv, TokenTypeOK, Tokens
  <1>2. calls \in [Call -> Waits] /\ \A d \in Call : calls[d].used \in Nat
    BY WaitsType DEF TokensInv, TokenTypeOK
  <1>3. w \in Waits /\ w.at = "granted" /\ w.used = live + 1
    BY <1>1, <1>2, WaitsType
  <1>4. /\ calls[c].at = "refresh" /\ calls[c].used = live /\ live' = live + 1
        /\ calls' = [calls EXCEPT ![c] = w]
        /\ UNCHANGED <<stored, token, client, asked, lost>>
    BY DEF Granted, Awaits
  <1> HIDE DEF w
  <1>5. /\ calls' \in [Call -> Waits] /\ calls'[c] = w
        /\ \A d \in Call : d # c => calls'[d] = calls[d]
    BY <1>2, <1>3, <1>4, CallsAfter
  <1>6. TokenTypeOK'
    BY <1>1, <1>4, <1>5 DEF TokensInv, TokenTypeOK
  <1>7. Loaded' = Loaded /\ asked
    BY <1>4, Busy DEF Loaded, FindsStored
  <1>8. \A d \in Call : calls[d].at # "granted"
    BY <1>1, <1>4 DEF TokensInv
  <1>9. \A d \in Call : d # c => calls'[d].used < live' /\ calls'[d].at # "granted"
    BY <1>1, <1>2, <1>4, <1>5, <1>8 DEF TokensInv
  <1>10. token' < live' /\ stored' # live' /\ (stored' # NoToken => stored' <= live')
    BY <1>1, <1>4 DEF TokensInv
  <1>11. TokenSurvives'
    BY <1>3, <1>4, <1>5 DEF TokenSurvives
  <1>12. \A d \in Call : calls'[d].at = "granted" =>
           /\ calls'[d].used = live' /\ token' < live' /\ stored' # live'
           /\ \A e \in Call : e # d => calls'[e].used < live' /\ calls'[e].at # "granted"
    BY <1>3, <1>4, <1>5, <1>9, <1>10
  <1>13. \A d \in Call : calls'[d].used <= live'
    BY <1>1, <1>2, <1>3, <1>4, <1>5, <1>9 DEF TokensInv
  <1>14. token' <= live'
    BY <1>1, <1>4 DEF TokensInv
  <1>15. QED
    BY <1>4, <1>6, <1>7, <1>10, <1>11, <1>12, <1>13, <1>14 DEF TokensInv

LEMMA RefreshedInv ==
  ASSUME TokensInv, NEW c \in Call, Refreshed(c)
  PROVE  TokensInv'
  <1> DEFINE w == [at |-> "api", used |-> live, again |-> calls[c].again]
  <1>1. /\ calls[c].at = "granted" /\ calls[c].used = live
        /\ token' = live /\ stored' = live /\ client' = TRUE
        /\ calls' = [calls EXCEPT ![c] = w]
        /\ UNCHANGED <<live, asked, lost>>
    BY DEF Refreshed, Awaits, TokensInv
  <1>2. /\ live \in Tokens /\ live \in Nat /\ live # NoToken
        /\ calls \in [Call -> Waits] /\ calls[c].again \in BOOLEAN
    BY WaitsType DEF TokensInv, TokenTypeOK
  <1>3. w \in Waits /\ w.at = "api" /\ w.used = live
    BY <1>2, WaitsType
  <1> HIDE DEF w
  <1>4. /\ calls' \in [Call -> Waits] /\ calls'[c] = w
        /\ \A d \in Call : d # c => calls'[d] = calls[d]
    BY <1>1, <1>2, <1>3, CallsAfter
  <1>5. TokenTypeOK'
    BY <1>1, <1>2, <1>4 DEF TokensInv, TokenTypeOK
  <1>6. asked /\ Loaded' = live
    BY <1>1, <1>2, Busy DEF Loaded, FindsStored
  <1>7. \A d \in Call : calls'[d].at # "granted" /\ calls'[d].used <= live'
    BY <1>1, <1>2, <1>3, <1>4 DEF TokensInv
  <1>8. QED
    BY <1>1, <1>2, <1>5, <1>6, <1>7 DEF TokensInv, TokenSurvives

LEMMA AnswerLostInv ==
  ASSUME TokensInv, NEW c \in Call, AnswerLost(c)
  PROVE  TokensInv'
  <1>1. /\ calls[c].at = "granted" /\ calls[c].used = live /\ lost' = TRUE
        /\ calls' = [calls EXCEPT ![c] = Idle]
        /\ UNCHANGED <<live, stored, token, client, asked>>
    BY DEF AnswerLost, Ends, TokensInv
  <1>2. live \in Nat /\ calls \in [Call -> Waits]
    BY WaitsType DEF TokensInv, TokenTypeOK
  <1>3. /\ calls' \in [Call -> Waits] /\ calls'[c] = Idle
        /\ \A d \in Call : d # c => calls'[d] = calls[d]
    BY <1>1, <1>2, WaitsType, CallsAfter
  <1>4. \A d \in Call : calls'[d].at # "granted" /\ calls'[d].used <= live'
    BY <1>1, <1>2, <1>3, WaitsType DEF TokensInv
  <1>5. TokenTypeOK'
    BY <1>1, <1>3 DEF TokensInv, TokenTypeOK
  <1>6. asked /\ Loaded' = Loaded
    BY <1>1, Busy DEF Loaded, FindsStored
  <1>7. QED
    BY <1>1, <1>4, <1>5, <1>6 DEF TokensInv, TokenSurvives

LEMMA TokenCrashInv == TokensInv /\ TokenCrash => TokensInv'
  <1> SUFFICES ASSUME TokensInv, TokenCrash PROVE TokensInv'
    OBVIOUS
  <1>1. /\ token' = 0 /\ client' = EnvAccess /\ asked' = FALSE
        /\ calls' = [c \in Call |-> Idle] /\ UNCHANGED <<live, stored>>
        /\ lost' = (lost \/ \E c \in Call : calls[c].at = "granted" /\ calls[c].used = live)
    BY DEF TokenCrash
  <1>2. /\ live \in Nat /\ EnvAccess \in BOOLEAN /\ lost' \in BOOLEAN
        /\ 0 \in Tokens /\ live \in Tokens /\ stored \in Tokens \cup {NoToken}
    BY <1>1, WaitsType, TokenAssumption DEF TokensInv, TokenTypeOK
  <1>3. calls' \in [Call -> Waits] /\ \A c \in Call : calls'[c] = Idle
    BY <1>1, WaitsType
  <1>4. TokenTypeOK'
    BY <1>1, <1>2, <1>3 DEF TokenTypeOK
  <1>5. Loaded' = IF stored = NoToken THEN 0 ELSE stored
    BY <1>1 DEF Loaded, FindsStored
  <1>6. Loaded' = Loaded
    BY <1>5 DEF TokensInv
  <1>7. TokenSurvives'
    BY <1>1, <1>6 DEF TokensInv, TokenSurvives
  <1>8. \A c \in Call : calls'[c].at # "granted" /\ calls'[c].used = 0
                        /\ calls'[c].at = "idle"
    BY <1>3, WaitsType
  <1>9. QED
    BY <1>1, <1>2, <1>4, <1>5, <1>7, <1>8 DEF TokensInv

LEMMA TokenInitInv == TokenInit => TokensInv
  <1> SUFFICES ASSUME TokenInit PROVE TokensInv
    OBVIOUS
  <1>1. calls \in [Call -> Waits] /\ \A c \in Call : calls[c] = Idle
    BY WaitsType DEF TokenInit
  <1>2. TokenTypeOK
    BY <1>1, WaitsType, TokenAssumption DEF TokenInit, TokenTypeOK
  <1>3. Loaded = 0 /\ TokenSurvives
    BY DEF TokenInit, Loaded, FindsStored, TokenSurvives
  <1>4. QED
    BY <1>1, <1>2, <1>3, WaitsType DEF TokenInit, TokensInv

LEMMA TokenNextInv == TokensInv /\ [TokenNext]_tokenVars => TokensInv'
  <1>1. TokensInv /\ UNCHANGED tokenVars => TokensInv'
    BY DEF tokenVars, TokensInv, TokenTypeOK, TokenSurvives, Loaded, FindsStored
  <1>2. QED
    BY <1>1, BeginCallInv, EndsInv, GrantedInv, RefreshedInv, AnswerLostInv,
       TokenCrashInv DEF TokenNext, Calling

LEMMA TokensAlways == TokenSpec => []TokensInv
  BY TokenInitInv, TokenNextInv, PTL DEF TokenSpec

\* Tokens, and what calls await, keep their types.
THEOREM TokenTypeCorrect == TokenSpec => []TokenTypeOK
  <1>1. TokensInv => TokenTypeOK
    BY DEF TokensInv
  <1>2. QED
    BY <1>1, TokensAlways, PTL

\* Whatever calls refresh at the same time, in whatever order their answers
\* come, and whenever the process stops, the good refresh token is lost only
\* with an answer that X has sent.
THEOREM GoodTokenSurvives == TokenSpec => []TokenSurvives
  <1>1. TokensInv => TokenSurvives
    BY DEF TokensInv
  <1>2. QED
    BY <1>1, TokensAlways, PTL

-----------------------------------------------------------------------------
(* Encryption at rest *)

Sealed(cache, s) == cache.marker = s /\ cache.rows \subseteq {s}

OneKey(cache) == \E s \in Secret : cache.marker \in {NoSecret, s} /\ cache.rows \subseteq {s}

\* A cache with a marker has rows of that secret only, and a start goes on only
\* with caches that are sealed with its key.
KeysInv ==
  /\ KeyTypeOK
  /\ OneKey(xcache) /\ OneKey(lcache)
  /\ stage # "down" => key \in Secret
  /\ stage \in {"xchat", "up"} => Sealed(xcache, key)
  /\ stage = "up" => Sealed(lcache, key)
  /\ lcache.marker = NoSecret => lcache.rows = {}

LEMMA SealedType ==
  ASSUME NEW cache \in Caches, NEW s \in Secret, Sealed(cache, s)
  PROVE  OneKey(cache)
  BY DEF Sealed, OneKey

LEMMA MarkedSealed ==
  ASSUME NEW cache \in Caches, OneKey(cache), cache.marker \in Secret
  PROVE  Sealed(cache, cache.marker)
  BY KeysAssumption DEF OneKey, Sealed

LEMMA KeyInitInv == KeyInit => KeysInv
  <1> SUFFICES ASSUME KeyInit PROVE KeysInv
    OBVIOUS
  <1>1. PICK R \in {{}} \cup {{s} : s \in Secret} : xcache = [marker |-> NoSecret, rows |-> R]
    BY DEF KeyInit
  <1>2. R \subseteq Secret /\ \E s \in Secret : R \subseteq {s}
    BY KeysAssumption
  <1>3. xcache \in Caches /\ OneKey(xcache)
    BY <1>1, <1>2 DEF Caches, OneKey
  <1>4. lcache \in Caches /\ OneKey(lcache) /\ lcache.rows = {}
    BY KeysAssumption DEF KeyInit, Caches, OneKey
  <1>5. QED
    BY <1>3, <1>4 DEF KeyInit, KeysInv, KeyTypeOK

LEMMA OpenXChatInv == KeysInv /\ OpenXChat => KeysInv'
  <1> SUFFICES ASSUME KeysInv, OpenXChat PROVE KeysInv'
    OBVIOUS
  <1>1. /\ stage = "boot" /\ key \in Secret /\ xcache \in Caches
        /\ UNCHANGED <<lcache, key, previous>>
    BY DEF OpenXChat, KeysInv, KeyTypeOK
  <1>2. CASE xcache' = [xcache EXCEPT !.marker = key] /\ stage' = "xchat" /\ Opens
    <2>1. xcache.rows \subseteq {key}
      BY <1>1, <1>2, MarkedSealed DEF Opens, KeysInv, Sealed
    <2>2. /\ xcache' \in Caches
          /\ xcache'.marker = key /\ xcache'.rows = xcache.rows
      BY <1>1, <1>2 DEF Caches
    <2>3. Sealed(xcache', key)
      BY <2>1, <2>2 DEF Sealed
    <2>4. OneKey(xcache')
      BY <1>1, <2>2, <2>3, SealedType
    <2>5. QED
      BY <1>1, <1>2, <2>2, <2>3, <2>4 DEF KeysInv, KeyTypeOK, Sealed, OneKey
  <1>3. CASE Rekey /\ stage' = "xchat"
    <2>1. xcache' = [marker |-> key, rows |-> IF xcache.rows = {} THEN {} ELSE {key}]
      BY <1>3 DEF Rekey
    <2>2. xcache' \in Caches /\ Sealed(xcache', key)
      BY <1>1, <2>1 DEF Caches, Sealed
    <2>3. OneKey(xcache')
      BY <1>1, <2>2, SealedType
    <2>4. QED
      BY <1>1, <1>3, <2>2, <2>3 DEF KeysInv, KeyTypeOK, Sealed, OneKey
  <1>4. CASE UNCHANGED xcache /\ stage' = "down"
    BY <1>1, <1>4 DEF KeysInv, KeyTypeOK, Sealed, OneKey
  <1>5. QED
    BY <1>2, <1>3, <1>4 DEF OpenXChat

LEMMA OpenLegacyInv == KeysInv /\ OpenLegacy => KeysInv'
  <1> SUFFICES ASSUME KeysInv, OpenLegacy PROVE KeysInv'
    OBVIOUS
  <1>1. /\ stage = "xchat" /\ key \in Secret /\ lcache \in Caches
        /\ Sealed(xcache, key) /\ UNCHANGED <<xcache, key, previous>>
        /\ stage' \in {"down", "up"}
    BY DEF OpenLegacy, KeysInv, KeyTypeOK
  <1>2. CASE /\ lcache.marker \in {NoSecret, key}
             /\ lcache' = [lcache EXCEPT !.marker = key]
    <2>1. lcache.rows \subseteq {key}
      BY <1>1, <1>2, MarkedSealed DEF KeysInv, Sealed
    <2>2. /\ lcache' \in Caches
          /\ lcache'.marker = key /\ lcache'.rows = lcache.rows
      BY <1>1, <1>2 DEF Caches
    <2>3. Sealed(lcache', key)
      BY <2>1, <2>2 DEF Sealed
    <2>4. OneKey(lcache') /\ key # NoSecret
      BY <1>1, <2>2, <2>3, SealedType, KeysAssumption
    <2>5. QED
      BY <1>1, <2>2, <2>3, <2>4 DEF KeysInv, KeyTypeOK, Sealed, OneKey
  <1>3. CASE UNCHANGED lcache /\ stage' = "down"
    BY <1>1, <1>3 DEF KeysInv, KeyTypeOK, Sealed, OneKey
  <1>4. QED
    BY <1>2, <1>3 DEF OpenLegacy

LEMMA SealInv == KeysInv /\ (SealXChat \/ SealLegacy) => KeysInv'
  <1> SUFFICES ASSUME KeysInv, SealXChat \/ SealLegacy PROVE KeysInv'
    OBVIOUS
  <1>1. /\ stage = "up" /\ key \in Secret /\ key # NoSecret
        /\ xcache \in Caches /\ Sealed(xcache, key)
        /\ lcache \in Caches /\ Sealed(lcache, key)
        /\ UNCHANGED <<stage, key, previous>>
    BY KeysAssumption DEF SealXChat, SealLegacy, KeysInv, KeyTypeOK
  <1>2. ASSUME NEW cache \in Caches, Sealed(cache, key),
               NEW next, next = [cache EXCEPT !.rows = @ \cup {key}]
        PROVE  next \in Caches /\ Sealed(next, key)
    BY <1>1, <1>2 DEF Caches, Sealed
  <1>3. xcache' \in Caches /\ Sealed(xcache', key)
    BY <1>1, <1>2 DEF SealXChat, SealLegacy
  <1>4. lcache' \in Caches /\ Sealed(lcache', key)
    BY <1>1, <1>2 DEF SealXChat, SealLegacy
  <1>5. OneKey(xcache') /\ OneKey(lcache')
    BY <1>1, <1>3, <1>4, SealedType
  <1>6. QED
    BY <1>1, <1>3, <1>4, <1>5 DEF KeysInv, KeyTypeOK, Sealed, OneKey

LEMMA KeyNextInv == KeysInv /\ [KeyNext]_keyVars => KeysInv'
  <1> SUFFICES ASSUME KeysInv, [KeyNext]_keyVars PROVE KeysInv'
    OBVIOUS
  <1>1. CASE Starting
    BY <1>1 DEF Starting, Boot, KeysInv, KeyTypeOK, OneKey
  <1>2. CASE KeyExit
    BY <1>2 DEF KeyExit, KeysInv, KeyTypeOK, OneKey
  <1>3. CASE UNCHANGED keyVars
    BY <1>3 DEF keyVars, KeysInv, KeyTypeOK, OneKey, Sealed
  <1>4. QED
    BY <1>1, <1>2, <1>3, OpenXChatInv, OpenLegacyInv, SealInv DEF KeyNext

LEMMA KeysAlways == KeySpec => []KeysInv
  BY KeyInitInv, KeyNextInv, PTL DEF KeySpec

LEMMA KeysSafe == KeysInv => KeyTypeOK /\ StartedOpensRows /\ OneSecret
  BY DEF KeysInv, StartedOpensRows, OneSecret, Sealed, OneKey

-----------------------------------------------------------------------------
(* The process *)

LEMMA ServerStep ==
  [ServerNext]_serverVars =>
    [StoreNext]_storeVars /\ [TokenNext]_tokenVars /\ [KeyNext]_keyVars
  <1> SUFFICES ASSUME [ServerNext]_serverVars
               PROVE  [StoreNext]_storeVars /\ [TokenNext]_tokenVars /\ [KeyNext]_keyVars
    OBVIOUS
  <1>1. CASE Spawn
    BY <1>1 DEF Spawn, KeyNext
  <1>2. CASE LoadState
    BY <1>2 DEF LoadState, StoreNext
  <1>3. CASE OpenCaches
    BY <1>3 DEF OpenCaches, Opening, StoreNext, TokenNext, KeyNext
  <1>4. CASE ServeState
    BY <1>4 DEF ServeState, StoreNext
  <1>5. CASE WriteState
    BY <1>5 DEF WriteState, StoreNext
  <1>6. CASE CallApi
    BY <1>6 DEF CallApi, TokenNext
  <1>7. CASE RotateTokens
    BY <1>7 DEF RotateTokens, TokenNext, KeyNext
  <1>8. CASE WriteRows
    BY <1>8 DEF WriteRows, KeyNext
  <1>9. CASE Die
    BY <1>9 DEF Die, StoreNext, TokenNext, KeyNext
  <1>10. CASE UNCHANGED serverVars
    BY <1>10 DEF serverVars
  <1>11. QED
    BY <1>1, <1>2, <1>3, <1>4, <1>5, <1>6, <1>7, <1>8, <1>9, <1>10 DEF ServerNext

\* Handlers, workers, starts and exits, as the server arranges them, do to the
\* store, the tokens and the caches nothing that these do not do alone.
THEOREM ServerImplementsParts == ServerSpec => StoreSpec /\ TokenSpec /\ KeySpec
  <1>1. ServerInit => StoreInit /\ TokenInit /\ KeyInit
    BY DEF ServerInit
  <1>2. QED
    BY <1>1, ServerStep, PTL DEF ServerSpec, StoreSpec, TokenSpec, KeySpec

\* The state of the whole process keeps its types.
THEOREM ServerTypeCorrect == ServerSpec => []ServerTypeOK
  <1>1. StoreInv /\ TokensInv /\ KeysInv => ServerTypeOK
    BY DEF StoreInv, TokensInv, KeysInv, ServerTypeOK
  <1>2. QED
    BY <1>1, ServerImplementsParts, StoreAlways, TokensAlways, KeysAlways, PTL

\* Whichever secrets the processes of a server's life were started with, the
\* one that is up opens every row of both caches.
THEOREM StartedAlwaysOpensRows == ServerSpec => []StartedOpensRows
  BY KeysSafe, ServerImplementsParts, KeysAlways, PTL

\* No start, crash or write ever leaves a cache under two secrets.
THEOREM AlwaysOneSecret == ServerSpec => []OneSecret
  BY KeysSafe, ServerImplementsParts, KeysAlways, PTL

\* The state store of the process is the durable register, and so keeps what
\* it has acknowledged.
THEOREM ServerKeepsAcknowledged == ServerSpec => []AckedIsDurable /\ StoreIsRegister
  BY ServerImplementsParts, AckedStaysDurable, StoreImplementsRegister, PTL

\* Crashes of the process, failed starts among them, do not lose the good
\* refresh token.
THEOREM ServerKeepsToken == ServerSpec => []TokenSurvives
  BY ServerImplementsParts, GoodTokenSurvives, PTL
=============================================================================
