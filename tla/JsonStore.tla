----------------------------- MODULE JsonStore ------------------------------
(***************************************************************************)
(* The JSON state store behind the /state routes (src/store.js): an object *)
(* in memory that handlers change at once, and a queue of writes that make *)
(* the file follow.  A write serialises the object when its turn comes,    *)
(* not when it was asked for, into a temporary file that is then renamed.  *)
(*                                                                         *)
(* The object is known by the number of changes that led to it and by the  *)
(* keys it has; values are not told apart.                                 *)
(***************************************************************************)
EXTENDS Integers, Sequences

CONSTANTS
  Key,          \* keys of the store, by (namespace, key)
  Client,       \* handlers of PUT and DELETE
  MaxWrites     \* bound on the number of changes

ASSUME StoreAssumption == MaxWrites \in Nat

VARIABLES
  memory,       \* #state: the number of changes so far, and the keys present
  file,         \* the state file
  loaded,       \* load() has returned in this process
  queue,        \* #writeQueue: the writes to come, with the change each is for
  temp,         \* what the write at the head has serialised
  step,         \* the await the write at the head is at
  broken,       \* #writeQueue is a rejected promise
  answer,       \* what each client has been told
  acked         \* newest change whose client was told that it is stored

storeVars == <<memory, file, loaded, queue, temp, step, broken, answer, acked>>

Objects == [at : 0..MaxWrites, keys : SUBSET Key]
Empty == [at |-> 0, keys |-> {}]

StoreTypeOK ==
  /\ memory \in Objects /\ file \in Objects /\ temp \in Objects
  /\ loaded \in BOOLEAN /\ broken \in BOOLEAN
  /\ queue \in Seq([client : Client, at : 1..MaxWrites])
  /\ step \in {"idle", "dir", "write"}
  /\ answer \in [Client -> {"none", "waiting", "stored", "absent", "error"}]
  /\ acked \in 0..MaxWrites

StoreInit ==
  /\ memory = Empty /\ loaded = FALSE /\ queue = <<>> /\ temp = Empty
  /\ step = "idle" /\ broken = FALSE /\ answer = [c \in Client |-> "none"]
  /\ file = Empty /\ acked = 0

-----------------------------------------------------------------------------
\* load(): the file, or an empty object where there is none.  The file is
\* never found torn: it is only ever replaced.
Load ==
  /\ ~loaded /\ loaded' = TRUE
  /\ memory' = file
  /\ UNCHANGED <<file, queue, temp, step, broken, answer, acked>>

\* #persist(): a write joins the queue; behind a failed write it is rejected
\* at once, and memory keeps the change.
Persist(c) ==
  \/ /\ ~broken
     /\ queue' = Append(queue, [client |-> c, at |-> memory.at + 1])
     /\ step' = IF step = "idle" THEN "dir" ELSE step
     /\ answer' = [answer EXCEPT ![c] = "waiting"]
  \/ /\ broken
     /\ answer' = [answer EXCEPT ![c] = "error"]
     /\ UNCHANGED <<queue, step>>

Change(c, keys) ==
  /\ memory.at < MaxWrites
  /\ memory' = [at |-> memory.at + 1, keys |-> keys]
  /\ Persist(c)
  /\ UNCHANGED <<file, loaded, temp, broken, acked>>

Set(c, k) ==
  /\ loaded /\ answer[c] # "waiting"
  /\ Change(c, memory.keys \cup {k})

\* A key that is not in memory is answered with 404, whatever the file has.
Delete(c, k) ==
  /\ loaded /\ answer[c] # "waiting"
  /\ \/ /\ k \notin memory.keys
        /\ answer' = [answer EXCEPT ![c] = "absent"]
        /\ UNCHANGED <<memory, file, loaded, queue, temp, step, broken, acked>>
     \/ k \in memory.keys /\ Change(c, memory.keys \ {k})

\* The directory is there: the object as it is now is serialised.
Serialise ==
  /\ step = "dir"
  /\ step' = "write" /\ temp' = memory
  /\ UNCHANGED <<memory, file, loaded, queue, broken, answer, acked>>

\* Mutant: a write that is done answers everybody who waits.
RenameForAll ==
  /\ step = "write"
  /\ file' = temp /\ queue' = <<>> /\ step' = "idle"
  /\ answer' = [c \in Client |-> IF answer[c] = "waiting" THEN "stored" ELSE answer[c]]
  /\ acked' = queue[Len(queue)].at
  /\ UNCHANGED <<memory, loaded, temp, broken>>

\* The temporary file is written and renamed: the write at the head is done.
Rename ==
  /\ step = "write"
  /\ file' = temp
  /\ queue' = Tail(queue)
  /\ step' = IF Len(queue) = 1 THEN "idle" ELSE "dir"
  /\ answer' = [answer EXCEPT ![Head(queue).client] = "stored"]
  /\ acked' = Head(queue).at
  /\ UNCHANGED <<memory, loaded, temp, broken>>

\* Mutants: only the write that failed is answered; the file is written in
\* place.
WriteFailsAlone ==
  /\ step # "idle"
  /\ step' = "idle" /\ queue' = <<>> /\ broken' = TRUE
  /\ answer' = [answer EXCEPT ![Head(queue).client] = "error"]
  /\ UNCHANGED <<memory, file, loaded, temp, acked>>

WriteFailsInPlace ==
  /\ step # "idle"
  /\ step' = "idle" /\ queue' = <<>> /\ broken' = TRUE
  /\ file' = IF step = "write" THEN Empty ELSE file
  /\ answer' = [c \in Client |-> IF answer[c] = "waiting" THEN "error" ELSE answer[c]]
  /\ UNCHANGED <<memory, loaded, temp, acked>>

\* mkdir, writeFile or rename failed: the promise that every later write is
\* chained to is rejected, and all of them with it.
WriteFails ==
  /\ step # "idle"
  /\ step' = "idle" /\ queue' = <<>> /\ broken' = TRUE
  /\ answer' = [c \in Client |-> IF answer[c] = "waiting" THEN "error" ELSE answer[c]]
  /\ UNCHANGED <<memory, file, loaded, temp, acked>>

StoreCrash ==
  /\ memory' = Empty /\ loaded' = FALSE /\ queue' = <<>> /\ temp' = Empty
  /\ step' = "idle" /\ broken' = FALSE /\ answer' = [c \in Client |-> "none"]
  /\ UNCHANGED <<file, acked>>

-----------------------------------------------------------------------------
Changes == \E c \in Client, k \in Key : Set(c, k) \/ Delete(c, k)

Writing == Serialise \/ Rename \/ WriteFails

StoreNext == Load \/ Changes \/ Writing \/ StoreCrash

StoreSpec == StoreInit /\ [][StoreNext]_storeVars

\* A PUT or DELETE that was answered with success survives every crash: the
\* file has its change, or one that came later.
AckedIsDurable == acked <= file.at

\* The file only moves forward, to versions that memory had as a whole.
Register == INSTANCE DurableRegister
  WITH latest <- IF loaded THEN memory.at ELSE file.at, saved <- file.at

StoreIsRegister == Register!RegisterSpec

\* Every handler gets an answer, those whose write was queued behind a failed
\* one included.
Answered == \A c \in Client : answer[c] = "waiting" ~> answer[c] # "waiting"
=============================================================================
