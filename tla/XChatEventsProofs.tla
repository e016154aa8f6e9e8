------------------------- MODULE XChatEventsProofs --------------------------
(***************************************************************************)
(* Proofs about XChatEvents, for any sets of events, keys, conversations   *)
(* and limits, any batch size and any number of attempts.                  *)
(***************************************************************************)
EXTENDS XChatEvents, FiniteSetTheorems, TLAPS

(* The inductive invariant.  Type correctness alone is not inductive: that  *)
(* attempts stay in range needs every row a drain holds to be eligible.     *)
CallInv == pc \in {"row", "refresh", "again"} => current \in batch

DrainInv == DrainOK /\ HandIsOpen /\ CallInv

TableInv == RowsOK /\ messages \subseteq Message /\ CommittedTogether

Inv == TableInv /\ DeliveriesOK /\ KeysOK /\ DrainInv

-----------------------------------------------------------------------------
(* Selecting work *)

LEMMA OldestSub ==
  ASSUME NEW S, NEW n, NEW T \in Oldest(S, n)
  PROVE  T \subseteq S
  BY DEF Oldest

LEMMA BatchesSub ==
  ASSUME NEW S, NEW b \in Batches(S)
  PROVE  b \subseteq S
  <1>1. PICK c \in {conversation[e] : e \in S} :
          b \in Oldest({e \in S : conversation[e] = c}, BatchSize)
    BY DEF Batches
  <1>2. b \subseteq {e \in S : conversation[e] = c}
    BY <1>1, OldestSub
  <1>3. QED
    BY <1>2

LEMMA CappedType ==
  ASSUME NEW n \in Nat, NEW S \in SUBSET Event
  PROVE  Capped(n + Cardinality(S)) \in 0..FullDrain
  <1>1. Cardinality(S) \in Nat
    BY EventsAssumption, FS_Subset, FS_CardinalityType
  <1>2. QED
    BY <1>1, EventsAssumption DEF Capped

\* The drain's part of the invariant after it stopped.
LEMMA FinishInv ==
  ASSUME DrainOK, NEW r \in {"resolved", "rejected"}, Finish(r),
         requested' \in BOOLEAN, selected' \in 0..FullDrain
  PROVE  DrainInv'
  BY EventsAssumption
     DEF Finish, ClearCall, DrainInv, DrainOK, HandIsOpen, InHand, CallInv, Steps

\* ... and after it took the next batch of S.
LEMMA TakeInv ==
  ASSUME NEW S \in SUBSET Event, S \subseteq Eligible', Take(S),
         requested' \in BOOLEAN, selected' \in 0..FullDrain,
         limit' \in Limits \cup {0}, outcome' \in {"none", "resolved", "rejected"}
  PROVE  DrainInv'
  <1>1. PICK b \in Batches(S) : batch' = b /\ todo' = S \ b
    BY DEF Take
  <1>2. b \subseteq S
    BY BatchesSub
  <1>3. QED
    BY <1>1, <1>2
       DEF Take, ClearCall, DrainInv, DrainOK, HandIsOpen, InHand, CallInv, Steps

LEMMA SelectInv ==
  ASSUME DrainOK, NEW n \in Limits \cup {0}, NEW found \in Nat,
         Select(n, found)
  PROVE  DrainInv'
  <1>1. PICK S \in Oldest(Eligible', n) :
          /\ requested' = FALSE
          /\ selected' = Capped(found + Cardinality(S))
          /\ \/ S = {} /\ Finish("resolved")
             \/ S # {} /\ limit' = n /\ Take(S) /\ outcome' = "none"
    BY DEF Select
  <1>2. S \subseteq Eligible'
    BY OldestSub
  <1>3. S \in SUBSET Event
    BY <1>2 DEF Eligible
  <1>4. selected' \in 0..FullDrain
    BY <1>1, <1>3, CappedType
  <1>5. CASE Finish("resolved")
    BY <1>1, <1>4, <1>5, FinishInv
  <1>6. CASE limit' = n /\ Take(S) /\ outcome' = "none"
    BY <1>1, <1>2, <1>3, <1>4, <1>6, TakeInv
  <1>7. QED
    BY <1>1, <1>5, <1>6

\* Going on is safe when the rows still in hand are still eligible.
LEMMA ContinueInv ==
  ASSUME DrainOK, NEW rest \in SUBSET Event, rest \cap todo = {},
         rest \cup todo \subseteq Eligible', Continue(rest)
  PROVE  DrainInv'
  <1>1. CASE /\ rest # {}
             /\ batch' = rest /\ pc' = "turn" /\ ClearCall
             /\ UNCHANGED <<requested, limit, todo, isolated, selected, outcome>>
    BY <1>1 DEF ClearCall, DrainInv, DrainOK, HandIsOpen, InHand, CallInv, Steps
  <1>2. CASE Take(todo) /\ UNCHANGED <<requested, limit, selected, outcome>>
    BY <1>2, TakeInv DEF DrainOK
  <1>3. CASE Select(limit, selected)
    BY <1>3, SelectInv DEF DrainOK
  <1>4. CASE Finish("resolved") /\ UNCHANGED <<requested, selected>>
    BY <1>4, FinishInv DEF DrainOK
  <1>5. QED
    BY <1>1, <1>2, <1>3, <1>4 DEF Continue

-----------------------------------------------------------------------------
(* The three ways a row changes *)

LEMMA CarriedUnion ==
  ASSUME NEW P, NEW Q
  PROVE  Carried(P \cup Q) = Carried(P) \cup Carried(Q)
  BY DEF Carried

LEMMA CarriedType ==
  ASSUME NEW P \in SUBSET Event
  PROVE  Carried(P) \subseteq Message
  BY EventsAssumption DEF Carried

\* Settling rows in hand keeps the tables in step and disturbs no other row.
LEMMA SettleInv ==
  ASSUME TableInv, NEW P, NEW F, NEW M, Carried(M) = Carried(P),
         P \cup F \subseteq Eligible, Settle(P, F, M)
  PROVE  /\ TableInv'
         /\ Eligible \ (P \cup F) \subseteq Eligible'
  <1>1. P \subseteq Event /\ F \subseteq Event
    BY DEF Eligible
  <1>2. \A e \in P \cup F : attempts[e] + 1 \in 0..MaxAttempts
    BY EventsAssumption DEF TableInv, RowsOK, Eligible
  <1>3. RowsOK'
    BY <1>2 DEF Settle, TableInv, RowsOK, Status
  <1>4. Processed' = Processed \cup P
    BY <1>1 DEF Settle, Processed, TableInv, RowsOK, Eligible, Status
  <1>5. CommittedTogether' /\ messages' \subseteq Message
    BY <1>1, <1>4, CarriedUnion, CarriedType DEF Settle, CommittedTogether, TableInv
  <1>6. Eligible \ (P \cup F) \subseteq Eligible'
    BY <1>1 DEF Settle, Eligible
  <1>7. QED
    BY <1>3, <1>5, <1>6 DEF TableInv

\* Pending new and failed rows touches no processed row, and keeps every
\* eligible row eligible.
LEMMA PendInv ==
  ASSUME TableInv, NEW E \in SUBSET Event, E \cap Processed = {}, Pend(E),
         UNCHANGED messages
  PROVE  /\ TableInv'
         /\ Eligible \subseteq Eligible'
  <1>1. RowsOK'
    BY EventsAssumption DEF Pend, TableInv, RowsOK, Status
  <1>2. Processed' = Processed
    BY DEF Pend, Processed, TableInv, RowsOK
  <1>3. CommittedTogether' /\ messages' \subseteq Message
    BY <1>2 DEF CommittedTogether, TableInv
  <1>4. Eligible \subseteq Eligible'
    BY EventsAssumption DEF Pend, Eligible, TableInv, RowsOK
  <1>5. QED
    BY <1>1, <1>3, <1>4 DEF TableInv

LEMMA GiveUpInv ==
  ASSUME TableInv, NEW E \in SUBSET Eligible, GiveUp(E), UNCHANGED messages
  PROVE  TableInv'
  <1>1. RowsOK'
    BY EventsAssumption DEF GiveUp, TableInv, RowsOK, Status
  <1>2. Processed' = Processed
    BY DEF GiveUp, Processed, TableInv, RowsOK, Eligible
  <1>3. QED
    BY <1>1, <1>2 DEF CommittedTogether, TableInv

-----------------------------------------------------------------------------
(* The writers *)

LEMMA WriterKeepsHand ==
  ASSUME DrainInv, UNCHANGED drainVars, Eligible \subseteq Eligible'
  PROVE  DrainInv'
  BY DEF DrainInv, drainVars, workVars, callVars, DrainOK, HandIsOpen, InHand,
         CallInv

LEMMA FailedOrNew ==
  ASSUME RowsOK, NEW E \in SUBSET Event
  PROVE  /\ NewRows(E) \in SUBSET Event /\ NewRows(E) \cap Processed = {}
         /\ Failed \in SUBSET Event /\ Failed \cap Processed = {}
  BY DEF NewRows, Failed, Processed, RowsOK

LEMMA UpsertType ==
  ASSUME KeysOK, NEW ks \in KeyLists
  PROVE  Upsert(ks) \subseteq SigningKey
  BY DEF Upsert, KeyLists, KeysOK

LEMMA DeliverInv ==
  ASSUME DeliveriesOK, KeysOK, NEW c \in Conversation,
         NEW E \in SUBSET Event, NEW K \in SUBSET KeyEvent,
         NEW src \in {"webhook", "backfill"}, Deliver(c, E, K, src)
  PROVE  /\ DeliveriesOK'
         /\ conversations' \subseteq Conversation
  <1>1. clock + 1 \in Nat
    BY DEF DeliveriesOK
  <1>2. QED
    BY <1>1 DEF Deliver, DeliveriesOK, KeysOK

LEMMA WebhookInv ==
  ASSUME Inv, NEW c \in Conversation,
         NEW E \in SUBSET Event, NEW K \in SUBSET KeyEvent,
         AcceptWebhook(c, E, K)
  PROVE  Inv'
  <1>1. TableInv' /\ Eligible \subseteq Eligible'
    BY FailedOrNew, PendInv DEF AcceptWebhook, Inv, TableInv
  <1>2. DrainInv'
    BY <1>1, WriterKeepsHand DEF AcceptWebhook, Inv
  <1>3. DeliveriesOK' /\ KeysOK'
    BY DeliverInv DEF AcceptWebhook, Inv, KeysOK
  <1>4. QED
    BY <1>1, <1>2, <1>3 DEF Inv

LEMMA BackfillInv ==
  ASSUME Inv, NEW c \in Conversation,
         NEW E \in SUBSET Event, NEW K \in SUBSET KeyEvent,
         NEW ks \in KeyLists, NEW identity \in BOOLEAN,
         IngestBackfill(c, E, K, ks, identity)
  PROVE  Inv'
  <1> DEFINE R == NewRows(E) \cup IF identity THEN Failed ELSE Unlocked(ks)
  <1>1. R \in SUBSET Event /\ R \cap Processed = {}
    BY FailedOrNew DEF Unlocked, Inv, TableInv
  <1>2. Pend(R) /\ UNCHANGED messages
    BY DEF IngestBackfill
  <1>3. TableInv' /\ Eligible \subseteq Eligible'
    BY <1>1, <1>2, PendInv DEF Inv
  <1>4. DrainInv'
    BY <1>3, WriterKeepsHand DEF IngestBackfill, Inv
  <1>5. DeliveriesOK' /\ KeysOK'
    BY DeliverInv, UpsertType DEF IngestBackfill, Inv, KeysOK
  <1>6. QED
    BY <1>3, <1>4, <1>5 DEF Inv

LEMMA KeysInv ==
  ASSUME Inv, NEW ks \in KeyLists, AddSigningKeys(ks)
  PROVE  Inv'
  <1>1. Unlocked(ks) \in SUBSET Event /\ Unlocked(ks) \cap Processed = {}
    BY FailedOrNew DEF Unlocked, Inv, TableInv
  <1>2. TableInv' /\ Eligible \subseteq Eligible'
    BY <1>1, PendInv DEF AddSigningKeys, Inv
  <1>3. DrainInv'
    BY <1>2, WriterKeepsHand DEF AddSigningKeys, Inv
  <1>4. DeliveriesOK' /\ KeysOK'
    BY UpsertType DEF AddSigningKeys, Inv, KeysOK, DeliveriesOK, deliverVars
  <1>5. QED
    BY <1>2, <1>3, <1>4 DEF Inv

LEMMA ConfigureInv ==
  ASSUME Inv, NEW ks \in KeyLists, NEW C \in SUBSET Conversation,
         Configure(ks, C)
  PROVE  Inv'
  <1>1. Failed \in SUBSET Event /\ Failed \cap Processed = {}
    BY FailedOrNew DEF Inv, TableInv
  <1>2. TableInv' /\ Eligible \subseteq Eligible'
    BY <1>1, PendInv DEF Configure, Inv
  <1>3. DrainInv'
    BY <1>2, WriterKeepsHand DEF Configure, Inv
  <1>4. DeliveriesOK' /\ KeysOK'
    BY UpsertType DEF Configure, Inv, KeysOK, DeliveriesOK, deliverVars
  <1>5. QED
    BY <1>2, <1>3, <1>4 DEF Inv

LEMMA ReopenInv ==
  ASSUME Inv, Reopen
  PROVE  Inv'
  <1>1. TableInv'
    BY DEF Reopen, Inv, TableInv, RowsOK, rowVars, CommittedTogether, Processed,
           Carried
  <1>2. DeliveriesOK'
    BY EventsAssumption DEF Reopen, Inv, DeliveriesOK, Moved, keyVars, KeysOK
  <1>3. KeysOK'
    BY DEF Reopen, Inv, KeysOK, keyVars
  <1>4. DrainInv'
    <2>1. 0 \in 0..FullDrain
      BY EventsAssumption
    <2>2. DrainOK'
      BY <2>1 DEF Reopen, ClearCall, DrainOK, Steps
    <2>3. HandIsOpen' /\ CallInv'
      BY DEF Reopen, ClearCall, HandIsOpen, InHand, CallInv
    <2>4. QED
      BY <2>2, <2>3 DEF DrainInv
  <1>5. QED
    BY <1>1, <1>2, <1>3, <1>4 DEF Inv

-----------------------------------------------------------------------------
(* The drain *)

LEMMA TablesKept ==
  ASSUME DeliveriesOK, KeysOK, UNCHANGED tables
  PROVE  DeliveriesOK' /\ KeysOK'
  BY DEF tables, deliverVars, keyVars, DeliveriesOK, KeysOK

LEMMA RowsKept ==
  ASSUME TableInv, UNCHANGED <<rowVars, messages>>
  PROVE  TableInv' /\ Eligible' = Eligible
  BY DEF TableInv, RowsOK, rowVars, CommittedTogether, Processed, Carried, Eligible

LEMMA ProcessPendingInv ==
  ASSUME Inv, NEW n \in Limits, ProcessPending(n)
  PROVE  Inv'
  <1>1. CASE /\ pc # "idle"
             /\ requested' = TRUE
             /\ UNCHANGED <<rowVars, tables, messages, pc, workVars, callVars,
                            outcome>>
    <2>1. TableInv' /\ Eligible' = Eligible
      BY <1>1, RowsKept DEF Inv
    <2>2. DeliveriesOK' /\ KeysOK'
      BY <1>1, TablesKept DEF Inv
    <2>3. DrainInv'
      BY <1>1, <2>1 DEF Inv, DrainInv, DrainOK, HandIsOpen, InHand, CallInv,
                        workVars, callVars
    <2>4. QED
      BY <2>1, <2>2, <2>3 DEF Inv
  <1>2. CASE /\ pc = "idle"
             /\ GiveUp(MissingKey)
             /\ Select(n, Cardinality(MissingKey))
             /\ UNCHANGED <<tables, messages>>
    <2>1. MissingKey \subseteq Eligible /\ MissingKey \in SUBSET Event
      BY DEF MissingKey, Eligible
    <2>2. TableInv'
      BY <1>2, <2>1, GiveUpInv DEF Inv
    <2>3. DeliveriesOK' /\ KeysOK'
      BY <1>2, TablesKept DEF Inv
    <2>4. Cardinality(MissingKey) \in Nat
      BY <2>1, EventsAssumption, FS_Subset, FS_CardinalityType
    <2>5. DrainInv'
      BY <1>2, <2>4, SelectInv DEF Inv, DrainInv
    <2>6. QED
      BY <2>2, <2>3, <2>5 DEF Inv
  <1>3. QED
    BY <1>1, <1>2 DEF ProcessPending

\* The rest of the batch, once row e is settled.
LEMMA RowSettled ==
  ASSUME Inv, NEW e \in batch, NEW P, NEW F, NEW M, P \cup F = {e},
         Carried(M) = Carried(P), Settle(P, F, M), Continue(batch \ {e})
  PROVE  TableInv' /\ DrainInv'
  <1>1. P \cup F \subseteq Eligible
    BY DEF Inv, DrainInv, HandIsOpen, InHand
  <1>2. TableInv' /\ Eligible \ {e} \subseteq Eligible'
    BY <1>1, SettleInv DEF Inv
  <1>3. (batch \ {e}) \cup todo \subseteq Eligible'
    BY <1>2 DEF Inv, DrainInv, HandIsOpen, InHand
  <1>4. (batch \ {e}) \in SUBSET Event /\ (batch \ {e}) \cap todo = {}
    BY DEF Inv, DrainInv, DrainOK, HandIsOpen
  <1>5. DrainInv'
    BY <1>3, <1>4, ContinueInv DEF Inv, DrainInv
  <1>6. QED
    BY <1>2, <1>5

LEMMA AbortInv ==
  ASSUME Inv, Abort
  PROVE  TableInv' /\ DrainInv'
  <1>1. TableInv'
    BY RowsKept DEF Abort, Inv
  <1>2. 0 \in 0..FullDrain
    BY EventsAssumption
  <1>3. DrainInv'
    BY <1>2, FinishInv DEF Abort, Inv, DrainInv, DrainOK
  <1>4. QED
    BY <1>1, <1>3

LEMMA RowFailsInv ==
  ASSUME Inv, NEW e \in batch, NEW kind, RowFails(e, kind)
  PROVE  TableInv' /\ DrainInv'
  BY RowSettled, AbortInv DEF RowFails

\* Where no row is unverified, the outputs carry the messages of all rows.
LEMMA VerifiedOutputs ==
  ASSUME NEW E, NEW noise \in BOOLEAN, NEW blind \in BOOLEAN
  PROVE  Carried(Outputs(E) \ Unverified(E, noise, blind))
           = Carried(E \ Unverified(E, noise, blind))
  <1>1. CASE Errors(E, noise)
    <2>1. Outputs(E) \subseteq E
      BY DEF Outputs
    <2>2. Outputs(E) \ Unverified(E, noise, blind) = E \ Unverified(E, noise, blind)
      BY <1>1, <2>1 DEF Unverified
    <2>3. QED
      BY <2>2
  <1>2. CASE ~Errors(E, noise)
    <2>1. Outputs(E) = {e \in E : MessageOf[e] # None}
      BY <1>2 DEF Outputs, Errors
    <2>2. QED
      BY <1>2, <2>1 DEF Unverified, Carried
  <1>3. QED
    BY <1>1, <1>2

LEMMA VerifiedRow ==
  ASSUME NEW e, NEW noise \in BOOLEAN, NEW blind \in BOOLEAN,
         Unverified({e}, noise, blind) = {}
  PROVE  Carried(Outputs({e})) = Carried({e})
  <1> DEFINE U == Unverified({e}, noise, blind)
  <1>1. Carried(Outputs({e}) \ U) = Carried({e} \ U)
    BY VerifiedOutputs
  <1>2. U = {}
    OBVIOUS
  <1> HIDE DEF U
  <1>3. Outputs({e}) \ U = Outputs({e}) /\ {e} \ U = {e}
    BY <1>2
  <1>4. QED
    BY <1>1, <1>3

LEMMA AcceptResultInv ==
  ASSUME Inv, NEW e \in batch, NEW noise \in BOOLEAN, NEW blind \in BOOLEAN,
         Unverified({e}, noise, blind) = {}, AcceptResult(e, blind)
  PROVE  TableInv' /\ DrainInv'
  <1>1. CASE RowFails(e, "other")
    BY <1>1, RowFailsInv
  <1>2. CASE RowSucceeds(e)
    BY <1>2, VerifiedRow, RowSettled DEF RowSucceeds
  <1>3. QED
    BY <1>1, <1>2 DEF AcceptResult

LEMMA FlagsAreBoolean ==
  /\ \A noise \in Noise : noise \in BOOLEAN
  /\ \A blind \in Flag("blind") : blind \in BOOLEAN
  BY DEF Noise, Flag

LEMMA SnapshotType ==
  ASSUME KeysOK, NEW c, Snapshot(c)
  PROVE  /\ callKeys' \subseteq SigningKey /\ callKeyEvents' \subseteq KeyEvent
         /\ cause' = "none"
  BY DEF Snapshot, KeyEventsOf, KeysOK

LEMMA BeginRowInv ==
  ASSUME Inv, NEW e \in batch, BeginRow(e)
  PROVE  TableInv' /\ DrainInv'
  <1>1. CASE ~CallPossible /\ RowFails(e, "other")
    BY <1>1, RowFailsInv
  <1>2. CASE /\ CallPossible
             /\ pc' = "row" /\ current' = e
             /\ Snapshot(conversation[e])
             /\ KeepDrain
             /\ UNCHANGED <<rowVars, messages>>
    <2>1. TableInv' /\ Eligible' = Eligible
      BY <1>2, RowsKept DEF Inv
    <2>2. DrainOK'
      BY <1>2, SnapshotType
         DEF Inv, DrainInv, DrainOK, KeepDrain, workVars, Steps
    <2>3. HandIsOpen' /\ CallInv'
      BY <1>2, <2>1
         DEF Inv, DrainInv, HandIsOpen, InHand, CallInv, KeepDrain, workVars
    <2>4. QED
      BY <2>1, <2>2, <2>3 DEF DrainInv
  <1>3. QED
    BY <1>1, <1>2 DEF BeginRow

LEMMA StartBatchInv ==
  ASSUME Inv, StartBatch
  PROVE  Inv'
  <1>1. DeliveriesOK' /\ KeysOK'
    BY TablesKept DEF StartBatch, Inv
  <1>2. CASE \E e \in batch : batch = {e} /\ BeginRow(e)
    BY <1>1, <1>2, BeginRowInv DEF Inv
  <1>3. CASE /\ Cardinality(batch) > 1 /\ CallPossible
             /\ pc' = "batch" /\ current' = None
             /\ \E e \in batch : Snapshot(conversation[e])
             /\ KeepDrain
             /\ UNCHANGED <<rowVars, messages>>
    <2>1. TableInv' /\ Eligible' = Eligible
      BY <1>3, RowsKept DEF Inv
    <2>2. DrainOK'
      BY <1>3, SnapshotType
         DEF Inv, DrainInv, DrainOK, KeepDrain, workVars, Steps
    <2>3. HandIsOpen' /\ CallInv'
      BY <1>3, <2>1
         DEF Inv, DrainInv, HandIsOpen, InHand, CallInv, KeepDrain, workVars
    <2>4. QED
      BY <1>1, <2>1, <2>2, <2>3 DEF Inv, DrainInv
  <1>4. CASE Abort
    BY <1>1, <1>4, AbortInv DEF Inv
  <1>5. QED
    BY <1>2, <1>3, <1>4 DEF StartBatch

LEMMA StartRowInv ==
  ASSUME Inv, StartRow
  PROVE  Inv'
  <1>1. PICK T \in Oldest(batch, 1) : \E e \in T : BeginRow(e)
    BY DEF StartRow
  <1>2. PICK e \in batch : BeginRow(e)
    BY <1>1, OldestSub
  <1>3. DeliveriesOK' /\ KeysOK'
    BY TablesKept DEF StartRow, Inv
  <1>4. QED
    BY <1>2, <1>3, BeginRowInv DEF Inv

LEMMA BatchReturnsInv ==
  ASSUME Inv, BatchReturns
  PROVE  Inv'
  <1>1. PICK noise \in Noise, blind \in Flag("blind") :
          LET F == Unverified(batch, noise, blind)
              unusable == \/ ~AllBackfilled /\ F # {}
                          \/ blind /\ Outputs(batch) # {}
          IN \/ /\ unusable
                /\ pc' = "turn" /\ isolated' = TRUE
                /\ ClearCall
                /\ UNCHANGED <<rowVars, messages, requested, limit, todo, batch,
                               selected, outcome>>
             \/ /\ ~unusable
                /\ Settle(batch \ F, F, Outputs(batch) \ F)
                /\ Continue({})
    BY DEF BatchReturns
  <1> DEFINE F == Unverified(batch, noise, blind)
  <1>2. F \subseteq batch
    BY DEF Unverified, Outputs
  <1>3. DeliveriesOK' /\ KeysOK'
    BY TablesKept DEF BatchReturns, Inv
  <1>4. CASE /\ pc' = "turn" /\ isolated' = TRUE
             /\ ClearCall
             /\ UNCHANGED <<rowVars, messages, requested, limit, todo, batch,
                            selected, outcome>>
    <2>1. TableInv' /\ Eligible' = Eligible
      BY <1>4, RowsKept DEF Inv
    <2>2. DrainInv'
      BY <1>4, <2>1 DEF Inv, DrainInv, DrainOK, HandIsOpen, InHand, CallInv,
                        ClearCall, Steps
    <2>3. QED
      BY <1>3, <2>1, <2>2 DEF Inv
  <1>5. CASE Settle(batch \ F, F, Outputs(batch) \ F) /\ Continue({})
    <2>1. (batch \ F) \cup F = batch /\ batch \subseteq Eligible
      BY <1>2 DEF Inv, DrainInv, HandIsOpen, InHand
    <2>2. TableInv' /\ Eligible \ batch \subseteq Eligible'
      <3>1. Carried(Outputs(batch) \ F) = Carried(batch \ F)
        BY VerifiedOutputs, FlagsAreBoolean
      <3>2. QED
        BY <1>5, <2>1, <3>1, SettleInv DEF Inv
    <2>3. {} \cup todo \subseteq Eligible'
      BY <2>2 DEF Inv, DrainInv, HandIsOpen, InHand
    <2>4. DrainInv'
      BY <1>5, <2>3, ContinueInv DEF Inv, DrainInv
    <2>5. QED
      BY <1>3, <2>2, <2>4 DEF Inv
  <1>6. QED
    BY <1>1, <1>4, <1>5

LEMMA FirstCallFailsInv ==
  ASSUME Inv, NEW e \in batch, NEW kind \in {"infra", "other"},
         pc = "row", FirstCallFails(e, kind)
  PROVE  TableInv' /\ DrainInv'
  <1>1. CASE AskForKeys(kind)
    <2>1. TableInv' /\ Eligible' = Eligible
      BY <1>1, RowsKept DEF AskForKeys, Inv
    <2>2. DrainInv'
      BY <1>1, <2>1 DEF AskForKeys, KeepDrain, workVars, Inv, DrainInv, DrainOK,
                        HandIsOpen, InHand, CallInv, Steps
    <2>3. QED
      BY <2>1, <2>2
  <1>2. CASE RowFails(e, kind)
    BY <1>2, RowFailsInv
  <1>3. QED
    BY <1>1, <1>2 DEF FirstCallFails

LEMMA KeysArriveInv ==
  ASSUME Inv, NEW ks \in KeyLists, KeysArrive(ks)
  PROVE  Inv'
  <1>1. current \in batch
    BY DEF KeysArrive, Inv, DrainInv, CallInv
  <1>2. CASE RowFails(current, cause) /\ UNCHANGED tables
    BY <1>1, <1>2, RowFailsInv, TablesKept DEF Inv
  <1>3. CASE /\ signingKeys' = Upsert(ks)
             /\ Pend(Unlocked(ks))
             /\ pc' = "again" /\ callKeys' = signingKeys' /\ cause' = "none"
             /\ KeepDrain
             /\ UNCHANGED <<deliverVars, conversations, configured, messages,
                            current, callKeyEvents>>
    <2>1. Unlocked(ks) \in SUBSET Event /\ Unlocked(ks) \cap Processed = {}
      BY FailedOrNew DEF Unlocked, Inv, TableInv
    <2>2. TableInv' /\ Eligible \subseteq Eligible'
      BY <1>3, <2>1, PendInv DEF Inv
    <2>3. DeliveriesOK' /\ KeysOK'
      BY <1>3, UpsertType DEF Inv, KeysOK, DeliveriesOK, deliverVars
    <2>4. DrainOK'
      BY <1>3, <2>3 DEF Inv, DrainInv, DrainOK, KeepDrain, workVars, Steps, KeysOK
    <2>5. HandIsOpen' /\ CallInv'
      BY <1>1, <1>3, <2>2
         DEF Inv, DrainInv, HandIsOpen, InHand, CallInv, KeepDrain, workVars
    <2>6. QED
      BY <2>2, <2>3, <2>4, <2>5 DEF Inv, DrainInv
  <1>4. QED
    BY <1>2, <1>3 DEF KeysArrive

LEMMA DrainStepInv ==
  ASSUME Inv, DrainStep
  PROVE  Inv'
  <1>1. CASE StartBatch
    BY <1>1, StartBatchInv
  <1>2. CASE StartRow
    BY <1>2, StartRowInv
  <1>3. CASE BatchReturns
    BY <1>3, BatchReturnsInv
  <1>4. CASE BatchThrows
    BY <1>4, AbortInv, TablesKept DEF BatchThrows, Inv
  <1>5. CASE RowReturns
    <2>1. current \in batch /\ pc = "row"
      BY <1>5 DEF RowReturns, Inv, DrainInv, CallInv
    <2>2. TableInv' /\ DrainInv'
      BY <1>5, <2>1, FirstCallFailsInv, AcceptResultInv, FlagsAreBoolean
         DEF RowReturns
    <2>3. QED
      BY <1>5, <2>2, TablesKept DEF RowReturns, Inv
  <1>6. CASE RowThrows
    <2>1. current \in batch /\ pc = "row"
      BY <1>6 DEF RowThrows, Inv, DrainInv, CallInv
    <2>2. TableInv' /\ DrainInv'
      BY <1>6, <2>1, FirstCallFailsInv DEF RowThrows, Kinds
    <2>3. QED
      BY <1>6, <2>2, TablesKept DEF RowThrows, Inv
  <1>7. CASE \E ks \in KeyLists : KeysArrive(ks)
    BY <1>7, KeysArriveInv
  <1>8. CASE ProviderThrows
    <2>1. current \in batch
      BY <1>8 DEF ProviderThrows, Inv, DrainInv, CallInv
    <2>2. QED
      BY <1>8, <2>1, RowFailsInv, TablesKept DEF ProviderThrows, Inv
  <1>9. CASE AgainReturns
    <2>1. current \in batch
      BY <1>9 DEF AgainReturns, Inv, DrainInv, CallInv
    <2>2. QED
      BY <1>9, <2>1, RowFailsInv, AcceptResultInv, FlagsAreBoolean,
         TablesKept
         DEF AgainReturns, Inv
  <1>10. CASE AgainThrows
    <2>1. current \in batch
      BY <1>10 DEF AgainThrows, Inv, DrainInv, CallInv
    <2>2. QED
      BY <1>10, <2>1, RowFailsInv, TablesKept DEF AgainThrows, Inv
  <1>11. QED
    BY <1>1, <1>2, <1>3, <1>4, <1>5, <1>6, <1>7, <1>8, <1>9, <1>10 DEF DrainStep

-----------------------------------------------------------------------------
LEMMA InitInv == Init => Inv
  <1> SUFFICES ASSUME Init PROVE Inv
    OBVIOUS
  <1>1. TableInv
    BY EventsAssumption DEF Init, TableInv, RowsOK, Status, CommittedTogether,
                            Processed, Carried
  <1>2. DeliveriesOK /\ KeysOK
    BY DEF Init, DeliveriesOK, KeysOK
  <1>3. 0 \in 0..FullDrain
    BY EventsAssumption
  <1>4. DrainInv
    BY <1>3 DEF Init, NothingInHand, DrainInv, DrainOK, HandIsOpen, InHand,
                CallInv, Steps
  <1>5. QED
    BY <1>1, <1>2, <1>4 DEF Inv

LEMMA StutterInv ==
  ASSUME Inv, UNCHANGED vars
  PROVE  Inv'
  <1>1. TableInv' /\ Eligible' = Eligible
    BY RowsKept DEF vars, Inv
  <1>2. DrainInv'
    BY <1>1, WriterKeepsHand DEF vars, Inv
  <1>3. DeliveriesOK' /\ KeysOK'
    BY TablesKept DEF vars, tables, Inv
  <1>4. QED
    BY <1>1, <1>2, <1>3 DEF Inv

LEMMA NextInv == Inv /\ [Next]_vars => Inv'
  <1> SUFFICES ASSUME Inv, [Next]_vars PROVE Inv'
    OBVIOUS
  <1>1. CASE Deliveries
    BY <1>1, WebhookInv, BackfillInv DEF Deliveries, About
  <1>2. CASE \E ks \in KeyLists : AddSigningKeys(ks)
    BY <1>2, KeysInv
  <1>3. CASE \E ks \in KeyLists, C \in SUBSET Conversation : Configure(ks, C)
    BY <1>3, ConfigureInv
  <1>4. CASE Request
    BY <1>4, ProcessPendingInv DEF Request
  <1>5. CASE DrainStep
    BY <1>5, DrainStepInv
  <1>6. CASE Reopen
    BY <1>6, ReopenInv
  <1>7. CASE UNCHANGED vars
    BY <1>7, StutterInv
  <1>8. QED
    BY <1>1, <1>2, <1>3, <1>4, <1>5, <1>6, <1>7 DEF Next, Writers

LEMMA InvAlways == Spec => []Inv
  BY InitInv, NextInv, PTL DEF Spec

\* Every variable of the event cache keeps its type; in particular no event is
\* ever attempted more than MaxAttempts times.
THEOREM TypeCorrect == Spec => []TypeOK
  <1>1. Inv => TypeOK
    BY DEF Inv, TableInv, DrainInv, TypeOK
  <1>2. QED
    BY <1>1, InvAlways, PTL

\* An event is processed exactly when its message is readable.
THEOREM MessagesCommittedTogether == Spec => []CommittedTogether
  <1>1. Inv => CommittedTogether
    BY DEF Inv, TableInv
  <1>2. QED
    BY <1>1, InvAlways, PTL

\* The rows a drain holds across its awaits stay its to settle.
THEOREM HandStaysOpen == Spec => []HandIsOpen
  <1>1. Inv => HandIsOpen
    BY DEF Inv, DrainInv
  <1>2. QED
    BY <1>1, InvAlways, PTL

-----------------------------------------------------------------------------
(* What a step can do to the rows, the messages and the signing keys *)

RowsStand == UNCHANGED <<rowVars, messages, signingKeys>>

RowsSettle ==
  \E P, F \in SUBSET Eligible, M \in SUBSET Event :
    Carried(M) = Carried(P) /\ Settle(P, F, M) /\ UNCHANGED signingKeys

RowsPend ==
  \E R \in SUBSET Event, ks \in KeyLists :
    /\ R \cap Processed = {} /\ Unlocked(ks) \subseteq R
    /\ Pend(R)
    /\ signingKeys' = Upsert(ks)
    /\ UNCHANGED messages

RowsGiveUp == GiveUp(MissingKey) /\ UNCHANGED <<messages, signingKeys>>

RowStep == RowsStand \/ RowsSettle \/ RowsPend \/ RowsGiveUp

LEMMA RowFailsStep ==
  ASSUME Inv, NEW e \in batch, NEW kind, RowFails(e, kind), UNCHANGED signingKeys
  PROVE  RowStep
  <1>1. e \in Eligible
    BY DEF Inv, DrainInv, HandIsOpen, InHand
  <1>2. CASE Abort
    BY <1>2 DEF Abort, RowStep, RowsStand
  <1>3. CASE Settle({}, {e}, {})
    BY <1>1, <1>3 DEF RowStep, RowsSettle
  <1>4. QED
    BY <1>2, <1>3 DEF RowFails

LEMMA AcceptResultStep ==
  ASSUME Inv, NEW e \in batch, NEW noise \in BOOLEAN, NEW blind \in BOOLEAN,
         Unverified({e}, noise, blind) = {}, AcceptResult(e, blind),
         UNCHANGED signingKeys
  PROVE  RowStep
  <1>1. e \in Eligible
    BY DEF Inv, DrainInv, HandIsOpen, InHand
  <1>2. CASE RowFails(e, "other")
    BY <1>2, RowFailsStep
  <1>3. CASE RowSucceeds(e)
    <2>1. Outputs({e}) \in SUBSET Event
      BY <1>1 DEF Outputs, Eligible
    <2>2. QED
      BY <1>1, <1>3, <2>1, VerifiedRow DEF RowSucceeds, RowStep, RowsSettle
  <1>4. QED
    BY <1>2, <1>3 DEF AcceptResult

LEMMA BeginRowStep ==
  ASSUME Inv, NEW e \in batch, BeginRow(e), UNCHANGED signingKeys
  PROVE  RowStep
  <1>1. CASE UNCHANGED <<rowVars, messages>>
    BY <1>1 DEF RowStep, RowsStand
  <1>2. CASE RowFails(e, "other")
    BY <1>2, RowFailsStep
  <1>3. QED
    BY <1>1, <1>2 DEF BeginRow

LEMMA FirstCallFailsStep ==
  ASSUME Inv, NEW e \in batch, NEW kind, FirstCallFails(e, kind),
         UNCHANGED signingKeys
  PROVE  RowStep
  <1>1. CASE AskForKeys(kind)
    BY <1>1 DEF AskForKeys, RowStep, RowsStand
  <1>2. CASE RowFails(e, kind)
    BY <1>2, RowFailsStep
  <1>3. QED
    BY <1>1, <1>2 DEF FirstCallFails

LEMMA BatchReturnsStep ==
  ASSUME Inv, BatchReturns
  PROVE  RowStep
  <1>1. UNCHANGED signingKeys
    BY DEF BatchReturns, tables, keyVars
  <1>2. CASE UNCHANGED <<rowVars, messages>>
    BY <1>1, <1>2 DEF RowStep, RowsStand
  <1>3. CASE \E noise \in BOOLEAN, blind \in BOOLEAN :
               LET F == Unverified(batch, noise, blind)
               IN Settle(batch \ F, F, Outputs(batch) \ F)
    <2>1. PICK noise \in BOOLEAN, blind \in BOOLEAN :
            LET F == Unverified(batch, noise, blind)
            IN Settle(batch \ F, F, Outputs(batch) \ F)
      BY <1>3
    <2> DEFINE F == Unverified(batch, noise, blind)
    <2>2. batch \in SUBSET Eligible
      BY DEF Inv, DrainInv, HandIsOpen, InHand
    <2>3. F \in SUBSET batch /\ Outputs(batch) \in SUBSET batch
      BY DEF Unverified, Outputs
    <2>4. /\ batch \ F \in SUBSET Eligible /\ F \in SUBSET Eligible
          /\ Outputs(batch) \ F \in SUBSET Event
      BY <2>2, <2>3 DEF Eligible
    <2>5. Carried(Outputs(batch) \ F) = Carried(batch \ F)
      BY VerifiedOutputs
    <2>6. RowsSettle
      BY <1>1, <2>1, <2>4, <2>5 DEF RowsSettle
    <2>7. QED
      BY <2>6 DEF RowStep
  <1>4. QED
    BY <1>2, <1>3, FlagsAreBoolean DEF BatchReturns

LEMMA KeysArriveStep ==
  ASSUME Inv, NEW ks \in KeyLists, KeysArrive(ks)
  PROVE  RowStep
  <1>1. current \in batch
    BY DEF KeysArrive, Inv, DrainInv, CallInv
  <1>2. CASE RowFails(current, cause) /\ UNCHANGED tables
    BY <1>1, <1>2, RowFailsStep DEF tables, keyVars
  <1>3. CASE /\ signingKeys' = Upsert(ks) /\ Pend(Unlocked(ks))
             /\ UNCHANGED messages
    <2>1. Unlocked(ks) \in SUBSET Event /\ Unlocked(ks) \cap Processed = {}
      BY FailedOrNew DEF Unlocked, Inv, TableInv
    <2>2. QED
      BY <1>3, <2>1 DEF RowStep, RowsPend
  <1>4. QED
    BY <1>2, <1>3 DEF KeysArrive

LEMMA DrainRowStep ==
  ASSUME Inv, DrainStep
  PROVE  RowStep
  <1>1. CASE \E ks \in KeyLists : KeysArrive(ks)
    BY <1>1, KeysArriveStep
  <1>2. CASE StartBatch
    <2>1. UNCHANGED signingKeys
      BY <1>2 DEF StartBatch, tables, keyVars
    <2>2. CASE \E e \in batch : BeginRow(e)
      BY <2>1, <2>2, BeginRowStep
    <2>3. CASE UNCHANGED <<rowVars, messages>>
      BY <2>1, <2>3 DEF RowStep, RowsStand
    <2>4. QED
      BY <1>2, <2>2, <2>3 DEF StartBatch, Abort
  <1>3. CASE StartRow
    <2>1. UNCHANGED signingKeys
      BY <1>3 DEF StartRow, tables, keyVars
    <2>2. PICK e \in batch : BeginRow(e)
      BY <1>3, OldestSub DEF StartRow
    <2>3. QED
      BY <2>1, <2>2, BeginRowStep
  <1>4. CASE BatchReturns
    BY <1>4, BatchReturnsStep
  <1>5. CASE BatchThrows
    BY <1>5 DEF BatchThrows, Abort, tables, keyVars, RowStep, RowsStand
  <1>6. CASE RowReturns \/ RowThrows
    <2>1. current \in batch /\ UNCHANGED signingKeys
      BY <1>6 DEF RowReturns, RowThrows, Inv, DrainInv, CallInv, tables, keyVars
    <2>2. QED
      BY <1>6, <2>1, FirstCallFailsStep, AcceptResultStep, FlagsAreBoolean
         DEF RowReturns, RowThrows
  <1>7. CASE ProviderThrows \/ AgainReturns \/ AgainThrows
    <2>1. current \in batch /\ UNCHANGED signingKeys
      BY <1>7 DEF ProviderThrows, AgainReturns, AgainThrows, Inv, DrainInv,
                  CallInv, tables, keyVars
    <2>2. QED
      BY <1>7, <2>1, RowFailsStep, AcceptResultStep, FlagsAreBoolean
         DEF ProviderThrows, AgainReturns, AgainThrows
  <1>8. QED
    BY <1>1, <1>2, <1>3, <1>4, <1>5, <1>6, <1>7 DEF DrainStep

\* A writer that brings no key upserts the empty list.
LEMMA NoKeys == /\ {} \in KeyLists
                /\ Upsert({}) = signingKeys
                /\ Unlocked({}) = {}
  BY DEF KeyLists, Upsert, Unlocked, Owners

LEMMA WriterRowStep ==
  ASSUME Inv, Writers
  PROVE  RowStep
  <1>1. CASE Deliveries
    <2>1. PICK c \in Conversation, E \in SUBSET Event, K \in SUBSET KeyEvent :
            \/ AcceptWebhook(c, E, K)
            \/ \E ks \in KeyLists, identity \in BOOLEAN :
                 IngestBackfill(c, E, K, ks, identity)
      BY <1>1 DEF Deliveries, About
    <2>2. CASE AcceptWebhook(c, E, K)
      BY <2>2, NoKeys, FailedOrNew
         DEF AcceptWebhook, Inv, TableInv, RowStep, RowsPend
    <2>3. CASE \E ks \in KeyLists, identity \in BOOLEAN :
                 IngestBackfill(c, E, K, ks, identity)
      <3>1. PICK ks \in KeyLists, identity \in BOOLEAN :
              IngestBackfill(c, E, K, ks, identity)
        BY <2>3
      <3> DEFINE R == NewRows(E) \cup IF identity THEN Failed ELSE Unlocked(ks)
      <3>2. R \in SUBSET Event /\ R \cap Processed = {} /\ Unlocked(ks) \subseteq R
        BY FailedOrNew DEF Unlocked, Inv, TableInv
      <3>3. Pend(R) /\ signingKeys' = Upsert(ks) /\ UNCHANGED messages
        BY <3>1 DEF IngestBackfill
      <3>4. QED
        BY <3>2, <3>3 DEF RowStep, RowsPend
    <2>4. QED
      BY <2>1, <2>2, <2>3
  <1>2. CASE \E ks \in KeyLists : AddSigningKeys(ks)
    <2>1. PICK ks \in KeyLists : AddSigningKeys(ks)
      BY <1>2
    <2>2. Unlocked(ks) \in SUBSET Event /\ Unlocked(ks) \cap Processed = {}
      BY FailedOrNew DEF Unlocked, Inv, TableInv
    <2>3. QED
      BY <2>1, <2>2 DEF AddSigningKeys, RowStep, RowsPend
  <1>3. CASE \E ks \in KeyLists, C \in SUBSET Conversation : Configure(ks, C)
    <2>1. PICK ks \in KeyLists, C \in SUBSET Conversation : Configure(ks, C)
      BY <1>3
    <2>2. Failed \in SUBSET Event /\ Failed \cap Processed = {}
          /\ Unlocked(ks) \subseteq Failed
      BY FailedOrNew DEF Unlocked, Inv, TableInv
    <2>3. QED
      BY <2>1, <2>2 DEF Configure, RowStep, RowsPend
  <1>4. QED
    BY <1>1, <1>2, <1>3 DEF Writers

LEMMA NextRowStep ==
  ASSUME Inv, [Next]_vars
  PROVE  RowStep
  <1>1. CASE Writers
    BY <1>1, WriterRowStep
  <1>2. CASE Request
    BY <1>2 DEF Request, ProcessPending, tables, keyVars, RowStep, RowsStand,
                RowsGiveUp
  <1>3. CASE DrainStep
    BY <1>3, DrainRowStep
  <1>4. CASE Reopen
    BY <1>4 DEF Reopen, keyVars, RowStep, RowsStand
  <1>5. CASE UNCHANGED vars
    BY <1>5 DEF vars, keyVars, RowStep, RowsStand
  <1>6. QED
    BY <1>1, <1>2, <1>3, <1>4, <1>5 DEF Next

-----------------------------------------------------------------------------
(* Refinement: every step of the table is a step of the inbox or a stutter *)

InboxStep == [Inbox!Next]_(Inbox!inboxVars)

LEMMA SettleMaps ==
  ASSUME NEW P \in SUBSET Eligible, NEW F \in SUBSET Eligible,
         NEW M \in SUBSET Event, Carried(M) = Carried(P), Settle(P, F, M)
  PROVE  InboxStep
  <1>1. P \in SUBSET Event
    BY DEF Eligible
  <1>2. \A e \in P : PhaseOf(e) = "open"
    BY DEF Eligible, PhaseOf
  <1>3. \A e \in Event : PhaseOf(e)' = IF e \in P THEN "settled" ELSE PhaseOf(e)
    <2> TAKE e \in Event
    <2>1. CASE e \in P
      BY <2>1 DEF Settle, PhaseOf
    <2>2. CASE e \in F \ P
      BY <2>2 DEF Settle, PhaseOf, Eligible
    <2>3. CASE e \notin P \cup F
      BY <2>3 DEF Settle, PhaseOf
    <2>4. QED
      BY <2>1, <2>2, <2>3
  <1>4. Inbox!Settle(P)
    BY <1>1, <1>2, <1>3 DEF Inbox!Settle, Inbox!Carried, Settle, Carried
  <1>5. QED
    BY <1>1, <1>4 DEF InboxStep, Inbox!Next

LEMMA PendMaps ==
  ASSUME NEW E \in SUBSET Event, E \cap Processed = {}, Pend(E),
         UNCHANGED messages
  PROVE  InboxStep
  <1>1. \A e \in Event : PhaseOf(e)' = IF e \in E /\ PhaseOf(e) = "unknown"
                                       THEN "open" ELSE PhaseOf(e)
    <2> TAKE e \in Event
    <2>1. CASE e \in E
      <3>1. status'[e] = "pending" /\ status[e] # "processed"
        BY <2>1 DEF Pend, Processed
      <3>2. QED
        BY <2>1, <3>1 DEF PhaseOf
    <2>2. CASE e \notin E
      BY <2>2 DEF Pend, PhaseOf
    <2>3. QED
      BY <2>1, <2>2
  <1>2. Inbox!Accept(E)
    BY <1>1 DEF Inbox!Accept
  <1>3. QED
    BY <1>2 DEF InboxStep, Inbox!Next

LEMMA StandMaps ==
  ASSUME RowsStand \/ RowsGiveUp
  PROVE  InboxStep
  <1>1. \A e \in Event : PhaseOf(e)' = PhaseOf(e)
    BY DEF RowsStand, RowsGiveUp, rowVars, GiveUp, MissingKey, PhaseOf, Eligible
  <1>2. UNCHANGED messages
    BY DEF RowsStand, RowsGiveUp
  <1>3. QED
    BY <1>1, <1>2 DEF InboxStep, Inbox!inboxVars

\* The event table implements the inbox: events are never forgotten, each is
\* settled at most once, and its message becomes readable in that very step.
THEOREM ImplementsInbox == Spec => InboxSpec
  <1>1. Init => Inbox!Init
    BY DEF Init, Inbox!Init, PhaseOf
  <1>2. Inv /\ [Next]_vars => [Inbox!Next]_(Inbox!inboxVars)
    BY NextRowStep, SettleMaps, PendMaps, StandMaps
       DEF RowStep, RowsSettle, RowsPend, InboxStep
  <1>3. QED
    BY <1>1, <1>2, InvAlways, PTL DEF Spec, InboxSpec, Inbox!Spec

-----------------------------------------------------------------------------
(* "No cached signing key exists for this sender" is never stale *)

\* A key of a sender who had none is new: its failed events are pended.
LEMMA FirstKeyUnlocks ==
  ASSUME NEW ks, NEW e \in Event, status[e] = "failed",
         SenderOf[e] \notin Owners(signingKeys), e \notin Unlocked(ks)
  PROVE  SenderOf[e] \notin Owners(Upsert(ks))
  BY DEF Owners, Unlocked, Upsert, Failed

LEMMA NoKeyStep ==
  ASSUME Inv, NoKeyIsCurrent, RowStep
  PROVE  NoKeyIsCurrent'
  <1>1. CASE RowsStand
    BY <1>1 DEF RowsStand, rowVars, NoKeyIsCurrent, Owners
  <1>2. CASE RowsSettle
    <2>1. PICK P \in SUBSET Eligible, F \in SUBSET Eligible, M \in SUBSET Event :
            Settle(P, F, M)
      BY <1>2 DEF RowsSettle
    <2>2. UNCHANGED signingKeys
      BY <1>2 DEF RowsSettle
    <2>3. ASSUME NEW e \in Event, lastError'[e] = "nokey"
          PROVE  status'[e] = "failed" /\ SenderOf[e] \notin Owners(signingKeys)
      BY <2>1, <2>3 DEF Settle, NoKeyIsCurrent
    <2>4. QED
      BY <2>2, <2>3 DEF NoKeyIsCurrent, Owners
  <1>3. CASE RowsPend
    <2>1. PICK R \in SUBSET Event, ks \in KeyLists :
            /\ Unlocked(ks) \subseteq R /\ Pend(R) /\ signingKeys' = Upsert(ks)
      BY <1>3 DEF RowsPend
    <2>2. ASSUME NEW e \in Event, lastError'[e] = "nokey"
          PROVE  status'[e] = "failed" /\ SenderOf[e] \notin Owners(Upsert(ks))
      <3>1. e \notin R /\ lastError[e] = "nokey" /\ status'[e] = status[e]
        BY <2>1, <2>2 DEF Pend
      <3>2. status[e] = "failed" /\ SenderOf[e] \notin Owners(signingKeys)
        BY <3>1 DEF NoKeyIsCurrent
      <3>3. QED
        BY <2>1, <3>1, <3>2, FirstKeyUnlocks
    <2>3. QED
      BY <2>1, <2>2 DEF NoKeyIsCurrent, Owners
  <1>4. CASE RowsGiveUp
    BY <1>4 DEF RowsGiveUp, GiveUp, MissingKey, NoKeyIsCurrent, Owners
  <1>5. QED
    BY <1>1, <1>2, <1>3, <1>4 DEF RowStep

\* An event that was given up for want of any key of its sender is pended in
\* the very transaction that stores the sender's first key.
THEOREM NoKeyStaysCurrent == Spec => []NoKeyIsCurrent
  <1>1. Init => NoKeyIsCurrent
    BY DEF Init, NoKeyIsCurrent
  <1>2. Inv /\ NoKeyIsCurrent /\ [Next]_vars => NoKeyIsCurrent'
    BY NextRowStep, NoKeyStep
  <1>3. QED
    BY <1>1, <1>2, InvAlways, PTL DEF Spec

-----------------------------------------------------------------------------
(* Key changes come first *)

\* No conversation has two spellings of its id.
OneSpelling == \A c, d \in Conversation : Canonical[c] = Canonical[d] => c = d

Dated == \A e \in Event : received[e] <= clock

Filed == \A e \in Event : status[e] # "absent" => conversation[e] \in Conversation

OneConversation == \A e, f \in batch : conversation[e] = conversation[f]

\* What was filed with a row when it came is in the call that opens it; what
\* is filed during the call came later than every row.
CallHasKeys ==
  \A e \in InCall, k \in KeyEvent :
    keyEvents[k] = conversation[e] /\ keyReceived[k] <= received[e] => k \in callKeyEvents

OrderInv == Dated /\ Filed /\ OneConversation /\ CallHasKeys

\* No row comes to be but by a delivery.
NoNewRow == \A e \in Event : status[e] = "absent" => status'[e] = "absent"

\* The drain stops, or stands before its next call.
Rests == OneConversation' /\ pc' \in {"idle", "yield", "turn"}

LEMMA BatchesOne ==
  ASSUME NEW S, NEW b \in Batches(S)
  PROVE  \A e, f \in b : conversation[e] = conversation[f]
  <1>1. PICK c \in {conversation[e] : e \in S} :
          b \in Oldest({e \in S : conversation[e] = c}, BatchSize)
    BY DEF Batches
  <1>2. b \subseteq {e \in S : conversation[e] = c}
    BY <1>1, OldestSub
  <1>3. QED
    BY <1>2

LEMMA TakeRests ==
  ASSUME NEW S, Take(S), UNCHANGED conversation
  PROVE  Rests
  BY BatchesOne DEF Take, Rests, OneConversation

LEMMA SelectRests ==
  ASSUME NEW n, NEW found, Select(n, found), UNCHANGED conversation
  PROVE  Rests
  <1>1. ASSUME Finish("resolved") PROVE Rests
    BY <1>1 DEF Finish, Rests, OneConversation
  <1>2. QED
    BY <1>1, TakeRests DEF Select

LEMMA ContinueRests ==
  ASSUME OneConversation, NEW rest \in SUBSET batch, Continue(rest),
         UNCHANGED conversation
  PROVE  Rests
  <1>1. CASE batch' = rest /\ pc' = "turn"
    BY <1>1 DEF Rests, OneConversation
  <1>2. CASE Take(todo)
    BY <1>2, TakeRests
  <1>3. CASE Select(limit, selected)
    BY <1>3, SelectRests
  <1>4. CASE Finish("resolved")
    BY <1>4 DEF Finish, Rests, OneConversation
  <1>5. QED
    BY <1>1, <1>2, <1>3, <1>4 DEF Continue

LEMMA AbortRests == Abort => Rests /\ UNCHANGED rowVars
  BY DEF Abort, Finish, Rests, OneConversation

LEMMA SettleNoNew ==
  ASSUME NEW P, NEW F, NEW M, P \cup F \subseteq Eligible, Settle(P, F, M)
  PROVE  NoNewRow
  BY DEF Settle, Eligible, NoNewRow

\* A step that starts no call, and leaves what was delivered alone.
LEMMA RestsInv ==
  ASSUME OrderInv, Rests, NoNewRow, UNCHANGED deliverVars
  PROVE  OrderInv'
  <1>1. Dated' /\ Filed'
    BY DEF OrderInv, Dated, Filed, NoNewRow, deliverVars
  <1>2. InCall' = {}
    BY DEF Rests, InCall
  <1>3. CallHasKeys'
    BY <1>2 DEF CallHasKeys
  <1>4. QED
    BY <1>1, <1>3 DEF Rests, OrderInv

\* A step within a call.
LEMMA CallKept ==
  ASSUME OrderInv, NoNewRow, InCall' \subseteq InCall,
         UNCHANGED <<deliverVars, batch, callKeyEvents>>
  PROVE  OrderInv'
  <1>1. Dated' /\ Filed'
    BY DEF OrderInv, Dated, Filed, NoNewRow, deliverVars
  <1>2. OneConversation' /\ CallHasKeys'
    BY DEF OrderInv, OneConversation, CallHasKeys, deliverVars
  <1>3. QED
    BY <1>1, <1>2 DEF OrderInv

\* A call that begins, with the key changes of the conversation of its rows.
LEMMA CallBegins ==
  ASSUME OrderInv, NoNewRow, NEW e \in batch, Snapshot(conversation[e]),
         InCall' \subseteq batch, UNCHANGED <<deliverVars, batch>>
  PROVE  OrderInv'
  <1>1. Dated' /\ Filed' /\ OneConversation'
    BY DEF OrderInv, Dated, Filed, NoNewRow, OneConversation, deliverVars
  <1>2. ASSUME NEW f \in InCall', NEW k \in KeyEvent, keyEvents'[k] = conversation'[f]
        PROVE  k \in callKeyEvents'
    <2>1. conversation[f] = conversation[e]
      BY DEF OrderInv, OneConversation
    <2>2. keyEvents[k] = conversation[e]
      BY <1>2, <2>1 DEF deliverVars
    <2>3. QED
      BY <2>2 DEF Snapshot, KeyEventsOf
  <1>3. QED
    BY <1>1, <1>2 DEF CallHasKeys, OrderInv

LEMMA RowFailsOrder ==
  ASSUME Inv, OrderInv, NEW e \in batch, NEW kind, RowFails(e, kind),
         UNCHANGED deliverVars
  PROVE  OrderInv'
  <1>1. e \in Eligible /\ batch \ {e} \in SUBSET batch
    BY DEF Inv, DrainInv, HandIsOpen, InHand
  <1>2. CASE Abort
    <2>1. Rests /\ NoNewRow
      BY <1>2, AbortRests DEF rowVars, NoNewRow
    <2>2. QED
      BY <2>1, RestsInv
  <1>3. CASE Settle({}, {e}, {}) /\ Continue(batch \ {e})
    <2>1. Rests
      BY <1>1, <1>3, ContinueRests DEF OrderInv, deliverVars
    <2>2. NoNewRow
      BY <1>1, <1>3, SettleNoNew
    <2>3. QED
      BY <2>1, <2>2, RestsInv
  <1>4. QED
    BY <1>2, <1>3 DEF RowFails

LEMMA AcceptResultOrder ==
  ASSUME Inv, OrderInv, NEW e \in batch, NEW blind, AcceptResult(e, blind),
         UNCHANGED deliverVars
  PROVE  OrderInv'
  <1>1. e \in Eligible /\ batch \ {e} \in SUBSET batch
    BY DEF Inv, DrainInv, HandIsOpen, InHand
  <1>2. CASE RowFails(e, "other")
    BY <1>2, RowFailsOrder
  <1>3. CASE Settle({e}, {}, Outputs({e})) /\ Continue(batch \ {e})
    <2>1. Rests
      BY <1>1, <1>3, ContinueRests DEF OrderInv, deliverVars
    <2>2. NoNewRow
      BY <1>1, <1>3, SettleNoNew
    <2>3. QED
      BY <2>1, <2>2, RestsInv
  <1>4. QED
    BY <1>2, <1>3 DEF AcceptResult, RowSucceeds

LEMMA BeginRowOrder ==
  ASSUME Inv, OrderInv, NEW e \in batch, BeginRow(e), UNCHANGED deliverVars
  PROVE  OrderInv'
  <1>1. CASE RowFails(e, "other")
    BY <1>1, RowFailsOrder
  <1>2. CASE /\ pc' = "row" /\ current' = e
             /\ Snapshot(conversation[e])
             /\ KeepDrain
             /\ UNCHANGED <<rowVars, messages>>
    <2>1. InCall' = {e} /\ NoNewRow /\ UNCHANGED batch
      BY <1>2 DEF InCall, NoNewRow, rowVars, KeepDrain, workVars
    <2>2. QED
      BY <1>2, <2>1, CallBegins
  <1>3. QED
    BY <1>1, <1>2 DEF BeginRow

LEMMA StartOrder ==
  ASSUME Inv, OrderInv, StartBatch \/ StartRow
  PROVE  OrderInv'
  <1>1. UNCHANGED deliverVars
    BY DEF StartBatch, StartRow, tables
  <1>2. CASE \E e \in batch : BeginRow(e)
    BY <1>1, <1>2, BeginRowOrder
  <1>3. CASE /\ pc' = "batch"
             /\ \E e \in batch : Snapshot(conversation[e])
             /\ KeepDrain
             /\ UNCHANGED <<rowVars, messages>>
    <2>1. InCall' = batch /\ NoNewRow /\ UNCHANGED batch
      BY <1>3 DEF InCall, NoNewRow, rowVars, KeepDrain, workVars
    <2>2. QED
      BY <1>1, <1>3, <2>1, CallBegins
  <1>4. CASE Abort
    <2>1. Rests /\ NoNewRow
      BY <1>4, AbortRests DEF rowVars, NoNewRow
    <2>2. QED
      BY <1>1, <2>1, RestsInv
  <1>5. ASSUME StartRow PROVE \E e \in batch : BeginRow(e)
    BY <1>5, OldestSub DEF StartRow
  <1>6. QED
    BY <1>2, <1>3, <1>4, <1>5 DEF StartBatch

LEMMA BatchOrder ==
  ASSUME Inv, OrderInv, BatchReturns \/ BatchThrows
  PROVE  OrderInv'
  <1>1. UNCHANGED deliverVars
    BY DEF BatchReturns, BatchThrows, tables
  <1>2. CASE BatchThrows
    <2>1. Rests /\ NoNewRow
      BY <1>2, AbortRests DEF BatchThrows, rowVars, NoNewRow
    <2>2. QED
      BY <1>1, <2>1, RestsInv
  <1>3. CASE BatchReturns
    <2>1. PICK F \in SUBSET batch :
            \/ pc' = "turn" /\ UNCHANGED <<rowVars, batch>>
            \/ Settle(batch \ F, F, Outputs(batch) \ F) /\ Continue({})
      <3>1. \A noise \in Noise, blind \in Flag("blind") :
              Unverified(batch, noise, blind) \in SUBSET batch
        BY DEF Unverified, Outputs
      <3>2. QED
        BY <1>3, <3>1 DEF BatchReturns
    <2>2. CASE pc' = "turn" /\ UNCHANGED <<rowVars, batch>>
      <3>1. Rests /\ NoNewRow
        BY <1>1, <2>2 DEF Rests, OrderInv, OneConversation, deliverVars, rowVars, NoNewRow
      <3>2. QED
        BY <1>1, <3>1, RestsInv
    <2>3. CASE Settle(batch \ F, F, Outputs(batch) \ F) /\ Continue({})
      <3>1. (batch \ F) \cup F \subseteq Eligible
        BY DEF Inv, DrainInv, HandIsOpen, InHand
      <3>2. NoNewRow
        BY <2>3, <3>1, SettleNoNew
      <3>3. Rests
        BY <1>1, <2>3, ContinueRests DEF OrderInv, deliverVars
      <3>4. QED
        BY <1>1, <3>2, <3>3, RestsInv
    <2>4. QED
      BY <2>1, <2>2, <2>3
  <1>4. QED
    BY <1>2, <1>3

\* The calls for the row in hand, and the request for keys between them.
LEMMA RowOrder ==
  ASSUME Inv, OrderInv,
         \/ RowReturns \/ RowThrows \/ ProviderThrows \/ AgainReturns \/ AgainThrows
  PROVE  OrderInv'
  <1>1. UNCHANGED deliverVars
    BY DEF RowReturns, RowThrows, ProviderThrows, AgainReturns, AgainThrows, tables
  <1>2. current \in batch
    BY DEF RowReturns, RowThrows, ProviderThrows, AgainReturns, AgainThrows,
           Inv, DrainInv, CallInv
  <1>3. CASE \E kind : pc = "row" /\ AskForKeys(kind)
    <2>1. InCall' = InCall /\ NoNewRow /\ UNCHANGED <<batch, callKeyEvents>>
      BY <1>3 DEF AskForKeys, InCall, NoNewRow, rowVars, KeepDrain, workVars
    <2>2. QED
      BY <1>1, <2>1, CallKept
  <1>4. CASE \E kind : RowFails(current, kind)
    BY <1>1, <1>2, <1>4, RowFailsOrder
  <1>5. CASE \E blind : AcceptResult(current, blind)
    BY <1>1, <1>2, <1>5, AcceptResultOrder
  <1>6. QED
    BY <1>3, <1>4, <1>5
    DEF RowReturns, RowThrows, ProviderThrows, AgainReturns, AgainThrows, FirstCallFails

LEMMA PendNoNew ==
  ASSUME NEW ks, Pend(Unlocked(ks))
  PROVE  NoNewRow
  BY DEF Pend, Unlocked, Failed, NoNewRow

LEMMA KeysArriveOrder ==
  ASSUME Inv, OrderInv, NEW ks \in KeyLists, KeysArrive(ks)
  PROVE  OrderInv'
  <1>1. current \in batch
    BY DEF KeysArrive, Inv, DrainInv, CallInv
  <1>2. CASE RowFails(current, cause) /\ UNCHANGED tables
    BY <1>1, <1>2, RowFailsOrder DEF tables
  <1>3. CASE /\ Pend(Unlocked(ks)) /\ pc = "refresh" /\ pc' = "again"
             /\ KeepDrain /\ UNCHANGED <<deliverVars, current, callKeyEvents>>
    <2>1. InCall' = InCall /\ UNCHANGED batch
      BY <1>3 DEF InCall, KeepDrain, workVars
    <2>2. NoNewRow
      BY <1>3, PendNoNew
    <2>3. QED
      BY <1>3, <2>1, <2>2, CallKept
  <1>4. QED
    BY <1>2, <1>3 DEF KeysArrive

LEMMA RequestOrder ==
  ASSUME Inv, OrderInv, NEW n \in Limits, ProcessPending(n)
  PROVE  OrderInv'
  <1>1. UNCHANGED deliverVars
    BY DEF ProcessPending, tables
  <1>2. CASE UNCHANGED <<rowVars, pc, workVars, callVars>>
    <2>1. InCall' = InCall /\ NoNewRow /\ UNCHANGED <<batch, callKeyEvents>>
      BY <1>2 DEF InCall, NoNewRow, rowVars, workVars, callVars
    <2>2. QED
      BY <1>1, <2>1, CallKept
  <1>3. CASE GiveUp(MissingKey) /\ Select(n, Cardinality(MissingKey))
    <2>1. Rests
      BY <1>1, <1>3, SelectRests DEF deliverVars
    <2>2. NoNewRow
      BY <1>3 DEF GiveUp, MissingKey, Eligible, NoNewRow
    <2>3. QED
      BY <1>1, <2>1, <2>2, RestsInv
  <1>4. QED
    BY <1>2, <1>3 DEF ProcessPending

\* A delivery gives rows in hand no new place, and comes after them.
LEMMA DeliverOrder ==
  ASSUME Inv, OrderInv, NEW c \in Conversation, NEW E \in SUBSET Event,
         NEW K \in SUBSET KeyEvent, NEW src, Deliver(c, E, K, src),
         UNCHANGED drainVars,
         \A e \in Event \ NewRows(E) : status[e] = "absent" => status'[e] = "absent"
  PROVE  OrderInv'
  <1> DEFINE N == NewRows(E)
             L == NewKeyEvents(K)
  <1>1. /\ clock \in Nat /\ clock' \in Nat /\ clock' >= clock
        /\ N # {} \/ L # {} => clock' = clock + 1
        /\ \A e \in Event : received[e] \in Nat
        /\ \A k \in KeyEvent : keyReceived[k] \in Nat
    BY DEF Deliver, Inv, DeliveriesOK
  <1>2. \A e \in Event : /\ e \in N => received'[e] = clock + 1 /\ conversation'[e] = c
                         /\ e \notin N => /\ received'[e] = received[e]
                                          /\ conversation'[e] = conversation[e]
    BY DEF Deliver
  <1>3. \A k \in KeyEvent : /\ k \in L => keyReceived'[k] = clock + 1
                            /\ k \notin L => /\ keyReceived'[k] = keyReceived[k]
                                             /\ keyEvents'[k] = keyEvents[k]
    BY DEF Deliver
  <1>4. Dated'
    BY <1>1, <1>2 DEF OrderInv, Dated
  <1>5. Filed'
    BY <1>2 DEF OrderInv, Filed
  <1>6. batch \subseteq Event /\ batch \cap N = {} /\ batch' = batch
    BY DEF Inv, DrainInv, HandIsOpen, InHand, Eligible, NewRows, drainVars, workVars
  <1>7. InCall' = InCall /\ InCall \subseteq batch /\ callKeyEvents' = callKeyEvents
    BY DEF InCall, drainVars, workVars, callVars, Inv, DrainInv, CallInv
  <1> HIDE DEF N, L
  <1>8. OneConversation'
    BY <1>2, <1>6 DEF OrderInv, OneConversation
  <1>9. CallHasKeys'
    <2> SUFFICES ASSUME NEW e \in InCall, NEW k \in KeyEvent,
                        keyEvents'[k] = conversation'[e],
                        keyReceived'[k] <= received'[e]
                 PROVE  k \in callKeyEvents
      BY <1>7 DEF CallHasKeys
    <2>1. e \in Event /\ e \notin N
      BY <1>6, <1>7
    <2>2. received'[e] = received[e] /\ conversation'[e] = conversation[e]
      BY <1>2, <2>1
    <2>3. received[e] <= clock /\ received[e] \in Nat
      BY <1>1, <2>1 DEF OrderInv, Dated
    <2>4. k \notin L
      BY <1>1, <1>3, <2>2, <2>3
    <2>5. QED
      BY <1>3, <2>2, <2>4 DEF OrderInv, CallHasKeys
  <1>10. QED
    BY <1>4, <1>5, <1>8, <1>9 DEF OrderInv

LEMMA WritersOrder ==
  ASSUME Inv, OrderInv, Writers
  PROVE  OrderInv'
  <1>1. ASSUME NEW c \in Conversation, NEW E \in SUBSET Event,
               NEW K \in SUBSET KeyEvent, AcceptWebhook(c, E, K)
        PROVE  OrderInv'
    BY <1>1, DeliverOrder DEF AcceptWebhook, Pend
  <1>2. ASSUME NEW c \in Conversation, NEW E \in SUBSET Event,
               NEW K \in SUBSET KeyEvent, NEW ks \in KeyLists,
               NEW identity \in BOOLEAN, IngestBackfill(c, E, K, ks, identity)
        PROVE  OrderInv'
    <2> DEFINE R == NewRows(E) \cup IF identity THEN Failed ELSE Unlocked(ks)
    <2>1. Pend(R) /\ Deliver(c, E, K, "backfill") /\ UNCHANGED drainVars
      BY <1>2 DEF IngestBackfill
    <2>2. \A e \in R \ NewRows(E) : status[e] = "failed"
      BY DEF Unlocked, Failed
    <2> HIDE DEF R
    <2>3. \A e \in Event \ NewRows(E) : status[e] = "absent" => status'[e] = "absent"
      BY <2>1, <2>2 DEF Pend
    <2>4. QED
      BY <2>1, <2>3, DeliverOrder
  <1>3. ASSUME NoNewRow, UNCHANGED <<deliverVars, drainVars>> PROVE OrderInv'
    <2>1. InCall' = InCall /\ UNCHANGED <<batch, callKeyEvents>>
      BY <1>3 DEF InCall, drainVars, workVars, callVars
    <2>2. QED
      BY <1>3, <2>1, CallKept
  <1>4. ASSUME NEW ks \in KeyLists, AddSigningKeys(ks) PROVE OrderInv'
    BY <1>3, <1>4, PendNoNew DEF AddSigningKeys
  <1>5. ASSUME NEW ks \in KeyLists, NEW C \in SUBSET Conversation, Configure(ks, C)
        PROVE  OrderInv'
    BY <1>3, <1>5 DEF Configure, Pend, Failed, NoNewRow
  <1>6. QED
    BY <1>1, <1>2, <1>4, <1>5 DEF Writers, Deliveries, About

LEMMA ReopenOrder ==
  ASSUME Inv, OrderInv, Reopen
  PROVE  OrderInv'
  <1>1. Dated' /\ Filed'
    BY EventsAssumption DEF Reopen, OrderInv, Dated, Filed, Moved, rowVars
  <1>2. batch' = {} /\ InCall' = {}
    BY DEF Reopen, InCall
  <1>3. QED
    BY <1>1, <1>2 DEF OrderInv, OneConversation, CallHasKeys

LEMMA OrderStep == Inv /\ OrderInv /\ [Next]_vars => OrderInv'
  <1> SUFFICES ASSUME Inv, OrderInv, [Next]_vars PROVE OrderInv'
    OBVIOUS
  <1>1. CASE DrainStep
    BY <1>1, StartOrder, BatchOrder, RowOrder, KeysArriveOrder DEF DrainStep
  <1>2. CASE UNCHANGED vars
    <2>1. InCall' = InCall /\ NoNewRow /\ UNCHANGED <<deliverVars, batch, callKeyEvents>>
      BY <1>2 DEF vars, InCall, NoNewRow, rowVars, drainVars, workVars, callVars
    <2>2. QED
      BY <2>1, CallKept
  <1>3. QED
    BY <1>1, <1>2, WritersOrder, RequestOrder, ReopenOrder DEF Next, Request

LEMMA OrderAlways == Spec => []OrderInv
  <1>1. Init => OrderInv
    BY DEF Init, NothingInHand, OrderInv, Dated, Filed, OneConversation,
           CallHasKeys, InCall
  <1>2. QED
    BY <1>1, InvAlways, OrderStep, PTL DEF Spec

\* Where a conversation has one spelling, a call to the decryptor gets every
\* key change that was stored no later than a row it is asked to decrypt, in
\* whatever batch or retry, and whatever arrives between the awaits.
THEOREM KeyChangesComeFirst == OneSpelling => (Spec => []KeyChangesFirst)
  <1> SUFFICES ASSUME OneSpelling PROVE Spec => []KeyChangesFirst
    OBVIOUS
  <1>1. Inv /\ OrderInv => KeyChangesFirst
    <2> SUFFICES ASSUME Inv, OrderInv, NEW e \in InCall, NEW k \in KeyEvent,
                        keyEvents[k] # None,
                        Canonical[keyEvents[k]] = Canonical[conversation[e]],
                        keyReceived[k] <= received[e]
                 PROVE  k \in callKeyEvents
      BY DEF KeyChangesFirst
    <2>1. e \in batch
      BY DEF InCall, Inv, DrainInv, CallInv
    <2>2. e \in Event /\ status[e] # "absent"
      BY <2>1 DEF Inv, DrainInv, HandIsOpen, InHand, Eligible
    <2>3. conversation[e] \in Conversation /\ keyEvents[k] \in Conversation
      BY <2>2 DEF OrderInv, Filed, Inv, DeliveriesOK
    <2>4. keyEvents[k] = conversation[e]
      BY <2>3 DEF OneSpelling
    <2>5. QED
      BY <2>4 DEF OrderInv, CallHasKeys
  <1>2. QED
    BY <1>1, InvAlways, OrderAlways, PTL

-----------------------------------------------------------------------------
(* Nothing readable is given up *)

\* Calls that fail only for want of keys; a second attempt; and what X and the
\* users promise: ids in one spelling, messages signed by a key of their sender
\* and encrypted under a key change of their conversation.
Calm ==
  /\ Faults = {} /\ MaxAttempts > 1
  /\ \A c \in Conversation : Canonical[c] = c
  /\ \A e \in Event : SenderOf[e] # None => /\ KeyOf[e] \in SigningKey
                                            /\ OwnerOf[KeyOf[e]] = SenderOf[e]
  /\ \A e \in Event : KeyEventOf[e] # None =>
       ConversationOf[KeyEventOf[e]] = ConversationOf[e]

\* A row that was reset has all its attempts before it.
Fresh == \A e \in Event : status[e] = "pending" => attempts[e] = 0

Placed ==
  /\ \A e \in Event : status[e] # "absent" => conversation[e] = ConversationOf[e]
  /\ \A k \in KeyEvent : keyEvents[k] \in {None, ConversationOf[k]}

\* A key that came during a call has reset the failed rows it could open.
CallHasSigners ==
  \A e \in InCall :
    status[e] = "failed" /\ SenderOf[e] # None /\ KeyOf[e] \in signingKeys =>
      KeyOf[e] \in callKeys

RefreshAfterFailure == pc = "refresh" => ~Opened(current)

ReadInv == Fresh /\ Placed /\ CallHasSigners /\ RefreshAfterFailure /\ GivenUpIsUnreadable

\* What a call cannot open was pending, or cannot be read.
Unread(F) == \A e \in F : status[e] = "failed" => ~Readable(e)

LEMMA UnopenedIsUnread ==
  ASSUME Calm, Inv, OrderInv, ReadInv, NEW e \in InCall, ~Opened(e)
  PROVE  Unread({e})
  <1> SUFFICES ASSUME status[e] = "failed", Readable(e) PROVE FALSE
    BY DEF Unread
  <1>1. e \in Event
    BY DEF InCall, Inv, DrainInv, CallInv, HandIsOpen, InHand, Eligible
  <1>2. KeyOf[e] \in callKeys
    BY DEF ReadInv, CallHasSigners, Readable
  <1>3. KeyEventOf[e] # None /\ KeyEventOf[e] \notin callKeyEvents
    BY <1>2 DEF Opened
  <1>4. KeyEventOf[e] \in KeyEvent
    BY <1>1, <1>3, EventsAssumption
  <1>5. keyEvents[KeyEventOf[e]] = ConversationOf[KeyEventOf[e]]
    BY <1>3, <1>4 DEF Readable, ReadInv, Placed
  <1>6. keyEvents[KeyEventOf[e]] = conversation[e]
    BY <1>1, <1>3, <1>5 DEF Calm, ReadInv, Placed
  <1>7. keyReceived[KeyEventOf[e]] <= received[e]
    BY <1>3 DEF Readable
  <1>8. QED
    BY <1>3, <1>4, <1>6, <1>7 DEF OrderInv, CallHasKeys

\* The tables after rows were settled: an attempt that is the last one is not
\* the first, so the row had failed before.
LEMMA SettleRead ==
  ASSUME Calm, Inv, ReadInv, NEW P, NEW F, NEW M, P \cup F \subseteq Eligible,
         Settle(P, F, M), Unread(F), UNCHANGED tables
  PROVE  Fresh' /\ Placed' /\ GivenUpIsUnreadable'
  <1>1. \A e \in Event : Readable(e)' = Readable(e)
    BY DEF Readable, tables, deliverVars, keyVars
  <1>2. Fresh'
    BY DEF ReadInv, Fresh, Settle
  <1>3. Placed'
    BY DEF ReadInv, Placed, Settle, tables, deliverVars, Eligible
  <1>4. ASSUME NEW e \in Event, GivenUp(e)' PROVE ~Readable(e)
    <2>1. CASE e \in P
      BY <1>4, <2>1 DEF GivenUp, Settle
    <2>2. CASE e \in F /\ e \notin P
      <3>1. attempts[e] + 1 = MaxAttempts /\ attempts[e] \in Nat
        BY <1>4, <2>2 DEF GivenUp, Settle, Inv, TableInv, RowsOK
      <3>2. status[e] = "failed"
        BY <2>2, <3>1, EventsAssumption DEF Calm, ReadInv, Fresh, Eligible
      <3>3. QED
        BY <2>2, <3>2 DEF Unread
    <2>3. CASE e \notin P \cup F
      BY <1>4, <2>3 DEF GivenUp, Settle, ReadInv, GivenUpIsUnreadable
    <2>4. QED
      BY <2>1, <2>2, <2>3
  <1>5. QED
    BY <1>1, <1>2, <1>3, <1>4 DEF GivenUpIsUnreadable

\* Where the drain stands before its next call, nothing is in a call.
LEMMA RestsRead ==
  ASSUME Fresh', Placed', GivenUpIsUnreadable', Rests
  PROVE  ReadInv'
  BY DEF Rests, InCall, CallHasSigners, RefreshAfterFailure, ReadInv

\* Rows and tables as they were.
LEMMA SameRows ==
  ASSUME ReadInv, UNCHANGED <<rowVars, tables>>
  PROVE  Fresh' /\ Placed' /\ GivenUpIsUnreadable'
  BY DEF ReadInv, Fresh, Placed, GivenUpIsUnreadable, GivenUp, Readable, rowVars,
         tables, deliverVars, keyVars

LEMMA RowFailsRead ==
  ASSUME Calm, Inv, OrderInv, ReadInv, NEW e \in batch, NEW kind, Unread({e}),
         RowFails(e, kind), UNCHANGED tables
  PROVE  ReadInv'
  <1>1. e \in Eligible /\ batch \ {e} \in SUBSET batch
    BY DEF Inv, DrainInv, HandIsOpen, InHand
  <1>2. CASE Abort
    BY <1>2, AbortRests, SameRows, RestsRead
  <1>3. CASE Settle({}, {e}, {}) /\ Continue(batch \ {e})
    <2>1. Rests
      BY <1>1, <1>3, ContinueRests DEF OrderInv, tables, deliverVars
    <2>2. Fresh' /\ Placed' /\ GivenUpIsUnreadable'
      BY <1>1, <1>3, SettleRead
    <2>3. QED
      BY <2>1, <2>2, RestsRead
  <1>4. QED
    BY <1>2, <1>3 DEF RowFails

\* Without faults, output names its source.
LEMMA NoFlags ==
  ASSUME Calm
  PROVE  /\ \A blind \in Flag("blind") : ~blind
         /\ \A noise \in Noise : ~noise
         /\ Kinds = {}
  BY DEF Calm, Flag, Noise, Kinds

LEMMA AcceptResultRead ==
  ASSUME Calm, Inv, OrderInv, ReadInv, NEW e \in batch, AcceptResult(e, FALSE),
         UNCHANGED tables
  PROVE  ReadInv'
  <1>1. e \in Eligible /\ batch \ {e} \in SUBSET batch
    BY DEF Inv, DrainInv, HandIsOpen, InHand
  <1>2. Settle({e}, {}, Outputs({e})) /\ Continue(batch \ {e})
    BY DEF AcceptResult, RowSucceeds
  <1>3. Rests
    BY <1>1, <1>2, ContinueRests DEF OrderInv, tables, deliverVars
  <1>4. Fresh' /\ Placed' /\ GivenUpIsUnreadable'
    BY <1>1, <1>2, SettleRead DEF Unread
  <1>5. QED
    BY <1>3, <1>4, RestsRead

\* A call that begins takes every key there is.
LEMMA CallBeginsRead ==
  ASSUME ReadInv, NEW c, Snapshot(c), pc' \in {"row", "batch"},
         UNCHANGED <<rowVars, tables>>
  PROVE  ReadInv'
  <1>1. Fresh' /\ Placed' /\ GivenUpIsUnreadable'
    BY SameRows
  <1>2. callKeys' = signingKeys'
    BY DEF Snapshot, tables, keyVars
  <1>3. CallHasSigners' /\ RefreshAfterFailure'
    BY <1>2 DEF CallHasSigners, RefreshAfterFailure
  <1>4. QED
    BY <1>1, <1>3 DEF ReadInv

LEMMA BeginRowRead ==
  ASSUME Calm, Inv, OrderInv, ReadInv, NEW e \in batch, BeginRow(e),
         UNCHANGED tables
  PROVE  ReadInv'
  <1>1. CASE ~CallPossible /\ RowFails(e, "other")
    <2>1. Unread({e})
      BY <1>1 DEF Unread, Readable, CallPossible
    <2>2. QED
      BY <1>1, <2>1, RowFailsRead
  <1>2. CASE pc' = "row" /\ Snapshot(conversation[e]) /\ UNCHANGED rowVars
    BY <1>2, CallBeginsRead
  <1>3. QED
    BY <1>1, <1>2 DEF BeginRow

LEMMA StartRead ==
  ASSUME Calm, Inv, OrderInv, ReadInv, StartBatch \/ StartRow
  PROVE  ReadInv'
  <1>1. UNCHANGED tables
    BY DEF StartBatch, StartRow
  <1>2. CASE \E e \in batch : BeginRow(e)
    BY <1>1, <1>2, BeginRowRead
  <1>3. CASE /\ pc' = "batch" /\ \E e \in batch : Snapshot(conversation[e])
             /\ UNCHANGED rowVars
    BY <1>1, <1>3, CallBeginsRead
  <1>4. CASE Abort
    BY <1>1, <1>4, AbortRests, SameRows, RestsRead
  <1>5. ASSUME StartRow PROVE \E e \in batch : BeginRow(e)
    BY <1>5, OldestSub DEF StartRow
  <1>6. QED
    BY <1>2, <1>3, <1>4, <1>5 DEF StartBatch

\* A batch that is not retried row by row fails the rows without output: those
\* it could not open, and those that carry no message.
LEMMA BatchRead ==
  ASSUME Calm, Inv, OrderInv, ReadInv, BatchReturns
  PROVE  ReadInv'
  <1>1. UNCHANGED tables /\ pc = "batch"
    BY DEF BatchReturns
  <1>2. PICK noise \in Noise, blind \in Flag("blind") :
          LET F == Unverified(batch, noise, blind)
          IN \/ pc' = "turn" /\ UNCHANGED <<rowVars, batch>>
             \/ Settle(batch \ F, F, Outputs(batch) \ F) /\ Continue({})
    BY DEF BatchReturns
  <1> DEFINE F == Unverified(batch, noise, blind)
  <1>3. F \subseteq batch /\ \A e \in F : ~Opened(e) \/ MessageOf[e] = None
    BY NoFlags DEF Unverified, Outputs
  <1>4. Unread(F)
    <2>1. InCall = batch
      BY <1>1 DEF InCall
    <2>2. ASSUME NEW e \in F PROVE Unread({e})
      <3>1. CASE ~Opened(e)
        BY <1>3, <2>1, <3>1, UnopenedIsUnread
      <3>2. CASE MessageOf[e] = None
        BY <3>2 DEF Unread, Readable
      <3>3. QED
        BY <1>3, <3>1, <3>2
    <2>3. QED
      BY <2>2 DEF Unread
  <1>5. (batch \ F) \cup F \subseteq Eligible
    BY <1>3 DEF Inv, DrainInv, HandIsOpen, InHand
  <1> HIDE DEF F
  <1>6. CASE pc' = "turn" /\ UNCHANGED <<rowVars, batch>>
    <2>1. Rests
      BY <1>1, <1>6 DEF Rests, OrderInv, OneConversation, tables, deliverVars
    <2>2. QED
      BY <1>1, <1>6, <2>1, SameRows, RestsRead
  <1>7. CASE Settle(batch \ F, F, Outputs(batch) \ F) /\ Continue({})
    <2>1. Rests
      BY <1>1, <1>7, ContinueRests DEF OrderInv, tables, deliverVars
    <2>2. Fresh' /\ Placed' /\ GivenUpIsUnreadable'
      BY <1>1, <1>4, <1>5, <1>7, SettleRead
    <2>3. QED
      BY <2>1, <2>2, RestsRead
  <1>8. QED
    BY <1>2, <1>6, <1>7 DEF F

LEMMA RowRead ==
  ASSUME Calm, Inv, OrderInv, ReadInv, RowReturns \/ AgainReturns
  PROVE  ReadInv'
  <1>1. UNCHANGED tables /\ pc \in {"row", "again"}
    BY DEF RowReturns, AgainReturns
  <1>2. current \in batch /\ current \in InCall
    BY <1>1 DEF Inv, DrainInv, CallInv, InCall
  <1>3. PICK noise \in Noise, blind \in Flag("blind") :
          \/ /\ Unverified({current}, noise, blind) # {}
             /\ \/ RowFails(current, "other")
                \/ AskForKeys("other")
          \/ AcceptResult(current, blind)
    BY DEF RowReturns, AgainReturns, FirstCallFails
  <1>4. ~noise /\ blind = FALSE
    BY NoFlags DEF Flag
  <1>5. ASSUME Unverified({current}, noise, blind) # {} PROVE ~Opened(current)
    BY <1>4, <1>5 DEF Unverified, Errors
  <1>6. CASE ~Opened(current) /\ RowFails(current, "other")
    <2>1. Unread({current})
      BY <1>2, <1>6, UnopenedIsUnread
    <2>2. QED
      BY <1>1, <1>2, <1>6, <2>1, RowFailsRead
  <1>7. CASE ~Opened(current) /\ AskForKeys("other")
    <2>1. Fresh' /\ Placed' /\ GivenUpIsUnreadable'
      BY <1>1, <1>7, SameRows DEF AskForKeys
    <2>2. InCall' = InCall /\ UNCHANGED <<status, signingKeys, callKeys>>
      BY <1>1, <1>7 DEF AskForKeys, InCall, rowVars, tables, keyVars
    <2>3. CallHasSigners' /\ RefreshAfterFailure'
      BY <1>7, <2>2 DEF ReadInv, CallHasSigners, RefreshAfterFailure, AskForKeys, Opened
    <2>4. QED
      BY <2>1, <2>3 DEF ReadInv
  <1>8. CASE AcceptResult(current, FALSE)
    BY <1>1, <1>2, <1>8, AcceptResultRead
  <1>9. QED
    BY <1>3, <1>4, <1>5, <1>6, <1>7, <1>8

\* A failed row that new keys do not reset is not signed by one of them.
LEMMA KeyIsKnown ==
  ASSUME Calm, NEW ks \in KeyLists, NEW e \in Failed \ Unlocked(ks),
         SenderOf[e] # None, KeyOf[e] \in Upsert(ks)
  PROVE  KeyOf[e] \in signingKeys
  <1>1. e \in Event /\ OwnerOf[KeyOf[e]] = SenderOf[e]
    BY DEF Failed, Calm
  <1>2. SenderOf[e] \notin Owners(ks \ signingKeys)
    BY DEF Unlocked
  <1>3. KeyOf[e] \notin ks \ signingKeys
    BY <1>1, <1>2 DEF Owners
  <1>4. QED
    BY <1>3 DEF Upsert

\* A key change that comes now is dated later than every failed row.
KeyChangesLater ==
  \A e \in Failed, k \in KeyEvent :
    keyEvents'[k] # None /\ keyReceived'[k] <= received'[e] =>
      keyEvents[k] # None /\ keyReceived[k] <= received[e]

\* Keys, key changes and the identity reset the failed rows that they help.
LEMMA PendRead ==
  ASSUME Calm, Inv, ReadInv, NEW ks \in KeyLists, NEW E, Pend(E),
         Unlocked(ks) \subseteq E, signingKeys' = Upsert(ks),
         ~configured => ~configured' \/ Failed \subseteq E,
         KeyChangesLater, Placed',
         InCall' = InCall, callKeys' \in {callKeys, signingKeys'},
         pc' = "refresh" => pc = "refresh" /\ UNCHANGED <<current, callKeys, callKeyEvents>>
  PROVE  ReadInv'
  <1>1. Fresh'
    BY DEF Pend, ReadInv, Fresh
  <1>2. \A e \in Event : status'[e] = "failed" => /\ e \in Failed \ E
                                                  /\ attempts'[e] = attempts[e]
    BY DEF Pend, Failed
  <1>3. \A e \in Failed \ E : SenderOf[e] # None /\ KeyOf[e] \in signingKeys' =>
          KeyOf[e] \in signingKeys
    BY KeyIsKnown
  <1>4. GivenUpIsUnreadable'
    <2> SUFFICES ASSUME NEW e \in Event, GivenUp(e)', Readable(e)' PROVE FALSE
      BY DEF GivenUpIsUnreadable
    <2>1. e \in Failed \ E /\ attempts[e] = MaxAttempts
      BY <1>2 DEF GivenUp
    <2>2. GivenUp(e)
      BY <2>1 DEF GivenUp, Failed
    <2>3. configured /\ SenderOf[e] # None /\ KeyOf[e] \in signingKeys /\ MessageOf[e] # None
      BY <1>3, <2>1 DEF Readable
    <2>4. KeyEventOf[e] \in KeyEvent \cup {None}
      BY EventsAssumption
    <2>5. Readable(e)
      BY <2>1, <2>3, <2>4 DEF Readable, KeyChangesLater
    <2>6. QED
      BY <2>2, <2>5 DEF ReadInv, GivenUpIsUnreadable
  <1>5. CallHasSigners'
    <2>1. InCall \subseteq Event
      BY DEF InCall, Inv, DrainInv, CallInv, HandIsOpen, InHand, Eligible
    <2>2. SUFFICES ASSUME NEW e \in InCall, status'[e] = "failed",
                          SenderOf[e] # None, KeyOf[e] \in signingKeys'
                   PROVE  KeyOf[e] \in callKeys'
      BY DEF CallHasSigners
    <2>3. e \in Failed \ E /\ KeyOf[e] \in signingKeys
      BY <1>2, <1>3, <2>1, <2>2
    <2>4. KeyOf[e] \in callKeys
      BY <2>2, <2>3 DEF ReadInv, CallHasSigners, Failed
    <2>5. QED
      BY <2>2, <2>4
  <1>6. RefreshAfterFailure'
    BY DEF ReadInv, RefreshAfterFailure, Opened
  <1>7. QED
    BY <1>1, <1>4, <1>5, <1>6 DEF ReadInv

\* The same, of a step that delivers nothing.
LEMMA KeysRead ==
  ASSUME Calm, Inv, ReadInv, NEW ks \in KeyLists, NEW E \in SUBSET Failed, Pend(E),
         Unlocked(ks) \subseteq E, signingKeys' = Upsert(ks),
         ~configured => ~configured' \/ Failed \subseteq E,
         InCall' = InCall, callKeys' \in {callKeys, signingKeys'},
         pc' = "refresh" => pc = "refresh" /\ UNCHANGED <<current, callKeys, callKeyEvents>>,
         UNCHANGED deliverVars
  PROVE  ReadInv'
  <1>1. KeyChangesLater
    BY DEF KeyChangesLater, deliverVars
  <1>2. Placed'
    BY DEF ReadInv, Placed, Pend, Failed, deliverVars
  <1>3. QED
    BY <1>1, <1>2, PendRead

LEMMA KeysArriveRead ==
  ASSUME Calm, Inv, OrderInv, ReadInv, NEW ks \in KeyLists, KeysArrive(ks)
  PROVE  ReadInv'
  <1>1. current \in batch /\ current \in InCall /\ ~Opened(current)
    BY DEF KeysArrive, Inv, DrainInv, CallInv, InCall, ReadInv, RefreshAfterFailure
  <1>2. CASE RowFails(current, cause) /\ UNCHANGED tables
    <2>1. Unread({current})
      BY <1>1, UnopenedIsUnread
    <2>2. QED
      BY <1>1, <1>2, <2>1, RowFailsRead
  <1>3. CASE /\ signingKeys' = Upsert(ks) /\ Pend(Unlocked(ks))
             /\ pc = "refresh" /\ pc' = "again" /\ callKeys' = signingKeys'
             /\ UNCHANGED <<deliverVars, configured, current>>
    <2>1. InCall' = InCall /\ Unlocked(ks) \in SUBSET Failed
      BY <1>3 DEF InCall, Unlocked
    <2>2. QED
      BY <1>3, <2>1, KeysRead
  <1>4. QED
    BY <1>2, <1>3 DEF KeysArrive

LEMMA DrainRead ==
  ASSUME Calm, Inv, OrderInv, ReadInv, DrainStep
  PROVE  ReadInv'
  <1>1. CASE BatchThrows
    BY <1>1, AbortRests, SameRows, RestsRead DEF BatchThrows
  <1>2. ~(RowThrows \/ ProviderThrows \/ AgainThrows)
    BY NoFlags DEF RowThrows, ProviderThrows, AgainThrows
  <1>3. QED
    BY <1>1, <1>2, StartRead, BatchRead, RowRead, KeysArriveRead DEF DrainStep

LEMMA RequestRead ==
  ASSUME Calm, Inv, OrderInv, ReadInv, NEW n \in Limits, ProcessPending(n)
  PROVE  ReadInv'
  <1>1. UNCHANGED tables
    BY DEF ProcessPending
  <1>2. CASE UNCHANGED <<rowVars, pc, workVars, callVars>>
    <2>1. Fresh' /\ Placed' /\ GivenUpIsUnreadable'
      BY <1>1, <1>2, SameRows
    <2>2. /\ InCall' = InCall
          /\ UNCHANGED <<status, pc, current, callKeys, callKeyEvents, signingKeys>>
      BY <1>1, <1>2 DEF InCall, rowVars, workVars, callVars, tables, keyVars
    <2>3. CallHasSigners' /\ RefreshAfterFailure'
      BY <2>2 DEF ReadInv, CallHasSigners, RefreshAfterFailure, Opened
    <2>4. QED
      BY <2>1, <2>3 DEF ReadInv
  <1>3. CASE GiveUp(MissingKey) /\ Select(n, Cardinality(MissingKey))
    <2>1. \A e \in Event : Readable(e)' = Readable(e)
      BY <1>1 DEF Readable, tables, deliverVars, keyVars
    <2>2. \A e \in MissingKey : ~Readable(e)
      BY DEF MissingKey, Eligible, Owners, Readable, Calm
    <2>3. GivenUpIsUnreadable'
      BY <1>3, <2>1, <2>2 DEF GiveUp, GivenUp, ReadInv, GivenUpIsUnreadable
    <2>4. Fresh' /\ Placed'
      BY <1>1, <1>3 DEF GiveUp, MissingKey, Eligible, ReadInv, Fresh, Placed,
                        tables, deliverVars
    <2>5. Rests
      BY <1>1, <1>3, SelectRests DEF tables, deliverVars
    <2>6. QED
      BY <2>3, <2>4, <2>5, RestsRead
  <1>4. QED
    BY <1>2, <1>3 DEF ProcessPending

\* A delivery files rows and key changes where they belong, after all others.
LEMMA DeliverRead ==
  ASSUME Calm, Inv, OrderInv, ReadInv, NEW c \in Conversation, NEW E \in About(Event, c),
         NEW K \in About(KeyEvent, c), NEW src, Deliver(c, E, K, src),
         \A e \in Event \ NewRows(E) : status[e] = "absent" => status'[e] = "absent"
  PROVE  Placed' /\ KeyChangesLater
  <1>1. \A x \in E \cup K : ConversationOf[x] = c
    BY EventsAssumption DEF About, Calm
  <1>2. \A e \in Event : /\ e \in NewRows(E) => conversation'[e] = c
                         /\ e \notin NewRows(E) => /\ conversation'[e] = conversation[e]
                                                   /\ received'[e] = received[e]
    BY DEF Deliver
  <1>3. \A k \in KeyEvent : /\ k \in NewKeyEvents(K) => /\ keyEvents'[k] = c
                                                        /\ keyReceived'[k] = clock + 1
                            /\ k \notin NewKeyEvents(K) => /\ keyEvents'[k] = keyEvents[k]
                                                           /\ keyReceived'[k] = keyReceived[k]
    BY DEF Deliver
  <1>4. Placed'
    <2>1. \A e \in Event : status'[e] # "absent" => conversation'[e] = ConversationOf[e]
      BY <1>1, <1>2 DEF NewRows, ReadInv, Placed
    <2>2. \A k \in KeyEvent : keyEvents'[k] \in {None, ConversationOf[k]}
      BY <1>1, <1>3 DEF NewKeyEvents, ReadInv, Placed
    <2>3. QED
      BY <2>1, <2>2 DEF Placed
  <1>5. KeyChangesLater
    <2> SUFFICES ASSUME NEW e \in Failed, NEW k \in KeyEvent,
                        keyEvents'[k] # None, keyReceived'[k] <= received'[e]
                 PROVE  keyEvents[k] # None /\ keyReceived[k] <= received[e]
      BY DEF KeyChangesLater
    <2>1. e \in Event /\ e \notin NewRows(E)
      BY DEF Failed, NewRows
    <2>2. received'[e] = received[e] /\ received[e] <= clock
      BY <1>2, <2>1 DEF OrderInv, Dated
    <2>3. clock \in Nat /\ received[e] \in Nat
      BY <2>1 DEF Inv, DeliveriesOK
    <2>4. k \notin NewKeyEvents(K)
      BY <1>3, <2>2, <2>3
    <2>5. QED
      BY <1>3, <2>2, <2>4
  <1>6. QED
    BY <1>4, <1>5

LEMMA WritersRead ==
  ASSUME Calm, Inv, OrderInv, ReadInv, Writers
  PROVE  ReadInv'
  <1>1. ASSUME UNCHANGED drainVars
        PROVE  /\ InCall' = InCall /\ callKeys' = callKeys /\ pc' = pc
               /\ UNCHANGED <<current, callKeyEvents>>
    BY <1>1 DEF InCall, drainVars, workVars, callVars
  <1>2. {} \in KeyLists /\ Unlocked({}) = {} /\ Upsert({}) = signingKeys
    BY DEF KeyLists, Unlocked, Owners, Upsert
  <1>3. ASSUME NEW c \in Conversation, NEW E \in About(Event, c),
               NEW K \in About(KeyEvent, c), AcceptWebhook(c, E, K)
        PROVE  ReadInv'
    <2>1. /\ Deliver(c, E, K, "webhook") /\ Pend(NewRows(E))
          /\ UNCHANGED <<signingKeys, configured, drainVars>>
      BY <1>3 DEF AcceptWebhook
    <2>2. Placed' /\ KeyChangesLater
      BY <2>1, DeliverRead DEF Pend
    <2>3. QED
      BY <1>1, <1>2, <2>1, <2>2, PendRead
  <1>4. ASSUME NEW c \in Conversation, NEW E \in About(Event, c),
               NEW K \in About(KeyEvent, c), NEW ks \in KeyLists,
               NEW identity \in BOOLEAN, IngestBackfill(c, E, K, ks, identity)
        PROVE  ReadInv'
    <2> DEFINE R == NewRows(E) \cup IF identity THEN Failed ELSE Unlocked(ks)
    <2>1. /\ Deliver(c, E, K, "backfill") /\ Pend(R) /\ signingKeys' = Upsert(ks)
          /\ configured' = (configured \/ identity) /\ UNCHANGED drainVars
      BY <1>4 DEF IngestBackfill
    <2>2. /\ Unlocked(ks) \subseteq R
          /\ identity => Failed \subseteq R
          /\ \A e \in R \ NewRows(E) : status[e] = "failed"
      BY DEF Unlocked, Failed
    <2> HIDE DEF R
    <2>3. \A e \in Event \ NewRows(E) : status[e] = "absent" => status'[e] = "absent"
      BY <2>1, <2>2 DEF Pend
    <2>4. Placed' /\ KeyChangesLater
      BY <2>1, <2>3, DeliverRead
    <2>5. ~configured => ~configured' \/ Failed \subseteq R
      BY <2>1, <2>2
    <2>6. QED
      BY <1>1, <2>1, <2>2, <2>4, <2>5, PendRead
  <1>5. ASSUME NEW ks \in KeyLists, AddSigningKeys(ks) PROVE ReadInv'
    <2>1. Unlocked(ks) \in SUBSET Failed
      BY DEF Unlocked
    <2>2. QED
      BY <1>1, <1>5, <2>1, KeysRead DEF AddSigningKeys
  <1>6. ASSUME NEW ks \in KeyLists, NEW C \in SUBSET Conversation, Configure(ks, C)
        PROVE  ReadInv'
    <2>1. Unlocked(ks) \subseteq Failed
      BY DEF Unlocked
    <2>2. QED
      BY <1>1, <1>6, <2>1, KeysRead DEF Configure
  <1>7. QED
    BY <1>3, <1>4, <1>5, <1>6 DEF Writers, Deliveries

LEMMA ReopenRead ==
  ASSUME Calm, Inv, ReadInv, Reopen
  PROVE  ReadInv'
  <1>1. \A e \in Event : Moved(conversation[e]) = conversation[e]
    BY DEF Moved, Calm, Inv, DeliveriesOK
  <1>2. conversation' = conversation
    BY <1>1 DEF Reopen, Inv, DeliveriesOK
  <1>3. Fresh' /\ Placed' /\ GivenUpIsUnreadable'
    <2>1. UNCHANGED <<rowVars, tables>>
      BY <1>2 DEF Reopen, tables, deliverVars
    <2>2. QED
      BY <2>1, SameRows
  <1>4. Rests
    BY DEF Reopen, Rests, OneConversation
  <1>5. QED
    BY <1>3, <1>4, RestsRead

LEMMA ReadStep == Calm /\ Inv /\ OrderInv /\ ReadInv /\ [Next]_vars => ReadInv'
  <1> SUFFICES ASSUME Calm, Inv, OrderInv, ReadInv, [Next]_vars PROVE ReadInv'
    OBVIOUS
  <1>1. CASE UNCHANGED vars
    <2>1. /\ InCall' = InCall
          /\ UNCHANGED <<rowVars, tables, status, signingKeys, pc, current, callKeys,
                         callKeyEvents>>
      BY <1>1 DEF vars, InCall, rowVars, tables, keyVars, drainVars, workVars, callVars
    <2>2. Fresh' /\ Placed' /\ GivenUpIsUnreadable'
      BY <2>1, SameRows
    <2>3. CallHasSigners' /\ RefreshAfterFailure'
      BY <2>1 DEF ReadInv, CallHasSigners, RefreshAfterFailure, Opened
    <2>4. QED
      BY <2>2, <2>3 DEF ReadInv
  <1>2. QED
    BY <1>1, WritersRead, DrainRead, RequestRead, ReopenRead DEF Next, Request

LEMMA ReadAlways ==
  ASSUME Calm
  PROVE  Spec => []ReadInv
  <1>1. Init => ReadInv
    BY DEF Init, NothingInHand, ReadInv, Fresh, Placed, CallHasSigners, InCall,
           RefreshAfterFailure, GivenUpIsUnreadable, GivenUp
  <1>2. Inv /\ OrderInv /\ ReadInv /\ [Next]_vars => ReadInv'
    BY ReadStep
  <1>3. QED
    BY <1>1, <1>2, InvAlways, OrderAlways, PTL DEF Spec

\* Where calls fail only for want of keys, no message is given up for good that
\* could be read with the keys, key changes and identity that are stored, however
\* these arrive between the awaits of the calls that failed.
THEOREM NothingReadableGivenUp == Calm => (Spec => []GivenUpIsUnreadable)
  <1> SUFFICES ASSUME Calm PROVE Spec => []GivenUpIsUnreadable
    OBVIOUS
  <1>1. Spec => []ReadInv
    BY ReadAlways
  <1>2. ReadInv => GivenUpIsUnreadable
    BY DEF ReadInv
  <1>3. QED
    BY <1>1, <1>2, PTL
=============================================================================
