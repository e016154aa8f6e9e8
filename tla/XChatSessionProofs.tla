------------------------- MODULE XChatSessionProofs -------------------------
(***************************************************************************)
(* Safety of the shared decryptor session, for any number of calls,        *)
(* identities and key lists.                                               *)
(***************************************************************************)
EXTENDS XChatSession, TLAPS

\* The session that the next call would share has not failed.
CurrentSessionLives == session # 0 => Live(session)

\* What the properties rest on: sessions are numbered in the order of their
\* creation, so a new one is nobody's yet; the fingerprint tells whose the
\* current session is.
SessionInv ==
  /\ SessionTypeOK
  /\ session <= created
  /\ \A c \in Caller : call[c].at = "waiting" => call[c].on \in 1..created
  /\ session # 0 => owner[session] = fingerprint
  /\ CurrentSessionLives
  /\ \A s \in Sessions : s > created => state[s] = "absent"
  /\ OwnSession

LEMMA WaitOk ==
  ASSUME NEW c \in Caller, NEW s \in Sessions, NEW i \in Identity,
         NEW w \in KeyList \cup {None}, NEW b \in BOOLEAN,
         call \in [Caller -> Calls], Wait(c, s, i, w, b)
  PROVE  /\ call' \in [Caller -> Calls]
         /\ call'[c].on = s /\ call'[c].identity = i
         /\ \A d \in Caller : d # c => call'[d] = call[d]
  BY DEF Wait, Calls, Sessions

LEMMA ReturnOk ==
  ASSUME NEW c \in Caller, NEW w \in KeyList \cup {None},
         NEW u \in KeyList \cup {None},
         call \in [Caller -> Calls], Return(c, w, u)
  PROVE  /\ call' \in [Caller -> Calls]
         /\ call'[c].at = "idle" /\ call'[c].wants = w /\ call'[c].used = u
         /\ \A d \in Caller : d # c => call'[d] = call[d]
  <1>1. 0 \in 0..MaxSessions
    BY SessionAssumption
  <1>2. /\ Idle(w, u) \in Calls /\ Idle(w, u).at = "idle"
        /\ Idle(w, u).wants = w /\ Idle(w, u).used = u
    BY <1>1 DEF Calls, Idle
  <1>3. QED
    BY <1>2 DEF Return

\* getSession with the invariant: both its outcomes.
LEMMA GetSessionInv ==
  ASSUME SessionInv, NEW c \in Caller, NEW i \in Identity,
         NEW w \in KeyList \cup {None}, NEW b \in BOOLEAN,
         GetSession(c, i, w, b)
  PROVE  SessionInv'
  <1>1. CASE session # 0 /\ fingerprint = i
    <2>1. Share(c, i, w, b)
      BY <1>1 DEF GetSession
    <2>2. session \in Sessions /\ session \in 1..created
      BY <1>1, SessionAssumption DEF SessionInv, SessionTypeOK, Sessions
    <2>3. UNCHANGED <<decryptorVars, sessionVars, strayed>> /\ Wait(c, session, i, w, b)
      BY <2>1 DEF Share
    <2>4. /\ call' \in [Caller -> Calls]
          /\ call'[c].on = session /\ call'[c].identity = i
          /\ \A d \in Caller : d # c => call'[d] = call[d]
      BY <2>2, <2>3, WaitOk DEF SessionInv, SessionTypeOK
    <2>5. owner[session] = i
      BY <1>1 DEF SessionInv
    <2>6. SessionTypeOK'
      BY <2>3, <2>4 DEF SessionInv, SessionTypeOK, decryptorVars, sessionVars
    <2>7. QED
      BY <2>2, <2>3, <2>4, <2>5, <2>6
         DEF SessionInv, CurrentSessionLives, Live, OwnSession, decryptorVars, sessionVars
  <1>2. CASE ~(session # 0 /\ fingerprint = i)
    <2> DEFINE n == created + 1
    <2>1. Create(c, i, w, b)
      BY <1>2 DEF GetSession
    <2>2. n \in Sessions /\ created \in Nat
      BY <2>1, SessionAssumption DEF Create, SessionInv, SessionTypeOK, Sessions
    <2>3. /\ call' \in [Caller -> Calls]
          /\ call'[c].on = n /\ call'[c].identity = i
          /\ \A d \in Caller : d # c => call'[d] = call[d]
      <3>1. Wait(c, n, i, w, b)
        BY <2>1 DEF Create
      <3>2. call \in [Caller -> Calls] /\ n \in Sessions
        BY <2>2 DEF SessionInv, SessionTypeOK
      <3> HIDE DEF n
      <3>3. QED
        BY <3>1, <3>2, WaitOk
    <2>4. /\ created' = n /\ session' = n /\ fingerprint' = i /\ installed' = None
          /\ state' = [state EXCEPT ![n] = "unlocking"]
          /\ owner' = [owner EXCEPT ![n] = i]
          /\ keys' = keys
      BY <2>1 DEF Create
    <2>5. SessionTypeOK'
      <3>1. strayed' \in BOOLEAN
        BY <2>1 DEF Create
      <3>2. n \in 0..MaxSessions /\ i \in Identity \cup {None}
        BY <2>2, SessionAssumption DEF Sessions
      <3>3. /\ state' \in [Sessions -> {"absent", "unlocking", "ready", "failed"}]
            /\ owner' \in [Sessions -> Identity \cup {None}]
        BY <2>2, <2>4, <3>2 DEF SessionInv, SessionTypeOK
      <3> HIDE DEF n
      <3>4. QED
        BY <2>3, <2>4, <3>1, <3>2, <3>3 DEF SessionInv, SessionTypeOK
    <2>6. state'[n] = "unlocking" /\ owner'[n] = i
      BY <2>2, <2>4 DEF SessionInv, SessionTypeOK
    <2>7. ASSUME NEW d \in Caller, call'[d].at = "waiting"
          PROVE  call'[d].on \in 1..created' /\ owner'[call'[d].on] = call'[d].identity
      <3>1. CASE d = c
        BY <3>1, <2>2, <2>3, <2>4, <2>6
      <3>2. CASE d # c
        <4>1. call[d].at = "waiting" /\ call'[d] = call[d]
          BY <3>2, <2>3, <2>7
        <4>2. call[d].on \in 1..created /\ owner[call[d].on] = call[d].identity
          BY <4>1 DEF SessionInv, OwnSession
        <4>3. call[d].on \in Sessions /\ call[d].on # n
          BY <4>2, <2>2, SessionAssumption DEF Sessions
        <4>4. QED
          BY <4>1, <4>2, <4>3, <2>2, <2>4 DEF SessionInv, SessionTypeOK
      <3>3. QED
        BY <3>1, <3>2
    <2>8. CurrentSessionLives' /\ OwnSession' /\ session' <= created'
      BY <2>2, <2>4, <2>6, <2>7 DEF CurrentSessionLives, Live, OwnSession
    <2>9. \A s \in Sessions : s > created' => state'[s] = "absent"
      <3>1. \A s \in Sessions : s > n => s \in Int /\ s # n /\ s > created
        BY <2>2 DEF Sessions
      <3>2. QED
        BY <2>2, <2>4, <3>1 DEF SessionInv, SessionTypeOK
    <2>10. QED
      BY <2>4, <2>5, <2>6, <2>7, <2>8, <2>9 DEF SessionInv
  <1>3. QED
    BY <1>1, <1>2

\* A step in which sessions and owners stay, and no other call starts waiting.
LEMMA CallEndsInv ==
  ASSUME SessionInv, NEW c \in Caller,
         UNCHANGED <<session, fingerprint, created, state, owner>>,
         installed' \in KeyList \cup {None},
         keys' \in [Sessions -> KeyList \cup {None}], strayed' \in BOOLEAN,
         call' \in [Caller -> Calls],
         call'[c].at # "waiting",
         \A d \in Caller : d # c => call'[d] = call[d]
  PROVE  SessionInv'
  BY DEF SessionInv, SessionTypeOK, CurrentSessionLives, Live, OwnSession

\* A session settles, and stays current only if it is unlocked.
LEMMA SettledInv ==
  ASSUME SessionInv, NEW s \in Sessions, Unlocks(s) \/ UnlockFails(s)
  PROVE  SessionInv'
  <1>1. CASE Unlocks(s)
    BY <1>1 DEF Unlocks, SessionInv, SessionTypeOK, CurrentSessionLives, Live, OwnSession,
                decryptorVars
  <1>2. CASE UnlockFails(s)
    <2>1. 0 \in 0..MaxSessions /\ created \in Nat
      BY SessionAssumption DEF SessionInv, SessionTypeOK
    <2>2. /\ session' = 0 /\ fingerprint' = None /\ installed' = None
          /\ state' = [state EXCEPT ![s] = "failed"] /\ state[s] = "unlocking"
          /\ UNCHANGED <<created, owner, keys, call>>
      BY <1>2 DEF UnlockFails
    <2>3. SessionTypeOK'
      <3>1. strayed' \in BOOLEAN
        BY <1>2 DEF UnlockFails
      <3>2. QED
        BY <2>1, <2>2, <3>1 DEF SessionInv, SessionTypeOK
    <2>4. \A u \in Sessions : u > created' => state'[u] = "absent"
      BY <2>2 DEF SessionInv, SessionTypeOK
    <2>5. QED
      BY <2>1, <2>2, <2>3, <2>4 DEF SessionInv, CurrentSessionLives, OwnSession
  <1>3. QED
    BY <1>1, <1>2

LEMMA StepInv ==
  ASSUME SessionInv, NEW c \in Caller, Step(c)
  PROVE  SessionInv'
  <1>1. call[c] \in Calls /\ call \in [Caller -> Calls] /\ None \in KeyList \cup {None}
    BY DEF SessionInv, SessionTypeOK
  <1>2. CASE Prepared(c) \/ RefreshFails(c)
    <2>1. Return(c, None, None) /\ UNCHANGED <<decryptorVars, sessionVars, strayed>>
      BY <1>2 DEF Prepared, RefreshFails
    <2>2. QED
      BY <2>1, <1>1, ReturnOk, CallEndsInv
         DEF SessionInv, SessionTypeOK, decryptorVars, sessionVars
  <1>3. CASE Decrypts(c)
    <2>1. call[c].on \in 1..created /\ created \in 0..MaxSessions
      BY <1>3 DEF Decrypts, SessionInv, SessionTypeOK
    <2>2. call[c].on \in Sessions
      BY <2>1, SessionAssumption DEF Sessions
    <2>3. call[c].wants \in KeyList \cup {None}
      BY <1>1 DEF Calls
    <2>4. keys' \in [Sessions -> KeyList \cup {None}] /\ installed' \in KeyList \cup {None}
      BY <1>3, <2>2, <2>3 DEF Decrypts, SessionInv, SessionTypeOK
    <2>5. Return(c, call[c].wants, keys'[call[c].on])
      BY <1>3 DEF Decrypts
    <2>6. /\ call' \in [Caller -> Calls] /\ call'[c].at = "idle"
          /\ \A d \in Caller : d # c => call'[d] = call[d]
      BY <2>2, <2>3, <2>4, <2>5, <1>1, ReturnOk
    <2>7. UNCHANGED <<session, fingerprint, created, state, owner>>
      BY <1>3 DEF Decrypts
    <2>8. strayed' \in BOOLEAN
      BY <1>3 DEF Decrypts
    <2>9. QED
      BY <2>4, <2>6, <2>7, <2>8, CallEndsInv
  <1>4. CASE SessionFailed(c)
    <2>1. /\ call' \in [Caller -> Calls] /\ call'[c].at # "waiting"
          /\ \A d \in Caller : d # c => call'[d] = call[d]
      <3>1. CASE call' = [call EXCEPT ![c].at = "refreshing"]
        BY <3>1, <1>1, SessionAssumption DEF Calls
      <3>2. CASE Return(c, None, None)
        BY <3>2, <1>1, ReturnOk
      <3>3. QED
        BY <3>1, <3>2, <1>4 DEF SessionFailed
    <2>2. UNCHANGED <<decryptorVars, sessionVars, strayed>>
      BY <1>4 DEF SessionFailed
    <2>3. QED
      BY <2>1, <2>2, CallEndsInv DEF SessionInv, SessionTypeOK, decryptorVars, sessionVars
  <1>5. QED
    BY <1>2, <1>3, <1>4 DEF Step

LEMMA SessionInductive == Spec => []SessionInv
  <1>1. Init => SessionInv
    <2> SUFFICES ASSUME Init PROVE SessionInv
      OBVIOUS
    <2>1. 0 \in 0..MaxSessions
      BY SessionAssumption
    <2>2. Idle(None, None) \in Calls /\ Idle(None, None).at = "idle"
      BY <2>1 DEF Idle, Calls
    <2>3. strayed \in BOOLEAN
      BY DEF Init
    <2>4. SessionTypeOK
      BY <2>1, <2>2, <2>3 DEF Init, SessionTypeOK
    <2>5. QED
      BY <2>2, <2>4 DEF Init, SessionInv, CurrentSessionLives, OwnSession
  <1>2. SessionInv /\ [Next]_vars => SessionInv'
    <2> SUFFICES ASSUME SessionInv, [Next]_vars PROVE SessionInv'
      OBVIOUS
    <2>1. CASE UNCHANGED vars
      BY <2>1 DEF vars, decryptorVars, sessionVars, SessionInv, SessionTypeOK,
                  CurrentSessionLives, Live, OwnSession
    <2>2. ASSUME NEW c \in Caller, NEW i \in Identity, NEW w \in KeyList \cup {None},
                 Begin(c, i, w)
          PROVE  SessionInv'
      BY <2>2, GetSessionInv DEF Begin
    <2>3. ASSUME NEW s \in Sessions, Unlocks(s) \/ UnlockFails(s)
          PROVE  SessionInv'
      BY <2>3, SettledInv
    <2>4. ASSUME NEW c \in Caller, Step(c)
          PROVE  SessionInv'
      BY <2>4, StepInv
    <2>5. ASSUME NEW c \in Caller, NEW i \in Identity, Refreshed(c, i)
          PROVE  SessionInv'
      <3>1. call[c].wants \in KeyList \cup {None}
        BY DEF SessionInv, SessionTypeOK, Calls
      <3>2. QED
        BY <2>5, <3>1, GetSessionInv DEF Refreshed
    <2>6. QED
      BY <2>1, <2>2, <2>3, <2>4, <2>5 DEF Next
  <1>3. QED
    BY <1>1, <1>2, PTL DEF Spec

\* A call waits only for a session that was created for its own identity,
\* though other calls may have replaced it (the test at xchat.js:230).
THEOREM WaitsForOwnSession == Spec => []OwnSession
  BY SessionInductive, PTL DEF SessionInv

\* The decryptor, its sessions and calls keep their types.
THEOREM SessionTypeCorrect == Spec => []SessionTypeOK
  BY SessionInductive, PTL DEF SessionInv

-----------------------------------------------------------------------------
(* One unlock.  The inductive strengthening of OneUnlock: every live session  *)
(* is the current one, or is lost to a session created next.                  *)

UnlockInv ==
  /\ OneUnlock
  /\ \A s \in Sessions : Live(s) => s = session \/ LostBefore(s, created + 1)

\* A session that has failed stays so, and sessions keep their owners: what is
\* lost is never found again.
LEMMA LostStays ==
  ASSUME SessionInv, NEW s \in Sessions, NEW t \in Int, t <= created + 1,
         \A r \in 1..created : /\ owner'[r] = owner[r]
                               /\ state[r] = "failed" => state'[r] = "failed",
         owner'[s] = owner[s], LostBefore(s, t)
  PROVE  LostBefore(s, t)'
  <1>1. created \in Int
    BY SessionAssumption DEF SessionInv, SessionTypeOK
  <1>2. PICK r \in 1..(t - 1) :
          owner[r] # owner[s] /\ (r > s \/ \E q \in 1..r : state[q] = "failed")
    BY DEF LostBefore
  <1>3. r \in 1..created /\ \A q \in 1..r : q \in 1..created
    BY <1>1, <1>2
  <1>4. QED
    BY <1>2, <1>3 DEF LostBefore

\* No session starts to live in a step that keeps the sessions and owners.
LEMMA SameSessionsUnlock ==
  ASSUME SessionInv, UnlockInv, UNCHANGED <<session, created, owner>>,
         \A s \in Sessions : /\ Live(s)' => Live(s)
                             /\ state[s] = "failed" => state'[s] = "failed"
  PROVE  UnlockInv'
  <1>1. created \in Int /\ 1..created \subseteq Sessions
    BY SessionAssumption DEF SessionInv, SessionTypeOK, Sessions
  <1>2. \A s \in Sessions, t \in Int :
          t <= created + 1 /\ LostBefore(s, t) => LostBefore(s, t)'
    BY <1>1, LostStays
  <1>3. ASSUME NEW s \in Sessions, Live(s)'
        PROVE  s = session' \/ LostBefore(s, created + 1)'
    <2> PICK n \in Int : n = created + 1
      BY <1>1
    <2>1. s = session \/ LostBefore(s, n)
      BY <1>3 DEF UnlockInv
    <2>2. LostBefore(s, n) => LostBefore(s, n)'
      BY <1>2
    <2>3. LostBefore(s, n)' => LostBefore(s, created + 1)'
      BY DEF LostBefore
    <2>4. QED
      BY <2>1, <2>2, <2>3
  <1>4. ASSUME NEW s \in Sessions, NEW t \in Sessions, s < t, owner'[s] = owner'[t],
               Live(s)', Live(t)'
        PROVE  LostBefore(s, t)'
    <2>1. LostBefore(s, t)
      BY <1>4 DEF UnlockInv, OneUnlock
    <2>2. t \in Int /\ t <= created + 1
      BY <1>1, <1>4 DEF SessionInv, Live, Sessions
    <2>3. QED
      BY <1>2, <2>1, <2>2
  <1>5. QED
    BY <1>3, <1>4 DEF UnlockInv, OneUnlock

\* A session is created only for an identity whose live sessions are all lost.
LEMMA GetSessionUnlock ==
  ASSUME SessionInv, UnlockInv, NEW c \in Caller, NEW i \in Identity,
         NEW w \in KeyList \cup {None}, NEW b \in BOOLEAN,
         GetSession(c, i, w, b)
  PROVE  UnlockInv'
  <1>1. CASE session # 0 /\ fingerprint = i
    <2>1. UNCHANGED <<session, created, owner, state>>
      BY <1>1 DEF GetSession, Share, decryptorVars, sessionVars
    <2>2. QED
      BY <2>1, SameSessionsUnlock DEF Live
  <1>2. CASE ~(session # 0 /\ fingerprint = i)
    <2>1. Create(c, i, w, b)
      BY <1>2 DEF GetSession
    <2> PICK n \in Int : n = created + 1
      BY SessionAssumption DEF SessionInv, SessionTypeOK
    <2>2. n \in Sessions /\ created \in Nat /\ 1..created \subseteq Sessions
      BY <2>1, SessionAssumption DEF Create, SessionInv, SessionTypeOK, Sessions
    <2>3. /\ created' = n /\ session' = n
          /\ state' = [state EXCEPT ![n] = "unlocking"]
          /\ owner' = [owner EXCEPT ![n] = i]
      BY <2>1 DEF Create
    <2>4. \A s \in Sessions : s # n => state'[s] = state[s] /\ owner'[s] = owner[s]
      BY <2>2, <2>3 DEF SessionInv, SessionTypeOK
    <2>5. owner'[n] = i /\ \A s \in Sessions : Live(s)' => s <= n
      <3>1. owner'[n] = i
        BY <2>2, <2>3 DEF SessionInv, SessionTypeOK
      <3>2. ASSUME NEW s \in Sessions, Live(s)' PROVE s <= n
        <4>1. CASE s = n
          BY <4>1, <2>2
        <4>2. CASE s # n
          BY <4>2, <3>2, <2>2, <2>4 DEF SessionInv, Live, Sessions
        <4>3. QED
          BY <4>1, <4>2
      <3>3. QED
        BY <3>1, <3>2
    <2>6. ASSUME NEW s \in Sessions, NEW t \in Int, s # n, t <= n, LostBefore(s, t)
          PROVE  LostBefore(s, t)'
      <3>1. \A r \in 1..created : r \in Sessions /\ r # n
        BY <2>2
      <3>2. \A r \in 1..created : /\ owner'[r] = owner[r]
                                  /\ state[r] = "failed" => state'[r] = "failed"
        BY <2>4, <3>1
      <3>3. QED
        BY <2>4, <2>6, <3>2, LostStays
    <2>7. ASSUME NEW s \in Sessions, s # n, Live(s)'
          PROVE  s < n /\ Live(s) /\ (s = session \/ LostBefore(s, n))
      <3>1. Live(s)
        BY <2>4, <2>7 DEF Live
      <3>2. s < n
        BY <2>2, <2>5, <2>7 DEF Sessions
      <3>3. QED
        BY <3>1, <3>2 DEF UnlockInv
    <2>8. ASSUME NEW s \in Sessions, Live(s)'
          PROVE  s = session' \/ LostBefore(s, created + 1)'
      <3> PICK m \in Int : m = n + 1
        OBVIOUS
      <3>m. LostBefore(s, m)' => LostBefore(s, created + 1)'
        BY <2>3 DEF LostBefore
      <3>1. CASE s = n
        BY <3>1, <2>3
      <3>2. CASE s # n /\ LostBefore(s, n)
        <4>1. LostBefore(s, n)'
          BY <2>6, <3>2
        <4>2. \A r \in 1..(n - 1) : r \in 1..(m - 1)
          OBVIOUS
        <4>3. LostBefore(s, m)'
          BY <4>1, <4>2 DEF LostBefore
        <4>4. QED
          BY <3>m, <4>3
      <3>3. CASE s # n /\ s = session
        <4>1. session # 0 /\ owner[s] = fingerprint
          BY <3>3, SessionAssumption DEF SessionInv, Sessions
        <4>2. owner'[n] # owner'[s] /\ n > s
          BY <1>2, <2>4, <2>5, <2>7, <2>8, <3>3, <4>1 DEF Sessions
        <4>3. n \in 1..(m - 1)
          BY <2>2
        <4>4. LostBefore(s, m)'
          BY <4>2, <4>3 DEF LostBefore
        <4>5. QED
          BY <3>m, <4>4
      <3>4. QED
        BY <2>7, <2>8, <3>1, <3>2, <3>3
    <2>9. ASSUME NEW s \in Sessions, NEW t \in Sessions, s < t, owner'[s] = owner'[t],
                 Live(s)', Live(t)'
          PROVE  LostBefore(s, t)'
      <3>1. s # n /\ t <= n /\ t \in Int
        BY <2>2, <2>5, <2>9 DEF Sessions
      <3>2. LostBefore(s, t)
        <4>1. CASE t = n
          <5>1. owner[s] = i
            BY <2>4, <2>5, <2>9, <3>1, <4>1
          <5>2. s # session
            BY <1>2, <5>1, SessionAssumption DEF SessionInv, Sessions
          <5>3. QED
            BY <2>7, <2>9, <3>1, <4>1, <5>2
        <4>2. CASE t # n
          BY <2>4, <2>7, <2>9, <3>1, <4>2 DEF UnlockInv, OneUnlock
        <4>3. QED
          BY <4>1, <4>2
      <3>3. QED
        BY <2>6, <3>1, <3>2
    <2>10. QED
      BY <2>8, <2>9 DEF UnlockInv, OneUnlock
  <1>3. QED
    BY <1>1, <1>2

\* The failure of f, current or not, clears the current session s.  If f is of
\* another identity, s is lost to it; else f was not current, so it was lost
\* itself, and its failure loses s to the session that took its place.
LEMMA UnlockFailsUnlock ==
  ASSUME SessionInv, UnlockInv, NEW f \in Sessions, UnlockFails(f)
  PROVE  UnlockInv'
  <1>1. /\ created' = created /\ owner' = owner
        /\ state[f] = "unlocking" /\ state' = [state EXCEPT ![f] = "failed"]
    BY DEF UnlockFails
  <1>2. created \in Nat /\ 1..created \subseteq Sessions
    BY SessionAssumption DEF SessionInv, SessionTypeOK, Sessions
  <1>3. /\ state'[f] = "failed"
        /\ \A s \in Sessions : s # f => state'[s] = state[s]
    BY <1>1 DEF SessionInv, SessionTypeOK
  <1>4. Live(f) /\ ~Live(f)' /\ f \in 1..created
    BY <1>1, <1>2, <1>3 DEF Live, SessionInv, Sessions
  <1>5. \A s \in Sessions, t \in Int :
          t <= created + 1 /\ LostBefore(s, t) => LostBefore(s, t)'
    <2>1. \A r \in 1..created : /\ owner'[r] = owner[r]
                                /\ state[r] = "failed" => state'[r] = "failed"
      BY <1>1, <1>2, <1>3
    <2>2. \A s \in Sessions : owner'[s] = owner[s]
      BY <1>1
    <2>3. QED
      BY <2>1, <2>2, LostStays
  <1>6. ASSUME NEW s \in Sessions, Live(s)'
        PROVE  LostBefore(s, created + 1)'
    <2> PICK n \in Int : n = created + 1
      BY <1>2
    <2>n. LostBefore(s, n)' => LostBefore(s, created + 1)'
      BY <1>1 DEF LostBefore
    <2>1. s # f /\ Live(s)
      BY <1>3, <1>4, <1>6 DEF Live
    <2>2. CASE LostBefore(s, n)
      BY <1>5, <2>2, <2>n
    <2>3. CASE s = session /\ owner[f] # owner[s]
      <3>1. f \in 1..(n - 1) /\ f \in 1..f
        BY <1>2, <1>4
      <3>2. LostBefore(s, n)'
        BY <1>1, <1>3, <2>3, <3>1 DEF LostBefore
      <3>3. QED
        BY <2>n, <3>2
    <2>4. CASE s = session /\ owner[f] = owner[s]
      <3>1. LostBefore(f, n)
        BY <1>4, <2>1, <2>4 DEF UnlockInv
      <3>2. PICK r \in 1..(n - 1) :
              owner[r] # owner[f] /\ (r > f \/ \E q \in 1..r : state[q] = "failed")
        BY <3>1 DEF LostBefore
      <3>3. \E q \in 1..r : state'[q] = "failed"
        <4>1. CASE r > f
          BY <1>2, <1>3, <1>4, <3>2, <4>1
        <4>2. CASE \E q \in 1..r : state[q] = "failed"
          <5>1. \A q \in 1..r : q \in 1..created
            BY <1>2, <3>2
          <5>2. QED
            BY <1>2, <1>3, <4>2, <5>1
        <4>3. QED
          BY <3>2, <4>1, <4>2
      <3>4. owner'[r] # owner'[s]
        BY <1>1, <2>4, <3>2
      <3>5. LostBefore(s, n)'
        BY <3>2, <3>3, <3>4 DEF LostBefore
      <3>6. QED
        BY <2>n, <3>5
    <2>5. QED
      BY <2>1, <2>2, <2>3, <2>4 DEF UnlockInv
  <1>7. ASSUME NEW s \in Sessions, NEW t \in Sessions, s < t, owner'[s] = owner'[t],
               Live(s)', Live(t)'
        PROVE  LostBefore(s, t)'
    <2>1. Live(s) /\ Live(t)
      BY <1>3, <1>4, <1>7 DEF Live
    <2>2. LostBefore(s, t)
      BY <1>1, <1>7, <2>1 DEF UnlockInv, OneUnlock
    <2>3. t \in Int /\ t <= created + 1
      BY <1>2, <2>1 DEF SessionInv, Live, Sessions
    <2>4. QED
      BY <1>5, <2>2, <2>3
  <1>8. QED
    BY <1>6, <1>7 DEF UnlockInv, OneUnlock

\* Calls of one identity share one unlock of the PIN while it lives, unless
\* another identity took its place or failed late (xchat.js:230 and 253).
THEOREM OneUnlockWhileKept == Spec => []OneUnlock
  <1>1. Init => UnlockInv
    BY DEF Init, UnlockInv, OneUnlock, Live
  <1>2. SessionInv /\ UnlockInv /\ [Next]_vars => UnlockInv'
    <2> SUFFICES ASSUME SessionInv, UnlockInv, [Next]_vars PROVE UnlockInv'
      OBVIOUS
    <2>1. CASE UNCHANGED vars
      <3>1. UNCHANGED <<session, created, owner, state>>
        BY <2>1 DEF vars, decryptorVars, sessionVars
      <3>2. QED
        BY <3>1, SameSessionsUnlock DEF Live
    <2>2. ASSUME NEW c \in Caller, NEW i \in Identity, NEW w \in KeyList \cup {None},
                 Begin(c, i, w)
          PROVE  UnlockInv'
      BY <2>2, GetSessionUnlock DEF Begin
    <2>3. ASSUME NEW s \in Sessions, Unlocks(s)
          PROVE  UnlockInv'
      <3>1. UNCHANGED <<session, created, owner>>
        BY <2>3 DEF Unlocks, decryptorVars
      <3>2. \A u \in Sessions : /\ Live(u)' => Live(u)
                                /\ state[u] = "failed" => state'[u] = "failed"
        BY <2>3 DEF Unlocks, Live, SessionInv, SessionTypeOK
      <3>3. QED
        BY <3>1, <3>2, SameSessionsUnlock
    <2>4. ASSUME NEW s \in Sessions, UnlockFails(s)
          PROVE  UnlockInv'
      BY <2>4, UnlockFailsUnlock
    <2>5. ASSUME NEW c \in Caller, Step(c)
          PROVE  UnlockInv'
      <3>1. UNCHANGED <<session, created, owner, state>>
        BY <2>5 DEF Step, Prepared, Decrypts, SessionFailed, RefreshFails,
                    decryptorVars, sessionVars
      <3>2. QED
        BY <3>1, SameSessionsUnlock DEF Live
    <2>6. ASSUME NEW c \in Caller, NEW i \in Identity, Refreshed(c, i)
          PROVE  UnlockInv'
      <3>1. call[c].wants \in KeyList \cup {None}
        BY DEF SessionInv, SessionTypeOK, Calls
      <3>2. QED
        BY <2>6, <3>1, GetSessionUnlock DEF Refreshed
    <2>7. QED
      BY <2>1, <2>2, <2>3, <2>4, <2>5, <2>6 DEF Next
  <1>3. UnlockInv => OneUnlock
    BY DEF UnlockInv
  <1>4. QED
    BY <1>1, <1>2, <1>3, SessionInductive, PTL DEF Spec

-----------------------------------------------------------------------------
(* Own keys.  Until a call strays, the fingerprint of the installed keys      *)
(* tells the keys of the current session.                                     *)

FingerprintHolds == ~strayed /\ installed # None => session # 0 /\ keys[session] = installed

\* A call that decrypts in the current session, with the fingerprint right,
\* gets its own keys and leaves the fingerprint right.
LEMMA DecryptsOwn ==
  ASSUME SessionInv, FingerprintHolds, NEW c \in Caller, Decrypts(c)
  PROVE  /\ FingerprintHolds'
         /\ strayed' \/ keys'[call[c].on] = call[c].wants
  <1> DEFINE s == call[c].on
             w == call[c].wants
  <1>1. CASE strayed \/ s # session
    <2>1. strayed'
      BY <1>1 DEF Decrypts
    <2>2. QED
      BY <2>1 DEF FingerprintHolds
  <1>2. CASE ~strayed /\ s = session
    <2>1. s \in Sessions /\ session # 0
      BY <1>2, SessionAssumption DEF Decrypts, SessionInv, SessionTypeOK, Sessions
    <2>2. keys'[s] = w /\ installed' = w /\ session' = session
      BY <1>2, <2>1 DEF Decrypts, FingerprintHolds, SessionInv, SessionTypeOK
    <2>3. QED
      BY <1>2, <2>1, <2>2 DEF FingerprintHolds
  <1>3. QED
    BY <1>1, <1>2

LEMMA GetSessionFingerprint ==
  ASSUME FingerprintHolds, NEW c, NEW i, NEW w, NEW b, GetSession(c, i, w, b)
  PROVE  FingerprintHolds'
  <1>1. CASE session # 0 /\ fingerprint = i
    BY <1>1 DEF GetSession, Share, FingerprintHolds, decryptorVars, sessionVars
  <1>2. CASE ~(session # 0 /\ fingerprint = i)
    BY <1>2 DEF GetSession, Create, FingerprintHolds
  <1>3. QED
    BY <1>1, <1>2

LEMMA FingerprintInductive == Spec => []FingerprintHolds
  <1>1. Init => FingerprintHolds
    BY DEF Init, FingerprintHolds
  <1>2. SessionInv /\ FingerprintHolds /\ [Next]_vars => FingerprintHolds'
    <2> SUFFICES ASSUME SessionInv, FingerprintHolds, [Next]_vars
                 PROVE  FingerprintHolds'
      OBVIOUS
    <2>1. ASSUME UNCHANGED <<session, installed, keys, strayed>>
          PROVE  FingerprintHolds'
      BY <2>1 DEF FingerprintHolds
    <2>2. CASE UNCHANGED vars
      BY <2>1, <2>2 DEF vars, decryptorVars, sessionVars
    <2>3. CASE \/ \E c \in Caller, i \in Identity, w \in KeyList \cup {None} : Begin(c, i, w)
               \/ \E c \in Caller, i \in Identity : Refreshed(c, i)
      BY <2>3, GetSessionFingerprint DEF Begin, Refreshed
    <2>4. ASSUME NEW s \in Sessions, Unlocks(s) \/ UnlockFails(s)
          PROVE  FingerprintHolds'
      <3>1. CASE Unlocks(s)
        BY <2>1, <3>1 DEF Unlocks, decryptorVars
      <3>2. CASE UnlockFails(s)
        BY <3>2 DEF UnlockFails, FingerprintHolds
      <3>3. QED
        BY <2>4, <3>1, <3>2
    <2>5. ASSUME NEW c \in Caller, Step(c)
          PROVE  FingerprintHolds'
      <3>1. CASE Decrypts(c)
        BY <3>1, DecryptsOwn
      <3>2. CASE Prepared(c) \/ SessionFailed(c) \/ RefreshFails(c)
        BY <2>1, <3>2 DEF Prepared, SessionFailed, RefreshFails, decryptorVars, sessionVars
      <3>3. QED
        BY <2>5, <3>1, <3>2 DEF Step
    <2>6. QED
      BY <2>2, <2>3, <2>4, <2>5 DEF Next
  <1>3. QED
    BY <1>1, <1>2, SessionInductive, PTL DEF Spec

\* A call is verified with other keys than its own only if a call, itself or
\* one before it, decrypted in a session that was not current.
THEOREM OwnKeysInCurrentSession == Spec => OwnKeysUnlessStrayed
  <1>1. SessionInv /\ FingerprintHolds /\ [Next]_vars
          => [\A c \in Caller :
                call[c].at = "waiting" /\ call'[c].at = "idle" /\ call'[c].wants # None
                  => call'[c].used = call'[c].wants \/ strayed']_vars
    <2> SUFFICES ASSUME SessionInv, FingerprintHolds, Next, NEW c \in Caller,
                        call[c].at = "waiting", call'[c].at = "idle",
                        call'[c].wants # None
                 PROVE  call'[c].used = call'[c].wants \/ strayed'
      OBVIOUS
    <2>1. call \in [Caller -> Calls] /\ None \in KeyList \cup {None}
      BY DEF SessionInv, SessionTypeOK
    <2>2. ASSUME NEW d \in Caller, NEW s, NEW i, NEW w, NEW b, Wait(d, s, i, w, b)
          PROVE  FALSE
      BY <2>1, <2>2 DEF Wait
    <2>3. ASSUME NEW d \in Caller, NEW i, NEW w, NEW b, GetSession(d, i, w, b)
          PROVE  FALSE
      BY <2>2, <2>3 DEF GetSession, Share, Create
    <2>4. ASSUME NEW s \in Sessions, Unlocks(s) \/ UnlockFails(s)
          PROVE  FALSE
      BY <2>4 DEF Unlocks, UnlockFails
    <2>5. ASSUME NEW d \in Caller, Step(d)
          PROVE  call'[c].used = call'[c].wants \/ strayed'
      <3>1. CASE Decrypts(d)
        <4> DEFINE s == call[d].on
                   w == call[d].wants
        <4>1. w \in KeyList \cup {None} /\ s \in Sessions
          BY <2>1, <3>1, SessionAssumption
             DEF Calls, Decrypts, SessionInv, SessionTypeOK, Sessions
        <4>2. keys'[s] \in KeyList \cup {None} /\ Return(d, w, keys'[s])
          BY <3>1, <4>1 DEF Decrypts, SessionInv, SessionTypeOK
        <4>3. /\ call'[d].wants = w /\ call'[d].used = keys'[s]
              /\ \A e \in Caller : e # d => call'[e] = call[e]
          BY <2>1, <4>1, <4>2, ReturnOk
        <4>4. c = d
          BY <4>3
        <4>5. QED
          BY <3>1, <4>3, <4>4, DecryptsOwn
      <3>2. ASSUME Return(d, None, None) PROVE FALSE
        BY <2>1, <3>2, ReturnOk
      <3>3. CASE call' = [call EXCEPT ![d].at = "refreshing"]
        BY <2>1, <3>3 DEF Calls
      <3>4. QED
        BY <2>5, <3>1, <3>2, <3>3 DEF Step, Prepared, SessionFailed, RefreshFails
    <2>6. QED
      BY <2>3, <2>4, <2>5 DEF Next, Begin, Refreshed
  <1>2. QED
    BY <1>1, SessionInductive, FingerprintInductive, PTL DEF Spec, OwnKeysUnlessStrayed

-----------------------------------------------------------------------------
(* One identity: the deployment that server.js builds, with one user and one
   configuration.  The identity of a user is fetched again after a failure,
   and may then come back changed, which is what OneIdentity excludes. *)

OneIdentity == \A i, j \in Identity : i = j

\* Only the current session lives, and it verifies with the keys that the
\* decryptor believes installed.
OneInv ==
  /\ session # 0 => fingerprint \in Identity
  /\ \A s \in Sessions : Live(s) => s = session
  /\ installed # None => session # 0 /\ keys[session] = installed
  /\ VerifiedWithOwnKeys

LEMMA GetSessionOne ==
  ASSUME OneIdentity, SessionInv, OneInv, NEW c \in Caller, NEW i \in Identity,
         NEW w \in KeyList \cup {None}, NEW b \in BOOLEAN,
         GetSession(c, i, w, b)
  PROVE  OneInv'
  <1>1. ASSUME NEW s, Wait(c, s, i, w, b) PROVE VerifiedWithOwnKeys'
    BY <1>1 DEF Wait, SessionInv, SessionTypeOK, OneInv, VerifiedWithOwnKeys
  <1>2. CASE session # 0 /\ fingerprint = i
    BY <1>1, <1>2 DEF GetSession, Share, OneInv, Live, decryptorVars, sessionVars
  <1>3. CASE ~(session # 0 /\ fingerprint = i)
    <2>1. Create(c, i, w, b) /\ session = 0
      BY <1>3 DEF GetSession, OneInv, OneIdentity
    <2>2. VerifiedWithOwnKeys'
      BY <1>1, <2>1 DEF Create
    <2>3. \A s \in Sessions : ~Live(s)
      BY <2>1 DEF OneInv, Sessions
    <2>4. \A s \in Sessions : Live(s)' => s = session'
      BY <2>1, <2>3 DEF Create, Live, SessionInv, SessionTypeOK
    <2>5. QED
      BY <2>1, <2>2, <2>4 DEF Create, OneInv
  <1>4. QED
    BY <1>2, <1>3

LEMMA StepOne ==
  ASSUME SessionInv, OneInv, NEW c \in Caller, Step(c)
  PROVE  OneInv'
  <1>1. call \in [Caller -> Calls] /\ None \in KeyList \cup {None}
    BY DEF SessionInv, SessionTypeOK
  <1>2. ASSUME Return(c, None, None), UNCHANGED <<decryptorVars, sessionVars, strayed>>
        PROVE  OneInv'
    BY <1>1, <1>2, ReturnOk
       DEF OneInv, Live, VerifiedWithOwnKeys, decryptorVars, sessionVars
  <1>3. CASE Decrypts(c)
    <2> DEFINE s == call[c].on
               w == call[c].wants
    <2>1. w \in KeyList \cup {None} /\ w # None
      BY <1>1, <1>3 DEF Calls, Decrypts
    <2>2. s \in Sessions /\ state[s] = "ready"
      BY <1>3, SessionAssumption DEF Decrypts, SessionInv, SessionTypeOK, Sessions
    <2>3. s = session /\ session # 0
      BY <2>2, SessionAssumption DEF OneInv, Live, Sessions
    <2>4. keys'[s] = w /\ installed' = w /\ Return(c, w, keys'[s])
      BY <1>3, <2>2, <2>3 DEF Decrypts, OneInv, SessionInv, SessionTypeOK
    <2>5. UNCHANGED <<session, fingerprint, state>>
      BY <1>3 DEF Decrypts
    <2>6. VerifiedWithOwnKeys'
      BY <1>1, <2>1, <2>4, ReturnOk DEF OneInv, VerifiedWithOwnKeys
    <2>7. QED
      BY <2>3, <2>4, <2>5, <2>6 DEF OneInv, Live
  <1>4. CASE SessionFailed(c)
    <2>1. CASE call' = [call EXCEPT ![c].at = "refreshing"]
      BY <1>1, <1>4, <2>1
         DEF SessionFailed, OneInv, Live, VerifiedWithOwnKeys, Calls, decryptorVars,
             sessionVars
    <2>2. QED
      BY <1>2, <1>4, <2>1 DEF SessionFailed
  <1>5. QED
    BY <1>2, <1>3, <1>4 DEF Step, Prepared, RefreshFails

LEMMA OneInductive == OneIdentity => (Spec => []OneInv)
  <1> SUFFICES ASSUME OneIdentity PROVE Spec => []OneInv
    OBVIOUS
  <1>1. Init => OneInv
    BY SessionAssumption
       DEF Init, OneInv, Live, VerifiedWithOwnKeys, Idle, Sessions
  <1>2. SessionInv /\ OneInv /\ [Next]_vars => OneInv'
    <2> SUFFICES ASSUME SessionInv, OneInv, [Next]_vars PROVE OneInv'
      OBVIOUS
    <2>1. CASE UNCHANGED vars
      BY <2>1 DEF vars, decryptorVars, sessionVars, OneInv, Live, VerifiedWithOwnKeys
    <2>2. ASSUME NEW c \in Caller, NEW i \in Identity, NEW w \in KeyList \cup {None},
                 Begin(c, i, w)
          PROVE  OneInv'
      BY <2>2, GetSessionOne DEF Begin
    <2>3. ASSUME NEW s \in Sessions, Unlocks(s)
          PROVE  OneInv'
      BY <2>3 DEF Unlocks, OneInv, Live, VerifiedWithOwnKeys, decryptorVars, SessionInv,
                  SessionTypeOK
    <2>4. ASSUME NEW s \in Sessions, UnlockFails(s)
          PROVE  OneInv'
      BY <2>4 DEF UnlockFails, OneInv, Live, VerifiedWithOwnKeys, SessionInv,
                  SessionTypeOK
    <2>5. ASSUME NEW c \in Caller, Step(c)
          PROVE  OneInv'
      BY <2>5, StepOne
    <2>6. ASSUME NEW c \in Caller, NEW i \in Identity, Refreshed(c, i)
          PROVE  OneInv'
      <3>1. call[c].wants \in KeyList \cup {None}
        BY DEF SessionInv, SessionTypeOK, Calls
      <3>2. QED
        BY <2>6, <3>1, GetSessionOne DEF Refreshed
    <2>7. QED
      BY <2>1, <2>2, <2>3, <2>4, <2>5, <2>6 DEF Next
  <1>3. QED
    BY <1>1, <1>2, SessionInductive, PTL DEF Spec

\* While the identity does not change, events are verified with the signing
\* keys of the call that brought them (the installation at xchat.js:185).
THEOREM OwnKeysOfOneIdentity == OneIdentity => (Spec => []VerifiedWithOwnKeys)
  <1>1. OneInv => VerifiedWithOwnKeys
    BY DEF OneInv
  <1>2. QED
    BY <1>1, OneInductive, PTL

=============================================================================
