---------------------------- MODULE XChatSession ----------------------------
(***************************************************************************)
(* The unlocked session that XChatDecryptor (src/xchat.js) shares between  *)
(* concurrent calls: prepare() at the start of the workers, decrypt() from *)
(* the drain of the cache and from POST /xchat/decrypt-events.             *)
(*                                                                         *)
(* External: a Chat XDK session, which unlocks or fails to, and verifies   *)
(* events with the signing keys that were installed in it last; and the X  *)
(* API behind refreshIdentity.                                             *)
(***************************************************************************)
EXTENDS Integers, FiniteSets

CONSTANTS
  Caller,       \* concurrent calls
  Identity,     \* (user id, key version, juicebox config)
  KeyList,      \* lists of signing keys a caller may pass
  None,
  MaxSessions   \* bound on the sessions created

ASSUME SessionAssumption ==
  /\ IsFiniteSet(Caller) /\ Caller # {}
  /\ None \notin Identity \cup KeyList
  /\ MaxSessions \in Nat \ {0}

VARIABLES
  session,       \* #session: number of the current session, 0 for undefined
  fingerprint,   \* #fingerprint: identity of the current session
  installed,     \* #signingKeysFingerprint: key list installed last
  created,       \* sessions created so far
  state,         \* of each session: absent, unlocking, ready or failed
  owner,         \* of each session: the identity it was created for
  keys,          \* of each session: the key list it verifies with
  call,          \* of each caller: see Calls
  strayed        \* history: since the current session was created, or was
                 \* forgotten, a call has decrypted in another one

decryptorVars == <<session, fingerprint, installed>>
sessionVars == <<created, state, owner, keys>>
vars == <<decryptorVars, sessionVars, call, strayed>>

Sessions == 1..MaxSessions

\* A call waits for a session (on), or for a fresh identity; again tells that
\* it has had one already.  used: the key list its events were verified with.
Calls == [at : {"idle", "waiting", "refreshing"}, on : 0..MaxSessions,
          identity : Identity \cup {None}, wants : KeyList \cup {None},
          again : BOOLEAN, used : KeyList \cup {None}]

Idle(wants, used) == [at |-> "idle", on |-> 0, identity |-> None, wants |-> wants,
                      again |-> FALSE, used |-> used]

SessionTypeOK ==
  /\ session \in 0..MaxSessions /\ created \in 0..MaxSessions
  /\ fingerprint \in Identity \cup {None}
  /\ installed \in KeyList \cup {None}
  /\ state \in [Sessions -> {"absent", "unlocking", "ready", "failed"}]
  /\ owner \in [Sessions -> Identity \cup {None}]
  /\ keys \in [Sessions -> KeyList \cup {None}]
  /\ call \in [Caller -> Calls]
  /\ strayed \in BOOLEAN

Init ==
  /\ session = 0 /\ fingerprint = None /\ installed = None /\ created = 0
  /\ state = [s \in Sessions |-> "absent"]
  /\ owner = [s \in Sessions |-> None]
  /\ keys  = [s \in Sessions |-> None]
  /\ call  = [c \in Caller |-> Idle(None, None)]
  /\ strayed = FALSE

-----------------------------------------------------------------------------
Wait(c, s, identity, wants, again) ==
  call' = [call EXCEPT ![c] = [at |-> "waiting", on |-> s, identity |-> identity,
                               wants |-> wants, again |-> again, used |-> None]]

\* A new session takes the place of the current one.
Create(c, identity, wants, again) ==
  /\ created < MaxSessions
  /\ created' = created + 1 /\ session' = created + 1
  /\ state' = [state EXCEPT ![created + 1] = "unlocking"]
  /\ owner' = [owner EXCEPT ![created + 1] = identity]
  /\ fingerprint' = identity /\ installed' = None /\ strayed' = FALSE
  /\ Wait(c, created + 1, identity, wants, again)
  /\ UNCHANGED keys

Share(c, identity, wants, again) ==
  /\ Wait(c, session, identity, wants, again)
  /\ UNCHANGED <<decryptorVars, sessionVars, strayed>>

\* Mutant of GetSession: only a session that is unlocked already is shared.
GetUnlockedSession(c, identity, wants, again) ==
  IF session # 0 /\ fingerprint = identity /\ state[session] = "ready"
  THEN Share(c, identity, wants, again)
  ELSE Create(c, identity, wants, again)

\* The current session is shared if it is for this identity, unlocked or not.
GetSession(c, identity, wants, again) ==
  IF session # 0 /\ fingerprint = identity
  THEN Share(c, identity, wants, again)
  ELSE Create(c, identity, wants, again)

\* decrypt(), or prepare(), which wants no keys.
Begin(c, identity, wants) ==
  /\ call[c].at = "idle"
  /\ GetSession(c, identity, wants, FALSE)

Unlocks(s) ==
  /\ state[s] = "unlocking"
  /\ state' = [state EXCEPT ![s] = "ready"]
  /\ UNCHANGED <<decryptorVars, created, owner, keys, call, strayed>>

\* The catch block forgets the current session, whichever that is by now.
UnlockFails(s) ==
  /\ state[s] = "unlocking"
  /\ state' = [state EXCEPT ![s] = "failed"]
  /\ session' = 0 /\ fingerprint' = None /\ installed' = None /\ strayed' = FALSE
  /\ UNCHANGED <<created, owner, keys, call>>

\* A call ends; one that decrypted leaves what it wanted and what it got.
Return(c, wants, used) ==
  call' = [call EXCEPT ![c] = Idle(wants, used)]

\* prepare() is over once the session is unlocked.
Prepared(c) ==
  /\ call[c].at = "waiting" /\ call[c].wants = None
  /\ state[call[c].on] = "ready"
  /\ Return(c, None, None)
  /\ UNCHANGED <<decryptorVars, sessionVars, strayed>>

\* Mutant of Decrypts: keys are installed once.
DecryptsFirstKeys(c) ==
  LET s == call[c].on
      wants == call[c].wants
  IN /\ call[c].at = "waiting" /\ wants # None
     /\ state[s] = "ready"
     /\ installed' = wants
     /\ keys' = IF installed = None THEN [keys EXCEPT ![s] = wants] ELSE keys
     /\ Return(c, wants, keys'[s])
     /\ strayed' = (strayed \/ s # session)
     /\ UNCHANGED <<session, fingerprint, created, state, owner>>

\* decrypt() installs its keys unless they are the ones installed last, and
\* decrypts, all without an await.
Decrypts(c) ==
  LET s == call[c].on
      wants == call[c].wants
  IN /\ call[c].at = "waiting" /\ wants # None
     /\ state[s] = "ready"
     /\ installed' = wants
     /\ keys' = IF installed # wants THEN [keys EXCEPT ![s] = wants] ELSE keys
     /\ Return(c, wants, keys'[s])
     /\ strayed' = (strayed \/ s # session)
     /\ UNCHANGED <<session, fingerprint, created, state, owner>>

\* The unlock a call waited for failed.  A rejected configuration or token is
\* worth one fresh identity; any other error, or a second one, is thrown.
SessionFailed(c) ==
  /\ call[c].at = "waiting" /\ state[call[c].on] = "failed"
  /\ \/ /\ ~call[c].again
        /\ call' = [call EXCEPT ![c].at = "refreshing"]
     \/ Return(c, None, None)
  /\ UNCHANGED <<decryptorVars, sessionVars, strayed>>

Refreshed(c, identity) ==
  /\ call[c].at = "refreshing"
  /\ GetSession(c, identity, call[c].wants, TRUE)

RefreshFails(c) ==
  /\ call[c].at = "refreshing"
  /\ Return(c, None, None)
  /\ UNCHANGED <<decryptorVars, sessionVars, strayed>>

-----------------------------------------------------------------------------
\* A call that cannot get a session under the bound stays where it is.
Step(c) == Prepared(c) \/ Decrypts(c) \/ SessionFailed(c) \/ RefreshFails(c)

Next ==
  \/ \E c \in Caller, i \in Identity, w \in KeyList \cup {None} : Begin(c, i, w)
  \/ \E s \in Sessions : Unlocks(s) \/ UnlockFails(s)
  \/ \E c \in Caller : Step(c) \/ \E i \in Identity : Refreshed(c, i)

Spec == Init /\ [][Next]_vars

-----------------------------------------------------------------------------
(* Properties *)

\* "reinstalls changed signing keys" (test/xchat.test.js:87): events are
\* verified with the signing keys of the call that brought them.
VerifiedWithOwnKeys ==
  \A c \in Caller : call[c].at = "idle" => call[c].used = call[c].wants

\* A call in the current session is verified with its own keys, whoever
\* installed others in it before; only a call that decrypts in a session which
\* is not current, itself or one before it since the current session was
\* created, can make the one fingerprint wrong (xchat.js:185).
OwnKeysUnlessStrayed ==
  [][\A c \in Caller :
       call[c].at = "waiting" /\ call'[c].at = "idle" /\ call'[c].wants # None
         => call'[c].used = call'[c].wants \/ strayed']_vars

\* A call waits only for a session unlocked with its own identity, whatever
\* sessions other calls put in the place of it meanwhile.
OwnSession ==
  \A c \in Caller : call[c].at = "waiting" => owner[call[c].on] = call[c].identity

Live(s) == state[s] \in {"unlocking", "ready"}

\* A session s can be lost to the calls that follow by another identity's
\* session r created before t: r took its place, or r is as old as s or older
\* and the late failure of r or of one before it cleared the session that had
\* taken its place (the catch block at xchat.js:253).
LostBefore(s, t) ==
  \E r \in 1..(t - 1) :
    owner[r] # owner[s] /\ (r > s \/ \E q \in 1..r : state[q] = "failed")

\* Calls of one identity share one unlock of the PIN while it lives (the test
\* at xchat.js:230), unless another identity made them lose it.  With one
\* identity, at most one session lives.
OneUnlock ==
  \A s, t \in Sessions :
    s < t /\ owner[s] = owner[t] /\ Live(s) /\ Live(t) => LostBefore(s, t)
=============================================================================
