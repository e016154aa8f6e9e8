----------------------------- MODULE CacheKeys ------------------------------
(***************************************************************************)
(* Encryption at rest of the two SQLite caches, and the start of the       *)
(* server that opens them (src/server.js): XChatCache.open, which rekeys a *)
(* cache that is under the previous secret, then LegacyDmCache.open, which *)
(* does not.  A start that fails ends the process.                         *)
(*                                                                         *)
(* A cache is known by the secret its encryption marker is sealed with and *)
(* by the secrets of its other encrypted rows.                             *)
(***************************************************************************)
CONSTANTS Secret, NoSecret

ASSUME KeysAssumption == Secret # {} /\ NoSecret \notin Secret

VARIABLES
  xcache,     \* the tables of XChatCache with encrypted columns
  lcache,     \* those of LegacyDmCache
  stage,      \* how far the start is
  key,        \* XCHAT_CACHE_ENCRYPTION_KEY of this process
  previous    \* STATE_API_KEY of this process

keyVars == <<xcache, lcache, stage, key, previous>>

Caches == [marker : Secret \cup {NoSecret}, rows : SUBSET Secret]

KeyTypeOK ==
  /\ xcache \in Caches /\ lcache \in Caches
  /\ stage \in {"down", "boot", "xchat", "up"}
  /\ key \in Secret \cup {NoSecret} /\ previous \in Secret \cup {NoSecret}

\* A cache written before there were markers has rows under some secret.
KeyInit ==
  /\ \E R \in {{}} \cup {{s} : s \in Secret} : xcache = [marker |-> NoSecret, rows |-> R]
  /\ lcache = [marker |-> NoSecret, rows |-> {}]
  /\ stage = "down" /\ key = NoSecret /\ previous = NoSecret

-----------------------------------------------------------------------------
Boot(k, p) ==
  /\ stage = "down"
  /\ stage' = "boot" /\ key' = k /\ previous' = p
  /\ UNCHANGED <<xcache, lcache>>

KeyExit == /\ stage # "down" /\ stage' = "down"
           /\ UNCHANGED <<xcache, lcache, key, previous>>

\* The secret #prepareEncryption tries the rows of a cache with.
Tried ==
  IF xcache.marker # NoSecret THEN previous
  ELSE IF previous # NoSecret THEN previous ELSE key

\* Mutants: only the marker is sealed anew; rows are rekeyed one by one, and a
\* row that cannot be opened stops the rekeying in the middle.
RekeyMarker ==
  /\ xcache.rows \subseteq {Tried}
  /\ xcache' = [marker |-> key, rows |-> xcache.rows]

RekeyRowByRow ==
  /\ xcache.rows \subseteq {Tried}
  /\ xcache' \in [marker : {key}, rows : {xcache.rows, xcache.rows \cup {key}, {key}}]

\* One transaction seals the rows and the marker with the new key.
Rekey ==
  /\ xcache.rows \subseteq {Tried}
  /\ xcache' = [marker |-> key, rows |-> IF xcache.rows = {} THEN {} ELSE {key}]

Opens == xcache.marker = key \/ (xcache.marker = NoSecret /\ xcache.rows = {})

\* #prepareEncryption and #ensureEncryptionMarker.
OpenXChat ==
  /\ stage = "boot"
  /\ \/ /\ Opens
        /\ xcache' = [xcache EXCEPT !.marker = key] /\ stage' = "xchat"
     \/ /\ ~Opens /\ (xcache.marker = NoSecret \/ xcache.marker = previous)
        /\ Rekey /\ stage' = "xchat"
     \/ /\ ~Opens
        /\ \/ xcache.marker # NoSecret /\ xcache.marker # previous
           \/ ~(xcache.rows \subseteq {Tried})
        /\ UNCHANGED xcache /\ stage' = "down"
  /\ UNCHANGED <<lcache, key, previous>>

\* #ensureMarker: another key than the one of the marker is refused.  The
\* previous secret is also the API key, without which there is no handler.
OpenLegacy ==
  /\ stage = "xchat"
  /\ \/ /\ lcache.marker \in {NoSecret, key}
        /\ lcache' = [lcache EXCEPT !.marker = key]
        /\ stage' = IF previous = NoSecret THEN "down" ELSE "up"
     \/ /\ lcache.marker \notin {NoSecret, key}
        /\ UNCHANGED lcache /\ stage' = "down"
  /\ UNCHANGED <<xcache, key, previous>>

\* Handlers and workers write rows under the key of the process.
SealXChat ==
  /\ stage = "up"
  /\ xcache' = [xcache EXCEPT !.rows = @ \cup {key}]
  /\ UNCHANGED <<lcache, stage, key, previous>>

SealLegacy ==
  /\ stage = "up"
  /\ lcache' = [lcache EXCEPT !.rows = @ \cup {key}]
  /\ UNCHANGED <<xcache, stage, key, previous>>

Starting == \E k \in Secret, p \in Secret \cup {NoSecret} : Boot(k, p)

KeyNext ==
  Starting \/ OpenXChat \/ OpenLegacy \/ SealXChat \/ SealLegacy \/ KeyExit

KeySpec == KeyInit /\ [][KeyNext]_keyVars

-----------------------------------------------------------------------------
\* A server that has started can open every row of both caches, whichever
\* secrets it and the processes before it were started with.
StartedOpensRows ==
  stage = "up" => \A cache \in {xcache, lcache} :
                    cache.marker = key /\ cache.rows \subseteq {key}

\* Starts with wrong secrets, and crashes, leave no cache under two secrets:
\* there is always one that opens all of it, the one of its marker.
OneSecret ==
  \A cache \in {xcache, lcache} :
    \E s \in Secret : cache.marker \in {NoSecret, s} /\ cache.rows \subseteq {s}
=============================================================================
