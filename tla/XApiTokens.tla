----------------------------- MODULE XApiTokens -----------------------------
(***************************************************************************)
(* The OAuth tokens of the X API client (src/xchat-api.js): calls of the   *)
(* drain, the backfill jobs and the legacy sync share one pair of tokens,  *)
(* which a call that is refused refreshes and stores in the XChat cache.   *)
(*                                                                         *)
(* Tokens are numbered as X issues them; an access token and the refresh   *)
(* token issued with it have one number, those of the environment 0.       *)
(*                                                                         *)
(* External: X accepts a refresh token once, and answers with the next     *)
(* pair; and it may refuse any call with 401, its access token having      *)
(* expired or not.                                                         *)
(***************************************************************************)
EXTENDS Integers

CONSTANTS
  Call,          \* calls of the client
  NoToken,
  EnvAccess,     \* whether X_OAUTH2_ACCESS_TOKEN is set
  MaxToken       \* bound on the tokens X issues

ASSUME TokenAssumption ==
  /\ EnvAccess \in BOOLEAN
  /\ MaxToken \in Nat
  /\ NoToken \notin Nat

VARIABLES
  live,      \* X: the refresh token that is good
  stored,    \* x_oauth_tokens in the XChat cache, or NoToken
  token,     \* #accessToken, #refreshToken
  client,    \* #client is there
  asked,     \* #loadedStoredToken: stored tokens were looked for
  calls,     \* what each call awaits, with which token, and whether it is
             \* its second attempt
  lost       \* the answer with the good refresh token was lost

tokenVars == <<live, stored, token, client, asked, calls, lost>>

Tokens == 0..MaxToken

Idle == [at |-> "idle", used |-> 0, again |-> FALSE]

Waits == [at : {"idle", "api", "refresh", "granted"}, used : Tokens, again : BOOLEAN]

TokenTypeOK ==
  /\ live \in Tokens /\ token \in Tokens
  /\ stored \in Tokens \cup {NoToken}
  /\ client \in BOOLEAN /\ asked \in BOOLEAN /\ lost \in BOOLEAN
  /\ calls \in [Call -> Waits]

TokenInit ==
  /\ token = 0 /\ client = EnvAccess /\ asked = FALSE
  /\ calls = [c \in Call |-> Idle]
  /\ live = 0 /\ stored = NoToken /\ lost = FALSE

-----------------------------------------------------------------------------
Awaits(c, at, used, again) ==
  calls' = [calls EXCEPT ![c] = [at |-> at, used |-> used, again |-> again]]

Ends(c) == calls' = [calls EXCEPT ![c] = Idle]

\* Mutant: what the cache returns is taken, be there tokens or not.
NotAsked == ~asked

\* #loadStoredToken, once in a process: stored tokens replace the others.
FindsStored == ~asked /\ stored # NoToken

Loaded == IF FindsStored THEN stored ELSE token

BeginCall(c) ==
  /\ calls[c].at = "idle"
  /\ token' = Loaded
  /\ client' = (client \/ FindsStored)
  /\ asked' = TRUE
  /\ Awaits(c, IF client' THEN "api" ELSE "refresh", Loaded, FALSE)
  /\ UNCHANGED <<live, stored, lost>>

\* X answers the call, or the call fails in another way.
Settled(c) ==
  /\ calls[c].at = "api"
  /\ Ends(c)
  /\ UNCHANGED <<live, stored, token, client, asked, lost>>

\* 401: the tokens are refreshed once, whoever has refreshed them meanwhile.
Unauthorized(c) ==
  /\ calls[c].at = "api"
  /\ \/ calls[c].again /\ Ends(c)
     \/ ~calls[c].again /\ Awaits(c, "refresh", token, TRUE)
  /\ UNCHANGED <<live, stored, token, client, asked, lost>>

\* X takes the refresh token; its answer is under way.
Granted(c) ==
  /\ calls[c].at = "refresh" /\ calls[c].used = live
  /\ live < MaxToken
  /\ live' = live + 1
  /\ Awaits(c, "granted", live + 1, calls[c].again)
  /\ UNCHANGED <<stored, token, client, asked, lost>>

\* X has seen the refresh token before, or the request fails on its way: the
\* call fails, though another one may have brought good tokens by now.
Denied(c) ==
  /\ calls[c].at = "refresh"
  /\ Ends(c)
  /\ UNCHANGED <<live, stored, token, client, asked, lost>>

\* Mutant: the refresh token of the answer is not kept.
KeepsRefreshToken(c) ==
  /\ calls[c].at = "granted"
  /\ client' = TRUE /\ stored' = token
  /\ Awaits(c, "api", calls[c].used, calls[c].again)
  /\ UNCHANGED <<live, token, asked, lost>>

\* The answer arrives: the tokens are replaced and stored at once, and the
\* call is made (again).
Refreshed(c) ==
  /\ calls[c].at = "granted"
  /\ token' = calls[c].used /\ stored' = calls[c].used /\ client' = TRUE
  /\ Awaits(c, "api", calls[c].used, calls[c].again)
  /\ UNCHANGED <<live, asked, lost>>

\* The answer does not arrive, or cannot be read.
AnswerLost(c) ==
  /\ calls[c].at = "granted"
  /\ lost' = (lost \/ calls[c].used = live)
  /\ Ends(c)
  /\ UNCHANGED <<live, stored, token, client, asked>>

TokenCrash ==
  /\ token' = 0 /\ client' = EnvAccess /\ asked' = FALSE
  /\ calls' = [c \in Call |-> Idle]
  /\ lost' = (lost \/ \E c \in Call : calls[c].at = "granted" /\ calls[c].used = live)
  /\ UNCHANGED <<live, stored>>

Calling ==
  \E c \in Call : \/ BeginCall(c) \/ Settled(c) \/ Unauthorized(c)
                  \/ Granted(c) \/ Denied(c) \/ AnswerLost(c)

TokenNext == Calling \/ (\E c \in Call : Refreshed(c)) \/ TokenCrash

TokenSpec == TokenInit /\ [][TokenNext]_tokenVars

-----------------------------------------------------------------------------
\* Unless X rotated the tokens and its answer was lost, the client can always
\* get new ones: the good refresh token is in memory, in an answer under way,
\* or where the first call of the next process finds it.  Calls that refresh
\* with one token at the same time, answers in any order, and crashes do not
\* lose it.
TokenSurvives ==
  \/ lost
  \/ Loaded = live
  \/ \E c \in Call : calls[c].at = "granted" /\ calls[c].used = live
=============================================================================
