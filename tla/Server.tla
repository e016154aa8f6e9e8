------------------------------- MODULE Server -------------------------------
(***************************************************************************)
(* The process of src/server.js around its caches and workers: the state   *)
(* store is loaded, the caches are opened under the secrets of the         *)
(* environment, and then handlers use the store and the workers the X API  *)
(* client, whose tokens are rows of the XChat cache.  A start that fails   *)
(* and a crash end the process; the files stay.                            *)
(***************************************************************************)
EXTENDS JsonStore, XApiTokens, CacheKeys

serverVars == <<storeVars, tokenVars, keyVars>>

ServerTypeOK == StoreTypeOK /\ TokenTypeOK /\ KeyTypeOK

ServerInit == StoreInit /\ TokenInit /\ KeyInit

-----------------------------------------------------------------------------
\* The process is started with the secrets of its environment.
Spawn == Starting /\ UNCHANGED <<storeVars, tokenVars>>

\* await store.load(), before the caches are opened.
LoadState ==
  /\ stage = "boot" /\ Load
  /\ UNCHANGED <<tokenVars, keyVars>>

Opening == OpenXChat \/ OpenLegacy

\* An exception of the module ends the process.
OpenCaches ==
  /\ loaded /\ Opening
  /\ IF stage' = "down" THEN StoreCrash /\ TokenCrash
     ELSE UNCHANGED <<storeVars, tokenVars>>

ServeState ==
  /\ stage = "up"
  /\ Changes
  /\ UNCHANGED <<tokenVars, keyVars>>

WriteState == Writing /\ UNCHANGED <<tokenVars, keyVars>>

CallApi ==
  /\ stage = "up"
  /\ Calling
  /\ UNCHANGED <<storeVars, keyVars>>

\* setEncryptedConfig: the tokens are a row sealed with the key.
RotateTokens ==
  /\ \E c \in Call : Refreshed(c)
  /\ SealXChat
  /\ UNCHANGED storeVars

WriteRows ==
  /\ SealXChat \/ SealLegacy
  /\ UNCHANGED <<storeVars, tokenVars>>

Die == KeyExit /\ StoreCrash /\ TokenCrash

ServerNext ==
  \/ Spawn \/ LoadState \/ OpenCaches \/ ServeState \/ WriteState
  \/ CallApi \/ RotateTokens \/ WriteRows \/ Die

ServerSpec == ServerInit /\ [][ServerNext]_serverVars

\* The file system answers.
ServerFair == ServerSpec /\ WF_serverVars(WriteState)
=============================================================================
