-------------------------- MODULE DurableRegister ---------------------------
(***************************************************************************)
(* What the JSON state store promises, without saying how: versions of the *)
(* state are written one after the other, each becomes durable sooner or   *)
(* later or is lost, as a whole, by a crash, and a write that was          *)
(* acknowledged is durable.  JsonStore implements this specification with  *)
(* an object in memory, a queue of writes and a file that is replaced.     *)
(***************************************************************************)
EXTENDS Naturals

VARIABLES latest,   \* the newest version
          saved,    \* the version that survives a crash
          acked     \* the newest version whose writer was told so

registerVars == <<latest, saved, acked>>

RegisterInit == latest = 0 /\ saved = 0 /\ acked = 0

Write == latest' = latest + 1 /\ UNCHANGED <<saved, acked>>

\* A write of the file may save several versions, and acknowledges some.
Save ==
  /\ saved' \in saved..latest
  /\ acked' \in acked..saved'
  /\ UNCHANGED latest

Lose == latest' = saved /\ UNCHANGED <<saved, acked>>

RegisterSpec == RegisterInit /\ [][Write \/ Save \/ Lose]_registerVars
=============================================================================
