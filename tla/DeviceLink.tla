----------------------------- MODULE DeviceLink -----------------------------
(***************************************************************************)
(* What the service relies on in a device adapter (adapters/base.py): it   *)
(* serves at most one link; a link serves from the moment connect succeeds *)
(* until it is disconnected or lost; and a snapshot shows nothing that was *)
(* read over another link than the one it was begun on, although that link *)
(* may be gone when the snapshot is returned.                              *)
(***************************************************************************)
CONSTANTS Links, NoLink

VARIABLES
  serving,   \* the link of which is_connected speaks
  reading,   \* the link a snapshot is being read from
  snapshot   \* the last one: where its probes and where its battery were read

linkVars == <<serving, reading, snapshot>>

Nothing == [probes |-> NoLink, battery |-> NoLink]

LinkInit == serving = NoLink /\ reading = NoLink /\ snapshot = Nothing

Connected ==
  /\ serving = NoLink /\ reading = NoLink
  /\ serving' \in Links
  /\ UNCHANGED <<reading, snapshot>>

Gone ==
  /\ serving' = NoLink
  /\ UNCHANGED <<reading, snapshot>>

ReadBegins ==
  /\ serving # NoLink /\ reading = NoLink
  /\ reading' = serving
  /\ UNCHANGED <<serving, snapshot>>

ReadEnds ==
  /\ reading # NoLink
  /\ reading' = NoLink
  /\ snapshot' \in {snapshot} \cup {[probes |-> reading, battery |-> b] : b \in {reading, NoLink}}
  /\ UNCHANGED serving

LinkNext == Connected \/ Gone \/ ReadBegins \/ ReadEnds

LinkSpec == LinkInit /\ [][LinkNext]_linkVars
=============================================================================
