-------------------------- MODULE MCAdministration --------------------------
(* Instances of Administration for TLC. *)
EXTENDS Administration, TLC

\* Devices are interchangeable; safety runs use it where all may be asked the same.
Symmetry == Permutations(Devices)

AllCommands == [d \in Devices |-> {"connect", "disconnect", "reconnect"}]
\* Every command but the one that may succeed without looking at the polling task.
Renewals == [d \in Devices |-> {"disconnect", "reconnect"}]
=============================================================================
