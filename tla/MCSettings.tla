----------------------------- MODULE MCSettings -----------------------------
(* An instance of Settings for TLC. *)
EXTENDS Settings, TLC

Symmetry == Permutations(Clients)

\* deploy/config.yaml, managed and not; the same with a bind from the environment; a
\* development host without files; a file with a setting nobody knows.
DeployYaml == [bind |-> "loopback", mode |-> "token", mqtt |-> "off"]
SomeHosts ==
  {[yaml |-> DeployYaml, environment |-> <<>>, managed |-> TRUE],
   [yaml |-> DeployYaml, environment |-> [bind |-> "all"], managed |-> FALSE],
   [yaml |-> <<>>, environment |-> <<>>, managed |-> FALSE],
   [yaml |-> [other |-> "on"], environment |-> <<>>, managed |-> FALSE]}
=============================================================================
