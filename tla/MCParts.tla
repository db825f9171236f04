------------------------------- MODULE MCParts -------------------------------
(***************************************************************************)
(* The smaller parts of the system, each on its own small instance in one  *)
(* run: a behaviour is one of one of the parts, and the variables of the   *)
(* others keep the values they have at the start.                          *)
(***************************************************************************)
EXTENDS Register, BleakAdapter, Polling, Throttle, Streams, OperationLog, Deployment

VARIABLE part   \* the part that this behaviour is one of

Names == <<{"a", "w"}, {"w"}>>
BackoffDelays == <<1, 2, 4>>

Parts == {"register", "bleak", "polling", "throttle", "streams", "log", "deployment"}

partVars == <<part, registerVars, bleakVars, pollingVars, throttleVars, streamsVars, logVars,
              deploymentVars>>

Init ==
  /\ part \in Parts
  /\ RegisterInit /\ (part # "register" => rows = <<>>)
  /\ BleakInit /\ PollingInit /\ ThrottleInit /\ StreamsInit /\ LogInit /\ DeploymentInit

Only(p, moves) ==
  /\ part = p /\ UNCHANGED part
  /\ p # "register" => UNCHANGED registerVars
  /\ p # "bleak" => UNCHANGED bleakVars
  /\ p # "polling" => UNCHANGED pollingVars
  /\ p # "throttle" => UNCHANGED throttleVars
  /\ p # "streams" => UNCHANGED streamsVars
  /\ p # "log" => UNCHANGED logVars
  /\ p # "deployment" => UNCHANGED deploymentVars
  /\ moves

Next ==
  \/ Only("register", RegisterNext)
  \/ Only("bleak", BleakNext)
  \/ Only("polling", PollingNext)
  \/ Only("throttle", ThrottleNext)
  \/ Only("streams", StreamsNext)
  \/ Only("log", LogNext)
  \/ Only("deployment", DeploymentNext)

\* In a behaviour of another part nothing of the streams is enabled or asked for.
PartsSpec == Init /\ [][Next]_partVars /\ (part = "streams" => StreamsFairness)

\* Every variable keeps its type.
PartsTypeOK ==
  /\ RegisterTypeOK /\ BleakTypeOK /\ PollingTypeOK /\ ThrottleTypeOK /\ StreamsTypeOK
  /\ LogTypeOK /\ DeploymentTypeOK
=============================================================================
