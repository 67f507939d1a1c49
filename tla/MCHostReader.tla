--------------------------- MODULE MCHostReader -----------------------------
(***************************************************************************)
(* HostReader with one key and up to two interfaces.                       *)
(***************************************************************************)
EXTENDS HostReader

CONSTANTS Limit, MaxDelta, BootModes, LastInstance

MCInstances == 0 .. LastInstance
MCAxisMin == [a \in Axes |-> -Limit]
MCAxisMax == [a \in Axes |-> Limit]
MCMoveInputs == [Axes -> -MaxDelta .. MaxDelta]

MCSysInit == SysInit /\ mode \in BootModes
MCSysSpec == MCSysInit /\ [][SysNext]_sysVars
MCSysFairSpec == MCSysSpec /\ SysFairness
=============================================================================
