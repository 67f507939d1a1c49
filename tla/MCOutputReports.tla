-------------------------- MODULE MCOutputReports ---------------------------
(***************************************************************************)
(* OutputReports on small sets of inputs.                                  *)
(***************************************************************************)
EXTENDS OutputReports

CONSTANTS Limit,     \* the end of the range of every axis, both ways
          MaxDelta,  \* the largest movement of one controller report
          BootModes  \* the profiles a behaviour starts in

MCAxisMin == [a \in Axes |-> -Limit]
MCAxisMax == [a \in Axes |-> Limit]
MCMoveInputs == [Axes -> -MaxDelta .. MaxDelta]

MCInit == Init /\ mode \in BootModes
MCSpec == MCInit /\ [][Next]_vars
MCFairSpec == MCSpec /\ Fairness
=============================================================================
