----------------------------- MODULE MCGyroFlick -----------------------------
(***************************************************************************)
(* GyroPointer with a sensor that drifts one way and a flick that turns    *)
(* the other way at full scale.                                            *)
(***************************************************************************)
EXTENDS GyroPointer

MCRates == {[x |-> 0, y |-> 8, z |-> 0], [x |-> 0, y |-> -Half, z |-> 0]}
=============================================================================
