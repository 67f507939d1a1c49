--------------------------- MODULE MCStatusTiming ----------------------------
(***************************************************************************)
(* StatusTiming with a clock of three ticks, which wraps again and again,  *)
(* a report every tick, counters that saturate at two and three sequence   *)
(* numbers; two ticks are late.                                            *)
(***************************************************************************)
EXTENDS StatusTiming
=============================================================================
