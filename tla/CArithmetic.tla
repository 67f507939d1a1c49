----------------------------- MODULE CArithmetic -----------------------------
(***************************************************************************)
(* Whole numbers as the firmware's C++ computes with them: int16_t wraps,  *)
(* / rounds towards zero.  An arithmetic shift right by k is \div 2^k,     *)
(* which rounds down, as TLA+ has it.                                      *)
(***************************************************************************)
EXTENDS Integers

\* The values of an int16_t.
Half == 32768
Int16 == -Half .. Half - 1
AsInt16(n) == ((n + Half) % (2 * Half)) - Half

Abs32(n) == IF n < 0 THEN -n ELSE n

\* n / d, for a positive d.
Quot(n, d) == IF n < 0 THEN -((-n) \div d) ELSE n \div d

\* n moved into -d .. d.
Clamp(n, d) == IF n > d THEN d ELSE IF n < -d THEN -d ELSE n
=============================================================================
