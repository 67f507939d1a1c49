---------------------------- MODULE MCModeStore -----------------------------
(***************************************************************************)
(* ModeStore with the firmware's four profiles and the low bits of its     *)
(* checksum: 0xA55B = ...1011.  The higher bits of both fields behave like *)
(* bit 2 (not in the base) and bit 3 (in it), which no mode value uses.    *)
(***************************************************************************)
EXTENDS ModeStore

CONSTANT Width  \* how many low bits of the two fields are modelled

MCBits == 0 .. Width - 1
MCChecksumBase == {0, 1, 3} \cap MCBits
MCModeBits == [m \in 0 .. ModeCount - 1 |-> {b \in MCBits : (m \div 2^b) % 2 = 1}]
=============================================================================
