---------------------------- MODULE KeyRollover -----------------------------
(***************************************************************************)
(* What a keyboard report of so many keys promises: it names only keys     *)
(* that are held, a key it names stays until it is let go, and it names    *)
(* every held key as long as there is room for them.                       *)
(***************************************************************************)
EXTENDS FiniteSets, Naturals

CONSTANTS Keys, Slots

VARIABLES held, reported

Change(next) ==
    /\ held' = next
    /\ reported' \subseteq next
    /\ reported \cap next \subseteq reported'
    /\ (reported = held /\ Cardinality(held \cup next) <= Slots) => reported' = next

Clear == held' = {} /\ reported' = {}

Init == held = {} /\ reported = {}

Next == Clear \/ \E next \in SUBSET Keys : Change(next)

Spec == Init /\ [][Next]_<<held, reported>>
=============================================================================
