---------------------------- MODULE ModeRegister ----------------------------
(***************************************************************************)
(* What persisting a profile promises, with no flash in it: a register     *)
(* that a boot reads, that a save may find half way through at its default *)
(* value, and that power loss leaves at its old, its default or its new    *)
(* value and at nothing else.  ModeStore implements it.                    *)
(***************************************************************************)
CONSTANTS Modes, DefaultMode

VARIABLES stored,   \* the profile the next boot selects
          running,  \* the profile of the current (or the last) session
          wanted,   \* the profile the last save was asked for
          stage     \* "off", "on", "saving", "saved"

regVars == <<stored, running, wanted, stage>>

RegInit ==
    /\ stored \in Modes
    /\ running \in Modes
    /\ wanted \in Modes
    /\ stage = "off"

RegBoot ==
    /\ stage = "off"
    /\ stage' = "on"
    /\ running' = stored
    /\ UNCHANGED <<stored, wanted>>

RegSave ==
    /\ stage = "on"
    /\ stage' = "saving"
    /\ wanted' \in Modes
    /\ UNCHANGED <<stored, running>>

\* Between the erase and the program the register reads as the default.
RegClear ==
    /\ stage = "saving"
    /\ stored' = DefaultMode
    /\ UNCHANGED <<running, wanted, stage>>

RegCommit ==
    /\ stage = "saving"
    /\ stage' = "saved"
    /\ stored' = wanted
    /\ UNCHANGED <<running, wanted>>

\* The watchdog restarts a completed save.
RegRestart ==
    /\ stage = "saved"
    /\ stage' = "off"
    /\ UNCHANGED <<stored, running, wanted>>

RegPowerLoss ==
    /\ stage # "off"
    /\ stage' = "off"
    /\ \/ stored' = stored
       \/ stage = "saving" /\ stored' \in {DefaultMode, wanted}
    /\ UNCHANGED <<running, wanted>>

RegNext ==
    RegBoot \/ RegSave \/ RegClear \/ RegCommit \/ RegRestart \/ RegPowerLoss

RegSpec == RegInit /\ [][RegNext]_regVars
=============================================================================
