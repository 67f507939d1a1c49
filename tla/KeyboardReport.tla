--------------------------- MODULE KeyboardReport ----------------------------
(***************************************************************************)
(* The slots of the keyboard report (AddKey, RemoveKey and their callers   *)
(* in src/host_reader.cc).  A callback compares the buttons with those of  *)
(* the last one and applies each change in the order of mapping::Button,   *)
(* the keys of the touchpad's zones last.                                  *)
(*                                                                         *)
(* Every mapped button has a key of its own, so a key stands for its       *)
(* button; the buttons held are the keys held.                             *)
(***************************************************************************)
EXTENDS FiniteSetsExt, SequencesExt

CONSTANTS
    ButtonKeys,     \* the keys in the order of their buttons
    kKeyM, kKeyN,   \* the keys of touchpad zones 1 and 3
    Slots,          \* KEYBOARD_ROLLOVER_KEYS
    NoKey           \* 0, an empty slot

KeyOrder == ButtonKeys \o <<kKeyM, kKeyN>>
Keys == Range(KeyOrder)
ZoneKeys == {kKeyM, kKeyN}

ASSUME KeyAssumption ==
    /\ ButtonKeys \in Seq(Keys)
    /\ IsInjective(KeyOrder)
    /\ NoKey \notin Keys
    /\ Slots \in Nat \ {0}

VARIABLES
    keycode,   \* keyboard.keycode
    held       \* the keys of g_controller.buttons and of the clicked zone

keyVars == <<keycode, held>>

Empty == [i \in 1 .. Slots |-> NoKey]

Reported == Range(keycode) \ {NoKey}

-----------------------------------------------------------------------------

First(report, key) == Min({i \in DOMAIN report : report[i] = key})

AddKey(report, key) ==
    IF key \in Range(report) \/ NoKey \notin Range(report) THEN report
    ELSE [report EXCEPT ![First(report, NoKey)] = key]

\* A bug: the last slot is not searched.
RemoveKeyShort(report, key) ==
    IF \A i \in DOMAIN report \ {Slots} : report[i] # key THEN report
    ELSE [report EXCEPT ![First(report, key)] = NoKey]

RemoveKey(report, key) ==
    IF key \notin Range(report) THEN report
    ELSE [report EXCEPT ![First(report, key)] = NoKey]

ApplyAction(report, key, pressed) ==
    IF pressed THEN AddKey(report, key) ELSE RemoveKey(report, key)

\* One input: nothing is done for one that is as it was.
ApplyChange(report, key, next) ==
    IF (key \in held) = (key \in next) THEN report
    ELSE ApplyAction(report, key, key \in next)

\* The report after the first n of them: ProcessButtons, then ParseTouchpadClick.
Applied(next) ==
    LET applied[n \in 0 .. Len(KeyOrder)] ==
            IF n = 0 THEN keycode ELSE ApplyChange(applied[n - 1], KeyOrder[n], next)
    IN  applied

Callback(next) ==
    /\ keycode' = Applied(next)[Len(KeyOrder)]
    /\ held' = next

\* One zone is clicked at a time, and let go before another is clicked.
Clickable(next) == Cardinality(ZoneKeys \cap (held \cup next)) <= 1

\* ClearHidState, and QueueKeyboardMouseClear at a swipe.
Clear ==
    /\ keycode' = Empty
    /\ held' = {}

KeyInit == keycode = Empty /\ held = {}

KeyNext ==
    \/ \E next \in SUBSET Keys : Clickable(next) /\ Callback(next)
    \/ Clear

KeySpec == KeyInit /\ [][KeyNext]_keyVars

-----------------------------------------------------------------------------
(* Properties *)

\* Every variable has its type.
KeyTypeOK ==
    /\ keycode \in [1 .. Slots -> Keys \cup {NoKey}]
    /\ held \subseteq Keys

Rollover == INSTANCE KeyRollover WITH reported <- Reported

\* The slots do what a report of so many keys promises, whatever the order in
\* which one callback presses and lets go, as long as all of them have room.
IsRollover == Rollover!Spec
=============================================================================
