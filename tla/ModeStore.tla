----------------------------- MODULE ModeStore ------------------------------
(***************************************************************************)
(* The persisted profile (src/mode.cc).  A swipe makes the firmware erase  *)
(* one flash sector, program one record and reboot through the watchdog;   *)
(* the next boot decodes the record, and anything it cannot decode selects *)
(* the default profile.  The board is bus-powered, so power can go at any  *)
(* point of that sequence.                                                 *)
(*                                                                         *)
(* A field of the record is the set of its bits that read 1.  An erase     *)
(* turns bits to 1 and a program turns bits to 0: power lost in either     *)
(* leaves, of each field, any superset of what was there (erase) or of     *)
(* what was being written (program).                                       *)
(***************************************************************************)
EXTENDS Naturals

CONSTANTS
    ModeCount,     \* Mode::kCount: 3, or 4 in a build with the GyroStick profile
    Bits,          \* the bit positions of the mode and checksum fields
    ModeBits,      \* the bits of each mode value
    ChecksumBase   \* the bits of 0xA55A ^ kPersistVersion

Modes == 0 .. ModeCount - 1

kKeyboardMouse == 0

\* 0xA55A ^ 1 = 0xA55B has its two low bits set, and the mode values are below
\* 4: every bit a mode uses is a bit of the base.
ASSUME ModeAssumption ==
    /\ ModeCount \in Nat \ {0, 1}
    /\ ModeBits \in [Modes -> SUBSET Bits]
    /\ \A m, n \in Modes : ModeBits[m] = ModeBits[n] => m = n
    /\ ChecksumBase \subseteq Bits
    /\ \A m \in Modes : ModeBits[m] \subseteq ChecksumBase

VARIABLES
    flash,   \* the sector: header (magic and version intact), mode, checksum
    active,  \* g_active_mode of this session, or of the last one while off
    want,    \* the mode the last swipe asked for
    phase,   \* where the firmware is
    lost     \* history: the last stop was a power loss

vars == <<flash, active, want, phase, lost>>

Phases == {"off", "running", "switching", "erasing", "programming", "rebooting"}

Flash == [header : BOOLEAN, mode : SUBSET Bits, checksum : SUBSET Bits]

TypeOK ==
    /\ flash \in Flash
    /\ active \in Modes
    /\ want \in Modes
    /\ phase \in Phases
    /\ lost \in BOOLEAN

-----------------------------------------------------------------------------
(* The record *)

Xor(a, b) == (a \ b) \cup (b \ a)

UncheckedChecksum(m) == ChecksumBase

Checksum(m) == Xor(ChecksumBase, ModeBits[m])

Erased == [header |-> FALSE, mode |-> Bits, checksum |-> Bits]

Record(m) == [header |-> TRUE, mode |-> ModeBits[m], checksum |-> Checksum(m)]

\* LoadPersistedMode accepts a record only whole; IsValidMode is m \in Modes.
Holds(f, m) == f = Record(m)

LoadPersistedMode(f) ==
    IF \E m \in Modes : Holds(f, m)
    THEN CHOOSE m \in Modes : Holds(f, m)
    ELSE kKeyboardMouse

Above(f, g) == f.mode \subseteq g.mode /\ f.checksum \subseteq g.checksum

\* What power loss can leave of an erase of f: bits that went up.
HalfErased(f) == {g \in Flash : Above(f, g) /\ (g.header => f.header)}

\* ... and of a program of m into the erased page: bits that did not go down.
HalfProgrammed(m) == {g \in Flash : Above(Record(m), g)}

-----------------------------------------------------------------------------
(* Changing the mode *)

Step(m, direction) ==
    IF direction = "previous" THEN (m + ModeCount - 1) % ModeCount
                              ELSE (m + 1) % ModeCount

Init ==
    /\ flash \in {Erased} \cup {Record(m) : m \in Modes}
    /\ active = LoadPersistedMode(flash)
    /\ want = active
    /\ phase = "off"
    /\ lost = TRUE

\* main: mode::Init reads the sector before anything else runs.
Boot ==
    /\ phase = "off"
    /\ phase' = "running"
    /\ active' = LoadPersistedMode(flash)
    /\ lost' = FALSE
    /\ UNCHANGED <<flash, want>>

\* A swipe: HandleModeSwitch computes the next mode, releases what is held,
\* sleeps 20 ms and calls PersistAndReboot.
Switch(direction) ==
    /\ phase = "running"
    /\ phase' = "switching"
    /\ want' = Step(active, direction)
    /\ UNCHANGED <<flash, active, lost>>

\* SavePersistedMode leaves a sector that already holds the record alone.
SavePersistedMode ==
    /\ phase = "switching"
    /\ phase' = IF Holds(flash, want) THEN "rebooting" ELSE "erasing"
    /\ UNCHANGED <<flash, active, want, lost>>

FinishErase ==
    /\ phase = "erasing"
    /\ phase' = "programming"
    /\ flash' = Erased
    /\ UNCHANGED <<active, want, lost>>

\* A bug: the page is written before its record is filled in.
ProgramErased ==
    /\ phase = "programming"
    /\ phase' = "rebooting"
    /\ UNCHANGED <<flash, active, want, lost>>

FinishProgram ==
    /\ phase = "programming"
    /\ phase' = "rebooting"
    /\ flash' = Record(want)
    /\ UNCHANGED <<active, want, lost>>

Reboot ==
    /\ phase = "rebooting"
    /\ phase' = "off"
    /\ UNCHANGED <<flash, active, want, lost>>

PowerLoss ==
    /\ phase # "off"
    /\ phase' = "off"
    /\ lost' = TRUE
    /\ \/ phase = "erasing" /\ flash' \in HalfErased(flash)
       \/ phase = "programming" /\ flash' \in HalfProgrammed(want)
       \/ flash' = flash
    /\ UNCHANGED <<active, want>>

Next ==
    \/ Boot
    \/ \E direction \in {"next", "previous"} : Switch(direction)
    \/ SavePersistedMode
    \/ FinishErase
    \/ FinishProgram
    \/ Reboot
    \/ PowerLoss

\* The processor runs what it has begun unless power is lost, and the USB host
\* powers the port again.
Fairness ==
    /\ WF_vars(Boot)
    /\ WF_vars(SavePersistedMode)
    /\ WF_vars(FinishErase)
    /\ WF_vars(FinishProgram)
    /\ WF_vars(Reboot)

Spec == Init /\ [][Next]_vars
FairSpec == Spec /\ Fairness

-----------------------------------------------------------------------------
(* Properties *)

\* Whatever power loss does to the sector, the next boot selects the profile
\* that was running, the one being saved, or the default: a torn record is
\* never taken for a third profile (LoadPersistedMode's checks).
NoForeignMode == LoadPersistedMode(flash) \in {active, want, kKeyboardMouse}

\* A restart the firmware itself asked for comes back in the profile the swipe
\* selected: the record is complete before watchdog_reboot.
SavedBeforeReboot ==
    phase = "rebooting" \/ (phase = "off" /\ ~lost) => LoadPersistedMode(flash) = want

\* While a session runs, the sector still selects that session's profile, so
\* pulling the cable never changes it: the mode is not switched in RAM only.
RunsWhatIsStored == phase = "running" => LoadPersistedMode(flash) = active

\* A swipe ends in a session of the selected profile, unless power is lost
\* on the way: no path of PersistAndReboot gets stuck or comes back elsewhere.
SwitchCompletes ==
    phase = "switching" ~> lost \/ (phase = "running" /\ active = want)

\* The sector implements a register; each phase is a stage of it.
StageOf ==
    [off |-> "off", running |-> "on", switching |-> "saving", erasing |-> "saving",
     programming |-> "saving", rebooting |-> "saved"]

Register == INSTANCE ModeRegister WITH
    DefaultMode <- kKeyboardMouse,
    stored  <- LoadPersistedMode(flash),
    running <- active,
    wanted  <- want,
    stage   <- StageOf[phase]

\* Persisting refines the abstract register: the erase/program sequence, torn
\* or not, is a RegClear, a RegCommit or a RegPowerLoss.
ImplementsRegister == Register!RegSpec
=============================================================================
