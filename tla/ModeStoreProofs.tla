-------------------------- MODULE ModeStoreProofs ---------------------------
(***************************************************************************)
(* Proofs about ModeStore, for every number of profiles, every encoding    *)
(* ModeAssumption admits and every width of the fields.                    *)
(***************************************************************************)
EXTENDS ModeStore, TLAPS

\* A record whose header is intact has only ever lost zeros with respect to a
\* record that was written: this is what makes the checksum check sufficient.
Worn(f) == f.header => \E m \in Modes : Above(Record(m), f)

\* What the sector decodes to in each phase.
Decodes ==
    /\ phase \in {"running", "switching", "erasing"} => LoadPersistedMode(flash) = active
    /\ phase = "programming" => flash = Erased
    /\ phase = "rebooting" => LoadPersistedMode(flash) = want
    /\ phase = "off" /\ lost => LoadPersistedMode(flash) \in {active, want, kKeyboardMouse}
    /\ phase = "off" /\ ~lost => LoadPersistedMode(flash) = want

IInv == TypeOK /\ Worn(flash) /\ Decodes

-----------------------------------------------------------------------------
(* Decoding *)

\* The default profile is one of the profiles.
LEMMA DefaultInModes == kKeyboardMouse \in Modes
BY ModeAssumption DEF kKeyboardMouse, Modes

\* A record is something the sector can hold.
LEMMA RecordType == \A m \in Modes : Record(m) \in Flash
BY ModeAssumption DEF Record, Flash, Checksum, Xor

\* Two profiles of which one record lies above the other are the same: a bit
\* that goes up in the mode field makes its checksum bit go down.
LEMMA RecordsIncomparable ==
    ASSUME NEW m \in Modes, NEW n \in Modes, Above(Record(m), Record(n))
    PROVE  m = n
<1>1. ModeBits[m] \subseteq ModeBits[n]
  BY DEF Above, Record
<1>2. Xor(ChecksumBase, ModeBits[m]) \subseteq Xor(ChecksumBase, ModeBits[n])
  BY DEF Above, Record, Checksum
<1>3. ModeBits[m] \subseteq ChecksumBase /\ ModeBits[n] \subseteq ChecksumBase
  BY ModeAssumption
<1>4. ModeBits[n] \subseteq ModeBits[m]
  BY <1>2, <1>3 DEF Xor
<1>5. ModeBits[m] = ModeBits[n]
  BY <1>1, <1>4
<1> QED
  BY <1>5, ModeAssumption

\* A whole record decodes to its profile.
LEMMA DecodeRecord == \A m \in Modes : LoadPersistedMode(Record(m)) = m
<1> SUFFICES ASSUME NEW m \in Modes PROVE LoadPersistedMode(Record(m)) = m
  OBVIOUS
<1>1. \A n \in Modes : Holds(Record(m), n) => n = m
  BY RecordsIncomparable DEF Holds, Above
<1>2. Holds(Record(m), m)
  BY DEF Holds
<1> QED
  BY <1>1, <1>2 DEF LoadPersistedMode

\* Anything else decodes to the default.
LEMMA DecodeOther ==
    ASSUME NEW f, \A m \in Modes : f # Record(m)
    PROVE  LoadPersistedMode(f) = kKeyboardMouse
BY DEF LoadPersistedMode, Holds

\* Whatever the sector holds decodes to a profile.
LEMMA DecodeInModes ==
    ASSUME NEW f
    PROVE  LoadPersistedMode(f) \in Modes
<1>1. CASE \E m \in Modes : f = Record(m)
  BY <1>1, DecodeRecord
<1>2. CASE \A m \in Modes : f # Record(m)
  BY <1>2, DecodeOther, DefaultInModes
<1> QED
  BY <1>1, <1>2

\* An erased sector decodes to the default.
LEMMA DecodeErased == LoadPersistedMode(Erased) = kKeyboardMouse
BY DecodeOther DEF Erased, Record

-----------------------------------------------------------------------------
(* Power loss *)

\* A torn erase decodes to what was there or to the default.
LEMMA TornErase ==
    ASSUME NEW f \in Flash, Worn(f), NEW g \in HalfErased(f)
    PROVE  /\ Worn(g)
           /\ LoadPersistedMode(g) \in {LoadPersistedMode(f), kKeyboardMouse}
<1>1. g \in Flash /\ Above(f, g) /\ (g.header => f.header)
  BY DEF HalfErased
<1>2. Worn(g)
  BY <1>1 DEF Worn, Above
<1>3. ASSUME NEW n \in Modes, g = Record(n)
      PROVE  f = g
  <2>1. f.header
    BY <1>1, <1>3 DEF Record
  <2>2. PICK m \in Modes : Above(Record(m), f)
    BY <2>1 DEF Worn
  <2>3. Above(Record(m), Record(n))
    BY <1>1, <1>3, <2>2 DEF Above
  <2>4. m = n
    BY <2>3, RecordsIncomparable
  <2>5. f.mode = g.mode /\ f.checksum = g.checksum
    BY <1>1, <1>3, <2>2, <2>4 DEF Above
  <2>6. g.header
    BY <1>3 DEF Record
  <2> QED
    BY <1>1, <2>1, <2>5, <2>6 DEF Flash
<1>4. CASE \E n \in Modes : g = Record(n)
  BY <1>2, <1>3, <1>4
<1>5. CASE \A n \in Modes : g # Record(n)
  BY <1>2, <1>5, DecodeOther
<1> QED
  BY <1>2, <1>4, <1>5

\* A torn program decodes to what was being written or to the default.
LEMMA TornProgram ==
    ASSUME NEW m \in Modes, NEW g \in HalfProgrammed(m)
    PROVE  /\ Worn(g)
           /\ LoadPersistedMode(g) \in {m, kKeyboardMouse}
<1>1. g \in Flash /\ Above(Record(m), g)
  BY DEF HalfProgrammed
<1>2. Worn(g)
  BY <1>1 DEF Worn
<1>3. ASSUME NEW n \in Modes, g = Record(n) PROVE n = m
  BY <1>1, <1>3, RecordsIncomparable
<1>4. CASE \E n \in Modes : g = Record(n)
  BY <1>2, <1>3, <1>4, DecodeRecord
<1>5. CASE \A n \in Modes : g # Record(n)
  BY <1>2, <1>5, DecodeOther
<1> QED
  BY <1>2, <1>4, <1>5

\* A whole record is one a torn erase can have begun from.
LEMMA WornRecord == \A m \in Modes : Worn(Record(m))
BY DEF Worn, Above

\* The neighbour of a profile is a profile, both ways (mode::Next, mode::Previous).
LEMMA StepInModes ==
    ASSUME NEW m \in Modes, NEW direction
    PROVE  Step(m, direction) \in Modes
<1>1. m \in Nat /\ ModeCount \in Nat /\ ModeCount > 1
  BY ModeAssumption DEF Modes
<1>2. (m + 1) % ModeCount \in 0 .. ModeCount - 1
  BY <1>1
<1>3. (m + ModeCount - 1) % ModeCount \in 0 .. ModeCount - 1
  BY <1>1
<1> QED
  BY <1>2, <1>3 DEF Step, Modes

-----------------------------------------------------------------------------
(* The inductive invariant *)

\* The invariant holds of a board that is off.
LEMMA InitIInv == Init => IInv
<1> SUFFICES ASSUME Init PROVE IInv
  OBVIOUS
<1>0. Erased \in Flash
  BY DEF Flash, Erased
<1>1. flash \in Flash
  BY <1>0, RecordType DEF Init
<1>2. Worn(flash)
  BY WornRecord DEF Init, Worn, Erased
<1>3. active \in Modes /\ want \in Modes
  BY DecodeInModes DEF Init
<1>4. TypeOK
  BY <1>1, <1>3 DEF Init, TypeOK, Phases
<1>5. Decodes
  BY DEF Init, Decodes
<1> QED
  BY <1>2, <1>4, <1>5 DEF IInv

\* Every step of a save, and power loss in any of them, keeps it.
LEMMA NextIInv == IInv /\ [Next]_vars => IInv'
<1> SUFFICES ASSUME IInv, [Next]_vars PROVE IInv'
  OBVIOUS
<1> USE DEF IInv, TypeOK, Phases, Decodes
<1>1. CASE Boot
  <2>1. LoadPersistedMode(flash) \in Modes
    BY DecodeInModes
  <2> QED
    BY <1>1, <2>1 DEF Boot, Worn
<1>2. ASSUME NEW direction \in {"next", "previous"}, Switch(direction)
      PROVE  IInv'
  BY <1>2, StepInModes DEF Switch, Worn
<1>3. CASE SavePersistedMode
  <2>1. Holds(flash, want) => LoadPersistedMode(flash) = want
    BY DecodeRecord DEF Holds
  <2> QED
    BY <1>3, <2>1 DEF SavePersistedMode, Worn
<1>4. CASE FinishErase
  <2>1. Erased \in Flash /\ Worn(Erased)
    BY DEF Erased, Flash, Worn
  <2> QED
    BY <1>4, <2>1 DEF FinishErase, Worn
<1>5. CASE FinishProgram
  <2>1. Record(want) \in Flash /\ LoadPersistedMode(Record(want)) = want
    BY RecordType, DecodeRecord
  <2>2. Worn(flash')
    BY <1>5, WornRecord DEF FinishProgram
  <2> QED
    BY <1>5, <2>1, <2>2 DEF FinishProgram
<1>6. CASE Reboot
  BY <1>6 DEF Reboot, Worn
<1>7. CASE PowerLoss
  <2> USE <1>7 DEF PowerLoss
  <2>1. CASE phase = "erasing" /\ flash' \in HalfErased(flash)
    <3>1. Worn(flash') /\ LoadPersistedMode(flash') \in {active, kKeyboardMouse}
      BY <2>1, TornErase
    <3> QED
      BY <2>1, <3>1 DEF HalfErased
  <2>2. CASE phase = "programming" /\ flash' \in HalfProgrammed(want)
    <3>1. Worn(flash') /\ LoadPersistedMode(flash') \in {want, kKeyboardMouse}
      BY <2>2, TornProgram
    <3> QED
      BY <2>2, <3>1 DEF HalfProgrammed
  <2>3. CASE flash' = flash
    BY <2>3, DecodeErased DEF Worn
  <2> QED
    BY <2>1, <2>2, <2>3
<1>8. CASE UNCHANGED vars
  BY <1>8 DEF vars, Worn
<1> QED
  BY <1>1, <1>2, <1>3, <1>4, <1>5, <1>6, <1>7, <1>8 DEF Next

\* The inductive invariant holds: at every phase of a save the sector holds what
\* SavePersistedMode has made of it so far, whole or torn.
THEOREM Invariance == Spec => []IInv
BY InitIInv, NextIInv, PTL DEF Spec

-----------------------------------------------------------------------------
(* The properties *)

\* The state of mode.cc stays in its types: in particular Next and Previous
\* never leave the range of Mode.
THEOREM TypeCorrect == Spec => []TypeOK
<1>1. IInv => TypeOK
  BY DEF IInv
<1> QED
  BY <1>1, Invariance, PTL

\* Power loss at any point of a save leaves a sector that boots the running,
\* the requested or the default profile (SavePersistedMode, LoadPersistedMode).
THEOREM NoForeignModeHolds == Spec => []NoForeignMode
<1>1. IInv => NoForeignMode
  BY DecodeErased DEF IInv, TypeOK, Phases, Decodes, NoForeignMode
<1> QED
  BY <1>1, Invariance, PTL

\* PersistAndReboot restarts only once the requested record is complete.
THEOREM SavedBeforeRebootHolds == Spec => []SavedBeforeReboot
<1>1. IInv => SavedBeforeReboot
  BY DEF IInv, Decodes, SavedBeforeReboot
<1> QED
  BY <1>1, Invariance, PTL

\* A running session always runs the profile the sector selects.
THEOREM RunsWhatIsStoredHolds == Spec => []RunsWhatIsStored
<1>1. IInv => RunsWhatIsStored
  BY DEF IInv, Decodes, RunsWhatIsStored
<1> QED
  BY <1>1, Invariance, PTL
-----------------------------------------------------------------------------
(* Refinement *)

\* A board that is off is a register that is off.
LEMMA RefinesInit == Init => Register!RegInit
BY DecodeInModes DEF Init, Register!RegInit, StageOf

\* Every step of the store is a step of the register or leaves it alone.
LEMMA RefinesNext ==
    IInv /\ [Next]_vars => [Register!RegNext]_(Register!regVars)
<1> SUFFICES ASSUME IInv, [Next]_vars
             PROVE  Register!RegNext \/ UNCHANGED Register!regVars
  OBVIOUS
<1> USE DEF IInv, TypeOK, Phases, Decodes, StageOf
<1>1. CASE Boot
  BY <1>1 DEF Boot, Register!RegBoot, Register!RegNext
<1>2. ASSUME NEW direction \in {"next", "previous"}, Switch(direction)
      PROVE  Register!RegNext
  BY <1>2, StepInModes DEF Switch, Register!RegSave, Register!RegNext
<1>3. CASE SavePersistedMode
  <2>1. CASE Holds(flash, want)
    <3>1. LoadPersistedMode(flash) = want
      BY <2>1, DecodeRecord DEF Holds
    <3> QED
      BY <1>3, <2>1, <3>1
         DEF SavePersistedMode, Register!RegCommit, Register!RegNext
  <2>2. CASE ~Holds(flash, want)
    BY <1>3, <2>2 DEF SavePersistedMode, Register!regVars
  <2> QED
    BY <2>1, <2>2
<1>4. CASE FinishErase
  BY <1>4, DecodeErased DEF FinishErase, Register!RegClear, Register!RegNext
<1>5. CASE FinishProgram
  BY <1>5, DecodeRecord DEF FinishProgram, Register!RegCommit, Register!RegNext
<1>6. CASE Reboot
  BY <1>6 DEF Reboot, Register!RegRestart, Register!RegNext
<1>7. CASE PowerLoss
  <2> USE <1>7 DEF PowerLoss
  <2>1. CASE phase = "erasing" /\ flash' \in HalfErased(flash)
    <3>1. LoadPersistedMode(flash') \in {LoadPersistedMode(flash), kKeyboardMouse}
      BY <2>1, TornErase
    <3> QED
      BY <2>1, <3>1 DEF Register!RegPowerLoss, Register!RegNext
  <2>2. CASE phase = "programming" /\ flash' \in HalfProgrammed(want)
    <3>1. LoadPersistedMode(flash') \in {want, kKeyboardMouse}
      BY <2>2, TornProgram
    <3> QED
      BY <2>2, <3>1 DEF Register!RegPowerLoss, Register!RegNext
  <2>3. CASE flash' = flash
    BY <2>3 DEF Register!RegPowerLoss, Register!RegNext
  <2> QED
    BY <2>1, <2>2, <2>3
<1>8. CASE UNCHANGED vars
  BY <1>8 DEF vars, Register!regVars
<1> QED
  BY <1>1, <1>2, <1>3, <1>4, <1>5, <1>6, <1>7, <1>8 DEF Next

\* Persisting a profile implements the abstract register: an interrupted erase
\* or program is a power loss of the register, a finished one its commit.
THEOREM Refinement == Spec => ImplementsRegister
BY RefinesInit, RefinesNext, Invariance, PTL
   DEF Spec, ImplementsRegister, Register!RegSpec

=============================================================================
