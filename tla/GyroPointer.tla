----------------------------- MODULE GyroPointer -----------------------------
(***************************************************************************)
(* How turning the controller moves the PC's pointer or its right stick    *)
(* (ParseGyroMouse and ParseGyroRightStick in src/host_reader.cc).  A      *)
(* report's turning rates are corrected by what the sensor reads at rest,  *)
(* which is learnt while nobody touches the touchpad.  While it is touched *)
(* the pointer moves whole pixels and keeps the rest for later; a stick    *)
(* that would stay within the game's dead zone is pulsed past it.          *)
(*                                                                         *)
(* Q8 and Q16 numbers are integers, 256 or 65536 to the unit.  External:   *)
(* the rates of a report, and who touches when.                            *)
(*                                                                         *)
(* Bounds: MaxRests rests at rates of their own, each of Settle reports,   *)
(* a touch before or after them, of MaxTouched reports.                    *)
(***************************************************************************)
EXTENDS CArithmetic

CONSTANTS
    Rates,         \* what a report's gyro may read: x, y and z
    MaxRests, Settle, MaxTouched

Axes == {"x", "y", "z"}
Pointer == {"x", "y"}

ASSUME GyroAssumption ==
    /\ Rates \subseteq [Axes -> Int16]
    /\ MaxRests \in Nat /\ Settle \in Nat /\ MaxTouched \in Nat

GYRO_MOUSE_SENSITIVITY_Q16 == -171
GYRO_STICK_SENSITIVITY_Q8 == -64
kRestThreshold == 12
kSoftThreshold == 15
kMaxDeflection == 127
kDeadzone == (kMaxDeflection * 50 + 99) \div 100
kPulseDeflection == kDeadzone + 1

Unit == 65536       \* 1.0 in Q16
Centre == 128       \* a stick that is let go

VARIABLES
    profile,     \* the pointer that turning moves, "mouse" or "stick"
    bias,        \* gyro_bias_*_q8
    remainder,   \* gyro_mouse_*_remainder_q16
    pulse,       \* gyro_stick_*_pulse_q16
    given,       \* what the last report gave the pointer's axes, or nothing
    rest,        \* history: the rate at which the controller rests, and how long
    touch        \* history: what happened since the touchpad was touched

gyroVars == <<profile, bias, remainder, pulse, given, rest, touch>>

Nothing == [a \in Pointer |-> 0]
NoRest == [rate |-> [a \in Axes |-> 0], for |-> 0, rests |-> 0]
Untouched == [reports |-> 0, zero |-> [a \in Axes |-> 0], quiet |-> FALSE,
            turned |-> Nothing, moved |-> Nothing, wanted |-> Nothing, pulsed |-> Nothing]

-----------------------------------------------------------------------------
(* A report's rates *)

\* Yaw moves the pointer along x, pitch along y.
Turning(rate) == [x |-> rate["y"], y |-> rate["x"], z |-> rate["z"]]

\* What the sensor is held to read at rest, in whole units.
Zero(a) == bias[a] \div 256

Corrected(turning) == [a \in Axes |-> AsInt16(turning[a] - Zero(a))]

Still(corrected) == \A a \in Axes : Abs32(corrected[a]) < kRestThreshold

\* A bug: the average is computed in whole units, and never moves.
DriftWhole(turning) ==
    [a \in Axes |-> bias[a] + Quot(turning[a] - Zero(a), 400) * 256]

Drift(turning) ==
    [a \in Axes |-> bias[a] + Quot(turning[a] * 256 - bias[a], 400)]

Learns(touching, turning) == ~touching /\ Still(Corrected(turning))

Soft(raw) ==
    IF Abs32(raw) < kSoftThreshold THEN Quot(raw * Abs32(raw), kSoftThreshold) ELSE raw

\* 0.7 in Q16; the product is taken in parts that fit 32 bits, for TLC.
TimesYFactor(n) == ((n \div 256) * 45875 + ((n % 256) * 45875) \div 256) \div 256

-----------------------------------------------------------------------------
(* The mouse *)

ShapeGyroDeltaQ16(raw) ==
    LET scaled == Soft(raw) * GYRO_MOUSE_SENSITIVITY_Q16
        half == Abs32(scaled) \div 2
        shaped == (half * Unit) \div (Unit - half)
    IN  IF Abs32(scaled) >= Unit THEN scaled ELSE IF scaled < 0 THEN -shaped ELSE shaped

MouseDelta(a, raw) ==
    IF a = "x" THEN ShapeGyroDeltaQ16(raw) ELSE TimesYFactor(ShapeGyroDeltaQ16(raw))

ClampI16(n) == IF n > Half - 1 THEN Half - 1 ELSE IF n < -Half THEN -Half ELSE n

Pixels(accumulated) == ClampI16(Quot(accumulated, Unit))

\* A bug: a pixel moved takes what is left of it along.
ConsumeMouseDeltaWhole(accumulated) == IF Pixels(accumulated) # 0 THEN 0 ELSE accumulated

\* What ConsumeMouseDelta leaves for the next report.
ConsumeMouseDelta(accumulated) == accumulated - Pixels(accumulated) * Unit

-----------------------------------------------------------------------------
(* The stick *)

StickDeflection(a, raw) ==
    LET scaled == (Soft(raw) * GYRO_STICK_SENSITIVITY_Q8) \div 256
    IN  Clamp(IF a = "x" THEN scaled ELSE TimesYFactor(scaled), kMaxDeflection)

InDeadzone(deflection) == deflection # 0 /\ Abs32(deflection) < kDeadzone

Charged(a, deflection) == pulse[a] + (Abs32(deflection) * Unit) \div kDeadzone

Fires(a, deflection) == InDeadzone(deflection) /\ Charged(a, deflection) >= Unit

PulseAfter(a, deflection) ==
    IF ~InDeadzone(deflection) THEN 0
    ELSE IF Fires(a, deflection) THEN Charged(a, deflection) - Unit
    ELSE Charged(a, deflection)

Sign(n) == IF n < 0 THEN -1 ELSE 1

ApplyStickDeadzonePulse(a, deflection) ==
    IF ~InDeadzone(deflection) THEN deflection
    ELSE IF Fires(a, deflection) THEN Sign(deflection) * kPulseDeflection ELSE 0

StickAxisFromDeflection(deflection) == Centre + Clamp(deflection, kMaxDeflection)

-----------------------------------------------------------------------------
(* History *)

Settled == rest.for \in {0, Settle}

Rests(turning) ==
    \/ /\ turning = rest.rate /\ rest.for > 0
       /\ rest' = [rest EXCEPT !.for = IF @ < Settle THEN @ + 1 ELSE Settle]
    \/ /\ turning # rest.rate \/ rest.for = 0
       /\ Settled /\ Still(Corrected(turning)) /\ rest.rests < MaxRests
       /\ rest' = [rate |-> turning, for |-> 1, rests |-> rest.rests + 1]
    \/ /\ Settled /\ ~Still(Corrected(turning))
       /\ rest' = [rest EXCEPT !.for = 0]

\* The turn is what the sensor reads beyond what it was held to read at rest when
\* the touch began, whatever the width of the sum.
Touched(turning) ==
    LET zero == IF touch.reports = 0 THEN [a \in Axes |-> Zero(a)] ELSE touch.zero
        want == [a \in Pointer |-> StickDeflection(a, turning[a] - zero[a])]
    IN  /\ Settled /\ touch.reports < MaxTouched
        /\ touch' =
             [reports |-> touch.reports + 1,
              zero |-> zero,
              quiet |-> /\ touch.reports = 0 \/ touch.quiet
                        /\ rest.for = Settle /\ turning = rest.rate,
              turned |-> [a \in Pointer |->
                  touch.turned[a] + MouseDelta(a, turning[a] - zero[a])],
              moved |-> [a \in Pointer |-> touch.moved[a] + given'[a]],
              wanted |-> [a \in Pointer |->
                  IF InDeadzone(want[a]) THEN touch.wanted[a] + Abs32(want[a]) ELSE 0],
              pulsed |-> [a \in Pointer |->
                  IF ~InDeadzone(want[a]) THEN 0
                  ELSE IF given'[a] # Centre THEN touch.pulsed[a] + 1
                  ELSE touch.pulsed[a]]]

-----------------------------------------------------------------------------
(* Actions *)

Bias(touching, turning) ==
    bias' = IF Learns(touching, turning) THEN Drift(turning) ELSE bias

ParseGyroMouse(touching, turning) ==
    LET accumulated == [a \in Pointer |->
            remainder[a] + MouseDelta(a, Corrected(turning)[a])]
    IN  /\ profile = "mouse"
        /\ Bias(touching, turning)
        /\ \/ /\ ~touching
              /\ remainder' = Nothing /\ given' = Nothing
              /\ Rests(turning) /\ touch' = Untouched
           \/ /\ touching
              /\ remainder' = [a \in Pointer |-> ConsumeMouseDelta(accumulated[a])]
              /\ given' = [a \in Pointer |-> Pixels(accumulated[a])]
              /\ Touched(turning) /\ UNCHANGED rest
        /\ UNCHANGED <<profile, pulse>>

ParseGyroRightStick(touching, turning) ==
    LET deflection == [a \in Pointer |-> StickDeflection(a, Corrected(turning)[a])]
    IN  /\ profile = "stick"
        /\ Bias(touching, turning)
        /\ \/ /\ ~touching
              /\ pulse' = Nothing /\ given' = Nothing
              /\ Rests(turning) /\ touch' = Untouched
           \/ /\ touching
              /\ pulse' = [a \in Pointer |-> PulseAfter(a, deflection[a])]
              /\ given' = [a \in Pointer |->
                     StickAxisFromDeflection(ApplyStickDeadzonePulse(a, deflection[a]))]
              /\ Touched(turning) /\ UNCHANGED rest
        /\ UNCHANGED <<profile, remainder>>

\* A report too short to hold the rates.
ShortReport ==
    /\ given' = Nothing
    /\ touch' = [touch EXCEPT !.quiet = FALSE]
    /\ UNCHANGED <<profile, bias, remainder, pulse, rest>>

ClearHidState ==
    /\ bias' = [a \in Axes |-> 0]
    /\ remainder' = Nothing /\ pulse' = Nothing /\ given' = Nothing
    /\ rest' = [rest EXCEPT !.for = 0]
    /\ touch' = Untouched
    /\ UNCHANGED profile

GyroInit ==
    /\ profile \in {"mouse", "stick"}
    /\ bias = [a \in Axes |-> 0]
    /\ remainder = Nothing /\ pulse = Nothing /\ given = Nothing
    /\ rest = NoRest
    /\ touch = Untouched

GyroNext ==
    \/ \E touching \in BOOLEAN, rate \in Rates :
           \/ ParseGyroMouse(touching, Turning(rate))
           \/ ParseGyroRightStick(touching, Turning(rate))
    \/ ShortReport
    \/ ClearHidState

GyroSpec == GyroInit /\ [][GyroNext]_gyroVars

-----------------------------------------------------------------------------
(* Properties *)

\* The mouse pointer is always less than a pixel from where the turn since the
\* touch began would put it.  The stick, within the dead zone, has been pulsed once
\* for each kDeadzone of the deflections wanted since it was last let go or pushed
\* past it.  So nothing is lost to rounding, nothing is left of an earlier touch,
\* and what the sensor is held to read at rest stays put under an aiming hand,
\* however slow.
MovesAsTurned ==
    \A a \in Pointer :
        IF profile = "mouse" THEN Abs32(touch.turned[a] - touch.moved[a] * Unit) < Unit
        ELSE touch.pulsed[a] = touch.wanted[a] \div kDeadzone

\* A controller that has rested long enough at a rate the sensor's drift explains
\* moves nothing while it is touched and goes on resting, and nothing adds up that
\* would move it later: the error the average never learns away is one that soft
\* suppression makes nothing of.
StillIsStill ==
    touch.quiet =>
        /\ given = IF profile = "mouse" THEN Nothing ELSE [a \in Pointer |-> Centre]
        /\ remainder = Nothing /\ pulse = Nothing

\* "This continuously compensates for sensor drift without interfering with aiming"
\* (README.md:283): the pointer is never moved against the way the controller turned.
NeverAgainstTheTurn ==
    profile = "mouse" =>
        \A a \in Pointer : touch.moved[a] # 0 => Sign(touch.moved[a]) = Sign(touch.turned[a])
=============================================================================
