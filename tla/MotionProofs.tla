---------------------------- MODULE MotionProofs -----------------------------
(***************************************************************************)
(* What becomes of a controller's motion.  The pointer follows the hand    *)
(* for every set of rates, every number of rests and every length of a     *)
(* touch, and rests with the controller (GyroPointer).  The sticks point   *)
(* where they are, as buttons (StickButtons).  The lean is what the        *)
(* accelerometer says, however the controller came to lean (LeanEstimate). *)
(***************************************************************************)
EXTENDS GyroPointer, StickButtons, LeanEstimate, Sequences, TLAPS

\* Rates below h whole units either way, and a bias as such rates may teach.
RatesWithin(h) == Rates \subseteq [Axes -> -h .. h - 1]
BiasWithin(h) ==
    /\ bias \in [Axes -> Int]
    /\ \A a \in Axes : -h * 256 <= bias[a] /\ bias[a] <= (h - 1) * 256

\* Rates whose differences fit 16 bits.
NarrowRates == RatesWithin(Half \div 2)

TouchType ==
    [reports : Nat, zero : [Axes -> Int], quiet : BOOLEAN, turned : [Pointer -> Int],
     moved : [Pointer -> Int], wanted : [Pointer -> Int], pulsed : [Pointer -> Int]]

GyroTypeOK ==
    /\ profile \in {"mouse", "stick"}
    /\ BiasWithin(Half)
    /\ remainder \in [Pointer -> Int]
    /\ pulse \in [Pointer -> Int]
    /\ given \in [Pointer -> Int]
    /\ touch \in TouchType

\* Less than a pixel is left over, and less than the charge of a pulse.
LeftOver ==
    /\ \A a \in Pointer : Abs32(remainder[a]) < Unit
    /\ \A a \in Pointer : 0 <= pulse[a] /\ pulse[a] < Unit

\* What is left over is what the turn is ahead of the pointer, and what was wanted
\* ahead of the pulses; the touch is measured from the bias there still is.
Tracks ==
    /\ touch.reports > 0 => \A a \in Axes : touch.zero[a] = Zero(a)
    /\ \A a \in Pointer : profile = "mouse" =>
           touch.turned[a] - touch.moved[a] * Unit = remainder[a]
    /\ \A a \in Pointer : profile = "stick" =>
           pulse[a] + touch.pulsed[a] * Unit = touch.wanted[a] * 1024

IInv == GyroTypeOK /\ LeftOver

-----------------------------------------------------------------------------
(* Numbers *)

\* All that is used of how large the numbers of the code are.
LEMMA UnitIs ==
    /\ Half \in Int /\ Half > 1000 /\ 2 * (Half \div 2) = Half
    /\ Unit \in Int /\ Unit = 2 * Half /\ Unit = kDeadzone * 1024
  BY DEF Unit, Half, kDeadzone, kMaxDeflection

LEMMA PulseIs == kDeadzone = 64 /\ kMaxDeflection = 127 /\ kPulseDeflection = 65
  BY DEF kDeadzone, kMaxDeflection, kPulseDeflection

\* What 16 bits hold is left as it is, and whatever is kept fits them.
LEMMA FitsInt16 ==
    ASSUME NEW n \in Int
    PROVE  AsInt16(n) \in Int16 /\ (n \in Int16 => AsInt16(n) = n)
  <1> DEFINE m == n + Half
             w == 2 * Half
             r == m % w
  <1>1. m \in Int /\ w \in Int /\ w > 0
    BY UnitIs
  <1>2. r \in Int /\ 0 <= r /\ r < w
    <2> HIDE DEF m, w
    <2> QED BY <1>1
  <1>3. 0 <= m /\ m < w => r = m
    <2> HIDE DEF m, w
    <2> QED BY <1>1
  <1>4. AsInt16(n) = r - Half
    BY DEF AsInt16
  <1> HIDE DEF r
  <1> QED BY UnitIs, <1>2, <1>3, <1>4 DEF Int16

\* A quotient rounded down times its divisor is at most the dividend, and less than a
\* divisor from it.
LEMMA RoundedDown ==
    ASSUME NEW n \in Int, NEW d \in Int, d > 0, 0 <= n
    PROVE  /\ n \div d \in Int /\ 0 <= n \div d /\ (n \div d) * d <= n
           /\ n - (n \div d) * d < d
  OBVIOUS

LEMMA RoundedDownAtMost ==
    ASSUME NEW n \in Int, NEW d \in Int, d > 0, 0 <= n, NEW k \in Int, n <= k * d
    PROVE  n \div d <= k
  OBVIOUS

\* The same of a quotient rounded towards zero.
LEMMA RoundedTowardsZero ==
    ASSUME NEW n \in Int, NEW d \in Int, d > 0
    PROVE  /\ Quot(n, d) \in Int /\ Abs32(n - Quot(n, d) * d) < d
           /\ n >= 0 => 0 <= Quot(n, d) /\ Quot(n, d) * d <= n
           /\ n < 0 => Quot(n, d) <= 0 /\ n <= Quot(n, d) * d
  <1>1. CASE n >= 0
    BY <1>1, RoundedDown DEF Quot, Abs32
  <1>2. CASE n < 0
    <2>1. -n \in Int /\ 0 <= -n
      BY <1>2
    <2>2. /\ (-n) \div d \in Int /\ 0 <= (-n) \div d /\ ((-n) \div d) * d <= -n
          /\ -n - ((-n) \div d) * d < d
      BY <2>1, RoundedDown
    <2> DEFINE q == (-n) \div d
    <2>3. Quot(n, d) = -q
      BY <1>2 DEF Quot
    <2>4. q \in Int /\ 0 <= q /\ q * d <= -n /\ -n - q * d < d
      BY <2>2
    <2> HIDE DEF q
    <2>5. (-q) * d = -(q * d)
      BY <2>4
    <2> QED BY <1>2, <2>3, <2>4, <2>5 DEF Abs32
  <1> QED BY <1>1, <1>2

\* An average that moves towards a value does not pass it.
LEMMA DriftBetween ==
    ASSUME NEW b \in Int, NEW t \in Int, NEW lo \in Int, NEW hi \in Int,
           lo <= b, b <= hi, lo <= t, t <= hi
    PROVE  b + Quot(t - b, 400) \in Int /\ lo <= b + Quot(t - b, 400) /\ b + Quot(t - b, 400) <= hi
  BY DEF Quot

\* Seven tenths, rounded down, are between nothing and the whole.
LEMMA YFactorIs ==
    ASSUME NEW n \in Int
    PROVE  /\ TimesYFactor(n) \in Int
           /\ n >= 0 => 0 <= TimesYFactor(n) /\ TimesYFactor(n) <= n
           /\ n < 0 => TimesYFactor(n) <= 0 /\ n <= TimesYFactor(n)
  BY DEF TimesYFactor

LEMMA SoftIs ==
    ASSUME NEW raw \in Int
    PROVE  Soft(raw) \in Int /\ Abs32(Soft(raw)) <= Abs32(raw)
  <1>1. CASE Abs32(raw) < 15
    <2> DEFINE p == raw * Abs32(raw)
    <2>1. p \in Int /\ Abs32(raw) \in Int
      BY DEF Abs32
    <2>2. raw >= 0 => 0 <= p /\ p <= 15 * raw
      BY <1>1 DEF Abs32
    <2>3. raw < 0 => p <= 0 /\ 15 * raw <= p
      BY <1>1 DEF Abs32
    <2>4. Soft(raw) = Quot(p, 15)
      BY <1>1 DEF Soft, kSoftThreshold
    <2> HIDE DEF p
    <2> QED BY <2>1, <2>2, <2>3, <2>4 DEF Quot, Abs32
  <1>2. CASE ~(Abs32(raw) < 15)
    BY <1>2 DEF Soft, kSoftThreshold, Abs32
  <1> QED BY <1>1, <1>2

\* A shaped delta is at most the sensitivity times the rate, or one pixel.
LEMMA ShapeIs ==
    /\ \A raw \in Int : ShapeGyroDeltaQ16(raw) \in Int
    /\ \A raw \in Int16 : Abs32(ShapeGyroDeltaQ16(raw)) <= 171 * Half
  <1> SUFFICES ASSUME NEW raw \in Int
               PROVE  /\ ShapeGyroDeltaQ16(raw) \in Int
                      /\ raw \in Int16 => Abs32(ShapeGyroDeltaQ16(raw)) <= 171 * Half
    BY UnitIs DEF Int16
  <1> DEFINE s == Soft(raw)
             scaled == s * GYRO_MOUSE_SENSITIVITY_Q16
             half == Abs32(scaled) \div 2
             shaped == (half * Unit) \div (Unit - half)
  <1>1. s \in Int /\ Abs32(s) <= Abs32(raw)
    BY SoftIs
  <1>2. scaled = -171 * s /\ scaled \in Int
    BY <1>1 DEF GYRO_MOUSE_SENSITIVITY_Q16
  <1>3. raw \in Int16 => Abs32(raw) <= Half
    BY UnitIs DEF Int16, Abs32
  <1>4. raw \in Int16 => Abs32(scaled) <= 171 * Half
    <2> HIDE DEF s, scaled
    <2> QED BY <1>1, <1>2, <1>3, UnitIs DEF Abs32
  <1>5. ShapeGyroDeltaQ16(raw) =
          IF Abs32(scaled) >= Unit THEN scaled ELSE IF scaled < 0 THEN -shaped ELSE shaped
    BY DEF ShapeGyroDeltaQ16
  <1>6. Abs32(scaled) \in Int /\ 0 <= Abs32(scaled)
    <2> HIDE DEF scaled
    <2> QED BY <1>2 DEF Abs32
  <1>7. ASSUME ~(Abs32(scaled) >= Unit)
        PROVE  shaped \in Int /\ 0 <= shaped /\ shaped <= Unit
    <2>1. half \in Int /\ 0 <= half /\ half < Half
      <3> HIDE DEF scaled
      <3> QED BY <1>6, <1>7, UnitIs
    <2> HIDE DEF half
    <2>2. half * Unit \in Int /\ 0 <= half * Unit /\ half * Unit = Unit * half
      BY <2>1, UnitIs
    <2>3. Unit - half \in Int /\ Unit - half > 0 /\ half <= Unit - half
      BY <2>1, UnitIs
    <2>4. Unit * half <= Unit * (Unit - half)
      BY <2>1, <2>3, UnitIs
    <2> DEFINE n == half * Unit
               d == Unit - half
    <2>5. n \in Int /\ 0 <= n /\ d \in Int /\ d > 0 /\ n <= Unit * d
      BY <2>2, <2>3, <2>4
    <2>6. shaped = n \div d
      OBVIOUS
    <2> HIDE DEF n, d, shaped
    <2> QED BY <2>5, <2>6, UnitIs, RoundedDown, RoundedDownAtMost
  <1> HIDE DEF s, scaled, shaped
  <1>8. CASE Abs32(scaled) >= Unit
    BY <1>2, <1>4, <1>5, <1>8
  <1>9. CASE ~(Abs32(scaled) >= Unit)
    BY <1>5, <1>7, <1>9, UnitIs DEF Abs32
  <1> QED BY <1>8, <1>9

LEMMA MouseDeltaIs ==
    ASSUME NEW a \in Pointer
    PROVE  /\ \A raw \in Int : MouseDelta(a, raw) \in Int
           /\ \A raw \in Int16 : Abs32(MouseDelta(a, raw)) <= 171 * Half
  <1>1. ASSUME NEW raw \in Int
        PROVE  /\ MouseDelta(a, raw) \in Int
               /\ raw \in Int16 => Abs32(MouseDelta(a, raw)) <= 171 * Half
    <2> DEFINE n == ShapeGyroDeltaQ16(raw)
    <2>1. n \in Int /\ (raw \in Int16 => Abs32(n) <= 171 * Half)
      BY ShapeIs
    <2>2. MouseDelta(a, raw) = n \/ MouseDelta(a, raw) = TimesYFactor(n)
      BY DEF MouseDelta
    <2> HIDE DEF n
    <2>3. TimesYFactor(n) \in Int /\ Abs32(TimesYFactor(n)) <= Abs32(n)
      BY <2>1, YFactorIs DEF Abs32
    <2> QED BY <2>1, <2>2, <2>3, UnitIs DEF Abs32
  <1>2. Int16 \subseteq Int
    BY UnitIs DEF Int16
  <1> QED BY <1>1, <1>2

\* What is left of a sum that no two deltas exceed is less than a pixel: the clamp
\* is never met.
LEMMA ConsumeIs ==
    ASSUME NEW n \in Int, -(200 * Unit) < n, n < 200 * Unit
    PROVE  /\ Pixels(n) \in Int
           /\ ConsumeMouseDelta(n) = n - Pixels(n) * Unit
           /\ ConsumeMouseDelta(n) \in Int /\ Abs32(ConsumeMouseDelta(n)) < Unit
  <1> DEFINE q == Quot(n, Unit)
  <1>1. /\ q \in Int /\ Abs32(n - q * Unit) < Unit
        /\ n >= 0 => 0 <= q /\ q * Unit <= n
        /\ n < 0 => q <= 0 /\ n <= q * Unit
    <2>1. Unit \in Int /\ Unit > 0
      BY UnitIs
    <2> QED BY <2>1, RoundedTowardsZero, Zenon
  <1> HIDE DEF q
  <1>2. q < 200 /\ -200 < q
    <2>1. q * Unit < 200 * Unit /\ -200 * Unit < q * Unit
      BY <1>1, UnitIs
    <2> QED BY <2>1, <1>1, UnitIs
  <1>3. Pixels(n) = q
    BY <1>1, <1>2, UnitIs DEF Pixels, ClampI16, q
  <1>4. n - q * Unit \in Int
    BY <1>1, UnitIs
  <1> QED BY <1>1, <1>3, <1>4 DEF ConsumeMouseDelta

LEMMA DeltasAreSmall ==
    ASSUME NEW r \in Int, Abs32(r) < Unit, NEW d \in Int, Abs32(d) <= 171 * Half
    PROVE  r + d \in Int /\ -(200 * Unit) < r + d /\ r + d < 200 * Unit
  BY UnitIs DEF Abs32

\* A deflection is one a stick can have.
LEMMA DeflectionIs ==
    ASSUME NEW a \in Pointer, NEW raw \in Int
    PROVE  StickDeflection(a, raw) \in -127 .. 127
  <1> DEFINE n == Soft(raw) * GYRO_STICK_SENSITIVITY_Q8
             scaled == n \div 256
             m == IF a = "x" THEN scaled ELSE TimesYFactor(scaled)
  <1>1. n \in Int
    BY SoftIs DEF GYRO_STICK_SENSITIVITY_Q8
  <1>2. scaled \in Int
    <2> HIDE DEF n
    <2> QED BY <1>1
  <1> HIDE DEF scaled
  <1>3. m \in Int
    BY <1>2, YFactorIs
  <1>4. StickDeflection(a, raw) = Clamp(m, 127)
    BY PulseIs DEF StickDeflection, scaled
  <1> HIDE DEF m
  <1> QED BY <1>3, <1>4 DEF Clamp

\* A report within the dead zone charges its deflection, and what is beyond a whole
\* charge is kept; the stick leaves the middle when there is one.
LEMMA PulseStep ==
    ASSUME NEW a \in Pointer, NEW STATE d, d \in -127 .. 127,
           pulse[a] \in Int, 0 <= pulse[a], pulse[a] < Unit,
           NEW STATE next, next = PulseAfter(a, d),
           NEW STATE axis, axis = StickAxisFromDeflection(ApplyStickDeadzonePulse(a, d))
    PROVE  /\ next \in Int /\ 0 <= next /\ next < Unit
           /\ axis \in Int
           /\ ~InDeadzone(d) => next = 0
           /\ InDeadzone(d) /\ axis = Centre => next = pulse[a] + Abs32(d) * 1024
           /\ InDeadzone(d) /\ axis # Centre => next = pulse[a] + Abs32(d) * 1024 - Unit
  <1>1. Abs32(d) \in 0 .. 127
    BY DEF Abs32
  <1>2. (Abs32(d) * Unit) \div kDeadzone = Abs32(d) * 1024
    BY <1>1, PulseIs DEF Unit
  <1>3. Charged(a, d) = pulse[a] + Abs32(d) * 1024
    BY <1>2 DEF Charged
  <1>4. Unit \in Int /\ Unit = 64 * 1024
    BY UnitIs, PulseIs
  <1>5. CASE ~InDeadzone(d)
    BY <1>4, <1>5, PulseIs
       DEF PulseAfter, StickAxisFromDeflection, ApplyStickDeadzonePulse, Clamp, Centre
  <1>6. CASE InDeadzone(d)
    <2>1. Abs32(d) * 1024 < Unit /\ Abs32(d) * 1024 \in Int /\ 0 <= Abs32(d) * 1024
      BY <1>1, <1>4, <1>6, PulseIs DEF InDeadzone
    <2>2. CASE Fires(a, d)
      <3>1. PulseAfter(a, d) = pulse[a] + Abs32(d) * 1024 - Unit /\ PulseAfter(a, d) >= 0
        BY <1>3, <1>4, <1>6, <2>1, <2>2 DEF PulseAfter, Fires
      <3>2. ApplyStickDeadzonePulse(a, d) \in {-65, 65}
        BY <1>6, <2>2, PulseIs DEF ApplyStickDeadzonePulse, Sign
      <3>3. StickAxisFromDeflection(ApplyStickDeadzonePulse(a, d)) \in {63, 193}
        BY <3>2, PulseIs DEF StickAxisFromDeflection, Clamp, Centre
      <3> QED BY <1>4, <1>6, <2>1, <3>1, <3>3 DEF Centre
    <2>3. CASE ~Fires(a, d)
      <3>1. PulseAfter(a, d) = pulse[a] + Abs32(d) * 1024 /\ PulseAfter(a, d) < Unit
        BY <1>3, <1>4, <1>6, <2>1, <2>3 DEF PulseAfter, Fires
      <3>2. ApplyStickDeadzonePulse(a, d) = 0
        BY <1>6, <2>3 DEF ApplyStickDeadzonePulse
      <3>3. StickAxisFromDeflection(ApplyStickDeadzonePulse(a, d)) = Centre /\ Centre \in Int
        BY <3>2, PulseIs DEF StickAxisFromDeflection, Clamp, Centre
      <3> QED BY <1>4, <1>6, <2>1, <3>1, <3>3
    <2> QED BY <2>2, <2>3
  <1> QED BY <1>5, <1>6

-----------------------------------------------------------------------------
(* Reports *)

LEMMA TurningIs ==
    ASSUME NEW h \in Int, RatesWithin(h), NEW rate \in Rates
    PROVE  \A a \in Axes : Turning(rate)[a] \in -h .. h - 1
  <1>1. \A a \in Axes : rate[a] \in -h .. h - 1
    BY DEF RatesWithin
  <1> QED BY <1>1 DEF Turning, Axes

\* The bias stays among the rates that teach it, and under a touch where it is.
LEMMA BiasStays ==
    ASSUME NEW h \in Int, BiasWithin(h), NEW turning, \A a \in Axes : turning[a] \in -h .. h - 1,
           NEW touching \in BOOLEAN, Bias(touching, turning)
    PROVE  BiasWithin(h)' /\ (touching => bias' = bias)
  <1>1. CASE Learns(touching, turning)
    <2>1. ~touching
      BY <1>1 DEF Learns
    <2>2. bias' = [a \in Axes |-> bias[a] + Quot(turning[a] * 256 - bias[a], 400)]
      BY <1>1 DEF Bias, Drift
    <2>3. ASSUME NEW a \in Axes
          PROVE  bias'[a] \in Int /\ -h * 256 <= bias'[a] /\ bias'[a] <= (h - 1) * 256
      <3> DEFINE b == bias[a]
                 t == turning[a] * 256
                 lo == -h * 256
                 hi == (h - 1) * 256
      <3>1. b \in Int /\ lo \in Int /\ hi \in Int /\ lo <= b /\ b <= hi
        BY DEF BiasWithin
      <3>2. t \in Int /\ lo <= t /\ t <= hi
        BY <2>3
      <3>3. bias'[a] = b + Quot(t - b, 400)
        BY <2>2
      <3> HIDE DEF b, t
      <3>4. /\ b + Quot(t - b, 400) \in Int /\ lo <= b + Quot(t - b, 400)
            /\ b + Quot(t - b, 400) <= hi
        <4> HIDE DEF lo, hi
        <4> QED BY <3>1, <3>2, DriftBetween
      <3> QED BY <3>3, <3>4
    <2>4. bias' \in [Axes -> Int]
      BY <2>2, <2>3
    <2> QED BY <2>1, <2>3, <2>4 DEF BiasWithin
  <1>2. CASE ~Learns(touching, turning)
    BY <1>2 DEF Bias, BiasWithin
  <1> QED BY <1>1, <1>2

\* What the sensor is held to read at rest fits the rates that taught it.
LEMMA ZeroIs ==
    ASSUME NEW h \in Int, BiasWithin(h)
    PROVE  \A a \in Axes : Zero(a) \in -h .. h - 1
  <1> SUFFICES ASSUME NEW a \in Axes
               PROVE  Zero(a) \in -h .. h - 1
    OBVIOUS
  <1> DEFINE b == bias[a]
  <1>1. b \in Int /\ -h * 256 <= b /\ b <= (h - 1) * 256
    BY DEF BiasWithin
  <1>2. Zero(a) = b \div 256
    BY DEF Zero
  <1> HIDE DEF b
  <1> QED BY <1>1, <1>2

\* Corrected rates fit 16 bits; those of narrow rates are the differences.
LEMMA CorrectedIs ==
    ASSUME GyroTypeOK, NEW turning, \A a \in Axes : turning[a] \in Int, NEW a \in Axes
    PROVE  /\ turning[a] - Zero(a) \in Int
           /\ Corrected(turning)[a] \in Int16 /\ Corrected(turning)[a] \in Int
           /\ turning[a] - Zero(a) \in Int16 => Corrected(turning)[a] = turning[a] - Zero(a)
  <1>1. Zero(a) \in Int
    BY ZeroIs, UnitIs DEF GyroTypeOK
  <1>2. turning[a] - Zero(a) \in Int
    BY <1>1
  <1>3. Corrected(turning)[a] = AsInt16(turning[a] - Zero(a))
    BY DEF Corrected
  <1>4. Int16 \subseteq Int
    BY UnitIs DEF Int16
  <1> QED BY <1>2, <1>3, <1>4, FitsInt16

\* What Touched says of each axis.
TouchedFields(turning) ==
    /\ touch'.reports = touch.reports + 1
    /\ touch'.zero = IF touch.reports = 0 THEN [a \in Axes |-> Zero(a)] ELSE touch.zero
    /\ touch' \in TouchType
    /\ \A a \in Pointer :
           LET raw == turning[a] - touch'.zero[a]
               want == StickDeflection(a, raw)
           IN  /\ touch'.turned[a] = touch.turned[a] + MouseDelta(a, raw)
               /\ touch'.moved[a] = touch.moved[a] + given'[a]
               /\ touch'.wanted[a] =
                      IF InDeadzone(want) THEN touch.wanted[a] + Abs32(want) ELSE 0
               /\ touch'.pulsed[a] =
                      IF ~InDeadzone(want) THEN 0
                      ELSE IF given'[a] # Centre THEN touch.pulsed[a] + 1 ELSE touch.pulsed[a]

LEMMA TouchedIs ==
    ASSUME GyroTypeOK, given' \in [Pointer -> Int],
           NEW turning, \A a \in Axes : turning[a] \in Int, Touched(turning)
    PROVE  TouchedFields(turning)
  <1> DEFINE zero == IF touch.reports = 0 THEN [a \in Axes |-> Zero(a)] ELSE touch.zero
             want == [a \in Pointer |-> StickDeflection(a, turning[a] - zero[a])]
             turned == [a \in Pointer |-> touch.turned[a] + MouseDelta(a, turning[a] - zero[a])]
             moved == [a \in Pointer |-> touch.moved[a] + given'[a]]
             wanted == [a \in Pointer |->
                 IF InDeadzone(want[a]) THEN touch.wanted[a] + Abs32(want[a]) ELSE 0]
             pulsed == [a \in Pointer |->
                 IF ~InDeadzone(want[a]) THEN 0
                 ELSE IF given'[a] # Centre THEN touch.pulsed[a] + 1 ELSE touch.pulsed[a]]
             quiet == /\ touch.reports = 0 \/ touch.quiet
                      /\ rest.for = Settle /\ turning = rest.rate
  <1>1. touch' = [reports |-> touch.reports + 1, zero |-> zero, quiet |-> quiet,
                  turned |-> turned, moved |-> moved, wanted |-> wanted, pulsed |-> pulsed]
    BY DEF Touched
  <1>2. touch \in TouchType
    BY DEF GyroTypeOK
  <1>3. zero \in [Axes -> Int]
    <2>1. \A a \in Axes : Zero(a) \in Int
      BY ZeroIs, UnitIs DEF GyroTypeOK
    <2> QED BY <1>2, <2>1 DEF TouchType
  <1> HIDE DEF zero
  <1>4. \A a \in Pointer : turning[a] - zero[a] \in Int
    BY <1>3 DEF Pointer, Axes
  <1>5. \A a \in Pointer : want[a] \in -127 .. 127 /\ Abs32(want[a]) \in Int
    BY <1>4, DeflectionIs DEF Abs32
  <1>6. \A a \in Pointer : want[a] = StickDeflection(a, turning[a] - zero[a])
    OBVIOUS
  <1> HIDE DEF want
  <1>7. turned \in [Pointer -> Int]
    BY <1>2, <1>4, MouseDeltaIs DEF TouchType
  <1>8. moved \in [Pointer -> Int]
    BY <1>2 DEF TouchType
  <1>9. wanted \in [Pointer -> Int]
    BY <1>2, <1>5 DEF TouchType
  <1>10. pulsed \in [Pointer -> Int]
    BY <1>2 DEF TouchType
  <1>11. quiet \in BOOLEAN /\ touch.reports + 1 \in Nat
    BY <1>2 DEF TouchType
  <1>12. \A a \in Pointer :
           /\ turned[a] = touch.turned[a] + MouseDelta(a, turning[a] - zero[a])
           /\ moved[a] = touch.moved[a] + given'[a]
           /\ wanted[a] = IF InDeadzone(want[a]) THEN touch.wanted[a] + Abs32(want[a]) ELSE 0
           /\ pulsed[a] = IF ~InDeadzone(want[a]) THEN 0
                          ELSE IF given'[a] # Centre THEN touch.pulsed[a] + 1 ELSE touch.pulsed[a]
    OBVIOUS
  <1> HIDE DEF turned, moved, wanted, pulsed, quiet
  <1>13. touch' \in TouchType
    BY <1>1, <1>3, <1>7, <1>8, <1>9, <1>10, <1>11 DEF TouchType
  <1>14. /\ touch'.reports = touch.reports + 1 /\ touch'.zero = zero
         /\ touch'.turned = turned /\ touch'.moved = moved
         /\ touch'.wanted = wanted /\ touch'.pulsed = pulsed
    BY <1>1
  <1>15. zero = IF touch.reports = 0 THEN [a \in Axes |-> Zero(a)] ELSE touch.zero
    BY DEF zero
  <1> QED BY <1>6, <1>12, <1>13, <1>14, <1>15 DEF TouchedFields

LEMMA UntouchedIs ==
    /\ Nothing \in [Pointer -> Int] /\ \A a \in Pointer : Nothing[a] = 0
    /\ Untouched \in TouchType /\ Untouched.reports = 0
    /\ \A a \in Pointer : /\ Untouched.turned[a] = 0 /\ Untouched.moved[a] = 0
                          /\ Untouched.wanted[a] = 0 /\ Untouched.pulsed[a] = 0
  BY DEF Nothing, Untouched, TouchType

-----------------------------------------------------------------------------
(* Types and what is left over *)

LEMMA BiasHolds ==
    ASSUME NEW h \in Int, h > 0, RatesWithin(h), BiasWithin(h), [GyroNext]_gyroVars
    PROVE  BiasWithin(h)'
  <1>1. ASSUME NEW touching \in BOOLEAN, NEW rate \in Rates, Bias(touching, Turning(rate))
        PROVE  BiasWithin(h)'
    BY <1>1, TurningIs, BiasStays
  <1>2. CASE \E touching \in BOOLEAN, rate \in Rates :
                 \/ ParseGyroMouse(touching, Turning(rate))
                 \/ ParseGyroRightStick(touching, Turning(rate))
    BY <1>1, <1>2 DEF ParseGyroMouse, ParseGyroRightStick
  <1>3. CASE ShortReport \/ UNCHANGED gyroVars
    BY <1>3 DEF ShortReport, gyroVars, BiasWithin
  <1>4. CASE ClearHidState
    <2>1. bias' = [a \in Axes |-> 0]
      BY <1>4 DEF ClearHidState
    <2> QED BY <2>1 DEF BiasWithin
  <1> QED BY <1>2, <1>3, <1>4 DEF GyroNext

\* A touched report of the mouse: whole pixels go, the rest stays.
LEMMA MouseReport ==
    ASSUME IInv, NEW turning, \A a \in Axes : turning[a] \in Int,
           ParseGyroMouse(TRUE, turning), NEW a \in Pointer
    PROVE  LET sum == remainder[a] + MouseDelta(a, Corrected(turning)[a])
           IN  /\ sum \in Int
               /\ given'[a] = Pixels(sum) /\ given'[a] \in Int
               /\ remainder'[a] = sum - given'[a] * Unit
               /\ remainder'[a] \in Int /\ Abs32(remainder'[a]) < Unit
  <1> DEFINE d == MouseDelta(a, Corrected(turning)[a])
             sum == remainder[a] + d
  <1>1. Corrected(turning)[a] \in Int16
    BY CorrectedIs DEF IInv, Pointer, Axes
  <1>2. Corrected(turning)[a] \in Int
    BY CorrectedIs DEF IInv, Pointer, Axes
  <1>3. d \in Int /\ Abs32(d) <= 171 * Half
    BY <1>1, <1>2, MouseDeltaIs
  <1>4. remainder[a] \in Int /\ Abs32(remainder[a]) < Unit
    BY DEF IInv, GyroTypeOK, LeftOver
  <1>5. given'[a] = Pixels(sum) /\ remainder'[a] = ConsumeMouseDelta(sum)
    BY DEF ParseGyroMouse
  <1> HIDE DEF d
  <1>6. sum \in Int /\ -(200 * Unit) < sum /\ sum < 200 * Unit
    BY <1>3, <1>4, DeltasAreSmall
  <1> HIDE DEF sum
  <1>7. /\ Pixels(sum) \in Int /\ ConsumeMouseDelta(sum) = sum - Pixels(sum) * Unit
        /\ ConsumeMouseDelta(sum) \in Int /\ Abs32(ConsumeMouseDelta(sum)) < Unit
    BY <1>6, ConsumeIs
  <1>8. /\ sum \in Int
        /\ given'[a] = Pixels(sum) /\ given'[a] \in Int
        /\ remainder'[a] = sum - given'[a] * Unit
        /\ remainder'[a] \in Int /\ Abs32(remainder'[a]) < Unit
    BY <1>5, <1>6, <1>7
  <1> QED BY <1>8 DEF sum, d

\* The deflection a report asks for.
Asked(turning, a) == StickDeflection(a, Corrected(turning)[a])

\* What is charged for it.
ChargedFor(turning, a) ==
    /\ Asked(turning, a) \in -127 .. 127
    /\ ~InDeadzone(Asked(turning, a)) => pulse'[a] = 0
    /\ InDeadzone(Asked(turning, a)) /\ given'[a] = Centre =>
           pulse'[a] = pulse[a] + Abs32(Asked(turning, a)) * 1024
    /\ InDeadzone(Asked(turning, a)) /\ given'[a] # Centre =>
           pulse'[a] = pulse[a] + Abs32(Asked(turning, a)) * 1024 - Unit

\* A touched report of the stick: within the dead zone it charges, beyond it not.
LEMMA StickReport ==
    ASSUME IInv, NEW turning, \A a \in Axes : turning[a] \in Int,
           ParseGyroRightStick(TRUE, turning), NEW a \in Pointer
    PROVE  /\ pulse'[a] \in Int /\ 0 <= pulse'[a] /\ pulse'[a] < Unit
           /\ given'[a] \in Int
           /\ ChargedFor(turning, a)
  <1> DEFINE d == Asked(turning, a)
             next == PulseAfter(a, d)
             axis == StickAxisFromDeflection(ApplyStickDeadzonePulse(a, d))
  <1>1. Corrected(turning)[a] \in Int
    BY CorrectedIs DEF IInv, Pointer, Axes
  <1>2. d \in -127 .. 127
    BY <1>1, DeflectionIs DEF Asked
  <1>3. pulse[a] \in Int /\ 0 <= pulse[a] /\ pulse[a] < Unit
    BY DEF IInv, GyroTypeOK, LeftOver
  <1>4. pulse'[a] = next /\ given'[a] = axis
    BY DEF ParseGyroRightStick, Asked
  <1>5. /\ next = PulseAfter(a, d)
        /\ axis = StickAxisFromDeflection(ApplyStickDeadzonePulse(a, d))
    OBVIOUS
  <1> HIDE DEF d, next, axis
  <1>6. /\ next \in Int /\ 0 <= next /\ next < Unit
        /\ axis \in Int
        /\ ~InDeadzone(d) => next = 0
        /\ InDeadzone(d) /\ axis = Centre => next = pulse[a] + Abs32(d) * 1024
        /\ InDeadzone(d) /\ axis # Centre => next = pulse[a] + Abs32(d) * 1024 - Unit
    BY <1>2, <1>3, <1>5, PulseStep
  <1>7. /\ pulse'[a] \in Int /\ 0 <= pulse'[a] /\ pulse'[a] < Unit
        /\ given'[a] \in Int
        /\ ~InDeadzone(d) => pulse'[a] = 0
        /\ InDeadzone(d) /\ given'[a] = Centre => pulse'[a] = pulse[a] + Abs32(d) * 1024
        /\ InDeadzone(d) /\ given'[a] # Centre => pulse'[a] = pulse[a] + Abs32(d) * 1024 - Unit
    BY <1>4, <1>6
  <1> QED BY <1>2, <1>7 DEF d, ChargedFor

\* Every report leaves less than a pixel and less than a pulse.
LEMMA InvHolds ==
    ASSUME GyroAssumption, IInv, [GyroNext]_gyroVars
    PROVE  IInv'
  <1>h. Half \in Int /\ Half > 0 /\ RatesWithin(Half)
    BY UnitIs, GyroAssumption DEF RatesWithin, Int16
  <1>b. BiasWithin(Half)'
    BY <1>h, BiasHolds DEF IInv, GyroTypeOK
  <1>z. Unit \in Int /\ Abs32(0) < Unit /\ 0 < Unit
    BY UnitIs DEF Abs32
  <1>1. ASSUME NEW touching \in BOOLEAN, NEW rate \in Rates,
               ParseGyroMouse(touching, Turning(rate))
        PROVE  IInv'
    <2> DEFINE turning == Turning(rate)
    <2>1. \A a \in Axes : turning[a] \in Int
      BY <1>h, TurningIs
    <2>2. profile' = profile /\ pulse' = pulse
      BY <1>1 DEF ParseGyroMouse
    <2>3. CASE ~touching
      <3>1. remainder' = Nothing /\ given' = Nothing /\ touch' = Untouched
        BY <1>1, <2>3 DEF ParseGyroMouse
      <3> QED BY <1>b, <1>z, <2>2, <3>1, UntouchedIs DEF IInv, GyroTypeOK, LeftOver
    <2>4. CASE touching
      <3>1. ParseGyroMouse(TRUE, turning)
        BY <1>1, <2>4
      <3>2. /\ DOMAIN remainder' = Pointer /\ DOMAIN given' = Pointer
            /\ remainder' = [a \in Pointer |-> remainder'[a]]
            /\ given' = [a \in Pointer |-> given'[a]]
        BY <3>1 DEF ParseGyroMouse
      <3>5. Touched(turning)
        BY <3>1 DEF ParseGyroMouse
      <3> HIDE DEF turning
      <3>3. \A a \in Pointer : /\ given'[a] \in Int /\ remainder'[a] \in Int
                               /\ Abs32(remainder'[a]) < Unit
        BY <2>1, <3>1, MouseReport
      <3>4. given' \in [Pointer -> Int] /\ remainder' \in [Pointer -> Int]
        BY <3>2, <3>3
      <3>6. touch' \in TouchType
        BY <2>1, <3>4, <3>5, TouchedIs DEF IInv, TouchedFields
      <3> QED BY <1>b, <2>2, <3>3, <3>4, <3>6 DEF IInv, GyroTypeOK, LeftOver
    <2> QED BY <2>3, <2>4
  <1>2. ASSUME NEW touching \in BOOLEAN, NEW rate \in Rates,
               ParseGyroRightStick(touching, Turning(rate))
        PROVE  IInv'
    <2> DEFINE turning == Turning(rate)
    <2>1. \A a \in Axes : turning[a] \in Int
      BY <1>h, TurningIs
    <2>2. profile' = profile /\ remainder' = remainder
      BY <1>2 DEF ParseGyroRightStick
    <2>3. CASE ~touching
      <3>1. pulse' = Nothing /\ given' = Nothing /\ touch' = Untouched
        BY <1>2, <2>3 DEF ParseGyroRightStick
      <3> QED BY <1>b, <1>z, <2>2, <3>1, UntouchedIs DEF IInv, GyroTypeOK, LeftOver
    <2>4. CASE touching
      <3>1. ParseGyroRightStick(TRUE, turning)
        BY <1>2, <2>4
      <3>2. /\ pulse' = [a \in Pointer |-> pulse'[a]]
            /\ given' = [a \in Pointer |-> given'[a]]
        BY <3>1 DEF ParseGyroRightStick
      <3>5. Touched(turning)
        BY <3>1 DEF ParseGyroRightStick
      <3> HIDE DEF turning
      <3>3. \A a \in Pointer : /\ given'[a] \in Int /\ pulse'[a] \in Int
                               /\ 0 <= pulse'[a] /\ pulse'[a] < Unit
        BY <2>1, <3>1, StickReport
      <3>4. given' \in [Pointer -> Int] /\ pulse' \in [Pointer -> Int]
        BY <3>2, <3>3
      <3>6. touch' \in TouchType
        BY <2>1, <3>4, <3>5, TouchedIs DEF IInv, TouchedFields
      <3> QED BY <1>b, <2>2, <3>3, <3>4, <3>6 DEF IInv, GyroTypeOK, LeftOver
    <2> QED BY <2>3, <2>4
  <1>3. CASE ShortReport
    <2>1. /\ given' = Nothing /\ touch' = [touch EXCEPT !.quiet = FALSE]
          /\ profile' = profile /\ remainder' = remainder /\ pulse' = pulse
      BY <1>3 DEF ShortReport
    <2>2. touch' \in TouchType
      BY <2>1 DEF IInv, GyroTypeOK, TouchType
    <2> QED BY <1>b, <2>1, <2>2, UntouchedIs DEF IInv, GyroTypeOK, LeftOver
  <1>4. CASE ClearHidState
    <2>1. /\ remainder' = Nothing /\ pulse' = Nothing /\ given' = Nothing
          /\ touch' = Untouched /\ profile' = profile
      BY <1>4 DEF ClearHidState
    <2> QED BY <1>b, <1>z, <2>1, UntouchedIs DEF IInv, GyroTypeOK, LeftOver
  <1>5. CASE UNCHANGED gyroVars
    BY <1>b, <1>5 DEF IInv, GyroTypeOK, LeftOver, gyroVars
  <1> QED BY <1>1, <1>2, <1>3, <1>4, <1>5 DEF GyroNext

LEMMA InvBegins == ASSUME GyroInit PROVE IInv
  <1>1. BiasWithin(Half)
    <2>1. bias = [a \in Axes |-> 0] /\ Half \in Int /\ Half > 1000
      BY UnitIs DEF GyroInit
    <2> QED BY <2>1 DEF BiasWithin
  <1>2. /\ remainder = Nothing /\ pulse = Nothing /\ given = Nothing /\ touch = Untouched
        /\ profile \in {"mouse", "stick"}
    BY DEF GyroInit
  <1>3. Unit \in Int /\ Abs32(0) < Unit /\ 0 < Unit
    BY UnitIs DEF Abs32
  <1> QED BY <1>1, <1>2, <1>3, UntouchedIs DEF IInv, GyroTypeOK, LeftOver

\* What the sensor is held to read at rest fits 16 bits, less than a pixel of the
\* pointer's way and less than one pulse of the stick's is left over, whatever the
\* rates (ParseGyroMouse, ConsumeMouseDelta, ApplyStickDeadzonePulse).
THEOREM TypeCorrect == GyroSpec => [](GyroTypeOK /\ LeftOver)
  <1>1. IInv /\ [GyroNext]_gyroVars => IInv'
    BY InvHolds, GyroAssumption
  <1>2. IInv => GyroTypeOK /\ LeftOver
    BY DEF IInv
  <1> QED BY <1>1, <1>2, InvBegins, PTL DEF GyroSpec

-----------------------------------------------------------------------------
(* The pointer follows the hand *)

NInv == IInv /\ BiasWithin(Half \div 2) /\ Tracks

\* Under narrow rates nothing wraps.
LEMMA NarrowIs ==
    ASSUME NarrowRates, GyroTypeOK, BiasWithin(Half \div 2), NEW rate \in Rates, NEW a \in Axes
    PROVE  /\ Turning(rate)[a] - Zero(a) \in Int16
           /\ Corrected(Turning(rate))[a] = Turning(rate)[a] - Zero(a)
  <1> DEFINE h == Half \div 2
             t == Turning(rate)[a]
  <1>1. h \in Int /\ 2 * h = Half /\ RatesWithin(h) /\ BiasWithin(h)
    BY UnitIs DEF NarrowRates
  <1> HIDE DEF h
  <1>2. t \in -h .. h - 1 /\ Zero(a) \in -h .. h - 1
    BY <1>1, TurningIs, ZeroIs
  <1>3. t - Zero(a) \in Int16
    BY <1>1, <1>2 DEF Int16
  <1>4. \A b \in Axes : Turning(rate)[b] \in Int
    BY <1>1, TurningIs
  <1> QED BY <1>3, <1>4, CorrectedIs

\* The touch is measured from the bias there is, which it leaves alone.
LEMMA ZeroStays ==
    ASSUME NInv, NEW turning, TouchedFields(turning), bias' = bias
    PROVE  /\ \A a \in Axes : touch'.zero[a] = Zero(a)
           /\ touch'.reports > 0 => \A a \in Axes : touch'.zero[a] = Zero(a)'
  <1>1. touch.reports \in Nat
    BY DEF NInv, IInv, GyroTypeOK, TouchType
  <1>2. \A a \in Axes : touch'.zero[a] = Zero(a)
    BY <1>1 DEF NInv, Tracks, TouchedFields
  <1>3. \A a \in Axes : Zero(a)' = Zero(a)
    BY DEF Zero
  <1> QED BY <1>2, <1>3

LEMMA TracksMouse ==
    ASSUME GyroAssumption, NarrowRates, NInv, NEW rate \in Rates,
           ParseGyroMouse(TRUE, Turning(rate)), IInv'
    PROVE  Tracks'
  <1> DEFINE turning == Turning(rate)
  <1>1. \A a \in Axes : turning[a] \in Int
    <2>1. RatesWithin(Half) /\ Half \in Int
      BY UnitIs, GyroAssumption DEF RatesWithin, Int16
    <2> QED BY <2>1, TurningIs
  <1>2. \A a \in Axes : Corrected(turning)[a] = turning[a] - Zero(a)
    BY NarrowIs DEF NInv, IInv
  <1>3. Bias(TRUE, turning) /\ Touched(turning) /\ profile = "mouse" /\ profile' = profile
    BY DEF ParseGyroMouse
  <1>4. bias' = bias
    BY <1>3 DEF Bias, Learns
  <1>p. ParseGyroMouse(TRUE, turning)
    OBVIOUS
  <1> HIDE DEF turning
  <1>5. TouchedFields(turning)
    BY <1>1, <1>3, TouchedIs DEF NInv, IInv, GyroTypeOK
  <1>6. /\ \A a \in Axes : touch'.zero[a] = Zero(a)
        /\ touch'.reports > 0 => \A a \in Axes : touch'.zero[a] = Zero(a)'
    BY <1>4, <1>5, ZeroStays
  <1>7. ASSUME NEW a \in Pointer
        PROVE  touch'.turned[a] - touch'.moved[a] * Unit = remainder'[a]
    <2> DEFINE d == MouseDelta(a, Corrected(turning)[a])
               sum == remainder[a] + d
    <2>1. touch'.turned[a] = touch.turned[a] + d /\ touch'.moved[a] = touch.moved[a] + given'[a]
      BY <1>2, <1>5, <1>6 DEF TouchedFields, Pointer, Axes
    <2>2. /\ sum \in Int /\ given'[a] \in Int
          /\ remainder'[a] = sum - given'[a] * Unit
      BY <1>1, <1>p, MouseReport DEF NInv
    <2>3. touch.turned[a] - touch.moved[a] * Unit = remainder[a]
      BY <1>3 DEF NInv, Tracks
    <2>4. /\ touch.turned[a] \in Int /\ touch.moved[a] \in Int /\ remainder[a] \in Int
          /\ Unit \in Int
      BY UnitIs DEF NInv, IInv, GyroTypeOK, TouchType
    <2>5. d \in Int
      BY <1>1, CorrectedIs, MouseDeltaIs DEF NInv, IInv, Pointer, Axes
    <2> HIDE DEF d
    <2>6. (touch.moved[a] + given'[a]) * Unit = touch.moved[a] * Unit + given'[a] * Unit
      BY <2>2, <2>4
    <2> DEFINE m == touch.moved[a] * Unit
               g == given'[a] * Unit
    <2>7. m \in Int /\ g \in Int
      BY <2>2, <2>4
    <2>8. /\ remainder'[a] = sum - g /\ touch.turned[a] - m = remainder[a]
          /\ touch'.moved[a] * Unit = m + g
      BY <2>1, <2>2, <2>3, <2>6
    <2> HIDE DEF m, g
    <2> QED BY <2>1, <2>4, <2>5, <2>7, <2>8
  <1> QED BY <1>3, <1>6, <1>7 DEF Tracks

LEMMA TracksStick ==
    ASSUME GyroAssumption, NarrowRates, NInv, NEW rate \in Rates,
           ParseGyroRightStick(TRUE, Turning(rate)), IInv'
    PROVE  Tracks'
  <1> DEFINE turning == Turning(rate)
  <1>1. \A a \in Axes : turning[a] \in Int
    <2>1. RatesWithin(Half) /\ Half \in Int
      BY UnitIs, GyroAssumption DEF RatesWithin, Int16
    <2> QED BY <2>1, TurningIs
  <1>2. \A a \in Axes : Corrected(turning)[a] = turning[a] - Zero(a)
    BY NarrowIs DEF NInv, IInv
  <1>3. Bias(TRUE, turning) /\ Touched(turning) /\ profile = "stick" /\ profile' = profile
    BY DEF ParseGyroRightStick
  <1>4. bias' = bias
    BY <1>3 DEF Bias, Learns
  <1>p. ParseGyroRightStick(TRUE, turning)
    OBVIOUS
  <1> HIDE DEF turning
  <1>5. TouchedFields(turning)
    BY <1>1, <1>3, TouchedIs DEF NInv, IInv, GyroTypeOK
  <1>6. /\ \A a \in Axes : touch'.zero[a] = Zero(a)
        /\ touch'.reports > 0 => \A a \in Axes : touch'.zero[a] = Zero(a)'
    BY <1>4, <1>5, ZeroStays
  <1>7. ASSUME NEW a \in Pointer
        PROVE  pulse'[a] + touch'.pulsed[a] * Unit = touch'.wanted[a] * 1024
    <2> DEFINE d == Asked(turning, a)
    <2>3. d = StickDeflection(a, turning[a] - touch'.zero[a])
      BY <1>2, <1>6 DEF Pointer, Axes, Asked
    <2>4. /\ touch'.wanted[a] = IF InDeadzone(d) THEN touch.wanted[a] + Abs32(d) ELSE 0
          /\ touch'.pulsed[a] = IF ~InDeadzone(d) THEN 0
                                ELSE IF given'[a] # Centre THEN touch.pulsed[a] + 1
                                ELSE touch.pulsed[a]
      BY <1>5, <2>3 DEF TouchedFields
    <2>c. ChargedFor(turning, a)
      BY <1>1, <1>p, StickReport DEF NInv
    <2>5. /\ d \in -127 .. 127
          /\ ~InDeadzone(d) => pulse'[a] = 0
          /\ InDeadzone(d) /\ given'[a] = Centre => pulse'[a] = pulse[a] + Abs32(d) * 1024
          /\ InDeadzone(d) /\ given'[a] # Centre => pulse'[a] = pulse[a] + Abs32(d) * 1024 - Unit
      BY <2>c DEF ChargedFor
    <2> HIDE DEF d
    <2>6. pulse[a] + touch.pulsed[a] * Unit = touch.wanted[a] * 1024
      BY <1>3 DEF NInv, Tracks
    <2>7. /\ pulse[a] \in Int /\ touch.pulsed[a] \in Int /\ touch.wanted[a] \in Int
          /\ Unit \in Int /\ Abs32(d) \in Int
      BY <2>5, UnitIs DEF NInv, IInv, GyroTypeOK, TouchType, Abs32
    <2>8. CASE ~InDeadzone(d)
      BY <2>4, <2>5, <2>7, <2>8
    <2>9. CASE InDeadzone(d) /\ given'[a] = Centre
      BY <2>4, <2>5, <2>6, <2>7, <2>9
    <2>10. CASE InDeadzone(d) /\ given'[a] # Centre
      <3> DEFINE p == touch.pulsed[a] * Unit
      <3>1. (touch.pulsed[a] + 1) * Unit = p + Unit /\ p \in Int
        BY <2>7
      <3>2. /\ pulse[a] + p = touch.wanted[a] * 1024
            /\ touch'.pulsed[a] * Unit = p + Unit
        BY <2>4, <2>6, <2>10, <3>1
      <3>3. /\ pulse'[a] = pulse[a] + Abs32(d) * 1024 - Unit
            /\ touch'.wanted[a] = touch.wanted[a] + Abs32(d)
        BY <2>4, <2>5, <2>10
      <3> HIDE DEF p
      <3>4. (touch.wanted[a] + Abs32(d)) * 1024 = touch.wanted[a] * 1024 + Abs32(d) * 1024
        BY <2>7
      <3> QED BY <2>7, <3>1, <3>2, <3>3, <3>4
    <2> QED BY <2>8, <2>9, <2>10
  <1> QED BY <1>3, <1>6, <1>7 DEF Tracks
\* A touch that has just ended, or begins with nothing left over, is even.
LEMMA TracksAnew ==
    ASSUME touch' = Untouched,
           profile' = "mouse" => remainder' = Nothing,
           profile' = "stick" => pulse' = Nothing
    PROVE  Tracks'
  <1>1. Unit \in Int
    BY UnitIs
  <1> QED BY <1>1, UntouchedIs DEF Tracks

LEMMA NInvHolds ==
    ASSUME GyroAssumption, NarrowRates, NInv, [GyroNext]_gyroVars
    PROVE  NInv'
  <1>1. IInv'
    BY InvHolds DEF NInv
  <1>2. BiasWithin(Half \div 2)'
    <2> DEFINE h == Half \div 2
    <2>1. h \in Int /\ h > 0 /\ RatesWithin(h) /\ BiasWithin(h)
      BY UnitIs DEF NInv, NarrowRates
    <2> HIDE DEF h
    <2>2. BiasWithin(h)'
      BY <2>1, BiasHolds
    <2> QED BY <2>2 DEF h, BiasWithin
  <1>3. ASSUME NEW touching \in BOOLEAN, NEW rate \in Rates,
               ParseGyroMouse(touching, Turning(rate))
        PROVE  Tracks'
    <2>1. CASE touching
      <3>1. ParseGyroMouse(TRUE, Turning(rate))
        BY <1>3, <2>1
      <3> QED BY <1>1, <3>1, TracksMouse
    <2>2. CASE ~touching
      <3>1. profile' = "mouse" /\ remainder' = Nothing /\ touch' = Untouched
        BY <1>3, <2>2 DEF ParseGyroMouse
      <3> QED BY <3>1, TracksAnew
    <2> QED BY <2>1, <2>2
  <1>4. ASSUME NEW touching \in BOOLEAN, NEW rate \in Rates,
               ParseGyroRightStick(touching, Turning(rate))
        PROVE  Tracks'
    <2>1. CASE touching
      <3>1. ParseGyroRightStick(TRUE, Turning(rate))
        BY <1>4, <2>1
      <3> QED BY <1>1, <3>1, TracksStick
    <2>2. CASE ~touching
      <3>1. profile' = "stick" /\ pulse' = Nothing /\ touch' = Untouched
        BY <1>4, <2>2 DEF ParseGyroRightStick
      <3> QED BY <3>1, TracksAnew
    <2> QED BY <2>1, <2>2
  <1>5. ASSUME ShortReport PROVE Tracks'
    <2>1. /\ touch' = [touch EXCEPT !.quiet = FALSE] /\ touch \in TouchType
          /\ UNCHANGED <<profile, bias, remainder, pulse>>
      BY <1>5 DEF ShortReport, NInv, IInv, GyroTypeOK
    <2>2. /\ touch'.reports = touch.reports /\ touch'.zero = touch.zero
          /\ touch'.turned = touch.turned /\ touch'.moved = touch.moved
          /\ touch'.wanted = touch.wanted /\ touch'.pulsed = touch.pulsed
      BY <2>1 DEF TouchType
    <2> QED BY <2>1, <2>2 DEF NInv, Tracks, Zero
  <1>6. ASSUME ClearHidState PROVE Tracks'
    BY <1>6, TracksAnew DEF ClearHidState
  <1>7. ASSUME UNCHANGED gyroVars PROVE Tracks'
    BY <1>7 DEF NInv, Tracks, Zero, gyroVars
  <1>8. Tracks'
    BY <1>3, <1>4, <1>5, <1>6, <1>7 DEF GyroNext
  <1> QED BY <1>1, <1>2, <1>8 DEF NInv

LEMMA NInvBegins == ASSUME GyroInit PROVE NInv
  <1>1. BiasWithin(Half \div 2)
    <2>1. bias = [a \in Axes |-> 0] /\ Half \div 2 \in Int /\ Half \div 2 > 0
      BY UnitIs DEF GyroInit
    <2> DEFINE h == Half \div 2
    <2> HIDE DEF h
    <2>2. h \in Int /\ h > 0
      BY <2>1 DEF h
    <2>3. BiasWithin(h)
      BY <2>1, <2>2 DEF BiasWithin
    <2> QED BY <2>3 DEF h
  <1>2. Tracks
    <2>1. remainder = Nothing /\ pulse = Nothing /\ touch = Untouched /\ Unit \in Int
      BY UnitIs DEF GyroInit
    <2> QED BY <2>1, UntouchedIs DEF Tracks
  <1> QED BY <1>1, <1>2, InvBegins DEF NInv

\* What is left over is less than a pixel, and less than a pulse.
LEMMA TrackedIsFollowed == ASSUME NInv PROVE MovesAsTurned
  <1>1. SUFFICES ASSUME NEW a \in Pointer
                 PROVE  IF profile = "mouse"
                        THEN Abs32(touch.turned[a] - touch.moved[a] * Unit) < Unit
                        ELSE touch.pulsed[a] = touch.wanted[a] \div kDeadzone
    BY DEF MovesAsTurned
  <1>2. CASE profile = "mouse"
    BY <1>2 DEF NInv, IInv, LeftOver, Tracks
  <1>3. CASE profile = "stick"
    <2>1. /\ pulse[a] + touch.pulsed[a] * Unit = touch.wanted[a] * 1024
          /\ 0 <= pulse[a] /\ pulse[a] < Unit
      BY <1>3 DEF NInv, IInv, LeftOver, Tracks
    <2>2. pulse[a] \in Int /\ touch.pulsed[a] \in Int /\ touch.wanted[a] \in Int
      BY DEF NInv, IInv, GyroTypeOK, TouchType
    <2>3. Unit = 64 * 1024 /\ kDeadzone = 64
      BY UnitIs, PulseIs
    <2>4. touch.pulsed[a] = touch.wanted[a] \div 64
      <3> DEFINE w == touch.wanted[a]
                 n == touch.pulsed[a]
                 p == pulse[a]
      <3>1. /\ w \in Int /\ n \in Int /\ p \in Int /\ p + n * 65536 = w * 1024
            /\ 0 <= p /\ p < 65536
        BY <2>1, <2>2, <2>3
      <3> HIDE DEF w, n, p
      <3>2. n * 64 <= w /\ w < n * 64 + 64
        BY <3>1
      <3>3. n = w \div 64
        BY <3>1, <3>2
      <3> QED BY <3>3 DEF w, n
    <2> QED BY <1>3, <2>3, <2>4
  <1> QED BY <1>2, <1>3 DEF NInv, IInv, GyroTypeOK

\* Under rates whose differences fit 16 bits the pointer is never a pixel from where
\* the turn puts it, and the stick is pulsed once for each kDeadzone of what was
\* wanted, however long the touch (ParseGyroMouse, ParseGyroRightStick).
THEOREM FollowsTheHand ==
    ASSUME NarrowRates
    PROVE  GyroSpec => []MovesAsTurned
  <1>1. NInv /\ [GyroNext]_gyroVars => NInv'
    BY NInvHolds, GyroAssumption
  <1>2. GyroInit => NInv
    BY NInvBegins
  <1>3. NInv => MovesAsTurned
    BY TrackedIsFollowed
  <1> QED BY <1>1, <1>2, <1>3, PTL DEF GyroSpec
\* Under such rates "without interfering with aiming" (README.md:283) is true: the
\* mouse pointer is never moved against the way the controller turned.  Faster turns
\* wrap in 16 bits (ParseGyroMouse).
THEOREM NarrowRatesNeverAgainstTheTurn ==
    ASSUME NarrowRates
    PROVE  GyroSpec => []NeverAgainstTheTurn
  <1>1. NInv /\ [GyroNext]_gyroVars => NInv'
    BY NInvHolds, GyroAssumption
  <1>2. GyroInit => NInv
    BY NInvBegins
  <1>3. ASSUME NInv PROVE NeverAgainstTheTurn
    <2>1. SUFFICES ASSUME profile = "mouse", NEW a \in Pointer, touch.moved[a] # 0
                   PROVE  Sign(touch.moved[a]) = Sign(touch.turned[a])
      BY DEF NeverAgainstTheTurn
    <2> DEFINE m == touch.moved[a]
               t == touch.turned[a]
               r == remainder[a]
    <2>2. /\ t - m * Unit = r /\ Abs32(r) < Unit
          /\ m \in Int /\ t \in Int /\ r \in Int
      BY <1>3, <2>1 DEF NInv, IInv, GyroTypeOK, TouchType, LeftOver, Tracks
    <2>3. m # 0
      BY <2>1
    <2> HIDE DEF m, t, r
    <2>4. Unit = 65536
      BY DEF Unit
    <2>5. m > 0 => t > 0
      BY <2>2, <2>4 DEF Abs32
    <2>6. m < 0 => t < 0
      BY <2>2, <2>4 DEF Abs32
    <2>7. Sign(m) = Sign(t)
      BY <2>2, <2>3, <2>5, <2>6 DEF Sign
    <2> QED BY <2>7 DEF m, t
  <1>4. NInv => NeverAgainstTheTurn
    BY <1>3
  <1> QED BY <1>1, <1>2, <1>4, PTL DEF GyroSpec

-----------------------------------------------------------------------------
(* A controller at rest *)

\* How far the average is from the rate it is to learn, in Q8.
Error(a) == rest.rate[a] * 256 - bias[a]

\* An error for which the corrected rate is below kRestThreshold.
Learnable(e) == -3071 <= e /\ e <= 2816

\* Six for every report it may still take before soft suppression makes nothing
\* of the error e: a report takes a 400th of the error away, one at least from
\* 400, two from 800, three from 1200 up.
Patience(e) ==
    LET n == Abs32(e)
    IN  IF n <= 768 THEN 0
        ELSE IF n < 800 THEN 6 * (n - 768)
        ELSE IF n < 1200 THEN 192 + 3 * (n - 800)
        ELSE 1392 + 2 * (n - 1200)

RestType == [rate : [Axes -> Int], for : 0 .. Settle, rests : Nat]

\* While a controller rests the average learns, and the error runs out of patience.
Learning ==
    /\ rest \in RestType
    /\ rest.for > 0 =>
         /\ \E rate \in Rates : rest.rate = Turning(rate)
         /\ \A a \in Axes :
              /\ Learnable(Error(a))
              /\ Patience(Error(a)) = 0 \/ Patience(Error(a)) + 6 * rest.for <= 5134

\* Nothing is left over from before a touch, nor from a quiet one.
Unmoved ==
    /\ profile = "mouse" => pulse = Nothing
    /\ profile = "stick" => remainder = Nothing
    /\ touch.reports = 0 => remainder = Nothing /\ pulse = Nothing
    /\ StillIsStill

\* One report takes one from the error, at least, until soft suppression makes
\* nothing of it; and never turns it round.
LEMMA PatienceRunsOut ==
    ASSUME NEW e \in Int, Learnable(e)
    PROVE  LET n == e - Quot(e, 400)
           IN  /\ n \in Int /\ Learnable(n)
               /\ Patience(e) \in Int /\ Patience(e) <= 5134 /\ Patience(n) \in Int
               /\ Patience(n) = 0 \/ Patience(n) + 6 <= Patience(e)
  <1> DEFINE m == Abs32(e)
             q == m \div 400
             r == m - q
             n == e - Quot(e, 400)
  <1>1. m \in Int /\ 0 <= m /\ m <= 3071
    BY DEF Abs32, Learnable
  <1>2. q \in Int /\ 400 * q <= m /\ m < 400 * q + 400
    BY <1>1
  <1>3. n \in Int /\ Abs32(n) = r /\ Learnable(n)
    <2>1. CASE e >= 0
      <3>1. m = e /\ Quot(e, 400) = q
        BY <2>1 DEF Abs32, Quot
      <3> HIDE DEF q
      <3>2. n = e - q /\ 0 <= q /\ q <= e
        BY <1>1, <1>2, <3>1
      <3> HIDE DEF n
      <3> QED BY <1>2, <2>1, <3>1, <3>2 DEF Abs32, Learnable
    <2>2. CASE e < 0
      <3>1. m = -e /\ Quot(e, 400) = -q
        BY <2>2 DEF Abs32, Quot
      <3> HIDE DEF q
      <3>2. n = e + q /\ 0 <= q /\ q <= -e
        BY <1>1, <1>2, <3>1
      <3> HIDE DEF n
      <3> QED BY <1>2, <2>2, <3>1, <3>2 DEF Abs32, Learnable
    <2> QED BY <2>1, <2>2
  <1> DEFINE W(k) == IF k <= 768 THEN 0
                     ELSE IF k < 800 THEN 6 * (k - 768)
                     ELSE IF k < 1200 THEN 192 + 3 * (k - 800)
                     ELSE 1392 + 2 * (k - 1200)
  <1>4. Patience(e) = W(m) /\ Patience(n) = W(r)
    <2> HIDE DEF n, r
    <2> QED BY <1>3 DEF Patience
  <1> HIDE DEF m, q, n
  <1>5. r = m - q /\ r \in Int
    BY <1>1, <1>2
  <1> HIDE DEF r
  <1>6. W(m) \in Int /\ W(m) <= 5134 /\ W(r) \in Int
    BY <1>1, <1>5
  <1>7. W(r) = 0 \/ W(r) + 6 <= W(m)
    <2>1. CASE m < 400
      BY <1>1, <1>2, <1>5, <2>1
    <2>2. CASE 400 <= m /\ m < 800
      <3>1. q = 1
        BY <1>1, <1>2, <2>2
      <3> QED BY <1>1, <1>5, <2>2, <3>1
    <2>3. CASE 800 <= m /\ m < 1200
      <3>1. q = 2
        BY <1>1, <1>2, <2>3
      <3> QED BY <1>1, <1>5, <2>3, <3>1
    <2>4. CASE 1200 <= m
      <3>1. 3 <= q /\ q <= 7
        BY <1>1, <1>2, <2>4
      <3> QED BY <1>1, <1>2, <1>5, <2>4, <3>1
    <2> QED BY <1>1, <2>1, <2>2, <2>3, <2>4
  <1> QED BY <1>3, <1>4, <1>6, <1>7 DEF n

\* What an error says of the rate it corrects to.
LEMMA CorrectedError ==
    ASSUME NEW t \in Int, NEW b \in Int
    PROVE  LET e == t * 256 - b
               c == t - b \div 256
           IN  /\ e \in Int /\ c \in Int
               /\ Abs32(c) < kRestThreshold <=> Learnable(e)
               /\ Learnable(e) /\ Patience(e) = 0 => -3 <= c /\ c <= 3
  <1> DEFINE z == b \div 256
             e == t * 256 - b
             c == t - z
  <1>1. z \in Int /\ 256 * z <= b /\ b < 256 * z + 256
    OBVIOUS
  <1> HIDE DEF z
  <1>2. e \in Int /\ c \in Int /\ 256 * c - 256 < e /\ e <= 256 * c
    BY <1>1
  <1> HIDE DEF e, c
  <1>3. Abs32(c) < 12 <=> Learnable(e)
    BY <1>2 DEF Abs32, Learnable
  <1>4. Patience(e) = 0 => Abs32(e) <= 768
    BY <1>2 DEF Patience, Abs32
  <1>5. Patience(e) = 0 => -3 <= c /\ c <= 3
    BY <1>2, <1>4 DEF Abs32
  <1> QED BY <1>2, <1>3, <1>5 DEF e, c, z, kRestThreshold

\* Soft suppression makes nothing of so small a rate.
LEMMA SoftMakesNothing ==
    ASSUME NEW raw \in Int, -3 <= raw, raw <= 3, NEW a \in Pointer
    PROVE  MouseDelta(a, raw) = 0 /\ StickDeflection(a, raw) = 0
  <1>1. Soft(raw) = 0
    <2>1. raw \in {-3, -2, -1, 0, 1, 2, 3}
      OBVIOUS
    <2> QED BY <2>1 DEF Soft, Abs32, Quot, kSoftThreshold
  <1>2. ShapeGyroDeltaQ16(raw) = 0
    BY <1>1 DEF ShapeGyroDeltaQ16, Abs32, GYRO_MOUSE_SENSITIVITY_Q16, Unit
  <1>3. TimesYFactor(0) = 0
    BY DEF TimesYFactor
  <1>4. (Soft(raw) * GYRO_STICK_SENSITIVITY_Q8) \div 256 = 0
    BY <1>1 DEF GYRO_STICK_SENSITIVITY_Q8
  <1> QED BY <1>2, <1>3, <1>4 DEF MouseDelta, StickDeflection, Clamp, kMaxDeflection

\* A rate is below kRestThreshold when the average may learn it, and close enough
\* to be nothing when patience has run out.
LEMMA StillMeans ==
    ASSUME NarrowRates, NInv, NEW rate \in Rates
    PROVE  /\ \A a \in Axes : Turning(rate)[a] * 256 - bias[a] \in Int
           /\ Still(Corrected(Turning(rate))) <=>
                \A a \in Axes : Learnable(Turning(rate)[a] * 256 - bias[a])
           /\ \A a \in Axes :
                LET e == Turning(rate)[a] * 256 - bias[a]
                IN  Learnable(e) /\ Patience(e) = 0 =>
                        Corrected(Turning(rate))[a] \in Int /\ -3 <= Corrected(Turning(rate))[a]
                        /\ Corrected(Turning(rate))[a] <= 3
  <1> DEFINE t == Turning(rate)
             e(a) == t[a] * 256 - bias[a]
  <1>1. ASSUME NEW a \in Axes PROVE t[a] \in Int /\ bias[a] \in Int
    <2>1. Half \div 2 \in Int /\ RatesWithin(Half \div 2)
      BY UnitIs DEF NarrowRates
    <2>2. t[a] \in -(Half \div 2) .. (Half \div 2) - 1
      BY <2>1, TurningIs
    <2> QED BY <2>1, <2>2 DEF NInv, BiasWithin
  <1>2. ASSUME NEW a \in Axes PROVE Corrected(t)[a] = t[a] - bias[a] \div 256
    BY NarrowIs DEF NInv, IInv, Zero
  <1>3. ASSUME NEW a \in Axes
        PROVE  /\ e(a) \in Int
               /\ Abs32(Corrected(t)[a]) < kRestThreshold <=> Learnable(e(a))
               /\ Learnable(e(a)) /\ Patience(e(a)) = 0 =>
                      Corrected(t)[a] \in Int /\ -3 <= Corrected(t)[a] /\ Corrected(t)[a] <= 3
    BY <1>1, <1>2, CorrectedError
  <1> QED BY <1>3 DEF Still

\* A report at rest: the average learns.
LEMMA RestsLearning ==
    ASSUME NarrowRates, NInv, Learning, Settle \in Nat \ {0}, NEW rate \in Rates,
           Bias(FALSE, Turning(rate)), Rests(Turning(rate))
    PROVE  Learning'
  <1> DEFINE t == Turning(rate)
             e(a) == t[a] * 256 - bias[a]
             after(a) == e(a) - Quot(e(a), 400)
  <1>1. /\ \A a \in Axes : e(a) \in Int
        /\ Still(Corrected(t)) <=> \A a \in Axes : Learnable(e(a))
    BY StillMeans
  <1>2. t \in [Axes -> Int]
    <2>1. Half \div 2 \in Int /\ RatesWithin(Half \div 2)
      BY UnitIs DEF NarrowRates
    <2>2. \A a \in Axes : t[a] \in Int
      BY <2>1, TurningIs
    <2>3. t = [a \in Axes |-> t[a]]
      BY DEF Turning, Axes
    <2> QED BY <2>2, <2>3
  <1>3. ASSUME Still(Corrected(t)), NEW a \in Axes
        PROVE  /\ t[a] * 256 - bias'[a] = after(a)
               /\ after(a) \in Int /\ Learnable(after(a))
               /\ Patience(e(a)) \in Int /\ Patience(e(a)) <= 5134 /\ Patience(after(a)) \in Int
               /\ Patience(after(a)) = 0 \/ Patience(after(a)) + 6 <= Patience(e(a))
    <2>1. bias' = [b \in Axes |-> bias[b] + Quot(e(b), 400)]
      BY <1>3 DEF Bias, Learns, Drift
    <2>2. bias'[a] = bias[a] + Quot(e(a), 400)
      BY <2>1
    <2>3. t[a] \in Int /\ bias[a] \in Int /\ e(a) \in Int /\ Learnable(e(a))
      BY <1>1, <1>2, <1>3 DEF NInv, BiasWithin
    <2>4. Quot(e(a), 400) \in Int
      BY <2>3, RoundedTowardsZero
    <2>5. t[a] * 256 - bias'[a] = after(a)
      BY <2>2, <2>3, <2>4
    <2> HIDE DEF e
    <2> QED BY <2>3, <2>5, PatienceRunsOut
  <1>4. rest \in RestType /\ rest.for \in 0 .. Settle
    BY DEF Learning, RestType
  <1>5. CASE /\ t = rest.rate /\ rest.for > 0
             /\ rest' = [rest EXCEPT !.for = IF @ < Settle THEN @ + 1 ELSE Settle]
    <2>1. /\ rest' \in RestType /\ rest'.rate = rest.rate
          /\ rest'.for <= rest.for + 1 /\ rest'.for \in Int
      BY <1>4, <1>5 DEF RestType
    <2>2. ASSUME NEW a \in Axes
          PROVE  Learnable(e(a)) /\ (Patience(e(a)) = 0 \/ Patience(e(a)) + 6 * rest.for <= 5134)
      BY <1>5 DEF Learning, Error
    <2>3. Still(Corrected(t))
      BY <1>1, <2>2
    <2>4. ASSUME NEW a \in Axes
          PROVE  /\ Error(a)' = after(a) /\ Learnable(after(a))
                 /\ Patience(after(a)) = 0 \/ Patience(after(a)) + 6 * rest'.for <= 5134
      <3>1. Error(a)' = after(a) /\ Learnable(after(a))
        BY <1>3, <1>5, <2>1, <2>3 DEF Error
      <3> DEFINE p == Patience(e(a))
                 n == Patience(after(a))
      <3>2. /\ p \in Int /\ n \in Int /\ (n = 0 \/ n + 6 <= p)
        BY <1>3, <2>3
      <3>3. p = 0 \/ p + 6 * rest.for <= 5134
        BY <2>2
      <3>4. n >= 0
        BY <1>3, <2>3 DEF Patience, Abs32
      <3> HIDE DEF p, n
      <3>5. n = 0 \/ n + 6 * rest'.for <= 5134
        BY <1>4, <2>1, <3>2, <3>3, <3>4
      <3> QED BY <3>1, <3>5 DEF n
    <2>5. \E r \in Rates : rest'.rate = Turning(r)
      BY <1>5, <2>1
    <2> HIDE DEF after
    <2> QED BY <2>1, <2>4, <2>5 DEF Learning
  <1>6. CASE /\ Still(Corrected(t))
             /\ rest' = [rate |-> t, for |-> 1, rests |-> rest.rests + 1]
    <2>1. rest' \in RestType /\ rest'.rate = t /\ rest'.for = 1
      BY <1>2, <1>4, <1>6 DEF RestType
    <2>2. ASSUME NEW a \in Axes
          PROVE  /\ Error(a)' = after(a) /\ Learnable(after(a))
                 /\ Patience(after(a)) = 0 \/ Patience(after(a)) + 6 <= 5134
      BY <1>3, <1>6, <2>1 DEF Error
    <2> HIDE DEF after
    <2> QED BY <2>1, <2>2 DEF Learning
  <1>7. CASE rest' = [rest EXCEPT !.for = 0]
    BY <1>4, <1>7 DEF RestType, Learning
  <1> QED BY <1>5, <1>6, <1>7 DEF Rests

LEMMA LearningHolds ==
    ASSUME GyroAssumption, NarrowRates, NInv, Learning, Settle \in Nat \ {0},
           [GyroNext]_gyroVars
    PROVE  Learning'
  <1>1. ASSUME UNCHANGED <<bias, rest>> PROVE Learning'
    BY <1>1 DEF Learning, Error
  <1>2. ASSUME NEW touching \in BOOLEAN, NEW rate \in Rates,
               \/ ParseGyroMouse(touching, Turning(rate))
               \/ ParseGyroRightStick(touching, Turning(rate))
        PROVE  Learning'
    <2>1. CASE touching
      <3>1. Bias(TRUE, Turning(rate)) /\ UNCHANGED rest
        BY <1>2, <2>1 DEF ParseGyroMouse, ParseGyroRightStick
      <3>2. bias' = bias
        BY <3>1 DEF Bias, Learns
      <3> QED BY <1>1, <3>1, <3>2
    <2>2. CASE ~touching
      <3>1. Bias(FALSE, Turning(rate)) /\ Rests(Turning(rate))
        BY <1>2, <2>2 DEF ParseGyroMouse, ParseGyroRightStick
      <3> QED BY <3>1, RestsLearning
    <2> QED BY <2>1, <2>2
  <1>3. ASSUME ShortReport PROVE Learning'
    BY <1>1, <1>3 DEF ShortReport
  <1>4. ASSUME ClearHidState PROVE Learning'
    BY <1>4 DEF ClearHidState, Learning, RestType
  <1>5. ASSUME UNCHANGED gyroVars PROVE Learning'
    BY <1>1, <1>5 DEF gyroVars
  <1> QED BY <1>2, <1>3, <1>4, <1>5 DEF GyroNext

LEMMA LearningBegins == ASSUME GyroInit, Settle \in Nat PROVE Learning
  BY DEF GyroInit, Learning, RestType, NoRest

\* What a touch has to be to be quiet still.
LEMMA QuietIs ==
    ASSUME NEW turning, Touched(turning)
    PROVE  /\ touch'.reports = touch.reports + 1
           /\ touch'.quiet => /\ touch.reports = 0 \/ touch.quiet
                              /\ rest.for = Settle /\ turning = rest.rate
  BY DEF Touched

\* A long enough rest corrects to next to nothing.
LEMMA RestedIsStill ==
    ASSUME NarrowRates, NInv, Learning, Settle \in Nat, Settle >= 856, rest.for = Settle,
           NEW rate \in Rates, Turning(rate) = rest.rate, NEW a \in Pointer
    PROVE  LET c == Corrected(Turning(rate))[a]
           IN  MouseDelta(a, c) = 0 /\ StickDeflection(a, c) = 0
  <1> DEFINE e == Turning(rate)[a] * 256 - bias[a]
  <1>1. a \in Axes
    BY DEF Pointer, Axes
  <1>2. e \in Int /\ e = Error(a)
    BY <1>1, StillMeans DEF Error
  <1>3. Learnable(e) /\ (Patience(e) = 0 \/ Patience(e) + 6 * Settle <= 5134)
    BY <1>1, <1>2 DEF Learning
  <1> DEFINE p == Patience(e)
  <1>4. p \in Int /\ p >= 0
    <2> HIDE DEF e
    <2> QED BY <1>2 DEF Patience, Abs32
  <1>5. p = 0
    <2> HIDE DEF p
    <2> QED BY <1>3, <1>4 DEF p
  <1>6. LET c == Corrected(Turning(rate))[a] IN c \in Int /\ -3 <= c /\ c <= 3
    BY <1>1, <1>3, <1>5, StillMeans
  <1> QED BY <1>6, SoftMakesNothing

\* Of nothing nothing is made: neither pixels nor a pulse.
LEMMA NothingOfNothing ==
    /\ Pixels(0) = 0 /\ ConsumeMouseDelta(0) = 0
    /\ \A a \in Pointer :
          PulseAfter(a, 0) = 0 /\ StickAxisFromDeflection(ApplyStickDeadzonePulse(a, 0)) = Centre
  <1>1. Pixels(0) = 0
    BY UnitIs DEF Pixels, ClampI16, Quot, Half, Unit
  <1>2. ConsumeMouseDelta(0) = 0
    BY <1>1, UnitIs DEF ConsumeMouseDelta
  <1>3. Clamp(0, kMaxDeflection) = 0
    BY PulseIs DEF Clamp
  <1> QED BY <1>1, <1>2, <1>3 DEF PulseAfter, ApplyStickDeadzonePulse, InDeadzone,
                                  StickAxisFromDeflection, Centre

LEMMA UnmovedHolds ==
    ASSUME GyroAssumption, NarrowRates, NInv, Learning, Unmoved, Settle >= 856,
           [GyroNext]_gyroVars
    PROVE  Unmoved'
  <1>1. Settle \in Nat
    BY GyroAssumption
  <1>2. profile \in {"mouse", "stick"} /\ touch \in TouchType /\ touch.reports \in Nat
    BY DEF NInv, IInv, GyroTypeOK, TouchType
  <1>3. Untouched.quiet = FALSE
    BY DEF Untouched
  <1>4. ASSUME NEW touching \in BOOLEAN, NEW rate \in Rates,
               ParseGyroMouse(touching, Turning(rate))
        PROVE  Unmoved'
    <2>1. /\ profile = "mouse" /\ profile' = "mouse" /\ pulse' = Nothing
      BY <1>4 DEF ParseGyroMouse, Unmoved
    <2>2. CASE ~touching
      <3>1. remainder' = Nothing /\ touch' = Untouched
        BY <1>4, <2>2 DEF ParseGyroMouse
      <3> QED BY <1>3, <2>1, <3>1 DEF Unmoved, StillIsStill
    <2>3. CASE touching
      <3>1. Touched(Turning(rate))
        BY <1>4, <2>3 DEF ParseGyroMouse
      <3>2. /\ touch'.reports # 0
            /\ touch'.quiet => /\ touch.reports = 0 \/ touch.quiet
                               /\ rest.for = Settle /\ Turning(rate) = rest.rate
        BY <1>2, <3>1, QuietIs
      <3>3. ASSUME touch'.quiet PROVE given' = Nothing /\ remainder' = Nothing
        <4>1. remainder = Nothing
          BY <3>2, <3>3 DEF Unmoved, StillIsStill
        <4>2. \A a \in Pointer :
                  remainder[a] + MouseDelta(a, Corrected(Turning(rate))[a]) = 0
          BY <1>1, <3>2, <3>3, <4>1, RestedIsStill DEF Nothing
        <4>3. /\ remainder' = [a \in Pointer |-> ConsumeMouseDelta(
                     remainder[a] + MouseDelta(a, Corrected(Turning(rate))[a]))]
              /\ given' = [a \in Pointer |-> Pixels(
                     remainder[a] + MouseDelta(a, Corrected(Turning(rate))[a]))]
          BY <1>4, <2>3 DEF ParseGyroMouse
        <4> QED BY <4>2, <4>3, NothingOfNothing DEF Nothing
      <3> QED BY <2>1, <3>2, <3>3 DEF Unmoved, StillIsStill
    <2> QED BY <2>2, <2>3
  <1>5. ASSUME NEW touching \in BOOLEAN, NEW rate \in Rates,
               ParseGyroRightStick(touching, Turning(rate))
        PROVE  Unmoved'
    <2>1. /\ profile = "stick" /\ profile' = "stick" /\ remainder' = Nothing
      BY <1>5 DEF ParseGyroRightStick, Unmoved
    <2>2. CASE ~touching
      <3>1. pulse' = Nothing /\ touch' = Untouched
        BY <1>5, <2>2 DEF ParseGyroRightStick
      <3> QED BY <1>3, <2>1, <3>1 DEF Unmoved, StillIsStill
    <2>3. CASE touching
      <3>1. Touched(Turning(rate))
        BY <1>5, <2>3 DEF ParseGyroRightStick
      <3>2. /\ touch'.reports # 0
            /\ touch'.quiet => rest.for = Settle /\ Turning(rate) = rest.rate
        BY <1>2, <3>1, QuietIs
      <3>3. ASSUME touch'.quiet
            PROVE  given' = [a \in Pointer |-> Centre] /\ pulse' = Nothing
        <4>1. \A a \in Pointer : StickDeflection(a, Corrected(Turning(rate))[a]) = 0
          BY <1>1, <3>2, <3>3, RestedIsStill
        <4> DEFINE deflection ==
                [a \in Pointer |-> StickDeflection(a, Corrected(Turning(rate))[a])]
        <4>2. \A a \in Pointer : deflection[a] = 0
          BY <4>1
        <4>3. /\ pulse' = [a \in Pointer |-> PulseAfter(a, deflection[a])]
              /\ given' = [a \in Pointer |->
                     StickAxisFromDeflection(ApplyStickDeadzonePulse(a, deflection[a]))]
          BY <1>5, <2>3 DEF ParseGyroRightStick
        <4> HIDE DEF deflection
        <4> QED BY <4>2, <4>3, NothingOfNothing DEF Nothing
      <3> QED BY <2>1, <3>2, <3>3 DEF Unmoved, StillIsStill
    <2> QED BY <2>2, <2>3
  <1>6. ASSUME ShortReport PROVE Unmoved'
    <2>1. /\ touch' = [touch EXCEPT !.quiet = FALSE]
          /\ UNCHANGED <<profile, remainder, pulse>>
      BY <1>6 DEF ShortReport
    <2>2. touch'.reports = touch.reports /\ touch'.quiet = FALSE
      BY <1>2, <2>1 DEF TouchType
    <2> QED BY <2>1, <2>2 DEF Unmoved, StillIsStill
  <1>7. ASSUME ClearHidState PROVE Unmoved'
    BY <1>3, <1>7 DEF ClearHidState, Unmoved, StillIsStill
  <1>8. ASSUME UNCHANGED gyroVars PROVE Unmoved'
    BY <1>8 DEF gyroVars, Unmoved, StillIsStill
  <1> QED BY <1>4, <1>5, <1>6, <1>7, <1>8 DEF GyroNext

LEMMA UnmovedBegins == ASSUME GyroInit PROVE Unmoved
  BY DEF GyroInit, Unmoved, StillIsStill, Untouched

\* Under such rates a rest of 856 reports is enough: a controller that has rested so
\* long at a rate the average learns moves nothing while it is touched and goes on
\* resting, and leaves nothing over (ParseGyroMouse, ParseGyroRightStick).
THEOREM RestsQuietly ==
    ASSUME NarrowRates, Settle >= 856
    PROVE  GyroSpec => []StillIsStill
  <1> DEFINE Inv == NInv /\ Learning /\ Unmoved
  <1>1. Settle \in Nat \ {0}
    BY GyroAssumption
  <1>2. Inv /\ [GyroNext]_gyroVars => Inv'
    BY <1>1, NInvHolds, LearningHolds, UnmovedHolds, GyroAssumption
  <1>3. GyroInit => Inv
    BY <1>1, NInvBegins, LearningBegins, UnmovedBegins
  <1>4. Inv => StillIsStill
    BY DEF Unmoved
  <1> QED BY <1>2, <1>3, <1>4, PTL DEF GyroSpec

-----------------------------------------------------------------------------
(* The sticks as buttons *)

\* A position seen from the middle, whatever a report may hold.
Position == [x : Int, y : Int]

\* How far the stick goes the way of a left button, and across it.
Major(s, b) ==
    CASE b = "kLStickN" -> -s.y
      [] b = "kLStickS" -> s.y
      [] b = "kLStickE" -> s.x
      [] OTHER -> -s.x

Minor(s, b) == IF b \in {"kLStickN", "kLStickS"} THEN s.x ELSE s.y

StickTypeOK == stick \in [x : Reach, y : Reach]

\* Two lengths compare as their squares do: no root is needed.
LEMMA SquaresKeepOrder ==
    ASSUME NEW a \in Nat, NEW b \in Nat
    PROVE  /\ a <= b => a * a <= b * b
           /\ a > b => a * a > b * b
  <1>1. a * a \in Nat /\ b * b \in Nat /\ a * b \in Nat
    OBVIOUS
  <1>2. a <= b => a * a <= a * b /\ a * b <= b * b
    OBVIOUS
  <1>3. a > b => a * a > a * b /\ a * b >= b * b
    OBVIOUS
  <1> QED BY <1>1, <1>2, <1>3

\* A number without its sign has the same square.
LEMMA AbsSquare ==
    ASSUME NEW n \in Int
    PROVE  Abs32(n) \in Nat /\ Abs32(n) * Abs32(n) = n * n
  BY DEF Abs32

\* Comparing with 5/2 compares squares with 25/4: every position whose tangent to the
\* axis is less than that of 67 degrees is towards it, none whose tangent is more than
\* that of 69.
LEMMA TowardsIsAnAngle ==
    ASSUME NEW major \in Int, NEW minor \in Int, major > 0
    PROVE  /\ 847 * (major * major) >= 153 * (minor * minor) => Towards(major, minor)
           /\ Towards(major, minor) => 872 * (major * major) >= 128 * (minor * minor)
  <1> DEFINE a == 2 * Abs32(minor)
             b == 5 * major
             p == major * major
             q == minor * minor
  <1>1. a \in Nat /\ b \in Nat /\ p \in Nat /\ q \in Nat /\ p > 0
    BY AbsSquare
  <1>2. a * a = 4 * q /\ b * b = 25 * p
    <2> DEFINE h == Abs32(minor)
    <2>1. h \in Nat /\ h * h = q
      BY AbsSquare
    <2> HIDE DEF h
    <2>2. (2 * h) * (2 * h) = 4 * (h * h)
      BY <2>1
    <2> USE DEF h
    <2> QED BY <2>1, <2>2
  <1>3. Towards(major, minor) <=> a <= b
    BY AbsSquare DEF Towards
  <1> HIDE DEF a, b, p, q
  <1>4. (a <= b => a * a <= b * b) /\ (a > b => a * a > b * b)
    BY <1>1, SquaresKeepOrder
  <1>5. 847 * p >= 153 * q => a <= b
    BY <1>1, <1>2, <1>4
  <1>6. a <= b => 872 * p >= 128 * q
    BY <1>1, <1>2, <1>4
  <1> QED BY <1>3, <1>5, <1>6 DEF p, q

\* Each left button has an axis of its own, and is pressed where the stick is towards it.
LEMMA LeftAxes ==
    ASSUME NEW s \in Position, NEW b \in LeftButtons
    PROVE  /\ Major(s, b) \in Int /\ Minor(s, b) \in Int
           /\ R2(s) = Major(s, b) * Major(s, b) + Minor(s, b) * Minor(s, b)
           /\ Along(s, b) = 10 * Major(s, b)
           /\ b \in LeftDirections(s) <=> Towards(Major(s, b), Minor(s, b))
  <1> USE DEF Position, LeftButtons, Major, Minor
  <1>1. Major(s, b) \in Int /\ Minor(s, b) \in Int
    OBVIOUS
  <1>2. R2(s) = Major(s, b) * Major(s, b) + Minor(s, b) * Minor(s, b)
    <2>1. \A n \in Int : (-n) * (-n) = n * n
      OBVIOUS
    <2> QED BY <2>1 DEF R2
  <1>3. Along(s, b) = 10 * Major(s, b)
    BY DEF Along, Pointing
  <1>4. b \in LeftDirections(s) <=> Towards(Major(s, b), Minor(s, b))
    BY DEF LeftDirections
  <1> QED BY <1>1, <1>2, <1>3, <1>4

\* The four directions, for a stick of any reach (ParseLeftStickButtons).
LEMMA LeftPointsThere ==
    ASSUME NEW s \in Position, NEW b \in LeftButtons
    PROVE  /\ Within(s, b, 153) => b \in LeftDirections(s)
           /\ b \in LeftDirections(s) => Within(s, b, 128)
  <1> DEFINE m == Major(s, b)
             n == Minor(s, b)
             p == m * m
             q == n * n
             a == Along(s, b)
  <1>1. m \in Int /\ n \in Int /\ R2(s) = p + q /\ a = 10 * m
        /\ (b \in LeftDirections(s) <=> Towards(m, n))
    BY LeftAxes
  <1>2. p \in Int /\ q \in Int /\ a * a = 100 * p
    <2> HIDE DEF m, n, a
    <2>1. (10 * m) * (10 * m) = 100 * (m * m)
      BY <1>1
    <2> QED BY <1>1, <2>1
  <1>3. a > 0 <=> m > 0
    BY <1>1
  <1>4. m > 0 => /\ 847 * p >= 153 * q => Towards(m, n)
                 /\ Towards(m, n) => 872 * p >= 128 * q
    <2> HIDE DEF m, n
    <2> QED BY <1>1, TowardsIsAnAngle
  <1>5. Towards(m, n) => m > 0
    BY DEF Towards
  <1>6. \A k : Within(s, b, k) <=> a > 0 /\ 10 * (a * a) >= k * R2(s)
    BY DEF Within
  <1> HIDE DEF m, n, p, q, a
  <1>7. /\ Within(s, b, 153) <=> m > 0 /\ 847 * p >= 153 * q
        /\ Within(s, b, 128) <=> m > 0 /\ 872 * p >= 128 * q
    BY <1>1, <1>2, <1>3, <1>6
  <1> QED BY <1>1, <1>4, <1>5, <1>7

\* The eight sectors, for a stick of any reach that is not in the middle: the one it is
\* in points where no other points much better (ParseRightStickButtons).
LEMMA SectorIsNearest ==
    ASSUME NEW s \in Position, s.x # 0 \/ s.y # 0
    PROVE  \E b \in RightButtons : Sector(s) = {b} /\ Nearest(s, b)
  <1> DEFINE x == s.x
             y == s.y
             mostlyX == Abs32(x) * 2 > Abs32(y) * 5
             mostlyY == Abs32(y) * 2 > Abs32(x) * 5
             Is(b) == Sector(s) = {b} /\ Nearest(s, b)
  <1>1. x \in Int /\ y \in Int
    BY DEF Position
  <1>2. RightButtons = {"kRStick1", "kRStick2", "kRStick3", "kRStick4",
                        "kRStick5", "kRStick6", "kRStick7", "kRStick8"}
    BY DEF RightButtons, LeftButtons, Pointing
  <1>3. /\ Along(s, "kRStick1") = -10 * x /\ Along(s, "kRStick2") = 10 * y
        /\ Along(s, "kRStick3") = 10 * x /\ Along(s, "kRStick4") = -10 * y
        /\ Along(s, "kRStick5") = 7 * y - 7 * x /\ Along(s, "kRStick6") = 7 * x + 7 * y
        /\ Along(s, "kRStick7") = 7 * x - 7 * y /\ Along(s, "kRStick8") = -7 * x - 7 * y
    BY <1>1 DEF Along, Pointing
  <1>4. Sector(s) =
            IF mostlyX THEN (IF x > 0 THEN {"kRStick3"} ELSE {"kRStick1"})
            ELSE IF mostlyY THEN (IF y < 0 THEN {"kRStick4"} ELSE {"kRStick2"})
            ELSE IF x > 0 THEN (IF y < 0 THEN {"kRStick7"} ELSE {"kRStick6"})
            ELSE IF y > 0 THEN {"kRStick5"} ELSE {"kRStick8"}
    BY DEF Sector
  <1>5. x # 0 \/ y # 0
    OBVIOUS
  <1> HIDE DEF x, y
  <1>6. CASE mostlyX /\ x > 0
    <2>1. Is("kRStick3")
      BY <1>1, <1>2, <1>3, <1>4, <1>6 DEF Abs32, Nearest
    <2> QED BY <1>2, <2>1
  <1>7. CASE mostlyX /\ ~(x > 0)
    <2>1. Is("kRStick1")
      BY <1>1, <1>2, <1>3, <1>4, <1>7 DEF Abs32, Nearest
    <2> QED BY <1>2, <2>1
  <1>8. CASE ~mostlyX /\ mostlyY /\ y < 0
    <2>1. Is("kRStick4")
      BY <1>1, <1>2, <1>3, <1>4, <1>8 DEF Abs32, Nearest
    <2> QED BY <1>2, <2>1
  <1>9. CASE ~mostlyX /\ mostlyY /\ ~(y < 0)
    <2>1. Is("kRStick2")
      BY <1>1, <1>2, <1>3, <1>4, <1>9 DEF Abs32, Nearest
    <2> QED BY <1>2, <2>1
  <1>10. CASE ~mostlyX /\ ~mostlyY /\ x > 0 /\ y < 0
    <2>1. Is("kRStick7")
      BY <1>1, <1>2, <1>3, <1>4, <1>10 DEF Abs32, Nearest
    <2> QED BY <1>2, <2>1
  <1>11. CASE ~mostlyX /\ ~mostlyY /\ x > 0 /\ ~(y < 0)
    <2>1. Is("kRStick6")
      BY <1>1, <1>2, <1>3, <1>4, <1>11 DEF Abs32, Nearest
    <2> QED BY <1>2, <2>1
  <1>12. CASE ~mostlyX /\ ~mostlyY /\ ~(x > 0) /\ y > 0
    <2>1. Is("kRStick5")
      BY <1>1, <1>2, <1>3, <1>4, <1>12 DEF Abs32, Nearest
    <2> QED BY <1>2, <2>1
  <1>13. CASE ~mostlyX /\ ~mostlyY /\ ~(x > 0) /\ ~(y > 0)
    <2>1. Is("kRStick8")
      BY <1>1, <1>2, <1>3, <1>4, <1>5, <1>13 DEF Abs32, Nearest
    <2> QED BY <1>2, <2>1
  <1> QED BY <1>6, <1>7, <1>8, <1>9, <1>10, <1>11, <1>12, <1>13

\* A report's stick gives the left buttons it should.
LEMMA LeftPointsAlways ==
    ASSUME StickTypeOK
    PROVE  LeftPoints(FromCentre(stick), ParseLeftStickButtons(stick))
  <1> DEFINE s == FromCentre(stick)
             left == ParseLeftStickButtons(stick)
  <1>1. s \in Position /\ R2(s) \in Int
    BY DEF StickTypeOK, Reach, FromCentre, Position, R2
  <1>2. left = IF R2(s) <= 961 THEN {} ELSE Ring(s) \cup LeftDirections(s)
    BY DEF ParseLeftStickButtons
  <1>3. Ring(s) # {} /\ \A b \in LeftButtons : b \notin Ring(s)
    BY DEF Ring, LeftButtons
  <1> HIDE DEF s, left
  <1>4. \A b \in LeftButtons :
            /\ Within(s, b, 153) => b \in LeftDirections(s)
            /\ b \in LeftDirections(s) => Within(s, b, 128)
    BY <1>1, LeftPointsThere
  <1>5. left # {} <=> R2(s) > 31 * 31
    BY <1>1, <1>2, <1>3
  <1>6. left # {} => \A b \in LeftButtons :
            /\ Within(s, b, 153) => b \in left
            /\ b \in left => Within(s, b, 128)
    BY <1>2, <1>3, <1>4
  <1>7. LeftPoints(s, left)
    BY <1>5, <1>6 DEF LeftPoints
  <1> QED BY <1>7 DEF s, left

\* And the right button it should.
LEMMA RightPointsAlways ==
    ASSUME StickTypeOK
    PROVE  RightPoints(FromCentre(stick), ParseRightStickButtons(stick))
  <1> DEFINE s == FromCentre(stick)
             right == ParseRightStickButtons(stick)
  <1>1. s \in Position /\ R2(s) \in Int
    BY DEF StickTypeOK, Reach, FromCentre, Position, R2
  <1>2. right = IF R2(s) < 105 * 105 THEN {} ELSE Sector(s)
    BY DEF ParseRightStickButtons, kRawThresh, RSTICK_NUMPAD_THRESHOLD
  <1> HIDE DEF s, right
  <1>3. ASSUME ~(R2(s) < 105 * 105)
        PROVE  \E b \in RightButtons : right = {b} /\ Nearest(s, b)
    <2>1. s.x # 0 \/ s.y # 0
      BY <1>3 DEF R2
    <2>2. right = Sector(s)
      BY <1>2, <1>3
    <2> QED BY <1>1, <2>1, <2>2, SectorIsNearest
  <1>4. right # {} <=> R2(s) >= 105 * 105
    <2>1. ~(R2(s) < 105 * 105) => right # {}
      BY <1>3
    <2> QED BY <1>1, <1>2, <2>1
  <1>5. right # {} => \E b \in RightButtons : right = {b} /\ Nearest(s, b)
    <2>1. right # {} => ~(R2(s) < 105 * 105)
      BY <1>2
    <2> QED BY <1>3, <2>1
  <1>6. RightPoints(s, right)
    BY <1>4, <1>5 DEF RightPoints
  <1> QED BY <1>6 DEF s, right

\* Wherever the sticks are moved, the left one is the directions it goes in and the
\* right one the nearest of eight (ParseLeftStickButtons, ParseRightStickButtons).
THEOREM SticksAlwaysPoint == StickSpec => []SticksPointWhereTheyAre
  <1>1. StickInit => StickTypeOK
    BY DEF StickInit, StickTypeOK, Reach
  <1>2. StickTypeOK /\ [StickNext]_stick => StickTypeOK'
    BY DEF StickTypeOK, StickNext, Move, Reach
  <1>3. StickTypeOK => SticksPointWhereTheyAre
    BY LeftPointsAlways, RightPointsAlways DEF SticksPointWhereTheyAre
  <1> QED BY <1>1, <1>2, <1>3, PTL DEF StickSpec

-----------------------------------------------------------------------------
(* The lean estimate: filters that come to rest *)

\* What x is at most after n reports, when table lists what it is at most after every
\* m of them: between two entries it falls by the same each report.
Fall(table, m, k) == IF table[k] < 2 * m THEN 1 ELSE table[k] \div (2 * m)
Fallen(table, m, n, x) ==
    \A k \in 1 .. Len(table) : \A r \in 0 .. m :
        n >= m * (k - 1) + r => x <= table[k] - r * Fall(table, m, k)

\* Halved every m reports: what an average over m reports does at least.
Halves(table, m) ==
    /\ table \in Seq(Nat) /\ Len(table) > 0
    /\ \A k \in 1 .. Len(table) :
           /\ Fall(table, m, k) \in Nat \ {0}
           /\ table[k] - m * Fall(table, m, k) >= 0
           /\ table[k] - (m - 1) * Fall(table, m, k) > m * (Fall(table, m, k) - 1)
           /\ k < Len(table) => table[k + 1] = table[k] - m * Fall(table, m, k)

\* From x to y in one report: at least an m-th of it is gone.
Falls(m, x, y) == \A c \in Nat : x <= c => m * y <= (m - 1) * c

\* One more report.
LEMMA FallsOn ==
    ASSUME NEW table, NEW m \in {32, 128}, Halves(table, m),
           NEW x \in Int, NEW y \in Int, Falls(m, x, y),
           NEW n \in Int, Fallen(table, m, n, x), n >= 0
    PROVE  Fallen(table, m, n + 1, y)
  <1> DEFINE K == Len(table)
             B(k) == table[k]
             C(k) == Fall(table, m, k)
  <1>1. /\ K \in Nat /\ K > 0
        /\ \A k \in 1 .. K : B(k) \in Nat
    BY DEF Halves
  <1>2. \A k \in 1 .. K : /\ C(k) \in Nat \ {0}
                          /\ B(k) - m * C(k) >= 0
                          /\ B(k) - (m - 1) * C(k) > m * (C(k) - 1)
                          /\ k < K => B(k + 1) = B(k) - m * C(k)
    BY DEF Halves
  <1>3. \A k \in 1 .. K : \A r \in 0 .. m : n >= m * (k - 1) + r => x <= B(k) - r * C(k)
    BY DEF Fallen
  <1> HIDE DEF K, B, C
  <1>4. ASSUME NEW k \in 1 .. K, NEW r \in 1 .. m, n + 1 >= m * (k - 1) + r
        PROVE  y <= B(k) - r * C(k)
    <2> DEFINE c == B(k) - (r - 1) * C(k)
               f == C(k)
               g == (r - 1) * f
    <2>1. f \in Nat \ {0} /\ B(k) \in Nat /\ g \in Int /\ r * f = g + f
      BY <1>1, <1>2
    <2>2. g <= (m - 1) * f
      <3>1. r - 1 \in Nat /\ r - 1 <= m - 1
        OBVIOUS
      <3> QED BY <2>1, <3>1
    <2>3. n >= m * (k - 1) + (r - 1)
      <3>1. m * (k - 1) \in Int
        BY <1>1
      <3> QED BY <1>4, <3>1
    <2>4. r - 1 \in 0 .. m
      OBVIOUS
    <2>5. x <= c
      BY <1>3, <2>3, <2>4
    <2>6. c > m * (f - 1) /\ c \in Nat
      <3>1. B(k) - (m - 1) * f > m * (f - 1)
        BY <1>2
      <3> HIDE DEF f
      <3>2. c = B(k) - g
        BY DEF f
      <3>3. CASE m = 32
        <4> HIDE DEF g, c
        <4> QED BY <2>1, <2>2, <3>1, <3>2, <3>3
      <3>4. CASE m = 128
        <4> HIDE DEF g, c
        <4> QED BY <2>1, <2>2, <3>1, <3>2, <3>4
      <3> QED BY <3>3, <3>4
    <2>7. m * y <= (m - 1) * c
      BY <2>5, <2>6 DEF Falls
    <2>8. c = B(k) - g
      OBVIOUS
    <2> HIDE DEF c, g, f
    <2>9. y <= c - f
      <3>1. CASE m = 32
        BY <2>1, <2>6, <2>7, <3>1
      <3>2. CASE m = 128
        BY <2>1, <2>6, <2>7, <3>2
      <3> QED BY <3>1, <3>2
    <2>10. y <= B(k) - (g + f)
      BY <1>1, <2>1, <2>8, <2>9
    <2> QED BY <2>1, <2>10 DEF f
  <1>5. ASSUME NEW k \in 1 .. K, n + 1 >= m * (k - 1)
        PROVE  y <= B(k)
    <2>1. CASE k = 1
      <3>1. x <= B(1)
        <4>1. n >= m * (1 - 1) + 0 /\ 0 \in 0 .. m /\ 1 \in 1 .. K
          BY <1>1
        <4>2. x <= B(1) - 0 * C(1)
          BY <1>3, <4>1
        <4>3. 0 * C(1) = 0 /\ B(1) \in Nat
          BY <1>1, <1>2
        <4> QED BY <4>2, <4>3
      <3>2. B(1) \in Nat
        BY <1>1
      <3>3. m * y <= (m - 1) * B(1)
        BY <3>1, <3>2 DEF Falls
      <3>4. CASE m = 32
        BY <2>1, <3>2, <3>3, <3>4
      <3>5. CASE m = 128
        BY <2>1, <3>2, <3>3, <3>5
      <3> QED BY <3>4, <3>5
    <2>2. CASE k # 1
      <3> DEFINE j == k - 1
      <3>1. j \in 1 .. K /\ j < K /\ j + 1 = k
        BY <1>1, <2>2
      <3>2. m * (k - 1) = m * (j - 1) + m
        BY <1>1
      <3>3. m \in 1 .. m
        OBVIOUS
      <3> HIDE DEF j
      <3>4. y <= B(j) - m * C(j)
        BY <1>4, <1>5, <3>1, <3>2, <3>3
      <3>5. B(j + 1) = B(j) - m * C(j)
        BY <1>2, <3>1
      <3> QED BY <3>1, <3>4, <3>5
    <2> QED BY <2>1, <2>2
  <1>6. ASSUME NEW k \in 1 .. K, NEW r \in 0 .. m, n + 1 >= m * (k - 1) + r
        PROVE  y <= B(k) - r * C(k)
    <2>1. CASE r = 0
      <3>1. n + 1 >= m * (k - 1)
        <4>1. m * (k - 1) \in Int
          BY <1>1
        <4> QED BY <1>6, <2>1, <4>1
      <3>2. r * C(k) = 0 /\ B(k) \in Nat
        BY <1>1, <1>2, <2>1
      <3> QED BY <1>5, <3>1, <3>2
    <2>2. CASE r # 0
      <3>1. r \in 1 .. m
        BY <2>2
      <3> QED BY <1>4, <1>6, <3>1
    <2> QED BY <2>1, <2>2
  <1> QED BY <1>6 DEF Fallen, K, B, C

\* What is within the first entry has fallen that far before the first report.
LEMMA FallBegins ==
    ASSUME NEW table, NEW m \in {32, 128}, Halves(table, m), NEW x \in Int, x <= table[1]
    PROVE  Fallen(table, m, 0, x)
  <1> SUFFICES ASSUME NEW k \in 1 .. Len(table), NEW r \in 0 .. m, 0 >= m * (k - 1) + r
               PROVE  x <= table[k] - r * Fall(table, m, k)
    BY DEF Fallen
  <1>1. k = 1 /\ r = 0
    <2>1. Len(table) \in Nat
      BY DEF Halves
    <2>2. CASE m = 32
      BY <2>1, <2>2
    <2>3. CASE m = 128
      BY <2>1, <2>3
    <2> QED BY <2>2, <2>3
  <1>2. Fall(table, m, 1) \in Nat /\ table[1] \in Nat
    BY <1>1 DEF Halves
  <1> QED BY <1>1, <1>2

\* And what is not above nothing stays within them all.
LEMMA FallHolds ==
    ASSUME NEW table, NEW m \in {32, 128}, Halves(table, m), NEW x \in Int, x <= 0, NEW n
    PROVE  Fallen(table, m, n, x)
  <1> SUFFICES ASSUME NEW k \in 1 .. Len(table), NEW r \in 0 .. m
               PROVE  x <= table[k] - r * Fall(table, m, k)
    BY DEF Fallen
  <1> DEFINE f == Fall(table, m, k)
  <1>1. f \in Nat /\ table[k] \in Nat /\ table[k] - m * f >= 0
    BY DEF Halves
  <1> HIDE DEF f
  <1>2. r * f <= m * f /\ r * f \in Int
    BY <1>1
  <1>3. x <= table[k] - r * f
    BY <1>1, <1>2
  <1> QED BY <1>3 DEF f

\* What gravity may lack at first, in Q8, halved every 32 reports: settled after 640.
GravityTable ==
      <<16777216, 8388608, 4194304, 2097152, 1048576, 524288, 262144, 131072, 65536,
        32768, 16384, 8192, 4096, 2048, 1024, 512, 256, 128, 64, 32>>

\* What the fused roll may: in 1280 reports to less than ten hundredths of a degree.
FusedTable ==
      <<2490368, 1245184, 622592, 311296, 155648, 77824, 38912, 19456, 9728, 4864>>

\* What a jolt may put into it before the controller counts as upright.
JoltTable == <<42496, 21248>>

\* Gravity's average is over 32 reports.
LEMMA GravityTableHalves ==
    /\ Halves(GravityTable, 32)
    /\ Len(GravityTable) = 20 /\ GravityTable[1] = 16777216
  <1>1. /\ GravityTable \in Seq(Nat) /\ Len(GravityTable) = 20
        /\ GravityTable[1] = 16777216
    BY DEF GravityTable
  <1>2. \A k \in 1 .. 20 :
           /\ Fall(GravityTable, 32, k) \in Nat \ {0}
           /\ GravityTable[k] - 32 * Fall(GravityTable, 32, k) >= 0
           /\ GravityTable[k] - (32 - 1) * Fall(GravityTable, 32, k)
                  > 32 * (Fall(GravityTable, 32, k) - 1)
           /\ k < 20 => GravityTable[k + 1] = GravityTable[k] - 32 * Fall(GravityTable, 32, k)
    BY DEF GravityTable, Fall
  <1> QED BY <1>1, <1>2 DEF Halves

\* That of the fused roll is over 128.
LEMMA FusedTableHalves ==
    /\ Halves(FusedTable, 128)
    /\ Len(FusedTable) = 10 /\ FusedTable[1] = 2490368
  <1>1. /\ FusedTable \in Seq(Nat) /\ Len(FusedTable) = 10
        /\ FusedTable[1] = 2490368
    BY DEF FusedTable
  <1>2. \A k \in 1 .. 10 :
           /\ Fall(FusedTable, 128, k) \in Nat \ {0}
           /\ FusedTable[k] - 128 * Fall(FusedTable, 128, k) >= 0
           /\ FusedTable[k] - (128 - 1) * Fall(FusedTable, 128, k)
                  > 128 * (Fall(FusedTable, 128, k) - 1)
           /\ k < 10 => FusedTable[k + 1] = FusedTable[k] - 128 * Fall(FusedTable, 128, k)
    BY DEF FusedTable, Fall
  <1> QED BY <1>1, <1>2 DEF Halves

\* And so is that of what a jolt left.
LEMMA JoltTableHalves ==
    /\ Halves(JoltTable, 128)
    /\ Len(JoltTable) = 2 /\ JoltTable[1] = 42496
  <1>1. /\ JoltTable \in Seq(Nat) /\ Len(JoltTable) = 2
        /\ JoltTable[1] = 42496
    BY DEF JoltTable
  <1>2. \A k \in 1 .. 2 :
           /\ Fall(JoltTable, 128, k) \in Nat \ {0}
           /\ JoltTable[k] - 128 * Fall(JoltTable, 128, k) >= 0
           /\ JoltTable[k] - (128 - 1) * Fall(JoltTable, 128, k)
                  > 128 * (Fall(JoltTable, 128, k) - 1)
           /\ k < 2 => JoltTable[k + 1] = JoltTable[k] - 128 * Fall(JoltTable, 128, k)
    BY DEF JoltTable, Fall
  <1> QED BY <1>1, <1>2 DEF Halves

\* Full lean to either side is all the accelerometer can say.
LEMMA AccelRollRange ==
    ASSUME NEW g \in [1 .. 3 -> Int]
    PROVE  AccelRoll(g) \in Int /\ -4680 <= AccelRoll(g) /\ AccelRoll(g) <= 4680
  <1> DEFINE d == ApproxHypot32(g[2] \div 256, g[3] \div 256)
             n == g[1] \div 256
             a == ApproxAtan2Centideg(n, d)
  <1>1. n \in Int /\ d \in Int
    <2>1. g[2] \div 256 \in Int /\ g[3] \div 256 \in Int /\ n \in Int
      OBVIOUS
    <2>2. \A p, q \in Int : ApproxHypot32(p, q) \in Int
      BY DEF ApproxHypot32, Larger32, Smaller, Abs32
    <2> QED BY <2>1, <2>2
  <1>2. \A p, q \in Nat : q # 0 => ApproxAtanRatioCentideg(p, q) \in Int
    <2> TAKE p, q \in Nat
    <2> DEFINE r == Smaller((p * 32768) \div q, 32768)
               s == 4500 + (1564 * (32768 - r)) \div 32768
    <2> SUFFICES ASSUME q # 0 PROVE ApproxAtanRatioCentideg(p, q) \in Int
      OBVIOUS
    <2>1. (p * 32768) \div q \in Int
      OBVIOUS
    <2>2. r \in Int
      BY <2>1 DEF Smaller
    <2>3. s \in Int
      BY <2>2
    <2>4. r * s \in Int
      BY <2>2, <2>3
    <2>5. ApproxAtanRatioCentideg(p, q) = (r * s + 32768 \div 2) \div 32768
      BY DEF ApproxAtanRatioCentideg
    <2> HIDE DEF r, s
    <2> QED BY <2>4, <2>5
  <1> HIDE DEF n, d
  <1>3. a \in Int /\ -9000 <= a /\ a <= 9000
    <2> DEFINE p == Abs32(n)
               q == Abs32(d)
               angle == IF p <= q THEN ApproxAtanRatioCentideg(p, q)
                        ELSE 9000 - ApproxAtanRatioCentideg(q, p)
    <2>1. p \in Nat /\ q \in Nat
      BY <1>1 DEF Abs32
    <2>2. a = IF p = 0 THEN 0
              ELSE IF q = 0 THEN (IF n < 0 THEN -9000 ELSE 9000)
              ELSE ClampCentideg90(IF n < 0 THEN -angle ELSE angle)
      BY DEF ApproxAtan2Centideg
    <2>3. p # 0 /\ q # 0 => angle \in Int
      BY <1>2, <2>1
    <2>4. \A k \in Int : ClampCentideg90(k) \in Int /\ -9000 <= ClampCentideg90(k)
                         /\ ClampCentideg90(k) <= 9000
      BY DEF ClampCentideg90, Clamp
    <2> HIDE DEF p, q, angle, a
    <2>5. CASE p = 0 \/ q = 0
      BY <2>2, <2>5
    <2>6. CASE p # 0 /\ q # 0
      <3> DEFINE w == IF n < 0 THEN -angle ELSE angle
      <3>1. a = ClampCentideg90(w)
        BY <2>2, <2>6
      <3>2. w \in Int
        BY <2>3, <2>6
      <3> HIDE DEF w
      <3> QED BY <2>4, <3>1, <3>2
    <2> QED BY <2>5, <2>6
  <1>4. AccelRoll(g) = ClampCentideg90(Quot(a * 52, 100))
    BY DEF AccelRoll, LEAN_ROLL_SCALE_PERCENT, n, d
  <1> HIDE DEF a
  <1> QED BY <1>3, <1>4 DEF ClampCentideg90, Clamp, Quot

\* An axis of gravity comes nearer to what it reads, from either side, and rests just
\* below it.
LEMMA GravityFalls ==
    ASSUME NEW t \in Int, NEW x \in Int, NEW q \in Int, 32 * q <= t - x, t - x < 32 * q + 32
    PROVE  /\ Falls(32, x - t, x + q - t)
           /\ Falls(32, t - x - 31, t - (x + q) - 31)
           /\ -31 <= x - t /\ x - t <= 0 => q = 0
           /\ (x <= x + q /\ x + q <= t) \/ (t <= x + q /\ x + q <= x)
  <1>1. Falls(32, x - t, x + q - t)
    BY DEF Falls
  <1>2. Falls(32, t - x - 31, t - (x + q) - 31)
    BY DEF Falls
  <1>3. -31 <= x - t /\ x - t <= 0 => q = 0
    OBVIOUS
  <1>4. (x <= x + q /\ x + q <= t) \/ (t <= x + q /\ x + q <= x)
    <2>1. t - x >= 0 => q >= 0 /\ q <= t - x
      OBVIOUS
    <2>2. t - x < 0 => q <= 0 /\ q >= t - x
      OBVIOUS
    <2> QED BY <2>1, <2>2
  <1> QED BY <1>1, <1>2, <1>3, <1>4

\* One report of the roll: from x, or from t where it starts anew, turned by c, and then
\* a part of the way to t.
RollStep(e, c, s, t, x, y) ==
    /\ c \in -e .. e /\ s \in {x, t}
    /\ y = s + c + (t - (s + c)) \div 128

\* No further than w.
Near(w, x) == -w <= x /\ x <= w

\* The fused roll comes nearer to what the accelerometer says, from either side, and
\* stays as near as what the gyro adds each report allows.
LEMMA RollFalls ==
    ASSUME NEW e \in Nat, NEW c, NEW s, NEW t \in Int, NEW x \in Int, NEW y \in Int,
           RollStep(e, c, s, t, x, y), NEW w \in Nat, w = 127 * (e + 1)
    PROVE  /\ Falls(128, x - t - w, y - t - w)
           /\ Falls(128, t - x - w, t - y - w)
           /\ Near(w, x - t) => Near(w, y - t)
  <1> DEFINE z == s + c
             q == (t - z) \div 128
  <1>1. z \in Int /\ q \in Int /\ y = z + q /\ 128 * q <= t - z /\ t - z < 128 * q + 128
    BY DEF RollStep
  <1>2. s - e <= z /\ z <= s + e
    BY DEF RollStep
  <1> HIDE DEF z, q
  <1>3. CASE s = x
    <2>1. Falls(128, x - t - w, y - t - w)
      BY <1>1, <1>2, <1>3 DEF Falls
    <2>2. Falls(128, t - x - w, t - y - w)
      BY <1>1, <1>2, <1>3 DEF Falls
    <2>3. Near(w, x - t) => Near(w, y - t)
      BY <1>1, <1>2, <1>3 DEF Near
    <2> QED BY <2>1, <2>2, <2>3
  <1>4. CASE s = t
    <2>1. y - t <= w /\ t - y <= w
      BY <1>1, <1>2, <1>4
    <2> QED BY <2>1 DEF Falls, Near
  <1> QED BY <1>3, <1>4 DEF RollStep

LeanTypeOK ==
    /\ gravity \in {<<>>} \cup [1 .. 3 -> Int]
    /\ fused \in Int /\ gyroBias \in Int /\ roll \in Int
    /\ neutral \in [initialized : BOOLEAN, settle : 0 .. 250, centideg : Int]
    /\ pose \in [of : SUBSET Poses, held : Nat, only : BOOLEAN]
    /\ home \in SUBSET Poses
    /\ poses \in Nat /\ jolts \in Nat

\* What an accelerometer reads, in Q8, and how far the fused roll is from what gravity says.
Q8(accel) == [i \in 1 .. 3 |-> accel[i] * 256]
InReach(g) == \A i \in 1 .. 3 : -8388608 <= g[i] /\ g[i] <= 8388607
Off(f, g) == f - AccelRoll(g) * 256

\* A controller no report has come from; one that is held is held in one pose.
Unread ==
    gravity = <<>> => /\ fused = 0 /\ gyroBias = 0 /\ neutral = NotNeutral
                      /\ pose = NoPose /\ home = {} /\ jolts = 0

OnePose ==
    /\ \A p, q \in pose.of : p = q
    /\ pose.of # {} => pose.held >= 1

\* The bias stays with what a sensor at rest reads, the fused roll with what full lean
\* and the gyro, and the jolts there were, can make of it.
LeanBounded ==
    /\ gravity # <<>> => InReach(gravity)
    /\ -2816 <= gyroBias /\ gyroBias <= 2816
    /\ -(1201920 + 42260 * jolts) <= fused /\ fused <= 1201920 + 42260 * jolts

LeanRange == LeanTypeOK /\ Unread /\ OnePose /\ LeanBounded

-----------------------------------------------------------------------------

\* What the gyro adds in a report of a pose, once corrected by a bias of at most b.
LEMMA TurnIsSmall ==
    ASSUME NEW z \in Int, NEW b \in Int, NEW e \in {15, 29},
           -11 <= z, z <= 11,
           \/ e = 29 /\ -2816 <= b /\ b <= 2816
           \/ e = 15 /\ 0 <= b /\ b <= z * 256
           \/ e = 15 /\ z * 256 <= b /\ b <= 0
    PROVE  /\ ((z - b \div 256) * 330) \div 256 \in Int
           /\ -e <= ((z - b \div 256) * 330) \div 256
           /\ ((z - b \div 256) * 330) \div 256 <= e
  <1> DEFINE v == z - b \div 256
             c == (v * 330) \div 256
  <1>1. v \in Int
    OBVIOUS
  <1>2. e = 29 => -22 <= v /\ v <= 22
    OBVIOUS
  <1>3. e = 15 => -11 <= v /\ v <= 11
    OBVIOUS
  <1> HIDE DEF v
  <1>4. c \in Int /\ -e <= c /\ c <= e
    <2>1. CASE e = 29
      BY <1>1, <1>2, <2>1
    <2>2. CASE e = 15
      BY <1>1, <1>3, <2>2
    <2> QED BY <2>1, <2>2
  <1> QED BY <1>4 DEF v

\* The bias moves towards what the gyro reads, and not beyond it.
LEMMA BiasMoves ==
    ASSUME NEW z \in Int, NEW b \in Int, NEW q \in Int, q = b + Quot(z * 256 - b, 400)
    PROVE  (b <= q /\ q <= z * 256) \/ (z * 256 <= q /\ q <= b)
  <1> DEFINE t == z * 256 - b
  <1>1. t \in Int /\ z * 256 = t + b /\ q = b + Quot(t, 400)
    OBVIOUS
  <1> HIDE DEF t
  <1>2. CASE t < 0
    <2>1. (-t) \div 400 >= 0 /\ (-t) \div 400 <= -t
      BY <1>1, <1>2
    <2>2. Quot(t, 400) = -((-t) \div 400)
      BY <1>2 DEF Quot
    <2> HIDE DEF Quot
    <2> QED BY <1>1, <2>1, <2>2
  <1>3. CASE ~(t < 0)
    <2>1. t \div 400 >= 0 /\ t \div 400 <= t
      BY <1>1, <1>3
    <2>2. Quot(t, 400) = t \div 400
      BY <1>3 DEF Quot
    <2> HIDE DEF Quot
    <2> QED BY <1>1, <2>1, <2>2
  <1> QED BY <1>1, <1>2, <1>3

\* An int16_t, as two bounds.
LEMMA Int16Is ==
    ASSUME NEW n \in Int16
    PROVE  n \in Int /\ -32768 <= n /\ n <= 32767
  <1>1. Half = 32768
    BY DEF Half
  <1>2. Half \in Int => n \in Int /\ -Half <= n /\ n < Half
    BY DEF Int16
  <1> QED BY <1>1, <1>2

\* What the constants are held to.
LEMMA PoseIs ==
    ASSUME NEW p \in Poses
    PROVE  /\ p.accel \in [1 .. 3 -> Int]
           /\ Q8(p.accel) \in [1 .. 3 -> Int] /\ InReach(Q8(p.accel))
           /\ p.gyroZ \in Int /\ -11 <= p.gyroZ /\ p.gyroZ <= 11
           /\ p.roll \in Int /\ LooksLikeGravity(p.accel)
  <1>1. p.accel \in [1 .. 3 -> Int16] /\ p.gyroZ \in -MaxDrift .. MaxDrift /\ p.roll \in Int
    BY LeanAssumption
  <1>2. LooksLikeGravity(p.accel)
    BY LeanAssumption
  <1>3. \A i \in 1 .. 3 : p.accel[i] \in Int /\ -32768 <= p.accel[i] /\ p.accel[i] <= 32767
    BY <1>1, Int16Is
  <1>4. p.gyroZ \in Int /\ -11 <= p.gyroZ /\ p.gyroZ <= 11
    BY <1>1 DEF MaxDrift
  <1>5. p.accel \in [1 .. 3 -> Int] /\ Q8(p.accel) \in [1 .. 3 -> Int]
    BY <1>1, <1>3 DEF Q8
  <1>6. InReach(Q8(p.accel))
    BY <1>3 DEF Q8, InReach
  <1> QED BY <1>1, <1>2, <1>3, <1>4, <1>5, <1>6

\* And in a jolt.
LEMMA JoltIs ==
    ASSUME NEW j \in Jolts
    PROVE  /\ Q8(j.accel) \in [1 .. 3 -> Int] /\ InReach(Q8(j.accel))
           /\ j.gyroZ \in Int /\ -32768 <= j.gyroZ /\ j.gyroZ <= 32767
           /\ ~LooksLikeGravity(j.accel)
  <1>1. j.accel \in [1 .. 3 -> Int16] /\ j.gyroZ \in Int16
    BY LeanAssumption
  <1>2. ~LooksLikeGravity(j.accel)
    BY LeanAssumption
  <1>3. \A i \in 1 .. 3 : j.accel[i] \in Int /\ -32768 <= j.accel[i] /\ j.accel[i] <= 32767
    BY <1>1, Int16Is
  <1>4. j.gyroZ \in Int /\ -32768 <= j.gyroZ /\ j.gyroZ <= 32767
    BY <1>1, Int16Is
  <1>5. Q8(j.accel) \in [1 .. 3 -> Int] /\ InReach(Q8(j.accel))
    BY <1>3 DEF Q8, InReach
  <1> QED BY <1>2, <1>4, <1>5

\* A report of a pose, once gravity has been read: each filter moves by its part.
Averaged(p) ==
    \A i \in 1 .. 3 : gravity'[i] = gravity[i] + (p.accel[i] * 256 - gravity[i]) \div 32
FusedBy(e) ==
    LET t == AccelRoll(gravity') * 256
    IN  /\ \E c, s : RollStep(e, c, s, t, fused, fused')
        /\ fused = 0 => \E c : RollStep(e, c, t, t, t, fused')

\* What a report of a pose makes of each part of the estimate: gravity ...
LEMMA PoseGravity ==
    ASSUME LeanRange, NEW p \in Poses, UpdateLeanEstimate(p.accel, p.gyroZ)
    PROVE  /\ gravity' \in [1 .. 3 -> Int] /\ gravity' # <<>> /\ InReach(gravity')
           /\ gravity = <<>> => gravity' = Q8(p.accel)
           /\ gravity # <<>> => gravity \in [1 .. 3 -> Int] /\ Averaged(p)
  <1>1. gravity' = Gravity(p.accel)
    BY DEF UpdateLeanEstimate
  <1>2. /\ p.accel \in [1 .. 3 -> Int] /\ Q8(p.accel) \in [1 .. 3 -> Int]
        /\ InReach(Q8(p.accel)) /\ LooksLikeGravity(p.accel)
    BY PoseIs
  <1>3. \A g \in [1 .. 3 -> Int] : g # <<>>
    <2>1. 1 \notin DOMAIN <<>>
      OBVIOUS
    <2>2. \A g \in [1 .. 3 -> Int] : 1 \in DOMAIN g
      OBVIOUS
    <2> QED BY <2>1, <2>2
  <1>4. CASE gravity = <<>>
    <2>1. gravity' = Q8(p.accel)
      BY <1>1, <1>4 DEF Gravity, Q8
    <2> QED BY <1>2, <1>3, <1>4, <2>1
  <1>5. CASE gravity # <<>>
    <2>1. gravity \in [1 .. 3 -> Int] /\ InReach(gravity)
      BY <1>5 DEF LeanRange, LeanTypeOK, LeanBounded
    <2>2. gravity' = [i \in 1 .. 3 |-> gravity[i] + (p.accel[i] * 256 - gravity[i]) \div 32]
      BY <1>1, <1>2, <1>5 DEF Gravity
    <2>3. gravity' \in [1 .. 3 -> Int] /\ Averaged(p)
      BY <1>2, <2>1, <2>2 DEF Averaged
    <2>4. InReach(gravity')
      <3> SUFFICES ASSUME NEW i \in 1 .. 3
                   PROVE  -8388608 <= gravity'[i] /\ gravity'[i] <= 8388607
        BY DEF InReach
      <3> DEFINE t == p.accel[i] * 256
                 x == gravity[i]
                 q == (t - x) \div 32
      <3>1. t \in Int /\ -8388608 <= t /\ t <= 8388607
        BY <1>2 DEF InReach, Q8
      <3>2. x \in Int /\ -8388608 <= x /\ x <= 8388607
        BY <2>1 DEF InReach
      <3>3. q \in Int /\ 32 * q <= t - x /\ t - x < 32 * q + 32
        BY <3>1, <3>2
      <3>4. gravity'[i] = x + q
        BY <2>3 DEF Averaged
      <3> HIDE DEF t, x, q
      <3>5. (x <= x + q /\ x + q <= t) \/ (t <= x + q /\ x + q <= x)
        BY <3>1, <3>2, <3>3, GravityFalls
      <3> QED BY <3>1, <3>2, <3>3, <3>4, <3>5
    <2> QED BY <1>3, <1>5, <2>1, <2>3, <2>4
  <1> QED BY <1>4, <1>5

\* ... the fused roll, more closely while the bias is below what the gyro reads ...
LEMMA PoseFused ==
    ASSUME LeanRange, NEW p \in Poses, UpdateLeanEstimate(p.accel, p.gyroZ)
    PROVE  /\ FusedBy(29)
           /\ (0 <= gyroBias /\ gyroBias <= p.gyroZ * 256)
                  \/ (p.gyroZ * 256 <= gyroBias /\ gyroBias <= 0) => FusedBy(15)
           /\ fused' \in Int
           /\ -(1201920 + 42260 * jolts) <= fused' /\ fused' <= 1201920 + 42260 * jolts
  <1> DEFINE r == AccelRoll(gravity')
             c == ((p.gyroZ - gyroBias \div 256) * 330) \div 256
             s == IF fused = 0 THEN r * 256 ELSE fused
  <1>1. r \in Int /\ -4680 <= r /\ r <= 4680
    BY PoseGravity, AccelRollRange
  <1>2. p.gyroZ \in Int /\ -11 <= p.gyroZ /\ p.gyroZ <= 11 /\ LooksLikeGravity(p.accel)
    BY PoseIs
  <1>3. gyroBias \in Int /\ -2816 <= gyroBias /\ gyroBias <= 2816
        /\ fused \in Int /\ jolts \in Nat
        /\ -(1201920 + 42260 * jolts) <= fused /\ fused <= 1201920 + 42260 * jolts
    BY DEF LeanRange, LeanTypeOK, LeanBounded
  <1>4. fused' = s + c + (r * 256 - (s + c)) \div 128
    <2>1. /\ gravity' = Gravity(p.accel)
          /\ fused' = Fused(AccelRoll(Gravity(p.accel)), p.accel, p.gyroZ)
      BY DEF UpdateLeanEstimate
    <2>2. fused' = Fused(r, p.accel, p.gyroZ)
      BY <2>1
    <2> HIDE DEF r
    <2> QED BY <1>2, <2>2
        DEF Fused, Seeded, CorrectedGyroZ, LEAN_GYRO_ROLL_CENTIDEG_Q16_PER_REPORT
  <1>5. c \in Int /\ -29 <= c /\ c <= 29
    BY <1>2, <1>3, TurnIsSmall
  <1>6. (0 <= gyroBias /\ gyroBias <= p.gyroZ * 256)
            \/ (p.gyroZ * 256 <= gyroBias /\ gyroBias <= 0) => -15 <= c /\ c <= 15
    BY <1>2, <1>3, TurnIsSmall
  <1> HIDE DEF r, c
  <1>7. s \in {fused, r * 256} /\ (fused = 0 => s = r * 256) /\ s \in Int
    BY <1>1, <1>3
  <1>8. fused' \in Int /\ -(1201920 + 42260 * jolts) <= fused'
        /\ fused' <= 1201920 + 42260 * jolts
    <2> DEFINE f == 42260 * jolts
               z == s + c
               q == (r * 256 - z) \div 128
    <2>1. f \in Int /\ f >= 0 /\ -(1201920 + f) <= s /\ s <= 1201920 + f
      BY <1>1, <1>3
    <2>2. /\ z \in Int /\ q \in Int /\ fused' = z + q
          /\ 128 * q <= r * 256 - z /\ r * 256 - z < 128 * q + 128
      BY <1>1, <1>4, <1>5, <1>7
    <2>3. -(1201920 + f) - 29 <= z /\ z <= 1201920 + f + 29
      BY <1>5, <1>7, <2>1
    <2> HIDE DEF f, z, q, s
    <2>4. fused' <= 1201920 + f
      BY <1>1, <2>1, <2>2, <2>3
    <2>5. -(1201920 + f) <= fused'
      BY <1>1, <2>1, <2>2, <2>3
    <2> QED BY <2>2, <2>4, <2>5 DEF f
  <1> HIDE DEF s
  <1>9. ASSUME NEW e \in Nat, c \in -e .. e PROVE FusedBy(e)
    <2>1. RollStep(e, c, s, r * 256, fused, fused')
      BY <1>4, <1>7, <1>9 DEF RollStep
    <2>2. fused = 0 => RollStep(e, c, r * 256, r * 256, r * 256, fused')
      BY <1>4, <1>7, <1>9 DEF RollStep
    <2> QED BY <2>1, <2>2 DEF FusedBy, r
  <1>10. c \in -29 .. 29
    BY <1>5
  <1>11. (0 <= gyroBias /\ gyroBias <= p.gyroZ * 256)
             \/ (p.gyroZ * 256 <= gyroBias /\ gyroBias <= 0) => c \in -15 .. 15
    BY <1>5, <1>6
  <1> QED BY <1>8, <1>9, <1>10, <1>11

\* ... and the bias.
LEMMA PoseBias ==
    ASSUME LeanRange, NEW p \in Poses, UpdateLeanEstimate(p.accel, p.gyroZ)
    PROVE  /\ gyroBias' \in Int /\ -2816 <= gyroBias' /\ gyroBias' <= 2816
           /\ \/ gyroBias <= gyroBias' /\ gyroBias' <= p.gyroZ * 256
              \/ p.gyroZ * 256 <= gyroBias' /\ gyroBias' <= gyroBias
              \/ gyroBias' = gyroBias
  <1>1. p.gyroZ \in Int /\ -11 <= p.gyroZ /\ p.gyroZ <= 11
    BY PoseIs
  <1>2. gyroBias \in Int /\ -2816 <= gyroBias /\ gyroBias <= 2816
    BY DEF LeanRange, LeanTypeOK, LeanBounded
  <1> DEFINE q == gyroBias + Quot(p.gyroZ * 256 - gyroBias, 400)
  <1>3. gyroBias' = gyroBias \/ gyroBias' = q
    BY DEF UpdateLeanEstimate, LeanBias
  <1>4. q \in Int
    BY <1>1, <1>2 DEF Quot
  <1>5. (gyroBias <= q /\ q <= p.gyroZ * 256) \/ (p.gyroZ * 256 <= q /\ q <= gyroBias)
    BY <1>1, <1>2, <1>4, BiasMoves
  <1> HIDE DEF q
  <1> QED BY <1>1, <1>2, <1>3, <1>4, <1>5

\* What is reported.
RollIs ==
    roll = IF neutral.initialized THEN ClampCentideg90(neutral.centideg - FusedCentideg(fused))
           ELSE 0

\* The other two things a report changes: upright is what 250 reports in a row have left.
LEMMA PoseNeutral ==
    ASSUME LeanRange, NEW p \in Poses, UpdateLeanEstimate(p.accel, p.gyroZ)
    PROVE  /\ neutral' \in [initialized : BOOLEAN, settle : 0 .. 250, centideg : Int]
           /\ neutral.initialized => neutral' = neutral
           /\ ~neutral.initialized =>
                  \/ neutral' = [neutral EXCEPT !.settle = neutral.settle + 1]
                     /\ neutral.settle + 1 < 250
                  \/ neutral.settle + 1 >= 250
                     /\ neutral' = [initialized |-> TRUE, settle |-> 250,
                                    centideg |-> FusedCentideg(fused')]
           /\ RollIs' /\ roll' \in Int
  <1>1. neutral \in [initialized : BOOLEAN, settle : 0 .. 250, centideg : Int]
    BY DEF LeanRange, LeanTypeOK
  <1>2. LooksLikeGravity(p.accel)
    BY PoseIs
  <1>3. fused' \in Int
    BY PoseFused
  <1>4. \A k \in Int : ClampCentideg90(k) \in Int
    BY DEF ClampCentideg90, Clamp
  <1>5. FusedCentideg(fused') \in Int
    <2>1. fused' \div 256 \in Int
      BY <1>3
    <2> QED BY <1>4, <2>1 DEF FusedCentideg
  <1>6. /\ neutral' = Neutral(p.accel, FusedCentideg(fused'))
        /\ RollIs'
    BY DEF UpdateLeanEstimate, RollIs
  <1>7. /\ neutral.initialized => neutral' = neutral
        /\ ~neutral.initialized =>
               \/ neutral' = [neutral EXCEPT !.settle = neutral.settle + 1]
                  /\ neutral.settle + 1 < 250
               \/ neutral.settle + 1 >= 250
                  /\ neutral' = [initialized |-> TRUE, settle |-> 250,
                                 centideg |-> FusedCentideg(fused')]
    <2> DEFINE d == FusedCentideg(fused')
               up == Smaller(neutral.settle + 1, 250)
    <2>1. neutral' = IF neutral.initialized THEN neutral
                     ELSE IF up < 250 THEN [neutral EXCEPT !.settle = up]
                     ELSE [initialized |-> TRUE, settle |-> up, centideg |-> d]
      BY <1>2, <1>6 DEF Neutral, LEAN_NEUTRAL_SETTLE_REPORTS
    <2>2. neutral.settle \in 0 .. 250
      BY <1>1
    <2>3. neutral.settle + 1 < 250 => up = neutral.settle + 1
      BY <2>2 DEF Smaller
    <2>4. neutral.settle + 1 >= 250 => up = 250
      BY <2>2 DEF Smaller
    <2> HIDE DEF d, up
    <2>5. ASSUME ~neutral.initialized, neutral.settle + 1 < 250
          PROVE  neutral' = [neutral EXCEPT !.settle = neutral.settle + 1]
      BY <2>1, <2>3, <2>5
    <2>6. ASSUME ~neutral.initialized, neutral.settle + 1 >= 250
          PROVE  neutral' = [initialized |-> TRUE, settle |-> 250, centideg |-> d]
      <3>1. up = 250 /\ ~(up < 250)
        BY <2>4, <2>6
      <3>2. neutral' = [initialized |-> TRUE, settle |-> up, centideg |-> d]
        BY <2>1, <2>6, <3>1
      <3> QED BY <3>1, <3>2
    <2>7. neutral.initialized => neutral' = neutral
      BY <2>1
    <2> QED BY <2>2, <2>5, <2>6, <2>7 DEF d
  <1>8. neutral' \in [initialized : BOOLEAN, settle : 0 .. 250, centideg : Int]
    <2>1. CASE neutral.initialized
      BY <1>1, <1>7, <2>1
    <2>2. CASE neutral' = [neutral EXCEPT !.settle = neutral.settle + 1]
               /\ neutral.settle + 1 < 250
      <3>1. neutral.settle + 1 \in 0 .. 250
        BY <1>1, <2>2
      <3> DEFINE s == neutral.settle + 1
      <3>2. s \in 0 .. 250 /\ neutral' = [neutral EXCEPT !.settle = s]
        BY <2>2, <3>1
      <3> HIDE DEF s
      <3> QED BY <1>1, <3>2
    <2>3. CASE neutral' = [initialized |-> TRUE, settle |-> 250,
                           centideg |-> FusedCentideg(fused')]
      BY <1>5, <2>3
    <2> QED BY <1>7, <2>1, <2>2, <2>3
  <1>9. roll' \in Int
    <2>1. neutral'.centideg - FusedCentideg(fused') \in Int
      BY <1>5, <1>8
    <2> QED BY <1>4, <1>6, <2>1 DEF RollIs
  <1> QED BY <1>6, <1>7, <1>8, <1>9

\* What a jolt changes: gravity only where none was read, the roll by what the gyro
\* says, and what was to count as upright starts again.
LEMMA JoltReport ==
    ASSUME LeanRange, NEW j \in Jolts, UpdateLeanEstimate(j.accel, j.gyroZ)
    PROVE  /\ gravity' \in [1 .. 3 -> Int] /\ gravity' # <<>> /\ InReach(gravity')
           /\ gravity # <<>> => gravity' = gravity
           /\ gyroBias' = gyroBias
           /\ fused' \in Int /\ fused - 42260 <= fused' /\ fused' <= fused + 42260
           /\ neutral' \in [initialized : BOOLEAN, settle : 0 .. 250, centideg : Int]
           /\ neutral.initialized => neutral' = neutral
           /\ ~neutral.initialized => neutral' = [neutral EXCEPT !.settle = 0]
           /\ RollIs' /\ roll' \in Int
  <1>1. /\ Q8(j.accel) \in [1 .. 3 -> Int] /\ InReach(Q8(j.accel))
        /\ j.gyroZ \in Int /\ -32768 <= j.gyroZ /\ j.gyroZ <= 32767
        /\ ~LooksLikeGravity(j.accel)
    BY JoltIs
  <1>2. /\ gyroBias \in Int /\ -2816 <= gyroBias /\ gyroBias <= 2816 /\ fused \in Int
        /\ neutral \in [initialized : BOOLEAN, settle : 0 .. 250, centideg : Int]
    BY DEF LeanRange, LeanTypeOK, LeanBounded
  <1>3. \A g \in [1 .. 3 -> Int] : g # <<>>
    <2>1. 1 \notin DOMAIN <<>>
      OBVIOUS
    <2>2. \A g \in [1 .. 3 -> Int] : 1 \in DOMAIN g
      OBVIOUS
    <2> QED BY <2>1, <2>2
  <1>4. gravity' = IF gravity = <<>> THEN Q8(j.accel) ELSE gravity
    BY <1>1 DEF UpdateLeanEstimate, Gravity, Q8
  <1>5. /\ gravity' \in [1 .. 3 -> Int] /\ gravity' # <<>> /\ InReach(gravity')
        /\ gravity # <<>> => gravity' = gravity
    BY <1>1, <1>3, <1>4 DEF LeanRange, LeanTypeOK, LeanBounded
  <1>6. gyroBias' = gyroBias
    BY <1>1 DEF UpdateLeanEstimate, LeanBias
  <1>7. fused' \in Int /\ fused - 42260 <= fused' /\ fused' <= fused + 42260
    <2> DEFINE v == j.gyroZ - gyroBias \div 256
               c == (v * 330) \div 256
    <2>1. v \in Int /\ -32779 <= v /\ v <= 32779
      BY <1>1, <1>2
    <2>2. fused' = fused + c
      BY <1>1 DEF UpdateLeanEstimate, Fused, Seeded, CorrectedGyroZ,
                  LEAN_GYRO_ROLL_CENTIDEG_Q16_PER_REPORT
    <2> HIDE DEF v
    <2>3. c \in Int /\ -42260 <= c /\ c <= 42260
      BY <2>1
    <2> HIDE DEF c
    <2> QED BY <1>2, <2>2, <2>3
  <1>8. /\ neutral.initialized => neutral' = neutral
        /\ ~neutral.initialized => neutral' = [neutral EXCEPT !.settle = 0]
    BY <1>1 DEF UpdateLeanEstimate, Neutral
  <1>9. neutral' \in [initialized : BOOLEAN, settle : 0 .. 250, centideg : Int]
    BY <1>2, <1>8
  <1>10. RollIs'
    BY DEF UpdateLeanEstimate, RollIs
  <1>11. roll' \in Int
    <2>1. \A k \in Int : ClampCentideg90(k) \in Int
      BY DEF ClampCentideg90, Clamp
    <2>2. FusedCentideg(fused') \in Int
      <3>1. fused' \div 256 \in Int
        BY <1>7
      <3> QED BY <2>1, <3>1 DEF FusedCentideg
    <2>3. neutral'.centideg - FusedCentideg(fused') \in Int
      BY <1>9, <2>2
    <2> QED BY <1>10, <2>1, <2>3 DEF RollIs
  <1> QED BY <1>5, <1>6, <1>7, <1>8, <1>9, <1>10, <1>11

\* The ranges hold at first.
LEMMA LeanBegins == LeanInit => LeanRange /\ RollIs
  BY DEF LeanInit, LeanRange, LeanTypeOK, Unread, OnePose, LeanBounded, RollIs,
         NotNeutral, NoPose

\* Each action, and what it leaves of the estimate and of the histories.
LEMMA LeanHeld ==
    ASSUME LeanRange, NEW p \in Poses, Held(p)
    PROVE  (LeanRange /\ RollIs)' /\ UpdateLeanEstimate(p.accel, p.gyroZ)
           /\ pose'.of = {p} /\ pose'.held \in Nat /\ jolts' = jolts
           /\ \/ pose.of = {p} /\ pose'.held = pose.held + 1 /\ pose'.only = pose.only
              \/ /\ pose.of # {p} /\ pose'.held = 1
                 /\ pose'.only <=> (pose.of = {} /\ gravity = <<>>)
  <1>1. UpdateLeanEstimate(p.accel, p.gyroZ) /\ jolts' = jolts
    BY DEF Held
  <1>2. LeanTypeOK /\ OnePose
    BY DEF LeanRange
  <1>3. /\ pose' \in [of : SUBSET Poses, held : Nat, only : BOOLEAN]
        /\ pose'.of = {p} /\ pose'.held >= 1 /\ poses' \in Nat
        /\ \/ pose.of = {p} /\ pose'.held = pose.held + 1 /\ pose'.only = pose.only
           \/ /\ pose.of # {p} /\ pose'.held = 1
              /\ pose'.only <=> (pose.of = {} /\ gravity = <<>>)
    <2>1. CASE pose.of = {p} /\ pose' = [pose EXCEPT !.held = @ + 1] /\ UNCHANGED poses
      BY <1>2, <2>1 DEF LeanTypeOK, OnePose
    <2>2. CASE /\ pose.of # {p} /\ poses' = poses + 1
               /\ pose' = [of |-> {p}, held |-> 1, only |-> pose.of = {} /\ gravity = <<>>]
      <3>1. poses' \in Nat /\ {p} \in SUBSET Poses
        BY <1>2, <2>2 DEF LeanTypeOK
      <3>2. /\ pose'.of = {p} /\ pose'.held = 1
            /\ pose'.only <=> (pose.of = {} /\ gravity = <<>>)
        BY <2>2
      <3>3. (pose.of = {} /\ gravity = <<>>) \in BOOLEAN
        OBVIOUS
      <3>4. pose' \in [of : SUBSET Poses, held : Nat, only : BOOLEAN]
        BY <2>2, <3>1, <3>3
      <3>5. pose.of # {p}
        BY <2>2
      <3> QED BY <3>1, <3>2, <3>4, <3>5
    <2> QED BY <2>1, <2>2 DEF Held
  <1>4. home' \in SUBSET Poses
    BY <1>2 DEF Held, LeanTypeOK
  <1>5. LeanTypeOK'
    <2>1. gravity' \in [1 .. 3 -> Int] /\ fused' \in Int /\ gyroBias' \in Int /\ roll' \in Int
          /\ neutral' \in [initialized : BOOLEAN, settle : 0 .. 250, centideg : Int]
      BY <1>1, PoseGravity, PoseFused, PoseBias, PoseNeutral
    <2>2. jolts' \in Nat
      BY <1>1, <1>2 DEF LeanTypeOK
    <2> QED BY <1>3, <1>4, <2>1, <2>2 DEF LeanTypeOK
  <1>6. Unread'
    BY <1>1, PoseGravity DEF Unread
  <1>7. OnePose'
    BY <1>3 DEF OnePose
  <1>8. LeanBounded'
    BY <1>1, PoseGravity, PoseFused, PoseBias DEF LeanBounded
  <1>9. RollIs'
    BY <1>1, PoseNeutral
  <1> QED BY <1>1, <1>3, <1>5, <1>6, <1>7, <1>8, <1>9 DEF LeanRange

LEMMA LeanJolted ==
    ASSUME LeanRange, NEW j \in Jolts, Jolted(j)
    PROVE  (LeanRange /\ RollIs)' /\ UpdateLeanEstimate(j.accel, j.gyroZ)
           /\ jolts < MaxJolts /\ jolts' = jolts + 1
           /\ pose'.of = pose.of /\ pose'.only = pose.only /\ home' = home
           /\ pose'.held = IF pose.of = {} THEN 0 ELSE 1
  <1>1. /\ UpdateLeanEstimate(j.accel, j.gyroZ) /\ jolts < MaxJolts
        /\ jolts' = jolts + 1 /\ UNCHANGED <<home, poses>>
        /\ pose' = [pose EXCEPT !.held = IF pose.of = {} THEN 0 ELSE 1]
    BY DEF Jolted
  <1>2. LeanTypeOK /\ OnePose
    BY DEF LeanRange
  <1>3. /\ pose' \in [of : SUBSET Poses, held : Nat, only : BOOLEAN]
        /\ pose'.of = pose.of /\ pose'.only = pose.only
        /\ pose'.held = IF pose.of = {} THEN 0 ELSE 1
    BY <1>1, <1>2 DEF LeanTypeOK
  <1>4. LeanTypeOK'
    <2>1. gravity' \in [1 .. 3 -> Int] /\ fused' \in Int /\ gyroBias' = gyroBias /\ roll' \in Int
          /\ neutral' \in [initialized : BOOLEAN, settle : 0 .. 250, centideg : Int]
      BY <1>1, JoltReport
    <2>2. jolts' \in Nat /\ home' \in SUBSET Poses /\ poses' \in Nat /\ gyroBias' \in Int
      BY <1>1, <1>2, <2>1 DEF LeanTypeOK
    <2> QED BY <1>3, <2>1, <2>2 DEF LeanTypeOK
  <1>5. Unread'
    BY <1>1, JoltReport DEF Unread
  <1>6. OnePose'
    BY <1>2, <1>3 DEF OnePose
  <1>7. LeanBounded'
    <2>1. /\ InReach(gravity') /\ gyroBias' = gyroBias
          /\ fused' \in Int /\ fused - 42260 <= fused' /\ fused' <= fused + 42260
      BY <1>1, JoltReport
    <2>2. /\ fused \in Int /\ jolts \in Nat /\ -2816 <= gyroBias /\ gyroBias <= 2816
          /\ -(1201920 + 42260 * jolts) <= fused /\ fused <= 1201920 + 42260 * jolts
      BY DEF LeanRange, LeanTypeOK, LeanBounded
    <2>3. /\ -(1201920 + 42260 * jolts') <= fused' /\ fused' <= 1201920 + 42260 * jolts'
      BY <1>1, <2>1, <2>2
    <2> QED BY <2>1, <2>2, <2>3 DEF LeanBounded
  <1>8. RollIs'
    BY <1>1, JoltReport
  <1> QED BY <1>1, <1>3, <1>4, <1>5, <1>6, <1>7, <1>8 DEF LeanRange

LEMMA LeanCleared == ClearLean => (LeanRange /\ RollIs)'
  BY DEF ClearLean, LeanRange, LeanTypeOK, Unread, OnePose, LeanBounded, RollIs,
         NotNeutral, NoPose

LEMMA LeanRangeStep == LeanRange /\ RollIs /\ [LeanNext]_leanVars => (LeanRange /\ RollIs)'
  <1> SUFFICES ASSUME LeanRange, RollIs, [LeanNext]_leanVars PROVE (LeanRange /\ RollIs)'
    OBVIOUS
  <1>1. ASSUME NEW p \in Poses, Held(p) PROVE (LeanRange /\ RollIs)'
    BY <1>1, LeanHeld
  <1>2. ASSUME NEW j \in Jolts, Jolted(j) PROVE (LeanRange /\ RollIs)'
    BY <1>2, LeanJolted
  <1>3. ASSUME ClearLean PROVE (LeanRange /\ RollIs)'
    BY <1>3, LeanCleared
  <1>4. CASE UNCHANGED leanVars
    BY <1>4 DEF leanVars, LeanRange, LeanTypeOK, Unread, OnePose, LeanBounded, RollIs,
                FusedCentideg
  <1> QED BY <1>1, <1>2, <1>3, <1>4 DEF LeanNext

\* Whatever reports come, the estimate keeps its types (UpdateLeanEstimate).
THEOREM LeanKeepsTypes == LeanSpec => []LeanTypeOK
  <1>1. LeanRange /\ RollIs => LeanTypeOK
    BY DEF LeanRange
  <1> QED BY <1>1, LeanBegins, LeanRangeStep, PTL DEF LeanSpec

-----------------------------------------------------------------------------

\* How near gravity has come to what a pose reads since it is held, from above and from
\* below, and how near, once gravity rests, the fused roll to what gravity says.
Settling(p) ==
    \A i \in 1 .. 3 :
        /\ Fallen(GravityTable, 32, pose.held - 1, gravity[i] - p.accel[i] * 256)
        /\ Fallen(GravityTable, 32, pose.held - 1, p.accel[i] * 256 - gravity[i] - 31)

Following ==
    pose.held >= 641 =>
        /\ Fallen(FusedTable, 128, pose.held - 641, Off(fused, gravity) - 3810)
        /\ Fallen(FusedTable, 128, pose.held - 641, -Off(fused, gravity) - 3810)

\* Gravity as it is left: what the pose reads, or just below.
RestsAt(g, p) ==
    \A i \in 1 .. 3 : p.accel[i] * 256 - 31 <= g[i] /\ g[i] <= p.accel[i] * 256

LeanSettles ==
    /\ jolts <= 1
    /\ \A p \in pose.of : Settling(p)
    /\ pose.of # {} => Following

\* Where the tables end, and where a jolt is after 250 reports.
LEMMA TablesEnd ==
    ASSUME NEW x \in Int, NEW n \in Nat
    PROVE  /\ Fallen(GravityTable, 32, n, x) /\ n >= 640 => x <= 0
           /\ Fallen(FusedTable, 128, n, x) /\ n >= 1280 => x <= 2432
           /\ Fallen(JoltTable, 128, n, x) /\ n >= 250 => x <= 11122
  <1>1. ASSUME Fallen(GravityTable, 32, n, x), n >= 640 PROVE x <= 0
    <2>1. n >= 32 * (20 - 1) + 32 /\ 20 \in 1 .. Len(GravityTable) /\ 32 \in 0 .. 32
      BY <1>1, GravityTableHalves
    <2>2. x <= GravityTable[20] - 32 * Fall(GravityTable, 32, 20)
      BY <1>1, <2>1 DEF Fallen
    <2>3. GravityTable[20] = 32 /\ Fall(GravityTable, 32, 20) = 1
      BY DEF GravityTable, Fall
    <2> QED BY <2>2, <2>3
  <1>2. ASSUME Fallen(FusedTable, 128, n, x), n >= 1280 PROVE x <= 2432
    <2>1. n >= 128 * (10 - 1) + 128 /\ 10 \in 1 .. Len(FusedTable) /\ 128 \in 0 .. 128
      BY <1>2, FusedTableHalves
    <2>2. x <= FusedTable[10] - 128 * Fall(FusedTable, 128, 10)
      BY <1>2, <2>1 DEF Fallen
    <2>3. FusedTable[10] = 4864 /\ Fall(FusedTable, 128, 10) = 19
      BY DEF FusedTable, Fall
    <2> QED BY <2>2, <2>3
  <1>3. ASSUME Fallen(JoltTable, 128, n, x), n >= 250 PROVE x <= 11122
    <2>1. n >= 128 * (2 - 1) + 122 /\ 2 \in 1 .. Len(JoltTable) /\ 122 \in 0 .. 128
      BY <1>3, JoltTableHalves
    <2>2. x <= JoltTable[2] - 122 * Fall(JoltTable, 128, 2)
      BY <1>3, <2>1 DEF Fallen
    <2>3. JoltTable[2] = 21248 /\ Fall(JoltTable, 128, 2) = 83
      BY DEF JoltTable, Fall
    <2> QED BY <2>2, <2>3
  <1> QED BY <1>1, <1>2, <1>3

\* A pose held 641 reports has brought gravity to rest.
LEMMA GravityRests ==
    ASSUME LeanRange, NEW p \in pose.of, Settling(p), pose.held >= 641
    PROVE  gravity \in [1 .. 3 -> Int] /\ RestsAt(gravity, p)
  <1>1. p \in Poses /\ pose.held - 1 \in Nat /\ pose.held - 1 >= 640
    BY DEF LeanRange, LeanTypeOK
  <1>2. gravity \in [1 .. 3 -> Int]
    BY DEF LeanRange, LeanTypeOK, Unread, NoPose
  <1>3. ASSUME NEW i \in 1 .. 3
        PROVE  p.accel[i] * 256 - 31 <= gravity[i] /\ gravity[i] <= p.accel[i] * 256
    <2> DEFINE t == p.accel[i] * 256
               x == gravity[i]
    <2>1. t \in Int /\ x \in Int
      BY <1>1, <1>2, PoseIs
    <2>2. /\ Fallen(GravityTable, 32, pose.held - 1, x - t)
          /\ Fallen(GravityTable, 32, pose.held - 1, t - x - 31)
      BY DEF Settling
    <2> HIDE DEF t, x
    <2>3. x - t <= 0 /\ t - x - 31 <= 0
      BY <1>1, <2>1, <2>2, TablesEnd
    <2>4. t - 31 <= x /\ x <= t
      BY <2>1, <2>3
    <2> QED BY <2>4 DEF t, x
  <1> QED BY <1>2, <1>3 DEF RestsAt

\* One more report of the same pose.
LEMMA SettlesOn ==
    ASSUME LeanRange, NEW p \in pose.of, Settling(p), UpdateLeanEstimate(p.accel, p.gyroZ),
           pose'.held = pose.held + 1
    PROVE  Settling(p)'
  <1>1. p \in Poses /\ pose.held \in Nat /\ pose.held - 1 \in Nat
    BY DEF LeanRange, LeanTypeOK, OnePose
  <1>2. gravity # <<>>
    BY DEF LeanRange, Unread, NoPose
  <1>3. gravity \in [1 .. 3 -> Int] /\ Averaged(p)
    BY <1>1, <1>2, PoseGravity
  <1> SUFFICES ASSUME NEW i \in 1 .. 3
               PROVE  /\ Fallen(GravityTable, 32, pose'.held - 1, gravity'[i] - p.accel[i] * 256)
                      /\ Fallen(GravityTable, 32, pose'.held - 1,
                                p.accel[i] * 256 - gravity'[i] - 31)
    BY DEF Settling
  <1> DEFINE t == p.accel[i] * 256
             x == gravity[i]
             q == (t - x) \div 32
             n == pose.held - 1
  <1>4. t \in Int /\ x \in Int
    BY <1>1, <1>3, PoseIs
  <1>5. q \in Int /\ 32 * q <= t - x /\ t - x < 32 * q + 32
    BY <1>4
  <1>6. gravity'[i] = x + q
    BY <1>3 DEF Averaged
  <1>7. Fallen(GravityTable, 32, n, x - t) /\ Fallen(GravityTable, 32, n, t - x - 31)
    BY DEF Settling
  <1>8. n \in Nat /\ pose'.held - 1 = n + 1
    BY <1>1
  <1> HIDE DEF t, x, q, n
  <1>9. Falls(32, x - t, x + q - t) /\ Falls(32, t - x - 31, t - (x + q) - 31)
    BY <1>4, <1>5, GravityFalls
  <1>10. x - t \in Int /\ t - x - 31 \in Int /\ x + q - t \in Int /\ t - (x + q) - 31 \in Int
    BY <1>4, <1>5
  <1>11. Fallen(GravityTable, 32, n + 1, x + q - t)
    BY <1>7, <1>8, <1>9, <1>10, GravityTableHalves, FallsOn
  <1>12. Fallen(GravityTable, 32, n + 1, t - (x + q) - 31)
    BY <1>7, <1>8, <1>9, <1>10, GravityTableHalves, FallsOn
  <1>13. x + q - t = gravity'[i] - t /\ t - (x + q) - 31 = t - gravity'[i] - 31
    BY <1>4, <1>5, <1>6
  <1> QED BY <1>8, <1>11, <1>12, <1>13 DEF t

\* The first report of a pose, and a jolt in it.
LEMMA SettlingBegins ==
    ASSUME LeanRange', NEW p \in Poses, gravity' # <<>>, pose'.held = 1
    PROVE  Settling(p)'
  <1>1. gravity' \in [1 .. 3 -> Int] /\ InReach(gravity')
    BY DEF LeanRange, LeanTypeOK, LeanBounded
  <1>2. p.accel \in [1 .. 3 -> Int] /\ InReach(Q8(p.accel))
    BY PoseIs
  <1> SUFFICES ASSUME NEW i \in 1 .. 3
               PROVE  /\ Fallen(GravityTable, 32, pose'.held - 1, gravity'[i] - p.accel[i] * 256)
                      /\ Fallen(GravityTable, 32, pose'.held - 1,
                                p.accel[i] * 256 - gravity'[i] - 31)
    BY DEF Settling
  <1> DEFINE t == p.accel[i] * 256
             x == gravity'[i]
  <1>3. t \in Int /\ -8388608 <= t /\ t <= 8388607
    <2>1. Q8(p.accel)[i] = t
      BY DEF Q8
    <2> QED BY <1>2, <2>1 DEF InReach
  <1>4. x \in Int /\ -8388608 <= x /\ x <= 8388607
    BY <1>1 DEF InReach
  <1>5. pose'.held - 1 = 0
    OBVIOUS
  <1> HIDE DEF t, x
  <1>6. x - t \in Int /\ x - t <= 16777216 /\ t - x - 31 \in Int /\ t - x - 31 <= 16777216
    BY <1>3, <1>4
  <1>7. Fallen(GravityTable, 32, 0, x - t) /\ Fallen(GravityTable, 32, 0, t - x - 31)
    BY <1>6, GravityTableHalves, FallBegins
  <1> QED BY <1>5, <1>7 DEF t, x

\* Gravity at rest stays where it is.
LEMMA GravityStays ==
    ASSUME NEW p \in Poses, gravity \in [1 .. 3 -> Int], gravity' \in [1 .. 3 -> Int],
           RestsAt(gravity, p), Averaged(p)
    PROVE  gravity' = gravity
  <1>1. ASSUME NEW i \in 1 .. 3 PROVE gravity'[i] = gravity[i]
    <2>1. p.accel[i] \in Int /\ gravity[i] \in Int
      BY PoseIs
    <2>2. p.accel[i] * 256 - 31 <= gravity[i] /\ gravity[i] <= p.accel[i] * 256
      BY DEF RestsAt
    <2>3. gravity'[i] = gravity[i] + (p.accel[i] * 256 - gravity[i]) \div 32
      BY DEF Averaged
    <2> QED BY <2>1, <2>2, <2>3
  <1> QED BY <1>1

\* The most the fused roll can be, with the jolts it can have had.
FusedWithin(f, j) == -(1201920 + 42260 * j) <= f /\ f <= 1201920 + 42260 * j

LEMMA FusedRange ==
    ASSUME NEW f \in Int, NEW j \in Nat, j <= 1, FusedWithin(f, j)
    PROVE  -1244180 <= f /\ f <= 1244180
  <1>1. CASE j = 0
    BY <1>1 DEF FusedWithin
  <1>2. CASE j = 1
    BY <1>2 DEF FusedWithin
  <1> QED BY <1>1, <1>2

\* The fused roll, in a report of a pose held already.
LEMMA FollowsOn ==
    ASSUME LeanRange, LeanRange', jolts' <= 1, NEW p \in pose.of, Settling(p), Following,
           UpdateLeanEstimate(p.accel, p.gyroZ), Settling(p)', pose'.held = pose.held + 1
    PROVE  Following'
  <1> DEFINE x == Off(fused, gravity)
             y == Off(fused', gravity')
             n == pose.held - 641
  <1>1. p \in Poses /\ pose.held \in Nat
    BY DEF LeanRange, LeanTypeOK
  <1>2. gravity' \in [1 .. 3 -> Int]
    BY <1>1, PoseGravity
  <1>3. /\ AccelRoll(gravity') \in Int /\ -4680 <= AccelRoll(gravity')
        /\ AccelRoll(gravity') <= 4680
    BY <1>2, AccelRollRange
  <1>4. fused \in Int /\ fused' \in Int
    BY DEF LeanRange, LeanTypeOK
  <1>5. y \in Int
    BY <1>3, <1>4 DEF Off
  <1> SUFFICES ASSUME pose'.held >= 641
               PROVE  /\ Fallen(FusedTable, 128, pose'.held - 641, y - 3810)
                      /\ Fallen(FusedTable, 128, pose'.held - 641, -y - 3810)
    BY DEF Following
  <1>6. CASE pose'.held = 641
    <2>1. /\ jolts' \in Nat
          /\ -(1201920 + 42260 * jolts') <= fused' /\ fused' <= 1201920 + 42260 * jolts'
      <3>1. LeanTypeOK' /\ LeanBounded'
        BY DEF LeanRange
      <3>2. jolts' \in Nat
        BY <3>1 DEF LeanTypeOK
      <3>3. -(1201920 + 42260 * jolts') <= fused' /\ fused' <= 1201920 + 42260 * jolts'
        BY <3>1 DEF LeanBounded
      <3> QED BY <3>2, <3>3
    <2>2. -1244180 <= fused' /\ fused' <= 1244180
      <3>1. jolts' \in Nat /\ FusedWithin(fused', jolts')
        BY <2>1 DEF FusedWithin
      <3> QED BY <1>4, <3>1, FusedRange
    <2>3. y - 3810 \in Int /\ y - 3810 <= 2490368 /\ -y - 3810 \in Int /\ -y - 3810 <= 2490368
      BY <1>3, <1>4, <2>2 DEF Off
    <2> HIDE DEF y
    <2>4. Fallen(FusedTable, 128, 0, y - 3810) /\ Fallen(FusedTable, 128, 0, -y - 3810)
      BY <2>3, FusedTableHalves, FallBegins
    <2>5. pose'.held - 641 = 0
      BY <1>6
    <2> QED BY <2>4, <2>5
  <1>7. CASE pose'.held # 641
    <2>1. pose.held >= 641 /\ n \in Nat /\ pose'.held - 641 = n + 1
      BY <1>1, <1>7
    <2>2. gravity \in [1 .. 3 -> Int] /\ RestsAt(gravity, p)
      BY <2>1, GravityRests
    <2>3. Averaged(p)
      <3>1. gravity # <<>>
        BY DEF LeanRange, Unread, NoPose
      <3> QED BY <1>1, <3>1, PoseGravity
    <2>4. gravity' = gravity
      BY <1>1, <1>2, <2>2, <2>3, GravityStays
    <2> DEFINE t == AccelRoll(gravity) * 256
    <2>5. t \in Int /\ x = fused - t /\ y = fused' - t
      BY <1>3, <2>4 DEF Off
    <2>6. PICK c, s : RollStep(29, c, s, t, fused, fused')
      BY <1>1, <2>4, PoseFused DEF FusedBy
    <2>7. Fallen(FusedTable, 128, n, x - 3810) /\ Fallen(FusedTable, 128, n, -x - 3810)
      BY <2>1 DEF Following
    <2> HIDE DEF x, y, n, t
    <2>8. /\ Falls(128, fused - t - 3810, fused' - t - 3810)
          /\ Falls(128, t - fused - 3810, t - fused' - 3810)
      <3>1. 29 \in Nat /\ 3810 \in Nat /\ 3810 = 127 * (29 + 1)
        OBVIOUS
      <3> QED BY <1>4, <2>5, <2>6, <3>1, RollFalls
    <2>9. /\ x - 3810 = fused - t - 3810 /\ y - 3810 = fused' - t - 3810
          /\ -x - 3810 = t - fused - 3810 /\ -y - 3810 = t - fused' - 3810
      BY <1>4, <2>5
    <2>10. /\ x - 3810 \in Int /\ y - 3810 \in Int /\ -x - 3810 \in Int /\ -y - 3810 \in Int
      BY <1>4, <1>5, <2>5
    <2>11. Falls(128, x - 3810, y - 3810) /\ Falls(128, -x - 3810, -y - 3810)
      BY <2>8, <2>9
    <2>12. Fallen(FusedTable, 128, n + 1, y - 3810)
      BY <2>1, <2>7, <2>10, <2>11, FusedTableHalves, FallsOn
    <2>13. Fallen(FusedTable, 128, n + 1, -y - 3810)
      BY <2>1, <2>7, <2>10, <2>11, FusedTableHalves, FallsOn
    <2> QED BY <2>1, <2>12, <2>13
  <1> QED BY <1>6, <1>7


-----------------------------------------------------------------------------

\* A controller held in one pose from the start: gravity is exactly what it reads, the
\* bias on its way to what the gyro reads, and the fused roll as near as that allows,
\* or, after a jolt, on its way there.
Between(b, p) ==
    (0 <= b /\ b <= p.gyroZ * 256) \/ (p.gyroZ * 256 <= b /\ b <= 0)
NearHome(j, x, n) ==
    /\ j = 0 => Near(2032, x)
    /\ Fallen(JoltTable, 128, n, x - 2032)
    /\ Fallen(JoltTable, 128, n, -x - 2032)
AtHome ==
    pose.only => \A p \in pose.of :
        /\ gravity = Q8(p.accel)
        /\ Between(gyroBias, p)
        /\ ~neutral.initialized =>
               neutral.settle < 250 /\ NearHome(jolts, Off(fused, gravity), neutral.settle)

\* What counts as upright, for the pose it was.
HomeRead ==
    \A h \in home :
        /\ neutral.initialized
        /\ AccelRoll(Q8(h.accel)) - 52 <= neutral.centideg
        /\ neutral.centideg <= AccelRoll(Q8(h.accel)) + 51

\* One more report of it.
LEMMA HomeHeld ==
    ASSUME LeanRange, jolts <= 1, AtHome, NEW p \in Poses, Held(p), pose'.only
    PROVE  /\ gravity' = Q8(p.accel) /\ Between(gyroBias', p)
           /\ ~neutral.initialized =>
                  neutral.settle < 250
                  /\ NearHome(jolts', Off(fused', gravity'), neutral.settle + 1)
  <1>1. /\ LeanRange' /\ UpdateLeanEstimate(p.accel, p.gyroZ) /\ pose'.of = {p} /\ jolts' = jolts
        /\ \/ pose.of = {p} /\ pose'.held = pose.held + 1 /\ pose'.only = pose.only
           \/ pose.of # {p} /\ pose.of = {} /\ gravity = <<>>
    BY LeanHeld
  <1> DEFINE g == Q8(p.accel)
             t == AccelRoll(g) * 256
             y == fused' - t
  <1>2. g \in [1 .. 3 -> Int] /\ p.gyroZ \in Int
    BY PoseIs
  <1>3. AccelRoll(g) \in Int
    BY <1>2, AccelRollRange
  <1>4. /\ t \in Int /\ fused' \in Int /\ y \in Int /\ fused \in Int
        /\ gyroBias \in Int /\ gyroBias' \in Int /\ jolts \in Nat
    BY <1>1, <1>3 DEF LeanRange, LeanTypeOK
  <1>5. gravity' = g => Off(fused', gravity') = y
    BY DEF Off
  <1>6. 15 \in Nat /\ 2032 \in Nat /\ 2032 = 127 * (15 + 1)
    OBVIOUS
  <1>7. CASE pose.of = {p} /\ pose.only
    <2>1. gravity = g /\ Between(gyroBias, p)
      BY <1>7 DEF AtHome
    <2>2. RestsAt(gravity, p)
      <3>1. \A i \in 1 .. 3 : gravity[i] = p.accel[i] * 256 /\ gravity[i] \in Int
        BY <1>2, <2>1 DEF Q8
      <3>2. \A i \in 1 .. 3 : gravity[i] - 31 <= gravity[i] /\ gravity[i] <= gravity[i]
        BY <3>1
      <3> QED BY <3>1, <3>2 DEF RestsAt
    <2>3. gravity' = g
      <3>1. Unread /\ pose.of # {}
        BY <1>7 DEF LeanRange
      <3>2. gravity # <<>>
        BY <3>1 DEF Unread, NoPose
      <3>3. gravity' \in [1 .. 3 -> Int] /\ gravity \in [1 .. 3 -> Int] /\ Averaged(p)
        BY <1>1, <3>2, PoseGravity
      <3>4. gravity' = gravity
        BY <2>2, <3>3, GravityStays
      <3> QED BY <2>1, <3>4
    <2>4. Between(gyroBias', p)
      <3>1. \/ gyroBias <= gyroBias' /\ gyroBias' <= p.gyroZ * 256
            \/ p.gyroZ * 256 <= gyroBias' /\ gyroBias' <= gyroBias
            \/ gyroBias' = gyroBias
        BY <1>1, PoseBias
      <3> QED BY <1>2, <1>4, <2>1, <3>1 DEF Between
    <2>5. PICK c, s : RollStep(15, c, s, t, fused, fused')
      <3>1. FusedBy(15)
        BY <1>1, <2>1, PoseFused DEF Between
      <3> QED BY <2>3, <3>1 DEF FusedBy
    <2> DEFINE x == fused - t
    <2>6. x \in Int /\ Off(fused, gravity) = x
      BY <1>4, <2>1 DEF Off
    <2> HIDE DEF t, g
    <2>7. /\ Falls(128, fused - t - 2032, fused' - t - 2032)
          /\ Falls(128, t - fused - 2032, t - fused' - 2032)
          /\ Near(2032, fused - t) => Near(2032, fused' - t)
      BY <1>4, <1>6, <2>5, RollFalls
    <2>8. t - fused - 2032 = -x - 2032 /\ t - fused' - 2032 = -y - 2032
      BY <1>4
    <2> HIDE DEF x, y
    <2>9. /\ Falls(128, x - 2032, y - 2032) /\ Falls(128, -x - 2032, -y - 2032)
          /\ Near(2032, x) => Near(2032, y)
      BY <2>7, <2>8 DEF x, y
    <2>10. ASSUME ~neutral.initialized
           PROVE  neutral.settle < 250 /\ NearHome(jolts', y, neutral.settle + 1)
      <3> DEFINE n == neutral.settle
      <3>1. neutral \in [initialized : BOOLEAN, settle : 0 .. 250, centideg : Int]
        BY DEF LeanRange, LeanTypeOK
      <3>2. n < 250 /\ NearHome(jolts, Off(fused, gravity), n)
        BY <1>7, <2>10 DEF AtHome
      <3>3. n \in Nat /\ n < 250 /\ NearHome(jolts, x, n)
        BY <2>6, <3>1, <3>2
      <3>4. Fallen(JoltTable, 128, n, x - 2032) /\ Fallen(JoltTable, 128, n, -x - 2032)
        BY <3>3 DEF NearHome
      <3>5. x - 2032 \in Int /\ y - 2032 \in Int /\ -x - 2032 \in Int /\ -y - 2032 \in Int
        BY <1>4, <2>6
      <3> HIDE DEF n
      <3>6. Fallen(JoltTable, 128, n + 1, y - 2032)
        BY <2>9, <3>3, <3>4, <3>5, JoltTableHalves, FallsOn
      <3>7. Fallen(JoltTable, 128, n + 1, -y - 2032)
        BY <2>9, <3>3, <3>4, <3>5, JoltTableHalves, FallsOn
      <3>8. jolts' = 0 => Near(2032, y)
        BY <1>1, <2>9, <3>3 DEF NearHome
      <3> QED BY <3>3, <3>6, <3>7, <3>8 DEF NearHome, n
    <2> QED BY <1>5, <2>3, <2>4, <2>10 DEF g
  <1>8. CASE pose.of = {} /\ gravity = <<>>
    <2>1. fused = 0 /\ gyroBias = 0 /\ neutral = NotNeutral /\ jolts = 0
      BY <1>8 DEF LeanRange, Unread
    <2>2. gravity' = g
      BY <1>1, <1>8, PoseGravity
    <2>3. Between(gyroBias, p) /\ Between(gyroBias', p)
      <3>1. 0 <= p.gyroZ * 256 \/ p.gyroZ * 256 <= 0
        BY <1>2
      <3>2. \/ gyroBias <= gyroBias' /\ gyroBias' <= p.gyroZ * 256
            \/ p.gyroZ * 256 <= gyroBias' /\ gyroBias' <= gyroBias
            \/ gyroBias' = gyroBias
        BY <1>1, PoseBias
      <3> QED BY <1>2, <1>4, <2>1, <3>1, <3>2 DEF Between
    <2>4. PICK c : RollStep(15, c, t, t, t, fused')
      <3>1. FusedBy(15)
        BY <1>1, <2>3, PoseFused DEF Between
      <3> QED BY <2>1, <2>2, <3>1 DEF FusedBy
    <2>5. Near(2032, y)
      <3> HIDE DEF g, t
      <3>1. Near(2032, t - t) => Near(2032, fused' - t)
        BY <1>4, <1>6, <2>4, RollFalls
      <3>2. t - t = 0 /\ Near(2032, 0)
        BY <1>4 DEF Near
      <3>3. Near(2032, fused' - t)
        BY <3>1, <3>2
      <3> QED BY <3>3
    <2>6. neutral.settle = 0
      BY <2>1 DEF NotNeutral
    <2> HIDE DEF y
    <2>7. y - 2032 \in Int /\ y - 2032 <= 0 /\ -y - 2032 \in Int /\ -y - 2032 <= 0
      BY <1>4, <2>5 DEF Near
    <2>8. \A n : Fallen(JoltTable, 128, n, y - 2032) /\ Fallen(JoltTable, 128, n, -y - 2032)
      BY <2>7, JoltTableHalves, FallHolds
    <2>9. NearHome(jolts', y, neutral.settle + 1)
      BY <2>5, <2>8 DEF NearHome
    <2> QED BY <1>5, <2>2, <2>3, <2>6, <2>9
  <1> QED BY <1>1, <1>7, <1>8

\* Gravity, and with it the fused roll, comes to where the pose has it, whatever came before.
LEMMA LeanSettlesStep ==
    ASSUME MaxJolts <= 1, LeanRange, LeanSettles, [LeanNext]_leanVars
    PROVE  LeanSettles'
  <1>1. /\ jolts \in Nat /\ MaxJolts \in Nat /\ jolts <= 1
        /\ pose \in [of : SUBSET Poses, held : Nat, only : BOOLEAN]
    BY LeanAssumption DEF LeanRange, LeanTypeOK, LeanSettles
  <1>2. ASSUME NEW p \in Poses, Held(p) PROVE LeanSettles'
    <2>1. /\ LeanRange' /\ UpdateLeanEstimate(p.accel, p.gyroZ)
          /\ pose'.of = {p} /\ jolts' = jolts
          /\ \/ pose.of = {p} /\ pose'.held = pose.held + 1
             \/ pose'.held = 1
      BY <1>2, LeanHeld
    <2>2. gravity' # <<>>
      BY <2>1, PoseGravity
    <2>3. CASE pose.of = {p} /\ pose'.held = pose.held + 1
      <3>1. p \in pose.of /\ Settling(p) /\ Following
        BY <2>3 DEF LeanSettles
      <3>2. Settling(p)'
        BY <2>1, <2>3, <3>1, SettlesOn
      <3>3. Following'
        BY <1>1, <2>1, <2>3, <3>1, <3>2, FollowsOn
      <3> QED BY <1>1, <2>1, <3>2, <3>3 DEF LeanSettles
    <2>4. CASE pose'.held = 1
      <3>1. Settling(p)'
        BY <2>1, <2>2, <2>4, SettlingBegins
      <3>2. Following'
        BY <2>4 DEF Following
      <3> QED BY <1>1, <2>1, <3>1, <3>2 DEF LeanSettles
    <2> QED BY <2>1, <2>3, <2>4
  <1>3. ASSUME NEW j \in Jolts, Jolted(j) PROVE LeanSettles'
    <2>1. /\ LeanRange' /\ UpdateLeanEstimate(j.accel, j.gyroZ)
          /\ jolts < MaxJolts /\ jolts' = jolts + 1 /\ pose'.of = pose.of
          /\ pose.of # {} => pose'.held = 1
      BY <1>3, LeanJolted
    <2>2. gravity' # <<>>
      BY <2>1, JoltReport
    <2>3. ASSUME NEW p \in pose.of PROVE Settling(p)'
      BY <1>1, <2>1, <2>2, <2>3, SettlingBegins
    <2>4. pose.of # {} => Following'
      BY <2>1 DEF Following
    <2>5. jolts' <= 1
      BY <1>1, <2>1
    <2> QED BY <2>1, <2>3, <2>4, <2>5 DEF LeanSettles
  <1>4. ASSUME ClearLean PROVE LeanSettles'
    BY <1>4 DEF ClearLean, LeanSettles, NoPose
  <1>5. CASE UNCHANGED leanVars
    BY <1>5 DEF leanVars, LeanSettles, Settling, Following, Off
  <1> QED BY <1>2, <1>3, <1>4, <1>5 DEF LeanNext

\* A pose that starts to count as upright is read from a fused roll that has come near.
LEMMA HomeBegins ==
    ASSUME NEW f \in Int, NEW r \in Int, -4680 <= r, r <= 4680,
           NEW j, NEW n \in Nat, n >= 250, NearHome(j, f - r * 256, n), -1244180 <= f, f <= 1244180
    PROVE  r - 52 <= FusedCentideg(f) /\ FusedCentideg(f) <= r + 51
  <1> DEFINE x == f - r * 256
  <1>1. x - 2032 \in Int /\ -x - 2032 \in Int /\ x \in Int
    OBVIOUS
  <1>2. Fallen(JoltTable, 128, n, x - 2032) /\ Fallen(JoltTable, 128, n, -x - 2032)
    BY DEF NearHome
  <1> HIDE DEF x
  <1>3. x - 2032 <= 11122 /\ -x - 2032 <= 11122
    BY <1>1, <1>2, TablesEnd
  <1>4. -13154 <= x /\ x <= 13154 /\ f = x + r * 256
    BY <1>1, <1>3 DEF x
  <1> DEFINE q == f \div 256
  <1>5. q \in Int /\ r - 52 <= q /\ q <= r + 51 /\ -9000 <= q /\ q <= 9000
    BY <1>1, <1>4
  <1>6. FusedCentideg(f) = ClampCentideg90(q)
    BY DEF FusedCentideg
  <1> HIDE DEF q
  <1>7. ClampCentideg90(q) = q
    BY <1>5 DEF ClampCentideg90, Clamp
  <1> QED BY <1>5, <1>6, <1>7

\* A report of a pose keeps what is known of the one held from the start.
LEMMA HomeHeldStep ==
    ASSUME LeanRange, jolts <= 1, AtHome, HomeRead, NEW p \in Poses, Held(p)
    PROVE  AtHome' /\ HomeRead'
  <1>1. /\ LeanRange' /\ UpdateLeanEstimate(p.accel, p.gyroZ)
        /\ pose'.of = {p} /\ jolts' = jolts
    BY LeanHeld
  <1>2. /\ neutral \in [initialized : BOOLEAN, settle : 0 .. 250, centideg : Int]
        /\ neutral' \in [initialized : BOOLEAN, settle : 0 .. 250, centideg : Int]
    BY <1>1 DEF LeanRange, LeanTypeOK
  <1>3. /\ neutral.initialized => neutral' = neutral
        /\ ~neutral.initialized =>
               \/ neutral' = [neutral EXCEPT !.settle = neutral.settle + 1]
                  /\ neutral.settle + 1 < 250
               \/ neutral.settle + 1 >= 250
                  /\ neutral' = [initialized |-> TRUE, settle |-> 250,
                                 centideg |-> FusedCentideg(fused')]
    BY <1>1, PoseNeutral
  <1>4. pose'.only =>
            /\ gravity' = Q8(p.accel) /\ Between(gyroBias', p)
            /\ ~neutral.initialized =>
                   neutral.settle < 250
                   /\ NearHome(jolts', Off(fused', gravity'), neutral.settle + 1)
    BY HomeHeld
  <1>5. AtHome'
    <2> SUFFICES ASSUME pose'.only
                 PROVE  /\ gravity' = Q8(p.accel)
                        /\ Between(gyroBias', p)
                        /\ ~neutral'.initialized =>
                               neutral'.settle < 250
                               /\ NearHome(jolts', Off(fused', gravity'), neutral'.settle)
      BY <1>1 DEF AtHome, Between, NearHome
    <2>1. ASSUME ~neutral'.initialized
          PROVE  neutral'.settle < 250
                 /\ NearHome(jolts', Off(fused', gravity'), neutral'.settle)
      <3>1. ~neutral.initialized /\ neutral' = [neutral EXCEPT !.settle = neutral.settle + 1]
            /\ neutral.settle + 1 < 250
        BY <1>3, <2>1
      <3>2. neutral'.settle = neutral.settle + 1
        BY <1>2, <3>1
      <3> QED BY <1>4, <3>1, <3>2
    <2> QED BY <1>4, <2>1
  <1>6. HomeRead'
    <2> SUFFICES ASSUME NEW h \in home'
                 PROVE  /\ neutral'.initialized
                        /\ AccelRoll(Q8(h.accel)) - 52 <= neutral'.centideg
                        /\ neutral'.centideg <= AccelRoll(Q8(h.accel)) + 51
      BY DEF HomeRead
    <2>1. home' = IF neutral'.initialized /\ ~neutral.initialized /\ pose'.only THEN {p} ELSE home
      BY DEF Held
    <2>2. CASE neutral'.initialized /\ ~neutral.initialized /\ pose'.only
      <3> DEFINE r == AccelRoll(Q8(p.accel))
                 n == neutral.settle + 1
      <3>1. h = p
        BY <2>1, <2>2
      <3>2. ~(neutral' = [neutral EXCEPT !.settle = neutral.settle + 1])
        BY <1>2, <2>2
      <3>3. neutral.settle + 1 >= 250 /\ neutral'.centideg = FusedCentideg(fused')
        BY <1>3, <2>2, <3>2
      <3>4. NearHome(jolts', fused' - r * 256, n)
        BY <1>4, <2>2 DEF Off
      <3>5. r \in Int /\ -4680 <= r /\ r <= 4680
        BY PoseIs, AccelRollRange
      <3>6. fused' \in Int /\ -1244180 <= fused' /\ fused' <= 1244180
        <4>1. LeanTypeOK' /\ LeanBounded' /\ jolts' <= 1
          BY <1>1 DEF LeanRange
        <4>2. fused' \in Int /\ jolts' \in Nat
          BY <4>1 DEF LeanTypeOK
        <4>3. FusedWithin(fused', jolts')
          BY <4>1 DEF LeanBounded, FusedWithin
        <4> QED BY <4>1, <4>2, <4>3, FusedRange
      <3>7. n \in Nat /\ n >= 250
        BY <1>2, <3>3
      <3> HIDE DEF r, n
      <3>8. r - 52 <= FusedCentideg(fused') /\ FusedCentideg(fused') <= r + 51
        BY <3>4, <3>5, <3>6, <3>7, HomeBegins
      <3> QED BY <2>2, <3>1, <3>3, <3>8 DEF r
    <2>3. CASE ~(neutral'.initialized /\ ~neutral.initialized /\ pose'.only)
      <3>1. h \in home
        BY <2>1, <2>3
      <3> QED BY <1>3, <3>1 DEF HomeRead
    <2> QED BY <2>2, <2>3
  <1> QED BY <1>5, <1>6

\* And so does a jolt: it moves the fused roll and starts the count to upright again.
LEMMA HomeJoltedStep ==
    ASSUME MaxJolts <= 1, LeanRange, AtHome, HomeRead, NEW j \in Jolts, Jolted(j)
    PROVE  AtHome' /\ HomeRead'
  <1>1. /\ UpdateLeanEstimate(j.accel, j.gyroZ)
        /\ jolts < MaxJolts /\ jolts' = jolts + 1
        /\ pose'.of = pose.of /\ pose'.only = pose.only /\ home' = home
    BY LeanJolted
  <1>2. /\ gravity # <<>> => gravity' = gravity
        /\ gyroBias' = gyroBias
        /\ fused' \in Int /\ fused - 42260 <= fused' /\ fused' <= fused + 42260
        /\ neutral.initialized => neutral' = neutral
        /\ ~neutral.initialized => neutral' = [neutral EXCEPT !.settle = 0]
    BY <1>1, JoltReport
  <1>3. /\ neutral \in [initialized : BOOLEAN, settle : 0 .. 250, centideg : Int]
        /\ jolts \in Nat /\ MaxJolts \in Nat /\ fused \in Int
        /\ pose \in [of : SUBSET Poses, held : Nat, only : BOOLEAN]
    BY LeanAssumption DEF LeanRange, LeanTypeOK
  <1>4. jolts = 0 /\ jolts' = 1
    BY <1>1, <1>3
  <1>5. HomeRead'
    BY <1>1, <1>2 DEF HomeRead
  <1>6. AtHome'
    <2> SUFFICES ASSUME pose'.only, NEW p \in pose'.of
                 PROVE  /\ gravity' = Q8(p.accel)
                        /\ Between(gyroBias', p)
                        /\ ~neutral'.initialized =>
                               neutral'.settle < 250
                               /\ NearHome(jolts', Off(fused', gravity'), neutral'.settle)
      BY DEF AtHome, Between, NearHome
    <2>1. p \in Poses /\ pose.of # {}
      BY <1>1, <1>3
    <2>2. /\ gravity = Q8(p.accel) /\ Between(gyroBias, p)
          /\ ~neutral.initialized => NearHome(jolts, Off(fused, gravity), neutral.settle)
      BY <1>1 DEF AtHome
    <2>3. gravity # <<>>
      BY <2>1 DEF LeanRange, Unread, NoPose
    <2>4. gravity' = gravity /\ Between(gyroBias', p)
      BY <1>2, <2>2, <2>3 DEF Between
    <2>5. ASSUME ~neutral'.initialized
          PROVE  neutral'.settle < 250
                 /\ NearHome(jolts', Off(fused', gravity'), neutral'.settle)
      <3> DEFINE x == Off(fused, gravity)
                 y == Off(fused', gravity')
      <3>1. ~neutral.initialized /\ neutral'.settle = 0
        BY <1>2, <1>3, <2>5
      <3>2. Near(2032, x)
        BY <1>4, <2>2, <3>1 DEF NearHome
      <3>3. AccelRoll(gravity) \in Int
        BY <2>1, <2>2, PoseIs, AccelRollRange
      <3>4. x \in Int /\ y \in Int /\ x - 42260 <= y /\ y <= x + 42260
        BY <1>2, <1>3, <2>4, <3>3 DEF Off
      <3> HIDE DEF x, y
      <3>5. y - 2032 \in Int /\ y - 2032 <= 42496 /\ -y - 2032 \in Int /\ -y - 2032 <= 42496
        BY <3>2, <3>4 DEF Near
      <3>6. Fallen(JoltTable, 128, 0, y - 2032) /\ Fallen(JoltTable, 128, 0, -y - 2032)
        BY <3>5, JoltTableHalves, FallBegins
      <3>7. NearHome(1, y, 0)
        BY <3>6 DEF NearHome
      <3> QED BY <1>4, <3>1, <3>7 DEF y
    <2> QED BY <2>2, <2>4, <2>5
  <1> QED BY <1>5, <1>6

\* All that is known of an estimate whose controller was jolted once at most.
LeanInv == LeanRange /\ RollIs /\ LeanSettles /\ AtHome /\ HomeRead

LEMMA LeanInvBegins == LeanInit => LeanInv
  <1> SUFFICES ASSUME LeanInit PROVE LeanInv
    OBVIOUS
  <1>1. LeanRange /\ RollIs
    BY LeanBegins
  <1>2. LeanSettles /\ AtHome /\ HomeRead
    BY DEF LeanInit, LeanSettles, AtHome, HomeRead, NoPose
  <1> QED BY <1>1, <1>2 DEF LeanInv

LEMMA LeanInvStep ==
    ASSUME MaxJolts <= 1
    PROVE  LeanInv /\ [LeanNext]_leanVars => LeanInv'
  <1> SUFFICES ASSUME LeanInv, [LeanNext]_leanVars PROVE LeanInv'
    OBVIOUS
  <1>1. LeanRange /\ RollIs /\ LeanSettles /\ AtHome /\ HomeRead
    BY DEF LeanInv
  <1>2. (LeanRange /\ RollIs)'
    BY <1>1, LeanRangeStep
  <1>3. LeanSettles'
    BY <1>1, LeanSettlesStep
  <1>4. AtHome' /\ HomeRead'
    <2>1. ASSUME NEW p \in Poses, Held(p) PROVE AtHome' /\ HomeRead'
      BY <1>1, <2>1, HomeHeldStep DEF LeanSettles
    <2>2. ASSUME NEW j \in Jolts, Jolted(j) PROVE AtHome' /\ HomeRead'
      BY <1>1, <2>2, HomeJoltedStep
    <2>3. ASSUME ClearLean PROVE AtHome' /\ HomeRead'
      BY <2>3 DEF ClearLean, AtHome, HomeRead, NoPose
    <2>4. CASE UNCHANGED leanVars
      BY <1>1, <2>4 DEF leanVars, AtHome, HomeRead, Between, NearHome, Off
    <2> QED BY <2>1, <2>2, <2>3, <2>4 DEF LeanNext
  <1> QED BY <1>2, <1>3, <1>4 DEF LeanInv

-----------------------------------------------------------------------------

\* A pose held long enough is reported as how far the accelerometer says the one that
\* counts as upright is from it, to three quarters of a degree.
FollowsThePose ==
    pose.held >= 1921 => \A p \in pose.of, h \in home :
        /\ RestsAt(gravity, p)
        /\ Abs32(roll - ClampCentideg90(AccelRoll(Q8(h.accel)) - AccelRoll(gravity))) <= 76

\* A limit brings two values no further apart.
LEMMA ClampBringsNearer ==
    ASSUME NEW a \in Int, NEW b \in Int, NEW e \in Nat, Abs32(a - b) <= e
    PROVE  /\ ClampCentideg90(a) \in Int /\ ClampCentideg90(b) \in Int
           /\ Abs32(ClampCentideg90(a) - ClampCentideg90(b)) <= e
  BY DEF ClampCentideg90, Clamp, Abs32

LEMMA LeanInvFollows == LeanInv => FollowsThePose
  <1> SUFFICES ASSUME LeanInv, pose.held >= 1921, NEW p \in pose.of, NEW h \in home
               PROVE  /\ RestsAt(gravity, p)
                      /\ Abs32(roll - ClampCentideg90(AccelRoll(Q8(h.accel))
                                                      - AccelRoll(gravity))) <= 76
    BY DEF FollowsThePose
  <1>1. LeanRange /\ RollIs /\ LeanSettles /\ HomeRead /\ jolts <= 1
    BY DEF LeanInv, LeanSettles
  <1>2. /\ pose.held \in Nat /\ jolts \in Nat /\ fused \in Int /\ h \in Poses
        /\ neutral \in [initialized : BOOLEAN, settle : 0 .. 250, centideg : Int]
        /\ FusedWithin(fused, jolts)
    BY <1>1 DEF LeanRange, LeanTypeOK, LeanBounded, FusedWithin
  <1>3. Settling(p) /\ Following
    BY <1>1 DEF LeanSettles
  <1>4. gravity \in [1 .. 3 -> Int] /\ RestsAt(gravity, p)
    BY <1>1, <1>2, <1>3, GravityRests
  <1> DEFINE r == AccelRoll(gravity)
             s == AccelRoll(Q8(h.accel))
             x == Off(fused, gravity)
             n == pose.held - 641
             q == fused \div 256
  <1>5. /\ r \in Int /\ -4680 <= r /\ r <= 4680 /\ s \in Int /\ -4680 <= s /\ s <= 4680
    BY <1>2, <1>4, PoseIs, AccelRollRange
  <1>6. /\ neutral.initialized /\ neutral.centideg \in Int
        /\ s - 52 <= neutral.centideg /\ neutral.centideg <= s + 51
    BY <1>1, <1>2 DEF HomeRead
  <1>7. x = fused - r * 256 /\ x \in Int
    BY <1>2, <1>5 DEF Off
  <1>8. n \in Nat /\ n >= 1280
    BY <1>2
  <1>9. Fallen(FusedTable, 128, n, x - 3810) /\ Fallen(FusedTable, 128, n, -x - 3810)
    BY <1>2, <1>3 DEF Following
  <1>10. -1244180 <= fused /\ fused <= 1244180
    BY <1>1, <1>2, FusedRange
  <1>11. roll = ClampCentideg90(neutral.centideg - ClampCentideg90(q))
    BY <1>1, <1>6 DEF RollIs, FusedCentideg
  <1> HIDE DEF r, s, x, n
  <1>12. x - 3810 \in Int /\ -x - 3810 \in Int
    BY <1>7
  <1>13. x - 3810 <= 2432 /\ -x - 3810 <= 2432
    BY <1>8, <1>9, <1>12, TablesEnd
  <1>14. q \in Int /\ r - 25 <= q /\ q <= r + 24 /\ -9000 <= q /\ q <= 9000
    BY <1>2, <1>5, <1>7, <1>10, <1>13
  <1> HIDE DEF q
  <1>15. ClampCentideg90(q) = q
    BY <1>14 DEF ClampCentideg90, Clamp
  <1>16. neutral.centideg - q \in Int /\ s - r \in Int
         /\ Abs32(neutral.centideg - q - (s - r)) <= 76
    BY <1>5, <1>6, <1>14 DEF Abs32
  <1>17. Abs32(roll - ClampCentideg90(s - r)) <= 76
    BY <1>11, <1>15, <1>16, ClampBringsNearer
  <1> QED BY <1>4, <1>17 DEF r, s

\* Whatever poses it is held in, and wherever a jolt comes, a controller held 1921
\* reports (just under two seconds at 1000 a second) is reported as its accelerometer
\* has it, to three quarters of a degree: gravity rests, and the fused roll is near it.
THEOREM LeanFollows ==
    ASSUME MaxJolts <= 1
    PROVE  LeanSpec => []FollowsThePose
  BY LeanInvBegins, LeanInvStep, LeanInvFollows, PTL DEF LeanSpec

-----------------------------------------------------------------------------

\* Poses whose rolls the approximations tell apart to three quarters of a degree,
\* wherever gravity comes to rest below what they read.
Readable ==
    \A h, p \in Poses, g \in [1 .. 3 -> Int] : RestsAt(g, p) =>
        Abs32(AccelRoll(Q8(h.accel)) - AccelRoll(g)
              - Quot((h.roll - p.roll) * LEAN_ROLL_SCALE_PERCENT, 100)) <= 74

\* Then the lean is the true one, scaled, to a degree and a half, whatever the filters
\* round away and whatever a jolt left behind (UpdateLeanEstimate).
THEOREM LeanReadsTrue ==
    ASSUME MaxJolts <= 1, Hold >= 1921, Readable
    PROVE  LeanSpec => []LeanReadsThePose
  <1>1. LeanInv => LeanReadsThePose
    <2> SUFFICES ASSUME LeanInv, pose.held = Hold, NEW p \in pose.of, NEW h \in home
                 PROVE  Abs32(roll - Scaled(h.roll - p.roll)) <= 150
      BY DEF LeanReadsThePose
    <2> DEFINE c == AccelRoll(Q8(h.accel)) - AccelRoll(gravity)
               d == Quot((h.roll - p.roll) * LEAN_ROLL_SCALE_PERCENT, 100)
    <2>1. RestsAt(gravity, p) /\ Abs32(roll - ClampCentideg90(c)) <= 76
      BY LeanInvFollows DEF FollowsThePose
    <2>2. LeanRange /\ p \in Poses /\ h \in Poses /\ roll \in Int
      BY DEF LeanInv, LeanRange, LeanTypeOK
    <2>3. gravity \in [1 .. 3 -> Int]
      BY <2>2 DEF LeanRange, LeanTypeOK, Unread, NoPose
    <2>4. c \in Int
      BY <2>2, <2>3, PoseIs, AccelRollRange
    <2>5. d \in Int
      BY <2>2, PoseIs DEF Quot, LEAN_ROLL_SCALE_PERCENT
    <2>6. Abs32(c - d) <= 74
      BY <2>1, <2>2, <2>3 DEF Readable
    <2>7. Scaled(h.roll - p.roll) = ClampCentideg90(d)
      BY DEF Scaled
    <2> HIDE DEF c, d
    <2>8. /\ ClampCentideg90(c) \in Int /\ ClampCentideg90(d) \in Int
          /\ Abs32(ClampCentideg90(c) - ClampCentideg90(d)) <= 74
      BY <2>4, <2>5, <2>6, ClampBringsNearer
    <2> QED BY <2>1, <2>2, <2>7, <2>8 DEF Abs32
  <1> QED BY <1>1, LeanInvBegins, LeanInvStep, PTL DEF LeanSpec
=============================================================================
