---------------------------- MODULE LeanEstimate -----------------------------
(***************************************************************************)
(* How far the controller leans to the side, for the status report         *)
(* (UpdateLeanEstimate in src/host_reader.cc).  The accelerometer, where   *)
(* it reads about 1 g, is averaged to where down is; the roll that makes   *)
(* slowly corrects one integrated from the gyro; the roll at which the     *)
(* controller was held first counts as upright.  Rolls are centidegrees    *)
(* and scaled to LEAN_ROLL_SCALE_PERCENT of what was measured.             *)
(*                                                                         *)
(* External: the poses it is held in, each for as long as it takes, and    *)
(* jolts between.  Bounds: a pose is held one report, until it counts as   *)
(* upright, or Hold; MaxPoses poses and MaxJolts jolts a connection.       *)
(***************************************************************************)
EXTENDS CArithmetic

CONSTANTS
    Poses,       \* accel and gyro_z of a controller held still, and its true roll
    Jolts,       \* accel and gyro_z of one that is not
    Hold, MaxPoses, MaxJolts

LEAN_ACCEL_1G_RAW == 8192
LEAN_ACCEL_1G_TOLERANCE_PERCENT == 35
LEAN_ROLL_SCALE_PERCENT == 52
LEAN_GYRO_ROLL_CENTIDEG_Q16_PER_REPORT == 330
LEAN_GYRO_STILL_THRESHOLD_RAW == 12
LEAN_NEUTRAL_SETTLE_REPORTS == 250
MaxDrift == 11      \* the bound of what a gyro reads at rest

VARIABLES
    gravity,      \* lean_gravity_*_q8, or nothing before the first report
    fused,        \* lean_fused_roll_q8
    gyroBias,     \* lean_gyro_z_bias_q8
    neutral,      \* lean_neutral_*
    roll,         \* lean_roll_centideg
    pose,         \* history: the pose it is held in, none at first, for how long
    home,         \* history: the pose it was held in until it counted as upright
    poses, jolts  \* history: how many there were

leanVars == <<gravity, fused, gyroBias, neutral, roll, pose, home, poses, jolts>>

NoPose == [of |-> {}, held |-> 0, only |-> TRUE]
NotNeutral == [initialized |-> FALSE, settle |-> 0, centideg |-> 0]

-----------------------------------------------------------------------------
(* Angles *)

ClampCentideg90(n) == Clamp(n, 9000)

Smaller(a, b) == IF a < b THEN a ELSE b
Larger32(a, b) == IF a > b THEN a ELSE b

\* A bug: the smaller leg is left out.
ApproxHypot32Max(a, b) == Larger32(Abs32(a), Abs32(b))

ApproxHypot32(a, b) ==
    Larger32(Abs32(a), Abs32(b)) + (3 * Smaller(Abs32(a), Abs32(b))) \div 8

\* The arc tangent of a ratio from 0 to 1.
ApproxAtanRatioCentideg(numerator, denominator) ==
    LET one == 32768
        ratio == Smaller((numerator * one) \div denominator, one)
        slope == 4500 + (1564 * (one - ratio)) \div one
    IN  (ratio * slope + one \div 2) \div one

ApproxAtan2Centideg(numerator, denominator) ==
    LET n == Abs32(numerator)
        d == Abs32(denominator)
        angle == IF n <= d THEN ApproxAtanRatioCentideg(n, d)
                 ELSE 9000 - ApproxAtanRatioCentideg(d, n)
    IN  IF n = 0 THEN 0
        ELSE IF d = 0 THEN (IF numerator < 0 THEN -9000 ELSE 9000)
        ELSE ClampCentideg90(IF numerator < 0 THEN -angle ELSE angle)

-----------------------------------------------------------------------------
(* One report *)

\* Whether the accelerometer reads within the tolerance of 1 g.
LooksLikeGravity(accel) ==
    LET a == [i \in 1 .. 3 |-> accel[i] \div 4]
        g == LEAN_ACCEL_1G_RAW \div 4
        least == (g * (100 - LEAN_ACCEL_1G_TOLERANCE_PERCENT)) \div 100
        most == (g * (100 + LEAN_ACCEL_1G_TOLERANCE_PERCENT)) \div 100
        magnitude == a[1] * a[1] + a[2] * a[2] + a[3] * a[3]
    IN  magnitude >= least * least /\ magnitude <= most * most

\* In a pose the accelerometer reads 1 g and the gyro next to nothing; in a jolt it does
\* not read 1 g.
ASSUME LeanAssumption ==
    /\ Poses \subseteq [accel : [1 .. 3 -> Int16], gyroZ : -MaxDrift .. MaxDrift, roll : Int]
    /\ Jolts \subseteq [accel : [1 .. 3 -> Int16], gyroZ : Int16]
    /\ \A p \in Poses : LooksLikeGravity(p.accel)
    /\ \A j \in Jolts : ~LooksLikeGravity(j.accel)
    /\ {Hold, MaxPoses, MaxJolts} \subseteq Nat

Gravity(accel) ==
    IF gravity = <<>> THEN [i \in 1 .. 3 |-> accel[i] * 256]
    ELSE IF LooksLikeGravity(accel)
    THEN [i \in 1 .. 3 |-> gravity[i] + (accel[i] * 256 - gravity[i]) \div 32]
    ELSE gravity

AccelRoll(g) ==
    LET level == ApproxHypot32(g[2] \div 256, g[3] \div 256)
    IN  ClampCentideg90(Quot(ApproxAtan2Centideg(g[1] \div 256, level)
                             * LEAN_ROLL_SCALE_PERCENT, 100))

\* A fused roll of 0 counts as one that was never set.
Seeded(accelRoll, accel) ==
    IF fused = 0 /\ LooksLikeGravity(accel) THEN accelRoll * 256 ELSE fused

CorrectedGyroZ(gyroZ) == gyroZ - gyroBias \div 256

LeanBias(accel, gyroZ) ==
    IF LooksLikeGravity(accel) /\ Abs32(CorrectedGyroZ(gyroZ)) < LEAN_GYRO_STILL_THRESHOLD_RAW
    THEN gyroBias + Quot(gyroZ * 256 - gyroBias, 400) ELSE gyroBias

Fused(accelRoll, accel, gyroZ) ==
    LET turned == Seeded(accelRoll, accel) +
                  (CorrectedGyroZ(gyroZ) * LEAN_GYRO_ROLL_CENTIDEG_Q16_PER_REPORT) \div 256
    IN  IF LooksLikeGravity(accel) THEN turned + (accelRoll * 256 - turned) \div 128 ELSE turned

FusedCentideg(f) == ClampCentideg90(f \div 256)

Neutral(accel, centideg) ==
    LET settle == Smaller(neutral.settle + 1, LEAN_NEUTRAL_SETTLE_REPORTS)
    IN  IF neutral.initialized THEN neutral
        ELSE IF ~LooksLikeGravity(accel) THEN [neutral EXCEPT !.settle = 0]
        ELSE IF settle < LEAN_NEUTRAL_SETTLE_REPORTS THEN [neutral EXCEPT !.settle = settle]
        ELSE [initialized |-> TRUE, settle |-> settle, centideg |-> centideg]

UpdateLeanEstimate(accel, gyroZ) ==
    LET g == Gravity(accel)
        f == Fused(AccelRoll(g), accel, gyroZ)
        n == Neutral(accel, FusedCentideg(f))
    IN  /\ gravity' = g
        /\ fused' = f
        /\ gyroBias' = LeanBias(accel, gyroZ)
        /\ neutral' = n
        /\ roll' = IF n.initialized THEN ClampCentideg90(n.centideg - FusedCentideg(f)) ELSE 0

-----------------------------------------------------------------------------
(* Actions *)

\* The bound: another pose, or a jolt, comes after the first report of a pose, once
\* it counts as upright, or after Hold of them.
MayMove == pose.held \in {0, 1, LEAN_NEUTRAL_SETTLE_REPORTS, Hold}

\* A report of a controller held still.
Held(p) ==
    /\ UpdateLeanEstimate(p.accel, p.gyroZ)
    /\ \/ pose.of = {p} /\ pose.held < Hold
          /\ pose' = [pose EXCEPT !.held = @ + 1] /\ UNCHANGED poses
       \/ pose.of # {p} /\ MayMove /\ poses < MaxPoses
          /\ poses' = poses + 1
          /\ pose' = [of |-> {p}, held |-> 1, only |-> pose.of = {} /\ gravity = <<>>]
    /\ home' = IF neutral'.initialized /\ ~neutral.initialized /\ pose'.only THEN {p} ELSE home
    /\ UNCHANGED jolts

\* A report of one that is thrown about.
Jolted(j) ==
    /\ MayMove /\ jolts < MaxJolts
    /\ UpdateLeanEstimate(j.accel, j.gyroZ)
    /\ pose' = [pose EXCEPT !.held = IF pose.of = {} THEN 0 ELSE 1]
    /\ jolts' = jolts + 1
    /\ UNCHANGED <<home, poses>>

\* ClearHidState.
ClearLean ==
    /\ gravity' = <<>> /\ fused' = 0 /\ gyroBias' = 0
    /\ neutral' = NotNeutral /\ roll' = 0
    /\ pose' = NoPose /\ home' = {} /\ poses' = 0 /\ jolts' = 0

LeanInit ==
    /\ gravity = <<>> /\ fused = 0 /\ gyroBias = 0
    /\ neutral = NotNeutral /\ roll = 0
    /\ pose = NoPose /\ home = {} /\ poses = 0 /\ jolts = 0

LeanNext ==
    \/ \E p \in Poses : Held(p)
    \/ \E j \in Jolts : Jolted(j)
    \/ ClearLean

LeanSpec == LeanInit /\ [][LeanNext]_leanVars

-----------------------------------------------------------------------------
(* Properties *)

\* What a true roll is reported as: a part of it, 90 degrees at most.
Scaled(trueRoll) == ClampCentideg90(Quot(trueRoll * LEAN_ROLL_SCALE_PERCENT, 100))

\* Once a controller was held in one pose from the start until it counted as
\* upright, a pose held long enough reads as the difference of their true rolls,
\* scaled, to a degree and a half: however it was thrown about between, whatever
\* the approximations and the roundings of the filters add up to.
LeanReadsThePose ==
    pose.held = Hold => \A p \in pose.of, h \in home :
        Abs32(roll - Scaled(h.roll - p.roll)) <= 150
=============================================================================
