---------------------------- MODULE StickButtons -----------------------------
(***************************************************************************)
(* How the keyboard profile reads a stick as buttons                       *)
(* (ParseLeftStickButtons and ParseRightStickButtons in                    *)
(* src/host_reader.cc): the left one gives one or two of four directions   *)
(* and a ring, the right one of eight directions when it is pushed far     *)
(* enough.  Both compare products of small integers where geometry has     *)
(* square roots and tangents.                                              *)
(*                                                                         *)
(* External: the stick, which passes through every position on its way to  *)
(* another.  Both sticks are read at the same position.                    *)
(***************************************************************************)
EXTENDS CArithmetic

VARIABLES stick     \* the position, as a report has it: 0 .. 255 both ways

Reach == 0 .. 255
RSTICK_NUMPAD_THRESHOLD == 100
kRawThresh == 26 + (RSTICK_NUMPAD_THRESHOLD * 101) \div 127

-----------------------------------------------------------------------------

\* A position seen from the middle; y grows southwards.
FromCentre(raw) == [x |-> raw.x - 128, y |-> raw.y - 128]

R2(s) == s.x * s.x + s.y * s.y

Ring(s) == IF R2(s) < 10362 THEN {"kInnerRing"} ELSE {"kOuterRing"}

\* At most 67.5 degrees from the axis: tan is almost 5/2.
Towards(major, minor) == major > 0 /\ Abs32(minor) * 2 <= major * 5

\* A bug: a diagonal is one of its two directions.
LeftDirectionsNarrow(s) ==
    {d \in {"kLStickN"} : s.y < 0 /\ Abs32(s.x) <= -s.y} \cup
    {d \in {"kLStickS"} : s.y > 0 /\ Abs32(s.x) < s.y} \cup
    {d \in {"kLStickE"} : s.x > 0 /\ Abs32(s.y) < s.x} \cup
    {d \in {"kLStickW"} : s.x < 0 /\ Abs32(s.y) <= -s.x}

LeftDirections(s) ==
    {d \in {"kLStickN"} : Towards(-s.y, s.x)} \cup
    {d \in {"kLStickS"} : Towards(s.y, s.x)} \cup
    {d \in {"kLStickE"} : Towards(s.x, s.y)} \cup
    {d \in {"kLStickW"} : Towards(-s.x, s.y)}

ParseLeftStickButtons(raw) ==
    LET s == FromCentre(raw)
    IN  IF R2(s) <= 961 THEN {} ELSE Ring(s) \cup LeftDirections(s)

\* Eight sectors of the same tangent: an axis where one way is mostly it.
Sector(s) ==
    LET mostlyX == Abs32(s.x) * 2 > Abs32(s.y) * 5
        mostlyY == Abs32(s.y) * 2 > Abs32(s.x) * 5
    IN  IF mostlyX THEN (IF s.x > 0 THEN {"kRStick3"} ELSE {"kRStick1"})
        ELSE IF mostlyY THEN (IF s.y < 0 THEN {"kRStick4"} ELSE {"kRStick2"})
        ELSE IF s.x > 0 THEN (IF s.y < 0 THEN {"kRStick7"} ELSE {"kRStick6"})
        ELSE IF s.y > 0 THEN {"kRStick5"} ELSE {"kRStick8"}

ParseRightStickButtons(raw) ==
    LET s == FromCentre(raw)
    IN  IF R2(s) < kRawThresh * kRawThresh THEN {} ELSE Sector(s)

StickInit == stick = [x |-> 128, y |-> 128]

Move(dx, dy) ==
    /\ stick.x + dx \in Reach /\ stick.y + dy \in Reach
    /\ stick' = [x |-> stick.x + dx, y |-> stick.y + dy]

StickNext == \E d \in {-1, 1} : Move(d, 0) \/ Move(0, d)

StickSpec == StickInit /\ [][StickNext]_stick

-----------------------------------------------------------------------------
(* Properties *)

\* Where each button points, as the comments of mapping::Button have it; a
\* diagonal is almost as long as an axis.
Pointing ==
    [kLStickN |-> <<0, -10>>, kLStickS |-> <<0, 10>>,
     kLStickE |-> <<10, 0>>, kLStickW |-> <<-10, 0>>,
     kRStick1 |-> <<-10, 0>>, kRStick2 |-> <<0, 10>>,
     kRStick3 |-> <<10, 0>>, kRStick4 |-> <<0, -10>>,
     kRStick5 |-> <<-7, 7>>, kRStick6 |-> <<7, 7>>,
     kRStick7 |-> <<7, -7>>, kRStick8 |-> <<-7, -7>>]

\* How far the stick goes in a button's direction, times ten.
Along(s, button) == s.x * Pointing[button][1] + s.y * Pointing[button][2]

LeftButtons == {"kLStickN", "kLStickS", "kLStickE", "kLStickW"}
RightButtons == DOMAIN Pointing \ LeftButtons

\* cos(a)^2 >= per mille, for the angle a between the stick and the button.
Within(s, button, perMille) ==
    LET along == Along(s, button)
    IN  along > 0 /\ 10 * (along * along) >= perMille * R2(s)

LeftPoints(s, left) ==
    /\ left # {} <=> R2(s) > 31 * 31
    /\ left # {} => \A b \in LeftButtons :
           /\ Within(s, b, 153) => b \in left
           /\ b \in left => Within(s, b, 128)

Nearest(s, button) == \A b \in RightButtons : Along(s, b) * 100 <= Along(s, button) * 103

RightPoints(s, right) ==
    /\ right # {} <=> R2(s) >= 105 * 105
    /\ right # {} => \E b \in RightButtons : right = {b} /\ Nearest(s, b)

\* The left stick out of its dead zone is a direction for each axis that it is
\* less than 67 degrees from, and for none that it is more than 69 from; so always
\* one, never two opposite ones.  The right stick pushed far enough is the one of
\* eight directions it is nearest to, give or take a degree.
SticksPointWhereTheyAre ==
    /\ LeftPoints(FromCentre(stick), ParseLeftStickButtons(stick))
    /\ RightPoints(FromCentre(stick), ParseRightStickButtons(stick))
=============================================================================
