--------------------------- MODULE GamepadReports ----------------------------
(***************************************************************************)
(* How what is held on a controller reaches the PC (ParseDualSenseButtons  *)
(* and ParseForGamepad in src/host_reader.cc, the tables of                *)
(* src/mapping.h, the gamepads' report descriptors).  A bit of the         *)
(* controller's report becomes a button of the firmware's own, that a bit  *)
(* of the gamepad's report or a key; which control that bit is, the PC     *)
(* reads off the descriptor.                                               *)
(*                                                                         *)
(* External: the layout of a wired DualSense's report, which begins with   *)
(* its identifier; what PCs take a usage of either gamepad for.            *)
(*                                                                         *)
(* Bound: at most MaxAtOnce of the controls are away from their rest.      *)
(***************************************************************************)
EXTENDS FiniteSetsExt, SequencesExt

CONSTANTS MaxAtOnce

VARIABLES
    device,     \* what is plugged in: its vendor and its product
    backend,    \* the gamepad the build imitates, "stadia" or "ds4"
    input       \* the controller's last report, of no length before the first

padVars == <<device, backend, input>>

-----------------------------------------------------------------------------
(* The controller, external *)

kReportBase == 1
kButtonBase == kReportBase + 7

\* The controls from bit 4 of the first of three bytes on; the bits before them
\* are the directional pad's.
DualSenseLayout ==
    <<"kSquare", "kCross", "kCircle", "kTriangle",
      "kL1", "kR1", "kL2", "kR2", "kCreate", "kOptions", "kL3", "kR3",
      "kPs", "kTouchpad", "kMute", "unused",
      "kFn1", "kFn2", "kLeftPaddle", "kRightPaddle">>

EdgeControls == {"kFn1", "kFn2", "kLeftPaddle", "kRightPaddle"}
Controls == Range(DualSenseLayout) \ {"unused"}
IsEdge == device.pid # "kDualSensePid"

\* The bits of the report's byte-th button byte, of those it is long enough for.
Raw(byte) ==
    {b \in 0 .. 7 :
        /\ kButtonBase + byte < input.len
        /\ \E i \in DOMAIN DualSenseLayout :
              DualSenseLayout[i] \in input.held /\ i + 3 = byte * 8 + b}

-----------------------------------------------------------------------------
(* The firmware's buttons *)

\* The byte and the bit of each button.
ButtonBits ==
    [kSquare |-> <<0, 4>>, kCross |-> <<0, 5>>, kCircle |-> <<0, 6>>, kTriangle |-> <<0, 7>>,
     kL1 |-> <<1, 0>>, kR1 |-> <<1, 1>>, kL2 |-> <<1, 2>>, kR2 |-> <<1, 3>>,
     kCreate |-> <<1, 4>>, kOptions |-> <<1, 5>>, kL3 |-> <<1, 6>>, kR3 |-> <<1, 7>>,
     kPs |-> <<2, 0>>, kTouchpad |-> <<2, 1>>, kMute |-> <<2, 2>>,
     kFn1 |-> <<2, 4>>, kFn2 |-> <<2, 5>>, kLeftPaddle |-> <<2, 6>>, kRightPaddle |-> <<2, 7>>]

DpadButtons(hat) ==
    {b \in {"kDpadUp"} : hat \in {0, 1, 7}} \cup
    {b \in {"kDpadRight"} : hat \in 1 .. 3} \cup
    {b \in {"kDpadDown"} : hat \in 3 .. 5} \cup
    {b \in {"kDpadLeft"} : hat \in 5 .. 7}

ParseDualSenseButtons ==
    IF input.len < 11 \/ input.len <= kButtonBase + 2 THEN {}
    ELSE LET bytes == [byte \in 0 .. 2 |-> Raw(byte)]
         IN  {b \in DOMAIN ButtonBits : ButtonBits[b][2] \in bytes[ButtonBits[b][1]]} \cup
             DpadButtons(input.hat)

-----------------------------------------------------------------------------
(* What they are mapped to; a button without an action is not in the table *)

kDualSenseActions ==
    [kSquare |-> "R", kCross |-> "F", kCircle |-> "V", kTriangle |-> "T",
     kL1 |-> "Q", kR1 |-> "E", kL2 |-> "mouseRight", kR2 |-> "mouseLeft",
     kCreate |-> "Tab", kOptions |-> "Escape", kL3 |-> "J", kR3 |-> "0",
     kPs |-> "Enter", kMute |-> "F12",
     kDpadUp |-> "Up", kDpadRight |-> "Right", kDpadDown |-> "Down", kDpadLeft |-> "Left",
     kInnerRing |-> "L",
     kLStickN |-> "W", kLStickE |-> "D", kLStickS |-> "S", kLStickW |-> "A",
     kRStick1 |-> "1", kRStick2 |-> "2", kRStick3 |-> "3", kRStick4 |-> "4",
     kRStick5 |-> "5", kRStick6 |-> "6", kRStick7 |-> "7", kRStick8 |-> "8"]

\* A table of the DualSense's with the entries of the Edge's own buttons.
WithPaddles(table, paddles) ==
    [b \in DOMAIN table \cup DOMAIN paddles |->
        IF b \in DOMAIN table THEN table[b] ELSE paddles[b]]

kDualSenseEdgeActions ==
    WithPaddles(kDualSenseActions,
        [kLeftPaddle |-> "leftShift", kRightPaddle |-> "Space", kFn1 |-> "X", kFn2 |-> "Y"])

\* The keys and the button of the touchpad's thirds (ParseTouchpadClick).
ZoneActions == {"M", "mouseMiddle", "N"}

\* A bug: the shoulder buttons' bits change places.
gpSwapped ==
    [kA |-> 14, kB |-> 13, kX |-> 12, kY |-> 11, kL3 |-> 8, kR3 |-> 7,
     kLB |-> 9, kRB |-> 10, kLT |-> 2, kRT |-> 3,
     kAssistant |-> 1, kOptions |-> 5, kGuide |-> 4, kBack |-> 6, kCapture |-> 0]

gp ==
    [kA |-> 14, kB |-> 13, kX |-> 12, kY |-> 11, kL3 |-> 8, kR3 |-> 7,
     kLB |-> 10, kRB |-> 9, kLT |-> 2, kRT |-> 3,
     kAssistant |-> 1, kOptions |-> 5, kGuide |-> 4, kBack |-> 6, kCapture |-> 0]

kDualSenseGamepadActions ==
    [kSquare |-> gp.kX, kCross |-> gp.kA, kCircle |-> gp.kB, kTriangle |-> gp.kY,
     kL1 |-> gp.kLB, kR1 |-> gp.kRB, kL2 |-> gp.kLT, kR2 |-> gp.kRT,
     kCreate |-> gp.kBack, kOptions |-> gp.kOptions, kL3 |-> gp.kL3, kR3 |-> gp.kR3,
     kPs |-> gp.kGuide]

kDualSenseEdgeGamepadActions ==
    WithPaddles(kDualSenseGamepadActions,
        [kLeftPaddle |-> gp.kL3, kRightPaddle |-> gp.kA,
         kFn1 |-> gp.kAssistant, kFn2 |-> gp.kCapture])

kAllowedDevices == {"kDualSensePid", "kDualSenseEdgePid", "kDualSenseEdgeAltPid"}

kMappingSets ==
    [kDualSensePid |-> kDualSenseActions,
     kDualSenseEdgePid |-> kDualSenseEdgeActions,
     kDualSenseEdgeAltPid |-> kDualSenseEdgeActions]

kGamepadMappingSets ==
    [kDualSensePid |-> kDualSenseGamepadActions,
     kDualSenseEdgePid |-> kDualSenseEdgeGamepadActions,
     kDualSenseEdgeAltPid |-> kDualSenseEdgeGamepadActions]

\* A table without a button stands for none.
NoTable == <<>>

FindMapping(vid, pid) ==
    IF vid = "kSonyVid" /\ pid \in kAllowedDevices \cap DOMAIN kMappingSets
    THEN kMappingSets[pid] ELSE NoTable

FindGamepadMapping(vid, pid) ==
    IF vid = "kSonyVid" /\ pid \in DOMAIN kGamepadMappingSets
    THEN kGamepadMappingSets[pid] ELSE NoTable

\* The keys and mouse buttons the keyboard profile holds down.
OutputsOf(table, buttons) == {table[b] : b \in buttons \cap DOMAIN table}

-----------------------------------------------------------------------------
(* The gamepad's report, byte by byte *)

Byte(bits) ==
    LET Bit(b) == IF b \in bits THEN 2 ^ b ELSE 0
    IN  Bit(0) + Bit(1) + Bit(2) + Bit(3) + Bit(4) + Bit(5) + Bit(6) + Bit(7)

\* The bits of the byte-th of the bytes that bits run through.
Bits(bits, byte) == {b - 8 * byte : b \in {c \in bits : c \div 8 = byte}}

Hat == IF input.hat > 7 THEN 8 ELSE input.hat

NeutralAxes == [left_x |-> 128, left_y |-> 128, right_x |-> 128, right_y |-> 128, l2 |-> 0, r2 |-> 0]

\* A stick's 0 is below what the Stadia descriptor allows.
Sanitized(axes) ==
    [a \in DOMAIN axes |-> IF axes[a] = 0 /\ a \notin {"l2", "r2"} THEN 1 ELSE axes[a]]

StadiaReport(hat, on, axes) ==
    <<hat, Byte(Bits(on, 0)), Byte(Bits(on, 1)),
      axes.left_x, axes.left_y, axes.right_x, axes.right_y, axes.l2, axes.r2, 0>>

ParseForStadia(actions) ==
    IF input.len < kButtonBase + 3 THEN StadiaReport(8, {}, NeutralAxes)
    ELSE StadiaReport(Hat,
             {actions[b] : b \in ParseDualSenseButtons \cap DOMAIN actions},
             IF input.len >= kReportBase + 6 THEN Sanitized(input.axes) ELSE NeutralAxes)

\* The bit of each button in hat_buttons, buttons1 and buttons2.
Ds4Bits ==
    [kSquare |-> 4, kCross |-> 5, kCircle |-> 6, kTriangle |-> 7,
     kL1 |-> 8, kR1 |-> 9, kL2 |-> 10, kR2 |-> 11,
     kCreate |-> 12, kOptions |-> 13, kL3 |-> 14, kR3 |-> 15, kPs |-> 16, kTouchpad |-> 17]

ParseForDs4 ==
    LET on == {Ds4Bits[b] : b \in ParseDualSenseButtons \cap DOMAIN Ds4Bits}
        hat == IF input.len > kButtonBase THEN Hat ELSE 8
        axes == IF input.len >= kReportBase + 6 THEN input.axes ELSE NeutralAxes
    IN  <<axes.left_x, axes.left_y, axes.right_x, axes.right_y,
          hat + Byte(Bits(on, 0)), Byte(Bits(on, 1)), Byte(Bits(on, 2)), axes.l2, axes.r2>>

ParseForGamepad ==
    IF backend = "ds4" THEN ParseForDs4
    ELSE ParseForStadia(FindGamepadMapping(device.vid, device.pid))

-----------------------------------------------------------------------------
(* The descriptors: the fields of a report in the order of their bits *)

Field(page, usage, bits, lo, hi) ==
    [usage |-> <<page, usage>>, bits |-> bits, lo |-> lo, hi |-> hi]
Padding(bits) == Field("none", 0, bits, 0, 0)
Button(usage) == Field("button", usage, 1, 0, 1)
Axis(usage, lo) == Field("desktop", usage, 8, lo, 255)

kDescHidGamepad ==
    <<Field("desktop", \h39, 4, 0, 7), Padding(4),
      Button(\h12), Button(\h11), Button(\h14), Button(\h13), Button(\h0D),
      Button(\h0C), Button(\h0B), Button(\h0F), Button(\h0E), Button(\h08),
      Button(\h07), Button(\h05), Button(\h04), Button(\h02), Button(\h01), Padding(1),
      Axis(\h30, 1), Axis(\h31, 1), Axis(\h32, 1), Axis(\h35, 1),
      Field("simulation", \hC5, 8, 0, 255), Field("simulation", \hC4, 8, 0, 255),
      Field("consumer", \hE9, 1, 0, 1), Field("consumer", \hEA, 1, 0, 1),
      Field("consumer", \hCD, 1, 0, 1), Padding(5)>>

kDescHidDs4 ==
    <<Axis(\h30, 0), Axis(\h31, 0), Axis(\h32, 0), Axis(\h35, 0),
      Field("desktop", \h39, 4, 0, 7),
      Button(1), Button(2), Button(3), Button(4), Button(5), Button(6), Button(7),
      Button(8), Button(9), Button(10), Button(11), Button(12), Button(13), Button(14),
      Padding(6), Axis(\h33, 0), Axis(\h34, 0)>>

\* The bit at which each field begins.
Starts(descriptor) ==
    LET start[i \in DOMAIN descriptor] ==
            IF i = 1 THEN 0 ELSE start[i - 1] + descriptor[i - 1].bits
    IN  start

\* Where in the report each usage is.
FieldsOf(descriptor) ==
    {[field |-> descriptor[i], at |-> Starts(descriptor)[i]] :
        i \in {j \in DOMAIN descriptor : descriptor[j].usage # <<"none", 0>>}}

StadiaFields == FieldsOf(kDescHidGamepad)
Ds4Fields == FieldsOf(kDescHidDs4)

-----------------------------------------------------------------------------
(* The PC, external *)

\* The usage a PC takes for each control of the gamepad.
StadiaControls ==
    [A |-> 1, B |-> 2, X |-> 4, Y |-> 5, LB |-> 7, RB |-> 8, Back |-> \h0B, Options |-> \h0C,
     Guide |-> \h0D, L3 |-> \h0E, R3 |-> \h0F, RT |-> \h13, LT |-> \h14,
     Assistant |-> \h11, Capture |-> \h12]

Ds4Controls ==
    [Square |-> 1, Cross |-> 2, Circle |-> 3, Triangle |-> 4, L1 |-> 5, R1 |-> 6,
     L2 |-> 7, R2 |-> 8, Share |-> 9, Options |-> 10, L3 |-> 11, R3 |-> 12,
     PS |-> 13, Touchpad |-> 14]

AxisUsages ==
    [left_x |-> <<"desktop", \h30>>, left_y |-> <<"desktop", \h31>>,
     right_x |-> <<"desktop", \h32>>, right_y |-> <<"desktop", \h35>>,
     l2 |-> IF backend = "ds4" THEN <<"desktop", \h33>> ELSE <<"simulation", \hC5>>,
     r2 |-> IF backend = "ds4" THEN <<"desktop", \h34>> ELSE <<"simulation", \hC4>>]

\* What a report says of a usage: its value, or -1 for one out of range, which the
\* PC takes for no change of an axis and for a hat let go.
Says(report, usage) ==
    LET f == CHOOSE g \in IF backend = "ds4" THEN Ds4Fields ELSE StadiaFields :
                 g.field.usage = usage
        value == (report[f.at \div 8 + 1] \div 2 ^ (f.at % 8)) % 2 ^ f.field.bits
    IN  IF value \in f.field.lo .. f.field.hi THEN value ELSE -1

-----------------------------------------------------------------------------
(* Actions *)

Devices ==
    {[vid |-> "kSonyVid", pid |-> p] : p \in kAllowedDevices \cup {"other"}} \cup
    {[vid |-> "other", pid |-> "kDualSensePid"]}

Idle == [held |-> {}, hat |-> 8, axes |-> NeutralAxes, len |-> 64]

\* Each axis at an end, beside one, in the middle.
Pushes ==
    {[left_x |-> 0, left_y |-> 255, right_x |-> 1, right_y |-> 64, l2 |-> 0, r2 |-> 255],
     [left_x |-> 200, left_y |-> 0, right_x |-> 255, right_y |-> 0, l2 |-> 9, r2 |-> 1],
     [left_x |-> 1, left_y |-> 77, right_x |-> 0, right_y |-> 254, l2 |-> 255, r2 |-> 3]}

AtOnce(in) ==
    Cardinality(in.held) + Cardinality({f \in {"hat", "axes", "len"} : in[f] # Idle[f]})

\* The controller sends its next report.
Report(in) ==
    /\ in.len > 0 /\ AtOnce(in) <= MaxAtOnce
    /\ input' = in
    /\ UNCHANGED <<device, backend>>

PadInit ==
    /\ device \in {d \in Devices : FindMapping(d.vid, d.pid) # NoTable}
    /\ backend \in {"stadia", "ds4"}
    /\ input = [Idle EXCEPT !.len = 0]

PadNext ==
    \/ \E c \in IF IsEdge THEN Controls ELSE Controls \ EdgeControls :
           \/ Report([input EXCEPT !.held = @ \cup {c}])
           \/ Report([input EXCEPT !.held = @ \ {c}])
    \/ \E hat \in 0 .. 8 : Report([input EXCEPT !.hat = hat])
    \/ \E axes \in Pushes \cup {NeutralAxes} : Report([input EXCEPT !.axes = axes])
    \/ \E len \in {6, 8, 10, 64} : Report([input EXCEPT !.len = len])

PadSpec == PadInit /\ [][PadNext]_padVars

-----------------------------------------------------------------------------
(* Properties *)

\* README's table of what a control is on a Stadia Controller, with the comments
\* of the tables for the Edge's paddles.
StadiaEquivalent ==
    [kCross |-> "A", kCircle |-> "B", kSquare |-> "X", kTriangle |-> "Y",
     kL1 |-> "LB", kR1 |-> "RB", kL2 |-> "LT", kR2 |-> "RT", kL3 |-> "L3", kR3 |-> "R3",
     kCreate |-> "Back", kOptions |-> "Options", kPs |-> "Guide",
     kFn1 |-> "Assistant", kFn2 |-> "Capture", kLeftPaddle |-> "L3", kRightPaddle |-> "A"]

Ds4Equivalent ==
    [kCross |-> "Cross", kCircle |-> "Circle", kSquare |-> "Square", kTriangle |-> "Triangle",
     kL1 |-> "L1", kR1 |-> "R1", kL2 |-> "L2", kR2 |-> "R2", kL3 |-> "L3", kR3 |-> "R3",
     kCreate |-> "Share", kOptions |-> "Options", kPs |-> "PS", kTouchpad |-> "Touchpad"]

Equivalent == IF backend = "ds4" THEN Ds4Equivalent ELSE StadiaEquivalent
PadControls == IF backend = "ds4" THEN Ds4Controls ELSE StadiaControls

HeldOnPad == {Equivalent[c] : c \in input.held \cap DOMAIN Equivalent}

\* The PC sees the gamepad's buttons that what is held stands for and no other,
\* the hat as the directional pad points, and every stick and trigger where it
\* is, a stick's 0 taken for 1, and never out of the range that it would ignore.
\* A report too short to say what is held presses nothing.  In the keyboard
\* profile a key stands for one button only, so what one lets go no other holds.
PcSeesWhatIsHeld ==
    input.len > 0 =>
        LET report == ParseForGamepad
            Value(usage) == Says(report, usage)
            keys == FindMapping(device.vid, device.pid)
            buttons == ParseDualSenseButtons
            outputs == OutputsOf(keys, buttons)
            onPad == HeldOnPad
            axes == IF backend = "ds4" THEN input.axes ELSE Sanitized(input.axes)
            whole == input.len = Idle.len
        IN  /\ \A n \in DOMAIN PadControls :
                   Value(<<"button", PadControls[n]>>) = IF n \in onPad /\ whole THEN 1 ELSE 0
            /\ whole => Value(<<"desktop", \h39>>) = IF input.hat = 8 THEN -1 ELSE input.hat
            /\ \A a \in DOMAIN NeutralAxes :
                   Value(AxisUsages[a]) \in
                       IF whole THEN {axes[a]} ELSE {0, Sanitized(input.axes)[a], NeutralAxes[a]}
            /\ \A b \in DOMAIN keys : keys[b] \in outputs <=> b \in buttons
            /\ ZoneActions \cap outputs = {}
=============================================================================
