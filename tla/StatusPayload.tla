---------------------------- MODULE StatusPayload ----------------------------
(***************************************************************************)
(* What a status report says and how it is read (UpdateFromInput and       *)
(* Report of src/status_hid.*, parsePayload of the bridge,                 *)
(* statusJsonToPayload and parseStatusReport of the overlay).  The         *)
(* firmware fills a packed struct from the parts of the controller's       *)
(* report that are there; the overlay reads it at offsets of its own, or   *)
(* the bridge does, and the overlay builds the bytes again from what it    *)
(* was told.                                                               *)
(*                                                                         *)
(* A byte of the payload is the field it belongs to, its place in it, and  *)
(* the number of the controller report its value comes from: 0 for a value *)
(* that comes from none.  Bound: MaxReports reports of a connection.       *)
(***************************************************************************)
EXTENDS FiniteSetsExt, SequencesExt

CONSTANTS MaxReports, Pressable, Lengths

ASSUME PayloadAssumption == MaxReports \in Nat /\ Lengths \subseteq 1 .. 64

VARIABLES
    from,       \* per part of the payload, the report its value comes from
    bits,       \* the bits of g_report.buttons
    flags,      \* the bits of g_report.flags
    active_mode,
    last,       \* history: what the last report of the connection was, if any
    carried     \* history: per part, the last report long enough to carry it

payloadVars == <<from, bits, flags, active_mode, last, carried>>

\* The parts of the payload that come from the controller, and where in its report
\* their last byte is (external).
LastByte ==
    [sticks |-> 6, buttons |-> 10, gyro |-> 21, accel |-> 27, touch0 |-> 36, touch1 |-> 40, lean |-> 0]

Parts == DOMAIN LastByte
FromNone == [p \in Parts |-> 0]
NoReport == [number |-> 0, len |-> 0, pressed |-> {}, touching |-> {}]

Carries(len, part) == LastByte[part] < len

-----------------------------------------------------------------------------
(* The firmware *)

kReportBase == 1

\* mapping::Button, from bit 0 on.
ButtonOrder ==
    <<"kSquare", "kCross", "kCircle", "kTriangle", "kL1", "kR1", "kL2", "kR2",
      "kCreate", "kOptions", "kL3", "kR3", "kTouchpad", "kPs", "kMute",
      "kLeftPaddle", "kRightPaddle", "kDpadUp", "kDpadRight", "kDpadDown", "kDpadLeft",
      "kInnerRing", "kOuterRing", "kLStickN", "kLStickE", "kLStickS", "kLStickW",
      "kRStick1", "kRStick2", "kRStick3", "kRStick4", "kRStick5", "kRStick6", "kRStick7",
      "kRStick8", "kFn1", "kFn2">>

\* Little-endian fields of so many bytes, without a gap.
Report ==
    <<<<"version", 1>>, <<"controller_type", 1>>, <<"sequence", 2>>, <<"buttons", 8>>,
      <<"left_x", 1>>, <<"left_y", 1>>, <<"right_x", 1>>, <<"right_y", 1>>, <<"l2", 1>>, <<"r2", 1>>,
      <<"flags", 2>>, <<"touch0_id", 1>>, <<"touch1_id", 1>>,
      <<"touch0_x", 2>>, <<"touch0_y", 2>>, <<"touch1_x", 2>>, <<"touch1_y", 2>>,
      <<"gyro_x", 2>>, <<"gyro_y", 2>>, <<"gyro_z", 2>>,
      <<"accel_x", 2>>, <<"accel_y", 2>>, <<"accel_z", 2>>, <<"lean_roll_centideg", 2>>,
      <<"input_interval_last_us", 2>>, <<"input_interval_max_us", 2>>,
      <<"callback_duration_last_us", 2>>, <<"callback_duration_max_us", 2>>,
      <<"input_late_count", 2>>, <<"status_send_busy_count", 2>>, <<"reserved", 7>>>>

PartOf(field) ==
    CASE field \in {"left_x", "left_y", "right_x", "right_y", "l2", "r2"} -> "sticks"
      [] field \in {"gyro_x", "gyro_y", "gyro_z"} -> "gyro"
      [] field \in {"accel_x", "accel_y", "accel_z"} -> "accel"
      [] field \in {"touch0_id", "touch0_x", "touch0_y"} -> "touch0"
      [] field \in {"touch1_id", "touch1_x", "touch1_y"} -> "touch1"
      [] field = "buttons" -> "buttons"
      [] field = "lean_roll_centideg" -> "lean"
      [] OTHER -> "none"

\* A field's bytes with values of these reports; the rest of the payload is the
\* firmware's own.
Written(field, width, source) ==
    LET part == PartOf(field)
    IN  [i \in 1 .. width |-> <<field, i, IF part = "none" THEN 0 ELSE source[part]>>]

Payload == FlattenSeq([f \in DOMAIN Report |-> Written(Report[f][1], Report[f][2], from)])

\* ParseTouchState: whether a report is long enough for a touch point.
HasTouch(i, len) == len > kReportBase + 32 + i * 4 + 3

TouchesSeen(len, touching) == {i \in touching : HasTouch(i, len)}

GyroMouseArmed(touches) == touches # {} /\ active_mode \in {"kKeyboardMouse", "kHybrid"}
GyroStickArmed(touches) == touches # {} /\ active_mode = "kGyroStick"

FlagsOf(touches) ==
    {0} \cup {1 : i \in touches \cap {0}} \cup {2 : i \in touches \cap {1}} \cup
    {b \in {3} : GyroMouseArmed(touches)} \cup {b \in {4} : GyroStickArmed(touches)}

\* A bug: a report is taken to hold all of the motion once it holds some.
PartsOfInputEarly(len) ==
    {"lean"} \cup
    {p \in {"sticks"} : len >= kReportBase + 6} \cup
    {p \in {"buttons"} : len >= 11 /\ len > kReportBase + 7 + 2} \cup
    {p \in {"gyro", "accel"} : len > kReportBase + 15 + 4 + 1} \cup
    {p \in {"touch0"} : HasTouch(0, len)} \cup {p \in {"touch1"} : HasTouch(1, len)}

\* What UpdateFromInput and its caller take of a report of that length.
PartsOfInput(len) ==
    {"lean"} \cup
    {p \in {"sticks"} : len >= kReportBase + 6} \cup
    {p \in {"buttons"} : len >= 11 /\ len > kReportBase + 7 + 2} \cup
    {p \in {"gyro"} : len > kReportBase + 15 + 4 + 1} \cup
    {p \in {"accel"} : len > kReportBase + 21 + 4 + 1} \cup
    {p \in {"touch0"} : HasTouch(0, len)} \cup {p \in {"touch1"} : HasTouch(1, len)}

\* What a report does not say of these is let go; of the others the last word stays.
LetGo == {"buttons", "touch0", "touch1"}

UpdateFromInput(len, pressed, touching) ==
    LET number == last.number + 1
        taken == PartsOfInput(len)
        touches == TouchesSeen(len, touching)
    IN  /\ number <= MaxReports
        /\ from' = [p \in Parts |->
               IF p \in taken THEN number ELSE IF p \in LetGo THEN 0 ELSE from[p]]
        /\ bits' = IF "buttons" \in taken
                   THEN {b - 1 : b \in {c \in DOMAIN ButtonOrder : ButtonOrder[c] \in pressed}}
                   ELSE {}
        /\ flags' = FlagsOf(touches)
        /\ last' = [number |-> number, len |-> len, pressed |-> pressed, touching |-> touching]
        /\ carried' = [p \in Parts |-> IF Carries(len, p) THEN number ELSE carried[p]]
        /\ UNCHANGED active_mode

\* SetConnected and SetDisconnected.
ResetPayload(connected) ==
    /\ from' = FromNone
    /\ bits' = {}
    /\ flags' = {f \in {0} : connected}
    /\ last' = NoReport
    /\ carried' = FromNone
    /\ UNCHANGED active_mode

-----------------------------------------------------------------------------
(* The bridge: the bytes of each field, from the first up to the last *)

parsePayload ==
    [version |-> <<0, 1>>, controller_type |-> <<1, 2>>, sequence |-> <<2, 4>>, buttons |-> <<4, 12>>,
     left_x |-> <<12, 13>>, left_y |-> <<13, 14>>, right_x |-> <<14, 15>>, right_y |-> <<15, 16>>,
     l2 |-> <<16, 17>>, r2 |-> <<17, 18>>, flags |-> <<18, 20>>,
     touch0_id |-> <<20, 21>>, touch0_x |-> <<22, 24>>, touch0_y |-> <<24, 26>>,
     touch1_id |-> <<21, 22>>, touch1_x |-> <<26, 28>>, touch1_y |-> <<28, 30>>,
     gyro_x |-> <<30, 32>>, gyro_y |-> <<32, 34>>, gyro_z |-> <<34, 36>>,
     accel_x |-> <<36, 38>>, accel_y |-> <<38, 40>>, accel_z |-> <<40, 42>>,
     lean_roll_centideg |-> <<42, 44>>,
     input_interval_last_us |-> <<44, 46>>, input_interval_max_us |-> <<46, 48>>,
     callback_duration_last_us |-> <<48, 50>>, callback_duration_max_us |-> <<50, 52>>,
     input_late_count |-> <<52, 54>>, status_send_busy_count |-> <<54, 56>>]

Fields == DOMAIN parsePayload

\* The message an overlay gets of a payload.
Message(payload) ==
    [f \in Fields |-> SubSeq(payload, parsePayload[f][1] + 1, parsePayload[f][2])]

-----------------------------------------------------------------------------
(* The overlay: the offset and the width of each field *)

statusJsonToPayload ==
    [version |-> <<0, 1>>, controller_type |-> <<1, 1>>, sequence |-> <<2, 2>>, buttons |-> <<4, 8>>,
     left_x |-> <<12, 1>>, left_y |-> <<13, 1>>, right_x |-> <<14, 1>>, right_y |-> <<15, 1>>,
     l2 |-> <<16, 1>>, r2 |-> <<17, 1>>, flags |-> <<18, 2>>, touch0_id |-> <<20, 1>>, touch1_id |-> <<21, 1>>,
     touch0_x |-> <<22, 2>>, touch0_y |-> <<24, 2>>, touch1_x |-> <<26, 2>>, touch1_y |-> <<28, 2>>,
     gyro_x |-> <<30, 2>>, gyro_y |-> <<32, 2>>, gyro_z |-> <<34, 2>>,
     accel_x |-> <<36, 2>>, accel_y |-> <<38, 2>>, accel_z |-> <<40, 2>>, lean_roll_centideg |-> <<42, 2>>,
     input_interval_last_us |-> <<44, 2>>, input_interval_max_us |-> <<46, 2>>,
     callback_duration_last_us |-> <<48, 2>>, callback_duration_max_us |-> <<50, 2>>,
     input_late_count |-> <<52, 2>>, status_send_busy_count |-> <<54, 2>>]

parseStatusReport ==
    [version |-> <<0, 1>>, controller_type |-> <<1, 1>>, sequence |-> <<2, 2>>, buttons |-> <<4, 8>>,
     left_x |-> <<12, 1>>, left_y |-> <<13, 1>>, right_x |-> <<14, 1>>, right_y |-> <<15, 1>>,
     l2 |-> <<16, 1>>, r2 |-> <<17, 1>>, flags |-> <<18, 2>>, touch0_id |-> <<20, 1>>, touch1_id |-> <<21, 1>>,
     touch0_x |-> <<22, 2>>, touch0_y |-> <<24, 2>>, touch1_x |-> <<26, 2>>, touch1_y |-> <<28, 2>>,
     gyro_x |-> <<30, 2>>, gyro_y |-> <<32, 2>>, gyro_z |-> <<34, 2>>,
     accel_x |-> <<36, 2>>, accel_y |-> <<38, 2>>, accel_z |-> <<40, 2>>, lean_roll_centideg |-> <<42, 2>>,
     input_interval_last_us |-> <<44, 2>>, input_interval_max_us |-> <<46, 2>>,
     callback_duration_last_us |-> <<48, 2>>, callback_duration_max_us |-> <<50, 2>>,
     input_late_count |-> <<52, 2>>, status_send_busy_count |-> <<54, 2>>]

Rebuilt(message) ==
    [i \in 1 .. 63 |->
        LET at == {f \in Fields : i - 1 - statusJsonToPayload[f][1] \in 0 .. statusJsonToPayload[f][2] - 1}
        IN  IF at = {} THEN <<"reserved", i - 56, 0>>
            ELSE LET f == CHOOSE g \in at : TRUE
                 IN  message[f][i - statusJsonToPayload[f][1]]]

Shown(payload) ==
    [f \in Fields |->
        SubSeq(payload, parseStatusReport[f][1] + 1, parseStatusReport[f][1] + parseStatusReport[f][2])]

\* The bit of the mask that lights each button of the overlay.
BUTTONS ==
    [kSquare |-> 0, kCross |-> 1, kCircle |-> 2, kTriangle |-> 3, kL1 |-> 4, kR1 |-> 5,
     kL2 |-> 6, kR2 |-> 7, kCreate |-> 8, kOptions |-> 9, kL3 |-> 10, kR3 |-> 11,
     kTouchpad |-> 12, kPs |-> 13, kMute |-> 14, kLeftPaddle |-> 15, kRightPaddle |-> 16,
     kDpadUp |-> 17, kDpadRight |-> 18, kDpadDown |-> 19, kDpadLeft |-> 20,
     kFn1 |-> 35, kFn2 |-> 36]

FLAGS == [connected |-> 0, touch0 |-> 1, touch1 |-> 2, gyroMouse |-> 3, gyroStick |-> 4]

\* The buttons the mask lights; a trigger that is pulled lights its button too.
Lit == {b \in DOMAIN BUTTONS : BUTTONS[b] \in bits}
FlagsShown == {f \in DOMAIN FLAGS : FLAGS[f] \in flags}

-----------------------------------------------------------------------------

PayloadInit ==
    /\ from = FromNone
    /\ bits = {}
    /\ flags \in {{}, {0}}
    /\ active_mode \in {"kKeyboardMouse", "kGamepad", "kHybrid", "kGyroStick"}
    /\ last = NoReport
    /\ carried = FromNone

PayloadNext ==
    \/ \E len \in Lengths, pressed \in SUBSET Pressable, touching \in SUBSET {0, 1} :
           UpdateFromInput(len, pressed, touching)
    \/ \E connected \in BOOLEAN : ResetPayload(connected)

PayloadSpec == PayloadInit /\ [][PayloadNext]_payloadVars

-----------------------------------------------------------------------------
(* Properties *)

\* The report a part's value should come from: the last one, or for what it was too
\* short to say the last that did, except that buttons and touches are let go.
Wanted ==
    [p \in Parts |-> IF p \in LetGo /\ carried[p] # last.number THEN 0 ELSE carried[p]]

\* The overlay shows every field byte by byte as the struct has it, alone or through
\* the bridge, and each the value of the last report that carried it, however short
\* the reports between.  Of buttons and flags the mask shows those of the last
\* report.
ReadsAsWritten ==
    LET wanted == Wanted
        payload == Payload
        direct == Shown(payload)
        relayed == Shown(Rebuilt(Message(payload)))
        touched == {i \in last.touching : carried[IF i = 0 THEN "touch0" ELSE "touch1"] = last.number}
    IN  /\ Len(payload) = 63
        /\ \A r \in Range(Report) : r[1] \in Fields =>
               direct[r[1]] = Written(r[1], r[2], wanted) /\ relayed[r[1]] = direct[r[1]]
        /\ Lit = IF wanted["buttons"] = 0 THEN {} ELSE last.pressed \cap DOMAIN BUTTONS
        /\ last.number > 0 => FlagsShown =
               {"connected"} \cup {f \in {"touch0"} : 0 \in touched} \cup {f \in {"touch1"} : 1 \in touched} \cup
               {f \in {"gyroMouse"} : touched # {} /\ active_mode \in {"kKeyboardMouse", "kHybrid"}} \cup
               {f \in {"gyroStick"} : touched # {} /\ active_mode = "kGyroStick"}
=============================================================================
