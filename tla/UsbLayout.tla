------------------------------ MODULE UsbLayout ------------------------------
(***************************************************************************)
(* Which interfaces the adapter has in each build and profile.  Four       *)
(* tables say so and must agree: the numbers in src/usb_layout.h, the      *)
(* descriptors in src/usb_descriptors.cc, the instances src/device_out.cc  *)
(* sends to, and the numbers tools/status_bridge/hid_hidapi.go looks for.  *)
(*                                                                         *)
(* External: the PC, which reads the configuration and each report         *)
(* descriptor before it takes reports; TinyUSB, which gives a HID          *)
(* interface the instance of its place in the configuration.               *)
(***************************************************************************)
EXTENDS FiniteSets, Functions, Integers, Sequences

CONSTANTS Builds    \* what CMake can be asked for

BuildsThereAre ==
    [backend : {"stadia", "dualshock4"}, gyroStick : BOOLEAN, status : BOOLEAN]

ASSUME BuildsAssumption == Builds \subseteq BuildsThereAre

VARIABLES
    build,          \* the firmware's, which never changes
    mode,           \* the profile it runs
    instance,       \* device_out: per output the instance, or kNoHidInstance
    configuration,  \* the one the PC has read, empty or one
    described,      \* per instance the report descriptor the PC has read
    received,       \* the last report the PC took: empty or one
    answered        \* the last feature request: empty or one

pc == <<configuration, described, received, answered>>
layoutVars == <<build, mode, instance, pc>>

Outputs == {"keyboard", "mouse", "gamepad", "status"}
kNoHidInstance == 255
Instances == 0 .. 3

Modes == {"kKeyboardMouse", "kGamepad", "kHybrid"} \cup
         (IF build.gyroStick THEN {"kGyroStick"} ELSE {})

IsGamepadMode(m) == m \in {"kGamepad", "kGyroStick"}

One(yes) == IF yes THEN 1 ELSE 0
Stadia == build.backend = "stadia"

-----------------------------------------------------------------------------
(* usb_layout.h and tusb_config.h *)

kItfKeyboard == 0
kItfMouse == 1
kItfGamepad == 2
kItfGamepadConfig == 1
kItfStatusKbm == 2
kItfStatusGamepad == IF Stadia THEN 2 ELSE 1
kItfStatusHybrid == 3

kItfKbmTotal == 2 + One(build.status)
kItfGamepadTotal == (IF Stadia THEN 2 ELSE 1) + One(build.status)
kItfHybridTotal == 3 + One(build.status)

CFG_TUD_HID == 3 + One(build.status)

-----------------------------------------------------------------------------
(* usb_descriptors.cc *)

kEpnKeyboard == 129
kEpnMouse == 130
kEpnGamepad == 131
kEpnStatus == 132
kEpnGamepadOut == 2

TUD_CONFIG_DESC_LEN == 9
TUD_HID_DESC_LEN == 25
TUD_HID_INOUT_DESC_LEN == 32

Hid(number, report, in) ==
    [number |-> number, report |-> report, endpoints |-> <<in>>, length |-> TUD_HID_DESC_LEN]
HidInOut(number, report, out, in) ==
    [number |-> number, report |-> report, endpoints |-> <<out, in>>,
     length |-> TUD_HID_INOUT_DESC_LEN]

StatusInterface(number) == IF build.status THEN <<Hid(number, "status", kEpnStatus)>> ELSE <<>>

kDescConfigKbm ==
    [total |-> kItfKbmTotal,
     length |-> TUD_CONFIG_DESC_LEN + kItfKbmTotal * TUD_HID_DESC_LEN,
     interfaces |-> <<Hid(kItfKeyboard, "keyboard", kEpnKeyboard),
                      Hid(kItfMouse, "mouse", kEpnMouse)>> \o StatusInterface(kItfStatusKbm)]

kDescConfigGamepad ==
    IF Stadia
    THEN [total |-> kItfGamepadTotal,
          length |-> TUD_CONFIG_DESC_LEN + TUD_HID_INOUT_DESC_LEN + TUD_HID_DESC_LEN
                         + One(build.status) * TUD_HID_DESC_LEN,
          interfaces |-> <<HidInOut(0, "gamepad", kEpnGamepadOut, kEpnKeyboard),
                           Hid(kItfGamepadConfig, "config", kEpnGamepad)>>
                             \o StatusInterface(kItfStatusGamepad)]
    ELSE [total |-> kItfGamepadTotal,
          length |-> TUD_CONFIG_DESC_LEN + kItfGamepadTotal * TUD_HID_DESC_LEN,
          interfaces |-> <<Hid(0, "gamepad", kEpnGamepad)>> \o StatusInterface(kItfStatusGamepad)]

kDescConfigHybrid ==
    [total |-> kItfHybridTotal,
     length |-> TUD_CONFIG_DESC_LEN + kItfHybridTotal * TUD_HID_DESC_LEN,
     interfaces |-> <<Hid(kItfKeyboard, "keyboard", kEpnKeyboard),
                      Hid(kItfMouse, "mouse", kEpnMouse),
                      Hid(kItfGamepad, "gamepad", kEpnGamepad)>> \o StatusInterface(kItfStatusHybrid)]

\* tud_descriptor_configuration_cb
ConfigurationOf(m) ==
    CASE m = "kHybrid" -> kDescConfigHybrid
      [] IsGamepadMode(m) -> kDescConfigGamepad
      [] OTHER -> kDescConfigKbm

\* A bug: the hybrid profile is given the reports of the keyboard profile.
ReportDescriptorAsKbm(m, i) ==
    CASE ~IsGamepadMode(m) /\ i = 0 -> "keyboard"
      [] ~IsGamepadMode(m) /\ i = 1 -> "mouse"
      [] ~IsGamepadMode(m) /\ i = kItfStatusKbm /\ build.status -> "status"
      [] IsGamepadMode(m) /\ i = 0 -> "gamepad"
      [] OTHER -> "nullptr"

\* tud_hid_descriptor_report_cb
ReportDescriptorOf(m, i) ==
    CASE ~IsGamepadMode(m) /\ i = 0 -> "keyboard"
      [] ~IsGamepadMode(m) /\ i = 1 -> "mouse"
      [] m = "kKeyboardMouse" /\ i = kItfStatusKbm /\ build.status -> "status"
      [] m = "kHybrid" /\ i = 2 -> "gamepad"
      [] m = "kHybrid" /\ i = kItfStatusHybrid /\ build.status -> "status"
      [] IsGamepadMode(m) /\ i = 0 -> "gamepad"
      [] IsGamepadMode(m) /\ Stadia /\ i = kItfGamepadConfig -> "config"
      [] IsGamepadMode(m) /\ i = kItfStatusGamepad /\ build.status -> "status"
      [] OTHER -> "nullptr"

\* What a report descriptor declares: its input report's id and its bits, field
\* by field (size times count).
Declared ==
    [keyboard |-> [id |-> 1, bits |-> 1 * 8 + 8 * 1 + 8 * 14],
     mouse |-> [id |-> 2, bits |-> 1 * 5 + 3 * 1 + 16 * 2 + 8 * 1 + 8 * 1],
     gamepad |->
        IF Stadia THEN [id |-> 3, bits |-> 4 * 1 + 1 * 4 + 1 * 15 + 1 * 1 + 8 * 2 + 8 * 2
                                             + 8 * 2 + 1 * 2 + 1 * 1 + 1 * 5]
        ELSE [id |-> 1, bits |-> 8 * 4 + 4 * 1 + 1 * 14 + 1 * 6 + 8 * 2 + 8 * 54],
     config |-> [id |-> 100, bits |-> 0],
     status |-> [id |-> 126, bits |-> 8 * 63]]

-----------------------------------------------------------------------------
(* device_out.cc *)

KeyboardInstanceForMode(m) == IF IsGamepadMode(m) THEN kNoHidInstance ELSE 0

\* A bug: copied from the keyboard.
MouseInstanceAsKeyboard(m) == IF IsGamepadMode(m) THEN kNoHidInstance ELSE 0

MouseInstanceForMode(m) == IF IsGamepadMode(m) THEN kNoHidInstance ELSE 1

GamepadInstanceForMode(m) ==
    CASE m = "kHybrid" -> 2
      [] IsGamepadMode(m) -> 0
      [] OTHER -> kNoHidInstance

StatusInstanceForMode(m) ==
    IF ~build.status THEN kNoHidInstance
    ELSE CASE m = "kHybrid" -> kItfStatusHybrid
           [] IsGamepadMode(m) -> kItfStatusGamepad
           [] OTHER -> kItfStatusKbm

\* The size of the struct an output sends, and the report id it gives.
Sent ==
    [keyboard |-> [id |-> 1, bytes |-> 16],
     mouse |-> [id |-> 2, bytes |-> 7],
     gamepad |-> IF Stadia THEN [id |-> 3, bytes |-> 10] ELSE [id |-> 1, bytes |-> 63],
     status |-> [id |-> 126, bytes |-> 63]]

HasStadiaConfigInterface == Stadia /\ IsGamepadMode(mode)

\* device_out::Init, after power up or the reboot of a profile switch.
InstancesFor(m) ==
    [keyboard |-> KeyboardInstanceForMode(m), mouse |-> MouseInstanceForMode(m),
     gamepad |-> GamepadInstanceForMode(m), status |-> StatusInstanceForMode(m)]

Boot(m) ==
    /\ mode' = m
    /\ instance' = InstancesFor(m)
    /\ configuration' = {} /\ described' = [i \in Instances |-> "unread"]
    /\ received' = {} /\ answered' = {}
    /\ UNCHANGED build

\* The interfaces the PC knows of.
Known == UNION {0 .. Len(c.interfaces) - 1 : c \in configuration}

\* SendKeyboard and the others.
Send(o) ==
    /\ instance[o] \in Known /\ described[instance[o]] \notin {"unread", "nullptr"}
    /\ received' = {[on |-> instance[o], output |-> o, id |-> Sent[o].id, bytes |-> Sent[o].bytes]}
    /\ UNCHANGED <<build, mode, instance, configuration, described, answered>>

\* tud_hid_get_report_cb, asked of instance i for the feature report declared.
GetReport(i) ==
    /\ i \in Known
    /\ answered' = {[on |-> i, answer |-> HasStadiaConfigInterface /\ i = kItfGamepadConfig]}
    /\ UNCHANGED <<build, mode, instance, configuration, described, received>>

-----------------------------------------------------------------------------
(* The PC enumerates *)

ReadConfiguration ==
    /\ mode # "off"
    /\ configuration' = {ConfigurationOf(mode)}
    /\ UNCHANGED <<build, mode, instance, described, received, answered>>

ReadReportDescriptor(i) ==
    /\ i \in Known
    /\ described' = [described EXCEPT ![i] = ReportDescriptorOf(mode, i)]
    /\ UNCHANGED <<build, mode, instance, configuration, received, answered>>

LayoutInit ==
    /\ build \in Builds
    /\ mode = "off"
    /\ instance = [o \in Outputs |-> kNoHidInstance]
    /\ configuration = {} /\ described = [i \in Instances |-> "unread"]
    /\ received = {} /\ answered = {}

LayoutNext ==
    \/ \E m \in Modes : Boot(m)
    \/ ReadConfiguration
    \/ \E i \in Instances : ReadReportDescriptor(i) \/ GetReport(i)
    \/ \E o \in Outputs : Send(o)

LayoutSpec == LayoutInit /\ [][LayoutNext]_layoutVars

-----------------------------------------------------------------------------
(* hid_hidapi.go and main.go *)

statusInterfaces == {1, 2, 3}

isStatusCandidate(number, report, usageKnown) ==
    IF usageKnown THEN report = "status" ELSE number \in statusInterfaces

\* statusPayload, of a packet that begins with the report's id.
TakenForStatus(r) == 1 + r.bytes = 63 \/ (1 + r.bytes >= 64 /\ r.id = 126)

-----------------------------------------------------------------------------
(* Properties *)

\* Every variable has its type.
LayoutTypeOK ==
    /\ build \in Builds /\ mode \in Modes \cup {"off"}
    /\ instance \in [Outputs -> Instances \cup {kNoHidInstance}]
    /\ Cardinality(configuration) <= 1
    /\ described \in [Instances -> {"unread", "nullptr"} \cup Outputs \cup {"config"}]
    /\ Cardinality(received) <= 1 /\ Cardinality(answered) <= 1

\* A configuration is one a PC accepts: as many interfaces as it says, numbered
\* from 0 in order, as long as it says, no endpoint used twice, and no more HID
\* interfaces than TinyUSB has room for.
Accepted(c) ==
    LET end[i \in 0 .. c.total] ==
            IF i = 0 THEN TUD_CONFIG_DESC_LEN ELSE end[i - 1] + c.interfaces[i].length
        endpoints(i) == c.interfaces[i].endpoints
    IN  /\ Len(c.interfaces) = c.total /\ c.total <= CFG_TUD_HID
        /\ \A i \in 1 .. c.total : c.interfaces[i].number = i - 1 /\ IsInjective(endpoints(i))
        /\ c.length = end[c.total]
        /\ \A i, j \in 1 .. c.total :
               i # j => Range(endpoints(i)) \cap Range(endpoints(j)) = {}

WellFormed == \A c \in configuration : Accepted(c)

\* The PC reads from each interface the report descriptor its configuration
\* promises, whose length it was told there.
DescribedAsConfigured ==
    \A c \in configuration : \A i \in Known :
        described[i] \in {"unread", c.interfaces[i + 1].report}

\* The outputs the callbacks find (HasKeyboard and the others) are those the PC is
\* offered, each on an interface of its own: one missing would leave its pending
\* flag set for ever.
OffersWhatItHas ==
    \A c \in configuration : \A o \in Outputs :
        {i \in Known : c.interfaces[i + 1].report = o} = {instance[o]} \ {kNoHidInstance}

\* A PC enumerates every build in every profile: it accepts the configuration, reads
\* the report descriptors it was promised, and is offered the outputs there are.
Enumerates == WellFormed /\ DescribedAsConfigured /\ OffersWhatItHas

\* What arrives on an interface is what its report descriptor declares, in id and
\* in size: the PC would take a report sent to another for different keys.
SentAsDescribed ==
    \A r \in received :
        LET d == described[r.on] IN
        d = r.output /\ Declared[d].id = r.id /\ Declared[d].bits = 8 * r.bytes

\* The Stadia interface the PC asks for its configuration answers, and no other.
ConfigAnswers ==
    \A a \in answered : \A c \in configuration :
        a.answer <=> c.interfaces[a.on + 1].report = "config"

\* The bridge looks at the status interface in every build and profile, whether or
\* not the system tells usages, and takes no other report for a status report.
BridgeReadsStatus ==
    \A r \in received : \A usageKnown \in BOOLEAN :
        /\ r.output = "status" => isStatusCandidate(r.on, described[r.on], usageKnown)
        /\ TakenForStatus(r) <=> r.output = "status"

\* Whatever the adapter says to the PC, unasked or asked, is what the interface it
\* says it on was described to say, and the bridge takes it for nothing else.
SpeaksAsDescribed == SentAsDescribed /\ ConfigAnswers /\ BridgeReadsStatus
=============================================================================
