--------------------------- MODULE OutputReports ----------------------------
(***************************************************************************)
(* From controller reports to what the PC sees (src/host_reader.cc,        *)
(* src/device_out.cc).  Every report callback turns a controller report    *)
(* into a keyboard, a mouse and a gamepad report and hands each to its IN  *)
(* endpoint, which holds one report until the PC polls it.  A busy         *)
(* endpoint refuses; what it refuses stays pending in g_controller and is  *)
(* offered again by the next callback.                                     *)
(*                                                                         *)
(* Keys and mouse buttons are absolute (a report says what is held);       *)
(* movement is relative (a report says what to add) and is cleared once a  *)
(* report carrying it is accepted.                                         *)
(*                                                                         *)
(* External, modelled from its use in src/: TinyUSB's device endpoints and *)
(* the PC (HostPoll, BusReset, Configure, Suspend, Resume).                *)
(***************************************************************************)
EXTENDS Integers, Sequences

CONSTANTS
    ModeCount,                     \* Mode::kCount
    KeyButtons, MouseButtons,      \* inputs mapped to a key, to a mouse button
    GamepadButtons,                \* inputs a gamepad report carries
    HybridButtons,                 \* kHybridKeyboardButtons
    kKeyM, kKeyN,                  \* the keys of touchpad zones 1 and 3
    kMouseButtonMiddle,            \* the mouse button of zone 2
    Zones,                         \* 0 (not clicked) and the zones 1, 2, 3 clicked
    GyroAxes, ScrollAxes,          \* relative axes and what moves them
    AxisMin, AxisMax,              \* the range of each axis in a mouse report
    MoveInputs,                    \* what one controller report can add to the axes
    Unset                          \* a gamepad report of memset's zeros: hat up,
                                   \* both sticks in a corner

Modes == 0 .. ModeCount - 1
kKeyboardMouse == 0
kGamepad == 1
kHybrid == 2

Outputs == {"keyboard", "mouse", "gamepad"}
Buttons == KeyButtons \cup MouseButtons \cup GamepadButtons
Axes == GyroAxes \cup ScrollAxes

\* Every mapped input has a key of its own (src/mapping.h), so a key is named by
\* its input; keys fit the report's slots (KEYBOARD_ROLLOVER_KEYS).
ASSUME ButtonAssumption ==
    /\ ModeCount \in Nat /\ ModeCount > 2
    /\ KeyButtons \cap MouseButtons = {}
    /\ {kKeyM, kKeyN} \cap KeyButtons = {} /\ kKeyM # kKeyN
    /\ kMouseButtonMiddle \notin MouseButtons
    /\ HybridButtons \subseteq KeyButtons
    /\ Unset \notin GamepadButtons
    /\ 0 \in Zones /\ Zones \subseteq 0 .. 3

ASSUME AxisAssumption ==
    /\ GyroAxes \cap ScrollAxes = {}
    /\ AxisMin \in [Axes -> Int] /\ AxisMax \in [Axes -> Int]
    /\ \A a \in Axes : AxisMin[a] < 0 /\ 0 < AxisMax[a]
    /\ \A d \in MoveInputs : d \in [Axes -> Int]

VARIABLES
    running,      \* FALSE from a swipe to the reboot that follows it
    mode,         \* g_active_mode: the booted profile and its HID interfaces
    active,       \* g_controller.active
    activeMode,   \* g_controller.active_mode
    buttons,      \* g_controller.buttons
    touchpadZone, \* g_controller.touchpad_zone; 0 iff touchpad_clicked is false
    out,          \* per output: the report, its pending flag, its IN endpoint
    usb,          \* the device port: "unconfigured", "ready", "suspended"
    pc,           \* per output: what the PC takes to be held
    owed,         \* history: movement produced and not yet polled, per axis
    clamped,      \* history: axes that ever hit the end of their range
    stale         \* history: outputs of which the PC's state changed, or the
                  \* report was cleared, without a report saying so

vars == <<running, mode, active, activeMode, buttons, touchpadZone, out, usb, pc,
          owed, clamped, stale>>

-----------------------------------------------------------------------------
(* Reports *)

Keys == KeyButtons \cup {kKeyM, kKeyN}
Still == [a \in Axes |-> 0]
MouseReport == [buttons : SUBSET (MouseButtons \cup {kMouseButtonMiddle}),
                move : [Axes -> Int]]

ReportType ==
    [keyboard |-> SUBSET Keys,
     mouse    |-> MouseReport,
     gamepad  |-> SUBSET (GamepadButtons \cup {Unset})]

NoMouse == [buttons |-> {}, move |-> Still]

\* What memset leaves, and what says that nothing is held.
Zeroed == [keyboard |-> {}, mouse |-> NoMouse, gamepad |-> {Unset}]
Neutral == [keyboard |-> {}, mouse |-> NoMouse, gamepad |-> {}]

\* The absolute part of a report.
Held(o, report) == IF o = "mouse" THEN report.buttons ELSE report

\* The last thing said to the PC: in flight, or already taken.
LastSaid(o, channel, seen) ==
    IF channel.sent = <<>> THEN seen ELSE Held(o, channel.sent[1])

HasOutput(m, o) ==
    IF o = "gamepad" THEN m # kKeyboardMouse ELSE m \in {kKeyboardMouse, kHybrid}

Accepts(o, channel) ==
    HasOutput(mode, o) /\ usb = "ready" /\ channel.sent = <<>>

\* The report once the endpoint has accepted it.
AfterSend(o, report) ==
    IF o = "mouse" THEN [report EXCEPT !.move = Still] ELSE report

\* A bug: a refused report is not offered again.
FlushDropping(o, channel) ==
    [report |-> channel.report, pending |-> FALSE,
     sent |-> IF channel.pending /\ Accepts(o, channel)
              THEN <<channel.report>> ELSE channel.sent]

Flush(o, channel) ==
    IF channel.pending /\ Accepts(o, channel)
    THEN [report |-> AfterSend(o, channel.report),
          pending |-> FALSE,
          sent |-> <<channel.report>>]
    ELSE channel

FlushPendingOutputs(channels) == [o \in Outputs |-> Flush(o, channels[o])]

-----------------------------------------------------------------------------
(* Controller reports *)

\* What a report callback is handed.  zone is where the finger that clicks the
\* touchpad is (0: no click); move is what gyro and scroll amount to.
FullReport == [full : {TRUE}, buttons : SUBSET Buttons, zone : Zones, move : MoveInputs]

\* A failed transfer arrives as a report of length 0: no button is pressed, no
\* finger touches, and the click bit is not looked at.
EmptyReport == [full |-> FALSE, buttons |-> {}, zone |-> 0, move |-> Still]

NextButtons(r) ==
    IF activeMode = kKeyboardMouse THEN r.buttons
    ELSE IF activeMode = kHybrid THEN r.buttons \cap HybridButtons
    ELSE buttons

\* ProcessButtons applies the inputs that changed, and those only.
Toggled(held, mapped, r) ==
    (held \ (mapped \cap (buttons \ NextButtons(r))))
        \cup (mapped \cap (NextButtons(r) \ buttons))

ZoneKeys(z) == IF z = 1 THEN {kKeyM} ELSE IF z = 3 THEN {kKeyN} ELSE {}
ZoneButtons(z) == IF z = 2 THEN {kMouseButtonMiddle} ELSE {}

ClickChanged(r) ==
    /\ activeMode = kKeyboardMouse
    /\ r.full
    /\ (r.zone # 0) # (touchpadZone # 0)

\* A bug: the zone is forgotten before it is released.
ZoneReleasedLate(r) == IF ClickChanged(r) THEN r.zone ELSE 0

\* The click ends in the zone it began in, wherever the finger has moved.
ZoneReleased(r) == IF ClickChanged(r) THEN touchpadZone ELSE 0

ZonePressed(r) == IF ClickChanged(r) THEN r.zone ELSE 0

ParseKeyboard(held, r) ==
    (Toggled(held, KeyButtons, r) \ ZoneKeys(ZoneReleased(r))) \cup ZoneKeys(ZonePressed(r))

ParseMouseButtons(held, r) ==
    IF activeMode = kKeyboardMouse
    THEN (Toggled(held, MouseButtons, r) \ ZoneButtons(ZoneReleased(r)))
             \cup ZoneButtons(ZonePressed(r))
    ELSE held

\* ProcessGyroMouse runs in the keyboard/mouse and the hybrid profile,
\* ParseTouchScroll in the first only.
Moves(r) ==
    [a \in Axes |->
        IF \/ activeMode = kKeyboardMouse
           \/ activeMode = kHybrid /\ a \in GyroAxes
        THEN r.move[a] ELSE 0]

ClampAxis(a, n) ==
    IF n > AxisMax[a] THEN AxisMax[a] ELSE IF n < AxisMin[a] THEN AxisMin[a] ELSE n

\* A bug: the new movement replaces what the endpoint has not taken yet.
Latest(move, r) == [a \in Axes |-> IF Moves(r)[a] # 0 THEN Moves(r)[a] ELSE move[a]]

Accumulated(move, r) == [a \in Axes |-> ClampAxis(a, move[a] + Moves(r)[a])]

-----------------------------------------------------------------------------
(* The report callback *)

ParseKeyboardChannel(c, r) ==
    LET held == ParseKeyboard(c.report, r)
    IN  [report |-> held, pending |-> c.pending \/ held # c.report, sent |-> c.sent]

ParseMouseChannel(c, r) ==
    LET held == ParseMouseButtons(c.report.buttons, r)
        move == Accumulated(c.report.move, r)
    IN  [report |-> [buttons |-> held, move |-> move],
         pending |-> \/ c.pending
                     \/ Moves(r) # Still
                     \/ activeMode = kKeyboardMouse
                         /\ (held # c.report.buttons \/ move # Still),
         sent |-> c.sent]

\* ParseForGamepad builds the whole report anew, in every profile but
\* keyboard/mouse, and always has it sent.
ParseGamepadChannel(c, r) ==
    IF activeMode = kKeyboardMouse
    THEN c
    ELSE [report |-> r.buttons \cap GamepadButtons, pending |-> TRUE, sent |-> c.sent]

Parse(channels, r) ==
    [keyboard |-> ParseKeyboardChannel(channels["keyboard"], r),
     mouse    |-> ParseMouseChannel(channels["mouse"], r),
     gamepad  |-> ParseGamepadChannel(channels["gamepad"], r)]

\* The callback offers what is pending, parses, and offers the result.
Received(r) == FlushPendingOutputs(Parse(FlushPendingOutputs(out), r))

\* The outputs whose endpoint takes a report in the step from out to after.
Accepted(after) == {o \in Outputs : out[o].sent = <<>> /\ after[o].sent # <<>>}

\* The outputs on which the PC and the firmware say different things.
Differing(channels, seen) ==
    {o \in Outputs : LastSaid(o, channels[o], seen[o]) # Held(o, channels[o].report)}

InFlight(channels) ==
    IF channels["mouse"].sent = <<>> THEN Still ELSE channels["mouse"].sent[1].move

Overflows(r) ==
    {a \in Axes : LET n == Flush("mouse", out["mouse"]).report.move[a] + Moves(r)[a]
                  IN  ClampAxis(a, n) # n}

ReportReceived(r) ==
    /\ running /\ active
    /\ out' = Received(r)
    /\ buttons' = NextButtons(r)
    /\ touchpadZone' = IF ClickChanged(r) THEN r.zone ELSE touchpadZone
    /\ clamped' = clamped \cup Overflows(r)
    /\ owed' = [a \in Axes |-> IF a \in clamped' THEN 0 ELSE owed[a] + Moves(r)[a]]
    /\ stale' = stale \ Accepted(out')
    /\ UNCHANGED <<running, mode, active, activeMode, usb, pc>>

\* HandleModeSwitch: what the profile holds is released, then the firmware
\* sleeps 20 ms, saves the new profile and restarts.
Released ==
    LET queued(o) == [report |-> Neutral[o], pending |-> TRUE, sent |-> out[o].sent]
    IN  FlushPendingOutputs(
            [o \in Outputs |->
                IF o = "gamepad" \/ activeMode \in {kKeyboardMouse, kHybrid}
                THEN queued(o) ELSE out[o]])

Neighbour(m, direction) ==
    IF direction = "previous" THEN (m + ModeCount - 1) % ModeCount
                              ELSE (m + 1) % ModeCount

HandleModeSwitch(direction) ==
    /\ running /\ active
    /\ running' = FALSE
    /\ activeMode' = Neighbour(activeMode, direction)
    /\ out' = Released
    /\ buttons' = {}
    /\ touchpadZone' = 0
    /\ owed' = [a \in Axes |-> IF a \in clamped THEN 0 ELSE InFlight(out')[a]]
    /\ stale' = stale \ Accepted(out')
    /\ UNCHANGED <<mode, active, usb, pc, clamped>>

-----------------------------------------------------------------------------
(* The controller comes and goes *)

Cleared(channels) ==
    [o \in Outputs |-> [report |-> Zeroed[o], pending |-> FALSE, sent |-> channels[o].sent]]

\* What ClearHidState and ResetState do to the reports; the history variables
\* forget the movement that is dropped.
Forget(channels) ==
    /\ active' = FALSE
    /\ buttons' = {}
    /\ touchpadZone' = 0
    /\ out' = Cleared(channels)
    /\ owed' = [a \in Axes |-> IF a \in clamped THEN 0 ELSE InFlight(out')[a]]
    /\ stale' = Differing(out', pc)

\* tuh_hid_mount_cb activates the controller and clears nothing.
Activate ==
    /\ running /\ ~active
    /\ active' = TRUE
    /\ activeMode' = mode
    /\ UNCHANGED <<running, mode, buttons, touchpadZone, out, usb, pc, owed, clamped, stale>>

\* A bug: the release is what memset leaves.
ReleaseOnceZeroed ==
    [o \in Outputs |-> IF Accepts(o, out[o]) THEN [out[o] EXCEPT !.sent = <<Zeroed[o]>>]
                                           ELSE out[o]]

\* tuh_hid_umount_cb offers each endpoint a report that holds nothing, once,
\* and then drops whatever is pending.
ReleaseOnce ==
    [o \in Outputs |-> IF Accepts(o, out[o]) THEN [out[o] EXCEPT !.sent = <<Neutral[o]>>]
                                           ELSE out[o]]

HidUmount ==
    /\ running /\ active
    /\ Forget(ReleaseOnce)
    /\ activeMode' = mode
    /\ UNCHANGED <<running, mode, usb, pc, clamped>>

\* tuh_umount_cb of the allowed device: ResetState, with no report sent.
DeviceUmount ==
    /\ running
    /\ Forget(out)
    /\ activeMode' = kKeyboardMouse
    /\ UNCHANGED <<running, mode, usb, pc, clamped>>

-----------------------------------------------------------------------------
(* The PC (external) *)

\* The PC polls an IN endpoint and takes the report in it.
HostPoll(o) ==
    /\ usb = "ready"
    /\ out[o].sent # <<>>
    /\ pc' = [pc EXCEPT ![o] = Held(o, out[o].sent[1])]
    /\ out' = [out EXCEPT ![o].sent = <<>>]
    /\ owed' = IF o = "mouse"
               THEN [a \in Axes |-> IF a \in clamped THEN 0
                                    ELSE owed[a] - InFlight(out)[a]]
               ELSE owed
    /\ UNCHANGED <<running, mode, active, activeMode, buttons, touchpadZone, usb,
                   clamped, stale>>

\* Everything the PC knew about the device goes with its configuration, and so
\* does what was in flight.
Nothing == [keyboard |-> {}, mouse |-> {}, gamepad |-> {}]

BusReset ==
    /\ usb # "unconfigured"
    /\ usb' = "unconfigured"
    /\ pc' = Nothing
    /\ out' = [o \in Outputs |-> [out[o] EXCEPT !.sent = <<>>]]
    /\ owed' = [a \in Axes |-> IF a \in clamped THEN 0 ELSE out["mouse"].report.move[a]]
    /\ stale' = Differing(out', pc')
    /\ UNCHANGED <<running, mode, active, activeMode, buttons, touchpadZone, clamped>>

Port(from, to) ==
    /\ usb = from
    /\ usb' = to
    /\ UNCHANGED <<running, mode, active, activeMode, buttons, touchpadZone, out, pc,
                   owed, clamped, stale>>

Configure == Port("unconfigured", "ready")
Suspend == Port("ready", "suspended")
Resume == Port("suspended", "ready")

-----------------------------------------------------------------------------
(* Power *)

IdleChannels ==
    [o \in Outputs |-> [report |-> Zeroed[o], pending |-> FALSE, sent |-> <<>>]]

\* main's Init calls, in a session of profile m.
Started(m) ==
    /\ running' = TRUE
    /\ mode' = m
    /\ active' = FALSE
    /\ activeMode' = kKeyboardMouse
    /\ buttons' = {}
    /\ touchpadZone' = 0
    /\ out' = IdleChannels
    /\ usb' = "unconfigured"
    /\ pc' = Nothing
    /\ owed' = Still
    /\ clamped' = {}
    /\ stale' = {"gamepad"}

\* PersistAndReboot (ModeStore has what comes between).
Reboot == ~running /\ Started(activeMode)

\* The cable is pulled and plugged again; a save that was under way leaves the
\* old, the new or the default profile (ModeStore's NoForeignMode).
PowerCycle ==
    \E m \in IF running THEN {mode} ELSE {mode, activeMode, kKeyboardMouse} : Started(m)

Init ==
    /\ running = TRUE
    /\ mode \in Modes
    /\ active = FALSE
    /\ activeMode = kKeyboardMouse
    /\ buttons = {}
    /\ touchpadZone = 0
    /\ out = IdleChannels
    /\ usb = "unconfigured"
    /\ pc = Nothing
    /\ owed = Still
    /\ clamped = {}
    /\ stale = {"gamepad"}

Reports == FullReport \cup {EmptyReport}

Next ==
    \/ \E r \in Reports : ReportReceived(r)
    \/ \E direction \in {"next", "previous"} : HandleModeSwitch(direction)
    \/ Activate \/ HidUmount \/ DeviceUmount
    \/ \E o \in Outputs : HostPoll(o)
    \/ BusReset \/ Configure \/ Suspend \/ Resume
    \/ Reboot \/ PowerCycle

\* Any controller report at all would fill an endpoint now.
SendDue ==
    \E o \in Outputs :
        /\ Accepts(o, out[o])
        /\ out[o].pending \/ (o = "gamepad" /\ activeMode # kKeyboardMouse)

\* The PC polls every endpoint of a configured device at its interval, and an
\* active controller streams reports (its endpoint is re-armed by every
\* callback and by every Task), whatever they say: nobody need press anything.
Fairness ==
    /\ \A o \in Outputs : WF_vars(HostPoll(o))
    /\ WF_vars(SendDue /\ \E r \in Reports : ReportReceived(r))

Spec == Init /\ [][Next]_vars
FairSpec == Spec /\ Fairness

-----------------------------------------------------------------------------
(* Properties *)

Channel(o) ==
    [report : ReportType[o], pending : BOOLEAN, sent : Seq(ReportType[o])]

HeldType ==
    [keyboard |-> SUBSET Keys,
     mouse    |-> SUBSET (MouseButtons \cup {kMouseButtonMiddle}),
     gamepad  |-> SUBSET (GamepadButtons \cup {Unset})]

InRange(report) == \A a \in Axes : report.move[a] \in AxisMin[a] .. AxisMax[a]

TypeOK ==
    /\ running \in BOOLEAN
    /\ mode \in Modes
    /\ active \in BOOLEAN
    /\ activeMode \in Modes
    /\ buttons \subseteq Buttons
    /\ touchpadZone \in Zones
    /\ out = [o \in Outputs |-> out[o]]
    /\ \A o \in Outputs : out[o] \in Channel(o) /\ Len(out[o].sent) <= 1
    /\ InRange(out["mouse"].report)
    /\ out["mouse"].sent # <<>> => InRange(out["mouse"].sent[1])
    /\ usb \in {"unconfigured", "ready", "suspended"}
    /\ pc = [o \in Outputs |-> pc[o]]
    /\ \A o \in Outputs : pc[o] \in HeldType[o]
    /\ owed \in [Axes -> Int]
    /\ clamped \subseteq Axes
    /\ stale \subseteq Outputs

\* The keyboard report and the mouse buttons, which the callbacks only ever
\* change by what changed (AddKey, RemoveKey, touchpad_zone), hold exactly the
\* inputs that are down and the zone the click began in; a controller that
\* left leaves none of them down.
ReportsTrackInputs ==
    /\ out["keyboard"].report = (buttons \cap KeyButtons) \cup ZoneKeys(touchpadZone)
    /\ out["mouse"].report.buttons = (buttons \cap MouseButtons) \cup ZoneButtons(touchpadZone)
    /\ ~active => buttons = {} /\ touchpadZone = 0

\* A report that is not pending has been said: the endpoint or the PC has its
\* keys and buttons, unless the PC forgot them (a bus reset) or the controller
\* left since (FlushPendingOutputs and the pending flags).
NothingUnsaid ==
    \A o \in Outputs :
        HasOutput(mode, o) /\ ~out[o].pending /\ o \notin stale =>
            LastSaid(o, out[o], pc[o]) = Held(o, out[o].report)

\* Movement waits in the report or is in flight, never lost and never sent
\* twice however slowly the PC polls, short of an axis hitting its limit.
MovementConserved ==
    \A a \in Axes \ clamped :
        owed[a] = out["mouse"].report.move[a] + InFlight(out)[a]

\* Movement that waits is pending: it reaches the PC without further input.
MovementPending ==
    out["mouse"].report.move # Still => out["mouse"].pending

\* The PC never sees the gamepad report memset leaves, whose hat is up and
\* whose sticks are in a corner (NeutralGamepadReport).
NeverZeroedGamepad ==
    /\ Unset \notin pc["gamepad"]
    /\ out["gamepad"].sent # <<>> => Unset \notin out["gamepad"].sent[1]

\* Reports are parsed for the profile whose interfaces the PC enumerated: the
\* mode of g_controller and the booted mode part only while a switch restarts.
ParsedForBootedMode == running /\ active => activeMode = mode

\* A key or mouse button that stays as it is reaches the PC, however often the
\* endpoint was busy when it changed.
HeldStateArrives ==
    \A o \in {"keyboard", "mouse"} :
      \A held \in SUBSET (Keys \cup MouseButtons \cup {kMouseButtonMiddle}) :
        <>[](/\ running /\ active /\ usb = "ready" /\ HasOutput(mode, o)
             /\ o \notin stale /\ Held(o, out[o].report) = held)
            => <>[](pc[o] = held)

\* The gamepad is sent in full by every callback, so it arrives even after a
\* bus reset or a reconnect made the PC's state stale.
GamepadArrives ==
    \A held \in SUBSET GamepadButtons :
        <>[](/\ running /\ active /\ usb = "ready" /\ HasOutput(mode, "gamepad")
             /\ out["gamepad"].report = held)
            => <>[](pc["gamepad"] = held)

\* Movement does not wait for ever: what the PC is owed does not stay the same
\* amount, other than none, while the PC polls.
MovementArrives ==
    \A a \in Axes : \A n \in (2 * AxisMin[a] .. 2 * AxisMax[a]) \ {0} :
        ~<>[](/\ running /\ active /\ usb = "ready" /\ HasOutput(mode, "mouse")
              /\ a \notin clamped /\ owed[a] = n)

\* Whatever a controller does reaches a PC that stays configured, each report by
\* its own way: one is sent when it changes, one by every callback, one until
\* nothing of it is left, and an endpoint that is busy delays no other.
InputArrives == HeldStateArrives /\ GamepadArrives /\ MovementArrives

\* "otherwise a busy IN endpoint could drop a key press or release
\* permanently" (host_reader.cc:1583): once the controller is gone and the
\* endpoint is empty, the PC holds none of its keys.
ReleasedOnUnplug ==
    running /\ ~active /\ usb = "ready" /\ out["keyboard"].sent = <<>> => pc["keyboard"] = {}
=============================================================================
