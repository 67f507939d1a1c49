-------------------------- MODULE HostReaderProofs --------------------------
(***************************************************************************)
(* Proofs about OutputReports, for every set of inputs, axes and ranges;   *)
(* and about HostReader, which implements OutputReports and ControllerLink *)
(* at once, so that what is proved of each holds of the whole.             *)
(***************************************************************************)
EXTENDS HostReader, TLAPS

GoodChannel(o, c) ==
    /\ c \in Channel(o)
    /\ Len(c.sent) <= 1
    /\ o = "mouse" => InRange(c.report) /\ (c.sent # <<>> => InRange(c.sent[1]))

\* What a report of each output is.
LEMMA ReportTypes ==
    /\ ReportType["keyboard"] = SUBSET Keys
    /\ ReportType["mouse"] = MouseReport
    /\ ReportType["gamepad"] = SUBSET (GamepadButtons \cup {Unset})
BY DEF ReportType

\* No movement is a movement.
LEMMA StillType == Still \in [Axes -> Int]
BY DEF Still

\* ... and one every report can carry.
LEMMA StillInRange == \A a \in Axes : Still[a] \in AxisMin[a] .. AxisMax[a]
BY AxisAssumption DEF Still

\* Neutral and zeroed reports are reports.
LEMMA NeutralType ==
    \A o \in Outputs : Neutral[o] \in ReportType[o] /\ Zeroed[o] \in ReportType[o]
<1>1. NoMouse \in MouseReport
  BY StillType DEF NoMouse, MouseReport
<1> QED
  BY <1>1, ReportTypes DEF Outputs, Neutral, Zeroed

\* A mouse report of nothing is in range.
LEMMA NoMouseInRange == InRange(NoMouse)
BY StillInRange DEF InRange, NoMouse

\* An accepted report keeps its type; only its movement is cleared.
LEMMA AfterSendType ==
    ASSUME NEW o \in Outputs, NEW report \in ReportType[o]
    PROVE  /\ AfterSend(o, report) \in ReportType[o]
           /\ Held(o, AfterSend(o, report)) = Held(o, report)
           /\ o = "mouse" => InRange(AfterSend(o, report))
<1>1. CASE o = "mouse"
  <2>1. report \in MouseReport
    BY <1>1, ReportTypes
  <2>2. AfterSend(o, report) = [report EXCEPT !.move = Still]
    BY <1>1 DEF AfterSend
  <2>3. AfterSend(o, report) = [buttons |-> report.buttons, move |-> Still]
    BY <2>1, <2>2 DEF MouseReport
  <2> QED
    BY <1>1, <2>1, <2>3, ReportTypes, StillType, StillInRange DEF MouseReport, Held, InRange
<1>2. CASE o # "mouse"
  BY <1>2 DEF AfterSend
<1> QED
  BY <1>1, <1>2

\* What offering a channel to its endpoint does.
LEMMA FlushCases ==
    ASSUME NEW o \in Outputs, NEW c
    PROVE  \/ /\ Flush(o, c) = c
              /\ c.pending => ~Accepts(o, c)
           \/ /\ c.pending /\ Accepts(o, c)
              /\ Flush(o, c) = [report |-> AfterSend(o, c.report),
                                pending |-> FALSE, sent |-> <<c.report>>]
BY DEF Flush

\* Offering a channel to its endpoint keeps its type.
LEMMA FlushGood ==
    ASSUME NEW o \in Outputs, NEW c, GoodChannel(o, c)
    PROVE  GoodChannel(o, Flush(o, c))
<1>1. CASE Flush(o, c) = c
  BY <1>1
<1>2. CASE Flush(o, c) = [report |-> AfterSend(o, c.report),
                          pending |-> FALSE, sent |-> <<c.report>>]
  <2>1. c.report \in ReportType[o]
    BY DEF GoodChannel, Channel
  <2>2. <<c.report>> \in Seq(ReportType[o]) /\ Len(<<c.report>>) = 1
    BY <2>1
  <2>3. Flush(o, c) \in Channel(o)
    BY <1>2, <2>1, <2>2, AfterSendType DEF Channel
  <2> QED
    BY <1>2, <2>1, <2>2, <2>3, AfterSendType DEF GoodChannel
<1> QED
  BY <1>1, <1>2, FlushCases

Good(channels) ==
    /\ channels = [o \in Outputs |-> channels[o]]
    /\ \A o \in Outputs : GoodChannel(o, channels[o])

\* So does offering all of them.
LEMMA FlushPendingGood ==
    ASSUME NEW channels, Good(channels)
    PROVE  Good(FlushPendingOutputs(channels))
BY FlushGood DEF Good, FlushPendingOutputs

\* The type invariant says so of every channel.
LEMMA TypeOKGood == TypeOK => Good(out)
BY DEF TypeOK, Good, GoodChannel

-----------------------------------------------------------------------------
(* Parsing a controller report *)

\* What a callback may be handed.
LEMMA ReportsType ==
    ASSUME NEW r \in Reports
    PROVE  /\ r.full \in BOOLEAN
           /\ r.buttons \subseteq Buttons
           /\ r.zone \in Zones
           /\ r.move \in [Axes -> Int]
<1>1. CASE r \in FullReport
  BY <1>1, AxisAssumption DEF FullReport
<1>2. CASE r = EmptyReport
  BY <1>2, StillType, ButtonAssumption DEF EmptyReport
<1> QED
  BY <1>1, <1>2 DEF Reports

\* A zone of the touchpad presses keys and mouse buttons of the report.
LEMMA ZonesType ==
    ASSUME NEW z
    PROVE  /\ ZoneKeys(z) \subseteq Keys
           /\ ZoneButtons(z) \subseteq {kMouseButtonMiddle}
BY DEF ZoneKeys, ZoneButtons, Keys

\* A report moves every axis by an integer.
LEMMA MovesType ==
    ASSUME NEW r \in Reports
    PROVE  Moves(r) \in [Axes -> Int]
BY ReportsType DEF Moves

\* A clamped sum is in range, and a sum in range is left alone (ClampI16).
LEMMA ClampInRange ==
    ASSUME NEW a \in Axes, NEW n \in Int
    PROVE  /\ ClampAxis(a, n) \in Int
           /\ ClampAxis(a, n) \in AxisMin[a] .. AxisMax[a]
           /\ n \in AxisMin[a] .. AxisMax[a] => ClampAxis(a, n) = n
BY AxisAssumption DEF ClampAxis

\* Accumulated movement is in range.
LEMMA AccumulatedType ==
    ASSUME NEW r \in Reports, NEW move \in [Axes -> Int]
    PROVE  /\ Accumulated(move, r) \in [Axes -> Int]
           /\ \A a \in Axes : Accumulated(move, r)[a] \in AxisMin[a] .. AxisMax[a]
<1>1. \A a \in Axes : move[a] + Moves(r)[a] \in Int
  BY MovesType
<1> QED
  BY <1>1, ClampInRange DEF Accumulated

\* Parsing a controller report keeps every channel's type.
LEMMA ParseGood ==
    ASSUME NEW r \in Reports, NEW channels, Good(channels)
    PROVE  Good(Parse(channels, r))
<1>1. GoodChannel("keyboard", ParseKeyboardChannel(channels["keyboard"], r))
  <2> DEFINE c == channels["keyboard"]
  <2>1. c \in [report : SUBSET Keys, pending : BOOLEAN, sent : Seq(SUBSET Keys)] /\ Len(c.sent) <= 1
    BY ReportTypes DEF Good, GoodChannel, Channel, Outputs
  <2>2. ParseKeyboard(c.report, r) \in SUBSET Keys
    BY <2>1, ZonesType DEF ParseKeyboard, Toggled, Keys
  <2>3. ParseKeyboardChannel(c, r)
          \in [report : SUBSET Keys, pending : BOOLEAN, sent : Seq(SUBSET Keys)]
    BY <2>1, <2>2 DEF ParseKeyboardChannel
  <2>4. ParseKeyboardChannel(c, r).sent = c.sent
    BY DEF ParseKeyboardChannel
  <2> QED
    BY <2>1, <2>3, <2>4, ReportTypes DEF GoodChannel, Channel
<1>2. GoodChannel("mouse", ParseMouseChannel(channels["mouse"], r))
  <2> DEFINE c == channels["mouse"]
  <2>1. /\ c \in [report : MouseReport, pending : BOOLEAN, sent : Seq(MouseReport)]
        /\ Len(c.sent) <= 1
        /\ c.sent # <<>> => InRange(c.sent[1])
    BY ReportTypes DEF Good, GoodChannel, Channel, Outputs
  <2>2. c.report.buttons \subseteq MouseButtons \cup {kMouseButtonMiddle}
        /\ c.report.move \in [Axes -> Int]
    BY <2>1 DEF MouseReport
  <2>3. ParseMouseButtons(c.report.buttons, r) \subseteq MouseButtons \cup {kMouseButtonMiddle}
    BY <2>2, ZonesType DEF ParseMouseButtons, Toggled
  <2> DEFINE report == [buttons |-> ParseMouseButtons(c.report.buttons, r),
                        move |-> Accumulated(c.report.move, r)]
  <2>4. report \in MouseReport /\ InRange(report)
    BY <2>2, <2>3, AccumulatedType DEF MouseReport, InRange
  <2>5. /\ ParseMouseChannel(c, r).report = report
        /\ ParseMouseChannel(c, r).sent = c.sent
        /\ ParseMouseChannel(c, r) \in
             [report : MouseReport, pending : BOOLEAN, sent : Seq(MouseReport)]
    BY <2>1, <2>4 DEF ParseMouseChannel
  <2> QED
    BY <2>1, <2>4, <2>5, ReportTypes DEF GoodChannel, Channel
<1>3. GoodChannel("gamepad", ParseGamepadChannel(channels["gamepad"], r))
  <2> DEFINE c == channels["gamepad"]
             T == SUBSET (GamepadButtons \cup {Unset})
  <2>1. c \in [report : T, pending : BOOLEAN, sent : Seq(T)] /\ Len(c.sent) <= 1
    BY ReportTypes DEF Good, GoodChannel, Channel, Outputs
  <2>2. /\ ParseGamepadChannel(c, r) \in [report : T, pending : BOOLEAN, sent : Seq(T)]
        /\ ParseGamepadChannel(c, r).sent = c.sent
    BY <2>1 DEF ParseGamepadChannel
  <2> QED
    BY <2>1, <2>2, ReportTypes DEF GoodChannel, Channel
<1>4. Parse(channels, r) = [o \in Outputs |-> Parse(channels, r)[o]]
  BY DEF Parse, Outputs
<1> QED
  BY <1>1, <1>2, <1>3, <1>4 DEF Good, Parse, Outputs

\* So does the whole callback.
LEMMA ReceivedGood ==
    ASSUME TypeOK, NEW r \in Reports
    PROVE  Good(Received(r))
BY TypeOKGood, FlushPendingGood, ParseGood DEF Received

-----------------------------------------------------------------------------
(* Clearing, releasing, restarting *)

\* A sequence of one element.
LEMMA Single ==
    ASSUME NEW T, NEW x \in T
    PROVE  <<x>> \in Seq(T) /\ Len(<<x>>) = 1 /\ <<x>>[1] = x /\ <<x>> # <<>>
OBVIOUS

\* A channel with a new endpoint.
LEMMA Updated ==
    ASSUME NEW o \in Outputs, NEW c \in Channel(o), NEW x
    PROVE  [c EXCEPT !.sent = x] = [report |-> c.report, pending |-> c.pending, sent |-> x]
BY DEF Channel

\* What a good channel is made of.
LEMMA Built ==
    ASSUME NEW o \in Outputs, NEW report \in ReportType[o], NEW pending \in BOOLEAN,
           NEW sent \in Seq(ReportType[o]), Len(sent) <= 1,
           o = "mouse" => InRange(report) /\ (sent # <<>> => InRange(sent[1]))
    PROVE  GoodChannel(o, [report |-> report, pending |-> pending, sent |-> sent])
BY DEF GoodChannel, Channel

\* What a good channel consists of.
LEMMA Parts ==
    ASSUME NEW o \in Outputs, NEW c, GoodChannel(o, c)
    PROVE  /\ c \in Channel(o)
           /\ c.report \in ReportType[o] /\ c.pending \in BOOLEAN
           /\ c.sent \in Seq(ReportType[o]) /\ Len(c.sent) <= 1
           /\ o = "mouse" => InRange(c.report) /\ (c.sent # <<>> => InRange(c.sent[1]))
           /\ c.sent # <<>> => c.sent[1] \in ReportType[o]
BY DEF GoodChannel, Channel

\* A good channel whose endpoint is empty, and one whose endpoint is full.
LEMMA BuiltEmpty ==
    ASSUME NEW o \in Outputs, NEW report \in ReportType[o], NEW pending \in BOOLEAN,
           o = "mouse" => InRange(report)
    PROVE  GoodChannel(o, [report |-> report, pending |-> pending, sent |-> <<>>])
<1> DEFINE c == [report |-> report, pending |-> pending, sent |-> <<>>]
<1>1. <<>> \in Seq(ReportType[o]) /\ Len(<<>>) = 0
  OBVIOUS
<1>2. c \in Channel(o)
  BY <1>1 DEF Channel
<1>3. c.report = report /\ c.sent = <<>>
  OBVIOUS
<1> HIDE DEF c
<1>4. GoodChannel(o, c)
  BY <1>1, <1>2, <1>3 DEF GoodChannel
<1> QED
  BY <1>4 DEF c

\* A channel whose endpoint was just filled is a channel.
LEMMA BuiltFull ==
    ASSUME NEW o \in Outputs, NEW report \in ReportType[o], NEW pending \in BOOLEAN,
           NEW x \in ReportType[o],
           o = "mouse" => InRange(report) /\ InRange(x)
    PROVE  GoodChannel(o, [report |-> report, pending |-> pending, sent |-> <<x>>])
<1> DEFINE c == [report |-> report, pending |-> pending, sent |-> <<x>>]
<1>1. <<x>> \in Seq(ReportType[o]) /\ Len(<<x>>) = 1 /\ <<x>>[1] = x
  BY Single
<1>2. c \in Channel(o)
  BY <1>1 DEF Channel
<1>3. c.report = report /\ c.sent = <<x>>
  OBVIOUS
<1> HIDE DEF c
<1>4. GoodChannel(o, c)
  BY <1>1, <1>2, <1>3 DEF GoodChannel
<1> QED
  BY <1>4 DEF c

\* Neutral and zeroed mouse reports are in range.
LEMMA NeutralInRange ==
    \A o \in Outputs : o = "mouse" => InRange(Neutral[o]) /\ InRange(Zeroed[o])
BY NoMouseInRange DEF Neutral, Zeroed

\* Clearing the reports keeps their type (ClearHidState, ResetState).
LEMMA ClearedGood ==
    ASSUME NEW channels, Good(channels)
    PROVE  Good(Cleared(channels))
<1> SUFFICES ASSUME NEW o \in Outputs PROVE GoodChannel(o, Cleared(channels)[o])
  BY DEF Good, Cleared
<1>1. GoodChannel(o, channels[o])
  BY DEF Good
<1>2. Cleared(channels)[o] = [report |-> Zeroed[o], pending |-> FALSE, sent |-> channels[o].sent]
  BY DEF Cleared
<1> QED
  BY <1>1, <1>2, Parts, Built, NeutralType, NeutralInRange

\* So does offering the release (tuh_hid_umount_cb).
LEMMA ReleaseOnceGood ==
    ASSUME Good(out)
    PROVE  Good(ReleaseOnce)
<1> SUFFICES ASSUME NEW o \in Outputs PROVE GoodChannel(o, ReleaseOnce[o])
  BY DEF Good, ReleaseOnce
<1>1. GoodChannel(o, out[o])
  BY DEF Good
<1>2. CASE ~Accepts(o, out[o])
  BY <1>1, <1>2 DEF ReleaseOnce
<1>3. CASE Accepts(o, out[o])
  <2>1. ReleaseOnce[o] = [report |-> out[o].report, pending |-> out[o].pending,
                          sent |-> <<Neutral[o]>>]
    BY <1>1, <1>3, Parts, Updated DEF ReleaseOnce
  <2>2. Neutral[o] \in ReportType[o]
    BY NeutralType
  <2>3. GoodChannel(o, [report |-> out[o].report, pending |-> out[o].pending,
                        sent |-> <<Neutral[o]>>])
    BY <1>1, <2>2, Parts, BuiltFull, NeutralInRange
  <2> QED
    BY <2>1, <2>3
<1> QED
  BY <1>2, <1>3

\* So does what a profile switch queues and flushes.
LEMMA ReleasedGood ==
    ASSUME Good(out)
    PROVE  Good(Released)
<1> DEFINE queued(o) == [report |-> Neutral[o], pending |-> TRUE, sent |-> out[o].sent]
           channels == [o \in Outputs |->
                          IF o = "gamepad" \/ activeMode \in {kKeyboardMouse, kHybrid}
                          THEN queued(o) ELSE out[o]]
<1>1. ASSUME NEW o \in Outputs PROVE GoodChannel(o, queued(o)) /\ GoodChannel(o, out[o])
  <2>1. GoodChannel(o, out[o])
    BY DEF Good
  <2>2. GoodChannel(o, queued(o))
    BY <2>1, Parts, Built, NeutralType, NeutralInRange
  <2> QED
    BY <2>1, <2>2
<1> HIDE DEF queued
<1>2. Good(channels)
  BY <1>1 DEF Good
<1>3. Released = FlushPendingOutputs(channels)
  BY DEF Released, queued
<1> HIDE DEF channels
<1> QED
  BY <1>2, <1>3, FlushPendingGood

\* The channels of a boot have their type.
LEMMA IdleGood == Good(IdleChannels)
<1> SUFFICES ASSUME NEW o \in Outputs PROVE GoodChannel(o, IdleChannels[o])
  BY DEF Good, IdleChannels
<1>1. IdleChannels[o] = [report |-> Zeroed[o], pending |-> FALSE, sent |-> <<>>]
  BY DEF IdleChannels
<1>2. GoodChannel(o, [report |-> Zeroed[o], pending |-> FALSE, sent |-> <<>>])
  BY BuiltEmpty, NeutralType, NeutralInRange
<1> QED
  BY <1>1, <1>2

\* An endpoint emptied by a poll or by a bus reset.
LEMMA EmptiedGood ==
    ASSUME Good(out), NEW o \in Outputs
    PROVE  GoodChannel(o, [out[o] EXCEPT !.sent = <<>>])
<1>1. GoodChannel(o, out[o])
  BY DEF Good
<1>2. [out[o] EXCEPT !.sent = <<>>]
        = [report |-> out[o].report, pending |-> out[o].pending, sent |-> <<>>]
  BY <1>1, Parts, Updated
<1>3. GoodChannel(o, [report |-> out[o].report, pending |-> out[o].pending, sent |-> <<>>])
  BY <1>1, Parts, BuiltEmpty
<1> QED
  BY <1>2, <1>3

\* Movement in flight is a movement.
LEMMA InFlightType ==
    ASSUME NEW channels, Good(channels)
    PROVE  InFlight(channels) \in [Axes -> Int]
<1>1. CASE channels["mouse"].sent = <<>>
  BY <1>1, StillType DEF InFlight
<1>2. CASE channels["mouse"].sent # <<>>
  <2>1. channels["mouse"].sent \in Seq(MouseReport) /\ Len(channels["mouse"].sent) <= 1
    BY ReportTypes DEF Good, GoodChannel, Channel, Outputs
  <2>2. channels["mouse"].sent[1] \in MouseReport
    BY <1>2, <2>1
  <2> QED
    BY <1>2, <2>2 DEF InFlight, MouseReport
<1> QED
  BY <1>1, <1>2

-----------------------------------------------------------------------------
(* Type correctness *)

\* TypeOK without the channels.
Scalars ==
    /\ running \in BOOLEAN
    /\ mode \in Modes
    /\ active \in BOOLEAN
    /\ activeMode \in Modes
    /\ buttons \subseteq Buttons
    /\ touchpadZone \in Zones
    /\ usb \in {"unconfigured", "ready", "suspended"}
    /\ clamped \subseteq Axes
    /\ stale \subseteq Outputs

SaidOK ==
    /\ pc = [o \in Outputs |-> pc[o]]
    /\ \A o \in Outputs : pc[o] \in HeldType[o]

OwedOK == owed \in [Axes -> Int]

Typed == Good(out) /\ Scalars /\ SaidOK /\ OwedOK

\* Typed is TypeOK in the parts the steps are proved by.
LEMMA TypedIsTypeOK == Typed <=> TypeOK
BY DEF Typed, TypeOK, Good, GoodChannel, Scalars, SaidOK, OwedOK, Outputs

\* Owed to the PC: nothing on a clamped axis, what is in flight elsewhere.
LEMMA OwedReset ==
    ASSUME NEW channels, Good(channels), owed' = [a \in Axes |-> IF a \in clamped THEN 0 ELSE InFlight(channels)[a]]
    PROVE  OwedOK'
BY InFlightType DEF OwedOK

\* The named profiles are profiles, and so is the neighbour of one.
LEMMA InModes ==
    /\ kKeyboardMouse \in Modes /\ kGamepad \in Modes /\ kHybrid \in Modes
    /\ \A m \in Modes, d \in {"next", "previous"} : Neighbour(m, d) \in Modes
BY ButtonAssumption DEF Modes, Neighbour, kKeyboardMouse, kGamepad, kHybrid

\* What a report holds is something the PC can take to be held.
LEMMA HeldTypes ==
    ASSUME NEW o \in Outputs, NEW report \in ReportType[o]
    PROVE  Held(o, report) \in HeldType[o]
<1>1. CASE o = "mouse"
  <2>1. report \in MouseReport
    BY <1>1, ReportTypes
  <2>2. report.buttons \in SUBSET (MouseButtons \cup {kMouseButtonMiddle})
    BY <2>1 DEF MouseReport
  <2> QED
    BY <1>1, <2>2 DEF Held, HeldType
<1>2. CASE o = "keyboard"
  BY <1>2, ReportTypes DEF Held, HeldType
<1>3. CASE o = "gamepad"
  BY <1>3, ReportTypes DEF Held, HeldType
<1> QED
  BY <1>1, <1>2, <1>3 DEF Outputs

\* A PC that holds nothing is a PC.
LEMMA NothingTyped == Nothing = [o \in Outputs |-> Nothing[o]] /\ \A o \in Outputs : Nothing[o] \in HeldType[o]
BY DEF Nothing, HeldType, Outputs

\* Boot establishes the type invariant.
LEMMA InitTyped == Init => Typed
<1> SUFFICES ASSUME Init PROVE Typed
  OBVIOUS
<1>1. Good(out)
  BY IdleGood DEF Init
<1>2. Scalars
  BY InModes, ButtonAssumption DEF Init, Scalars, Outputs
<1>3. SaidOK
  BY NothingTyped DEF Init, SaidOK
<1>4. OwedOK
  BY StillType DEF Init, OwedOK
<1> QED
  BY <1>1, <1>2, <1>3, <1>4 DEF Typed

\* The report callback keeps it.
LEMMA ReportReceivedTyped ==
    ASSUME Typed, NEW r \in Reports, ReportReceived(r)
    PROVE  Typed'
<1>1. Good(out)'
  BY TypedIsTypeOK, ReceivedGood DEF ReportReceived, Good
<1>2. Scalars'
  <2>1. NextButtons(r) \subseteq Buttons
    BY ReportsType, ButtonAssumption DEF NextButtons, Buttons, Typed, Scalars
  <2>2. clamped' \subseteq Axes
    BY DEF ReportReceived, Overflows, Typed, Scalars
  <2>3. touchpadZone' \in Zones
    BY ReportsType DEF ReportReceived, Typed, Scalars
  <2> QED
    BY <2>1, <2>2, <2>3 DEF ReportReceived, Typed, Scalars
<1>3. SaidOK'
  BY DEF ReportReceived, Typed, SaidOK
<1>4. OwedOK'
  BY MovesType DEF ReportReceived, Typed, OwedOK
<1> QED
  BY <1>1, <1>2, <1>3, <1>4 DEF Typed

\* A profile switch keeps it.
LEMMA SwitchTyped ==
    ASSUME Typed, NEW d \in {"next", "previous"}, HandleModeSwitch(d)
    PROVE  Typed'
<1>1. Good(out)'
  BY ReleasedGood DEF HandleModeSwitch, Typed, Good
<1>2. Scalars'
  BY InModes, ButtonAssumption DEF HandleModeSwitch, Typed, Scalars
<1>3. SaidOK'
  BY DEF HandleModeSwitch, Typed, SaidOK
<1>4. OwedOK'
  BY <1>1, InFlightType DEF HandleModeSwitch, OwedOK
<1> QED
  BY <1>1, <1>2, <1>3, <1>4 DEF Typed

\* Both removal callbacks keep it.
LEMMA ForgetTyped ==
    ASSUME Typed, NEW channels, Good(channels), Forget(channels),
           activeMode' \in Modes, UNCHANGED <<running, mode, usb, pc, clamped>>
    PROVE  Typed'
<1>1. Good(out)'
  BY ClearedGood DEF Forget, Good
<1>2. Scalars'
  BY ButtonAssumption DEF Forget, Typed, Scalars, Differing
<1>3. SaidOK'
  BY DEF Typed, SaidOK
<1>4. OwedOK'
  BY <1>1, InFlightType DEF Forget, OwedOK
<1> QED
  BY <1>1, <1>2, <1>3, <1>4 DEF Typed

\* A poll keeps it.
LEMMA PollTyped ==
    ASSUME Typed, NEW o \in Outputs, HostPoll(o)
    PROVE  Typed'
<1>1. Good(out)'
  <2>1. \A q \in Outputs : out'[q] = IF q = o THEN [out[o] EXCEPT !.sent = <<>>] ELSE out[q]
    BY DEF HostPoll, Typed, Good
  <2>2. out' = [q \in Outputs |-> out'[q]]
    BY DEF HostPoll, Typed, Good
  <2> QED
    BY <2>1, <2>2, EmptiedGood DEF Typed, Good
<1>2. Scalars'
  BY DEF HostPoll, Typed, Scalars
<1>3. SaidOK'
  <2>1. Held(o, out[o].sent[1]) \in HeldType[o]
    BY Parts, HeldTypes DEF HostPoll, Typed, Good
  <2> QED
    BY <2>1 DEF HostPoll, Typed, SaidOK
<1>4. OwedOK'
  BY InFlightType DEF HostPoll, Typed, OwedOK
<1> QED
  BY <1>1, <1>2, <1>3, <1>4 DEF Typed

\* A bus reset keeps it.
LEMMA ResetTyped ==
    ASSUME Typed, BusReset
    PROVE  Typed'
<1>1. Good(out)'
  BY EmptiedGood DEF BusReset, Typed, Good
<1>2. Scalars'
  BY DEF BusReset, Typed, Scalars, Differing
<1>3. SaidOK'
  BY NothingTyped DEF BusReset, SaidOK
<1>4. OwedOK'
  <2>1. out["mouse"].report \in MouseReport
    BY Parts, ReportTypes DEF Typed, Good, Outputs
  <2>2. out["mouse"].report.move \in [Axes -> Int]
    BY <2>1 DEF MouseReport
  <2> QED
    BY <2>2 DEF BusReset, OwedOK
<1> QED
  BY <1>1, <1>2, <1>3, <1>4 DEF Typed

\* A boot keeps it.
LEMMA StartedTyped ==
    ASSUME NEW m \in Modes, Started(m)
    PROVE  Typed'
<1>1. Good(out)'
  BY IdleGood DEF Started, Good
<1>2. Scalars'
  BY InModes, ButtonAssumption DEF Started, Scalars, Outputs
<1>3. SaidOK'
  BY NothingTyped DEF Started, SaidOK
<1>4. OwedOK'
  BY StillType DEF Started, OwedOK
<1> QED
  BY <1>1, <1>2, <1>3, <1>4 DEF Typed

\* Every step keeps the type invariant.
LEMMA NextTyped == Typed /\ [Next]_vars => Typed'
<1> SUFFICES ASSUME Typed, [Next]_vars PROVE Typed'
  OBVIOUS
<1>1. ASSUME NEW r \in Reports, ReportReceived(r) PROVE Typed'
  BY <1>1, ReportReceivedTyped
<1>2. ASSUME NEW d \in {"next", "previous"}, HandleModeSwitch(d) PROVE Typed'
  BY <1>2, SwitchTyped
<1>3. CASE Activate
  BY <1>3 DEF Activate, Typed, Good, Scalars, SaidOK, OwedOK
<1>4. CASE HidUmount
  BY <1>4, ReleaseOnceGood, ForgetTyped DEF HidUmount, Typed, Scalars
<1>5. CASE DeviceUmount
  BY <1>5, InModes, ForgetTyped DEF DeviceUmount, Typed
<1>6. ASSUME NEW o \in Outputs, HostPoll(o) PROVE Typed'
  BY <1>6, PollTyped
<1>7. CASE BusReset
  BY <1>7, ResetTyped
<1>8. CASE Configure \/ Suspend \/ Resume
  BY <1>8 DEF Configure, Suspend, Resume, Port, Typed, Good, Scalars, SaidOK, OwedOK
<1>9. CASE Reboot
  BY <1>9, StartedTyped DEF Reboot, Typed, Scalars
<1>10. CASE PowerCycle
  BY <1>10, InModes, StartedTyped DEF PowerCycle, Typed, Scalars
<1>11. CASE UNCHANGED vars
  BY <1>11 DEF vars, Typed, Good, Scalars, SaidOK, OwedOK
<1> QED
  BY <1>1, <1>2, <1>3, <1>4, <1>5, <1>6, <1>7, <1>8, <1>9, <1>10, <1>11 DEF Next

\* Every report that is built or in flight is one the interface can carry, its
\* axes inside their range, for every set of inputs and every range.
THEOREM TypeCorrect == Spec => []TypeOK
<1>1. Init => Typed
  BY InitTyped
<1>2. Typed /\ [Next]_vars => Typed'
  BY NextTyped
<1>3. Typed => TypeOK
  BY TypedIsTypeOK
<1> QED
  BY <1>1, <1>2, <1>3, PTL DEF Spec

-----------------------------------------------------------------------------
(* Safety *)

\* Typed is as far as the proofs look into the types.
LEMMA TypedAlways == Spec => []Typed
<1>1. Init => Typed
  BY InitTyped
<1>2. Typed /\ [Next]_vars => Typed'
  BY NextTyped
<1> QED
  BY <1>1, <1>2, PTL DEF Spec

\* The channels a report callback leaves.
LEMMA ReceivedChannels ==
    ASSUME NEW r \in Reports
    PROVE  /\ Received(r)["keyboard"] =
                Flush("keyboard", ParseKeyboardChannel(Flush("keyboard", out["keyboard"]), r))
           /\ Received(r)["mouse"] =
                Flush("mouse", ParseMouseChannel(Flush("mouse", out["mouse"]), r))
           /\ Received(r)["gamepad"] =
                Flush("gamepad", ParseGamepadChannel(Flush("gamepad", out["gamepad"]), r))
BY DEF Received, FlushPendingOutputs, Parse, Outputs

\* Offering a channel to its endpoint keeps what its report holds.
LEMMA FlushHolds ==
    ASSUME NEW o \in Outputs, NEW c, GoodChannel(o, c)
    PROVE  /\ GoodChannel(o, Flush(o, c))
           /\ Held(o, Flush(o, c).report) = Held(o, c.report)
<1>1. c.report \in ReportType[o]
  BY Parts
<1>2. CASE Flush(o, c) = c
  BY <1>2
<1>3. CASE Flush(o, c) = [report |-> AfterSend(o, c.report),
                          pending |-> FALSE, sent |-> <<c.report>>]
  <2>1. Flush(o, c).report = AfterSend(o, c.report)
    BY <1>3
  <2> QED
    BY <1>1, <2>1, AfterSendType, FlushGood
<1> QED
  BY <1>2, <1>3, FlushCases, FlushGood

\* What a switch queues, output by output.
Queued(o) == [report |-> Neutral[o], pending |-> TRUE, sent |-> out[o].sent]

\* What a profile switch makes of each channel.
LEMMA ReleasedChannels ==
    ASSUME NEW o \in Outputs
    PROVE  Released[o] = IF o = "gamepad" \/ activeMode \in {kKeyboardMouse, kHybrid}
                         THEN Flush(o, Queued(o)) ELSE Flush(o, out[o])
BY DEF Released, FlushPendingOutputs, Queued

\* A queued release is a channel.
LEMMA QueuedGood ==
    ASSUME Typed, NEW o \in Outputs
    PROVE  GoodChannel(o, Queued(o)) /\ GoodChannel(o, out[o])
<1>1. GoodChannel(o, out[o])
  BY DEF Typed, Good
<1> QED
  BY <1>1, Parts, Built, NeutralType, NeutralInRange DEF Queued

\* What a poll and a bus reset do to the channels.
LEMMA PollEffect ==
    ASSUME Typed, NEW o \in Outputs, HostPoll(o)
    PROVE  /\ out[o].sent # <<>>
           /\ out'[o] = [report |-> out[o].report, pending |-> out[o].pending, sent |-> <<>>]
           /\ pc'[o] = Held(o, out[o].sent[1])
           /\ \A q \in Outputs \ {o} : out'[q] = out[q] /\ pc'[q] = pc[q]
           /\ \A q \in Outputs : out'[q].report = out[q].report
<1>1. GoodChannel(o, out[o])
  BY DEF Typed, Good
<1>2. /\ out[o].sent # <<>>
      /\ out'[o] = [report |-> out[o].report, pending |-> out[o].pending, sent |-> <<>>]
      /\ pc'[o] = Held(o, out[o].sent[1])
      /\ \A q \in Outputs \ {o} : out'[q] = out[q] /\ pc'[q] = pc[q]
  BY <1>1, Parts, Updated DEF HostPoll, Typed, Good, SaidOK
<1>3. ASSUME NEW q \in Outputs PROVE out'[q].report = out[q].report
  <2>1. CASE q = o
    BY <1>2, <2>1
  <2>2. CASE q # o
    BY <1>2, <2>2
  <2> QED
    BY <2>1, <2>2
<1> QED
  BY <1>2, <1>3

\* A bus reset empties the endpoints and leaves the reports.
LEMMA ResetEffect ==
    ASSUME Typed, BusReset, NEW o \in Outputs
    PROVE  /\ out'[o] = [report |-> out[o].report, pending |-> out[o].pending, sent |-> <<>>]
           /\ out'[o].report = out[o].report
<1>1. GoodChannel(o, out[o])
  BY DEF Typed, Good
<1>2. out'[o] = [report |-> out[o].report, pending |-> out[o].pending, sent |-> <<>>]
  BY <1>1, Parts, Updated DEF BusReset
<1> QED
  BY <1>2

-----------------------------------------------------------------------------
(* Reports are parsed for the booted mode *)

\* The profile reports are parsed for is the one the PC enumerated.
THEOREM ParsedForBootedModeHolds == Spec => []ParsedForBootedMode
<1>1. Init => ParsedForBootedMode
  BY DEF Init, ParsedForBootedMode
<1>2. ParsedForBootedMode /\ [Next]_vars => ParsedForBootedMode'
  BY DEF ParsedForBootedMode, Next, vars, ReportReceived, HandleModeSwitch, Activate,
         HidUmount, DeviceUmount, Forget, HostPoll, BusReset, Configure, Suspend, Resume,
         Port, Reboot, PowerCycle, Started
<1> QED
  BY <1>1, <1>2, PTL DEF Spec

-----------------------------------------------------------------------------
(* The gamepad report memset leaves is never sent *)

\* Inductive: a gamepad report that waits to be sent has been built since.
GamepadInv ==
    /\ NeverZeroedGamepad
    /\ out["gamepad"].pending => Unset \notin out["gamepad"].report

\* A gamepad channel that keeps GamepadInv.
NeverUnset(c) ==
    /\ c.sent # <<>> => Unset \notin c.sent[1]
    /\ c.pending => Unset \notin c.report

\* Flushing a gamepad report that memset did not build keeps it so.
LEMMA FlushBuilt ==
    ASSUME NEW c, NeverUnset(c)
    PROVE  NeverUnset(Flush("gamepad", c))
<1>1. CASE Flush("gamepad", c) = c
  BY <1>1
<1>2. CASE /\ c.pending
           /\ Flush("gamepad", c) = [report |-> AfterSend("gamepad", c.report),
                                     pending |-> FALSE, sent |-> <<c.report>>]
  BY <1>2 DEF NeverUnset
<1> QED
  BY <1>1, <1>2, FlushCases DEF Outputs

\* Every step keeps memset's report away from the endpoint and the PC.
LEMMA GamepadStep == Typed /\ GamepadInv /\ [Next]_vars => GamepadInv'
<1> SUFFICES ASSUME Typed, GamepadInv, [Next]_vars PROVE GamepadInv'
  OBVIOUS
<1> DEFINE c == out["gamepad"]
<1>a. NeverUnset(c) /\ Unset \notin pc["gamepad"]
  BY DEF GamepadInv, NeverZeroedGamepad, NeverUnset
<1>b. "gamepad" \in Outputs
  BY DEF Outputs
<1>c. ASSUME NeverUnset(out'["gamepad"]), Unset \notin pc'["gamepad"] PROVE GamepadInv'
  BY <1>c DEF GamepadInv, NeverZeroedGamepad, NeverUnset
<1>d. out'["gamepad"] = c /\ pc' = pc => GamepadInv'
  BY <1>a, <1>c
<1>1. ASSUME NEW r \in Reports, ReportReceived(r) PROVE GamepadInv'
  <2>1. NeverUnset(ParseGamepadChannel(Flush("gamepad", c), r))
    BY <1>a, FlushBuilt, ButtonAssumption DEF ParseGamepadChannel, NeverUnset
  <2>2. out'["gamepad"] = Flush("gamepad", ParseGamepadChannel(Flush("gamepad", c), r))
    BY <1>1, ReceivedChannels DEF ReportReceived
  <2>3. pc' = pc
    BY <1>1 DEF ReportReceived
  <2> QED
    BY <1>a, <1>c, <2>1, <2>2, <2>3, FlushBuilt
<1>2. ASSUME NEW d \in {"next", "previous"}, HandleModeSwitch(d) PROVE GamepadInv'
  <2>1. NeverUnset(Queued("gamepad"))
    BY <1>a DEF NeverUnset, Queued, Neutral
  <2>2. out'["gamepad"] = Flush("gamepad", Queued("gamepad")) /\ pc' = pc
    BY <1>2, <1>b, ReleasedChannels DEF HandleModeSwitch
  <2> QED
    BY <1>a, <1>c, <2>1, <2>2, FlushBuilt
<1>3. CASE HidUmount
  <2>1. NeverUnset(ReleaseOnce["gamepad"])
    <3>1. CASE ~Accepts("gamepad", c)
      BY <1>a, <1>b, <3>1 DEF ReleaseOnce
    <3>2. CASE Accepts("gamepad", c)
      <4>1. GoodChannel("gamepad", c)
        BY <1>b DEF Typed, Good
      <4>2. ReleaseOnce["gamepad"] = [report |-> c.report, pending |-> c.pending,
                                      sent |-> <<Neutral["gamepad"]>>]
        BY <1>b, <3>2, <4>1, Parts, Updated DEF ReleaseOnce
      <4> QED
        BY <1>a, <4>2 DEF NeverUnset, Neutral
    <3> QED
      BY <3>1, <3>2
  <2>2. out'["gamepad"] = [report |-> Zeroed["gamepad"], pending |-> FALSE,
                           sent |-> ReleaseOnce["gamepad"].sent] /\ pc' = pc
    BY <1>3, <1>b DEF HidUmount, Forget, Cleared
  <2> QED
    BY <1>a, <1>c, <2>1, <2>2 DEF NeverUnset
<1>4. CASE DeviceUmount
  <2>1. out'["gamepad"] = [report |-> Zeroed["gamepad"], pending |-> FALSE, sent |-> c.sent]
        /\ pc' = pc
    BY <1>4, <1>b DEF DeviceUmount, Forget, Cleared
  <2> QED
    BY <1>a, <1>c, <2>1 DEF NeverUnset
<1>5. ASSUME NEW o \in Outputs, HostPoll(o) PROVE GamepadInv'
  <2>1. CASE o = "gamepad"
    <3>1. /\ c.sent # <<>>
          /\ out'["gamepad"] = [report |-> c.report, pending |-> c.pending, sent |-> <<>>]
          /\ pc'["gamepad"] = c.sent[1]
      BY <1>5, <2>1, PollEffect DEF Held
    <3> QED
      BY <1>a, <1>c, <3>1 DEF NeverUnset
  <2>2. CASE o # "gamepad"
    <3>1. out'["gamepad"] = c /\ pc'["gamepad"] = pc["gamepad"]
      BY <1>5, <2>2, <1>b, PollEffect
    <3> QED
      BY <1>a, <1>c, <3>1
  <2> QED
    BY <2>1, <2>2
<1>6. CASE BusReset
  <2>1. out'["gamepad"] = [report |-> c.report, pending |-> c.pending, sent |-> <<>>]
    BY <1>6, <1>b, ResetEffect
  <2>2. pc'["gamepad"] = {}
    BY <1>6 DEF BusReset, Nothing
  <2> QED
    BY <1>a, <1>c, <2>1, <2>2 DEF NeverUnset
<1>7. CASE Activate \/ Configure \/ Suspend \/ Resume \/ UNCHANGED vars
  BY <1>7, <1>d DEF Activate, Configure, Suspend, Resume, Port, vars
<1>8. ASSUME NEW m, Started(m) PROVE GamepadInv'
  <2>1. out'["gamepad"].sent = <<>> /\ ~out'["gamepad"].pending /\ pc'["gamepad"] = {}
    BY <1>8, <1>b DEF Started, IdleChannels, Nothing
  <2> QED
    BY <1>c, <2>1 DEF NeverUnset
<1>9. CASE Reboot \/ PowerCycle
  BY <1>8, <1>9 DEF Reboot, PowerCycle
<1> QED
  BY <1>1, <1>2, <1>3, <1>4, <1>5, <1>6, <1>7, <1>9 DEF Next

\* The PC never sees a gamepad report whose hat is up and whose sticks are in a
\* corner because memset left it so.
THEOREM NeverZeroedGamepadHolds == Spec => []NeverZeroedGamepad
<1>1. Init => GamepadInv
  BY DEF Init, GamepadInv, NeverZeroedGamepad, IdleChannels, Nothing, Outputs
<1>2. GamepadInv => NeverZeroedGamepad
  BY DEF GamepadInv
<1> QED
  BY <1>1, <1>2, GamepadStep, TypedAlways, PTL DEF Spec

-----------------------------------------------------------------------------
(* Reports hold what is down *)

\* Inductive: in a profile that parses no keys nothing is down, and a hybrid
\* profile holds no mouse button.
TrackInv ==
    /\ ReportsTrackInputs
    /\ activeMode \notin {kKeyboardMouse, kHybrid} => buttons = {} /\ touchpadZone = 0
    /\ activeMode = kHybrid => buttons \cap MouseButtons = {}

\* Applying what changed to a report that holds what was down.
LEMMA ToggledHolds ==
    ASSUME NEW S, NEW Z, Z \cap S = {}, NEW r
    PROVE  Toggled((buttons \cap S) \cup Z, S, r) = (NextButtons(r) \cap S) \cup Z
BY DEF Toggled

\* What a zone presses is not what a button presses.
LEMMA ZonesApart ==
    ASSUME NEW z
    PROVE  ZoneKeys(z) \cap KeyButtons = {} /\ ZoneButtons(z) \cap MouseButtons = {}
BY ButtonAssumption DEF ZoneKeys, ZoneButtons

\* No click presses nothing.
LEMMA NoZone == ZoneKeys(0) = {} /\ ZoneButtons(0) = {}
BY DEF ZoneKeys, ZoneButtons

\* What the callback leaves of touchpad_zone.
ZoneAfter(r) == IF ClickChanged(r) THEN r.zone ELSE touchpadZone

\* Toggling what changed leaves a report of what is held now (ProcessButtons,
\* ParseTouchpadClick).
LEMMA ParseHolds ==
    ASSUME TrackInv, Typed, NEW r \in Reports
    PROVE  /\ ParseKeyboard(out["keyboard"].report, r)
                = (NextButtons(r) \cap KeyButtons) \cup ZoneKeys(ZoneAfter(r))
           /\ ParseMouseButtons(out["mouse"].report.buttons, r)
                = (NextButtons(r) \cap MouseButtons) \cup ZoneButtons(ZoneAfter(r))
           /\ activeMode \notin {kKeyboardMouse, kHybrid}
                => NextButtons(r) = {} /\ ZoneAfter(r) = 0
           /\ activeMode = kHybrid => NextButtons(r) \cap MouseButtons = {}
<1>1. Toggled(out["keyboard"].report, KeyButtons, r)
        = (NextButtons(r) \cap KeyButtons) \cup ZoneKeys(touchpadZone)
  BY ToggledHolds, ZonesApart DEF TrackInv, ReportsTrackInputs
<1>2. Toggled(out["mouse"].report.buttons, MouseButtons, r)
        = (NextButtons(r) \cap MouseButtons) \cup ZoneButtons(touchpadZone)
  BY ToggledHolds, ZonesApart DEF TrackInv, ReportsTrackInputs
<1>3. ParseKeyboard(out["keyboard"].report, r)
        = (NextButtons(r) \cap KeyButtons) \cup ZoneKeys(ZoneAfter(r))
  <2>1. CASE ClickChanged(r)
    BY <1>1, <2>1, ZonesApart DEF ParseKeyboard, ZoneReleased, ZonePressed, ZoneAfter
  <2>2. CASE ~ClickChanged(r)
    BY <1>1, <2>2, NoZone DEF ParseKeyboard, ZoneReleased, ZonePressed, ZoneAfter
  <2> QED
    BY <2>1, <2>2
<1>4. activeMode # kKeyboardMouse => ~ClickChanged(r)
  BY DEF ClickChanged
<1>5. activeMode = kHybrid => NextButtons(r) \cap MouseButtons = {}
  BY ButtonAssumption DEF NextButtons, kKeyboardMouse, kHybrid
<1>6. activeMode \notin {kKeyboardMouse, kHybrid} => NextButtons(r) = {} /\ ZoneAfter(r) = 0
  BY <1>4 DEF NextButtons, ZoneAfter, TrackInv
<1>7. ParseMouseButtons(out["mouse"].report.buttons, r)
        = (NextButtons(r) \cap MouseButtons) \cup ZoneButtons(ZoneAfter(r))
  <2>1. CASE activeMode = kKeyboardMouse /\ ClickChanged(r)
    BY <1>2, <2>1, ZonesApart DEF ParseMouseButtons, ZoneReleased, ZonePressed, ZoneAfter
  <2>2. CASE activeMode = kKeyboardMouse /\ ~ClickChanged(r)
    BY <1>2, <2>2, NoZone DEF ParseMouseButtons, ZoneReleased, ZonePressed, ZoneAfter
  <2>3. CASE activeMode # kKeyboardMouse
    <3>1. ZoneAfter(r) = touchpadZone /\ NextButtons(r) \cap MouseButtons = {}
      BY <1>4, <1>5, <1>6, <2>3 DEF ZoneAfter
    <3>2. buttons \cap MouseButtons = {}
      BY <2>3 DEF TrackInv
    <3> QED
      BY <2>3, <3>1, <3>2 DEF ParseMouseButtons, TrackInv, ReportsTrackInputs
  <2> QED
    BY <2>1, <2>2, <2>3
<1> QED
  BY <1>3, <1>5, <1>6, <1>7

\* Every output's report holds nothing.
Emptied == /\ out["keyboard"].report = {}
           /\ out["mouse"].report.buttons = {}
           /\ buttons = {} /\ touchpadZone = 0

\* Reports that hold nothing agree with inputs that are all up.
LEMMA EmptiedTracks == Emptied => TrackInv
BY NoZone DEF Emptied, TrackInv, ReportsTrackInputs

\* Every step keeps reports and inputs in agreement.
LEMMA TrackStep == Typed /\ TrackInv /\ [Next]_vars => TrackInv'
<1> SUFFICES ASSUME Typed, TrackInv, [Next]_vars PROVE TrackInv'
  OBVIOUS
<1>b. "keyboard" \in Outputs /\ "mouse" \in Outputs
  BY DEF Outputs
<1>c. GoodChannel("keyboard", out["keyboard"]) /\ GoodChannel("mouse", out["mouse"])
  BY <1>b DEF Typed, Good
<1>d. ASSUME Emptied' PROVE TrackInv'
  BY <1>d, NoZone DEF Emptied, TrackInv, ReportsTrackInputs
<1>e. ASSUME /\ out'["keyboard"].report = out["keyboard"].report
             /\ out'["mouse"].report.buttons = out["mouse"].report.buttons,
             UNCHANGED <<active, activeMode, buttons, touchpadZone>>
      PROVE  TrackInv'
  BY <1>e DEF TrackInv, ReportsTrackInputs
<1>1. ASSUME NEW r \in Reports, ReportReceived(r) PROVE TrackInv'
  <2> DEFINE k == Flush("keyboard", out["keyboard"])
             m == Flush("mouse", out["mouse"])
  <2>1. k.report = out["keyboard"].report /\ GoodChannel("keyboard", k)
    BY <1>b, <1>c, FlushHolds DEF Held
  <2>2. m.report.buttons = out["mouse"].report.buttons /\ GoodChannel("mouse", m)
    BY <1>b, <1>c, FlushHolds DEF Held
  <2>3. /\ GoodChannel("keyboard", ParseKeyboardChannel(k, r))
        /\ GoodChannel("mouse", ParseMouseChannel(m, r))
    <3> DEFINE f == FlushPendingOutputs(out)
    <3>1. Good(Parse(f, r))
      BY FlushPendingGood, ParseGood DEF Typed
    <3>2. f["keyboard"] = k /\ f["mouse"] = m
      BY <1>b DEF FlushPendingOutputs
    <3> QED
      BY <1>b, <3>1, <3>2 DEF Good, Parse
  <2>4. ParseKeyboardChannel(k, r).report = ParseKeyboard(k.report, r)
    BY DEF ParseKeyboardChannel
  <2>5. ParseMouseChannel(m, r).report.buttons = ParseMouseButtons(m.report.buttons, r)
    BY DEF ParseMouseChannel
  <2> HIDE DEF k, m
  <2>6. out'["keyboard"].report = ParseKeyboard(out["keyboard"].report, r)
    <3>1. out'["keyboard"] = Flush("keyboard", ParseKeyboardChannel(k, r))
      BY <1>1, ReceivedChannels DEF ReportReceived, k
    <3> QED
      BY <1>b, <2>1, <2>3, <2>4, <3>1, FlushHolds DEF Held
  <2>7. out'["mouse"].report.buttons = ParseMouseButtons(out["mouse"].report.buttons, r)
    <3>1. out'["mouse"] = Flush("mouse", ParseMouseChannel(m, r))
      BY <1>1, ReceivedChannels DEF ReportReceived, m
    <3> QED
      BY <1>b, <2>2, <2>3, <2>5, <3>1, FlushHolds DEF Held
  <2>8. /\ buttons' = NextButtons(r) /\ touchpadZone' = ZoneAfter(r)
        /\ active' = active /\ activeMode' = activeMode /\ active
    BY <1>1 DEF ReportReceived, ZoneAfter
  <2> QED
    BY <2>6, <2>7, <2>8, ParseHolds DEF TrackInv, ReportsTrackInputs
<1>2. ASSUME NEW d \in {"next", "previous"}, HandleModeSwitch(d) PROVE TrackInv'
  <2>1. CASE activeMode \in {kKeyboardMouse, kHybrid}
    <3>1. /\ out'["keyboard"] = Flush("keyboard", Queued("keyboard"))
          /\ out'["mouse"] = Flush("mouse", Queued("mouse"))
      BY <1>2, <2>1, <1>b, ReleasedChannels DEF HandleModeSwitch
    <3>2. Queued("keyboard").report = {} /\ Queued("mouse").report.buttons = {}
      BY DEF Queued, Neutral, NoMouse
    <3>3. out'["keyboard"].report = {} /\ out'["mouse"].report.buttons = {}
      BY <1>b, <3>1, <3>2, QueuedGood, FlushHolds DEF Held
    <3> QED
      BY <1>2, <1>d, <3>3 DEF HandleModeSwitch, Emptied
  <2>2. CASE activeMode \notin {kKeyboardMouse, kHybrid}
    <3>1. /\ out'["keyboard"] = Flush("keyboard", out["keyboard"])
          /\ out'["mouse"] = Flush("mouse", out["mouse"])
      BY <1>2, <2>2, <1>b, ReleasedChannels DEF HandleModeSwitch
    <3>2. out["keyboard"].report = {} /\ out["mouse"].report.buttons = {}
      BY <2>2, NoZone DEF TrackInv, ReportsTrackInputs
    <3>3. out'["keyboard"].report = {} /\ out'["mouse"].report.buttons = {}
      BY <1>b, <1>c, <3>1, <3>2, FlushHolds DEF Held
    <3> QED
      BY <1>2, <1>d, <3>3 DEF HandleModeSwitch, Emptied
  <2> QED
    BY <2>1, <2>2
<1>3. CASE Activate
  BY <1>3, NoZone DEF Activate, TrackInv, ReportsTrackInputs
<1>4. CASE HidUmount \/ DeviceUmount
  BY <1>4, <1>b, <1>d DEF HidUmount, DeviceUmount, Forget, Cleared, Zeroed, NoMouse, Emptied
<1>5. ASSUME NEW o \in Outputs, HostPoll(o) PROVE TrackInv'
  <2>1. /\ out'["keyboard"].report = out["keyboard"].report
        /\ out'["mouse"].report = out["mouse"].report
    BY <1>5, <1>b, PollEffect
  <2>2. UNCHANGED <<active, activeMode, buttons, touchpadZone>>
    BY <1>5 DEF HostPoll
  <2> QED
    BY <1>e, <2>1, <2>2
<1>6. CASE BusReset
  <2>1. /\ out'["keyboard"].report = out["keyboard"].report
        /\ out'["mouse"].report = out["mouse"].report
    BY <1>6, <1>b, ResetEffect
  <2>2. UNCHANGED <<active, activeMode, buttons, touchpadZone>>
    BY <1>6 DEF BusReset
  <2> QED
    BY <1>e, <2>1, <2>2
<1>7. CASE Configure \/ Suspend \/ Resume \/ UNCHANGED vars
  BY <1>7, <1>e DEF Configure, Suspend, Resume, Port, vars
<1>8. ASSUME NEW m, Started(m) PROVE TrackInv'
  BY <1>8, <1>b, <1>d DEF Started, IdleChannels, Zeroed, NoMouse, Emptied
<1>9. CASE Reboot \/ PowerCycle
  BY <1>8, <1>9 DEF Reboot, PowerCycle
<1> QED
  BY <1>1, <1>2, <1>3, <1>4, <1>5, <1>6, <1>7, <1>9 DEF Next

\* The keyboard report and the mouse buttons hold exactly what is down, in
\* every profile and through every switch, disconnection and bus reset.
THEOREM ReportsTrackInputsHold == Spec => []ReportsTrackInputs
<1>1. Init => TrackInv
  <2>1. Init => Emptied
    BY DEF Init, IdleChannels, Zeroed, NoMouse, Emptied, Outputs
  <2> QED
    BY <2>1, EmptiedTracks
<1>2. TrackInv => ReportsTrackInputs
  BY DEF TrackInv
<1> QED
  BY <1>1, <1>2, TrackStep, TypedAlways, PTL DEF Spec

-----------------------------------------------------------------------------
(* Movement *)

\* The movement in a channel's endpoint.
Flying(c) == IF c.sent = <<>> THEN Still ELSE c.sent[1].move

\* What flies is read from the mouse channel alone.
LEMMA InFlightIsFlying == \A channels : InFlight(channels) = Flying(channels["mouse"])
BY DEF InFlight, Flying

\* Inductive: nothing moves while no profile reads movement.
MoveInv ==
    /\ MovementConserved
    /\ MovementPending
    /\ ~active \/ activeMode \notin {kKeyboardMouse, kHybrid} =>
        out["mouse"].report.move = Still

\* The movement in a mouse channel, waiting or in flight, is a movement.
LEMMA MouseParts ==
    ASSUME NEW c, GoodChannel("mouse", c)
    PROVE  c.report.move \in [Axes -> Int] /\ Flying(c) \in [Axes -> Int]
<1>1. "mouse" \in Outputs
  BY DEF Outputs
<1>2. c.report \in MouseReport /\ (c.sent # <<>> => c.sent[1] \in MouseReport)
  BY <1>1, Parts, ReportTypes
<1> QED
  BY <1>2, StillType DEF MouseReport, Flying

\* A report that is accepted carries the movement it is cleared of.
LEMMA FlushMoves ==
    ASSUME NEW c, GoodChannel("mouse", c)
    PROVE  /\ \A a \in Axes : Flush("mouse", c).report.move[a] + Flying(Flush("mouse", c))[a]
                             = c.report.move[a] + Flying(c)[a]
           /\ c.report.move = Still => Flush("mouse", c).report.move = Still
           /\ (c.report.move # Still => c.pending) =>
                (Flush("mouse", c).report.move # Still => Flush("mouse", c).pending)
<1> DEFINE f == Flush("mouse", c)
<1>b. "mouse" \in Outputs
  BY DEF Outputs
<1>1. CASE f = c
  BY <1>1
<1>2. CASE /\ c.pending /\ Accepts("mouse", c)
           /\ f = [report |-> AfterSend("mouse", c.report), pending |-> FALSE,
                   sent |-> <<c.report>>]
  <2>1. c.sent = <<>>
    BY <1>2 DEF Accepts
  <2>2. c.report \in MouseReport
    BY <1>b, Parts, ReportTypes
  <2>3. AfterSend("mouse", c.report).move = Still
    BY <2>2 DEF AfterSend, MouseReport
  <2>4. f.report.move = Still /\ f.sent = <<c.report>>
    BY <1>2, <2>3
  <2> HIDE DEF f
  <2>s. <<c.report>> # <<>> /\ <<c.report>>[1] = c.report
    BY <2>2, Single
  <2>5. Flying(f) = c.report.move /\ Flying(c) = Still
    BY <2>1, <2>4, <2>s DEF Flying
  <2>6. \A a \in Axes : f.report.move[a] + Flying(f)[a] = c.report.move[a] + Flying(c)[a]
    BY <2>4, <2>5, MouseParts DEF Still
  <2> QED
    BY <2>4, <2>6 DEF f
<1> QED
  BY <1>1, <1>2, <1>b, FlushCases

\* Adding nothing to nothing.
LEMMA StillStays ==
    ASSUME NEW r, Moves(r) = Still
    PROVE  Accumulated(Still, r) = Still
<1>1. \A a \in Axes : ClampAxis(a, 0) = 0
  BY AxisAssumption DEF ClampAxis
<1> QED
  BY <1>1 DEF Accumulated, Still

\* The callback accounts for what it moves, through both of its flushes.
LEMMA ReportReceivedMoves ==
    ASSUME Typed, MoveInv, NEW r \in Reports, ReportReceived(r)
    PROVE  MoveInv'
<1> DEFINE m == Flush("mouse", out["mouse"])
           p == ParseMouseChannel(m, r)
<1>b. "mouse" \in Outputs
  BY DEF Outputs
<1>1. GoodChannel("mouse", out["mouse"]) /\ GoodChannel("mouse", m)
  BY <1>b, FlushHolds DEF Typed, Good
<1>2. GoodChannel("mouse", p)
  <2> DEFINE f == FlushPendingOutputs(out)
  <2>1. Good(Parse(f, r))
    BY FlushPendingGood, ParseGood DEF Typed
  <2>2. f["mouse"] = m
    BY <1>b DEF FlushPendingOutputs
  <2> QED
    BY <1>b, <2>1, <2>2 DEF Good, Parse
<1>3. out'["mouse"] = Flush("mouse", p)
  BY ReceivedChannels DEF ReportReceived
<1>4. p.report.move = Accumulated(m.report.move, r) /\ p.sent = m.sent
  BY DEF ParseMouseChannel
<1>5. p.pending <=> \/ m.pending
                    \/ Moves(r) # Still
                    \/ /\ activeMode = kKeyboardMouse
                       /\ \/ ParseMouseButtons(m.report.buttons, r) # m.report.buttons
                          \/ Accumulated(m.report.move, r) # Still
  BY DEF ParseMouseChannel
<1>6. \A a \in Axes : (a \in Overflows(r)) <=>
                       p.report.move[a] # m.report.move[a] + Moves(r)[a]
  BY <1>4 DEF Overflows, Accumulated
<1> HIDE DEF m, p
<1>7. /\ \A a \in Axes : m.report.move[a] + Flying(m)[a]
                        = out["mouse"].report.move[a] + Flying(out["mouse"])[a]
      /\ out["mouse"].report.move = Still => m.report.move = Still
      /\ m.report.move # Still => m.pending
  BY <1>1, FlushMoves DEF m, MoveInv, MovementPending
<1>8. p.report.move # Still => p.pending
  BY <1>4, <1>5, <1>7, StillStays
<1>9. /\ \A a \in Axes : out'["mouse"].report.move[a] + Flying(out'["mouse"])[a]
                        = p.report.move[a] + Flying(p)[a]
      /\ p.report.move = Still => out'["mouse"].report.move = Still
      /\ out'["mouse"].report.move # Still => out'["mouse"].pending
  BY <1>2, <1>3, <1>8, FlushMoves
<1>10. MovementConserved'
  <2> SUFFICES ASSUME NEW a \in Axes \ clamped'
               PROVE  owed'[a] = out'["mouse"].report.move[a] + Flying(out'["mouse"])[a]
    BY InFlightIsFlying DEF MovementConserved
  <2>1. a \in Axes \ clamped /\ a \notin Overflows(r)
    BY DEF ReportReceived
  <2>2. owed'[a] = owed[a] + Moves(r)[a]
    BY DEF ReportReceived
  <2>3. owed[a] = out["mouse"].report.move[a] + Flying(out["mouse"])[a]
    BY <2>1, InFlightIsFlying DEF MoveInv, MovementConserved
  <2>4. p.report.move[a] = m.report.move[a] + Moves(r)[a]
    BY <1>6, <2>1
  <2>5. Flying(p)[a] = Flying(m)[a]
    BY <1>4 DEF Flying
  <2>6. /\ Moves(r)[a] \in Int /\ m.report.move[a] \in Int /\ Flying(m)[a] \in Int
        /\ out["mouse"].report.move[a] \in Int /\ Flying(out["mouse"])[a] \in Int
    BY <1>1, MouseParts, MovesType
  <2>7. out'["mouse"].report.move[a] + Flying(out'["mouse"])[a]
          = m.report.move[a] + Moves(r)[a] + Flying(m)[a]
    BY <1>9, <2>4, <2>5
  <2>8. m.report.move[a] + Flying(m)[a]
          = out["mouse"].report.move[a] + Flying(out["mouse"])[a]
    BY <1>7
  <2> QED
    BY <2>2, <2>3, <2>6, <2>7, <2>8
<1>11. MovementPending'
  BY <1>9 DEF MovementPending
<1>12. activeMode \notin {kKeyboardMouse, kHybrid} => out'["mouse"].report.move = Still
  <2> SUFFICES ASSUME activeMode \notin {kKeyboardMouse, kHybrid}
               PROVE  out'["mouse"].report.move = Still
    OBVIOUS
  <2>1. Moves(r) = Still
    BY DEF Moves, Still
  <2>2. m.report.move = Still
    BY <1>7 DEF MoveInv
  <2> QED
    BY <1>4, <1>9, <2>1, <2>2, StillStays
<1> QED
  BY <1>10, <1>11, <1>12 DEF MoveInv, ReportReceived

\* Every step accounts for the movement.
LEMMA MoveStep == Typed /\ MoveInv /\ [Next]_vars => MoveInv'
<1> SUFFICES ASSUME Typed, MoveInv, [Next]_vars PROVE MoveInv'
  OBVIOUS
<1>b. "mouse" \in Outputs
  BY DEF Outputs
<1>c. GoodChannel("mouse", out["mouse"])
  BY <1>b DEF Typed, Good
<1>d. ASSUME out'["mouse"].report.move = Still,
             \A a \in Axes \ clamped' : owed'[a] = Flying(out'["mouse"])[a]
      PROVE  MoveInv'
  <2>1. Good(out)'
    BY NextTyped DEF Typed
  <2>2. Flying(out'["mouse"]) \in [Axes -> Int]
    BY <1>b, <2>1, MouseParts DEF Good
  <2>3. \A a \in Axes : Still[a] + Flying(out'["mouse"])[a] = Flying(out'["mouse"])[a]
    BY <2>2 DEF Still
  <2> QED
    BY <1>d, <2>3, InFlightIsFlying DEF MoveInv, MovementConserved, MovementPending
<1>1. ASSUME NEW r \in Reports, ReportReceived(r) PROVE MoveInv'
  BY <1>1, ReportReceivedMoves
<1>2. ASSUME NEW d \in {"next", "previous"}, HandleModeSwitch(d) PROVE MoveInv'
  <2>1. out'["mouse"].report.move = Still
    <3>1. CASE activeMode \in {kKeyboardMouse, kHybrid}
      <4>1. out'["mouse"] = Flush("mouse", Queued("mouse"))
        BY <1>2, <3>1, <1>b, ReleasedChannels DEF HandleModeSwitch
      <4>2. Queued("mouse").report.move = Still
        BY DEF Queued, Neutral, NoMouse
      <4> QED
        BY <1>b, <4>1, <4>2, QueuedGood, FlushMoves
    <3>2. CASE activeMode \notin {kKeyboardMouse, kHybrid}
      <4>1. out'["mouse"] = Flush("mouse", out["mouse"])
        BY <1>2, <3>2, <1>b, ReleasedChannels DEF HandleModeSwitch
      <4> QED
        BY <1>c, <3>2, <4>1, FlushMoves DEF MoveInv
    <3> QED
      BY <3>1, <3>2
  <2>2. \A a \in Axes \ clamped' : owed'[a] = Flying(out'["mouse"])[a]
    BY <1>2, InFlightIsFlying DEF HandleModeSwitch
  <2> QED
    BY <1>d, <2>1, <2>2
<1>3. CASE Activate
  BY <1>3, InFlightIsFlying DEF Activate, MoveInv, MovementConserved, MovementPending
<1>4. CASE HidUmount \/ DeviceUmount
  <2>1. out'["mouse"].report.move = Still
    BY <1>4, <1>b DEF HidUmount, DeviceUmount, Forget, Cleared, Zeroed, NoMouse
  <2>2. \A a \in Axes \ clamped' : owed'[a] = Flying(out'["mouse"])[a]
    BY <1>4, InFlightIsFlying DEF HidUmount, DeviceUmount, Forget
  <2> QED
    BY <1>d, <2>1, <2>2
<1>5. ASSUME NEW o \in Outputs, HostPoll(o) PROVE MoveInv'
  <2>1. CASE o = "mouse"
    <3>1. /\ out'["mouse"] = [report |-> out["mouse"].report,
                             pending |-> out["mouse"].pending, sent |-> <<>>]
      BY <1>5, <2>1, <1>b, PollEffect
    <3>2. \A a \in Axes \ clamped : owed'[a] = owed[a] - Flying(out["mouse"])[a]
      BY <1>5, <2>1, InFlightIsFlying DEF HostPoll
    <3>3. /\ Flying(out'["mouse"]) = Still
          /\ out'["mouse"].report = out["mouse"].report
          /\ out'["mouse"].pending = out["mouse"].pending
      BY <3>1 DEF Flying
    <3>4. \A a \in Axes \ clamped : owed[a] = out["mouse"].report.move[a] + Flying(out["mouse"])[a]
      BY InFlightIsFlying DEF MoveInv, MovementConserved
    <3>5. \A a \in Axes : out["mouse"].report.move[a] \in Int /\ Flying(out["mouse"])[a] \in Int
      BY <1>c, MouseParts
    <3>6. \A a \in Axes \ clamped : owed'[a] = out'["mouse"].report.move[a] + Flying(out'["mouse"])[a]
      BY <3>2, <3>3, <3>4, <3>5 DEF Still
    <3>7. UNCHANGED <<active, activeMode, clamped>>
      BY <1>5 DEF HostPoll
    <3> QED
      BY <3>3, <3>6, <3>7, InFlightIsFlying DEF MoveInv, MovementConserved, MovementPending
  <2>2. CASE o # "mouse"
    <3>1. out'["mouse"] = out["mouse"]
      BY <1>5, <2>2, <1>b, PollEffect
    <3>2. UNCHANGED <<active, activeMode, clamped, owed>>
      BY <1>5, <2>2 DEF HostPoll
    <3> QED
      BY <3>1, <3>2, InFlightIsFlying DEF MoveInv, MovementConserved, MovementPending
  <2> QED
    BY <2>1, <2>2
<1>6. CASE BusReset
  <2>1. out'["mouse"] = [report |-> out["mouse"].report,
                         pending |-> out["mouse"].pending, sent |-> <<>>]
    BY <1>6, <1>b, ResetEffect
  <2>2. /\ Flying(out'["mouse"]) = Still
        /\ out'["mouse"].report = out["mouse"].report
        /\ out'["mouse"].pending = out["mouse"].pending
    BY <2>1 DEF Flying
  <2>3. \A a \in Axes : out["mouse"].report.move[a] \in Int
    BY <1>c, MouseParts
  <2>4. \A a \in Axes \ clamped : owed'[a] = out'["mouse"].report.move[a] + Flying(out'["mouse"])[a]
    BY <1>6, <2>2, <2>3 DEF BusReset, Still
  <2>5. UNCHANGED <<active, activeMode, clamped>>
    BY <1>6 DEF BusReset
  <2> QED
    BY <2>2, <2>4, <2>5, InFlightIsFlying DEF MoveInv, MovementConserved, MovementPending
<1>7. CASE Configure \/ Suspend \/ Resume \/ UNCHANGED vars
  <2>1. out' = out /\ UNCHANGED <<active, activeMode, clamped, owed>>
    BY <1>7 DEF Configure, Suspend, Resume, Port, vars
  <2> QED
    BY <2>1, InFlightIsFlying DEF MoveInv, MovementConserved, MovementPending
<1>8. ASSUME NEW m, Started(m) PROVE MoveInv'
  <2>1. out'["mouse"].report.move = Still /\ out'["mouse"].sent = <<>>
    BY <1>8, <1>b DEF Started, IdleChannels, Zeroed, NoMouse
  <2>2. owed' = Still
    BY <1>8 DEF Started
  <2> QED
    BY <1>d, <2>1, <2>2 DEF Flying
<1>9. CASE Reboot \/ PowerCycle
  BY <1>8, <1>9 DEF Reboot, PowerCycle
<1> QED
  BY <1>1, <1>2, <1>3, <1>4, <1>5, <1>6, <1>7, <1>9 DEF Next

\* At boot nothing moves.
LEMMA InitMoves == Init => MoveInv
<1> SUFFICES ASSUME Init PROVE MoveInv
  OBVIOUS
<1>1. out["mouse"].report.move = Still /\ out["mouse"].sent = <<>> /\ owed = Still
  BY DEF Init, IdleChannels, Zeroed, NoMouse, Outputs
<1>2. InFlight(out) = Still
  BY <1>1 DEF InFlight
<1> QED
  BY <1>1, <1>2 DEF MoveInv, MovementConserved, MovementPending, Still

\* No movement is lost or sent twice, for every range of the axes, however
\* slowly the PC polls.
THEOREM MovementConservedHolds == Spec => []MovementConserved
<1>1. MoveInv => MovementConserved
  BY DEF MoveInv
<1> QED
  BY <1>1, InitMoves, MoveStep, TypedAlways, PTL DEF Spec

\* Movement never waits for the next controller report to become pending.
THEOREM MovementPendingHolds == Spec => []MovementPending
<1>1. MoveInv => MovementPending
  BY DEF MoveInv
<1> QED
  BY <1>1, InitMoves, MoveStep, TypedAlways, PTL DEF Spec

-----------------------------------------------------------------------------
(* What is not pending has been said *)

\* A channel and what the PC has seen agree, or the channel will speak.
Said(o, c, seen) == c.pending \/ LastSaid(o, c, seen) = Held(o, c.report)

\* NothingUnsaid, channel by channel.
LEMMA UnsaidIsSaid ==
    NothingUnsaid <=>
        \A o \in Outputs : HasOutput(mode, o) /\ o \notin stale => Said(o, out[o], pc[o])
BY DEF NothingUnsaid, Said

\* Offering a channel that agrees, or one that is pending, leaves it agreeing;
\* an endpoint that fills holds what the report says.
LEMMA FlushSaid ==
    ASSUME NEW o \in Outputs, NEW c, GoodChannel(o, c), NEW seen
    PROVE  /\ Said(o, c, seen) => Said(o, Flush(o, c), seen)
           /\ Flush(o, c).sent # c.sent => Said(o, Flush(o, c), seen)
<1> DEFINE f == Flush(o, c)
<1>1. CASE f = c
  BY <1>1
<1>2. CASE f = [report |-> AfterSend(o, c.report), pending |-> FALSE, sent |-> <<c.report>>]
  <2>1. c.report \in ReportType[o]
    BY Parts
  <2>2. <<c.report>> # <<>> /\ <<c.report>>[1] = c.report
    BY <2>1, Single
  <2>3. f.report = AfterSend(o, c.report) /\ f.sent = <<c.report>>
    BY <1>2
  <2> HIDE DEF f
  <2>4. LastSaid(o, f, seen) = Held(o, c.report)
    BY <2>2, <2>3 DEF LastSaid
  <2>5. Held(o, f.report) = Held(o, c.report)
    BY <2>1, <2>3, AfterSendType
  <2> QED
    BY <2>4, <2>5 DEF Said, f
<1> QED
  BY <1>1, <1>2, FlushCases

\* Parsing changes what a report holds only by making it pending.
LEMMA ParseSaid ==
    ASSUME NEW o \in Outputs, NEW channels, Good(channels), NEW r \in Reports, NEW seen
    PROVE  /\ Said(o, channels[o], seen) => Said(o, Parse(channels, r)[o], seen)
           /\ Parse(channels, r)[o].sent = channels[o].sent
<1> DEFINE c == channels[o]
           p == Parse(channels, r)[o]
<1>1. CASE o = "keyboard"
  <2>1. p = ParseKeyboardChannel(c, r)
    BY <1>1 DEF Parse
  <2> HIDE DEF c, p
  <2>2. /\ p.sent = c.sent
        /\ ~p.pending => ~c.pending /\ p.report = c.report
    BY <2>1 DEF ParseKeyboardChannel
  <2> QED
    BY <2>2 DEF Said, LastSaid, c, p
<1>2. CASE o = "mouse"
  <2>1. p = ParseMouseChannel(c, r)
    BY <1>2 DEF Parse
  <2>2. activeMode # kKeyboardMouse => ParseMouseButtons(c.report.buttons, r) = c.report.buttons
    BY DEF ParseMouseButtons
  <2> HIDE DEF c, p
  <2>3. /\ p.sent = c.sent
        /\ ~p.pending => ~c.pending /\ p.report.buttons = c.report.buttons
    BY <2>1, <2>2 DEF ParseMouseChannel
  <2> QED
    BY <1>2, <2>3 DEF Said, LastSaid, Held, c, p
<1>3. CASE o = "gamepad"
  <2>1. p = ParseGamepadChannel(c, r)
    BY <1>3 DEF Parse
  <2> HIDE DEF c, p
  <2>2. /\ p.sent = c.sent
        /\ p.pending \/ p = c
    BY <2>1 DEF ParseGamepadChannel
  <2> QED
    BY <2>2 DEF Said, c, p
<1> QED
  BY <1>1, <1>2, <1>3 DEF Outputs

\* After the callback a channel that is not pending has been said.
LEMMA ReceivedSaid ==
    ASSUME Typed, NEW r \in Reports, NEW o \in Outputs, NEW seen,
           \/ Said(o, out[o], seen)
           \/ out[o].sent = <<>> /\ Received(r)[o].sent # <<>>
    PROVE  Said(o, Received(r)[o], seen)
<1> DEFINE f == FlushPendingOutputs(out)
           p == Parse(f, r)
<1>1. Good(out) /\ Good(f) /\ Good(p)
  BY FlushPendingGood, ParseGood DEF Typed
<1>2. f[o] = Flush(o, out[o]) /\ Received(r)[o] = Flush(o, p[o])
  BY DEF FlushPendingOutputs, Received
<1>3. GoodChannel(o, out[o]) /\ GoodChannel(o, f[o]) /\ GoodChannel(o, p[o])
  BY <1>1 DEF Good
<1> HIDE DEF f
<1>4. /\ Said(o, f[o], seen) => Said(o, p[o], seen)
      /\ p[o].sent = f[o].sent
  BY <1>1, ParseSaid
<1> HIDE DEF p
<1>5. /\ Said(o, p[o], seen) => Said(o, Received(r)[o], seen)
      /\ Received(r)[o].sent # p[o].sent => Said(o, Received(r)[o], seen)
  BY <1>2, <1>3, FlushSaid
<1>6. /\ Said(o, out[o], seen) => Said(o, f[o], seen)
      /\ f[o].sent # out[o].sent => Said(o, f[o], seen)
  BY <1>2, <1>3, FlushSaid
<1> QED
  BY <1>4, <1>5, <1>6

\* So has one after a profile switch has queued its release.
LEMMA ReleasedSaid ==
    ASSUME Typed, NEW o \in Outputs, NEW seen,
           \/ Said(o, out[o], seen)
           \/ out[o].sent = <<>> /\ Released[o].sent # <<>>
    PROVE  Said(o, Released[o], seen)
<1>1. GoodChannel(o, out[o]) /\ GoodChannel(o, Queued(o))
  BY QueuedGood
<1>2. Said(o, Queued(o), seen)
  BY DEF Said, Queued
<1>3. CASE Released[o] = Flush(o, Queued(o))
  BY <1>1, <1>2, <1>3, FlushSaid
<1>4. CASE Released[o] = Flush(o, out[o])
  BY <1>1, <1>4, FlushSaid
<1> QED
  BY <1>3, <1>4, ReleasedChannels

\* So has one after boot, the gamepad's apart.
LEMMA IdleSaid ==
    \A o \in Outputs \ {"gamepad"} : Said(o, IdleChannels[o], Nothing[o])
<1> SUFFICES ASSUME NEW o \in Outputs \ {"gamepad"} PROVE Said(o, IdleChannels[o], Nothing[o])
  OBVIOUS
<1>1. IdleChannels[o].sent = <<>> /\ IdleChannels[o].report = Zeroed[o]
  BY DEF IdleChannels
<1>2. Nothing[o] = {} /\ Held(o, Zeroed[o]) = {}
  BY DEF Nothing, Outputs, Held, Zeroed, NoMouse
<1> QED
  BY <1>1, <1>2 DEF Said, LastSaid

\* Every step keeps what is not pending said.
LEMMA SaidStep == Typed /\ NothingUnsaid /\ [Next]_vars => NothingUnsaid'
<1> SUFFICES ASSUME Typed, NothingUnsaid, [Next]_vars PROVE NothingUnsaid'
  OBVIOUS
<1>a. \A o \in Outputs : HasOutput(mode, o) /\ o \notin stale => Said(o, out[o], pc[o])
  BY UnsaidIsSaid
<1>b. ASSUME \A o \in Outputs : HasOutput(mode', o) /\ o \notin stale' => Said(o, out'[o], pc'[o])
      PROVE  NothingUnsaid'
  BY <1>b DEF NothingUnsaid, Said, HasOutput
<1>1. ASSUME NEW r \in Reports, ReportReceived(r) PROVE NothingUnsaid'
  <2>1. out' = Received(r) /\ pc' = pc /\ mode' = mode /\ stale' = stale \ Accepted(out')
    BY <1>1 DEF ReportReceived
  <2>2. ASSUME NEW o \in Outputs, HasOutput(mode, o), o \notin stale'
        PROVE  Said(o, out'[o], pc[o])
    <3>1. o \notin stale \/ (out[o].sent = <<>> /\ Received(r)[o].sent # <<>>)
      BY <2>1, <2>2 DEF Accepted
    <3> QED
      BY <1>a, <2>1, <2>2, <3>1, ReceivedSaid
  <2> QED
    BY <1>b, <2>1, <2>2
<1>2. ASSUME NEW d \in {"next", "previous"}, HandleModeSwitch(d) PROVE NothingUnsaid'
  <2>1. out' = Released /\ pc' = pc /\ mode' = mode /\ stale' = stale \ Accepted(out')
    BY <1>2 DEF HandleModeSwitch
  <2>2. ASSUME NEW o \in Outputs, HasOutput(mode, o), o \notin stale'
        PROVE  Said(o, out'[o], pc[o])
    <3>1. o \notin stale \/ (out[o].sent = <<>> /\ Released[o].sent # <<>>)
      BY <2>1, <2>2 DEF Accepted
    <3> QED
      BY <1>a, <2>1, <2>2, <3>1, ReleasedSaid
  <2> QED
    BY <1>b, <2>1, <2>2
<1>3. ASSUME stale' = Differing(out', pc') PROVE NothingUnsaid'
  BY <1>3, <1>b DEF Differing, Said
<1>4. CASE HidUmount \/ DeviceUmount \/ BusReset
  BY <1>3, <1>4 DEF HidUmount, DeviceUmount, BusReset, Forget
<1>5. ASSUME NEW o \in Outputs, HostPoll(o) PROVE NothingUnsaid'
  <2>1. mode' = mode /\ stale' = stale
    BY <1>5 DEF HostPoll
  <2>2. Said(o, out[o], pc[o]) => Said(o, out'[o], pc'[o])
    <3>1. /\ out[o].sent # <<>>
          /\ out'[o] = [report |-> out[o].report, pending |-> out[o].pending, sent |-> <<>>]
          /\ pc'[o] = Held(o, out[o].sent[1])
      BY <1>5, PollEffect
    <3>2. /\ out'[o].sent = <<>> /\ out'[o].report = out[o].report
          /\ out'[o].pending = out[o].pending
      BY <3>1
    <3> QED
      BY <3>1, <3>2 DEF Said, LastSaid
  <2>3. \A q \in Outputs \ {o} : out'[q] = out[q] /\ pc'[q] = pc[q]
    BY <1>5, PollEffect
  <2> QED
    BY <1>a, <1>b, <2>1, <2>2, <2>3
<1>6. CASE Activate \/ Configure \/ Suspend \/ Resume \/ UNCHANGED vars
  <2>1. out' = out /\ pc' = pc /\ mode' = mode /\ stale' = stale
    BY <1>6 DEF Activate, Configure, Suspend, Resume, Port, vars
  <2> QED
    BY <1>a, <1>b, <2>1
<1>7. ASSUME NEW m, Started(m) PROVE NothingUnsaid'
  <2>1. out' = IdleChannels /\ pc' = Nothing /\ stale' = {"gamepad"}
    BY <1>7 DEF Started
  <2>2. \A o \in Outputs \ {"gamepad"} : Said(o, IdleChannels[o], Nothing[o])
    BY IdleSaid
  <2> QED
    BY <1>b, <2>1, <2>2
<1>8. CASE Reboot \/ PowerCycle
  BY <1>7, <1>8 DEF Reboot, PowerCycle
<1> QED
  BY <1>1, <1>2, <1>4, <1>5, <1>6, <1>8 DEF Next

\* What is not pending has been said: no key or button that changed while its
\* endpoint was busy is forgotten, in any profile.
THEOREM NothingUnsaidHolds == Spec => []NothingUnsaid
<1>1. Init => NothingUnsaid
  <2>1. \A o \in Outputs \ {"gamepad"} : Said(o, IdleChannels[o], Nothing[o])
    BY IdleSaid
  <2> QED
    BY <2>1, UnsaidIsSaid DEF Init
<1> QED
  BY <1>1, SaidStep, TypedAlways, PTL DEF Spec

-----------------------------------------------------------------------------
(* The system: the controller's side and the reports together *)

LinkProofs == INSTANCE ControllerLinkProofs

\* A step of the controller's side that OutputReports takes no part in leaves
\* what the two share as it is.
LEMMA LinkOnlyShares == LinkOnly => UNCHANGED vars
<1> SUFFICES ASSUME LinkOnly PROVE UNCHANGED vars
  OBVIOUS
<1>1. UNCHANGED <<running, mode, active>>
  <2>1. ASSUME NEW a \in BOOLEAN, NEW s \in BOOLEAN, Link!Task(a, s)
        PROVE  UNCHANGED <<running, mode, active>>
    BY <2>1 DEF Link!Task
  <2>2. ASSUME NEW d \in Link!Devices, Link!Plug(d)
        PROVE  UNCHANGED <<running, mode, active>>
    BY <2>2 DEF Link!Plug, Link!g_controller
  <2>3. ASSUME Link!DeviceMount PROVE UNCHANGED <<running, mode, active>>
    BY <2>3 DEF Link!DeviceMount
  <2>4. ASSUME Link!Pull PROVE UNCHANGED <<running, mode, active>>
    BY <2>4 DEF Link!Pull, Link!g_controller
  <2>5. ASSUME Link!Enumerate \/ Link!Removal PROVE UNCHANGED <<running, mode, active>>
    BY <2>5 DEF Link!Enumerate, Link!Removal, Link!Host, Link!g_controller
  <2> QED
    BY <2>1, <2>2, <2>3, <2>4, <2>5 DEF LinkOnly
<1> QED
  BY <1>1 DEF LinkOnly, outVars, vars

\* Every step of the system is a step of OutputReports or none.
LEMMA SystemStep == [SysNext]_sysVars => [Next]_vars
<1> SUFFICES ASSUME [SysNext]_sysVars PROVE [Next]_vars
  OBVIOUS
<1>1. ASSUME NEW i \in Instances, NEW a \in BOOLEAN, tuh_hid_mount_cb(i, a)
      PROVE  [Next]_vars
  <2>1. CASE device.known /\ ~active
    BY <1>1, <2>1 DEF tuh_hid_mount_cb, Next
  <2>2. CASE ~(device.known /\ ~active)
    BY <1>1, <2>2 DEF tuh_hid_mount_cb, Link!HidMount, Link!Mounts, Link!g_controller,
                      outVars, vars
  <2> QED
    BY <2>1, <2>2
<1>2. CASE tuh_umount_cb
  <2>1. CASE allowed
    BY <1>2, <2>1 DEF tuh_umount_cb, Next
  <2>2. CASE ~allowed
    BY <1>2, <2>2 DEF tuh_umount_cb, Link!DeviceUmount, Link!g_controller, outVars, vars
  <2> QED
    BY <2>1, <2>2
<1>3. ASSUME NEW i \in Instances, tuh_hid_umount_cb(i) PROVE [Next]_vars
  <2>1. CASE active /\ instance = i
    BY <1>3, <2>1 DEF tuh_hid_umount_cb, Next
  <2>2. CASE ~(active /\ instance = i)
    BY <1>3, <2>2 DEF tuh_hid_umount_cb, Link!HidUmount, outVars, vars
  <2> QED
    BY <2>1, <2>2
<1>4. ASSUME NEW i \in Instances, NEW r \in Reports, NEW a \in BOOLEAN,
             tuh_hid_report_received_cb(i, r, a)
      PROVE  [Next]_vars
  <2>1. CASE active /\ instance = i
    BY <1>4, <2>1 DEF tuh_hid_report_received_cb, Next
  <2>2. CASE ~(active /\ instance = i)
    BY <1>4, <2>2 DEF tuh_hid_report_received_cb, Link!ReportReceived, outVars, vars
  <2> QED
    BY <2>1, <2>2
<1>5. ASSUME NEW i \in Instances, NEW d \in {"next", "previous"}, Swipe(i, d)
      PROVE  [Next]_vars
  BY <1>5 DEF Swipe, Next
<1>6. CASE LinkOnly
  BY <1>6, LinkOnlyShares
<1>7. CASE PcOnly
  BY <1>7 DEF PcOnly, Next
<1>8. CASE Restart
  BY <1>8 DEF Restart, Next
<1>9. CASE UNCHANGED sysVars
  BY <1>9 DEF sysVars
<1> QED
  BY <1>1, <1>2, <1>3, <1>4, <1>5, <1>6, <1>7, <1>8, <1>9 DEF SysNext

\* The callbacks implement OutputReports: reports are parsed only while a
\* controller is in use, and every other step of the stack leaves its reports
\* alone or clears them as OutputReports says.
THEOREM SystemReports == SysSpec => Spec
<1>1. SysInit => Init
  BY DEF SysInit
<1> QED
  BY <1>1, SystemStep, PTL DEF SysSpec, Spec

\* Every step of the system is a step of ControllerLink or none.
LEMMA SystemLinkStep == Typed /\ [SysNext]_sysVars => [Link!Next]_(Link!vars)
<1> SUFFICES ASSUME Typed, [SysNext]_sysVars PROVE [Link!Next]_(Link!vars)
  OBVIOUS
<1>1. ASSUME NEW i \in Instances, NEW a \in BOOLEAN, tuh_hid_mount_cb(i, a)
      PROVE  Link!Next
  BY <1>1 DEF tuh_hid_mount_cb, Link!Next
<1>2. ASSUME tuh_umount_cb PROVE Link!Next
  BY <1>2 DEF tuh_umount_cb, Link!Next
<1>3. ASSUME NEW i \in Instances, tuh_hid_umount_cb(i) PROVE Link!Next
  BY <1>3 DEF tuh_hid_umount_cb, Link!Next
<1>4. ASSUME NEW i \in Instances, NEW r \in Reports, NEW a \in BOOLEAN,
             tuh_hid_report_received_cb(i, r, a)
      PROVE  Link!Next
  <2>1. r.full \in BOOLEAN
    BY ReportsType
  <2> QED
    BY <1>4, <2>1 DEF tuh_hid_report_received_cb, Link!Next
<1>5. ASSUME NEW i \in Instances, NEW d \in {"next", "previous"}, Swipe(i, d)
      PROVE  Link!Next
  BY <1>5 DEF Swipe, Link!Next
<1>6. ASSUME LinkOnly PROVE Link!Next
  BY <1>6 DEF LinkOnly, Link!Next
<1>7. ASSUME PcOnly PROVE UNCHANGED Link!vars
  BY <1>7 DEF PcOnly, linkVars, HostPoll, BusReset, Configure, Suspend, Resume, Port,
              Link!vars, Link!g_controller, Link!lamps, Link!stack
<1>8. ASSUME Restart PROVE Link!Next
  <2>1. mode' \in Modes
    BY <1>8, InModes DEF Restart, Reboot, PowerCycle, Started, Typed, Scalars
  <2>2. Link!Modes = Modes
    BY DEF Link!Modes, Modes
  <2>3. Link!Started(mode')
    BY <1>8 DEF Restart
  <2>4. Link!PowerCycle
    BY <2>1, <2>2, <2>3 DEF Link!PowerCycle, Link!Started
  <2> QED
    BY <2>4 DEF Link!Next
<1>9. ASSUME UNCHANGED sysVars PROVE UNCHANGED Link!vars
  BY <1>9 DEF sysVars, vars, linkVars, Link!vars, Link!g_controller, Link!lamps, Link!stack
<1> QED
  BY <1>1, <1>2, <1>3, <1>4, <1>5, <1>6, <1>7, <1>8, <1>9 DEF SysNext

\* The system implements ControllerLink: what OutputReports does with the
\* reports never disturbs who is listened to.
THEOREM SystemLink == SysSpec => Link!Spec
<1>1. SysInit => Link!Init
  BY DEF SysInit
<1>2. SysSpec => []Typed
  BY SystemReports, TypedAlways, PTL
<1> QED
  BY <1>1, <1>2, SystemLinkStep, PTL DEF SysSpec, Link!Spec

\* The proofs of ControllerLink are about the same steps.
LEMMA SameStep == [Link!Next]_(Link!vars) => [LinkProofs!Next]_(LinkProofs!vars)
<1> SUFFICES ASSUME [Link!Next]_(Link!vars) PROVE [LinkProofs!Next]_(LinkProofs!vars)
  OBVIOUS
<1>1. ASSUME NEW a \in BOOLEAN, NEW s \in BOOLEAN, Link!Task(a, s) PROVE LinkProofs!Next
  BY <1>1 DEF LinkProofs!Next, Link!Task, LinkProofs!Task, Link!Removing,
      LinkProofs!Removing, Link!Arm, LinkProofs!Arm,
      Link!FlushPendingControllerOutputs,
      LinkProofs!FlushPendingControllerOutputs, Link!lamps, LinkProofs!lamps
<1>2. ASSUME NEW i \in Instances, NEW a \in BOOLEAN, Link!HidMount(i, a)
      PROVE  LinkProofs!Next
  BY <1>2 DEF LinkProofs!Next, Link!HidMount, LinkProofs!HidMount, Link!Mounts,
      LinkProofs!Mounts, Link!Take, LinkProofs!Take, Link!QueueModeLightbar,
      LinkProofs!QueueModeLightbar, Link!Arm, LinkProofs!Arm, Link!g_controller,
      LinkProofs!g_controller, Link!lamps, LinkProofs!lamps
<1>3. ASSUME Link!DeviceMount PROVE LinkProofs!Next
  BY <1>3 DEF LinkProofs!Next, Link!DeviceMount, LinkProofs!DeviceMount
<1>4. ASSUME Link!DeviceUmount PROVE LinkProofs!Next
  BY <1>4 DEF LinkProofs!Next, Link!DeviceUmount, LinkProofs!DeviceUmount,
      Link!ClearHidState, LinkProofs!ClearHidState, Link!g_controller,
      LinkProofs!g_controller, Link!lamps, LinkProofs!lamps,
      Link!kKeyboardMouse, LinkProofs!kKeyboardMouse
<1>5. ASSUME NEW i \in Instances, Link!HidUmount(i) PROVE LinkProofs!Next
  BY <1>5 DEF LinkProofs!Next, Link!HidUmount, LinkProofs!HidUmount,
      Link!Removing, LinkProofs!Removing, Link!ClearHidState,
      LinkProofs!ClearHidState,
      Link!kKeyboardMouse, LinkProofs!kKeyboardMouse
<1>6. ASSUME NEW i \in Instances, NEW f \in BOOLEAN, NEW a \in BOOLEAN, Link!ReportReceived(i, f, a)
      PROVE  LinkProofs!Next
  BY <1>6 DEF LinkProofs!Next, Link!ReportReceived, LinkProofs!ReportReceived,
      Link!Removing, LinkProofs!Removing, Link!Arm, LinkProofs!Arm
<1>7. ASSUME NEW i \in Instances, Link!Swipe(i) PROVE LinkProofs!Next
  BY <1>7 DEF LinkProofs!Next, Link!Swipe, LinkProofs!Swipe, Link!Removing,
      LinkProofs!Removing, Link!lamps, LinkProofs!lamps
<1>8. ASSUME NEW d \in Link!Devices, Link!Plug(d) PROVE LinkProofs!Next
  BY <1>8 DEF LinkProofs!Next, Link!Plug, LinkProofs!Plug, Link!Devices,
      LinkProofs!Devices, Link!g_controller, LinkProofs!g_controller, Link!lamps,
      LinkProofs!lamps
<1>9. ASSUME Link!Pull PROVE LinkProofs!Next
  BY <1>9 DEF LinkProofs!Next, Link!Pull, LinkProofs!Pull, Link!g_controller,
      LinkProofs!g_controller, Link!lamps, LinkProofs!lamps
<1>10. ASSUME Link!Enumerate PROVE LinkProofs!Next
  BY <1>10 DEF LinkProofs!Next, Link!Enumerate, LinkProofs!Enumerate, Link!Host,
      LinkProofs!Host, Link!g_controller, LinkProofs!g_controller, Link!lamps,
      LinkProofs!lamps
<1>11. ASSUME Link!Removal PROVE LinkProofs!Next
  BY <1>11 DEF LinkProofs!Next, Link!Removal, LinkProofs!Removal, Link!Host,
      LinkProofs!Host, Link!g_controller, LinkProofs!g_controller, Link!lamps,
      LinkProofs!lamps
<1>12. ASSUME Link!Reboot PROVE LinkProofs!Next
  BY <1>12 DEF LinkProofs!Next, Link!Reboot, LinkProofs!Reboot, Link!Started,
      LinkProofs!Started, Link!Modes, LinkProofs!Modes, Link!kKeyboardMouse,
      LinkProofs!kKeyboardMouse
<1>13. ASSUME Link!PowerCycle PROVE LinkProofs!Next
  BY <1>13 DEF LinkProofs!Next, Link!PowerCycle, LinkProofs!PowerCycle,
      Link!Started, LinkProofs!Started, Link!Modes, LinkProofs!Modes,
      Link!kKeyboardMouse, LinkProofs!kKeyboardMouse
<1>14. ASSUME UNCHANGED Link!vars PROVE UNCHANGED LinkProofs!vars
  BY <1>14 DEF Link!vars, LinkProofs!vars, Link!stack, LinkProofs!stack, Link!g_controller,
      LinkProofs!g_controller, Link!lamps, LinkProofs!lamps
<1> QED
  BY <1>1, <1>2, <1>3, <1>4, <1>5, <1>6, <1>7, <1>8, <1>9, <1>10, <1>11, <1>12, <1>13,
     <1>14 DEF Link!Next

LEMMA LinkConstants == ModeCount \in Nat \ {0} /\ 0 \in Instances
BY ButtonAssumption, InstanceAssumption

LEMMA SameLink == Link!Spec => LinkProofs!Spec
<1>1. Link!Init => LinkProofs!Init
  BY DEF Link!Init, LinkProofs!Init, Link!NoDevice, LinkProofs!NoDevice, Link!Modes,
      LinkProofs!Modes, Link!kKeyboardMouse, LinkProofs!kKeyboardMouse
<1> QED
  BY <1>1, SameStep, PTL DEF Link!Spec, LinkProofs!Spec

\* Nothing the reports do makes the firmware deaf.
THEOREM SystemNotDeaf == SysSpec => []Link!NotDeaf
<1>1. LinkProofs!NotDeaf => Link!NotDeaf
  BY DEF Link!NotDeaf, LinkProofs!NotDeaf
<1>2. LinkProofs!Spec => []LinkProofs!NotDeaf
  BY LinkConstants, LinkProofs!NotDeafHolds
<1> QED
  BY <1>1, <1>2, SystemLink, SameLink, PTL

\* Whatever the PC, a swipe or a restart does meanwhile, one interface is listened to.
THEOREM SystemListensToOne == SysSpec => []Link!ListensToOne
<1>1. LinkProofs!ListensToOne => Link!ListensToOne
  BY DEF Link!ListensToOne, LinkProofs!ListensToOne, Link!Removing,
      LinkProofs!Removing
<1>2. LinkProofs!Spec => []LinkProofs!ListensToOne
  BY LinkConstants, LinkProofs!ListensToOneHolds
<1> QED
  BY <1>1, <1>2, SystemLink, SameLink, PTL

\* What the lamps and the status payload say stays so in the whole firmware.
THEOREM SystemLampsAreTrue == SysSpec => []Link!LampsAreTrue
<1>1. LinkProofs!LampsAreTrue => Link!LampsAreTrue
  BY DEF Link!LampsAreTrue, LinkProofs!LampsAreTrue
<1>2. LinkProofs!Spec => []LinkProofs!LampsAreTrue
  BY LinkConstants, LinkProofs!LampsAreTrueHolds
<1> QED
  BY <1>1, <1>2, SystemLink, SameLink, PTL

\* Safe as a whole: the reports are what the inputs are, said or pending, and no
\* movement is lost, whatever order the stack's callbacks come in.
THEOREM SystemReportsSafe ==
    SysSpec => [](/\ ReportsTrackInputs /\ NothingUnsaid
                  /\ MovementConserved /\ MovementPending
                  /\ NeverZeroedGamepad /\ ParsedForBootedMode)
BY SystemReports, ReportsTrackInputsHold, NothingUnsaidHolds, MovementConservedHolds,
   MovementPendingHolds, NeverZeroedGamepadHolds, ParsedForBootedModeHolds, PTL

\* Whoever holds a key, a mouse button or the touchpad down is still there: an
\* interface that is mounted, of a device the firmware knows (allowed), is in
\* use.  What a controller held goes with its interface.
THEOREM HeldByMounted ==
    SysSpec => [](out["keyboard"].report # {} \/ out["mouse"].report.buttons # {}
                      => active /\ allowed /\ instance \in mounted)
<1>1. /\ ReportsTrackInputs
      /\ out["keyboard"].report # {} \/ out["mouse"].report.buttons # {}
      => active
  BY NoZone DEF ReportsTrackInputs
<1>2. active /\ Link!ListensToOne /\ Link!LampsAreTrue => allowed /\ instance \in mounted
  BY DEF Link!ListensToOne, Link!LampsAreTrue
<1>3. SysSpec => []ReportsTrackInputs
  BY SystemReports, ReportsTrackInputsHold, PTL
<1> QED
  BY <1>1, <1>2, <1>3, SystemListensToOne, SystemLampsAreTrue, PTL
=============================================================================
