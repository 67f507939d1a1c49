---------------------------- MODULE StatusTiming ----------------------------
(***************************************************************************)
(* What the status interface measures (src/status_hid.cc): the report      *)
(* callback's duration and the interval between two callbacks, their       *)
(* largest values, the late intervals and the refused reports since the    *)
(* last report.  Each action is one of StatusHid with its measurements.    *)
(* The last interval and duration are only copied and are left out.        *)
(***************************************************************************)
EXTENDS StatusHid

CONSTANTS
    kLateInputThresholdUs,   \* an interval above it is late
    Saturated                \* 0xffff

ASSUME TimingAssumption ==
    /\ kLateInputThresholdUs \in Nat /\ Saturated \in Nat
    /\ kLateInputThresholdUs < Saturated /\ Saturated < ClockSize

VARIABLES
    lastInput,    \* g_last_input_us
    intervalMax, callbackMax, late, busy,   \* measured since the last report
    sinceInput,   \* history: true time since the last callback, up to ClockSize
    measured,     \* history: a callback has run since the connection
    unmeasurable, \* history: since the last reset an interval was lost to the clock
    window        \* history: what really happened since the last report

timing == <<lastInput, intervalMax, callbackMax, late, busy>>
history == <<sinceInput, measured, unmeasurable, window>>
timingVars == <<statusVars, timing, history>>

ClampU16(n) == Capped(n, Saturated)
Larger(m, n) == IF m > n THEN m ELSE n

\* A saturating counter.
Count(n) == IF n = Saturated THEN n ELSE n + 1

NoEvents == [interval |-> 0, callback |-> 0, late |-> 0, busy |-> 0]

-----------------------------------------------------------------------------

\* A callback that begins now and takes d ticks.  A last input at 0 stands for
\* none.
RecordTiming(d) ==
    LET interval == ClampU16(Elapsed(lastInput, now))
    IN  /\ IF lastInput # 0
           THEN /\ intervalMax' = Larger(intervalMax, interval)
                /\ late' = IF interval > kLateInputThresholdUs THEN Count(late) ELSE late
           ELSE UNCHANGED <<intervalMax, late>>
        /\ lastInput' = now
        /\ callbackMax' = Larger(callbackMax, ClampU16(d))

\* The same, told from true time; the clock cannot tell an interval as long as
\* its period, or one that begins at 0.
Observed(d) ==
    /\ sinceInput' = d
    /\ measured' = TRUE
    /\ unmeasurable' = (unmeasurable \/ (measured /\ (sinceInput >= ClockSize \/ lastInput = 0)))
    /\ window' =
        [window EXCEPT
            !.interval = IF measured THEN Larger(@, ClampU16(sinceInput)) ELSE @,
            !.callback = Larger(@, ClampU16(d)),
            !.late = IF measured /\ sinceInput > kLateInputThresholdUs
                     THEN Capped(@ + 1, Saturated) ELSE @]

ResetTimingWindow ==
    /\ late' = 0 /\ busy' = 0
    /\ intervalMax' = 0 /\ callbackMax' = 0

NewWindow == unmeasurable' = FALSE /\ window' = NoEvents

\* A bug: the interval to a callback of the last connection is measured.
ResetTimingKeepingLastInput ==
    /\ UNCHANGED lastInput
    /\ ResetTimingWindow
    /\ measured' = FALSE /\ NewWindow /\ UNCHANGED sinceInput

\* What SetConnected and SetDisconnected reset.
ResetTiming ==
    /\ lastInput' = 0
    /\ ResetTimingWindow
    /\ measured' = FALSE /\ NewWindow /\ UNCHANGED sinceInput

TimedTick ==
    /\ Tick
    /\ sinceInput' = Capped(sinceInput + 1, ClockSize)
    /\ UNCHANGED <<timing, measured, unmeasurable, window>>

TimedReportReceived(x, d) ==
    /\ ReportReceived(x, d)
    /\ RecordTiming(d)
    /\ Observed(d)
    /\ UNCHANGED busy

TimedSetConnected == SetConnected /\ ResetTiming

TimedSetDisconnected == SetDisconnected /\ ResetTiming

TimedTask ==
    /\ Task
    /\ \/ ~Due /\ UNCHANGED <<timing, history>>
       \/ /\ Due /\ Accepted
          /\ ResetTimingWindow
          /\ NewWindow
          /\ UNCHANGED <<lastInput, sinceInput, measured>>
       \/ /\ Due /\ Refused
          /\ busy' = Count(busy)
          /\ window' = [window EXCEPT !.busy = Capped(@ + 1, Saturated)]
          /\ UNCHANGED <<lastInput, intervalMax, callbackMax, late,
                         sinceInput, measured, unmeasurable>>

TimedPC == (HostPoll \/ Configure \/ BusReset) /\ UNCHANGED <<timing, history>>

TimedInit ==
    /\ Init
    /\ lastInput = 0 /\ intervalMax = 0 /\ callbackMax = 0 /\ late = 0 /\ busy = 0
    /\ sinceInput = 0 /\ measured = FALSE /\ unmeasurable = FALSE /\ window = NoEvents

TimedNext ==
    \/ TimedTick
    \/ \E x \in Inputs \cup {NoInput}, d \in 0 .. MaxPass : TimedReportReceived(x, d)
    \/ TimedSetConnected \/ TimedSetDisconnected
    \/ TimedTask
    \/ TimedPC

\* As in StatusHid; the measurements take no part in what may happen.
TimedFairness ==
    /\ WF_timingVars(TimedTick) /\ WF_timingVars(TimedTask)
    /\ WF_timingVars(HostPoll /\ TimedPC)

TimedSpec == TimedInit /\ [][TimedNext]_timingVars
TimedFairSpec == TimedSpec /\ TimedFairness

-----------------------------------------------------------------------------
(* Properties *)

\* The next report will tell exactly what happened since the last one (README:
\* "Maximum accepted DualSense input interval since the last status report",
\* "Count of busy Status HID sends since the last successful status report"):
\* nothing is told twice, nothing is lost to a refused send or to the clock's
\* wrap, short of an interval the clock cannot tell.
WindowIsTrue ==
    /\ callbackMax = window.callback
    /\ busy = window.busy
    /\ ~unmeasurable => intervalMax = window.interval /\ late = window.late
=============================================================================
