----------------------------- MODULE StatusHid ------------------------------
(***************************************************************************)
(* The status interface (src/status_hid.cc): the report callback writes a  *)
(* payload, and Task sends it with the next sequence number, at most once  *)
(* per kReportIntervalUs, trying again on every pass of the main loop      *)
(* while the endpoint refuses.  The measurements the report also carries   *)
(* are the subject of StatusTiming, which extends every action here.       *)
(*                                                                         *)
(* Time is counted in ticks of the 32-bit microsecond clock, which wraps.  *)
(* The fields of the payload that come from one controller report are one  *)
(* value, the input.                                                       *)
(***************************************************************************)
EXTENDS Naturals

CONSTANTS
    ClockSize,               \* 2^32: time_us_32 wraps to 0
    kReportIntervalUs,       \* between two status reports
    SequenceSize,            \* 2^16
    MaxPass,                 \* the longest pass of the main loop
    Inputs,                  \* what a controller report can say
    NoInput                  \* the cleared payload

ASSUME StatusAssumption ==
    /\ {ClockSize, kReportIntervalUs, SequenceSize, MaxPass} \subseteq Nat \ {0}
    /\ kReportIntervalUs + MaxPass < ClockSize
    /\ NoInput \notin Inputs

VARIABLES
    now,          \* time_us_32()
    passed,       \* ticks since Task last ran
    connected, input, sequence,                    \* g_report
    lastSend,     \* g_last_send_us
    ready,        \* the PC has configured the interface
    endpoint,     \* the reports in the IN endpoint, none or one
    reader,       \* the last report the PC has read, none or one
    sinceSend,    \* history: true time since the last report, up to ClockSize
    renewed,      \* history: a controller came or went since the last report,
    restarted     \* ... and between that report and the one before

payload == <<connected, input, sequence>>
pc == <<ready, endpoint, reader>>
clocks == <<now, passed, sinceSend>>
changes == <<renewed, restarted>>
statusVars == <<clocks, payload, lastSend, pc, changes>>

Reports == [connected : BOOLEAN, input : Inputs \cup {NoInput}, sequence : 0 .. SequenceSize - 1]

Capped(n, limit) == IF n > limit THEN limit ELSE n

\* A bug: the difference of two times is not taken modulo the clock.
ElapsedUnwrapped(since, until) == IF until >= since THEN until - since ELSE 0

Elapsed(since, until) == (until + ClockSize - since) % ClockSize

-----------------------------------------------------------------------------
(* The operations *)

\* Time moves on by d ticks, all within a pass of the main loop.
Pass(d) ==
    /\ passed + d <= MaxPass
    /\ now' = (now + d) % ClockSize
    /\ passed' = passed + d
    /\ sinceSend' = Capped(sinceSend + d, ClockSize)

Tick ==
    /\ Pass(1)
    /\ UNCHANGED <<payload, lastSend, pc, changes>>

\* The report callback, of d ticks; a failed transfer (x is NoInput) returns
\* before UpdateFromInput.
ReportReceived(x, d) ==
    /\ connected
    /\ Pass(d)
    /\ input' = IF x = NoInput THEN input ELSE x
    /\ UNCHANGED <<connected, sequence, lastSend, pc, changes>>

ResetPayload ==
    /\ input' = NoInput
    /\ sequence' = 0
    /\ renewed' = TRUE /\ UNCHANGED restarted

\* Reached only from a mount with no controller taken.
SetConnected ==
    /\ ~connected
    /\ connected' = TRUE
    /\ ResetPayload
    /\ UNCHANGED <<lastSend, pc, clocks>>

\* A bug: the payload of the last connection stays.
SetDisconnectedKeepingPayload ==
    /\ connected' = FALSE
    /\ renewed' = TRUE /\ UNCHANGED restarted
    /\ UNCHANGED <<input, sequence, lastSend, pc, clocks>>

SetDisconnected ==
    /\ connected' = FALSE
    /\ ResetPayload
    /\ UNCHANGED <<lastSend, pc, clocks>>

\* A bug: the time is compared with the wrapped deadline.
DueAfterDeadline == now >= (lastSend + kReportIntervalUs) % ClockSize

Due == Elapsed(lastSend, now) >= kReportIntervalUs

NextSequence == (sequence + 1) % SequenceSize

Accepted ==
    /\ ready /\ endpoint = {}
    /\ endpoint' = {[connected |-> connected, input |-> input, sequence |-> NextSequence]}
    /\ sequence' = NextSequence
    /\ lastSend' = now
    /\ sinceSend' = 0
    /\ restarted' = renewed /\ renewed' = FALSE

\* A bug: a refused report takes a sequence number.
RefusedCounting ==
    /\ ~ready \/ endpoint # {}
    /\ sequence' = NextSequence
    /\ UNCHANGED <<lastSend, endpoint, sinceSend, changes>>

\* The endpoint refuses: the report is built anew on the next pass.
Refused ==
    /\ ~ready \/ endpoint # {}
    /\ UNCHANGED <<sequence, lastSend, endpoint, sinceSend, changes>>

NotDue == UNCHANGED <<sequence, lastSend, endpoint, sinceSend, changes>>

Task ==
    /\ passed' = 0
    /\ \/ ~Due /\ NotDue
       \/ Due /\ Accepted
       \/ Due /\ Refused
    /\ UNCHANGED <<now, connected, input, ready, reader>>

-----------------------------------------------------------------------------
(* The PC (external) *)

HostPoll ==
    /\ ready
    /\ endpoint # {}
    /\ reader' = endpoint
    /\ endpoint' = {}
    /\ UNCHANGED <<clocks, payload, lastSend, ready, changes>>

Configure ==
    /\ ~ready
    /\ ready' = TRUE
    /\ UNCHANGED <<clocks, payload, lastSend, endpoint, reader, changes>>

BusReset ==
    /\ ready
    /\ ready' = FALSE
    /\ endpoint' = {}
    /\ reader' = {}
    /\ UNCHANGED <<clocks, payload, lastSend, changes>>

Init ==
    /\ now = 0 /\ passed = 0 /\ lastSend = 0 /\ sinceSend = 0
    /\ connected = FALSE /\ input = NoInput /\ sequence = 0
    /\ ready = FALSE /\ endpoint = {} /\ reader = {}
    /\ renewed = FALSE /\ restarted = FALSE

Next ==
    \/ Tick
    \/ \E x \in Inputs \cup {NoInput}, d \in 0 .. MaxPass : ReportReceived(x, d)
    \/ SetConnected \/ SetDisconnected
    \/ Task
    \/ HostPoll \/ Configure \/ BusReset

\* Time passes, the main loop goes on, and a configured PC polls.
Fairness == WF_statusVars(Tick) /\ WF_statusVars(Task) /\ WF_statusVars(HostPoll)

Spec == Init /\ [][Next]_statusVars
FairSpec == Spec /\ Fairness

-----------------------------------------------------------------------------
(* Properties *)

\* Every variable has its type.
TypeOK ==
    /\ now \in 0 .. ClockSize - 1 /\ lastSend \in 0 .. ClockSize - 1
    /\ passed \in 0 .. MaxPass /\ sinceSend \in 0 .. ClockSize
    /\ connected \in BOOLEAN /\ input \in Inputs \cup {NoInput}
    /\ sequence \in 0 .. SequenceSize - 1
    /\ ready \in BOOLEAN /\ endpoint \subseteq Reports /\ reader \subseteq Reports
    /\ renewed \in BOOLEAN /\ restarted \in BOOLEAN

\* Reports are never closer than the interval, wherever the clock wraps.
RateBound == [][endpoint = {} /\ endpoint' # {} => sinceSend >= kReportIntervalUs]_statusVars

\* A PC that reads every report sees every number: a refused report takes none,
\* and the numbers start again exactly where a controller came or went between two
\* reports.
SequenceHasNoGap ==
    [][\A old \in reader, new \in reader' :
        HostPoll => new.sequence = (IF restarted THEN 1 ELSE old.sequence + 1) % SequenceSize]_statusVars

\* A report that says no controller is there says nothing of one: not the
\* buttons it last held, which an overlay would go on showing.
NothingIsLeftBehind ==
    \A r \in endpoint \cup reader : ~r.connected => r.input = NoInput

\* What a controller keeps saying, and that it is gone, reaches a PC that reads,
\* whatever the clock says.
StatusArrives ==
    \A x \in Inputs \cup {NoInput} : \A c \in BOOLEAN :
        <>[](ready /\ connected = c /\ input = x)
            => <>[](\E r \in reader : r.connected = c /\ r.input = x)
=============================================================================
