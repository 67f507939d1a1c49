---------------------------- MODULE StatusDarwin -----------------------------
(***************************************************************************)
(* How the status bridge reads the status interface on macOS               *)
(* (tools/status_bridge/hid_darwin.go): a HID manager calls back on its    *)
(* run loop for every matching device that comes, which is opened once,    *)
(* and for every report, which is passed on if the pump's channel has room *)
(* and dropped if it is full.                                              *)
(*                                                                         *)
(* External: adapters, which come and go; IOKit, which may refuse to open  *)
(* the manager or a device, tells of a device each time it comes, and      *)
(* fills the one buffer all devices share and calls back on the run loop,  *)
(* one report after the other.                                             *)
(***************************************************************************)
EXTENDS Naturals, Sequences

CONSTANTS
    Adapters,
    SinkCapacity    \* 32, of the pump's channel

ASSUME DarwinAssumption == SinkCapacity \in Nat \ {0}

VARIABLES
    manager,     \* "closed", "running", or "stopped" for good
    attached,    \* the adapters there are
    registered,  \* those whose reports call back
    denied,      \* those of them that could not be opened, and so never report
    buffer,      \* whose report the shared buffer holds, if any
    sink         \* per packet in the channel, whose it is

darwinVars == <<manager, attached, registered, denied, buffer, sink>>

-----------------------------------------------------------------------------

\* run_hid returns at once when the manager cannot be opened, and nobody calls it
\* again.
run_hid ==
    /\ manager = "closed"
    /\ manager' \in {"running", "stopped"}
    /\ UNCHANGED <<attached, registered, denied, buffer, sink>>

\* A bug: the adapters there are get opened at the start, none that comes later.
MatchingAtStart(a) ==
    /\ manager = "running"
    /\ a \in attached \ registered
    /\ registered = {}
    /\ registered' = registered \cup {a}
    /\ denied' \in {denied, denied \cup {a}}
    /\ UNCHANGED <<manager, attached, buffer, sink>>

\* What IOHIDDeviceOpen answers is not looked at.
device_matching_callback(a) ==
    /\ manager = "running"
    /\ a \in attached \ registered
    /\ registered' = registered \cup {a}
    /\ denied' \in {denied, denied \cup {a}}
    /\ UNCHANGED <<manager, attached, buffer, sink>>

\* A send that does not wait.
goReportCallback(packet) ==
    sink' = IF Len(sink) < SinkCapacity THEN Append(sink, packet) ELSE sink

input_report_callback(a) ==
    /\ a \in registered \ denied
    /\ buffer' = {a}
    /\ \E packet \in buffer' : goReportCallback(packet)
    /\ UNCHANGED <<manager, attached, registered, denied>>

\* readStatusReports takes the next packet.
TakePacket ==
    /\ sink # <<>>
    /\ sink' = Tail(sink)
    /\ UNCHANGED <<manager, attached, registered, denied, buffer>>

Attach(a) ==
    /\ a \notin attached
    /\ attached' = attached \cup {a}
    /\ UNCHANGED <<manager, registered, denied, buffer, sink>>

Detach(a) ==
    /\ a \in attached
    /\ attached' = attached \ {a}
    /\ registered' = registered \ {a} /\ denied' = denied \ {a}
    /\ UNCHANGED <<manager, buffer, sink>>

DarwinInit ==
    /\ manager = "closed"
    /\ attached \in SUBSET Adapters
    /\ registered = {} /\ denied = {}
    /\ buffer = {} /\ sink = <<>>

DarwinNext ==
    \/ run_hid
    \/ \E a \in Adapters : device_matching_callback(a) \/ input_report_callback(a)
    \/ TakePacket
    \/ \E a \in Adapters : Attach(a) \/ Detach(a)

\* The run loop serves every device, the pump takes packets, and an adapter that can
\* be read reports for ever.
DarwinFairness ==
    /\ WF_darwinVars(run_hid) /\ WF_darwinVars(TakePacket)
    /\ \A a \in Adapters :
        /\ WF_darwinVars(device_matching_callback(a))
        /\ WF_darwinVars(input_report_callback(a))

DarwinSpec == DarwinInit /\ [][DarwinNext]_darwinVars

-----------------------------------------------------------------------------
(* Properties *)

\* The one adapter that stays and can be opened is read again and again, though it
\* came late or came back, others came and went, or the channel was full of theirs.
\* (Two that stay share the channel, and chance decides whose reports find room.)
OpenedIsRead ==
    \A a \in Adapters :
        <>[](manager # "stopped" /\ attached \ denied = {a}) =>
            []<>(sink # <<>> /\ Head(sink) = a)
=============================================================================
