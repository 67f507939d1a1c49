--------------------------- MODULE ControllerLink ---------------------------
(***************************************************************************)
(* The controller's side of host_reader.cc: which interface feeds the      *)
(* firmware, whether a report of it is being waited for, and what the LED, *)
(* the lightbar and the status payload say about it.  The report callbacks *)
(* and Task share g_controller, on one core: each is one action.           *)
(*                                                                         *)
(* External, modelled from its use in src/: the controller and TinyUSB's   *)
(* host stack, which enumerates one device at a time (no hub) and calls    *)
(* the mount callbacks over several tuh_task calls.  A removal is handled  *)
(* within one tuh_task: Task cannot run between its callbacks, whose order *)
(* is the stack's.                                                         *)
(***************************************************************************)
EXTENDS Naturals

CONSTANTS Instances,   \* HID interfaces a device may have (CFG_TUH_HID)
          ModeCount    \* Mode::kCount

Modes == 0 .. ModeCount - 1
kKeyboardMouse == 0

ASSUME LinkAssumption == ModeCount \in Nat \ {0} /\ 0 \in Instances

NoDevice == [present |-> FALSE, known |-> FALSE, interfaces |-> {}]
Devices == [present : {TRUE}, known : BOOLEAN, interfaces : SUBSET Instances]

VARIABLES
    running,         \* FALSE from a swipe to the reboot that follows it
    mode,            \* mode::GetActive()
    active, instance, receivePending, allowed, lightbarPending, lightbar,
                     \* g_controller; a colour is named by the mode it shows
    connected,       \* kFlagControllerConnected in the status payload
    led,             \* the board's LED
    device,          \* what is plugged in; known iff FindMapping finds it
    host,            \* the stack: "idle", "mounting", "mounted", and while a removal
                     \* is handled "closing", then "unmounted" after tuh_umount_cb
    mounted,         \* interfaces mounted and not yet unmounted
    xfer,            \* interfaces with an IN transfer outstanding
    bar              \* the colour the controller shows (Modes, or ModeCount: its own)

g_controller == <<active, instance, receivePending, allowed, lightbarPending, lightbar>>
stack == <<device, host, mounted, xfer>>
lamps == <<connected, led>>
vars == <<running, mode, g_controller, lamps, stack, bar>>

Removing == host \in {"closing", "unmounted"}

-----------------------------------------------------------------------------
(* Task *)

\* A bug: the flag is set whatever tuh_hid_receive_report returns.
ArmUnchecked(pending, transfers, i, ok) ==
    /\ receivePending' = TRUE
    /\ xfer' = IF ~pending /\ ok THEN transfers \cup {i} ELSE transfers

\* ArmReceiveReport for an active interface i.  The stack may refuse (ok is
\* FALSE), and refuses a second transfer on the same endpoint.
Arm(pending, transfers, i, ok) ==
    LET armed == ~pending /\ ok /\ i \notin transfers
    IN  /\ receivePending' = (pending \/ armed)
        /\ xfer' = IF armed THEN transfers \cup {i} ELSE transfers

\* A bug: the colour is thought sent whether or not the controller took it.
SendOnce(ok) ==
    /\ lightbarPending' = FALSE
    /\ bar' = IF active /\ lightbarPending /\ ok THEN lightbar ELSE bar

\* FlushPendingControllerOutputs; ok: the OUT endpoint takes the report.
FlushPendingControllerOutputs(ok) ==
    IF active /\ lightbarPending /\ ok
    THEN lightbarPending' = FALSE /\ bar' = lightbar
    ELSE UNCHANGED <<lightbarPending, bar>>

\* host_reader::Task after tuh_task has had nothing to do.
Task(armed, sent) ==
    /\ running /\ ~Removing
    /\ IF active THEN Arm(receivePending, xfer, instance, armed)
                 ELSE UNCHANGED <<receivePending, xfer>>
    /\ FlushPendingControllerOutputs(sent)
    /\ UNCHANGED <<running, mode, active, instance, allowed, lightbar, lamps,
                   device, host, mounted>>

-----------------------------------------------------------------------------
(* Mounting *)

QueueModeLightbar(m) == m

\* The interface i is taken.
Take(i, armed) ==
    /\ active' = TRUE /\ instance' = i /\ allowed' = TRUE
    /\ led' = TRUE /\ connected' = TRUE
    /\ lightbarPending' = TRUE /\ lightbar' = QueueModeLightbar(mode)
    /\ Arm(receivePending, xfer, i, armed)

Mounts(i) ==
    /\ running /\ host = "mounting"
    /\ i \in device.interfaces \ mounted
    /\ mounted' = mounted \cup {i}
    /\ UNCHANGED <<running, mode, device, host, bar>>

\* A bug: the last interface mounted is the one listened to.
HidMountLast(i, armed) ==
    /\ Mounts(i)
    /\ IF device.known THEN Take(i, armed) ELSE UNCHANGED <<g_controller, lamps, xfer>>

\* A bug: an interface that refuses the first request is not taken.
HidMountArmed(i, armed) ==
    /\ Mounts(i)
    /\ IF device.known /\ ~active /\ armed
       THEN Take(i, armed) ELSE UNCHANGED <<g_controller, lamps, xfer>>

\* tuh_hid_mount_cb: the first interface of a known controller is taken.
HidMount(i, armed) ==
    /\ Mounts(i)
    /\ IF device.known /\ ~active THEN Take(i, armed) ELSE UNCHANGED <<g_controller, lamps, xfer>>

\* tuh_mount_cb, once every interface is mounted.
DeviceMount ==
    /\ running /\ host = "mounting" /\ mounted = device.interfaces
    /\ host' = "mounted"
    /\ IF device.known THEN allowed' = TRUE /\ led' = TRUE ELSE UNCHANGED <<allowed, led>>
    /\ UNCHANGED <<running, mode, active, instance, receivePending, lightbarPending,
                   lightbar, connected, device, mounted, xfer, bar>>

-----------------------------------------------------------------------------
(* Unmounting *)

\* A bug: the interface goes, the report waited for is waited for still.
ClearHidStateWaiting ==
    /\ active' = FALSE /\ instance' = 0
    /\ UNCHANGED receivePending
    /\ lightbarPending' = FALSE /\ lightbar' = kKeyboardMouse

\* ResetState clears all of g_controller, ClearHidState all but what is
\* known of the device.
ClearHidState ==
    /\ active' = FALSE /\ instance' = 0
    /\ receivePending' = FALSE
    /\ lightbarPending' = FALSE /\ lightbar' = kKeyboardMouse

\* A bug: a controller whose interface went first is not forgotten.
DeviceUmountActive ==
    /\ running /\ host = "closing"
    /\ IF active
       THEN ClearHidState /\ allowed' = FALSE /\ connected' = FALSE /\ led' = FALSE
       ELSE UNCHANGED <<g_controller, lamps>>
    /\ host' = IF mounted = {} THEN "idle" ELSE "unmounted"
    /\ UNCHANGED <<running, mode, device, mounted, xfer, bar>>

\* tuh_umount_cb.
DeviceUmount ==
    /\ running /\ host = "closing"
    /\ IF allowed
       THEN ClearHidState /\ allowed' = FALSE /\ connected' = FALSE /\ led' = FALSE
       ELSE UNCHANGED <<g_controller, lamps>>
    /\ host' = IF mounted = {} THEN "idle" ELSE "unmounted"
    /\ UNCHANGED <<running, mode, device, mounted, xfer, bar>>

\* tuh_hid_umount_cb, before or after tuh_umount_cb; the stack drops the
\* interface's transfer.
HidUmount(i) ==
    /\ running /\ Removing
    /\ i \in mounted
    /\ IF active /\ instance = i
       THEN ClearHidState /\ connected' = FALSE
       ELSE UNCHANGED <<active, instance, receivePending, lightbarPending, lightbar, connected>>
    /\ mounted' = mounted \ {i}
    /\ xfer' = xfer \ {i}
    /\ host' = IF host = "unmounted" /\ mounted' = {} THEN "idle" ELSE host
    /\ UNCHANGED <<running, mode, allowed, led, device, bar>>

-----------------------------------------------------------------------------
(* Reports *)

\* A transfer on interface i completes: with a report, or with nothing when it
\* failed.  Callbacks of another interface return at once; the active one's
\* asks for the next report before it returns.
ReportReceived(i, full, armed) ==
    /\ running /\ ~Removing
    /\ i \in xfer
    /\ full => device.present
    /\ IF active /\ instance = i
       THEN /\ Arm(FALSE, xfer \ {i}, i, armed)
            /\ connected' = (connected \/ full)
       ELSE /\ xfer' = xfer \ {i}
            /\ UNCHANGED <<receivePending, connected>>
    /\ UNCHANGED <<running, mode, active, instance, allowed, lightbarPending, lightbar,
                   led, device, host, mounted, bar>>

\* A report, full or failed, that ends a swipe: HandleModeSwitch never returns.
Swipe(i) ==
    /\ running /\ ~Removing
    /\ active /\ instance = i /\ i \in xfer
    /\ running' = FALSE
    /\ receivePending' = FALSE
    /\ xfer' = xfer \ {i}
    /\ UNCHANGED <<mode, active, instance, allowed, lightbarPending, lightbar, lamps,
                   device, host, mounted, bar>>

-----------------------------------------------------------------------------
(* The controller and the stack (external) *)

Plug(d) ==
    /\ ~device.present /\ host = "idle"
    /\ device' = d
    /\ bar' = ModeCount
    /\ UNCHANGED <<running, mode, g_controller, lamps, host, mounted, xfer>>

Pull ==
    /\ device.present
    /\ device' = [device EXCEPT !.present = FALSE]
    /\ UNCHANGED <<running, mode, g_controller, lamps, host, mounted, xfer, bar>>

Host(from, to, condition) ==
    /\ running /\ host \in from /\ condition
    /\ host' = to
    /\ UNCHANGED <<running, mode, g_controller, lamps, device, mounted, xfer, bar>>

\* tuh_task sees what was plugged, or that it is gone.
Enumerate == Host({"idle"}, "mounting", device.present)
Removal == Host({"mounting", "mounted"}, "closing", ~device.present)

-----------------------------------------------------------------------------
(* Power *)

\* main's Init calls; the stack finds the controller again if it is still there.
Started(m) ==
    /\ running' = TRUE /\ mode' = m
    /\ active' = FALSE /\ instance' = 0 /\ receivePending' = FALSE /\ allowed' = FALSE
    /\ lightbarPending' = FALSE /\ lightbar' = kKeyboardMouse
    /\ connected' = FALSE /\ led' = FALSE
    /\ host' = "idle" /\ mounted' = {} /\ xfer' = {}
    /\ UNCHANGED <<device, bar>>

Reboot == ~running /\ \E m \in Modes : Started(m)

PowerCycle == \E m \in Modes : Started(m)

Init ==
    /\ running = TRUE /\ mode \in Modes
    /\ active = FALSE /\ instance = 0 /\ receivePending = FALSE /\ allowed = FALSE
    /\ lightbarPending = FALSE /\ lightbar = kKeyboardMouse
    /\ connected = FALSE /\ led = FALSE
    /\ device = NoDevice /\ host = "idle" /\ mounted = {} /\ xfer = {}
    /\ bar = ModeCount

Next ==
    \/ \E armed, sent \in BOOLEAN : Task(armed, sent)
    \/ \E i \in Instances, armed \in BOOLEAN : HidMount(i, armed)
    \/ DeviceMount \/ DeviceUmount
    \/ \E i \in Instances : HidUmount(i)
    \/ \E i \in Instances, full, armed \in BOOLEAN : ReportReceived(i, full, armed)
    \/ \E i \in Instances : Swipe(i)
    \/ \E d \in Devices : Plug(d)
    \/ Pull \/ Enumerate \/ Removal
    \/ Reboot \/ PowerCycle

\* The main loop keeps running, and the stack does not refuse the same transfer
\* for ever and handles a removal.
Fairness ==
    /\ WF_vars(Task(TRUE, TRUE))
    /\ WF_vars(Removal) /\ WF_vars(DeviceUmount)
    /\ \A i \in Instances : WF_vars(HidUmount(i))

Spec == Init /\ [][Next]_vars
FairSpec == Spec /\ Fairness

-----------------------------------------------------------------------------
(* Properties *)

TypeOK ==
    /\ running \in BOOLEAN /\ mode \in Modes
    /\ active \in BOOLEAN /\ instance \in Instances
    /\ receivePending \in BOOLEAN /\ allowed \in BOOLEAN
    /\ lightbarPending \in BOOLEAN /\ lightbar \in Modes
    /\ connected \in BOOLEAN /\ led \in BOOLEAN
    /\ device \in [present : BOOLEAN, known : BOOLEAN, interfaces : SUBSET Instances]
    /\ host \in {"idle", "mounting", "mounted", "closing", "unmounted"}
    /\ mounted \in SUBSET Instances
    /\ xfer \in SUBSET Instances
    /\ bar \in Modes \cup {ModeCount}

\* The firmware is never deaf: when it waits for a report, a transfer that will
\* bring one (or fail) is outstanding on the interface it listens to, through
\* refusals, failed transfers, removals and replugs (receive_pending, the only
\* thing that stops ArmReceiveReport).
NotDeaf == receivePending => active /\ instance \in xfer

\* One interface of one controller feeds the firmware: nothing else is ever
\* listened to, and what it listens to is mounted.
ListensToOne ==
    /\ active => instance \in mounted
    /\ ~Removing => xfer \subseteq (IF active THEN {instance} ELSE {})

\* What the status payload and the LED say is so: connected while reports are
\* taken from a controller, the LED on while a known device is mounted, and
\* neither once its removal has been handled, whichever callback came first.
LampsAreTrue ==
    /\ connected <=> active
    /\ led <=> allowed
    /\ active => allowed
    /\ host = "idle" => ~allowed
    /\ host = "mounted" /\ device.known => allowed

\* The lightbar comes to show the profile, though its first report is refused.
LightbarArrives == active ~> bar = mode \/ ~active \/ ~running
=============================================================================
