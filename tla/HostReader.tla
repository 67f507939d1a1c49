----------------------------- MODULE HostReader ------------------------------
(***************************************************************************)
(* host_reader.cc as one system: ControllerLink decides which reports are  *)
(* taken, OutputReports what becomes of them.  They share g_controller's   *)
(* active flag, the booted profile and the firmware's life; every callback *)
(* of the host stack is one step of both.                                  *)
(***************************************************************************)
EXTENDS OutputReports

CONSTANT Instances     \* HID interfaces a device may have, 0 the first

ASSUME InstanceAssumption == 0 \in Instances

VARIABLES instance, receivePending, allowed, lightbarPending, lightbar,
          connected, led, device, host, mounted, xfer, bar

outVars == <<activeMode, buttons, touchpadZone, out, usb, pc, owed, clamped, stale>>
linkVars == <<instance, receivePending, allowed, lightbarPending, lightbar, connected,
              led, device, host, mounted, xfer, bar>>
sysVars == <<vars, linkVars>>

Link == INSTANCE ControllerLink

-----------------------------------------------------------------------------
(* The callbacks *)

\* A bug: an interface that refuses the first request is not taken.
MountArmed(i, armed) ==
    /\ Link!HidMountArmed(i, armed)
    /\ IF device.known /\ ~active /\ armed THEN Activate ELSE UNCHANGED outVars

tuh_hid_mount_cb(i, armed) ==
    /\ Link!HidMount(i, armed)
    /\ IF device.known /\ ~active THEN Activate ELSE UNCHANGED outVars

\* A bug: a removal forgets the controller and not what it held.
UmountKeepingReports ==
    /\ Link!DeviceUmount
    /\ UNCHANGED outVars

tuh_umount_cb ==
    /\ Link!DeviceUmount
    /\ IF allowed THEN DeviceUmount ELSE UNCHANGED outVars

tuh_hid_umount_cb(i) ==
    /\ Link!HidUmount(i)
    /\ IF active /\ instance = i THEN HidUmount ELSE UNCHANGED outVars

tuh_hid_report_received_cb(i, r, armed) ==
    /\ Link!ReportReceived(i, r.full, armed)
    /\ IF active /\ instance = i THEN ReportReceived(r) ELSE UNCHANGED outVars

Swipe(i, direction) == Link!Swipe(i) /\ HandleModeSwitch(direction)

\* What moves one side and not the other: Task, the stack and the controller;
\* the PC.
LinkOnly ==
    /\ \/ \E armed, sent \in BOOLEAN : Link!Task(armed, sent)
       \/ \E d \in Link!Devices : Link!Plug(d)
       \/ Link!DeviceMount \/ Link!Pull \/ Link!Enumerate \/ Link!Removal
    /\ UNCHANGED outVars

PcOnly ==
    /\ (\E o \in Outputs : HostPoll(o)) \/ BusReset \/ Configure \/ Suspend \/ Resume
    /\ UNCHANGED linkVars

Restart == (Reboot \/ PowerCycle) /\ Link!Started(mode')

SysInit == Init /\ Link!Init

SysNext ==
    \/ \E i \in Instances, armed \in BOOLEAN : tuh_hid_mount_cb(i, armed)
    \/ tuh_umount_cb
    \/ \E i \in Instances : tuh_hid_umount_cb(i)
    \/ \E i \in Instances, r \in Reports, armed \in BOOLEAN :
         tuh_hid_report_received_cb(i, r, armed)
    \/ \E i \in Instances, direction \in {"next", "previous"} : Swipe(i, direction)
    \/ LinkOnly \/ PcOnly \/ Restart

\* The main loop and the stack make progress, the stack does not refuse for
\* ever, a transfer outstanding completes or fails, and a configured PC polls.
SysFairness ==
    /\ WF_sysVars(Link!Task(TRUE, TRUE) /\ UNCHANGED outVars)
    /\ WF_sysVars((Link!Enumerate \/ Link!DeviceMount \/ Link!Removal) /\ UNCHANGED outVars)
    /\ WF_sysVars(\E i \in Instances, armed \in BOOLEAN : tuh_hid_mount_cb(i, armed))
    /\ WF_sysVars(tuh_umount_cb)
    /\ \A i \in Instances : WF_sysVars(tuh_hid_umount_cb(i))
    /\ \A i \in Instances :
         WF_sysVars(\E r \in Reports, armed \in BOOLEAN : tuh_hid_report_received_cb(i, r, armed))
    /\ \A o \in Outputs : WF_sysVars(HostPoll(o) /\ UNCHANGED linkVars)

SysSpec == SysInit /\ [][SysNext]_sysVars
SysFairSpec == SysSpec /\ SysFairness

-----------------------------------------------------------------------------
(* Properties *)

\* The callbacks give OutputReports what it takes for granted: reports come
\* only from the interface in use, and while a controller is in use they never
\* stop coming (its fairness), because Task and the callbacks re-arm it.
ImplementsOutputReports == FairSpec

\* A known controller that stays plugged in comes to be listened to, however
\* it and its predecessors were plugged, pulled and refused before; usb says
\* that the board is not power-cycled for ever.
PluggedInIsTaken ==
    <>[](/\ running /\ usb # "unconfigured"
         /\ device.present /\ device.known /\ device.interfaces # {}) => <>[]active

\* End to end: what a controller that stays plugged in holds down reaches a PC
\* that stays configured, from any earlier history of either.
HeldInputArrives ==
    \A held \in SUBSET Keys :
        <>[](/\ running /\ device.present /\ device.known /\ device.interfaces # {}
             /\ usb = "ready" /\ HasOutput(mode, "keyboard")
             /\ "keyboard" \notin stale /\ out["keyboard"].report = held)
            => <>[](pc["keyboard"] = held)
=============================================================================
