------------------------- MODULE ControllerLinkProofs ------------------------
(***************************************************************************)
(* The safety properties of ControllerLink, for every number of interfaces *)
(* and profiles.                                                           *)
(***************************************************************************)
EXTENDS ControllerLink, TLAPS

\* What the stack keeps: transfers are on mounted interfaces, and a removal
\* ends with none; by tuh_umount_cb the controller is forgotten.
StackInv ==
    /\ xfer \subseteq mounted
    /\ host = "idle" => mounted = {}
    /\ host = "unmounted" => ~allowed

IInv == TypeOK /\ NotDeaf /\ ListensToOne /\ LampsAreTrue /\ StackInv

\* The profile and the interface that boot starts from are a profile and an interface.
LEMMA DefaultMode == kKeyboardMouse \in Modes /\ 0 \in Instances
BY LinkAssumption DEF kKeyboardMouse, Modes

\* What boot and a removal leave of g_controller and the lamps.
Dark ==
    /\ active = FALSE /\ instance = 0 /\ receivePending = FALSE /\ allowed = FALSE
    /\ lightbarPending = FALSE /\ lightbar = kKeyboardMouse
    /\ connected = FALSE /\ led = FALSE

\* Boot establishes the invariant.
LEMMA InitIInv == Init => IInv
<1> SUFFICES ASSUME Init PROVE IInv
  OBVIOUS
<1>1. TypeOK
  BY DefaultMode DEF Init, TypeOK, NoDevice
<1>2. NotDeaf /\ ListensToOne /\ StackInv
  BY DEF Init, NotDeaf, ListensToOne, StackInv, Removing
<1>3. LampsAreTrue
  BY DEF Init, LampsAreTrue
<1> QED
  BY <1>1, <1>2, <1>3 DEF IInv

\* A report asked for adds at most the interface's transfer.
LEMMA ArmEffect ==
    ASSUME NEW pending \in BOOLEAN, NEW transfers, NEW i, NEW ok \in BOOLEAN,
           Arm(pending, transfers, i, ok)
    PROVE  /\ receivePending' \in BOOLEAN
           /\ xfer' = transfers \/ xfer' = transfers \cup {i}
           /\ receivePending' => pending \/ i \in xfer'
           /\ transfers \subseteq xfer'
BY DEF Arm

\* The main loop keeps it, whether the stack takes or refuses its requests.
LEMMA TaskStep ==
    ASSUME IInv, NEW armed \in BOOLEAN, NEW sent \in BOOLEAN, Task(armed, sent)
    PROVE  IInv'
<1>1. CASE active
  <2>1. Arm(receivePending, xfer, instance, armed)
    BY <1>1 DEF Task
  <2>2. /\ receivePending' \in BOOLEAN
        /\ xfer' = xfer \/ xfer' = xfer \cup {instance}
        /\ receivePending' => receivePending \/ instance \in xfer'
        /\ xfer \subseteq xfer'
    BY <2>1, ArmEffect DEF IInv, TypeOK
  <2>3. lightbarPending' \in BOOLEAN /\ bar' \in Modes \cup {ModeCount}
    BY DEF Task, FlushPendingControllerOutputs, IInv, TypeOK
  <2>4. /\ UNCHANGED <<running, mode, active, instance, allowed, lightbar, connected, led,
                       device, host, mounted>>
        /\ ~Removing
    BY DEF Task, lamps
  <2> QED
    BY <1>1, <2>2, <2>3, <2>4
    DEF IInv, TypeOK, NotDeaf, ListensToOne, LampsAreTrue, StackInv, Removing
<1>2. CASE ~active
  BY <1>2 DEF Task, FlushPendingControllerOutputs, lamps, IInv, TypeOK, NotDeaf, ListensToOne,
              LampsAreTrue, StackInv, Removing
<1> QED
  BY <1>1, <1>2

\* So does mounting an interface, taken or not.
LEMMA HidMountStep ==
    ASSUME IInv, NEW i \in Instances, NEW armed \in BOOLEAN, HidMount(i, armed)
    PROVE  IInv'
<1>1. /\ UNCHANGED <<running, mode, device, host, bar>>
      /\ host = "mounting" /\ mounted' = mounted \cup {i}
  BY DEF HidMount, Mounts
<1>2. CASE device.known /\ ~active
  <2>1. /\ active' = TRUE /\ instance' = i /\ allowed' = TRUE
        /\ led' = TRUE /\ connected' = TRUE
        /\ lightbarPending' = TRUE /\ lightbar' = mode
        /\ Arm(receivePending, xfer, i, armed)
    BY <1>2 DEF HidMount, Take, QueueModeLightbar
  <2>2. /\ receivePending' \in BOOLEAN
        /\ xfer' = xfer \/ xfer' = xfer \cup {i}
        /\ receivePending' => receivePending \/ i \in xfer'
    BY <2>1, ArmEffect DEF IInv, TypeOK
  <2>3. xfer = {} /\ ~receivePending
    BY <1>1, <1>2 DEF IInv, ListensToOne, NotDeaf, Removing
  <2> QED
    BY <1>1, <2>1, <2>2, <2>3
    DEF IInv, TypeOK, NotDeaf, ListensToOne, LampsAreTrue, StackInv, Removing
<1>3. CASE ~(device.known /\ ~active)
  <2>1. UNCHANGED <<g_controller, lamps, xfer>>
    BY <1>3 DEF HidMount
  <2> QED
    BY <1>1, <2>1 DEF g_controller, lamps, IInv, TypeOK, NotDeaf, ListensToOne, LampsAreTrue,
                      StackInv, Removing
<1> QED
  BY <1>2, <1>3

\* So does the device's own mount callback.
LEMMA DeviceMountStep ==
    ASSUME IInv, DeviceMount
    PROVE  IInv'
<1>1. /\ UNCHANGED <<running, mode, active, instance, receivePending, lightbarPending,
                     lightbar, connected, device, mounted, xfer, bar>>
      /\ host = "mounting" /\ host' = "mounted"
  BY DEF DeviceMount
<1>2. CASE device.known
  <2>1. allowed' = TRUE /\ led' = TRUE
    BY <1>2 DEF DeviceMount
  <2> QED
    BY <1>1, <2>1
    DEF IInv, TypeOK, NotDeaf, ListensToOne, LampsAreTrue, StackInv, Removing
<1>3. CASE ~device.known
  <2>1. UNCHANGED <<allowed, led>>
    BY <1>3 DEF DeviceMount
  <2> QED
    BY <1>1, <1>3, <2>1
    DEF IInv, TypeOK, NotDeaf, ListensToOne, LampsAreTrue, StackInv, Removing
<1> QED
  BY <1>2, <1>3

\* So does the removal callback of the device, before or after the interface's.
LEMMA DeviceUmountStep ==
    ASSUME IInv, DeviceUmount
    PROVE  IInv'
<1>1. /\ UNCHANGED <<running, mode, device, mounted, xfer, bar>>
      /\ host = "closing"
      /\ host' = IF mounted = {} THEN "idle" ELSE "unmounted"
  BY DEF DeviceUmount
<1>2. CASE allowed
  <2>1. /\ active' = FALSE /\ instance' = 0 /\ receivePending' = FALSE
        /\ lightbarPending' = FALSE /\ lightbar' = kKeyboardMouse
        /\ allowed' = FALSE /\ connected' = FALSE /\ led' = FALSE
    BY <1>2 DEF DeviceUmount, ClearHidState
  <2>2. TypeOK'
    BY <1>1, <2>1, DefaultMode DEF IInv, TypeOK
  <2>3. (NotDeaf /\ ListensToOne /\ LampsAreTrue)'
    BY <1>1, <2>1 DEF IInv, TypeOK, NotDeaf, ListensToOne, LampsAreTrue, StackInv, Removing
  <2>4. StackInv'
    BY <1>1, <2>1 DEF IInv, LampsAreTrue, StackInv, Removing
  <2> QED
    BY <2>2, <2>3, <2>4 DEF IInv
<1>3. CASE ~allowed
  <2>1. UNCHANGED <<g_controller, lamps>> /\ ~active
    BY <1>3 DEF DeviceUmount, IInv, LampsAreTrue
  <2> QED
    BY <1>1, <1>3, <2>1
    DEF g_controller, lamps, IInv, TypeOK, NotDeaf, ListensToOne, LampsAreTrue, StackInv, Removing
<1> QED
  BY <1>2, <1>3

\* So does the removal callback of an interface, before or after the device's.
LEMMA HidUmountStep ==
    ASSUME IInv, NEW i \in Instances, HidUmount(i)
    PROVE  IInv'
<1>1. /\ UNCHANGED <<running, mode, allowed, led, device, bar>>
      /\ Removing /\ mounted' = mounted \ {i} /\ xfer' = xfer \ {i}
      /\ host' = IF host = "unmounted" /\ mounted' = {} THEN "idle" ELSE host
  BY DEF HidUmount
<1>2. CASE active /\ instance = i
  <2>1. /\ active' = FALSE /\ instance' = 0 /\ receivePending' = FALSE
        /\ lightbarPending' = FALSE /\ lightbar' = kKeyboardMouse /\ connected' = FALSE
    BY <1>2 DEF HidUmount, ClearHidState
  <2>2. TypeOK'
    BY <1>1, <2>1, DefaultMode DEF IInv, TypeOK
  <2>3. (NotDeaf /\ ListensToOne /\ LampsAreTrue)'
    BY <1>1, <2>1 DEF IInv, TypeOK, NotDeaf, ListensToOne, LampsAreTrue, StackInv, Removing
  <2>4. StackInv'
    BY <1>1, <2>1 DEF IInv, LampsAreTrue, StackInv, Removing
  <2> QED
    BY <2>2, <2>3, <2>4 DEF IInv
<1>3. CASE ~(active /\ instance = i)
  <2>1. UNCHANGED <<active, instance, receivePending, lightbarPending, lightbar, connected>>
    BY <1>3 DEF HidUmount
  <2> QED
    BY <1>1, <1>3, <2>1
    DEF IInv, TypeOK, NotDeaf, ListensToOne, LampsAreTrue, StackInv, Removing
<1> QED
  BY <1>2, <1>3

\* So does a transfer that completes or fails.
LEMMA ReportReceivedStep ==
    ASSUME IInv, NEW i \in Instances, NEW full \in BOOLEAN, NEW armed \in BOOLEAN,
           ReportReceived(i, full, armed)
    PROVE  IInv'
<1>1. /\ UNCHANGED <<running, mode, active, instance, allowed, lightbarPending, lightbar,
                     led, device, host, mounted, bar>>
      /\ ~Removing /\ i \in xfer
  BY DEF ReportReceived
<1>2. active /\ instance = i
  BY <1>1 DEF IInv, ListensToOne
<1>3. Arm(FALSE, xfer \ {i}, i, armed) /\ connected' = (connected \/ full)
  BY <1>2 DEF ReportReceived
<1>4. /\ receivePending' \in BOOLEAN
      /\ xfer' = xfer \ {i} \/ xfer' = (xfer \ {i}) \cup {i}
      /\ receivePending' => i \in xfer'
  BY <1>3 DEF Arm
<1>5. connected /\ connected'
  BY <1>2, <1>3 DEF IInv, LampsAreTrue
<1>6. xfer' \subseteq xfer
  BY <1>1, <1>4
<1>7. TypeOK'
  BY <1>1, <1>4, <1>5, <1>6 DEF IInv, TypeOK
<1>8. (NotDeaf /\ ListensToOne /\ StackInv)'
  BY <1>1, <1>2, <1>4, <1>6 DEF IInv, NotDeaf, ListensToOne, StackInv, Removing
<1>9. LampsAreTrue'
  BY <1>1, <1>5 DEF IInv, LampsAreTrue
<1> QED
  BY <1>7, <1>8, <1>9 DEF IInv

\* So does a boot.
LEMMA StartedStep ==
    ASSUME IInv, NEW m \in Modes, Started(m)
    PROVE  IInv'
<1>1. Dark' /\ UNCHANGED <<device, bar>>
      /\ running' = TRUE /\ mode' = m /\ host' = "idle" /\ mounted' = {} /\ xfer' = {}
  BY DEF Started, Dark
<1>2. TypeOK'
  BY <1>1, DefaultMode DEF Dark, IInv, TypeOK
<1>3. (NotDeaf /\ ListensToOne /\ LampsAreTrue /\ StackInv)'
  BY <1>1 DEF Dark, NotDeaf, ListensToOne, LampsAreTrue, StackInv, Removing
<1> QED
  BY <1>2, <1>3 DEF IInv

\* So does the swipe that ends a session.
LEMMA SwipeStep ==
    ASSUME IInv, NEW i \in Instances, Swipe(i)
    PROVE  IInv'
<1>1. /\ UNCHANGED <<mode, active, instance, allowed, lightbarPending, lightbar, lamps,
                     device, host, mounted, bar>>
      /\ ~Removing /\ active /\ instance = i
      /\ running' = FALSE /\ receivePending' = FALSE /\ xfer' = xfer \ {i}
  BY DEF Swipe
<1>2. TypeOK'
  BY <1>1 DEF lamps, IInv, TypeOK
<1>3. (NotDeaf /\ ListensToOne /\ StackInv)'
  BY <1>1 DEF IInv, NotDeaf, ListensToOne, StackInv, Removing
<1>4. LampsAreTrue'
  BY <1>1 DEF lamps, IInv, LampsAreTrue
<1> QED
  BY <1>2, <1>3, <1>4 DEF IInv

\* Every step keeps the invariant.
LEMMA NextIInv == IInv /\ [Next]_vars => IInv'
<1> SUFFICES ASSUME IInv, [Next]_vars PROVE IInv'
  OBVIOUS
<1>1. CASE \E armed, sent \in BOOLEAN : Task(armed, sent)
  BY <1>1, TaskStep
<1>2. CASE \E i \in Instances, armed \in BOOLEAN : HidMount(i, armed)
  BY <1>2, HidMountStep
<1>3. CASE DeviceMount
  BY <1>3, DeviceMountStep
<1>4. CASE DeviceUmount
  BY <1>4, DeviceUmountStep
<1>5. CASE \E i \in Instances : HidUmount(i)
  BY <1>5, HidUmountStep
<1>6. CASE \E i \in Instances, full, armed \in BOOLEAN : ReportReceived(i, full, armed)
  BY <1>6, ReportReceivedStep
<1>7. CASE \E i \in Instances : Swipe(i)
  BY <1>7, SwipeStep
<1>8. CASE \E d \in Devices : Plug(d)
  BY <1>8 DEF Plug, Devices, g_controller, lamps, IInv, TypeOK, NotDeaf, ListensToOne,
              LampsAreTrue, StackInv, Removing
<1>9. CASE Pull
  BY <1>9 DEF Pull, g_controller, lamps, IInv, TypeOK, NotDeaf, ListensToOne, LampsAreTrue,
              StackInv, Removing
<1>10. CASE Enumerate
  BY <1>10 DEF Enumerate, Host, g_controller, lamps, IInv, TypeOK, NotDeaf, ListensToOne,
               LampsAreTrue, StackInv, Removing
<1>11. CASE Removal
  BY <1>11 DEF Removal, Host, g_controller, lamps, IInv, TypeOK, NotDeaf, ListensToOne,
               LampsAreTrue, StackInv, Removing
<1>12. CASE Reboot \/ PowerCycle
  BY <1>12, StartedStep DEF Reboot, PowerCycle
<1>13. CASE UNCHANGED vars
  BY <1>13 DEF vars, g_controller, lamps, stack, IInv, TypeOK, NotDeaf, ListensToOne,
               LampsAreTrue, StackInv, Removing
<1> QED
  BY <1>1, <1>2, <1>3, <1>4, <1>5, <1>6, <1>7, <1>8, <1>9, <1>10, <1>11, <1>12, <1>13 DEF Next

\* The inductive invariant holds.
THEOREM LinkInvariance == Spec => []IInv
BY InitIInv, NextIInv, PTL DEF Spec

\* The firmware never waits for a report that no transfer will bring.
THEOREM NotDeafHolds == Spec => []NotDeaf
<1>1. IInv => NotDeaf
  BY DEF IInv
<1> QED
  BY <1>1, LinkInvariance, PTL

\* Only the interface in use is ever listened to.
THEOREM ListensToOneHolds == Spec => []ListensToOne
<1>1. IInv => ListensToOne
  BY DEF IInv
<1> QED
  BY <1>1, LinkInvariance, PTL

\* The status payload and the LED tell the truth in whatever order the stack
\* reports a removal.
THEOREM LampsAreTrueHolds == Spec => []LampsAreTrue
<1>1. IInv => LampsAreTrue
  BY DEF IInv
<1> QED
  BY <1>1, LinkInvariance, PTL
==============================================================================
