--------------------------- MODULE MCFirmwareParts ---------------------------
(***************************************************************************)
(* Parts of the firmware that share no state, so that what one does shows  *)
(* nothing of another: a behaviour explores one of them and leaves the     *)
(* others as they begin.  Three slots for six keys; fingers at either edge *)
(* of the pad and on either side of each threshold, on five rows of which  *)
(* two turn the wheel; every build CMake can be asked for; controllers     *)
(* whose gyro drifts two ways, held still, moved a little, turned and      *)
(* flicked; both sticks everywhere; two of a controller's controls at      *)
(* once; two poses and a jolt, of four poses.                              *)
(***************************************************************************)
EXTENDS KeyboardReport, SwipeGesture, TouchScroll, UsbLayout,
        GyroPointer, StickButtons, GamepadReports, LeanEstimate

CONSTANTS kKeyR, kKeyF, kKeyW, kKeyD

VARIABLE explored

MCButtonKeys == <<kKeyR, kKeyF, kKeyW, kKeyD>>
MCBuilds == BuildsThereAre
OneBuild == [backend |-> "stadia", gyroStick |-> FALSE, status |-> FALSE]

Rate(x, y, z) == [x |-> x, y |-> y, z |-> z]
MCRates ==
    {Rate(0, 0, 0), Rate(-7, 11, 3), Rate(4, -9, -3),
     Rate(100, -30, 0), Rate(-333, 20, 5), Rate(1200, -6000, 900)}

Pose(accel, gyroZ, leans) == [accel |-> accel, gyroZ |-> gyroZ, roll |-> leans]
MCPoses ==
    {Pose(<<0, 0, 8192>>, 0, 0), Pose(<<5793, 4745, -3323>>, 11, 4500),
     Pose(<<-8192, 0, 0>>, -9, -9000)}
MCJolts == {[accel |-> <<-20000, 3000, 0>>, gyroZ |-> -Half]}

PartsInit ==
    /\ explored \in {"keyboard", "swipe", "scroll", "layout", "gyro", "sticks", "pad", "lean"}
    /\ KeyInit /\ SwipeInit /\ ScrollInit /\ LayoutInit
    /\ GyroInit /\ StickInit /\ PadInit /\ LeanInit
    /\ explored # "scroll" => \A f \in Points : finger[f].id = Min(Ids)
    /\ explored # "layout" => build = OneBuild
    /\ explored # "gyro" => profile = "mouse"
    /\ explored # "pad" => backend = "ds4" /\ device.pid = "kDualSensePid"

\* Every part but p stays as it is.
Only(p) ==
    /\ explored = p
    /\ p # "keyboard" => UNCHANGED keyVars
    /\ p # "swipe" => UNCHANGED swipeVars
    /\ p # "scroll" => UNCHANGED scrollVars
    /\ p # "layout" => UNCHANGED layoutVars
    /\ p # "gyro" => UNCHANGED gyroVars
    /\ p # "sticks" => UNCHANGED stick
    /\ p # "pad" => UNCHANGED padVars
    /\ p # "lean" => UNCHANGED leanVars

PartsNext ==
    /\ UNCHANGED explored
    /\ \/ Only("keyboard") /\ KeyNext
       \/ Only("swipe") /\ SwipeNext
       \/ Only("scroll") /\ ScrollNext
       \/ Only("layout") /\ LayoutNext
       \/ Only("gyro") /\ GyroNext
       \/ Only("sticks") /\ StickNext
       \/ Only("pad") /\ PadNext
       \/ Only("lean") /\ LeanNext

partsVars ==
    <<explored, keyVars, swipeVars, scrollVars, layoutVars, gyroVars, stick, padVars, leanVars>>

PartsSpec == PartsInit /\ [][PartsNext]_partsVars
=============================================================================
