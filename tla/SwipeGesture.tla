---------------------------- MODULE SwipeGesture ----------------------------
(***************************************************************************)
(* The gesture that switches profiles (ParseSwipeGesture in                *)
(* src/host_reader.cc).  Each report names up to two touch points; the     *)
(* gesture follows the first while the second is not there, and is judged  *)
(* when the first is let go.  A report too short, or of a failed transfer, *)
(* names no touch point.                                                   *)
(*                                                                         *)
(* The fingers are external: any of them may come, go, move and take the   *)
(* place of another between two reports.  The gesture does not look at     *)
(* their touch identifiers, so the model has none.                         *)
(***************************************************************************)
EXTENDS Naturals

CONSTANTS
    Width,                        \* 1920
    SWIPE_GESTURE_EDGE_MARGIN,
    Positions                     \* where a report can find a finger

ASSUME SwipeAssumption ==
    /\ Width \in Nat /\ SWIPE_GESTURE_EDGE_MARGIN \in Nat
    /\ 2 * SWIPE_GESTURE_EDGE_MARGIN < Width
    /\ Positions \subseteq 0 .. Width - 1 /\ 0 \in Positions

VARIABLES
    swipe_finger_down, swipe_start_x, swipe_current_x,
    direction,   \* what ParseSwipeGesture returned for the last report
    stroke       \* history: the first point's touch, from the report that first
                 \* names the point to the first that does not

swipe == <<swipe_finger_down, swipe_start_x, swipe_current_x>>
swipeVars == <<swipe, direction, stroke>>

\* Where the touch began and where it last was; everywhere it was since the second
\* point was last there; whether the finger had the pad to itself at first, and
\* whether the second point joined it.
Strokes == [touching : BOOLEAN, first : Positions, last : Positions,
            places : SUBSET Positions, alone : BOOLEAN, joined : BOOLEAN]

NoStroke == [touching |-> FALSE, first |-> 0, last |-> 0,
             places |-> {}, alone |-> FALSE, joined |-> FALSE]

\* The first point is at x, by itself or not.
Touch(x, byItself) ==
    stroke' = [touching |-> TRUE,
               first |-> IF stroke.touching THEN stroke.first ELSE x,
               last |-> x,
               places |-> IF byItself THEN stroke.places \cup {x} ELSE {},
               alone |-> IF stroke.touching THEN stroke.alone ELSE byItself,
               joined |-> stroke.joined \/ (stroke.alone /\ ~byItself)]

-----------------------------------------------------------------------------

kLeft == SWIPE_GESTURE_EDGE_MARGIN
kRight == Width - SWIPE_GESTURE_EDGE_MARGIN

\* Where a swipe from one place to another leads.
Judge(start, end) ==
    CASE start < kLeft /\ end > kRight -> "next"
      [] start > kRight /\ end < kLeft -> "previous"
      [] OTHER -> "none"

\* The second point is active.
SecondFinger ==
    /\ swipe_finger_down' = FALSE
    /\ direction' = "none"
    /\ UNCHANGED <<swipe_start_x, swipe_current_x>>

\* A bug: the start is what the last gesture left.
FingerDownKeepingStart(x) ==
    /\ ~swipe_finger_down
    /\ swipe_finger_down' = TRUE
    /\ swipe_current_x' = x
    /\ direction' = "none"
    /\ UNCHANGED swipe_start_x

FingerDown(x) ==
    /\ ~swipe_finger_down
    /\ swipe_finger_down' = TRUE
    /\ swipe_start_x' = x /\ swipe_current_x' = x
    /\ direction' = "none"

FingerMoves(x) ==
    /\ swipe_finger_down
    /\ swipe_current_x' = x
    /\ direction' = "none"
    /\ UNCHANGED <<swipe_finger_down, swipe_start_x>>

FingerUp ==
    /\ swipe_finger_down
    /\ swipe_finger_down' = FALSE
    /\ direction' = Judge(swipe_start_x, swipe_current_x)
    /\ UNCHANGED <<swipe_start_x, swipe_current_x>>

NoFinger ==
    /\ ~swipe_finger_down
    /\ direction' = "none"
    /\ UNCHANGED swipe

\* The reports; a direction other than none is acted upon before the next one.
TwoFingers(x) ==
    /\ direction = "none"
    /\ SecondFinger
    /\ Touch(x, FALSE)

SecondFingerOnly ==
    /\ direction = "none"
    /\ SecondFinger
    /\ stroke' = NoStroke

OneFinger(x) ==
    /\ direction = "none"
    /\ FingerDown(x) \/ FingerMoves(x)
    /\ Touch(x, TRUE)

NoTouch ==
    /\ direction = "none"
    /\ FingerUp \/ NoFinger
    /\ stroke' = NoStroke

\* HandleModeSwitch ends in a reboot.
Reboot ==
    /\ direction # "none"
    /\ swipe_finger_down' = FALSE /\ swipe_start_x' = 0 /\ swipe_current_x' = 0
    /\ direction' = "none"
    /\ stroke' = NoStroke

\* The interface or the device goes; the positions stay.
ClearSwipe ==
    /\ direction = "none"
    /\ swipe_finger_down' = FALSE
    /\ stroke' = NoStroke
    /\ UNCHANGED <<swipe_start_x, swipe_current_x, direction>>

SwipeInit ==
    /\ swipe_finger_down = FALSE /\ swipe_start_x = 0 /\ swipe_current_x = 0
    /\ direction = "none"
    /\ stroke = NoStroke

SwipeNext ==
    \/ \E x \in Positions : OneFinger(x) \/ TwoFingers(x)
    \/ SecondFingerOnly
    \/ NoTouch
    \/ Reboot
    \/ ClearSwipe

SwipeSpec == SwipeInit /\ [][SwipeNext]_swipeVars

-----------------------------------------------------------------------------
(* Properties *)

\* Every variable has its type.
SwipeTypeOK ==
    /\ swipe_finger_down \in BOOLEAN
    /\ swipe_start_x \in Positions /\ swipe_current_x \in Positions
    /\ direction \in {"none", "next", "previous"}
    /\ stroke \in Strokes

\* A finger that has the pad to itself from touching it to letting go switches
\* the profile exactly when it touched at one edge and left at the other.  Nothing
\* else switches but a touch that went from edge to edge after the second point was
\* last there: not by what went before that, nor by a start or an end that an
\* earlier touch left behind.
SwitchesAsMoved ==
    [][/\ NoTouch /\ stroke.alone /\ ~stroke.joined
            => direction' = Judge(stroke.first, stroke.last)
       /\ direction = "none" /\ direction' # "none"
            => \E x \in stroke.places : Judge(x, stroke.last) = direction']_swipeVars

\* "A second finger on the pad at any point during the swipe cancels it."
\* (README.md:296; host_reader.cc:1029 says the same): a touch that began as one
\* finger's and that the second joined does not switch the profile.
SecondFingerCancels ==
    [][direction = "none" /\ direction' # "none" => ~stroke.joined]_swipeVars
=============================================================================
