----------------------------- MODULE TouchScroll -----------------------------
(***************************************************************************)
(* How fingers on the touchpad turn the wheel (ParseTouchScroll and        *)
(* UpdateTouchPoint in src/host_reader.cc).  Each touch point adds up how  *)
(* far its finger went; when one has gone far enough the wheel turns by a  *)
(* notch, and both begin anew.                                             *)
(*                                                                         *)
(* External: the fingers, at most two, each with an identifier that tells  *)
(* its touch from the next one on the same point.                          *)
(***************************************************************************)
EXTENDS CArithmetic

CONSTANTS
    TOUCHPAD_SCROLL_THRESHOLD,
    Height,       \* 4096: a report gives a finger 12 bits
    Ids

ASSUME ScrollAssumption ==
    /\ TOUCHPAD_SCROLL_THRESHOLD \in Nat \ {0}
    /\ Height \in 1 .. 4096

VARIABLES
    finger,    \* per touch point: active, its id, where it was, how far it went
    scroll,    \* what ParseTouchScroll gave for the last report
    stretch    \* history: per touch point, empty or the stretch its finger went

scrollVars == <<finger, scroll, stretch>>

Points == {0, 1}
Ys == 0 .. Height - 1

NoPoint == [active |-> FALSE]
Touches == {NoPoint} \cup [active : {TRUE}, id : Ids, y : Ys]

Far(n) == Abs32(n) >= TOUCHPAD_SCROLL_THRESHOLD

-----------------------------------------------------------------------------

Lifted(f) ==
    [active |-> FALSE, id |-> finger[f].id, last_y |-> finger[f].last_y, accum |-> 0]

Landed(p) == [active |-> TRUE, id |-> p.id, last_y |-> p.y, accum |-> 0]

Moved(f, p) ==
    [active |-> TRUE, id |-> p.id, last_y |-> p.y,
     accum |-> AsInt16(finger[f].accum + p.y - finger[f].last_y)]

\* A bug: a finger that takes the place of another is taken for it.
UpdateTouchPointAnyId(f, p) ==
    IF ~p.active THEN Lifted(f)
    ELSE IF ~finger[f].active THEN Landed(p)
    ELSE Moved(f, p)

UpdateTouchPoint(f, p) ==
    IF ~p.active THEN Lifted(f)
    ELSE IF ~finger[f].active \/ finger[f].id # p.id THEN Landed(p)
    ELSE Moved(f, p)

\* The first point goes before the second; a turn down is negative.
Trigger(accum) == IF Far(accum[0]) THEN accum[0] ELSE IF Far(accum[1]) THEN accum[1] ELSE 0

Turn(trigger) == IF trigger > 0 THEN -1 ELSE IF trigger < 0 THEN 1 ELSE 0

\* Both points begin anew.
Restart(next) == [f \in Points |-> [next[f] EXCEPT !.accum = 0]]

\* How far each finger went, by the reports alone: from where it touched, or was
\* at the last turn.
Follow(touch) ==
    stretch' = [f \in Points |->
        IF ~touch[f].active THEN {}
        ELSE IF \E s \in stretch[f] : s.id = touch[f].id
        THEN {[id |-> s.id, from |-> IF scroll = 0 THEN s.from ELSE s.to, to |-> touch[f].y] :
                  s \in stretch[f]}
        ELSE {[id |-> touch[f].id, from |-> touch[f].y, to |-> touch[f].y]}]

ParseTouchScroll(touch) ==
    LET next == [f \in Points |-> UpdateTouchPoint(f, touch[f])]
        trigger == Trigger([f \in Points |-> next[f].accum])
    IN  /\ scroll' = Turn(trigger)
        /\ \/ trigger = 0 /\ finger' = next
           \/ trigger # 0 /\ finger' = Restart(next)
        /\ Follow(touch)

\* The controller's interface goes; where fingers were stays.
ClearTouchPoints ==
    /\ finger' = [f \in Points |-> Lifted(f)]
    /\ scroll' = 0
    /\ stretch' = [f \in Points |-> {}]

ScrollInit ==
    /\ finger \in {[f \in Points |-> [active |-> FALSE, id |-> i, last_y |-> 0, accum |-> 0]] :
                       i \in Ids}
    /\ scroll = 0
    /\ stretch = [f \in Points |-> {}]

ScrollNext ==
    \/ \E touch \in [Points -> Touches] : ParseTouchScroll(touch)
    \/ ClearTouchPoints

ScrollSpec == ScrollInit /\ [][ScrollNext]_scrollVars

-----------------------------------------------------------------------------
(* Properties *)

\* Every variable has its type; what a finger went fits the 16 bits it has.
ScrollTypeOK ==
    /\ finger \in [Points -> [active : BOOLEAN, id : Ids, last_y : Ys, accum : Int16]]
    /\ scroll \in {-1, 0, 1}
    /\ stretch \in [Points -> SUBSET [id : Ids, from : Ys, to : Ys]]

Went(f) == {s.to - s.from : s \in stretch[f]}

\* The wheel turns exactly when a finger has gone far enough since it touched or
\* the wheel last turned, and its way: never for the jump from one finger to
\* another on the same point, and once when both go together.
TurnsAsMoved ==
    \/ \E n \in Went(0) : Far(n) /\ scroll = Turn(n)
    \/ ~(\E n \in Went(0) : Far(n)) /\ \E n \in Went(1) : Far(n) /\ scroll = Turn(n)
    \/ ~(\E n \in Went(0) \cup Went(1) : Far(n)) /\ scroll = 0

\* What a point has added up is what its finger went since the last turn.
AccumulatesTravel ==
    \A f \in Points :
        /\ finger[f].active <=> stretch[f] # {}
        /\ \A s \in stretch[f] :
            /\ finger[f].id = s.id /\ finger[f].last_y = s.to
            /\ finger[f].accum = IF scroll = 0 THEN s.to - s.from ELSE 0
=============================================================================
