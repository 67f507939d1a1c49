----------------------------- MODULE InputProofs -----------------------------
(***************************************************************************)
(* Proofs about what the inputs become.  The wheel turns as the            *)
(* fingers moved, for every pad a report can describe, every threshold and *)
(* every set of touch identifiers; a swipe is judged by where its finger   *)
(* went, for every width and margin; the slots of the keyboard report      *)
(* implement KeyRollover, for every number of keys and slots; and the PC   *)
(* sees on the gamepad what is held on the controller, however many of its *)
(* controls are held at once.  And about what it all travels on: in every  *)
(* build and profile the PC enumerates the interfaces, and what it is sent *)
(* on each is what that one was described to say.                          *)
(***************************************************************************)
EXTENDS KeyboardReport, TouchScroll, SwipeGesture, GamepadReports, UsbLayout,
        FiniteSetTheorems, WellFoundedInduction, TLAPS

FingerType == [active : BOOLEAN, id : Ids, last_y : Ys, accum : Int16]

IInv == ScrollTypeOK /\ AccumulatesTravel /\ TurnsAsMoved

\* Sixteen bits are more than a pad needs.
LEMMA HalfIs == Half \in Int /\ Half >= 4096
  BY DEF Half

\* The values of 16 bits are numbers, 0 among them.
LEMMA Int16Is == 0 \in Int16 /\ Int16 \subseteq Int
  BY HalfIs DEF Int16

\* What 16 bits hold is left as it is, and whatever is kept fits them.
LEMMA FitsInt16 ==
    /\ \A n \in Int : AsInt16(n) \in Int16
    /\ \A n \in Int : n \in -4095 .. 4095 => AsInt16(n) = n
  <1> SUFFICES ASSUME NEW n \in Int
               PROVE  /\ AsInt16(n) \in Int16
                      /\ n \in -4095 .. 4095 => AsInt16(n) = n
    OBVIOUS
  <1> DEFINE m == n + Half
             w == 2 * Half
             r == m % w
  <1>1. m \in Int /\ w \in Int /\ w > 0
    BY HalfIs
  <1>2. r \in Int /\ 0 <= r /\ r < w
    <2> HIDE DEF m, w
    <2> QED BY <1>1
  <1>3. 0 <= m /\ m < w => r = m
    <2> HIDE DEF m, w
    <2> QED BY <1>1
  <1>4. AsInt16(n) = r - Half
    BY DEF AsInt16
  <1> HIDE DEF r
  <1>5. AsInt16(n) \in Int16
    BY HalfIs, <1>2, <1>4 DEF Int16
  <1>6. n \in -4095 .. 4095 => AsInt16(n) = n
    BY HalfIs, <1>3, <1>4
  <1> QED BY <1>5, <1>6

\* The difference of two places on the pad is well within 16 bits.
LEMMA PadIsSmall ==
    ASSUME ScrollAssumption, NEW y \in Ys, NEW z \in Ys
    PROVE  y \in Int /\ y - z \in Int /\ y - z \in -4095 .. 4095
  <1>1. Height \in Int /\ Height <= 4096
    BY DEF ScrollAssumption
  <1>2. y \in Int /\ z \in Int /\ 0 <= y /\ y <= Height - 1 /\ 0 <= z /\ z <= Height - 1
    BY <1>1 DEF Ys
  <1> QED BY <1>1, <1>2

\* A touch point that is not touched names no finger.
LEMMA TouchIs ==
    ASSUME NEW touch \in [Points -> Touches], NEW f \in Points
    PROVE  /\ touch[f].active \in BOOLEAN
           /\ touch[f].active => touch[f].id \in Ids /\ touch[f].y \in Ys
  <1>1. touch[f] = NoPoint \/ touch[f] \in [active : {TRUE}, id : Ids, y : Ys]
    BY DEF Touches
  <1>2. CASE touch[f] = NoPoint
    BY <1>2 DEF NoPoint
  <1>3. CASE touch[f] \in [active : {TRUE}, id : Ids, y : Ys]
    BY <1>3
  <1> QED BY <1>1, <1>2, <1>3

\* One report brings each point from the travel before to the travel after it,
\* before either begins anew.
LEMMA PointFollows ==
    ASSUME ScrollAssumption, ScrollTypeOK, AccumulatesTravel,
           NEW touch \in [Points -> Touches], Follow(touch),
           NEW f \in Points, NEW next, next = UpdateTouchPoint(f, touch[f])
    PROVE  /\ next \in FingerType
           /\ next.active <=> stretch'[f] # {}
           /\ ~next.active => next.accum = 0
           /\ stretch'[f] \subseteq [id : Ids, from : Ys, to : Ys]
           /\ \A s \in stretch'[f] : /\ next.id = s.id /\ next.last_y = s.to
                                     /\ next.accum = s.to - s.from
  <1>t. /\ finger[f] \in FingerType /\ scroll \in {-1, 0, 1}
        /\ stretch[f] \subseteq [id : Ids, from : Ys, to : Ys]
    BY DEF ScrollTypeOK, FingerType
  <1>a. /\ finger[f].active <=> stretch[f] # {}
        /\ \A s \in stretch[f] :
            /\ finger[f].id = s.id /\ finger[f].last_y = s.to
            /\ finger[f].accum = IF scroll = 0 THEN s.to - s.from ELSE 0
    BY DEF AccumulatesTravel
  <1>p. /\ touch[f].active \in BOOLEAN
        /\ touch[f].active => touch[f].id \in Ids /\ touch[f].y \in Ys
    BY TouchIs
  <1>0. 0 \in Int16
    BY Int16Is
  <1>1. CASE ~touch[f].active
    <2>1. next = Lifted(f)
      BY <1>1 DEF UpdateTouchPoint
    <2>2. stretch'[f] = {}
      BY <1>1 DEF Follow
    <2>3. next = [active |-> FALSE, id |-> finger[f].id, last_y |-> finger[f].last_y,
                  accum |-> 0]
      BY <2>1 DEF Lifted
    <2>4. next \in FingerType
      BY <1>t, <1>0, <2>3 DEF FingerType
    <2>5. next.active = FALSE /\ next.accum = 0
      BY <2>3
    <2> QED BY <2>2, <2>4, <2>5
  <1>2. CASE touch[f].active /\ (~finger[f].active \/ finger[f].id # touch[f].id)
    <2>1. next = Landed(touch[f])
      BY <1>2 DEF UpdateTouchPoint
    <2>2. stretch'[f] = {[id |-> touch[f].id, from |-> touch[f].y, to |-> touch[f].y]}
      BY <1>2, <1>a DEF Follow
    <2>3. touch[f].y - touch[f].y = 0
      <3>1. touch[f].y \in Int
        BY <1>2, <1>p, PadIsSmall
      <3> QED BY <3>1
    <2>4. next = [active |-> TRUE, id |-> touch[f].id, last_y |-> touch[f].y, accum |-> 0]
      BY <2>1 DEF Landed
    <2>5. next \in FingerType
      BY <1>2, <1>p, <1>0, <2>4 DEF FingerType
    <2> QED BY <1>2, <1>p, <2>2, <2>3, <2>4, <2>5
  <1>3. CASE touch[f].active /\ finger[f].active /\ finger[f].id = touch[f].id
    <2> DEFINE Carried(s) == [id |-> s.id, from |-> IF scroll = 0 THEN s.from ELSE s.to,
                              to |-> touch[f].y]
    <2>1. next = Moved(f, touch[f])
      BY <1>3 DEF UpdateTouchPoint
    <2>2. stretch'[f] = {Carried(s) : s \in stretch[f]}
      <3>1. stretch[f] # {} /\ \E s \in stretch[f] : s.id = touch[f].id
        BY <1>3, <1>a
      <3> QED BY <1>3, <3>1 DEF Follow
    <2>3. ASSUME NEW s \in stretch[f]
          PROVE  Carried(s) \in [id : Ids, from : Ys, to : Ys]
      BY <1>3, <1>t, <1>p
    <2> DEFINE sum == finger[f].accum + touch[f].y - finger[f].last_y
    <2>4. next = [active |-> TRUE, id |-> touch[f].id, last_y |-> touch[f].y,
                  accum |-> AsInt16(sum)]
      BY <2>1 DEF Moved
    <2>5. \A s \in stretch[f] : sum = touch[f].y - (IF scroll = 0 THEN s.from ELSE s.to)
      <3> SUFFICES ASSUME NEW s \in stretch[f]
                   PROVE  sum = touch[f].y - (IF scroll = 0 THEN s.from ELSE s.to)
        OBVIOUS
      <3>1. s.from \in Ys /\ s.to \in Ys /\ touch[f].y \in Ys
        BY <1>3, <1>t, <1>p
      <3>2. s.from \in Int /\ s.to \in Int /\ touch[f].y \in Int
        BY <3>1, PadIsSmall
      <3>3. finger[f].last_y = s.to /\ finger[f].accum = IF scroll = 0 THEN s.to - s.from ELSE 0
        BY <1>a
      <3> QED BY <3>2, <3>3
    <2>6. sum \in Int /\ sum \in -4095 .. 4095
      <3>1. PICK s \in stretch[f] : TRUE
        BY <1>3, <1>a
      <3>2. s.from \in Ys /\ s.to \in Ys /\ touch[f].y \in Ys
        BY <1>3, <1>t, <1>p
      <3>3. sum = touch[f].y - s.from \/ sum = touch[f].y - s.to
        BY <2>5
      <3> HIDE DEF sum
      <3> QED BY <3>2, <3>3, PadIsSmall
    <2> HIDE DEF sum
    <2>7. AsInt16(sum) = sum /\ AsInt16(sum) \in Int16
      <3> HIDE DEF Carried
      <3>1. AsInt16(sum) \in Int16
        BY <2>6, FitsInt16
      <3>2. AsInt16(sum) = sum
        BY <2>6, FitsInt16
      <3> QED BY <3>1, <3>2
    <2>a. next \in FingerType
      BY <1>3, <1>p, <2>4, <2>7 DEF FingerType
    <2>b. next.active = TRUE /\ next.id = touch[f].id /\ next.last_y = touch[f].y /\ next.accum = sum
      BY <2>4, <2>7
    <2>8. stretch'[f] # {}
      <3>1. PICK s \in stretch[f] : TRUE
        BY <1>3, <1>a
      <3> HIDE DEF Carried
      <3>2. Carried(s) \in stretch'[f]
        BY <2>2
      <3> QED BY <3>2
    <2>9. ASSUME NEW r \in stretch'[f]
          PROVE  /\ r \in [id : Ids, from : Ys, to : Ys]
                 /\ next.id = r.id /\ next.last_y = r.to /\ next.accum = r.to - r.from
      <3>1. PICK s \in stretch[f] : r = Carried(s)
        <4> HIDE DEF Carried
        <4> QED BY <2>2
      <3>2. r.id = s.id /\ r.to = touch[f].y /\ r.from = IF scroll = 0 THEN s.from ELSE s.to
        BY <3>1
      <3>3. r \in [id : Ids, from : Ys, to : Ys]
        BY <2>3, <3>1
      <3>4. next.id = s.id
        BY <1>3, <1>a, <2>b
      <3> QED BY <2>5, <2>b, <3>2, <3>3, <3>4
    <2> QED BY <2>a, <2>b, <2>8, <2>9
  <1> QED BY <1>1, <1>2, <1>3, <1>p, <1>t DEF FingerType

\* The two points after a report, and what comes of them.
LEMMA ReportKeepsInvariant ==
    ASSUME ScrollAssumption, IInv, NEW touch \in [Points -> Touches], ParseTouchScroll(touch)
    PROVE  IInv'
  <1> DEFINE next == [f \in Points |-> UpdateTouchPoint(f, touch[f])]
             a == [f \in Points |-> next[f].accum]
             trigger == Trigger(a)
  <1>f. Follow(touch)
    BY DEF ParseTouchScroll
  <1>1. \A f \in Points :
            /\ next[f] \in FingerType
            /\ next[f].active <=> stretch'[f] # {}
            /\ ~next[f].active => next[f].accum = 0
            /\ stretch'[f] \subseteq [id : Ids, from : Ys, to : Ys]
            /\ \A s \in stretch'[f] : /\ next[f].id = s.id /\ next[f].last_y = s.to
                                      /\ next[f].accum = s.to - s.from
    <2> SUFFICES ASSUME NEW f \in Points
                 PROVE  /\ UpdateTouchPoint(f, touch[f]) \in FingerType
                        /\ UpdateTouchPoint(f, touch[f]).active <=> stretch'[f] # {}
                        /\ ~UpdateTouchPoint(f, touch[f]).active
                               => UpdateTouchPoint(f, touch[f]).accum = 0
                        /\ stretch'[f] \subseteq [id : Ids, from : Ys, to : Ys]
                        /\ \A s \in stretch'[f] :
                            /\ UpdateTouchPoint(f, touch[f]).id = s.id
                            /\ UpdateTouchPoint(f, touch[f]).last_y = s.to
                            /\ UpdateTouchPoint(f, touch[f]).accum = s.to - s.from
      OBVIOUS
    <2> QED BY <1>f, PointFollows DEF IInv
  <1>2. /\ scroll' = Turn(trigger)
        /\ \/ trigger = 0 /\ finger' = next
           \/ trigger # 0 /\ finger' = Restart(next)
    BY DEF ParseTouchScroll
  <1>3. a[0] \in Int16 /\ a[1] \in Int16 /\ a[0] = next[0].accum /\ a[1] = next[1].accum
    <2>1. 0 \in Points /\ 1 \in Points
      BY DEF Points
    <2>2. \A f \in Points : a[f] = next[f].accum
      OBVIOUS
    <2>3. \A f \in Points : next[f].accum \in Int16
      BY <1>1 DEF FingerType
    <2> HIDE DEF a, next
    <2> QED BY <2>1, <2>2, <2>3
  <1>b. \A f \in Points : a[f] = next[f].accum
    OBVIOUS
  <1>s. stretch' = [f \in Points |-> stretch'[f]]
    BY <1>f DEF Follow
  <1> HIDE DEF next, a
  <1>4. ~Far(0)
    BY DEF Far, Abs32, ScrollAssumption
  <1>5. trigger \in Int
    <2>2. trigger = a[0] \/ trigger = a[1] \/ trigger = 0
      BY DEF Trigger
    <2>1. 0 \in Int /\ a[0] \in Int /\ a[1] \in Int
      <3> HIDE DEF trigger
      <3>1. \A n \in Int16 : n \in Int
        BY Int16Is
      <3>2. 0 \in Int
        OBVIOUS
      <3> QED BY <1>3, <3>1, <3>2
    <2> HIDE DEF trigger
    <2> QED BY <2>1, <2>2
  <1>6. ScrollTypeOK'
    <2>1. scroll' \in {-1, 0, 1}
      BY <1>2 DEF Turn
    <2>2. stretch' \in [Points -> SUBSET [id : Ids, from : Ys, to : Ys]]
      BY <1>1, <1>s
    <2>3. finger' \in [Points -> FingerType]
      <3>1. next \in [Points -> FingerType]
        BY <1>1 DEF next
      <3>2. 0 \in Int16
        BY Int16Is
      <3>3. Restart(next) \in [Points -> FingerType]
        BY <3>1, <3>2 DEF Restart, FingerType
      <3> QED BY <1>2, <3>1, <3>3
    <2> QED BY <2>1, <2>2, <2>3 DEF ScrollTypeOK, FingerType
  <1>7. \A f \in Points : \A s \in stretch'[f] : (s.to - s.from) = a[f]
    BY <1>1, <1>b
  <1>8. \A f \in Points : stretch'[f] = {} => ~Far(a[f])
    <2> SUFFICES ASSUME NEW f \in Points, stretch'[f] = {} PROVE ~Far(a[f])
      OBVIOUS
    <2>1. next[f].accum = 0
      BY <1>1
    <2>2. a[f] = next[f].accum
      BY <1>b
    <2> QED BY <1>4, <2>1, <2>2
  <1>9. TurnsAsMoved'
    <2>1. \A f \in Points : Went(f)' \subseteq {a[f]} /\ (Far(a[f]) => Went(f)' = {a[f]})
      BY <1>7, <1>8 DEF Went
    <2>2. Went(0)' \subseteq {a[0]} /\ (Far(a[0]) => Went(0)' = {a[0]})
      BY <2>1 DEF Points
    <2>3. Went(1)' \subseteq {a[1]} /\ (Far(a[1]) => Went(1)' = {a[1]})
      BY <2>1 DEF Points
    <2>4. CASE Far(a[0])
      BY <1>2, <2>2, <2>4 DEF TurnsAsMoved, Trigger
    <2>5. CASE ~Far(a[0]) /\ Far(a[1])
      BY <1>2, <2>2, <2>3, <2>5 DEF TurnsAsMoved, Trigger
    <2>6. CASE ~Far(a[0]) /\ ~Far(a[1])
      <3>1. trigger = 0 /\ scroll' = 0
        BY <1>2, <2>6 DEF Trigger, Turn
      <3> QED BY <2>2, <2>3, <2>6, <3>1 DEF TurnsAsMoved
    <2> QED BY <2>4, <2>5, <2>6
  <1>10. AccumulatesTravel'
    <2>1. CASE trigger = 0
      <3>1. scroll' = 0 /\ finger' = next
        BY <1>2, <2>1 DEF Turn
      <3> QED BY <1>1, <3>1 DEF AccumulatesTravel
    <2>2. CASE trigger # 0
      <3>1. scroll' # 0 /\ finger' = Restart(next)
        <4>1. scroll' = Turn(trigger) /\ finger' = Restart(next)
          BY <1>2, <2>2
        <4> HIDE DEF trigger
        <4>2. Turn(trigger) # 0
          BY <1>5, <2>2 DEF Turn
        <4> QED BY <4>1, <4>2
      <3>2. \A f \in Points : /\ finger'[f].active = next[f].active
                              /\ finger'[f].id = next[f].id
                              /\ finger'[f].last_y = next[f].last_y
                              /\ finger'[f].accum = 0
        BY <1>1, <3>1 DEF Restart, FingerType
      <3> QED BY <1>1, <3>1, <3>2 DEF AccumulatesTravel
    <2> QED BY <2>1, <2>2
  <1> QED BY <1>6, <1>9, <1>10 DEF IInv

LEMMA InvariantHolds == ScrollSpec => []IInv
  <1>1. ScrollInit => IInv
    <2> SUFFICES ASSUME ScrollInit PROVE IInv
      OBVIOUS
    <2>1. \A f \in Points : /\ finger[f] \in FingerType /\ ~finger[f].active
                            /\ stretch[f] = {}
      <3>1. 0 \in Ys /\ 0 \in Int16
        BY Int16Is, ScrollAssumption DEF Ys, ScrollAssumption
      <3>2. PICK i \in Ids :
                finger = [f \in Points |-> [active |-> FALSE, id |-> i, last_y |-> 0, accum |-> 0]]
        BY DEF ScrollInit
      <3>3. [active |-> FALSE, id |-> i, last_y |-> 0, accum |-> 0] \in FingerType
        BY <3>1 DEF FingerType
      <3> QED BY <3>2, <3>3 DEF ScrollInit
    <2>2. ScrollTypeOK
      BY <2>1 DEF ScrollInit, ScrollTypeOK, FingerType
    <2>3. AccumulatesTravel
      BY <2>1 DEF AccumulatesTravel
    <2>4. TurnsAsMoved
      BY <2>1 DEF ScrollInit, TurnsAsMoved, Went, Points
    <2> QED BY <2>2, <2>3, <2>4 DEF IInv
  <1>2. IInv /\ [ScrollNext]_scrollVars => IInv'
    <2> SUFFICES ASSUME IInv, [ScrollNext]_scrollVars PROVE IInv'
      OBVIOUS
    <2>1. ASSUME NEW touch \in [Points -> Touches], ParseTouchScroll(touch) PROVE IInv'
      BY <2>1, ReportKeepsInvariant, ScrollAssumption
    <2>2. CASE ClearTouchPoints
      <3>1. \A f \in Points : /\ finger'[f] \in FingerType /\ ~finger'[f].active
                              /\ stretch'[f] = {}
        <4> SUFFICES ASSUME NEW f \in Points
                     PROVE  /\ finger'[f] \in FingerType /\ ~finger'[f].active
                            /\ stretch'[f] = {}
          OBVIOUS
        <4>1. 0 \in Int16
          BY Int16Is
        <4>2. finger[f] \in FingerType
          BY DEF IInv, ScrollTypeOK, FingerType
        <4>3. finger'[f] = [active |-> FALSE, id |-> finger[f].id,
                            last_y |-> finger[f].last_y, accum |-> 0]
          BY <2>2 DEF ClearTouchPoints, Lifted
        <4>4. finger'[f] \in FingerType
          BY <4>1, <4>2, <4>3 DEF FingerType
        <4> QED BY <2>2, <4>3, <4>4 DEF ClearTouchPoints
      <3>2. ScrollTypeOK'
        BY <2>2, <3>1 DEF ClearTouchPoints, ScrollTypeOK, FingerType
      <3>3. AccumulatesTravel'
        BY <3>1 DEF AccumulatesTravel
      <3>4. TurnsAsMoved'
        BY <2>2, <3>1 DEF ClearTouchPoints, TurnsAsMoved, Went, Points
      <3> QED BY <3>2, <3>3, <3>4 DEF IInv
    <2>3. CASE UNCHANGED scrollVars
      BY <2>3 DEF scrollVars, IInv, ScrollTypeOK, AccumulatesTravel, TurnsAsMoved, Went
    <2> QED BY <2>1, <2>2, <2>3 DEF ScrollNext
  <1> QED BY <1>1, <1>2, PTL DEF ScrollSpec

\* What a point adds up always fits its 16 bits and lies on the pad.
THEOREM TypeCorrect == ScrollSpec => []ScrollTypeOK
  BY InvariantHolds, PTL DEF IInv

\* The wheel turns exactly when a finger has gone far enough, and its way.
THEOREM WheelFollowsFingers == ScrollSpec => []TurnsAsMoved
  BY InvariantHolds, PTL DEF IInv

-----------------------------------------------------------------------------
(* Swipes *)

\* While the gesture is under way its start is a place of the touch, and the place
\* it began if no second finger came; it is under way throughout such a touch.
Follows ==
    /\ stroke.alone \in BOOLEAN /\ stroke.joined \in BOOLEAN
    /\ stroke.alone => stroke.touching
    /\ swipe_finger_down =>
           stroke.touching /\ swipe_start_x \in stroke.places /\ swipe_current_x = stroke.last
    /\ stroke.alone /\ ~stroke.joined => swipe_finger_down /\ swipe_start_x = stroke.first

LEMMA NoStrokeIs ==
    /\ NoStroke.alone = FALSE /\ NoStroke.joined = FALSE
    /\ NoStroke.touching = FALSE
  BY DEF NoStroke

LEMMA FollowsHolds == Follows /\ [SwipeNext]_swipeVars => Follows'
  <1> SUFFICES ASSUME Follows, [SwipeNext]_swipeVars PROVE Follows'
    OBVIOUS
  <1>1. ASSUME NEW x \in Positions, OneFinger(x) PROVE Follows'
    <2>1. /\ stroke'.touching = TRUE /\ stroke'.last = x
          /\ stroke'.first = IF stroke.touching THEN stroke.first ELSE x
          /\ stroke'.places = stroke.places \cup {x}
          /\ stroke'.alone = IF stroke.touching THEN stroke.alone ELSE TRUE
          /\ stroke'.joined = stroke.joined
      BY <1>1 DEF OneFinger, Touch, Follows
    <2>2. CASE FingerDown(x)
      BY <2>1, <2>2 DEF FingerDown, Follows
    <2>3. CASE FingerMoves(x)
      BY <2>1, <2>3 DEF FingerMoves, Follows
    <2> QED BY <1>1, <2>2, <2>3 DEF OneFinger
  <1>2. ASSUME NEW x \in Positions, TwoFingers(x) PROVE Follows'
    <2>1. /\ stroke'.touching = TRUE
          /\ stroke'.alone = IF stroke.touching THEN stroke.alone ELSE FALSE
          /\ stroke'.joined = (stroke.joined \/ stroke.alone)
          /\ swipe_finger_down' = FALSE
      BY <1>2 DEF TwoFingers, SecondFinger, Touch, Follows
    <2>2. stroke'.alone => stroke'.joined
      BY <2>1
    <2> QED BY <2>1, <2>2 DEF Follows
  <1>3. CASE SecondFingerOnly \/ NoTouch \/ Reboot \/ ClearSwipe
    <2>1. stroke' = NoStroke /\ swipe_finger_down' = FALSE
      BY <1>3 DEF SecondFingerOnly, SecondFinger, NoTouch, FingerUp, NoFinger, swipe,
                  Reboot, ClearSwipe
    <2> QED BY <2>1, NoStrokeIs DEF Follows
  <1>4. CASE UNCHANGED swipeVars
    BY <1>4 DEF Follows, swipeVars, swipe
  <1> QED BY <1>1, <1>2, <1>3, <1>4 DEF SwipeNext

\* A finger that is never joined switches the profile exactly by where it touched
\* and where it let go; and no touch switches it but by the way it went after the
\* second finger was last there, for every width of the pad and every margin
\* (ParseSwipeGesture).
THEOREM SwipesAreJudgedAsMoved == SwipeSpec => SwitchesAsMoved
  <1>1. SwipeInit => Follows
    BY NoStrokeIs DEF SwipeInit, Follows
  <1>2. ASSUME Follows, NoTouch, stroke.alone, ~stroke.joined
        PROVE  direction' = Judge(stroke.first, stroke.last)
    BY <1>2 DEF Follows, NoTouch, FingerUp, NoFinger
  <1>3. ASSUME Follows, SwipeNext, direction = "none", direction' # "none"
        PROVE  \E x \in stroke.places : Judge(x, stroke.last) = direction'
    <2>1. FingerUp
      BY <1>3 DEF SwipeNext, OneFinger, FingerDown, FingerMoves, TwoFingers, SecondFingerOnly,
                  SecondFinger, NoTouch, NoFinger, Reboot, ClearSwipe
    <2> QED BY <1>3, <2>1 DEF Follows, FingerUp
  <1>4. Follows /\ [SwipeNext]_swipeVars =>
            [/\ NoTouch /\ stroke.alone /\ ~stroke.joined
                    => direction' = Judge(stroke.first, stroke.last)
             /\ direction = "none" /\ direction' # "none"
                    => \E x \in stroke.places : Judge(x, stroke.last) = direction']_swipeVars
    BY <1>2, <1>3
  <1> QED BY <1>1, <1>4, FollowsHolds, PTL DEF SwipeSpec, SwitchesAsMoved

-----------------------------------------------------------------------------
(* Induction *)

\* Every set of natural numbers has a least one: what fails for some number fails
\* for a first one.
LEMMA LeastNat ==
    ASSUME NEW T \in SUBSET Nat, T # {}
    PROVE  \E x \in T : \A y \in T : x <= y
<1> DEFINE R == OpToRel(<, Nat)
<1>1. IsWellFoundedOn(R, Nat)
  BY NatLessThanWellFounded
<1>2. \A x, y \in Nat : y < x => <<y, x>> \in R
  BY DEF OpToRel
<1> HIDE DEF R
<1>3. \E x \in T : \A y \in T : <<y, x>> \notin R
  BY <1>1, WFMin
<1>4. PICK x \in T : \A y \in T : <<y, x>> \notin R
  BY <1>3
<1>5. ASSUME NEW y \in T PROVE x <= y
  <2>1. x \in Nat /\ y \in Nat
    OBVIOUS
  <2>2. ~(y < x)
    BY <1>2, <1>4, <2>1
  <2> QED
    BY <2>1, <2>2
<1> QED
  BY <1>5

-----------------------------------------------------------------------------
(* The keyboard report *)

\* The keys in the order they are looked at: each once, finitely many.
LEMMA KeysInOrder ==
    /\ KeyOrder \in Seq(Keys)
    /\ \A k \in Keys : \E m \in 1 .. Len(KeyOrder) : KeyOrder[m] = k
    /\ \A m, n \in 1 .. Len(KeyOrder) : KeyOrder[m] = KeyOrder[n] => m = n
    /\ IsFiniteSet(Keys)
<1>1. KeyOrder \in Seq(Keys)
  <2>1. ButtonKeys \in Seq(Keys)
    BY KeyAssumption
  <2>2. KeyOrder \in Seq(Keys \cup {kKeyM, kKeyN})
    BY <2>1 DEF KeyOrder
  <2>3. DOMAIN KeyOrder = 1 .. Len(KeyOrder) /\ Len(KeyOrder) \in Nat
    BY <2>2
  <2>4. \A m \in 1 .. Len(KeyOrder) : KeyOrder[m] \in Keys
    BY <2>3 DEF Keys, Range
  <2> QED
    BY <2>2, <2>3, <2>4
<1>2. DOMAIN KeyOrder = 1 .. Len(KeyOrder) /\ Len(KeyOrder) \in Nat
  BY <1>1
<1>3. \A k \in Keys : \E m \in 1 .. Len(KeyOrder) : KeyOrder[m] = k
  BY <1>2 DEF Keys, Range
<1>4. \A m, n \in 1 .. Len(KeyOrder) : KeyOrder[m] = KeyOrder[n] => m = n
  BY <1>2, KeyAssumption DEF IsInjective
<1>5. IsFiniteSet(Keys)
  <2>1. KeyOrder \in Surjection(1 .. Len(KeyOrder), Keys)
    BY <1>1, <1>2, <1>3 DEF Surjection
  <2>2. IsFiniteSet(1 .. Len(KeyOrder))
    BY <1>2, FS_Interval
  <2> QED
    BY <2>1, <2>2, FS_Surjection
<1> QED
  BY <1>1, <1>3, <1>4, <1>5

\* applied is a function of the number of keys looked at, by induction.
Steps(g, n, next) ==
    g = [i \in 0 .. n |-> IF i = 0 THEN keycode ELSE ApplyChange(g[i - 1], KeyOrder[i], next)]

LEMMA StepsExist ==
    ASSUME NEW next
    PROVE  \A n \in Nat : \E g : Steps(g, n, next)
<1> DEFINE T == {n \in Nat : ~ \E g : Steps(g, n, next)}
<1> SUFFICES ASSUME T # {} PROVE FALSE
  OBVIOUS
<1>1. PICK x \in T : \A y \in T : x <= y
  BY LeastNat
<1>2. x \in Nat /\ ~ \E g : Steps(g, x, next)
  OBVIOUS
<1>3. ASSUME x = 0 PROVE FALSE
  <2>1. Steps([i \in 0 .. 0 |-> keycode], 0, next)
    BY DEF Steps
  <2> QED
    BY <1>2, <1>3, <2>1
<1>4. ASSUME x # 0 PROVE FALSE
  <2>1. x - 1 \in Nat /\ x - 1 \notin T
    BY <1>1, <1>2, <1>4
  <2>2. PICK g : Steps(g, x - 1, next)
    BY <2>1
  <2> DEFINE h == [i \in 0 .. x |-> IF i = x THEN ApplyChange(g[x - 1], KeyOrder[x], next)
                                             ELSE g[i]]
  <2>3. ASSUME NEW i \in 0 .. x
        PROVE  h[i] = IF i = 0 THEN keycode ELSE ApplyChange(h[i - 1], KeyOrder[i], next)
    <3>1. CASE i = x
      <4>1. h[i] = ApplyChange(g[x - 1], KeyOrder[x], next) /\ h[i - 1] = g[x - 1]
        BY <1>2, <1>4, <3>1
      <4> QED
        BY <1>4, <3>1, <4>1
    <3>2. CASE i # x /\ i = 0
      BY <1>2, <2>2, <3>2 DEF Steps
    <3>3. CASE i # x /\ i # 0
      <4>1. i \in 0 .. x - 1 /\ i - 1 \in 0 .. x - 1
        BY <1>2, <3>3
      <4>2. g[i] = ApplyChange(g[i - 1], KeyOrder[i], next)
        BY <2>2, <3>3, <4>1 DEF Steps
      <4>3. h[i] = g[i] /\ h[i - 1] = g[i - 1]
        BY <1>2, <4>1
      <4> HIDE DEF h
      <4> QED
        BY <3>3, <4>2, <4>3
    <3> QED
      BY <3>1, <3>2, <3>3
  <2>4. Steps(h, x, next)
    <3>1. h = [i \in 0 .. x |-> h[i]]
      OBVIOUS
    <3> HIDE DEF h
    <3> QED
      BY <2>3, <3>1 DEF Steps
  <2> HIDE DEF h
  <2> QED
    BY <1>2, <2>4
<1> QED
  BY <1>3, <1>4

LEMMA AppliedSteps ==
    ASSUME NEW next
    PROVE  /\ Applied(next)[0] = keycode
           /\ \A n \in 1 .. Len(KeyOrder) :
                Applied(next)[n] = ApplyChange(Applied(next)[n - 1], KeyOrder[n], next)
<1>1. Len(KeyOrder) \in Nat
  BY KeysInOrder
<1>2. Steps(Applied(next), Len(KeyOrder), next)
  <2>1. Applied(next) = CHOOSE g : Steps(g, Len(KeyOrder), next)
    BY DEF Applied, Steps
  <2> QED
    BY <1>1, <2>1, StepsExist
<1>3. \A n \in 0 .. Len(KeyOrder) :
        Applied(next)[n] = IF n = 0 THEN keycode
                           ELSE ApplyChange(Applied(next)[n - 1], KeyOrder[n], next)
  BY <1>2 DEF Steps
<1> QED
  BY <1>1, <1>3

\* A report fit to be sent: every slot empty or a key, no key in two slots.
Fit(report) ==
    /\ report \in [1 .. Slots -> Keys \cup {NoKey}]
    /\ \A i, j \in 1 .. Slots : report[i] = report[j] /\ report[i] # NoKey => i = j

\* What else a report names stays.
SameButFor(before, after, key) ==
    \A k \in Keys \ {key} : k \in Range(after) <=> k \in Range(before)

LEMMA InRangeOf ==
    ASSUME NEW report \in [1 .. Slots -> Keys \cup {NoKey}], NEW k
    PROVE  k \in Range(report) <=> \E i \in 1 .. Slots : report[i] = k
BY DEF Range

LEMMA FirstIsThere ==
    ASSUME NEW report \in [1 .. Slots -> Keys \cup {NoKey}], NEW k \in Range(report)
    PROVE  First(report, k) \in 1 .. Slots /\ report[First(report, k)] = k
<1> DEFINE S == {i \in DOMAIN report : report[i] = k}
<1>1. DOMAIN report = 1 .. Slots /\ S \in SUBSET Nat
  BY KeyAssumption
<1>2. S # {}
  BY DEF Range
<1>3. \E x \in S : \A y \in S : x <= y
  BY <1>1, <1>2, LeastNat
<1>4. Min(S) \in S
  <2> HIDE DEF S
  <2> QED
    BY <1>3 DEF Min
<1> QED
  BY <1>1, <1>4 DEF First

\* The report with one slot overwritten.
LEMMA PutInSlot ==
    ASSUME NEW report, Fit(report), NEW s \in 1 .. Slots, NEW v \in Keys \cup {NoKey},
           v = NoKey \/ v \notin Range(report)
    PROVE  /\ Fit([report EXCEPT ![s] = v])
           /\ v \in Range([report EXCEPT ![s] = v])
           /\ \A k \in Keys : k # v /\ k # report[s] =>
                (k \in Range([report EXCEPT ![s] = v]) <=> k \in Range(report))
           /\ v = NoKey => report[s] \notin Range([report EXCEPT ![s] = v]) \/ report[s] = NoKey
<1> DEFINE r == [report EXCEPT ![s] = v]
<1>1. report \in [1 .. Slots -> Keys \cup {NoKey}]
  BY DEF Fit
<1>2. /\ r \in [1 .. Slots -> Keys \cup {NoKey}]
      /\ r[s] = v
      /\ \A i \in 1 .. Slots : i # s => r[i] = report[i]
  BY <1>1
<1> HIDE DEF r
<1>3. \A k : k \in Range(report) <=> \E i \in 1 .. Slots : report[i] = k
  BY <1>1, InRangeOf
<1>4. \A k : k \in Range(r) <=> \E i \in 1 .. Slots : r[i] = k
  BY <1>2, InRangeOf
<1>5. Fit(r)
  <2> SUFFICES ASSUME NEW i \in 1 .. Slots, NEW j \in 1 .. Slots, r[i] = r[j], r[i] # NoKey
               PROVE  i = j
    BY <1>2 DEF Fit
  <2>1. CASE i = s \/ j = s
    BY <1>2, <1>3, <2>1
  <2>2. CASE i # s /\ j # s
    BY <1>2, <2>2 DEF Fit
  <2> QED
    BY <2>1, <2>2
<1>6. v \in Range(r)
  BY <1>2, <1>4
<1>7. ASSUME NEW k \in Keys, k # v, k # report[s] PROVE k \in Range(r) <=> k \in Range(report)
  BY <1>2, <1>3, <1>4, <1>7
<1>8. v = NoKey => report[s] \notin Range(r) \/ report[s] = NoKey
  BY <1>2, <1>4 DEF Fit
<1> QED
  BY <1>5, <1>6, <1>7, <1>8 DEF r

LEMMA AddKeyAdds ==
    ASSUME NEW report, Fit(report), NEW key \in Keys
    PROVE  /\ Fit(AddKey(report, key))
           /\ SameButFor(report, AddKey(report, key), key)
           /\ key \in Range(report) \/ NoKey \in Range(report)
                => key \in Range(AddKey(report, key))
<1>1. CASE key \in Range(report) \/ NoKey \notin Range(report)
  BY <1>1 DEF AddKey, SameButFor
<1>2. CASE ~(key \in Range(report) \/ NoKey \notin Range(report))
  <2>1. First(report, NoKey) \in 1 .. Slots /\ report[First(report, NoKey)] = NoKey
    BY <1>2, FirstIsThere DEF Fit
  <2>2. AddKey(report, key) = [report EXCEPT ![First(report, NoKey)] = key]
    BY <1>2 DEF AddKey
  <2> DEFINE s == First(report, NoKey)
             r == [report EXCEPT ![s] = key]
  <2>3. s \in 1 .. Slots /\ report[s] = NoKey /\ key \notin Range(report)
    BY <1>2, <2>1
  <2> HIDE DEF s
  <2>4. /\ Fit(r)
        /\ key \in Range(r)
        /\ \A k \in Keys : k # key /\ k # report[s] => (k \in Range(r) <=> k \in Range(report))
    BY <2>3, PutInSlot
  <2>5. AddKey(report, key) = r
    BY <2>2 DEF s
  <2> HIDE DEF r
  <2> QED
    BY <2>3, <2>4, <2>5, KeyAssumption DEF SameButFor
<1> QED
  BY <1>1, <1>2

LEMMA RemoveKeyRemoves ==
    ASSUME NEW report, Fit(report), NEW key \in Keys
    PROVE  /\ Fit(RemoveKey(report, key))
           /\ SameButFor(report, RemoveKey(report, key), key)
           /\ key \notin Range(RemoveKey(report, key))
<1>1. CASE key \notin Range(report)
  BY <1>1 DEF RemoveKey, SameButFor
<1>2. CASE key \in Range(report)
  <2>1. First(report, key) \in 1 .. Slots /\ report[First(report, key)] = key
    BY <1>2, FirstIsThere DEF Fit
  <2>2. RemoveKey(report, key) = [report EXCEPT ![First(report, key)] = NoKey]
    BY <1>2 DEF RemoveKey
  <2> DEFINE s == First(report, key)
             r == [report EXCEPT ![s] = NoKey]
  <2>3. s \in 1 .. Slots /\ report[s] = key
    BY <2>1
  <2> HIDE DEF s
  <2>4. /\ Fit(r)
        /\ report[s] \notin Range(r) \/ report[s] = NoKey
        /\ \A k \in Keys : k # NoKey /\ k # report[s] => (k \in Range(r) <=> k \in Range(report))
    BY <2>3, PutInSlot
  <2>5. RemoveKey(report, key) = r
    BY <2>2 DEF s
  <2> HIDE DEF r
  <2> QED
    BY <2>3, <2>4, <2>5, KeyAssumption DEF SameButFor
<1> QED
  BY <1>1, <1>2

\* A report that is full names as many keys as it has slots.
LEMMA FullNamesMany ==
    ASSUME NEW report, Fit(report), NoKey \notin Range(report),
           NEW S, S \subseteq Keys, Range(report) \subseteq S
    PROVE  Cardinality(S) >= Slots
<1>1. IsFiniteSet(S) /\ Cardinality(S) \in Nat
  BY KeysInOrder, FS_Subset, FS_CardinalityType
<1>2. IsFiniteSet(1 .. Slots) /\ Cardinality(1 .. Slots) = Slots
  BY KeyAssumption, FS_Interval
<1>3. \A i \in 1 .. Slots : report[i] \in Range(report)
  BY DEF Range, Fit
<1>4. report \in [1 .. Slots -> S]
  BY <1>3 DEF Fit
<1>5. ASSUME Cardinality(S) < Slots PROVE FALSE
  <2>1. PICK i, j \in 1 .. Slots : i # j /\ report[i] = report[j]
    BY <1>1, <1>2, <1>4, <1>5, FS_PigeonHole
  <2> QED
    BY <1>3, <2>1 DEF Fit
<1> QED
  BY <1>1, <1>5, KeyAssumption

\* Between callbacks: what the report names is held.
KeyInv == Fit(keycode) /\ held \subseteq Keys /\ Reported \subseteq held

\* The case in which Rollover promises every held key.
Room(next) == Reported = held /\ Cardinality(held \cup next) <= Slots

\* Of a key that has been looked at.
Settled(report, k, next) ==
    /\ k \in Range(report) => k \in next
    /\ k \in Range(keycode) /\ k \in next => k \in Range(report)
    /\ Room(next) /\ k \in next => k \in Range(report)

\* The report once the first n keys have been looked at.
Progress(report, n, next) ==
    /\ Fit(report)
    /\ \A m \in 1 .. Len(KeyOrder) :
         IF m <= n THEN Settled(report, KeyOrder[m], next)
         ELSE KeyOrder[m] \in Range(report) <=> KeyOrder[m] \in Range(keycode)

LEMMA OthersAsTheyWere ==
    ASSUME NEW next, NEW report, NEW after, NEW n \in 1 .. Len(KeyOrder),
           Progress(report, n - 1, next), Fit(after),
           SameButFor(report, after, KeyOrder[n]), Settled(after, KeyOrder[n], next)
    PROVE  Progress(after, n, next)
<1> SUFFICES ASSUME NEW m \in 1 .. Len(KeyOrder)
             PROVE  IF m <= n THEN Settled(after, KeyOrder[m], next)
                    ELSE KeyOrder[m] \in Range(after) <=> KeyOrder[m] \in Range(keycode)
  BY DEF Progress
<1>1. Len(KeyOrder) \in Nat /\ KeyOrder[m] \in Keys
  BY KeysInOrder
<1>2. CASE m = n
  BY <1>1, <1>2
<1>3. CASE m # n
  <2>1. KeyOrder[m] # KeyOrder[n]
    BY <1>3, KeysInOrder
  <2>2. KeyOrder[m] \in Range(after) <=> KeyOrder[m] \in Range(report)
    BY <1>1, <2>1 DEF SameButFor
  <2>3. IF m <= n - 1 THEN Settled(report, KeyOrder[m], next)
        ELSE KeyOrder[m] \in Range(report) <=> KeyOrder[m] \in Range(keycode)
    BY DEF Progress
  <2>4. m <= n <=> m <= n - 1
    BY <1>1, <1>3
  <2> QED
    BY <2>2, <2>3, <2>4 DEF Settled
<1> QED
  BY <1>2, <1>3

\* There is a slot for a key that Rollover promises.
LEMMA SlotIsFree ==
    ASSUME NEW next \in SUBSET Keys, NEW report, NEW n \in 1 .. Len(KeyOrder),
           KeyInv, Progress(report, n - 1, next), Room(next),
           KeyOrder[n] \in next, KeyOrder[n] \notin Range(report)
    PROVE  NoKey \in Range(report)
<1> SUFFICES ASSUME NoKey \notin Range(report) PROVE FALSE
  OBVIOUS
<1> DEFINE S == (held \cup next) \ {KeyOrder[n]}
<1>1. Fit(report)
  BY DEF Progress
<1>2. ASSUME NEW k \in Range(report) PROVE k \in S
  <2>1. k \in Keys /\ k # KeyOrder[n]
    BY <1>1, <1>2 DEF Fit, Range
  <2>2. PICK m \in 1 .. Len(KeyOrder) : KeyOrder[m] = k
    BY <2>1, KeysInOrder
  <2>3. k \in next \/ k \in Range(keycode)
    BY <1>2, <2>2 DEF Progress, Settled
  <2>4. k \in next \/ k \in held
    BY <2>1, <2>3, KeyAssumption DEF KeyInv, Reported
  <2> QED
    BY <2>1, <2>4
<1>3. IsFiniteSet(held \cup next)
  BY KeysInOrder, FS_Subset DEF KeyInv
<1>4. Cardinality(S) = Cardinality(held \cup next) - 1 /\ Cardinality(held \cup next) \in Nat
  BY <1>3, FS_RemoveElement, FS_CardinalityType
<1>5. S \subseteq Keys
  BY DEF KeyInv
<1>6. Cardinality(S) >= Slots
  <2> HIDE DEF S
  <2> QED
    BY <1>1, <1>2, <1>5, FullNamesMany
<1> QED
  BY <1>4, <1>6, KeyAssumption DEF Room

LEMMA ProgressStep ==
    ASSUME NEW next \in SUBSET Keys, NEW report, NEW n \in 1 .. Len(KeyOrder),
           KeyInv, Progress(report, n - 1, next)
    PROVE  Progress(ApplyChange(report, KeyOrder[n], next), n, next)
<1> DEFINE key == KeyOrder[n]
           after == ApplyChange(report, key, next)
<1>1. Len(KeyOrder) \in Nat /\ key \in Keys /\ key # NoKey
  BY KeysInOrder, KeyAssumption
<1>2. Fit(report) /\ (key \in Range(report) <=> key \in Range(keycode))
  BY <1>1 DEF Progress
<1>3. key \in Range(keycode) => key \in held
  BY <1>1 DEF KeyInv, Reported
<1>4. Room(next) /\ key \in held => key \in Range(keycode)
  BY DEF Room, Reported
<1>5. Fit(after) /\ SameButFor(report, after, key) /\ Settled(after, key, next)
  <2>1. CASE (key \in held) = (key \in next)
    <3>1. after = report
      BY <2>1 DEF ApplyChange
    <3>2. key \in held <=> key \in next
      BY <2>1
    <3> HIDE DEF key, after
    <3> QED
      BY <1>2, <1>3, <1>4, <3>1, <3>2 DEF SameButFor, Settled
  <2>2. CASE key \in next /\ key \notin held
    <3>1. after = AddKey(report, key)
      BY <2>2 DEF ApplyChange, ApplyAction
    <3>2. Room(next) => key \in Range(report) \/ NoKey \in Range(report)
      BY <2>2, SlotIsFree
    <3> HIDE DEF key, after
    <3> QED
      BY <1>1, <1>2, <1>3, <2>2, <3>1, <3>2, AddKeyAdds DEF Settled
  <2>3. CASE key \notin next /\ key \in held
    <3>1. after = RemoveKey(report, key)
      BY <2>3 DEF ApplyChange, ApplyAction
    <3> HIDE DEF key, after
    <3> QED
      BY <1>1, <1>2, <2>3, <3>1, RemoveKeyRemoves DEF Settled
  <2> QED
    BY <2>1, <2>2, <2>3
<1> QED
  <2> HIDE DEF after
  <2> QED
    BY <1>5, OthersAsTheyWere DEF after

LEMMA ProgressAlways ==
    ASSUME NEW next \in SUBSET Keys, KeyInv
    PROVE  \A n \in 0 .. Len(KeyOrder) : Progress(Applied(next)[n], n, next)
<1> DEFINE T == {n \in 0 .. Len(KeyOrder) : ~Progress(Applied(next)[n], n, next)}
<1>1. Len(KeyOrder) \in Nat
  BY KeysInOrder
<1> SUFFICES ASSUME T # {} PROVE FALSE
  OBVIOUS
<1>2. PICK x \in T : \A y \in T : x <= y
  <2>1. T \in SUBSET Nat
    BY <1>1
  <2> HIDE DEF T
  <2> QED
    BY <2>1, LeastNat
<1>3. x \in 0 .. Len(KeyOrder) /\ ~Progress(Applied(next)[x], x, next)
  OBVIOUS
<1>4. ASSUME x = 0 PROVE FALSE
  <2>1. Progress(keycode, 0, next)
    BY <1>1 DEF Progress, KeyInv
  <2> QED
    BY <1>3, <1>4, <2>1, AppliedSteps
<1>5. ASSUME x # 0 PROVE FALSE
  <2>1. x \in 1 .. Len(KeyOrder) /\ x - 1 \in 0 .. Len(KeyOrder) /\ ~(x <= x - 1)
    BY <1>1, <1>3, <1>5
  <2>2. Progress(Applied(next)[x - 1], x - 1, next)
    BY <1>2, <2>1
  <2>3. Applied(next)[x] = ApplyChange(Applied(next)[x - 1], KeyOrder[x], next)
    BY <2>1, AppliedSteps
  <2>4. Progress(ApplyChange(Applied(next)[x - 1], KeyOrder[x], next), x, next)
    BY <2>1, <2>2, ProgressStep
  <2> QED
    BY <1>3, <2>3, <2>4
<1> QED
  BY <1>4, <1>5

LEMMA CallbackStep ==
    ASSUME KeyInv, NEW next \in SUBSET Keys, Callback(next)
    PROVE  KeyInv' /\ Rollover!Change(next)
<1>1. Len(KeyOrder) \in Nat
  BY KeysInOrder
<1>2. held' = next
  BY DEF Callback
<1>3. Progress(keycode', Len(KeyOrder), next)
  BY <1>1, ProgressAlways DEF Callback
<1>4. \A k \in Keys : Settled(keycode', k, next)
  BY <1>1, <1>3, KeysInOrder DEF Progress
<1>5. Fit(keycode')
  BY <1>3 DEF Progress
<1>6. Reported' \subseteq Keys /\ Reported \subseteq Keys
  BY <1>5 DEF Fit, Reported, Range, KeyInv
<1>7. \A k \in Keys : (k \in Reported <=> k \in Range(keycode)) /\ (k \in Reported' <=> k \in Range(keycode'))
  BY KeyAssumption DEF Reported
<1>8. Reported' \subseteq next /\ Reported \cap next \subseteq Reported'
  BY <1>4, <1>6, <1>7 DEF Settled
<1>9. Room(next) => Reported' = next
  BY <1>4, <1>7, <1>8 DEF Settled
<1>10. KeyInv'
  <2>1. Fit(keycode)'
    BY <1>5 DEF Fit
  <2> QED
    BY <1>2, <1>8, <2>1 DEF KeyInv
<1>11. Rollover!Cardinality(held \cup next) = Cardinality(held \cup next)
  BY DEF Cardinality, Rollover!Cardinality
<1>12. Rollover!Change(next)
  BY <1>2, <1>8, <1>9, <1>11 DEF Rollover!Change, Room
<1> QED
  BY <1>10, <1>12

LEMMA EmptyIsFit == Fit(Empty) /\ Range(Empty) \ {NoKey} = {}
BY DEF Fit, Empty, Range

\* Several inputs may change in one callback, and each is put in or taken out in
\* turn; whatever their order and however many slots and keys there are, the
\* report names held keys only, keeps those it named until they are let go, and
\* names them all while there is room.
THEOREM RollsOver == KeySpec => IsRollover
<1>1. KeyInit => KeyInv /\ Rollover!Init
  BY EmptyIsFit DEF KeyInit, KeyInv, Reported, Rollover!Init
<1>2. KeyInv /\ [KeyNext]_keyVars => KeyInv' /\ [Rollover!Next]_<<held, Reported>>
  <2> SUFFICES ASSUME KeyInv, [KeyNext]_keyVars
               PROVE  KeyInv' /\ [Rollover!Next]_<<held, Reported>>
    OBVIOUS
  <2>1. ASSUME NEW next \in SUBSET Keys, Callback(next)
        PROVE  KeyInv' /\ [Rollover!Next]_<<held, Reported>>
    BY <2>1, CallbackStep DEF Rollover!Next
  <2>2. CASE Clear
    BY <2>2, EmptyIsFit DEF Clear, KeyInv, Fit, Reported, Rollover!Next, Rollover!Clear
  <2>3. CASE UNCHANGED keyVars
    BY <2>3 DEF keyVars, KeyInv, Fit, Reported
  <2> QED
    BY <2>1, <2>2, <2>3 DEF KeyNext
<1> QED
  BY <1>1, <1>2, PTL DEF KeySpec, IsRollover, Rollover!Spec

-----------------------------------------------------------------------------
(* GamepadReports: where the descriptors have what *)

\* g is the bit at which each of the first n fields begins.
Adds(g, n, bits) == g = [i \in 1 .. n |-> IF i = 1 THEN 0 ELSE g[i - 1] + bits[i - 1]]

LEMMA AddsExist ==
    ASSUME NEW bits
    PROVE  \A n \in Nat : \E g : Adds(g, n, bits)
<1> DEFINE T == {n \in Nat : ~ \E g : Adds(g, n, bits)}
<1> SUFFICES ASSUME T # {} PROVE FALSE
  OBVIOUS
<1>0. T \in SUBSET Nat
  OBVIOUS
<1>1. PICK x \in T : \A y \in T : x <= y
  <2> HIDE DEF T
  <2> QED BY <1>0, LeastNat
<1>2. x \in Nat /\ ~ \E g : Adds(g, x, bits)
  OBVIOUS
<1>3. ASSUME x = 0 PROVE FALSE
  <2>1. Adds([i \in 1 .. 0 |-> 0], 0, bits)
    BY DEF Adds
  <2> QED BY <1>2, <1>3, <2>1
<1>4. ASSUME x # 0 PROVE FALSE
  <2>1. x - 1 \in Nat /\ ~(x <= x - 1)
    BY <1>2, <1>4
  <2>2. PICK g : Adds(g, x - 1, bits)
    BY <1>1, <2>1
  <2> DEFINE h == [i \in 1 .. x |-> IF i = x /\ x # 1 THEN g[x - 1] + bits[x - 1]
                                    ELSE IF i = 1 THEN 0 ELSE g[i]]
  <2>3. ASSUME NEW i \in 1 .. x
        PROVE  h[i] = IF i = 1 THEN 0 ELSE h[i - 1] + bits[i - 1]
    <3>1. CASE i = 1
      BY <1>2, <3>1
    <3>2. ASSUME i # 1 PROVE h[i - 1] = g[i - 1]
      <4>1. i - 1 \in 1 .. x /\ i - 1 # x /\ i - 1 \in 1 .. x - 1
        BY <1>2, <3>2
      <4>2. g[i - 1] = IF i - 1 = 1 THEN 0 ELSE g[(i - 1) - 1] + bits[(i - 1) - 1]
        BY <2>2, <4>1 DEF Adds
      <4>3. h[i - 1] = IF i - 1 = 1 THEN 0 ELSE g[i - 1]
        BY <4>1
      <4> QED BY <4>2, <4>3
    <3>3. CASE i # 1 /\ i = x
      <4>1. h[i] = g[i - 1] + bits[i - 1]
        BY <3>3
      <4> HIDE DEF h
      <4> QED BY <3>2, <3>3, <4>1
    <3>4. CASE i # 1 /\ i # x
      <4>1. i \in 1 .. x - 1
        BY <1>2, <3>4
      <4>2. g[i] = g[i - 1] + bits[i - 1]
        BY <2>2, <3>4, <4>1 DEF Adds
      <4>3. h[i] = g[i]
        BY <3>4
      <4> HIDE DEF h
      <4> QED BY <3>2, <3>4, <4>2, <4>3
    <3> QED BY <3>1, <3>3, <3>4
  <2>4. h = [i \in 1 .. x |-> h[i]]
    OBVIOUS
  <2>5. Adds(h, x, bits)
    <3> HIDE DEF h
    <3> QED BY <2>3, <2>4 DEF Adds
  <2> HIDE DEF h
  <2> QED BY <1>2, <2>5
<1> QED BY <1>3, <1>4

\* Each field begins where the one before it ends.
LEMMA OneAfterAnother ==
    ASSUME NEW d, NEW N \in Nat, DOMAIN d = 1 .. N
    PROVE  \A i \in 1 .. N :
               Starts(d)[i] = IF i = 1 THEN 0 ELSE Starts(d)[i - 1] + d[i - 1].bits
<1> DEFINE bits == [i \in 1 .. N |-> d[i].bits]
           g == CHOOSE s : s = [i \in DOMAIN d |-> IF i = 1 THEN 0 ELSE s[i - 1] + d[i - 1].bits]
<1>1. \E s : s = [i \in 1 .. N |-> IF i = 1 THEN 0 ELSE s[i - 1] + d[i - 1].bits]
  <2>1. PICK s : Adds(s, N, bits)
    <3> HIDE DEF bits
    <3> QED BY AddsExist
  <2>2. \A i \in 1 .. N : i # 1 => bits[i - 1] = d[i - 1].bits
    OBVIOUS
  <2>3. \A i \in 1 .. N : s[i] = IF i = 1 THEN 0 ELSE s[i - 1] + bits[i - 1]
    <3> HIDE DEF bits
    <3> QED BY <2>1 DEF Adds
  <2>4. s = [i \in 1 .. N |-> s[i]]
    BY <2>1 DEF Adds
  <2> HIDE DEF bits
  <2>5. s = [i \in 1 .. N |-> IF i = 1 THEN 0 ELSE s[i - 1] + d[i - 1].bits]
    BY <2>2, <2>3, <2>4
  <2> QED BY <2>5
<1>2. g = [i \in 1 .. N |-> IF i = 1 THEN 0 ELSE g[i - 1] + d[i - 1].bits]
  BY <1>1
<1>3. Starts(d) = g
  BY DEF Starts
<1> HIDE DEF g
<1> QED BY <1>2, <1>3


\* Bits counted from field to field are where the N fields begin.
Counts(at, d, N) ==
    DOMAIN d = 1 .. N /\ at[1] = 0 /\ \A i \in 2 .. N : at[i] = at[i - 1] + d[i - 1].bits

LEMMA Counted ==
    ASSUME NEW d, NEW N \in Nat, NEW at, Counts(at, d, N)
    PROVE  \A n \in 1 .. N : Starts(d)[n] = at[n]
<1> USE DEF Counts
<1> DEFINE s == Starts(d)
<1>1. \A i \in 1 .. N : s[i] = IF i = 1 THEN 0 ELSE s[i - 1] + d[i - 1].bits
  BY OneAfterAnother
<1> DEFINE T == {n \in 1 .. N : s[n] # at[n]}
<1> HIDE DEF s
<1>2. ASSUME T # {} PROVE FALSE
  <2>1. PICK x \in T : \A y \in T : x <= y
    <3>1. T \in SUBSET Nat
      OBVIOUS
    <3> HIDE DEF T
    <3> QED BY <1>2, <3>1, LeastNat
  <2>2. CASE x = 1
    BY <1>1, <2>2
  <2>3. CASE x # 1
    <3>1. x \in 2 .. N /\ x - 1 \in 1 .. N /\ ~(x <= x - 1)
      BY <2>3
    <3>2. s[x - 1] = at[x - 1]
      BY <2>1, <3>1
    <3>3. s[x] = s[x - 1] + d[x - 1].bits
      BY <1>1, <3>1
    <3> QED BY <3>1, <3>2, <3>3
  <2> QED BY <2>2, <2>3
<1> QED BY <1>2 DEF s

\* Where the fields of either descriptor begin.
StadiaAt ==
    <<0, 4, 8, 9, 10, 11, 12, 13, 14, 15, 16, 17, 18, 19, 20, 21, 22, 23, 24, 32, 40, 48,
      56, 64, 72, 73, 74, 75>>

Ds4At ==
    <<0, 8, 16, 24, 32, 36, 37, 38, 39, 40, 41, 42, 43, 44, 45, 46, 47, 48, 49, 50, 56, 64>>

LEMMA StadiaStarts ==
    /\ DOMAIN kDescHidGamepad = 1 .. 28
    /\ \A n \in 1 .. 28 : Starts(kDescHidGamepad)[n] = StadiaAt[n]
<1>1. DOMAIN kDescHidGamepad = 1 .. 28
  BY DEF kDescHidGamepad
<1>2. \A i \in 2 .. 28 : StadiaAt[i] = StadiaAt[i - 1] + kDescHidGamepad[i - 1].bits
  BY DEF StadiaAt, kDescHidGamepad, Field, Padding, Button, Axis
<1>3. StadiaAt[1] = 0
  BY DEF StadiaAt
<1>4. Counts(StadiaAt, kDescHidGamepad, 28)
  BY <1>1, <1>2, <1>3 DEF Counts
<1> QED BY <1>1, <1>4, Counted

LEMMA Ds4Starts ==
    /\ DOMAIN kDescHidDs4 = 1 .. 22
    /\ \A n \in 1 .. 22 : Starts(kDescHidDs4)[n] = Ds4At[n]
<1>1. DOMAIN kDescHidDs4 = 1 .. 22
  BY DEF kDescHidDs4
<1>2. \A i \in 2 .. 22 : Ds4At[i] = Ds4At[i - 1] + kDescHidDs4[i - 1].bits
  BY DEF Ds4At, kDescHidDs4, Field, Padding, Button, Axis
<1>3. Ds4At[1] = 0
  BY DEF Ds4At
<1>4. Counts(Ds4At, kDescHidDs4, 22)
  BY <1>1, <1>2, <1>3 DEF Counts
<1> QED BY <1>1, <1>4, Counted

\* The descriptor of the build's gamepad, and where its fields begin.
Descriptor == IF backend = "ds4" THEN kDescHidDs4 ELSE kDescHidGamepad
At(n) == IF backend = "ds4" THEN Ds4At[n] ELSE StadiaAt[n]

\* No two fields of a descriptor have one usage.
Named(d) == {n \in DOMAIN d : d[n].usage # <<"none", 0>>}
OneEach(d) == \A i, j \in Named(d) : d[i].usage = d[j].usage => i = j

LEMMA UsagesDiffer == OneEach(kDescHidGamepad) /\ OneEach(kDescHidDs4)
<1>1. OneEach(kDescHidGamepad)
  <2> USE DEF kDescHidGamepad, Field, Padding, Button, Axis
  <2>1. Named(kDescHidGamepad) \subseteq 1 .. 28 \ {2, 18, 28}
    BY DEF Named
  <2>2. \A i, j \in 1 .. 28 \ {2, 18, 28} : kDescHidGamepad[i].usage = kDescHidGamepad[j].usage => i = j
    OBVIOUS
  <2> HIDE DEF kDescHidGamepad
  <2> QED BY <2>1, <2>2 DEF OneEach
<1>2. OneEach(kDescHidDs4)
  <2> USE DEF kDescHidDs4, Field, Padding, Button, Axis
  <2>1. Named(kDescHidDs4) \subseteq 1 .. 22 \ {20}
    BY DEF Named
  <2>2. \A i, j \in 1 .. 22 \ {20} : kDescHidDs4[i].usage = kDescHidDs4[j].usage => i = j
    OBVIOUS
  <2> HIDE DEF kDescHidDs4
  <2> QED BY <2>1, <2>2 DEF OneEach
<1> QED BY <1>1, <1>2

\* What the PC reads of a field at a bit.
Reading(report, f, at) ==
    LET value == (report[at \div 8 + 1] \div 2 ^ (at % 8)) % 2 ^ f.bits
    IN  IF value \in f.lo .. f.hi THEN value ELSE -1

LEMMA SaysOfField ==
    ASSUME NEW report, NEW n \in Named(Descriptor)
    PROVE  Says(report, Descriptor[n].usage) = Reading(report, Descriptor[n], At(n))
<1> DEFINE d == Descriptor
           fields == IF backend = "ds4" THEN Ds4Fields ELSE StadiaFields
           f == [field |-> d[n], at |-> At(n)]
           c == CHOOSE g \in fields : g.field.usage = d[n].usage
<1>1. fields = {[field |-> d[i], at |-> At(i)] : i \in Named(d)} /\ OneEach(d)
  <2>1. CASE backend = "ds4"
    <3>1. Ds4Fields = {[field |-> kDescHidDs4[i], at |-> Ds4At[i]] : i \in Named(kDescHidDs4)}
      BY Ds4Starts DEF Ds4Fields, FieldsOf, Named
    <3> QED BY <2>1, <3>1, UsagesDiffer DEF Descriptor, At
  <2>2. CASE backend # "ds4"
    <3>1. StadiaFields = {[field |-> kDescHidGamepad[i], at |-> StadiaAt[i]] : i \in Named(kDescHidGamepad)}
      BY StadiaStarts DEF StadiaFields, FieldsOf, Named
    <3> QED BY <2>2, <3>1, UsagesDiffer DEF Descriptor, At
  <2> QED BY <2>1, <2>2
<1>2. Says(report, d[n].usage) =
          LET value == (report[c.at \div 8 + 1] \div 2 ^ (c.at % 8)) % 2 ^ c.field.bits
          IN  IF value \in c.field.lo .. c.field.hi THEN value ELSE -1
  <2> HIDE DEF d
  <2> QED BY DEF Says
<1> HIDE DEF d, fields
<1>3. f \in fields /\ f.field.usage = d[n].usage
  <2>1. n \in Named(d)
    BY DEF d
  <2> QED BY <1>1, <2>1
<1>4. \A g \in fields : g.field.usage = d[n].usage => g = f
  <2> SUFFICES ASSUME NEW g \in fields, g.field.usage = d[n].usage PROVE g = f
    OBVIOUS
  <2>1. PICK i \in Named(d) : g = [field |-> d[i], at |-> At(i)]
    BY <1>1
  <2>2. n \in Named(d)
    BY DEF d
  <2>3. d[i].usage = d[n].usage
    BY <2>1
  <2>4. i = n
    BY <1>1, <2>2, <2>3 DEF OneEach
  <2> QED BY <2>1, <2>4
<1>5. c = f
  BY <1>3, <1>4
<1> HIDE DEF c
<1>6. c.at = At(n) /\ c.field = d[n]
  BY <1>5
<1> QED BY <1>2, <1>6 DEF Reading, d

\* A bit of a byte, and of one whose lower half is the hat.
LEMMA BitOf ==
    ASSUME NEW bits, NEW k \in 0 .. 7
    PROVE  Byte(bits) \in Nat /\ (Byte(bits) \div 2 ^ k) % 2 ^ 1 = IF k \in bits THEN 1 ELSE 0
<1>0. Byte(bits) \in Nat
  BY DEF Byte
<1>1. CASE k = 0
  BY <1>1 DEF Byte
<1>2. CASE k = 1
  BY <1>2 DEF Byte
<1>3. CASE k = 2
  BY <1>3 DEF Byte
<1>4. CASE k = 3
  BY <1>4 DEF Byte
<1>5. CASE k = 4
  BY <1>5 DEF Byte
<1>6. CASE k = 5
  BY <1>6 DEF Byte
<1>7. CASE k = 6
  BY <1>7 DEF Byte
<1>8. CASE k = 7
  BY <1>8 DEF Byte
<1> QED BY <1>0, <1>1, <1>2, <1>3, <1>4, <1>5, <1>6, <1>7, <1>8

BesideHat(hat, bits) ==
    /\ ((hat + Byte(bits)) \div 2 ^ 0) % 2 ^ 4 = hat
    /\ \A k \in 4 .. 7 :
          ((hat + Byte(bits)) \div 2 ^ k) % 2 ^ 1 = IF k \in bits THEN 1 ELSE 0

LEMMA BitBesideHat ==
    ASSUME NEW bits, bits \cap 0 .. 3 = {}, NEW hat \in 0 .. 8
    PROVE  BesideHat(hat, bits)
<1>0. /\ 0 \notin bits /\ 1 \notin bits /\ 2 \notin bits /\ 3 \notin bits
      /\ 2 ^ 0 = 1 /\ 2 ^ 1 = 2 /\ 2 ^ 4 = 16 /\ 2 ^ 5 = 32 /\ 2 ^ 6 = 64 /\ 2 ^ 7 = 128
  OBVIOUS
<1> DEFINE x == IF 4 \in bits THEN 1 ELSE 0
           y == IF 5 \in bits THEN 1 ELSE 0
           z == IF 6 \in bits THEN 1 ELSE 0
           w == IF 7 \in bits THEN 1 ELSE 0
<1>1. Byte(bits) = 16 * x + 32 * y + 64 * z + 128 * w
  BY <1>0 DEF Byte
<1>2. x \in 0 .. 1 /\ y \in 0 .. 1 /\ z \in 0 .. 1 /\ w \in 0 .. 1
  OBVIOUS
<1>3. \A k \in 4 .. 7 : (IF k \in bits THEN 1 ELSE 0) =
          IF k = 4 THEN x ELSE IF k = 5 THEN y ELSE IF k = 6 THEN z ELSE w
  OBVIOUS
<1> DEFINE v == hat + Byte(bits)
<1>5. v = hat + 16 * x + 32 * y + 64 * z + 128 * w
  BY <1>1, <1>2
<1> HIDE DEF v, x, y, z, w
<1>6. (v \div 1) % 16 = hat
  BY <1>2, <1>5
<1>7. (v \div 16) % 2 = x
  BY <1>2, <1>5
<1>8. (v \div 32) % 2 = y
  BY <1>2, <1>5
<1>9. (v \div 64) % 2 = z
  BY <1>2, <1>5
<1>10. (v \div 128) % 2 = w
  BY <1>2, <1>5
<1>11. (v \div 2 ^ 0) % 2 ^ 4 = hat
  BY <1>0, <1>6
<1>12. ASSUME NEW k \in 4 .. 7
       PROVE  (v \div 2 ^ k) % 2 ^ 1 = IF k = 4 THEN x ELSE IF k = 5 THEN y ELSE IF k = 6 THEN z ELSE w
  <2>1. CASE k = 4
    BY <1>0, <1>7, <2>1
  <2>2. CASE k = 5
    BY <1>0, <1>8, <2>2
  <2>3. CASE k = 6
    BY <1>0, <1>9, <2>3
  <2>4. CASE k = 7
    BY <1>0, <1>10, <2>4
  <2> QED BY <2>1, <2>2, <2>3, <2>4
<1> QED BY <1>3, <1>11, <1>12 DEF v, BesideHat

-----------------------------------------------------------------------------
(* GamepadReports: from what is held to what the PC reads *)

\* A controller the firmware knows, and a report one could send.
PadInv ==
    /\ device.vid = "kSonyVid" /\ device.pid \in kAllowedDevices
    /\ backend \in {"stadia", "ds4"}
    /\ input = [held |-> input.held, hat |-> input.hat, axes |-> input.axes, len |-> input.len]
    /\ input.held \subseteq IF IsEdge THEN Controls ELSE Controls \ EdgeControls
    /\ input.hat \in 0 .. 8
    /\ input.axes \in [DOMAIN NeutralAxes -> 0 .. 255]
    /\ input.len \in {0, 6, 8, 10, 64}

\* The four tables of actions, spelt out.
LEMMA EdgeTables ==
    /\ DOMAIN kDualSenseEdgeActions = DOMAIN kDualSenseActions \cup EdgeControls
    /\ \A b \in DOMAIN kDualSenseActions : kDualSenseEdgeActions[b] = kDualSenseActions[b]
    /\ kDualSenseEdgeActions["kLeftPaddle"] = "leftShift"
    /\ kDualSenseEdgeActions["kRightPaddle"] = "Space"
    /\ kDualSenseEdgeActions["kFn1"] = "X" /\ kDualSenseEdgeActions["kFn2"] = "Y"
    /\ DOMAIN kDualSenseEdgeGamepadActions = DOMAIN kDualSenseGamepadActions \cup EdgeControls
    /\ \A b \in DOMAIN kDualSenseGamepadActions :
           kDualSenseEdgeGamepadActions[b] = kDualSenseGamepadActions[b]
    /\ kDualSenseEdgeGamepadActions["kLeftPaddle"] = gp.kL3
    /\ kDualSenseEdgeGamepadActions["kRightPaddle"] = gp.kA
    /\ kDualSenseEdgeGamepadActions["kFn1"] = gp.kAssistant
    /\ kDualSenseEdgeGamepadActions["kFn2"] = gp.kCapture
<1> DEFINE keys == [kLeftPaddle |-> "leftShift", kRightPaddle |-> "Space", kFn1 |-> "X", kFn2 |-> "Y"]
           pad == [kLeftPaddle |-> gp.kL3, kRightPaddle |-> gp.kA,
                   kFn1 |-> gp.kAssistant, kFn2 |-> gp.kCapture]
<1>2. /\ DOMAIN keys = EdgeControls /\ EdgeControls \cap DOMAIN kDualSenseActions = {}
      /\ keys["kLeftPaddle"] = "leftShift" /\ keys["kRightPaddle"] = "Space"
      /\ keys["kFn1"] = "X" /\ keys["kFn2"] = "Y"
  BY DEF EdgeControls, kDualSenseActions
<1>3. /\ DOMAIN pad = EdgeControls /\ EdgeControls \cap DOMAIN kDualSenseGamepadActions = {}
      /\ pad["kLeftPaddle"] = gp.kL3 /\ pad["kRightPaddle"] = gp.kA
      /\ pad["kFn1"] = gp.kAssistant /\ pad["kFn2"] = gp.kCapture
  BY DEF EdgeControls, kDualSenseGamepadActions
<1>4. kDualSenseEdgeActions = WithPaddles(kDualSenseActions, keys)
  BY DEF kDualSenseEdgeActions
<1>5. kDualSenseEdgeGamepadActions = WithPaddles(kDualSenseGamepadActions, pad)
  BY DEF kDualSenseEdgeGamepadActions
<1>6. {"kLeftPaddle", "kRightPaddle", "kFn1", "kFn2"} \subseteq EdgeControls
  BY DEF EdgeControls
<1> HIDE DEF keys, pad
<1>7. /\ DOMAIN kDualSenseEdgeActions = DOMAIN kDualSenseActions \cup EdgeControls
      /\ \A b \in DOMAIN kDualSenseActions : kDualSenseEdgeActions[b] = kDualSenseActions[b]
      /\ \A b \in EdgeControls : kDualSenseEdgeActions[b] = keys[b]
  BY <1>2, <1>4 DEF WithPaddles
<1>8. /\ DOMAIN kDualSenseEdgeGamepadActions = DOMAIN kDualSenseGamepadActions \cup EdgeControls
      /\ \A b \in DOMAIN kDualSenseGamepadActions :
           kDualSenseEdgeGamepadActions[b] = kDualSenseGamepadActions[b]
      /\ \A b \in EdgeControls : kDualSenseEdgeGamepadActions[b] = pad[b]
  BY <1>3, <1>5 DEF WithPaddles
<1> QED BY <1>2, <1>3, <1>6, <1>7, <1>8

\* Each button's bit is where the controller's report has it.
LEMMA ButtonsAreControls ==
    /\ Controls = DOMAIN ButtonBits
    /\ \A b \in DOMAIN ButtonBits :
          \E i \in DOMAIN DualSenseLayout :
              /\ DualSenseLayout[i] = b
              /\ ButtonBits[b][1] \in 0 .. 2 /\ ButtonBits[b][2] \in 0 .. 7
              /\ i + 3 = ButtonBits[b][1] * 8 + ButtonBits[b][2]
<1> DEFINE Place(i, b) ==
        /\ i \in DOMAIN DualSenseLayout /\ DualSenseLayout[i] = b
        /\ ButtonBits[b][1] \in 0 .. 2 /\ ButtonBits[b][2] \in 0 .. 7
        /\ i + 3 = ButtonBits[b][1] * 8 + ButtonBits[b][2]
<1>1. DOMAIN DualSenseLayout = 1 .. 20
  BY DEF DualSenseLayout
<1>2. \A b \in DOMAIN ButtonBits : \E i \in 1 .. 20 : Place(i, b)
  BY <1>1 DEF DualSenseLayout, ButtonBits
<1>3. Controls = DOMAIN ButtonBits
  <2>1. Range(DualSenseLayout) = {DualSenseLayout[i] : i \in 1 .. 20}
    BY <1>1 DEF Range
  <2>2. \A i \in 1 .. 20 : DualSenseLayout[i] \in DOMAIN ButtonBits \cup {"unused"}
    BY DEF DualSenseLayout, ButtonBits
  <2>3. "unused" \notin DOMAIN ButtonBits
    BY DEF ButtonBits
  <2> QED BY <1>2, <2>1, <2>2, <2>3 DEF Controls
<1> QED BY <1>1, <1>2, <1>3

\* A whole report presses what is held, and the directional pad's buttons; a short
\* one presses nothing.
LEMMA PressedIs ==
    ASSUME PadInv
    PROVE  ParseDualSenseButtons =
               IF input.len = 64 THEN input.held \cup DpadButtons(input.hat) ELSE {}
<1>1. CASE input.len # 64
  BY <1>1 DEF ParseDualSenseButtons, PadInv, kButtonBase, kReportBase
<1>2. CASE input.len = 64
  <2>1. ASSUME NEW b \in DOMAIN ButtonBits
        PROVE  ButtonBits[b][2] \in Raw(ButtonBits[b][1]) <=> b \in input.held
    <3>1. PICK i \in DOMAIN DualSenseLayout :
              /\ DualSenseLayout[i] = b
              /\ ButtonBits[b][1] \in 0 .. 2 /\ ButtonBits[b][2] \in 0 .. 7
              /\ i + 3 = ButtonBits[b][1] * 8 + ButtonBits[b][2]
      BY ButtonsAreControls
    <3> DEFINE byte == ButtonBits[b][1]
               bit == ButtonBits[b][2]
    <3>2. byte \in 0 .. 2 /\ bit \in 0 .. 7 /\ i + 3 = byte * 8 + bit
      BY <3>1
    <3>3. DOMAIN DualSenseLayout \subseteq Int
      BY DEF DualSenseLayout
    <3> HIDE DEF byte, bit
    <3>4. kButtonBase + byte < input.len
      BY <1>2, <3>2 DEF kButtonBase, kReportBase
    <3>5. \A j \in DOMAIN DualSenseLayout : j + 3 = byte * 8 + bit => j = i
      BY <3>2, <3>3
    <3>6. bit \in Raw(byte) <=> DualSenseLayout[i] \in input.held
      BY <3>2, <3>4, <3>5 DEF Raw
    <3> QED BY <3>1, <3>6 DEF byte, bit
  <2>2. \A b \in DOMAIN ButtonBits : ButtonBits[b][1] \in 0 .. 2
    BY ButtonsAreControls
  <2>3. ParseDualSenseButtons =
            {b \in DOMAIN ButtonBits : ButtonBits[b][2] \in Raw(ButtonBits[b][1])} \cup
            DpadButtons(input.hat)
    <3>1. ~(input.len < 11 \/ input.len <= kButtonBase + 2)
      BY <1>2 DEF kButtonBase, kReportBase
    <3> QED BY <2>2, <3>1 DEF ParseDualSenseButtons
  <2>4. input.held \subseteq DOMAIN ButtonBits
    BY ButtonsAreControls DEF PadInv
  <2> QED BY <1>2, <2>1, <2>3, <2>4
<1> QED BY <1>1, <1>2

\* The bit of each of the gamepad's buttons, from the first of the bytes that hold them.
StadiaBit ==
    [A |-> 14, B |-> 13, X |-> 12, Y |-> 11, L3 |-> 8, R3 |-> 7, LB |-> 10, RB |-> 9,
     LT |-> 2, RT |-> 3, Assistant |-> 1, Options |-> 5, Guide |-> 4, Back |-> 6, Capture |-> 0]

Ds4Bit ==
    [Square |-> 4, Cross |-> 5, Circle |-> 6, Triangle |-> 7, L1 |-> 8, R1 |-> 9,
     L2 |-> 10, R2 |-> 11, Share |-> 12, Options |-> 13, L3 |-> 14, R3 |-> 15,
     PS |-> 16, Touchpad |-> 17]

\* The descriptor gives each bit the usage the PC takes for that button.
LEMMA StadiaButtons ==
    \A n \in DOMAIN StadiaControls :
        /\ n \in DOMAIN StadiaBit /\ StadiaBit[n] \in 0 .. 14
        /\ \E i \in 1 .. 28 : /\ kDescHidGamepad[i] = Button(StadiaControls[n])
                              /\ StadiaAt[i] = 8 + StadiaBit[n]
<1> DEFINE Place(i, n) == /\ i \in 1 .. 28 /\ kDescHidGamepad[i] = Button(StadiaControls[n])
                          /\ StadiaAt[i] = 8 + StadiaBit[n]
<1>1. \A n \in DOMAIN StadiaControls : n \in DOMAIN StadiaBit /\ StadiaBit[n] \in 0 .. 14
  BY DEF StadiaControls, StadiaBit
<1>2. \A n \in DOMAIN StadiaControls : \E i \in 1 .. 28 : Place(i, n)
  <2> USE DEF StadiaControls, kDescHidGamepad, StadiaAt, StadiaBit
  <2> QED OBVIOUS
<1> QED BY <1>1, <1>2

LEMMA Ds4Buttons ==
    \A n \in DOMAIN Ds4Controls :
        /\ n \in DOMAIN Ds4Bit /\ Ds4Bit[n] \in 4 .. 17
        /\ \E i \in 1 .. 22 : /\ kDescHidDs4[i] = Button(Ds4Controls[n])
                              /\ Ds4At[i] = 32 + Ds4Bit[n]
<1> DEFINE Place(i, n) == /\ i \in 1 .. 22 /\ kDescHidDs4[i] = Button(Ds4Controls[n])
                          /\ Ds4At[i] = 32 + Ds4Bit[n]
<1>1. \A n \in DOMAIN Ds4Controls : n \in DOMAIN Ds4Bit /\ Ds4Bit[n] \in 4 .. 17
  BY DEF Ds4Controls, Ds4Bit
<1>2. \A n \in DOMAIN Ds4Controls : \E i \in 1 .. 22 : Place(i, n)
  <2> USE DEF Ds4Controls, kDescHidDs4, Ds4At, Ds4Bit
  <2> QED OBVIOUS
<1> QED BY <1>1, <1>2

\* The mapping gives each control the bit of the button it stands for.
LEMMA StadiaMapping ==
    /\ \A c \in Controls \ EdgeControls :
          /\ c \in DOMAIN kDualSenseGamepadActions <=> c \in DOMAIN StadiaEquivalent
          /\ c \in DOMAIN StadiaEquivalent =>
                kDualSenseGamepadActions[c] = StadiaBit[StadiaEquivalent[c]]
    /\ \A c \in Controls :
          /\ c \in DOMAIN kDualSenseEdgeGamepadActions <=> c \in DOMAIN StadiaEquivalent
          /\ c \in DOMAIN StadiaEquivalent =>
                kDualSenseEdgeGamepadActions[c] = StadiaBit[StadiaEquivalent[c]]
<1>1. \A c \in Controls \ EdgeControls :
          /\ c \in DOMAIN kDualSenseGamepadActions <=> c \in DOMAIN StadiaEquivalent
          /\ c \in DOMAIN StadiaEquivalent =>
                kDualSenseGamepadActions[c] = StadiaBit[StadiaEquivalent[c]]
  <2>1. Controls = DOMAIN ButtonBits
    BY ButtonsAreControls
  <2>2. \A c \in DOMAIN kDualSenseGamepadActions :
            c \in DOMAIN StadiaEquivalent /\ kDualSenseGamepadActions[c] = StadiaBit[StadiaEquivalent[c]]
    BY DEF kDualSenseGamepadActions, StadiaEquivalent, StadiaBit, gp
  <2>3. \A c \in DOMAIN ButtonBits \ EdgeControls :
            c \in DOMAIN StadiaEquivalent => c \in DOMAIN kDualSenseGamepadActions
    BY DEF ButtonBits, EdgeControls, kDualSenseGamepadActions, StadiaEquivalent
  <2> QED BY <2>1, <2>2, <2>3
<1>2. \A c \in EdgeControls :
          /\ c \in DOMAIN kDualSenseEdgeGamepadActions /\ c \in DOMAIN StadiaEquivalent
          /\ kDualSenseEdgeGamepadActions[c] = StadiaBit[StadiaEquivalent[c]]
  <2>1. EdgeControls \subseteq DOMAIN kDualSenseEdgeGamepadActions
    BY EdgeTables
  <2>2. /\ kDualSenseEdgeGamepadActions["kLeftPaddle"] = 8
        /\ kDualSenseEdgeGamepadActions["kRightPaddle"] = 14
        /\ kDualSenseEdgeGamepadActions["kFn1"] = 1 /\ kDualSenseEdgeGamepadActions["kFn2"] = 0
    BY EdgeTables DEF gp
  <2>3. /\ EdgeControls \subseteq DOMAIN StadiaEquivalent
        /\ StadiaBit[StadiaEquivalent["kLeftPaddle"]] = 8
        /\ StadiaBit[StadiaEquivalent["kRightPaddle"]] = 14
        /\ StadiaBit[StadiaEquivalent["kFn1"]] = 1 /\ StadiaBit[StadiaEquivalent["kFn2"]] = 0
    BY DEF EdgeControls, StadiaEquivalent, StadiaBit
  <2>4. \A c \in EdgeControls : c \in {"kLeftPaddle", "kRightPaddle", "kFn1", "kFn2"}
    BY DEF EdgeControls
  <2> QED BY <2>1, <2>2, <2>3, <2>4
<1>3. DOMAIN kDualSenseGamepadActions \cap EdgeControls = {}
  BY DEF EdgeControls, kDualSenseGamepadActions
<1> QED BY <1>1, <1>2, <1>3, EdgeTables

LEMMA StadiaBitsDiffer ==
    \A m, n \in DOMAIN StadiaBit : StadiaBit[m] = StadiaBit[n] => m = n
  BY DEF StadiaBit

LEMMA Ds4BitsDiffer ==
    \A m, n \in DOMAIN Ds4Bit : Ds4Bit[m] = Ds4Bit[n] => m = n
  BY DEF Ds4Bit

LEMMA Ds4Mapping ==
    /\ DOMAIN Ds4Bits = DOMAIN Ds4Equivalent
    /\ \A c \in DOMAIN Ds4Bits : Ds4Bits[c] = Ds4Bit[Ds4Equivalent[c]] /\ Ds4Equivalent[c] \in DOMAIN Ds4Bit
  BY DEF Ds4Bits, Ds4Equivalent, Ds4Bit

\* The bits that are set in the bytes of buttons.
OnBits ==
    IF backend = "ds4" THEN {Ds4Bits[b] : b \in ParseDualSenseButtons \cap DOMAIN Ds4Bits}
    ELSE LET actions == FindGamepadMapping(device.vid, device.pid)
         IN  {actions[b] : b \in ParseDualSenseButtons \cap DOMAIN actions}

PadBit == IF backend = "ds4" THEN Ds4Bit ELSE StadiaBit

\* No button of the directional pad is in a table.
LEMMA NoDpad ==
    /\ \A b \in DpadButtons(input.hat) :
          /\ b \notin DOMAIN kDualSenseGamepadActions /\ b \notin DOMAIN kDualSenseEdgeGamepadActions
          /\ b \notin DOMAIN Ds4Bits
<1>1. DpadButtons(input.hat) \subseteq {"kDpadUp", "kDpadRight", "kDpadDown", "kDpadLeft"}
  BY DEF DpadButtons
<1>2. \A b \in {"kDpadUp", "kDpadRight", "kDpadDown", "kDpadLeft"} :
          /\ b \notin DOMAIN kDualSenseGamepadActions /\ b \notin EdgeControls /\ b \notin DOMAIN Ds4Bits
  BY DEF kDualSenseGamepadActions, EdgeControls, Ds4Bits
<1> QED BY <1>1, <1>2, EdgeTables

\* A bit is set in a whole report if what is held stands for its button, and in a
\* short one never.
LEMMA OnIfHeld ==
    ASSUME PadInv
    PROVE  /\ input.len # 64 => OnBits = {}
           /\ input.len = 64 => OnBits = {PadBit[n] : n \in HeldOnPad}
           /\ HeldOnPad \subseteq DOMAIN PadBit
<1>1. CASE backend = "ds4"
  <2>1. HeldOnPad = {Ds4Equivalent[c] : c \in input.held \cap DOMAIN Ds4Equivalent}
    BY <1>1 DEF HeldOnPad, Equivalent
  <2>2. OnBits = {Ds4Bits[b] : b \in ParseDualSenseButtons \cap DOMAIN Ds4Bits}
    BY <1>1 DEF OnBits
  <2>3. HeldOnPad \subseteq DOMAIN PadBit
    BY <1>1, <2>1, Ds4Mapping DEF PadBit
  <2>4. input.len # 64 => OnBits = {}
    BY <2>2, PressedIs
  <2>5. ASSUME input.len = 64 PROVE OnBits = {PadBit[n] : n \in HeldOnPad}
    <3>1. ParseDualSenseButtons \cap DOMAIN Ds4Bits = input.held \cap DOMAIN Ds4Bits
      BY <2>5, PressedIs, NoDpad
    <3>2. OnBits = {Ds4Bits[c] : c \in input.held \cap DOMAIN Ds4Bits}
      BY <2>2, <3>1
    <3>3. OnBits = {Ds4Bit[Ds4Equivalent[c]] : c \in input.held \cap DOMAIN Ds4Equivalent}
      BY <3>2, Ds4Mapping
    <3> QED BY <1>1, <2>1, <3>3 DEF PadBit
  <2> QED BY <2>3, <2>4, <2>5
<1>2. CASE backend # "ds4"
  <2> DEFINE actions == FindGamepadMapping(device.vid, device.pid)
  <2>1. HeldOnPad = {StadiaEquivalent[c] : c \in input.held \cap DOMAIN StadiaEquivalent}
    BY <1>2 DEF HeldOnPad, Equivalent
  <2>2. OnBits = {actions[b] : b \in ParseDualSenseButtons \cap DOMAIN actions}
    BY <1>2 DEF OnBits
  <2>3. /\ actions \in {kDualSenseGamepadActions, kDualSenseEdgeGamepadActions}
        /\ \A c \in input.held :
              /\ c \in DOMAIN actions <=> c \in DOMAIN StadiaEquivalent
              /\ c \in DOMAIN StadiaEquivalent => actions[c] = StadiaBit[StadiaEquivalent[c]]
    <3>1. CASE device.pid = "kDualSensePid"
      <4>1. actions = kDualSenseGamepadActions
        BY <3>1 DEF PadInv, FindGamepadMapping, kGamepadMappingSets
      <4>2. input.held \subseteq Controls \ EdgeControls
        BY <3>1 DEF PadInv, IsEdge
      <4> HIDE DEF actions
      <4> QED BY <4>1, <4>2, StadiaMapping
    <3>2. CASE device.pid # "kDualSensePid"
      <4>1. actions = kDualSenseEdgeGamepadActions
        BY <3>2 DEF PadInv, FindGamepadMapping, kGamepadMappingSets, kAllowedDevices
      <4>2. input.held \subseteq Controls
        BY DEF PadInv
      <4> HIDE DEF actions
      <4> QED BY <4>1, <4>2, StadiaMapping
    <3> QED BY <3>1, <3>2
  <2> HIDE DEF actions
  <2>4. HeldOnPad \subseteq DOMAIN PadBit
    <3>1. \A c \in DOMAIN StadiaEquivalent : StadiaEquivalent[c] \in DOMAIN StadiaBit
      BY DEF StadiaEquivalent, StadiaBit
    <3> QED BY <1>2, <2>1, <3>1 DEF PadBit
  <2>5. input.len # 64 => OnBits = {}
    BY <2>2, PressedIs
  <2>6. ASSUME input.len = 64 PROVE OnBits = {PadBit[n] : n \in HeldOnPad}
    <3>1. ParseDualSenseButtons \cap DOMAIN actions = input.held \cap DOMAIN actions
      BY <2>3, <2>6, PressedIs, NoDpad
    <3>2. OnBits = {actions[c] : c \in input.held \cap DOMAIN actions}
      BY <2>2, <3>1
    <3>3. OnBits = {StadiaBit[StadiaEquivalent[c]] : c \in input.held \cap DOMAIN StadiaEquivalent}
      BY <2>3, <3>2
    <3> QED BY <1>2, <2>1, <3>3 DEF PadBit
  <2> QED BY <2>4, <2>5, <2>6
<1> QED BY <1>1, <1>2

\* The axes and the hat that a report gives.
GivenAxes ==
    IF backend = "ds4" THEN IF input.len >= 7 THEN input.axes ELSE NeutralAxes
    ELSE IF input.len = 64 THEN Sanitized(input.axes) ELSE NeutralAxes
GivenHat ==
    IF IF backend = "ds4" THEN input.len > 8 ELSE input.len = 64 THEN input.hat ELSE 8

LEMMA ReportIs ==
    ASSUME PadInv, input.len # 0
    PROVE  ParseForGamepad =
               IF backend = "ds4"
               THEN <<GivenAxes.left_x, GivenAxes.left_y, GivenAxes.right_x, GivenAxes.right_y,
                      GivenHat + Byte(Bits(OnBits, 0)), Byte(Bits(OnBits, 1)), Byte(Bits(OnBits, 2)),
                      GivenAxes.l2, GivenAxes.r2>>
               ELSE <<GivenHat, Byte(Bits(OnBits, 0)), Byte(Bits(OnBits, 1)),
                      GivenAxes.left_x, GivenAxes.left_y, GivenAxes.right_x, GivenAxes.right_y,
                      GivenAxes.l2, GivenAxes.r2, 0>>
<1>1. Hat = input.hat /\ input.len \in {6, 8, 10, 64}
  BY DEF PadInv, Hat
<1>2. CASE backend = "ds4"
  <2>1. GivenHat = IF input.len > kButtonBase THEN Hat ELSE 8
    BY <1>1, <1>2 DEF GivenHat, kButtonBase, kReportBase
  <2>2. GivenAxes = IF input.len >= kReportBase + 6 THEN input.axes ELSE NeutralAxes
    BY <1>1, <1>2 DEF GivenAxes, kReportBase
  <2> QED BY <1>2, <2>1, <2>2 DEF ParseForGamepad, ParseForDs4, OnBits
<1>3. CASE backend # "ds4"
  <2>1. CASE input.len = 64
    <3>1. ~(input.len < kButtonBase + 3) /\ input.len >= kReportBase + 6
      BY <2>1 DEF kButtonBase, kReportBase
    <3>2. GivenHat = Hat /\ GivenAxes = Sanitized(input.axes)
      BY <1>1, <1>3, <2>1 DEF GivenHat, GivenAxes
    <3> QED BY <1>3, <3>1, <3>2 DEF ParseForGamepad, ParseForStadia, StadiaReport, OnBits
  <2>2. CASE input.len # 64
    <3>1. input.len < kButtonBase + 3
      BY <1>1, <2>2 DEF kButtonBase, kReportBase
    <3>2. GivenHat = 8 /\ GivenAxes = NeutralAxes
      BY <1>1, <1>3, <2>2 DEF GivenHat, GivenAxes
    <3>3. OnBits = {}
      BY <2>2, OnIfHeld
    <3> QED BY <1>3, <3>1, <3>2, <3>3 DEF ParseForGamepad, ParseForStadia, StadiaReport
  <2> QED BY <2>1, <2>2
<1> QED BY <1>2, <1>3

\* Which bits a byte of the report has.
LEMMA BitsIs ==
    ASSUME NEW on \in SUBSET Int, NEW byte \in Nat, NEW k \in 0 .. 7
    PROVE  k \in Bits(on, byte) <=> 8 * byte + k \in on
<1>1. \A c \in on : c \div 8 = byte /\ c - 8 * byte = k <=> c = 8 * byte + k
  OBVIOUS
<1> QED BY <1>1 DEF Bits

LEMMA OnBitsType ==
    ASSUME PadInv
    PROVE  OnBits \subseteq IF backend = "ds4" THEN 4 .. 17 ELSE 0 .. 14
<1>1. \A n \in DOMAIN Ds4Bit : Ds4Bit[n] \in 4 .. 17
  BY DEF Ds4Bit
<1>2. \A n \in DOMAIN StadiaBit : StadiaBit[n] \in 0 .. 14
  BY DEF StadiaBit
<1>3. PadInv => input.len = 64 \/ input.len # 64
  OBVIOUS
<1> QED BY <1>1, <1>2, OnIfHeld DEF PadBit

\* The PC sees a button exactly if its bit is set.
LEMMA ButtonSays ==
    ASSUME PadInv, input.len # 0, NEW n \in DOMAIN PadControls
    PROVE  /\ n \in DOMAIN PadBit
           /\ Says(ParseForGamepad, <<"button", PadControls[n]>>) =
                  IF PadBit[n] \in OnBits THEN 1 ELSE 0
<1> DEFINE report == ParseForGamepad
           usage == <<"button", PadControls[n]>>
           b == PadBit[n]
           base == IF backend = "ds4" THEN 32 ELSE 8
<1>1. /\ n \in DOMAIN PadBit /\ b \in IF backend = "ds4" THEN 4 .. 17 ELSE 0 .. 14
      /\ \E i \in DOMAIN Descriptor : Descriptor[i] = Button(PadControls[n]) /\ At(i) = base + b
  <2>1. CASE backend = "ds4"
    BY <2>1, Ds4Buttons, Ds4Starts DEF PadControls, PadBit, Descriptor, At
  <2>2. CASE backend # "ds4"
    BY <2>2, StadiaButtons, StadiaStarts DEF PadControls, PadBit, Descriptor, At
  <2> QED BY <2>1, <2>2
<1>2. PICK i \in DOMAIN Descriptor : Descriptor[i] = Button(PadControls[n]) /\ At(i) = base + b
  BY <1>1
<1>3. /\ Descriptor[i].usage = usage /\ usage # <<"none", 0>>
      /\ Descriptor[i].bits = 1 /\ Descriptor[i].lo = 0 /\ Descriptor[i].hi = 1
  BY <1>2 DEF Button, Field
<1>4. Says(report, usage) = Reading(report, Descriptor[i], base + b)
  <2>1. i \in Named(Descriptor)
    BY <1>3 DEF Named
  <2> HIDE DEF report, b, base
  <2> QED BY <1>2, <1>3, <2>1, SaysOfField
<1> DEFINE k == b % 8
           byte == b \div 8
<1> HIDE DEF b, base, usage, report
<1>5. b \in Nat /\ b < 18 /\ base \in {8, 32} /\ (backend = "ds4") = (base = 32)
  BY <1>1 DEF base
<1>6. /\ k \in 0 .. 7 /\ byte \in 0 .. 2 /\ b = 8 * byte + k
      /\ (base + b) \div 8 = base \div 8 + byte /\ (base + b) % 8 = k
  BY <1>5
<1>7. base = 8 => byte \in 0 .. 1
  BY <1>1, <1>5
<1> HIDE DEF k, byte
<1>8. k \in Bits(OnBits, byte) <=> b \in OnBits
  <2>1. OnBits \subseteq Int
    BY OnBitsType
  <2> QED BY <1>6, <2>1, BitsIs
<1>9. (report[(base + b) \div 8 + 1] \div 2 ^ k) % 2 ^ 1 = IF b \in OnBits THEN 1 ELSE 0
  <2>1. CASE base = 32 /\ byte = 0
    <3>1. report[5] = GivenHat + Byte(Bits(OnBits, 0)) /\ (base + b) \div 8 + 1 = 5
      BY <1>5, <1>6, <2>1, ReportIs DEF report
    <3>2. k \in 4 .. 7
      BY <1>1, <1>5, <1>6, <2>1
    <3>3. Bits(OnBits, 0) \cap 0 .. 3 = {} /\ GivenHat \in 0 .. 8
      <4>1. OnBits \subseteq 4 .. 17
        BY <1>5, <2>1, OnBitsType
      <4>2. ASSUME NEW c \in 0 .. 3 PROVE c \notin Bits(OnBits, 0)
        <5>1. c \in Bits(OnBits, 0) <=> 8 * 0 + c \in OnBits
          BY <4>1, BitsIs
        <5> QED BY <4>1, <5>1
      <4>3. GivenHat \in 0 .. 8
        BY DEF GivenHat, PadInv
      <4> QED BY <4>1, <4>2, <4>3
    <3> DEFINE bits == Bits(OnBits, 0)
    <3>4. ((GivenHat + Byte(bits)) \div 2 ^ k) % 2 ^ 1 = IF k \in bits THEN 1 ELSE 0
      <4>1. bits \cap 0 .. 3 = {} /\ GivenHat \in 0 .. 8
        BY <3>3
      <4> HIDE DEF bits
      <4>2. BesideHat(GivenHat, bits)
        BY <4>1, BitBesideHat
      <4> QED BY <3>2, <4>2 DEF BesideHat
    <3>5. k \in bits <=> b \in OnBits
      BY <1>8, <2>1
    <3>6. report[(base + b) \div 8 + 1] = GivenHat + Byte(bits)
      BY <3>1
    <3> HIDE DEF bits
    <3> QED BY <3>4, <3>5, <3>6
  <2>2. CASE ~(base = 32 /\ byte = 0)
    <3>1. report[(base + b) \div 8 + 1] = Byte(Bits(OnBits, byte))
      <4>1. CASE base = 32 /\ byte = 1
        <5>1. report[6] = Byte(Bits(OnBits, 1)) /\ (base + b) \div 8 + 1 = 6
          BY <1>5, <1>6, <4>1, ReportIs DEF report
        <5> QED BY <4>1, <5>1
      <4>2. CASE base = 32 /\ byte = 2
        <5>1. report[7] = Byte(Bits(OnBits, 2)) /\ (base + b) \div 8 + 1 = 7
          BY <1>5, <1>6, <4>2, ReportIs DEF report
        <5> QED BY <4>2, <5>1
      <4>3. CASE base = 8 /\ byte = 0
        <5>1. report[2] = Byte(Bits(OnBits, 0)) /\ (base + b) \div 8 + 1 = 2
          BY <1>5, <1>6, <4>3, ReportIs DEF report
        <5> QED BY <4>3, <5>1
      <4>4. CASE base = 8 /\ byte = 1
        <5>1. report[3] = Byte(Bits(OnBits, 1)) /\ (base + b) \div 8 + 1 = 3
          BY <1>5, <1>6, <4>4, ReportIs DEF report
        <5> QED BY <4>4, <5>1
      <4> QED BY <1>5, <1>6, <1>7, <2>2, <4>1, <4>2, <4>3, <4>4
    <3> DEFINE bits == Bits(OnBits, byte)
    <3>2. (Byte(bits) \div 2 ^ k) % 2 ^ 1 = IF k \in bits THEN 1 ELSE 0
      <4> HIDE DEF bits
      <4> QED BY <1>6, BitOf
    <3>3. report[(base + b) \div 8 + 1] = Byte(bits)
      BY <3>1
    <3>4. k \in bits <=> b \in OnBits
      BY <1>8
    <3> HIDE DEF bits
    <3> QED BY <3>2, <3>3, <3>4
  <2> QED BY <2>1, <2>2
<1>10. Says(report, usage) = IF b \in OnBits THEN 1 ELSE 0
  <2>1. (base + b) % 8 = k
    BY <1>6
  <2> QED BY <1>3, <1>4, <1>9, <2>1 DEF Reading
<1> QED BY <1>1, <1>10 DEF report, usage, b

\* The PC sees the buttons that what is held stands for.
LEMMA ButtonsSeen ==
    ASSUME PadInv, input.len # 0, NEW n \in DOMAIN PadControls
    PROVE  Says(ParseForGamepad, <<"button", PadControls[n]>>) =
               IF n \in HeldOnPad /\ input.len = 64 THEN 1 ELSE 0
<1>1. \A m \in DOMAIN PadBit : PadBit[m] = PadBit[n] => m = n
  BY ButtonSays, StadiaBitsDiffer, Ds4BitsDiffer DEF PadBit
<1>2. PadBit[n] \in OnBits <=> n \in HeldOnPad /\ input.len = 64
  BY <1>1, OnIfHeld
<1> QED BY <1>2, ButtonSays

LEMMA HatSays ==
    ASSUME PadInv, input.len = 64
    PROVE  Says(ParseForGamepad, <<"desktop", \h39>>) = IF input.hat = 8 THEN -1 ELSE input.hat
<1> DEFINE n == IF backend = "ds4" THEN 5 ELSE 1
<1>1. /\ n \in Named(Descriptor) /\ Descriptor[n] = Field("desktop", \h39, 4, 0, 7)
      /\ At(n) = IF backend = "ds4" THEN 32 ELSE 0
  <2>1. kDescHidDs4[5] = Field("desktop", \h39, 4, 0, 7) /\ Ds4At[5] = 32
    BY DEF kDescHidDs4, Ds4At
  <2>2. kDescHidGamepad[1] = Field("desktop", \h39, 4, 0, 7) /\ StadiaAt[1] = 0
    BY DEF kDescHidGamepad, StadiaAt
  <2>3. Field("desktop", \h39, 4, 0, 7).usage # <<"none", 0>>
    BY DEF Field
  <2> QED BY <2>1, <2>2, <2>3, Ds4Starts, StadiaStarts DEF Named, Descriptor, At
<1>2. GivenHat = input.hat /\ input.hat \in 0 .. 8
  BY DEF GivenHat, PadInv
<1> DEFINE byte == ParseForGamepad[At(n) \div 8 + 1]
<1>3. (byte \div 2 ^ 0) % 2 ^ 4 = input.hat
  <2>1. CASE backend = "ds4"
    <3>1. byte = input.hat + Byte(Bits(OnBits, 0))
      BY <1>1, <1>2, <2>1, ReportIs
    <3>2. Bits(OnBits, 0) \cap 0 .. 3 = {}
      <4>1. OnBits \subseteq 4 .. 17
        BY <2>1, OnBitsType
      <4>2. ASSUME NEW c \in 0 .. 3 PROVE c \notin Bits(OnBits, 0)
        <5>1. c \in Bits(OnBits, 0) <=> 8 * 0 + c \in OnBits
          BY <4>1, BitsIs
        <5> QED BY <4>1, <5>1
      <4> QED BY <4>2
    <3>3. BesideHat(input.hat, Bits(OnBits, 0))
      BY <1>2, <3>2, BitBesideHat
    <3> HIDE DEF byte
    <3> QED BY <3>1, <3>3 DEF BesideHat
  <2>2. CASE backend # "ds4"
    <3>1. byte = input.hat
      BY <1>1, <1>2, <2>2, ReportIs
    <3>2. 2 ^ 0 = 1 /\ 2 ^ 4 = 16
      OBVIOUS
    <3> HIDE DEF byte
    <3> QED BY <1>2, <3>1, <3>2
  <2> QED BY <2>1, <2>2
<1>4. Says(ParseForGamepad, Descriptor[n].usage) = Reading(ParseForGamepad, Descriptor[n], At(n))
  <2> HIDE DEF n
  <2> QED BY <1>1, SaysOfField
<1>5. At(n) % 8 = 0
  BY <1>1
<1>6. /\ Descriptor[n].usage = <<"desktop", \h39>> /\ Descriptor[n].bits = 4
      /\ Descriptor[n].lo = 0 /\ Descriptor[n].hi = 7
  BY <1>1 DEF Field
<1> HIDE DEF n
<1>7. Reading(ParseForGamepad, Descriptor[n], At(n)) = IF input.hat \in 0 .. 7 THEN input.hat ELSE -1
  BY <1>3, <1>5, <1>6 DEF Reading
<1> QED BY <1>2, <1>4, <1>6, <1>7

\* Sticks and triggers are numbers of a byte; none of a Stadia's sticks is at 0.
LEMMA GivenAxesType ==
    ASSUME PadInv
    PROVE  /\ GivenAxes \in [DOMAIN NeutralAxes -> 0 .. 255]
           /\ Sanitized(input.axes) \in [DOMAIN NeutralAxes -> 0 .. 255]
           /\ NeutralAxes \in [DOMAIN NeutralAxes -> 0 .. 255]
           /\ backend # "ds4" => \A a \in DOMAIN NeutralAxes \ {"l2", "r2"} : GivenAxes[a] # 0
<1>1. NeutralAxes \in [DOMAIN NeutralAxes -> 0 .. 255]
  BY DEF NeutralAxes
<1>2. \A a \in DOMAIN NeutralAxes \ {"l2", "r2"} : NeutralAxes[a] # 0
  BY DEF NeutralAxes
<1>3. /\ Sanitized(input.axes) \in [DOMAIN NeutralAxes -> 0 .. 255]
      /\ \A a \in DOMAIN NeutralAxes \ {"l2", "r2"} : Sanitized(input.axes)[a] # 0
  BY DEF PadInv, Sanitized
<1>4. input.axes \in [DOMAIN NeutralAxes -> 0 .. 255]
  BY DEF PadInv
<1> QED BY <1>1, <1>2, <1>3, <1>4 DEF GivenAxes

\* A field of eight bits that the axis a is read from.
AxisField(a, i) ==
    /\ i \in Named(Descriptor) /\ Descriptor[i].usage = AxisUsages[a]
    /\ Descriptor[i].bits = 8 /\ Descriptor[i].hi = 255
    /\ Descriptor[i].lo \in {0, 1}
    /\ Descriptor[i].lo = 1 => backend # "ds4" /\ a \notin {"l2", "r2"}
    /\ At(i) % 8 = 0 /\ ParseForGamepad[At(i) \div 8 + 1] = GivenAxes[a]

LEMMA AxisFieldIs ==
    ASSUME NEW a, NEW i \in DOMAIN Descriptor, NEW page, page # "none", NEW usage, NEW lo \in {0, 1},
           Descriptor[i] = Field(page, usage, 8, lo, 255), AxisUsages[a] = <<page, usage>>,
           lo = 1 => backend # "ds4" /\ a \notin {"l2", "r2"},
           NEW byte \in 1 .. 10, At(i) = 8 * (byte - 1), ParseForGamepad[byte] = GivenAxes[a]
    PROVE  AxisField(a, i)
<1>1. /\ Descriptor[i].usage = <<page, usage>> /\ Descriptor[i].bits = 8
      /\ Descriptor[i].lo = lo /\ Descriptor[i].hi = 255
  BY DEF Field
<1>2. i \in Named(Descriptor)
  BY <1>1 DEF Named
<1>3. At(i) % 8 = 0 /\ At(i) \div 8 + 1 = byte
  OBVIOUS
<1> QED BY <1>1, <1>2, <1>3 DEF AxisField

LEMMA AxisFields ==
    ASSUME PadInv, input.len # 0, NEW a \in DOMAIN NeutralAxes
    PROVE  \E i : AxisField(a, i)
<1>0. a \in {"left_x", "left_y", "right_x", "right_y", "l2", "r2"}
  BY DEF NeutralAxes
<1>1. CASE backend = "ds4"
  <2>1. Descriptor = kDescHidDs4 /\ DOMAIN Descriptor = 1 .. 22 /\ \A i : At(i) = Ds4At[i]
    BY <1>1, Ds4Starts DEF Descriptor, At
  <2>2. AxisField("left_x", 1)
    <3>1. kDescHidDs4[1] = Field("desktop", \h30, 8, 0, 255) /\ Ds4At[1] = 8 * (1 - 1)
      BY DEF kDescHidDs4, Ds4At, Axis
    <3>2. AxisUsages["left_x"] = <<"desktop", \h30>>
      BY <1>1 DEF AxisUsages
    <3>3. ParseForGamepad[1] = GivenAxes["left_x"]
      BY <1>1, ReportIs
    <3> QED BY <1>1, <2>1, <3>1, <3>2, <3>3, AxisFieldIs
  <2>3. AxisField("left_y", 2)
    <3>1. kDescHidDs4[2] = Field("desktop", \h31, 8, 0, 255) /\ Ds4At[2] = 8 * (2 - 1)
      BY DEF kDescHidDs4, Ds4At, Axis
    <3>2. AxisUsages["left_y"] = <<"desktop", \h31>>
      BY <1>1 DEF AxisUsages
    <3>3. ParseForGamepad[2] = GivenAxes["left_y"]
      BY <1>1, ReportIs
    <3> QED BY <1>1, <2>1, <3>1, <3>2, <3>3, AxisFieldIs
  <2>4. AxisField("right_x", 3)
    <3>1. kDescHidDs4[3] = Field("desktop", \h32, 8, 0, 255) /\ Ds4At[3] = 8 * (3 - 1)
      BY DEF kDescHidDs4, Ds4At, Axis
    <3>2. AxisUsages["right_x"] = <<"desktop", \h32>>
      BY <1>1 DEF AxisUsages
    <3>3. ParseForGamepad[3] = GivenAxes["right_x"]
      BY <1>1, ReportIs
    <3> QED BY <1>1, <2>1, <3>1, <3>2, <3>3, AxisFieldIs
  <2>5. AxisField("right_y", 4)
    <3>1. kDescHidDs4[4] = Field("desktop", \h35, 8, 0, 255) /\ Ds4At[4] = 8 * (4 - 1)
      BY DEF kDescHidDs4, Ds4At, Axis
    <3>2. AxisUsages["right_y"] = <<"desktop", \h35>>
      BY <1>1 DEF AxisUsages
    <3>3. ParseForGamepad[4] = GivenAxes["right_y"]
      BY <1>1, ReportIs
    <3> QED BY <1>1, <2>1, <3>1, <3>2, <3>3, AxisFieldIs
  <2>6. AxisField("l2", 21)
    <3>1. kDescHidDs4[21] = Field("desktop", \h33, 8, 0, 255) /\ Ds4At[21] = 8 * (8 - 1)
      BY DEF kDescHidDs4, Ds4At, Axis
    <3>2. AxisUsages["l2"] = <<"desktop", \h33>>
      BY <1>1 DEF AxisUsages
    <3>3. ParseForGamepad[8] = GivenAxes["l2"]
      BY <1>1, ReportIs
    <3> QED BY <1>1, <2>1, <3>1, <3>2, <3>3, AxisFieldIs
  <2>7. AxisField("r2", 22)
    <3>1. kDescHidDs4[22] = Field("desktop", \h34, 8, 0, 255) /\ Ds4At[22] = 8 * (9 - 1)
      BY DEF kDescHidDs4, Ds4At, Axis
    <3>2. AxisUsages["r2"] = <<"desktop", \h34>>
      BY <1>1 DEF AxisUsages
    <3>3. ParseForGamepad[9] = GivenAxes["r2"]
      BY <1>1, ReportIs
    <3> QED BY <1>1, <2>1, <3>1, <3>2, <3>3, AxisFieldIs
  <2> QED BY <1>0, <2>2, <2>3, <2>4, <2>5, <2>6, <2>7
<1>2. CASE backend # "ds4"
  <2>1. Descriptor = kDescHidGamepad /\ DOMAIN Descriptor = 1 .. 28 /\ \A i : At(i) = StadiaAt[i]
    BY <1>2, StadiaStarts DEF Descriptor, At
  <2>2. AxisField("left_x", 19)
    <3>1. kDescHidGamepad[19] = Field("desktop", \h30, 8, 1, 255) /\ StadiaAt[19] = 8 * (4 - 1)
      BY DEF kDescHidGamepad, StadiaAt, Axis
    <3>2. AxisUsages["left_x"] = <<"desktop", \h30>>
      BY <1>2 DEF AxisUsages
    <3>3. ParseForGamepad[4] = GivenAxes["left_x"]
      BY <1>2, ReportIs
    <3> QED BY <1>2, <2>1, <3>1, <3>2, <3>3, AxisFieldIs
  <2>3. AxisField("left_y", 20)
    <3>1. kDescHidGamepad[20] = Field("desktop", \h31, 8, 1, 255) /\ StadiaAt[20] = 8 * (5 - 1)
      BY DEF kDescHidGamepad, StadiaAt, Axis
    <3>2. AxisUsages["left_y"] = <<"desktop", \h31>>
      BY <1>2 DEF AxisUsages
    <3>3. ParseForGamepad[5] = GivenAxes["left_y"]
      BY <1>2, ReportIs
    <3> QED BY <1>2, <2>1, <3>1, <3>2, <3>3, AxisFieldIs
  <2>4. AxisField("right_x", 21)
    <3>1. kDescHidGamepad[21] = Field("desktop", \h32, 8, 1, 255) /\ StadiaAt[21] = 8 * (6 - 1)
      BY DEF kDescHidGamepad, StadiaAt, Axis
    <3>2. AxisUsages["right_x"] = <<"desktop", \h32>>
      BY <1>2 DEF AxisUsages
    <3>3. ParseForGamepad[6] = GivenAxes["right_x"]
      BY <1>2, ReportIs
    <3> QED BY <1>2, <2>1, <3>1, <3>2, <3>3, AxisFieldIs
  <2>5. AxisField("right_y", 22)
    <3>1. kDescHidGamepad[22] = Field("desktop", \h35, 8, 1, 255) /\ StadiaAt[22] = 8 * (7 - 1)
      BY DEF kDescHidGamepad, StadiaAt, Axis
    <3>2. AxisUsages["right_y"] = <<"desktop", \h35>>
      BY <1>2 DEF AxisUsages
    <3>3. ParseForGamepad[7] = GivenAxes["right_y"]
      BY <1>2, ReportIs
    <3> QED BY <1>2, <2>1, <3>1, <3>2, <3>3, AxisFieldIs
  <2>6. AxisField("l2", 23)
    <3>1. kDescHidGamepad[23] = Field("simulation", \hC5, 8, 0, 255) /\ StadiaAt[23] = 8 * (8 - 1)
      BY DEF kDescHidGamepad, StadiaAt, Axis
    <3>2. AxisUsages["l2"] = <<"simulation", \hC5>>
      BY <1>2 DEF AxisUsages
    <3>3. ParseForGamepad[8] = GivenAxes["l2"]
      BY <1>2, ReportIs
    <3> QED BY <1>2, <2>1, <3>1, <3>2, <3>3, AxisFieldIs
  <2>7. AxisField("r2", 24)
    <3>1. kDescHidGamepad[24] = Field("simulation", \hC4, 8, 0, 255) /\ StadiaAt[24] = 8 * (9 - 1)
      BY DEF kDescHidGamepad, StadiaAt, Axis
    <3>2. AxisUsages["r2"] = <<"simulation", \hC4>>
      BY <1>2 DEF AxisUsages
    <3>3. ParseForGamepad[9] = GivenAxes["r2"]
      BY <1>2, ReportIs
    <3> QED BY <1>2, <2>1, <3>1, <3>2, <3>3, AxisFieldIs
  <2> QED BY <1>0, <2>2, <2>3, <2>4, <2>5, <2>6, <2>7
<1> QED BY <1>1, <1>2

LEMMA AxisSays ==
    ASSUME PadInv, input.len # 0, NEW a \in DOMAIN NeutralAxes
    PROVE  Says(ParseForGamepad, AxisUsages[a]) = GivenAxes[a]
<1>1. PICK i : AxisField(a, i)
  BY AxisFields
<1>2. Says(ParseForGamepad, Descriptor[i].usage) = Reading(ParseForGamepad, Descriptor[i], At(i))
  BY <1>1, SaysOfField DEF AxisField
<1> DEFINE v == GivenAxes[a]
<1>3. v \in 0 .. 255 /\ (backend # "ds4" /\ a \notin {"l2", "r2"} => v # 0)
  BY GivenAxesType
<1> HIDE DEF v
<1>4. 2 ^ 0 = 1 /\ 2 ^ 8 = 256
  OBVIOUS
<1>5. (v \div 2 ^ 0) % 2 ^ 8 = v
  BY <1>3, <1>4
<1>6. v \in Descriptor[i].lo .. 255
  BY <1>1, <1>3 DEF AxisField
<1>7. Reading(ParseForGamepad, Descriptor[i], At(i)) = v
  <2>1. /\ At(i) % 8 = 0 /\ Descriptor[i].bits = 8 /\ Descriptor[i].hi = 255
        /\ ParseForGamepad[At(i) \div 8 + 1] = v
    BY <1>1 DEF AxisField, v
  <2> DEFINE f == Descriptor[i]
             at == At(i)
             r == ParseForGamepad
  <2>2. at % 8 = 0 /\ f.bits = 8 /\ f.hi = 255 /\ r[at \div 8 + 1] = v /\ v \in f.lo .. 255
    BY <1>6, <2>1
  <2> HIDE DEF f, at, r
  <2>3. (r[at \div 8 + 1] \div 2 ^ (at % 8)) % 2 ^ f.bits = v
    BY <1>5, <2>2
  <2>4. Reading(r, f, at) = v
    BY <2>2, <2>3 DEF Reading
  <2> QED BY <2>4 DEF f, at, r
<1> QED BY <1>1, <1>2, <1>7 DEF AxisField, v

\* The keyboard profile: no two buttons have one key, and none has a zone's.
OneKeyEach(t) ==
    /\ \A b, c \in DOMAIN t : t[b] = t[c] => b = c
    /\ \A b \in DOMAIN t : t[b] \notin ZoneActions

LEMMA KeysDiffer == OneKeyEach(kDualSenseActions) /\ OneKeyEach(kDualSenseEdgeActions)
<1>1. OneKeyEach(kDualSenseActions)
  BY DEF OneKeyEach, kDualSenseActions, ZoneActions
<1> DEFINE e == kDualSenseEdgeActions
           new == {"leftShift", "Space", "X", "Y"}
<1>2. \A b \in DOMAIN kDualSenseActions : kDualSenseActions[b] \notin new
  BY DEF kDualSenseActions
<1>3. /\ \A b \in EdgeControls : e[b] \in new
      /\ \A b, c \in EdgeControls : e[b] = e[c] => b = c
  <2>1. /\ e["kLeftPaddle"] = "leftShift" /\ e["kRightPaddle"] = "Space"
        /\ e["kFn1"] = "X" /\ e["kFn2"] = "Y"
    BY EdgeTables
  <2> HIDE DEF e
  <2> QED BY <2>1 DEF EdgeControls
<1>4. new \cap ZoneActions = {}
  BY DEF ZoneActions
<1>5. DOMAIN e = DOMAIN kDualSenseActions \cup EdgeControls
  BY EdgeTables
<1>6. \A b \in DOMAIN kDualSenseActions : e[b] = kDualSenseActions[b]
  BY EdgeTables
<1> HIDE DEF e, new
<1>7. OneKeyEach(e)
  BY <1>1, <1>2, <1>3, <1>4, <1>5, <1>6 DEF OneKeyEach
<1> QED BY <1>1, <1>7 DEF e

LEMMA KeysSay ==
    ASSUME PadInv, NEW buttons
    PROVE  LET keys == FindMapping(device.vid, device.pid)
               outputs == OutputsOf(keys, buttons)
           IN  /\ \A b \in DOMAIN keys : keys[b] \in outputs <=> b \in buttons
               /\ ZoneActions \cap outputs = {}
<1> DEFINE keys == FindMapping(device.vid, device.pid)
<1>1. keys \in {kDualSenseActions, kDualSenseEdgeActions}
  BY DEF PadInv, FindMapping, kMappingSets, kAllowedDevices
<1> HIDE DEF keys
<1>2. OneKeyEach(keys)
  BY <1>1, KeysDiffer
<1>3. OutputsOf(keys, buttons) = {keys[b] : b \in buttons \cap DOMAIN keys}
  BY DEF OutputsOf
<1>4. \A b \in DOMAIN keys : keys[b] \in OutputsOf(keys, buttons) <=> b \in buttons
  BY <1>2, <1>3 DEF OneKeyEach
<1>5. ZoneActions \cap OutputsOf(keys, buttons) = {}
  BY <1>2, <1>3 DEF OneKeyEach
<1> QED BY <1>4, <1>5 DEF keys

LEMMA PadInvSees == PadInv => PcSeesWhatIsHeld
<1> SUFFICES ASSUME PadInv, input.len > 0 PROVE PcSeesWhatIsHeld
  BY DEF PcSeesWhatIsHeld
<1>1. input.len # 0 /\ Idle.len = 64
  BY DEF Idle
<1>2. \A n \in DOMAIN PadControls :
          Says(ParseForGamepad, <<"button", PadControls[n]>>) =
              IF n \in HeldOnPad /\ input.len = 64 THEN 1 ELSE 0
  BY <1>1, ButtonsSeen
<1>3. input.len = 64 =>
          Says(ParseForGamepad, <<"desktop", \h39>>) = IF input.hat = 8 THEN -1 ELSE input.hat
  BY HatSays
<1>4. ASSUME NEW a \in DOMAIN NeutralAxes
      PROVE  Says(ParseForGamepad, AxisUsages[a]) \in
                 IF input.len = 64
                 THEN {(IF backend = "ds4" THEN input.axes ELSE Sanitized(input.axes))[a]}
                 ELSE {0, Sanitized(input.axes)[a], NeutralAxes[a]}
  <2>1. Says(ParseForGamepad, AxisUsages[a]) = GivenAxes[a]
    BY <1>1, AxisSays
  <2>2. input.len = 64 => GivenAxes = IF backend = "ds4" THEN input.axes ELSE Sanitized(input.axes)
    BY DEF GivenAxes
  <2>3. input.len # 64 => GivenAxes \in {input.axes, NeutralAxes}
    BY DEF GivenAxes
  <2>4. input.axes[a] \in {0, Sanitized(input.axes)[a]}
    BY DEF PadInv, Sanitized
  <2> QED BY <2>1, <2>2, <2>3, <2>4
<1>5. LET keys == FindMapping(device.vid, device.pid)
          outputs == OutputsOf(keys, ParseDualSenseButtons)
      IN  /\ \A b \in DOMAIN keys : keys[b] \in outputs <=> b \in ParseDualSenseButtons
          /\ ZoneActions \cap outputs = {}
  BY KeysSay
<1> QED BY <1>1, <1>2, <1>3, <1>4, <1>5 DEF PcSeesWhatIsHeld

LEMMA PadInvBegins == PadInit => PadInv
<1> SUFFICES ASSUME PadInit PROVE PadInv
  OBVIOUS
<1>1. device.vid = "kSonyVid" /\ device.pid \in kAllowedDevices
  BY DEF PadInit, Devices, FindMapping
<1>2. input = [held |-> {}, hat |-> 8, axes |-> NeutralAxes, len |-> 0]
  BY DEF PadInit, Idle
<1>3. NeutralAxes \in [DOMAIN NeutralAxes -> 0 .. 255]
  BY DEF NeutralAxes
<1>4. input.held = {} /\ input.hat = 8 /\ input.axes = NeutralAxes /\ input.len = 0
  BY <1>2
<1>5. backend \in {"stadia", "ds4"}
  BY DEF PadInit
<1> QED BY <1>1, <1>2, <1>3, <1>4, <1>5 DEF PadInv

LEMMA PadInvHolds == PadInv /\ [PadNext]_padVars => PadInv'
<1> SUFFICES ASSUME PadInv, [PadNext]_padVars PROVE PadInv'
  OBVIOUS
<1>0. input = [held |-> input.held, hat |-> input.hat, axes |-> input.axes, len |-> input.len]
  BY DEF PadInv
<1>1. ASSUME NEW now, NEW hat, NEW axes, NEW len,
             Report([held |-> now, hat |-> hat, axes |-> axes, len |-> len]),
             now \subseteq IF IsEdge THEN Controls ELSE Controls \ EdgeControls,
             hat \in 0 .. 8, axes \in [DOMAIN NeutralAxes -> 0 .. 255], len \in {0, 6, 8, 10, 64}
      PROVE  PadInv'
  BY <1>1 DEF Report, PadInv, IsEdge
<1>2. ASSUME NEW c \in IF IsEdge THEN Controls ELSE Controls \ EdgeControls,
             \/ Report([input EXCEPT !.held = @ \cup {c}])
             \/ Report([input EXCEPT !.held = @ \ {c}])
      PROVE  PadInv'
  <2>1. /\ [input EXCEPT !.held = @ \cup {c}] =
               [held |-> input.held \cup {c}, hat |-> input.hat, axes |-> input.axes, len |-> input.len]
        /\ [input EXCEPT !.held = @ \ {c}] =
               [held |-> input.held \ {c}, hat |-> input.hat, axes |-> input.axes, len |-> input.len]
    <3>1. \A x : [input EXCEPT !.held = x] =
                     [held |-> x, hat |-> input.hat, axes |-> input.axes, len |-> input.len]
      BY <1>0
    <3> QED BY <3>1
  <2> QED BY <1>1, <1>2, <2>1 DEF PadInv
<1>3. ASSUME NEW hat \in 0 .. 8, Report([input EXCEPT !.hat = hat]) PROVE PadInv'
  <2>1. [input EXCEPT !.hat = hat] =
            [held |-> input.held, hat |-> hat, axes |-> input.axes, len |-> input.len]
    BY <1>0
  <2> QED BY <1>1, <1>3, <2>1 DEF PadInv
<1>4. ASSUME NEW axes \in Pushes \cup {NeutralAxes}, Report([input EXCEPT !.axes = axes]) PROVE PadInv'
  <2>1. [input EXCEPT !.axes = axes] =
            [held |-> input.held, hat |-> input.hat, axes |-> axes, len |-> input.len]
    BY <1>0
  <2>2. axes \in [DOMAIN NeutralAxes -> 0 .. 255]
    BY DEF Pushes, NeutralAxes
  <2> QED BY <1>1, <1>4, <2>1, <2>2 DEF PadInv
<1>5. ASSUME NEW len \in {6, 8, 10, 64}, Report([input EXCEPT !.len = len]) PROVE PadInv'
  <2>1. [input EXCEPT !.len = len] =
            [held |-> input.held, hat |-> input.hat, axes |-> input.axes, len |-> len]
    BY <1>0
  <2> QED BY <1>1, <1>5, <2>1 DEF PadInv
<1>6. CASE UNCHANGED padVars
  BY <1>6 DEF padVars, PadInv, IsEdge
<1> QED BY <1>2, <1>3, <1>4, <1>5, <1>6 DEF PadNext

\* Whatever is held at once, on any controller the firmware knows and with either
\* gamepad: what the PC reads off the descriptor is what is held (ParseForGamepad,
\* ParseDualSenseButtons, the tables of mapping.h and the descriptors).
THEOREM PcAlwaysSees == PadSpec => []PcSeesWhatIsHeld
BY PadInvBegins, PadInvHolds, PadInvSees, PTL DEF PadSpec

-----------------------------------------------------------------------------
(* UsbLayout: every build and profile is one a PC can use *)

\* The interfaces of a profile in the words of a list, the status interface aside.
Own(m) ==
    CASE m = "kHybrid" -> <<Hid(0, "keyboard", 129), Hid(1, "mouse", 130), Hid(2, "gamepad", 131)>>
      [] m = "kKeyboardMouse" -> <<Hid(0, "keyboard", 129), Hid(1, "mouse", 130)>>
      [] OTHER -> IF Stadia THEN <<HidInOut(0, "gamepad", 2, 129), Hid(1, "config", 131)>>
                  ELSE <<Hid(0, "gamepad", 131)>>

Interfaces(m) == IF build.status THEN Append(Own(m), Hid(Len(Own(m)), "status", 132)) ELSE Own(m)

\* The three descriptors, whatever the build, are that list.
LEMMA InterfacesAre ==
    ASSUME build \in BuildsThereAre, NEW m \in Modes
    PROVE  /\ ConfigurationOf(m).interfaces = Interfaces(m)
           /\ ConfigurationOf(m).total = Len(Interfaces(m))
           /\ Len(Interfaces(m)) \in 1 .. CFG_TUD_HID
           /\ DOMAIN Interfaces(m) = 1 .. Len(Interfaces(m))
  <1> USE DEF Interfaces, Own
  <1> DEFINE c == ConfigurationOf(m)
  <1>1. c.interfaces = Interfaces(m)
    <2> USE DEF ConfigurationOf, kDescConfigHybrid, kDescConfigGamepad, kDescConfigKbm,
          StatusInterface, IsGamepadMode, Modes, kItfKeyboard, kItfMouse, kItfGamepad,
          kItfGamepadConfig, kItfStatusKbm, kItfStatusGamepad, kItfStatusHybrid,
          kEpnKeyboard, kEpnMouse, kEpnGamepad, kEpnStatus, kEpnGamepadOut
    <2>1. CASE ~build.status
      <3>1. c.interfaces = Own(m) \o <<>>
        BY <2>1
      <3>2. Own(m) \o <<>> = Own(m)
        OBVIOUS
      <3> QED BY <2>1, <3>1, <3>2
    <2>2. CASE build.status
      <3>1. c.interfaces = Own(m) \o <<Hid(Len(Own(m)), "status", 132)>>
        BY <2>2
      <3> QED BY <2>2, <3>1
    <2> QED BY <2>1, <2>2
  <1>2. c.total = Len(Interfaces(m)) /\ Len(Interfaces(m)) \in 1 .. CFG_TUD_HID
    <2> USE DEF ConfigurationOf, kDescConfigHybrid, kDescConfigGamepad, kDescConfigKbm,
          IsGamepadMode, Modes, One, kItfHybridTotal, kItfGamepadTotal, kItfKbmTotal, CFG_TUD_HID
    <2>1. CASE m = "kHybrid"
      BY <2>1
    <2>2. CASE m = "kKeyboardMouse"
      BY <2>2
    <2>3. CASE IsGamepadMode(m) /\ Stadia
      BY <2>3
    <2>4. CASE IsGamepadMode(m) /\ ~Stadia
      BY <2>4
    <2> QED BY <2>1, <2>2, <2>3, <2>4
  <1>3. DOMAIN Interfaces(m) = 1 .. Len(Interfaces(m))
    <2>1. DOMAIN Own(m) = 1 .. Len(Own(m))
      <3>1. CASE m = "kHybrid"
        BY <3>1
      <3>2. CASE m = "kKeyboardMouse"
        BY <3>2
      <3>3. CASE m \notin {"kHybrid", "kKeyboardMouse"} /\ Stadia
        <4>1. Own(m) = <<HidInOut(0, "gamepad", 2, 129), Hid(1, "config", 131)>>
          BY <3>3
        <4> HIDE DEF Own
        <4> QED BY <4>1
      <3>4. CASE m \notin {"kHybrid", "kKeyboardMouse"} /\ ~Stadia
        <4>1. Own(m) = <<Hid(0, "gamepad", 131)>>
          BY <3>4
        <4> HIDE DEF Own
        <4> QED BY <4>1
      <3> QED BY <3>1, <3>2, <3>3, <3>4
    <2> HIDE DEF Own
    <2>2. CASE ~build.status
      BY <2>1, <2>2
    <2>3. CASE build.status
      BY <2>3
    <2> QED BY <2>2, <2>3
  <1> QED BY <1>1, <1>2, <1>3

\* The tables of the report descriptors and of the instances agree with the list.
LEMMA DescribedSo ==
    ASSUME build \in BuildsThereAre, NEW m \in Modes, NEW i \in 1 .. Len(Interfaces(m))
    PROVE  /\ Interfaces(m)[i].report = ReportDescriptorOf(m, i - 1)
           /\ Interfaces(m)[i].report \in Outputs \cup {"config"}
           /\ Interfaces(m)[i].number = i - 1
           /\ \A o \in Outputs : Interfaces(m)[i].report = o <=> InstancesFor(m)[o] = i - 1
           /\ Interfaces(m)[i].report = "config" <=> Stadia /\ IsGamepadMode(m) /\ i = 2
           /\ Interfaces(m)[i].report = "status" => i - 1 \in 1 .. 3
           /\ i - 1 \in Instances
  <1> USE DEF Interfaces, Own, ReportDescriptorOf, Outputs, InstancesFor, Instances,
          IsGamepadMode, Modes, Hid, HidInOut, kItfGamepadConfig, kItfStatusKbm,
          kItfStatusGamepad, kItfStatusHybrid, kNoHidInstance, KeyboardInstanceForMode,
          MouseInstanceForMode, GamepadInstanceForMode, StatusInstanceForMode
  <1>1. CASE m = "kHybrid"
    BY <1>1
  <1>2. CASE m = "kKeyboardMouse"
    BY <1>2
  <1>3. CASE m \in {"kGamepad", "kGyroStick"} /\ Stadia
    BY <1>3
  <1>4. CASE m \in {"kGamepad", "kGyroStick"} /\ ~Stadia
    BY <1>4
  <1> QED BY <1>1, <1>2, <1>3, <1>4

\* The length of the n-th interface, none if there is no such.
LengthOf(c, n) == IF n <= c.total THEN c.interfaces[n].length ELSE 0

\* Where the last interface ends, counted from one to the next, is the sum of all.
LEMMA EndsAreSums ==
    ASSUME NEW c, c.total \in 1 .. 4, \A n \in 1 .. 4 : LengthOf(c, n) \in Nat
    PROVE  LET end[i \in 0 .. c.total] ==
                   IF i = 0 THEN TUD_CONFIG_DESC_LEN ELSE end[i - 1] + c.interfaces[i].length
           IN  end[c.total] = TUD_CONFIG_DESC_LEN + LengthOf(c, 1) + LengthOf(c, 2) + LengthOf(c, 3)
                              + LengthOf(c, 4)
  <1> DEFINE N == c.total
             l(n) == LengthOf(c, n)
             IsEnd(e) == e = [i \in 0 .. N |-> IF i = 0 THEN TUD_CONFIG_DESC_LEN
                                               ELSE e[i - 1] + c.interfaces[i].length]
             sum == [i \in 0 .. N |-> CASE i = 0 -> TUD_CONFIG_DESC_LEN
                                        [] i = 1 -> TUD_CONFIG_DESC_LEN + l(1)
                                        [] i = 2 -> TUD_CONFIG_DESC_LEN + l(1) + l(2)
                                        [] i = 3 -> TUD_CONFIG_DESC_LEN + l(1) + l(2) + l(3)
                                        [] OTHER -> TUD_CONFIG_DESC_LEN + l(1) + l(2) + l(3) + l(4)]
  <1>1. N \in 1 .. 4 /\ l(1) \in Nat /\ l(2) \in Nat /\ l(3) \in Nat /\ l(4) \in Nat
    OBVIOUS
  <1>2. \A n \in 1 .. N : c.interfaces[n].length = l(n)
    BY DEF LengthOf
  <1>3. \A n \in 1 .. 4 : n > N => l(n) = 0
    BY DEF LengthOf
  <1>4. IsEnd(sum)
    <2> HIDE DEF l, N
    <2> SUFFICES ASSUME NEW i \in 0 .. N, i # 0 PROVE sum[i] = sum[i - 1] + c.interfaces[i].length
      <3>1. sum = [i \in 0 .. N |-> sum[i]] /\ sum[0] = TUD_CONFIG_DESC_LEN
        BY <1>1
      <3> HIDE DEF sum
      <3> QED BY <3>1
    <2>1. i \in {1, 2, 3, 4} /\ i - 1 \in 0 .. N /\ c.interfaces[i].length = l(i)
      BY <1>1, <1>2
    <2>2. CASE i = 1
      BY <1>1, <2>1, <2>2 DEF TUD_CONFIG_DESC_LEN
    <2>3. CASE i = 2
      BY <1>1, <2>1, <2>3 DEF TUD_CONFIG_DESC_LEN
    <2>4. CASE i = 3
      BY <1>1, <2>1, <2>4 DEF TUD_CONFIG_DESC_LEN
    <2>5. CASE i = 4
      BY <1>1, <2>1, <2>5 DEF TUD_CONFIG_DESC_LEN
    <2> QED BY <2>1, <2>2, <2>3, <2>4, <2>5
  <1> DEFINE end == CHOOSE e : IsEnd(e)
  <1>5. IsEnd(end)
    <2> HIDE DEF IsEnd, sum
    <2> QED BY <1>4
  <1> HIDE DEF end
  <1>6. end[0] = TUD_CONFIG_DESC_LEN /\ \A i \in 1 .. N : end[i] = end[i - 1] + l(i)
    <2> HIDE DEF l, N
    <2>1. 0 \in 0 .. N /\ \A i \in 1 .. N : i \in 0 .. N /\ i # 0
      BY <1>1
    <2> QED BY <1>2, <1>5, <2>1
  <1>7. end[N] = TUD_CONFIG_DESC_LEN + l(1) + l(2) + l(3) + l(4)
    <2> HIDE DEF l, N, IsEnd
    <2>1. end[1] = TUD_CONFIG_DESC_LEN + l(1)
      <3>1. 1 \in 1 .. N /\ 1 - 1 = 0
        BY <1>1
      <3>2. end[1] = end[1 - 1] + l(1)
        BY <1>6, <3>1
      <3> QED BY <1>6, <3>1, <3>2
    <2>2. N >= 2 => end[2] = end[1] + l(2)
      BY <1>1, <1>6
    <2>3. N >= 3 => end[3] = end[2] + l(3)
      BY <1>1, <1>6
    <2>4. N >= 4 => end[4] = end[3] + l(4)
      BY <1>1, <1>6
    <2>5. N \in {1, 2, 3, 4}
      BY <1>1
    <2>6. /\ N < 2 => l(2) = 0
          /\ N < 3 => l(3) = 0
          /\ N < 4 => l(4) = 0
      BY <1>1, <1>3
    <2> QED BY <1>1, <2>1, <2>2, <2>3, <2>4, <2>5, <2>6 DEF TUD_CONFIG_DESC_LEN
  <1> QED BY <1>7 DEF end

\* A PC accepts what tud_descriptor_configuration_cb returns, in any build and profile.
LEMMA EveryConfigurationIsAccepted ==
    ASSUME build \in BuildsThereAre, NEW m \in Modes
    PROVE  Accepted(ConfigurationOf(m))
  <1> DEFINE c == ConfigurationOf(m)
             I == Interfaces(m)
             N == Len(I)
  <1>1. c.interfaces = I /\ c.total = N /\ N \in 1 .. CFG_TUD_HID /\ DOMAIN I = 1 .. N
    BY InterfacesAre
  <1>2. N \in 1 .. 4
    BY <1>1 DEF CFG_TUD_HID, One
  <1>3. \A i \in 1 .. N : I[i].number = i - 1
    BY DescribedSo
  <1> USE DEF Interfaces, Own, Modes, Hid, HidInOut
  <1>4. \A i \in 1 .. N : I[i].endpoints \in {<<129>>, <<130>>, <<131>>, <<132>>, <<2, 129>>}
    <2>1. CASE m = "kHybrid"
      BY <2>1
    <2>2. CASE m = "kKeyboardMouse"
      BY <2>2
    <2>3. CASE m \in {"kGamepad", "kGyroStick"}
      BY <2>3
    <2> QED BY <2>1, <2>2, <2>3
  <1>5. \A i, j \in 1 .. N : i # j =>
            /\ I[i].endpoints # I[j].endpoints
            /\ ~(I[i].endpoints = <<129>> /\ I[j].endpoints = <<2, 129>>)
    <2>1. CASE m = "kHybrid"
      BY <2>1
    <2>2. CASE m = "kKeyboardMouse"
      BY <2>2
    <2>3. CASE m \in {"kGamepad", "kGyroStick"} /\ Stadia
      BY <2>3
    <2>4. CASE m \in {"kGamepad", "kGyroStick"} /\ ~Stadia
      BY <2>4
    <2> QED BY <2>1, <2>2, <2>3, <2>4
  <1>6. c.length = TUD_CONFIG_DESC_LEN + LengthOf(c, 1) + LengthOf(c, 2) + LengthOf(c, 3)
                       + LengthOf(c, 4)
    <2> DEFINE two == IsGamepadMode(m) /\ Stadia
    <2>1. \A i \in 1 .. N : I[i].length = IF i = 1 /\ two THEN 32 ELSE 25
      <3> USE DEF TUD_HID_DESC_LEN, TUD_HID_INOUT_DESC_LEN, IsGamepadMode
      <3>1. CASE m \in {"kHybrid", "kKeyboardMouse"}
        BY <3>1
      <3>2. CASE m \in {"kGamepad", "kGyroStick"} /\ Stadia
        BY <3>2
      <3>3. CASE m \in {"kGamepad", "kGyroStick"} /\ ~Stadia
        BY <3>3
      <3> QED BY <3>1, <3>2, <3>3
    <2>2. c.length = 9 + 25 * c.total + (IF two THEN 7 ELSE 0)
      BY DEF ConfigurationOf, kDescConfigHybrid, kDescConfigGamepad, kDescConfigKbm, One,
         TUD_HID_DESC_LEN, TUD_HID_INOUT_DESC_LEN, TUD_CONFIG_DESC_LEN, IsGamepadMode,
         kItfHybridTotal, kItfGamepadTotal, kItfKbmTotal
    <2> HIDE DEF I, N, c, two
    <2>3. \A n \in 1 .. 4 : LengthOf(c, n) = IF n > N THEN 0 ELSE IF n = 1 /\ two THEN 32 ELSE 25
      BY <1>1, <1>2, <2>1 DEF LengthOf
    <2>4. N \in {1, 2, 3, 4}
      BY <1>2
    <2>5. /\ LengthOf(c, 1) = IF two THEN 32 ELSE 25
          /\ LengthOf(c, 2) = IF N < 2 THEN 0 ELSE 25
          /\ LengthOf(c, 3) = IF N < 3 THEN 0 ELSE 25
          /\ LengthOf(c, 4) = IF N < 4 THEN 0 ELSE 25
      BY <2>3, <2>4
    <2> QED BY <1>1, <2>2, <2>4, <2>5 DEF TUD_CONFIG_DESC_LEN
  <1>7. \A n \in 1 .. 4 : LengthOf(c, n) \in Nat
    <2>1. \A i \in 1 .. N : I[i].length \in Nat
      BY DEF TUD_HID_DESC_LEN, TUD_HID_INOUT_DESC_LEN
    <2> HIDE DEF I, N
    <2> QED BY <1>1, <1>2, <2>1 DEF LengthOf
  <1> HIDE DEF I, N, c
  <1>8. \A i \in 1 .. N : IsInjective(I[i].endpoints)
    BY <1>4 DEF IsInjective
  <1>9. \A i, j \in 1 .. N : i # j => Range(I[i].endpoints) \cap Range(I[j].endpoints) = {}
    <2>1. \A x : Range(<<x>>) = {x}
      <3> SUFFICES ASSUME NEW e PROVE Range(<<e>>) = {e}
        OBVIOUS
      <3>1. DOMAIN <<e>> = {1} /\ <<e>>[1] = e
        OBVIOUS
      <3> QED BY <3>1 DEF Range
    <2>2. Range(<<2, 129>>) = {2, 129}
      <3>1. DOMAIN <<2, 129>> = {1, 2}
        OBVIOUS
      <3> QED BY <3>1 DEF Range
    <2> QED BY <1>4, <1>5, <2>1, <2>2
  <1> DEFINE end[i \in 0 .. c.total] ==
                 IF i = 0 THEN TUD_CONFIG_DESC_LEN ELSE end[i - 1] + c.interfaces[i].length
  <1>10. c.length = end[c.total]
    BY <1>1, <1>2, <1>6, <1>7, EndsAreSums
  <1> HIDE DEF end
  <1>11. Len(c.interfaces) = c.total /\ c.total <= CFG_TUD_HID
    BY <1>1 DEF CFG_TUD_HID, One
  <1>12. Accepted(c) <=>
            /\ Len(c.interfaces) = c.total /\ c.total <= CFG_TUD_HID
            /\ \A i \in 1 .. c.total :
                   c.interfaces[i].number = i - 1 /\ IsInjective(c.interfaces[i].endpoints)
            /\ c.length = end[c.total]
            /\ \A i, j \in 1 .. c.total : i # j =>
                   Range(c.interfaces[i].endpoints) \cap Range(c.interfaces[j].endpoints) = {}
    BY DEF Accepted, end
  <1>13. Accepted(c)
    BY <1>1, <1>3, <1>8, <1>9, <1>10, <1>11, <1>12
  <1> QED BY <1>13 DEF c

\* An output there is has an interface.
LEMMA InstancesAreKnown ==
    ASSUME build \in BuildsThereAre, NEW m \in Modes, NEW o \in Outputs
    PROVE  InstancesFor(m)[o] # kNoHidInstance => InstancesFor(m)[o] \in 0 .. Len(Interfaces(m)) - 1
  <1>1. Len(Interfaces(m)) = ConfigurationOf(m).total
    BY InterfacesAre
  <1>2. ConfigurationOf(m).total = CASE m = "kHybrid" -> kItfHybridTotal
                                     [] IsGamepadMode(m) -> kItfGamepadTotal
                                     [] OTHER -> kItfKbmTotal
    <2>1. /\ kDescConfigHybrid.total = kItfHybridTotal /\ kDescConfigKbm.total = kItfKbmTotal
          /\ kDescConfigGamepad.total = kItfGamepadTotal
      BY DEF kDescConfigHybrid, kDescConfigGamepad, kDescConfigKbm
    <2> QED BY <2>1 DEF ConfigurationOf
  <1>3. InstancesFor(m)[o] # kNoHidInstance =>
            InstancesFor(m)[o] \in 0 .. ConfigurationOf(m).total - 1
    <2> USE DEF kItfHybridTotal, kItfGamepadTotal, kItfKbmTotal, One, IsGamepadMode, Modes,
            kItfStatusKbm, kItfStatusGamepad, kItfStatusHybrid, kNoHidInstance
    <2>1. CASE o = "keyboard"
      BY <1>2, <2>1 DEF InstancesFor, KeyboardInstanceForMode
    <2>2. CASE o = "mouse"
      BY <1>2, <2>2 DEF InstancesFor, MouseInstanceForMode
    <2>3. CASE o = "gamepad"
      BY <1>2, <2>3 DEF InstancesFor, GamepadInstanceForMode
    <2>4. CASE o = "status"
      <3>1. InstancesFor(m)[o] = StatusInstanceForMode(m)
        BY <2>4 DEF InstancesFor
      <3>2. CASE ~build.status
        BY <3>1, <3>2 DEF StatusInstanceForMode
      <3>3. CASE build.status /\ m = "kHybrid"
        BY <1>2, <3>1, <3>3 DEF StatusInstanceForMode
      <3>4. CASE build.status /\ m # "kHybrid"
        BY <1>2, <3>1, <3>4 DEF StatusInstanceForMode
      <3> QED BY <3>2, <3>3, <3>4
    <2> QED BY <2>1, <2>2, <2>3, <2>4 DEF Outputs
  <1> QED BY <1>1, <1>3

\* What the PC has read is what the firmware of this build and profile says, what
\* it was sent came from the instance of its output, and what it was answered is
\* true: until the next boot, when it knows nothing.
ReadSoFar ==
    \A i \in Instances : described[i] # "unread" =>
        i \in Known /\ described[i] = ReportDescriptorOf(mode, i)

SentSoFar ==
    \A r \in received :
        /\ r.output \in Outputs /\ r.on = instance[r.output]
        /\ r.id = Sent[r.output].id /\ r.bytes = Sent[r.output].bytes
        /\ r.on \in Known /\ described[r.on] # "unread"

AnsweredSoFar ==
    \A a \in answered :
        a.on \in Known /\ a.answer = (HasStadiaConfigInterface /\ a.on = kItfGamepadConfig)

LayoutInv ==
    /\ build \in BuildsThereAre
    /\ configuration \in {{}, {ConfigurationOf(mode)}}
    /\ mode = "off" => configuration = {}
    /\ instance = IF mode = "off" THEN [o \in Outputs |-> kNoHidInstance] ELSE InstancesFor(mode)
    /\ ReadSoFar /\ SentSoFar /\ AnsweredSoFar

\* What the PC knows of once it has read a configuration.
LEMMA KnownIs ==
    ASSUME LayoutTypeOK, LayoutInv, NEW c \in configuration
    PROVE  /\ mode \in Modes
           /\ c = ConfigurationOf(mode)
           /\ c.interfaces = Interfaces(mode)
           /\ Known = 0 .. Len(Interfaces(mode)) - 1
           /\ \A i \in Known : i + 1 \in 1 .. Len(Interfaces(mode)) /\ (i + 1) - 1 = i
           /\ Len(Interfaces(mode)) \in Nat
           /\ instance = InstancesFor(mode)
  <1>1. /\ mode \in Modes /\ c = ConfigurationOf(mode) /\ configuration = {c}
        /\ instance = InstancesFor(mode)
    BY DEF LayoutTypeOK, LayoutInv
  <1>2. c.interfaces = Interfaces(mode) /\ Len(Interfaces(mode)) \in 1 .. CFG_TUD_HID
    BY <1>1, InterfacesAre DEF LayoutInv
  <1>3. Known = 0 .. Len(Interfaces(mode)) - 1
    BY <1>1, <1>2 DEF Known
  <1>4. Len(Interfaces(mode)) \in Nat
    BY <1>2 DEF CFG_TUD_HID, One
  <1> QED BY <1>1, <1>2, <1>3, <1>4

\* No more interfaces than there are instances.
LEMMA KnownAreInstances ==
    ASSUME LayoutTypeOK, LayoutInv
    PROVE  Known \subseteq Instances
  <1> SUFFICES ASSUME NEW i \in Known PROVE i \in Instances
    OBVIOUS
  <1>1. PICK c \in configuration : TRUE
    BY DEF Known
  <1>2. mode \in Modes /\ i + 1 \in 1 .. Len(Interfaces(mode)) /\ (i + 1) - 1 = i
    BY <1>1, KnownIs
  <1>3. (i + 1) - 1 \in Instances
    BY <1>2, DescribedSo DEF LayoutInv
  <1> QED BY <1>2, <1>3

\* Reading a report descriptor leaves none unread.
LEMMA ReadIsRead == \A m, i : ReportDescriptorOf(m, i) # "unread"
  BY DEF ReportDescriptorOf

\* What depends on the build and the profile alone.
LEMMA FirmwareStays ==
    ASSUME build' = build, mode' = mode
    PROVE  /\ ConfigurationOf(mode)' = ConfigurationOf(mode)
           /\ InstancesFor(mode)' = InstancesFor(mode)
           /\ \A i : ReportDescriptorOf(mode, i)' = ReportDescriptorOf(mode, i)
           /\ Sent' = Sent
           /\ HasStadiaConfigInterface' = HasStadiaConfigInterface
  <1> USE DEF IsGamepadMode, kItfStatusHybrid, kItfStatusGamepad, kItfStatusKbm, Stadia
  <1>1. ConfigurationOf(mode)' = ConfigurationOf(mode)
    BY DEF ConfigurationOf, kDescConfigHybrid, kDescConfigGamepad, kDescConfigKbm, One,
         kItfHybridTotal, kItfGamepadTotal, kItfKbmTotal, StatusInterface
  <1>2. InstancesFor(mode)' = InstancesFor(mode)
    BY DEF InstancesFor, KeyboardInstanceForMode, MouseInstanceForMode,
           GamepadInstanceForMode, StatusInstanceForMode
  <1>3. \A i : ReportDescriptorOf(mode, i)' = ReportDescriptorOf(mode, i)
    BY DEF ReportDescriptorOf
  <1>4. Sent' = Sent /\ HasStadiaConfigInterface' = HasStadiaConfigInterface
    BY DEF Sent, HasStadiaConfigInterface
  <1> QED BY <1>1, <1>2, <1>3, <1>4

\* Every step of the PC and of the firmware keeps the invariant.
LEMMA LayoutInvStep == LayoutTypeOK /\ LayoutInv /\ [LayoutNext]_layoutVars => LayoutInv'
  <1> SUFFICES ASSUME LayoutTypeOK, LayoutInv, [LayoutNext]_layoutVars PROVE LayoutInv'
    OBVIOUS
  <1> USE DEF LayoutInv
  <1>1. ASSUME NEW m \in Modes, Boot(m) PROVE LayoutInv'
    <2>1. m # "off"
      BY DEF Modes
    <2>2. InstancesFor(m)' = InstancesFor(m)
      BY <1>1 DEF Boot, InstancesFor, KeyboardInstanceForMode, MouseInstanceForMode,
             GamepadInstanceForMode, StatusInstanceForMode, IsGamepadMode, kItfStatusHybrid,
             kItfStatusGamepad, kItfStatusKbm, Stadia
    <2>3. instance' = InstancesFor(mode)' /\ mode' # "off" /\ configuration' = {} /\ build' = build
      BY <1>1, <2>1, <2>2 DEF Boot
    <2>4. ReadSoFar' /\ SentSoFar' /\ AnsweredSoFar'
      BY <1>1 DEF Boot, ReadSoFar, SentSoFar, AnsweredSoFar
    <2> QED BY <2>3, <2>4
  <1>2. ASSUME ReadConfiguration PROVE LayoutInv'
    <2>1. build' = build /\ mode' = mode /\ instance' = instance /\ mode # "off"
          /\ configuration' = {ConfigurationOf(mode)}
          /\ UNCHANGED <<described, received, answered>>
      BY <1>2 DEF ReadConfiguration
    <2>2. Known \subseteq Known'
      BY <2>1 DEF Known
    <2> QED BY <2>1, <2>2, FirmwareStays DEF ReadSoFar, SentSoFar, AnsweredSoFar
  <1>3. ASSUME NEW i \in Instances, ReadReportDescriptor(i) PROVE LayoutInv'
    <2>1. build' = build /\ mode' = mode /\ instance' = instance /\ configuration' = configuration
          /\ i \in Known /\ UNCHANGED <<received, answered>>
          /\ described' = [described EXCEPT ![i] = ReportDescriptorOf(mode, i)]
      BY <1>3 DEF ReadReportDescriptor
    <2>2. Known' = Known
      BY <2>1 DEF Known
    <2>3. ReadSoFar'
      BY <2>1, <2>2, FirmwareStays DEF ReadSoFar, LayoutTypeOK
    <2>4. SentSoFar'
      <3>1. \A j \in Instances : described[j] # "unread" => described'[j] # "unread"
        BY <2>1, ReadIsRead DEF LayoutTypeOK
      <3> QED BY <2>1, <2>2, <3>1, KnownAreInstances, FirmwareStays DEF SentSoFar
    <2> QED BY <2>1, <2>2, <2>3, <2>4, FirmwareStays DEF AnsweredSoFar
  <1>4. ASSUME NEW i \in Instances, GetReport(i) PROVE LayoutInv'
    <2>1. build' = build /\ mode' = mode /\ instance' = instance /\ configuration' = configuration
          /\ i \in Known /\ UNCHANGED <<received, described>>
          /\ answered' = {[on |-> i, answer |-> HasStadiaConfigInterface /\ i = kItfGamepadConfig]}
      BY <1>4 DEF GetReport
    <2>2. Known' = Known
      BY <2>1 DEF Known
    <2>3. AnsweredSoFar'
      BY <2>1, <2>2, FirmwareStays DEF AnsweredSoFar
    <2> QED BY <2>1, <2>2, <2>3, FirmwareStays DEF ReadSoFar, SentSoFar
  <1>5. ASSUME NEW o \in Outputs, Send(o) PROVE LayoutInv'
    <2>1. build' = build /\ mode' = mode /\ instance' = instance /\ configuration' = configuration
          /\ UNCHANGED <<described, answered>>
          /\ instance[o] \in Known /\ described[instance[o]] # "unread"
          /\ received' = {[on |-> instance[o], output |-> o, id |-> Sent[o].id,
                            bytes |-> Sent[o].bytes]}
      BY <1>5 DEF Send
    <2>2. Known' = Known
      BY <2>1 DEF Known
    <2>3. SentSoFar'
      BY <2>1, <2>2, FirmwareStays DEF SentSoFar
    <2> QED BY <2>1, <2>2, <2>3, FirmwareStays DEF ReadSoFar, AnsweredSoFar
  <1>6. ASSUME UNCHANGED layoutVars PROVE LayoutInv'
    <2>1. build' = build /\ mode' = mode /\ instance' = instance /\ configuration' = configuration
          /\ UNCHANGED <<described, received, answered>>
      BY <1>6 DEF layoutVars, pc
    <2>2. Known' = Known
      BY <2>1 DEF Known
    <2> QED BY <2>1, <2>2, FirmwareStays DEF ReadSoFar, SentSoFar, AnsweredSoFar
  <1> QED BY <1>1, <1>2, <1>3, <1>4, <1>5, <1>6 DEF LayoutNext

\* Every step keeps the types.
LEMMA LayoutTypeStep == LayoutTypeOK /\ LayoutInv /\ [LayoutNext]_layoutVars => LayoutTypeOK'
  <1> SUFFICES ASSUME LayoutTypeOK, LayoutInv, [LayoutNext]_layoutVars PROVE LayoutTypeOK'
    OBVIOUS
  <1> USE DEF LayoutTypeOK
  <1>0. Cardinality({}) = 0 /\ \A x : Cardinality({x}) = 1
    BY FS_EmptySet, FS_Singleton
  <1>1. ASSUME NEW m \in Modes, Boot(m) PROVE LayoutTypeOK'
    <2>1. InstancesFor(m) \in [Outputs -> Instances \cup {kNoHidInstance}]
      BY DEF InstancesFor, KeyboardInstanceForMode, MouseInstanceForMode, kNoHidInstance,
             GamepadInstanceForMode, StatusInstanceForMode, kItfStatusHybrid,
             kItfStatusGamepad, kItfStatusKbm, Outputs, Instances
    <2>2. m \in Modes'
      BY <1>1 DEF Boot, Modes
    <2> QED BY <1>0, <1>1, <2>1, <2>2 DEF Boot
  <1>2. ASSUME ReadConfiguration PROVE LayoutTypeOK'
    <2>1. /\ configuration' = {ConfigurationOf(mode)}
          /\ UNCHANGED <<build, mode, instance, described, received, answered>>
      BY <1>2 DEF ReadConfiguration
    <2>2. Cardinality(configuration') = 1
      BY <1>0, <2>1
    <2> QED BY <2>1, <2>2 DEF Modes
  <1>3. ASSUME NEW i \in Instances, ReadReportDescriptor(i) PROVE LayoutTypeOK'
    <2>1. \A m, j : ReportDescriptorOf(m, j) \in {"unread", "nullptr"} \cup Outputs \cup {"config"}
      BY DEF ReportDescriptorOf, Outputs
    <2> QED BY <1>3, <2>1 DEF ReadReportDescriptor, Modes
  <1>4. ASSUME NEW i \in Instances, GetReport(i) PROVE LayoutTypeOK'
    <2>1. UNCHANGED <<build, mode, instance, configuration, described, received>>
      BY <1>4 DEF GetReport
    <2>2. Cardinality(answered') = 1
      BY <1>0, <1>4 DEF GetReport
    <2> QED BY <2>1, <2>2 DEF Modes
  <1>5. ASSUME NEW o \in Outputs, Send(o) PROVE LayoutTypeOK'
    <2>1. UNCHANGED <<build, mode, instance, configuration, described, answered>>
      BY <1>5 DEF Send
    <2>2. Cardinality(received') = 1
      BY <1>0, <1>5 DEF Send
    <2> QED BY <2>1, <2>2 DEF Modes
  <1>6. ASSUME UNCHANGED layoutVars PROVE LayoutTypeOK'
    BY <1>6 DEF layoutVars, pc, Modes
  <1> QED BY <1>1, <1>2, <1>3, <1>4, <1>5, <1>6 DEF LayoutNext

\* Before power up nothing is known.
LEMMA LayoutStarts == LayoutInit => LayoutTypeOK /\ LayoutInv
  <1> SUFFICES ASSUME LayoutInit PROVE LayoutTypeOK /\ LayoutInv
    OBVIOUS
  <1> USE DEF LayoutInit
  <1>1. LayoutTypeOK
    <2>1. Cardinality({}) = 0
      BY FS_EmptySet
    <2> QED BY <2>1 DEF LayoutTypeOK, Outputs, Instances
  <1>2. LayoutInv
    BY BuildsAssumption DEF LayoutInv, ReadSoFar, SentSoFar, AnsweredSoFar
  <1> QED BY <1>1, <1>2

\* Every variable keeps its type: an output has an instance there is or none, and the
\* PC reads nothing but descriptors (tud_hid_descriptor_report_cb, device_out::Init).
THEOREM LayoutKeepsTypes == LayoutSpec => []LayoutTypeOK
  BY LayoutStarts, LayoutTypeStep, LayoutInvStep, PTL DEF LayoutSpec

\* Both hold always.
LEMMA LayoutAlways == LayoutSpec => [](LayoutTypeOK /\ LayoutInv)
  BY LayoutStarts, LayoutTypeStep, LayoutInvStep, PTL DEF LayoutSpec

\* A PC in such a state has been offered what there is.
LEMMA EnumeratesThen == LayoutTypeOK /\ LayoutInv => Enumerates
  <1> SUFFICES ASSUME LayoutTypeOK, LayoutInv PROVE Enumerates
    OBVIOUS
  <1>1. WellFormed
    BY KnownIs, EveryConfigurationIsAccepted DEF WellFormed, LayoutInv
  <1> SUFFICES ASSUME NEW c \in configuration
               PROVE  /\ \A i \in Known : described[i] \in {"unread", c.interfaces[i + 1].report}
                      /\ \A o \in Outputs : {i \in Known : c.interfaces[i + 1].report = o}
                                            = {instance[o]} \ {kNoHidInstance}
    BY <1>1 DEF Enumerates, DescribedAsConfigured, OffersWhatItHas
  <1> DEFINE I == Interfaces(mode)
  <1>2. /\ mode \in Modes /\ c.interfaces = I /\ Known = 0 .. Len(I) - 1 /\ Len(I) \in Nat
        /\ instance = InstancesFor(mode) /\ build \in BuildsThereAre
    BY KnownIs DEF LayoutInv
  <1>3. ASSUME NEW i \in Known
        PROVE  /\ I[i + 1].report = ReportDescriptorOf(mode, i)
               /\ \A o \in Outputs : I[i + 1].report = o <=> instance[o] = i
    <2>1. i + 1 \in 1 .. Len(I) /\ (i + 1) - 1 = i
      BY KnownIs
    <2> QED BY <1>2, <2>1, DescribedSo
  <1>4. \A i \in Known : described[i] \in {"unread", c.interfaces[i + 1].report}
    BY <1>2, <1>3, KnownAreInstances DEF LayoutInv, ReadSoFar
  <1>5. ASSUME NEW o \in Outputs
        PROVE  {i \in Known : c.interfaces[i + 1].report = o} = {instance[o]} \ {kNoHidInstance}
    <2>1. \A i \in Known : i # kNoHidInstance
      BY KnownAreInstances DEF Instances, kNoHidInstance
    <2>2. instance[o] # kNoHidInstance => instance[o] \in Known
      BY <1>2, InstancesAreKnown
    <2> QED BY <1>2, <1>3, <2>1, <2>2
  <1> QED BY <1>4, <1>5

\* What it has been told so far is what was described to it.
LEMMA SpeaksThen == LayoutTypeOK /\ LayoutInv => SpeaksAsDescribed
  <1> SUFFICES ASSUME LayoutTypeOK, LayoutInv PROVE SpeaksAsDescribed
    OBVIOUS
  <1>1. ASSUME NEW r \in received
        PROVE  /\ described[r.on] = r.output
               /\ r.output = "status" => r.on \in 1 .. 3
               /\ r.output \in Outputs
               /\ r.id = Sent[r.output].id /\ r.bytes = Sent[r.output].bytes
    <2>1. /\ r.output \in Outputs /\ r.on = instance[r.output] /\ r.on \in Known
          /\ described[r.on] # "unread"
          /\ r.id = Sent[r.output].id /\ r.bytes = Sent[r.output].bytes
      BY DEF LayoutInv, SentSoFar
    <2>2. PICK c \in configuration : TRUE
      BY <2>1 DEF Known
    <2>3. /\ mode \in Modes /\ instance = InstancesFor(mode) /\ build \in BuildsThereAre
          /\ r.on + 1 \in 1 .. Len(Interfaces(mode)) /\ (r.on + 1) - 1 = r.on
      BY <2>1, <2>2, KnownIs DEF LayoutInv
    <2> DEFINE f == Interfaces(mode)[r.on + 1]
    <2>4. /\ f.report = ReportDescriptorOf(mode, r.on)
          /\ \A o \in Outputs : f.report = o <=> InstancesFor(mode)[o] = r.on
          /\ f.report = "status" => r.on \in 1 .. 3
      BY <2>3, DescribedSo
    <2>5. f.report = r.output
      BY <2>1, <2>3, <2>4
    <2>6. described[r.on] = ReportDescriptorOf(mode, r.on)
      BY <2>1, KnownAreInstances DEF LayoutInv, ReadSoFar
    <2> QED BY <2>1, <2>4, <2>5, <2>6
  <1>2. \A o \in Outputs :
            /\ Declared[o].id = Sent[o].id /\ Declared[o].bits = 8 * Sent[o].bytes
            /\ (1 + Sent[o].bytes = 63 \/ (1 + Sent[o].bytes >= 64 /\ Sent[o].id = 126))
                   <=> o = "status"
    BY DEF Declared, Sent, Outputs
  <1>3. SentAsDescribed
    BY <1>1, <1>2 DEF SentAsDescribed
  <1>4. ConfigAnswers
    <2> SUFFICES ASSUME NEW a \in answered, NEW c \in configuration
                 PROVE  a.answer <=> c.interfaces[a.on + 1].report = "config"
      BY DEF ConfigAnswers
    <2>1. /\ a.on \in Known
          /\ a.answer = (HasStadiaConfigInterface /\ a.on = kItfGamepadConfig)
      BY DEF LayoutInv, AnsweredSoFar
    <2> DEFINE i == a.on + 1
    <2>2. /\ mode \in Modes /\ build \in BuildsThereAre /\ c.interfaces = Interfaces(mode)
          /\ i \in 1 .. Len(Interfaces(mode))
      BY <2>1, KnownIs DEF LayoutInv
    <2>4. i = 2 <=> a.on = 1
      BY <2>1, KnownAreInstances DEF Instances
    <2> HIDE DEF i
    <2>3. c.interfaces[i].report = "config" <=> Stadia /\ IsGamepadMode(mode) /\ i = 2
      BY <2>2, DescribedSo
    <2> USE DEF i
    <2> QED BY <2>1, <2>3, <2>4 DEF HasStadiaConfigInterface, kItfGamepadConfig
  <1>5. BridgeReadsStatus
    <2> SUFFICES ASSUME NEW r \in received, NEW usageKnown \in BOOLEAN
                 PROVE  /\ r.output = "status" =>
                               isStatusCandidate(r.on, described[r.on], usageKnown)
                        /\ TakenForStatus(r) <=> r.output = "status"
      BY DEF BridgeReadsStatus
    <2>1. r.output = "status" => isStatusCandidate(r.on, described[r.on], usageKnown)
      BY <1>1 DEF isStatusCandidate, statusInterfaces
    <2>2. TakenForStatus(r) <=> r.output = "status"
      BY <1>1, <1>2 DEF TakenForStatus
    <2> QED BY <2>1, <2>2
  <1> QED BY <1>3, <1>4, <1>5 DEF SpeaksAsDescribed

\* Whichever builds there are, a PC accepts the configuration of every profile, reads the
\* report descriptors promised there and is offered the outputs there are, however
\* profiles are switched while it reads (usb_descriptors.cc, usb_layout.h, device_out.cc).
THEOREM EveryBuildEnumerates == LayoutSpec => []Enumerates
  BY LayoutAlways, EnumeratesThen, PTL

\* And every report it is sent, and every answer, is what the interface it comes on was
\* described to say; the bridge takes none but the status report for one (SendKeyboard
\* and the others, tud_hid_get_report_cb, isStatusCandidate and statusPayload).
THEOREM EveryBuildSpeaksAsDescribed == LayoutSpec => []SpeaksAsDescribed
  BY LayoutAlways, SpeaksThen, PTL
=============================================================================
