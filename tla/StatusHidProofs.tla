-------------------------- MODULE StatusHidProofs ---------------------------
(***************************************************************************)
(* What StatusHid promises, for every clock, interval, width of the        *)
(* sequence number and set of inputs; and that what StatusTiming measures  *)
(* is what happened, for every threshold and capacity of a counter.        *)
(***************************************************************************)
EXTENDS StatusTiming, Integers, TLAPS

\* The clock never tells more time since the last report than has passed.
AgeIsTrue == sinceSend >= Elapsed(lastSend, now)

\* A payload without a controller is empty.
PayloadIsTrue == ~connected => input = NoInput

\* The number after n, unless the numbers start again.
Following(again, n) == (IF again THEN 1 ELSE n + 1) % SequenceSize

\* What the PC, the endpoint and the payload number follows one from the other.
NumbersFollow ==
    /\ \A a, b \in endpoint : a = b
    /\ \A a, b \in reader : a = b
    /\ renewed => sequence = 0
    /\ ~renewed => \A e \in endpoint : sequence = e.sequence
    /\ \A r \in reader, e \in endpoint : e.sequence = Following(restarted, r.sequence)
    /\ endpoint = {} /\ ~renewed => \A r \in reader : sequence = r.sequence

Inductive == TypeOK /\ AgeIsTrue /\ PayloadIsTrue /\ NothingIsLeftBehind /\ NumbersFollow

-----------------------------------------------------------------------------

\* A remainder by the clock's size is a time.
LEMMA Remainder ==
    ASSUME NEW C \in Nat \ {0}, NEW n \in Int
    PROVE  n % C \in 0 .. C - 1
BY SMT

\* Time elapsed on the clock, without the remainder.
LEMMA ElapsedIs ==
    ASSUME NEW since \in 0 .. ClockSize - 1, NEW until \in 0 .. ClockSize - 1
    PROVE  Elapsed(since, until) = IF until >= since THEN until - since
                                   ELSE until + ClockSize - since
<1> ClockSize \in Nat \ {0}
    BY StatusAssumption
<1> QED
    BY SMT DEF Elapsed

\* A pass of d ticks adds at most d to the time elapsed.
LEMMA ElapsedGrows ==
    ASSUME NEW since \in 0 .. ClockSize - 1, NEW until \in 0 .. ClockSize - 1,
           NEW d \in 0 .. MaxPass
    PROVE  LET later == (until + d) % ClockSize
           IN  /\ later \in 0 .. ClockSize - 1
               /\ Elapsed(since, later) <= Elapsed(since, until) + d
               /\ Elapsed(since, later) < ClockSize
<1> DEFINE later == (until + d) % ClockSize
<1>1. ClockSize \in Nat \ {0} /\ MaxPass \in Nat /\ MaxPass < ClockSize
    BY StatusAssumption
<1>2. later = IF until + d < ClockSize THEN until + d ELSE until + d - ClockSize
    BY <1>1
<1>3. later \in 0 .. ClockSize - 1
    BY <1>1, <1>2
<1> HIDE DEF later
<1>4. Elapsed(since, later) = IF later >= since THEN later - since
                              ELSE later + ClockSize - since
    BY <1>3, ElapsedIs
<1>5. Elapsed(since, until) = IF until >= since THEN until - since
                              ELSE until + ClockSize - since
    BY ElapsedIs
<1>6. Elapsed(since, later) <= Elapsed(since, until) + d /\ Elapsed(since, later) < ClockSize
    BY <1>1, <1>2, <1>3, <1>4, <1>5
<1> QED
    BY <1>3, <1>6 DEF later

\* Nothing is wrong at first.
LEMMA InitInductive == Init => Inductive
<1> SUFFICES ASSUME Init PROVE Inductive
    OBVIOUS
<1>1. ClockSize \in Nat \ {0} /\ SequenceSize \in Nat \ {0} /\ MaxPass \in Nat
    BY StatusAssumption
<1>2. TypeOK
    <2>1. 0 \in 0 .. ClockSize - 1 /\ 0 \in 0 .. SequenceSize - 1 /\ 0 \in 0 .. MaxPass
          /\ 0 \in 0 .. ClockSize
        BY <1>1
    <2> QED
        BY <2>1 DEF Init, TypeOK
<1>3. AgeIsTrue
    BY <1>1, ElapsedIs DEF Init, AgeIsTrue
<1> QED
    BY <1>2, <1>3 DEF Inductive, Init, PayloadIsTrue, NothingIsLeftBehind, NumbersFollow

\* Passing time keeps the clock's side of the invariant.
LEMMA PassKeeps ==
    ASSUME TypeOK, AgeIsTrue, NEW d \in 0 .. MaxPass, Pass(d), UNCHANGED lastSend
    PROVE  /\ now' \in 0 .. ClockSize - 1 /\ passed' \in 0 .. MaxPass
           /\ sinceSend' \in 0 .. ClockSize
           /\ AgeIsTrue'
<1>1. ClockSize \in Nat \ {0} /\ MaxPass \in Nat
    BY StatusAssumption
<1>2. /\ now \in 0 .. ClockSize - 1 /\ lastSend \in 0 .. ClockSize - 1
      /\ passed \in 0 .. MaxPass /\ sinceSend \in 0 .. ClockSize
    BY DEF TypeOK
<1>3. /\ now' \in 0 .. ClockSize - 1
      /\ Elapsed(lastSend, now') <= Elapsed(lastSend, now) + d
      /\ Elapsed(lastSend, now') < ClockSize
    BY <1>2, ElapsedGrows DEF Pass
<1>4. sinceSend' = IF sinceSend + d > ClockSize THEN ClockSize ELSE sinceSend + d
    BY DEF Pass, Capped
<1>5. Elapsed(lastSend, now) \in Int /\ Elapsed(lastSend, now') \in Int
    BY <1>1, <1>2, <1>3 DEF Elapsed
<1>6. passed' \in 0 .. MaxPass /\ sinceSend' \in 0 .. ClockSize
    BY <1>1, <1>2, <1>4 DEF Pass
<1>7. sinceSend' >= Elapsed(lastSend, now')
    BY <1>1, <1>2, <1>3, <1>4, <1>5 DEF AgeIsTrue
<1>8. AgeIsTrue'
    BY <1>7 DEF AgeIsTrue, Elapsed
<1> QED
    BY <1>3, <1>6, <1>8

\* An accepted report follows what the PC has read.
LEMMA AcceptedFollows ==
    ASSUME TypeOK, NumbersFollow, endpoint = {}, NEW r \in reader
    PROVE  NextSequence = Following(renewed, r.sequence)
BY DEF NumbersFollow, NextSequence, Following

\* Every step keeps the invariant.
LEMMA StepInductive == Inductive /\ [Next]_statusVars => Inductive'
<1> SUFFICES ASSUME Inductive, [Next]_statusVars PROVE Inductive'
    OBVIOUS
<1> USE DEF payload, pc, clocks, changes, statusVars
<1>a. TypeOK /\ AgeIsTrue /\ PayloadIsTrue /\ NothingIsLeftBehind /\ NumbersFollow
    BY DEF Inductive
<1>b. /\ ClockSize \in Nat \ {0} /\ SequenceSize \in Nat \ {0} /\ MaxPass \in Nat \ {0}
      /\ NoInput \notin Inputs
    BY StatusAssumption
<1>1. CASE Tick
    <2>1. 1 \in 0 .. MaxPass
        BY <1>b
    <2>2. /\ now' \in 0 .. ClockSize - 1 /\ passed' \in 0 .. MaxPass
          /\ sinceSend' \in 0 .. ClockSize /\ AgeIsTrue'
        BY <1>a, <1>1, <2>1, PassKeeps DEF Tick
    <2>3. TypeOK'
        BY <1>a, <1>1, <2>2 DEF Tick, TypeOK, Reports
    <2> QED
        BY <1>a, <1>1, <2>2, <2>3
           DEF Tick, Inductive, PayloadIsTrue, NothingIsLeftBehind, NumbersFollow
<1>2. ASSUME NEW x \in Inputs \cup {NoInput}, NEW d \in 0 .. MaxPass, ReportReceived(x, d)
      PROVE  Inductive'
    <2>1. /\ now' \in 0 .. ClockSize - 1 /\ passed' \in 0 .. MaxPass
          /\ sinceSend' \in 0 .. ClockSize /\ AgeIsTrue'
        BY <1>a, <1>2, PassKeeps DEF ReportReceived
    <2>2. TypeOK'
        BY <1>a, <1>2, <2>1 DEF ReportReceived, TypeOK, Reports
    <2> QED
        BY <1>a, <1>2, <2>1, <2>2
           DEF ReportReceived, Inductive, PayloadIsTrue, NothingIsLeftBehind, NumbersFollow
<1>3. ASSUME SetConnected \/ SetDisconnected PROVE Inductive'
    <2>1. /\ input' = NoInput /\ sequence' = 0 /\ connected' \in BOOLEAN
          /\ renewed' = TRUE /\ UNCHANGED <<lastSend, pc, clocks, restarted>>
        BY <1>3 DEF SetConnected, SetDisconnected, ResetPayload
    <2>2. TypeOK'
        BY <1>a, <1>b, <2>1 DEF TypeOK, Reports
    <2>3. AgeIsTrue'
        BY <1>a, <2>1 DEF AgeIsTrue, Elapsed
    <2> QED
        BY <1>a, <2>1, <2>2, <2>3 DEF Inductive, PayloadIsTrue, NothingIsLeftBehind, NumbersFollow
<1>4. CASE Task
    <2>1. CASE UNCHANGED <<sequence, lastSend, endpoint, sinceSend, changes>>
        <3>1. TypeOK'
            BY <1>a, <1>b, <1>4, <2>1 DEF Task, TypeOK, Reports
        <3>2. AgeIsTrue'
            BY <1>a, <1>4, <2>1 DEF Task, AgeIsTrue, Elapsed
        <3> QED
            BY <1>a, <1>4, <2>1, <3>1, <3>2
               DEF Task, Inductive, PayloadIsTrue, NothingIsLeftBehind, NumbersFollow
    <2>2. CASE Accepted
        <3> DEFINE report == [connected |-> connected, input |-> input, sequence |-> NextSequence]
        <3>1. /\ endpoint = {} /\ endpoint' = {report} /\ sequence' = NextSequence
              /\ lastSend' = now /\ sinceSend' = 0
              /\ now' = now /\ passed' = 0 /\ connected' = connected /\ input' = input
              /\ ready' = ready /\ reader' = reader
              /\ restarted' = renewed /\ renewed' = FALSE
            BY <1>4, <2>2 DEF Accepted, Task
        <3>2. NextSequence \in 0 .. SequenceSize - 1
            BY <1>a, <1>b, Remainder DEF NextSequence, TypeOK
        <3>3. report \in Reports
            BY <1>a, <3>2 DEF Reports, TypeOK
        <3>4. TypeOK'
            <4>1. renewed' \in BOOLEAN /\ restarted' \in BOOLEAN
                BY <1>a, <3>1 DEF TypeOK
            <4>2. endpoint' \subseteq Reports /\ reader' \subseteq Reports
                BY <1>a, <3>1, <3>3 DEF TypeOK, Reports
            <4>3. /\ now' \in 0 .. ClockSize - 1 /\ lastSend' \in 0 .. ClockSize - 1
                  /\ passed' \in 0 .. MaxPass /\ sinceSend' \in 0 .. ClockSize
                  /\ connected' \in BOOLEAN /\ input' \in Inputs \cup {NoInput}
                  /\ sequence' \in 0 .. SequenceSize - 1 /\ ready' \in BOOLEAN
                BY <1>a, <1>b, <3>1, <3>2 DEF TypeOK
            <4> QED
                BY <4>1, <4>2, <4>3 DEF TypeOK
        <3>5. AgeIsTrue'
            <4>1. Elapsed(now, now) = 0
                BY <1>a, <1>b, ElapsedIs DEF TypeOK
            <4> QED
                BY <3>1, <4>1 DEF AgeIsTrue, Elapsed
        <3>6. report.sequence = NextSequence /\ report.connected = connected /\ report.input = input
            OBVIOUS
        <3>7. \A r \in reader : NextSequence = Following(renewed, r.sequence)
            BY <1>a, <3>1, AcceptedFollows
        <3> HIDE DEF report
        <3>8. NothingIsLeftBehind'
            BY <1>a, <3>1, <3>6 DEF NothingIsLeftBehind, PayloadIsTrue
        <3>9. NumbersFollow'
            <4>1. \A a, b \in reader : a = b
                BY <1>a DEF NumbersFollow
            <4> QED
                BY <3>1, <3>6, <3>7, <4>1 DEF NumbersFollow, Following
        <3> QED
            BY <1>a, <3>1, <3>4, <3>5, <3>8, <3>9 DEF Inductive, PayloadIsTrue
    <2> QED
        BY <1>4, <2>1, <2>2 DEF Task, NotDue, Refused
<1>5. CASE HostPoll
    <2>1. /\ reader' = endpoint /\ endpoint' = {} /\ ready' = ready
          /\ UNCHANGED <<clocks, payload, lastSend, changes>>
        BY <1>5 DEF HostPoll
    <2>2. TypeOK'
        BY <1>a, <2>1 DEF TypeOK, Reports
    <2>3. AgeIsTrue'
        BY <1>a, <2>1 DEF AgeIsTrue, Elapsed
    <2> QED
        BY <1>a, <2>1, <2>2, <2>3 DEF Inductive, PayloadIsTrue, NothingIsLeftBehind, NumbersFollow
<1>6. CASE Configure
    <2>1. TypeOK'
        BY <1>a, <1>6 DEF Configure, TypeOK, Reports
    <2>2. AgeIsTrue'
        BY <1>a, <1>6 DEF Configure, AgeIsTrue, Elapsed
    <2> QED
        BY <1>a, <1>6, <2>1, <2>2
           DEF Configure, Inductive, PayloadIsTrue, NothingIsLeftBehind, NumbersFollow
<1>7. CASE BusReset
    <2>1. /\ reader' = {} /\ endpoint' = {} /\ ready' = FALSE
          /\ UNCHANGED <<clocks, payload, lastSend, changes>>
        BY <1>7 DEF BusReset
    <2>2. TypeOK'
        BY <1>a, <2>1 DEF TypeOK, Reports
    <2>3. AgeIsTrue'
        BY <1>a, <2>1 DEF AgeIsTrue, Elapsed
    <2> QED
        BY <1>a, <2>1, <2>2, <2>3 DEF Inductive, PayloadIsTrue, NothingIsLeftBehind, NumbersFollow
<1>8. CASE UNCHANGED statusVars
    <2>1. TypeOK'
        BY <1>a, <1>8 DEF TypeOK, Reports
    <2>2. AgeIsTrue'
        BY <1>a, <1>8 DEF AgeIsTrue, Elapsed
    <2> QED
        BY <1>a, <1>8, <2>1, <2>2 DEF Inductive, PayloadIsTrue, NothingIsLeftBehind, NumbersFollow
<1> QED
    BY <1>1, <1>2, <1>3, <1>4, <1>5, <1>6, <1>7, <1>8 DEF Next

\* The invariant always holds.
THEOREM AlwaysInductive == Spec => []Inductive
BY InitInductive, StepInductive, PTL DEF Spec

-----------------------------------------------------------------------------

\* Every variable always has its type.
THEOREM TypeCorrect == Spec => []TypeOK
<1>1. Inductive => TypeOK
    BY DEF Inductive
<1> QED
    BY <1>1, AlwaysInductive, PTL

\* No report without a controller shows one's input.
THEOREM Cleared == Spec => []NothingIsLeftBehind
<1>1. Inductive => NothingIsLeftBehind
    BY DEF Inductive
<1> QED
    BY <1>1, AlwaysInductive, PTL

\* Two reports are never closer than kReportIntervalUs, on any clock.
THEOREM RateIsBounded == Spec => RateBound
<1>1. Inductive /\ [Next]_statusVars
        => [endpoint = {} /\ endpoint' # {} => sinceSend >= kReportIntervalUs]_statusVars
    <2> SUFFICES ASSUME Inductive, Next, endpoint = {}, endpoint' # {}
                 PROVE  sinceSend >= kReportIntervalUs
        OBVIOUS
    <2>1. Due
        BY DEF Next, Tick, ReportReceived, SetConnected, SetDisconnected, Task, NotDue,
               HostPoll, Configure, BusReset, pc
    <2>2. /\ ClockSize \in Nat \ {0} /\ kReportIntervalUs \in Nat
          /\ now \in 0 .. ClockSize - 1 /\ lastSend \in 0 .. ClockSize - 1
          /\ sinceSend \in 0 .. ClockSize
        BY StatusAssumption DEF Inductive, TypeOK
    <2>3. Elapsed(lastSend, now) \in Int
        BY <2>2 DEF Elapsed
    <2> QED
        BY <2>1, <2>2, <2>3 DEF Inductive, AgeIsTrue, Due
<1> QED
    BY <1>1, AlwaysInductive, PTL DEF Spec, RateBound

\* The numbers a PC reads have no gap, whatever is refused in between, and start again
\* exactly where a controller came or went.
THEOREM NumbersHaveNoGap == Spec => SequenceHasNoGap
<1>1. ASSUME Inductive, NEW old \in reader, NEW new \in reader', HostPoll
      PROVE  new.sequence = (IF restarted THEN 1 ELSE old.sequence + 1) % SequenceSize
    BY <1>1 DEF HostPoll, Inductive, NumbersFollow, Following
<1>2. Inductive /\ [Next]_statusVars
        => [\A old \in reader, new \in reader' :
                HostPoll => new.sequence = (IF restarted THEN 1 ELSE old.sequence + 1)
                                               % SequenceSize]_statusVars
    BY <1>1
<1> QED
    BY <1>2, AlwaysInductive, PTL DEF Spec, SequenceHasNoGap

-----------------------------------------------------------------------------
(* StatusTiming *)

\* The last input is zero before the first callback of a connection, and as old
\* as the history says after it, while the clock can tell.
LastInputIsTrue ==
    /\ ~measured => lastInput = 0
    /\ measured /\ sinceInput < ClockSize => Elapsed(lastInput, now) = sinceInput

Events(w) == w = [interval |-> w.interval, callback |-> w.callback, late |-> w.late, busy |-> w.busy]

TimingTypeOK ==
    /\ now \in 0 .. ClockSize - 1 /\ lastInput \in 0 .. ClockSize - 1
    /\ {intervalMax, callbackMax, late, busy} \subseteq 0 .. Saturated
    /\ sinceInput \in 0 .. ClockSize
    /\ measured \in BOOLEAN /\ unmeasurable \in BOOLEAN
    /\ Events(window)

TimingInv == TimingTypeOK /\ LastInputIsTrue /\ WindowIsTrue

\* The sizes, as facts of arithmetic.
LEMMA Sizes ==
    /\ ClockSize \in Nat \ {0} /\ MaxPass \in Nat /\ MaxPass < ClockSize
    /\ kLateInputThresholdUs \in Nat /\ Saturated \in Nat
    /\ kLateInputThresholdUs < Saturated /\ Saturated < ClockSize
BY StatusAssumption, TimingAssumption

\* Time elapsed grows by what passes, until the clock's size.
LEMMA ElapsedAfter ==
    ASSUME NEW since \in 0 .. ClockSize - 1, NEW until \in 0 .. ClockSize - 1,
           NEW d \in 0 .. MaxPass, Elapsed(since, until) + d < ClockSize
    PROVE  /\ (until + d) % ClockSize \in 0 .. ClockSize - 1
           /\ Elapsed(since, (until + d) % ClockSize) = Elapsed(since, until) + d
<1> DEFINE later == (until + d) % ClockSize
<1>1. later = IF until + d < ClockSize THEN until + d ELSE until + d - ClockSize
    BY Sizes
<1>2. later \in 0 .. ClockSize - 1
    BY <1>1, Sizes
<1> HIDE DEF later
<1>3. Elapsed(since, later) = IF later >= since THEN later - since
                              ELSE later + ClockSize - since
    BY <1>2, ElapsedIs
<1>4. Elapsed(since, until) = IF until >= since THEN until - since
                              ELSE until + ClockSize - since
    BY ElapsedIs
<1>5. Elapsed(since, later) = Elapsed(since, until) + d
    BY <1>1, <1>2, <1>3, <1>4, Sizes
<1> QED
    BY <1>2, <1>5 DEF later

\* The clock stays in its range.
LEMMA PassMoves ==
    ASSUME now \in 0 .. ClockSize - 1, NEW d \in 0 .. MaxPass, Pass(d)
    PROVE  now' = (now + d) % ClockSize /\ now' \in 0 .. ClockSize - 1
BY Sizes DEF Pass

\* A window begins.
LEMMA WindowBegins ==
    ASSUME TimingTypeOK, ResetTimingWindow, NewWindow
    PROVE  WindowIsTrue' /\ {intervalMax', callbackMax', late', busy'} \subseteq 0 .. Saturated
           /\ unmeasurable' \in BOOLEAN /\ Events(window')
<1>1. /\ intervalMax' = 0 /\ callbackMax' = 0 /\ late' = 0 /\ busy' = 0
      /\ window' = [interval |-> 0, callback |-> 0, late |-> 0, busy |-> 0]
    BY DEF ResetTimingWindow, NewWindow, NoEvents
<1>2. unmeasurable' \in BOOLEAN
    BY DEF NewWindow
<1>3. WindowIsTrue'
    BY <1>1 DEF WindowIsTrue
<1>4. Events(window')
    BY <1>1 DEF Events
<1> QED
    BY <1>1, <1>2, <1>3, <1>4, Sizes

\* A connection begins or ends.
LEMMA ResetKeeps ==
    ASSUME TimingInv, ResetTiming, now' = now
    PROVE  TimingInv'
<1>1. /\ lastInput' = 0 /\ measured' = FALSE /\ sinceInput' = sinceInput
      /\ ResetTimingWindow /\ NewWindow
    BY DEF ResetTiming
<1>2. WindowIsTrue' /\ {intervalMax', callbackMax', late', busy'} \subseteq 0 .. Saturated
           /\ unmeasurable' \in BOOLEAN /\ Events(window')
    BY <1>1, WindowBegins DEF TimingInv
<1>3. TimingTypeOK'
    <2>1. measured' \in BOOLEAN
        BY <1>1
    <2>2. lastInput' \in 0 .. ClockSize - 1
        BY <1>1, Sizes
    <2>3. now' \in 0 .. ClockSize - 1 /\ sinceInput' \in 0 .. ClockSize
        BY <1>1 DEF TimingInv, TimingTypeOK
    <2> QED
        BY <1>2, <2>1, <2>2, <2>3, Zenon DEF TimingTypeOK
<1>4. LastInputIsTrue'
    BY <1>1 DEF LastInputIsTrue
<1> QED
    BY <1>2, <1>3, <1>4 DEF TimingInv

\* A tick makes the last input older.
LEMMA TickKeeps ==
    ASSUME TimingInv, TimedTick
    PROVE  TimingInv'
<1>1. /\ Pass(1) /\ UNCHANGED <<timing, measured, unmeasurable, window>>
      /\ sinceInput' = IF sinceInput + 1 > ClockSize THEN ClockSize ELSE sinceInput + 1
    BY DEF TimedTick, Tick, Capped
<1>2. 1 \in 0 .. MaxPass
    BY StatusAssumption
<1>3. now \in 0 .. ClockSize - 1 /\ lastInput \in 0 .. ClockSize - 1 /\ sinceInput \in 0 .. ClockSize
    BY DEF TimingInv, TimingTypeOK
<1>4. now' = (now + 1) % ClockSize /\ now' \in 0 .. ClockSize - 1
    BY <1>1, <1>2, <1>3, PassMoves
<1>5. TimingTypeOK'
    BY <1>1, <1>3, <1>4, Sizes DEF TimingInv, TimingTypeOK, timing, Events
<1>6. ASSUME measured', sinceInput' < ClockSize PROVE Elapsed(lastInput', now') = sinceInput'
    <2>1. measured /\ sinceInput' = sinceInput + 1 /\ sinceInput < ClockSize
        BY <1>1, <1>3, <1>6, Sizes
    <2>2. Elapsed(lastInput, now) = sinceInput
        BY <2>1 DEF TimingInv, LastInputIsTrue
    <2>3. Elapsed(lastInput, now) + 1 < ClockSize
        BY <1>6, <2>1, <2>2
    <2>4. Elapsed(lastInput, (now + 1) % ClockSize) = Elapsed(lastInput, now) + 1
        BY <1>2, <1>3, <2>3, ElapsedAfter
    <2>5. lastInput' = lastInput
        BY <1>1 DEF timing
    <2> QED
        BY <1>4, <2>1, <2>2, <2>4, <2>5
<1>7. LastInputIsTrue'
    <2>1. ~measured' => lastInput' = 0
        BY <1>1 DEF timing, TimingInv, LastInputIsTrue
    <2> QED
        BY <1>6, <2>1 DEF LastInputIsTrue, Elapsed
<1>8. WindowIsTrue'
    BY <1>1 DEF timing, TimingInv, WindowIsTrue
<1> QED
    BY <1>5, <1>7, <1>8 DEF TimingInv

\* A callback measures what happened.
LEMMA CallbackKeeps ==
    ASSUME TimingInv, NEW x, NEW d \in 0 .. MaxPass, TimedReportReceived(x, d)
    PROVE  TimingInv'
<1> DEFINE elapsed == Elapsed(lastInput, now)
           interval == ClampU16(elapsed)
           callback == Larger(callbackMax, ClampU16(d))
           tells == measured /\ sinceInput < ClockSize /\ lastInput # 0
<1>1. Pass(d) /\ RecordTiming(d) /\ Observed(d) /\ busy' = busy
    BY DEF TimedReportReceived, ReportReceived
<1>2. now \in 0 .. ClockSize - 1 /\ lastInput \in 0 .. ClockSize - 1 /\ sinceInput \in 0 .. ClockSize
    BY DEF TimingInv, TimingTypeOK
<1>3. now' = (now + d) % ClockSize /\ now' \in 0 .. ClockSize - 1
    BY <1>1, <1>2, PassMoves
<1>4. lastInput' = now /\ sinceInput' = d /\ measured' = TRUE /\ callbackMax' = callback
    BY <1>1 DEF RecordTiming, Observed
<1>5. LastInputIsTrue'
    <2>1. Elapsed(now, now) = 0
        BY <1>2, ElapsedIs
    <2>2. Elapsed(now, (now + d) % ClockSize) = d
        BY <1>2, <2>1, ElapsedAfter, Sizes
    <2> QED
        BY <1>3, <1>4, <2>2 DEF LastInputIsTrue, Elapsed
<1>6. /\ window'.interval = IF measured THEN Larger(window.interval, ClampU16(sinceInput)) ELSE window.interval
      /\ window'.callback = Larger(window.callback, ClampU16(d))
      /\ window'.late = IF measured /\ sinceInput > kLateInputThresholdUs
                        THEN Capped(window.late + 1, Saturated) ELSE window.late
      /\ window'.busy = window.busy
      /\ Events(window')
    BY <1>1 DEF Observed, TimingInv, TimingTypeOK, Events
<1>7. elapsed \in Nat
    BY <1>2, ElapsedIs, Sizes
<1> HIDE DEF elapsed
<1>8. interval \in 0 .. Saturated /\ ClampU16(d) \in 0 .. Saturated
    BY <1>7, Sizes DEF ClampU16, Capped
<1>9. /\ intervalMax \in 0 .. Saturated /\ callbackMax \in 0 .. Saturated
      /\ late \in 0 .. Saturated /\ busy \in 0 .. Saturated
    BY DEF TimingInv, TimingTypeOK
<1>10. /\ intervalMax' = IF lastInput # 0 THEN Larger(intervalMax, interval) ELSE intervalMax
       /\ late' = IF lastInput # 0 /\ interval > kLateInputThresholdUs THEN Count(late) ELSE late
    BY <1>1 DEF RecordTiming, elapsed
<1>11. /\ intervalMax' \in 0 .. Saturated /\ callbackMax' \in 0 .. Saturated
       /\ late' \in 0 .. Saturated
    BY <1>4, <1>8, <1>9, <1>10, Sizes DEF Larger, Count
<1>12. unmeasurable' = (unmeasurable \/ (measured /\ (sinceInput >= ClockSize \/ lastInput = 0)))
    BY <1>1 DEF Observed
<1>13. TimingTypeOK'
    <2>1. unmeasurable' \in BOOLEAN
        BY <1>12
    <2>2. sinceInput' \in 0 .. ClockSize
        BY <1>4, Sizes
    <2>3. measured' \in BOOLEAN
        BY <1>4
    <2>4. lastInput' \in 0 .. ClockSize - 1
        BY <1>2, <1>4
    <2>5. {intervalMax', callbackMax', late', busy'} \subseteq 0 .. Saturated
        BY <1>1, <1>9, <1>11
    <2> QED
        BY <1>3, <1>6, <2>1, <2>2, <2>3, <2>4, <2>5, Zenon DEF TimingTypeOK
<1>14. callbackMax' = window'.callback /\ busy' = window'.busy
    BY <1>1, <1>4, <1>6 DEF TimingInv, WindowIsTrue
<1>15. ASSUME ~unmeasurable' PROVE intervalMax' = window'.interval /\ late' = window'.late
    <2>1. ~unmeasurable /\ (~measured \/ tells)
        <3>1. ~(sinceInput >= ClockSize) => sinceInput < ClockSize
            BY <1>2, Sizes
        <3> QED
            BY <1>12, <1>15, <3>1, Zenon
    <2>2. intervalMax = window.interval /\ late = window.late
        BY <2>1 DEF TimingInv, WindowIsTrue
    <2>3. CASE ~measured
        BY <1>6, <1>10, <2>2, <2>3 DEF TimingInv, LastInputIsTrue
    <2>4. CASE tells
        <3>1. elapsed = sinceInput
            BY <2>4 DEF TimingInv, LastInputIsTrue, elapsed
        <3>2. interval > kLateInputThresholdUs <=> sinceInput > kLateInputThresholdUs
            BY <1>2, <3>1, Sizes DEF ClampU16, Capped
        <3>3. Count(late) = Capped(window.late + 1, Saturated)
            BY <1>9, <2>2, Sizes DEF Count, Capped
        <3> QED
            BY <1>6, <1>10, <2>2, <2>4, <3>1, <3>2, <3>3
    <2> QED
        BY <2>1, <2>3, <2>4
<1>16. WindowIsTrue'
    BY <1>14, <1>15 DEF WindowIsTrue
<1> QED
    BY <1>5, <1>13, <1>16 DEF TimingInv

\* A report that is sent begins a window, one that is refused is counted.
LEMMA TaskKeeps ==
    ASSUME TimingInv, TimedTask
    PROVE  TimingInv'
<1>1. now' = now
    BY DEF TimedTask, Task
<1>2. CASE UNCHANGED <<timing, history>>
    BY <1>1, <1>2 DEF timing, history, TimingInv, TimingTypeOK, LastInputIsTrue, WindowIsTrue,
                      Elapsed, Events
<1>3. CASE /\ ResetTimingWindow
           /\ NewWindow
           /\ UNCHANGED <<lastInput, sinceInput, measured>>
    <2>1. WindowIsTrue' /\ {intervalMax', callbackMax', late', busy'} \subseteq 0 .. Saturated
           /\ unmeasurable' \in BOOLEAN /\ Events(window')
        BY <1>3, WindowBegins DEF TimingInv
    <2>2. TimingTypeOK'
        BY <1>1, <1>3, <2>1 DEF TimingInv, TimingTypeOK
    <2>3. LastInputIsTrue'
        BY <1>1, <1>3 DEF TimingInv, LastInputIsTrue, Elapsed
    <2> QED
        BY <2>1, <2>2, <2>3 DEF TimingInv
<1>4. CASE /\ busy' = Count(busy)
           /\ window' = [window EXCEPT !.busy = Capped(@ + 1, Saturated)]
           /\ UNCHANGED <<lastInput, intervalMax, callbackMax, late,
                          sinceInput, measured, unmeasurable>>
    <2>1. busy \in 0 .. Saturated /\ busy = window.busy
        BY DEF TimingInv, TimingTypeOK, WindowIsTrue
    <2>2. Count(busy) = Capped(busy + 1, Saturated) /\ Count(busy) \in 0 .. Saturated
        BY <2>1, Sizes DEF Count, Capped
    <2>3. /\ window'.busy = Capped(window.busy + 1, Saturated)
          /\ window'.interval = window.interval /\ window'.callback = window.callback
          /\ window'.late = window.late
          /\ Events(window')
        BY <1>4 DEF TimingInv, TimingTypeOK, Events
    <2>4. WindowIsTrue'
        BY <1>4, <2>1, <2>2, <2>3 DEF TimingInv, WindowIsTrue
    <2>5. TimingTypeOK'
        BY <1>1, <1>4, <2>2, <2>3 DEF TimingInv, TimingTypeOK
    <2>6. LastInputIsTrue'
        BY <1>1, <1>4 DEF TimingInv, LastInputIsTrue, Elapsed
    <2> QED
        BY <2>4, <2>5, <2>6 DEF TimingInv
<1> QED
    BY <1>2, <1>3, <1>4 DEF TimedTask

\* The next report tells exactly what happened since the last one, short of what
\* the clock cannot tell, for every clock, threshold and capacity of a counter
\* (RecordTiming, ResetTimingWindow).
THEOREM WindowIsAlwaysTrue == TimedSpec => []WindowIsTrue
<1>1. TimedInit => TimingInv
    <2> SUFFICES ASSUME TimedInit PROVE TimingInv
        OBVIOUS
    <2>1. TimingTypeOK
        <3>1. now = 0 /\ lastInput = 0 /\ sinceInput = 0 /\ intervalMax = 0
              /\ callbackMax = 0 /\ late = 0 /\ busy = 0
            BY DEF TimedInit, Init
        <3>2. measured \in BOOLEAN /\ unmeasurable \in BOOLEAN
            BY DEF TimedInit
        <3>3. Events(window)
            BY DEF TimedInit, Events, NoEvents
        <3>4. now \in 0 .. ClockSize - 1 /\ sinceInput \in 0 .. ClockSize
              /\ {intervalMax, callbackMax, late, busy} \subseteq 0 .. Saturated
            BY <3>1, Sizes
        <3> QED
            BY <3>1, <3>2, <3>3, <3>4 DEF TimingTypeOK
    <2> QED
        BY <2>1 DEF TimedInit, TimingInv, LastInputIsTrue, WindowIsTrue, NoEvents
<1>2. ASSUME TimingInv, [TimedNext]_timingVars PROVE TimingInv'
    <2>1. CASE TimedTick
        BY <1>2, <2>1, TickKeeps
    <2>2. ASSUME NEW x \in Inputs \cup {NoInput}, NEW d \in 0 .. MaxPass, TimedReportReceived(x, d)
          PROVE  TimingInv'
        BY <1>2, <2>2, CallbackKeeps
    <2>3. CASE TimedSetConnected \/ TimedSetDisconnected
        BY <1>2, <2>3, ResetKeeps DEF TimedSetConnected, TimedSetDisconnected, SetConnected,
                                      SetDisconnected, clocks
    <2>4. CASE TimedTask
        BY <1>2, <2>4, TaskKeeps
    <2>5. CASE TimedPC \/ UNCHANGED timingVars
        <3>1. now' = now /\ UNCHANGED <<timing, history>>
            BY <2>5 DEF TimedPC, HostPoll, Configure, BusReset, timingVars, statusVars, clocks
        <3> QED
            BY <1>2, <3>1 DEF timing, history, TimingInv, TimingTypeOK, LastInputIsTrue,
                              WindowIsTrue, Elapsed, Events
    <2> QED
        BY <1>2, <2>1, <2>2, <2>3, <2>4, <2>5 DEF TimedNext
<1>3. TimingInv => WindowIsTrue
    BY DEF TimingInv
<1> QED
    BY <1>1, <1>2, <1>3, PTL DEF TimedSpec
=============================================================================
