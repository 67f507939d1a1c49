--------------------------- MODULE StatusPcProofs ----------------------------
(***************************************************************************)
(* The bridge reads every open path, each by one goroutine, for any        *)
(* backends, goroutines and devices; the overlay shows only what is there, *)
(* for any devices and any number of calls; and it shows of a payload what *)
(* the firmware was told, for any number of reports of any lengths.        *)
(***************************************************************************)
EXTENDS StatusReaders, StatusOverlay, StatusPayload, FiniteSetTheorems,
        SequenceTheorems, WellFoundedInduction, TLAPS

-----------------------------------------------------------------------------
(* StatusReaders *)

Recorded(f) ==
    f = [r \in Readers |-> [at |-> f[r].at, path |-> f[r].path, live |-> f[r].live]]

\* A goroutine that has started has one path, and it is open; every open path
\* has one.
Read1 ==
    /\ Recorded(reader)
    /\ \A r \in Readers : Started(r) => \E p \in openPaths : reader[r].path = {p}
    /\ \A p \in openPaths : \E r \in Readers : Started(r) /\ reader[r].path = {p}

ReadersInv == Read1 /\ OneReaderEach

\* Goroutines that go on keep their paths.
LEMMA KeepsPaths ==
    ASSUME ReadersInv, Recorded(reader'), openPaths' = openPaths,
           \A r \in Readers : Started(r)' = Started(r) /\ reader'[r].path = reader[r].path
    PROVE  ReadersInv'
<1>1. Read1'
  BY DEF ReadersInv, Read1
<1>2. OneReaderEach'
  BY DEF ReadersInv, OneReaderEach
<1> QED
  BY <1>1, <1>2 DEF ReadersInv

LEMMA ReadersHold == ReadersInv /\ [ReadersNext]_readersVars => ReadersInv'
<1> SUFFICES ASSUME ReadersInv, [ReadersNext]_readersVars PROVE ReadersInv'
  OBVIOUS
<1>r. Recorded(reader)
  BY DEF ReadersInv, Read1
<1>1. ASSUME reader' = reader, openPaths' = openPaths PROVE ReadersInv'
  <2>1. \A r \in Readers : Started(r)' = Started(r)
    BY <1>1 DEF Started
  <2>2. Recorded(reader')
    BY <1>1, <1>r
  <2> QED
    BY <1>1, <2>1, <2>2, KeepsPaths
<1>2. CASE Enumerate \/ Sleep \/ Take \/ (\E p \in Paths : PlugIn(p)) \/ UNCHANGED readersVars
  BY <1>1, <1>2 DEF Enumerate, Sleep, Take, PlugIn, readersVars
<1>3. CASE Look
  <2>1. PICK p \in found : Skip(p) \/ Start(p)
    BY <1>3 DEF Look
  <2>2. CASE Skip(p)
    BY <1>1, <2>2 DEF Skip
  <2>3. CASE Start(p)
    <3>1. PICK r \in Readers :
            /\ ~Started(r)
            /\ reader' = [reader EXCEPT ![r] = [at |-> "opening", path |-> {p}, live |-> FALSE]]
      BY <2>3 DEF Start
    <3>2. p \notin openPaths /\ openPaths' = openPaths \cup {p}
      BY <2>3 DEF Start
    <3>3. /\ reader'[r].path = {p} /\ Started(r)'
          /\ \A s \in Readers \ {r} : reader'[s].path = reader[s].path /\ Started(s)' = Started(s)
      BY <1>r, <3>1 DEF Started, Recorded
    <3>4. Recorded(reader')
      BY <1>r, <3>1 DEF Recorded
    <3>5. \A s \in Readers : Started(s)' => \E q \in openPaths' : reader'[s].path = {q}
      BY <3>2, <3>3 DEF ReadersInv, Read1
    <3>6. \A q \in openPaths' : \E s \in Readers : Started(s)' /\ reader'[s].path = {q}
      BY <3>1, <3>2, <3>3 DEF ReadersInv, Read1
    <3>7. Read1'
      BY <3>4, <3>5, <3>6 DEF Read1
    <3>8. \A s \in Readers \ {r} : Started(s) => reader[s].path # {p}
      BY <3>2 DEF ReadersInv, Read1
    <3>9. OneReaderEach'
      BY <3>3, <3>8 DEF ReadersInv, OneReaderEach
    <3> QED
      BY <3>7, <3>9 DEF ReadersInv
  <2> QED
    BY <2>1, <2>2, <2>3
<1>4. ASSUME NEW r \in Readers, Open(r) \/ OpenRefused(r) \/ Read(r) \/ ReadFails(r) \/ SendPacket(r)
      PROVE  ReadersInv'
  <2>1. openPaths' = openPaths /\ Started(r)
    BY <1>4 DEF Open, OpenRefused, Read, ReadFails, SendPacket, Goes, Started
  <2>2. \A s \in Readers : reader'[s].path = reader[s].path
    BY <1>4, <1>r DEF Open, OpenRefused, Read, ReadFails, SendPacket, Goes, Recorded
  <2>3. \A s \in Readers : Started(s)' = Started(s)
    BY <1>4, <1>r, <2>1 DEF Open, OpenRefused, Read, ReadFails, SendPacket, Goes, Started, Recorded
  <2>4. Recorded(reader')
    BY <1>4, <1>r DEF Open, OpenRefused, Read, ReadFails, SendPacket, Goes, Recorded
  <2> QED
    BY <2>1, <2>2, <2>3, <2>4, KeepsPaths
<1>5. ASSUME NEW r \in Readers, Done(r) PROVE ReadersInv'
  <2>1. /\ Started(r)
        /\ openPaths' = openPaths \ reader[r].path
        /\ reader' = [reader EXCEPT ![r] = NoReader]
    BY <1>5 DEF Done, Started
  <2>2. PICK p \in openPaths : reader[r].path = {p}
    BY <2>1 DEF ReadersInv, Read1
  <2>3. /\ ~Started(r)'
        /\ \A s \in Readers \ {r} : reader'[s].path = reader[s].path /\ Started(s)' = Started(s)
    BY <1>r, <2>1 DEF Started, NoReader, Recorded
  <2>4. \A s \in Readers \ {r} : Started(s) => reader[s].path # {p}
    BY <2>1, <2>2 DEF ReadersInv, OneReaderEach
  <2>5. Recorded(reader')
    BY <1>r, <2>1 DEF NoReader, Recorded
  <2>6. ASSUME NEW s \in Readers, Started(s)' PROVE \E q \in openPaths' : reader'[s].path = {q}
    <3>1. s # r /\ Started(s) /\ reader'[s].path = reader[s].path
      BY <2>3, <2>6
    <3>2. PICK q \in openPaths : reader[s].path = {q}
      BY <3>1 DEF ReadersInv, Read1
    <3>3. q # p
      BY <2>4, <3>1, <3>2
    <3> QED
      BY <2>1, <2>2, <3>1, <3>2, <3>3
  <2>7. \A q \in openPaths' : \E s \in Readers : Started(s)' /\ reader'[s].path = {q}
    BY <2>1, <2>2, <2>3 DEF ReadersInv, Read1
  <2>8. Read1'
    BY <2>5, <2>6, <2>7 DEF Read1
  <2>9. OneReaderEach'
    BY <2>3 DEF ReadersInv, OneReaderEach
  <2> QED
    BY <2>8, <2>9 DEF ReadersInv
<1>6. ASSUME NEW p \in Paths, PullOut(p) PROVE ReadersInv'
  <2>1. openPaths' = openPaths
    BY <1>6 DEF PullOut
  <2>2. \A s \in Readers : reader'[s].path = reader[s].path /\ reader'[s].at = reader[s].at
    BY <1>r, <1>6 DEF PullOut, Recorded
  <2>3. Recorded(reader')
    <3>1. \A s \in Readers :
            reader[s] = [at |-> reader[s].at, path |-> reader[s].path, live |-> reader[s].live]
      BY <1>r DEF Recorded
    <3>2. \A s \in Readers : reader'[s] =
            [at |-> reader'[s].at, path |-> reader'[s].path, live |-> reader'[s].live]
      BY <1>6, <3>1 DEF PullOut
    <3> QED
      BY <1>6, <3>2 DEF PullOut, Recorded
  <2> QED
    BY <2>1, <2>2, <2>3, KeepsPaths DEF Started
<1> QED
  BY <1>2, <1>3, <1>4, <1>5, <1>6 DEF ReadersNext, ScanStep, ReaderStep

\* However scans, opens that fail and unplugged devices fall, the open paths are
\* those being read, each by one goroutine (readStatusPackets, readHidapiDevice).
THEOREM PathsAreAlwaysRead == ReadersSpec => []PathsAreRead
<1>1. ReadersInit => ReadersInv
  BY DEF ReadersInit, ReadersInv, Read1, OneReaderEach, Started, NoReader, Recorded
<1>2. ReadersInv => PathsAreRead
  <2> SUFFICES ASSUME ReadersInv PROVE PathsAreRead
    OBVIOUS
  <2>1. openPaths \subseteq UNION {reader[r].path : r \in {s \in Readers : Started(s)}}
    BY DEF ReadersInv, Read1
  <2>2. UNION {reader[r].path : r \in {s \in Readers : Started(s)}} \subseteq openPaths
    BY DEF ReadersInv, Read1
  <2> QED
    BY <2>1, <2>2 DEF ReadersInv, PathsAreRead, OpenPathsAreRead
<1> QED
  BY <1>1, <1>2, ReadersHold, PTL DEF ReadersSpec

-----------------------------------------------------------------------------
(* StatusOverlay *)

\* One device is shown at most; it is open and listened to.
OverlayInv ==
    /\ listeners \in [Devices -> 0 .. Many]
    /\ \A d, e \in shown : d = e
    /\ ShownIsThere

\* What an attached device needs.
LEMMA Attached ==
    ASSUME OverlayInv, NEW c \in Calls, NEW d \in Devices, AttachDevice(c, d), d \in opened'
    PROVE  OverlayInv'
<1> DEFINE n == listeners[d]
           k == IF n = Many THEN n ELSE n + 1
<1>1. n \in 0 .. Many
  BY DEF OverlayInv
<1>2. k \in 0 .. Many /\ k > 0
  BY <1>1 DEF Many
<1>3. listeners' = [listeners EXCEPT ![d] = k] /\ shown' = {d}
  BY DEF AttachDevice
<1> HIDE DEF k
<1> QED
  BY <1>2, <1>3 DEF OverlayInv, ShownIsThere

\* Nothing the shown device needs is taken.
LEMMA StillThere ==
    ASSUME OverlayInv, shown' = shown, listeners' = listeners, opened \subseteq opened'
    PROVE  OverlayInv'
BY DEF OverlayInv, ShownIsThere

LEMMA OverlayHolds == OverlayInv /\ [OverlayNext]_overlayVars => OverlayInv'
<1> SUFFICES ASSUME OverlayInv, [OverlayNext]_overlayVars PROVE OverlayInv'
  OBVIOUS
<1>1. ASSUME NEW c \in Calls, Tick(c) \/ Click(c) \/ NoneFound(c) PROVE OverlayInv'
  BY <1>1, StillThere DEF Tick, Click, NoneFound, Leave, page, device
<1>2. ASSUME NEW c \in Calls, NEW d \in Devices, FindOpened(c, d) PROVE OverlayInv'
  BY <1>2, Attached DEF FindOpened
<1>3. ASSUME NEW c \in Calls, NEW d \in Devices, FindClosed(c, d) \/ FindBusy(c, d) \/ OpenFails(c, d)
      PROVE  OverlayInv'
  BY <1>3, StillThere DEF FindClosed, FindBusy, OpenFails, Leave, page
<1>4. ASSUME NEW c \in Calls, NEW d \in Devices, OpenSucceeds(c, d) PROVE OverlayInv'
  BY <1>4, Attached DEF OpenSucceeds
<1>5. ASSUME NEW d \in Devices, Appear(d) PROVE OverlayInv'
  BY <1>5, StillThere DEF Appear, page
<1>6. ASSUME NEW d \in Devices, Vanish(d) PROVE OverlayInv'
  <2>1. listeners' = [listeners EXCEPT ![d] = 0] /\ opened' = opened \ {d}
    BY <1>6 DEF Vanish
  <2>2. listeners' \in [Devices -> 0 .. Many]
    BY <2>1 DEF OverlayInv, Many
  <2>3. CASE shown = {d} /\ SetDisconnectedStatus
    BY <2>2, <2>3 DEF SetDisconnectedStatus, OverlayInv, ShownIsThere
  <2>4. CASE shown # {d} /\ UNCHANGED page
    <3>1. d \notin shown /\ shown' = shown
      BY <2>4 DEF OverlayInv, page
    <3>2. \A e \in shown : e \in opened' /\ listeners'[e] = listeners[e]
      BY <2>1, <3>1 DEF OverlayInv, ShownIsThere
    <3> QED
      BY <2>2, <3>1, <3>2 DEF OverlayInv, ShownIsThere
  <2> QED
    BY <1>6, <2>3, <2>4 DEF Vanish
<1>7. CASE UNCHANGED overlayVars
  BY <1>7, StillThere DEF overlayVars, device, page
<1> QED
  BY <1>1, <1>2, <1>3, <1>4, <1>5, <1>6, <1>7 DEF OverlayNext, Answer, Settle

\* The overlay shows a device only while it is open and listened to, whatever
\* goes and comes while its calls wait (attachDevice, the disconnect listener).
THEOREM ShownStaysThere == OverlaySpec => []ShownIsThere
<1>1. OverlayInit => OverlayInv
  BY DEF OverlayInit, OverlayInv, ShownIsThere, Many
<1>2. OverlayInv => ShownIsThere
  BY DEF OverlayInv
<1> QED
  BY <1>1, <1>2, OverlayHolds, PTL DEF OverlaySpec

Called(f) == f = [c \in Calls |-> [by |-> f[c].by, device |-> f[c].device]]

\* One call of the loop at most; before a device came through the button one
\* listener at most, that of the device shown, and none while the loop looks.
OneLoop ==
    /\ Called(call)
    /\ \A c \in Calls : /\ call[c].by \in {"none", "reconnect", "connect"}
                        /\ call[c].by = "none" => call[c].device = {}
    /\ \A c, e \in Calls : call[c].by = "reconnect" /\ call[e].by = "reconnect" => c = e
    /\ connecting \in BOOLEAN
    /\ connecting <=> \E c \in Calls : call[c].by = "reconnect"

ListensOnce ==
    /\ listeners \in [Devices -> 0 .. Many]
    /\ chosen \in BOOLEAN
    /\ ~chosen => \A d \in Devices : listeners[d] = 0 \/ (listeners[d] = 1 /\ shown = {d})
    /\ ~chosen /\ connecting => shown = {}

LoopInv == OneLoop /\ ListensOnce

\* A call that ends is no loop's any more.
LEMMA Ends ==
    ASSUME OneLoop, NEW c \in Calls, End(c)
    PROVE  OneLoop' /\ (connecting' => connecting /\ call[c].by # "reconnect")
<1>1. call' = [call EXCEPT ![c] = [by |-> "none", device |-> {}]]
  BY DEF End, NoCall
<1>c. Called(call)
  BY DEF OneLoop
<1>4. Called(call')
  BY <1>1, <1>c DEF Called
<1>5. /\ call'[c].by = "none" /\ call'[c].device = {}
      /\ \A e \in Calls \ {c} : call'[e] = call[e]
  BY <1>1, <1>c DEF Called
<1>2. connecting' <=> connecting /\ call[c].by # "reconnect"
  BY DEF End
<1>3. connecting' \in BOOLEAN
  BY DEF End
<1> QED
  BY <1>2, <1>3, <1>4, <1>5 DEF OneLoop

\* A call that goes on is whose it was.
LEMMA GoesOn ==
    ASSUME OneLoop, NEW c \in Calls, NEW d, call[c].by # "none",
           call' = [call EXCEPT ![c].device = d], connecting' = connecting
    PROVE  OneLoop'
<1>c. Called(call)
  BY DEF OneLoop
<1>1. \A e \in Calls \ {c} : call'[e] = call[e]
  BY <1>c DEF Called
<1>2. call'[c].by = call[c].by
  BY <1>c DEF Called
<1>3. Called(call')
  BY <1>c DEF Called
<1> QED
  BY <1>1, <1>2, <1>3 DEF OneLoop

\* Nothing is listened to.
LEMMA SameListeners ==
    ASSUME ListensOnce, shown' = shown, listeners' = listeners, chosen' = chosen,
           connecting' \in BOOLEAN, connecting' => connecting \/ shown = {}
    PROVE  ListensOnce'
BY DEF ListensOnce

LEMMA AttachedOnce ==
    ASSUME LoopInv, NEW c \in Calls, NEW d \in Devices, AttachDevice(c, d), End(c),
           call[c].by # "none"
    PROVE  LoopInv'
<1>1. OneLoop' /\ (connecting' => connecting /\ call[c].by # "reconnect")
  BY Ends DEF LoopInv
<1>2. chosen' \in BOOLEAN /\ (chosen' <=> (chosen \/ call[c].by = "connect"))
  BY DEF AttachDevice
<1> DEFINE n == listeners[d]
           k == IF n = Many THEN n ELSE n + 1
<1>3. n \in 0 .. Many
  BY DEF LoopInv, ListensOnce
<1>4. k \in 0 .. Many /\ (n = 0 => k = 1)
  BY <1>3 DEF Many
<1>5. listeners' = [listeners EXCEPT ![d] = k] /\ shown' = {d}
  BY DEF AttachDevice
<1> HIDE DEF k, n
<1>6. listeners' \in [Devices -> 0 .. Many]
  BY <1>4, <1>5 DEF LoopInv, ListensOnce
<1>7. ASSUME ~chosen'
      PROVE  /\ \A e \in Devices : listeners'[e] = 0 \/ (listeners'[e] = 1 /\ shown' = {e})
             /\ ~connecting'
  <2>1. ~chosen /\ call[c].by = "reconnect"
    BY <1>2, <1>7 DEF LoopInv, OneLoop
  <2>2. connecting /\ shown = {}
    BY <2>1 DEF LoopInv, OneLoop, ListensOnce
  <2>3. \A e \in Devices : listeners[e] = 0
    BY <2>1, <2>2 DEF LoopInv, ListensOnce
  <2>4. n = 0
    BY <2>3 DEF n
  <2> QED
    BY <1>1, <1>4, <1>5, <2>1, <2>3, <2>4 DEF LoopInv, ListensOnce
<1>8. ListensOnce'
  BY <1>2, <1>6, <1>7 DEF ListensOnce
<1> QED
  BY <1>1, <1>8 DEF LoopInv

\* A call begins.
LEMMA Begins ==
    ASSUME OneLoop, NEW c \in Idle, NEW b \in {"reconnect", "connect"},
           call' = [call EXCEPT ![c].by = b],
           b = "reconnect" => ~connecting /\ connecting' = TRUE,
           b = "connect" => connecting' = connecting
    PROVE  OneLoop'
<1>1. c \in Calls /\ call[c] = [by |-> "none", device |-> {}]
  BY DEF Idle, NoCall
<1>c. Called(call)
  BY DEF OneLoop
<1>d. c \in Calls /\ call' = [call EXCEPT ![c].by = b]
  BY <1>1
<1>2. Called(call')
  BY <1>c, <1>d DEF Called
<1>3. call'[c].by = b /\ \A e \in Calls \ {c} : call'[e] = call[e]
  BY <1>1, <1>c DEF Called
<1>4. connecting' \in BOOLEAN
  BY DEF OneLoop
<1>5. CASE b = "reconnect"
  BY <1>1, <1>2, <1>3, <1>4, <1>5 DEF OneLoop
<1>6. ASSUME b = "connect" PROVE OneLoop'
  <2>1. \A e \in Calls : call'[e].by = "reconnect" <=> call[e].by = "reconnect"
    BY <1>1, <1>3, <1>6
  <2>2. connecting' <=> \E e \in Calls : call'[e].by = "reconnect"
    <3>1. connecting' = connecting
      BY <1>6
    <3>2. connecting <=> \E e \in Calls : call[e].by = "reconnect"
      BY DEF OneLoop
    <3> QED
      BY <2>1, <3>1, <3>2, Zenon
  <2> QED
    BY <1>2, <1>3, <1>4, <1>6, <2>1, <2>2 DEF OneLoop
<1> QED
  BY <1>5, <1>6

\* A call ends and no device came of it.
LEMMA EndsAlone ==
    ASSUME LoopInv, NEW c \in Calls, End(c), Leave(c)
    PROVE  LoopInv'
<1>1. OneLoop' /\ (connecting' => connecting)
  BY Ends DEF LoopInv
<1>2. connecting' \in BOOLEAN
  BY <1>1 DEF OneLoop
<1>3. ListensOnce'
  BY <1>1, <1>2, SameListeners DEF LoopInv, Leave
<1> QED
  BY <1>1, <1>3 DEF LoopInv

LEMMA LoopHolds == LoopInv /\ [OverlayNext]_overlayVars => LoopInv'
<1> SUFFICES ASSUME LoopInv, [OverlayNext]_overlayVars PROVE LoopInv'
  OBVIOUS
<1>b. connecting \in BOOLEAN
  BY DEF LoopInv, OneLoop
<1>1. ASSUME NEW c \in Calls, Tick(c) PROVE LoopInv'
  <2>1. OneLoop'
    BY <1>1, Begins DEF Tick, LoopInv
  <2>2. ListensOnce'
    BY <1>1, SameListeners DEF Tick, LoopInv, device
  <2> QED
    BY <2>1, <2>2 DEF LoopInv
<1>2. ASSUME NEW c \in Calls, Click(c) PROVE LoopInv'
  <2>1. OneLoop'
    BY <1>2, Begins DEF Click, LoopInv, page
  <2>2. ListensOnce'
    BY <1>2, <1>b, SameListeners DEF Click, LoopInv, device, page
  <2> QED
    BY <2>1, <2>2 DEF LoopInv
<1>3. ASSUME NEW c \in Calls, NoneFound(c) PROVE LoopInv'
  BY <1>3, EndsAlone DEF NoneFound
<1>4. ASSUME NEW c \in Calls, NEW d \in Devices, FindOpened(c, d) \/ OpenSucceeds(c, d)
      PROVE  LoopInv'
  <2>1. call[c].by # "none"
    BY <1>4 DEF FindOpened, Find, Asking, OpenSucceeds, Opening, LoopInv, OneLoop
  <2> QED
    BY <1>4, <2>1, AttachedOnce DEF FindOpened, OpenSucceeds
<1>5. ASSUME NEW c \in Calls, NEW d \in Devices, FindBusy(c, d) \/ OpenFails(c, d)
      PROVE  LoopInv'
  BY <1>5, EndsAlone DEF FindBusy, OpenFails
<1>6. ASSUME NEW c \in Calls, NEW d \in Devices, FindClosed(c, d) PROVE LoopInv'
  <2>1. OneLoop'
    BY <1>6, GoesOn DEF FindClosed, Find, Asking, LoopInv, page
  <2>2. ListensOnce'
    BY <1>6, <1>b, SameListeners DEF FindClosed, LoopInv, page
  <2> QED
    BY <2>1, <2>2 DEF LoopInv
<1>7. ASSUME call' = call, connecting' = connecting PROVE OneLoop'
  BY <1>7 DEF LoopInv, OneLoop
<1>8. CASE (\E d \in Devices : Appear(d)) \/ UNCHANGED overlayVars
  <2>1. call' = call /\ UNCHANGED page /\ listeners' = listeners
    BY <1>8 DEF Appear, overlayVars, device
  <2>2. ListensOnce'
    BY <2>1, <1>b, SameListeners DEF LoopInv, page
  <2> QED
    BY <1>7, <2>1, <2>2 DEF LoopInv, page
<1>9. ASSUME NEW d \in Devices, Vanish(d) PROVE LoopInv'
  <2>1. /\ listeners' = [listeners EXCEPT ![d] = 0] /\ call' = call
        /\ connecting' = connecting /\ chosen' = chosen
        /\ shown' = shown \/ (shown = {d} /\ shown' = {})
    BY <1>9 DEF Vanish, SetDisconnectedStatus, page
  <2>2. listeners' \in [Devices -> 0 .. Many]
    BY <2>1 DEF LoopInv, ListensOnce, Many
  <2>3. ~chosen => \A e \in Devices :
          listeners'[e] = 0 \/ (listeners'[e] = 1 /\ shown' = {e})
    BY <2>1 DEF LoopInv, ListensOnce
  <2>4. ListensOnce'
    BY <2>1, <2>2, <2>3 DEF LoopInv, ListensOnce
  <2> QED
    BY <1>7, <2>1, <2>4 DEF LoopInv
<1> QED
  BY <1>1, <1>2, <1>3, <1>4, <1>5, <1>6, <1>8, <1>9 DEF OverlayNext, Answer, Settle

\* The reconnect loop has one call in progress at most, which connecting tells,
\* and alone it never listens to a device twice, for any number of calls
\* (reconnectAuthorizedDevice, attachDevice).
THEOREM LoopAlwaysListensOnce == OverlaySpec => []LoopListensOnce
<1>1. OverlayInit => LoopInv
  <2> SUFFICES ASSUME OverlayInit PROVE LoopInv
    OBVIOUS
  <2>1. PICK c \in Calls : call = [NoCalls EXCEPT ![c].by = "reconnect"]
    BY DEF OverlayInit
  <2>a. [NoCall EXCEPT !.by = "reconnect"] = [by |-> "reconnect", device |-> {}]
    BY DEF NoCall
  <2>2. call = [e \in Calls |-> [by |-> IF e = c THEN "reconnect" ELSE "none", device |-> {}]]
    BY <2>1, <2>a DEF NoCalls, NoCall
  <2>3. OneLoop
    BY <2>2 DEF OverlayInit, OneLoop, Called
  <2>4. ListensOnce
    <3>1. listeners = [d \in Devices |-> 0] /\ shown = {}
      BY DEF OverlayInit
    <3>2. chosen \in BOOLEAN
      BY DEF OverlayInit
    <3> QED
      BY <3>1, <3>2 DEF ListensOnce, Many
  <2> QED
    BY <2>3, <2>4 DEF LoopInv
<1>2. LoopInv => LoopListensOnce
  <2> SUFFICES ASSUME LoopInv PROVE LoopListensOnce
    OBVIOUS
  <2> DEFINE L == {c \in Calls : call[c].by = "reconnect"}
  <2>1. ASSUME connecting PROVE Cardinality(L) = 1
    <3>1. PICK c \in Calls : call[c].by = "reconnect"
      BY <2>1 DEF LoopInv, OneLoop
    <3>2. L = {c}
      BY <3>1 DEF LoopInv, OneLoop
    <3> QED
      BY <3>2, FS_Singleton
  <2>2. ASSUME ~connecting PROVE Cardinality(L) = 0
    <3>1. L = {}
      BY <2>2 DEF LoopInv, OneLoop
    <3> QED
      BY <3>1, FS_EmptySet
  <2>3. Cardinality(L) = IF connecting THEN 1 ELSE 0
    BY <2>1, <2>2
  <2> HIDE DEF L
  <2>4. ~chosen => \A d \in Devices : listeners[d] < Many
    BY DEF LoopInv, ListensOnce, Many
  <2> QED
    BY <2>3, <2>4 DEF L, LoopListensOnce
<1> QED
  BY <1>1, <1>2, LoopHolds, PTL DEF OverlaySpec

-----------------------------------------------------------------------------
(* StatusPayload: the layout *)

\* Every set of natural numbers has a least one: what fails for some number fails
\* for a first one.
LEMMA LeastNat ==
    ASSUME NEW T \in SUBSET Nat, T # {}
    PROVE  \E x \in T : \A y \in T : x <= y
<1> DEFINE R == OpToRel(<, Nat)
<1>1. IsWellFoundedOn(R, Nat)
  BY NatLessThanWellFounded
<1>2. \A x, y \in Nat : y < x => <<y, x>> \in R
  BY DEF OpToRel
<1> HIDE DEF R
<1>3. \E x \in T : \A y \in T : <<y, x>> \notin R
  BY <1>1, WFMin
<1>4. PICK x \in T : \A y \in T : <<y, x>> \notin R
  BY <1>3
<1>5. ASSUME NEW y \in T PROVE x <= y
  <2>1. x \in Nat /\ y \in Nat
    OBVIOUS
  <2>2. ~(y < x)
    BY <1>2, <1>4, <2>1
  <2> QED
    BY <2>1, <2>2
<1> QED
  BY <1>5

\* g is what FlattenSeq computes of the first n sequences, one after another.
Joins(g, n, seqs) == g = [i \in 1 .. n |-> IF i = 1 THEN seqs[i] ELSE g[i - 1] \o seqs[i]]

LEMMA JoinsExist ==
    ASSUME NEW seqs
    PROVE  \A n \in Nat : \E g : Joins(g, n, seqs)
<1> DEFINE T == {n \in Nat : ~ \E g : Joins(g, n, seqs)}
<1> SUFFICES ASSUME T # {} PROVE FALSE
  OBVIOUS
<1>0. T \in SUBSET Nat
  OBVIOUS
<1>1. PICK x \in T : \A y \in T : x <= y
  <2> HIDE DEF T
  <2> QED BY <1>0, LeastNat
<1>2. x \in Nat /\ ~ \E g : Joins(g, x, seqs)
  OBVIOUS
<1>3. ASSUME x = 0 PROVE FALSE
  <2>1. Joins([i \in 1 .. 0 |-> {}], 0, seqs)
    BY DEF Joins
  <2> QED
    BY <1>2, <1>3, <2>1
<1>4. ASSUME x # 0 PROVE FALSE
  <2>1. x - 1 \in Nat /\ x - 1 \notin T
    BY <1>1, <1>2, <1>4
  <2>2. PICK g : Joins(g, x - 1, seqs)
    BY <2>1
  <2> DEFINE joined == IF x = 1 THEN seqs[x] ELSE g[x - 1] \o seqs[x]
             h == [i \in 1 .. x |-> IF i = x THEN joined ELSE g[i]]
  <2>3. ASSUME NEW i \in 1 .. x
        PROVE  h[i] = IF i = 1 THEN seqs[i] ELSE h[i - 1] \o seqs[i]
    <3>1. CASE i = x
      <4>1. h[i] = joined
        BY <3>1
      <4>2. x # 1 => h[i - 1] = g[x - 1]
        BY <1>2, <1>4, <3>1
      <4> HIDE DEF h
      <4> QED
        BY <3>1, <4>1, <4>2
    <3>2. CASE i # x /\ i = 1
      <4>1. 1 \in 1 .. x - 1
        BY <1>2, <3>2
      <4> QED BY <2>2, <3>2, <4>1 DEF Joins
    <3>3. CASE i # x /\ i # 1
      <4>1. i \in 1 .. x - 1 /\ i - 1 \in 1 .. x - 1
        BY <1>2, <3>3
      <4>2. g[i] = g[i - 1] \o seqs[i]
        BY <2>2, <3>3, <4>1 DEF Joins
      <4>3. h[i] = g[i] /\ h[i - 1] = g[i - 1]
        BY <1>2, <4>1
      <4> HIDE DEF h
      <4> QED
        BY <3>3, <4>2, <4>3
    <3> QED
      BY <3>1, <3>2, <3>3
  <2>4. Joins(h, x, seqs)
    <3>1. h = [i \in 1 .. x |-> h[i]]
      OBVIOUS
    <3> HIDE DEF h
    <3> QED
      BY <2>3, <3>1 DEF Joins
  <2> HIDE DEF h
  <2> QED
    BY <1>2, <2>4
<1> QED
  BY <1>3, <1>4

\* The first n sequences have become g, each found where the ones before it end.
Joined(g, n, seqs, off, S) ==
    /\ g \in Seq(S) /\ Len(g) = off[n + 1]
    /\ \A m \in 1 .. n : \A i \in 1 .. Len(seqs[m]) :
           off[m] + i \in 1 .. Len(g) /\ g[off[m] + i] = seqs[m][i]

\* One more sequence stands where the others end.
LEMMA OneMore ==
    ASSUME NEW S, NEW N \in Nat, NEW n \in 1 .. N, NEW seqs, NEW g, NEW off,
           \A m \in 1 .. N : /\ seqs[m] \in Seq(S) /\ Len(seqs[m]) \in Nat /\ off[m] \in Nat
                             /\ off[m + 1] = off[m] + Len(seqs[m]),
           Joined(g, n - 1, seqs, off, S)
    PROVE  Joined(g \o seqs[n], n, seqs, off, S)
<1> DEFINE b == seqs[n]
           h == g \o b
<1>1. n \in 1 .. N /\ n \in Int /\ (n - 1) + 1 = n
  OBVIOUS
<1>2. g \in Seq(S) /\ b \in Seq(S) /\ Len(g) = off[n] /\ Len(b) \in Nat /\ Len(g) \in Nat
  BY <1>1 DEF Joined
<1>3. off[n + 1] = Len(g) + Len(b)
  BY <1>1, <1>2
<1>4. \A m \in 1 .. n - 1 : \A i \in 1 .. Len(seqs[m]) :
          off[m] + i \in 1 .. Len(g) /\ g[off[m] + i] = seqs[m][i]
  BY DEF Joined
<1>5. /\ h \in Seq(S) /\ Len(h) = Len(g) + Len(b)
      /\ \A k \in 1 .. Len(g) + Len(b) : h[k] = IF k <= Len(g) THEN g[k] ELSE b[k - Len(g)]
  <2> HIDE DEF b
  <2> QED BY <1>2, ConcatProperties
<1>6. ASSUME NEW m \in 1 .. n, NEW i \in 1 .. Len(seqs[m])
      PROVE  off[m] + i \in 1 .. Len(h) /\ h[off[m] + i] = seqs[m][i]
  <2>1. CASE m = n
    <3>1. i \in 1 .. Len(b) /\ seqs[m] = b /\ off[m] = Len(g)
      BY <1>2, <2>1
    <3> HIDE DEF b, h
    <3>2. /\ Len(g) + i \in 1 .. Len(g) + Len(b) /\ ~(Len(g) + i <= Len(g))
          /\ (Len(g) + i) - Len(g) = i
      BY <1>2, <3>1
    <3> QED BY <1>5, <3>1, <3>2
  <2>2. CASE m # n
    <3>1. m \in 1 .. n - 1
      BY <1>1, <2>2
    <3>2. off[m] + i \in 1 .. Len(g) /\ g[off[m] + i] = seqs[m][i]
      BY <1>4, <3>1
    <3> DEFINE k == off[m] + i
    <3> HIDE DEF b, h, k
    <3>3. k \in 1 .. Len(g) + Len(b) /\ k <= Len(g)
      BY <1>2, <3>2 DEF k
    <3>4. h[k] = g[k]
      BY <1>5, <3>3
    <3> QED BY <1>5, <3>2, <3>3, <3>4 DEF k
  <2> QED BY <2>1, <2>2
<1> HIDE DEF b, h
<1>7. Len(h) = off[n + 1]
  BY <1>3, <1>5
<1>8. Joined(h, n, seqs, off, S)
  BY <1>5, <1>6, <1>7 DEF Joined
<1> QED BY <1>8 DEF h, b

\* Sequences one after another: each is found where the ones before it end.
LEMMA Flattened ==
    ASSUME NEW S, NEW N \in Nat \ {0}, NEW seqs, Len(seqs) = N, NEW off, off[1] = 0,
           \A n \in 1 .. N : /\ seqs[n] \in Seq(S) /\ Len(seqs[n]) \in Nat /\ off[n] \in Nat
                             /\ off[n + 1] = off[n] + Len(seqs[n])
    PROVE  Joined(FlattenSeq(seqs), N, seqs, off, S)
<1> DEFINE g == CHOOSE f : Joins(f, N, seqs)
<1>1. Joins(g, N, seqs)
  BY JoinsExist
<1>2. FlattenSeq(seqs) = g[N]
  BY DEF FlattenSeq, Joins
<1> HIDE DEF g
<1>3. \A n \in 1 .. N : g[n] = IF n = 1 THEN seqs[n] ELSE g[n - 1] \o seqs[n]
  BY <1>1 DEF Joins
<1> DEFINE T == {n \in 1 .. N : ~Joined(g[n], n, seqs, off, S)}
<1>4. T \in SUBSET Nat
  OBVIOUS
<1>5. ASSUME T # {} PROVE FALSE
  <2>1. PICK x \in T : \A y \in T : x <= y
    <3> HIDE DEF T
    <3> QED BY <1>4, <1>5, LeastNat
  <2>2. x \in 1 .. N /\ ~Joined(g[x], x, seqs, off, S)
    OBVIOUS
  <2>3. CASE x = 1
    <3>1. g[1] = seqs[1] /\ 1 \in 1 .. N /\ seqs[1] \in Seq(S) /\ Len(seqs[1]) \in Nat
      BY <1>3, <2>2, <2>3
    <3>2. off[1] + Len(seqs[1]) = off[1 + 1]
      BY <3>1
    <3>3. off[1 + 1] = Len(seqs[1])
      BY <3>1, <3>2
    <3>4. Joined(seqs[1], 1, seqs, off, S)
      <4>1. ASSUME NEW m \in 1 .. 1, NEW i \in 1 .. Len(seqs[m])
            PROVE  off[m] + i \in 1 .. Len(seqs[1]) /\ seqs[1][off[m] + i] = seqs[m][i]
        BY <3>1
      <4> QED BY <3>1, <3>3, <4>1 DEF Joined
    <3> QED BY <2>2, <2>3, <3>1, <3>4
  <2>4. CASE x # 1
    <3>1. x - 1 \in 1 .. N /\ ~(x <= x - 1)
      BY <2>2, <2>4
    <3>2. Joined(g[x - 1], x - 1, seqs, off, S)
      BY <2>1, <3>1
    <3>3. g[x] = g[x - 1] \o seqs[x]
      BY <1>3, <2>2, <2>4
    <3> DEFINE a == g[x - 1]
    <3> HIDE DEF a
    <3>4. Joined(a, x - 1, seqs, off, S)
      BY <3>2 DEF a
    <3>5. Joined(a \o seqs[x], x, seqs, off, S)
      BY <2>2, <3>4, OneMore
    <3> QED BY <2>2, <3>3, <3>5 DEF a
  <2> QED BY <2>3, <2>4
<1>6. Joined(g[N], N, seqs, off, S)
  <2>1. N \in 1 .. N
    OBVIOUS
  <2>2. T = {}
    BY <1>5
  <2> QED BY <2>1, <2>2
<1> QED BY <1>2, <1>6

\* A field of the struct, the n-th, stands where the tables of the bridge and of the
\* overlay have it, and the next one right behind it.
StartsAt(n) ==
    IF n = 32 THEN 63 ELSE IF n = 31 THEN 56 ELSE statusJsonToPayload[Report[n][1]][1]

Tile(n) ==
    LET f == Report[n][1]
        o == StartsAt(n)
        w == Report[n][2]
    IN  /\ f \in Fields
        /\ o \in Nat /\ w \in Nat \ {0} /\ StartsAt(n + 1) = o + w
        /\ statusJsonToPayload[f] = <<o, w>>
        /\ parseStatusReport[f] = <<o, w>>
        /\ parsePayload[f] = <<o, o + w>>

\* The tables name the fields of the struct, and no other.
LEMMA Tiles ==
    /\ \A n \in 1 .. 30 : Tile(n)
    /\ \A f \in Fields : \E n \in 1 .. 30 : Report[n][1] = f
<1>1. \A n \in 1 .. 30 : Tile(n)
  <2> USE DEF Tile, StartsAt, Report, Fields, statusJsonToPayload, parseStatusReport, parsePayload
  <2>1. Tile(1)
    OBVIOUS
  <2>2. Tile(2)
    OBVIOUS
  <2>3. Tile(3)
    OBVIOUS
  <2>4. Tile(4)
    OBVIOUS
  <2>5. Tile(5)
    OBVIOUS
  <2>6. Tile(6)
    OBVIOUS
  <2>7. Tile(7)
    OBVIOUS
  <2>8. Tile(8)
    OBVIOUS
  <2>9. Tile(9)
    OBVIOUS
  <2>10. Tile(10)
    OBVIOUS
  <2>11. Tile(11)
    OBVIOUS
  <2>12. Tile(12)
    OBVIOUS
  <2>13. Tile(13)
    OBVIOUS
  <2>14. Tile(14)
    OBVIOUS
  <2>15. Tile(15)
    OBVIOUS
  <2>16. Tile(16)
    OBVIOUS
  <2>17. Tile(17)
    OBVIOUS
  <2>18. Tile(18)
    OBVIOUS
  <2>19. Tile(19)
    OBVIOUS
  <2>20. Tile(20)
    OBVIOUS
  <2>21. Tile(21)
    OBVIOUS
  <2>22. Tile(22)
    OBVIOUS
  <2>23. Tile(23)
    OBVIOUS
  <2>24. Tile(24)
    OBVIOUS
  <2>25. Tile(25)
    OBVIOUS
  <2>26. Tile(26)
    OBVIOUS
  <2>27. Tile(27)
    OBVIOUS
  <2>28. Tile(28)
    OBVIOUS
  <2>29. Tile(29)
    OBVIOUS
  <2>30. Tile(30)
    OBVIOUS
  <2> HIDE DEF Tile
  <2> QED
    BY <2>1, <2>2, <2>3, <2>4, <2>5, <2>6, <2>7, <2>8, <2>9, <2>10,
       <2>11, <2>12, <2>13, <2>14, <2>15, <2>16, <2>17, <2>18, <2>19, <2>20,
       <2>21, <2>22, <2>23, <2>24, <2>25, <2>26, <2>27, <2>28, <2>29, <2>30
<1>2. \A f \in Fields : \E n \in 1 .. 30 : Report[n][1] = f
  BY DEF Report, Fields, parsePayload
<1> QED BY <1>1, <1>2

LEMMA ReportIs ==
    /\ Len(Report) = 31 /\ DOMAIN Report = 1 .. 31 /\ Report[31] = <<"reserved", 7>>
    /\ StartsAt(1) = 0 /\ StartsAt(31) = 56 /\ StartsAt(32) = 63
  BY DEF Report, StartsAt, statusJsonToPayload

\* The n-th field's place, as numbers.
LEMMA FieldIs ==
    /\ \A n \in 1 .. 31 : /\ StartsAt(n) \in Nat /\ Report[n][2] \in Nat \ {0}
                          /\ StartsAt(n + 1) = StartsAt(n) + Report[n][2]
    /\ \A n \in 1 .. 32 : StartsAt(n) \in Nat
<1>1. ASSUME NEW n \in 1 .. 31
      PROVE  /\ StartsAt(n) \in Nat /\ Report[n][2] \in Nat \ {0}
             /\ StartsAt(n + 1) = StartsAt(n) + Report[n][2]
  <2>1. CASE n = 31
    <3>1. Report[n][2] = 7 /\ StartsAt(n) = 56 /\ StartsAt(n + 1) = 63
      BY <2>1, ReportIs
    <3> QED BY <3>1
  <2>2. CASE n # 31
    <3>1. n \in 1 .. 30
      BY <2>2
    <3>2. Tile(n)
      BY <3>1, Tiles
    <3> QED BY <3>2 DEF Tile
  <2> QED BY <2>1, <2>2
<1>2. \A n \in 1 .. 32 : StartsAt(n) \in Nat
  BY <1>1, ReportIs
<1> QED BY <1>1, <1>2

\* A field's bytes are as many as it has, whatever they come from.
Byte == {<<Report[n][1], i, v>> : n \in 1 .. 31, i \in Int, v \in Int}

LEMMA WrittenIs ==
    ASSUME NEW source \in [Parts -> Nat], NEW n \in 1 .. 31
    PROVE  LET field == Report[n][1]
               width == Report[n][2]
               written == Written(field, width, source)
           IN  /\ written \in Seq(Byte) /\ Len(written) = width
               /\ \A i \in 1 .. width : written[i] =
                     <<field, i, IF PartOf(field) = "none" THEN 0 ELSE source[PartOf(field)]>>
<1> DEFINE field == Report[n][1]
           width == Report[n][2]
           v == IF PartOf(field) = "none" THEN 0 ELSE source[PartOf(field)]
<1>1. PartOf(field) \in Parts \cup {"none"}
  BY DEF PartOf, Parts, LastByte
<1>2. v \in Int
  BY <1>1
<1>3. Written(field, width, source) = [i \in 1 .. width |-> <<field, i, v>>]
  BY DEF Written
<1>4. width \in Nat
  BY FieldIs
<1> HIDE DEF v, width
<1> DEFINE g == [i \in 1 .. width |-> <<field, i, v>>]
<1>5. ASSUME NEW i \in 1 .. width PROVE <<field, i, v>> \in Byte
  <2>1. i \in Int
    OBVIOUS
  <2> QED BY <1>2, <2>1 DEF Byte, field
<1>6. g \in [1 .. width -> Byte]
  BY <1>5
<1>7. \A i \in 1 .. width : g[i] = <<field, i, v>>
  OBVIOUS
<1> HIDE DEF g
<1>8. g \in Seq(Byte) /\ Len(g) = width
  BY <1>6, <1>4
<1> QED BY <1>3, <1>7, <1>8 DEF v, g, field, width

\* A field begins where an earlier one has ended.
LEMMA NoOverlap ==
    ASSUME NEW m \in 1 .. 32, NEW n \in 1 .. 32, m < n
    PROVE  StartsAt(m) + Report[m][2] <= StartsAt(n)
<1> DEFINE T == {k \in 1 .. 32 : m < k /\ ~(StartsAt(m) + Report[m][2] <= StartsAt(k))}
<1>1. T \in SUBSET Nat
  OBVIOUS
<1>2. ASSUME T # {} PROVE FALSE
  <2>1. PICK x \in T : \A y \in T : x <= y
    <3> HIDE DEF T
    <3> QED BY <1>1, <1>2, LeastNat
  <2>2. x \in 1 .. 32 /\ m < x /\ ~(StartsAt(m) + Report[m][2] <= StartsAt(x))
    OBVIOUS
  <2>3. m \in 1 .. 31 /\ x - 1 \in 1 .. 31 /\ (x - 1) + 1 = x /\ x - 1 \in Int
    BY <2>2
  <2>4. /\ StartsAt(m) \in Nat /\ Report[m][2] \in Nat
        /\ StartsAt(x - 1) \in Nat /\ Report[x - 1][2] \in Nat
        /\ StartsAt(x) = StartsAt(x - 1) + Report[x - 1][2]
    BY <2>3, FieldIs
  <2>5. CASE m = x - 1
    BY <2>2, <2>4, <2>5
  <2>6. CASE m # x - 1
    <3>1. m < x - 1 /\ ~(x <= x - 1) /\ x - 1 \in 1 .. 32
      BY <2>2, <2>3, <2>6
    <3>2. StartsAt(m) + Report[m][2] <= StartsAt(x - 1)
      BY <2>1, <3>1
    <3> QED BY <2>2, <2>4, <3>2
  <2> QED BY <2>5, <2>6
<1> QED BY <1>2

\* Every byte of the struct belongs to a field.
LEMMA NoGap ==
    ASSUME NEW i \in 1 .. 63
    PROVE  \E n \in 1 .. 31 : StartsAt(n) < i /\ i <= StartsAt(n) + Report[n][2]
<1> DEFINE T == {k \in 1 .. 32 : i <= StartsAt(k)}
<1>1. T \in SUBSET Nat
  OBVIOUS
<1>2. 32 \in T
  BY ReportIs
<1>3. PICK x \in T : \A y \in T : x <= y
  <2> HIDE DEF T
  <2> QED BY <1>1, <1>2, LeastNat
<1>4. x \in 1 .. 32 /\ i <= StartsAt(x) /\ x # 1
  BY ReportIs
<1>5. x - 1 \in 1 .. 31 /\ x - 1 \in 1 .. 32 /\ ~(x <= x - 1) /\ (x - 1) + 1 = x
  BY <1>4
<1>6. ~(i <= StartsAt(x - 1))
  BY <1>3, <1>5
<1>7. StartsAt(x - 1) \in Nat /\ StartsAt(x) = StartsAt(x - 1) + Report[x - 1][2]
  BY <1>5, FieldIs
<1>8. StartsAt(x - 1) < i /\ i <= StartsAt(x - 1) + Report[x - 1][2]
  BY <1>4, <1>6, <1>7
<1> QED BY <1>5, <1>8

\* The payload is the struct, field by field.
LaidOut ==
    /\ Payload \in Seq(Byte) /\ Len(Payload) = 63
    /\ \A n \in 1 .. 31 : \A i \in 1 .. Report[n][2] :
          /\ StartsAt(n) + i \in 1 .. 63
          /\ Payload[StartsAt(n) + i] = Written(Report[n][1], Report[n][2], from)[i]

LEMMA PayloadLaidOut == ASSUME from \in [Parts -> Nat] PROVE LaidOut
<1> DEFINE W(n) == Written(Report[n][1], Report[n][2], from)
           seqs == [n \in 1 .. 31 |-> W(n)]
           off == [n \in 1 .. 32 |-> StartsAt(n)]
<1>1. Payload = FlattenSeq(seqs)
  BY ReportIs DEF Payload
<1>2. \A n \in 1 .. 31 : W(n) \in Seq(Byte) /\ Len(W(n)) = Report[n][2]
  BY FieldIs, WrittenIs
<1> HIDE DEF W
<1>3. Len(seqs) = 31
  OBVIOUS
<1>4. \A n \in 1 .. 31 : seqs[n] = W(n)
  OBVIOUS
<1>5. \A n \in 1 .. 32 : off[n] = StartsAt(n)
  OBVIOUS
<1> HIDE DEF seqs, off
<1>6. \A n \in 1 .. 31 : /\ seqs[n] \in Seq(Byte) /\ Len(seqs[n]) \in Nat
                         /\ Len(seqs[n]) = Report[n][2]
  BY <1>2, <1>4, FieldIs
<1>7. ASSUME NEW n \in 1 .. 31 PROVE off[n] \in Nat /\ off[n + 1] = off[n] + Len(seqs[n])
  <2>1. n \in 1 .. 32 /\ n + 1 \in 1 .. 32
    OBVIOUS
  <2>2. off[n] = StartsAt(n) /\ off[n + 1] = StartsAt(n + 1)
    BY <1>5, <2>1
  <2> QED BY <1>6, <2>2, FieldIs
<1>8. off[1] = 0 /\ off[31 + 1] = 63
  BY <1>5, ReportIs
<1>9. Joined(FlattenSeq(seqs), 31, seqs, off, Byte)
  <2>1. \A n \in 1 .. 31 : /\ seqs[n] \in Seq(Byte) /\ Len(seqs[n]) \in Nat /\ off[n] \in Nat
                           /\ off[n + 1] = off[n] + Len(seqs[n])
    BY <1>6, <1>7
  <2>2. 31 \in Nat \ {0} /\ off[1] = 0
    BY <1>8
  <2> QED BY <1>3, <2>1, <2>2, Flattened
<1>10. Payload \in Seq(Byte) /\ Len(Payload) = 63
  BY <1>1, <1>8, <1>9 DEF Joined
<1>11. ASSUME NEW n \in 1 .. 31, NEW i \in 1 .. Report[n][2]
       PROVE  StartsAt(n) + i \in 1 .. 63 /\ Payload[StartsAt(n) + i] = W(n)[i]
  <2>1. off[n] = StartsAt(n) /\ seqs[n] = W(n)
    BY <1>4, <1>5
  <2>3. i \in 1 .. Len(seqs[n])
    BY <1>6
  <2>2. off[n] + i \in 1 .. 63 /\ FlattenSeq(seqs)[off[n] + i] = seqs[n][i]
    BY <1>1, <1>9, <1>10, <2>3 DEF Joined
  <2> QED BY <1>1, <2>1, <2>2
<1> QED BY <1>10, <1>11 DEF W, LaidOut

LEMMA PayloadIs ==
    ASSUME from \in [Parts -> Nat]
    PROVE  Payload \in Seq(Byte) /\ Len(Payload) = 63 /\ Payload \in [1 .. 63 -> Byte]
<1>1. Payload \in Seq(Byte) /\ Len(Payload) = 63
  BY PayloadLaidOut DEF LaidOut
<1> QED BY <1>1, LenProperties

LEMMA PayloadAt ==
    ASSUME from \in [Parts -> Nat], NEW n \in 1 .. 31, NEW i \in 1 .. Report[n][2]
    PROVE  /\ StartsAt(n) + i \in 1 .. 63
           /\ Payload[StartsAt(n) + i] = Written(Report[n][1], Report[n][2], from)[i]
<1>1. LaidOut
  BY PayloadLaidOut
<1>2. \A m \in 1 .. 31 : \A j \in 1 .. Report[m][2] :
          /\ StartsAt(m) + j \in 1 .. 63
          /\ Payload[StartsAt(m) + j] = Written(Report[m][1], Report[m][2], from)[j]
  BY <1>1 DEF LaidOut
<1>3. \A j \in 1 .. Report[n][2] :
          /\ StartsAt(n) + j \in 1 .. 63
          /\ Payload[StartsAt(n) + j] = Written(Report[n][1], Report[n][2], from)[j]
  BY <1>2
<1>4. StartsAt(n) + i \in 1 .. 63
  BY <1>3
<1>5. Payload[StartsAt(n) + i] = Written(Report[n][1], Report[n][2], from)[i]
  BY <1>3
<1> QED BY <1>4, <1>5

\* The bytes of a field, cut out of the payload.
LEMMA CutOut ==
    ASSUME from \in [Parts -> Nat], NEW n \in 1 .. 30
    PROVE  SubSeq(Payload, StartsAt(n) + 1, StartsAt(n) + Report[n][2])
             = Written(Report[n][1], Report[n][2], from)
<1> DEFINE o == StartsAt(n)
           w == Report[n][2]
           cut == SubSeq(Payload, o + 1, o + w)
           written == Written(Report[n][1], w, from)
<1>1. n \in 1 .. 31 /\ o \in Nat /\ w \in Nat \ {0}
  BY FieldIs
<1>2. written \in Seq(Byte) /\ Len(written) = w
  BY <1>1, WrittenIs
<1>3. \A i \in 1 .. w : o + i \in 1 .. 63 /\ Payload[o + i] = written[i]
  BY <1>1, PayloadAt
<1> HIDE DEF o, w, written
<1>4. \A k \in o + 1 .. o + w : Payload[k] \in Byte
  <2> SUFFICES ASSUME NEW k \in o + 1 .. o + w PROVE Payload[k] \in Byte
    OBVIOUS
  <2>1. k - o \in 1 .. w /\ o + (k - o) = k
    BY <1>1
  <2>2. k \in 1 .. 63
    BY <1>3, <2>1
  <2>3. Payload \in [1 .. 63 -> Byte]
    BY PayloadIs
  <2> QED BY <2>2, <2>3
<1>5. /\ cut \in Seq(Byte) /\ Len(cut) = w
      /\ \A i \in 1 .. w : cut[i] = Payload[o + i]
  <2>1. /\ cut \in Seq(Byte)
        /\ Len(cut) = IF o + 1 <= o + w THEN (o + w) - (o + 1) + 1 ELSE 0
        /\ \A i \in 1 .. (o + w) - (o + 1) + 1 : cut[i] = Payload[(o + 1) + i - 1]
    <3>1. o + 1 \in Int /\ o + w \in Int
      BY <1>1
    <3> QED BY <1>4, <3>1, SubSeqProperties
  <2> HIDE DEF cut
  <2>2. (o + w) - (o + 1) + 1 = w /\ o + 1 <= o + w
    BY <1>1
  <2>3. \A i \in 1 .. w : (o + 1) + i - 1 = o + i
    BY <1>1
  <2> QED BY <2>1, <2>2, <2>3
<1> HIDE DEF cut
<1>6. \A i \in 1 .. w : cut[i] = written[i]
  BY <1>3, <1>5
<1>7. cut = written
  BY <1>2, <1>5, <1>6, SeqEqual
<1> QED BY <1>7 DEF cut, written, o, w

\* What the overlay shows of the struct, and what the bridge tells of it.
LEMMA ShownIs ==
    ASSUME from \in [Parts -> Nat], NEW n \in 1 .. 30
    PROVE  /\ Report[n][1] \in Fields
           /\ Shown(Payload)[Report[n][1]] = Written(Report[n][1], Report[n][2], from)
           /\ Message(Payload)[Report[n][1]] = Written(Report[n][1], Report[n][2], from)
<1> DEFINE f == Report[n][1]
           o == StartsAt(n)
           w == Report[n][2]
<1>1. f \in Fields /\ parseStatusReport[f] = <<o, w>> /\ parsePayload[f] = <<o, o + w>>
  BY Tiles DEF Tile
<1>2. SubSeq(Payload, o + 1, o + w) = Written(f, w, from)
  BY CutOut
<1> HIDE DEF f, o, w
<1>3. Shown(Payload)[f] = SubSeq(Payload, o + 1, o + w)
  <2>1. Shown(Payload)[f] = SubSeq(Payload, parseStatusReport[f][1] + 1,
                                   parseStatusReport[f][1] + parseStatusReport[f][2])
    BY <1>1 DEF Shown
  <2>2. parseStatusReport[f][1] = o /\ parseStatusReport[f][2] = w
    BY <1>1
  <2> QED BY <2>1, <2>2
<1>4. Message(Payload)[f] = SubSeq(Payload, o + 1, o + w)
  <2>1. Message(Payload)[f] = SubSeq(Payload, parsePayload[f][1] + 1, parsePayload[f][2])
    BY <1>1 DEF Message
  <2>2. parsePayload[f][1] = o /\ parsePayload[f][2] = o + w
    BY <1>1
  <2> QED BY <2>1, <2>2
<1> QED BY <1>1, <1>2, <1>3, <1>4 DEF f, w

\* The overlay builds the very bytes again.
LEMMA RebuiltIs ==
    ASSUME from \in [Parts -> Nat]
    PROVE  Rebuilt(Message(Payload)) = Payload
<1> DEFINE rebuilt == Rebuilt(Message(Payload))
           Covers(f, i) == i - 1 - statusJsonToPayload[f][1] \in 0 .. statusJsonToPayload[f][2] - 1
           at(i) == {f \in Fields : Covers(f, i)}
           body(i) == IF at(i) = {} THEN <<"reserved", i - 56, 0>>
                      ELSE LET f == CHOOSE g \in at(i) : TRUE
                           IN  Message(Payload)[f][i - statusJsonToPayload[f][1]]
<1>1A. rebuilt = [i \in 1 .. 63 |-> body(i)]
  BY DEF Rebuilt
<1>1. ASSUME NEW m \in 1 .. 30
      PROVE  /\ Report[m][1] \in Fields
             /\ statusJsonToPayload[Report[m][1]][1] = StartsAt(m)
             /\ statusJsonToPayload[Report[m][1]][2] = Report[m][2]
  <2>1. Tile(m)
    BY Tiles
  <2> DEFINE o == StartsAt(m)
             w == Report[m][2]
             f == Report[m][1]
  <2>2. f \in Fields /\ statusJsonToPayload[f] = <<o, w>>
    BY <2>1 DEF Tile
  <2> HIDE DEF o, w, f
  <2>3. statusJsonToPayload[f][1] = o /\ statusJsonToPayload[f][2] = w
    BY <2>2
  <2> QED BY <2>2, <2>3 DEF o, w, f
<1>2. ASSUME NEW i \in 1 .. 63, NEW m \in 1 .. 30, Covers(Report[m][1], i)
      PROVE  StartsAt(m) < i /\ i <= StartsAt(m) + Report[m][2]
  <2>1. StartsAt(m) \in Nat /\ Report[m][2] \in Nat
    BY FieldIs
  <2>2. i - 1 - StartsAt(m) \in 0 .. Report[m][2] - 1
    BY <1>1, <1>2
  <2> QED BY <2>1, <2>2
<1>3. ASSUME NEW i \in 1 .. 63, NEW n \in 1 .. 31,
             StartsAt(n) < i, i <= StartsAt(n) + Report[n][2],
             NEW f \in at(i)
      PROVE  n \in 1 .. 30 /\ f = Report[n][1]
  <2>1. PICK m \in 1 .. 30 : Report[m][1] = f
    BY Tiles
  <2>2. StartsAt(m) < i /\ i <= StartsAt(m) + Report[m][2]
    BY <1>2, <2>1
  <2>3. /\ StartsAt(m) \in Nat /\ Report[m][2] \in Nat
        /\ StartsAt(n) \in Nat /\ Report[n][2] \in Nat
    BY FieldIs
  <2>4. ~(m < n)
    BY <1>3, <2>2, <2>3, NoOverlap
  <2>5. ~(n < m)
    BY <1>3, <2>2, <2>3, NoOverlap
  <2>6. m = n
    BY <2>4, <2>5
  <2> QED BY <2>1, <2>6
<1>4. ASSUME NEW i \in 1 .. 63 PROVE rebuilt[i] = Payload[i]
  <2>1. PICK n \in 1 .. 31 : StartsAt(n) < i /\ i <= StartsAt(n) + Report[n][2]
    BY NoGap
  <2>2. StartsAt(n) \in Nat /\ Report[n][2] \in Nat
    BY FieldIs
  <2>3. i - StartsAt(n) \in 1 .. Report[n][2] /\ StartsAt(n) + (i - StartsAt(n)) = i
    BY <2>1, <2>2
  <2>4. Payload[i] = Written(Report[n][1], Report[n][2], from)[i - StartsAt(n)]
    <3> DEFINE k == i - StartsAt(n)
    <3>1. k \in 1 .. Report[n][2] /\ StartsAt(n) + k = i
      BY <2>3
    <3> HIDE DEF k, rebuilt, body, at
    <3>2. Payload[StartsAt(n) + k] = Written(Report[n][1], Report[n][2], from)[k]
      BY <3>1, PayloadAt
    <3> QED BY <3>1, <3>2 DEF k
  <2>5. rebuilt[i] = body(i)
    <3> HIDE DEF body, rebuilt
    <3> QED BY <1>1A
  <2>6. CASE n = 31
    <3>1. at(i) = {}
      <4>1. ASSUME NEW f \in at(i) PROVE FALSE
        <5>1. n \in 1 .. 30
          <6> HIDE DEF at
          <6> QED BY <1>3, <2>1
        <5> QED BY <2>6, <5>1
      <4> QED BY <4>1
    <3>2. PartOf("reserved") = "none"
      BY DEF PartOf
    <3>3. Written("reserved", 7, from)[i - 56] = <<"reserved", i - 56, 0>>
      BY <2>3, <2>6, <3>2, ReportIs DEF Written
    <3> HIDE DEF at, rebuilt
    <3> QED BY <2>4, <2>5, <2>6, <3>1, <3>3, ReportIs
  <2>7. CASE n # 31
    <3>1. n \in 1 .. 30
      BY <2>7
    <3>2. Report[n][1] \in at(i)
      <4>1. i - 1 - StartsAt(n) \in 0 .. Report[n][2] - 1
        BY <2>1, <2>2
      <4> QED BY <1>1, <3>1, <4>1
    <3> DEFINE g == CHOOSE h \in at(i) : TRUE
    <3>3. g \in at(i)
      <4> HIDE DEF at
      <4> QED BY <3>2
    <3>4. g = Report[n][1]
      <4> HIDE DEF at, g
      <4> QED BY <1>3, <2>1, <3>3
    <3>5. rebuilt[i] = Message(Payload)[g][i - statusJsonToPayload[g][1]]
      <4> HIDE DEF at, rebuilt
      <4> QED BY <2>5, <3>2
    <3> HIDE DEF g, at, rebuilt
    <3>6. rebuilt[i] = Message(Payload)[Report[n][1]][i - StartsAt(n)]
      BY <1>1, <3>1, <3>4, <3>5
    <3>7. Message(Payload)[Report[n][1]] = Written(Report[n][1], Report[n][2], from)
      BY <3>1, ShownIs
    <3> QED BY <2>4, <3>6, <3>7
  <2> QED BY <2>6, <2>7
<1>5. rebuilt = [i \in 1 .. 63 |-> rebuilt[i]]
  <2> HIDE DEF body, rebuilt
  <2> QED BY <1>1A
<1>6. Payload = [i \in 1 .. 63 |-> Payload[i]]
  <2>1. Payload \in [1 .. 63 -> Byte]
    BY PayloadIs
  <2> QED BY <2>1
<1> HIDE DEF rebuilt
<1>7. rebuilt = Payload
  BY <1>4, <1>5, <1>6
<1> QED BY <1>7 DEF rebuilt

-----------------------------------------------------------------------------
(* StatusPayload: what the firmware takes of a report *)

\* The touch points the last report was long enough for.
Felt == {i \in last.touching : carried[IF i = 0 THEN "touch0" ELSE "touch1"] = last.number}

\* Every part is of the last report that carried it; buttons and touches are of the
\* last report or of none.
TakesTheLastWord ==
    /\ last.number \in Nat /\ last.touching \subseteq {0, 1}
    /\ carried \in [Parts -> Nat] /\ \A p \in Parts : carried[p] <= last.number
    /\ from \in [Parts -> Nat] /\ from = Wanted
    /\ bits = IF Wanted["buttons"] = 0 THEN {}
              ELSE {c - 1 : c \in {d \in DOMAIN ButtonOrder : ButtonOrder[d] \in last.pressed}}
    /\ last.number > 0 => flags = FlagsOf(Felt)

\* The firmware takes the parts a report is long enough for.
LEMMA TakesWhatIsThere ==
    ASSUME NEW len \in 1 .. 64, NEW p \in Parts
    PROVE  p \in PartsOfInput(len) <=> Carries(len, p)
<1>1. len \in Int /\ 1 <= len
  OBVIOUS
<1>2. p \in {"sticks", "buttons", "gyro", "accel", "touch0", "touch1", "lean"}
  BY DEF Parts, LastByte
<1> QED BY <1>1, <1>2 DEF PartsOfInput, Carries, LastByte, HasTouch, kReportBase

LEMMA PartsAre == {"buttons", "touch0", "touch1"} \subseteq Parts
  BY DEF Parts, LastByte

LEMMA InputTakes ==
    ASSUME TakesTheLastWord, NEW len \in 1 .. 64, NEW pressed, NEW touching \in SUBSET {0, 1},
           UpdateFromInput(len, pressed, touching)
    PROVE  TakesTheLastWord'
<1> DEFINE number == last.number + 1
<1>1. /\ last' = [number |-> number, len |-> len, pressed |-> pressed, touching |-> touching]
      /\ carried' = [p \in Parts |-> IF Carries(len, p) THEN number ELSE carried[p]]
      /\ from' = [p \in Parts |->
            IF p \in PartsOfInput(len) THEN number ELSE IF p \in LetGo THEN 0 ELSE from[p]]
      /\ flags' = FlagsOf(TouchesSeen(len, touching)) /\ active_mode' = active_mode
      /\ bits' = IF "buttons" \in PartsOfInput(len)
                 THEN {b - 1 : b \in {c \in DOMAIN ButtonOrder : ButtonOrder[c] \in pressed}}
                 ELSE {}
  BY DEF UpdateFromInput
<1>2. last.number \in Nat /\ number \in Nat /\ number > 0 /\ number > last.number
  BY DEF TakesTheLastWord
<1>3. /\ last'.number = number /\ last'.pressed = pressed /\ last'.touching = touching
  BY <1>1
<1> HIDE DEF number
<1>4. ASSUME NEW p \in Parts
      PROVE  /\ carried'[p] \in Nat /\ carried'[p] <= number
             /\ Carries(len, p) => carried'[p] = number
             /\ ~Carries(len, p) => carried'[p] = carried[p] /\ carried'[p] # number
  BY <1>1, <1>2 DEF TakesTheLastWord
<1>5. carried' \in [Parts -> Nat] /\ \A p \in Parts : carried'[p] <= number
  BY <1>1, <1>4
<1>6. ASSUME NEW p \in Parts
      PROVE  from'[p] \in Nat /\ from'[p] = Wanted'[p]
  <2>1. Wanted'[p] = IF p \in LetGo /\ carried'[p] # number THEN 0 ELSE carried'[p]
    BY <1>3 DEF Wanted
  <2>2. p \in PartsOfInput(len) <=> Carries(len, p)
    BY TakesWhatIsThere
  <2>3. from'[p] = IF Carries(len, p) THEN number ELSE IF p \in LetGo THEN 0 ELSE from[p]
    BY <1>1, <2>2
  <2>4. p \notin LetGo => from[p] = carried[p]
    BY DEF TakesTheLastWord, Wanted
  <2>5. carried[p] \in Nat
    BY DEF TakesTheLastWord
  <2> QED BY <1>2, <1>4, <2>1, <2>3, <2>4, <2>5
<1>7. from' \in [Parts -> Nat] /\ from' = Wanted'
  <2>1. from' = [p \in Parts |-> from'[p]] /\ Wanted' = [p \in Parts |-> Wanted'[p]]
    BY <1>1 DEF Wanted
  <2> QED BY <1>6, <2>1
<1>8. bits' = IF Wanted'["buttons"] = 0 THEN {}
              ELSE {c - 1 : c \in {d \in DOMAIN ButtonOrder : ButtonOrder[d] \in last'.pressed}}
  <2>1. "buttons" \in PartsOfInput(len) <=> Carries(len, "buttons")
    BY PartsAre, TakesWhatIsThere
  <2>2. Wanted'["buttons"] = IF Carries(len, "buttons") THEN number ELSE 0
    BY <1>3, <1>4, PartsAre DEF Wanted, LetGo
  <2> QED BY <1>1, <1>2, <1>3, <2>1, <2>2
<1>9. flags' = FlagsOf(Felt)'
  <2>1. Felt' = {i \in touching : carried'[IF i = 0 THEN "touch0" ELSE "touch1"] = number}
    BY <1>3 DEF Felt
  <2>2. carried'["touch0"] = number <=> HasTouch(0, len)
    BY <1>4, PartsAre DEF Carries, LastByte, HasTouch, kReportBase
  <2>3. carried'["touch1"] = number <=> HasTouch(1, len)
    BY <1>4, PartsAre DEF Carries, LastByte, HasTouch, kReportBase
  <2>4. Felt' = TouchesSeen(len, touching)
    BY <2>1, <2>2, <2>3 DEF TouchesSeen
  <2>5. FlagsOf(Felt)' = FlagsOf(Felt')
    BY <1>1 DEF FlagsOf, GyroMouseArmed, GyroStickArmed
  <2> QED BY <1>1, <2>4, <2>5
<1> QED BY <1>2, <1>3, <1>5, <1>7, <1>8, <1>9 DEF TakesTheLastWord

AllReset == from = FromNone /\ bits = {} /\ last = NoReport /\ carried = FromNone

LEMMA ResetTakes == ASSUME AllReset PROVE TakesTheLastWord
<1>1. FromNone \in [Parts -> Nat] /\ \A p \in Parts : FromNone[p] = 0
  BY DEF FromNone
<1>2. last.number = 0 /\ last.touching = {}
  BY DEF NoReport, AllReset
<1>3. \A p \in Parts : Wanted[p] = 0
  BY <1>1, <1>2 DEF Wanted, AllReset
<1>4. from = Wanted
  BY <1>3 DEF FromNone, Wanted, AllReset
<1>5. Wanted["buttons"] = 0
  BY <1>3, PartsAre
<1> QED BY <1>1, <1>2, <1>4, <1>5 DEF TakesTheLastWord, AllReset

\* Each button of the overlay is lit by the bit it has in the mask.
LEMMA Lamps ==
    \A b \in DOMAIN BUTTONS :
        /\ BUTTONS[b] \in Nat /\ BUTTONS[b] + 1 \in DOMAIN ButtonOrder
        /\ ButtonOrder[BUTTONS[b] + 1] = b
  BY DEF BUTTONS, ButtonOrder

\* The buttons lit are those pressed that have a lamp.
LEMMA LitIs ==
    ASSUME TakesTheLastWord
    PROVE  Lit = IF Wanted["buttons"] = 0 THEN {} ELSE last.pressed \cap DOMAIN BUTTONS
<1>1. CASE Wanted["buttons"] = 0
  BY <1>1 DEF TakesTheLastWord, Lit
<1>2. CASE Wanted["buttons"] # 0
  <2>1. bits = {c - 1 : c \in {d \in DOMAIN ButtonOrder : ButtonOrder[d] \in last.pressed}}
    BY <1>2 DEF TakesTheLastWord
  <2>2. DOMAIN ButtonOrder \subseteq Int
    BY DEF ButtonOrder
  <2>3. ASSUME NEW b \in DOMAIN BUTTONS
        PROVE  BUTTONS[b] \in bits <=> b \in last.pressed
    <3> DEFINE n == BUTTONS[b]
    <3>1. n \in Int /\ n + 1 \in DOMAIN ButtonOrder /\ ButtonOrder[n + 1] = b
      BY Lamps
    <3> HIDE DEF n
    <3>2. ASSUME n \in bits PROVE b \in last.pressed
      <4>1. PICK c \in DOMAIN ButtonOrder : ButtonOrder[c] \in last.pressed /\ n = c - 1
        BY <2>1, <3>2
      <4>2. c = n + 1
        BY <2>2, <4>1
      <4> QED BY <3>1, <4>1, <4>2
    <3>3. ASSUME b \in last.pressed PROVE n \in bits
      <4>1. (n + 1) - 1 = n
        BY <3>1
      <4> QED BY <2>1, <3>1, <3>3, <4>1
    <3> QED BY <3>2, <3>3 DEF n
  <2> QED BY <1>2, <2>3 DEF Lit
<1> QED BY <1>1, <1>2

\* The flags shown are those of what was felt.
LEMMA FlagsAre ==
    ASSUME NEW felt \in SUBSET {0, 1}, flags = FlagsOf(felt)
    PROVE  FlagsShown =
               {"connected"} \cup
               {f \in {"touch0"} : 0 \in felt} \cup {f \in {"touch1"} : 1 \in felt} \cup
               {f \in {"gyroMouse"} : felt # {} /\ active_mode \in {"kKeyboardMouse", "kHybrid"}} \cup
               {f \in {"gyroStick"} : felt # {} /\ active_mode = "kGyroStick"}
<1>1. DOMAIN FLAGS = {"connected", "touch0", "touch1", "gyroMouse", "gyroStick"}
  BY DEF FLAGS
<1>2. /\ FLAGS["connected"] = 0 /\ FLAGS["touch0"] = 1 /\ FLAGS["touch1"] = 2
      /\ FLAGS["gyroMouse"] = 3 /\ FLAGS["gyroStick"] = 4
  BY DEF FLAGS
<1>3. /\ 0 \in flags
      /\ 1 \in flags <=> 0 \in felt
      /\ 2 \in flags <=> 1 \in felt
      /\ 3 \in flags <=> GyroMouseArmed(felt)
      /\ 4 \in flags <=> GyroStickArmed(felt)
  BY DEF FlagsOf
<1> QED BY <1>1, <1>2, <1>3 DEF FlagsShown, GyroMouseArmed, GyroStickArmed

\* What the firmware takes, the overlay shows.
LEMMA TakenIsShown == ASSUME TakesTheLastWord PROVE ReadsAsWritten
<1>1. from \in [Parts -> Nat] /\ from = Wanted
  BY DEF TakesTheLastWord
<1>2. Len(Payload) = 63
  BY <1>1, PayloadIs
<1>3. ASSUME NEW r \in Range(Report), r[1] \in Fields
      PROVE  /\ Shown(Payload)[r[1]] = Written(r[1], r[2], Wanted)
             /\ Shown(Rebuilt(Message(Payload)))[r[1]] = Shown(Payload)[r[1]]
  <2>1. PICK n \in 1 .. 31 : r = Report[n]
    BY ReportIs DEF Range
  <2>2. n # 31
    <3>1. "reserved" \notin Fields
      BY DEF Fields, parsePayload
    <3> QED BY <1>3, <2>1, <3>1, ReportIs
  <2>3. n \in 1 .. 30
    BY <2>2
  <2>4. Shown(Payload)[r[1]] = Written(r[1], r[2], Wanted)
    BY <1>1, <2>1, <2>3, ShownIs
  <2>5. Rebuilt(Message(Payload)) = Payload
    BY <1>1, RebuiltIs
  <2> QED BY <2>4, <2>5
<1>4. Lit = IF Wanted["buttons"] = 0 THEN {} ELSE last.pressed \cap DOMAIN BUTTONS
  BY LitIs
<1>5. Felt \in SUBSET {0, 1} /\ (last.number > 0 => flags = FlagsOf(Felt))
  BY DEF TakesTheLastWord, Felt
<1> DEFINE lamps ==
               {"connected"} \cup
               {f \in {"touch0"} : 0 \in Felt} \cup {f \in {"touch1"} : 1 \in Felt} \cup
               {f \in {"gyroMouse"} : Felt # {} /\ active_mode \in {"kKeyboardMouse", "kHybrid"}} \cup
               {f \in {"gyroStick"} : Felt # {} /\ active_mode = "kGyroStick"}
<1>6. last.number > 0 => FlagsShown = lamps
  BY <1>5, FlagsAre
<1> QED BY <1>2, <1>3, <1>4, <1>6 DEF ReadsAsWritten, Felt

\* For any number of reports of any lengths that press any buttons, and resets between
\* them: the overlay shows every field as the struct has it, alone or through the
\* bridge, and each the last word a report long enough for it had (UpdateFromInput,
\* parsePayload, statusJsonToPayload, parseStatusReport).
THEOREM PayloadReads == PayloadSpec => []ReadsAsWritten
<1>1. AllReset => TakesTheLastWord
  BY ResetTakes
<1>2. AllReset' => TakesTheLastWord'
  BY <1>1, PTL
<1>3. PayloadInit => AllReset
  BY DEF PayloadInit, AllReset
<1>4. TakesTheLastWord /\ [PayloadNext]_payloadVars => TakesTheLastWord'
  <2> SUFFICES ASSUME TakesTheLastWord, [PayloadNext]_payloadVars PROVE TakesTheLastWord'
    OBVIOUS
  <2>1. ASSUME NEW len \in Lengths, NEW pressed \in SUBSET Pressable,
               NEW touching \in SUBSET {0, 1}, UpdateFromInput(len, pressed, touching)
        PROVE  TakesTheLastWord'
    <3>1. len \in 1 .. 64
      BY PayloadAssumption
    <3> QED BY <2>1, <3>1, InputTakes
  <2>2. ASSUME NEW connected \in BOOLEAN, ResetPayload(connected) PROVE TakesTheLastWord'
    BY <1>2, <2>2 DEF ResetPayload, AllReset, FromNone
  <2>3. ASSUME UNCHANGED payloadVars PROVE TakesTheLastWord'
    BY <2>3 DEF payloadVars, TakesTheLastWord, Wanted, Felt, FlagsOf, GyroMouseArmed, GyroStickArmed
  <2> QED BY <2>1, <2>2, <2>3 DEF PayloadNext
<1>5. TakesTheLastWord => ReadsAsWritten
  BY TakenIsShown
<1> QED BY <1>1, <1>3, <1>4, <1>5, PTL DEF PayloadSpec
=============================================================================
