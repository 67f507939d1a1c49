--------------------------- MODULE StatusReaders ----------------------------
(***************************************************************************)
(* How the status bridge finds and reads the status interface              *)
(* (tools/status_bridge/hid_hidapi.go): every two seconds a scan           *)
(* enumerates the devices of one backend after the other and starts a      *)
(* goroutine for every path that has none, which reads until the device    *)
(* fails and then gives the path free.                                     *)
(* What it reads goes to the pump through a buffered channel.              *)
(*                                                                         *)
(* External: devices, which come and go at any time, and hidapi, which may *)
(* fail to open or to read a device and fails to read one that has gone.   *)
(***************************************************************************)
EXTENDS FiniteSets, Naturals, Sequences

CONSTANTS
    backendIDs,  \* per backend the paths its status interfaces can have
    Readers,     \* goroutines
    PacketCapacity  \* 32, of the packets channel

ASSUME ReadersAssumption ==
    /\ PacketCapacity \in Nat \ {0}
    /\ Len(backendIDs) > 0

Paths == UNION {backendIDs[b] : b \in DOMAIN backendIDs}

VARIABLES
    plugged,     \* the paths with a device
    scanning,    \* the backend the scan is at, 0 while it sleeps
    found,       \* the paths it enumerated and has yet to look at
    openPaths,
    reader,      \* per goroutine: where it is, its path, and whether its
                 \* device is still there
    packets      \* packets in the channel

scan == <<scanning, found>>
readersVars == <<plugged, scan, openPaths, reader, packets>>

NoReader == [at |-> "none", path |-> {}, live |-> FALSE]

Started(r) == reader[r].at # "none"

\* Goroutine r, if it is at a, goes on to b.
Goes(r, a, b) ==
    /\ reader[r].at = a
    /\ reader' = [reader EXCEPT ![r].at = b]

-----------------------------------------------------------------------------
(* readStatusPackets *)

Enumerate ==
    /\ found = {} /\ scanning < Len(backendIDs)
    /\ scanning' = scanning + 1
    /\ found' = plugged \cap backendIDs[scanning']
    /\ UNCHANGED <<plugged, openPaths, reader, packets>>

Skip(p) ==
    /\ p \in openPaths
    /\ UNCHANGED <<openPaths, reader>>

\* A bug: a path being read is opened again.
StartAnyway(p) ==
    /\ openPaths' = openPaths \cup {p}
    /\ \E r \in Readers :
        /\ ~Started(r)
        /\ reader' = [reader EXCEPT ![r] = [at |-> "opening", path |-> {p}, live |-> FALSE]]

Start(p) ==
    /\ p \notin openPaths
    /\ openPaths' = openPaths \cup {p}
    /\ \E r \in Readers :
        /\ ~Started(r)
        /\ reader' = [reader EXCEPT ![r] = [at |-> "opening", path |-> {p}, live |-> FALSE]]

Look ==
    /\ \E p \in found :
        /\ found' = found \ {p}
        /\ Skip(p) \/ Start(p)
    /\ UNCHANGED <<plugged, scanning, packets>>

Sleep ==
    /\ found = {} /\ scanning = Len(backendIDs)
    /\ scanning' = 0
    /\ UNCHANGED <<plugged, found, openPaths, reader, packets>>

-----------------------------------------------------------------------------
(* readHidapiDevice *)

Open(r) ==
    /\ reader[r].at = "opening" /\ reader[r].path \subseteq plugged
    /\ reader' = [reader EXCEPT ![r].at = "reading", ![r].live = TRUE]
    /\ UNCHANGED <<plugged, scan, openPaths, packets>>

OpenRefused(r) ==
    /\ Goes(r, "opening", "ending")
    /\ UNCHANGED <<plugged, scan, openPaths, packets>>

Read(r) ==
    /\ reader[r].live
    /\ Goes(r, "reading", "sending")
    /\ UNCHANGED <<plugged, scan, openPaths, packets>>

\* A bug: a failed read is tried again.
ReadFailsAgain(r) ==
    /\ Goes(r, "reading", "reading")
    /\ UNCHANGED <<plugged, scan, openPaths, packets>>

\* A read fails once the device has gone, and may fail while it is there.
ReadFails(r) ==
    /\ Goes(r, "reading", "ending")
    /\ UNCHANGED <<plugged, scan, openPaths, packets>>

\* sink <- packet waits while the channel is full.
SendPacket(r) ==
    /\ packets < PacketCapacity
    /\ Goes(r, "sending", "reading")
    /\ packets' = packets + 1
    /\ UNCHANGED <<plugged, scan, openPaths>>

\* The device is closed, then done gives the path free.
Done(r) ==
    /\ reader[r].at = "ending"
    /\ openPaths' = openPaths \ reader[r].path
    /\ reader' = [reader EXCEPT ![r] = NoReader]
    /\ UNCHANGED <<plugged, scan, packets>>

\* readStatusReports takes the next packet.
Take ==
    /\ packets > 0
    /\ packets' = packets - 1
    /\ UNCHANGED <<plugged, scan, openPaths, reader>>

-----------------------------------------------------------------------------
(* Devices (external) *)

PlugIn(p) ==
    /\ p \notin plugged
    /\ plugged' = plugged \cup {p}
    /\ UNCHANGED <<scan, openPaths, reader, packets>>

PullOut(p) ==
    /\ p \in plugged
    /\ plugged' = plugged \ {p}
    /\ reader' = [r \in Readers |->
                    IF reader[r].path = {p} THEN [at |-> reader[r].at, path |-> {p}, live |-> FALSE]
                    ELSE reader[r]]
    /\ UNCHANGED <<scan, openPaths, packets>>

ReadersInit ==
    /\ plugged = {} /\ scanning = 0 /\ found = {} /\ openPaths = {}
    /\ reader = [r \in Readers |-> NoReader]
    /\ packets = 0

ScanStep == Enumerate \/ Look \/ Sleep

ReaderStep(r) == Read(r) \/ ReadFails(r) \/ SendPacket(r) \/ Done(r)

ReadersNext ==
    \/ ScanStep
    \/ \E r \in Readers : Open(r) \/ OpenRefused(r) \/ ReaderStep(r)
    \/ Take
    \/ \E p \in Paths : PlugIn(p) \/ PullOut(p)

\* The scan, the readers and the pump go on; a full channel serves those that
\* wait to send in the order they came; a device that stays can be opened if it
\* is tried again and again.
ReadersFairness ==
    /\ WF_readersVars(ScanStep) /\ WF_readersVars(Take)
    /\ \A r \in Readers :
        /\ WF_readersVars(ReaderStep(r)) /\ SF_readersVars(SendPacket(r))
        /\ WF_readersVars(Open(r) \/ OpenRefused(r))
    /\ \A p \in Paths : SF_readersVars(\E r \in Readers : reader[r].path = {p} /\ Open(r))

ReadersSpec == ReadersInit /\ [][ReadersNext]_readersVars
FairReadersSpec == ReadersSpec /\ ReadersFairness

-----------------------------------------------------------------------------
(* Properties *)

\* No interface is read by two goroutines, which would publish every report
\* twice, though scans go on while one opens, reads or ends.
OneReaderEach ==
    \A r, s \in Readers : Started(r) /\ Started(s) /\ reader[r].path = reader[s].path => r = s

\* A path is marked open exactly while a goroutine has it: one left marked would
\* never be read again, one unmarked would be read twice.
OpenPathsAreRead ==
    openPaths = UNION {reader[r].path : r \in {s \in Readers : Started(s)}}

\* However scans, opens that fail and unplugged devices fall, the open paths are
\* those being read, each by one goroutine.
PathsAreRead == OneReaderEach /\ OpenPathsAreRead

\* A read of p fails while its device is there.
ReadFailsOn(p) == \E r \in Readers : reader[r].path = {p} /\ reader[r].live /\ ReadFails(r)

IsRead(p) == \E r \in Readers : reader[r].path = {p} /\ reader[r].live

\* A device that stays is read in the end, whatever came and went before: the
\* board reboots at every profile switch and comes back on its path.  Reads that go
\* on failing for ever do not keep it from being opened again and again.
ReadInTheEnd ==
    \A p \in Paths : <>[](p \in plugged) =>
        \/ <>[]IsRead(p)
        \/ []<><<ReadFailsOn(p)>>_readersVars /\ []<>IsRead(p)
=============================================================================
