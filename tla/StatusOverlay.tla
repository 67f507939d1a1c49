---------------------------- MODULE StatusOverlay ----------------------------
(***************************************************************************)
(* How the status overlay (tools/status_overlay.html), reading by WebHID,  *)
(* comes to show an adapter and gets it back after it went: the reconnect  *)
(* loop, the Connect button and the disconnect event.  Both ways to a      *)
(* device wait for promises in between, and whatever happens meanwhile     *)
(* changes what they looked at before.                                     *)
(*                                                                         *)
(* External: the browser.  A device that returns is a new object, neither  *)
(* opened nor listened to; a device can be opened by one call at a time;   *)
(* its going is told before anything that happens to it later.             *)
(***************************************************************************)
EXTENDS FiniteSets, Naturals

CONSTANTS
    Devices,     \* adapters with a status interface
    Calls        \* calls of reconnectAuthorizedDevice and connect in progress

VARIABLES
    present,     \* the devices there are
    granted,     \* those the user has let the page use
    opened,
    listeners,   \* per device: its input report listeners, Many for more than 1
    call,        \* per call: whose it is and the device it waits to open
    shown,       \* state.device: empty or one device
    connecting,  \* state.connecting
    timer,       \* state.reconnectTimer is set
    booting,     \* the call made when the page was loaded is not over
    chosen       \* history: a device came through the Connect button

device == <<present, granted, opened, listeners>>
page == <<shown, connecting, timer, booting, chosen>>
overlayVars == <<device, call, page>>

Many == 2

NoCall == [by |-> "none", device |-> {}]
NoCalls == [c \in Calls |-> NoCall]

Idle == {c \in Calls : call[c] = NoCall}

\* The call waits for getDevices or requestDevice, or for open.
Asking(c) == call[c].by # "none" /\ call[c].device = {}
Opening(c, d) == call[c].device = {d}

-----------------------------------------------------------------------------
(* What calls do *)

StartReconnectLoop == timer' = TRUE

\* The device is listened to once more, and the loop ends.
AttachDevice(c, d) ==
    /\ shown' = {d}
    /\ listeners' = [listeners EXCEPT ![d] = IF @ = Many THEN @ ELSE @ + 1]
    /\ chosen' = (chosen \/ call[c].by = "connect")
    /\ timer' = (booting /\ call[c].by = "reconnect")

\* No device came of the call.
Leave(c) ==
    /\ UNCHANGED <<shown, listeners, chosen>>
    /\ timer' = (timer \/ (booting /\ call[c].by = "reconnect"))

\* The call is over: connecting is reset by the reconnect that set it, and the
\* one of the page's start goes on to start the loop.
End(c) ==
    /\ call' = [call EXCEPT ![c] = NoCall]
    /\ connecting' = (connecting /\ call[c].by # "reconnect")
    /\ booting' = (booting /\ call[c].by # "reconnect")

\* A bug: connecting stays set when no device is found.
NoneFoundConnecting(c) ==
    /\ Asking(c)
    /\ call[c].by = "reconnect" => present \cap granted = {}
    /\ call' = [call EXCEPT ![c] = NoCall]
    /\ booting' = (booting /\ call[c].by # "reconnect")
    /\ Leave(c)
    /\ UNCHANGED <<present, granted, opened, connecting>>

\* No device is there, or none was chosen.
NoneFound(c) ==
    /\ Asking(c)
    /\ call[c].by = "reconnect" => present \cap granted = {}
    /\ End(c) /\ Leave(c)
    /\ UNCHANGED <<present, granted, opened>>

\* The device that was found (of those granted) or chosen (which grants it).
Find(c, d) ==
    /\ Asking(c)
    /\ d \in present
    /\ call[c].by = "reconnect" => d \in granted
    /\ granted' = granted \cup {d}

FindOpened(c, d) ==
    /\ Find(c, d)
    /\ d \in opened
    /\ AttachDevice(c, d) /\ End(c)
    /\ UNCHANGED <<present, opened>>

FindClosed(c, d) ==
    /\ Find(c, d)
    /\ d \notin opened
    /\ ~\E e \in Calls : Opening(e, d)
    /\ call' = [call EXCEPT ![c].device = {d}]
    /\ UNCHANGED <<present, opened, listeners, page>>

\* open throws: another call is at it.
FindBusy(c, d) ==
    /\ Find(c, d)
    /\ \E e \in Calls : Opening(e, d)
    /\ End(c) /\ Leave(c)
    /\ UNCHANGED <<present, opened>>

OpenSucceeds(c, d) ==
    /\ Opening(c, d)
    /\ d \in present
    /\ opened' = opened \cup {d}
    /\ AttachDevice(c, d) /\ End(c)
    /\ UNCHANGED <<present, granted>>

\* A bug: what open answers is not looked at.
OpenFailsAttached(c, d) ==
    /\ Opening(c, d)
    /\ AttachDevice(c, d) /\ End(c)
    /\ UNCHANGED <<present, granted, opened>>

OpenFails(c, d) ==
    /\ Opening(c, d)
    /\ End(c) /\ Leave(c)
    /\ UNCHANGED <<present, granted, opened>>

-----------------------------------------------------------------------------
(* What starts calls *)

\* A bug: the call before may be waiting still.
TickAgain(c) ==
    /\ timer /\ shown = {}
    /\ c \in Idle
    /\ call' = [call EXCEPT ![c].by = "reconnect"]
    /\ connecting' = TRUE
    /\ UNCHANGED <<device, shown, timer, booting, chosen>>

\* reconnectAuthorizedDevice, called by the interval timer.
Tick(c) ==
    /\ timer /\ shown = {} /\ ~connecting
    /\ c \in Idle
    /\ call' = [call EXCEPT ![c].by = "reconnect"]
    /\ connecting' = TRUE
    /\ UNCHANGED <<device, shown, timer, booting, chosen>>

\* connect; the button works while nothing is shown, and the browser asks one
\* question at a time.  The guard on Idle bounds the calls and leaves the loop one.
Click(c) ==
    /\ shown = {}
    /\ c \in Idle /\ Idle # {c}
    /\ ~\E e \in Calls : call[e].by = "connect" /\ Asking(e)
    /\ call' = [call EXCEPT ![c].by = "connect"]
    /\ UNCHANGED <<device, page>>

-----------------------------------------------------------------------------
(* Devices (external), and the page's disconnect listener *)

\* The board takes far longer to come back than the browser to fail an open.
Appear(d) ==
    /\ d \notin present
    /\ ~\E c \in Calls : Opening(c, d)
    /\ present' = present \cup {d}
    /\ UNCHANGED <<granted, opened, listeners, call, page>>

SetDisconnectedStatus ==
    /\ shown' = {}
    /\ StartReconnectLoop
    /\ UNCHANGED <<connecting, booting, chosen>>

Vanish(d) ==
    /\ d \in present
    /\ present' = present \ {d} /\ opened' = opened \ {d}
    /\ listeners' = [listeners EXCEPT ![d] = 0]
    /\ \/ shown = {d} /\ SetDisconnectedStatus
       \/ shown # {d} /\ UNCHANGED page
    /\ UNCHANGED <<granted, call>>

\* The page is loaded; it looks for a device at once.
OverlayInit ==
    /\ present \in SUBSET Devices /\ granted \in SUBSET Devices
    /\ opened = {} /\ listeners = [d \in Devices |-> 0]
    /\ \E c \in Calls : call = [NoCalls EXCEPT ![c].by = "reconnect"]
    /\ shown = {} /\ connecting = TRUE /\ timer = FALSE /\ booting = TRUE
    /\ chosen = FALSE

\* What the browser answers.
Answer(c) ==
    \/ NoneFound(c)
    \/ \E d \in Devices : FindOpened(c, d) \/ FindClosed(c, d) \/ FindBusy(c, d)

Settle(c) == \E d \in Devices : OpenSucceeds(c, d) \/ OpenFails(c, d)

OverlayNext ==
    \/ \E c \in Calls : Tick(c) \/ Click(c) \/ Answer(c) \/ Settle(c)
    \/ \E d \in Devices : Appear(d) \/ Vanish(d)

\* The timer ticks; getDevices answers and open settles (requestDevice waits for
\* the user, for ever if need be); a device can be opened if it is tried again
\* and again.
OverlayFairness ==
    /\ WF_overlayVars(\E c \in Calls : Tick(c))
    /\ \A c \in Calls :
        WF_overlayVars(call[c].by = "reconnect" /\ Answer(c)) /\ WF_overlayVars(Settle(c))
    /\ \A d \in Devices : SF_overlayVars(\E c \in Calls : OpenSucceeds(c, d))

OverlaySpec == OverlayInit /\ [][OverlayNext]_overlayVars
FairOverlaySpec == OverlaySpec /\ OverlayFairness

-----------------------------------------------------------------------------
(* Properties *)

\* The device shown is there, open and listened to: whatever went while a call
\* waited is never shown as connected, where no disconnect would free it.
ShownIsThere == \A d \in shown : d \in opened /\ listeners[d] > 0

\* The loop has one call in progress at most, and then connecting says so; alone
\* it never listens to a device twice, which would count its reports twice,
\* however long its calls wait.  (With the button it may: connect does not look
\* at state.device or connecting.)
LoopListensOnce ==
    /\ Cardinality({c \in Calls : call[c].by = "reconnect"}) = IF connecting THEN 1 ELSE 0
    /\ ~chosen => \A d \in Devices : listeners[d] < Many

\* While a device the page may use stays, the page shows a device again and again:
\* it comes back by itself after every profile switch.
ReturnIsSeen ==
    \A d \in Devices : <>[](d \in present \cap granted) => []<>(shown # {})
=============================================================================
