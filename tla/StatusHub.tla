----------------------------- MODULE StatusHub ------------------------------
(***************************************************************************)
(* The hub of the status bridge (tools/status_bridge/main.go): one pump    *)
(* publishes each report to the buffered channel of every client, and each *)
(* client's handler writes what it receives to its overlay.  One mutex     *)
(* guards the clients and the latest report.  add and remove hold it for a *)
(* body that cannot block, so each is one step; publish holds it while it  *)
(* visits the channels, and a client may receive between any two of its    *)
(* steps.                                                                  *)
(***************************************************************************)
EXTENDS Naturals, Sequences

CONSTANTS
    Clients,       \* overlays that may connect
    Capacity,      \* 8, of a client's channel
    MaxMessages    \* bound: reports published

ASSUME HubAssumption == Capacity \in Nat \ {0} /\ MaxMessages \in Nat

VARIABLES
    clients,    \* hub.clients
    channel,    \* the buffer of each client's channel
    latest,     \* hub.latest, the number of the report; 0 is nil
    handler,    \* where each client's handler is
    received,   \* the last report each client's handler has written
    publishing, \* where publish is; it holds the mutex unless idle
    left,       \* the clients its loop has yet to visit
    visited     \* the client it is visiting, if it found its channel full

hub == <<clients, channel, latest>>
pump == <<publishing, left, visited>>
vars == <<hub, handler, received, pump>>

Messages == 1 .. MaxMessages

NoClient == {}

Unlocked == publishing = "idle"

-----------------------------------------------------------------------------
(* publish *)

Publish ==
    /\ publishing = "idle"
    /\ latest < MaxMessages
    /\ latest' = latest + 1
    /\ publishing' = "sending"
    /\ left' = clients
    /\ UNCHANGED <<clients, channel, handler, received, visited>>

Send(c) == channel' = [channel EXCEPT ![c] = Append(@, latest)]

\* case ch <- message
SendAtOnce ==
    /\ publishing = "sending"
    /\ \E c \in left :
        /\ Len(channel[c]) < Capacity
        /\ Send(c)
        /\ left' = left \ {c}
    /\ UNCHANGED <<clients, latest, handler, received, publishing, visited>>

\* A bug: a full channel is skipped.
FindFullSkipping ==
    /\ publishing = "sending"
    /\ \E c \in left :
        /\ Len(channel[c]) >= Capacity
        /\ left' = left \ {c}
    /\ UNCHANGED <<hub, handler, received, publishing, visited>>

\* default
FindFull ==
    /\ publishing = "sending"
    /\ \E c \in left :
        /\ Len(channel[c]) >= Capacity
        /\ visited' = {c}
    /\ publishing' = "draining"
    /\ UNCHANGED <<hub, handler, received, left>>

\* <-ch, which waits while the channel is empty
Drain ==
    /\ publishing = "draining"
    /\ \E c \in visited :
        /\ channel[c] # <<>>
        /\ channel' = [channel EXCEPT ![c] = Tail(@)]
    /\ publishing' = "pushing"
    /\ UNCHANGED <<clients, latest, handler, received, left, visited>>

\* ch <- message; there is room, for only publish sends
Push ==
    /\ publishing = "pushing"
    /\ \E c \in visited : Send(c)
    /\ left' = left \ visited
    /\ visited' = NoClient
    /\ publishing' = "sending"
    /\ UNCHANGED <<clients, latest, handler, received>>

EndPublish ==
    /\ publishing = "sending" /\ left = {}
    /\ publishing' = "idle"
    /\ UNCHANGED <<hub, handler, received, left, visited>>

-----------------------------------------------------------------------------
(* events *)

\* An overlay asks for /events (external).
Request(c) ==
    /\ handler[c] = "none"
    /\ handler' = [handler EXCEPT ![c] = "adding"]
    /\ UNCHANGED <<hub, received, pump>>

\* A bug: a new client is not told the latest report.
AddSilently(c) ==
    /\ handler[c] = "adding" /\ Unlocked
    /\ clients' = clients \cup {c}
    /\ channel' = [channel EXCEPT ![c] = <<>>]
    /\ received' = [received EXCEPT ![c] = 0]
    /\ handler' = [handler EXCEPT ![c] = "serving"]
    /\ UNCHANGED <<latest, pump>>

Add(c) ==
    /\ handler[c] = "adding" /\ Unlocked
    /\ clients' = clients \cup {c}
    /\ channel' = [channel EXCEPT ![c] = IF latest = 0 THEN <<>> ELSE <<latest>>]
    /\ received' = [received EXCEPT ![c] = 0]
    /\ handler' = [handler EXCEPT ![c] = "serving"]
    /\ UNCHANGED <<latest, pump>>

Receive(c) ==
    /\ handler[c] = "serving"
    /\ channel[c] # <<>>
    /\ received' = [received EXCEPT ![c] = Head(channel[c])]
    /\ channel' = [channel EXCEPT ![c] = Tail(@)]
    /\ UNCHANGED <<clients, latest, handler, pump>>

\* The overlay goes; select takes r.Context().Done().
Hangup(c) ==
    /\ handler[c] = "serving"
    /\ handler' = [handler EXCEPT ![c] = "removing"]
    /\ UNCHANGED <<hub, received, pump>>

\* A bug: remove does not wait for the mutex.
RemoveAnytime(c) ==
    /\ handler[c] = "removing"
    /\ clients' = clients \ {c}
    /\ handler' = [handler EXCEPT ![c] = "none"]
    /\ UNCHANGED <<channel, latest, received, pump>>

\* The channel is closed, and what it held is lost.
RemoveClient(c) ==
    /\ handler[c] = "removing" /\ Unlocked
    /\ clients' = clients \ {c}
    /\ handler' = [handler EXCEPT ![c] = "none"]
    /\ UNCHANGED <<channel, latest, received, pump>>

Init ==
    /\ clients = {} /\ channel = [c \in Clients |-> <<>>] /\ latest = 0
    /\ handler = [c \in Clients |-> "none"]
    /\ received = [c \in Clients |-> 0]
    /\ publishing = "idle" /\ left = {} /\ visited = NoClient

PumpStep == Publish \/ SendAtOnce \/ FindFull \/ Drain \/ Push \/ EndPublish

Next ==
    \/ PumpStep
    \/ \E c \in Clients :
        Request(c) \/ Add(c) \/ Receive(c) \/ Hangup(c) \/ RemoveClient(c)

\* The pump always has another report and goes on, a handler that can receive
\* does, and the mutex is not kept from one that waits for it (sync.Mutex hands
\* itself over to a waiter of more than 1 ms).
Fairness ==
    /\ WF_vars(PumpStep)
    /\ \A c \in Clients :
        WF_vars(Receive(c)) /\ SF_vars(Add(c)) /\ SF_vars(RemoveClient(c))

Spec == Init /\ [][Next]_vars
FairSpec == Spec /\ Fairness

-----------------------------------------------------------------------------
(* Properties *)

\* Every variable has its type; no channel is over its capacity.
TypeOK ==
    /\ clients \subseteq Clients
    /\ channel \in [Clients -> Seq(Messages)]
    /\ \A c \in Clients : Len(channel[c]) <= Capacity
    /\ latest \in 0 .. MaxMessages
    /\ handler \in [Clients -> {"none", "adding", "serving", "removing"}]
    /\ received \in [Clients -> 0 .. MaxMessages]
    /\ publishing \in {"idle", "sending", "draining", "pushing"}
    /\ left \subseteq Clients /\ visited \subseteq Clients

\* publish never sends to a channel that remove has closed, which would end the
\* bridge with a panic.
NeverSendsOnClosed == left \cup visited \subseteq clients

\* A slow client loses the oldest reports, never the newest: between two
\* publishes its channel holds a run of reports that ends with the latest, or
\* nothing, when it has received the latest.
NewestIsKept ==
    Unlocked => \A c \in clients :
        LET n == Len(channel[c])
        IN  /\ \A i \in 1 .. n : channel[c][i] + (n - i) = latest
            /\ n = 0 => received[c] = latest

\* An overlay never goes back to an older report, and sees none twice.
ReceivesInOrder ==
    \A c \in clients :
        LET stream == <<received[c]>> \o channel[c]
        IN  \A i \in 1 .. Len(channel[c]) : stream[i] < stream[i + 1]

\* However an overlay reads, what it gets is in order and up to date.
NewestInOrder == NewestIsKept /\ ReceivesInOrder

\* publish waits for a report from a channel its client has emptied, with the
\* mutex held.
Wedged == publishing = "draining" /\ \A c \in visited : channel[c] = <<>>

\* Every overlay that stays gets what is latest in the end,
\* unless publish is wedged.
StreamsUnlessWedged ==
    \/ <>[]Wedged
    \/ \A c \in Clients :
        <>[](handler[c] = "serving") => <>[](received[c] = MaxMessages)

\* The bridge "streams reports to the overlay with Server-Sent Events"
\* (README.md:180).
Streams ==
    \A c \in Clients : <>[](handler[c] = "serving") => <>[](received[c] = MaxMessages)
=============================================================================
