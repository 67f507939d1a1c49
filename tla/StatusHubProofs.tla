-------------------------- MODULE StatusHubProofs ---------------------------
(***************************************************************************)
(* The hub of the status bridge never overfills a channel, never sends to  *)
(* a closed one, and gives every client the newest reports in order, for   *)
(* any clients and any capacity.                                           *)
(***************************************************************************)
EXTENDS StatusHub, Integers, TLAPS

\* What publish has yet to visit are clients, and it visits one at a time, only
\* while it holds the mutex.
VisitsClients ==
    /\ left \subseteq clients /\ visited \subseteq left
    /\ \A c, d \in visited : c = d
    /\ publishing = "idle" => left = {}
    /\ publishing \in {"idle", "sending"} => visited = {}

\* The room Drain has made is still there.
RoomIsKept == publishing = "pushing" => \A c \in visited : Len(channel[c]) < Capacity

\* There is a report to send.
Sending == publishing # "idle" => latest \in Messages

Inductive == TypeOK /\ VisitsClients /\ RoomIsKept /\ Sending

-----------------------------------------------------------------------------

\* Appending to a channel makes it longer by one.
LEMMA Channel ==
    ASSUME NEW s \in Seq(Messages), NEW m \in Messages
    PROVE  /\ Append(s, m) \in Seq(Messages) /\ Len(Append(s, m)) = Len(s) + 1
           /\ Len(s) \in Nat
BY SMT

\* One report, or none, fits a channel.
LEMMA NewChannel ==
    ASSUME NEW m \in Messages
    PROVE  /\ <<m>> \in Seq(Messages) /\ Len(<<m>>) = 1
           /\ <<>> \in Seq(Messages) /\ Len(<<>>) = 0
BY SMT

\* Nothing is wrong at first.
LEMMA InitInductive == Init => Inductive
<1> SUFFICES ASSUME Init PROVE Inductive
    OBVIOUS
<1>1. Capacity \in Nat \ {0} /\ MaxMessages \in Nat
    BY HubAssumption
<1>2. <<>> \in Seq(Messages) /\ Len(<<>>) = 0
    BY SMT
<1>3. TypeOK
    BY <1>1, <1>2 DEF Init, TypeOK, NoClient
<1> QED
    BY <1>3 DEF Init, Inductive, VisitsClients, RoomIsKept, Sending, NoClient

\* A step of publish keeps the invariant.
LEMMA PumpInductive == Inductive /\ PumpStep => Inductive'
<1> SUFFICES ASSUME Inductive, PumpStep PROVE Inductive'
    OBVIOUS
<1>a. TypeOK /\ VisitsClients /\ RoomIsKept /\ Sending
    BY DEF Inductive
<1>b. Capacity \in Nat \ {0} /\ MaxMessages \in Nat
    BY HubAssumption
<1>1. CASE Publish
    <2>1. latest' \in Messages
        BY <1>a, <1>b, <1>1 DEF Publish, TypeOK, Messages
    <2>2. TypeOK'
        BY <1>a, <1>b, <1>1, <2>1 DEF Publish, TypeOK, Messages
    <2> QED
        BY <1>a, <1>1, <2>1, <2>2
           DEF Publish, Inductive, VisitsClients, RoomIsKept, Sending
<1>2. CASE SendAtOnce
    <2>1. PICK c \in left : /\ Len(channel[c]) < Capacity
                            /\ channel' = [channel EXCEPT ![c] = Append(@, latest)]
                            /\ left' = left \ {c}
        BY <1>2 DEF SendAtOnce, Send
    <2>2. /\ publishing = "sending" /\ latest \in Messages /\ c \in Clients
          /\ UNCHANGED <<clients, latest, handler, received, publishing, visited>>
        BY <1>a, <1>2 DEF SendAtOnce, Sending, TypeOK
    <2>3. /\ Append(channel[c], latest) \in Seq(Messages)
          /\ Len(Append(channel[c], latest)) <= Capacity
        BY <1>a, <1>b, <2>1, <2>2, Channel DEF TypeOK
    <2>4. TypeOK'
        BY <1>a, <2>1, <2>2, <2>3 DEF TypeOK
    <2> QED
        BY <1>a, <2>1, <2>2, <2>4 DEF Inductive, VisitsClients, RoomIsKept, Sending
<1>3. CASE FindFull
    <2>1. PICK c \in left : visited' = {c}
        BY <1>3 DEF FindFull
    <2>2. TypeOK'
        BY <1>a, <1>3, <2>1 DEF FindFull, TypeOK, hub
    <2> QED
        BY <1>a, <1>3, <2>1, <2>2
           DEF FindFull, Inductive, VisitsClients, RoomIsKept, Sending, hub
<1>4. CASE Drain
    <2>1. PICK c \in visited : /\ channel[c] # <<>>
                               /\ channel' = [channel EXCEPT ![c] = Tail(@)]
        BY <1>4 DEF Drain
    <2>2. /\ publishing = "draining" /\ publishing' = "pushing" /\ c \in Clients
          /\ UNCHANGED <<clients, latest, handler, received, left, visited>>
        BY <1>a, <1>4, <2>1 DEF Drain, TypeOK
    <2>3. /\ Tail(channel[c]) \in Seq(Messages)
          /\ Len(Tail(channel[c])) < Capacity
        <3>1. channel[c] \in Seq(Messages) /\ Len(channel[c]) <= Capacity
            BY <1>a, <2>2 DEF TypeOK
        <3>2. /\ Tail(channel[c]) \in Seq(Messages) /\ Len(Tail(channel[c])) = Len(channel[c]) - 1
              /\ Len(channel[c]) \in Nat
            BY <2>1, <3>1, SMT
        <3> QED
            BY <1>b, <3>1, <3>2
    <2>4. TypeOK'
        BY <1>a, <1>b, <2>1, <2>2, <2>3 DEF TypeOK
    <2>5. RoomIsKept'
        BY <1>a, <2>1, <2>2, <2>3 DEF RoomIsKept, TypeOK, VisitsClients
    <2> QED
        BY <1>a, <2>1, <2>2, <2>4, <2>5 DEF Inductive, VisitsClients, Sending
<1>5. CASE Push
    <2>1. PICK c \in visited : channel' = [channel EXCEPT ![c] = Append(@, latest)]
        BY <1>5 DEF Push, Send
    <2>2. /\ publishing = "pushing" /\ latest \in Messages /\ c \in Clients
          /\ publishing' = "sending" /\ visited' = {} /\ left' = left \ visited
          /\ UNCHANGED <<clients, latest, handler, received>>
        BY <1>a, <1>5, <2>1 DEF Push, Sending, TypeOK, NoClient
    <2>3. /\ Append(channel[c], latest) \in Seq(Messages)
          /\ Len(Append(channel[c], latest)) <= Capacity
        BY <1>a, <1>b, <2>1, <2>2, Channel DEF TypeOK, RoomIsKept
    <2>4. TypeOK'
        BY <1>a, <2>1, <2>2, <2>3 DEF TypeOK
    <2> QED
        BY <1>a, <2>1, <2>2, <2>4 DEF Inductive, VisitsClients, RoomIsKept, Sending
<1>6. CASE EndPublish
    <2>1. TypeOK'
        BY <1>a, <1>6 DEF EndPublish, TypeOK, hub
    <2> QED
        BY <1>a, <1>6, <2>1
           DEF EndPublish, Inductive, VisitsClients, RoomIsKept, Sending, hub
<1> QED
    BY <1>1, <1>2, <1>3, <1>4, <1>5, <1>6 DEF PumpStep

\* A step of a handler keeps the invariant.
LEMMA HandlerInductive ==
    ASSUME Inductive, NEW c \in Clients,
           Request(c) \/ Add(c) \/ Receive(c) \/ Hangup(c) \/ RemoveClient(c)
    PROVE  Inductive'
<1>a. TypeOK /\ VisitsClients /\ RoomIsKept /\ Sending
    BY DEF Inductive
<1>b. Capacity \in Nat \ {0} /\ MaxMessages \in Nat
    BY HubAssumption
<1>1. ASSUME Request(c) \/ Hangup(c) PROVE Inductive'
    <2>1. /\ \E to \in {"adding", "removing"} : handler' = [handler EXCEPT ![c] = to]
          /\ UNCHANGED <<hub, received, pump>>
        BY <1>1 DEF Request, Hangup
    <2>2. TypeOK'
        BY <1>a, <2>1 DEF TypeOK, hub, pump
    <2> QED
        BY <1>a, <2>1, <2>2 DEF Inductive, VisitsClients, RoomIsKept, Sending, hub, pump
<1>2. CASE Add(c)
    <2> DEFINE new == IF latest = 0 THEN <<>> ELSE <<latest>>
    <2>1. new \in Seq(Messages) /\ Len(new) <= Capacity
        <3>1. CASE latest = 0
            BY <1>b, <3>1, SMT
        <3>2. CASE latest # 0
            <4>1. latest \in Messages
                BY <1>a, <1>b, <3>2 DEF TypeOK, Messages
            <4> QED
                BY <1>b, <3>2, <4>1, NewChannel
        <3> QED
            BY <3>1, <3>2
    <2>2. /\ publishing = "idle" /\ channel' = [channel EXCEPT ![c] = new]
          /\ clients' = clients \cup {c}
          /\ received' = [received EXCEPT ![c] = 0]
          /\ handler' = [handler EXCEPT ![c] = "serving"]
          /\ UNCHANGED <<latest, pump>>
        BY <1>2 DEF Add, Unlocked
    <2> HIDE DEF new
    <2>3. TypeOK'
        BY <1>a, <1>b, <2>1, <2>2 DEF TypeOK, pump
    <2> QED
        BY <1>a, <2>2, <2>3 DEF Inductive, VisitsClients, RoomIsKept, Sending, pump
<1>3. CASE Receive(c)
    <2>1. /\ channel[c] # <<>>
          /\ received' = [received EXCEPT ![c] = Head(channel[c])]
          /\ channel' = [channel EXCEPT ![c] = Tail(@)]
          /\ UNCHANGED <<clients, latest, handler, pump>>
        BY <1>3 DEF Receive
    <2>2. channel[c] \in Seq(Messages) /\ Len(channel[c]) <= Capacity
        BY <1>a DEF TypeOK
    <2>3. /\ Tail(channel[c]) \in Seq(Messages) /\ Len(Tail(channel[c])) = Len(channel[c]) - 1
          /\ Head(channel[c]) \in Messages /\ Len(channel[c]) \in Nat
        BY <2>1, <2>2, SMT
    <2>4. Head(channel[c]) \in 0 .. MaxMessages
        BY <1>b, <2>3 DEF Messages
    <2>5. TypeOK'
        BY <1>a, <1>b, <2>1, <2>2, <2>3, <2>4 DEF TypeOK, pump
    <2>6. RoomIsKept'
        BY <1>a, <1>b, <2>1, <2>2, <2>3 DEF RoomIsKept, TypeOK, pump
    <2> QED
        BY <1>a, <2>1, <2>5, <2>6 DEF Inductive, VisitsClients, Sending, pump
<1>4. CASE RemoveClient(c)
    <2>1. /\ publishing = "idle" /\ clients' = clients \ {c}
          /\ handler' = [handler EXCEPT ![c] = "none"]
          /\ UNCHANGED <<channel, latest, received, pump>>
        BY <1>4 DEF RemoveClient, Unlocked
    <2>2. TypeOK'
        BY <1>a, <2>1 DEF TypeOK, pump
    <2> QED
        BY <1>a, <2>1, <2>2 DEF Inductive, VisitsClients, RoomIsKept, Sending, pump
<1> QED
    BY <1>1, <1>2, <1>3, <1>4

\* The invariant always holds.
THEOREM AlwaysInductive == Spec => []Inductive
<1>1. Inductive /\ [Next]_vars => Inductive'
    <2> SUFFICES ASSUME Inductive, [Next]_vars PROVE Inductive'
        OBVIOUS
    <2>1. CASE UNCHANGED vars
        BY <2>1 DEF Inductive, TypeOK, VisitsClients, RoomIsKept, Sending, vars, hub, pump
    <2> QED
        BY <2>1, PumpInductive, HandlerInductive DEF Next
<1> QED
    BY <1>1, InitInductive, PTL DEF Spec

\* Every variable always has its type, and no channel holds more than it can.
THEOREM TypeCorrect == Spec => []TypeOK
<1>1. Inductive => TypeOK
    BY DEF Inductive
<1> QED
    BY <1>1, AlwaysInductive, PTL

\* publish never sends to the closed channel of a client that has gone.
THEOREM NoSendOnClosed == Spec => []NeverSendsOnClosed
<1>1. Inductive => NeverSendsOnClosed
    BY DEF Inductive, VisitsClients, NeverSendsOnClosed
<1> QED
    BY <1>1, AlwaysInductive, PTL

-----------------------------------------------------------------------------
(* The newest reports, in order *)

\* The last report that publish has sent to a client.
Newest(c) == IF c \in left THEN latest - 1 ELSE latest

\* A client's channel holds a run of reports up to the newest, all later than what
\* its handler has written; it is empty only when the handler has written that, or
\* publish is about to push.
InLine(c) ==
    /\ \A i \in 1 .. Len(channel[c]) : channel[c][i] + (Len(channel[c]) - i) = Newest(c)
    /\ received[c] + Len(channel[c]) <= Newest(c)
    /\ channel[c] = <<>> =>
           received[c] = Newest(c) \/ (publishing = "pushing" /\ c \in visited)

AllInLine == \A c \in clients : InLine(c)

\* Appending the report after the newest keeps a channel in line.
LEMMA Appended ==
    ASSUME NEW s \in Seq(Messages), NEW m \in Messages, NEW r \in Nat,
           \A i \in 1 .. Len(s) : s[i] + (Len(s) - i) = m - 1,
           r + Len(s) <= m - 1
    PROVE  LET t == Append(s, m)
           IN  /\ \A i \in 1 .. Len(t) : t[i] + (Len(t) - i) = m
               /\ r + Len(t) <= m
               /\ t # <<>>
<1> DEFINE t == Append(s, m)
<1>1. Len(s) \in Nat /\ Len(t) = Len(s) + 1 /\ t # <<>>
    BY SMT
<1>2. m \in Int
    BY HubAssumption DEF Messages
<1>3. \A i \in 1 .. Len(s) : t[i] = s[i] /\ s[i] \in Int
    BY HubAssumption, SMT DEF Messages
<1>4. t[Len(s) + 1] = m
    BY SMT
<1> HIDE DEF t
<1>5. ASSUME NEW i \in 1 .. Len(t) PROVE t[i] + (Len(t) - i) = m
    <2>1. CASE i \in 1 .. Len(s)
        <3>1. t[i] = s[i] /\ s[i] \in Int /\ i \in Int
            BY <1>1, <1>3, <2>1
        <3>2. s[i] + (Len(s) - i) = m - 1
            BY <2>1
        <3>3. Len(t) - i = (Len(s) - i) + 1 /\ Len(s) - i \in Int
            BY <1>1, <3>1
        <3> DEFINE a == s[i]
                   b == Len(s) - i
        <3>4. a \in Int /\ b \in Int /\ a + b = m - 1 /\ t[i] = a /\ Len(t) - i = b + 1
            BY <3>1, <3>2, <3>3
        <3> HIDE DEF a, b
        <3>5. a + (b + 1) = m
            BY <1>2, <3>4
        <3> QED
            BY <3>4, <3>5
    <2>2. CASE i = Len(s) + 1
        <3>1. t[i] = m /\ Len(t) - i = 0
            BY <1>1, <1>4, <2>2
        <3> QED
            BY <1>2, <3>1
    <2> QED
        BY <1>1, <2>1, <2>2
<1>6. r + Len(t) <= m
    BY <1>1, <1>2
<1> QED
    BY <1>1, <1>5, <1>6 DEF t

\* Taking the oldest report out leaves the rest in line.
LEMMA Taken ==
    ASSUME NEW s \in Seq(Messages), s # <<>>, NEW n \in Int,
           \A i \in 1 .. Len(s) : s[i] + (Len(s) - i) = n
    PROVE  /\ \A i \in 1 .. Len(Tail(s)) : Tail(s)[i] + (Len(Tail(s)) - i) = n
           /\ Head(s) + Len(Tail(s)) = n
           /\ Len(Tail(s)) = Len(s) - 1 /\ Len(Tail(s)) \in Nat
           /\ Tail(s) = <<>> => Len(Tail(s)) = 0
<1> DEFINE t == Tail(s)
<1>1. Len(s) \in Nat /\ Len(s) >= 1 /\ Len(t) = Len(s) - 1 /\ Head(s) = s[1]
    BY SMT
<1>2. \A i \in 1 .. Len(t) : t[i] = s[i + 1]
    BY SMT
<1>3. \A i \in 1 .. Len(s) : s[i] \in Int
    BY HubAssumption, SMT DEF Messages
<1>4. Len(<<>>) = 0
    BY SMT
<1> HIDE DEF t
<1>5. ASSUME NEW i \in 1 .. Len(t) PROVE t[i] + (Len(t) - i) = n
    <2>1. i + 1 \in 1 .. Len(s) /\ t[i] = s[i + 1]
        BY <1>1, <1>2
    <2>2. s[i + 1] + (Len(s) - (i + 1)) = n
        BY <2>1
    <2> QED
        BY <1>1, <1>3, <2>1, <2>2
<1>6. s[1] + Len(t) = n
    <2>1. s[1] + (Len(s) - 1) = n
        BY <1>1
    <2> QED
        BY <1>1, <2>1
<1> QED
    BY <1>1, <1>4, <1>5, <1>6 DEF t

\* A client whose channel, handler, and part in publish are as before is in line
\* as before.
LEMMA StaysInLine ==
    ASSUME NEW c, InLine(c), channel'[c] = channel[c], received'[c] = received[c],
           Newest(c)' = Newest(c),
           publishing = "pushing" /\ c \in visited =>
               publishing' = "pushing" /\ c \in visited'
    PROVE  InLine(c)'
BY DEF InLine

\* Numbers are numbers.
LEMMA HubTypes ==
    ASSUME Inductive, NEW c \in clients
    PROVE  /\ c \in Clients /\ channel[c] \in Seq(Messages) /\ Len(channel[c]) \in Nat
           /\ received[c] \in Nat /\ latest \in Nat /\ Newest(c) \in Int
           /\ latest + 1 - 1 = latest
<1>1. TypeOK /\ c \in Clients /\ MaxMessages \in Nat
    BY HubAssumption DEF Inductive, TypeOK
<1>2. channel[c] \in Seq(Messages) /\ Len(channel[c]) \in Nat
    BY <1>1, SMT DEF TypeOK
<1>3. received[c] \in Nat /\ latest \in Nat
    BY <1>1 DEF TypeOK
<1> QED
    BY <1>1, <1>2, <1>3 DEF Newest

\* What publish sends to a client it has yet to send to is its newest report.
LEMMA SentInLine ==
    ASSUME Inductive, NEW c \in clients, c \in left, latest \in Messages, InLine(c), Send(c),
           c \notin left', latest' = latest, received' = received
    PROVE  InLine(c)'
<1>1. /\ channel[c] \in Seq(Messages) /\ received[c] \in Nat /\ latest \in Nat
      /\ Newest(c) = latest - 1 /\ Newest(c)' = latest
    BY HubTypes DEF Newest
<1>2. channel'[c] = Append(channel[c], latest)
    <2>1. c \in Clients /\ channel \in [Clients -> Seq(Messages)]
        BY HubTypes DEF Inductive, TypeOK
    <2> QED
        BY <2>1 DEF Send
<1>3. /\ \A i \in 1 .. Len(channel[c]) : channel[c][i] + (Len(channel[c]) - i) = latest - 1
      /\ received[c] + Len(channel[c]) <= latest - 1
    BY <1>1 DEF InLine
<1> DEFINE t == Append(channel[c], latest)
<1>4. /\ \A i \in 1 .. Len(t) : t[i] + (Len(t) - i) = latest
      /\ received[c] + Len(t) <= latest /\ t # <<>>
    BY <1>1, <1>3, Appended
<1> HIDE DEF t
<1>5. channel'[c] = t /\ received'[c] = received[c]
    BY <1>2 DEF t
<1> QED
    BY <1>1, <1>4, <1>5 DEF InLine

\* A step of publish keeps every client in line.
LEMMA PumpInLine == ASSUME Inductive, AllInLine, PumpStep PROVE AllInLine'
<1>a. TypeOK /\ VisitsClients /\ Sending
    BY DEF Inductive
<1> SUFFICES ASSUME NEW c \in clients' PROVE InLine(c)'
    BY DEF AllInLine
<1>b. clients' = clients
    BY DEF PumpStep, Publish, SendAtOnce, FindFull, Drain, Push, EndPublish, hub
<1>c. c \in clients /\ InLine(c) /\ received' = received
    BY <1>b DEF AllInLine, PumpStep, Publish, SendAtOnce, FindFull, Drain, Push, EndPublish
<1>d. c \in Clients /\ channel \in [Clients -> Seq(Messages)]
    BY <1>a, <1>c DEF TypeOK
<1>1. CASE Publish
    <2>1. /\ publishing = "idle" /\ left = {} /\ left' = clients /\ latest' = latest + 1
          /\ UNCHANGED <<channel, received>>
        BY <1>a, <1>1 DEF Publish, VisitsClients
    <2>2. Newest(c)' = Newest(c)
        BY <1>c, <2>1, HubTypes DEF Newest
    <2> QED
        BY <1>c, <2>1, <2>2, StaysInLine
<1>2. CASE SendAtOnce
    <2>1. PICK d \in left : Send(d) /\ left' = left \ {d}
        BY <1>2 DEF SendAtOnce
    <2>2. /\ publishing = "sending" /\ latest \in Messages
          /\ UNCHANGED <<clients, latest, handler, received, publishing, visited>>
        BY <1>a, <1>2 DEF SendAtOnce, Sending
    <2>3. CASE c = d
        BY <1>c, <2>1, <2>2, <2>3, SentInLine
    <2>4. CASE c # d
        <3>1. channel'[c] = channel[c] /\ Newest(c)' = Newest(c)
            BY <1>d, <2>1, <2>2, <2>4 DEF Send, Newest
        <3> QED
            BY <1>c, <2>2, <3>1, StaysInLine
    <2> QED
        BY <2>3, <2>4
<1>3. CASE FindFull \/ EndPublish
    <2>1. /\ UNCHANGED <<channel, latest, received, left>>
          /\ publishing = "sending"
        BY <1>3 DEF FindFull, EndPublish, hub
    <2>2. Newest(c)' = Newest(c)
        BY <2>1 DEF Newest
    <2> QED
        BY <1>c, <2>1, <2>2, StaysInLine
<1>4. CASE Drain
    <2>1. PICK d \in visited : /\ channel[d] # <<>>
                               /\ channel' = [channel EXCEPT ![d] = Tail(@)]
        BY <1>4 DEF Drain
    <2>2. /\ publishing = "draining" /\ publishing' = "pushing"
          /\ UNCHANGED <<latest, received, left, visited>>
        BY <1>4 DEF Drain
    <2>3. Newest(c)' = Newest(c)
        BY <2>2 DEF Newest
    <2>4. CASE c # d
        <3>1. channel'[c] = channel[c]
            BY <1>d, <2>1, <2>4
        <3> QED
            BY <1>c, <2>2, <2>3, <3>1, StaysInLine
    <2>5. CASE c = d
        <3> DEFINE s == channel[c]
                   t == Tail(s)
                   n == Newest(c)
        <3>1. channel'[c] = t /\ s # <<>>
            BY <1>d, <2>1, <2>5
        <3>2. s \in Seq(Messages) /\ Len(s) \in Nat /\ n \in Int /\ received[c] \in Nat
            BY <1>c, HubTypes
        <3>3. /\ \A i \in 1 .. Len(s) : s[i] + (Len(s) - i) = n
              /\ received[c] + Len(s) <= n
            BY <1>c DEF InLine
        <3> HIDE DEF s, n
        <3>4. /\ \A i \in 1 .. Len(t) : t[i] + (Len(t) - i) = n
              /\ Len(t) = Len(s) - 1
            BY <3>1, <3>2, <3>3, Taken
        <3> HIDE DEF t
        <3>5. received[c] + Len(t) <= n
            BY <3>2, <3>3, <3>4
        <3>6. n = Newest(c)' /\ received'[c] = received[c]
            BY <2>2, <2>3 DEF n
        <3> QED
            BY <2>1, <2>2, <2>5, <3>1, <3>4, <3>5, <3>6 DEF InLine
    <2> QED
        BY <2>4, <2>5
<1>5. CASE Push
    <2>1. PICK d \in visited : Send(d)
        BY <1>5 DEF Push
    <2>2. /\ publishing = "pushing" /\ latest \in Messages /\ visited = {d}
          /\ left' = left \ visited /\ UNCHANGED <<latest, received>>
        BY <1>a, <1>5, <2>1 DEF Push, Sending, VisitsClients
    <2>3. CASE c = d
        <3>1. c \in left
            BY <1>a, <2>1, <2>3 DEF VisitsClients
        <3> QED
            BY <1>c, <2>1, <2>2, <2>3, <3>1, SentInLine
    <2>4. CASE c # d
        <3>1. channel'[c] = channel[c] /\ Newest(c)' = Newest(c)
            BY <1>d, <2>1, <2>2, <2>4 DEF Send, Newest
        <3> QED
            BY <1>c, <2>2, <2>4, <3>1, StaysInLine
    <2> QED
        BY <2>3, <2>4
<1> QED
    BY <1>1, <1>2, <1>3, <1>4, <1>5 DEF PumpStep

\* A step of a handler keeps every client in line.
LEMMA HandlerInLine ==
    ASSUME Inductive, AllInLine, NEW d \in Clients,
           Request(d) \/ Add(d) \/ Receive(d) \/ Hangup(d) \/ RemoveClient(d)
    PROVE  AllInLine'
<1>a. TypeOK /\ VisitsClients
    BY DEF Inductive
<1> SUFFICES ASSUME NEW c \in clients' PROVE InLine(c)'
    BY DEF AllInLine
<1>p. UNCHANGED <<latest, publishing, left, visited>>
    BY DEF Request, Add, Receive, Hangup, RemoveClient, hub, pump
<1>n. Newest(c)' = Newest(c)
    BY <1>p DEF Newest
<1>1. CASE Request(d) \/ Hangup(d) \/ RemoveClient(d)
    <2>1. clients' \subseteq clients /\ UNCHANGED <<channel, received>>
        BY <1>1 DEF Request, Hangup, RemoveClient, hub
    <2>2. InLine(c)
        BY <2>1 DEF AllInLine
    <2> QED
        BY <1>p, <1>n, <2>1, <2>2, StaysInLine
<1>2. CASE Add(d)
    <2>1. /\ publishing = "idle" /\ left = {} /\ clients' = clients \cup {d}
          /\ channel' = [channel EXCEPT ![d] = IF latest = 0 THEN <<>> ELSE <<latest>>]
          /\ received' = [received EXCEPT ![d] = 0]
        BY <1>a, <1>2 DEF Add, Unlocked, VisitsClients
    <2>2. CASE c = d
        <3>1. received'[c] = 0 /\ Newest(c)' = latest /\ latest \in Nat
            BY <1>a, <1>n, <2>1, <2>2, HubAssumption DEF TypeOK, Newest
        <3>2. CASE latest = 0
            <4>1. channel'[c] = <<>> /\ Len(<<>>) = 0
                BY <1>a, <2>1, <2>2, <3>2 DEF TypeOK
            <4> QED
                BY <3>1, <3>2, <4>1 DEF InLine
        <3>3. CASE latest # 0
            <4> DEFINE t == <<latest>>
            <4>1. channel'[c] = t
                BY <1>a, <2>1, <2>2, <3>3 DEF TypeOK
            <4>2. Len(t) = 1 /\ t[1] = latest /\ t # <<>>
                BY SMT
            <4> HIDE DEF t
            <4> QED
                BY <3>1, <3>3, <4>1, <4>2 DEF InLine
        <3> QED
            BY <3>2, <3>3
    <2>3. CASE c # d
        <3>1. c \in clients /\ c \in Clients
            BY <1>a, <2>1, <2>3 DEF TypeOK
        <3>2. InLine(c) /\ channel'[c] = channel[c] /\ received'[c] = received[c]
            BY <1>a, <2>1, <2>3, <3>1 DEF TypeOK, AllInLine
        <3> QED
            BY <1>n, <2>1, <3>2, StaysInLine
    <2> QED
        BY <2>2, <2>3
<1>3. CASE Receive(d)
    <2>1. /\ channel[d] # <<>> /\ clients' = clients
          /\ received' = [received EXCEPT ![d] = Head(channel[d])]
          /\ channel' = [channel EXCEPT ![d] = Tail(@)]
        BY <1>3 DEF Receive
    <2>2. c \in clients /\ c \in Clients /\ InLine(c)
        BY <1>a, <2>1 DEF TypeOK, AllInLine
    <2>3. CASE c # d
        <3>1. channel'[c] = channel[c] /\ received'[c] = received[c]
            BY <1>a, <2>1, <2>2, <2>3 DEF TypeOK
        <3> QED
            BY <1>p, <1>n, <2>2, <3>1, StaysInLine
    <2>4. CASE c = d
        <3> DEFINE s == channel[c]
                   t == Tail(s)
                   n == Newest(c)
        <3>1. channel'[c] = t /\ received'[c] = Head(s) /\ s # <<>>
            BY <1>a, <2>1, <2>2, <2>4 DEF TypeOK
        <3>2. s \in Seq(Messages) /\ n \in Int
            BY <2>2, HubTypes
        <3>3. \A i \in 1 .. Len(s) : s[i] + (Len(s) - i) = n
            BY <2>2 DEF InLine
        <3>h. Head(s) \in Int
            BY <3>1, <3>2, HubAssumption, SMT DEF Messages
        <3> HIDE DEF s, n
        <3>4. /\ \A i \in 1 .. Len(t) : t[i] + (Len(t) - i) = n
              /\ Head(s) + Len(t) = n /\ Len(t) \in Nat
              /\ t = <<>> => Len(t) = 0
            BY <3>1, <3>2, <3>3, Taken
        <3> HIDE DEF t
        <3>5. Head(s) + Len(t) <= n /\ (t = <<>> => Head(s) = n)
            BY <3>2, <3>4, <3>h
        <3>6. n = Newest(c)'
            BY <1>n DEF n
        <3> QED
            BY <3>1, <3>4, <3>5, <3>6 DEF InLine
    <2> QED
        BY <2>3, <2>4
<1> QED
    BY <1>1, <1>2, <1>3

\* In line is in order and up to date.
LEMMA InLineIsNewest == ASSUME Inductive, AllInLine PROVE NewestInOrder
<1>1. NewestIsKept
    <2> SUFFICES ASSUME Unlocked, NEW c \in clients
                 PROVE  LET n == Len(channel[c])
                        IN  /\ \A i \in 1 .. n : channel[c][i] + (n - i) = latest
                            /\ n = 0 => received[c] = latest
        BY DEF NewestIsKept
    <2>1. publishing = "idle" /\ Newest(c) = latest /\ InLine(c)
        BY DEF Unlocked, Inductive, VisitsClients, Newest, AllInLine
    <2>2. Len(channel[c]) = 0 => channel[c] = <<>>
        BY HubTypes, SMT
    <2> QED
        BY <2>1, <2>2 DEF InLine
<1>2. ReceivesInOrder
    <2> SUFFICES ASSUME NEW c \in clients, NEW i \in 1 .. Len(channel[c])
                 PROVE  (<<received[c]>> \o channel[c])[i] < (<<received[c]>> \o channel[c])[i + 1]
        BY DEF ReceivesInOrder
    <2> DEFINE s == channel[c]
               r == received[c]
    <2>1. s \in Seq(Messages) /\ r \in Nat /\ Newest(c) \in Int /\ Len(s) \in Nat
        BY HubTypes
    <2>2. /\ \A j \in 1 .. Len(s) : s[j] + (Len(s) - j) = Newest(c)
          /\ r + Len(s) <= Newest(c)
        BY DEF AllInLine, InLine
    <2>3. i \in 1 .. Len(s) /\ i \in Int
        OBVIOUS
    <2> HIDE DEF s, r
    <2>4. \A j \in 1 .. Len(s) : s[j] \in Int
        BY <2>1, HubAssumption, SMT DEF Messages
    <2>5. /\ (<<r>> \o s)[1] = r
          /\ \A j \in 1 .. Len(s) : (<<r>> \o s)[j + 1] = s[j]
        BY <2>1, SMT
    <2>6. CASE i = 1
        <3>1. s[1] + (Len(s) - 1) = Newest(c) /\ s[1] \in Int
            BY <2>2, <2>3, <2>4, <2>6
        <3>2. r < s[1]
            BY <2>1, <2>2, <3>1
        <3> QED
            BY <2>3, <2>5, <2>6, <3>2 DEF s, r
    <2>7. CASE i # 1
        <3>1. i - 1 \in 1 .. Len(s) /\ (i - 1) + 1 = i
            BY <2>1, <2>3, <2>7
        <3>2. s[i - 1] < s[i]
            <4>1. /\ s[i - 1] + (Len(s) - (i - 1)) = Newest(c)
                  /\ s[i] + (Len(s) - i) = Newest(c)
                BY <2>2, <2>3, <3>1
            <4> QED
                BY <2>1, <2>3, <2>4, <3>1, <4>1
        <3>3. (<<r>> \o s)[i] = s[i - 1] /\ (<<r>> \o s)[i + 1] = s[i]
            BY <2>3, <2>5, <3>1
        <3> QED
            BY <3>2, <3>3 DEF s, r
    <2> QED
        BY <2>6, <2>7
<1> QED
    BY <1>1, <1>2 DEF NewestInOrder

\* However an overlay reads, what it gets is in order and up to date (publish, which
\* drops the oldest report of a full channel, and events).
THEOREM NewestArriveInOrder == Spec => []NewestInOrder
<1>1. Inductive /\ AllInLine /\ [Next]_vars => AllInLine'
    <2> SUFFICES ASSUME Inductive, AllInLine, [Next]_vars PROVE AllInLine'
        OBVIOUS
    <2>1. CASE UNCHANGED vars
        <3>1. UNCHANGED <<clients, channel, latest, received, publishing, left, visited>>
            BY <2>1 DEF vars, hub, pump
        <3> QED
            BY <3>1 DEF AllInLine, InLine, Newest
    <2> QED
        BY <2>1, PumpInLine, HandlerInLine DEF Next
<1>2. Init => AllInLine
    BY DEF Init, AllInLine
<1>3. Inductive /\ AllInLine => NewestInOrder
    BY InLineIsNewest
<1> QED
    BY <1>1, <1>2, <1>3, AlwaysInductive, PTL DEF Spec
=============================================================================
