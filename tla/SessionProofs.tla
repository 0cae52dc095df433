---------------------------- MODULE SessionProofs ----------------------------
(***************************************************************************)
(* Proofs about Session, for any number of clients, ports and datagrams.   *)
(*                                                                         *)
(* SafeInv holds with and without reused ports and repeated datagrams: a   *)
(* datagram of the acceptor tells the endpoint and the conv of the         *)
(* connection it comes from, whenever it arrives, so that a client that    *)
(* takes a response agrees with that connection.  What holds only when     *)
(* ports are fresh and nothing is repeated is proved in SessionRefinement. *)
(***************************************************************************)
EXTENDS Session, TLAPS

\* A client that started has a port, and the static conv was counted.
Started ==
  \A a \in Attempt : client[a].st # "new" => client[a].ep \in Endpoint /\ conv # 0

\* A handshake asks for a conv.
Numbered == \A d \in net : d.op = "handshark" => d.conv # 0

\* A datagram to a client is of a connection of that endpoint, a response has its conv.
FromConns ==
  \A d \in net : d.to = "client" =>
    /\ d.from \in DOMAIN conns
    /\ conns[d.from].ep = d.ep
    /\ d.op = "response" => conns[d.from].conv = d.conv

\* The inductive invariant.
SafeInv ==
  /\ TypeOK
  /\ Started
  /\ Numbered
  /\ FromConns
  /\ OpenedIsListed
  /\ ConvAgrees

-----------------------------------------------------------------------------
(* Datagrams.                                                              *)

LEMMA TransmitNet ==
  ASSUME NEW base, base \subseteq net, NEW D, Transmit(base, D)
  PROVE  net' \subseteq net \cup D
BY DEF Transmit

LEMMA WithoutNet ==
  ASSUME NEW d
  PROVE  Without(d) \subseteq net
BY DEF Without

\* The fields of a datagram.
LEMMA DatagramParts ==
  ASSUME NEW d \in Datagram
  PROVE  /\ d.ep \in Endpoint /\ d.conv \in Nat
         /\ d.to \in {"server", "client"}
         /\ d.to = "server" => d.from \in Attempt /\ d.op \in {"handshark", "data", "disconnect"}
         /\ d.to = "client" => /\ d.from \in Nat \ {0}
                              /\ d.op \in {"response", "data", "disconnect"}
BY DEF Datagram

\* What clients send.
LEMMA ToServerParts ==
  ASSUME NEW op \in {"handshark", "data", "disconnect"}, NEW e \in Endpoint,
         NEW k \in Nat, NEW a \in Attempt
  PROVE  LET d == ToServer(op, e, k, a)
         IN /\ d \in Datagram
            /\ d.to = "server" /\ d.op = op /\ d.ep = e /\ d.conv = k /\ d.from = a
BY DEF ToServer, Datagram

\* What the acceptor and its connections send.
LEMMA ToClientParts ==
  ASSUME NEW op \in {"response", "data", "disconnect"}, NEW e \in Endpoint,
         NEW k \in Nat, NEW s \in Nat \ {0}
  PROVE  LET d == ToClient(op, e, k, s)
         IN /\ d \in Datagram
            /\ d.to = "client" /\ d.op = op /\ d.ep = e /\ d.conv = k /\ d.from = s
BY DEF ToClient, Datagram

\* A client that has a connection sends only data and disconnects of its own.
LEMMA ClientSends ==
  ASSUME TypeOK, Started, NEW a \in Attempt, client[a].st = "opened",
         NEW d \in {ClientData(a), ClientBye(a)}
  PROVE  /\ d \in Datagram /\ d.to = "server" /\ d.op \in {"data", "disconnect"}
         /\ d.ep = client[a].ep /\ d.from = a
<1>1. client[a] \in ClientRecord  BY DEF TypeOK
<1>2. client[a].ep \in Endpoint /\ client[a].conv \in Nat
      BY <1>1 DEF Started, ClientRecord
<1>3. 0 \in Nat  OBVIOUS
<1> QED  BY <1>2, <1>3, ToServerParts DEF ClientData, ClientBye

\* A connection of the acceptor sends only data and disconnects of its own.
LEMMA ServerSends ==
  ASSUME TypeOK, NEW s \in DOMAIN conns, NEW d \in {ServerData(s), ServerBye(s)}
  PROVE  /\ d \in Datagram /\ d.to = "client" /\ d.op \in {"data", "disconnect"}
         /\ d.ep = conns[s].ep /\ d.from = s
<1>1. conns[s] \in ConnRecord /\ s \in Nat \ {0}  BY DEF TypeOK
<1>2. conns[s].ep \in Endpoint /\ conns[s].conv \in Nat  BY <1>1 DEF ConnRecord
<1>3. 0 \in Nat  OBVIOUS
<1> QED  BY <1>1, <1>2, <1>3, ToClientParts DEF ServerData, ServerBye

-----------------------------------------------------------------------------
(* What a step of each side has to show.                                   *)

\* A step of the clients leaves the acceptor alone and sends to it.
LEMMA ClientStep ==
  ASSUME SafeInv, UNCHANGED serverVars,
         NEW D, net' \subseteq net \cup D,
         \A d \in D : d \in Datagram /\ d.to = "server" /\ (d.op = "handshark" => d.conv # 0),
         client' \in [Attempt -> ClientRecord], conv' \in Nat,
         Started', ConvAgrees'
  PROVE  SafeInv'
<1> USE DEF SafeInv, serverVars
<1>1. TypeOK'  BY DEF TypeOK
<1>2. Numbered'  BY DEF Numbered
<1>3. FromConns'  BY DEF FromConns
<1>4. OpenedIsListed'  BY DEF OpenedIsListed
<1> QED  BY <1>1, <1>2, <1>3, <1>4

\* A step of the clients that sends nothing.
LEMMA ClientStepQuiet ==
  ASSUME SafeInv, UNCHANGED serverVars, net' \subseteq net,
         client' \in [Attempt -> ClientRecord], conv' \in Nat,
         Started', ConvAgrees'
  PROVE  SafeInv'
<1> DEFINE D == {}
<1>1. net' \subseteq net \cup D  OBVIOUS
<1>2. \A d \in D : d \in Datagram /\ d.to = "server" /\ (d.op = "handshark" => d.conv # 0)
      OBVIOUS
<1> HIDE DEF D
<1> QED  BY <1>1, <1>2, ClientStep

\* What a connection was made with it keeps.
Keeps ==
  /\ DOMAIN conns \subseteq DOMAIN conns'
  /\ \A s \in DOMAIN conns : conns'[s].ep = conns[s].ep /\ conns'[s].conv = conns[s].conv

\* A datagram that a step of the acceptor may send.
SentByServer(d) ==
  /\ d \in Datagram /\ d.to = "client"
  /\ d.from \in DOMAIN conns' /\ conns'[d.from].ep = d.ep
  /\ d.op = "response" => conns'[d.from].conv = d.conv

\* A step of the acceptor leaves the clients alone and sends to them.
LEMMA ServerStep ==
  ASSUME SafeInv, UNCHANGED <<conv, client>>,
         \A d \in net' : d \notin net => SentByServer(d),
         conns' \in Seq(ConnRecord), Keeps,
         connections_' \in [Endpoint -> 0..Len(conns')],
         OpenedIsListed'
  PROVE  SafeInv'
<1> USE DEF SafeInv, SentByServer
<1>1. TypeOK'  BY DEF TypeOK
<1>2. Numbered'
  <2>1. ASSUME NEW d \in net', d.op = "handshark" PROVE d.conv # 0
    <3>1. CASE d \in net  BY <2>1, <3>1 DEF Numbered
    <3>2. CASE d \notin net  BY <2>1, <3>2, DatagramParts
    <3> QED  BY <3>1, <3>2
  <2> QED  BY <2>1 DEF Numbered
<1>3. FromConns'
  <2>1. ASSUME NEW d \in net', d.to = "client"
        PROVE  /\ d.from \in DOMAIN conns' /\ conns'[d.from].ep = d.ep
               /\ d.op = "response" => conns'[d.from].conv = d.conv
    <3>1. CASE d \in net  BY <2>1, <3>1 DEF FromConns, Keeps
    <3>2. CASE d \notin net  BY <2>1, <3>2
    <3> QED  BY <3>1, <3>2
  <2> QED  BY <2>1 DEF FromConns
<1>4. Started'  BY DEF Started
<1>5. ConvAgrees'  BY DEF ConvAgrees, Keeps
<1> QED  BY <1>1, <1>2, <1>3, <1>4, <1>5

-----------------------------------------------------------------------------
(* The steps of the clients.                                               *)

\* What the invariant says of one client.
LEMMA ClientParts ==
  ASSUME SafeInv, NEW a \in Attempt
  PROVE  /\ client[a] \in ClientRecord
         /\ client[a].st \in ClientState /\ client[a].ep \in 0..MaxEndpoint
         /\ client[a].conv \in Nat /\ client[a].srv \in Nat
         /\ client[a].quiet \in 0..(Timeout + 1) /\ client[a].heard \subseteq Nat
BY DEF SafeInv, TypeOK, ClientRecord

LEMMA StartConnectSafe ==
  ASSUME SafeInv, NEW a \in Attempt, NEW e \in Endpoint, StartConnect(a, e)
  PROVE  SafeInv'
<1> USE DEF StartConnect
<1>1. conv \in Nat /\ client \in [Attempt -> ClientRecord] /\ MaxEndpoint \in Nat
      BY SessionAssumption DEF SafeInv, TypeOK
<1>2. client' \in [Attempt -> ClientRecord]
  <2>1. e \in 0..MaxEndpoint  BY <1>1 DEF Endpoint
  <2> QED  BY <1>1, <2>1 DEF ClientRecord, ClientState
<1>3. conv' \in Nat /\ conv' # 0 /\ net' \subseteq net  BY <1>1
<1>4. Started'  BY <1>1, <1>3 DEF Started, SafeInv
<1>5. ConvAgrees'  BY <1>1 DEF ConvAgrees, SafeInv, serverVars
<1> QED  BY <1>2, <1>3, <1>4, <1>5, ClientStepQuiet

LEMMA SendHandsharkSafe ==
  ASSUME SafeInv, NEW a \in Attempt, SendHandshark(a)
  PROVE  SafeInv'
<1> USE DEF SendHandshark
<1>1. conv \in Nat /\ client \in [Attempt -> ClientRecord]  BY DEF SafeInv, TypeOK
<1>2. client' \in [Attempt -> ClientRecord]  BY <1>1 DEF ClientRecord, ClientState
<1>3. client[a].ep \in Endpoint /\ conv # 0  BY DEF SafeInv, Started
<1>4. LET d == ToServer("handshark", client[a].ep, conv, a)
      IN d \in Datagram /\ d.to = "server" /\ d.conv # 0
      BY <1>1, <1>3, ToServerParts
<1>5. net' \subseteq net \cup {ToServer("handshark", client[a].ep, conv, a)}
      BY TransmitNet
<1>6. Started'  BY <1>1, <1>3 DEF Started, SafeInv
<1>7. ConvAgrees'  BY <1>1 DEF ConvAgrees, SafeInv, serverVars
<1> QED  BY <1>1, <1>2, <1>4, <1>5, <1>6, <1>7, ClientStep

LEMMA AbandonSafe ==
  ASSUME SafeInv, NEW a \in Attempt, Abandon(a)
  PROVE  SafeInv'
<1> USE DEF Abandon
<1>1. conv \in Nat /\ client \in [Attempt -> ClientRecord]  BY DEF SafeInv, TypeOK
<1>2. client' \in [Attempt -> ClientRecord]  BY <1>1 DEF ClientRecord, ClientState
<1>3. net' \subseteq net  OBVIOUS
<1>4. Started'  BY <1>1 DEF Started, SafeInv
<1>5. ConvAgrees'  BY <1>1 DEF ConvAgrees, SafeInv, serverVars
<1> QED  BY <1>1, <1>2, <1>3, <1>4, <1>5, ClientStepQuiet

LEMMA FirstDatagramSafe ==
  ASSUME SafeInv, NEW a \in Attempt, NEW d \in net, FirstDatagram(a, d)
  PROVE  SafeInv'
<1> USE DEF FirstDatagram
<1>1. conv \in Nat /\ client \in [Attempt -> ClientRecord] /\ d \in Datagram
      BY DEF SafeInv, TypeOK
<1>2. /\ d.from \in DOMAIN conns /\ conns[d.from].ep = d.ep
      /\ d.op = "response" => conns[d.from].conv = d.conv
      BY DEF SafeInv, FromConns
<1>3. conns[d.from].conv \in Nat \ {0} /\ d.from \in Nat
  <2>1. conns[d.from] \in ConnRecord /\ d.from \in Nat  BY <1>2 DEF SafeInv, TypeOK
  <2> QED  BY <2>1 DEF ConnRecord
<1>4. net' \subseteq net  BY WithoutNet
<1>5. CASE d.op = "response"
  <2>1. /\ client' = [client EXCEPT ![a].st = "opened", ![a].conv = d.conv, ![a].srv = d.from]
        /\ conv' = d.conv
        BY <1>5
  <2>2. d.conv \in Nat /\ d.conv # 0  BY <1>2, <1>3, <1>5
  <2>3. client' \in [Attempt -> ClientRecord]
        BY <1>1, <1>3, <2>1, <2>2 DEF ClientRecord, ClientState
  <2>4. Started'  BY <1>1, <2>1, <2>2 DEF Started, SafeInv
  <2>5. ConvAgrees'
        BY <1>1, <1>2, <1>5, <2>1 DEF ConvAgrees, SafeInv, serverVars
  <2> QED  BY <1>4, <2>1, <2>2, <2>3, <2>4, <2>5, ClientStepQuiet
<1>6. CASE d.op # "response"
  <2>1. client' = [client EXCEPT ![a].st = "failed"] /\ conv' = conv  BY <1>6
  <2>2. client' \in [Attempt -> ClientRecord]
        BY <1>1, <2>1 DEF ClientRecord, ClientState
  <2>3. Started'  BY <1>1, <2>1 DEF Started, SafeInv
  <2>4. ConvAgrees'  BY <1>1, <2>1 DEF ConvAgrees, SafeInv, serverVars
  <2> QED  BY <1>1, <1>4, <2>1, <2>2, <2>3, <2>4, ClientStepQuiet
<1> QED  BY <1>5, <1>6

\* The end of a client's connection, with what its close sends.
LEMMA ClientEnds ==
  ASSUME SafeInv, NEW a \in Attempt, client[a].st = "opened",
         NEW base, base \subseteq net, Transmit(base, {ClientData(a), ClientBye(a)}),
         \/ client' = [client EXCEPT ![a].st = "closed"]
         \/ client' = [client EXCEPT ![a].quiet = 0, ![a].st = "closed"],
         UNCHANGED <<conv, serverVars>>
  PROVE  SafeInv'
<1>1. conv \in Nat /\ client \in [Attempt -> ClientRecord] /\ Timeout \in Nat
      BY SessionAssumption DEF SafeInv, TypeOK
<1>2. client' \in [Attempt -> ClientRecord]
      BY <1>1 DEF ClientRecord, ClientState
<1>3. net' \subseteq net \cup {ClientData(a), ClientBye(a)}  BY TransmitNet
<1>4. \A d \in {ClientData(a), ClientBye(a)} :
        d \in Datagram /\ d.to = "server" /\ (d.op = "handshark" => d.conv # 0)
      BY ClientSends DEF SafeInv
<1>5. \A b \in Attempt :
        /\ client'[b].ep = client[b].ep
        /\ client'[b].st # "new" => client[b].st # "new"
        /\ client'[b].st = "opened" => client'[b] = client[b]
  <2>1. CASE client' = [client EXCEPT ![a].st = "closed"]  BY <1>1, <2>1
  <2>2. CASE client' = [client EXCEPT ![a].quiet = 0, ![a].st = "closed"]  BY <1>1, <2>2
  <2> QED  BY <2>1, <2>2
<1>6. Started'  BY <1>5 DEF Started, SafeInv
<1>7. ConvAgrees'  BY <1>5 DEF ConvAgrees, SafeInv, serverVars
<1> QED  BY <1>1, <1>2, <1>3, <1>4, <1>6, <1>7, ClientStep

LEMMA ClientReceiveSafe ==
  ASSUME SafeInv, NEW a \in Attempt, NEW d \in net, ClientReceive(a, d)
  PROVE  SafeInv'
<1> USE DEF ClientReceive
<1>1. /\ conv \in Nat /\ client \in [Attempt -> ClientRecord] /\ d \in Datagram
      /\ Timeout \in Nat
      BY SessionAssumption DEF SafeInv, TypeOK
<1>2. CASE d.op = "disconnect"
      BY <1>2, WithoutNet, ClientEnds
<1>3. CASE d.op # "disconnect"
  <2>1. net' \subseteq net  BY <1>3, WithoutNet
  <2>2. d.from \in Nat  BY <1>1, DatagramParts
  <2>3. client[a].heard \cup {d.from} \in SUBSET Nat /\ client[a].heard \in SUBSET Nat
        BY <2>2, ClientParts
  <2>4. \/ UNCHANGED client
        \/ client' = [client EXCEPT
             ![a].quiet = 0,
             ![a].heard = IF Takes(d, client[a].conv) THEN @ \cup {d.from} ELSE @]
        BY <1>3
  <2>5. client' \in [Attempt -> ClientRecord]
        BY <1>1, <2>3, <2>4 DEF ClientRecord, ClientState
  <2>6. \A b \in Attempt :
          /\ client'[b].ep = client[b].ep /\ client'[b].st = client[b].st
          /\ client'[b].conv = client[b].conv /\ client'[b].srv = client[b].srv
    <3>1. CASE UNCHANGED client  BY <3>1
    <3> DEFINE h == IF Takes(d, client[a].conv) THEN client[a].heard \cup {d.from}
                    ELSE client[a].heard
    <3>2. CASE client' = [client EXCEPT ![a].quiet = 0, ![a].heard = h]
      <4> HIDE DEF h
      <4> QED  BY <1>1, <3>2
    <3> QED  BY <2>4, <3>1, <3>2
  <2>7. Started'  BY <2>6 DEF Started, SafeInv
  <2>8. ConvAgrees'  BY <2>6 DEF ConvAgrees, SafeInv, serverVars
  <2> QED  BY <1>1, <2>1, <2>5, <2>7, <2>8, ClientStepQuiet
<1> QED  BY <1>2, <1>3

LEMMA ClientCloseSafe ==
  ASSUME SafeInv, NEW a \in Attempt, ClientClose(a)
  PROVE  SafeInv'
BY ClientEnds DEF ClientClose

LEMMA ClientTimerSafe ==
  ASSUME SafeInv, NEW a \in Attempt, ClientTimer(a)
  PROVE  SafeInv'
<1>1. CASE client[a].quiet > Timeout  BY <1>1, ClientEnds DEF ClientTimer
<1>2. CASE ~(client[a].quiet > Timeout)
  <2>1. /\ client[a].st = "opened" /\ Transmit(net, {ClientData(a)}) /\ UNCHANGED client
        /\ UNCHANGED <<conv, serverVars>>
        BY <1>2 DEF ClientTimer
  <2>2. net' \subseteq net \cup {ClientData(a)}  BY <2>1, TransmitNet
  <2>3. LET d == ClientData(a)
        IN d \in Datagram /\ d.to = "server" /\ (d.op = "handshark" => d.conv # 0)
        BY <2>1, ClientSends DEF SafeInv
  <2>4. conv' \in Nat /\ client' \in [Attempt -> ClientRecord]
        BY <2>1 DEF SafeInv, TypeOK
  <2>5. Started' /\ ConvAgrees'
        BY <2>1 DEF SafeInv, Started, ConvAgrees, serverVars
  <2> QED  BY <2>1, <2>2, <2>3, <2>4, <2>5, ClientStep
<1> QED  BY <1>1, <1>2

-----------------------------------------------------------------------------
(* The steps of the acceptor.                                              *)

\* A sequence of connections with one of them, or all, replaced.
LEMMA SeqOfConns ==
  ASSUME NEW n \in Nat, NEW f \in [1..n -> ConnRecord]
  PROVE  f \in Seq(ConnRecord) /\ Len(f) = n /\ DOMAIN f = 1..n
OBVIOUS

\* The fields of a connection.
LEMMA ConnParts ==
  ASSUME TypeOK, NEW s \in DOMAIN conns
  PROVE  /\ conns[s] \in ConnRecord /\ s \in Nat \ {0}
         /\ conns[s].ep \in Endpoint /\ conns[s].conv \in Nat \ {0}
         /\ conns[s].by \subseteq Attempt /\ conns[s].st \in {"idle", "opened", "closed"}
         /\ conns[s].quiet \in 0..(Timeout + 1) /\ conns[s].heard \subseteq Nat
<1>1. conns[s] \in ConnRecord /\ s \in Nat \ {0}  BY DEF TypeOK
<1> QED  BY <1>1 DEF ConnRecord

LEMMA ConnsParts ==
  ASSUME TypeOK
  PROVE  /\ Len(conns) \in Nat /\ DOMAIN conns = 1..Len(conns)
         /\ conns \in [1..Len(conns) -> ConnRecord]
         /\ Timeout \in Nat /\ connections_ \in [Endpoint -> 0..Len(conns)]
BY SessionAssumption DEF TypeOK

\* connection::close changes the state of one connection at most.
LEMMA ClosedParts ==
  ASSUME TypeOK, NEW s
  PROVE  /\ Closed(s) \in Seq(ConnRecord) /\ Len(Closed(s)) = Len(conns)
         /\ DOMAIN Closed(s) = DOMAIN conns
         /\ \A t \in DOMAIN conns :
              /\ Closed(s)[t].ep = conns[t].ep /\ Closed(s)[t].conv = conns[t].conv
              /\ Closed(s)[t].by = conns[t].by /\ Closed(s)[t].heard = conns[t].heard
              /\ Closed(s)[t].st = "opened" => conns[t].st = "opened" /\ t # s
<1>1. CASE s \in DOMAIN conns /\ conns[s].st = "opened"
  <2>1. Closed(s) = [conns EXCEPT ![s].st = "closed"]  BY <1>1 DEF Closed
  <2>2. Closed(s) \in [1..Len(conns) -> ConnRecord]
    <3>1. [conns[s] EXCEPT !.st = "closed"] \in ConnRecord
          BY <1>1, ConnParts DEF ConnRecord
    <3> QED  BY <1>1, <2>1, <3>1, ConnsParts
  <2>3. /\ Closed(s) \in Seq(ConnRecord) /\ Len(Closed(s)) = Len(conns)
        /\ DOMAIN Closed(s) = 1..Len(conns)
        BY <2>2, ConnsParts, SeqOfConns
  <2> QED  BY <1>1, <2>1, <2>3, ConnsParts
<1>2. CASE ~(s \in DOMAIN conns /\ conns[s].st = "opened")
  <2>1. Closed(s) = conns  BY <1>2 DEF Closed
  <2> QED  BY <1>2, <2>1 DEF TypeOK
<1> QED  BY <1>1, <1>2

\* What close sends comes from the connection that is closed.
LEMMA ClosingParts ==
  ASSUME TypeOK, NEW s, NEW d \in ClosingDatagrams(s)
  PROVE  /\ s \in DOMAIN conns /\ d \in Datagram /\ d.to = "client"
         /\ d.op \in {"data", "disconnect"} /\ d.ep = conns[s].ep /\ d.from = s
BY ServerSends DEF ClosingDatagrams

\* A handshake that finds an idle connection.
LEMMA HandsharkAgainSafe ==
  ASSUME SafeInv, NEW d \in net, d.op = "handshark", UNCHANGED <<conv, client>>,
         HandsharkAgain(d, connections_[d.ep])
  PROVE  SafeInv'
<1> DEFINE old == connections_[d.ep]
           r   == ToClient("response", d.ep, conns[old].conv, old)
<1>1. TypeOK /\ d \in Datagram  BY DEF SafeInv, TypeOK
<1>2. d.ep \in Endpoint /\ d.from \in Attempt  BY <1>1, DatagramParts
<1>3. old \in DOMAIN conns /\ conns[old].ep = d.ep
  <2>1. old \in DOMAIN conns  BY DEF HandsharkAgain, IsIdle
  <2>2. old # 0  BY <1>1, <2>1, ConnsParts
  <2> QED  BY <1>2, <2>1, <2>2 DEF SafeInv, OpenedIsListed
<1>4. conns' = [conns EXCEPT ![old].by = conns[old].by \cup {d.from}]
      BY <1>1, <1>3 DEF HandsharkAgain, TypeOK
<1>5. conns' \in [1..Len(conns) -> ConnRecord]
  <2>1. conns[old].by \cup {d.from} \in SUBSET Attempt  BY <1>1, <1>2, <1>3, ConnParts
  <2>2. [conns[old] EXCEPT !.by = conns[old].by \cup {d.from}] \in ConnRecord
        BY <1>1, <1>3, <2>1, ConnParts DEF ConnRecord
  <2> HIDE DEF old
  <2> QED  BY <1>1, <1>3, <1>4, <2>2, ConnsParts
<1>6. /\ conns' \in Seq(ConnRecord) /\ Len(conns') = Len(conns)
      /\ DOMAIN conns' = DOMAIN conns
      BY <1>1, <1>5, ConnsParts, SeqOfConns
<1>7. \A s \in DOMAIN conns : /\ conns'[s].ep = conns[s].ep /\ conns'[s].st = conns[s].st
                              /\ conns'[s].conv = conns[s].conv
      BY <1>1, <1>3, <1>4, ConnsParts
<1>8. Keeps  BY <1>6, <1>7 DEF Keeps
<1>9. connections_' = connections_  BY DEF HandsharkAgain
<1>10. OpenedIsListed'  BY <1>6, <1>7, <1>9 DEF OpenedIsListed, SafeInv
<1>11. connections_' \in [Endpoint -> 0..Len(conns')]  BY <1>1, <1>6, <1>9, ConnsParts
<1>12. net' \subseteq net \cup {r}
       BY WithoutNet, TransmitNet DEF HandsharkAgain
<1>13. /\ r \in Datagram /\ r.to = "client" /\ r.from = old /\ r.ep = d.ep
       /\ r.conv = conns[old].conv
       BY <1>1, <1>2, <1>3, ConnParts, ToClientParts
<1>14. /\ r.from \in DOMAIN conns' /\ conns'[r.from].ep = r.ep
       /\ conns'[r.from].conv = r.conv
       BY <1>3, <1>6, <1>7, <1>13
<1>15. conns' \in Seq(ConnRecord)  BY <1>6
<1> HIDE DEF r, old
<1>16. \A e \in net' : e \notin net => SentByServer(e)
       BY <1>12, <1>13, <1>14 DEF SentByServer
<1> QED  BY <1>8, <1>10, <1>11, <1>15, <1>16, ServerStep

\* The connection that a handshake makes.
LEMMA NewConnectionParts ==
  ASSUME SafeInv, NEW d \in net, d.op = "handshark"
  PROVE  /\ NewConnection(d) \in ConnRecord
         /\ NewConnection(d).ep = d.ep /\ NewConnection(d).conv = d.conv
         /\ NewConnection(d).by = {d.from} /\ NewConnection(d).st = "idle"
         /\ NewConnection(d).heard = {}
<1>1. d \in Datagram /\ d.conv # 0 /\ Timeout \in Nat
      BY SessionAssumption DEF SafeInv, TypeOK, Numbered
<1>2. d.ep \in Endpoint /\ d.from \in Attempt /\ d.conv \in Nat \ {0}
      BY <1>1, DatagramParts
<1> QED  BY <1>1, <1>2 DEF NewConnection, ConnRecord

\* A handshake that makes a connection, and replaces one that is not idle.
LEMMA HandsharkNewSafe ==
  ASSUME SafeInv, NEW d \in net, d.op = "handshark", UNCHANGED <<conv, client>>,
         HandsharkNew(d, connections_[d.ep])
  PROVE  SafeInv'
<1> DEFINE old == connections_[d.ep]
           new == Len(conns) + 1
           r   == ToClient("response", d.ep, d.conv, new)
<1>1. TypeOK /\ d \in Datagram /\ Len(conns) \in Nat /\ new \in Nat \ {0}
      BY ConnsParts DEF SafeInv, TypeOK
<1>2. d.ep \in Endpoint /\ d.conv \in Nat  BY <1>1, DatagramParts
<1>3. conns' = Append(Closed(old), NewConnection(d))  BY DEF HandsharkNew
<1>4. /\ conns' \in Seq(ConnRecord) /\ Len(conns') = new /\ DOMAIN conns' = 1..new
      /\ conns'[new] = NewConnection(d)
      /\ \A s \in DOMAIN conns : conns'[s] = Closed(old)[s]
  <2>1. Closed(old) \in Seq(ConnRecord) /\ Len(Closed(old)) = Len(conns)
        BY <1>1, ClosedParts
  <2>2. NewConnection(d) \in ConnRecord  BY NewConnectionParts
  <2>3. DOMAIN conns = 1..Len(conns)  BY <1>1, ConnsParts
  <2> HIDE DEF old
  <2> QED  BY <1>1, <1>3, <2>1, <2>2, <2>3
<1>5. DOMAIN conns = 1..Len(conns) /\ new \notin DOMAIN conns
      BY <1>1, ConnsParts
<1>6. \A s \in DOMAIN conns :
        /\ conns'[s].ep = conns[s].ep /\ conns'[s].conv = conns[s].conv
        /\ conns'[s].st = "opened" => conns[s].st = "opened" /\ s # old
      BY <1>1, <1>4, ClosedParts
<1>7. Keeps  BY <1>1, <1>4, <1>5, <1>6 DEF Keeps
<1>8. connections_' = [connections_ EXCEPT ![d.ep] = new]  BY DEF HandsharkNew
<1>9. connections_' \in [Endpoint -> 0..Len(conns')]
      BY <1>1, <1>2, <1>4, <1>8, ConnsParts
<1>10. conns'[new].ep = d.ep /\ conns'[new].conv = d.conv /\ conns'[new].st = "idle"
       BY <1>4, NewConnectionParts
<1>11. OpenedIsListed'
  <2>1. ASSUME NEW e \in Endpoint, connections_'[e] # 0
        PROVE  connections_'[e] \in DOMAIN conns' /\ conns'[connections_'[e]].ep = e
    <3>1. CASE e = d.ep  BY <1>1, <1>2, <1>4, <1>8, <1>10, <3>1, ConnsParts
    <3>2. CASE e # d.ep
      <4>1. connections_'[e] = connections_[e]  BY <1>1, <1>8, <3>2, ConnsParts
      <4>2. connections_[e] \in DOMAIN conns /\ conns[connections_[e]].ep = e
            BY <2>1, <4>1 DEF SafeInv, OpenedIsListed
      <4> QED  BY <1>6, <1>7, <4>1, <4>2 DEF Keeps
    <3> QED  BY <3>1, <3>2
  <2>2. ASSUME NEW s \in DOMAIN conns', conns'[s].st = "opened"
        PROVE  connections_'[conns'[s].ep] = s
    <3>1. s # new  BY <1>10, <2>2
    <3>2. s \in DOMAIN conns  BY <1>1, <1>4, <1>5, <3>1
    <3>3. connections_[conns[s].ep] = s /\ s # old /\ conns'[s].ep = conns[s].ep
          BY <1>6, <2>2, <3>2 DEF SafeInv, OpenedIsListed
    <3>4. conns[s].ep # d.ep  BY <3>3
    <3>5. conns[s].ep \in Endpoint  BY <1>1, <3>2, ConnParts
    <3> QED  BY <1>1, <1>8, <3>3, <3>4, <3>5, ConnsParts
  <2> QED  BY <2>1, <2>2 DEF OpenedIsListed
<1>12. net' \subseteq net \cup (ClosingDatagrams(old) \cup {r})
       BY WithoutNet, TransmitNet DEF HandsharkNew
<1>13. /\ r \in Datagram /\ r.to = "client" /\ r.from = new /\ r.ep = d.ep
       /\ r.conv = d.conv
       BY <1>1, <1>2, ToClientParts
<1>14. \A e \in net' : e \notin net => SentByServer(e)
  <2>1. ASSUME NEW e \in ClosingDatagrams(old)
        PROVE  /\ e \in Datagram /\ e.to = "client"
               /\ e.from \in DOMAIN conns' /\ conns'[e.from].ep = e.ep
               /\ e.op # "response"
        BY <1>1, <1>6, <1>7, ClosingParts DEF Keeps
  <2>2. r.from \in DOMAIN conns' /\ conns'[r.from].ep = r.ep /\ conns'[r.from].conv = r.conv
        BY <1>1, <1>4, <1>10, <1>13
  <2> HIDE DEF r, old
  <2> QED  BY <1>12, <1>13, <2>1, <2>2 DEF SentByServer
<1> QED  BY <1>4, <1>7, <1>9, <1>11, <1>14, ServerStep

\* A datagram for a connection, or for none.
LEMMA AcceptorReceiveSafe ==
  ASSUME SafeInv, NEW d \in net, AcceptorReceive(d)
  PROVE  SafeInv'
<1> DEFINE s == connections_[d.ep]
<1> USE DEF AcceptorReceive, Find
<1>1. TypeOK /\ d \in Datagram /\ d.to = "server"  BY DEF SafeInv, TypeOK
<1>2. d.ep \in Endpoint /\ d.from \in Attempt /\ d.from \in Nat
      BY <1>1, DatagramParts DEF Attempt
<1>3. UNCHANGED <<conv, client>> /\ connections_' = connections_  OBVIOUS
<1>4. CASE s = 0
  <2>1. UNCHANGED conns /\ net' \subseteq net  BY <1>4, WithoutNet
  <2>2. OpenedIsListed'  BY <1>3, <2>1 DEF SafeInv, OpenedIsListed
  <2>3. Keeps  BY <2>1 DEF Keeps
  <2>4. conns' \in Seq(ConnRecord) /\ connections_' \in [Endpoint -> 0..Len(conns')]
        BY <1>3, <2>1 DEF SafeInv, TypeOK
  <2>5. \A e \in net' : e \notin net => SentByServer(e)  BY <2>1
  <2> QED  BY <1>3, <2>2, <2>3, <2>4, <2>5, ServerStep
<1>5. CASE s # 0
  <2>1. s \in DOMAIN conns /\ conns[s].ep = d.ep
        BY <1>2, <1>5 DEF SafeInv, OpenedIsListed
  <2>2. /\ conns[s] \in ConnRecord /\ DOMAIN conns = 1..Len(conns) /\ s \in Nat \ {0}
        /\ conns[s].st \in {"idle", "opened", "closed"}
        /\ conns[s].heard \in SUBSET Nat
        /\ 0 \in 0..(Timeout + 1)
        BY <1>1, <2>1, ConnParts, ConnsParts, SessionAssumption DEF ConnRecord
  <2>3. PICK c \in ConnRecord :
          /\ conns' = [conns EXCEPT ![s] = c]
          /\ c.ep = conns[s].ep /\ c.conv = conns[s].conv
    <3>1. CASE d.op = "data"
      <4> DEFINE st == IF conns[s].st = "idle" THEN "opened" ELSE conns[s].st
                 heard == IF Takes(d, conns[s].conv)
                          THEN conns[s].heard \cup {d.from} ELSE conns[s].heard
                 c == [conns[s] EXCEPT !.st = st, !.quiet = 0, !.heard = heard]
      <4>1. st \in {"idle", "opened", "closed"} /\ heard \in SUBSET Nat  BY <1>2, <2>2
      <4>2. conns' = [conns EXCEPT ![s] = c]  BY <1>5, <3>1
      <4> HIDE DEF st, heard, s
      <4>3. c \in ConnRecord /\ c.ep = conns[s].ep /\ c.conv = conns[s].conv
            BY <2>2, <4>1 DEF ConnRecord
      <4> QED  BY <4>2, <4>3
    <3>2. CASE d.op = "disconnect"
      <4> DEFINE c == [conns[s] EXCEPT !.st = "closed", !.quiet = 0]
      <4>1. conns' = [conns EXCEPT ![s] = c]  BY <1>5, <3>2
      <4> HIDE DEF s
      <4>2. c \in ConnRecord /\ c.ep = conns[s].ep /\ c.conv = conns[s].conv
            BY <2>2 DEF ConnRecord
      <4> QED  BY <4>1, <4>2
    <3> QED  BY <1>5, <3>1, <3>2
  <2>4. net' \subseteq net \cup {ServerData(s), ServerBye(s)}
    <3>1. CASE d.op = "data"
      <4>1. net' = Without(d)  BY <1>5, <3>1
      <4> QED  BY <4>1, WithoutNet
    <3>2. CASE d.op = "disconnect"
      <4> DEFINE D == IF conns[s].st = "closed" THEN {} ELSE {ServerData(s), ServerBye(s)}
      <4>1. Transmit(Without(d), D)  BY <1>5, <3>2
      <4>2. D \subseteq {ServerData(s), ServerBye(s)}  OBVIOUS
      <4> HIDE DEF D
      <4>3. net' \subseteq net \cup D  BY <4>1, TransmitNet, WithoutNet
      <4> QED  BY <4>2, <4>3
    <3> QED  BY <1>5, <3>1, <3>2
  <2>5. connections_[conns[s].ep] = s  BY <2>1
  <2> HIDE DEF s
  <2>6. conns' \in [1..Len(conns) -> ConnRecord]  BY <1>1, <2>1, <2>3, ConnsParts
  <2>7. /\ conns' \in Seq(ConnRecord) /\ Len(conns') = Len(conns)
        /\ DOMAIN conns' = DOMAIN conns
        BY <1>1, <2>6, ConnsParts, SeqOfConns
  <2>8. \A t \in DOMAIN conns : /\ conns'[t].ep = conns[t].ep /\ conns'[t].conv = conns[t].conv
                                /\ t # s => conns'[t] = conns[t]
        BY <1>1, <2>1, <2>3, ConnsParts
  <2>9. Keeps  BY <2>7, <2>8 DEF Keeps
  <2>10. connections_' \in [Endpoint -> 0..Len(conns')]  BY <1>1, <1>3, <2>7, ConnsParts
  <2>11. OpenedIsListed'
    <3>1. ASSUME NEW t \in DOMAIN conns, conns'[t].st = "opened"
          PROVE  connections_'[conns'[t].ep] = t
      <4>1. CASE t = s  BY <1>3, <2>5, <2>8, <4>1
      <4>2. CASE t # s
        <5>1. conns[t].st = "opened"  BY <2>8, <3>1, <4>2
        <5>2. connections_[conns[t].ep] = t  BY <5>1 DEF SafeInv, OpenedIsListed
        <5> QED  BY <1>3, <2>8, <5>2
      <4> QED  BY <4>1, <4>2
    <3>2. ASSUME NEW e \in Endpoint, connections_'[e] # 0
          PROVE  connections_'[e] \in DOMAIN conns /\ conns'[connections_'[e]].ep = e
      <4>1. connections_[e] \in DOMAIN conns /\ conns[connections_[e]].ep = e
            BY <1>3, <3>2 DEF SafeInv, OpenedIsListed
      <4> QED  BY <1>3, <2>8, <4>1
    <3> QED  BY <2>7, <3>1, <3>2 DEF OpenedIsListed
  <2>12. \A e \in net' : e \notin net => SentByServer(e)
    <3>1. ASSUME NEW e \in {ServerData(s), ServerBye(s)} PROVE SentByServer(e)
      <4>1. /\ e \in Datagram /\ e.to = "client" /\ e.op \in {"data", "disconnect"}
            /\ e.ep = conns[s].ep /\ e.from = s
            BY <1>1, <2>1, ServerSends
      <4> QED  BY <2>1, <2>7, <2>8, <4>1 DEF SentByServer
    <3> QED  BY <2>4, <3>1
  <2> QED  BY <1>3, <2>7, <2>9, <2>10, <2>11, <2>12, ServerStep
<1> QED  BY <1>4, <1>5

LEMMA ServerCloseSafe ==
  ASSUME SafeInv, NEW s \in DOMAIN conns, ServerClose(s)
  PROVE  SafeInv'
<1>1. TypeOK /\ conns' = Closed(s) /\ UNCHANGED <<conv, client>> /\ connections_' = connections_
      BY DEF SafeInv, ServerClose
<1>2. /\ conns' \in Seq(ConnRecord) /\ Len(conns') = Len(conns) /\ DOMAIN conns' = DOMAIN conns
      /\ \A t \in DOMAIN conns :
           /\ conns'[t].ep = conns[t].ep /\ conns'[t].conv = conns[t].conv
           /\ conns'[t].st = "opened" => conns[t].st = "opened"
      BY <1>1, ClosedParts
<1>3. Keeps  BY <1>2 DEF Keeps
<1>4. connections_' \in [Endpoint -> 0..Len(conns')]  BY <1>1, <1>2, ConnsParts
<1>5. OpenedIsListed'  BY <1>1, <1>2 DEF SafeInv, OpenedIsListed
<1>6. \A e \in net' : e \notin net => SentByServer(e)
  <2>1. net' \subseteq net \cup ClosingDatagrams(s)  BY TransmitNet DEF ServerClose
  <2>2. \A e \in ClosingDatagrams(s) : SentByServer(e)
        BY <1>1, <1>2, ClosingParts DEF SentByServer
  <2> QED  BY <2>1, <2>2
<1> QED  BY <1>1, <1>2, <1>3, <1>4, <1>5, <1>6, ServerStep

LEMMA DoUpdateSafe ==
  ASSUME SafeInv, DoUpdate
  PROVE  SafeInv'
<1>1. TypeOK /\ UNCHANGED <<conv, client>>  BY DEF SafeInv, DoUpdate
<1>2. conns' = [s \in DOMAIN conns |->
        IF s \in Gone /\ conns[s].st = "opened" THEN [conns[s] EXCEPT !.st = "closed"]
        ELSE conns[s]]
      BY DEF DoUpdate
<1>3. ASSUME NEW s \in DOMAIN conns
      PROVE  /\ conns'[s] \in ConnRecord
             /\ conns'[s].ep = conns[s].ep /\ conns'[s].conv = conns[s].conv
             /\ conns'[s].st = "opened" => conns[s].st = "opened" /\ s \notin Gone
  <2>1. conns[s] \in ConnRecord  BY <1>1, ConnParts
  <2>2. [conns[s] EXCEPT !.st = "closed"] \in ConnRecord  BY <2>1 DEF ConnRecord
  <2>3. CASE s \in Gone /\ conns[s].st = "opened"
    <3>1. conns'[s] = [conns[s] EXCEPT !.st = "closed"]  BY <1>2, <2>3
    <3> QED  BY <2>1, <2>2, <3>1 DEF ConnRecord
  <2>4. CASE ~(s \in Gone /\ conns[s].st = "opened")
    <3>1. conns'[s] = conns[s]  BY <1>2, <2>4
    <3> QED  BY <2>1, <2>4, <3>1
  <2> QED  BY <2>3, <2>4
<1>4. conns' \in [1..Len(conns) -> ConnRecord]  BY <1>1, <1>2, <1>3, ConnsParts
<1>5. /\ conns' \in Seq(ConnRecord) /\ Len(conns') = Len(conns) /\ DOMAIN conns' = DOMAIN conns
      BY <1>1, <1>4, ConnsParts, SeqOfConns
<1>6. Keeps  BY <1>3, <1>5 DEF Keeps
<1>7. connections_' = [e \in Endpoint |-> IF connections_[e] \in Gone THEN 0 ELSE connections_[e]]
      BY DEF DoUpdate
<1>8. connections_' \in [Endpoint -> 0..Len(conns')]  BY <1>1, <1>5, <1>7, ConnsParts
<1>9. OpenedIsListed'
  <2>1. ASSUME NEW s \in DOMAIN conns, conns'[s].st = "opened"
        PROVE  connections_'[conns'[s].ep] = s
    <3>1. /\ conns[s].st = "opened" /\ s \notin Gone /\ conns'[s].ep = conns[s].ep
          /\ conns[s].ep \in Endpoint
          BY <1>1, <1>3, <2>1, ConnParts
    <3>2. connections_[conns[s].ep] = s  BY <3>1 DEF SafeInv, OpenedIsListed
    <3> QED  BY <1>7, <3>1, <3>2
  <2>2. ASSUME NEW e \in Endpoint, connections_'[e] # 0
        PROVE  connections_'[e] \in DOMAIN conns /\ conns'[connections_'[e]].ep = e
    <3>1. connections_'[e] = connections_[e]  BY <1>7, <2>2
    <3>2. connections_[e] \in DOMAIN conns /\ conns[connections_[e]].ep = e
          BY <2>2, <3>1 DEF SafeInv, OpenedIsListed
    <3> QED  BY <1>3, <3>1, <3>2
  <2> QED  BY <1>5, <2>1, <2>2 DEF OpenedIsListed
<1>10. \A e \in net' : e \notin net => SentByServer(e)
  <2> DEFINE D == {ServerData(s) : s \in Listed}
                    \cup {ServerBye(s) : s \in {t \in Gone : conns[t].st = "opened"}}
  <2>1. Listed \subseteq DOMAIN conns /\ Gone \subseteq Listed
        BY DEF Listed, Gone, SafeInv, OpenedIsListed
  <2>2. ASSUME NEW e \in D PROVE SentByServer(e)
    <3>1. PICK s \in DOMAIN conns : e \in {ServerData(s), ServerBye(s)}  BY <2>1
    <3>2. /\ e \in Datagram /\ e.to = "client" /\ e.op \in {"data", "disconnect"}
          /\ e.ep = conns[s].ep /\ e.from = s
          BY <1>1, <3>1, ServerSends
    <3> QED  BY <1>3, <1>5, <3>2 DEF SentByServer
  <2>3. net' \subseteq net \cup D  BY TransmitNet DEF DoUpdate
  <2> HIDE DEF D
  <2> QED  BY <2>2, <2>3
<1> QED  BY <1>1, <1>5, <1>6, <1>8, <1>9, <1>10, ServerStep

LEMMA TickSafe ==
  ASSUME SafeInv, Tick
  PROVE  SafeInv'
<1>1. /\ TypeOK /\ UNCHANGED <<conv, connections_, net>>
      /\ client \in [Attempt -> ClientRecord]
      BY DEF SafeInv, Tick, TypeOK
<1>2. ASSUME NEW a \in Attempt
      PROVE  /\ client'[a] \in ClientRecord
             /\ client'[a].st = client[a].st /\ client'[a].ep = client[a].ep
             /\ client'[a].conv = client[a].conv /\ client'[a].srv = client[a].srv
  <2>1. client[a] \in ClientRecord  BY ClientParts
  <2>2. CASE client[a].st = "opened" /\ client[a].quiet <= Timeout
    <3>1. client'[a] = [client[a] EXCEPT !.quiet = client[a].quiet + 1]
          BY <2>2 DEF Tick
    <3>2. client[a].quiet + 1 \in 0..(Timeout + 1)
          BY <2>2, ClientParts, SessionAssumption
    <3> QED  BY <2>1, <3>1, <3>2 DEF ClientRecord
  <2>3. CASE ~(client[a].st = "opened" /\ client[a].quiet <= Timeout)
    <3>1. client'[a] = client[a]  BY <2>3 DEF Tick
    <3> QED  BY <2>1, <3>1
  <2> QED  BY <2>2, <2>3
<1>3. client' \in [Attempt -> ClientRecord]
  <2>1. client' = [a \in Attempt |-> client'[a]]  BY DEF Tick
  <2> QED  BY <1>2, <2>1
<1>4. ASSUME NEW s \in DOMAIN conns
      PROVE  /\ conns'[s] \in ConnRecord
             /\ conns'[s].ep = conns[s].ep /\ conns'[s].conv = conns[s].conv
             /\ conns'[s].st = conns[s].st
  <2>1. conns[s] \in ConnRecord  BY <1>1, ConnParts
  <2>2. CASE s \in Listed /\ conns[s].quiet <= Timeout
    <3>1. conns'[s] = [conns[s] EXCEPT !.quiet = conns[s].quiet + 1]
          BY <2>2 DEF Tick
    <3>2. conns[s].quiet + 1 \in 0..(Timeout + 1)
          BY <1>1, <2>2, ConnParts, SessionAssumption
    <3> QED  BY <2>1, <3>1, <3>2 DEF ConnRecord
  <2>3. CASE ~(s \in Listed /\ conns[s].quiet <= Timeout)
    <3>1. conns'[s] = conns[s]  BY <2>3 DEF Tick
    <3> QED  BY <2>1, <3>1
  <2> QED  BY <2>2, <2>3
<1>5. conns' \in [1..Len(conns) -> ConnRecord]
  <2>1. conns' = [s \in DOMAIN conns |-> conns'[s]]  BY DEF Tick
  <2> QED  BY <1>1, <1>4, <2>1, ConnsParts
<1>6. /\ conns' \in Seq(ConnRecord) /\ Len(conns') = Len(conns) /\ DOMAIN conns' = DOMAIN conns
      BY <1>1, <1>5, ConnsParts, SeqOfConns
<1>7. TypeOK'  BY <1>1, <1>3, <1>6 DEF TypeOK
<1>8. Started' /\ Numbered'  BY <1>1, <1>2 DEF SafeInv, Started, Numbered
<1>9. FromConns'  BY <1>1, <1>4, <1>6 DEF SafeInv, FromConns
<1>10. OpenedIsListed'  BY <1>1, <1>4, <1>6 DEF SafeInv, OpenedIsListed
<1>11. ConvAgrees'  BY <1>2, <1>4, <1>6 DEF SafeInv, ConvAgrees
<1> QED  BY <1>7, <1>8, <1>9, <1>10, <1>11 DEF SafeInv

LEMMA LoseSafe ==
  ASSUME SafeInv, NEW d \in net, Lose(d)
  PROVE  SafeInv'
<1>1. net' \subseteq net /\ UNCHANGED <<conv, client, conns, connections_>>  BY DEF Lose
<1>2. TypeOK'  BY <1>1 DEF SafeInv, TypeOK
<1>3. Numbered' /\ FromConns'  BY <1>1 DEF SafeInv, Numbered, FromConns
<1>4. Started' /\ OpenedIsListed' /\ ConvAgrees'
      BY <1>1 DEF SafeInv, Started, OpenedIsListed, ConvAgrees
<1> QED  BY <1>2, <1>3, <1>4 DEF SafeInv

-----------------------------------------------------------------------------
(* The invariant, and the theorems.                                        *)

LEMMA InitSafe == Init => SafeInv
<1> SUFFICES ASSUME Init PROVE SafeInv  OBVIOUS
<1> USE DEF Init
<1>1. TypeOK
  <2>1. [st |-> "new", ep |-> 0, conv |-> 0, srv |-> 0, quiet |-> 0, heard |-> {}]
          \in ClientRecord
        BY SessionAssumption DEF ClientRecord, ClientState
  <2>2. client \in [Attempt -> ClientRecord]  BY <2>1
  <2>3. conns \in Seq(ConnRecord) /\ Len(conns) = 0  OBVIOUS
  <2>4. connections_ \in [Endpoint -> 0..Len(conns)]  BY <2>3
  <2> QED  BY <2>2, <2>3, <2>4 DEF TypeOK
<1>2. Started /\ ConvAgrees  BY DEF Started, ConvAgrees
<1>3. Numbered /\ FromConns  BY DEF Numbered, FromConns
<1>4. OpenedIsListed  BY DEF OpenedIsListed
<1> QED  BY <1>1, <1>2, <1>3, <1>4 DEF SafeInv

LEMMA NextSafe == SafeInv /\ [Next]_vars => SafeInv'
<1> SUFFICES ASSUME SafeInv, [Next]_vars PROVE SafeInv'  OBVIOUS
<1>1. CASE UNCHANGED vars
      BY <1>1 DEF vars, SafeInv, TypeOK, Started, Numbered, FromConns, OpenedIsListed, ConvAgrees
<1>2. ASSUME NEW a \in Attempt, NEW e \in Endpoint, StartConnect(a, e) PROVE SafeInv'
      BY <1>2, StartConnectSafe
<1>3. ASSUME NEW a \in Attempt,
             SendHandshark(a) \/ Abandon(a) \/ ClientClose(a) \/ ClientTimer(a)
      PROVE  SafeInv'
      BY <1>3, SendHandsharkSafe, AbandonSafe, ClientCloseSafe, ClientTimerSafe
<1>4. ASSUME NEW a \in Attempt, NEW d \in net, FirstDatagram(a, d) \/ ClientReceive(a, d)
      PROVE  SafeInv'
      BY <1>4, FirstDatagramSafe, ClientReceiveSafe
<1>5. ASSUME NEW d \in net, Handshark(d) PROVE SafeInv'
      BY <1>5, HandsharkAgainSafe, HandsharkNewSafe DEF Handshark
<1>6. ASSUME NEW d \in net, AcceptorReceive(d) \/ Lose(d) PROVE SafeInv'
      BY <1>6, AcceptorReceiveSafe, LoseSafe
<1>7. ASSUME NEW s \in DOMAIN conns, ServerClose(s) PROVE SafeInv'
      BY <1>7, ServerCloseSafe
<1>8. CASE DoUpdate  BY <1>8, DoUpdateSafe
<1>9. CASE Tick  BY <1>9, TickSafe
<1> QED  BY <1>1, <1>2, <1>3, <1>4, <1>5, <1>6, <1>7, <1>8, <1>9 DEF Next

LEMMA SafeInvariant == Spec => []SafeInv
BY InitSafe, NextSafe, PTL DEF Spec

\* Type correctness, for any number of clients, ports, connections and datagrams.
THEOREM TypeCorrect == Spec => []TypeOK
<1>1. SafeInv => TypeOK  BY DEF SafeInv
<1> QED  BY <1>1, SafeInvariant, PTL

\* An entry of the acceptor's table is a connection of that endpoint, and an opened
\* connection is in the table, through every close and replacement of handshark.
THEOREM TableIsConsistent == Spec => []OpenedIsListed
<1>1. SafeInv => OpenedIsListed  BY DEF SafeInv
<1> QED  BY <1>1, SafeInvariant, PTL

\* A client connection has the conv and the endpoint of the connection that answered
\* its handshake, however many connects overwrite the static conv meanwhile.
THEOREM ConvsAgree == Spec => []ConvAgrees
<1>1. SafeInv => ConvAgrees  BY DEF SafeInv
<1> QED  BY <1>1, SafeInvariant, PTL


-----------------------------------------------------------------------------
(* What a stream takes is of its own port and conv.                        *)

\* d is, or could be, a datagram of a client as it is now.
FromClient(d) ==
  /\ d.from \in Attempt /\ client[d.from].ep = d.ep
  /\ client[d.from].st \notin {"new", "connecting"}
  /\ d.op = "data" => /\ client[d.from].st \in {"opened", "closed"}
                      /\ client[d.from].conv = d.conv

\* Datagrams to the acceptor tell the port of the client, and data its conv.
FromClients == \A d \in net : d.to = "server" => FromClient(d)

\* Data to a client tells the conv of the connection.
DataHasConv ==
  \A d \in net : d.to = "client" /\ d.op = "data" => conns[d.from].conv = d.conv

\* The inductive invariant of StreamsAgree.
AgreeInv == SafeInv /\ FromClients /\ DataHasConv /\ StreamsAgree

\* A client keeps its port from the start, and its conv from the response on.
ClientsKeep ==
  \A a \in Attempt :
    /\ client[a].st # "new" => client'[a].st # "new" /\ client'[a].ep = client[a].ep
    /\ client[a].st \notin {"new", "connecting"} => client'[a].st \notin {"new", "connecting"}
    /\ client[a].st \in {"opened", "closed"} =>
         client'[a].st \in {"opened", "closed"} /\ client'[a].conv = client[a].conv

\* A client takes nothing but what a datagram of its port and conv brings.
ClientsHear ==
  \A a \in Attempt : \A s \in client'[a].heard :
    \/ s \in client[a].heard
    \/ /\ client[a].st = "opened"
       /\ \E d \in net : /\ d.to = "client" /\ d.op = "data" /\ d.from = s
                         /\ d.ep = client[a].ep /\ d.conv = client[a].conv

\* The same of the connections, and of the handshakes they answer.
ServersHear ==
  \A s \in DOMAIN conns' :
    /\ \A a \in conns'[s].heard :
         /\ s \in DOMAIN conns
         /\ \/ a \in conns[s].heard
            \/ \E d \in net : /\ d.to = "server" /\ d.op = "data" /\ d.from = a
                              /\ d.ep = conns[s].ep /\ d.conv = conns[s].conv
    /\ \A a \in conns'[s].by :
         \/ s \in DOMAIN conns /\ a \in conns[s].by
         \/ \E d \in net : d.to = "server" /\ d.from = a /\ d.ep = conns'[s].ep

\* A step of the clients keeps the invariant.
LEMMA ClientsAgree ==
  ASSUME AgreeInv, SafeInv', UNCHANGED serverVars, ClientsKeep, ClientsHear,
         \A d \in net' : d \notin net => d.to = "server" /\ FromClient(d)'
  PROVE  AgreeInv'
<1> USE DEF AgreeInv
<1>1. FromClients'
  <2> SUFFICES ASSUME NEW d \in net', d.to = "server" PROVE FromClient(d)'
      BY DEF FromClients
  <2>1. CASE d \in net
    <3>1. FromClient(d)  BY <2>1 DEF FromClients
    <3> QED  BY <3>1 DEF FromClient, ClientsKeep
  <2>2. CASE d \notin net  BY <2>2
  <2> QED  BY <2>1, <2>2
<1>2. DataHasConv'
  <2> SUFFICES ASSUME NEW d \in net', d.to = "client", d.op = "data"
               PROVE  conns'[d.from].conv = d.conv
      BY DEF DataHasConv
  <2>1. d \in net  OBVIOUS
  <2> QED  BY <2>1 DEF DataHasConv, serverVars
<1>3. StreamsAgree'
  <2>1. ConvAgrees'  BY DEF SafeInv
  <2>2. ASSUME NEW s \in DOMAIN conns, NEW a \in conns[s].heard
        PROVE  a \in Attempt /\ Matches(a, s)'
    <3>1. a \in Attempt /\ Matches(a, s)  BY DEF StreamsAgree
    <3> QED  BY <3>1 DEF Matches, ClientsKeep, serverVars
  <2>3. ASSUME NEW s \in DOMAIN conns, NEW a \in conns[s].by
        PROVE  client'[a].st # "new" /\ client'[a].ep = conns[s].ep
    <3>1. a \in Attempt  BY ConnParts DEF SafeInv
    <3>2. client[a].st # "new" /\ client[a].ep = conns[s].ep  BY DEF StreamsAgree
    <3> QED  BY <3>1, <3>2 DEF ClientsKeep
  <2>4. ASSUME NEW a \in Attempt, NEW s \in client'[a].heard
        PROVE  s \in DOMAIN conns /\ Matches(a, s)'
    <3>1. s \in DOMAIN conns /\ Matches(a, s)
      <4>1. CASE s \in client[a].heard  BY <4>1 DEF StreamsAgree
      <4>2. CASE s \notin client[a].heard
        <5>1. client[a].st = "opened"  BY <4>2 DEF ClientsHear
        <5>2. PICK d \in net : /\ d.to = "client" /\ d.op = "data" /\ d.from = s
                               /\ d.ep = client[a].ep /\ d.conv = client[a].conv
              BY <4>2 DEF ClientsHear
        <5>3. d.from \in DOMAIN conns /\ conns[d.from].ep = d.ep
              BY <5>2 DEF SafeInv, FromConns
        <5>4. conns[d.from].conv = d.conv  BY <5>2 DEF DataHasConv
        <5> QED  BY <5>1, <5>2, <5>3, <5>4 DEF Matches
      <4> QED  BY <4>1, <4>2
    <3> QED  BY <3>1 DEF Matches, ClientsKeep, serverVars
  <2> QED  BY <2>1, <2>2, <2>3, <2>4 DEF StreamsAgree, serverVars
<1> QED  BY <1>1, <1>2, <1>3

\* A step of the acceptor keeps the invariant.
LEMMA ServersAgree ==
  ASSUME AgreeInv, SafeInv', UNCHANGED <<conv, client>>, Keeps, ServersHear,
         \A d \in net' : d \notin net =>
           d.to = "client" /\ (d.op = "data" => conns'[d.from].conv = d.conv)
  PROVE  AgreeInv'
<1> USE DEF AgreeInv
<1>1. FromClients'
  <2> SUFFICES ASSUME NEW d \in net', d.to = "server" PROVE FromClient(d)'
      BY DEF FromClients
  <2>1. d \in net  OBVIOUS
  <2>2. FromClient(d)  BY <2>1 DEF FromClients
  <2> QED  BY <2>2 DEF FromClient
<1>2. DataHasConv'
  <2> SUFFICES ASSUME NEW d \in net', d.to = "client", d.op = "data"
               PROVE  conns'[d.from].conv = d.conv
      BY DEF DataHasConv
  <2>1. CASE d \in net
    <3>1. d.from \in DOMAIN conns  BY <2>1 DEF SafeInv, FromConns
    <3> QED  BY <2>1, <3>1 DEF DataHasConv, Keeps
  <2>2. CASE d \notin net  BY <2>2
  <2> QED  BY <2>1, <2>2
<1>3. StreamsAgree'
  <2>1. ConvAgrees'  BY DEF SafeInv
  <2>2. ASSUME NEW s \in DOMAIN conns', NEW a \in conns'[s].heard
        PROVE  a \in Attempt /\ Matches(a, s)'
    <3>1. s \in DOMAIN conns  BY DEF ServersHear
    <3>2. a \in Attempt /\ Matches(a, s)
      <4>1. CASE a \in conns[s].heard  BY <3>1, <4>1 DEF StreamsAgree
      <4>2. CASE a \notin conns[s].heard
        <5>1. PICK d \in net : /\ d.to = "server" /\ d.op = "data" /\ d.from = a
                               /\ d.ep = conns[s].ep /\ d.conv = conns[s].conv
              BY <4>2 DEF ServersHear
        <5>2. FromClient(d)  BY <5>1 DEF FromClients
        <5> QED  BY <5>1, <5>2 DEF FromClient, Matches
      <4> QED  BY <4>1, <4>2
    <3> QED  BY <3>1, <3>2 DEF Matches, Keeps
  <2>3. ASSUME NEW s \in DOMAIN conns', NEW a \in conns'[s].by
        PROVE  client'[a].st # "new" /\ client'[a].ep = conns'[s].ep
    <3>1. CASE s \in DOMAIN conns /\ a \in conns[s].by
      <4>1. client[a].st # "new" /\ client[a].ep = conns[s].ep  BY <3>1 DEF StreamsAgree
      <4> QED  BY <3>1, <4>1 DEF Keeps
    <3>2. CASE ~(s \in DOMAIN conns /\ a \in conns[s].by)
      <4>1. PICK d \in net : d.to = "server" /\ d.from = a /\ d.ep = conns'[s].ep
            BY <3>2 DEF ServersHear
      <4>2. FromClient(d)  BY <4>1 DEF FromClients
      <4> QED  BY <4>1, <4>2 DEF FromClient
    <3> QED  BY <3>1, <3>2
  <2>4. ASSUME NEW a \in Attempt, NEW s \in client[a].heard
        PROVE  s \in DOMAIN conns' /\ Matches(a, s)'
    <3>1. s \in DOMAIN conns /\ Matches(a, s)  BY DEF StreamsAgree
    <3> QED  BY <3>1 DEF Matches, Keeps
  <2> QED  BY <2>1, <2>2, <2>3, <2>4 DEF StreamsAgree
<1> QED  BY <1>1, <1>2, <1>3


\* What an opened client sends is its own.
LEMMA OwnDatagrams ==
  ASSUME SafeInv, NEW a \in Attempt, client[a].st = "opened", ClientsKeep,
         NEW d \in {ClientData(a), ClientBye(a)}
  PROVE  d.to = "server" /\ FromClient(d)'
<1>1. client[a].ep \in Endpoint /\ client[a].conv \in Nat
      BY ClientParts DEF SafeInv, Started
<1>2. /\ d.to = "server" /\ d.from = a /\ d.ep = client[a].ep
      /\ d.op = "data" => d.conv = client[a].conv
      BY <1>1 DEF ClientData, ClientBye, ToServer
<1> QED  BY <1>2 DEF FromClient, ClientsKeep

LEMMA StartConnectAgrees ==
  ASSUME AgreeInv, NEW a \in Attempt, NEW e \in Endpoint, StartConnect(a, e)
  PROVE  AgreeInv'
<1>1. SafeInv'  BY StartConnectSafe DEF AgreeInv
<1>2. client \in [Attempt -> ClientRecord]  BY DEF AgreeInv, SafeInv, TypeOK
<1>3. ClientsKeep /\ ClientsHear  BY <1>2 DEF StartConnect, ClientsKeep, ClientsHear
<1> QED  BY <1>1, <1>3, ClientsAgree DEF StartConnect

LEMMA SendHandsharkAgrees ==
  ASSUME AgreeInv, NEW a \in Attempt, SendHandshark(a)
  PROVE  AgreeInv'
<1>1. SafeInv'  BY SendHandsharkSafe DEF AgreeInv
<1>2. client \in [Attempt -> ClientRecord]  BY DEF AgreeInv, SafeInv, TypeOK
<1>3. ClientsKeep /\ ClientsHear  BY <1>2 DEF SendHandshark, ClientsKeep, ClientsHear
<1>4. client'[a].ep = client[a].ep /\ client'[a].st = "waiting"
      BY <1>2 DEF SendHandshark
<1>5. net' \subseteq net \cup {ToServer("handshark", client[a].ep, conv, a)}
      BY TransmitNet DEF SendHandshark
<1>6. ASSUME NEW d \in net', d \notin net PROVE d.to = "server" /\ FromClient(d)'
  <2>1. d.to = "server" /\ d.op = "handshark" /\ d.ep = client[a].ep /\ d.from = a
        BY <1>5, <1>6 DEF ToServer
  <2> QED  BY <1>4, <2>1 DEF FromClient
<1> QED  BY <1>1, <1>3, <1>6, ClientsAgree DEF SendHandshark

LEMMA AbandonAgrees ==
  ASSUME AgreeInv, NEW a \in Attempt, Abandon(a)
  PROVE  AgreeInv'
<1>1. SafeInv'  BY AbandonSafe DEF AgreeInv
<1>2. client \in [Attempt -> ClientRecord]  BY DEF AgreeInv, SafeInv, TypeOK
<1>3. ClientsKeep /\ ClientsHear  BY <1>2 DEF Abandon, ClientsKeep, ClientsHear
<1> QED  BY <1>1, <1>3, ClientsAgree DEF Abandon

LEMMA FirstDatagramAgrees ==
  ASSUME AgreeInv, NEW a \in Attempt, NEW d \in net, FirstDatagram(a, d)
  PROVE  AgreeInv'
<1>1. SafeInv'  BY FirstDatagramSafe DEF AgreeInv
<1>2. client \in [Attempt -> ClientRecord]  BY DEF AgreeInv, SafeInv, TypeOK
<1>3. client[a].st = "waiting"  BY DEF FirstDatagram
<1>4. \A b \in Attempt : /\ b # a => client'[b] = client[b]
                         /\ client'[b].ep = client[b].ep /\ client'[b].heard = client[b].heard
                         /\ client'[a].st \in {"opened", "failed"}
  <2>1. CASE d.op = "response"
    <3>1. client' = [client EXCEPT ![a].st = "opened", ![a].conv = d.conv, ![a].srv = d.from]
          BY <2>1 DEF FirstDatagram
    <3> QED  BY <1>2, <3>1 DEF ClientRecord
  <2>2. CASE d.op # "response"
    <3>1. client' = [client EXCEPT ![a].st = "failed"]  BY <2>2 DEF FirstDatagram
    <3> QED  BY <1>2, <3>1 DEF ClientRecord
  <2> QED  BY <2>1, <2>2
<1>6. ClientsKeep /\ ClientsHear  BY <1>3, <1>4 DEF ClientsKeep, ClientsHear
<1>7. net' \subseteq net  BY WithoutNet DEF FirstDatagram
<1> QED  BY <1>1, <1>6, <1>7, ClientsAgree DEF FirstDatagram

\* A client's connection ends, with what its close sends.
LEMMA ClientEndAgrees ==
  ASSUME AgreeInv, SafeInv', NEW a \in Attempt, client[a].st = "opened",
         NEW base, base \subseteq net, Transmit(base, {ClientData(a), ClientBye(a)}),
         \/ client' = [client EXCEPT ![a].st = "closed"]
         \/ client' = [client EXCEPT ![a].quiet = 0, ![a].st = "closed"],
         UNCHANGED serverVars
  PROVE  AgreeInv'
<1>1. client \in [Attempt -> ClientRecord] /\ SafeInv  BY DEF AgreeInv, SafeInv, TypeOK
<1>2. \A b \in Attempt : /\ b # a => client'[b] = client[b]
                         /\ client'[b].ep = client[b].ep /\ client'[b].heard = client[b].heard
                         /\ client'[b].conv = client[b].conv
  <2>1. CASE client' = [client EXCEPT ![a].st = "closed"]  BY <1>1, <2>1
  <2>2. CASE client' = [client EXCEPT ![a].quiet = 0, ![a].st = "closed"]  BY <1>1, <2>2
  <2> QED  BY <2>1, <2>2
<1>3. client'[a].st = "closed"
  <2>1. CASE client' = [client EXCEPT ![a].st = "closed"]  BY <1>1, <2>1 DEF ClientRecord
  <2>2. CASE client' = [client EXCEPT ![a].quiet = 0, ![a].st = "closed"]
        BY <1>1, <2>2 DEF ClientRecord
  <2> QED  BY <2>1, <2>2
<1>4. ClientsKeep /\ ClientsHear  BY <1>2, <1>3 DEF ClientsKeep, ClientsHear
<1>5. net' \subseteq net \cup {ClientData(a), ClientBye(a)}  BY TransmitNet
<1>6. \A d \in net' : d \notin net => d.to = "server" /\ FromClient(d)'
      BY <1>1, <1>4, <1>5, OwnDatagrams
<1> QED  BY <1>4, <1>6, ClientsAgree

LEMMA ClientReceiveAgrees ==
  ASSUME AgreeInv, NEW a \in Attempt, NEW d \in net, ClientReceive(a, d)
  PROVE  AgreeInv'
<1>1. SafeInv'  BY ClientReceiveSafe DEF AgreeInv
<1>2. client \in [Attempt -> ClientRecord]  BY DEF AgreeInv, SafeInv, TypeOK
<1>3. client[a].st = "opened" /\ d.to = "client" /\ d.ep = client[a].ep /\ UNCHANGED serverVars
      BY DEF ClientReceive
<1>4. CASE d.op = "disconnect"
  <2>1. /\ client' = [client EXCEPT ![a].quiet = 0, ![a].st = "closed"]
        /\ Transmit(Without(d), {ClientData(a), ClientBye(a)})
        BY <1>4 DEF ClientReceive
  <2> QED  BY <1>1, <1>3, <2>1, WithoutNet, ClientEndAgrees
<1>5. CASE d.op = "data"
  <2> DEFINE h == IF Takes(d, client[a].conv) THEN client[a].heard \cup {d.from}
                  ELSE client[a].heard
  <2>1. client' = [client EXCEPT ![a].quiet = 0, ![a].heard = h] /\ net' = Without(d)
        BY <1>5 DEF ClientReceive
  <2>2. \A b \in Attempt :
          /\ client'[b].st = client[b].st /\ client'[b].ep = client[b].ep
          /\ client'[b].conv = client[b].conv
          /\ b # a => client'[b].heard = client[b].heard
    <3> HIDE DEF h
    <3> QED  BY <1>2, <2>1
  <2>3. client'[a].heard = h
    <3> HIDE DEF h
    <3> QED  BY <1>2, <2>1 DEF ClientRecord
  <2>4. ClientsKeep  BY <2>2 DEF ClientsKeep
  <2>5. ClientsHear
    <3> SUFFICES ASSUME NEW b \in Attempt, NEW s \in client'[b].heard, s \notin client[b].heard
                 PROVE  /\ client[b].st = "opened"
                        /\ \E f \in net : /\ f.to = "client" /\ f.op = "data" /\ f.from = s
                                          /\ f.ep = client[b].ep /\ f.conv = client[b].conv
        BY DEF ClientsHear
    <3>1. b = a  BY <2>2
    <3>2. s = d.from /\ d.conv = client[a].conv  BY <2>3, <3>1 DEF Takes
    <3> QED  BY <1>3, <1>5, <3>1, <3>2
  <2>6. net' \subseteq net  BY <2>1, WithoutNet
  <2> QED  BY <1>1, <1>3, <2>4, <2>5, <2>6, ClientsAgree
<1>6. CASE d.op \notin {"data", "disconnect"}
  <2>1. UNCHANGED client /\ net' = Without(d)  BY <1>6 DEF ClientReceive
  <2>2. ClientsKeep /\ ClientsHear  BY <2>1 DEF ClientsKeep, ClientsHear
  <2>3. net' \subseteq net  BY <2>1, WithoutNet
  <2> QED  BY <1>1, <1>3, <2>2, <2>3, ClientsAgree
<1> QED  BY <1>4, <1>5, <1>6

LEMMA ClientCloseAgrees ==
  ASSUME AgreeInv, NEW a \in Attempt, ClientClose(a)
  PROVE  AgreeInv'
<1>1. SafeInv'  BY ClientCloseSafe DEF AgreeInv
<1> QED  BY <1>1, ClientEndAgrees DEF ClientClose

LEMMA ClientTimerAgrees ==
  ASSUME AgreeInv, NEW a \in Attempt, ClientTimer(a)
  PROVE  AgreeInv'
<1>1. SafeInv' /\ SafeInv  BY ClientTimerSafe DEF AgreeInv
<1>2. CASE client[a].quiet > Timeout  BY <1>1, <1>2, ClientEndAgrees DEF ClientTimer
<1>3. CASE ~(client[a].quiet > Timeout)
  <2>1. /\ client[a].st = "opened" /\ Transmit(net, {ClientData(a)})
        /\ UNCHANGED client /\ UNCHANGED serverVars
        BY <1>3 DEF ClientTimer
  <2>2. ClientsKeep /\ ClientsHear  BY <2>1 DEF ClientsKeep, ClientsHear
  <2>3. net' \subseteq net \cup {ClientData(a)}  BY <2>1, TransmitNet
  <2>4. \A d \in net' : d \notin net => d.to = "server" /\ FromClient(d)'
        BY <1>1, <2>1, <2>2, <2>3, OwnDatagrams
  <2> QED  BY <1>1, <2>1, <2>2, <2>4, ClientsAgree
<1> QED  BY <1>2, <1>3


\* What a step of the acceptor may leave of a connection s.
ConnKept(s) ==
  /\ s \in DOMAIN conns'
  /\ conns'[s].ep = conns[s].ep /\ conns'[s].conv = conns[s].conv

\* What it leaves alone besides when it takes nothing.
HeardKept(s) == conns'[s].heard = conns[s].heard /\ conns'[s].by = conns[s].by

\* What a connection sends has its conv.
LEMMA ServerDatagrams ==
  ASSUME NEW s, NEW d \in {ServerData(s), ServerBye(s)}
  PROVE  /\ d.to = "client" /\ d.from = s
         /\ d.op = "data" => d.conv = conns[s].conv
BY DEF ServerData, ServerBye, ToClient

\* A step of the acceptor that takes no data, answers no handshake, and lets only
\* connections send.
LEMMA ServersQuiet ==
  ASSUME AgreeInv, SafeInv', UNCHANGED <<conv, client>>, DOMAIN conns' = DOMAIN conns,
         \A s \in DOMAIN conns : ConnKept(s) /\ HeardKept(s),
         \A d \in net' : d \notin net =>
           \E s \in DOMAIN conns : d \in {ServerData(s), ServerBye(s)}
  PROVE  AgreeInv'
<1>1. Keeps  BY DEF ConnKept, Keeps
<1>2. ServersHear  BY DEF HeardKept, ServersHear
<1>3. \A d \in net' : d \notin net =>
        d.to = "client" /\ (d.op = "data" => conns'[d.from].conv = d.conv)
      BY ServerDatagrams DEF ConnKept
<1> QED  BY <1>1, <1>2, <1>3, ServersAgree

LEMMA HandsharkAgainAgrees ==
  ASSUME AgreeInv, NEW d \in net, d.op = "handshark", UNCHANGED <<conv, client>>,
         HandsharkAgain(d, connections_[d.ep])
  PROVE  AgreeInv'
<1> DEFINE old == connections_[d.ep]
<1>1. SafeInv /\ SafeInv' /\ TypeOK  BY HandsharkAgainSafe DEF AgreeInv, SafeInv
<1>2. d \in Datagram /\ d.ep \in Endpoint /\ d.to = "server"
      BY <1>1, DatagramParts DEF TypeOK
<1>3. old \in DOMAIN conns /\ conns[old].ep = d.ep
  <2>1. old \in DOMAIN conns  BY DEF HandsharkAgain, IsIdle
  <2>2. old # 0  BY <1>1, <2>1, ConnsParts
  <2> QED  BY <1>1, <1>2, <2>1, <2>2 DEF SafeInv, OpenedIsListed
<1>4. conns' = [conns EXCEPT ![old].by = conns[old].by \cup {d.from}]
      BY <1>1, <1>3 DEF HandsharkAgain, TypeOK
<1>5. net' \subseteq net \cup {ToClient("response", d.ep, conns[old].conv, old)}
      BY WithoutNet, TransmitNet DEF HandsharkAgain
<1> HIDE DEF old
<1>6. DOMAIN conns' = DOMAIN conns
      /\ \A s \in DOMAIN conns :
           /\ ConnKept(s) /\ conns'[s].heard = conns[s].heard
           /\ s # old => conns'[s].by = conns[s].by
      BY <1>1, <1>3, <1>4, ConnsParts DEF ConnKept
<1>7. conns'[old].by = conns[old].by \cup {d.from}
      BY <1>1, <1>3, <1>4, ConnsParts DEF ConnRecord
<1>8. Keeps  BY <1>6 DEF ConnKept, Keeps
<1>9. ServersHear
  <2>1. ASSUME NEW s \in DOMAIN conns, NEW a \in conns'[s].by, a \notin conns[s].by
        PROVE  d.from = a /\ d.ep = conns'[s].ep
        BY <1>3, <1>6, <1>7, <2>1 DEF ConnKept
  <2> QED  BY <1>2, <1>6, <2>1 DEF ServersHear
<1>10. \A e \in net' : e \notin net => e.to = "client" /\ e.op # "data"
       BY <1>5 DEF ToClient
<1> QED  BY <1>1, <1>8, <1>9, <1>10, ServersAgree

LEMMA HandsharkNewAgrees ==
  ASSUME AgreeInv, NEW d \in net, d.op = "handshark", UNCHANGED <<conv, client>>,
         HandsharkNew(d, connections_[d.ep])
  PROVE  AgreeInv'
<1> DEFINE old == connections_[d.ep]
           new == Len(conns) + 1
<1>1. SafeInv /\ SafeInv' /\ TypeOK  BY HandsharkNewSafe DEF AgreeInv, SafeInv
<1>2. d \in Datagram /\ d.ep \in Endpoint /\ d.to = "server"
      BY <1>1, DatagramParts DEF TypeOK
<1>3. conns' = Append(Closed(old), NewConnection(d))  BY DEF HandsharkNew
<1>4. net' \subseteq net \cup (ClosingDatagrams(old)
                                 \cup {ToClient("response", d.ep, d.conv, new)})
      BY WithoutNet, TransmitNet DEF HandsharkNew
<1>5. /\ Closed(old) \in Seq(ConnRecord) /\ Len(Closed(old)) = Len(conns)
      /\ Len(conns) \in Nat /\ DOMAIN conns = 1..Len(conns)
      /\ \A s \in DOMAIN conns :
           /\ Closed(old)[s].ep = conns[s].ep /\ Closed(old)[s].conv = conns[s].conv
           /\ Closed(old)[s].by = conns[s].by /\ Closed(old)[s].heard = conns[s].heard
      BY <1>1, ClosedParts, ConnsParts
<1>6. /\ NewConnection(d) \in ConnRecord /\ NewConnection(d).heard = {}
      /\ NewConnection(d).by = {d.from} /\ NewConnection(d).ep = d.ep
      BY <1>1, NewConnectionParts
<1> HIDE DEF old
<1>7. /\ DOMAIN conns' = 1..new /\ conns'[new] = NewConnection(d)
      /\ \A s \in DOMAIN conns : s \in DOMAIN conns' /\ conns'[s] = Closed(old)[s]
      BY <1>3, <1>5, <1>6
<1>8. Keeps  BY <1>5, <1>7 DEF Keeps
<1>9. ASSUME NEW s \in DOMAIN conns', s \notin DOMAIN conns PROVE s = new
      BY <1>5, <1>7, <1>9
<1>10. ServersHear  BY <1>2, <1>5, <1>6, <1>7, <1>9 DEF ServersHear
<1>11. ASSUME NEW e \in net', e \notin net
       PROVE  e.to = "client" /\ (e.op = "data" => conns'[e.from].conv = e.conv)
  <2>1. CASE e \in ClosingDatagrams(old)
    <3>1. old \in DOMAIN conns /\ e \in {ServerData(old), ServerBye(old)}
          BY <2>1 DEF ClosingDatagrams
    <3> QED  BY <1>5, <1>7, <3>1, ServerDatagrams
  <2>2. CASE e = ToClient("response", d.ep, d.conv, new)  BY <2>2 DEF ToClient
  <2> QED  BY <1>4, <1>11, <2>1, <2>2
<1> QED  BY <1>1, <1>8, <1>10, <1>11, ServersAgree

LEMMA AcceptorReceiveAgrees ==
  ASSUME AgreeInv, NEW d \in net, AcceptorReceive(d)
  PROVE  AgreeInv'
<1> DEFINE s == connections_[d.ep]
<1>1. SafeInv /\ SafeInv' /\ TypeOK  BY AcceptorReceiveSafe DEF AgreeInv, SafeInv
<1>2. /\ d \in Datagram /\ d.ep \in Endpoint /\ d.to = "server"
      /\ UNCHANGED <<conv, client>>
      BY <1>1, DatagramParts DEF TypeOK, AcceptorReceive
<1>3. CASE s = 0
  <2>1. UNCHANGED conns /\ net' \subseteq net
        BY <1>3, WithoutNet DEF AcceptorReceive, Find
  <2>2. \A t \in DOMAIN conns : ConnKept(t) /\ HeardKept(t)  BY <2>1 DEF ConnKept, HeardKept
  <2> QED  BY <1>1, <1>2, <2>1, <2>2, ServersQuiet
<1>4. CASE s # 0 /\ d.op = "data"
  <2> DEFINE h == IF Takes(d, conns[s].conv) THEN conns[s].heard \cup {d.from}
                  ELSE conns[s].heard
             st == IF conns[s].st = "idle" THEN "opened" ELSE conns[s].st
  <2>1. s \in DOMAIN conns /\ conns[s].ep = d.ep
        BY <1>1, <1>2, <1>4 DEF SafeInv, OpenedIsListed
  <2>2. conns' = [conns EXCEPT ![s].st = st, ![s].quiet = 0, ![s].heard = h]
        BY <1>4 DEF AcceptorReceive, Find
  <2>3. net' \subseteq net  BY <1>4, WithoutNet DEF AcceptorReceive, Find
  <2>4. h = conns[s].heard \/ (h = conns[s].heard \cup {d.from} /\ d.conv = conns[s].conv)
        BY DEF Takes
  <2> HIDE DEF s, h, st
  <2>5. /\ DOMAIN conns' = DOMAIN conns
        /\ \A t \in DOMAIN conns :
             /\ ConnKept(t) /\ conns'[t].by = conns[t].by
             /\ t # s => conns'[t].heard = conns[t].heard
        BY <1>1, <2>1, <2>2, ConnsParts DEF ConnKept
  <2>6. conns'[s].heard = h  BY <1>1, <2>1, <2>2, ConnsParts DEF ConnRecord
  <2>7. Keeps  BY <2>5 DEF ConnKept, Keeps
  <2>8. ServersHear
    <3>1. ASSUME NEW t \in DOMAIN conns, NEW a \in conns'[t].heard, a \notin conns[t].heard
          PROVE  d.from = a /\ d.ep = conns[t].ep /\ d.conv = conns[t].conv
          BY <2>1, <2>4, <2>5, <2>6, <3>1
    <3> QED  BY <1>2, <1>4, <2>5, <3>1 DEF ServersHear
  <2> QED  BY <1>1, <1>2, <2>3, <2>7, <2>8, ServersAgree
<1>5. CASE s # 0 /\ d.op = "disconnect"
  <2> DEFINE D == IF conns[s].st = "closed" THEN {} ELSE {ServerData(s), ServerBye(s)}
  <2>1. s \in DOMAIN conns
        BY <1>1, <1>2, <1>5 DEF SafeInv, OpenedIsListed
  <2>2. conns' = [conns EXCEPT ![s].st = "closed", ![s].quiet = 0]
        BY <1>5 DEF AcceptorReceive, Find
  <2>3. Transmit(Without(d), D)  BY <1>5 DEF AcceptorReceive, Find
  <2>4. D \subseteq {ServerData(s), ServerBye(s)}  OBVIOUS
  <2> HIDE DEF s, D
  <2>5. net' \subseteq net \cup D  BY <2>3, TransmitNet, WithoutNet
  <2>6. DOMAIN conns' = DOMAIN conns /\ \A t \in DOMAIN conns : ConnKept(t) /\ HeardKept(t)
        BY <1>1, <2>1, <2>2, ConnsParts DEF ConnKept, HeardKept
  <2> QED  BY <1>1, <1>2, <2>1, <2>4, <2>5, <2>6, ServersQuiet
<1> QED  BY <1>3, <1>4, <1>5 DEF AcceptorReceive, Find

LEMMA ServerCloseAgrees ==
  ASSUME AgreeInv, NEW s \in DOMAIN conns, ServerClose(s)
  PROVE  AgreeInv'
<1>1. SafeInv /\ SafeInv' /\ TypeOK  BY ServerCloseSafe DEF AgreeInv, SafeInv
<1>2. conns' = Closed(s) /\ UNCHANGED <<conv, client>>  BY DEF ServerClose
<1>3. net' \subseteq net \cup ClosingDatagrams(s)  BY TransmitNet DEF ServerClose
<1>4. DOMAIN conns' = DOMAIN conns /\ \A t \in DOMAIN conns : ConnKept(t) /\ HeardKept(t)
      BY <1>1, <1>2, ClosedParts DEF ConnKept, HeardKept
<1> QED  BY <1>1, <1>2, <1>3, <1>4, ServersQuiet DEF ClosingDatagrams

LEMMA DoUpdateAgrees ==
  ASSUME AgreeInv, DoUpdate
  PROVE  AgreeInv'
<1>1. SafeInv /\ SafeInv' /\ TypeOK  BY DoUpdateSafe DEF AgreeInv, SafeInv
<1>2. conns' = [s \in DOMAIN conns |->
        IF s \in Gone /\ conns[s].st = "opened" THEN [conns[s] EXCEPT !.st = "closed"]
        ELSE conns[s]]
      BY DEF DoUpdate
<1>3. ASSUME NEW s \in DOMAIN conns PROVE ConnKept(s) /\ HeardKept(s)
  <2>1. conns[s] \in ConnRecord  BY <1>1, ConnParts
  <2> QED  BY <1>2, <2>1 DEF ConnKept, HeardKept, ConnRecord
<1>4. DOMAIN conns' = DOMAIN conns  BY <1>2
<1>5. \A d \in net' : d \notin net =>
        \E s \in DOMAIN conns : d \in {ServerData(s), ServerBye(s)}
  <2> DEFINE D == {ServerData(s) : s \in Listed}
                    \cup {ServerBye(s) : s \in {t \in Gone : conns[t].st = "opened"}}
  <2>1. Listed \subseteq DOMAIN conns /\ Gone \subseteq Listed
        BY <1>1 DEF Listed, Gone, SafeInv, OpenedIsListed
  <2>2. \A d \in D : \E s \in DOMAIN conns : d \in {ServerData(s), ServerBye(s)}  BY <2>1
  <2>3. net' \subseteq net \cup D  BY TransmitNet DEF DoUpdate
  <2> HIDE DEF D
  <2> QED  BY <2>2, <2>3
<1> QED  BY <1>1, <1>3, <1>4, <1>5, ServersQuiet DEF DoUpdate


\* The clock and a loss change nothing the invariant speaks of, but take datagrams away.
LEMMA QuietAgrees ==
  ASSUME AgreeInv, SafeInv', net' \subseteq net, DOMAIN conns' = DOMAIN conns,
         \A s \in DOMAIN conns : ConnKept(s) /\ HeardKept(s),
         \A a \in Attempt : /\ client'[a].st = client[a].st /\ client'[a].ep = client[a].ep
                            /\ client'[a].conv = client[a].conv
                            /\ client'[a].heard = client[a].heard
  PROVE  AgreeInv'
<1> USE DEF AgreeInv
<1>1. FromClients'
  <2>1. ASSUME NEW d \in net, FromClient(d) PROVE FromClient(d)'  BY <2>1 DEF FromClient
  <2> QED  BY <2>1 DEF FromClients
<1>2. DataHasConv'
  <2> SUFFICES ASSUME NEW d \in net, d.to = "client", d.op = "data"
               PROVE  conns'[d.from].conv = d.conv
      BY DEF DataHasConv
  <2>1. d.from \in DOMAIN conns  BY DEF SafeInv, FromConns
  <2> QED  BY <2>1 DEF DataHasConv, ConnKept
<1>3. StreamsAgree'
  <2>1. ASSUME NEW a \in Attempt, NEW s \in DOMAIN conns, Matches(a, s) PROVE Matches(a, s)'
        BY <2>1 DEF Matches, ConnKept
  <2>2. \A s \in DOMAIN conns : conns[s].by \subseteq Attempt  BY ConnParts DEF SafeInv
  <2>3. ConvAgrees'  BY DEF SafeInv
  <2> QED  BY <2>1, <2>2, <2>3 DEF StreamsAgree, ConnKept, HeardKept
<1> QED  BY <1>1, <1>2, <1>3

LEMMA TickAgrees ==
  ASSUME AgreeInv, Tick
  PROVE  AgreeInv'
<1>1. SafeInv /\ SafeInv'  BY TickSafe DEF AgreeInv
<1>2. net' \subseteq net /\ DOMAIN conns' = DOMAIN conns  BY DEF Tick
<1>3. ASSUME NEW s \in DOMAIN conns PROVE ConnKept(s) /\ HeardKept(s)
  <2>1. conns[s] \in ConnRecord  BY <1>1, ConnParts DEF SafeInv
  <2> QED  BY <2>1 DEF Tick, ConnKept, HeardKept, ConnRecord
<1>4. ASSUME NEW a \in Attempt
      PROVE  /\ client'[a].st = client[a].st /\ client'[a].ep = client[a].ep
             /\ client'[a].conv = client[a].conv /\ client'[a].heard = client[a].heard
  <2>1. client[a] \in ClientRecord  BY <1>1, ClientParts
  <2> QED  BY <2>1 DEF Tick, ClientRecord
<1> QED  BY <1>1, <1>2, <1>3, <1>4, QuietAgrees

LEMMA LoseAgrees ==
  ASSUME AgreeInv, NEW d \in net, Lose(d)
  PROVE  AgreeInv'
<1>1. SafeInv'  BY LoseSafe DEF AgreeInv
<1>2. net' \subseteq net /\ UNCHANGED <<client, conns>>  BY DEF Lose
<1> QED  BY <1>1, <1>2, QuietAgrees DEF ConnKept, HeardKept

LEMMA InitAgrees == Init => AgreeInv
<1> SUFFICES ASSUME Init PROVE AgreeInv  OBVIOUS
<1>1. SafeInv  BY InitSafe
<1>2. FromClients /\ DataHasConv  BY DEF Init, FromClients, DataHasConv
<1>3. StreamsAgree  BY <1>1 DEF Init, StreamsAgree, SafeInv
<1> QED  BY <1>1, <1>2, <1>3 DEF AgreeInv

LEMMA NextAgrees == AgreeInv /\ [Next]_vars => AgreeInv'
<1> SUFFICES ASSUME AgreeInv, [Next]_vars PROVE AgreeInv'  OBVIOUS
<1>1. CASE UNCHANGED vars
  <2>1. SafeInv'  BY <1>1, NextSafe DEF AgreeInv
  <2>2. net' \subseteq net /\ UNCHANGED <<client, conns>>  BY <1>1 DEF vars
  <2> QED  BY <2>1, <2>2, QuietAgrees DEF ConnKept, HeardKept
<1>2. ASSUME NEW a \in Attempt, NEW e \in Endpoint, StartConnect(a, e) PROVE AgreeInv'
      BY <1>2, StartConnectAgrees
<1>3. ASSUME NEW a \in Attempt,
             SendHandshark(a) \/ Abandon(a) \/ ClientClose(a) \/ ClientTimer(a)
      PROVE  AgreeInv'
      BY <1>3, SendHandsharkAgrees, AbandonAgrees, ClientCloseAgrees, ClientTimerAgrees
<1>4. ASSUME NEW a \in Attempt, NEW d \in net, FirstDatagram(a, d) \/ ClientReceive(a, d)
      PROVE  AgreeInv'
      BY <1>4, FirstDatagramAgrees, ClientReceiveAgrees
<1>5. ASSUME NEW d \in net, Handshark(d) PROVE AgreeInv'
      BY <1>5, HandsharkAgainAgrees, HandsharkNewAgrees DEF Handshark
<1>6. ASSUME NEW d \in net, AcceptorReceive(d) \/ Lose(d) PROVE AgreeInv'
      BY <1>6, AcceptorReceiveAgrees, LoseAgrees
<1>7. ASSUME NEW s \in DOMAIN conns, ServerClose(s) PROVE AgreeInv'
      BY <1>7, ServerCloseAgrees
<1>8. CASE DoUpdate  BY <1>8, DoUpdateAgrees
<1>9. CASE Tick  BY <1>9, TickAgrees
<1> QED  BY <1>1, <1>2, <1>3, <1>4, <1>5, <1>6, <1>7, <1>8, <1>9 DEF Next

\* A stream takes data only from a connection of its own port and conv, a connection
\* answers only handshakes of its port, and a client has the conv that answered it:
\* also when ports are used again, datagrams repeat and convs are no longer distinct.
THEOREM StreamsStayApart == Spec => []StreamsAgree
<1>1. AgreeInv => StreamsAgree  BY DEF AgreeInv
<1> QED  BY <1>1, InitAgrees, NextAgrees, PTL DEF Spec

-----------------------------------------------------------------------------
(* The acceptor forgets: the steps behind AbandonedIsReleased.             *)

\* What SilenceGrows says of one step and one port.
Ages(e) ==
  /\ Abandoned(e)' \/ \E a \in Attempt : client'[a].ep = e /\ HasSocket(a)'
  /\ \/ connections_'[e] = 0
     \/ /\ connections_'[e] = connections_[e]
        /\ conns'[connections_[e]].quiet >= conns[connections_[e]].quiet

\* The entry of a port, if it has one.
LEMMA EntryParts ==
  ASSUME SafeInv, NEW e \in Endpoint, connections_[e] # 0
  PROVE  /\ connections_[e] \in DOMAIN conns /\ conns[connections_[e]].ep = e
         /\ conns[connections_[e]].quiet \in Nat
<1>1. connections_[e] \in DOMAIN conns /\ conns[connections_[e]].ep = e
      BY DEF SafeInv, OpenedIsListed
<1>2. conns[connections_[e]].quiet \in 0..(Timeout + 1) /\ Timeout \in Nat
      BY <1>1, ConnParts, SessionAssumption DEF SafeInv
<1> QED  BY <1>1, <1>2

\* A step of the clients leaves the entry alone, and only a socket sends.
LEMMA ClientsAge ==
  ASSUME SafeInv, NEW e \in Endpoint, Abandoned(e), UNCHANGED serverVars,
         \A d \in net' : d \notin net => \E a \in Attempt : d.ep = client[a].ep /\ HasSocket(a)
  PROVE  Ages(e)
<1>1. Abandoned(e)' \/ \E b \in Attempt : client'[b].ep = e /\ HasSocket(b)'
  <2> SUFFICES ASSUME ~(\E b \in Attempt : client'[b].ep = e /\ HasSocket(b)')
               PROVE  Abandoned(e)'
      OBVIOUS
  <2>1. \A d \in net' : ~(d.to = "server" /\ d.ep = e)  BY DEF Abandoned
  <2> QED  BY <2>1 DEF Abandoned
<1>2. connections_[e] # 0 => conns[connections_[e]].quiet \in Nat  BY EntryParts
<1> QED  BY <1>1, <1>2 DEF Ages, serverVars

\* A step of the acceptor sends to clients only.
LEMMA ServersAge ==
  ASSUME SafeInv, NEW e \in Endpoint, Abandoned(e), UNCHANGED client,
         \A d \in net' : d \notin net => d.to = "client",
         \/ connections_'[e] = 0
         \/ /\ connections_'[e] = connections_[e] /\ connections_[e] # 0
            /\ conns'[connections_[e]].quiet >= conns[connections_[e]].quiet
  PROVE  Ages(e)
<1>1. Abandoned(e)'  BY DEF Abandoned, HasSocket
<1> QED  BY <1>1 DEF Ages

\* A step that keeps the table and how long each connection was silent.
LEMMA ServersStill ==
  ASSUME SafeInv, NEW e \in Endpoint, Abandoned(e), UNCHANGED <<client, connections_>>,
         \A d \in net' : d \notin net => d.to = "client",
         \A s \in DOMAIN conns : conns[s].ep = e => conns'[s].quiet = conns[s].quiet
  PROVE  Ages(e)
<1>1. CASE connections_[e] = 0  BY <1>1, ServersAge
<1>2. CASE connections_[e] # 0  BY <1>2, EntryParts, ServersAge
<1> QED  BY <1>1, <1>2

LEMMA ClientStepsAge ==
  ASSUME SafeInv, NEW e \in Endpoint, Abandoned(e), NEW a \in Attempt,
         \/ \E p \in Endpoint : StartConnect(a, p)
         \/ SendHandshark(a) \/ Abandon(a) \/ ClientClose(a) \/ ClientTimer(a)
         \/ \E d \in net : FirstDatagram(a, d) \/ ClientReceive(a, d)
  PROVE  Ages(e)
<1>1. ClientData(a).ep = client[a].ep /\ ClientBye(a).ep = client[a].ep
      BY DEF ClientData, ClientBye, ToServer
<1>2. ASSUME NEW base, base \subseteq net, client[a].st = "opened", UNCHANGED serverVars,
             \/ Transmit(base, {ClientData(a), ClientBye(a)}) \/ Transmit(base, {ClientData(a)})
      PROVE  Ages(e)
  <2>1. net' \subseteq net \cup {ClientData(a), ClientBye(a)}  BY <1>2, TransmitNet
  <2> QED  BY <1>1, <1>2, <2>1, ClientsAge DEF HasSocket
<1>3. ASSUME NEW p \in Endpoint, StartConnect(a, p) PROVE Ages(e)
      BY <1>3, ClientsAge DEF StartConnect
<1>4. CASE SendHandshark(a)
  <2>1. net' \subseteq net \cup {ToServer("handshark", client[a].ep, conv, a)}
        BY <1>4, TransmitNet DEF SendHandshark
  <2>2. \A d \in net' : d \notin net => d.ep = client[a].ep  BY <2>1 DEF ToServer
  <2> QED  BY <1>4, <2>2, ClientsAge DEF SendHandshark, HasSocket
<1>5. CASE Abandon(a)  BY <1>5, ClientsAge DEF Abandon
<1>6. CASE ClientClose(a)  BY <1>2, <1>6 DEF ClientClose
<1>7. CASE ClientTimer(a)
  <2>1. /\ client[a].st = "opened" /\ UNCHANGED serverVars
        /\ Transmit(net, {ClientData(a), ClientBye(a)}) \/ Transmit(net, {ClientData(a)})
        BY <1>7 DEF ClientTimer
  <2> QED  BY <1>2, <2>1
<1>8. ASSUME NEW d \in net, FirstDatagram(a, d) PROVE Ages(e)
  <2>1. net' \subseteq net /\ UNCHANGED serverVars  BY <1>8, WithoutNet DEF FirstDatagram
  <2> QED  BY <2>1, ClientsAge
<1>9. ASSUME NEW d \in net, ClientReceive(a, d) PROVE Ages(e)
  <2>1. client[a].st = "opened" /\ UNCHANGED serverVars  BY <1>9 DEF ClientReceive
  <2>2. \/ net' = Without(d)
        \/ Transmit(Without(d), {ClientData(a), ClientBye(a)})
        BY <1>9 DEF ClientReceive
  <2>3. CASE net' = Without(d)  BY <2>1, <2>3, WithoutNet, ClientsAge
  <2>4. CASE Transmit(Without(d), {ClientData(a), ClientBye(a)})
        BY <1>2, <2>1, <2>4, WithoutNet
  <2> QED  BY <2>2, <2>3, <2>4
<1> QED  BY <1>3, <1>4, <1>5, <1>6, <1>7, <1>8, <1>9

\* A handshake is of another port.
LEMMA HandsharkAges ==
  ASSUME SafeInv, NEW e \in Endpoint, Abandoned(e), NEW d \in net, Handshark(d)
  PROVE  Ages(e)
<1> DEFINE old == connections_[d.ep]
<1>1. TypeOK /\ d \in Datagram /\ d.op = "handshark" /\ UNCHANGED client
      BY DEF SafeInv, TypeOK, Handshark
<1>2. d.ep \in Endpoint /\ d.ep # e  BY <1>1, DatagramParts DEF Abandoned
<1>3. CASE HandsharkAgain(d, old)
  <2>1. /\ conns' = [conns EXCEPT ![old].by = @ \cup {d.from}] /\ UNCHANGED connections_
        /\ net' \subseteq net \cup {ToClient("response", d.ep, conns[old].conv, old)}
        BY <1>3, WithoutNet, TransmitNet DEF HandsharkAgain
  <2>2. \A f \in net' : f \notin net => f.to = "client"  BY <2>1 DEF ToClient
  <2> HIDE DEF old
  <2>3. \A s \in DOMAIN conns : conns'[s].quiet = conns[s].quiet
        BY <1>1, <2>1, ConnsParts DEF ConnRecord
  <2> QED  BY <1>1, <2>1, <2>2, <2>3, ServersStill
<1>4. CASE HandsharkNew(d, old)
  <2>1. /\ conns' = Append(Closed(old), NewConnection(d))
        /\ connections_' = [connections_ EXCEPT ![d.ep] = Len(conns) + 1]
        BY <1>4 DEF HandsharkNew
  <2>2. net' \subseteq net \cup (ClosingDatagrams(old)
                                  \cup {ToClient("response", d.ep, d.conv, Len(conns) + 1)})
        BY <1>4, WithoutNet, TransmitNet DEF HandsharkNew
  <2>3. \A f \in net' : f \notin net => f.to = "client"
        BY <2>2, ServerDatagrams DEF ClosingDatagrams, ToClient
  <2>4. connections_'[e] = connections_[e]  BY <1>1, <1>2, <2>1, ConnsParts
  <2>5. /\ Closed(old) \in Seq(ConnRecord) /\ Len(Closed(old)) = Len(conns)
        /\ DOMAIN conns = 1..Len(conns) /\ Len(conns) \in Nat
        BY <1>1, ClosedParts, ConnsParts
  <2>6. NewConnection(d) \in ConnRecord  BY <1>1, NewConnectionParts
  <2> HIDE DEF old
  <2>7. \A s \in DOMAIN conns : Closed(old)[s].quiet = conns[s].quiet
        BY <1>1, ConnsParts DEF Closed, ConnRecord
  <2>8. \A s \in DOMAIN conns : conns'[s] = Closed(old)[s]  BY <2>1, <2>5, <2>6
  <2>9. CASE connections_[e] = 0  BY <1>1, <2>3, <2>4, <2>9, ServersAge
  <2>10. CASE connections_[e] # 0
    <3>1. connections_[e] \in DOMAIN conns /\ conns[connections_[e]].quiet \in Nat
          BY <2>10, EntryParts
    <3> QED  BY <1>1, <2>3, <2>4, <2>7, <2>8, <2>10, <3>1, ServersAge
  <2> QED  BY <2>9, <2>10
<1> QED  BY <1>3, <1>4 DEF Handshark

\* So is whatever else the acceptor receives.
LEMMA AcceptorReceiveAges ==
  ASSUME SafeInv, NEW e \in Endpoint, Abandoned(e), NEW d \in net, AcceptorReceive(d)
  PROVE  Ages(e)
<1> DEFINE s == connections_[d.ep]
<1>1. /\ TypeOK /\ d \in Datagram /\ d.to = "server" /\ UNCHANGED <<client, connections_>>
      BY DEF SafeInv, TypeOK, AcceptorReceive
<1>2. d.ep \in Endpoint /\ d.ep # e  BY <1>1, DatagramParts DEF Abandoned
<1>3. CASE s = 0
  <2>1. UNCHANGED conns /\ net' \subseteq net
        BY <1>3, WithoutNet DEF AcceptorReceive, Find
  <2> QED  BY <1>1, <2>1, ServersStill
<1>4. CASE s # 0
  <2>1. s \in DOMAIN conns /\ conns[s].ep # e
        BY <1>2, <1>4 DEF SafeInv, OpenedIsListed
  <2>2. \A f \in net' : f \notin net => f.to = "client"
    <3> DEFINE D == IF conns[s].st = "closed" THEN {} ELSE {ServerData(s), ServerBye(s)}
    <3>1. net' = Without(d) \/ Transmit(Without(d), D)
          BY <1>4 DEF AcceptorReceive, Find
    <3>2. D \subseteq {ServerData(s), ServerBye(s)}  OBVIOUS
    <3> HIDE DEF D, s
    <3>3. net' \subseteq net \cup D  BY <3>1, TransmitNet, WithoutNet
    <3> QED  BY <3>2, <3>3, ServerDatagrams
  <2>3. \A t \in DOMAIN conns : t # s => conns'[t] = conns[t]
    <3>1. CASE d.op = "data"
      <4> DEFINE h == IF Takes(d, conns[s].conv) THEN conns[s].heard \cup {d.from}
                      ELSE conns[s].heard
                 st == IF conns[s].st = "idle" THEN "opened" ELSE conns[s].st
      <4>1. conns' = [conns EXCEPT ![s].st = st, ![s].quiet = 0, ![s].heard = h]
            BY <1>4, <3>1 DEF AcceptorReceive, Find
      <4> HIDE DEF s, h, st
      <4> QED  BY <4>1
    <3>2. CASE d.op = "disconnect"
      <4>1. conns' = [conns EXCEPT ![s].st = "closed", ![s].quiet = 0]
            BY <1>4, <3>2 DEF AcceptorReceive, Find
      <4> HIDE DEF s
      <4> QED  BY <4>1
    <3> QED  BY <1>4, <3>1, <3>2 DEF AcceptorReceive, Find
  <2> QED  BY <1>1, <2>1, <2>2, <2>3, ServersStill
<1> QED  BY <1>3, <1>4

LEMMA ServerStepsAge ==
  ASSUME SafeInv, NEW e \in Endpoint, Abandoned(e),
         (\E s \in DOMAIN conns : ServerClose(s)) \/ (\E d \in net : Lose(d))
  PROVE  Ages(e)
<1>1. ASSUME NEW s \in DOMAIN conns, ServerClose(s) PROVE Ages(e)
  <2>1. /\ TypeOK /\ conns' = Closed(s) /\ UNCHANGED <<client, connections_>>
        /\ net' \subseteq net \cup ClosingDatagrams(s)
        BY <1>1, TransmitNet DEF SafeInv, ServerClose
  <2>2. \A t \in DOMAIN conns : Closed(s)[t].quiet = conns[t].quiet
        BY <2>1, ConnsParts DEF Closed, ConnRecord
  <2>3. \A f \in net' : f \notin net => f.to = "client"
        BY <2>1, ServerDatagrams DEF ClosingDatagrams
  <2> QED  BY <2>1, <2>2, <2>3, ServersStill
<1>2. ASSUME NEW d \in net, Lose(d) PROVE Ages(e)
  <2>1. net' \subseteq net /\ UNCHANGED <<client, conns, connections_>>  BY <1>2 DEF Lose
  <2> QED  BY <2>1, ServersStill
<1> QED  BY <1>1, <1>2

\* A round erases the entry or leaves it as silent as it was.
LEMMA DoUpdateAges ==
  ASSUME SafeInv, NEW e \in Endpoint, Abandoned(e), DoUpdate
  PROVE  Ages(e)
<1>1. conns' = [s \in DOMAIN conns |->
        IF s \in Gone /\ conns[s].st = "opened" THEN [conns[s] EXCEPT !.st = "closed"]
        ELSE conns[s]]
      BY DEF DoUpdate
<1>2. /\ UNCHANGED client
      /\ connections_'[e] = (IF connections_[e] \in Gone THEN 0 ELSE connections_[e])
      BY DEF DoUpdate
<1>3. \A d \in net' : d \notin net => d.to = "client"
  <2> DEFINE D == {ServerData(s) : s \in Listed}
                    \cup {ServerBye(s) : s \in {t \in Gone : conns[t].st = "opened"}}
  <2>1. \A d \in D : d.to = "client"  BY ServerDatagrams
  <2>2. net' \subseteq net \cup D  BY TransmitNet DEF DoUpdate
  <2> HIDE DEF D
  <2> QED  BY <2>1, <2>2
<1>4. CASE connections_'[e] = 0  BY <1>2, <1>3, <1>4, ServersAge
<1>5. CASE connections_'[e] # 0
  <2>1. connections_[e] \notin Gone /\ connections_'[e] = connections_[e]  BY <1>2, <1>5
  <2>2. connections_[e] \in DOMAIN conns /\ conns[connections_[e]].quiet \in Nat
        BY <1>5, <2>1, EntryParts
  <2>3. conns'[connections_[e]] = conns[connections_[e]]  BY <1>1, <2>1, <2>2
  <2> QED  BY <1>2, <1>3, <1>5, <2>1, <2>2, <2>3, ServersAge
<1> QED  BY <1>4, <1>5

\* The clock makes the entry older.
LEMMA TickAges ==
  ASSUME SafeInv, NEW e \in Endpoint, Abandoned(e), Tick
  PROVE  Ages(e)
<1>1. UNCHANGED <<connections_, net>>  BY DEF Tick
<1>2. Abandoned(e)'
  <2>1. ASSUME NEW a \in Attempt
        PROVE  client'[a].st = client[a].st /\ client'[a].ep = client[a].ep
    <3>1. client[a] \in ClientRecord  BY ClientParts
    <3> QED  BY <3>1 DEF Tick, ClientRecord
  <2> QED  BY <1>1, <2>1 DEF Abandoned, HasSocket
<1>3. CASE connections_[e] = 0  BY <1>1, <1>2, <1>3 DEF Ages
<1>4. CASE connections_[e] # 0
  <2> DEFINE s == connections_[e]
  <2>1. s \in DOMAIN conns /\ conns[s].quiet \in Nat /\ conns[s] \in ConnRecord
        BY <1>4, EntryParts, ConnParts DEF SafeInv
  <2> HIDE DEF s
  <2>2. conns'[s].quiet \in {conns[s].quiet, conns[s].quiet + 1}
        BY <2>1 DEF Tick, ConnRecord
  <2>3. conns'[s].quiet >= conns[s].quiet  BY <2>1, <2>2
  <2> QED  BY <1>1, <1>2, <2>3 DEF Ages, s
<1> QED  BY <1>3, <1>4

LEMMA StepAges ==
  ASSUME SafeInv, [Next]_vars, NEW e \in Endpoint, Abandoned(e), vars' # vars
  PROVE  Ages(e)
BY ClientStepsAge, HandsharkAges, AcceptorReceiveAges, ServerStepsAge, DoUpdateAges, TickAges
   DEF Next

\* Once the clients of a port are gone, nothing the acceptor sends or does makes their
\* entry younger: it ages until a round erases it, unless a new socket gets the port.
THEOREM AbandonedOnlyAges == Spec => SilenceGrows
<1>1. SafeInv /\ [Next]_vars =>
        [\A e \in Endpoint : Abandoned(e) => Ages(e)]_vars
      BY StepAges
<1> QED  BY <1>1, SafeInvariant, PTL DEF Spec, SilenceGrows, Ages


-----------------------------------------------------------------------------
(* The client forgets: the steps behind OrphanEnds.                        *)

\* The sockets of one port have one owner.
OneSocket ==
  \A a, b \in Attempt :
    HasSocket(a) /\ HasSocket(b) /\ client[a].ep = client[b].ep => a = b

\* A step that opens no socket.
LEMMA NoNewSocket ==
  ASSUME OneSocket,
         \A b \in Attempt : HasSocket(b)' => HasSocket(b) /\ client'[b].ep = client[b].ep
  PROVE  OneSocket'
BY DEF OneSocket

\* A step by the client a, which keeps its port and gets no socket it had not.
LEMMA OwnSocket ==
  ASSUME OneSocket, NEW a \in Attempt, \A b \in Attempt \ {a} : client'[b] = client[b],
         HasSocket(a)' => HasSocket(a) /\ client'[a].ep = client[a].ep
  PROVE  OneSocket'
<1>1. ASSUME NEW b \in Attempt
      PROVE  HasSocket(b)' => HasSocket(b) /\ client'[b].ep = client[b].ep
  <2>1. CASE b = a  BY <2>1
  <2>2. CASE b # a  BY <2>2 DEF HasSocket
  <2> QED  BY <2>1, <2>2
<1> QED  BY <1>1, NoNewSocket

LEMMA ClientStepsOneSocket ==
  ASSUME SafeInv, OneSocket, NEW a \in Attempt,
         \/ \E e \in Endpoint : StartConnect(a, e)
         \/ SendHandshark(a) \/ Abandon(a) \/ ClientClose(a) \/ ClientTimer(a)
         \/ \E d \in net : FirstDatagram(a, d) \/ ClientReceive(a, d)
  PROVE  OneSocket'
<1>1. client \in [Attempt -> ClientRecord] /\ client[a] \in ClientRecord
      BY ClientParts DEF SafeInv, TypeOK
<1>2. ASSUME NEW e \in Endpoint, StartConnect(a, e) PROVE OneSocket'
  <2>1. client' = [client EXCEPT ![a].st = "connecting", ![a].ep = e]
        BY <1>2 DEF StartConnect
  <2>2. client'[a].ep = e /\ \A b \in Attempt \ {a} : client'[b] = client[b]
        BY <1>1, <2>1 DEF ClientRecord
  <2>3. \A b \in Attempt : client[b].ep = e => ~HasSocket(b)  BY <1>2 DEF StartConnect
  <2>4. \A b \in Attempt \ {a} : HasSocket(b)' => HasSocket(b) /\ client'[b].ep # e
        BY <2>2, <2>3 DEF HasSocket
  <2>5. ASSUME NEW b \in Attempt, NEW c \in Attempt,
               HasSocket(b)', HasSocket(c)', client'[b].ep = client'[c].ep
        PROVE  b = c
    <3>1. CASE b = a \/ c = a  BY <2>2, <2>4, <2>5, <3>1
    <3>2. CASE b # a /\ c # a  BY <2>2, <2>4, <2>5, <3>2 DEF OneSocket
    <3> QED  BY <3>1, <3>2
  <2> QED  BY <2>5 DEF OneSocket
<1>3. ASSUME UNCHANGED client PROVE OneSocket'
      BY <1>3 DEF OneSocket, HasSocket
<1>4. CASE SendHandshark(a)
  <2>1. client' = [client EXCEPT ![a].st = "waiting"] /\ client[a].st = "connecting"
        BY <1>4 DEF SendHandshark
  <2> QED  BY <1>1, <2>1, OwnSocket DEF HasSocket, ClientRecord
<1>5. CASE Abandon(a)
  <2>1. client' = [client EXCEPT ![a].st = "failed"]  BY <1>5 DEF Abandon
  <2> QED  BY <1>1, <2>1, OwnSocket DEF HasSocket, ClientRecord
<1>6. ASSUME client' = [client EXCEPT ![a].st = "closed"] PROVE OneSocket'
      BY <1>1, <1>6, OwnSocket DEF HasSocket, ClientRecord
<1>7. CASE ClientClose(a)  BY <1>6, <1>7 DEF ClientClose
<1>8. CASE ClientTimer(a)  BY <1>3, <1>6, <1>8 DEF ClientTimer
<1>9. ASSUME NEW d \in net, FirstDatagram(a, d) PROVE OneSocket'
  <2>1. /\ client[a].st = "waiting"
        /\ \/ client' = [client EXCEPT ![a].st = "opened", ![a].conv = d.conv, ![a].srv = d.from]
           \/ client' = [client EXCEPT ![a].st = "failed"]
        BY <1>9 DEF FirstDatagram
  <2>2. /\ client'[a].ep = client[a].ep /\ HasSocket(a)
        /\ \A b \in Attempt \ {a} : client'[b] = client[b]
    <3>1. CASE client' = [client EXCEPT ![a].st = "failed"]
          BY <1>1, <2>1, <3>1 DEF ClientRecord, HasSocket
    <3>2. CASE client' = [client EXCEPT ![a].st = "opened", ![a].conv = d.conv,
                                        ![a].srv = d.from]
          BY <1>1, <2>1, <3>2 DEF ClientRecord, HasSocket
    <3> QED  BY <2>1, <3>1, <3>2
  <2> QED  BY <2>2, OwnSocket
<1>10. ASSUME NEW d \in net, ClientReceive(a, d) PROVE OneSocket'
  <2> DEFINE h == IF Takes(d, client[a].conv) THEN client[a].heard \cup {d.from}
                  ELSE client[a].heard
  <2>1. /\ client[a].st = "opened"
        /\ \/ UNCHANGED client
           \/ client' = [client EXCEPT ![a].quiet = 0, ![a].heard = h]
           \/ client' = [client EXCEPT ![a].quiet = 0, ![a].st = "closed"]
        BY <1>10 DEF ClientReceive
  <2> HIDE DEF h
  <2>2. /\ client'[a].ep = client[a].ep /\ HasSocket(a)
        /\ \A b \in Attempt \ {a} : client'[b] = client[b]
    <3>1. CASE client' = [client EXCEPT ![a].quiet = 0, ![a].heard = h]
          BY <1>1, <2>1, <3>1 DEF ClientRecord, HasSocket
    <3>2. CASE client' = [client EXCEPT ![a].quiet = 0, ![a].st = "closed"]
          BY <1>1, <2>1, <3>2 DEF ClientRecord, HasSocket
    <3> QED  BY <2>1, <3>1, <3>2 DEF HasSocket
  <2> QED  BY <2>2, OwnSocket
<1> QED  BY <1>2, <1>4, <1>5, <1>7, <1>8, <1>9, <1>10

\* The clock moves no state and no port.
LEMMA TickClients ==
  ASSUME SafeInv, Tick, NEW a \in Attempt
  PROVE  /\ client'[a].st = client[a].st /\ client'[a].ep = client[a].ep
         /\ client'[a].quiet >= client[a].quiet
<1>1. client[a] \in ClientRecord /\ client[a].quiet \in Nat
  <2>1. client[a].quiet \in 0..(Timeout + 1) /\ Timeout \in Nat
        BY ClientParts, SessionAssumption
  <2> QED  BY <2>1, ClientParts
<1> QED  BY <1>1 DEF Tick, ClientRecord

LEMMA NextOneSocket ==
  ASSUME SafeInv, OneSocket, [Next]_vars
  PROVE  OneSocket'
<1>1. ASSUME UNCHANGED client PROVE OneSocket'
      BY <1>1 DEF OneSocket, HasSocket
<1>2. CASE UNCHANGED vars  BY <1>1, <1>2 DEF vars
<1>3. CASE \E d \in net : Handshark(d) \/ AcceptorReceive(d) \/ Lose(d)
      BY <1>1, <1>3 DEF Handshark, AcceptorReceive, Lose
<1>4. CASE \E s \in DOMAIN conns : ServerClose(s)  BY <1>1, <1>4 DEF ServerClose
<1>5. CASE DoUpdate  BY <1>1, <1>5 DEF DoUpdate
<1>6. CASE Tick  BY <1>6, TickClients, NoNewSocket DEF HasSocket
<1> QED  BY <1>2, <1>3, <1>4, <1>5, <1>6, ClientStepsOneSocket DEF Next

\* What SilenceStays says of one step and one client.
Falls(a) ==
  /\ Forgotten(a)' \/ client'[a].st = "closed"
  /\ client'[a].ep = client[a].ep
  /\ client'[a].quiet >= client[a].quiet

\* The port of a client that is connected, and how long it was silent.
LEMMA OpenedParts ==
  ASSUME SafeInv, NEW a \in Attempt, client[a].st = "opened"
  PROVE  client[a].ep \in Endpoint /\ client[a].quiet \in Nat
<1>1. client[a].quiet \in 0..(Timeout + 1) /\ Timeout \in Nat
      BY ClientParts, SessionAssumption
<1> QED  BY <1>1 DEF SafeInv, Started

\* A step after which nothing more can reach the client or make an entry.
LEMMA StillForgotten ==
  ASSUME SafeInv, NEW a \in Attempt, Forgotten(a),
         client'[a] = client[a] \/ client' = [client EXCEPT ![a].st = "closed"],
         connections_'[client[a].ep] = 0,
         \A d \in net' : d \notin net /\ d.ep = client[a].ep =>
                           d.to = "server" /\ d.op # "handshark"
  PROVE  Falls(a)
<1>1. client[a] \in ClientRecord /\ client \in [Attempt -> ClientRecord]
      BY ClientParts DEF SafeInv, TypeOK
<1>2. client[a].quiet \in Nat  BY OpenedParts DEF Forgotten
<1>3. CASE client'[a] = client[a]  BY <1>2, <1>3 DEF Falls, Forgotten
<1>4. CASE client' = [client EXCEPT ![a].st = "closed"]
      BY <1>1, <1>2, <1>4 DEF Falls, ClientRecord
<1> QED  BY <1>3, <1>4

\* What a client sends to the acceptor: data and disconnects, or, while it is
\* connecting, a handshake for a port that is its own.
LEMMA ClientStepsFall ==
  ASSUME SafeInv, OneSocket, NEW a \in Attempt, Forgotten(a), NEW b \in Attempt,
         \/ \E e \in Endpoint : StartConnect(b, e)
         \/ SendHandshark(b) \/ Abandon(b) \/ ClientClose(b) \/ ClientTimer(b)
         \/ \E d \in net : FirstDatagram(b, d) \/ ClientReceive(b, d)
  PROVE  Falls(a)
<1>1. /\ client[a].st = "opened" /\ connections_[client[a].ep] = 0
      /\ client \in [Attempt -> ClientRecord]
      BY DEF Forgotten, SafeInv, TypeOK
<1>2. /\ ClientData(b).to = "server" /\ ClientData(b).op # "handshark"
      /\ ClientBye(b).to = "server" /\ ClientBye(b).op # "handshark"
      BY DEF ClientData, ClientBye, ToServer
<1>3. ASSUME NEW base, base \subseteq net, UNCHANGED serverVars,
             client'[a] = client[a] \/ client' = [client EXCEPT ![a].st = "closed"],
             \/ Transmit(base, {ClientData(b), ClientBye(b)}) \/ Transmit(base, {ClientData(b)})
      PROVE  Falls(a)
  <2>1. net' \subseteq net \cup {ClientData(b), ClientBye(b)}  BY <1>3, TransmitNet
  <2> QED  BY <1>1, <1>2, <1>3, <2>1, StillForgotten DEF serverVars
<1>4. ASSUME net' \subseteq net, UNCHANGED serverVars, client'[a] = client[a]
      PROVE  Falls(a)
      BY <1>1, <1>4, StillForgotten DEF serverVars
<1>5. ASSUME NEW e \in Endpoint, StartConnect(b, e) PROVE Falls(a)
  <2>1. b # a /\ UNCHANGED <<net, serverVars>>
        /\ client' = [client EXCEPT ![b].st = "connecting", ![b].ep = e]
        BY <1>1, <1>5 DEF StartConnect
  <2>2. client'[a] = client[a]  BY <1>1, <2>1
  <2> QED  BY <1>4, <2>1, <2>2
<1>6. CASE SendHandshark(b)
  <2>1. /\ client[b].st = "connecting" /\ UNCHANGED serverVars
        /\ client' = [client EXCEPT ![b].st = "waiting"]
        /\ net' \subseteq net \cup {ToServer("handshark", client[b].ep, conv, b)}
        BY <1>6, TransmitNet DEF SendHandshark
  <2>2. b # a /\ client'[a] = client[a]  BY <1>1, <2>1
  <2>3. client[b].ep # client[a].ep  BY <1>1, <2>1, <2>2 DEF OneSocket, HasSocket
  <2>4. \A d \in net' : d \notin net => d.ep = client[b].ep  BY <2>1 DEF ToServer
  <2> QED  BY <1>1, <2>1, <2>2, <2>3, <2>4, StillForgotten DEF serverVars
<1>7. CASE Abandon(b)
  <2>1. b # a /\ UNCHANGED <<net, serverVars>> /\ client' = [client EXCEPT ![b].st = "failed"]
        BY <1>1, <1>7 DEF Abandon
  <2>2. client'[a] = client[a]  BY <1>1, <2>1
  <2> QED  BY <1>4, <2>1, <2>2
<1>8. ASSUME client' = [client EXCEPT ![b].st = "closed"] \/ UNCHANGED client
      PROVE  client'[a] = client[a] \/ client' = [client EXCEPT ![a].st = "closed"]
  <2>1. CASE UNCHANGED client  BY <2>1
  <2>2. CASE b = a  BY <1>8, <2>2
  <2>3. CASE b # a /\ client' = [client EXCEPT ![b].st = "closed"]  BY <1>1, <2>3
  <2> QED  BY <1>8, <2>1, <2>2, <2>3
<1>9. CASE ClientClose(b)  BY <1>3, <1>8, <1>9 DEF ClientClose
<1>10. CASE ClientTimer(b)
  <2>1. /\ UNCHANGED serverVars
        /\ Transmit(net, {ClientData(b), ClientBye(b)}) \/ Transmit(net, {ClientData(b)})
        /\ client' = [client EXCEPT ![b].st = "closed"] \/ UNCHANGED client
        BY <1>10 DEF ClientTimer
  <2> QED  BY <1>3, <1>8, <2>1
<1>11. ASSUME NEW d \in net, FirstDatagram(b, d) PROVE Falls(a)
  <2>1. b # a /\ UNCHANGED serverVars /\ net' \subseteq net
        BY <1>1, <1>11, WithoutNet DEF FirstDatagram
  <2>2. client'[a] = client[a]  BY <1>1, <1>11, <2>1 DEF FirstDatagram
  <2> QED  BY <1>4, <2>1, <2>2
<1>12. ASSUME NEW d \in net, ClientReceive(b, d) PROVE Falls(a)
  <2>1. b # a  BY <1>12 DEF ClientReceive, Forgotten
  <2>2. client'[a] = client[a] /\ UNCHANGED serverVars
        BY <1>1, <1>12, <2>1 DEF ClientReceive
  <2>3. \/ net' = Without(d)
        \/ Transmit(Without(d), {ClientData(b), ClientBye(b)})
        BY <1>12 DEF ClientReceive
  <2>4. CASE net' = Without(d)  BY <1>4, <2>2, <2>4, WithoutNet
  <2>5. CASE Transmit(Without(d), {ClientData(b), ClientBye(b)})
        BY <1>3, <2>2, <2>5, WithoutNet
  <2> QED  BY <2>3, <2>4, <2>5
<1> QED  BY <1>5, <1>6, <1>7, <1>9, <1>10, <1>11, <1>12

\* A connection that is listed, or opened, has another port.
LEMMA OtherPort ==
  ASSUME SafeInv, NEW a \in Attempt, Forgotten(a),
         NEW s \in DOMAIN conns, s \in Listed \/ conns[s].st = "opened"
  PROVE  /\ conns[s].ep # client[a].ep
         /\ ServerData(s).ep # client[a].ep /\ ServerBye(s).ep # client[a].ep
<1>1. s \in Nat \ {0} /\ conns[s].ep \in Endpoint  BY ConnParts DEF SafeInv
<1>2. connections_[conns[s].ep] = s
      BY DEF SafeInv, OpenedIsListed, Listed
<1> QED  BY <1>1, <1>2 DEF Forgotten, ServerData, ServerBye, ToClient

\* What close sends goes to another port.
LEMMA ClosingElsewhere ==
  ASSUME SafeInv, NEW a \in Attempt, Forgotten(a), NEW s, NEW d \in ClosingDatagrams(s)
  PROVE  d.ep # client[a].ep
BY OtherPort DEF ClosingDatagrams

LEMMA ServerStepsFall ==
  ASSUME SafeInv, NEW a \in Attempt, Forgotten(a),
         \/ \E d \in net : Handshark(d) \/ AcceptorReceive(d) \/ Lose(d)
         \/ \E s \in DOMAIN conns : ServerClose(s)
  PROVE  Falls(a)
<1>1. /\ client[a].ep \in Endpoint /\ connections_[client[a].ep] = 0
      /\ connections_ \in [Endpoint -> 0..Len(conns)]
      BY OpenedParts DEF Forgotten, SafeInv, TypeOK
<1>2. ASSUME UNCHANGED client, connections_'[client[a].ep] = 0,
             \A f \in net' : f \notin net => f.ep # client[a].ep
      PROVE  Falls(a)
      BY <1>2, StillForgotten
<1>3. ASSUME NEW d \in net, Handshark(d) PROVE Falls(a)
  <2> DEFINE old == connections_[d.ep]
  <2>1. d.ep # client[a].ep /\ UNCHANGED client  BY <1>3 DEF Handshark, Forgotten
  <2>2. CASE HandsharkAgain(d, old)
    <3>1. /\ UNCHANGED connections_
          /\ net' \subseteq net \cup {ToClient("response", d.ep, conns[old].conv, old)}
          BY <2>2, WithoutNet, TransmitNet DEF HandsharkAgain
    <3>2. \A f \in net' : f \notin net => f.ep = d.ep  BY <3>1 DEF ToClient
    <3> QED  BY <1>1, <1>2, <2>1, <3>1, <3>2
  <2>3. CASE HandsharkNew(d, old)
    <3>1. /\ connections_' = [connections_ EXCEPT ![d.ep] = Len(conns) + 1]
          /\ net' \subseteq net \cup (ClosingDatagrams(old)
                                \cup {ToClient("response", d.ep, d.conv, Len(conns) + 1)})
          BY <2>3, WithoutNet, TransmitNet DEF HandsharkNew
    <3>2. \A f \in net' : f \notin net => f.ep # client[a].ep
          BY <2>1, <3>1, ClosingElsewhere DEF ToClient
    <3>3. connections_'[client[a].ep] = 0  BY <1>1, <2>1, <3>1
    <3> QED  BY <1>2, <2>1, <3>2, <3>3
  <2> QED  BY <1>3, <2>2, <2>3 DEF Handshark
<1>4. ASSUME NEW d \in net, AcceptorReceive(d) PROVE Falls(a)
  <2> DEFINE s == connections_[d.ep]
             D == IF conns[s].st = "closed" THEN {} ELSE {ServerData(s), ServerBye(s)}
  <2>1. d \in Datagram /\ UNCHANGED <<client, connections_>>
        BY <1>4 DEF AcceptorReceive, SafeInv, TypeOK
  <2>2. CASE net' = Without(d)  BY <1>1, <1>2, <2>1, <2>2, WithoutNet
  <2>3. CASE s # 0 /\ Transmit(Without(d), D)
    <3>1. s \in DOMAIN conns /\ s \in Listed
          BY <2>1, <2>3, DatagramParts DEF SafeInv, OpenedIsListed, Listed
    <3>2. D \subseteq {ServerData(s), ServerBye(s)}  OBVIOUS
    <3> HIDE DEF D, s
    <3>3. net' \subseteq net \cup D  BY <2>3, TransmitNet, WithoutNet
    <3>4. \A f \in net' : f \notin net => f.ep # client[a].ep
          BY <3>1, <3>2, <3>3, OtherPort
    <3> QED  BY <1>1, <1>2, <2>1, <3>4
  <2> QED  BY <1>4, <2>2, <2>3 DEF AcceptorReceive, Find
<1>5. ASSUME NEW d \in net, Lose(d) PROVE Falls(a)
      BY <1>1, <1>2, <1>5 DEF Lose
<1>6. ASSUME NEW s \in DOMAIN conns, ServerClose(s) PROVE Falls(a)
  <2>1. /\ UNCHANGED <<client, connections_>>
        /\ net' \subseteq net \cup ClosingDatagrams(s)
        BY <1>6, TransmitNet DEF ServerClose
  <2>2. \A f \in net' : f \notin net => f.ep # client[a].ep  BY <2>1, ClosingElsewhere
  <2> QED  BY <1>1, <1>2, <2>1, <2>2
<1> QED  BY <1>3, <1>4, <1>5, <1>6

\* A round of do_update sends for the connections it has listed.
LEMMA DoUpdateFalls ==
  ASSUME SafeInv, NEW a \in Attempt, Forgotten(a), DoUpdate
  PROVE  Falls(a)
<1> DEFINE D == {ServerData(s) : s \in Listed}
                  \cup {ServerBye(s) : s \in {t \in Gone : conns[t].st = "opened"}}
<1>1. client[a].ep \in Endpoint /\ connections_[client[a].ep] = 0
      BY OpenedParts DEF Forgotten
<1>2. connections_'[client[a].ep] = 0  BY <1>1 DEF DoUpdate
<1>3. Listed \subseteq DOMAIN conns /\ Gone \subseteq Listed
      BY DEF Listed, Gone, SafeInv, OpenedIsListed
<1>4. \A d \in D : d.ep # client[a].ep  BY <1>3, OtherPort
<1>5. net' \subseteq net \cup D  BY TransmitNet DEF DoUpdate
<1> HIDE DEF D
<1> QED  BY <1>2, <1>4, <1>5, StillForgotten DEF DoUpdate

\* The clock makes the client more silent.
LEMMA TickFalls ==
  ASSUME SafeInv, NEW a \in Attempt, Forgotten(a), Tick
  PROVE  Falls(a)
<1>1. UNCHANGED <<connections_, net>>  BY DEF Tick
<1> QED  BY <1>1, TickClients DEF Falls, Forgotten

LEMMA StepFalls ==
  ASSUME SafeInv, OneSocket, [Next]_vars, NEW a \in Attempt, Forgotten(a), vars' # vars
  PROVE  Falls(a)
BY ClientStepsFall, ServerStepsFall, DoUpdateFalls, TickFalls DEF Next

\* A client whose entry is gone from the acceptor stays silent until its timer closes
\* it: what it sends is dropped, and nobody else has a socket of its port.
THEOREM ForgottenStaysSilent == Spec => SilenceStays
<1>1. Init => OneSocket  BY DEF Init, OneSocket, HasSocket
<1>2. SafeInv /\ OneSocket /\ [Next]_vars => OneSocket'  BY NextOneSocket
<1>3. SafeInv /\ OneSocket /\ [Next]_vars =>
        [\A a \in Attempt : Forgotten(a) => Falls(a)]_vars
      BY StepFalls
<1> QED  BY <1>1, <1>2, <1>3, SafeInvariant, PTL DEF Spec, SilenceStays, Falls
=============================================================================
