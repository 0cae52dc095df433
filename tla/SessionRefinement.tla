-------------------------- MODULE SessionRefinement --------------------------
(***************************************************************************)
(* Session implements SessionPromise when ports are fresh and no datagram  *)
(* is repeated, for any number of clients, connections and datagrams.      *)
(*                                                                         *)
(* SafeInv knows connections only by their endpoint.  PromiseInv adds what *)
(* makes an endpoint the name of one client: no two clients have the same, *)
(* a datagram to the acceptor comes from the client whose endpoint it      *)
(* tells, the one handshake of a client is answered at most once.  So the  *)
(* connection that an endpoint finds in the table, or that a response      *)
(* comes from, was made for that client and for no other.                  *)
(***************************************************************************)
EXTENDS SessionProofs

\* Client a has sent its handshake.
Asked(a) == client[a].st \notin {"new", "connecting"}

\* Client a has no answer yet.
Early(a) == client[a].st \in {"new", "connecting", "waiting"}

\* A port belongs to one client, ever.
OneOwner ==
  \A a, b \in Attempt : client[a].ep # 0 /\ client[a].ep = client[b].ep => a = b

\* A datagram to the acceptor is from the client whose port it tells.
FromOwner ==
  \A d \in net : d.to = "server" => Asked(d.from) /\ client[d.from].ep = d.ep

\* Data to the acceptor is from a client that was answered.
TalksToOwn ==
  \A d \in net : d.to = "server" /\ d.op = "data" => client[d.from].srv # 0

\* A client sends one handshake.
OneHandshark ==
  \A d, e \in net : d.op = "handshark" /\ e.op = "handshark" /\ d.from = e.from => d = e

\* A handshake that is still to arrive was not accepted.
OnceAsked ==
  \A d \in net : d.op = "handshark" => \A s \in DOMAIN conns : d.from \notin conns[s].by

\* A connection was made for one client, the one at its endpoint.
AcceptedFor ==
  \A s \in DOMAIN conns : \E a \in Attempt :
    conns[s].by = {a} /\ Asked(a) /\ client[a].ep = conns[s].ep

\* A client is accepted once.
AcceptedOnce ==
  \A s, t \in DOMAIN conns : conns[s].by = conns[t].by => s = t

\* A client was answered, if at all, by the connection made for it.
AnsweredByOwn ==
  \A a \in Attempt :
    /\ Early(a) => client[a].srv = 0
    /\ client[a].srv # 0 => client[a].srv \in DOMAIN conns /\ conns[client[a].srv].by = {a}

\* The inductive invariant, on top of SafeInv.
PromiseInv ==
  /\ Len(conns) <= MaxConns
  /\ OneOwner
  /\ FromOwner
  /\ TalksToOwn
  /\ OneHandshark
  /\ OnceAsked
  /\ AcceptedFor
  /\ AcceptedOnce
  /\ AnsweredByOwn
-----------------------------------------------------------------------------
(* What a step leaves as it was.                                           *)

\* A connection keeps its endpoint and whom it was made for.
SameConns ==
  /\ Len(conns') = Len(conns) /\ DOMAIN conns' = DOMAIN conns
  /\ \A s \in DOMAIN conns : conns'[s].ep = conns[s].ep /\ conns'[s].by = conns[s].by

\* A client keeps its port.
SamePorts == \A b \in Attempt : client'[b].ep = client[b].ep

\* A client keeps its answer, or the lack of it, and does not go back.
SameAnswers ==
  \A b \in Attempt :
    /\ client'[b].srv = client[b].srv
    /\ Asked(b) => Asked(b)'
    /\ Early(b)' => Early(b)

\* A client that has sent its handshake stays so, with its port and with an answer.
Onward ==
  \A b \in Attempt :
    /\ Asked(b) => Asked(b)' /\ client'[b].ep = client[b].ep
    /\ client[b].srv # 0 => client'[b].srv # 0

\* What a step may send: anything to a client, and what an answered client sends.
SentLate(d) ==
  \/ d.to = "client" /\ d.op # "handshark"
  \/ /\ d.to = "server" /\ d.op # "handshark" /\ d.from \in Attempt
     /\ client[d.from].ep = d.ep /\ client[d.from].srv # 0

\* The sender of a datagram to the acceptor is a client.
LEMMA SenderIsClient ==
  ASSUME SafeInv, NEW d \in net
  PROVE  /\ d.to \in {"server", "client"}
         /\ d.to = "server" => d.from \in Attempt
         /\ d.op = "handshark" => d.to = "server"
BY DatagramParts DEF SafeInv, TypeOK

\* What is said of datagrams to the acceptor holds of the old ones.
LEMMA SendersStay ==
  ASSUME SafeInv, PromiseInv, Onward,
         NEW d \in net, d.to = "server"
  PROVE  /\ Asked(d.from)' /\ client'[d.from].ep = d.ep
         /\ d.op = "data" => client'[d.from].srv # 0
BY SenderIsClient DEF PromiseInv, FromOwner, TalksToOwn, Onward

\* Connections stay with the client they were made for.
LEMMA OwnersStay ==
  ASSUME SafeInv, PromiseInv, Onward, SameConns
  PROVE  AcceptedFor' /\ AcceptedOnce' /\ Len(conns') <= MaxConns
<1>1. AcceptedFor'
  <2>1. ASSUME NEW s \in DOMAIN conns'
        PROVE  \E a \in Attempt :
                 conns'[s].by = {a} /\ Asked(a)' /\ client'[a].ep = conns'[s].ep
    <3>1. s \in DOMAIN conns /\ conns'[s].ep = conns[s].ep /\ conns'[s].by = conns[s].by
          BY DEF SameConns
    <3>2. PICK a \in Attempt : conns[s].by = {a} /\ Asked(a) /\ client[a].ep = conns[s].ep
          BY <3>1 DEF PromiseInv, AcceptedFor
    <3>3. Asked(a)' /\ client'[a].ep = client[a].ep  BY <3>2 DEF Onward
    <3> QED  BY <3>1, <3>2, <3>3
  <2> QED  BY <2>1 DEF AcceptedFor
<1>2. AcceptedOnce'  BY DEF PromiseInv, AcceptedOnce, SameConns
<1>3. Len(conns') <= MaxConns  BY DEF PromiseInv, SameConns
<1> QED  BY <1>1, <1>2, <1>3

\* No handshake is sent.
LEMMA HandsharksStay ==
  ASSUME PromiseInv, SameConns, \A d \in net' : d.op = "handshark" => d \in net
  PROVE  OneHandshark' /\ OnceAsked'
BY DEF PromiseInv, OneHandshark, OnceAsked, SameConns

\* Nobody is answered.
LEMMA AnswersStay ==
  ASSUME PromiseInv, SameAnswers, SameConns
  PROVE  AnsweredByOwn'
<1>1. ASSUME NEW a \in Attempt
      PROVE  /\ Early(a)' => client'[a].srv = 0
             /\ client'[a].srv # 0 =>
                  client'[a].srv \in DOMAIN conns' /\ conns'[client'[a].srv].by = {a}
  <2>1. client'[a].srv = client[a].srv /\ (Early(a)' => Early(a))  BY DEF SameAnswers
  <2>2. /\ Early(a) => client[a].srv = 0
        /\ client[a].srv # 0 =>
             client[a].srv \in DOMAIN conns /\ conns[client[a].srv].by = {a}
        BY DEF PromiseInv, AnsweredByOwn
  <2> QED  BY <2>1, <2>2 DEF SameConns
<1> QED  BY <1>1 DEF AnsweredByOwn

LEMMA PortsStay ==
  ASSUME PromiseInv, SamePorts
  PROVE  OneOwner'
BY DEF PromiseInv, OneOwner, SamePorts

\* A client that was answered has asked.
LEMMA AnsweredAsked ==
  ASSUME PromiseInv, NEW a \in Attempt, client[a].srv # 0
  PROVE  Asked(a)
BY DEF PromiseInv, AnsweredByOwn, Asked, Early

\* Such steps leave the promise's pairs as they are when they deliver no data.
SameHeard ==
  /\ \A s \in DOMAIN conns : conns'[s].heard = conns[s].heard
  /\ \A a \in Attempt : client'[a].heard = client[a].heard

LEMMA PairsStay ==
  /\ SameConns => Accepted' = Accepted
  /\ SameAnswers => Connected' = Connected
  /\ SameConns /\ SameHeard => ToServers' = ToServers
  /\ SameHeard => ToClients' = ToClients
<1>1. \A p \in Pairs : p[1] \in Attempt  BY DEF Pairs
<1>2. SameConns => Accepted' = Accepted  BY DEF Accepted, SameConns
<1>3. SameAnswers => Connected' = Connected  BY <1>1 DEF Connected, SameAnswers
<1>4. SameConns /\ SameHeard => ToServers' = ToServers
      BY DEF ToServers, SameConns, SameHeard
<1>5. SameHeard => ToClients' = ToClients  BY <1>1 DEF ToClients, SameHeard
<1> QED  BY <1>2, <1>3, <1>4, <1>5

\* A step that makes no connection, answers nobody and sends no handshake.
LEMMA Preserved ==
  ASSUME SafeInv, PromiseInv, SameConns, SamePorts, SameAnswers,
         \A d \in net' : d \notin net => SentLate(d)
  PROVE  PromiseInv'
<1> USE DEF SentLate
<1>1. Onward  BY DEF Onward, SamePorts, SameAnswers
<1>2. ASSUME NEW d \in net', d.to = "server"
      PROVE  /\ Asked(d.from)' /\ client'[d.from].ep = d.ep
             /\ d.op = "data" => client'[d.from].srv # 0
  <2>1. CASE d \in net  BY <1>1, <1>2, <2>1, SendersStay
  <2>2. CASE d \notin net
    <3>1. d.from \in Attempt /\ client[d.from].ep = d.ep /\ client[d.from].srv # 0
          BY <1>2, <2>2
    <3>2. Asked(d.from)  BY <3>1, AnsweredAsked
    <3> QED  BY <1>1, <3>1, <3>2 DEF Onward
  <2> QED  BY <2>1, <2>2
<1>3. FromOwner' /\ TalksToOwn'  BY <1>2 DEF FromOwner, TalksToOwn
<1>4. \A d \in net' : d.op = "handshark" => d \in net  OBVIOUS
<1>5. OneHandshark' /\ OnceAsked'  BY <1>4, HandsharksStay
<1>6. AcceptedFor' /\ AcceptedOnce' /\ Len(conns') <= MaxConns  BY <1>1, OwnersStay
<1>7. AnsweredByOwn' /\ OneOwner'  BY AnswersStay, PortsStay
<1> QED  BY <1>3, <1>5, <1>6, <1>7 DEF PromiseInv

\* If it delivers no data either, the promise sees nothing of it.
LEMMA QuietStep ==
  ASSUME SafeInv, PromiseInv, SameConns, SamePorts, SameAnswers, SameHeard,
         \A d \in net' : d \notin net => SentLate(d)
  PROVE  PromiseInv' /\ UNCHANGED Promise!vars
<1>1. PromiseInv'  BY Preserved
<1>2. UNCHANGED <<Accepted, Connected, ToServers, ToClients>>  BY PairsStay
<1> QED  BY <1>1, <1>2 DEF Promise!vars

\* The acceptor does nothing.
LEMMA SameServer ==
  ASSUME UNCHANGED serverVars
  PROVE  SameConns /\ \A s \in DOMAIN conns : conns'[s].heard = conns[s].heard
BY DEF serverVars, SameConns

\* The clients do nothing.
LEMMA SameClient ==
  ASSUME UNCHANGED client
  PROVE  SamePorts /\ SameAnswers /\ \A a \in Attempt : client'[a].heard = client[a].heard
BY DEF SamePorts, SameAnswers, Asked, Early

-----------------------------------------------------------------------------
(* The steps of the clients.                                               *)

\* The fields of the clients when only a's state and silence change.
LEMMA OnlyState ==
  ASSUME SafeInv, NEW a \in Attempt, NEW st, st \notin {"new", "connecting", "waiting"},
         \/ client' = [client EXCEPT ![a].st = st]
         \/ client' = [client EXCEPT ![a].quiet = 0, ![a].st = st]
  PROVE  SamePorts /\ SameAnswers /\ \A b \in Attempt : client'[b].heard = client[b].heard
<1>1. client \in [Attempt -> ClientRecord]  BY DEF SafeInv, TypeOK
<1>2. \A b \in Attempt :
        /\ client'[b].ep = client[b].ep /\ client'[b].srv = client[b].srv
        /\ client'[b].heard = client[b].heard
        /\ client'[b].st = client[b].st \/ client'[b].st = st
  <2>1. CASE client' = [client EXCEPT ![a].st = st]  BY <1>1, <2>1 DEF ClientRecord
  <2>2. CASE client' = [client EXCEPT ![a].quiet = 0, ![a].st = st]
        BY <1>1, <2>2 DEF ClientRecord
  <2> QED  BY <2>1, <2>2
<1> QED  BY <1>2 DEF SamePorts, SameAnswers, Asked, Early

\* A client that has its connection sends only to the acceptor, and was answered.
LEMMA OpenedSends ==
  ASSUME SafeInv, NEW a \in Attempt, client[a].st = "opened",
         NEW d \in {ClientData(a), ClientBye(a)}
  PROVE  SentLate(d)
<1>1. d.to = "server" /\ d.op # "handshark" /\ d.ep = client[a].ep /\ d.from = a
      BY ClientSends DEF SafeInv
<1>2. client[a].srv # 0
  <2>1. client[a].srv \in DOMAIN conns  BY DEF SafeInv, ConvAgrees
  <2> QED  BY <2>1, ConnParts DEF SafeInv
<1> QED  BY <1>1, <1>2 DEF SentLate

LEMMA AbandonImpl ==
  ASSUME SafeInv, PromiseInv, NEW a \in Attempt, Abandon(a)
  PROVE  PromiseInv' /\ UNCHANGED Promise!vars
<1>1. SamePorts /\ SameAnswers /\ \A b \in Attempt : client'[b].heard = client[b].heard
  <2>1. client' = [client EXCEPT ![a].st = "failed"]  BY DEF Abandon
  <2>2. "failed" \notin {"new", "connecting", "waiting"}  OBVIOUS
  <2> QED  BY <2>1, <2>2, OnlyState
<1>2. SameConns /\ SameHeard  BY <1>1, SameServer DEF SameHeard, Abandon
<1> QED  BY <1>1, <1>2, QuietStep DEF Abandon

\* The end of a client's connection, with what its close sends.
LEMMA ClientEndImpl ==
  ASSUME SafeInv, PromiseInv, NEW a \in Attempt, client[a].st = "opened",
         NEW base, base \subseteq net, Transmit(base, {ClientData(a), ClientBye(a)}),
         \/ client' = [client EXCEPT ![a].st = "closed"]
         \/ client' = [client EXCEPT ![a].quiet = 0, ![a].st = "closed"],
         UNCHANGED serverVars
  PROVE  PromiseInv' /\ UNCHANGED Promise!vars
<1>1. SamePorts /\ SameAnswers /\ \A b \in Attempt : client'[b].heard = client[b].heard
      BY OnlyState
<1>2. SameConns /\ SameHeard  BY <1>1, SameServer DEF SameHeard
<1>3. net' \subseteq net \cup {ClientData(a), ClientBye(a)}  BY TransmitNet
<1>4. \A d \in net' : d \notin net => SentLate(d)  BY <1>3, OpenedSends
<1> QED  BY <1>1, <1>2, <1>4, QuietStep

LEMMA ClientTimerImpl ==
  ASSUME SafeInv, PromiseInv, NEW a \in Attempt, ClientTimer(a)
  PROVE  PromiseInv' /\ UNCHANGED Promise!vars
<1>1. CASE client[a].quiet > Timeout  BY <1>1, ClientEndImpl DEF ClientTimer
<1>2. CASE ~(client[a].quiet > Timeout)
  <2>1. /\ client[a].st = "opened" /\ Transmit(net, {ClientData(a)})
        /\ UNCHANGED client /\ UNCHANGED serverVars
        BY <1>2 DEF ClientTimer
  <2>2. SameConns /\ SamePorts /\ SameAnswers /\ SameHeard
        BY <2>1, SameServer, SameClient DEF SameHeard
  <2>3. net' \subseteq net \cup {ClientData(a)}  BY <2>1, TransmitNet
  <2>4. \A d \in net' : d \notin net => SentLate(d)  BY <2>1, <2>3, OpenedSends
  <2> QED  BY <2>2, <2>4, QuietStep
<1> QED  BY <1>1, <1>2

LEMMA ClientCloseImpl ==
  ASSUME SafeInv, PromiseInv, NEW a \in Attempt, ClientClose(a)
  PROVE  PromiseInv' /\ UNCHANGED Promise!vars
BY ClientEndImpl DEF ClientClose

\* An endpoint is the name of one client: a connection at it was made for that client.
LEMMA EndpointNames ==
  ASSUME SafeInv, PromiseInv, NEW a \in Attempt, NEW s \in DOMAIN conns,
         conns[s].ep = client[a].ep
  PROVE  conns[s].by = {a} /\ Asked(a) /\ s \in 1..MaxConns
<1>1. PICK b \in Attempt : conns[s].by = {b} /\ Asked(b) /\ client[b].ep = conns[s].ep
      BY DEF PromiseInv, AcceptedFor
<1>2. conns[s].ep # 0
  <2>1. conns[s].ep \in Endpoint  BY ConnParts DEF SafeInv
  <2> QED  BY <2>1 DEF Endpoint
<1>3. a = b  BY <1>1, <1>2 DEF PromiseInv, OneOwner
<1>4. s \in 1..MaxConns
  <2>1. Len(conns) \in Nat /\ Len(conns) <= MaxConns /\ s \in 1..Len(conns)
        BY ConnsParts DEF SafeInv, PromiseInv
  <2> QED  BY <2>1, SessionAssumption
<1> QED  BY <1>1, <1>3, <1>4

\* A client that was answered is connected to the only connection at its endpoint.
LEMMA AnsweredBy ==
  ASSUME SafeInv, PromiseInv, NEW a \in Attempt, NEW s \in DOMAIN conns,
         conns[s].ep = client[a].ep, client[a].srv # 0
  PROVE  client[a].srv = s /\ <<a, s>> \in Connected
<1>1. conns[s].by = {a} /\ s \in 1..MaxConns  BY EndpointNames
<1>2. client[a].srv \in DOMAIN conns /\ conns[client[a].srv].by = {a}
      BY DEF PromiseInv, AnsweredByOwn
<1>3. client[a].srv = s  BY <1>1, <1>2 DEF PromiseInv, AcceptedOnce
<1>4. <<a, s>> \in Pairs  BY <1>1 DEF Pairs
<1> QED  BY <1>3, <1>4 DEF Connected

LEMMA ClientReceiveImpl ==
  ASSUME SafeInv, PromiseInv, NEW a \in Attempt, NEW d \in net, ClientReceive(a, d)
  PROVE  PromiseInv' /\ (Promise!Next \/ UNCHANGED Promise!vars)
<1>1. client[a].st = "opened" /\ d.to = "client" /\ d.ep = client[a].ep /\ UNCHANGED serverVars
      BY DEF ClientReceive
<1>2. SameConns /\ \A s \in DOMAIN conns : conns'[s].heard = conns[s].heard
      BY <1>1, SameServer
<1>3. CASE d.op = "disconnect"
      BY <1>1, <1>3, WithoutNet, ClientEndImpl DEF ClientReceive
<1>4. CASE d.op # "disconnect" /\ UNCHANGED client
  <2>1. net' \subseteq net  BY <1>4, WithoutNet DEF ClientReceive
  <2>2. SamePorts /\ SameAnswers /\ SameHeard  BY <1>2, <1>4, SameClient DEF SameHeard
  <2> QED  BY <1>2, <2>1, <2>2, QuietStep
<1>5. CASE d.op = "data"
  <2> DEFINE h == IF Takes(d, client[a].conv) THEN client[a].heard \cup {d.from}
                  ELSE client[a].heard
  <2>1. client' = [client EXCEPT ![a].quiet = 0, ![a].heard = h]
        BY <1>5 DEF ClientReceive
  <2>2. net' \subseteq net  BY <1>5, WithoutNet DEF ClientReceive
  <2>3. /\ \A b \in Attempt : /\ client'[b].ep = client[b].ep /\ client'[b].st = client[b].st
                              /\ client'[b].srv = client[b].srv
        /\ \A b \in Attempt : b # a => client'[b].heard = client[b].heard
        /\ client'[a].heard = h
    <3>1. client \in [Attempt -> ClientRecord]  BY DEF SafeInv, TypeOK
    <3> HIDE DEF h
    <3> QED  BY <2>1, <3>1 DEF ClientRecord
  <2>4. SamePorts /\ SameAnswers  BY <2>3 DEF SamePorts, SameAnswers, Asked, Early
  <2>5. PromiseInv'  BY <1>2, <2>2, <2>4, Preserved
  <2>6. CASE d.conv # client[a].conv
    <3>1. SameHeard  BY <1>2, <2>3, <2>6 DEF SameHeard, Takes
    <3> QED  BY <1>2, <2>2, <2>4, <3>1, QuietStep
  <2>7. CASE d.conv = client[a].conv
    <3>1. d.from \in DOMAIN conns /\ conns[d.from].ep = client[a].ep
          BY <1>1 DEF SafeInv, FromConns
    <3>2. client[a].srv # 0
      <4>1. client[a].srv \in DOMAIN conns  BY <1>1 DEF SafeInv, ConvAgrees
      <4> QED  BY <4>1, ConnParts DEF SafeInv
    <3>3. <<a, d.from>> \in Connected /\ d.from \in 1..MaxConns
          BY <3>1, <3>2, AnsweredBy, EndpointNames
    <3>4. UNCHANGED <<Accepted, Connected, ToServers>>
      <4>1. SameConns => ToServers' = ToServers  BY <1>2 DEF ToServers, SameConns
      <4> QED  BY <1>2, <2>4, <4>1, PairsStay
    <3>5. ToClients' = ToClients \cup {<<a, d.from>>}
      <4>1. <<a, d.from>> \in Pairs  BY <3>3 DEF Pairs
      <4>2. \A p \in Pairs : p[1] \in Attempt /\ p = <<p[1], p[2]>>  BY DEF Pairs
      <4>3. client'[a].heard = client[a].heard \cup {d.from}  BY <2>3, <2>7 DEF Takes
      <4>4. ASSUME NEW p \in Pairs
            PROVE  p[2] \in client'[p[1]].heard
                     <=> p[2] \in client[p[1]].heard \/ p = <<a, d.from>>
            BY <2>3, <4>2, <4>3
      <4> QED  BY <4>1, <4>4 DEF ToClients
    <3>6. Promise!DataToClient(a, d.from)
          BY <3>3, <3>4, <3>5 DEF Promise!DataToClient
    <3>7. Promise!Next  BY <3>3, <3>6 DEF Promise!Next
    <3> QED  BY <2>5, <3>7
  <2> QED  BY <2>6, <2>7
<1> QED  BY <1>3, <1>4, <1>5 DEF ClientReceive

\* A response connects a client with the connection that was accepted for it.
LEMMA FirstDatagramImpl ==
  ASSUME SafeInv, PromiseInv, NEW a \in Attempt, NEW d \in net, FirstDatagram(a, d)
  PROVE  PromiseInv' /\ (Promise!Next \/ UNCHANGED Promise!vars)
<1>1. client[a].st = "waiting" /\ d.to = "client" /\ d.ep = client[a].ep /\ UNCHANGED serverVars
      BY DEF FirstDatagram
<1>2. SameConns /\ \A s \in DOMAIN conns : conns'[s].heard = conns[s].heard
      BY <1>1, SameServer
<1>3. net' \subseteq net  BY WithoutNet DEF FirstDatagram
<1>4. client \in [Attempt -> ClientRecord]  BY DEF SafeInv, TypeOK
<1>5. CASE d.op # "response"
  <2>1. client' = [client EXCEPT ![a].st = "failed"]  BY <1>5 DEF FirstDatagram
  <2>2. "failed" \notin {"new", "connecting", "waiting"}  OBVIOUS
  <2>3. SamePorts /\ SameAnswers /\ SameHeard
        BY <1>2, <2>1, <2>2, OnlyState DEF SameHeard
  <2> QED  BY <1>2, <1>3, <2>3, QuietStep
<1>6. CASE d.op = "response"
  <2>1. client' = [client EXCEPT ![a].st = "opened", ![a].conv = d.conv, ![a].srv = d.from]
        BY <1>6 DEF FirstDatagram
  <2>2. /\ \A b \in Attempt : client'[b].ep = client[b].ep /\ client'[b].heard = client[b].heard
        /\ \A b \in Attempt : b # a => client'[b].st = client[b].st
                                       /\ client'[b].srv = client[b].srv
        /\ client'[a].st = "opened" /\ client'[a].srv = d.from
        BY <1>4, <2>1 DEF ClientRecord
  <2>3. d.from \in DOMAIN conns /\ conns[d.from].ep = client[a].ep /\ d.from # 0
    <3>1. d.from \in DOMAIN conns /\ conns[d.from].ep = client[a].ep
          BY <1>1 DEF SafeInv, FromConns
    <3> QED  BY <3>1, ConnParts DEF SafeInv
  <2>4. conns[d.from].by = {a} /\ d.from \in 1..MaxConns  BY <2>3, EndpointNames
  <2>5. client[a].srv = 0  BY <1>1 DEF PromiseInv, AnsweredByOwn, Early
  <2>6. SamePorts /\ Onward
        BY <1>1, <2>2, <2>3 DEF SamePorts, Onward, Asked
  <2>7. PromiseInv'
    <3>1. FromOwner' /\ TalksToOwn'
          BY <1>3, <2>6, SendersStay DEF FromOwner, TalksToOwn
    <3>2. OneHandshark' /\ OnceAsked'  BY <1>2, <1>3, HandsharksStay
    <3>3. AcceptedFor' /\ AcceptedOnce' /\ Len(conns') <= MaxConns
          BY <1>2, <2>6, OwnersStay
    <3>4. AnsweredByOwn'
      <4>1. ASSUME NEW b \in Attempt
            PROVE  /\ Early(b)' => client'[b].srv = 0
                   /\ client'[b].srv # 0 =>
                        client'[b].srv \in DOMAIN conns' /\ conns'[client'[b].srv].by = {b}
        <5>1. CASE b = a  BY <1>2, <2>2, <2>3, <2>4, <5>1 DEF Early, SameConns
        <5>2. CASE b # a
              BY <1>2, <2>2, <5>2 DEF PromiseInv, AnsweredByOwn, Early, SameConns
        <5> QED  BY <5>1, <5>2
      <4> QED  BY <4>1 DEF AnsweredByOwn
    <3>5. OneOwner'  BY <2>6, PortsStay
    <3> QED  BY <3>1, <3>2, <3>3, <3>4, <3>5 DEF PromiseInv
  <2>8. <<a, d.from>> \in Accepted  BY <2>3, <2>4 DEF Accepted, Pairs
  <2>9. UNCHANGED <<Accepted, ToServers, ToClients>>
        BY <1>2, <2>2, PairsStay DEF SameHeard
  <2>10. Connected' = Connected \cup {<<a, d.from>>}
    <3>1. <<a, d.from>> \in Pairs  BY <2>8 DEF Accepted
    <3>2. \A p \in Pairs : p[1] \in Attempt /\ p[2] \in 1..MaxConns /\ p = <<p[1], p[2]>>
          BY DEF Pairs
    <3>3. ASSUME NEW p \in Pairs
          PROVE  client'[p[1]].srv = p[2] <=> client[p[1]].srv = p[2] \/ p = <<a, d.from>>
      <4>1. p[2] # 0  BY <3>2
      <4> QED  BY <2>2, <2>5, <3>2, <4>1
    <3> QED  BY <3>1, <3>3 DEF Connected
  <2>11. Promise!Connect(a, d.from)  BY <2>8, <2>9, <2>10 DEF Promise!Connect
  <2>12. Promise!Next  BY <2>4, <2>11 DEF Promise!Next
  <2> QED  BY <2>7, <2>12
<1> QED  BY <1>5, <1>6

\* A fresh port has no earlier owner.
LEMMA StartConnectImpl ==
  ASSUME SafeInv, PromiseInv, ~Reuse, NEW a \in Attempt, NEW e \in Endpoint,
         StartConnect(a, e)
  PROVE  PromiseInv' /\ UNCHANGED Promise!vars
<1>1. /\ client[a].st = "new" /\ \A b \in Attempt : client[b].ep # e
      /\ client' = [client EXCEPT ![a].st = "connecting", ![a].ep = e]
      /\ net' = net /\ UNCHANGED serverVars
      BY DEF StartConnect
<1>2. SameConns /\ \A s \in DOMAIN conns : conns'[s].heard = conns[s].heard
      BY <1>1, SameServer
<1>3. client \in [Attempt -> ClientRecord]  BY DEF SafeInv, TypeOK
<1>4. /\ \A b \in Attempt : client'[b].srv = client[b].srv /\ client'[b].heard = client[b].heard
      /\ \A b \in Attempt : b # a => client'[b].st = client[b].st
                                     /\ client'[b].ep = client[b].ep
      /\ client'[a].st = "connecting" /\ client'[a].ep = e
      BY <1>1, <1>3 DEF ClientRecord
<1>5. Onward /\ SameAnswers  BY <1>1, <1>4 DEF Onward, SameAnswers, Asked, Early
<1>6. FromOwner' /\ TalksToOwn'
      BY <1>1, <1>5, SendersStay DEF FromOwner, TalksToOwn
<1>7. OneHandshark' /\ OnceAsked'  BY <1>1, <1>2, HandsharksStay
<1>8. AcceptedFor' /\ AcceptedOnce' /\ Len(conns') <= MaxConns
      BY <1>2, <1>5, OwnersStay
<1>9. AnsweredByOwn'  BY <1>2, <1>5, AnswersStay
<1>10. OneOwner'
  <2>1. ASSUME NEW b \in Attempt, NEW c \in Attempt,
               client'[b].ep # 0, client'[b].ep = client'[c].ep
        PROVE  b = c
    <3>1. CASE b # a /\ c # a  BY <1>4, <2>1, <3>1 DEF PromiseInv, OneOwner
    <3>2. CASE b = a /\ c # a
      <4>1. client[c].ep = e  BY <1>4, <2>1, <3>2
      <4> QED  BY <1>1, <4>1
    <3>3. CASE b # a /\ c = a
      <4>1. client[b].ep = e  BY <1>4, <2>1, <3>3
      <4> QED  BY <1>1, <4>1
    <3> QED  BY <3>1, <3>2, <3>3
  <2> QED  BY <2>1 DEF OneOwner
<1>11. UNCHANGED <<Accepted, Connected, ToServers, ToClients>>
       BY <1>2, <1>4, <1>5, PairsStay DEF SameHeard
<1> QED  BY <1>6, <1>7, <1>8, <1>9, <1>10, <1>11 DEF PromiseInv, Promise!vars

\* A client sends its handshake before anything else, and once.
LEMMA SendHandsharkImpl ==
  ASSUME SafeInv, PromiseInv, NEW a \in Attempt, SendHandshark(a)
  PROVE  PromiseInv' /\ UNCHANGED Promise!vars
<1> DEFINE h == ToServer("handshark", client[a].ep, conv, a)
<1>1. /\ client[a].st = "connecting" /\ client' = [client EXCEPT ![a].st = "waiting"]
      /\ UNCHANGED serverVars /\ net' \subseteq net \cup {h}
      BY TransmitNet DEF SendHandshark
<1>2. SameConns /\ \A s \in DOMAIN conns : conns'[s].heard = conns[s].heard
      BY <1>1, SameServer
<1>3. client \in [Attempt -> ClientRecord]  BY DEF SafeInv, TypeOK
<1>4. /\ \A b \in Attempt : /\ client'[b].srv = client[b].srv /\ client'[b].ep = client[b].ep
                            /\ client'[b].heard = client[b].heard
      /\ \A b \in Attempt : b # a => client'[b].st = client[b].st
      /\ client'[a].st = "waiting"
      BY <1>1, <1>3 DEF ClientRecord
<1>5. Onward /\ SameAnswers /\ SamePorts
      BY <1>1, <1>4 DEF Onward, SameAnswers, SamePorts, Asked, Early
<1>6. h.to = "server" /\ h.op = "handshark" /\ h.from = a /\ h.ep = client[a].ep
      BY DEF ToServer
<1>7. ~Asked(a)  BY <1>1 DEF Asked
<1> HIDE DEF h
<1>8. FromOwner' /\ TalksToOwn'
  <2>1. ASSUME NEW d \in net', d.to = "server"
        PROVE  /\ Asked(d.from)' /\ client'[d.from].ep = d.ep
               /\ d.op = "data" => client'[d.from].srv # 0
    <3>1. CASE d \in net  BY <1>5, <2>1, <3>1, SendersStay
    <3>2. CASE d = h  BY <1>4, <1>6, <3>2 DEF Asked
    <3> QED  BY <1>1, <3>1, <3>2
  <2> QED  BY <2>1 DEF FromOwner, TalksToOwn
<1>9. \A d \in net : d.op = "handshark" => d.from # a
      BY <1>7, SenderIsClient DEF PromiseInv, FromOwner
<1>10. OneHandshark'  BY <1>1, <1>6, <1>9 DEF PromiseInv, OneHandshark
<1>11. \A s \in DOMAIN conns : a \notin conns[s].by
       BY <1>7 DEF PromiseInv, AcceptedFor
<1>12. OnceAsked'  BY <1>1, <1>2, <1>6, <1>11 DEF PromiseInv, OnceAsked, SameConns
<1>13. AcceptedFor' /\ AcceptedOnce' /\ Len(conns') <= MaxConns
       BY <1>2, <1>5, OwnersStay
<1>14. AnsweredByOwn' /\ OneOwner'  BY <1>2, <1>5, AnswersStay, PortsStay
<1>15. UNCHANGED <<Accepted, Connected, ToServers, ToClients>>
       BY <1>2, <1>4, <1>5, PairsStay DEF SameHeard
<1> QED  BY <1>8, <1>10, <1>12, <1>13, <1>14, <1>15 DEF PromiseInv, Promise!vars

-----------------------------------------------------------------------------
(* The steps of the acceptor.                                              *)

\* What a connection sends is no concern of PromiseInv.
LEMMA ServerSendsLate ==
  ASSUME SafeInv, NEW s \in DOMAIN conns, NEW d \in {ServerData(s), ServerBye(s)}
  PROVE  SentLate(d)
BY ServerSends DEF SafeInv, SentLate

\* A handshake that still arrives finds no idle connection at its port: the client was
\* accepted before, or the port was another's.
LEMMA HandsharkAgainNever ==
  ASSUME SafeInv, PromiseInv, NEW d \in net, d.op = "handshark",
         HandsharkAgain(d, connections_[d.ep])
  PROVE  FALSE
<1> DEFINE s == connections_[d.ep]
<1>1. d.from \in Attempt /\ client[d.from].ep = d.ep /\ d.ep \in Endpoint
  <2>1. d.to = "server" /\ d.from \in Attempt  BY SenderIsClient
  <2>2. d.ep \in Endpoint  BY DatagramParts DEF SafeInv, TypeOK
  <2> QED  BY <2>1, <2>2 DEF PromiseInv, FromOwner
<1>2. s \in DOMAIN conns /\ s # 0
  <2>1. s \in DOMAIN conns  BY DEF HandsharkAgain, IsIdle
  <2> QED  BY <2>1, ConnParts DEF SafeInv
<1>3. conns[s].ep = d.ep  BY <1>1, <1>2 DEF SafeInv, OpenedIsListed
<1>4. d.from \in conns[s].by  BY <1>1, <1>2, <1>3, EndpointNames
<1> QED  BY <1>2, <1>4 DEF PromiseInv, OnceAsked

\* A handshake that is accepted: the one handshake of its client is gone, and the new
\* connection is the only one made for it.
LEMMA HandsharkNewImpl ==
  ASSUME SafeInv, PromiseInv, ~Duplicates, NEW d \in net, d.op = "handshark",
         UNCHANGED <<conv, client>>, HandsharkNew(d, connections_[d.ep])
  PROVE  PromiseInv' /\ Promise!Next
<1> DEFINE old == connections_[d.ep]
           n   == Len(conns) + 1
           a   == d.from
           r   == ToClient("response", d.ep, d.conv, n)
<1>1. TypeOK /\ Len(conns) \in Nat /\ DOMAIN conns = 1..Len(conns) /\ MaxConns \in Nat
      BY ConnsParts, SessionAssumption DEF SafeInv
<1>2. /\ a \in Attempt /\ Asked(a) /\ client[a].ep = d.ep
      /\ \A s \in DOMAIN conns : a \notin conns[s].by
      BY SenderIsClient DEF PromiseInv, FromOwner, OnceAsked
<1>3. /\ DOMAIN conns' = 1..n /\ Len(conns') = n
      /\ conns'[n] = NewConnection(d)
      /\ \A s \in DOMAIN conns : conns'[s] = Closed(old)[s]
  <2>1. conns' = Append(Closed(old), NewConnection(d))  BY DEF HandsharkNew
  <2>2. Closed(old) \in Seq(ConnRecord) /\ Len(Closed(old)) = Len(conns)
        BY <1>1, ClosedParts
  <2>3. NewConnection(d) \in ConnRecord  BY NewConnectionParts
  <2> HIDE DEF old
  <2> QED  BY <1>1, <2>1, <2>2, <2>3
<1>4. \A s \in DOMAIN conns :
        /\ conns'[s].ep = conns[s].ep /\ conns'[s].by = conns[s].by
        /\ conns'[s].heard = conns[s].heard
      BY <1>1, <1>3, ClosedParts
<1>5. conns'[n].ep = d.ep /\ conns'[n].by = {a} /\ conns'[n].heard = {}
      BY <1>3, NewConnectionParts
<1>6. /\ DOMAIN conns \subseteq DOMAIN conns' /\ n \in DOMAIN conns' /\ n \notin DOMAIN conns
      /\ \A s \in DOMAIN conns' : s \in DOMAIN conns \/ s = n
      BY <1>1, <1>3
<1>7. n \in 1..MaxConns /\ Len(conns') <= MaxConns  BY <1>1, <1>3 DEF HandsharkNew
<1>8. \A e \in net' : e \notin net \ {d} => e.to = "client" /\ e.op # "handshark"
  <2>1. net' \subseteq (net \ {d}) \cup (ClosingDatagrams(old) \cup {r})
        BY DEF HandsharkNew, Transmit, Without
  <2>2. \A e \in ClosingDatagrams(old) : e.to = "client" /\ e.op # "handshark"
        BY <1>1, ClosingParts
  <2>3. r.to = "client" /\ r.op # "handshark"  BY DEF ToClient
  <2> HIDE DEF r, old
  <2> QED  BY <2>1, <2>2, <2>3
<1> HIDE DEF old, n, a, r
<1>9. \A e \in net' : e.to = "server" \/ e.op = "handshark" => e \in net /\ e # d
      BY <1>8
<1>10. Onward /\ SamePorts /\ SameAnswers
       BY SameClient DEF Onward, SamePorts, SameAnswers
<1>11. OneOwner'  BY <1>10, PortsStay
<1>12. FromOwner' /\ TalksToOwn'
       BY <1>9, <1>10, SendersStay DEF FromOwner, TalksToOwn
<1>13. OneHandshark'  BY <1>9 DEF PromiseInv, OneHandshark
<1>14. OnceAsked'
  <2>1. ASSUME NEW e \in net', e.op = "handshark", NEW s \in DOMAIN conns'
        PROVE  e.from \notin conns'[s].by
    <3>1. e \in net /\ e # d /\ e.from # a
      <4>1. e \in net /\ e # d  BY <1>9, <2>1
      <4> QED  BY <2>1, <4>1 DEF PromiseInv, OneHandshark, a
    <3> QED  BY <1>4, <1>5, <1>6, <2>1, <3>1 DEF PromiseInv, OnceAsked
  <2> QED  BY <2>1 DEF OnceAsked
<1>15. AcceptedFor'
  <2>1. ASSUME NEW s \in DOMAIN conns'
        PROVE  \E b \in Attempt :
                 conns'[s].by = {b} /\ Asked(b)' /\ client'[b].ep = conns'[s].ep
    <3>1. CASE s = n  BY <1>2, <1>5, <1>10, <3>1 DEF Onward
    <3>2. CASE s \in DOMAIN conns
      <4>1. PICK b \in Attempt :
              conns[s].by = {b} /\ Asked(b) /\ client[b].ep = conns[s].ep
            BY <3>2 DEF PromiseInv, AcceptedFor
      <4> QED  BY <1>4, <1>10, <3>2, <4>1 DEF Onward
    <3> QED  BY <1>6, <3>1, <3>2
  <2> QED  BY <2>1 DEF AcceptedFor
<1>16. AcceptedOnce'
  <2>1. ASSUME NEW s \in DOMAIN conns', NEW t \in DOMAIN conns', conns'[s].by = conns'[t].by
        PROVE  s = t
    <3>1. CASE s \in DOMAIN conns /\ t \in DOMAIN conns
          BY <1>4, <2>1, <3>1 DEF PromiseInv, AcceptedOnce
    <3>2. CASE s = n /\ t \in DOMAIN conns
      <4>1. a \in conns[t].by  BY <1>4, <1>5, <2>1, <3>2
      <4> QED  BY <1>2, <3>2, <4>1
    <3>3. CASE s \in DOMAIN conns /\ t = n
      <4>1. a \in conns[s].by  BY <1>4, <1>5, <2>1, <3>3
      <4> QED  BY <1>2, <3>3, <4>1
    <3> QED  BY <1>6, <3>1, <3>2, <3>3
  <2> QED  BY <2>1 DEF AcceptedOnce
<1>17. AnsweredByOwn'
  <2>1. \A b \in Attempt :
          /\ Early(b) => client[b].srv = 0
          /\ client[b].srv # 0 => client[b].srv \in DOMAIN conns /\ conns[client[b].srv].by = {b}
        BY DEF PromiseInv, AnsweredByOwn
  <2> QED  BY <1>4, <1>6, <2>1 DEF AnsweredByOwn, Early
<1>18. PromiseInv'
       BY <1>7, <1>11, <1>12, <1>13, <1>14, <1>15, <1>16, <1>17 DEF PromiseInv
<1>19. \A p \in Pairs : p[1] \in Attempt /\ p[2] \in 1..MaxConns /\ p = <<p[1], p[2]>>
       BY DEF Pairs
<1>20. Accepted' = Accepted \cup {<<a, n>>}
  <2>1. <<a, n>> \in Pairs  BY <1>2, <1>7 DEF Pairs
  <2>2. ASSUME NEW p \in Pairs
        PROVE  p[2] \in DOMAIN conns' /\ p[1] \in conns'[p[2]].by
                 <=> (p[2] \in DOMAIN conns /\ p[1] \in conns[p[2]].by) \/ p = <<a, n>>
        BY <1>4, <1>5, <1>6, <1>19
  <2> QED  BY <2>1, <2>2 DEF Accepted
<1>21. ToServers' = ToServers
  <2>1. ASSUME NEW p \in Pairs
        PROVE  p[2] \in DOMAIN conns' /\ p[1] \in conns'[p[2]].heard
                 <=> p[2] \in DOMAIN conns /\ p[1] \in conns[p[2]].heard
        BY <1>4, <1>5, <1>6
  <2> QED  BY <2>1 DEF ToServers
<1>22. Connected' = Connected /\ ToClients' = ToClients  BY DEF Connected, ToClients
<1>23. \A p \in Accepted : p[1] # a /\ p[2] # n  BY <1>2, <1>6 DEF Accepted
<1>24. Promise!Accept(a, n)  BY <1>20, <1>21, <1>22, <1>23 DEF Promise!Accept
<1>25. Promise!Next  BY <1>2, <1>7, <1>24 DEF Promise!Next
<1> QED  BY <1>18, <1>25

\* Data reaches the connection that answered its sender.
LEMMA AcceptorReceiveImpl ==
  ASSUME SafeInv, PromiseInv, NEW d \in net, AcceptorReceive(d)
  PROVE  PromiseInv' /\ (Promise!Next \/ UNCHANGED Promise!vars)
<1> DEFINE s == connections_[d.ep]
           a == d.from
<1>1. /\ d.to = "server" /\ UNCHANGED client
      /\ TypeOK /\ DOMAIN conns = 1..Len(conns) /\ conns \in [1..Len(conns) -> ConnRecord]
      BY ConnsParts DEF SafeInv, AcceptorReceive
<1>2. a \in Attempt /\ client[a].ep = d.ep /\ d.ep \in Endpoint
  <2>1. a \in Attempt  BY <1>1, SenderIsClient
  <2>2. d.ep \in Endpoint  BY <1>1, DatagramParts DEF TypeOK
  <2> QED  BY <1>1, <2>1, <2>2 DEF PromiseInv, FromOwner
<1>3. SamePorts /\ SameAnswers /\ \A b \in Attempt : client'[b].heard = client[b].heard
      BY <1>1, SameClient
<1>4. CASE s = 0
  <2>1. UNCHANGED conns /\ net' \subseteq net
        BY <1>4, WithoutNet DEF AcceptorReceive, Find
  <2>2. SameConns /\ SameHeard  BY <1>3, <2>1 DEF SameConns, SameHeard
  <2> QED  BY <1>3, <2>1, <2>2, QuietStep
<1>5. CASE s # 0
  <2>1. s \in DOMAIN conns /\ conns[s].ep = d.ep
        BY <1>2, <1>5 DEF SafeInv, OpenedIsListed
  <2>2. CASE d.op = "disconnect"
    <3>1. conns' = [conns EXCEPT ![s].st = "closed", ![s].quiet = 0]
          BY <1>5, <2>2 DEF AcceptorReceive, Find
    <3>2. Transmit(Without(d),
            IF conns[s].st = "closed" THEN {} ELSE {ServerData(s), ServerBye(s)})
          BY <1>5, <2>2 DEF AcceptorReceive, Find
    <3>3. net' \subseteq net \cup {ServerData(s), ServerBye(s)}
      <4> DEFINE D == IF conns[s].st = "closed" THEN {} ELSE {ServerData(s), ServerBye(s)}
      <4>1. Transmit(Without(d), D) /\ D \subseteq {ServerData(s), ServerBye(s)}  BY <3>2
      <4> HIDE DEF D
      <4>2. net' \subseteq net \cup D  BY <4>1, TransmitNet, WithoutNet
      <4> QED  BY <4>1, <4>2
    <3> HIDE DEF s
    <3>4. SameConns /\ \A t \in DOMAIN conns : conns'[t].heard = conns[t].heard
          BY <1>1, <2>1, <3>1, ConnsParts DEF SameConns, ConnRecord
    <3>5. \A e \in net' : e \notin net => SentLate(e)  BY <2>1, <3>3, ServerSendsLate
    <3> QED  BY <1>3, <3>4, <3>5, QuietStep DEF SameHeard
  <2>3. CASE d.op = "data"
    <3> DEFINE h == IF Takes(d, conns[s].conv) THEN conns[s].heard \cup {a} ELSE conns[s].heard
               st == IF conns[s].st = "idle" THEN "opened" ELSE conns[s].st
    <3>1. /\ conns' = [conns EXCEPT ![s].st = st, ![s].quiet = 0, ![s].heard = h]
          /\ net' \subseteq net
          BY <1>5, <2>3, WithoutNet DEF AcceptorReceive, Find
    <3> HIDE DEF st, s
    <3>2. SameConns /\ conns'[s].heard = h
          /\ \A t \in DOMAIN conns : t # s => conns'[t].heard = conns[t].heard
      <4> HIDE DEF h
      <4> QED  BY <1>1, <2>1, <3>1, ConnsParts DEF SameConns, ConnRecord
    <3>3. PromiseInv'  BY <1>3, <3>1, <3>2, Preserved
    <3>4. CASE d.conv # conns[s].conv
      <4>1. SameHeard  BY <1>3, <3>2, <3>4 DEF SameHeard, Takes
      <4> QED  BY <1>3, <3>1, <3>2, <4>1, QuietStep
    <3>5. CASE d.conv = conns[s].conv
      <4>1. client[a].srv # 0  BY <1>1, <2>3 DEF PromiseInv, TalksToOwn
      <4>2. <<a, s>> \in Connected /\ s \in 1..MaxConns
            BY <1>2, <2>1, <4>1, AnsweredBy, EndpointNames
      <4>3. UNCHANGED <<Accepted, Connected, ToClients>>
        <5>1. \A p \in Pairs : p[1] \in Attempt  BY DEF Pairs
        <5>2. ToClients' = ToClients  BY <1>3, <5>1 DEF ToClients
        <5> QED  BY <1>3, <3>2, <5>2, PairsStay
      <4>4. ToServers' = ToServers \cup {<<a, s>>}
        <5>1. <<a, s>> \in Pairs  BY <4>2 DEF Connected
        <5>2. \A p \in Pairs : p = <<p[1], p[2]>>  BY DEF Pairs
        <5>3. conns'[s].heard = conns[s].heard \cup {a}  BY <3>2, <3>5 DEF Takes
        <5> HIDE DEF a
        <5>4. ASSUME NEW p \in Pairs
              PROVE  p[2] \in DOMAIN conns' /\ p[1] \in conns'[p[2]].heard
                       <=> (p[2] \in DOMAIN conns /\ p[1] \in conns[p[2]].heard)
                             \/ p = <<a, s>>
              BY <2>1, <3>2, <5>2, <5>3 DEF SameConns
        <5> QED  BY <5>1, <5>4 DEF ToServers
      <4>5. Promise!DataToServer(a, s)  BY <4>2, <4>3, <4>4 DEF Promise!DataToServer
      <4>6. Promise!Next  BY <1>2, <4>2, <4>5 DEF Promise!Next
      <4> QED  BY <3>3, <4>6
    <3> QED  BY <3>4, <3>5
  <2> QED  BY <1>5, <2>2, <2>3 DEF AcceptorReceive, Find
<1> QED  BY <1>4, <1>5

LEMMA ServerCloseImpl ==
  ASSUME SafeInv, PromiseInv, NEW s \in DOMAIN conns, ServerClose(s)
  PROVE  PromiseInv' /\ UNCHANGED Promise!vars
<1>1. SameConns /\ \A t \in DOMAIN conns : conns'[t].heard = conns[t].heard
      BY ClosedParts DEF SafeInv, ServerClose, SameConns
<1>2. SamePorts /\ SameAnswers /\ SameHeard
      BY <1>1, SameClient DEF ServerClose, SameHeard
<1>3. \A d \in net' : d \notin net => SentLate(d)
  <2>1. net' \subseteq net \cup ClosingDatagrams(s)  BY TransmitNet DEF ServerClose
  <2>2. \A d \in ClosingDatagrams(s) : SentLate(d)
        BY ServerSendsLate DEF ClosingDatagrams
  <2> QED  BY <2>1, <2>2
<1> QED  BY <1>1, <1>2, <1>3, QuietStep

LEMMA DoUpdateImpl ==
  ASSUME SafeInv, PromiseInv, DoUpdate
  PROVE  PromiseInv' /\ UNCHANGED Promise!vars
<1>1. conns' = [s \in DOMAIN conns |->
        IF s \in Gone /\ conns[s].st = "opened" THEN [conns[s] EXCEPT !.st = "closed"]
        ELSE conns[s]]
      BY DEF DoUpdate
<1>2. ASSUME NEW s \in DOMAIN conns
      PROVE  /\ conns'[s] \in ConnRecord
             /\ conns'[s].ep = conns[s].ep /\ conns'[s].by = conns[s].by
             /\ conns'[s].heard = conns[s].heard
  <2>1. conns[s] \in ConnRecord  BY ConnParts DEF SafeInv
  <2>2. conns'[s] = [conns[s] EXCEPT !.st = "closed"] \/ conns'[s] = conns[s]  BY <1>1
  <2> QED  BY <2>1, <2>2 DEF ConnRecord
<1>3. Len(conns') = Len(conns) /\ DOMAIN conns' = DOMAIN conns
  <2>1. conns' \in [1..Len(conns) -> ConnRecord]
        BY <1>1, <1>2, ConnsParts DEF SafeInv
  <2> QED  BY <2>1, ConnsParts, SeqOfConns DEF SafeInv
<1>4. SameConns  BY <1>2, <1>3 DEF SameConns
<1>5. SamePorts /\ SameAnswers /\ SameHeard
      BY <1>2, SameClient DEF DoUpdate, SameHeard
<1>6. \A d \in net' : d \notin net => SentLate(d)
  <2> DEFINE D == {ServerData(s) : s \in Listed}
                    \cup {ServerBye(s) : s \in {t \in Gone : conns[t].st = "opened"}}
  <2>1. Listed \subseteq DOMAIN conns /\ Gone \subseteq Listed
        BY DEF Listed, Gone, SafeInv, OpenedIsListed
  <2>2. ASSUME NEW e \in D PROVE SentLate(e)
    <3>1. PICK s \in DOMAIN conns : e \in {ServerData(s), ServerBye(s)}  BY <2>1
    <3> QED  BY <3>1, ServerSendsLate
  <2>3. net' \subseteq net \cup D  BY TransmitNet DEF DoUpdate
  <2> HIDE DEF D
  <2> QED  BY <2>2, <2>3
<1> QED  BY <1>4, <1>5, <1>6, QuietStep

LEMMA TickImpl ==
  ASSUME SafeInv, PromiseInv, Tick
  PROVE  PromiseInv' /\ UNCHANGED Promise!vars
<1>1. ASSUME NEW a \in Attempt
      PROVE  /\ client'[a].st = client[a].st /\ client'[a].ep = client[a].ep
             /\ client'[a].srv = client[a].srv /\ client'[a].heard = client[a].heard
  <2>1. client[a] \in ClientRecord  BY ClientParts
  <2>2. client'[a] = [client[a] EXCEPT !.quiet = @ + 1] \/ client'[a] = client[a]
        BY DEF Tick
  <2> QED  BY <2>1, <2>2 DEF ClientRecord
<1>2. ASSUME NEW s \in DOMAIN conns
      PROVE  /\ conns'[s].ep = conns[s].ep /\ conns'[s].by = conns[s].by
             /\ conns'[s].heard = conns[s].heard
  <2>1. conns[s] \in ConnRecord  BY ConnParts DEF SafeInv
  <2>2. conns'[s] = [conns[s] EXCEPT !.quiet = @ + 1] \/ conns'[s] = conns[s]
        BY DEF Tick
  <2> QED  BY <2>1, <2>2 DEF ConnRecord
<1>3. Len(conns') = Len(conns) /\ DOMAIN conns' = DOMAIN conns
  <2>1. TypeOK'  BY TickSafe DEF SafeInv
  <2>2. DOMAIN conns' = DOMAIN conns  BY DEF Tick
  <2>3. DOMAIN conns = 1..Len(conns) /\ Len(conns) \in Nat  BY ConnsParts DEF SafeInv
  <2>4. conns' \in [1..Len(conns) -> ConnRecord]  BY <2>1, <2>2, <2>3 DEF TypeOK
  <2> QED  BY <2>2, <2>3, <2>4, SeqOfConns
<1>4. SameConns /\ SamePorts /\ SameAnswers /\ SameHeard
      BY <1>1, <1>2, <1>3 DEF SameConns, SamePorts, SameAnswers, SameHeard, Asked, Early
<1>5. net' = net  BY DEF Tick
<1> QED  BY <1>4, <1>5, QuietStep

\* Nothing but the network changes, and nothing is sent.
LEMMA LoseImpl ==
  ASSUME SafeInv, PromiseInv, net' \subseteq net, UNCHANGED <<client, conns>>
  PROVE  PromiseInv' /\ UNCHANGED Promise!vars
<1>1. SameConns /\ SamePorts /\ SameAnswers /\ SameHeard
      BY SameClient DEF SameConns, SameHeard
<1> QED  BY <1>1, QuietStep

-----------------------------------------------------------------------------
(* The invariant and the refinement.                                       *)

LEMMA InitPromise == Init => PromiseInv /\ Promise!Init
<1> SUFFICES ASSUME Init PROVE PromiseInv /\ Promise!Init  OBVIOUS
<1>1. /\ \A a \in Attempt : /\ client[a].st = "new" /\ client[a].ep = 0
                            /\ client[a].srv = 0 /\ client[a].heard = {}
      /\ net = {} /\ conns = <<>> /\ Len(conns) = 0 /\ DOMAIN conns = {}
      BY DEF Init
<1>2. OneOwner /\ AnsweredByOwn  BY <1>1 DEF OneOwner, AnsweredByOwn
<1>3. FromOwner /\ TalksToOwn /\ OneHandshark /\ OnceAsked
      BY <1>1 DEF FromOwner, TalksToOwn, OneHandshark, OnceAsked
<1>4. AcceptedFor /\ AcceptedOnce /\ Len(conns) <= MaxConns
      BY <1>1, SessionAssumption DEF AcceptedFor, AcceptedOnce
<1>5. \A p \in Pairs : p[1] \in Attempt /\ p[2] \in 1..MaxConns  BY DEF Pairs
<1>6. Accepted = {} /\ ToServers = {} /\ ToClients = {}
      BY <1>1, <1>5 DEF Accepted, ToServers, ToClients
<1>7. Connected = {}  BY <1>1, <1>5, SessionAssumption DEF Connected
<1> QED  BY <1>2, <1>3, <1>4, <1>6, <1>7 DEF PromiseInv, Promise!Init

LEMMA NextPromise ==
  ASSUME ~Reuse, ~Duplicates
  PROVE  SafeInv /\ PromiseInv /\ [Next]_vars
           => PromiseInv' /\ [Promise!Next]_(Promise!vars)
<1> DEFINE Goal == PromiseInv' /\ (Promise!Next \/ UNCHANGED Promise!vars)
<1> SUFFICES ASSUME SafeInv, PromiseInv, [Next]_vars PROVE Goal  OBVIOUS
<1>1. CASE UNCHANGED vars
  <2>1. net' \subseteq net /\ UNCHANGED <<client, conns>>  BY <1>1 DEF vars
  <2> QED  BY <2>1, LoseImpl
<1>2. ASSUME NEW a \in Attempt, NEW e \in Endpoint, StartConnect(a, e) PROVE Goal
      BY <1>2, StartConnectImpl
<1>3. ASSUME NEW a \in Attempt,
             SendHandshark(a) \/ Abandon(a) \/ ClientClose(a) \/ ClientTimer(a)
      PROVE  Goal
      BY <1>3, SendHandsharkImpl, AbandonImpl, ClientCloseImpl, ClientTimerImpl
<1>4. ASSUME NEW a \in Attempt, NEW d \in net, FirstDatagram(a, d) \/ ClientReceive(a, d)
      PROVE  Goal
      BY <1>4, FirstDatagramImpl, ClientReceiveImpl
<1>5. ASSUME NEW d \in net, Handshark(d) PROVE Goal
      BY <1>5, HandsharkAgainNever, HandsharkNewImpl DEF Handshark
<1>6. ASSUME NEW d \in net, AcceptorReceive(d) PROVE Goal
      BY <1>6, AcceptorReceiveImpl
<1>7. ASSUME NEW d \in net, Lose(d) PROVE Goal
  <2>1. net' \subseteq net /\ UNCHANGED <<client, conns>>  BY <1>7 DEF Lose
  <2> QED  BY <2>1, LoseImpl
<1>8. ASSUME NEW s \in DOMAIN conns, ServerClose(s) PROVE Goal
      BY <1>8, ServerCloseImpl
<1>9. CASE DoUpdate  BY <1>9, DoUpdateImpl
<1>10. CASE Tick  BY <1>10, TickImpl
<1> HIDE DEF Goal
<1> QED  BY <1>1, <1>2, <1>3, <1>4, <1>5, <1>6, <1>7, <1>8, <1>9, <1>10 DEF Next

\* Session implements SessionPromise: with fresh ports and without repeated datagrams,
\* connects and accepts match one to one and data reaches only the connection it was
\* sent to, though handshark, on_receive and async_connect know endpoints only and any
\* datagram may be lost, late or out of order.
THEOREM KeepsPromise ==
  ASSUME ~Reuse, ~Duplicates
  PROVE  Spec => PromiseSpec
<1>1. Init => PromiseInv /\ Promise!Init  BY InitPromise
<1>2. SafeInv /\ PromiseInv /\ [Next]_vars
        => PromiseInv' /\ [Promise!Next]_(Promise!vars)
      BY NextPromise
<1> QED  BY <1>1, <1>2, SafeInvariant, PTL DEF Spec, PromiseSpec, Promise!Spec
=============================================================================
