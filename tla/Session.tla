------------------------------ MODULE Session ------------------------------
(***************************************************************************)
(* Sessions of include/kcp.hpp from the handshake on: one acceptor with    *)
(* its table of connections, and the coroutines async_connect of one       *)
(* client thread.  The server's application is the loop of README.md: it   *)
(* accepts again while complete is still running, so that a handshake      *)
(* always finds an accept to complete.                                     *)
(*                                                                         *)
(* The connections themselves are seen through their state, their conv and *)
(* how long they heard nothing (module Connection has the rest), and their *)
(* KCP streams through the datagrams that carry their conv (module Kcp).   *)
(*                                                                         *)
(* The network loses and reorders datagrams and, with Duplicates, repeats  *)
(* them.  An endpoint is the address and port of a client's socket.  With  *)
(* Reuse the system gives the port of a closed socket to a later one.      *)
(***************************************************************************)
EXTENDS Naturals, Sequences, FiniteSets

CONSTANTS
  MaxAttempt,   \* bound: calls of async_connect
  MaxEndpoint,  \* bound: ports of the clients' machine
  MaxConns,     \* bound: connections the acceptor makes
  MaxNet,       \* bound: datagrams in the network
  Timeout,      \* timeout_duration, in clock ticks
  Reuse,        \* whether a port can belong to several sockets, one after another
  Duplicates    \* whether a datagram may be delivered again

ASSUME SessionAssumption ==
  /\ MaxAttempt \in Nat /\ MaxEndpoint \in Nat
  /\ MaxConns \in Nat /\ MaxNet \in Nat
  /\ Timeout \in Nat
  /\ Reuse \in BOOLEAN /\ Duplicates \in BOOLEAN

Attempt  == 1..MaxAttempt
Endpoint == 1..MaxEndpoint

VARIABLES
  conv,          \* the static conv of async_connect
  client,        \* the coroutines async_connect and the connections they return
  conns,         \* every connection the acceptor made, in the order it made them
  connections_,  \* the acceptor's table: an index of conns, or 0, per endpoint
  net            \* datagrams on their way

vars == <<conv, client, conns, connections_, net>>

Init ==
  /\ conv = 0
  /\ client = [a \in Attempt |->
       [st |-> "new", ep |-> 0, conv |-> 0, srv |-> 0, quiet |-> 0, heard |-> {}]]
  /\ conns = <<>>
  /\ connections_ = [e \in Endpoint |-> 0]
  /\ net = {}
-----------------------------------------------------------------------------
(* Datagrams.  from names the sender, for the properties: no code reads it. *)

ToServer(op, e, k, a) == [to |-> "server", op |-> op, ep |-> e, conv |-> k, from |-> a]
ToClient(op, e, k, s) == [to |-> "client", op |-> op, ep |-> e, conv |-> k, from |-> s]

ClientData(a) == ToServer("data", client[a].ep, client[a].conv, a)
ServerData(s) == ToClient("data", conns[s].ep, conns[s].conv, s)

\* Mutant: ikcp_input does not compare the conv.
TakesAny(d, k) == TRUE

\* ikcp_input of a connection with conv k takes the data of d, and refuses other convs.
Takes(d, k) == d.conv = k

\* A disconnect carries no conv.
ClientBye(a) == ToServer("disconnect", client[a].ep, 0, a)
ServerBye(s) == ToClient("disconnect", conns[s].ep, 0, s)

\* What is left in the network when d was delivered.
Without(d) == IF Duplicates THEN net ELSE net \ {d}

\* The datagrams of D are sent, and any of them may be lost.
Transmit(base, D) ==
  \E E \in SUBSET D : /\ net' = base \cup E
                      /\ Cardinality(net') <= MaxNet

Lose(d) ==
  /\ net' = net \ {d}
  /\ UNCHANGED <<conv, client, conns, connections_>>
-----------------------------------------------------------------------------
(* async_connect and the connection it returns.                            *)

HasSocket(a) == client[a].st \in {"connecting", "waiting", "opened"}

serverVars == <<conns, connections_>>

\* async_connect up to its first await: the conv of this call is taken, the socket gets
\* port e.
StartConnect(a, e) ==
  /\ client[a].st = "new"
  /\ \A b \in Attempt : b < a => client[b].st # "new"
  /\ \A b \in Attempt : client[b].ep = e => Reuse /\ ~HasSocket(b)
  /\ conv' = conv + 1
  /\ client' = [client EXCEPT ![a].st = "connecting", ![a].ep = e]
  /\ UNCHANGED <<net, serverVars>>

\* The socket is connected and the handshake is sent, with the conv of the moment.
SendHandshark(a) ==
  /\ client[a].st = "connecting"
  /\ client' = [client EXCEPT ![a].st = "waiting"]
  /\ Transmit(net, {ToServer("handshark", client[a].ep, conv, a)})
  /\ UNCHANGED <<conv, serverVars>>

\* An error of the socket, or the timeout that the caller runs beside async_connect,
\* ends the coroutine and closes its socket.
Abandon(a) ==
  /\ client[a].st \in {"connecting", "waiting"}
  /\ client' = [client EXCEPT ![a].st = "failed"]
  /\ UNCHANGED <<conv, net, serverVars>>

\* The first datagram a socket receives must be a response; its conv becomes the static
\* conv and the connection's.
FirstDatagram(a, d) ==
  /\ client[a].st = "waiting"
  /\ d \in net /\ d.to = "client" /\ d.ep = client[a].ep
  /\ net' = Without(d)
  /\ IF d.op = "response"
     THEN /\ client' = [client EXCEPT ![a].st = "opened", ![a].conv = d.conv,
                                      ![a].srv = d.from]
          /\ conv' = d.conv
     ELSE /\ client' = [client EXCEPT ![a].st = "failed"]
          /\ UNCHANGED conv
  /\ UNCHANGED serverVars

\* on_receive of an opened client connection.  A response is shorter than a KCP header
\* and ignored.
ClientReceive(a, d) ==
  /\ client[a].st = "opened"
  /\ d \in net /\ d.to = "client" /\ d.ep = client[a].ep
  /\ \/ /\ d.op = "response"
        /\ net' = Without(d)
        /\ UNCHANGED client
     \/ /\ d.op = "data"
        /\ net' = Without(d)
        /\ client' = [client EXCEPT
             ![a].quiet = 0,
             ![a].heard = IF Takes(d, client[a].conv) THEN @ \cup {d.from} ELSE @]
     \/ /\ d.op = "disconnect"
        /\ client' = [client EXCEPT ![a].quiet = 0, ![a].st = "closed"]
        /\ Transmit(Without(d), {ClientData(a), ClientBye(a)})
  /\ UNCHANGED <<conv, serverVars>>

\* The application closes the connection.
ClientClose(a) ==
  /\ client[a].st = "opened"
  /\ client' = [client EXCEPT ![a].st = "closed"]
  /\ Transmit(net, {ClientData(a), ClientBye(a)})
  /\ UNCHANGED <<conv, serverVars>>

\* Mutant: a client never finds out that it heard nothing.
ClientTimerDeaf(a) ==
  /\ client[a].st = "opened"
  /\ Transmit(net, {ClientData(a)}) /\ UNCHANGED client
  /\ UNCHANGED <<conv, serverVars>>

\* The timer of a client connection: update may send, and silence closes.
ClientTimer(a) ==
  /\ client[a].st = "opened"
  /\ IF client[a].quiet > Timeout
     THEN /\ client' = [client EXCEPT ![a].st = "closed"]
          /\ Transmit(net, {ClientData(a), ClientBye(a)})
     ELSE Transmit(net, {ClientData(a)}) /\ UNCHANGED client
  /\ UNCHANGED <<conv, serverVars>>
-----------------------------------------------------------------------------
(* The acceptor.                                                           *)

IsIdle(s) == s \in DOMAIN conns /\ conns[s].st = "idle"

\* handshark for an endpoint whose connection is idle: it is accepted once more.
HandsharkAgain(d, old) ==
  /\ IsIdle(old)
  /\ conns' = [conns EXCEPT ![old].by = @ \cup {d.from}]
  /\ UNCHANGED connections_
  /\ Transmit(Without(d), {ToClient("response", d.ep, conns[old].conv, old)})

\* The connections after close was called on s.
Closed(s) ==
  IF s \in DOMAIN conns /\ conns[s].st = "opened" THEN [conns EXCEPT ![s].st = "closed"] ELSE conns

\* What close on s sends: what ikcp_flush sends, and a disconnect.
ClosingDatagrams(s) ==
  IF s \in DOMAIN conns /\ conns[s].st = "opened" THEN {ServerData(s), ServerBye(s)} ELSE {}

\* Mutant: the conv of the handshake is not copied.
NewConnectionNoConv(d) ==
  [ep |-> d.ep, conv |-> 0, by |-> {d.from}, st |-> "idle", quiet |-> 0, heard |-> {}]

NewConnection(d) ==
  [ep |-> d.ep, conv |-> d.conv, by |-> {d.from}, st |-> "idle", quiet |-> 0, heard |-> {}]

\* Mutant: the old connection is erased without being closed.
HandsharkNewNoClose(d, old) ==
  /\ ~IsIdle(old)
  /\ Len(conns) < MaxConns
  /\ conns' = Append(conns, NewConnection(d))
  /\ connections_' = [connections_ EXCEPT ![d.ep] = Len(conns) + 1]
  /\ Transmit(Without(d), {ToClient("response", d.ep, d.conv, Len(conns) + 1)})

\* handshark otherwise: an old connection is closed and erased, a new one is made.
HandsharkNew(d, old) ==
  /\ ~IsIdle(old)
  /\ Len(conns) < MaxConns
  /\ conns' = Append(Closed(old), NewConnection(d))
  /\ connections_' = [connections_ EXCEPT ![d.ep] = Len(conns) + 1]
  /\ Transmit(Without(d), ClosingDatagrams(old)
                            \cup {ToClient("response", d.ep, d.conv, Len(conns) + 1)})

\* do_receive of a handshake.  co_spawn runs handshark at once, in the same handler.
Handshark(d) ==
  /\ d \in net /\ d.op = "handshark"
  /\ HandsharkAgain(d, connections_[d.ep]) \/ HandsharkNew(d, connections_[d.ep])
  /\ UNCHANGED <<conv, client>>

\* Mutant: the connection is looked up by conv and not by endpoint.
FindByConv(d) ==
  IF \E e \in Endpoint : connections_[e] # 0 /\ conns[connections_[e]].conv = d.conv
  THEN LET e == CHOOSE x \in Endpoint :
                  connections_[x] # 0 /\ conns[connections_[x]].conv = d.conv
       IN connections_[e]
  ELSE 0

\* connections_.find(sender_endpoint)
Find(d) == connections_[d.ep]

\* do_receive of anything else: on_receive of the connection found.
AcceptorReceive(d) ==
  LET s == Find(d)
  IN /\ d \in net /\ d.to = "server" /\ d.op # "handshark"
     /\ \/ /\ s = 0
           /\ net' = Without(d)
           /\ UNCHANGED conns
        \/ /\ s # 0 /\ d.op = "data"
           /\ net' = Without(d)
           /\ conns' = [conns EXCEPT
                ![s].st = IF @ = "idle" THEN "opened" ELSE @,
                ![s].quiet = 0,
                ![s].heard = IF Takes(d, conns[s].conv) THEN @ \cup {d.from} ELSE @]
        \/ /\ s # 0 /\ d.op = "disconnect"
           /\ conns' = [conns EXCEPT ![s].st = "closed", ![s].quiet = 0]
           /\ Transmit(Without(d),
                IF conns[s].st = "closed" THEN {} ELSE {ServerData(s), ServerBye(s)})
     /\ UNCHANGED <<conv, client, connections_>>

\* The application closes a connection it accepted.
ServerClose(s) ==
  /\ conns[s].st = "opened"
  /\ conns' = Closed(s)
  /\ Transmit(net, ClosingDatagrams(s))
  /\ UNCHANGED <<conv, client, connections_>>

Listed == {connections_[e] : e \in Endpoint} \ {0}

\* Mutant: only a connection that is opened times out.
GoneOpened ==
  {s \in Listed : conns[s].st = "closed" \/ (conns[s].st = "opened" /\ conns[s].quiet > Timeout)}

\* The connections a round of do_update erases.
Gone == {s \in Listed : conns[s].st = "closed" \/ conns[s].quiet > Timeout}

\* A round of do_update: update of every connection may send, and those that are closed
\* or heard nothing for too long are closed and erased.
DoUpdate ==
  /\ conns' = [s \in DOMAIN conns |->
       IF s \in Gone /\ conns[s].st = "opened" THEN [conns[s] EXCEPT !.st = "closed"]
       ELSE conns[s]]
  /\ connections_' = [e \in Endpoint |->
       IF connections_[e] \in Gone THEN 0 ELSE connections_[e]]
  /\ Transmit(net, {ServerData(s) : s \in Listed}
                     \cup {ServerBye(s) : s \in {t \in Gone : conns[t].st = "opened"}})
  /\ UNCHANGED <<conv, client>>

\* The clock.  Beyond Timeout the connections count no further.
Tick ==
  /\ client' = [a \in Attempt |->
       IF client[a].st = "opened" /\ client[a].quiet <= Timeout
       THEN [client[a] EXCEPT !.quiet = @ + 1] ELSE client[a]]
  /\ conns' = [s \in DOMAIN conns |->
       IF s \in Listed /\ conns[s].quiet <= Timeout
       THEN [conns[s] EXCEPT !.quiet = @ + 1] ELSE conns[s]]
  /\ UNCHANGED <<conv, connections_, net>>
-----------------------------------------------------------------------------
Next ==
  \/ \E a \in Attempt :
       \/ \E e \in Endpoint : StartConnect(a, e)
       \/ SendHandshark(a) \/ Abandon(a)
       \/ \E d \in net : FirstDatagram(a, d) \/ ClientReceive(a, d)
       \/ ClientClose(a) \/ ClientTimer(a)
  \/ \E d \in net : Handshark(d) \/ AcceptorReceive(d) \/ Lose(d)
  \/ \E s \in DOMAIN conns : ServerClose(s)
  \/ DoUpdate
  \/ Tick

Spec == Init /\ [][Next]_vars

\* The timers of both sides run again and again and the clock advances.  Nothing is
\* assumed of the network or of the applications.
Fairness ==
  /\ WF_vars(Tick)
  /\ WF_vars(DoUpdate)
  /\ \A a \in Attempt : WF_vars(ClientTimer(a))

FairSpec == Spec /\ Fairness
-----------------------------------------------------------------------------
(* Correctness.                                                            *)

ClientState == {"new", "connecting", "waiting", "opened", "closed", "failed"}

ClientRecord ==
  [st : ClientState, ep : 0..MaxEndpoint, conv : Nat, srv : Nat,
   quiet : 0..(Timeout + 1), heard : SUBSET Nat]

ConnRecord ==
  [ep : Endpoint, conv : Nat \ {0}, by : SUBSET Attempt, st : {"idle", "opened", "closed"},
   quiet : 0..(Timeout + 1), heard : SUBSET Nat]

Datagram ==
  [to : {"server"}, op : {"handshark", "data", "disconnect"}, ep : Endpoint, conv : Nat,
   from : Attempt]
  \cup
  [to : {"client"}, op : {"response", "data", "disconnect"}, ep : Endpoint, conv : Nat,
   from : Nat \ {0}]

\* The type invariant.
TypeOK ==
  /\ conv \in Nat
  /\ client \in [Attempt -> ClientRecord]
  /\ conns \in Seq(ConnRecord)
  /\ connections_ \in [Endpoint -> 0..Len(conns)]
  /\ net \in SUBSET Datagram

\* However often the handshakes of a port's owners are repeated, an entry of the table
\* is a connection of that endpoint, and a connection that is opened is in the table:
\* only there do do_update's rounds send its data and time it out.
OpenedIsListed ==
  /\ \A e \in Endpoint :
       connections_[e] # 0 => /\ connections_[e] \in DOMAIN conns
                              /\ conns[connections_[e]].ep = e
  /\ \A s \in DOMAIN conns : conns[s].st = "opened" => connections_[conns[s].ep] = s

\* A client connection uses the conv of the server connection that answered its
\* handshake, though overlapping connects share one static conv, and each response
\* overwrites it.
ConvAgrees ==
  \A a \in Attempt :
    client[a].st = "opened" =>
      /\ client[a].srv \in DOMAIN conns
      /\ conns[client[a].srv].conv = client[a].conv
      /\ conns[client[a].srv].ep = client[a].ep

\* The data of client a may enter the stream of connection s.
Matches(a, s) ==
  /\ client[a].st \in {"opened", "closed"}
  /\ client[a].ep = conns[s].ep /\ client[a].conv = conns[s].conv

\* The endpoint alone finds the connection of a datagram, and convs repeat.  Even so, a
\* stream takes data only from a connection of its own port and conv, an accept was
\* asked for from the connection's port, and a client has the conv that answered it.
StreamsAgree ==
  /\ ConvAgrees
  /\ \A s \in DOMAIN conns :
       /\ \A a \in conns[s].heard : a \in Attempt /\ Matches(a, s)
       /\ \A a \in conns[s].by : client[a].st # "new" /\ client[a].ep = conns[s].ep
  /\ \A a \in Attempt : \A s \in client[a].heard : s \in DOMAIN conns /\ Matches(a, s)

\* Nothing is left of the clients of port e: no socket, and no datagram to the acceptor.
Abandoned(e) ==
  /\ \A a \in Attempt : ~(client[a].ep = e /\ HasSocket(a))
  /\ \A d \in net : ~(d.to = "server" /\ d.ep = e)

\* What the acceptor sends and does by itself never counts as a sign of life: once the
\* clients of a port are gone their entry only grows older until it is erased, and
\* nothing but a new socket of that port brings anything back.
SilenceGrows ==
  [][\A e \in Endpoint : Abandoned(e) =>
       /\ Abandoned(e)' \/ \E a \in Attempt : client'[a].ep = e /\ HasSocket(a)'
       /\ \/ connections_'[e] = 0
          \/ /\ connections_'[e] = connections_[e]
             /\ conns'[connections_[e]].quiet >= conns[connections_[e]].quiet
    ]_vars

\* Client a is connected, but the acceptor has no entry for its port, and nothing on its
\* way could reach the client or make an entry.
Forgotten(a) ==
  /\ client[a].st = "opened"
  /\ connections_[client[a].ep] = 0
  /\ \A d \in net : d.ep = client[a].ep => d.to = "server" /\ d.op # "handshark"

\* The data that a client goes on sending to an acceptor without its entry brings
\* nothing back: no answer, and no other socket of its port, ends its silence.
SilenceStays ==
  [][\A a \in Attempt : Forgotten(a) =>
       /\ Forgotten(a)' \/ client'[a].st = "closed"
       /\ client'[a].ep = client[a].ep
       /\ client'[a].quiet >= client[a].quiet
    ]_vars

\* The pairs of a client and a connection that the promise speaks of.
Pairs == Attempt \X (1..MaxConns)

Accepted  == {p \in Pairs : p[2] \in DOMAIN conns /\ p[1] \in conns[p[2]].by}
Connected == {p \in Pairs : client[p[1]].srv = p[2]}
ToServers == {p \in Pairs : p[2] \in DOMAIN conns /\ p[1] \in conns[p[2]].heard}
ToClients == {p \in Pairs : p[2] \in client[p[1]].heard}

Promise == INSTANCE SessionPromise WITH
  Client    <- Attempt,
  Server    <- 1..MaxConns,
  accepted  <- Accepted,
  connected <- Connected,
  toServer  <- ToServers,
  toClient  <- ToClients

\* With fresh ports and no repeated datagrams, connects and accepts match one to one
\* and data reaches only the connection it was sent to.
PromiseSpec == Promise!Spec

\* Whatever the acceptor keeps for a client that failed, closed or was never there
\* again goes away: the table does not fill with half open connections.
AbandonedIsReleased ==
  \A e \in Endpoint :
    []<>(connections_[e] = 0 \/ \E a \in Attempt : client[a].ep = e /\ HasSocket(a))

\* The client is opened, and its server connection is closed, or was erased from the table:
\* an idle one is erased without being closed.
Orphan(a) ==
  /\ client[a].st = "opened"
  /\ \/ conns[client[a].srv].st = "closed"
     \/ connections_[client[a].ep] # client[a].srv

\* A client whose server connection is closed or gone ends too, even when the disconnect was
\* lost, or when there was none.
OrphanEnds ==
  \A a \in Attempt : Orphan(a) ~> client[a].st = "closed"
=============================================================================
