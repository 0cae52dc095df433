---------------------------- MODULE TunnelProofs ----------------------------
(***************************************************************************)
(* Proofs about Tunnel, for every window, every threshold of the send      *)
(* queue and any number of units.                                          *)
(*                                                                         *)
(* NothingDropped is not inductive: a coroutine that ended holds a unit or *)
(* none, and which it is depends on how it ended.  Flow counts the units   *)
(* by where kcp2tcp is and allows either once it stopped; Stopped says     *)
(* that it does not stop while both sockets of its node are open.  SendQ   *)
(* bounds the send queue by where tcp2kcp is, and the two bound what the   *)
(* tunnel holds.                                                           *)
(*                                                                         *)
(* EndingInv says what a closed KCP connection or TCP socket leaves of the *)
(* coroutines of its node, CarriedWithin compares two ends of the way.     *)
(***************************************************************************)
EXTENDS Tunnel, TLAPS

\* Before the connect nothing moved and no coroutine runs.
Fresh ==
  \A k \in Node : kcp[k] = "none" =>
    \A n \in Node : /\ kcp[n] = "none"
                    /\ taken[n] = 0 /\ given[n] = 0 /\ sndq[n] = 0 /\ rcvq[n] = 0
                    /\ tcp2kcp[n] = "off" /\ kcp2tcp[n] = "off"

\* Without a TCP socket no coroutine of the node runs.
NeedsTcp ==
  \A n \in Node : tcp[n] = "none" => tcp2kcp[n] = "off" /\ kcp2tcp[n] = "off"

\* kcp2tcp stops only when a socket of its node was closed.
Stopped ==
  \A n \in Node : kcp2tcp[n] \in {"aborted", "done"} =>
    kcp[n] = "closed" \/ tcp[n] = "closed"

\* A write that waits is one unit above the threshold at most.
SendQ ==
  \A n \in Node :
    /\ sndq[n] <= idle_send_packet_count + 1
    /\ tcp2kcp[n] \in {"off", "read", "written"} => sndq[n] <= idle_send_packet_count

\* Where the units are that tcp2kcp of n took.
InTunnel(n) == given[Peer(n)] + sndq[n] + rcvq[Peer(n)]

Flow ==
  \A n \in Node : Hears(n) /\ Hears(Peer(n)) =>
    /\ kcp2tcp[Peer(n)] \in {"off", "read"} => taken[n] = InTunnel(n)
    /\ kcp2tcp[Peer(n)] = "write" => taken[n] = InTunnel(n) + 1
    /\ taken[n] = InTunnel(n) \/ taken[n] = InTunnel(n) + 1

\* The inductive invariant, next to TypeOK.
TunnelInv == Fresh /\ NeedsTcp /\ Stopped /\ SendQ /\ Flow

-----------------------------------------------------------------------------
(* The nodes, and the steps at which something stops.                      *)

LEMMA Peers ==
  /\ Peer("entry") = "exit" /\ Peer("exit") = "entry"
  /\ \A n \in Node : Peer(n) \in Node /\ Peer(n) # n /\ Peer(Peer(n)) = n
  /\ \A n, k \in Node : k = n \/ k = Peer(n)
BY DEF Node, Peer

\* The fields of a node.
LEMMA NodeParts ==
  ASSUME TypeOK, NEW n \in Node
  PROVE  /\ taken[n] \in Nat /\ given[n] \in Nat /\ sndq[n] \in Nat /\ rcvq[n] \in 0..RcvWnd
         /\ rcvq[n] \in Nat /\ rcvq[n] <= RcvWnd
         /\ idle_send_packet_count \in Nat /\ RcvWnd \in Nat
BY TunnelAssumption DEF TypeOK

\* Coroutines that end do it together with the TCP socket of their node.
LEMMA EndsParts ==
  ASSUME TypeOK, NEW n \in Node, NEW C \in SUBSET Coroutine, NEW closes \in BOOLEAN,
         Ends(n, C, closes)
  PROVE  /\ tcp2kcp' \in [Node -> {"off", "read", "write", "written", "aborted", "done"}]
         /\ kcp2tcp' \in [Node -> {"off", "read", "write", "aborted", "done"}]
         /\ tcp' \in [Node -> {"none", "open", "closed"}]
         /\ \A k \in Node : k # n => /\ tcp2kcp'[k] = tcp2kcp[k] /\ kcp2tcp'[k] = kcp2tcp[k]
                                     /\ tcp'[k] = tcp[k]
         /\ \/ tcp2kcp'[n] = tcp2kcp[n] /\ kcp2tcp'[n] = kcp2tcp[n] /\ tcp'[n] = tcp[n]
            \/ /\ tcp'[n] = "closed"
               /\ tcp2kcp'[n] \in {tcp2kcp[n], "aborted", "done"}
               /\ kcp2tcp'[n] \in {kcp2tcp[n], "aborted", "done"}
<1> USE DEF TypeOK
<1> DEFINE stops == C # {} \/ (closes /\ \E o \in Coroutine : OnKcp(n, o))
<1>1. /\ tcp2kcp' = [tcp2kcp EXCEPT ![n] = After(n, "tcp2kcp", C, closes)]
      /\ kcp2tcp' = [kcp2tcp EXCEPT ![n] = After(n, "kcp2tcp", C, closes)]
      /\ tcp' = [tcp EXCEPT ![n] = IF stops THEN "closed" ELSE @]
      BY DEF Ends
<1>2. ASSUME NEW c \in Coroutine
      PROVE  /\ After(n, c, C, closes) \in {At(n, c), "aborted", "done"}
             /\ ~stops => After(n, c, C, closes) = At(n, c)
      BY DEF After
<1>3. /\ After(n, "tcp2kcp", C, closes) \in {tcp2kcp[n], "aborted", "done"}
      /\ After(n, "kcp2tcp", C, closes) \in {kcp2tcp[n], "aborted", "done"}
      /\ ~stops => /\ After(n, "tcp2kcp", C, closes) = tcp2kcp[n]
                   /\ After(n, "kcp2tcp", C, closes) = kcp2tcp[n]
      BY <1>2 DEF Coroutine, At
<1> HIDE DEF stops
<1> QED  BY <1>1, <1>3

\* A step that only takes away: connections that close or are dropped, TCP sockets that
\* close, coroutines that stop with them.
Stopping ==
  /\ UNCHANGED <<sndq, rcvq, taken, given>>
  /\ \A k \in Node :
       /\ kcp'[k] = kcp[k] \/ (Hears(k) /\ kcp'[k] \in {"closed", "erased"})
       /\ tcp'[k] \in {tcp[k], "closed"}
       /\ \/ tcp2kcp'[k] = tcp2kcp[k] /\ kcp2tcp'[k] = kcp2tcp[k]
          \/ /\ kcp[k] # "none" /\ tcp'[k] = "closed"
             /\ tcp2kcp'[k] \in {tcp2kcp[k], "aborted", "done"}
             /\ kcp2tcp'[k] \in {kcp2tcp[k], "aborted", "done"}

LEMMA StoppingSafe ==
  ASSUME TypeOK, TunnelInv, Stopping
  PROVE  TunnelInv'
<1> USE DEF TunnelInv, Stopping
<1>1. \A k \in Node : (kcp'[k] = "none" => kcp[k] = "none") /\ (Hears(k)' => Hears(k))
      BY DEF Hears
<1>2. Fresh'
  <2>1. ASSUME NEW k \in Node, kcp'[k] = "none", NEW n \in Node
        PROVE  /\ kcp'[n] = "none"
               /\ taken'[n] = 0 /\ given'[n] = 0 /\ sndq'[n] = 0 /\ rcvq'[n] = 0
               /\ tcp2kcp'[n] = "off" /\ kcp2tcp'[n] = "off"
    <3>1. kcp[k] = "none"  BY <1>1, <2>1
    <3>2. /\ kcp[n] = "none" /\ tcp2kcp[n] = "off" /\ kcp2tcp[n] = "off"
          /\ taken[n] = 0 /\ given[n] = 0 /\ sndq[n] = 0 /\ rcvq[n] = 0
          BY <3>1 DEF Fresh
    <3>3. kcp'[n] = kcp[n]  BY <3>2 DEF Hears
    <3> QED  BY <3>2, <3>3
  <2> QED  BY <2>1 DEF Fresh
<1>3. NeedsTcp'
  <2>1. ASSUME NEW n \in Node, tcp'[n] = "none"
        PROVE  tcp2kcp'[n] = "off" /\ kcp2tcp'[n] = "off"
    <3>1. tcp[n] = "none"  BY <2>1
    <3> QED  BY <2>1, <3>1 DEF NeedsTcp
  <2> QED  BY <2>1 DEF NeedsTcp
<1>4. Stopped'
  <2>1. ASSUME NEW n \in Node, kcp2tcp'[n] \in {"aborted", "done"}
        PROVE  kcp'[n] = "closed" \/ tcp'[n] = "closed"
    <3>1. CASE kcp2tcp'[n] = kcp2tcp[n]  BY <2>1, <3>1 DEF Stopped, Hears
    <3>2. CASE kcp2tcp'[n] # kcp2tcp[n]  BY <3>2
    <3> QED  BY <3>1, <3>2
  <2> QED  BY <2>1 DEF Stopped
<1>5. SendQ'
  <2>1. ASSUME NEW n \in Node
        PROVE  /\ sndq'[n] <= idle_send_packet_count + 1
               /\ tcp2kcp'[n] \in {"off", "read", "written"}
                    => sndq'[n] <= idle_send_packet_count
    <3>1. tcp2kcp'[n] \in {tcp2kcp[n], "aborted", "done"}  OBVIOUS
    <3> QED  BY <3>1 DEF SendQ
  <2> QED  BY <2>1 DEF SendQ
<1>6. Flow'
  <2>1. ASSUME NEW n \in Node, Hears(n)', Hears(Peer(n))'
        PROVE  /\ kcp2tcp'[Peer(n)] \in {"off", "read"} => taken'[n] = InTunnel(n)'
               /\ kcp2tcp'[Peer(n)] = "write" => taken'[n] = InTunnel(n)' + 1
               /\ taken'[n] = InTunnel(n)' \/ taken'[n] = InTunnel(n)' + 1
    <3>1. Peer(n) \in Node /\ Hears(n) /\ Hears(Peer(n))  BY <1>1, <2>1, Peers
    <3>2. kcp2tcp'[Peer(n)] \in {kcp2tcp[Peer(n)], "aborted", "done"}  BY <3>1
    <3>3. InTunnel(n)' = InTunnel(n) /\ taken'[n] = taken[n]  BY DEF InTunnel
    <3> QED  BY <3>1, <3>2, <3>3 DEF Flow
  <2> QED  BY <2>1 DEF Flow
<1> QED  BY <1>2, <1>3, <1>4, <1>5, <1>6

\* The catch block of a coroutine.
LEMMA CatchSafe ==
  ASSUME TypeOK, TunnelInv, NEW n \in Node, NEW c \in Coroutine, At(n, c) # "off", Catch(n, c)
  PROVE  TypeOK' /\ TunnelInv'
<1>1. Closes(n) \in BOOLEAN /\ {c} \in SUBSET Coroutine /\ Ends(n, {c}, Closes(n))
      BY DEF Closes, Catch
<1>2. /\ UNCHANGED <<tries, remote, sent, taken, given, sndq, rcvq>>
      /\ kcp' = [kcp EXCEPT ![n] = IF Closes(n) THEN "closed" ELSE @]
      /\ bye' = [bye EXCEPT ![n] = @ \/ Closes(n)]
      BY DEF Catch
<1>3. kcp[n] # "none"  BY DEF At, Coroutine, TunnelInv, Fresh
<1>4. Stopping
  <2>1. \A k \in Node : kcp'[k] = kcp[k] \/ (Hears(k) /\ kcp'[k] = "closed")
        BY <1>2 DEF Closes, Hears, TypeOK
  <2> HIDE DEF Closes
  <2> QED  BY <1>1, <1>2, <1>3, <2>1, EndsParts DEF Stopping
<1>5. TypeOK'
  <2>1. bye' \in [Node -> BOOLEAN]
    <3>1. bye \in [Node -> BOOLEAN]  BY DEF TypeOK
    <3>2. (bye[n] \/ Closes(n)) \in BOOLEAN  BY DEF Closes
    <3> QED  BY <1>2, <3>1, <3>2
  <2>2. kcp' \in [Node -> {"none", "idle", "opened", "closed", "erased"}]
        BY <1>2 DEF TypeOK
  <2>3. /\ tcp2kcp' \in [Node -> {"off", "read", "write", "written", "aborted", "done"}]
        /\ kcp2tcp' \in [Node -> {"off", "read", "write", "aborted", "done"}]
        /\ tcp' \in [Node -> {"none", "open", "closed"}]
        BY <1>1, EndsParts
  <2>4. UNCHANGED <<tries, remote, sent, taken, given, sndq, rcvq>>  BY <1>2
  <2> QED  BY <2>1, <2>2, <2>3, <2>4 DEF TypeOK
<1> QED  BY <1>4, <1>5, StoppingSafe

\* A connection that an event closes.
LEMMA ClosedByEventSafe ==
  ASSUME TypeOK, TunnelInv, NEW n \in Node, Hears(n), ClosedByEvent(n),
         bye' \in [Node -> BOOLEAN],
         UNCHANGED <<tries, remote, sent, taken, given, sndq, rcvq>>
  PROVE  TypeOK' /\ TunnelInv'
<1>1. /\ TRUE \in BOOLEAN /\ {} \in SUBSET Coroutine /\ Ends(n, {}, TRUE)
      /\ kcp' = [kcp EXCEPT ![n] = "closed"]
      BY DEF ClosedByEvent
<1>2. Stopping
  <2>1. \A k \in Node : kcp'[k] = kcp[k] \/ (Hears(k) /\ kcp'[k] = "closed")
        BY <1>1 DEF TypeOK
  <2>2. kcp[n] # "none"  BY DEF Hears
  <2> QED  BY <1>1, <2>1, <2>2, EndsParts DEF Stopping
<1>3. TypeOK'
  <2>1. kcp' \in [Node -> {"none", "idle", "opened", "closed", "erased"}]
        BY <1>1 DEF TypeOK
  <2> QED  BY <1>1, <2>1, EndsParts DEF TypeOK
<1> QED  BY <1>2, <1>3, StoppingSafe

LEMMA ByeSafe ==
  ASSUME TypeOK, TunnelInv, NEW n \in Node, Bye(n)
  PROVE  TypeOK' /\ TunnelInv'
<1>1. UNCHANGED <<tries, remote, sent, taken, given, sndq, rcvq>> /\ Peer(n) \in Node
      BY Peers DEF Bye
<1>2. CASE Hears(Peer(n))
  <2>1. bye' \in [Node -> BOOLEAN]  BY <1>2 DEF Bye
  <2> QED  BY <1>1, <1>2, <2>1, ClosedByEventSafe DEF Bye
<1>3. CASE ~Hears(Peer(n))
  <2>1. bye' = [bye EXCEPT ![n] = FALSE] /\ UNCHANGED <<kcp, tcp, tcp2kcp, kcp2tcp>>
        BY <1>3 DEF Bye
  <2>2. Stopping  BY <1>1, <2>1 DEF Stopping
  <2>3. TypeOK'  BY <1>1, <2>1 DEF TypeOK
  <2> QED  BY <2>2, <2>3, StoppingSafe
<1> QED  BY <1>2, <1>3

LEMMA TimeoutSafe ==
  ASSUME TypeOK, TunnelInv, NEW n \in Node, Timeout(n)
  PROVE  TypeOK' /\ TunnelInv'
<1>1. UNCHANGED <<tries, remote, sent, taken, given, sndq, rcvq>>  BY DEF Timeout
<1>2. CASE kcp[n] = "opened" /\ ClosedByEvent(n) /\ bye' = [bye EXCEPT ![n] = TRUE]
  <2>1. Hears(n) /\ bye' \in [Node -> BOOLEAN]  BY <1>2 DEF Hears, TypeOK
  <2> QED  BY <1>1, <1>2, <2>1, ClosedByEventSafe
<1>3. CASE kcp[n] = "idle" /\ kcp' = [kcp EXCEPT ![n] = "erased"]
           /\ UNCHANGED <<tcp, tcp2kcp, kcp2tcp, bye>>
  <2>1. Stopping  BY <1>1, <1>3 DEF Stopping, Hears, TypeOK
  <2>2. TypeOK'  BY <1>1, <1>3 DEF TypeOK
  <2> QED  BY <2>1, <2>2, StoppingSafe
<1> QED  BY <1>2, <1>3 DEF Timeout

\* A connect that fails drops the TCP socket or keeps it, and nothing else.
LEMMA ConnectFailsParts ==
  ASSUME TypeOK, ConnectFails
  PROVE  /\ tries' \in 0..TryTimes
         /\ tcp' \in [Node -> {"none", "open", "closed"}]
         /\ \A k \in Node : k # "entry" => tcp'[k] = tcp[k]
         /\ tcp'["entry"] \in {tcp["entry"], "closed"}
         /\ kcp["entry"] = "none"
         /\ UNCHANGED <<remote, sent, kcpVars, tcp2kcp, kcp2tcp, taken, given>>
<1>1. tries' \in 0..TryTimes
  <2>1. tries \in 0..TryTimes /\ tries < TryTimes /\ tries' = tries + 1
        BY DEF ConnectFails, TypeOK
  <2> QED  BY <2>1, TunnelAssumption
<1>2. tcp' = tcp \/ tcp' = [tcp EXCEPT !["entry"] = "closed"]
      BY DEF ConnectFails, EndpointThrows
<1>3. tcp \in [Node -> {"none", "open", "closed"}] /\ "entry" \in Node
      BY DEF TypeOK, Node
<1>4. /\ kcp["entry"] = "none"
      /\ UNCHANGED <<remote, sent, kcpVars, tcp2kcp, kcp2tcp, taken, given>>
      BY DEF ConnectFails
<1> QED  BY <1>1, <1>2, <1>3, <1>4

\* The steps that concern no coroutine.
LEMMA OutsideSafe ==
  ASSUME TypeOK, TunnelInv, NEW n \in Node,
         \/ ConnectFails \/ ExitConnectFails \/ RemoteSends(n) \/ LoseBye(n)
         \/ \E how \in {"eof", "reset"} : RemoteEnds(n, how)
  PROVE  TypeOK' /\ TunnelInv'
<1>1. CASE ConnectFails
  <2>1. Stopping  BY <1>1, ConnectFailsParts DEF Stopping, kcpVars
  <2>2. TypeOK'  BY <1>1, ConnectFailsParts DEF TypeOK, kcpVars
  <2> QED  BY <2>1, <2>2, StoppingSafe
<1>2. CASE ExitConnectFails
  <2>1. Stopping  BY <1>2 DEF ExitConnectFails, Stopping, kcpVars, TypeOK, Node
  <2>2. TypeOK'  BY <1>2 DEF ExitConnectFails, TypeOK, kcpVars
  <2> QED  BY <2>1, <2>2, StoppingSafe
<1>3. CASE RemoteSends(n)
  <2>1. Stopping  BY <1>3 DEF RemoteSends, Stopping, kcpVars
  <2>2. TypeOK'  BY <1>3 DEF RemoteSends, TypeOK, kcpVars
  <2> QED  BY <2>1, <2>2, StoppingSafe
<1>4. CASE LoseBye(n)
  <2>1. Stopping  BY <1>4 DEF LoseBye, Stopping, tcpVars
  <2>2. TypeOK'  BY <1>4 DEF LoseBye, TypeOK, tcpVars
  <2> QED  BY <2>1, <2>2, StoppingSafe
<1>5. ASSUME NEW how \in {"eof", "reset"}, RemoteEnds(n, how)
      PROVE  TypeOK' /\ TunnelInv'
  <2>1. Stopping  BY <1>5 DEF RemoteEnds, Stopping, kcpVars
  <2>2. TypeOK'  BY <1>5 DEF RemoteEnds, TypeOK, kcpVars
  <2> QED  BY <2>1, <2>2, StoppingSafe
<1> QED  BY <1>1, <1>2, <1>3, <1>4, <1>5

-----------------------------------------------------------------------------
(* The steps that start the session and move units.                        *)

LEMMA ConnectSafe ==
  ASSUME TypeOK, TunnelInv, Connect
  PROVE  TypeOK' /\ TunnelInv'
<1> USE DEF Connect, tcpVars, Node
<1>1. \A n \in Node : /\ kcp[n] = "none"
                      /\ taken[n] = 0 /\ given[n] = 0 /\ sndq[n] = 0 /\ rcvq[n] = 0
                      /\ tcp2kcp[n] = "off" /\ kcp2tcp[n] = "off"
      BY DEF TunnelInv, Fresh
<1>2. TypeOK'
  <2>1. tries' \in 0..TryTimes  BY TunnelAssumption
  <2> QED  BY <2>1 DEF TypeOK
<1>3. \A n \in Node :
        /\ kcp'[n] \in {"opened", "idle"}
        /\ taken'[n] = 0 /\ given'[n] = 0 /\ sndq'[n] = 0 /\ rcvq'[n] = 0
        /\ tcp2kcp'[n] \in {"off", "read"} /\ kcp2tcp'[n] \in {"off", "read"}
      BY <1>1 DEF TypeOK
<1>4. /\ tcp'["entry"] = "open" /\ tcp' = tcp
      /\ tcp2kcp'["exit"] = "off" /\ kcp2tcp'["exit"] = "off"
      BY <1>1 DEF TypeOK
<1>5. Fresh' /\ NeedsTcp' /\ Stopped'  BY <1>3, <1>4 DEF Fresh, NeedsTcp, Stopped
<1>6. SendQ'  BY <1>3, TunnelAssumption DEF SendQ
<1>7. Flow'
  <2>1. \A n \in Node : taken'[n] = 0 /\ InTunnel(n)' = 0 /\ kcp2tcp'[Peer(n)] # "write"
        BY <1>3, Peers DEF InTunnel
  <2> QED  BY <2>1 DEF Flow
<1> QED  BY <1>2, <1>5, <1>6, <1>7 DEF TunnelInv

LEMMA ConnectThrowsSafe ==
  ASSUME TypeOK, TunnelInv, ConnectThrows
  PROVE  TypeOK' /\ TunnelInv'
<1> USE DEF ConnectThrows, EndpointThrows, Node
<1>1. \A n \in Node : /\ kcp[n] = "none"
                      /\ taken[n] = 0 /\ given[n] = 0 /\ sndq[n] = 0 /\ rcvq[n] = 0
                      /\ tcp2kcp[n] = "off" /\ kcp2tcp[n] = "off"
      BY DEF TunnelInv, Fresh
<1>2. TypeOK'
  <2>1. tries' \in 0..TryTimes  BY TunnelAssumption
  <2> QED  BY <2>1 DEF TypeOK
<1>3. \A n \in Node :
        /\ kcp'[n] \in {"opened", "idle"}
        /\ taken'[n] = 0 /\ given'[n] = 0 /\ sndq'[n] = 0 /\ rcvq'[n] = 0
        /\ tcp2kcp'[n] = "off" /\ kcp2tcp'[n] = "off"
      BY <1>1 DEF TypeOK
<1>4. Fresh' /\ NeedsTcp' /\ Stopped'  BY <1>3 DEF Fresh, NeedsTcp, Stopped
<1>5. SendQ'  BY <1>3, TunnelAssumption DEF SendQ
<1>6. Flow'
  <2>1. \A n \in Node : taken'[n] = 0 /\ InTunnel(n)' = 0 /\ kcp2tcp'[Peer(n)] # "write"
        BY <1>3, Peers DEF InTunnel
  <2> QED  BY <2>1 DEF Flow
<1> QED  BY <1>2, <1>4, <1>5, <1>6 DEF TunnelInv

LEMMA ExitConnectedSafe ==
  ASSUME TypeOK, TunnelInv, ExitConnected
  PROVE  TypeOK' /\ TunnelInv'
<1> USE DEF ExitConnected, kcpVars
<1>1. "exit" \in Node /\ tcp["exit"] = "none" /\ kcp["exit"] # "none"
      BY DEF Node
<1>2. tcp2kcp["exit"] = "off" /\ kcp2tcp["exit"] = "off"
      BY <1>1 DEF TunnelInv, NeedsTcp
<1>3. /\ kcp2tcp'["exit"] \in {"read", "aborted"}
      /\ kcp2tcp'["exit"] = "aborted" => kcp["exit"] = "closed"
      /\ tcp2kcp'["exit"] = "read" /\ tcp'["exit"] = "open"
      /\ \A n \in Node : n # "exit" =>
           tcp2kcp'[n] = tcp2kcp[n] /\ kcp2tcp'[n] = kcp2tcp[n] /\ tcp'[n] = tcp[n]
      BY <1>1 DEF TypeOK, KcpReadPc
<1>4. UNCHANGED <<kcp, sndq, rcvq, taken, given>>  OBVIOUS
<1>5. TypeOK'
  <2>1. /\ tcp2kcp' \in [Node -> {"off", "read", "write", "written", "aborted", "done"}]
        /\ kcp2tcp' \in [Node -> {"off", "read", "write", "aborted", "done"}]
        /\ tcp' \in [Node -> {"none", "open", "closed"}]
        BY DEF TypeOK, KcpReadPc
  <2> QED  BY <2>1 DEF TypeOK
<1>6. Fresh'  BY <1>1, <1>3, <1>4 DEF TunnelInv, Fresh
<1>7. NeedsTcp'  BY <1>3 DEF TunnelInv, NeedsTcp
<1>8. Stopped'
  <2>1. ASSUME NEW n \in Node, kcp2tcp'[n] \in {"aborted", "done"}
        PROVE  kcp'[n] = "closed" \/ tcp'[n] = "closed"
    <3>1. CASE n = "exit"  BY <1>3, <1>4, <2>1, <3>1
    <3>2. CASE n # "exit"  BY <1>3, <1>4, <2>1, <3>2 DEF TunnelInv, Stopped
    <3> QED  BY <3>1, <3>2
  <2> QED  BY <2>1 DEF Stopped
<1>9. SendQ'
  <2>1. ASSUME NEW n \in Node
        PROVE  /\ sndq'[n] <= idle_send_packet_count + 1
               /\ tcp2kcp'[n] \in {"off", "read", "written"}
                    => sndq'[n] <= idle_send_packet_count
    <3>1. tcp2kcp'[n] = tcp2kcp[n] \/ tcp2kcp[n] = "off"  BY <1>2, <1>3
    <3> QED  BY <1>4, <3>1 DEF TunnelInv, SendQ
  <2> QED  BY <2>1 DEF SendQ
<1>10. Flow'
  <2>1. ASSUME NEW n \in Node, Hears(n)', Hears(Peer(n))'
        PROVE  /\ kcp2tcp'[Peer(n)] \in {"off", "read"} => taken'[n] = InTunnel(n)'
               /\ kcp2tcp'[Peer(n)] = "write" => taken'[n] = InTunnel(n)' + 1
               /\ taken'[n] = InTunnel(n)' \/ taken'[n] = InTunnel(n)' + 1
    <3>1. Peer(n) \in Node /\ Hears(n) /\ Hears(Peer(n))  BY <1>4, <2>1, Peers DEF Hears
    <3>2. InTunnel(n)' = InTunnel(n) /\ taken'[n] = taken[n]  BY <1>4 DEF InTunnel
    <3>3. \/ kcp2tcp'[Peer(n)] = kcp2tcp[Peer(n)]
          \/ kcp2tcp[Peer(n)] = "off" /\ kcp2tcp'[Peer(n)] # "write"
          BY <1>2, <1>3, <3>1
    <3> QED  BY <3>1, <3>2, <3>3 DEF TunnelInv, Flow
  <2> QED  BY <2>1 DEF Flow
<1> QED  BY <1>5, <1>6, <1>7, <1>8, <1>9, <1>10 DEF TunnelInv

\* A step of the session, with what it does to tcp2kcp and the send queue at n, and to
\* kcp2tcp at n.  It keeps the sockets and the connections.
Moving(n) ==
  /\ tcp' = tcp
  /\ \A k \in Node : /\ kcp'[k] = kcp[k] \/ (Hears(k) /\ Hears(k)')
                     /\ kcp'[k] = "none" <=> kcp[k] = "none"
                     /\ kcp[k] = "closed" => kcp'[k] = "closed"
  /\ kcp[n] # "none"

\* What Moving leaves to show of Fresh, NeedsTcp and Stopped.
LEMMA MovingSafe ==
  ASSUME TypeOK, TunnelInv, NEW n \in Node, Moving(n),
         \A k \in Node : /\ tcp2kcp'[k] = tcp2kcp[k] \/ tcp2kcp[k] # "off"
                         /\ kcp2tcp'[k] = kcp2tcp[k] \/ kcp2tcp[k] # "off"
                         /\ kcp2tcp'[k] \in {"aborted", "done"} =>
                              \/ kcp2tcp'[k] = kcp2tcp[k]
                              \/ kcp[k] = "closed" \/ tcp[k] = "closed"
  PROVE  Fresh' /\ NeedsTcp' /\ Stopped'
<1> USE DEF Moving, TunnelInv
<1>1. Fresh'  BY DEF Fresh
<1>2. NeedsTcp'  BY DEF NeedsTcp
<1>3. Stopped'  BY DEF Stopped
<1> QED  BY <1>1, <1>2, <1>3

\* What is to show of the units that one node's tcp2kcp took, when the other direction
\* stays as it is.
LEMMA FlowOneWay ==
  ASSUME TypeOK, TunnelInv, NEW n \in Node,
         \A k \in Node : Hears(k)' => Hears(k),
         LET m == Peer(n)
         IN taken'[m] = taken[m] /\ InTunnel(m)' = InTunnel(m) /\ kcp2tcp'[n] = kcp2tcp[n],
         Hears(n) /\ Hears(Peer(n)) =>
           /\ kcp2tcp'[Peer(n)] \in {"off", "read"} => taken'[n] = InTunnel(n)'
           /\ kcp2tcp'[Peer(n)] = "write" => taken'[n] = InTunnel(n)' + 1
           /\ taken'[n] = InTunnel(n)' \/ taken'[n] = InTunnel(n)' + 1
  PROVE  Flow'
<1>1. Peer(n) \in Node /\ Peer(Peer(n)) = n /\ \A k \in Node : k = n \/ k = Peer(n)
      BY Peers
<1>2. ASSUME NEW k \in Node, Hears(k)', Hears(Peer(k))'
      PROVE  /\ kcp2tcp'[Peer(k)] \in {"off", "read"} => taken'[k] = InTunnel(k)'
             /\ kcp2tcp'[Peer(k)] = "write" => taken'[k] = InTunnel(k)' + 1
             /\ taken'[k] = InTunnel(k)' \/ taken'[k] = InTunnel(k)' + 1
  <2>1. Hears(k) /\ Hears(Peer(k))  BY <1>2, Peers
  <2>2. CASE k = n  BY <2>1, <2>2
  <2>3. CASE k = Peer(n)  BY <1>1, <2>1, <2>3 DEF TunnelInv, Flow
  <2> QED  BY <1>1, <2>2, <2>3
<1> QED  BY <1>2 DEF Flow

LEMMA TcpReadSafe ==
  ASSUME TypeOK, TunnelInv, NEW n \in Node, TcpRead(n)
  PROVE  TypeOK' /\ TunnelInv'
<1> DEFINE m == Peer(n)
<1>1. /\ tcp2kcp[n] = "read" /\ taken' = [taken EXCEPT ![n] = @ + 1]
      /\ UNCHANGED <<tries, tcpVars, kcp, rcvq, bye, kcp2tcp, given>>
      BY DEF TcpRead
<1>2. \/ kcp[n] = "closed" /\ tcp2kcp' = [tcp2kcp EXCEPT ![n] = "aborted"] /\ sndq' = sndq
      \/ /\ sndq' = [sndq EXCEPT ![n] = @ + 1]
         /\ tcp2kcp' = [tcp2kcp EXCEPT ![n] =
              IF sndq'[n] <= idle_send_packet_count THEN "written" ELSE "write"]
      BY DEF TcpRead, WrittenNow
<1>3. /\ m \in Node /\ m # n /\ Peer(m) = n
      /\ taken[n] \in Nat /\ given[m] \in Nat /\ sndq[n] \in Nat /\ rcvq[m] \in Nat
      /\ idle_send_packet_count \in Nat /\ sndq[n] <= idle_send_packet_count
      BY <1>1, Peers, NodeParts DEF TunnelInv, SendQ
<1>4. TypeOK'
  <2>1. /\ taken' \in [Node -> Nat] /\ sndq' \in [Node -> Nat]
        /\ tcp2kcp' \in [Node -> {"off", "read", "write", "written", "aborted", "done"}]
        BY <1>1, <1>2 DEF TypeOK
  <2> QED  BY <1>1, <2>1 DEF TypeOK, tcpVars
<1>5. Fresh' /\ NeedsTcp' /\ Stopped'
  <2>1. kcp[n] # "none"  BY <1>1 DEF TunnelInv, Fresh
  <2>2. Moving(n)  BY <1>1, <2>1 DEF Moving, tcpVars
  <2>3. \A k \in Node : tcp2kcp'[k] = tcp2kcp[k] \/ tcp2kcp[k] # "off"
        BY <1>1, <1>2 DEF TypeOK
  <2> QED  BY <1>1, <2>2, <2>3, MovingSafe
<1>6. SendQ'
  <2>1. ASSUME NEW k \in Node
        PROVE  /\ sndq'[k] <= idle_send_packet_count + 1
               /\ tcp2kcp'[k] \in {"off", "read", "written"}
                    => sndq'[k] <= idle_send_packet_count
    <3>1. CASE k = n  BY <1>2, <1>3, <3>1 DEF TypeOK
    <3>2. CASE k # n  BY <1>2, <3>2 DEF TypeOK, TunnelInv, SendQ
    <3> QED  BY <3>1, <3>2
  <2> QED  BY <2>1 DEF SendQ
<1>7. Flow'
  <2>1. taken'[m] = taken[m] /\ InTunnel(m)' = InTunnel(m)
        BY <1>1, <1>2, <1>3 DEF InTunnel, TypeOK
  <2>2. Hears(n) => taken'[n] = taken[n] + 1 /\ InTunnel(n)' = InTunnel(n) + 1
        BY <1>1, <1>2, <1>3 DEF InTunnel, Hears, TypeOK
  <2>3. InTunnel(n) \in Nat  BY <1>3 DEF InTunnel
  <2>4. Hears(n) /\ Hears(m) =>
          /\ kcp2tcp'[m] \in {"off", "read"} => taken'[n] = InTunnel(n)'
          /\ kcp2tcp'[m] = "write" => taken'[n] = InTunnel(n)' + 1
          /\ taken'[n] = InTunnel(n)' \/ taken'[n] = InTunnel(n)' + 1
        BY <1>1, <2>2, <2>3 DEF TunnelInv, Flow
  <2>5. \A k \in Node : Hears(k)' => Hears(k)  BY <1>1 DEF Hears
  <2> QED  BY <1>1, <2>1, <2>4, <2>5, FlowOneWay
<1> QED  BY <1>4, <1>5, <1>6, <1>7 DEF TunnelInv

LEMMA KcpWrittenSafe ==
  ASSUME TypeOK, TunnelInv, NEW n \in Node, KcpWritten(n)
  PROVE  TypeOK' /\ TunnelInv'
<1>1. /\ tcp2kcp[n] \in {"written", "write"} /\ sndq[n] <= idle_send_packet_count
      /\ tcp2kcp' = [tcp2kcp EXCEPT ![n] = IF tcp[n] = "open" THEN "read" ELSE "aborted"]
      /\ UNCHANGED <<tries, tcpVars, kcpVars, kcp2tcp, taken, given>>
      BY DEF KcpWritten, WrittenNow, TunnelInv, SendQ
<1>2. TypeOK'  BY <1>1 DEF TypeOK, tcpVars, kcpVars
<1>3. Fresh' /\ NeedsTcp' /\ Stopped'
  <2>1. kcp[n] # "none"  BY <1>1 DEF TunnelInv, Fresh
  <2>2. Moving(n)  BY <1>1, <2>1 DEF Moving, tcpVars, kcpVars
  <2>3. \A k \in Node : tcp2kcp'[k] = tcp2kcp[k] \/ tcp2kcp[k] # "off"
        BY <1>1 DEF TypeOK
  <2> QED  BY <1>1, <2>2, <2>3, MovingSafe
<1>4. SendQ'
  <2>1. ASSUME NEW k \in Node
        PROVE  /\ sndq'[k] <= idle_send_packet_count + 1
               /\ tcp2kcp'[k] \in {"off", "read", "written"}
                    => sndq'[k] <= idle_send_packet_count
    <3>1. CASE k = n  BY <1>1, <3>1 DEF TunnelInv, SendQ, kcpVars
    <3>2. CASE k # n  BY <1>1, <3>2 DEF TypeOK, TunnelInv, SendQ, kcpVars
    <3> QED  BY <3>1, <3>2
  <2> QED  BY <2>1 DEF SendQ
<1>5. Flow'  BY <1>1 DEF TunnelInv, Flow, InTunnel, Hears, kcpVars
<1> QED  BY <1>2, <1>3, <1>4, <1>5 DEF TunnelInv

\* Where kcp2tcp is when its read completed.
LEMMA WritePc ==
  ASSUME NEW n \in Node, TypeOK, TunnelInv, kcp2tcp[n] # "off"
  PROVE  \/ TcpWritePc(n) = "write"
         \/ TcpWritePc(n) = "aborted" /\ tcp[n] = "closed"
BY DEF TcpWritePc, TypeOK, TunnelInv, NeedsTcp

LEMMA KcpReadSafe ==
  ASSUME TypeOK, TunnelInv, NEW n \in Node, KcpRead(n)
  PROVE  TypeOK' /\ TunnelInv'
<1> DEFINE m == Peer(n)
<1>1. /\ kcp2tcp[n] = "read" /\ rcvq[n] > 0 /\ rcvq' = [rcvq EXCEPT ![n] = @ - 1]
      /\ kcp2tcp' = [kcp2tcp EXCEPT ![n] = TcpWritePc(n)]
      /\ UNCHANGED <<tries, tcpVars, kcp, sndq, bye, tcp2kcp, taken, given>>
      BY DEF KcpRead
<1>2. /\ m \in Node /\ m # n /\ Peer(m) = n
      /\ taken[m] \in Nat /\ given[n] \in Nat /\ sndq[m] \in Nat
      /\ rcvq[n] \in Nat /\ rcvq[n] <= RcvWnd /\ RcvWnd \in Nat
      BY Peers, NodeParts
<1>3. TcpWritePc(n) = "write" \/ (TcpWritePc(n) = "aborted" /\ tcp[n] = "closed")
      BY <1>1, WritePc
<1>4. TypeOK'
  <2>1. rcvq' \in [Node -> 0..RcvWnd]
    <3>1. rcvq[n] - 1 \in 0..RcvWnd  BY <1>1, <1>2
    <3> QED  BY <1>1, <3>1 DEF TypeOK
  <2>2. kcp2tcp' \in [Node -> {"off", "read", "write", "aborted", "done"}]
        BY <1>1, <1>3 DEF TypeOK
  <2> QED  BY <1>1, <2>1, <2>2 DEF TypeOK, tcpVars
<1>5. Fresh' /\ NeedsTcp' /\ Stopped'
  <2>1. kcp[n] # "none"  BY <1>1 DEF TunnelInv, Fresh
  <2>2. Moving(n)  BY <1>1, <2>1 DEF Moving, tcpVars
  <2>3. \A k \in Node : /\ kcp2tcp'[k] = kcp2tcp[k] \/ kcp2tcp[k] # "off"
                        /\ kcp2tcp'[k] \in {"aborted", "done"} =>
                             kcp2tcp'[k] = kcp2tcp[k] \/ tcp[k] = "closed"
        BY <1>1, <1>3 DEF TypeOK
  <2> QED  BY <1>1, <2>2, <2>3, MovingSafe
<1>6. SendQ'  BY <1>1 DEF TunnelInv, SendQ
<1>7. Flow'
  <2>1. InTunnel(m) = InTunnel(m)' + 1 /\ InTunnel(m)' \in Nat
        BY <1>1, <1>2 DEF InTunnel, TypeOK
  <2>2. InTunnel(n)' = InTunnel(n)  BY <1>1, <1>2 DEF InTunnel, TypeOK
  <2>3. kcp2tcp'[m] = kcp2tcp[m] /\ kcp2tcp'[n] = TcpWritePc(n)
        BY <1>1, <1>2 DEF TypeOK
  <2>4. Hears(m) /\ Hears(n) => taken[m] = InTunnel(m)
        BY <1>1, <1>2 DEF TunnelInv, Flow
  <2>5. \A k \in Node : Hears(k)' => Hears(k)  BY <1>1 DEF Hears
  <2> QED  BY <1>1, <1>2, <1>3, <2>1, <2>2, <2>3, <2>4, <2>5, FlowOneWay
<1> QED  BY <1>4, <1>5, <1>6, <1>7 DEF TunnelInv

LEMMA TcpWrittenSafe ==
  ASSUME TypeOK, TunnelInv, NEW n \in Node, TcpWritten(n)
  PROVE  TypeOK' /\ TunnelInv'
<1> DEFINE m == Peer(n)
<1>1. /\ kcp2tcp[n] = "write" /\ given' = [given EXCEPT ![n] = @ + 1]
      /\ kcp2tcp' = [kcp2tcp EXCEPT ![n] = KcpReadPc(n)]
      /\ UNCHANGED <<tries, tcpVars, kcpVars, tcp2kcp, taken>>
      BY DEF TcpWritten
<1>2. /\ m \in Node /\ m # n /\ Peer(m) = n
      /\ taken[m] \in Nat /\ given[n] \in Nat /\ sndq[m] \in Nat /\ rcvq[n] \in Nat
      BY Peers, NodeParts
<1>3. KcpReadPc(n) = "read" \/ (KcpReadPc(n) = "aborted" /\ kcp[n] = "closed")
      BY DEF KcpReadPc
<1>4. TypeOK'
  <2>1. /\ kcp2tcp' \in [Node -> {"off", "read", "write", "aborted", "done"}]
        /\ given' \in [Node -> Nat]
        BY <1>1, <1>3 DEF TypeOK
  <2> QED  BY <1>1, <2>1 DEF TypeOK, tcpVars, kcpVars
<1>5. Fresh' /\ NeedsTcp' /\ Stopped'
  <2>1. kcp[n] # "none"  BY <1>1 DEF TunnelInv, Fresh
  <2>2. Moving(n)  BY <1>1, <2>1 DEF Moving, tcpVars, kcpVars
  <2>3. \A k \in Node : /\ kcp2tcp'[k] = kcp2tcp[k] \/ kcp2tcp[k] # "off"
                        /\ kcp2tcp'[k] \in {"aborted", "done"} =>
                             kcp2tcp'[k] = kcp2tcp[k] \/ kcp[k] = "closed"
        BY <1>1, <1>3 DEF TypeOK
  <2> QED  BY <1>1, <2>2, <2>3, MovingSafe
<1>6. SendQ'  BY <1>1 DEF TunnelInv, SendQ, kcpVars
<1>7. Flow'
  <2>1. InTunnel(m)' = InTunnel(m) + 1 /\ InTunnel(m) \in Nat
        BY <1>1, <1>2 DEF InTunnel, TypeOK, kcpVars
  <2>2. InTunnel(n)' = InTunnel(n)  BY <1>1, <1>2 DEF InTunnel, TypeOK, kcpVars
  <2>3. kcp2tcp'[m] = kcp2tcp[m] /\ kcp2tcp'[n] = KcpReadPc(n)
        BY <1>1, <1>2 DEF TypeOK
  <2>4. Hears(m) /\ Hears(n) => taken[m] = InTunnel(m) + 1
        BY <1>1, <1>2 DEF TunnelInv, Flow
  <2>5. \A k \in Node : Hears(k)' => Hears(k)  BY <1>1 DEF Hears, kcpVars
  <2> QED  BY <1>1, <1>2, <1>3, <2>1, <2>2, <2>3, <2>4, <2>5, FlowOneWay
<1> QED  BY <1>4, <1>5, <1>6, <1>7 DEF TunnelInv

LEMMA DeliverSafe ==
  ASSUME TypeOK, TunnelInv, NEW n \in Node, Deliver(n)
  PROVE  TypeOK' /\ TunnelInv'
<1> DEFINE m == Peer(n)
<1>1. /\ sndq[n] > 0 /\ Hears(m) /\ rcvq[m] < RcvWnd
      /\ sndq' = [sndq EXCEPT ![n] = @ - 1]
      /\ kcp' = [k \in Node |-> IF kcp[k] = "idle" THEN "opened" ELSE kcp[k]]
      /\ UNCHANGED <<tries, tcpVars, bye, tcp2kcp, taken, given>>
      BY DEF Deliver
<1>2. \/ /\ kcp2tcp[m] = "read" /\ kcp2tcp' = [kcp2tcp EXCEPT ![m] = TcpWritePc(m)]
         /\ rcvq' = rcvq
      \/ /\ kcp2tcp[m] # "read" /\ rcvq' = [rcvq EXCEPT ![m] = @ + 1] /\ kcp2tcp' = kcp2tcp
      BY DEF Deliver
<1>3. /\ m \in Node /\ m # n /\ Peer(m) = n
      /\ taken[n] \in Nat /\ given[m] \in Nat /\ sndq[n] \in Nat /\ rcvq[m] \in Nat
      /\ RcvWnd \in Nat /\ idle_send_packet_count \in Nat
      BY Peers, NodeParts
<1>4. kcp2tcp[m] = "read" =>
        TcpWritePc(m) = "write" \/ (TcpWritePc(m) = "aborted" /\ tcp[m] = "closed")
      BY <1>3, WritePc
<1>5. \A k \in Node : /\ kcp'[k] = kcp[k] \/ (Hears(k) /\ Hears(k)')
                      /\ kcp'[k] = "none" <=> kcp[k] = "none"
                      /\ kcp[k] = "closed" => kcp'[k] = "closed"
                      /\ Hears(k)' => Hears(k)
      BY <1>1 DEF Hears
<1>6. TypeOK'
  <2>1. rcvq[m] + 1 \in 0..RcvWnd  BY <1>1, <1>3
  <2>2. rcvq' \in [Node -> 0..RcvWnd]  BY <1>2, <1>3, <2>1 DEF TypeOK
  <2>3. sndq' \in [Node -> Nat]
    <3>1. sndq[n] - 1 \in Nat  BY <1>1, <1>3
    <3> QED  BY <1>1, <3>1 DEF TypeOK
  <2>4. kcp2tcp' \in [Node -> {"off", "read", "write", "aborted", "done"}]
        BY <1>2, <1>4 DEF TypeOK
  <2>5. kcp' \in [Node -> {"none", "idle", "opened", "closed", "erased"}]
        BY <1>1 DEF TypeOK
  <2> QED  BY <1>1, <2>2, <2>3, <2>4, <2>5 DEF TypeOK, tcpVars
<1>7. Fresh' /\ NeedsTcp' /\ Stopped'
  <2>1. kcp[m] # "none"  BY <1>1 DEF Hears
  <2>2. Moving(m)  BY <1>1, <1>5, <2>1 DEF Moving, tcpVars
  <2>3. \A k \in Node : /\ kcp2tcp'[k] = kcp2tcp[k] \/ kcp2tcp[k] # "off"
                        /\ kcp2tcp'[k] \in {"aborted", "done"} =>
                             kcp2tcp'[k] = kcp2tcp[k] \/ tcp[k] = "closed"
        BY <1>2, <1>3, <1>4 DEF TypeOK
  <2> QED  BY <1>1, <1>3, <2>2, <2>3, MovingSafe
<1>8. SendQ'
  <2>1. ASSUME NEW k \in Node
        PROVE  /\ sndq'[k] <= idle_send_packet_count + 1
               /\ tcp2kcp'[k] \in {"off", "read", "written"}
                    => sndq'[k] <= idle_send_packet_count
    <3>1. sndq'[k] \in Nat /\ sndq[k] \in Nat /\ sndq'[k] <= sndq[k]
          BY <1>1, <1>3 DEF TypeOK
    <3>2. /\ sndq[k] <= idle_send_packet_count + 1
          /\ tcp2kcp[k] \in {"off", "read", "written"} => sndq[k] <= idle_send_packet_count
          BY DEF TunnelInv, SendQ
    <3>3. tcp2kcp' = tcp2kcp  BY <1>1
    <3> QED  BY <1>3, <3>1, <3>2, <3>3
  <2> QED  BY <2>1 DEF SendQ
<1>9. Flow'
  <2>1. taken'[m] = taken[m] /\ InTunnel(m)' = InTunnel(m) /\ kcp2tcp'[n] = kcp2tcp[n]
        BY <1>1, <1>2, <1>3 DEF InTunnel, TypeOK
  <2>2. InTunnel(n) \in Nat  BY <1>3 DEF InTunnel
  <2>3. CASE kcp2tcp[m] = "read"
    <3>1. InTunnel(n) = InTunnel(n)' + 1 /\ kcp2tcp'[m] = TcpWritePc(m)
          BY <1>1, <1>2, <1>3, <2>3 DEF InTunnel, TypeOK
    <3>2. Hears(n) /\ Hears(m) => taken[n] = InTunnel(n)
          BY <2>3 DEF TunnelInv, Flow
    <3>3. InTunnel(n)' \in Nat
      <4>1. sndq'[n] \in Nat /\ rcvq'[m] \in Nat /\ given'[m] \in Nat
            BY <1>1, <1>2, <1>3, <2>3 DEF TypeOK
      <4> QED  BY <4>1 DEF InTunnel
    <3> QED  BY <1>1, <1>4, <1>5, <2>1, <2>3, <3>1, <3>2, <3>3, FlowOneWay
  <2>4. CASE kcp2tcp[m] # "read"
    <3>1. InTunnel(n)' = InTunnel(n) /\ kcp2tcp'[m] = kcp2tcp[m]
          BY <1>1, <1>2, <1>3, <2>4 DEF InTunnel, TypeOK
    <3>2. taken' = taken  BY <1>1
    <3>3. Hears(n) /\ Hears(m) =>
            /\ kcp2tcp[m] \in {"off", "read"} => taken[n] = InTunnel(n)
            /\ kcp2tcp[m] = "write" => taken[n] = InTunnel(n) + 1
            /\ taken[n] = InTunnel(n) \/ taken[n] = InTunnel(n) + 1
          BY DEF TunnelInv, Flow
    <3> QED  BY <1>5, <2>1, <3>1, <3>2, <3>3, FlowOneWay
  <2> QED  BY <2>3, <2>4
<1> QED  BY <1>6, <1>7, <1>8, <1>9 DEF TunnelInv

-----------------------------------------------------------------------------
(* The invariant, and the theorems.                                        *)

LEMMA InitTunnel == Init => TypeOK /\ TunnelInv
<1> SUFFICES ASSUME Init PROVE TypeOK /\ TunnelInv  OBVIOUS
<1> USE DEF Init
<1>1. TypeOK  BY TunnelAssumption DEF TypeOK
<1>2. Fresh /\ NeedsTcp /\ Stopped  BY DEF Fresh, NeedsTcp, Stopped
<1>3. SendQ  BY TunnelAssumption DEF SendQ
<1>4. Flow  BY Peers DEF Flow, InTunnel, Hears
<1> QED  BY <1>1, <1>2, <1>3, <1>4 DEF TunnelInv

LEMMA NextTunnel == TypeOK /\ TunnelInv /\ [Next]_vars => TypeOK' /\ TunnelInv'
<1> DEFINE Goal == TypeOK' /\ TunnelInv'
<1> SUFFICES ASSUME TypeOK, TunnelInv, [Next]_vars PROVE Goal  OBVIOUS
<1>1. CASE UNCHANGED vars
      BY <1>1 DEF vars, tcpVars, kcpVars, TypeOK, TunnelInv, Fresh, NeedsTcp, Stopped, SendQ,
                  Flow, InTunnel, Hears
<1>2. CASE Connect \/ ConnectThrows \/ ExitConnected
      BY <1>2, ConnectSafe, ConnectThrowsSafe, ExitConnectedSafe
<1>3. CASE ConnectFails \/ ExitConnectFails
  <2>1. "exit" \in Node  BY DEF Node
  <2> QED  BY <1>3, <2>1, OutsideSafe
<1>4. ASSUME NEW n \in Node,
             \/ RemoteSends(n) \/ LoseBye(n) \/ \E how \in {"eof", "reset"} : RemoteEnds(n, how)
      PROVE  Goal
      BY <1>4, OutsideSafe
<1>5. ASSUME NEW n \in Node, Timeout(n) \/ Bye(n) \/ Deliver(n) PROVE Goal
      BY <1>5, TimeoutSafe, ByeSafe, DeliverSafe
<1>6. ASSUME NEW n \in Node, Aborted(n) PROVE Goal
      BY <1>6, CatchSafe DEF Aborted
<1>7. ASSUME NEW n \in Node, TcpReadFails(n) \/ TcpWriteFails(n) PROVE Goal
  <2>1. CASE TcpReadFails(n)
    <3>1. "tcp2kcp" \in Coroutine /\ At(n, "tcp2kcp") # "off" /\ Catch(n, "tcp2kcp")
          BY <2>1 DEF TcpReadFails, Coroutine, At
    <3> QED  BY <3>1, CatchSafe
  <2>2. CASE TcpWriteFails(n)
    <3>1. "kcp2tcp" \in Coroutine /\ At(n, "kcp2tcp") # "off" /\ Catch(n, "kcp2tcp")
          BY <2>2 DEF TcpWriteFails, Coroutine, At
    <3> QED  BY <3>1, CatchSafe
  <2> QED  BY <1>7, <2>1, <2>2
<1>8. ASSUME NEW n \in Node, TcpRead(n) \/ KcpWritten(n) \/ KcpRead(n) \/ TcpWritten(n)
      PROVE  Goal
      BY <1>8, TcpReadSafe, KcpWrittenSafe, KcpReadSafe, TcpWrittenSafe
<1> HIDE DEF Goal
<1> QED  BY <1>1, <1>2, <1>3, <1>4, <1>5, <1>6, <1>7, <1>8 DEF Next, Session

LEMMA TunnelInvariant == Spec => [](TypeOK /\ TunnelInv)
BY InitTunnel, NextTunnel, PTL DEF Spec

\* Type correctness, with the bound of what waits for a reader.
THEOREM TunnelTypeCorrect == Spec => []TypeOK
BY TunnelInvariant, PTL

\* While both connections hear and the TCP socket is open, every unit that tcp2kcp read
\* is in the tunnel or was written, whatever is closed, aborted or timed out elsewhere.
THEOREM NothingIsDropped == Spec => []NothingDropped
<1>1. TypeOK /\ TunnelInv => NothingDropped
  <2> SUFFICES ASSUME TypeOK, TunnelInv, NEW n \in Node,
                      Hears(n), Hears(Peer(n)), tcp[Peer(n)] # "closed"
               PROVE  taken[n] = given[Peer(n)] + sndq[n] + rcvq[Peer(n)]
                                   + (IF kcp2tcp[Peer(n)] = "write" THEN 1 ELSE 0)
      BY DEF NothingDropped
  <2>1. Peer(n) \in Node /\ kcp[Peer(n)] # "closed"  BY Peers DEF Hears
  <2>2. kcp2tcp[Peer(n)] \in {"off", "read", "write"}
        BY <2>1 DEF TypeOK, TunnelInv, Stopped
  <2>3. InTunnel(n) \in Nat  BY <2>1, NodeParts DEF InTunnel
  <2> QED  BY <2>2, <2>3 DEF TunnelInv, Flow, InTunnel
<1> QED  BY <1>1, TunnelInvariant, PTL

\* What the tunnel holds for a slow reader is bounded by the threshold of a write and
\* the receive window, so that the fast TCP peer is stopped.
THEOREM SlowPeerStops == Spec => []Backpressure
<1>1. TypeOK /\ TunnelInv => Backpressure
  <2> SUFFICES ASSUME TypeOK, TunnelInv, NEW n \in Node, Hears(n), Hears(Peer(n))
               PROVE  taken[n] - given[Peer(n)] <= idle_send_packet_count + RcvWnd + 2
      BY DEF Backpressure
  <2>1. /\ Peer(n) \in Node /\ taken[n] \in Nat /\ given[Peer(n)] \in Nat /\ sndq[n] \in Nat
        /\ rcvq[Peer(n)] \in Nat /\ rcvq[Peer(n)] <= RcvWnd
        /\ idle_send_packet_count \in Nat /\ RcvWnd \in Nat
        BY Peers, NodeParts
  <2>2. sndq[n] <= idle_send_packet_count + 1  BY DEF TunnelInv, SendQ
  <2>3. taken[n] <= given[Peer(n)] + sndq[n] + rcvq[Peer(n)] + 1
        BY <2>1 DEF TunnelInv, Flow, InTunnel
  <2> QED  BY <2>1, <2>2, <2>3
<1> QED  BY <1>1, TunnelInvariant, PTL

-----------------------------------------------------------------------------
(* Ends: what a closed KCP connection and a closed TCP socket leave of a   *)
(* node, which makes NoneLeftWaiting inductive, and NothingInvented, which *)
(* is inductive by itself.                                                 *)

\* Nobody of k waits for a socket that is closed, a coroutine that ended closed TCP, and
\* once both sockets are there both coroutines run.
Ending(k) ==
  /\ kcp[k] = "closed" => tcp2kcp[k] # "write" /\ kcp2tcp[k] # "read"
  /\ tcp[k] = "closed" => tcp2kcp[k] # "read" /\ kcp2tcp[k] # "write"
  /\ tcp2kcp[k] = "done" \/ kcp2tcp[k] = "done" => tcp[k] = "closed"
  /\ tcp[k] = "open" /\ (k = "exit" \/ kcp[k] # "none") =>
       tcp2kcp[k] # "off" /\ kcp2tcp[k] # "off"

EndingInv == \A k \in Node : Ending(k)

\* A node of which nothing changes but that an idle connection is opened or dropped.
LEMMA SameEnding ==
  ASSUME NEW k \in Node, Ending(k),
         tcp2kcp'[k] = tcp2kcp[k], kcp2tcp'[k] = kcp2tcp[k], tcp'[k] = tcp[k],
         kcp'[k] = kcp[k] \/ (kcp[k] = "idle" /\ kcp'[k] \in {"opened", "erased"})
  PROVE  Ending(k)'
BY DEF Ending

\* The end of coroutines, by an exception or by a connection that is closed.
LEMMA EndsEnding ==
  ASSUME TypeOK, EndingInv, NEW n \in Node, NEW C \in SUBSET Coroutine, NEW closes \in BOOLEAN,
         Ends(n, C, closes),
         kcp' = [kcp EXCEPT ![n] = IF closes THEN "closed" ELSE @],
         closes => kcp[n] # "none"
  PROVE  EndingInv'
<1> DEFINE stops == C # {} \/ (closes /\ \E o \in Coroutine : OnKcp(n, o))
<1>1. /\ tcp2kcp' = [tcp2kcp EXCEPT ![n] = After(n, "tcp2kcp", C, closes)]
      /\ kcp2tcp' = [kcp2tcp EXCEPT ![n] = After(n, "kcp2tcp", C, closes)]
      /\ tcp' = [tcp EXCEPT ![n] = IF stops THEN "closed" ELSE @]
      BY DEF Ends
<1>2. /\ tcp2kcp'[n] = After(n, "tcp2kcp", C, closes)
      /\ kcp2tcp'[n] = After(n, "kcp2tcp", C, closes)
      /\ tcp'[n] = IF stops THEN "closed" ELSE tcp[n]
      /\ kcp'[n] = IF closes THEN "closed" ELSE kcp[n]
      /\ \A k \in Node : k # n => /\ tcp2kcp'[k] = tcp2kcp[k] /\ kcp2tcp'[k] = kcp2tcp[k]
                                  /\ tcp'[k] = tcp[k] /\ kcp'[k] = kcp[k]
      BY <1>1 DEF TypeOK
<1>3. Ending(n)  BY DEF EndingInv
<1>4. Ending(n)'
  <2>1. CASE stops
    <3>1. /\ tcp2kcp'[n] # "read" /\ kcp2tcp'[n] # "write"
          /\ closes => tcp2kcp'[n] # "write" /\ kcp2tcp'[n] # "read"
      <4>1. tcp2kcp'[n] # "read" /\ (closes => tcp2kcp'[n] # "write")
            BY <1>2, <2>1 DEF After, OnTcp, OnKcp, At
      <4>2. kcp2tcp'[n] # "write" /\ (closes => kcp2tcp'[n] # "read")
            BY <1>2, <2>1 DEF After, OnTcp, OnKcp, At
      <4> QED  BY <4>1, <4>2
    <3>2. kcp[n] = "closed" => tcp2kcp'[n] # "write" /\ kcp2tcp'[n] # "read"
      <4>1. kcp[n] = "closed" => tcp2kcp[n] # "write" /\ kcp2tcp[n] # "read"
            BY <1>3 DEF Ending
      <4>2. tcp2kcp'[n] \in {tcp2kcp[n], "done", "aborted"}  BY <1>2 DEF After, At
      <4>3. kcp2tcp'[n] \in {kcp2tcp[n], "done", "aborted"}  BY <1>2 DEF After, At
      <4> QED  BY <4>1, <4>2, <4>3
    <3>3. tcp'[n] = "closed"  BY <1>2, <2>1
    <3> HIDE DEF stops
    <3> QED  BY <1>2, <3>1, <3>2, <3>3 DEF Ending
  <2>2. CASE ~stops
    <3>1. \A c \in Coroutine : closes => ~OnKcp(n, c)  BY <2>2
    <3>2. closes => tcp2kcp[n] # "write" /\ kcp2tcp[n] # "read"
          BY <3>1 DEF Coroutine, OnKcp
    <3>3. tcp2kcp'[n] = tcp2kcp[n] /\ kcp2tcp'[n] = kcp2tcp[n] /\ tcp'[n] = tcp[n]
      <4>1. C = {}  BY <2>2
      <4>2. After(n, "tcp2kcp", C, closes) = tcp2kcp[n]
            BY <2>2, <3>1, <4>1 DEF After, At, Coroutine
      <4>3. After(n, "kcp2tcp", C, closes) = kcp2tcp[n]
            BY <2>2, <3>1, <4>1 DEF After, At, Coroutine
      <4> QED  BY <1>2, <2>2, <4>2, <4>3
    <3> HIDE DEF stops
    <3> QED  BY <1>2, <1>3, <3>2, <3>3 DEF Ending
  <2> QED  BY <2>1, <2>2
<1>5. ASSUME NEW k \in Node, k # n PROVE Ending(k)'
      BY <1>2, <1>5, SameEnding DEF EndingInv
<1> QED  BY <1>4, <1>5 DEF EndingInv

\* The catch block.
LEMMA CatchEnding ==
  ASSUME TypeOK, EndingInv, NEW n \in Node, NEW c \in Coroutine, Catch(n, c)
  PROVE  EndingInv'
<1>1. /\ Closes(n) \in BOOLEAN /\ {c} \in SUBSET Coroutine /\ Ends(n, {c}, Closes(n))
      /\ kcp' = [kcp EXCEPT ![n] = IF Closes(n) THEN "closed" ELSE @]
      /\ Closes(n) => kcp[n] # "none"
      BY DEF Closes, Catch
<1> QED  BY <1>1, EndsEnding

\* A connection that an event closes.
LEMMA ClosedEnding ==
  ASSUME TypeOK, EndingInv, NEW n \in Node, Hears(n), ClosedByEvent(n)
  PROVE  EndingInv'
<1>1. /\ TRUE \in BOOLEAN /\ {} \in SUBSET Coroutine /\ Ends(n, {}, TRUE)
      /\ kcp' = [kcp EXCEPT ![n] = IF TRUE THEN "closed" ELSE @]
      /\ kcp[n] # "none"
      BY DEF ClosedByEvent, Hears
<1> QED  BY <1>1, EndsEnding

\* A step at one node, given that the other nodes change at most as SameEnding allows.
LEMMA OneEnding ==
  ASSUME EndingInv, NEW n \in Node, Ending(n)',
         \A k \in Node : k # n =>
           /\ tcp2kcp'[k] = tcp2kcp[k] /\ kcp2tcp'[k] = kcp2tcp[k] /\ tcp'[k] = tcp[k]
           /\ kcp'[k] = kcp[k] \/ (kcp[k] = "idle" /\ kcp'[k] \in {"opened", "erased"})
  PROVE  EndingInv'
BY SameEnding DEF EndingInv

\* The steps that leave the coroutines alone.
LEMMA QuietEnding ==
  ASSUME TypeOK, TunnelInv, EndingInv, NEW n \in Node,
         \/ ConnectFails \/ ExitConnectFails \/ RemoteSends(n) \/ LoseBye(n)
         \/ \E how \in {"eof", "reset"} : RemoteEnds(n, how)
  PROVE  EndingInv'
<1>1. CASE RemoteSends(n) \/ LoseBye(n) \/ \E how \in {"eof", "reset"} : RemoteEnds(n, how)
      BY <1>1 DEF RemoteSends, LoseBye, RemoteEnds, EndingInv, Ending, kcpVars, tcpVars
<1>2. CASE ConnectFails
  <2>1. "entry" \in Node /\ kcp["entry"] = "none"  BY <1>2 DEF ConnectFails, Node
  <2>2. tcp2kcp["entry"] = "off" /\ kcp2tcp["entry"] = "off"
        BY <2>1 DEF TunnelInv, Fresh
  <2>3. /\ UNCHANGED <<kcp, tcp2kcp, kcp2tcp>>
        /\ \A k \in Node : k # "entry" => tcp'[k] = tcp[k]
        BY <1>2, ConnectFailsParts DEF kcpVars
  <2>4. Ending("entry")'  BY <2>1, <2>2, <2>3 DEF Ending
  <2> QED  BY <2>1, <2>3, <2>4, OneEnding
<1>3. CASE ExitConnectFails
  <2>1. "exit" \in Node /\ tcp["exit"] = "none"  BY <1>3 DEF ExitConnectFails, Node
  <2>2. tcp2kcp["exit"] = "off" /\ kcp2tcp["exit"] = "off"
        BY <2>1 DEF TunnelInv, NeedsTcp
  <2>3. /\ UNCHANGED <<kcp, tcp2kcp, kcp2tcp>> /\ tcp'["exit"] = "closed"
        /\ \A k \in Node : k # "exit" => tcp'[k] = tcp[k]
        BY <1>3, <2>1 DEF ExitConnectFails, kcpVars, TypeOK
  <2>4. Ending("exit")'  BY <2>2, <2>3 DEF Ending
  <2> QED  BY <2>1, <2>3, <2>4, OneEnding
<1> QED  BY <1>1, <1>2, <1>3

\* The steps that start coroutines.
LEMMA StartEnding ==
  ASSUME TypeOK, TunnelInv, EndingInv, Connect \/ ConnectThrows \/ ExitConnected
  PROVE  EndingInv'
<1>1. CASE Connect
  <2>1. \A n \in Node : n = "entry" \/ n = "exit"  BY DEF Node
  <2>2. /\ kcp'["entry"] = "opened" /\ kcp'["exit"] = "idle" /\ UNCHANGED tcp
        /\ tcp2kcp'["entry"] = "read" /\ kcp2tcp'["entry"] = "read"
        /\ tcp2kcp'["exit"] = tcp2kcp["exit"] /\ kcp2tcp'["exit"] = kcp2tcp["exit"]
        /\ tcp["entry"] = "open" /\ kcp["entry"] = "none"
        BY <1>1 DEF Connect, tcpVars, TypeOK, Node
  <2>3. "entry" \in Node /\ "exit" \in Node  BY DEF Node
  <2>4. tcp["exit"] # "open" /\ tcp2kcp["exit"] = "off" /\ kcp2tcp["exit"] = "off"
        BY <2>2, <2>3 DEF TunnelInv, Fresh, EndingInv, Ending
  <2>5. Ending("entry")' /\ Ending("exit")'  BY <2>2, <2>4 DEF Ending
  <2> QED  BY <2>1, <2>5 DEF EndingInv
<1>2. CASE ExitConnected
  <2>1. "exit" \in Node  BY DEF Node
  <2>2. /\ UNCHANGED kcp /\ tcp'["exit"] = "open"
        /\ kcp2tcp'["exit"] = KcpReadPc("exit") /\ tcp2kcp'["exit"] = "read"
        /\ \A k \in Node : k # "exit" =>
             tcp2kcp'[k] = tcp2kcp[k] /\ kcp2tcp'[k] = kcp2tcp[k] /\ tcp'[k] = tcp[k]
        BY <1>2, <2>1 DEF ExitConnected, kcpVars, TypeOK
  <2>3. Ending("exit")'  BY <2>2 DEF Ending, KcpReadPc
  <2> QED  BY <2>1, <2>2, <2>3, OneEnding
<1>3. CASE ConnectThrows
  <2>1. \A n \in Node : n = "entry" \/ n = "exit"  BY DEF Node
  <2>2. /\ kcp'["entry"] = "opened" /\ kcp'["exit"] = "idle"
        /\ UNCHANGED <<tcp2kcp, kcp2tcp>> /\ kcp["entry"] = "none"
        /\ tcp'["entry"] = "closed" /\ tcp'["exit"] = tcp["exit"]
        BY <1>3 DEF ConnectThrows, EndpointThrows, TypeOK, Node
  <2>3. "entry" \in Node /\ "exit" \in Node  BY DEF Node
  <2>4. \A n \in Node : tcp2kcp[n] = "off" /\ kcp2tcp[n] = "off" /\ kcp[n] = "none"
        BY <2>2, <2>3 DEF TunnelInv, Fresh
  <2>5. tcp["exit"] # "open"
        BY <2>3, <2>4 DEF EndingInv, Ending
  <2>6. Ending("entry")' /\ Ending("exit")'  BY <2>2, <2>3, <2>4, <2>5 DEF Ending
  <2> QED  BY <2>1, <2>6 DEF EndingInv
<1> QED  BY <1>1, <1>2, <1>3

\* The steps that move units.
LEMMA MovingEnding ==
  ASSUME TypeOK, TunnelInv, EndingInv, NEW n \in Node,
         TcpRead(n) \/ KcpWritten(n) \/ KcpRead(n) \/ TcpWritten(n) \/ Deliver(n)
  PROVE  EndingInv'
<1> USE DEF TypeOK
<1>1. Ending(n)  BY DEF EndingInv
<1>2. CASE TcpRead(n)
  <2>1. /\ UNCHANGED <<tcp, kcp, kcp2tcp>> /\ tcp2kcp[n] = "read"
        /\ tcp2kcp'[n] \in {"aborted", "written", "write"}
        /\ kcp[n] = "closed" => tcp2kcp'[n] = "aborted"
        /\ \A k \in Node : k # n => tcp2kcp'[k] = tcp2kcp[k]
        BY <1>2 DEF TcpRead, tcpVars
  <2>2. Ending(n)'  BY <1>1, <2>1 DEF Ending
  <2> QED  BY <2>1, <2>2, OneEnding
<1>3. CASE KcpWritten(n)
  <2>1. /\ UNCHANGED <<tcp, kcp, kcp2tcp>>
        /\ tcp2kcp'[n] = IF tcp[n] = "open" THEN "read" ELSE "aborted"
        /\ \A k \in Node : k # n => tcp2kcp'[k] = tcp2kcp[k]
        BY <1>3 DEF KcpWritten, tcpVars, kcpVars
  <2>2. Ending(n)'  BY <1>1, <2>1 DEF Ending
  <2> QED  BY <2>1, <2>2, OneEnding
<1>4. CASE KcpRead(n)
  <2>1. /\ UNCHANGED <<tcp, kcp, tcp2kcp>> /\ kcp2tcp'[n] = TcpWritePc(n)
        /\ \A k \in Node : k # n => kcp2tcp'[k] = kcp2tcp[k]
        BY <1>4 DEF KcpRead, tcpVars
  <2>2. Ending(n)'  BY <1>1, <2>1 DEF Ending, TcpWritePc
  <2> QED  BY <2>1, <2>2, OneEnding
<1>5. CASE TcpWritten(n)
  <2>1. /\ UNCHANGED <<tcp, kcp, tcp2kcp>> /\ kcp2tcp'[n] = KcpReadPc(n)
        /\ \A k \in Node : k # n => kcp2tcp'[k] = kcp2tcp[k]
        BY <1>5 DEF TcpWritten, tcpVars, kcpVars
  <2>2. Ending(n)'  BY <1>1, <2>1 DEF Ending, KcpReadPc
  <2> QED  BY <2>1, <2>2, OneEnding
<1>6. CASE Deliver(n)
  <2> DEFINE m == Peer(n)
  <2>1. m \in Node /\ Ending(m)  BY Peers DEF EndingInv
  <2>2. /\ UNCHANGED <<tcp, tcp2kcp>>
        /\ \A k \in Node : kcp'[k] = IF kcp[k] = "idle" THEN "opened" ELSE kcp[k]
        /\ \A k \in Node : k # m => kcp2tcp'[k] = kcp2tcp[k]
        /\ kcp2tcp'[m] = IF kcp2tcp[m] = "read" THEN TcpWritePc(m) ELSE kcp2tcp[m]
        BY <1>6, <2>1 DEF Deliver, tcpVars
  <2>3. Ending(m)'
    <3>1. kcp'[m] = kcp[m] \/ (kcp[m] = "idle" /\ kcp'[m] = "opened")  BY <2>1, <2>2
    <3>2. CASE kcp2tcp[m] = "read"  BY <2>1, <2>2, <3>1, <3>2 DEF Ending, TcpWritePc
    <3>3. CASE kcp2tcp[m] # "read"  BY <2>1, <2>2, <3>1, <3>3 DEF Ending
    <3> QED  BY <3>2, <3>3
  <2>4. \A k \in Node : kcp'[k] = kcp[k] \/ (kcp[k] = "idle" /\ kcp'[k] \in {"opened", "erased"})
        BY <2>2
  <2> HIDE DEF m
  <2> QED  BY <2>1, <2>2, <2>3, <2>4, OneEnding
<1> QED  BY <1>2, <1>3, <1>4, <1>5, <1>6

\* Silence and disconnects.
LEMMA EventEnding ==
  ASSUME TypeOK, EndingInv, NEW n \in Node, Timeout(n) \/ Bye(n)
  PROVE  EndingInv'
<1>1. CASE Timeout(n)
  <2>1. CASE kcp[n] = "opened" /\ ClosedByEvent(n)
        BY <2>1, ClosedEnding DEF Hears
  <2>2. CASE kcp[n] = "idle" /\ kcp' = [kcp EXCEPT ![n] = "erased"]
             /\ UNCHANGED <<tcp, tcp2kcp, kcp2tcp, bye>>
        BY <2>2, SameEnding DEF EndingInv, TypeOK
  <2> QED  BY <1>1, <2>1, <2>2 DEF Timeout
<1>2. CASE Bye(n)
  <2>1. Peer(n) \in Node  BY Peers
  <2>2. CASE Hears(Peer(n))  BY <1>2, <2>1, <2>2, ClosedEnding DEF Bye
  <2>3. CASE ~Hears(Peer(n))  BY <1>2, <2>3 DEF Bye, EndingInv, Ending
  <2> QED  BY <2>2, <2>3
<1> QED  BY <1>1, <1>2

LEMMA InitEnding == Init => EndingInv
BY DEF Init, EndingInv, Ending, Node

LEMMA NextEnding == TypeOK /\ TunnelInv /\ EndingInv /\ [Next]_vars => EndingInv'
<1> SUFFICES ASSUME TypeOK, TunnelInv, EndingInv, [Next]_vars PROVE EndingInv'  OBVIOUS
<1>1. CASE UNCHANGED vars  BY <1>1 DEF vars, tcpVars, kcpVars, EndingInv, Ending
<1>2. CASE Connect \/ ConnectThrows \/ ExitConnected  BY <1>2, StartEnding
<1>3. CASE ConnectFails \/ ExitConnectFails
  <2>1. "exit" \in Node  BY DEF Node
  <2> QED  BY <1>3, <2>1, QuietEnding
<1>4. ASSUME NEW n \in Node,
             \/ RemoteSends(n) \/ LoseBye(n) \/ \E how \in {"eof", "reset"} : RemoteEnds(n, how)
      PROVE  EndingInv'
      BY <1>4, QuietEnding
<1>5. ASSUME NEW n \in Node, Timeout(n) \/ Bye(n) PROVE EndingInv'
      BY <1>5, EventEnding
<1>6. ASSUME NEW n \in Node, Aborted(n) \/ TcpReadFails(n) \/ TcpWriteFails(n)
      PROVE  EndingInv'
  <2>1. \E c \in Coroutine : Catch(n, c)
        BY <1>6 DEF Aborted, TcpReadFails, TcpWriteFails, Coroutine
  <2> QED  BY <2>1, CatchEnding
<1>7. ASSUME NEW n \in Node,
             TcpRead(n) \/ KcpWritten(n) \/ KcpRead(n) \/ TcpWritten(n) \/ Deliver(n)
      PROVE  EndingInv'
      BY <1>7, MovingEnding
<1> QED  BY <1>1, <1>2, <1>3, <1>4, <1>5, <1>6, <1>7 DEF Next, Session

\* Whatever order the two coroutines of a node, the sockets and the connection end in, a
\* closed connection leaves no end of the tunnel waiting for its TCP peer alone.
THEOREM ClosedWakesAll == Spec => []NoneLeftWaiting
<1>1. TypeOK /\ TunnelInv /\ EndingInv => NoneLeftWaiting
  <2> SUFFICES ASSUME TypeOK, TunnelInv, EndingInv, NEW n \in Node, kcp[n] = "closed",
                      tcp[n] # "none",
                      tcp2kcp[n] \notin {"written", "aborted"},
                      kcp2tcp[n] \notin {"write", "aborted"}
               PROVE  Over(n)
      BY DEF NoneLeftWaiting
  <2>1. Ending(n)  BY DEF EndingInv
  <2>2. tcp2kcp[n] \in {"off", "read", "done"} /\ kcp2tcp[n] \in {"off", "done"}
        BY <2>1 DEF TypeOK, Ending
  <2>3. tcp[n] \in {"open", "closed"}  BY DEF TypeOK
  <2>4. tcp[n] = "closed"  BY <2>1, <2>2, <2>3 DEF Ending
  <2> QED  BY <2>1, <2>2, <2>4 DEF Over, Ending
<1>2. Spec => []EndingInv
  <2>1. TypeOK /\ TunnelInv /\ EndingInv /\ [Next]_vars => EndingInv'  BY NextEnding
  <2> QED  BY <2>1, InitEnding, TunnelInvariant, PTL DEF Spec
<1> QED  BY <1>1, <1>2, TunnelInvariant, PTL

-----------------------------------------------------------------------------
(* Nothing is invented.                                                    *)

\* The unit in the hands of kcp2tcp of k.
InHand(k) == IF kcp2tcp[k] = "write" THEN 1 ELSE 0

\* NothingInvented, in the terms of Flow.
CarriedWithin == \A n \in Node : InTunnel(n) + InHand(Peer(n)) <= taken[n]

LEMMA CarriedIsAll == NothingInvented <=> CarriedWithin
BY DEF NothingInvented, CarriedWithin, InHand, InTunnel

\* The steps that move no unit leave the sum or drop the unit in hand.
LEMMA KeepsCarried ==
  ASSUME TypeOK, CarriedWithin, UNCHANGED <<taken, given, sndq, rcvq>>,
         \A k \in Node : kcp2tcp'[k] = "write" => kcp2tcp[k] = "write"
  PROVE  CarriedWithin'
<1>1. ASSUME NEW n \in Node PROVE InTunnel(n)' + InHand(Peer(n))' <= taken'[n]
  <2>1. InTunnel(n)' = InTunnel(n) /\ taken'[n] = taken[n]  BY DEF InTunnel
  <2>2. Peer(n) \in Node  BY Peers
  <2>3. InHand(Peer(n))' \in 0..InHand(Peer(n))  BY <2>2 DEF InHand
  <2>4. InTunnel(n) \in Nat /\ taken[n] \in Nat /\ InHand(Peer(n)) \in 0..1
        BY <2>2, NodeParts DEF InTunnel, InHand
  <2>5. InTunnel(n) + InHand(Peer(n)) <= taken[n]  BY DEF CarriedWithin
  <2> QED  BY <2>1, <2>3, <2>4, <2>5
<1> QED  BY <1>1 DEF CarriedWithin

\* A step that changes what n's units are accounted for and leaves the other direction.
LEMMA OneCarried ==
  ASSUME TypeOK, CarriedWithin, NEW n \in Node,
         LET m == Peer(n)
         IN taken'[m] = taken[m] /\ InTunnel(m)' = InTunnel(m) /\ kcp2tcp'[n] = kcp2tcp[n],
         InTunnel(n)' + InHand(Peer(n))' <= taken'[n]
  PROVE  CarriedWithin'
<1>1. /\ Peer(n) \in Node /\ Peer(Peer(n)) = n
      /\ \A k \in Node : k = n \/ k = Peer(n)
      BY Peers
<1>2. InTunnel(Peer(n))' + InHand(n)' <= taken'[Peer(n)]
      BY <1>1 DEF CarriedWithin, InHand
<1> QED  BY <1>1, <1>2 DEF CarriedWithin

\* The steps that move units.
LEMMA MovesCarried ==
  ASSUME TypeOK, CarriedWithin, NEW n \in Node,
         TcpRead(n) \/ KcpRead(n) \/ TcpWritten(n) \/ Deliver(n)
  PROVE  CarriedWithin'
<1> DEFINE m == Peer(n)
<1>1. m \in Node /\ m # n /\ Peer(m) = n  BY Peers
<1>2. /\ taken[n] \in Nat /\ given[n] \in Nat /\ sndq[n] \in Nat /\ rcvq[n] \in Nat
      /\ taken[m] \in Nat /\ given[m] \in Nat /\ sndq[m] \in Nat /\ rcvq[m] \in Nat
      BY <1>1, NodeParts
<1>3. /\ given[m] + sndq[n] + rcvq[m] + InHand(m) <= taken[n]
      /\ given[n] + sndq[m] + rcvq[n] + InHand(n) <= taken[m]
      BY <1>1 DEF CarriedWithin, InTunnel
<1>4. InHand(m) \in 0..1 /\ InHand(n) \in 0..1 /\ InHand(m)' \in 0..1 /\ InHand(n)' \in 0..1
      BY DEF InHand
<1>5. CASE TcpRead(n)
  <2>1. /\ taken'[n] = taken[n] + 1 /\ taken'[m] = taken[m]
        /\ sndq'[n] \in {sndq[n], sndq[n] + 1} /\ sndq'[m] = sndq[m]
        /\ UNCHANGED <<kcp2tcp, given, rcvq>>
        BY <1>1, <1>5 DEF TcpRead, TypeOK
  <2>2. InTunnel(n)' + InHand(m)' <= taken'[n]
        BY <1>2, <1>3, <1>4, <2>1 DEF InTunnel, InHand
  <2>3. InTunnel(m)' = InTunnel(m)  BY <1>1, <2>1 DEF InTunnel
  <2> QED  BY <2>1, <2>2, <2>3, OneCarried
<1>6. CASE Deliver(n)
  <2>1. /\ taken' = taken /\ given' = given
        /\ sndq[n] > 0 /\ sndq'[n] = sndq[n] - 1 /\ sndq'[m] = sndq[m]
        /\ kcp2tcp'[n] = kcp2tcp[n] /\ rcvq'[n] = rcvq[n]
        /\ \/ kcp2tcp[m] = "read" /\ rcvq'[m] = rcvq[m]
           \/ rcvq'[m] = rcvq[m] + 1 /\ kcp2tcp'[m] = kcp2tcp[m]
        BY <1>1, <1>6 DEF Deliver, TypeOK
  <2>2. InTunnel(n)' + InHand(m)' <= taken'[n]
    <3>1. CASE kcp2tcp[m] = "read" /\ rcvq'[m] = rcvq[m]
      <4>1. InHand(m) = 0  BY <3>1 DEF InHand
      <4> QED  BY <1>2, <1>3, <1>4, <2>1, <3>1, <4>1 DEF InTunnel
    <3>2. CASE rcvq'[m] = rcvq[m] + 1 /\ kcp2tcp'[m] = kcp2tcp[m]
      <4>1. InHand(m)' = InHand(m)  BY <3>2 DEF InHand
      <4> QED  BY <1>2, <1>3, <1>4, <2>1, <3>2, <4>1 DEF InTunnel
    <3> QED  BY <2>1, <3>1, <3>2
  <2>3. InTunnel(m)' = InTunnel(m)  BY <1>1, <2>1 DEF InTunnel
  <2> QED  BY <2>1, <2>2, <2>3, OneCarried
<1>7. CASE KcpRead(n)
  <2>1. /\ taken' = taken /\ given' = given /\ sndq' = sndq
        /\ kcp2tcp[n] = "read" /\ rcvq[n] > 0 /\ rcvq'[n] = rcvq[n] - 1 /\ rcvq'[m] = rcvq[m]
        /\ kcp2tcp'[m] = kcp2tcp[m]
        BY <1>1, <1>7 DEF KcpRead, TypeOK
  <2>2. InHand(n) = 0  BY <2>1 DEF InHand
  <2>3. InTunnel(m)' + InHand(n)' <= taken'[m]
        BY <1>1, <1>2, <1>3, <1>4, <2>1, <2>2 DEF InTunnel
  <2>4. InTunnel(n)' = InTunnel(n)  BY <1>1, <2>1 DEF InTunnel
  <2> QED  BY <1>1, <2>1, <2>3, <2>4, OneCarried
<1>8. CASE TcpWritten(n)
  <2>1. /\ taken' = taken /\ sndq' = sndq /\ rcvq' = rcvq
        /\ given'[n] = given[n] + 1 /\ given'[m] = given[m]
        /\ kcp2tcp[n] = "write" /\ kcp2tcp'[n] # "write" /\ kcp2tcp'[m] = kcp2tcp[m]
        BY <1>1, <1>8 DEF TcpWritten, kcpVars, KcpReadPc, TypeOK
  <2>2. InHand(n) = 1 /\ InHand(n)' = 0  BY <2>1 DEF InHand
  <2>3. InTunnel(m)' + InHand(n)' <= taken'[m]
        BY <1>1, <1>2, <1>3, <2>1, <2>2 DEF InTunnel
  <2>4. InTunnel(n)' = InTunnel(n)  BY <1>1, <2>1 DEF InTunnel
  <2> QED  BY <1>1, <2>1, <2>3, <2>4, OneCarried
<1> QED  BY <1>5, <1>6, <1>7, <1>8

\* Coroutines that end, or are aborted, drop what they had in hand.
LEMMA EndsCarried ==
  ASSUME TypeOK, CarriedWithin, UNCHANGED <<taken, given, sndq, rcvq>>, NEW n \in Node,
         NEW C \in SUBSET Coroutine, NEW closes \in BOOLEAN, Ends(n, C, closes)
  PROVE  CarriedWithin'
<1>1. \A k \in Node : kcp2tcp'[k] \in {kcp2tcp[k], "aborted", "done"}
      BY EndsParts
<1> QED  BY <1>1, KeepsCarried

LEMMA NextCarried == TypeOK /\ CarriedWithin /\ [Next]_vars => CarriedWithin'
<1> SUFFICES ASSUME TypeOK, CarriedWithin, [Next]_vars PROVE CarriedWithin'  OBVIOUS
<1>1. CASE UNCHANGED vars  BY <1>1, KeepsCarried DEF vars, kcpVars
<1>2. CASE \/ Connect \/ ConnectThrows \/ ExitConnected \/ ConnectFails \/ ExitConnectFails
  <2>1. UNCHANGED <<taken, given, sndq, rcvq>>
        BY <1>2 DEF Connect, ConnectThrows, ExitConnected, ConnectFails, ExitConnectFails, kcpVars
  <2>2. \A k \in Node : kcp2tcp'[k] = "write" => kcp2tcp[k] = "write"
        BY <1>2 DEF Connect, ConnectThrows, ExitConnected, ConnectFails, ExitConnectFails,
                    KcpReadPc, kcpVars, TypeOK
  <2> QED  BY <2>1, <2>2, KeepsCarried
<1>3. ASSUME NEW n \in Node,
             \/ KcpWritten(n) \/ RemoteSends(n) \/ LoseBye(n)
             \/ \E how \in {"eof", "reset"} : RemoteEnds(n, how)
      PROVE  CarriedWithin'
      BY <1>3, KeepsCarried DEF KcpWritten, RemoteSends, LoseBye, RemoteEnds, kcpVars, tcpVars
<1>4. ASSUME NEW n \in Node, Timeout(n) \/ Bye(n) PROVE CarriedWithin'
  <2>1. UNCHANGED <<taken, given, sndq, rcvq>>  BY <1>4 DEF Timeout, Bye
  <2>2. \/ kcp2tcp' = kcp2tcp
        \/ \E k \in Node : Ends(k, {}, TRUE)
        BY <1>4, Peers DEF Timeout, Bye, ClosedByEvent
  <2>3. {} \in SUBSET Coroutine /\ TRUE \in BOOLEAN  OBVIOUS
  <2> QED  BY <2>1, <2>2, <2>3, EndsCarried, KeepsCarried
<1>5. ASSUME NEW n \in Node, Aborted(n) \/ TcpReadFails(n) \/ TcpWriteFails(n)
      PROVE  CarriedWithin'
  <2>1. PICK c \in Coroutine : Catch(n, c)
        BY <1>5 DEF Aborted, TcpReadFails, TcpWriteFails, Coroutine
  <2>2. /\ Closes(n) \in BOOLEAN /\ {c} \in SUBSET Coroutine /\ Ends(n, {c}, Closes(n))
        /\ UNCHANGED <<taken, given, sndq, rcvq>>
        BY <2>1 DEF Closes, Catch
  <2> QED  BY <2>2, EndsCarried
<1>6. ASSUME NEW n \in Node, TcpRead(n) \/ KcpRead(n) \/ TcpWritten(n) \/ Deliver(n)
      PROVE  CarriedWithin'
      BY <1>6, MovesCarried
<1> QED  BY <1>1, <1>2, <1>3, <1>4, <1>5, <1>6 DEF Next, Session

\* Whatever closes, aborts or times out, the tunnel writes no unit twice and makes none up:
\* what was written, waits or is in hand at one end was read at the other.
THEOREM NoUnitIsInvented == Spec => []NothingInvented
<1>1. Init => CarriedWithin
      BY Peers DEF Init, CarriedWithin, InTunnel, InHand
<1>2. Spec => []CarriedWithin
  <2>1. TypeOK /\ CarriedWithin /\ [Next]_vars => CarriedWithin'  BY NextCarried
  <2> QED  BY <1>1, <2>1, TunnelInvariant, PTL DEF Spec
<1> QED  BY <1>2, CarriedIsAll, PTL

\* A node whose session is over meets no step that starts it again or moves a unit.
LEMMA NextOver ==
  ASSUME TypeOK, TunnelInv, [Next]_vars, NEW n \in Node, Over(n), kcp[n] = "closed"
  PROVE  Over(n)' /\ kcp'[n] = "closed" /\ taken'[n] = taken[n] /\ given'[n] = given[n]
<1> USE DEF Over, TypeOK
<1>1. CASE UNCHANGED vars  BY <1>1 DEF vars, tcpVars, kcpVars
<1>2. CASE Connect \/ ConnectThrows \/ ExitConnected \/ ConnectFails \/ ExitConnectFails
  <2>1. ~Connect /\ ~ConnectThrows /\ ~ConnectFails
        BY DEF Connect, ConnectThrows, ConnectFails, TunnelInv, Fresh, Node
  <2>2. CASE ExitConnected
    <3>1. n # "exit"  BY <2>2 DEF ExitConnected
    <3> QED  BY <2>2, <3>1 DEF ExitConnected, kcpVars
  <2>3. CASE ExitConnectFails
        BY <2>3 DEF ExitConnectFails, kcpVars
  <2> QED  BY <1>2, <2>1, <2>2, <2>3
<1>3. ASSUME NEW k \in Node,
             \/ KcpWritten(k) \/ RemoteSends(k) \/ LoseBye(k)
             \/ \E how \in {"eof", "reset"} : RemoteEnds(k, how)
      PROVE  Over(n)' /\ kcp'[n] = "closed" /\ taken'[n] = taken[n] /\ given'[n] = given[n]
      BY <1>3 DEF KcpWritten, RemoteSends, LoseBye, RemoteEnds, kcpVars, tcpVars
<1>4. ASSUME NEW k \in Node, TcpRead(k) \/ KcpRead(k) \/ TcpWritten(k) \/ Deliver(k)
      PROVE  Over(n)' /\ kcp'[n] = "closed" /\ taken'[n] = taken[n] /\ given'[n] = given[n]
      BY <1>4, Peers DEF TcpRead, KcpRead, TcpWritten, Deliver, kcpVars, tcpVars
<1>5. ASSUME NEW k \in Node, NEW C \in SUBSET Coroutine, NEW closes \in BOOLEAN,
             Ends(k, C, closes), \A c \in C : At(k, c) \notin {"off", "done"},
             UNCHANGED <<taken, given>>
      PROVE  Over(n)' /\ taken'[n] = taken[n] /\ given'[n] = given[n]
  <2>1. CASE k # n  BY <1>5, <2>1, EndsParts
  <2>2. CASE k = n
    <3>1. C = {}  BY <1>5, <2>2 DEF At, Coroutine
    <3>2. \A o \in Coroutine : ~OnKcp(n, o)  BY DEF OnKcp, Coroutine
    <3>3. /\ After(n, "tcp2kcp", C, closes) = tcp2kcp[n]
          /\ After(n, "kcp2tcp", C, closes) = kcp2tcp[n]
          BY <3>1, <3>2 DEF After, At, Coroutine
    <3> QED  BY <1>5, <2>2, <3>1, <3>2, <3>3 DEF Ends
  <2> QED  BY <2>1, <2>2
<1>6. ASSUME NEW k \in Node, Timeout(k) \/ Bye(k)
      PROVE  Over(n)' /\ kcp'[n] = "closed" /\ taken'[n] = taken[n] /\ given'[n] = given[n]
  <2>1. taken' = taken /\ given' = given  BY <1>6 DEF Timeout, Bye
  <2>2. kcp'[n] = "closed"
    <3>1. CASE Timeout(k)  BY <3>1 DEF Timeout, ClosedByEvent
    <3>2. CASE Bye(k)
      <4>1. kcp' = [kcp EXCEPT ![Peer(k)] = "closed"] \/ kcp' = kcp
            BY <3>2 DEF Bye, ClosedByEvent
      <4> QED  BY <4>1
    <3> QED  BY <1>6, <3>1, <3>2
  <2>3. \/ UNCHANGED <<tcp, tcp2kcp, kcp2tcp>>
        \/ \E j \in Node : Ends(j, {}, TRUE)
        BY <1>6, Peers DEF Timeout, Bye, ClosedByEvent
  <2>4. {} \in SUBSET Coroutine /\ TRUE \in BOOLEAN  OBVIOUS
  <2> QED  BY <1>5, <2>1, <2>2, <2>3, <2>4
<1>7. ASSUME NEW k \in Node, Aborted(k) \/ TcpReadFails(k) \/ TcpWriteFails(k)
      PROVE  Over(n)' /\ kcp'[n] = "closed" /\ taken'[n] = taken[n] /\ given'[n] = given[n]
  <2>1. PICK c \in Coroutine : Catch(k, c) /\ At(k, c) \notin {"off", "done"}
        BY <1>7 DEF Aborted, TcpReadFails, TcpWriteFails, Coroutine, At
  <2>2. /\ Closes(k) \in BOOLEAN /\ {c} \in SUBSET Coroutine /\ Ends(k, {c}, Closes(k))
        /\ UNCHANGED <<taken, given>>
        BY <2>1 DEF Closes, Catch
  <2>3. kcp'[n] = "closed"  BY <2>1 DEF Catch, Closes
  <2> QED  BY <1>5, <2>1, <2>2, <2>3
<1> QED  BY <1>1, <1>2, <1>3, <1>4, <1>6, <1>7 DEF Next, Session

\* The end of a session is final: no completion that comes late starts a coroutine, opens
\* a socket or moves a unit.
THEOREM EndIsFinal == Spec => OverIsFinal
<1>1. TypeOK /\ TunnelInv /\ [Next]_vars =>
        [\A n \in Node : (Over(n) /\ kcp[n] = "closed") =>
           /\ Over(n)' /\ kcp'[n] = "closed"
           /\ taken'[n] = taken[n] /\ given'[n] = given[n]]_vars
      BY NextOver
<1> QED  BY <1>1, TunnelInvariant, PTL DEF Spec, OverIsFinal
=============================================================================
