----------------------------- MODULE KcpProofs -----------------------------
(***************************************************************************)
(* Proofs about Kcp, for windows, segment sizes, numbers of bytes and of   *)
(* datagrams of any size.                                                  *)
(*                                                                         *)
(* The first part proves the type invariant on its own.  The second proves *)
(* IInv, the conjunction of the type invariant and four safety invariants  *)
(* that need each other: the sender forgets only what was received because *)
(* acknowledgements are honest; they are honest because what a datagram    *)
(* carries was numbered by the sender; and the receiver's window is a part *)
(* of the sender's numbers.  IInv is regrouped by endpoint as SenderOK and *)
(* ReceiverOK: a step of one endpoint disturbs its own SenderOK, its own   *)
(* ReceiverOK through what it received, and the ReceiverOK of its peer     *)
(* through what it numbered and forgot.                                    *)
(***************************************************************************)
EXTENDS Kcp, TLAPS

-----------------------------------------------------------------------------
(* Types.                                                                  *)

\* Moving segments from a buffer to rcv_queue (the last loop of ikcp_parse_data and of
\* ikcp_recv) keeps the types and the limit of rcv_queue.
LEMMA DrainType ==
  ASSUME TypeOK, NEW n \in Node, NEW buf, IsWindow(buf, Segment),
         NEW queue \in Seq(Segment), NEW m \in Nat,
         Len(queue) + m <= RcvWnd,
         \A i \in 0..(m - 1) : rcv_nxt[n] + i \in DOMAIN buf,
         Drain(n, buf, queue, m)
  PROVE  /\ rcv_queue' \in [Node -> Seq(Segment)]
         /\ \A k \in Node : Len(rcv_queue'[k]) <= RcvWnd
         /\ rcv_nxt' \in [Node -> Nat]
         /\ DOMAIN rcv_buf' = Node
         /\ \A k \in Node : IsWindow(rcv_buf'[k], Segment)
<1>0. /\ rcv_nxt \in [Node -> Nat] /\ rcv_queue \in [Node -> Seq(Segment)]
      /\ DOMAIN rcv_buf = Node /\ \A k \in Node : IsWindow(rcv_buf[k], Segment)
      /\ \A k \in Node : Len(rcv_queue[k]) <= RcvWnd
  BY DEF TypeOK
<1> DEFINE moved == [i \in 1..m |-> buf[rcv_nxt[n] + i - 1]]
<1>1. [i \in 1..m |-> buf[rcv_nxt[n] + i - 1]] \in Seq(Segment)
  <2>1. ASSUME NEW i \in 1..m PROVE buf[rcv_nxt[n] + i - 1] \in Segment
    <3>1. i - 1 \in 0..(m-1) /\ rcv_nxt[n] + (i - 1) = rcv_nxt[n] + i - 1
      BY <1>0
    <3>2. QED BY <3>1 DEF IsWindow
  <2>2. QED BY <2>1
<1>2. rcv_queue' \in [Node -> Seq(Segment)]
  BY <1>0, <1>1 DEF Drain
<1>7. \A k \in Node : Len(rcv_queue'[k]) <= RcvWnd
  <2>1. rcv_queue' = [rcv_queue EXCEPT ![n] = queue \o moved]
    BY DEF Drain
  <2>2. moved \in Seq(Segment) /\ Len(moved) = m
    BY <1>1
  <2> HIDE DEF moved
  <2>3. Len(queue \o moved) = Len(queue) + m
    BY <2>2
  <2>4. QED
    BY <1>0, <2>1, <2>3
<1>3. rcv_nxt' \in [Node -> Nat]
  BY <1>0 DEF Drain
<1>4. ASSUME NEW k \in Node PROVE IsWindow(rcv_buf'[k], Segment)
  <2>1. CASE k = n
    <3>1. rcv_buf'[k] = [sn \in {s \in DOMAIN buf : s >= rcv_nxt[n] + m} |-> buf[sn]]
      BY <1>0, <2>1 DEF Drain
    <3>2. QED BY <3>1 DEF IsWindow
  <2>2. CASE k # n
    BY <1>0, <2>2 DEF Drain
  <2>3. QED BY <2>1, <2>2
<1>5. DOMAIN rcv_buf' = Node
  BY <1>0 DEF Drain
<1>6. QED BY <1>2, <1>3, <1>4, <1>5, <1>7

\* ikcp_recv keeps the types.
LEMMA RecvType ==
  ASSUME TypeOK, NEW n \in Node, Recv(n)
  PROVE  TypeOK'
<1> DEFINE seg == Head(rcv_queue[n])
           rest == Tail(rcv_queue[n])
<1>1. /\ rcv_nxt \in [Node -> Nat] /\ rcv_queue \in [Node -> Seq(Segment)]
      /\ got \in [Node -> Seq(Nat)] /\ probe \in [Node -> SUBSET {"send", "tell"}]
      /\ \A k \in Node : IsWindow(rcv_buf[k], Segment)
      /\ \A k \in Node : Len(rcv_queue[k]) <= RcvWnd
  BY DEF TypeOK
<1>2. seg \in Segment /\ rest \in Seq(Segment)
  BY <1>1 DEF Recv
<1>3. got' \in [Node -> Seq(Nat)]
  <2>1. [i \in 1..seg.len |-> seg.off + i - 1] \in Seq(Nat)
    <3>1. seg.off \in Nat /\ seg.len \in Nat
      BY <1>2 DEF Segment
    <3> HIDE DEF seg
    <3>2. \A i \in 1..seg.len : seg.off + i - 1 \in Nat
      BY <3>1
    <3>3. QED
      BY <3>1, <3>2
  <2>2. got' = [got EXCEPT ![n] = got[n] \o [i \in 1..seg.len |-> seg.off + i - 1]]
    BY <1>1 DEF Recv
  <2>3. got[n] \o [i \in 1..seg.len |-> seg.off + i - 1] \in Seq(Nat)
    BY <1>1, <2>1
  <2>4. QED
    BY <1>1, <2>2, <2>3
<1>4. probe' \in [Node -> SUBSET {"send", "tell"}]
  BY <1>1 DEF Recv
<1>5. PICK m \in 0..RcvWnd : Drains(n, rcv_buf[n], rest, m) /\ Drain(n, rcv_buf[n], rest, m)
  BY DEF Recv
<1>6. /\ \A i \in 0..(m - 1) : rcv_nxt[n] + i \in DOMAIN rcv_buf[n]
      /\ m <= RcvWnd - Len(rest)
  BY <1>5 DEF Drains
<1>7. m \in Nat /\ Len(rest) + m <= RcvWnd
  BY <1>2, <1>6, KcpAssumption
<1>8. /\ \A k \in Node : Len(rcv_queue'[k]) <= RcvWnd
      /\ rcv_queue' \in [Node -> Seq(Segment)] /\ rcv_nxt' \in [Node -> Nat]
      /\ DOMAIN rcv_buf' = Node /\ \A k \in Node : IsWindow(rcv_buf'[k], Segment)
  BY <1>1, <1>2, <1>5, <1>6, <1>7, DrainType
<1>9. QED
  BY <1>3, <1>4, <1>8 DEF TypeOK, Recv, sndVars

\* Acknowledgements (ikcp_parse_una, ikcp_parse_ack, ikcp_parse_fastack) keep the types of
\* the send side.
LEMMA AcknowledgeType ==
  ASSUME TypeOK, NEW n \in Node, NEW d, Acknowledge(n, d)
  PROVE  /\ snd_una' \in [Node -> Nat]
         /\ DOMAIN snd_buf' = Node
         /\ \A k \in Node : IsWindow(snd_buf'[k], Sent)
<1>1. /\ snd_una \in [Node -> Nat] /\ snd_nxt \in [Node -> Nat]
      /\ DOMAIN snd_buf = Node /\ \A k \in Node : IsWindow(snd_buf[k], Sent)
  BY DEF TypeOK
<1> DEFINE left == {sn \in DOMAIN snd_buf[n] : sn >= d.una /\ sn \notin d.acks}
<1>2. left \subseteq Nat
  BY <1>1 DEF IsWindow
<1>3. snd_una' \in [Node -> Nat]
  BY <1>1, <1>2 DEF Acknowledge
<1>4. ASSUME NEW k \in Node PROVE IsWindow(snd_buf'[k], Sent)
  <2>1. CASE k = n
    <3> DEFINE acked(sn) == [snd_buf[n][sn] EXCEPT
                 !.fastack = IF \E a \in d.acks : sn < a /\ a < snd_nxt[n]
                             THEN Least(@ + 1, FastResend) ELSE @]
    <3>1. snd_buf'[k] = [sn \in left |-> acked(sn)]
      BY <1>1, <2>1 DEF Acknowledge
    <3>2. ASSUME NEW sn \in left PROVE acked(sn) \in Sent
      <4>1. snd_buf[n][sn] \in Sent
        BY <1>1 DEF IsWindow
      <4>2. QED
        BY <4>1, KcpAssumption DEF Sent, Least
    <3> HIDE DEF acked, left
    <3>3. QED
      BY <1>2, <3>1, <3>2 DEF IsWindow
  <2>2. CASE k # n
    BY <1>1, <2>2 DEF Acknowledge
  <2>3. QED
    BY <2>1, <2>2
<1>5. DOMAIN snd_buf' = Node
  BY <1>1 DEF Acknowledge
<1>6. QED
  BY <1>3, <1>4, <1>5

\* Data segments (ikcp_parse_data) keep the types of the receive side.
LEMMA ReceiveType ==
  ASSUME TypeOK, NEW n \in Node, NEW d, IsDatagram(d), Receive(n, d)
  PROVE  /\ rcv_queue' \in [Node -> Seq(Segment)]
         /\ \A k \in Node : Len(rcv_queue'[k]) <= RcvWnd
         /\ rcv_nxt' \in [Node -> Nat]
         /\ DOMAIN rcv_buf' = Node
         /\ \A k \in Node : IsWindow(rcv_buf'[k], Segment)
         /\ acklist' \in [Node -> SUBSET Nat]
<1>1. /\ rcv_nxt \in [Node -> Nat] /\ rcv_queue \in [Node -> Seq(Segment)]
      /\ acklist \in [Node -> SUBSET Nat]
      /\ IsWindow(rcv_buf[n], Segment) /\ Len(rcv_queue[n]) <= RcvWnd
  BY DEF TypeOK
<1>2. IsWindow(d.push, Segment)
  BY DEF IsDatagram
<1> DEFINE inside(m) == {sn \in DOMAIN d.push : sn < rcv_nxt[n] + m + RcvWnd}
           parsed(m) == {sn \in inside(m) : sn >= rcv_nxt[n]}
           buf(m)    == [sn \in DOMAIN rcv_buf[n] \cup parsed(m) |->
                     IF sn \in DOMAIN rcv_buf[n] THEN rcv_buf[n][sn] ELSE d.push[sn]]
<1>3. PICK m \in 0..RcvWnd :
        /\ IF parsed(m) = {} THEN m = 0 ELSE Drains(n, buf(m), rcv_queue[n], m)
        /\ Drain(n, buf(m), rcv_queue[n], m)
        /\ acklist' = [acklist EXCEPT ![n] = @ \cup inside(m)]
  BY DEF Receive
<1>4. inside(m) \subseteq Nat /\ parsed(m) \subseteq DOMAIN d.push
  BY <1>2 DEF IsWindow
<1>5. acklist' \in [Node -> SUBSET Nat]
  BY <1>1, <1>3, <1>4
<1>6. IsWindow(buf(m), Segment)
  <2> HIDE DEF parsed
  <2>1. QED
    BY <1>1, <1>2, <1>4 DEF IsWindow
<1>7. m \in Nat
  BY KcpAssumption
<1>8. /\ \A i \in 0..(m - 1) : rcv_nxt[n] + i \in DOMAIN buf(m)
      /\ Len(rcv_queue[n]) + m <= RcvWnd
  <2> HIDE DEF parsed, buf
  <2>1. CASE parsed(m) = {}
    BY <1>1, <1>3, <2>1
  <2>2. CASE parsed(m) # {}
    BY <1>1, <1>3, <1>7, <2>2, KcpAssumption DEF Drains
  <2>3. QED
    BY <2>1, <2>2
<1>9. QED
  <2> HIDE DEF inside, parsed, buf
  <2>1. QED
    BY <1>1, <1>3, <1>5, <1>6, <1>7, <1>8, DrainType

\* ikcp_input keeps the types.
LEMMA InputType ==
  ASSUME TypeOK, NEW n \in Node, NEW d \in net[n], Input(n, d)
  PROVE  TypeOK'
<1>1. /\ DOMAIN net = Node /\ \A k \in Node : \A e \in net[k] : IsDatagram(e)
      /\ rmt_wnd \in [Node -> Nat] /\ probe \in [Node -> SUBSET {"send", "tell"}]
  BY DEF TypeOK
<1>2. IsDatagram(d)
  BY <1>1
<1>3. d.wnd \in Nat
  BY <1>2, KcpAssumption DEF IsDatagram
<1>4. rmt_wnd' \in [Node -> Nat] /\ probe' \in [Node -> SUBSET {"send", "tell"}]
  BY <1>1, <1>3 DEF Input
<1>5. DOMAIN net' = Node /\ \A k \in Node : net'[k] \subseteq net[k]
  BY <1>1 DEF Input
<1>6. Acknowledge(n, d) /\ Receive(n, d)
  BY DEF Input
<1>7. /\ snd_una' \in [Node -> Nat] /\ DOMAIN snd_buf' = Node
      /\ \A k \in Node : IsWindow(snd_buf'[k], Sent)
  BY <1>6, AcknowledgeType
<1>8. /\ rcv_queue' \in [Node -> Seq(Segment)] /\ rcv_nxt' \in [Node -> Nat]
      /\ \A k \in Node : Len(rcv_queue'[k]) <= RcvWnd
      /\ DOMAIN rcv_buf' = Node /\ \A k \in Node : IsWindow(rcv_buf'[k], Segment)
      /\ acklist' \in [Node -> SUBSET Nat]
  BY <1>2, <1>6, ReceiveType
<1>9. UNCHANGED <<snd_queue, snd_nxt, probe_wait, written, numbered, got>>
  BY DEF Input, histVars
<1>10. \A k \in Node : \A e \in net'[k] : IsDatagram(e)
  BY <1>1, <1>5
<1>11. QED
  BY <1>4, <1>5, <1>7, <1>8, <1>9, <1>10 DEF TypeOK

\* snd_buf after a flush has its type.
LEMMA TransmittedType ==
  ASSUME TypeOK, NEW n \in Node, NEW m \in 0..Len(snd_queue[n]), NEW expired
  PROVE  IsWindow(Transmitted(n, m, expired), Sent)
<1> DEFINE new == snd_nxt[n]..(snd_nxt[n] + m - 1)
           resent == expired \cup FastResends(n, expired)
           entry(sn) ==
             IF sn \notin DOMAIN snd_buf[n]
             THEN [seg |-> snd_queue[n][sn - snd_nxt[n] + 1], xmit |-> 1, fastack |-> 0]
             ELSE [seg |-> snd_buf[n][sn].seg,
                   xmit |-> IF sn \in resent
                            THEN Least(snd_buf[n][sn].xmit + 1, FastLimit + 1)
                            ELSE snd_buf[n][sn].xmit,
                   fastack |-> IF sn \in FastResends(n, expired)
                               THEN 0 ELSE snd_buf[n][sn].fastack]
<1>1. /\ snd_queue[n] \in Seq(Segment) /\ snd_nxt[n] \in Nat
      /\ IsWindow(snd_buf[n], Sent)
  BY DEF TypeOK
<1>2. Transmitted(n, m, expired) = [sn \in DOMAIN snd_buf[n] \cup new |-> entry(sn)]
  BY DEF Transmitted
<1>3. DOMAIN snd_buf[n] \cup new \subseteq Nat
  BY <1>1 DEF IsWindow
<1>4. ASSUME NEW sn \in DOMAIN snd_buf[n] \cup new PROVE entry(sn) \in Sent
  <2>1. CASE sn \in DOMAIN snd_buf[n]
    <3>1. snd_buf[n][sn] \in Sent
      BY <1>1, <2>1 DEF IsWindow
    <3>2. QED
      BY <2>1, <3>1, KcpAssumption DEF Sent, Least
  <2>2. CASE sn \notin DOMAIN snd_buf[n]
    <3>1. sn - snd_nxt[n] + 1 \in 1..Len(snd_queue[n])
      BY <1>1, <2>2
    <3>2. snd_queue[n][sn - snd_nxt[n] + 1] \in Segment
      BY <1>1, <3>1
    <3>3. QED
      BY <2>2, <3>2, KcpAssumption DEF Sent
  <2>3. QED
    BY <2>1, <2>2
<1>5. QED
  <2> HIDE DEF entry, new
  <2>1. QED
    BY <1>2, <1>3, <1>4 DEF IsWindow

\* Every datagram of a flush has the type of a datagram.
LEMMA OutputType ==
  ASSUME TypeOK, NEW n \in Node, NEW probes \in Probes(n),
         NEW push, IsWindow(push, Segment), NEW early \in AckDatagrams(n), NEW starts,
         NEW d \in Output(n, early, probes, push, starts)
  PROVE  IsDatagram(d)
<1>1. /\ rcv_nxt[n] \in Nat /\ rcv_queue[n] \in Seq(Segment)
      /\ acklist[n] \subseteq Nat /\ probe[n] \subseteq {"send", "tell"}
  BY DEF TypeOK
<1>2. WndUnused(n) \in 0..RcvWnd
  BY <1>1, KcpAssumption DEF WndUnused
<1>3. probes \subseteq {"send", "tell"}
  BY <1>1 DEF Probes
<1>4. PICK acks, flags, S :
        /\ acks \subseteq Nat /\ flags \subseteq {"send", "tell"} /\ S \subseteq DOMAIN push
        /\ d = Datagram(n, acks, flags, [sn \in S |-> push[sn]])
  BY <1>1, <1>3 DEF Output, AckDatagrams
<1>5. IsWindow([sn \in S |-> push[sn]], Segment)
  BY <1>4 DEF IsWindow
<1>6. QED
  BY <1>1, <1>2, <1>4, <1>5 DEF Datagram, IsDatagram

\* There are two endpoints, each the peer of the other.
LEMMA PeerNode == \A n \in Node : Peer(n) \in Node /\ Peer(n) # n /\ Peer(Peer(n)) = n
BY DEF Node, Peer

\* Datagrams are added to what is on its way to the peer, and some may be lost.
LEMMA TransmitNet ==
  ASSUME DOMAIN net = Node, NEW n \in Node, NEW D, Transmit(n, D)
  PROVE  /\ DOMAIN net' = Node
         /\ \A k \in Node : k # Peer(n) => net'[k] = net[k]
         /\ \A d \in net'[Peer(n)] : d \in net[Peer(n)] \/ d \in D
<1>1. Peer(n) \in Node
  BY PeerNode
<1>2. PICK E \in SUBSET D : net' = [net EXCEPT ![Peer(n)] = @ \cup E]
  BY DEF Transmit
<1>3. QED
  BY <1>1, <1>2

\* A flush pushes segments of snd_buf.
LEMMA PushType ==
  ASSUME TypeOK, NEW n \in Node, NEW m \in 0..Len(snd_queue[n]),
         NEW expired \in SUBSET DOMAIN snd_buf[n],
         NEW pushed, pushed = (DOMAIN Transmitted(n, m, expired) \ DOMAIN snd_buf[n])
                              \cup expired \cup FastResends(n, expired)
  PROVE  /\ pushed \subseteq DOMAIN Transmitted(n, m, expired)
         /\ IsWindow([sn \in pushed |-> Transmitted(n, m, expired)[sn].seg], Segment)
<1>1. DOMAIN snd_buf[n] \subseteq DOMAIN Transmitted(n, m, expired)
  BY DEF Transmitted
<1>2. FastResends(n, expired) \subseteq DOMAIN snd_buf[n]
  BY DEF FastResends
<1>3. pushed \subseteq DOMAIN Transmitted(n, m, expired)
  BY <1>1, <1>2
<1>4. IsWindow(Transmitted(n, m, expired), Sent)
  BY TransmittedType
<1>5. \A sn \in pushed : Transmitted(n, m, expired)[sn].seg \in Segment
  BY <1>3, <1>4 DEF IsWindow, Sent
<1>6. QED
  BY <1>3, <1>4, <1>5 DEF IsWindow

\* ikcp_flush keeps the types.
LEMMA FlushType ==
  ASSUME TypeOK, NEW n \in Node, NEW expired \in SUBSET DOMAIN snd_buf[n],
         NEW probes \in Probes(n), Flush(n, expired, probes)
  PROVE  TypeOK'
<1> DEFINE buf(m)    == Transmitted(n, m, expired)
           pushed(m) == (DOMAIN buf(m) \ DOMAIN snd_buf[n])
                        \cup expired \cup FastResends(n, expired)
           push(m)   == [sn \in pushed(m) |-> buf(m)[sn].seg]
<1>1. PICK m \in 0..Len(snd_queue[n]) :
        /\ snd_queue' = [snd_queue EXCEPT ![n] = SubSeq(@, m + 1, Len(@))]
        /\ snd_buf' = [snd_buf EXCEPT ![n] = buf(m)]
        /\ snd_nxt' = [snd_nxt EXCEPT ![n] = @ + m]
        /\ numbered' = [numbered EXCEPT ![n] = @ \o SubSeq(snd_queue[n], 1, m)]
        /\ \E early \in AckDatagrams(n), starts \in SUBSET pushed(m) :
             Transmit(n, Output(n, early, probes, push(m), starts))
  BY DEF Flush
<1>2. /\ snd_queue \in [Node -> Seq(Segment)] /\ numbered \in [Node -> Seq(Segment)]
      /\ snd_nxt \in [Node -> Nat] /\ probe_wait \in [Node -> {"off", "on"}]
      /\ DOMAIN snd_buf = Node /\ \A k \in Node : IsWindow(snd_buf[k], Sent)
      /\ DOMAIN net = Node /\ \A k \in Node : \A d \in net[k] : IsDatagram(d)
      /\ probe \in [Node -> SUBSET {"send", "tell"}] /\ acklist \in [Node -> SUBSET Nat]
  BY DEF TypeOK
<1>3. m \in Nat /\ m <= Len(snd_queue[n])
  BY <1>2
<1>4. snd_queue' \in [Node -> Seq(Segment)]
  <2>1. SubSeq(snd_queue[n], m + 1, Len(snd_queue[n])) \in Seq(Segment)
    BY <1>2, <1>3
  <2>2. QED
    BY <1>1, <1>2, <2>1
<1>5. numbered' \in [Node -> Seq(Segment)]
  <2>1. SubSeq(snd_queue[n], 1, m) \in Seq(Segment)
    BY <1>2, <1>3
  <2>2. numbered[n] \o SubSeq(snd_queue[n], 1, m) \in Seq(Segment)
    BY <1>2, <2>1
  <2>3. QED
    BY <1>1, <1>2, <2>2
<1>6. DOMAIN snd_buf' = Node /\ \A k \in Node : IsWindow(snd_buf'[k], Sent)
  BY <1>1, <1>2, TransmittedType
<1>7. snd_nxt' \in [Node -> Nat]
  BY <1>1, <1>2, <1>3
<1>8. PICK early \in AckDatagrams(n), starts \in SUBSET pushed(m) :
        Transmit(n, Output(n, early, probes, push(m), starts))
  BY <1>1
<1>9. IsWindow(push(m), Segment)
  BY PushType
<1>10. DOMAIN net' = Node /\ \A k \in Node : \A d \in net'[k] : IsDatagram(d)
  <2> HIDE DEF push
  <2>1. \A d \in Output(n, early, probes, push(m), starts) : IsDatagram(d)
    BY <1>9, OutputType
  <2>2. QED
    BY <1>2, <1>8, <2>1, TransmitNet
<1>11. /\ probe' \in [Node -> SUBSET {"send", "tell"}] /\ acklist' \in [Node -> SUBSET Nat]
       /\ probe_wait' \in [Node -> {"off", "on"}]
  BY <1>2 DEF Flush
<1>12. UNCHANGED <<snd_una, rmt_wnd, rcv_nxt, rcv_buf, rcv_queue, written, got>>
  BY DEF Flush, rcvVars
<1>13. QED
  BY <1>4, <1>5, <1>6, <1>7, <1>10, <1>11, <1>12 DEF TypeOK

\* Filling the last segment of snd_queue keeps it a queue of segments, and takes no more
\* bytes than ikcp_send was given.
LEMMA ExtendedType ==
  ASSUME TypeOK, NEW n \in Node, NEW len \in Nat
  PROVE  /\ Extension(n, len) \in 0..len
         /\ Extended(n, Extension(n, len)) \in Seq(Segment)
<1> DEFINE q == snd_queue[n]
<1>1. q \in Seq(Segment)
  BY DEF TypeOK
<1>2. CASE ~HasRoom(n)
  BY <1>1, <1>2 DEF Extension, Extended
<1>3. CASE HasRoom(n)
  <2>1. Len(q) \in 1..Len(q) /\ q[Len(q)] \in Segment /\ q[Len(q)].len < Mss
    BY <1>1, <1>3 DEF HasRoom
  <2>2. q[Len(q)].len \in Nat
    BY <2>1 DEF Segment
  <2>3. Extension(n, len) \in 0..len
    BY <1>3, <2>1, <2>2, KcpAssumption DEF Extension, Least
  <2>4. ASSUME NEW e \in Nat PROVE Extended(n, e) \in Seq(Segment)
    <3> DEFINE last == [q[Len(q)] EXCEPT !.len = @ + e]
    <3>1. last \in Segment
      BY <2>1, <2>2 DEF Segment
    <3>2. Extended(n, e) = q \/ Extended(n, e) = [q EXCEPT ![Len(q)] = last]
      BY DEF Extended
    <3> HIDE DEF last, q
    <3>3. [q EXCEPT ![Len(q)] = last] \in Seq(Segment)
      BY <1>1, <2>1, <3>1
    <3>4. QED
      BY <1>1, <3>2, <3>3
  <2>5. QED
    BY <2>3, <2>4
<1>4. QED
  BY <1>2, <1>3

\* The fragments of ikcp_send are segments.
LEMMA FragmentsType ==
  ASSUME NEW off \in Nat, NEW len \in Nat, NEW c \in Nat \ {0}, Needs(len, c)
  PROVE  Fragments(off, len, c) \in Seq(Segment)
<1> DEFINE at(i) == off + (i - 1) * Mss
           size(i) == IF i < c THEN Mss ELSE len - (c - 1) * Mss
<1>1. Mss \in Nat
  BY KcpAssumption
<1>2. (c - 1) * Mss \in Nat /\ (c - 1) * Mss < len
  <2>1. c - 1 \in Nat
    OBVIOUS
  <2>2. \A a \in Nat : a * Mss \in Nat
    BY <1>1
  <2>3. QED
    BY <2>1, <2>2 DEF Needs
<1>3. ASSUME NEW i \in 1..c PROVE at(i) \in Nat /\ size(i) \in Nat
  <2>1. i - 1 \in Nat
    OBVIOUS
  <2>2. \A a \in Nat : a * Mss \in Nat
    BY <1>1
  <2>3. at(i) \in Nat
    BY <2>1, <2>2
  <2>4. size(i) \in Nat
    BY <1>1, <1>2
  <2>5. QED
    BY <2>3, <2>4
<1>4. Fragments(off, len, c) = [i \in 1..c |-> [off |-> at(i), len |-> size(i)]]
  BY DEF Fragments
<1>5. QED
  <2> HIDE DEF at, size
  <2>1. QED
    BY <1>3, <1>4 DEF Segment

\* ikcp_send keeps the types.
LEMMA SendType ==
  ASSUME TypeOK, NEW n \in Node, NEW len \in Nat, Send(n, len)
  PROVE  TypeOK'
<1> DEFINE e == Extension(n, len)
           rest == len - e
<1>1. snd_queue \in [Node -> Seq(Segment)] /\ written \in [Node -> Nat]
  BY DEF TypeOK
<1>2. e \in Nat /\ e <= len /\ Extended(n, e) \in Seq(Segment)
  BY ExtendedType
<1>3. rest \in Nat
  BY <1>2
<1>4. snd_queue' \in [Node -> Seq(Segment)] /\ written' \in [Node -> Nat]
  <2>1. CASE /\ snd_queue' = [snd_queue EXCEPT ![n] = Extended(n, e)]
             /\ \/ written' = [written EXCEPT ![n] = @ + len]
                \/ written' = [written EXCEPT ![n] = @ + e]
    BY <1>1, <1>2, <2>1
  <2>2. ASSUME NEW c \in 1..rest, Needs(rest, c),
               snd_queue' = [snd_queue EXCEPT ![n] =
                               Extended(n, e) \o Fragments(written[n] + e, rest, c)],
               written' = [written EXCEPT ![n] = @ + len]
        PROVE  snd_queue' \in [Node -> Seq(Segment)] /\ written' \in [Node -> Nat]
    <3>1. c \in Nat \ {0} /\ written[n] + e \in Nat
      BY <1>1, <1>2, <1>3
    <3> HIDE DEF e, rest
    <3>2. Fragments(written[n] + e, rest, c) \in Seq(Segment)
      BY <1>3, <2>2, <3>1, FragmentsType
    <3>3. Extended(n, e) \o Fragments(written[n] + e, rest, c) \in Seq(Segment)
      BY <1>2, <3>2
    <3>4. QED
      BY <1>1, <2>2, <3>3
  <2>3. QED
    BY <2>1, <2>2 DEF Send
<1>5. UNCHANGED <<snd_buf, snd_una, snd_nxt, rmt_wnd, probe_wait, rcv_nxt, rcv_buf,
                  rcv_queue, probe, acklist, net, numbered, got>>
  BY DEF Send, rcvVars, ackVars
<1>6. QED
  BY <1>4, <1>5 DEF TypeOK

\* Every step keeps the types: TypeOK is inductive.
LEMMA NextType == TypeOK /\ [Next]_vars => TypeOK'
<1> SUFFICES ASSUME TypeOK, [Next]_vars PROVE TypeOK'
  OBVIOUS
<1>1. ASSUME NEW n \in Node, NEW len \in 1..MaxBytes[n], Send(n, len) PROVE TypeOK'
  BY <1>1, KcpAssumption, SendType
<1>2. ASSUME NEW n \in Node, NEW expired \in SUBSET DOMAIN snd_buf[n],
             NEW probes \in Probes(n), Flush(n, expired, probes)
      PROVE TypeOK'
  BY <1>2, FlushType
<1>3. ASSUME NEW n \in Node, NEW d \in net[n], Input(n, d) PROVE TypeOK'
  BY <1>3, InputType
<1>4. ASSUME NEW n \in Node, Recv(n) PROVE TypeOK'
  BY <1>4, RecvType
<1>5. CASE UNCHANGED vars
  BY <1>5 DEF TypeOK, vars, sndVars, rcvVars, ackVars, histVars
<1>6. QED
  BY <1>1, <1>2, <1>3, <1>4, <1>5 DEF Next

-----------------------------------------------------------------------------
(* Safety.                                                                 *)

\* The inductive invariant.
IInv ==
  /\ TypeOK
  /\ WindowsRespected
  /\ NumbersAreStable
  /\ AcksAreHonest
  /\ ForgottenIsReceived

\* An endpoint is either of the two.
LEMMA TwoNodes == \A n, k \in Node : k = n \/ k = Peer(n)
BY DEF Node, Peer

\* Moving segments from a buffer that holds only segments the peer numbered keeps rcv_nxt
\* behind the peer's snd_nxt and rcv_buf inside the window, and gives up nothing received.
LEMMA DrainSafe ==
  ASSUME IInv, NEW n \in Node, NEW buf, IsWindow(buf, Segment), NEW queue, NEW m \in Nat,
         DOMAIN rcv_buf[n] \subseteq DOMAIN buf,
         \A sn \in DOMAIN buf : /\ rcv_nxt[n] <= sn /\ sn < rcv_nxt[n] + m + RcvWnd
                                /\ sn < snd_nxt[Peer(n)]
                                /\ buf[sn] = numbered[Peer(n)][sn + 1],
         \A i \in 0..(m - 1) : rcv_nxt[n] + i \in DOMAIN buf,
         Drain(n, buf, queue, m)
  PROVE  /\ rcv_nxt'[n] <= snd_nxt[Peer(n)]
         /\ DOMAIN rcv_buf'[n] \subseteq rcv_nxt'[n]..(rcv_nxt'[n] + RcvWnd - 1)
         /\ \A sn \in DOMAIN rcv_buf'[n] :
              sn < snd_nxt[Peer(n)] /\ rcv_buf'[n][sn] = numbered[Peer(n)][sn + 1]
         /\ \A sn \in Nat : Received(n, sn) \/ sn \in DOMAIN buf => Received(n, sn)'
         /\ rcv_nxt'[n] \in Nat /\ rcv_nxt'[n] >= rcv_nxt[n]
         /\ \A k \in Node \ {n} : rcv_nxt'[k] = rcv_nxt[k] /\ rcv_buf'[k] = rcv_buf[k]
<1>1. /\ rcv_nxt \in [Node -> Nat] /\ snd_nxt \in [Node -> Nat]
      /\ DOMAIN rcv_buf = Node
      /\ Peer(n) \in Node
  BY PeerNode DEF IInv, TypeOK
<1>2. rcv_nxt' = [rcv_nxt EXCEPT ![n] = @ + m]
  BY DEF Drain
<1>3. rcv_nxt'[n] = rcv_nxt[n] + m
  BY <1>1, <1>2
<1>4. rcv_buf'[n] = [sn \in {s \in DOMAIN buf : s >= rcv_nxt[n] + m} |-> buf[sn]]
  BY <1>1 DEF Drain
<1>5. rcv_nxt'[n] <= snd_nxt[Peer(n)]
  <2>1. CASE m = 0
    BY <1>1, <1>3, <2>1 DEF IInv, AcksAreHonest
  <2>2. CASE m # 0
    <3>1. rcv_nxt[n] + (m - 1) \in DOMAIN buf
      BY <2>2
    <3>2. rcv_nxt[n] + (m - 1) < snd_nxt[Peer(n)]
      BY <3>1
    <3>3. QED
      BY <1>1, <1>3, <3>2
  <2>3. QED
    BY <2>1, <2>2
<1>6. DOMAIN buf \subseteq Nat
  BY DEF IsWindow
<1>7. DOMAIN rcv_buf'[n] \subseteq rcv_nxt'[n]..(rcv_nxt'[n] + RcvWnd - 1)
  BY <1>1, <1>3, <1>4, <1>6, KcpAssumption
<1>8. \A sn \in DOMAIN rcv_buf'[n] :
        sn < snd_nxt[Peer(n)] /\ rcv_buf'[n][sn] = numbered[Peer(n)][sn + 1]
  BY <1>4
<1>9. ASSUME NEW sn \in Nat, Received(n, sn) \/ sn \in DOMAIN buf
      PROVE  Received(n, sn)'
  <2>1. CASE sn < rcv_nxt[n] + m
    BY <1>3, <2>1 DEF Received
  <2>2. CASE ~(sn < rcv_nxt[n] + m)
    <3>1. sn >= rcv_nxt[n] + m
      BY <1>1, <2>2
    <3>2. ~(sn < rcv_nxt[n])
      BY <1>1, <3>1
    <3>3. sn \in DOMAIN buf
      BY <1>9, <3>2 DEF Received
    <3>4. sn \in DOMAIN rcv_buf'[n]
      BY <1>4, <3>1, <3>3
    <3>5. QED
      BY <3>4 DEF Received
  <2>3. QED
    BY <2>1, <2>2
<1>10. \A k \in Node \ {n} : rcv_nxt'[k] = rcv_nxt[k] /\ rcv_buf'[k] = rcv_buf[k]
  BY <1>1, <1>2 DEF Drain
<1>11. rcv_nxt'[n] \in Nat /\ rcv_nxt'[n] >= rcv_nxt[n]
  BY <1>1, <1>3
<1>12. QED
  BY <1>5, <1>7, <1>8, <1>9, <1>10, <1>11

\* What IInv says of n as a sender.
SenderOK(n) ==
  /\ snd_una[n] <= snd_nxt[n] /\ snd_nxt[n] <= snd_una[n] + SndWnd
  /\ DOMAIN snd_buf[n] \subseteq snd_una[n]..(snd_nxt[n] - 1)
  /\ snd_nxt[n] = Len(numbered[n])
  /\ \A sn \in DOMAIN snd_buf[n] : snd_buf[n][sn].seg = numbered[n][sn + 1]

\* What IInv says of n as the receiver of what its peer sends.
ReceiverOK(n) ==
  /\ DOMAIN rcv_buf[n] \subseteq rcv_nxt[n]..(rcv_nxt[n] + RcvWnd - 1)
  /\ \A d \in net[n] : \A sn \in DOMAIN d.push :
       sn < snd_nxt[Peer(n)] /\ d.push[sn] = numbered[Peer(n)][sn + 1]
  /\ \A sn \in DOMAIN rcv_buf[n] :
       sn < snd_nxt[Peer(n)] /\ rcv_buf[n][sn] = numbered[Peer(n)][sn + 1]
  /\ rcv_nxt[n] <= snd_nxt[Peer(n)]
  /\ \A sn \in acklist[n] : sn < snd_nxt[Peer(n)] /\ Received(n, sn)
  /\ \A d \in net[Peer(n)] :
       /\ d.una <= rcv_nxt[n]
       /\ \A sn \in d.acks : sn < snd_nxt[Peer(n)] /\ Received(n, sn)
  /\ \A sn \in 0..(snd_nxt[Peer(n)] - 1) :
       sn \in DOMAIN snd_buf[Peer(n)] \/ Received(n, sn)

\* IInv, endpoint by endpoint.
LEMMA Parts == IInv => \A n \in Node : SenderOK(n) /\ ReceiverOK(n)
BY PeerNode DEF IInv, WindowsRespected, NumbersAreStable, AcksAreHonest,
                ForgottenIsReceived, SenderOK, ReceiverOK

\* IInv after a step, from its parts.
LEMMA PartsSuffice == TypeOK' /\ (\A n \in Node : SenderOK(n)' /\ ReceiverOK(n)') => IInv'
BY PeerNode DEF IInv, WindowsRespected, NumbersAreStable, AcksAreHonest,
                ForgottenIsReceived, SenderOK, ReceiverOK

\* A step of the receiver n that keeps its acknowledgements honest and forgets nothing
\* it received.
LEMMA ReceiverStep ==
  ASSUME IInv, TypeOK', NEW n \in Node,
         rcv_nxt'[n] <= snd_nxt[Peer(n)],
         DOMAIN rcv_buf'[n] \subseteq rcv_nxt'[n]..(rcv_nxt'[n] + RcvWnd - 1),
         \A sn \in DOMAIN rcv_buf'[n] :
           sn < snd_nxt[Peer(n)] /\ rcv_buf'[n][sn] = numbered[Peer(n)][sn + 1],
         \A sn \in Nat : Received(n, sn) => Received(n, sn)',
         rcv_nxt'[n] >= rcv_nxt[n],
         \A sn \in acklist'[n] : sn < snd_nxt[Peer(n)] /\ Received(n, sn)',
         UNCHANGED <<snd_nxt, numbered>>,
         snd_buf'[Peer(n)] = snd_buf[Peer(n)],
         net'[Peer(n)] \subseteq net[Peer(n)], net'[n] \subseteq net[n]
  PROVE  ReceiverOK(n)'
<1>1. /\ rcv_nxt \in [Node -> Nat] /\ snd_nxt \in [Node -> Nat] /\ rcv_nxt' \in [Node -> Nat]
      /\ Peer(n) \in Node /\ Peer(Peer(n)) = n
      /\ \A d \in net[Peer(n)] : d.una \in Nat /\ d.acks \subseteq Nat
  BY PeerNode DEF IInv, TypeOK, IsDatagram
<1>2. \A d \in net[n] : \A sn \in DOMAIN d.push :
        sn < snd_nxt[Peer(n)] /\ d.push[sn] = numbered[Peer(n)][sn + 1]
  BY <1>1 DEF IInv, NumbersAreStable
<1>3. \A d \in net[Peer(n)] :
        /\ d.una <= rcv_nxt[n]
        /\ \A sn \in d.acks : sn < snd_nxt[Peer(n)] /\ Received(n, sn)
  BY DEF IInv, AcksAreHonest
<1>4. \A sn \in 0..(snd_nxt[Peer(n)] - 1) :
        sn \in DOMAIN snd_buf[Peer(n)] \/ Received(n, sn)
  BY <1>1 DEF IInv, ForgottenIsReceived
<1>5. \A d \in net'[Peer(n)] :
        /\ d.una <= rcv_nxt'[n]
        /\ \A sn \in d.acks : sn < snd_nxt[Peer(n)] /\ Received(n, sn)'
  BY <1>1, <1>3
<1>6. \A sn \in 0..(snd_nxt[Peer(n)] - 1) :
        sn \in DOMAIN snd_buf[Peer(n)] \/ Received(n, sn)'
  BY <1>1, <1>4
<1>7. QED
  BY <1>2, <1>5, <1>6 DEF ReceiverOK

\* ikcp_recv keeps IInv.
LEMMA RecvSafe ==
  ASSUME IInv, TypeOK', NEW n \in Node, Recv(n)
  PROVE  IInv'
<1> DEFINE rest == Tail(rcv_queue[n])
<1>1. PICK m \in 0..RcvWnd : Drains(n, rcv_buf[n], rest, m) /\ Drain(n, rcv_buf[n], rest, m)
  BY DEF Recv
<1>2. m \in Nat /\ \A i \in 0..(m - 1) : rcv_nxt[n] + i \in DOMAIN rcv_buf[n]
  BY <1>1, KcpAssumption DEF Drains
<1>3. /\ rcv_nxt \in [Node -> Nat] /\ IsWindow(rcv_buf[n], Segment)
      /\ Peer(n) \in Node /\ Peer(n) # n /\ Peer(Peer(n)) = n
  BY PeerNode DEF IInv, TypeOK
<1>4. \A k \in Node : SenderOK(k) /\ ReceiverOK(k)
  BY Parts
<1>5. \A sn \in DOMAIN rcv_buf[n] :
        /\ rcv_nxt[n] <= sn /\ sn < rcv_nxt[n] + m + RcvWnd
        /\ sn < snd_nxt[Peer(n)]
        /\ rcv_buf[n][sn] = numbered[Peer(n)][sn + 1]
  BY <1>2, <1>3, <1>4, KcpAssumption DEF ReceiverOK
<1>6. /\ rcv_nxt'[n] <= snd_nxt[Peer(n)]
      /\ DOMAIN rcv_buf'[n] \subseteq rcv_nxt'[n]..(rcv_nxt'[n] + RcvWnd - 1)
      /\ \A sn \in DOMAIN rcv_buf'[n] :
           sn < snd_nxt[Peer(n)] /\ rcv_buf'[n][sn] = numbered[Peer(n)][sn + 1]
      /\ \A sn \in Nat : Received(n, sn) => Received(n, sn)'
      /\ rcv_nxt'[n] \in Nat /\ rcv_nxt'[n] >= rcv_nxt[n]
      /\ \A k \in Node \ {n} : rcv_nxt'[k] = rcv_nxt[k] /\ rcv_buf'[k] = rcv_buf[k]
  <2> HIDE DEF rest
  <2>1. QED
    BY <1>1, <1>2, <1>3, <1>5, DrainSafe
<1>7. UNCHANGED <<snd_queue, snd_buf, snd_una, snd_nxt, acklist, net, numbered>>
  BY DEF Recv, sndVars
<1>8. \A sn \in acklist'[n] : sn < snd_nxt[Peer(n)] /\ Received(n, sn)'
  <2>1. acklist[n] \subseteq Nat
    BY DEF IInv, TypeOK
  <2>2. QED
    BY <1>4, <1>6, <1>7, <2>1 DEF ReceiverOK
<1>9. ReceiverOK(n)'
  BY <1>6, <1>7, <1>8, ReceiverStep
<1>10. ReceiverOK(Peer(n))'
  BY <1>3, <1>4, <1>6, <1>7 DEF ReceiverOK, Received
<1>11. \A k \in Node : SenderOK(k)'
  BY <1>4, <1>7 DEF SenderOK
<1>12. \A k \in Node : SenderOK(k)' /\ ReceiverOK(k)'
  BY <1>9, <1>10, <1>11, TwoNodes
<1>13. QED
  BY <1>12, PartsSuffice

\* Acknowledgements move snd_una forward inside the window, and a segment they remove from
\* snd_buf is one the peer received.
LEMMA AcknowledgeSafe ==
  ASSUME IInv, NEW n \in Node, NEW d \in net[n], Acknowledge(n, d),
         UNCHANGED <<snd_nxt, numbered>>
  PROVE  /\ SenderOK(n)'
         /\ \A sn \in DOMAIN snd_buf[n] \ DOMAIN snd_buf'[n] : Received(Peer(n), sn)
         /\ snd_buf'[Peer(n)] = snd_buf[Peer(n)] /\ snd_una'[Peer(n)] = snd_una[Peer(n)]
<1> DEFINE left == {sn \in DOMAIN snd_buf[n] : sn >= d.una /\ sn \notin d.acks}
<1>1. /\ snd_una \in [Node -> Nat] /\ snd_nxt \in [Node -> Nat] /\ rcv_nxt \in [Node -> Nat]
      /\ DOMAIN snd_buf = Node /\ IsWindow(snd_buf[n], Sent) /\ IsDatagram(d)
      /\ Peer(n) \in Node /\ Peer(n) # n /\ Peer(Peer(n)) = n
  BY PeerNode DEF IInv, TypeOK
<1>2. SenderOK(n) /\ ReceiverOK(Peer(n))
  BY <1>1, Parts
<1>3. DOMAIN snd_buf'[n] = left
  BY <1>1 DEF Acknowledge
<1>4. \A sn \in left : snd_buf'[n][sn].seg = snd_buf[n][sn].seg
  <2>1. ASSUME NEW sn \in left PROVE snd_buf'[n][sn].seg = snd_buf[n][sn].seg
    <3>1. snd_buf[n][sn] \in Sent
      BY <1>1 DEF IsWindow
    <3>2. PICK f : snd_buf'[n][sn] = [snd_buf[n][sn] EXCEPT !.fastack = f]
      BY <1>1 DEF Acknowledge
    <3>3. QED
      BY <3>1, <3>2 DEF Sent
  <2>2. QED
    BY <2>1
<1>5. PICK una \in left \cup {snd_nxt[n]} :
        (\A sn \in left : una <= sn) /\ snd_una' = [snd_una EXCEPT ![n] = una]
  BY DEF Acknowledge
<1>6. snd_una'[n] = una
  BY <1>1, <1>5
<1>7. left \subseteq Nat
  BY <1>1 DEF IsWindow
<1>8. una \in Nat /\ snd_una[n] <= una /\ una <= snd_nxt[n]
  BY <1>1, <1>2, <1>5 DEF SenderOK
<1>9. /\ una <= snd_nxt[n] /\ snd_nxt[n] <= una + SndWnd
      /\ left \subseteq una..(snd_nxt[n] - 1)
  <2>1. snd_nxt[n] <= una + SndWnd
    BY <1>1, <1>2, <1>8, KcpAssumption DEF SenderOK
  <2>2. ASSUME NEW sn \in left PROVE sn \in una..(snd_nxt[n] - 1)
    <3>1. sn \in snd_una[n]..(snd_nxt[n] - 1)
      BY <1>2 DEF SenderOK
    <3>2. una <= sn
      BY <1>5
    <3>3. QED
      BY <1>1, <1>7, <1>8, <3>1, <3>2
  <2>3. QED
    BY <1>8, <2>1, <2>2
<1>10. SenderOK(n)'
  <2> HIDE DEF left
  <2>1. \A sn \in left : snd_buf'[n][sn].seg = numbered[n][sn + 1]
    BY <1>2, <1>4 DEF SenderOK, left
  <2>2. QED
    BY <1>2, <1>3, <1>6, <1>9, <2>1 DEF SenderOK
<1>11. ASSUME NEW sn \in DOMAIN snd_buf[n] \ DOMAIN snd_buf'[n] PROVE Received(Peer(n), sn)
  <2>1. sn \in Nat /\ d.una \in Nat
    BY <1>1 DEF IsWindow, IsDatagram
  <2>2. sn < d.una \/ sn \in d.acks
    BY <1>3, <2>1
  <2>3. d.una <= rcv_nxt[Peer(n)] /\ \A a \in d.acks : Received(Peer(n), a)
    BY <1>1, <1>2 DEF ReceiverOK
  <2>4. QED
    BY <1>1, <2>1, <2>2, <2>3 DEF Received
<1>12. QED
  BY <1>1, <1>10, <1>11 DEF Acknowledge

\* ikcp_input keeps IInv.
LEMMA InputSafe ==
  ASSUME IInv, TypeOK', NEW n \in Node, NEW d \in net[n], Input(n, d)
  PROVE  IInv'
<1>1. /\ rcv_nxt \in [Node -> Nat] /\ IsWindow(rcv_buf[n], Segment) /\ IsDatagram(d)
      /\ DOMAIN net = Node /\ acklist \in [Node -> SUBSET Nat]
      /\ Peer(n) \in Node /\ Peer(n) # n /\ Peer(Peer(n)) = n
  BY PeerNode DEF IInv, TypeOK
<1>2. \A k \in Node : SenderOK(k) /\ ReceiverOK(k)
  BY Parts
<1>3. UNCHANGED <<snd_queue, snd_nxt, numbered>>
  BY DEF Input, histVars
<1>4. \A k \in Node : net'[k] \subseteq net[k]
  BY <1>1 DEF Input
<1>5. /\ SenderOK(n)'
      /\ \A sn \in DOMAIN snd_buf[n] \ DOMAIN snd_buf'[n] : Received(Peer(n), sn)
      /\ snd_buf'[Peer(n)] = snd_buf[Peer(n)] /\ snd_una'[Peer(n)] = snd_una[Peer(n)]
  BY <1>3, AcknowledgeSafe DEF Input
<1> DEFINE inside(m) == {sn \in DOMAIN d.push : sn < rcv_nxt[n] + m + RcvWnd}
           parsed(m) == {sn \in inside(m) : sn >= rcv_nxt[n]}
           buf(m)    == [sn \in DOMAIN rcv_buf[n] \cup parsed(m) |->
                     IF sn \in DOMAIN rcv_buf[n] THEN rcv_buf[n][sn] ELSE d.push[sn]]
<1>6. PICK m \in 0..RcvWnd :
        /\ IF parsed(m) = {} THEN m = 0 ELSE Drains(n, buf(m), rcv_queue[n], m)
        /\ Drain(n, buf(m), rcv_queue[n], m)
        /\ acklist' = [acklist EXCEPT ![n] = @ \cup inside(m)]
  BY DEF Input, Receive
<1>7. m \in Nat
  BY KcpAssumption
<1>8. \A i \in 0..(m - 1) : rcv_nxt[n] + i \in DOMAIN buf(m)
  <2> HIDE DEF parsed, buf
  <2>1. QED
    BY <1>6, <1>7 DEF Drains
<1>9. \A sn \in DOMAIN d.push :
        sn \in Nat /\ sn < snd_nxt[Peer(n)] /\ d.push[sn] = numbered[Peer(n)][sn + 1]
  BY <1>1, <1>2 DEF ReceiverOK, IsDatagram, IsWindow
<1>10. \A sn \in DOMAIN buf(m) :
        /\ rcv_nxt[n] <= sn /\ sn < rcv_nxt[n] + m + RcvWnd
        /\ sn < snd_nxt[Peer(n)]
        /\ buf(m)[sn] = numbered[Peer(n)][sn + 1]
  <2>1. ASSUME NEW sn \in DOMAIN rcv_buf[n]
        PROVE  /\ rcv_nxt[n] <= sn /\ sn < rcv_nxt[n] + m + RcvWnd
               /\ sn < snd_nxt[Peer(n)] /\ rcv_buf[n][sn] = numbered[Peer(n)][sn + 1]
    <3>1. sn \in rcv_nxt[n]..(rcv_nxt[n] + RcvWnd - 1)
      BY <1>2 DEF ReceiverOK
    <3>2. QED
      BY <1>1, <1>2, <1>7, <3>1, KcpAssumption DEF ReceiverOK
  <2>2. ASSUME NEW sn \in parsed(m)
        PROVE  /\ rcv_nxt[n] <= sn /\ sn < rcv_nxt[n] + m + RcvWnd
               /\ sn < snd_nxt[Peer(n)] /\ d.push[sn] = numbered[Peer(n)][sn + 1]
    BY <1>1, <1>9
  <2> HIDE DEF parsed
  <2>3. QED
    BY <2>1, <2>2
<1>11. IsWindow(buf(m), Segment)
  <2>1. parsed(m) \subseteq DOMAIN d.push
    OBVIOUS
  <2> HIDE DEF parsed
  <2>2. QED
    BY <1>1, <2>1 DEF IsWindow, IsDatagram
<1>12. DOMAIN rcv_buf[n] \subseteq DOMAIN buf(m) /\ parsed(m) \subseteq DOMAIN buf(m)
  OBVIOUS
<1>13. /\ rcv_nxt'[n] <= snd_nxt[Peer(n)]
       /\ DOMAIN rcv_buf'[n] \subseteq rcv_nxt'[n]..(rcv_nxt'[n] + RcvWnd - 1)
       /\ \A sn \in DOMAIN rcv_buf'[n] :
            sn < snd_nxt[Peer(n)] /\ rcv_buf'[n][sn] = numbered[Peer(n)][sn + 1]
       /\ \A sn \in Nat : Received(n, sn) \/ sn \in DOMAIN buf(m) => Received(n, sn)'
       /\ rcv_nxt'[n] \in Nat /\ rcv_nxt'[n] >= rcv_nxt[n]
       /\ \A k \in Node \ {n} : rcv_nxt'[k] = rcv_nxt[k] /\ rcv_buf'[k] = rcv_buf[k]
  <2> HIDE DEF inside, parsed, buf
  <2>1. QED
    BY <1>6, <1>7, <1>8, <1>10, <1>11, <1>12, DrainSafe
<1>14. \A sn \in acklist'[n] : sn < snd_nxt[Peer(n)] /\ Received(n, sn)'
  <2>1. ASSUME NEW sn \in inside(m) PROVE sn < snd_nxt[Peer(n)] /\ Received(n, sn)'
    <3>1. sn \in Nat /\ sn < snd_nxt[Peer(n)]
      BY <1>9
    <3>2. CASE sn < rcv_nxt[n]
      BY <1>13, <3>1, <3>2 DEF Received
    <3>3. CASE ~(sn < rcv_nxt[n])
      <4>1. sn \in parsed(m)
        BY <1>1, <3>1, <3>3
      <4> HIDE DEF parsed, buf
      <4>2. QED
        BY <1>12, <1>13, <3>1, <4>1
    <3>4. QED
      BY <3>1, <3>2, <3>3
  <2>2. ASSUME NEW sn \in acklist[n] PROVE sn < snd_nxt[Peer(n)] /\ Received(n, sn)'
    <3>1. sn \in Nat
      BY <1>1
    <3>2. QED
      BY <1>2, <1>13, <3>1 DEF ReceiverOK
  <2>3. acklist'[n] = acklist[n] \cup inside(m)
    BY <1>1, <1>6
  <2> HIDE DEF inside
  <2>4. QED
    BY <2>1, <2>2, <2>3
<1>15. ReceiverOK(n)'
  BY <1>1, <1>3, <1>4, <1>5, <1>13, <1>14, ReceiverStep
<1>16. ReceiverOK(Peer(n))'
  <2>1. acklist'[Peer(n)] = acklist[Peer(n)]
    BY <1>1, <1>6
  <2>2. \A sn : Received(Peer(n), sn)' <=> Received(Peer(n), sn)
    BY <1>1, <1>13 DEF Received
  <2>3. \A sn \in 0..(snd_nxt[n] - 1) : sn \in DOMAIN snd_buf'[n] \/ Received(Peer(n), sn)
    BY <1>1, <1>2, <1>5 DEF ReceiverOK
  <2>4. rcv_nxt'[Peer(n)] = rcv_nxt[Peer(n)] /\ rcv_buf'[Peer(n)] = rcv_buf[Peer(n)]
    BY <1>1, <1>13
  <2>5. QED
    BY <1>1, <1>2, <1>3, <1>4, <2>1, <2>2, <2>3, <2>4 DEF ReceiverOK
<1>17. SenderOK(Peer(n))'
  BY <1>2, <1>3, <1>5, <1>1 DEF SenderOK
<1>18. \A k \in Node : SenderOK(k)' /\ ReceiverOK(k)'
  BY <1>5, <1>15, <1>16, <1>17, TwoNodes
<1>19. QED
  BY <1>18, PartsSuffice

\* Moving segments out of the queue extends numbered and changes nothing in it.
LEMMA NumberedGrows ==
  ASSUME NEW q \in Seq(Segment), NEW old \in Seq(Segment), NEW m \in 0..Len(q)
  PROVE  /\ Len(old \o SubSeq(q, 1, m)) = Len(old) + m
         /\ \A i \in 1..Len(old) : (old \o SubSeq(q, 1, m))[i] = old[i]
         /\ \A j \in 1..m : (old \o SubSeq(q, 1, m))[Len(old) + j] = q[j]
<1>1. m \in Nat /\ m <= Len(q)
  OBVIOUS
<1>2. /\ SubSeq(q, 1, m) \in Seq(Segment) /\ Len(SubSeq(q, 1, m)) = m
      /\ \A j \in 1..m : SubSeq(q, 1, m)[j] = q[j]
  BY <1>1
<1> DEFINE s == SubSeq(q, 1, m)
<1> HIDE DEF s
<1>3. /\ Len(old \o s) = Len(old) + m
      /\ \A i \in 1..Len(old) : (old \o s)[i] = old[i]
      /\ \A j \in 1..m : (old \o s)[Len(old) + j] = s[j]
  BY <1>1, <1>2 DEF s
<1>4. QED
  BY <1>2, <1>3 DEF s

\* What a flush of n does to its send side.
LEMMA FlushSender ==
  ASSUME IInv, NEW n \in Node, NEW m \in 0..Len(snd_queue[n]), NEW expired, Moves(n, m),
         snd_una' = snd_una,
         snd_buf' = [snd_buf EXCEPT ![n] = Transmitted(n, m, expired)],
         snd_nxt' = [snd_nxt EXCEPT ![n] = @ + m],
         numbered' = [numbered EXCEPT ![n] = @ \o SubSeq(snd_queue[n], 1, m)]
  PROVE  /\ SenderOK(n)'
         /\ snd_nxt'[n] \in Nat /\ snd_nxt[n] <= snd_nxt'[n]
         /\ \A sn \in 0..(snd_nxt[n] - 1) : numbered'[n][sn + 1] = numbered[n][sn + 1]
         /\ DOMAIN snd_buf[n] \subseteq DOMAIN snd_buf'[n]
         /\ snd_nxt[n]..(snd_nxt'[n] - 1) \subseteq DOMAIN snd_buf'[n]
         /\ UNCHANGED <<snd_buf[Peer(n)], snd_nxt[Peer(n)], numbered[Peer(n)]>>
<1>1. /\ snd_una \in [Node -> Nat] /\ snd_nxt \in [Node -> Nat] /\ rmt_wnd \in [Node -> Nat]
      /\ snd_queue \in [Node -> Seq(Segment)] /\ numbered \in [Node -> Seq(Segment)]
      /\ DOMAIN snd_buf = Node /\ IsWindow(snd_buf[n], Sent)
      /\ Peer(n) \in Node /\ Peer(n) # n
  BY PeerNode DEF IInv, TypeOK
<1>2. SenderOK(n)
  BY Parts
<1>3. m \in Nat /\ snd_nxt'[n] = snd_nxt[n] + m /\ snd_una'[n] = snd_una[n]
  BY <1>1
<1>4. snd_nxt'[n] <= snd_una[n] + SndWnd
  <2>1. Least(SndWnd, rmt_wnd[n]) <= SndWnd /\ Least(SndWnd, rmt_wnd[n]) \in Nat
    BY <1>1, KcpAssumption DEF Least
  <2>2. m = 0 \/ snd_nxt[n] + m <= snd_una[n] + Least(SndWnd, rmt_wnd[n])
    BY DEF Moves
  <2>3. QED
    BY <1>1, <1>2, <1>3, <2>1, <2>2, KcpAssumption DEF SenderOK
<1>5. /\ Len(numbered'[n]) = Len(numbered[n]) + m
      /\ \A i \in 1..Len(numbered[n]) : numbered'[n][i] = numbered[n][i]
      /\ \A j \in 1..m : numbered'[n][Len(numbered[n]) + j] = snd_queue[n][j]
  <2>1. numbered'[n] = numbered[n] \o SubSeq(snd_queue[n], 1, m)
    BY <1>1
  <2>2. QED
    BY <1>1, <2>1, NumberedGrows
<1>6. Len(numbered[n]) = snd_nxt[n] /\ Len(numbered'[n]) = snd_nxt'[n]
  BY <1>2, <1>3, <1>5 DEF SenderOK
<1>7. /\ DOMAIN snd_buf'[n] = DOMAIN snd_buf[n] \cup (snd_nxt[n]..(snd_nxt[n] + m - 1))
      /\ \A sn \in DOMAIN snd_buf[n] : snd_buf'[n][sn].seg = snd_buf[n][sn].seg
      /\ \A sn \in DOMAIN snd_buf'[n] \ DOMAIN snd_buf[n] :
           snd_buf'[n][sn].seg = snd_queue[n][sn - snd_nxt[n] + 1]
  BY <1>1 DEF Transmitted
<1>8. DOMAIN snd_buf[n] \subseteq snd_una[n]..(snd_nxt[n] - 1)
  BY <1>2 DEF SenderOK
<1>9. DOMAIN snd_buf'[n] \subseteq snd_una'[n]..(snd_nxt'[n] - 1)
  <2>1. snd_una[n] <= snd_nxt[n]
    BY <1>2 DEF SenderOK
  <2>2. ASSUME NEW sn \in DOMAIN snd_buf'[n] PROVE sn \in snd_una[n]..(snd_nxt[n] + m - 1)
    <3>1. CASE sn \in DOMAIN snd_buf[n]
      <4>1. sn \in snd_una[n]..(snd_nxt[n] - 1)
        BY <1>8, <3>1
      <4>2. QED
        BY <1>1, <1>3, <4>1
    <3>2. CASE sn \in snd_nxt[n]..(snd_nxt[n] + m - 1)
      BY <1>1, <1>3, <2>1, <3>2
    <3>3. QED
      BY <1>7, <3>1, <3>2
  <2>3. snd_una'[n] = snd_una[n] /\ snd_nxt'[n] - 1 = snd_nxt[n] + m - 1
    BY <1>1, <1>3
  <2>4. QED
    BY <2>2, <2>3
<1>10. ASSUME NEW sn \in DOMAIN snd_buf'[n]
       PROVE  snd_buf'[n][sn].seg = numbered'[n][sn + 1]
  <2>1. CASE sn \in DOMAIN snd_buf[n]
    <3>1. sn \in 0..(snd_nxt[n] - 1)
      BY <1>1, <1>8, <2>1
    <3>2. sn + 1 \in 1..Len(numbered[n])
      BY <1>1, <1>6, <3>1
    <3>3. QED
      BY <1>2, <1>5, <1>7, <2>1, <3>2 DEF SenderOK
  <2>2. CASE sn \notin DOMAIN snd_buf[n]
    <3>1. sn \in snd_nxt[n]..(snd_nxt[n] + m - 1)
      BY <1>7, <2>2
    <3> DEFINE j == sn - snd_nxt[n] + 1
    <3>2. j \in 1..m /\ sn + 1 = snd_nxt[n] + j
      <4>1. snd_nxt[n] \in Nat /\ m \in Nat
        BY <1>1, <1>3
      <4>2. \A a, b \in Nat : \A c \in a..(a + b - 1) :
              c - a + 1 \in 1..b /\ c + 1 = a + (c - a + 1)
        OBVIOUS
      <4>3. QED
        BY <3>1, <4>1, <4>2
    <3> HIDE DEF j
    <3>3. numbered'[n][snd_nxt[n] + j] = snd_queue[n][j]
      BY <1>5, <1>6, <3>2
    <3>4. numbered'[n][sn + 1] = snd_queue[n][j]
      BY <3>2, <3>3
    <3>5. snd_buf'[n][sn].seg = snd_queue[n][j]
      BY <1>7, <2>2 DEF j
    <3>6. QED
      BY <3>4, <3>5
  <2>3. QED
    BY <2>1, <2>2
<1>11. SenderOK(n)'
  <2>1. snd_una'[n] <= snd_nxt'[n]
    BY <1>1, <1>2, <1>3 DEF SenderOK
  <2>2. QED
    BY <1>3, <1>4, <1>6, <1>9, <1>10, <2>1 DEF SenderOK
<1>12. \A sn \in 0..(snd_nxt[n] - 1) : numbered'[n][sn + 1] = numbered[n][sn + 1]
  BY <1>1, <1>5, <1>6
<1>13. UNCHANGED <<snd_buf[Peer(n)], snd_nxt[Peer(n)], numbered[Peer(n)]>>
  BY <1>1
<1>14. snd_nxt'[n] \in Nat /\ snd_nxt[n] <= snd_nxt'[n]
  BY <1>1, <1>3
<1>15. /\ DOMAIN snd_buf[n] \subseteq DOMAIN snd_buf'[n]
       /\ snd_nxt[n]..(snd_nxt'[n] - 1) \subseteq DOMAIN snd_buf'[n]
  <2>1. snd_nxt'[n] - 1 = snd_nxt[n] + m - 1
    BY <1>1, <1>3
  <2>2. QED
    BY <1>7, <2>1, Zenon
<1>16. QED
  BY <1>11, <1>12, <1>13, <1>14, <1>15

\* Whatever the boundaries, a datagram carries a part of the acks and of the segments.
LEMMA OutputContent ==
  ASSUME NEW n \in Node, NEW early \in AckDatagrams(n), NEW probes, NEW push, NEW starts,
         NEW d \in Output(n, early, probes, push, starts)
  PROVE  /\ d.una = rcv_nxt[n]
         /\ d.acks \subseteq acklist[n]
         /\ DOMAIN d.push \subseteq DOMAIN push
         /\ \A sn \in DOMAIN d.push : d.push[sn] = push[sn]
<1>1. PICK acks, flags, S :
        /\ acks \subseteq acklist[n] /\ S \subseteq DOMAIN push
        /\ d = Datagram(n, acks, flags, [sn \in S |-> push[sn]])
  BY DEF Output, AckDatagrams
<1>2. QED
  BY <1>1 DEF Datagram

\* ikcp_flush keeps IInv.
LEMMA FlushSafe ==
  ASSUME IInv, TypeOK', NEW n \in Node, NEW expired \in SUBSET DOMAIN snd_buf[n],
         NEW probes \in Probes(n), Flush(n, expired, probes)
  PROVE  IInv'
<1> DEFINE buf(m)    == Transmitted(n, m, expired)
           pushed(m) == (DOMAIN buf(m) \ DOMAIN snd_buf[n])
                        \cup expired \cup FastResends(n, expired)
           push(m)   == [sn \in pushed(m) |-> buf(m)[sn].seg]
<1>1. PICK m \in 0..Len(snd_queue[n]) :
        /\ Moves(n, m)
        /\ snd_buf' = [snd_buf EXCEPT ![n] = buf(m)]
        /\ snd_nxt' = [snd_nxt EXCEPT ![n] = @ + m]
        /\ numbered' = [numbered EXCEPT ![n] = @ \o SubSeq(snd_queue[n], 1, m)]
        /\ \E early \in AckDatagrams(n), starts \in SUBSET pushed(m) :
             Transmit(n, Output(n, early, probes, push(m), starts))
  BY DEF Flush
<1>2. UNCHANGED <<snd_una, rcv_nxt, rcv_buf>>
  BY DEF Flush, rcvVars
<1>3. /\ snd_nxt \in [Node -> Nat] /\ acklist \in [Node -> SUBSET Nat]
      /\ rcv_nxt \in [Node -> Nat] /\ DOMAIN snd_buf = Node /\ DOMAIN net = Node
      /\ \A k \in Node : IsWindow(rcv_buf[k], Segment)
      /\ \A k \in Node : \A d \in net[k] : IsDatagram(d)
      /\ Peer(n) \in Node /\ Peer(n) # n /\ Peer(Peer(n)) = n
  BY PeerNode DEF IInv, TypeOK
<1>4. \A k \in Node : SenderOK(k) /\ ReceiverOK(k)
  BY Parts
<1>5. /\ SenderOK(n)'
      /\ snd_nxt'[n] \in Nat /\ snd_nxt[n] <= snd_nxt'[n]
      /\ \A sn \in 0..(snd_nxt[n] - 1) : numbered'[n][sn + 1] = numbered[n][sn + 1]
      /\ DOMAIN snd_buf[n] \subseteq DOMAIN snd_buf'[n]
      /\ snd_nxt[n]..(snd_nxt'[n] - 1) \subseteq DOMAIN snd_buf'[n]
      /\ UNCHANGED <<snd_buf[Peer(n)], snd_nxt[Peer(n)], numbered[Peer(n)]>>
  BY <1>1, <1>2, FlushSender
<1>6. SenderOK(Peer(n))'
  BY <1>2, <1>3, <1>4, <1>5 DEF SenderOK
<1>7. PICK early \in AckDatagrams(n), starts \in SUBSET pushed(m) :
        Transmit(n, Output(n, early, probes, push(m), starts))
  BY <1>1
<1>8. /\ net'[n] = net[n]
      /\ \A d \in net'[Peer(n)] :
           d \in net[Peer(n)] \/ d \in Output(n, early, probes, push(m), starts)
  BY <1>3, <1>7, TransmitNet
<1>9. \A sn \in pushed(m) : sn \in DOMAIN snd_buf'[n] /\ push(m)[sn] = snd_buf'[n][sn].seg
  <2>1. pushed(m) \subseteq DOMAIN buf(m)
    BY PushType DEF IInv
  <2>2. QED
    BY <1>1, <1>3, <2>1
<1>10. \A d \in Output(n, early, probes, push(m), starts) :
         /\ d.una = rcv_nxt[n]
         /\ d.acks \subseteq acklist[n]
         /\ DOMAIN d.push \subseteq pushed(m)
         /\ \A sn \in DOMAIN d.push : d.push[sn] = push(m)[sn]
  <2> HIDE DEF push
  <2>1. DOMAIN push(m) = pushed(m)
    BY DEF push
  <2> HIDE DEF pushed
  <2>2. QED
    BY <2>1, OutputContent
<1>11. ReceiverOK(n)'
  <2>1. acklist'[n] = {}
    BY <1>3 DEF Flush
  <2>2. \A sn : Received(n, sn)' <=> Received(n, sn)
    BY <1>2 DEF Received
  <2>3. ASSUME NEW d \in net'[Peer(n)]
        PROVE  /\ d.una <= rcv_nxt[n]
               /\ \A sn \in d.acks : sn < snd_nxt[Peer(n)] /\ Received(n, sn)
    <3>1. CASE d \in net[Peer(n)]
      BY <1>4, <3>1 DEF ReceiverOK
    <3>2. CASE d \in Output(n, early, probes, push(m), starts)
      <4>1. d.una = rcv_nxt[n] /\ d.acks \subseteq acklist[n]
        BY <1>10, <3>2
      <4>2. QED
        BY <1>3, <1>4, <4>1 DEF ReceiverOK
    <3>3. QED
      BY <1>8, <3>1, <3>2
  <2>4. QED
    BY <1>2, <1>4, <1>5, <1>8, <2>1, <2>2, <2>3 DEF ReceiverOK
<1>12. ReceiverOK(Peer(n))'
  <2>1. ASSUME NEW sn \in Nat, sn < snd_nxt[n]
        PROVE  sn < snd_nxt'[n] /\ numbered'[n][sn + 1] = numbered[n][sn + 1]
    BY <1>3, <1>5, <2>1
  <2>2. ASSUME NEW d \in net'[Peer(n)], NEW sn \in DOMAIN d.push
        PROVE  sn < snd_nxt'[n] /\ d.push[sn] = numbered'[n][sn + 1]
    <3>1. CASE d \in net[Peer(n)]
      <4>1. sn \in Nat
        BY <1>3, <3>1 DEF IsDatagram, IsWindow
      <4>2. sn < snd_nxt[n] /\ d.push[sn] = numbered[n][sn + 1]
        BY <1>3, <1>4, <3>1 DEF ReceiverOK
      <4>3. QED
        BY <2>1, <4>1, <4>2
    <3>2. CASE d \in Output(n, early, probes, push(m), starts)
      <4>1. sn \in DOMAIN snd_buf'[n] /\ d.push[sn] = snd_buf'[n][sn].seg
        BY <1>9, <1>10, <3>2
      <4>2. sn \in snd_una'[n]..(snd_nxt'[n] - 1) /\ d.push[sn] = numbered'[n][sn + 1]
        BY <1>5, <4>1 DEF SenderOK
      <4>3. QED
        BY <1>5, <4>2
    <3>3. QED
      BY <1>8, <3>1, <3>2
  <2>3. ASSUME NEW sn \in DOMAIN rcv_buf[Peer(n)]
        PROVE  sn < snd_nxt'[n] /\ rcv_buf[Peer(n)][sn] = numbered'[n][sn + 1]
    <3>1. sn \in Nat
      BY <1>3 DEF IsWindow
    <3>2. sn < snd_nxt[n] /\ rcv_buf[Peer(n)][sn] = numbered[n][sn + 1]
      BY <1>3, <1>4 DEF ReceiverOK
    <3>3. QED
      BY <2>1, <3>1, <3>2
  <2>4. rcv_nxt[Peer(n)] <= snd_nxt'[n]
    BY <1>3, <1>4, <1>5 DEF ReceiverOK
  <2>5. \A sn : Received(Peer(n), sn)' <=> Received(Peer(n), sn)
    BY <1>2 DEF Received
  <2>6. acklist'[Peer(n)] = acklist[Peer(n)]
    BY <1>3 DEF Flush
  <2>7. \A sn \in acklist[Peer(n)] : sn < snd_nxt'[n] /\ Received(Peer(n), sn)
    <3>1. acklist[Peer(n)] \subseteq Nat
      BY <1>3
    <3>2. QED
      BY <1>3, <1>4, <2>1, <3>1 DEF ReceiverOK
  <2>8. ASSUME NEW d \in net[n]
        PROVE  /\ d.una <= rcv_nxt[Peer(n)]
               /\ \A sn \in d.acks : sn < snd_nxt'[n] /\ Received(Peer(n), sn)
    <3>1. d.acks \subseteq Nat
      BY <1>3 DEF IsDatagram
    <3>2. QED
      BY <1>3, <1>4, <2>1, <3>1 DEF ReceiverOK
  <2>9. ASSUME NEW sn \in 0..(snd_nxt'[n] - 1)
        PROVE  sn \in DOMAIN snd_buf'[n] \/ Received(Peer(n), sn)
    <3>1. CASE sn < snd_nxt[n]
      BY <1>3, <1>4, <1>5, <3>1 DEF ReceiverOK
    <3>2. CASE ~(sn < snd_nxt[n])
      <4>1. sn \in snd_nxt[n]..(snd_nxt'[n] - 1)
        BY <1>3, <1>5, <3>2
      <4>2. QED
        BY <1>5, <4>1
    <3>3. QED
      BY <3>1, <3>2
  <2>10. /\ DOMAIN rcv_buf'[Peer(n)] \subseteq
              rcv_nxt'[Peer(n)]..(rcv_nxt'[Peer(n)] + RcvWnd - 1)
         /\ rcv_buf' = rcv_buf /\ rcv_nxt' = rcv_nxt /\ net'[n] = net[n]
    BY <1>2, <1>3, <1>4, <1>8 DEF ReceiverOK
  <2>11. QED
    <3> HIDE DEF push, pushed, buf
    <3>1. QED
      BY <1>3, <2>2, <2>3, <2>4, <2>5, <2>6, <2>7, <2>8, <2>9, <2>10 DEF ReceiverOK
<1>13. \A k \in Node : SenderOK(k)' /\ ReceiverOK(k)'
  BY <1>5, <1>6, <1>11, <1>12, TwoNodes
<1>14. QED
  BY <1>13, PartsSuffice

\* ikcp_send keeps IInv: it changes snd_queue only.
LEMMA SendSafe ==
  ASSUME IInv, TypeOK', NEW n \in Node, NEW len, Send(n, len)
  PROVE  IInv'
<1>1. UNCHANGED <<snd_buf, snd_una, snd_nxt, rcv_nxt, rcv_buf, acklist, net, numbered>>
  BY DEF Send, rcvVars, ackVars
<1>2. QED
  BY <1>1 DEF IInv, WindowsRespected, NumbersAreStable, AcksAreHonest, ForgottenIsReceived,
              Received

-----------------------------------------------------------------------------

\* IInv holds when both endpoints are created.
LEMMA InitIInv == Init => IInv
<1> SUFFICES ASSUME Init PROVE IInv
  OBVIOUS
<1>1. /\ \A n \in Node : IsWindow(<<>>, Sent) /\ IsWindow(<<>>, Segment)
      /\ <<>> \in Seq(Segment) /\ <<>> \in Seq(Nat) /\ Len(<<>>) = 0 /\ DOMAIN <<>> = {}
  BY DEF IsWindow
<1>2. TypeOK
  BY <1>1, KcpAssumption DEF Init, TypeOK
<1>3. \A n \in Node : SenderOK(n) /\ ReceiverOK(n)
  BY <1>1, PeerNode, KcpAssumption DEF Init, SenderOK, ReceiverOK
<1>4. WindowsRespected /\ NumbersAreStable /\ AcksAreHonest /\ ForgottenIsReceived
  BY <1>3, PeerNode DEF WindowsRespected, NumbersAreStable, AcksAreHonest,
                        ForgottenIsReceived, SenderOK, ReceiverOK
<1>5. QED
  BY <1>2, <1>4 DEF IInv

\* Every step keeps IInv: it is inductive.
LEMMA NextIInv == IInv /\ [Next]_vars => IInv'
<1> SUFFICES ASSUME IInv, [Next]_vars PROVE IInv'
  OBVIOUS
<1>1. TypeOK'
  BY NextType DEF IInv
<1>2. ASSUME NEW n \in Node, NEW len \in 1..MaxBytes[n], Send(n, len) PROVE IInv'
  BY <1>1, <1>2, SendSafe
<1>3. ASSUME NEW n \in Node, NEW expired \in SUBSET DOMAIN snd_buf[n],
             NEW probes \in Probes(n), Flush(n, expired, probes)
      PROVE IInv'
  BY <1>1, <1>3, FlushSafe
<1>4. ASSUME NEW n \in Node, NEW d \in net[n], Input(n, d) PROVE IInv'
  BY <1>1, <1>4, InputSafe
<1>5. ASSUME NEW n \in Node, Recv(n) PROVE IInv'
  BY <1>1, <1>5, RecvSafe
<1>6. CASE UNCHANGED vars
  BY <1>1, <1>6 DEF IInv, WindowsRespected, NumbersAreStable, AcksAreHonest,
     ForgottenIsReceived, Received, vars, sndVars, rcvVars, ackVars, histVars
<1>7. QED
  BY <1>2, <1>3, <1>4, <1>5, <1>6 DEF Next

\* IInv is an invariant, whatever the windows, the sizes, the number of bytes written and
\* the losses, repetitions and delays of datagrams.
THEOREM Invariance == Spec => []IInv
BY InitIInv, NextIInv, PTL DEF Spec

\* The types, and the limit of rcv_queue: the receiver never queues more than rcv_wnd
\* segments, so what it advertises in wnd never is below zero.
THEOREM TypeCorrect == Spec => []TypeOK
<1>1. IInv => TypeOK
  BY DEF IInv
<1>2. QED
  BY <1>1, Invariance, PTL

\* The windows of ikcp_flush (snd_nxt < snd_una + cwnd) and ikcp_parse_data hold for ever.
THEOREM WindowsAreRespected == Spec => []WindowsRespected
<1>1. IInv => WindowsRespected
  BY DEF IInv
<1>2. QED
  BY <1>1, Invariance, PTL

\* A sequence number keeps naming the bytes it was given to in ikcp_flush, in snd_buf, in
\* every datagram and in rcv_buf.
THEOREM NumbersStayStable == Spec => []NumbersAreStable
<1>1. IInv => NumbersAreStable
  BY DEF IInv
<1>2. QED
  BY <1>1, Invariance, PTL

\* Every una and every ack, sent or listed, is of segments that were received.
THEOREM AcksStayHonest == Spec => []AcksAreHonest
<1>1. IInv => AcksAreHonest
  BY DEF IInv
<1>2. QED
  BY <1>1, Invariance, PTL

\* ikcp_parse_una, ikcp_parse_ack and ikcp_shrink_buf never delete a segment the peer has
\* not received.
THEOREM NothingForgottenIsLost == Spec => []ForgottenIsReceived
<1>1. IInv => ForgottenIsReceived
  BY DEF IInv
<1>2. QED
  BY <1>1, Invariance, PTL

-----------------------------------------------------------------------------
(* What no step undoes.                                                    *)

\* n takes the segments numbered D, those of rcv_buf among them, and hands the first m of
\* them to a queue of k segments.
Takes(n, D, m, k) ==
  /\ m \in Nat /\ D \subseteq Nat /\ DOMAIN rcv_buf[n] \subseteq D
  /\ \A sn \in D : rcv_nxt[n] <= sn
  /\ \A i \in 0..(m - 1) : rcv_nxt[n] + i \in D
  /\ rcv_nxt'[n] = rcv_nxt[n] + m
  /\ DOMAIN rcv_buf'[n] = {sn \in D : sn >= rcv_nxt[n] + m}
  /\ Len(rcv_queue'[n]) = k + m

\* What another endpoint receives is not touched.
OthersRest(n) ==
  \A j \in Node \ {n} :
    rcv_nxt'[j] = rcv_nxt[j] /\ rcv_buf'[j] = rcv_buf[j] /\ rcv_queue'[j] = rcv_queue[j]

\* The loops that move segments from a buffer to rcv_queue.
LEMMA DrainTakes ==
  ASSUME TypeOK, NEW n \in Node, NEW buf, IsWindow(buf, Segment),
         NEW queue \in Seq(Segment), NEW m \in Nat,
         DOMAIN rcv_buf[n] \subseteq DOMAIN buf,
         \A sn \in DOMAIN buf : rcv_nxt[n] <= sn,
         \A i \in 0..(m - 1) : rcv_nxt[n] + i \in DOMAIN buf,
         Drain(n, buf, queue, m)
  PROVE  Takes(n, DOMAIN buf, m, Len(queue)) /\ OthersRest(n)
<1>1. /\ rcv_nxt \in [Node -> Nat] /\ rcv_queue \in [Node -> Seq(Segment)]
      /\ DOMAIN rcv_buf = Node
  BY DEF TypeOK
<1>2. rcv_nxt'[n] = rcv_nxt[n] + m
  BY <1>1 DEF Drain
<1>3. DOMAIN rcv_buf'[n] = {sn \in DOMAIN buf : sn >= rcv_nxt[n] + m}
  BY <1>1 DEF Drain
<1>4. Len(rcv_queue'[n]) = Len(queue) + m
  <2> DEFINE moved == [i \in 1..m |-> buf[rcv_nxt[n] + i - 1]]
  <2>1. rcv_queue'[n] = queue \o moved
    BY <1>1 DEF Drain
  <2>2. ASSUME NEW i \in 1..m PROVE buf[rcv_nxt[n] + i - 1] \in Segment
    <3>1. i - 1 \in 0..(m - 1) /\ rcv_nxt[n] + (i - 1) = rcv_nxt[n] + i - 1
      BY <1>1
    <3>2. QED
      BY <3>1 DEF IsWindow
  <2>3. moved \in Seq(Segment) /\ Len(moved) = m
    BY <2>2
  <2> HIDE DEF moved
  <2>4. Len(queue \o moved) = Len(queue) + m
    BY <2>3
  <2>5. QED
    BY <2>1, <2>4
<1>5. OthersRest(n)
  BY <1>1 DEF Drain, OthersRest
<1>6. DOMAIN buf \subseteq Nat
  BY DEF IsWindow
<1>7. QED
  BY <1>2, <1>3, <1>4, <1>5, <1>6 DEF Takes

\* ikcp_recv takes nothing new, and its queue is one segment shorter.
LEMMA RecvTakes ==
  ASSUME IInv, NEW n \in Node, Recv(n)
  PROVE  /\ \E m \in Nat, k \in Nat : /\ k = Len(rcv_queue[n]) - 1
                                      /\ Takes(n, DOMAIN rcv_buf[n], m, k)
         /\ OthersRest(n)
<1> DEFINE rest == Tail(rcv_queue[n])
<1>1. PICK m \in 0..RcvWnd : Drains(n, rcv_buf[n], rest, m) /\ Drain(n, rcv_buf[n], rest, m)
  BY DEF Recv
<1>2. m \in Nat /\ \A i \in 0..(m - 1) : rcv_nxt[n] + i \in DOMAIN rcv_buf[n]
  BY <1>1, KcpAssumption DEF Drains
<1>3. TypeOK /\ IsWindow(rcv_buf[n], Segment) /\ rcv_queue[n] \in Seq(Segment) /\ rcv_nxt[n] \in Nat
  BY DEF IInv, TypeOK
<1>4. rest \in Seq(Segment) /\ Len(rest) = Len(rcv_queue[n]) - 1 /\ Len(rest) \in Nat
  BY <1>3 DEF Recv
<1>5. \A sn \in DOMAIN rcv_buf[n] : rcv_nxt[n] <= sn
  BY <1>3, Parts, KcpAssumption DEF ReceiverOK
<1> HIDE DEF rest
<1>6. Takes(n, DOMAIN rcv_buf[n], m, Len(rest)) /\ OthersRest(n)
  BY <1>1, <1>2, <1>3, <1>4, <1>5, DrainTakes
<1>7. QED
  BY <1>2, <1>4, <1>6

\* ikcp_input takes segments of the datagram.
LEMMA InputTakes ==
  ASSUME IInv, NEW n \in Node, NEW d \in net[n], Input(n, d)
  PROVE  /\ \E D \in SUBSET Nat, m \in Nat : Takes(n, D, m, Len(rcv_queue[n]))
         /\ OthersRest(n)
<1> DEFINE inside(m) == {sn \in DOMAIN d.push : sn < rcv_nxt[n] + m + RcvWnd}
           parsed(m) == {sn \in inside(m) : sn >= rcv_nxt[n]}
           buf(m)    == [sn \in DOMAIN rcv_buf[n] \cup parsed(m) |->
                     IF sn \in DOMAIN rcv_buf[n] THEN rcv_buf[n][sn] ELSE d.push[sn]]
<1>1. PICK m \in 0..RcvWnd :
        /\ IF parsed(m) = {} THEN m = 0 ELSE Drains(n, buf(m), rcv_queue[n], m)
        /\ Drain(n, buf(m), rcv_queue[n], m)
  BY DEF Input, Receive
<1>2. m \in Nat
  BY KcpAssumption
<1>3. /\ TypeOK /\ IsWindow(rcv_buf[n], Segment) /\ IsDatagram(d)
      /\ rcv_queue[n] \in Seq(Segment) /\ rcv_nxt[n] \in Nat
  BY DEF IInv, TypeOK
<1>4. \A i \in 0..(m - 1) : rcv_nxt[n] + i \in DOMAIN buf(m)
  <2> HIDE DEF parsed, buf
  <2>1. QED
    BY <1>1, <1>2 DEF Drains
<1>5. IsWindow(buf(m), Segment)
  <2>1. parsed(m) \subseteq DOMAIN d.push
    OBVIOUS
  <2> HIDE DEF parsed
  <2>2. QED
    BY <1>3, <2>1 DEF IsWindow, IsDatagram
<1>6. \A sn \in DOMAIN buf(m) : rcv_nxt[n] <= sn
  <2>1. \A sn \in DOMAIN rcv_buf[n] : rcv_nxt[n] <= sn
    BY <1>3, Parts, KcpAssumption DEF ReceiverOK
  <2>2. \A sn \in parsed(m) : rcv_nxt[n] <= sn
    BY <1>3 DEF IsDatagram, IsWindow
  <2> HIDE DEF parsed
  <2>3. QED
    BY <2>1, <2>2
<1>7. DOMAIN rcv_buf[n] \subseteq DOMAIN buf(m)
  OBVIOUS
<1> HIDE DEF inside, parsed, buf
<1>8. Takes(n, DOMAIN buf(m), m, Len(rcv_queue[n])) /\ OthersRest(n)
  BY <1>1, <1>2, <1>3, <1>4, <1>5, <1>6, <1>7, DrainTakes
<1>9. DOMAIN buf(m) \in SUBSET Nat
  BY <1>8 DEF Takes
<1>10. QED
  BY <1>2, <1>8, <1>9

\* What was received stays received.
LEMMA TakesKeeps ==
  ASSUME TypeOK, NEW n \in Node, NEW D, NEW m, NEW k, Takes(n, D, m, k), OthersRest(n)
  PROVE  \A j \in Node : /\ rcv_nxt[j] <= rcv_nxt'[j]
                         /\ \A sn \in Nat : Received(j, sn) => Received(j, sn)'
<1>1. rcv_nxt \in [Node -> Nat]
  BY DEF TypeOK
<1>2. /\ m \in Nat /\ DOMAIN rcv_buf[n] \subseteq D
      /\ rcv_nxt'[n] = rcv_nxt[n] + m
      /\ DOMAIN rcv_buf'[n] = {sn \in D : sn >= rcv_nxt[n] + m}
  BY DEF Takes
<1>3. rcv_nxt[n] <= rcv_nxt'[n] /\ \A sn \in Nat : Received(n, sn) => Received(n, sn)'
  BY <1>1, <1>2 DEF Received
<1>4. \A j \in Node \ {n} : /\ rcv_nxt[j] <= rcv_nxt'[j]
                            /\ \A sn \in Nat : Received(j, sn) => Received(j, sn)'
  BY <1>1 DEF OthersRest, Received
<1>5. QED
  BY <1>3, <1>4

\* ikcp_flush numbers the first segments of snd_queue: numbers it gave before keep their
\* segments, and snd_buf grows by the new ones.
LEMMA FlushNumbers ==
  ASSUME IInv, NEW n \in Node, NEW expired, NEW probes, Flush(n, expired, probes)
  PROVE  /\ \A i \in DOMAIN numbered[n] :
              i \in DOMAIN numbered'[n] /\ numbered'[n][i] = numbered[n][i]
         /\ snd_nxt[n] <= snd_nxt'[n] /\ snd_nxt'[n] \in Nat
         /\ DOMAIN snd_buf'[n] = DOMAIN snd_buf[n] \cup snd_nxt[n]..(snd_nxt'[n] - 1)
         /\ \A j \in Node \ {n} : /\ numbered'[j] = numbered[j] /\ snd_nxt'[j] = snd_nxt[j]
                                  /\ snd_buf'[j] = snd_buf[j]
<1>1. /\ snd_queue \in [Node -> Seq(Segment)] /\ numbered \in [Node -> Seq(Segment)]
      /\ snd_nxt \in [Node -> Nat] /\ DOMAIN snd_buf = Node
  BY DEF IInv, TypeOK
<1>2. PICK m \in 0..Len(snd_queue[n]) :
        /\ snd_buf' = [snd_buf EXCEPT ![n] = Transmitted(n, m, expired)]
        /\ snd_nxt' = [snd_nxt EXCEPT ![n] = @ + m]
        /\ numbered' = [numbered EXCEPT ![n] = @ \o SubSeq(snd_queue[n], 1, m)]
  BY DEF Flush
<1>3. m \in Nat
  OBVIOUS
<1>4. \A i \in DOMAIN numbered[n] : i \in DOMAIN numbered'[n] /\ numbered'[n][i] = numbered[n][i]
  <2> DEFINE s == numbered[n] \o SubSeq(snd_queue[n], 1, m)
  <2>1. numbered'[n] = s /\ s \in Seq(Segment)
    BY <1>1, <1>2
  <2>2. numbered[n] \in Seq(Segment) /\ snd_queue[n] \in Seq(Segment)
    BY <1>1
  <2>3. Len(s) = Len(numbered[n]) + m /\ \A i \in 1..Len(numbered[n]) : s[i] = numbered[n][i]
    BY <1>2, <2>2, NumberedGrows
  <2> HIDE DEF s
  <2>4. DOMAIN numbered[n] = 1..Len(numbered[n]) /\ DOMAIN s = 1..Len(s) /\ Len(numbered[n]) \in Nat
    BY <2>1, <2>2
  <2>5. QED
    BY <1>3, <2>1, <2>3, <2>4
<1>5. snd_nxt'[n] = snd_nxt[n] + m
  BY <1>1, <1>2
<1>6. DOMAIN snd_buf'[n] = DOMAIN snd_buf[n] \cup snd_nxt[n]..(snd_nxt'[n] - 1)
  <2>1. DOMAIN Transmitted(n, m, expired) = DOMAIN snd_buf[n] \cup snd_nxt[n]..(snd_nxt[n] + m - 1)
    BY DEF Transmitted
  <2>2. QED
    BY <1>1, <1>2, <1>5, <2>1
<1>7. \A j \in Node \ {n} : /\ numbered'[j] = numbered[j] /\ snd_nxt'[j] = snd_nxt[j]
                            /\ snd_buf'[j] = snd_buf[j]
  BY <1>1, <1>2
<1>8. QED
  BY <1>1, <1>3, <1>4, <1>5, <1>6, <1>7

\* Acknowledgements leave snd_una at the oldest segment left, and never move it back.
LEMMA AcknowledgeOldest ==
  ASSUME IInv, NEW n \in Node, NEW d \in net[n], Acknowledge(n, d)
  PROVE  /\ IF DOMAIN snd_buf'[n] = {} THEN snd_una'[n] = snd_nxt[n]
                                       ELSE snd_una'[n] \in DOMAIN snd_buf'[n]
         /\ DOMAIN snd_buf'[n] \subseteq DOMAIN snd_buf[n]
         /\ snd_una[n] <= snd_una'[n]
         /\ \A j \in Node \ {n} : snd_una'[j] = snd_una[j] /\ snd_buf'[j] = snd_buf[j]
<1> DEFINE left == {sn \in DOMAIN snd_buf[n] : sn >= d.una /\ sn \notin d.acks}
<1>1. /\ snd_una \in [Node -> Nat] /\ snd_nxt \in [Node -> Nat]
      /\ DOMAIN snd_buf = Node /\ IsWindow(snd_buf[n], Sent)
  BY DEF IInv, TypeOK
<1>2. /\ snd_una[n] <= snd_nxt[n]
      /\ DOMAIN snd_buf[n] \subseteq snd_una[n]..(snd_nxt[n] - 1)
  BY Parts DEF SenderOK
<1>3. DOMAIN snd_buf'[n] = left
  BY <1>1 DEF Acknowledge
<1>4. PICK una \in left \cup {snd_nxt[n]} :
        (\A sn \in left : una <= sn) /\ snd_una' = [snd_una EXCEPT ![n] = una]
  BY DEF Acknowledge
<1>5. snd_una'[n] = una
  BY <1>1, <1>4
<1>6. left \subseteq DOMAIN snd_buf[n]
  OBVIOUS
<1>7. \A j \in Node \ {n} : snd_una'[j] = snd_una[j] /\ snd_buf'[j] = snd_buf[j]
  BY <1>1 DEF Acknowledge
<1> HIDE DEF left
<1>8. IF left = {} THEN una = snd_nxt[n] ELSE una \in left
  <2>1. CASE una = snd_nxt[n]
    BY <1>1, <1>2, <1>4, <1>6, <2>1
  <2>2. CASE una \in left
    BY <2>2
  <2>3. QED
    BY <1>4, <2>1, <2>2
<1>9. snd_una[n] <= una
  BY <1>1, <1>2, <1>4, <1>6
<1>10. QED
  BY <1>3, <1>5, <1>6, <1>7, <1>8, <1>9

\* snd_una is right at the start.
LEMMA InitOldest == Init => UnaIsOldest
<1>1. DOMAIN <<>> = {}
  OBVIOUS
<1>2. QED
  BY <1>1 DEF Init, UnaIsOldest

\* Every step keeps snd_una the oldest.
LEMMA NextOldest == IInv /\ UnaIsOldest /\ [Next]_vars => UnaIsOldest'
<1> SUFFICES ASSUME IInv, UnaIsOldest, [Next]_vars PROVE UnaIsOldest'
  OBVIOUS
<1>1. snd_nxt \in [Node -> Nat]
  BY DEF IInv, TypeOK
<1>2. ASSUME NEW n \in Node, NEW len \in 1..MaxBytes[n], Send(n, len) PROVE UnaIsOldest'
  BY <1>2 DEF Send, UnaIsOldest
<1>3. ASSUME NEW n \in Node, NEW expired, NEW probes, Flush(n, expired, probes)
      PROVE UnaIsOldest'
  <2>1. /\ snd_nxt[n] <= snd_nxt'[n] /\ snd_nxt'[n] \in Nat
        /\ DOMAIN snd_buf'[n] = DOMAIN snd_buf[n] \cup snd_nxt[n]..(snd_nxt'[n] - 1)
        /\ \A j \in Node \ {n} : snd_nxt'[j] = snd_nxt[j] /\ snd_buf'[j] = snd_buf[j]
    BY <1>3, FlushNumbers
  <2>2. snd_una' = snd_una
    BY <1>3 DEF Flush
  <2>3. IF DOMAIN snd_buf'[n] = {} THEN snd_una'[n] = snd_nxt'[n]
                                   ELSE snd_una'[n] \in DOMAIN snd_buf'[n]
    <3>1. CASE snd_nxt'[n] = snd_nxt[n]
      <4>1. DOMAIN snd_buf'[n] = DOMAIN snd_buf[n]
        BY <1>1, <2>1, <3>1
      <4>2. QED
        BY <2>2, <3>1, <4>1 DEF UnaIsOldest
    <3>2. CASE snd_nxt'[n] > snd_nxt[n]
      <4>1. snd_nxt[n] \in DOMAIN snd_buf'[n]
        BY <1>1, <2>1, <3>2
      <4>2. QED
        BY <2>1, <2>2, <4>1 DEF UnaIsOldest
    <3>3. QED
      BY <1>1, <2>1, <3>1, <3>2
  <2>4. QED
    BY <2>1, <2>2, <2>3 DEF UnaIsOldest
<1>4. ASSUME NEW n \in Node, NEW d \in net[n], Input(n, d) PROVE UnaIsOldest'
  <2>1. Acknowledge(n, d) /\ snd_nxt' = snd_nxt
    BY <1>4 DEF Input
  <2>2. QED
    BY <2>1, AcknowledgeOldest DEF UnaIsOldest
<1>5. ASSUME NEW n \in Node, Recv(n) PROVE UnaIsOldest'
  BY <1>5 DEF Recv, sndVars, UnaIsOldest
<1>6. CASE UNCHANGED vars
  BY <1>6 DEF vars, sndVars, UnaIsOldest
<1>7. QED
  BY <1>2, <1>3, <1>4, <1>5, <1>6 DEF Next

\* ikcp_shrink_buf after every una and ack keeps snd_una the oldest segment outstanding, so
\* the window of ikcp_flush is never held up by segments that were acknowledged.
THEOREM UnaStaysOldest == Spec => []UnaIsOldest
<1>1. Init => UnaIsOldest
  BY InitOldest
<1>2. IInv /\ UnaIsOldest /\ [Next]_vars => UnaIsOldest'
  BY NextOldest
<1>3. QED
  BY <1>1, <1>2, Invariance, PTL DEF Spec

\* What NothingMovesBack says of one step.
Advance ==
  \A n \in Node :
    /\ snd_una[n] <= snd_una'[n] /\ rcv_nxt[n] <= rcv_nxt'[n]
    /\ \A sn \in 0..(snd_nxt[Peer(n)] - 1) : Received(n, sn) => Received(n, sn)'
    /\ \A i \in DOMAIN numbered[n] : i \in DOMAIN numbered'[n] /\ numbered'[n][i] = numbered[n][i]

\* Every step advances.
LEMMA StepAdvances == IInv /\ [Next]_vars => Advance
<1> SUFFICES ASSUME IInv, [Next]_vars PROVE Advance
  OBVIOUS
<1>1. /\ TypeOK /\ snd_una \in [Node -> Nat] /\ rcv_nxt \in [Node -> Nat]
      /\ snd_nxt \in [Node -> Nat] /\ \A n \in Node : Peer(n) \in Node
  BY PeerNode DEF IInv, TypeOK
<1>2. \A n \in Node : \A sn \in 0..(snd_nxt[Peer(n)] - 1) : sn \in Nat
  OBVIOUS
<1>3. ASSUME NEW n \in Node, NEW len \in 1..MaxBytes[n], Send(n, len) PROVE Advance
  BY <1>1, <1>3 DEF Send, rcvVars, Advance, Received
<1>4. ASSUME NEW n \in Node, NEW expired, NEW probes, Flush(n, expired, probes) PROVE Advance
  <2>1. UNCHANGED <<snd_una, rcv_nxt, rcv_buf>>
    BY <1>4 DEF Flush, rcvVars
  <2>2. \A j \in Node : \A i \in DOMAIN numbered[j] :
          i \in DOMAIN numbered'[j] /\ numbered'[j][i] = numbered[j][i]
    BY <1>4, FlushNumbers
  <2>3. QED
    BY <1>1, <2>1, <2>2 DEF Advance, Received
<1>5. ASSUME NEW n \in Node, NEW d \in net[n], Input(n, d) PROVE Advance
  <2>1. Acknowledge(n, d) /\ numbered' = numbered
    BY <1>5 DEF Input, histVars
  <2>2. \A j \in Node : snd_una[j] <= snd_una'[j]
    BY <1>1, <2>1, AcknowledgeOldest
  <2>3. \A j \in Node : /\ rcv_nxt[j] <= rcv_nxt'[j]
                        /\ \A sn \in Nat : Received(j, sn) => Received(j, sn)'
    <3>1. PICK D \in SUBSET Nat, m \in Nat : Takes(n, D, m, Len(rcv_queue[n]))
      BY <1>5, InputTakes
    <3>2. OthersRest(n)
      BY <1>5, InputTakes
    <3>3. QED
      BY <1>1, <3>1, <3>2, TakesKeeps
  <2>4. QED
    BY <1>2, <2>1, <2>2, <2>3 DEF Advance
<1>6. ASSUME NEW n \in Node, Recv(n) PROVE Advance
  <2>1. UNCHANGED <<snd_una, numbered>>
    BY <1>6 DEF Recv, sndVars
  <2>2. \A j \in Node : /\ rcv_nxt[j] <= rcv_nxt'[j]
                        /\ \A sn \in Nat : Received(j, sn) => Received(j, sn)'
    <3>1. PICK m \in Nat, k \in Nat : Takes(n, DOMAIN rcv_buf[n], m, k)
      BY <1>6, RecvTakes
    <3>2. OthersRest(n)
      BY <1>6, RecvTakes
    <3>3. QED
      BY <1>1, <3>1, <3>2, TakesKeeps
  <2>3. QED
    BY <1>1, <1>2, <2>1, <2>2 DEF Advance
<1>7. CASE UNCHANGED vars
  BY <1>1, <1>7 DEF vars, sndVars, rcvVars, histVars, Advance, Received
<1>8. QED
  BY <1>3, <1>4, <1>5, <1>6, <1>7 DEF Next

\* No datagram, however old its una, its acks or its segments, takes back what an endpoint
\* knows: snd_una and rcv_nxt only advance, what was received is kept or was handed on,
\* and a number keeps its segment.
THEOREM NoStepMovesBack == Spec => NothingMovesBack
<1>1. IInv /\ [Next]_vars => [Advance]_vars
  BY StepAdvances
<1>2. QED
  BY <1>1, Invariance, PTL DEF Spec, NothingMovesBack, Advance
=============================================================================
