-------------------------------- MODULE Kcp --------------------------------
(***************************************************************************)
(* The KCP protocol of 3rd/kcp/ikcp.c between the two ends of a            *)
(* moon::kcp::connection, configured as init_kcp_context does: stream mode,*)
(* no congestion window, fast resend after FastResend duplicate acks.      *)
(*                                                                         *)
(* A variable is a field of ikcpcb, indexed by the endpoint.  Bytes are    *)
(* named by their position in the stream of their writer, so a segment's   *)
(* data is an interval.  Sequence numbers are natural numbers: the wrap of *)
(* the 32 bit fields is not part of this module.                           *)
(*                                                                         *)
(* Time is left open: any transmitted segment may be due for a resend and  *)
(* any armed probe may be due, at every flush.  The network loses, reorders*)
(* and, with Duplicates, repeats datagrams.                                *)
(***************************************************************************)
EXTENDS Naturals, Sequences, FiniteSets

CONSTANTS
  Mss,          \* mss: bytes in a full segment
  SndWnd,       \* snd_wnd
  RcvWnd,       \* rcv_wnd
  WndRcv,       \* IKCP_WND_RCV: first remote window, limit of one ikcp_send
  FastResend,   \* fastresend
  FastLimit,    \* fastlimit
  Duplicates,   \* whether a datagram may be delivered again
  MaxBytes,     \* bound: bytes each endpoint writes
  MaxNet,       \* bound: datagrams in the network
  AckCuts       \* bound: datagrams of one flush that carry nothing but acks

Node == {"client", "server"}
Peer(n) == IF n = "client" THEN "server" ELSE "client"

ASSUME KcpAssumption ==
  /\ Mss \in Nat \ {0}
  /\ SndWnd \in Nat \ {0}
  /\ RcvWnd \in Nat \ {0}
  /\ WndRcv \in Nat
  /\ FastResend \in Nat \ {0}
  /\ FastLimit \in Nat \ {0}
  /\ Duplicates \in BOOLEAN
  /\ MaxBytes \in [Node -> Nat]
  /\ MaxNet \in Nat
  /\ AckCuts \in Nat

VARIABLES
  snd_queue,   \* segments not yet numbered
  snd_buf,     \* numbered segments that are not acknowledged, by sn
  snd_una, snd_nxt,
  rmt_wnd,
  probe_wait,  \* "on" when probe_wait is not zero
  probe,       \* the flags of probe: "send", "tell"
  acklist,     \* the sns of acklist
  rcv_nxt,
  rcv_buf,     \* segments beyond rcv_nxt, by sn
  rcv_queue,   \* segments ready for ikcp_recv
  net,         \* datagrams sent to each endpoint
  written,     \* history: bytes ikcp_send put in the stream
  numbered,    \* history: the segment each sn was given to
  got          \* history: bytes ikcp_recv returned

sndVars  == <<snd_queue, snd_buf, snd_una, snd_nxt, rmt_wnd, probe_wait>>
rcvVars  == <<rcv_nxt, rcv_buf, rcv_queue>>
ackVars  == <<probe, acklist>>
histVars == <<written, numbered, got>>
vars     == <<sndVars, rcvVars, ackVars, net, histVars>>

Init ==
  /\ snd_queue = [n \in Node |-> <<>>]
  /\ snd_buf = [n \in Node |-> <<>>]
  /\ snd_una = [n \in Node |-> 0]
  /\ snd_nxt = [n \in Node |-> 0]
  /\ rmt_wnd = [n \in Node |-> WndRcv]
  /\ probe_wait = [n \in Node |-> "off"]
  /\ probe = [n \in Node |-> {}]
  /\ acklist = [n \in Node |-> {}]
  /\ rcv_nxt = [n \in Node |-> 0]
  /\ rcv_buf = [n \in Node |-> <<>>]
  /\ rcv_queue = [n \in Node |-> <<>>]
  /\ net = [n \in Node |-> {}]
  /\ written = [n \in Node |-> 0]
  /\ numbered = [n \in Node |-> <<>>]
  /\ got = [n \in Node |-> <<>>]
-----------------------------------------------------------------------------
(* ikcp_send.                                                              *)

Least(a, b) == IF a <= b THEN a ELSE b

\* The last queued segment of n can be extended.
HasRoom(n) ==
  /\ snd_queue[n] # <<>>
  /\ snd_queue[n][Len(snd_queue[n])].len < Mss

\* How many of len bytes go into the last queued segment of n.
Extension(n, len) ==
  IF HasRoom(n) THEN Least(len, Mss - snd_queue[n][Len(snd_queue[n])].len) ELSE 0

\* The queue of n with its last segment extended by e bytes.
Extended(n, e) ==
  IF e = 0 THEN snd_queue[n]
  ELSE [snd_queue[n] EXCEPT ![Len(snd_queue[n])].len = @ + e]

\* len bytes from off on, in c segments.
Fragments(off, len, c) ==
  [i \in 1..c |-> [off |-> off + (i - 1) * Mss,
                   len |-> IF i < c THEN Mss ELSE len - (c - 1) * Mss]]

\* c segments of Mss bytes hold len bytes, and fewer do not.
Needs(len, c) == c * Mss >= len /\ (c - 1) * Mss < len

\* Mutant: after the extension the rest is taken from the start of the buffer again.
SendRepeatsExtension(n, len) ==
  LET e    == Extension(n, len)
      rest == len - e
  IN /\ written[n] + len <= MaxBytes[n]
     /\ \E c \in 0..rest :
          /\ Needs(rest, c) \/ (rest = 0 /\ c = 0)
          /\ c < WndRcv
          /\ snd_queue' = [snd_queue EXCEPT ![n] =
                              Extended(n, e) \o Fragments(written[n], rest, c)]
     /\ written' = [written EXCEPT ![n] = @ + len]
     /\ UNCHANGED <<snd_buf, snd_una, snd_nxt, rmt_wnd, probe_wait, rcvVars, ackVars,
                    net, numbered, got>>

\* Mutant: a byte joins the last segment in flight when that segment has room.
SendExtendsInFlight(n, len) ==
  LET last == snd_nxt[n] - 1
  IN /\ written[n] + 1 <= MaxBytes[n]
     /\ IF last \in DOMAIN snd_buf[n] /\ snd_queue[n] = <<>>
        THEN /\ snd_buf[n][last].seg.len < Mss
             /\ snd_buf' = [snd_buf EXCEPT ![n][last].seg.len = @ + 1]
             /\ UNCHANGED snd_queue
        ELSE /\ snd_queue' = [snd_queue EXCEPT ![n] = Append(@, [off |-> written[n], len |-> 1])]
             /\ UNCHANGED snd_buf
     /\ written' = [written EXCEPT ![n] = @ + 1]
     /\ UNCHANGED <<snd_una, snd_nxt, rmt_wnd, probe_wait, rcvVars, ackVars, net, numbered, got>>

\* ikcp_send of len bytes.  A call that fails because the rest needs too many
\* segments has already extended the last one.
Send(n, len) ==
  LET e    == Extension(n, len)
      rest == len - e
  IN /\ written[n] + len <= MaxBytes[n]
     /\ \/ /\ rest = 0
           /\ snd_queue' = [snd_queue EXCEPT ![n] = Extended(n, e)]
           /\ written' = [written EXCEPT ![n] = @ + len]
        \/ \E c \in 1..rest :
             /\ Needs(rest, c)
             /\ IF c >= WndRcv
                THEN /\ snd_queue' = [snd_queue EXCEPT ![n] = Extended(n, e)]
                     /\ written' = [written EXCEPT ![n] = @ + e]
                ELSE /\ snd_queue' = [snd_queue EXCEPT ![n] =
                          Extended(n, e) \o Fragments(written[n] + e, rest, c)]
                     /\ written' = [written EXCEPT ![n] = @ + len]
     /\ UNCHANGED <<snd_buf, snd_una, snd_nxt, rmt_wnd, probe_wait, rcvVars, ackVars,
                    net, numbered, got>>
-----------------------------------------------------------------------------
(* ikcp_flush.                                                             *)

\* ikcp_wnd_unused
WndUnused(n) ==
  IF Len(rcv_queue[n]) < RcvWnd THEN RcvWnd - Len(rcv_queue[n]) ELSE 0

\* Mutant: the window test is off by one.
MovesOneMore(n, m) ==
  LET cwnd == Least(SndWnd, rmt_wnd[n])
  IN /\ m = 0 \/ snd_nxt[n] + m <= snd_una[n] + cwnd + 1
     /\ m = Len(snd_queue[n]) \/ snd_nxt[n] + m >= snd_una[n] + cwnd + 1

\* Move m segments from snd_queue to snd_buf: all that the windows admit.
Moves(n, m) ==
  LET cwnd == Least(SndWnd, rmt_wnd[n])
  IN /\ m = 0 \/ snd_nxt[n] + m <= snd_una[n] + cwnd
     /\ m = Len(snd_queue[n]) \/ snd_nxt[n] + m >= snd_una[n] + cwnd

\* The segments of n that a flush resends early.
FastResends(n, expired) ==
  {sn \in DOMAIN snd_buf[n] \ expired :
     snd_buf[n][sn].fastack >= FastResend /\ snd_buf[n][sn].xmit <= FastLimit}

\* snd_buf after m segments joined it and what is due was transmitted.  xmit is only
\* compared with FastLimit and counts no further.
Transmitted(n, m, expired) ==
  [sn \in DOMAIN snd_buf[n] \cup snd_nxt[n]..(snd_nxt[n] + m - 1) |->
     IF sn \notin DOMAIN snd_buf[n]
     THEN [seg |-> snd_queue[n][sn - snd_nxt[n] + 1], xmit |-> 1, fastack |-> 0]
     ELSE [seg |-> snd_buf[n][sn].seg,
           xmit |-> IF sn \in expired \cup FastResends(n, expired)
                    THEN Least(snd_buf[n][sn].xmit + 1, FastLimit + 1)
                    ELSE snd_buf[n][sn].xmit,
           fastack |-> IF sn \in FastResends(n, expired)
                       THEN 0 ELSE snd_buf[n][sn].fastack]]

\* Mutant: a zero window is never probed.
ProbesNever(n) == {probe[n]}

\* What the flags may be once a flush has looked at ts_probe: while the remote window
\* is zero, a probe is asked for when its time has come.
Probes(n) ==
  {probe[n]} \cup IF rmt_wnd[n] = 0 /\ probe_wait[n] = "on" THEN {probe[n] \cup {"send"}} ELSE {}

Datagram(n, acks, probes, push) ==
  [una |-> rcv_nxt[n], wnd |-> WndUnused(n), acks |-> acks, probes |-> probes, push |-> push]

\* Sets of acks of n that may fill datagrams of their own.
AckDatagrams(n) ==
  {early \in SUBSET (SUBSET acklist[n] \ {{}}) : Cardinality(early) <= AckCuts}

\* The datagrams of one flush: acks first, then the probes, then the data segments in
\* order.  Where one datagram ends and the next begins depends on the sizes and the
\* mtu: some acks, the sets of early, may go ahead, and any data segment, one of
\* starts, may begin a new datagram.
Output(n, early, probes, push, starts) ==
  LET rest      == acklist[n] \ UNION early
      run(from) == {sn \in DOMAIN push :
                      /\ from <= sn
                      /\ \A s \in starts : s <= from \/ sn < s}
      data(S)   == [sn \in S |-> push[sn]]
      head      == {sn \in DOMAIN push : \A s \in starts : sn < s}
  IN {Datagram(n, acks, {}, data({})) : acks \in early}
     \cup {Datagram(n, {}, {}, data(run(s))) : s \in starts}
     \cup IF rest = {} /\ probes = {} /\ head = {} THEN {}
          ELSE {Datagram(n, rest, probes, data(head))}

\* The network loses any of the datagrams sent.  When datagrams are never taken out
\* of the network, one that is lost is one that stays there.
Transmit(n, D) ==
  IF Duplicates
  THEN net' = [net EXCEPT ![Peer(n)] = @ \cup D]
  ELSE \E E \in SUBSET D : net' = [net EXCEPT ![Peer(n)] = @ \cup E]

\* ikcp_flush at a time when the segments of expired are due for a resend, with the
\* window probes probes to send.
Flush(n, expired, probes) ==
  /\ acklist' = [acklist EXCEPT ![n] = {}]
  /\ probe' = [probe EXCEPT ![n] = {}]
  /\ probe_wait' = [probe_wait EXCEPT ![n] = IF rmt_wnd[n] = 0 THEN "on" ELSE "off"]
  /\ UNCHANGED <<snd_una, rmt_wnd, rcvVars, written, got>>
  /\ \E m \in 0..Len(snd_queue[n]) :
       LET buf    == Transmitted(n, m, expired)
           pushed == (DOMAIN buf \ DOMAIN snd_buf[n]) \cup expired \cup FastResends(n, expired)
           push   == [sn \in pushed |-> buf[sn].seg]
       IN /\ Moves(n, m)
          /\ snd_queue' = [snd_queue EXCEPT ![n] = SubSeq(@, m + 1, Len(@))]
          /\ snd_buf' = [snd_buf EXCEPT ![n] = buf]
          /\ snd_nxt' = [snd_nxt EXCEPT ![n] = @ + m]
          /\ numbered' = [numbered EXCEPT ![n] = @ \o SubSeq(snd_queue[n], 1, m)]
          /\ \E early \in AckDatagrams(n), starts \in SUBSET pushed :
               Transmit(n, Output(n, early, probes, push, starts))
          /\ Cardinality(net'[Peer(n)]) <= MaxNet
-----------------------------------------------------------------------------
(* ikcp_input and ikcp_recv.                                               *)

\* Mutant: rcv_queue takes what is in order, full or not.
DrainsOverfull(n, buf, queue, m) ==
  /\ \A i \in 0..(m - 1) : rcv_nxt[n] + i \in DOMAIN buf
  /\ rcv_nxt[n] + m \notin DOMAIN buf

\* m segments move from the sorted buffer buf to the end of queue: as many as follow
\* rcv_nxt without a gap and find room.
Drains(n, buf, queue, m) ==
  /\ m <= RcvWnd - Len(queue)
  /\ \A i \in 0..(m - 1) : rcv_nxt[n] + i \in DOMAIN buf
  /\ m = RcvWnd - Len(queue) \/ rcv_nxt[n] + m \notin DOMAIN buf

Drain(n, buf, queue, m) ==
  /\ rcv_queue' = [rcv_queue EXCEPT ![n] =
                     queue \o [i \in 1..m |-> buf[rcv_nxt[n] + i - 1]]]
  /\ rcv_nxt' = [rcv_nxt EXCEPT ![n] = @ + m]
  /\ rcv_buf' = [rcv_buf EXCEPT ![n] =
                   [sn \in {s \in DOMAIN buf : s >= rcv_nxt[n] + m} |-> buf[sn]]]

\* Mutant: una acknowledges the segment it names.
AcknowledgeUnaToo(n, d) ==
  LET left == {sn \in DOMAIN snd_buf[n] : sn > d.una /\ sn \notin d.acks}
  IN /\ snd_buf' = [snd_buf EXCEPT ![n] = [sn \in left |-> snd_buf[n][sn]]]
     /\ \E una \in left \cup {snd_nxt[n]} :
          /\ \A sn \in left : una <= sn
          /\ snd_una' = [snd_una EXCEPT ![n] = una]

\* The una and acks of a datagram.  Only the largest ack of a datagram counts for
\* fastack, and it counts for every smaller sn.
Acknowledge(n, d) ==
  LET left == {sn \in DOMAIN snd_buf[n] : sn >= d.una /\ sn \notin d.acks}
      passed(sn) == \E a \in d.acks : sn < a /\ a < snd_nxt[n]
  IN /\ snd_buf' = [snd_buf EXCEPT ![n] = [sn \in left |->
                      [snd_buf[n][sn] EXCEPT
                         !.fastack = IF passed(sn) THEN Least(@ + 1, FastResend) ELSE @]]]
     /\ \E una \in left \cup {snd_nxt[n]} :
          /\ \A sn \in left : una <= sn
          /\ snd_una' = [snd_una EXCEPT ![n] = una]

\* Mutant: a segment outside the window is acknowledged too.
ReceiveAcksAll(n, d) ==
  \E m \in 0..RcvWnd :
    LET inside == {sn \in DOMAIN d.push : sn < rcv_nxt[n] + m + RcvWnd}
        parsed == {sn \in inside : sn >= rcv_nxt[n]}
        buf    == [sn \in DOMAIN rcv_buf[n] \cup parsed |->
                     IF sn \in DOMAIN rcv_buf[n] THEN rcv_buf[n][sn] ELSE d.push[sn]]
    IN /\ IF parsed = {} THEN m = 0 ELSE Drains(n, buf, rcv_queue[n], m)
       /\ Drain(n, buf, rcv_queue[n], m)
       /\ acklist' = [acklist EXCEPT ![n] = @ \cup DOMAIN d.push]

\* Mutant: a segment that was received before is not acknowledged again.
ReceiveAcksNew(n, d) ==
  \E m \in 0..RcvWnd :
    LET inside == {sn \in DOMAIN d.push : sn < rcv_nxt[n] + m + RcvWnd}
        parsed == {sn \in inside : sn >= rcv_nxt[n]}
        buf    == [sn \in DOMAIN rcv_buf[n] \cup parsed |->
                     IF sn \in DOMAIN rcv_buf[n] THEN rcv_buf[n][sn] ELSE d.push[sn]]
    IN /\ IF parsed = {} THEN m = 0 ELSE Drains(n, buf, rcv_queue[n], m)
       /\ Drain(n, buf, rcv_queue[n], m)
       /\ acklist' = [acklist EXCEPT ![n] = @ \cup parsed]

\* The data segments of a datagram.  They are in order, so the window of the last one
\* parsed, which the drained segments have moved, is the window of them all.
Receive(n, d) ==
  \E m \in 0..RcvWnd :
    LET inside == {sn \in DOMAIN d.push : sn < rcv_nxt[n] + m + RcvWnd}
        parsed == {sn \in inside : sn >= rcv_nxt[n]}
        buf    == [sn \in DOMAIN rcv_buf[n] \cup parsed |->
                     IF sn \in DOMAIN rcv_buf[n] THEN rcv_buf[n][sn] ELSE d.push[sn]]
    IN /\ IF parsed = {} THEN m = 0 ELSE Drains(n, buf, rcv_queue[n], m)
       /\ Drain(n, buf, rcv_queue[n], m)
       /\ acklist' = [acklist EXCEPT ![n] = @ \cup inside]

\* ikcp_input of a datagram.
Input(n, d) ==
  /\ d \in net[n]
  /\ rmt_wnd' = [rmt_wnd EXCEPT ![n] = d.wnd]
  /\ Acknowledge(n, d)
  /\ Receive(n, d)
  /\ probe' = [probe EXCEPT ![n] = IF "send" \in d.probes THEN @ \cup {"tell"} ELSE @]
  /\ net' = IF Duplicates THEN net ELSE [net EXCEPT ![n] = @ \ {d}]
  /\ UNCHANGED <<snd_queue, snd_nxt, probe_wait, histVars>>

\* Mutant: ikcp_recv does not move what its segment left room for.
RecvNoDrain(n) ==
  /\ rcv_queue[n] # <<>>
  /\ got' = [got EXCEPT ![n] = @ \o [i \in 1..Head(rcv_queue[n]).len |->
                                      Head(rcv_queue[n]).off + i - 1]]
  /\ rcv_queue' = [rcv_queue EXCEPT ![n] = Tail(@)]
  /\ UNCHANGED <<sndVars, ackVars, rcv_nxt, rcv_buf, net, written, numbered>>

\* Mutant: the segment that was returned stays in rcv_queue.
RecvPeeks(n) ==
  /\ rcv_queue[n] # <<>>
  /\ Len(got[n]) < 2 * MaxBytes[Peer(n)]
  /\ got' = [got EXCEPT ![n] = @ \o [i \in 1..Head(rcv_queue[n]).len |->
                                      Head(rcv_queue[n]).off + i - 1]]
  /\ UNCHANGED <<sndVars, ackVars, rcvVars, net, written, numbered>>

\* Mutant: what ikcp_recv takes out of rcv_buf is not linked into rcv_queue.
RecvUnlinks(n) ==
  /\ rcv_queue[n] # <<>>
  /\ got' = [got EXCEPT ![n] = @ \o [i \in 1..Head(rcv_queue[n]).len |->
                                      Head(rcv_queue[n]).off + i - 1]]
  /\ \E m \in 0..RcvWnd :
       /\ Drains(n, rcv_buf[n], Tail(rcv_queue[n]), m)
       /\ rcv_nxt' = [rcv_nxt EXCEPT ![n] = @ + m]
       /\ rcv_buf' = [rcv_buf EXCEPT ![n] =
                        [sn \in {s \in DOMAIN rcv_buf[n] : s >= rcv_nxt[n] + m} |-> @[sn]]]
  /\ rcv_queue' = [rcv_queue EXCEPT ![n] = Tail(@)]
  /\ UNCHANGED <<sndVars, ackVars, net, written, numbered>>

\* ikcp_recv of the first segment of rcv_queue.
Recv(n) ==
  /\ rcv_queue[n] # <<>>
  /\ LET seg  == Head(rcv_queue[n])
         rest == Tail(rcv_queue[n])
     IN /\ got' = [got EXCEPT ![n] = @ \o [i \in 1..seg.len |-> seg.off + i - 1]]
        /\ \E m \in 0..RcvWnd :
             /\ Drains(n, rcv_buf[n], rest, m)
             /\ Drain(n, rcv_buf[n], rest, m)
        /\ probe' = [probe EXCEPT ![n] =
             IF Len(rcv_queue[n]) >= RcvWnd /\ Len(rcv_queue'[n]) < RcvWnd
             THEN @ \cup {"tell"} ELSE @]
  /\ UNCHANGED <<sndVars, acklist, net, written, numbered>>
-----------------------------------------------------------------------------
Next ==
  \E n \in Node :
    \/ \E len \in 1..MaxBytes[n] : Send(n, len)
    \/ \E expired \in SUBSET DOMAIN snd_buf[n], probes \in Probes(n) : Flush(n, expired, probes)
    \/ \E d \in net[n] : Input(n, d)
    \/ Recv(n)

Spec == Init /\ [][Next]_vars

AnyFlush(n) ==
  \E expired \in SUBSET DOMAIN snd_buf[n], probes \in Probes(n) : Flush(n, expired, probes)

\* Endpoints that write at all.
Writers == {n \in Node : MaxBytes[n] > 0}

\* What n sends that its peer is waiting for: a writer the oldest segment that is not
\* acknowledged and window probes, its peer acknowledgements and answers to probes.
Content ==
  (Writers \X {"oldest", "send"}) \cup ({Peer(n) : n \in Writers} \X {"acks", "tell"})

\* n has something with content c to send.
Wanted(n, c) ==
  CASE c = "oldest" -> snd_buf[n] # <<>>
    [] c = "acks"   -> acklist[n] # {}
    [] c = "send"   -> rmt_wnd[n] = 0 /\ probe_wait[n] = "on"
    [] c = "tell"   -> "tell" \in probe[n]

\* Datagram d of n has the content c.
Carries(n, d, c) ==
  CASE c = "oldest" -> snd_una[n] \in DOMAIN d.push
    [] c = "acks"   -> d.acks # {}
    [] OTHER        -> c \in d.probes

\* n sends a datagram with content c, and it is not lost.
Sends(n, c) ==
  /\ Wanted(n, c) /\ AnyFlush(n)
  /\ \E d \in net'[Peer(n)] \ net[Peer(n)] : Carries(n, d, c)

\* The connection flushes again and again and its reader reads what is there.  Resend
\* timers and probe timers expire; of the datagrams with some content that are sent
\* over and over, some are not lost; and what is not lost is handed to ikcp_input.
Fairness ==
  /\ \A n \in Node : /\ WF_vars(AnyFlush(n))
                     /\ WF_vars(Recv(n))
                     /\ WF_vars(\E d \in net[n] : Input(n, d))
  /\ \A nc \in Content :
       LET n == nc[1]
           c == nc[2]
       IN /\ SF_vars(Sends(n, c))
          /\ WF_vars(\E d \in net[Peer(n)] : Carries(n, d, c) /\ Input(Peer(n), d))

FairSpec == Spec /\ Fairness
-----------------------------------------------------------------------------
(* Correctness.                                                            *)

Segment == [off : Nat, len : Nat]
Sent    == [seg : Segment, xmit : 1..(FastLimit + 1), fastack : 0..FastResend]

\* A function from some sequence numbers to S.
IsWindow(f, S) == /\ f = [sn \in DOMAIN f |-> f[sn]]
                  /\ DOMAIN f \subseteq Nat
                  /\ \A sn \in DOMAIN f : f[sn] \in S

IsDatagram(d) ==
  /\ d = [una |-> d.una, wnd |-> d.wnd, acks |-> d.acks, probes |-> d.probes, push |-> d.push]
  /\ d.una \in Nat /\ d.wnd \in 0..(RcvWnd)
  /\ d.acks \subseteq Nat /\ d.probes \subseteq {"send", "tell"}
  /\ IsWindow(d.push, Segment)

\* The type invariant.  No queue of received segments is longer than rcv_wnd.
TypeOK ==
  /\ snd_queue \in [Node -> Seq(Segment)]
  /\ snd_una \in [Node -> Nat] /\ snd_nxt \in [Node -> Nat]
  /\ rmt_wnd \in [Node -> Nat]
  /\ probe_wait \in [Node -> {"off", "on"}]
  /\ probe \in [Node -> SUBSET {"send", "tell"}]
  /\ acklist \in [Node -> SUBSET Nat]
  /\ rcv_nxt \in [Node -> Nat]
  /\ rcv_queue \in [Node -> Seq(Segment)]
  /\ written \in [Node -> Nat]
  /\ numbered \in [Node -> Seq(Segment)]
  /\ got \in [Node -> Seq(Nat)]
  /\ DOMAIN snd_buf = Node /\ DOMAIN rcv_buf = Node /\ DOMAIN net = Node
  /\ \A n \in Node :
       /\ IsWindow(snd_buf[n], Sent)
       /\ IsWindow(rcv_buf[n], Segment)
       /\ Len(rcv_queue[n]) <= RcvWnd
       /\ \A d \in net[n] : IsDatagram(d)

\* The sender keeps to its window and numbers its segments one after another, and the
\* receiver holds no more than a window of segments beyond rcv_nxt.
WindowsRespected ==
  \A n \in Node :
    /\ snd_una[n] <= snd_nxt[n] /\ snd_nxt[n] <= snd_una[n] + SndWnd
    /\ DOMAIN snd_buf[n] \subseteq snd_una[n]..(snd_nxt[n] - 1)
    /\ snd_nxt[n] = Len(numbered[n])
    /\ DOMAIN rcv_buf[n] \subseteq rcv_nxt[n]..(rcv_nxt[n] + RcvWnd - 1)

\* n holds segment sn of its peer or has handed it on to the reader.
Received(n, sn) == sn < rcv_nxt[n] \/ sn \in DOMAIN rcv_buf[n]

\* An endpoint acknowledges, in a datagram or in the list it will flush, only segments
\* that were sent to it and that it holds or has handed on.
AcksAreHonest ==
  \A n \in Node :
    /\ rcv_nxt[n] <= snd_nxt[Peer(n)]
    /\ \A sn \in acklist[n] : sn < snd_nxt[Peer(n)] /\ Received(n, sn)
    /\ \A d \in net[Peer(n)] :
         /\ d.una <= rcv_nxt[n]
         /\ \A sn \in d.acks : sn < snd_nxt[Peer(n)] /\ Received(n, sn)

\* The sender forgets a segment only when its peer has it: an acknowledgement is never
\* for a segment the peer refused.
ForgottenIsReceived ==
  \A n \in Node : \A sn \in 0..(snd_nxt[n] - 1) :
    sn \in DOMAIN snd_buf[n] \/ Received(Peer(n), sn)

\* A sequence number names the same bytes for ever: resends, and whatever the receiver
\* keeps, agree with what the number was first given to.
NumbersAreStable ==
  \A n \in Node :
    /\ \A sn \in DOMAIN snd_buf[n] : snd_buf[n][sn].seg = numbered[n][sn + 1]
    /\ \A d \in net[Peer(n)] : \A sn \in DOMAIN d.push :
         sn < snd_nxt[n] /\ d.push[sn] = numbered[n][sn + 1]
    /\ \A sn \in DOMAIN rcv_buf[Peer(n)] :
         sn < snd_nxt[n] /\ rcv_buf[Peer(n)][sn] = numbered[n][sn + 1]

\* A segment waits in rcv_buf only behind a gap or a full rcv_queue, so every segment
\* that can be read is where ikcp_recv finds it.
NothingReadyWaits ==
  \A n \in Node : rcv_nxt[n] \in DOMAIN rcv_buf[n] => Len(rcv_queue[n]) = RcvWnd

\* What the reader has not got is not lost: the reader finds more in its queue, or the
\* segment it needs next is kept by its peer for a resend or is still to be numbered.
\* So once ikcp_waitsnd is zero, a reader with an empty queue has read everything.
MissingIsKept ==
  \A n \in Node : Len(got[Peer(n)]) < written[n] =>
    \/ rcv_queue[Peer(n)] # <<>>
    \/ rcv_nxt[Peer(n)] \in DOMAIN snd_buf[n]
    \/ rcv_nxt[Peer(n)] = snd_nxt[n] /\ snd_queue[n] # <<>>

\* snd_una is the oldest segment that is not acknowledged, or snd_nxt (ikcp_shrink_buf):
\* the window is never closed by segments that are out of it.
UnaIsOldest ==
  \A n \in Node :
    IF DOMAIN snd_buf[n] = {} THEN snd_una[n] = snd_nxt[n] ELSE snd_una[n] \in DOMAIN snd_buf[n]

\* An old datagram, with an old una, moves nothing back: not the sender's window, not
\* what a number stands for, and a receiver never gives up what it has received.
NothingMovesBack ==
  [][\A n \in Node :
       /\ snd_una[n] <= snd_una'[n] /\ rcv_nxt[n] <= rcv_nxt'[n]
       /\ \A sn \in 0..(snd_nxt[Peer(n)] - 1) : Received(n, sn) => Received(n, sn)'
       /\ \A i \in DOMAIN numbered[n] : i \in DOMAIN numbered'[n] /\ numbered'[n][i] = numbered[n][i]
    ]_vars

\* The reader has read the first bytes its peer wrote, each once and in order.
ReadInOrder ==
  \A n \in Node :
    /\ Len(got[n]) <= written[Peer(n)]
    /\ \A i \in 1..Len(got[n]) : got[n][i] = i - 1

\* Every byte ikcp_send took is read by the peer, however many datagrams are lost and
\* however often the receiver's window closes.
BytesArrive ==
  \A n \in Writers : \A k \in 1..MaxBytes[n] :
    written[n] >= k ~> Len(got[Peer(n)]) >= k

\* What waits to be sent or acknowledged is acknowledged in the end, so ikcp_waitsnd
\* falls and a pending async_write completes.
SendQueuesDrain ==
  \A n \in Writers :
    snd_queue[n] # <<>> \/ snd_buf[n] # <<>> ~> snd_queue[n] = <<>> /\ snd_buf[n] = <<>>

Stream == INSTANCE KcpStream WITH sent <- written

\* The two endpoints implement a pair of reliable byte streams.
StreamSpec == Stream!Spec

\* One past the last of the segments that follow each other from rcv_nxt on.
RunEnd(n) ==
  CHOOSE e \in rcv_nxt[n]..(rcv_nxt[n] + RcvWnd) :
    /\ \A sn \in rcv_nxt[n]..(e - 1) : sn \in DOMAIN rcv_buf[n]
    /\ e \notin DOMAIN rcv_buf[n]

\* How many calls of ikcp_recv return a segment.  Each call moves what it left room for
\* to rcv_queue, so that those in rcv_buf that follow without a gap count too.
Avail(n) == Len(rcv_queue[n]) + (RunEnd(n) - rcv_nxt[n])

\* ikcp_waitsnd
WaitSnd(n) == Len(snd_queue[n]) + Cardinality(DOMAIN snd_buf[n])

Use == INSTANCE KcpUse WITH avail    <- [n \in Node |-> Avail(n)],
                            waitsnd  <- [n \in Node |-> WaitSnd(n)],
                            MaxAvail <- 2 * RcvWnd

\* Each endpoint is to its connection what Connection takes it for: flushes show neither
\* number, input only makes more readable and fewer wait, and what can be read stays
\* until it is read.
UseSpec == Use!Spec

\* ikcp_recv fails only when there is nothing to read, however much is in rcv_buf.
EmptyMeansNothing == \A n \in Node : rcv_queue[n] = <<>> => Avail(n) = 0
=============================================================================
