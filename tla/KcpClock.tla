------------------------------ MODULE KcpClock ------------------------------
(***************************************************************************)
(* The clock of a connection: connection::update of include/kcp.hpp over   *)
(* ikcp_update, ikcp_check and the times of ikcp_flush in 3rd/kcp/ikcp.c.  *)
(*                                                                         *)
(* KCP keeps 32 bit times that wrap around, connection compares a 32 bit   *)
(* result with its own 64 bit clock.  Here the width is the constant W,    *)
(* and the clock runs through several wraps.                               *)
(*                                                                         *)
(* Windows and data are seen as far as they make ikcp_flush read the       *)
(* clock: segments that are queued or on their way, duplicate acks, and    *)
(* whether the peer's window is closed.  The retransmission timeout of     *)
(* each transmission is any of Rtos (module KcpRtt computes it).           *)
(***************************************************************************)
EXTENDS Integers

CONSTANTS
  W,               \* the times of KCP are numbers below W, 2^32 in the code
  MaxNow,          \* bound: the clock
  MaxStep,         \* the longest time between two calls of connection::update
  interval,        \* ikcp_nodelay's interval
  update_interval, \* connection flushes what is less than this away
  Jump,            \* a clock that is off by this much is taken to have jumped
  Rtos,            \* what a transmission's timeout can be
  IKCP_PROBE_INIT, IKCP_PROBE_LIMIT,
  MaxSeg           \* bound: segments queued or on their way

ASSUME ClockAssumption ==
  /\ W \in Nat /\ W % 2 = 0
  /\ MaxNow \in Nat /\ MaxSeg \in Nat
  /\ {MaxStep, interval, update_interval, Jump} \subseteq Nat \ {0}
  /\ Rtos \subseteq Nat \ {0}
  /\ IKCP_PROBE_INIT \in Nat \ {0} /\ IKCP_PROBE_LIMIT \in Nat
  /\ IKCP_PROBE_INIT <= IKCP_PROBE_LIMIT
  \* No time that is compared with the clock is half the range away from it.
  /\ interval + MaxStep < Jump /\ 2 * (Jump + MaxStep) < W
  /\ \A r \in Rtos : 2 * (r + interval + MaxStep) < W
  \* No timeout is shorter than what connection takes to be now.
  /\ \A r \in Rtos : update_interval <= r
  /\ 2 * (IKCP_PROBE_LIMIT + interval + MaxStep) < W

Segment == 1..MaxSeg

VARIABLES
  now,         \* clock(), as wide as the bound
  next_tick_,  \* of connection, as wide as now
  kcp,         \* updated, ts_flush, rmt_wnd (whether it is zero), ts_probe, probe_wait
  seg,         \* the segments; due is history: resendts on the clock that never wraps
  flushed,     \* history: when ikcp_flush last ran
  asked        \* history: when the window was last probed, or found to be closed

vars == <<now, next_tick_, kcp, seg, flushed, asked>>

Free   == [st |-> "free", resendts |-> 0, fast |-> FALSE, due |-> 0]
Queued == [Free EXCEPT !.st = "queued"]

Init ==
  /\ now \in 0..(W - 1)
  /\ next_tick_ = 0
  /\ kcp = [updated |-> FALSE, ts_flush |-> interval % W, closed |-> FALSE,
            ts_probe |-> 0, probe_wait |-> 0]
  /\ seg = [n \in Segment |-> Free]
  /\ flushed = now /\ asked = now
-----------------------------------------------------------------------------
(* Times.                                                                  *)

\* Mutant: a time is not cut to its width.
LaterUncut(t, d) == t + d

Later(t, d) == (t + d) % W

\* _itimediff: the sign bit of the 32 bit difference tells which time is later.
Itimediff(later, earlier) ==
  LET d == (later - earlier) % W
  IN IF 2 * d >= W THEN d - W ELSE d

Lesser(a, b)  == IF a < b THEN a ELSE b
Greater(a, b) == IF a > b THEN a ELSE b
-----------------------------------------------------------------------------
(* ikcp_flush, as far as it reads the clock.                               *)

\* The segments it transmits: new ones when the window is open, those that are due,
\* and those that duplicate acks overtook.
Resent(k, sg, current) ==
  {n \in Segment :
     \/ sg[n].st = "queued" /\ ~k.closed
     \/ /\ sg[n].st = "sent"
        /\ Itimediff(current, sg[n].resendts) >= 0 \/ sg[n].fast}

\* What it makes of the segments, for each choice of their timeouts.
FlushedSegments(k, sg, t) ==
  LET S == Resent(k, sg, t % W)
  IN {[n \in Segment |->
         IF n \in S THEN [st |-> "sent", resendts |-> Later(t % W, rto[n]), fast |-> FALSE,
                          due |-> t + rto[n]]
         ELSE sg[n]] : rto \in [S -> Rtos]}

\* Mutant: times are compared as numbers.
ProbeIsDueUnsigned(k, current) ==
  k.closed /\ k.probe_wait # 0 /\ current >= k.ts_probe

ProbeIsDue(k, current) ==
  k.closed /\ k.probe_wait # 0 /\ Itimediff(current, k.ts_probe) >= 0

NextWait(wait) ==
  LET w == Greater(wait, IKCP_PROBE_INIT) IN Lesser(w + w \div 2, IKCP_PROBE_LIMIT)

\* Mutant: the time of the next probe is not set again after a probe.
FlushedProbeOnce(k, current) ==
  IF ~k.closed THEN [k EXCEPT !.ts_probe = 0, !.probe_wait = 0]
  ELSE IF k.probe_wait = 0
       THEN [k EXCEPT !.probe_wait = IKCP_PROBE_INIT,
                      !.ts_probe = Later(current, IKCP_PROBE_INIT)]
  ELSE IF ProbeIsDue(k, current) THEN [k EXCEPT !.probe_wait = NextWait(@)]
  ELSE k

\* The timer of the window probe.
FlushedProbe(k, current) ==
  IF ~k.closed THEN [k EXCEPT !.ts_probe = 0, !.probe_wait = 0]
  ELSE IF k.probe_wait = 0
       THEN [k EXCEPT !.probe_wait = IKCP_PROBE_INIT,
                      !.ts_probe = Later(current, IKCP_PROBE_INIT)]
  ELSE IF ProbeIsDue(k, current)
       THEN [k EXCEPT !.probe_wait = NextWait(@),
                      !.ts_probe = Later(current, NextWait(k.probe_wait))]
  ELSE k

\* Whether a flush asks for the window, or finds it closed for the first time.
Asks(k, current) == ProbeIsDue(k, current) \/ (k.closed /\ k.probe_wait = 0)
-----------------------------------------------------------------------------
(* ikcp_update and ikcp_check.                                             *)

Jumped(current, ts_flush) ==
  Itimediff(current, ts_flush) >= Jump \/ Itimediff(current, ts_flush) < -Jump

\* The flush time that ikcp_update compares the clock with.
FlushTime(k, current) ==
  IF ~k.updated \/ Jumped(current, k.ts_flush) THEN current ELSE k.ts_flush

FlushIsDue(k, current) == Itimediff(current, FlushTime(k, current)) >= 0

\* The flush time it leaves behind.
NextFlushTime(k, current) ==
  LET t == FlushTime(k, current)
  IN IF ~FlushIsDue(k, current) THEN t
     ELSE IF Itimediff(current, Later(t, interval)) >= 0 THEN Later(current, interval)
     ELSE Later(t, interval)

Updated(k, current) ==
  [k EXCEPT !.updated = TRUE, !.ts_flush = NextFlushTime(k, current)]

\* How long until the first segment is due, at most interval.
UntilPacket(sg, current) ==
  LET D == {Itimediff(sg[n].resendts, current) : n \in {m \in Segment : sg[m].st = "sent"}}
           \cup {interval}
  IN CHOOSE d \in D : \A e \in D : d <= e

\* The time ikcp_check returns: of the next flush or of the first segment due.
Check(k, sg, current) ==
  IF ~k.updated \/ Jumped(current, k.ts_flush) \/ Itimediff(current, k.ts_flush) >= 0
  THEN current
  ELSE LET until == Lesser(UntilPacket(sg, current), Itimediff(k.ts_flush, current))
       IN IF UntilPacket(sg, current) <= 0 THEN current ELSE Later(current, until)
-----------------------------------------------------------------------------
\* Mutant: the clock is cut to 32 bits before it is compared.
IsTimeCut(t) == next_tick_ <= t % W

\* Whether connection::update has anything to do.
IsTime(t) == next_tick_ <= t

\* Mutant: connection does not flush by itself.
FlushesNowNever(next, t) == FALSE

\* Whether connection::update flushes once more after ikcp_check.
FlushesNow(next, t) == next - t < update_interval

\* connection::update at time t: ikcp_update, ikcp_check, and ikcp_flush when the next
\* tick is near.
ConnectionUpdate(t) ==
  LET c  == t % W
      k1 == Updated(kcp, c)
      k2 == IF FlushIsDue(kcp, c) THEN FlushedProbe(k1, c) ELSE k1
  IN \E s1 \in IF FlushIsDue(kcp, c) THEN FlushedSegments(k1, seg, t) ELSE {seg} :
       LET next == Check(k2, s1, c)
       IN /\ next_tick_' = next
          /\ seg' \in IF FlushesNow(next, t) THEN FlushedSegments(k2, s1, t) ELSE {s1}
          /\ kcp' = IF FlushesNow(next, t) THEN FlushedProbe(k2, c) ELSE k2
          /\ flushed' = IF FlushIsDue(kcp, c) \/ FlushesNow(next, t) THEN t ELSE flushed
          /\ asked' = IF \/ FlushIsDue(kcp, c) /\ Asks(k1, c)
                         \/ FlushesNow(next, t) /\ Asks(k2, c)
                      THEN t ELSE asked
-----------------------------------------------------------------------------
\* The timer of the client or of the acceptor calls connection::update, d after the
\* last time.
Poll(d) ==
  /\ now + d <= MaxNow
  /\ now' = now + d
  /\ IF IsTime(now + d) THEN ConnectionUpdate(now + d)
     ELSE UNCHANGED <<next_tick_, kcp, seg, flushed, asked>>

\* A write: ikcp_send queues a segment.
Write(n) ==
  /\ seg[n].st = "free"
  /\ seg' = [seg EXCEPT ![n] = Queued]
  /\ next_tick_' = 0
  /\ UNCHANGED <<now, kcp, flushed, asked>>

\* A datagram, by ikcp_input: segment n is acknowledged, or acks overtake it, and it
\* tells whether the peer's window is closed.  One that does more is several of these.
Input(n, what, closed) ==
  /\ what # "nothing" => seg[n].st = "sent"
  /\ seg' = CASE what = "acked"     -> [seg EXCEPT ![n] = Free]
              [] what = "overtaken" -> [seg EXCEPT ![n].fast = TRUE]
              [] what = "nothing"   -> seg
  /\ kcp' = [kcp EXCEPT !.closed = closed]
  /\ next_tick_' = 0
  /\ UNCHANGED <<now, flushed, asked>>

Environment ==
  \/ \E n \in Segment : Write(n)
  \/ \E n \in Segment, what \in {"acked", "overtaken", "nothing"}, closed \in BOOLEAN :
       Input(n, what, closed)

Next == (\E d \in 1..MaxStep : Poll(d)) \/ Environment

Spec == Init /\ [][Next]_vars
-----------------------------------------------------------------------------
(* Correctness.                                                            *)

\* The type invariant.
TypeOK ==
  /\ now \in Nat
  /\ next_tick_ \in 0..(W - 1)
  /\ kcp \in [updated : BOOLEAN, ts_flush : 0..(W - 1), closed : BOOLEAN,
              ts_probe : 0..(W - 1), probe_wait : 0..IKCP_PROBE_LIMIT]
  /\ seg \in [Segment -> [st : {"free", "queued", "sent"}, resendts : 0..(W - 1),
                          fast : BOOLEAN, due : Nat]]
  /\ flushed \in 0..now /\ asked \in 0..now

\* Once connection::update has looked at the clock nothing that is due is left: each
\* segment on its way has its next transmission ahead, on the clock that never wraps.
NothingOverdue == \A n \in Segment : seg[n].st = "sent" => seg[n].due > now

\* When it has looked, the last flush is not an interval ago, through every wrap of either
\* clock: queued data, acks and window answers leave, at the latest by the first call
\* after the interval.
FlushedLately == now - flushed < interval

\* A closed window is probed in time: by the first flush after the wait ...
ProbedLately == kcp.probe_wait # 0 => now - asked < kcp.probe_wait + interval

\* ... and not before the wait is over.
ProbesBackOff ==
  [][(kcp.probe_wait # 0 /\ asked' # asked) => now' - asked >= kcp.probe_wait]_vars

\* No segment on its way is sent again before its timeout, through any wrap, unless
\* duplicate acks overtook it.
ResendsWait ==
  [][\A n \in Segment :
       (/\ seg[n].st = "sent" /\ ~seg[n].fast
        /\ seg'[n].st = "sent" /\ seg'[n].due # seg[n].due)
         => seg[n].due <= now']_vars
=============================================================================
