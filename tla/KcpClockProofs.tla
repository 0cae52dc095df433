--------------------------- MODULE KcpClockProofs ---------------------------
(***************************************************************************)
(* Proofs about KcpClock, for any width of KCP's times (2^32 too), any     *)
(* bound on the clock, and any number of segments.                         *)
(*                                                                         *)
(* Every time KCP keeps is the remainder of a real time that is close to   *)
(* the clock, so that the signed difference of the remainders is that of   *)
(* the times (lemma Difference).  With that the invariant says of the real *)
(* times: the next flush, the resends and the probe are ahead, not too     *)
(* far, and next_tick_ does not make connection::update sleep past them.   *)
(***************************************************************************)
EXTENDS KcpClock, WellFoundedInduction, TLAPS

KcpType == [updated : BOOLEAN, ts_flush : 0..(W - 1), closed : BOOLEAN,
            ts_probe : 0..(W - 1), probe_wait : 0..IKCP_PROBE_LIMIT]
SegmentType == [st : {"free", "queued", "sent"}, resendts : 0..(W - 1),
                fast : BOOLEAN, due : Nat]

\* connection::update does not sleep from t past time.
Awake(next, t, time) == next <= t \/ next <= time

\* Once updated, the next flush is ahead, and not an interval after the last.
FlushAhead(k, next, t, fl) ==
  k.updated => \E F \in Nat : /\ k.ts_flush = F % W
                              /\ t < F /\ F <= fl + interval
                              /\ Awake(next, t, F)

\* Before the first update nothing was flushed.
Unused(k, sg, next, t, fl, ak) ==
  ~k.updated => /\ next = 0 /\ k.probe_wait = 0 /\ fl = t /\ ak = t
                /\ \A n \in Segment : sg[n].st # "sent"

\* The segments on their way were given a timeout by the last flush or an earlier one.
Timed(sg, fl) ==
  \A n \in Segment : sg[n].st = "sent" => /\ sg[n].resendts = sg[n].due % W
                                          /\ \E r \in Rtos : sg[n].due <= fl + r

\* They are due after t, and connection::update does not sleep past that.
Ahead(sg, t) == \A n \in Segment : sg[n].st = "sent" => sg[n].due > t
AllAwake(sg, next, t) ==
  \A n \in Segment : sg[n].st = "sent" => Awake(next, t, sg[n].due)

\* The probe waits as long as probe_wait, and no flush came after that.
ProbeAhead(k, fl, ak) ==
  k.probe_wait # 0 => /\ k.ts_probe = (ak + k.probe_wait) % W
                      /\ fl < ak + k.probe_wait

\* The inductive invariant.
ClockInv ==
  /\ TypeOK
  /\ FlushAhead(kcp, next_tick_, now, flushed)
  /\ Unused(kcp, seg, next_tick_, now, flushed, asked)
  /\ Timed(seg, flushed)
  /\ Ahead(seg, now)
  /\ AllAwake(seg, next_tick_, now)
  /\ ProbeAhead(kcp, flushed, asked)
-----------------------------------------------------------------------------
(* Remainders.                                                             *)

\* What the assumption says, in the form the proofs use it.
LEMMA Constants ==
  /\ W \in Nat /\ W > 0
  /\ MaxStep \in Nat \ {0} /\ interval \in Nat \ {0} /\ update_interval \in Nat \ {0}
  /\ Jump \in Nat \ {0} /\ interval + MaxStep < Jump /\ 2 * (Jump + MaxStep) < W
  /\ \A r \in Rtos : /\ r \in Nat \ {0} /\ update_interval <= r
                     /\ 2 * (r + interval + MaxStep) < W
  /\ IKCP_PROBE_INIT \in Nat \ {0} /\ IKCP_PROBE_LIMIT \in Nat
  /\ IKCP_PROBE_INIT <= IKCP_PROBE_LIMIT
  /\ 2 * (IKCP_PROBE_LIMIT + interval + MaxStep) < W
<1>1. /\ {MaxStep, interval, update_interval, Jump} \subseteq Nat \ {0}
      /\ W \in Nat
      /\ 2 * (Jump + MaxStep) < W
  BY ClockAssumption
<1>2. W > 0
  BY <1>1
<1> QED
  BY <1>1, <1>2, ClockAssumption

LEMMA Division ==
  ASSUME NEW w \in Nat, w > 0, NEW x \in Int
  PROVE  x = w * (x \div w) + (x % w)
  BY SMT

LEMMA ModFacts ==
  ASSUME NEW x \in Int
  PROVE  \E r \in 0..(W - 1), q \in Int : r = x % W /\ x = W * q + r
<1>1. W \in Nat /\ W > 0
  BY Constants
<1>2. x \div W \in Int /\ x % W \in 0..(W - 1)
  BY <1>1
<1>3. x = W * (x \div W) + (x % W)
  BY <1>1, Division
<1> QED
  BY <1>2, <1>3, Zenon

\* The only multiple of W that is nearer to 0 than W is 0.
LEMMA Gap ==
  ASSUME NEW q \in Int, W * q < W, W * q > -W
  PROVE  q = 0
<1> USE Constants
<1>1. CASE q >= 1
  <2>1. W * q >= W
    BY <1>1
  <2> QED
    BY <2>1
<1>2. CASE q <= -1
  <2>1. W * q <= -W
    BY <1>2
  <2> QED
    BY <2>1
<1> QED
  BY <1>1, <1>2

\* A remainder is the only number below W that differs by a multiple of W.
LEMMA ModUnique ==
  ASSUME NEW x \in Int, NEW q \in Int, NEW r \in 0..(W - 1), x = W * q + r
  PROVE  x % W = r
<1>0. W \in Nat /\ W > 0
  BY Constants
<1>1. PICK s \in 0..(W - 1), p \in Int : s = x % W /\ x = W * p + s
  BY ModFacts
<1>2. W * p \in Int /\ W * q \in Int /\ W * (p - q) \in Int /\ p - q \in Int
  BY <1>0
<1>3. W * (p - q) = W * p - W * q
  BY <1>0
<1>4. W * (p - q) < W /\ W * (p - q) > -W
  BY <1>0, <1>1, <1>2, <1>3
<1>5. p = q
  BY <1>2, <1>4, Gap
<1>6. r = s
  BY <1>0, <1>1, <1>2, <1>5
<1> QED
  BY <1>1, <1>6

\* A sum that is cut is the remainder of the real sum.
LEMMA LaterSum ==
  ASSUME NEW a \in Int, NEW d \in Int
  PROVE  Later(a % W, d) = (a + d) % W
<1>0. W \in Nat /\ W > 0
  BY Constants
<1>1. PICK ra \in 0..(W - 1), p \in Int : ra = a % W /\ a = W * p + ra
  BY ModFacts
<1>2. PICK rs \in 0..(W - 1), q \in Int : rs = (a + d) % W /\ a + d = W * q + rs
  BY ModFacts, a + d \in Int
<1>3. W * p \in Int /\ W * q \in Int /\ q - p \in Int
      /\ W * (q - p) = W * q - W * p
  BY <1>0
<1>4. ra + d = W * (q - p) + rs /\ ra + d \in Int
  BY <1>0, <1>1, <1>2, <1>3
<1>5. (ra + d) % W = rs
  BY <1>3, <1>4, ModUnique
<1> QED
  BY <1>1, <1>2, <1>5 DEF Later

\* The sign bit tells the order of times that are less than half the range apart.
LEMMA Difference ==
  ASSUME NEW a \in Int, NEW b \in Int, 2 * (a - b) < W, -W <= 2 * (a - b)
  PROVE  Itimediff(a % W, b % W) = a - b
<1>0. W \in Nat /\ W > 0
  BY Constants
<1>1. PICK ra \in 0..(W - 1), p \in Int : ra = a % W /\ a = W * p + ra
  BY ModFacts
<1>2. PICK rb \in 0..(W - 1), q \in Int : rb = b % W /\ b = W * q + rb
  BY ModFacts
<1>3. W * p \in Int /\ W * q \in Int /\ q - p \in Int /\ q - p - 1 \in Int
      /\ ra - rb \in Int
      /\ W * (q - p) = W * q - W * p /\ W * (q - p - 1) = W * q - W * p - W
  BY <1>0
<1>4. CASE a >= b
  <2>1. ra - rb = W * (q - p) + (a - b) /\ a - b \in 0..(W - 1)
    BY <1>0, <1>1, <1>2, <1>3, <1>4
  <2>2. (ra - rb) % W = a - b
    BY <1>3, <2>1, ModUnique
  <2>3. ~(2 * (a - b) >= W)
    BY <1>0
  <2> QED
    BY <1>1, <1>2, <2>2, <2>3 DEF Itimediff
<1>5. CASE a < b
  <2>1. ra - rb = W * (q - p - 1) + (a - b + W) /\ a - b + W \in 0..(W - 1)
    BY <1>0, <1>1, <1>2, <1>3, <1>5
  <2>2. (ra - rb) % W = a - b + W
    BY <1>3, <2>1, ModUnique
  <2>3. 2 * (a - b + W) >= W /\ (a - b + W) - W = a - b
    BY <1>0
  <2> QED
    BY <1>1, <1>2, <2>2, <2>3 DEF Itimediff
<1> QED
  BY <1>4, <1>5

\* What Itimediff returns, whatever the times are.
LEMMA DifferenceRange ==
  ASSUME NEW a \in Int, NEW b \in Int
  PROVE  Itimediff(a, b) \in Int /\ -W <= Itimediff(a, b)
<1>1. (a - b) % W \in 0..(W - 1)
  BY Constants
<1> QED
  BY <1>1, Constants DEF Itimediff
-----------------------------------------------------------------------------
(* The flush time and the result of ikcp_check.                            *)

LEMMA HasLeast ==
  ASSUME NEW T, T \subseteq Nat, T # {}
  PROVE  \E x \in T : \A y \in T : x <= y
<1> DEFINE R == {ss \in Nat \X Nat : ss[1] < ss[2]}
<1>1. IsWellFoundedOn(R, Nat)
  BY NatLessThanWellFounded, Zenon DEF OpToRel
<1>2. PICK x \in T : \A y \in T : <<y, x>> \notin R
  <2> HIDE DEF R
  <2> QED
    BY <1>1, WFMin, Zenon
<1>3. \A y \in T : ~(y < x)
  BY <1>2
<1> QED
  BY <1>3

\* UntilPacket is the least of interval and the times until the segments are due.
LEMMA LeastUntil ==
  ASSUME NEW sg \in [Segment -> SegmentType], NEW c \in Int
  PROVE  /\ UntilPacket(sg, c) \in Int /\ UntilPacket(sg, c) <= interval
         /\ \A n \in Segment : sg[n].st = "sent" =>
              UntilPacket(sg, c) <= Itimediff(sg[n].resendts, c)
<1> DEFINE D == {Itimediff(sg[n].resendts, c) : n \in {m \in Segment : sg[m].st = "sent"}}
                  \cup {interval}
           T == {e + W : e \in D}
<1>1. \A e \in D : e \in Int /\ -W <= e
  <2>1. \A n \in Segment : sg[n].resendts \in Int
    BY Constants DEF SegmentType
  <2>2. \A n \in Segment : /\ Itimediff(sg[n].resendts, c) \in Int
                           /\ -W <= Itimediff(sg[n].resendts, c)
    BY <2>1, DifferenceRange, Zenon
  <2>3. interval \in Int /\ -W <= interval
    BY Constants
  <2> QED
    BY <2>2, <2>3, Zenon
<1>2. interval \in D
  OBVIOUS
<1>3. \E d \in D : \A e \in D : d <= e
  <2> HIDE DEF D
  <2>1. T \subseteq Nat /\ T # {}
    BY <1>1, <1>2, Constants
  <2>2. PICK x \in T : \A y \in T : x <= y
    <3> HIDE DEF T
    <3> QED
      BY <2>1, HasLeast
  <2>3. PICK d \in D : x = d + W
    BY <2>2
  <2>4. \A e \in D : d + W <= e + W
    BY <2>2, <2>3, Zenon
  <2>5. \A e \in D : d <= e
    BY <1>1, <2>4, Constants
  <2> QED
    BY <2>5
<1>4. UntilPacket(sg, c) \in D /\ \A e \in D : UntilPacket(sg, c) <= e
  BY <1>3 DEF UntilPacket
<1> QED
  BY <1>1, <1>2, <1>4

\* The flush time ikcp_update compares with is the remainder of F: it flushes if F has
\* come, and leaves the next flush time G ahead.
LEMMA FlushSchedule ==
  ASSUME NEW k \in KcpType, NEW t \in Nat, NEW F \in Nat,
         t - F <= MaxStep, F - t <= interval,
         IF k.updated THEN k.ts_flush = F % W ELSE F = t
  PROVE  /\ FlushIsDue(k, t % W) <=> F <= t
         /\ \E G \in Nat : /\ NextFlushTime(k, t % W) = G % W
                           /\ t < G /\ G <= t + interval
                           /\ F > t => G = F
<1>1. Itimediff(t % W, F % W) = t - F
  <2>1. t \in Int /\ F \in Int /\ 2 * (t - F) < W /\ -W <= 2 * (t - F)
    BY Constants
  <2> QED
    BY <2>1, Difference, Zenon
<1>2. FlushTime(k, t % W) = F % W
  <2>1. CASE ~k.updated
    BY <2>1 DEF FlushTime
  <2>2. CASE k.updated
    <3>1. ~Jumped(t % W, k.ts_flush)
      BY <1>1, <2>2, Constants DEF Jumped
    <3> QED
      BY <2>2, <3>1 DEF FlushTime
  <2> QED
    BY <2>1, <2>2
<1>3. FlushIsDue(k, t % W) <=> F <= t
  BY <1>1, <1>2 DEF FlushIsDue
<1>4. CASE F > t
  <2>1. NextFlushTime(k, t % W) = F % W
    BY <1>2, <1>3, <1>4 DEF NextFlushTime
  <2> QED
    BY <1>3, <1>4, <2>1, Constants
<1>5. CASE F <= t
  <2>1. Later(F % W, interval) = (F + interval) % W /\ Later(t % W, interval) = (t + interval) % W
    <3>1. F \in Int /\ t \in Int /\ interval \in Int
      BY Constants
    <3> QED
      BY <3>1, LaterSum, Zenon
  <2>2. Itimediff(t % W, (F + interval) % W) = t - (F + interval)
    <3>1. /\ t \in Int /\ F + interval \in Int
          /\ 2 * (t - (F + interval)) < W /\ -W <= 2 * (t - (F + interval))
      BY <1>5, Constants
    <3> QED
      BY <3>1, Difference, Zenon
  <2> DEFINE next == Later(FlushTime(k, t % W), interval)
             i    == Itimediff(t % W, next)
  <2>3. i = t - (F + interval)
    BY <1>2, <2>1, <2>2, Zenon
  <2>4. NextFlushTime(k, t % W) = IF i >= 0 THEN Later(t % W, interval) ELSE next
    BY <1>3, <1>5, Zenon DEF NextFlushTime
  <2> HIDE DEF i
  <2>5. CASE F + interval <= t
    <3>1. NextFlushTime(k, t % W) = (t + interval) % W
      BY <2>1, <2>3, <2>4, <2>5, Constants
    <3> QED
      BY <1>3, <1>5, <3>1, Constants
  <2>6. CASE ~(F + interval <= t)
    <3>1. NextFlushTime(k, t % W) = (F + interval) % W
      BY <1>2, <2>1, <2>3, <2>4, <2>6, Constants
    <3> QED
      BY <1>3, <1>5, <2>6, <3>1, Constants
  <2> QED
    BY <2>5, <2>6
<1> QED
  BY <1>4, <1>5

\* The signed differences tell how far segments are due.
LEMMA DueTime ==
  ASSUME NEW sg \in [Segment -> SegmentType], NEW t \in Nat, NEW fl \in Nat, fl <= t,
         Timed(sg, fl), Ahead(sg, t - MaxStep),
         NEW n \in Segment, sg[n].st = "sent"
  PROVE  /\ sg[n].due \in Nat
         /\ Itimediff(sg[n].resendts, t % W) = sg[n].due - t
         /\ Itimediff(t % W, sg[n].resendts) = t - sg[n].due
<1>1. PICK x \in Nat : x = sg[n].due
  BY DEF SegmentType
<1>2. sg[n].resendts = x % W
  BY <1>1 DEF Timed
<1>3. PICK r \in Rtos : x <= fl + r
  BY <1>1 DEF Timed
<1>4. x > t - MaxStep
  BY <1>1 DEF Ahead
<1>5. /\ x \in Int /\ t \in Int
      /\ 2 * (x - t) < W /\ -W <= 2 * (x - t) /\ 2 * (t - x) < W /\ -W <= 2 * (t - x)
  BY <1>3, <1>4, Constants
<1>6. Itimediff(x % W, t % W) = x - t /\ Itimediff(t % W, x % W) = t - x
  BY <1>5, Difference, Zenon
<1> QED
  BY <1>1, <1>2, <1>6, Zenon

\* ikcp_check returns a time that is not ahead, or one that is not after the next flush
\* and not after any resend, all of which are ahead.
LEMMA CheckTime ==
  ASSUME NEW k \in KcpType, NEW sg \in [Segment -> SegmentType], NEW t \in Nat,
         NEW G \in Nat, NEW fl \in Nat, fl <= t,
         k.updated, k.ts_flush = G % W, t < G, G <= t + interval,
         Timed(sg, fl), Ahead(sg, t - MaxStep)
  PROVE  /\ Check(k, sg, t % W) \in 0..(W - 1)
         /\ \/ Check(k, sg, t % W) <= t
            \/ /\ Ahead(sg, t)
               /\ Check(k, sg, t % W) <= G
               /\ AllAwake(sg, Check(k, sg, t % W), t)
<1> USE Constants
<1>1. \A x \in Nat : x % W \in 0..(W - 1) /\ x % W <= x
  OBVIOUS
<1>2. Itimediff(t % W, G % W) = t - G /\ Itimediff(G % W, t % W) = G - t
  BY Difference
<1>3. ~Jumped(t % W, k.ts_flush)
  BY <1>2 DEF Jumped
<1>4. \A n \in Segment : sg[n].st = "sent" =>
        sg[n].due \in Nat /\ Itimediff(sg[n].resendts, t % W) = sg[n].due - t
  BY DueTime
<1>5. t % W \in Int
  BY <1>1
<1> DEFINE u == UntilPacket(sg, t % W)
           l == Lesser(u, G - t)
<1>6. u \in Int /\ u <= interval
  BY <1>5, LeastUntil
<1>7. \A n \in Segment : sg[n].st = "sent" => sg[n].due \in Nat /\ u <= sg[n].due - t
  BY <1>4, <1>5, LeastUntil
<1>8. Check(k, sg, t % W) = IF u <= 0 THEN t % W ELSE Later(t % W, l)
  BY <1>2, <1>3 DEF Check
<1> HIDE DEF u
<1>9. CASE u <= 0
  BY <1>1, <1>6, <1>8, <1>9
<1>10. CASE ~(u <= 0)
  <2>1. l \in Nat /\ l <= G - t /\ l <= u
    BY <1>6, <1>10 DEF Lesser
  <2> HIDE DEF l
  <2>2. Check(k, sg, t % W) = (t + l) % W
    <3>1. Later(t % W, l) = (t + l) % W
      <4>1. t \in Int /\ l \in Int
        BY <2>1
      <4> QED
        BY <4>1, LaterSum, Zenon
    <3> QED
      BY <1>8, <1>10, <3>1, Zenon
  <2>3. PICK x \in 0..(W - 1) : x = Check(k, sg, t % W) /\ x <= t + l
    BY <1>1, <2>1, <2>2
  <2>4. Ahead(sg, t)
    BY <1>6, <1>7, <1>10 DEF Ahead
  <2>5. AllAwake(sg, x, t)
    BY <1>6, <1>7, <2>1, <2>3 DEF AllAwake, Awake
  <2> QED
    BY <2>1, <2>3, <2>4, <2>5
<1> QED
  BY <1>9, <1>10
-----------------------------------------------------------------------------
(* What ikcp_flush does to the times.                                      *)

\* The due times of s1 are those of sg, or new ones given at t.
Retimed(sg, s1, t) ==
  \A n \in Segment : s1[n].st = "sent" => \/ sg[n].st = "sent" /\ s1[n].due = sg[n].due
                                          \/ \E r \in Rtos : s1[n].due = t + r

\* A segment on its way that s1 has changed was due, or duplicate acks had overtaken it.
Waits(sg, s1, t) ==
  \A n \in Segment : sg[n].st = "sent" /\ ~sg[n].fast => s1[n] = sg[n] \/ sg[n].due <= t

LEMMA FlushTimes ==
  ASSUME NEW k, NEW sg \in [Segment -> SegmentType], NEW t \in Nat, NEW fl \in Nat,
         fl <= t, Timed(sg, fl), Ahead(sg, t - MaxStep),
         NEW s1 \in FlushedSegments(k, sg, t)
  PROVE  /\ s1 \in [Segment -> SegmentType] /\ Timed(s1, t) /\ Ahead(s1, t)
         /\ Retimed(sg, s1, t) /\ Waits(sg, s1, t)
<1> DEFINE S == Resent(k, sg, t % W)
<1>1. PICK rto \in [S -> Rtos] :
        s1 = [n \in Segment |->
                IF n \in S THEN [st |-> "sent", resendts |-> Later(t % W, rto[n]),
                                 fast |-> FALSE, due |-> t + rto[n]]
                ELSE sg[n]]
  BY Zenon DEF FlushedSegments
<1>2. \A n \in S : /\ s1[n].st = "sent" /\ s1[n].due = t + rto[n] /\ s1[n].fast = FALSE
                   /\ s1[n].resendts = (t + rto[n]) % W /\ rto[n] \in Rtos
                   /\ s1[n] \in SegmentType
  <2> SUFFICES ASSUME NEW n \in S
               PROVE  /\ s1[n].st = "sent" /\ s1[n].due = t + rto[n] /\ s1[n].fast = FALSE
                      /\ s1[n].resendts = (t + rto[n]) % W /\ rto[n] \in Rtos
                      /\ s1[n] \in SegmentType
    OBVIOUS
  <2>1. n \in Segment
    BY DEF Resent
  <2>2. PICK r \in Rtos : r = rto[n]
    OBVIOUS
  <2>3. r \in Nat /\ t \in Int /\ r \in Int /\ t + r \in Nat
    BY Constants
  <2>4. PICK x \in 0..(W - 1) : x = (t + r) % W /\ x = Later(t % W, r)
    <3>1. Later(t % W, r) = (t + r) % W
      BY <2>3, LaterSum, Zenon
    <3>2. (t + r) % W \in 0..(W - 1)
      BY <2>3, Constants
    <3> QED
      BY <3>1, <3>2, Zenon
  <2>5. s1[n] = [st |-> "sent", resendts |-> x, fast |-> FALSE, due |-> t + r]
    <3> HIDE DEF S
    <3> QED
      BY <1>1, <2>1, <2>2, <2>4, Zenon
  <2>6. [st |-> "sent", resendts |-> x, fast |-> FALSE, due |-> t + r] \in SegmentType
    BY <2>3 DEF SegmentType
  <2>7. /\ s1[n].st = "sent" /\ s1[n].due = t + r /\ s1[n].fast = FALSE
        /\ s1[n].resendts = x
    BY <2>5
  <2>8. s1[n] \in SegmentType
    BY <2>5, <2>6, Zenon
  <2> HIDE DEF S
  <2> QED
    BY <2>2, <2>4, <2>7, <2>8, Zenon
<1>3. \A n \in Segment : n \notin S => s1[n] = sg[n] /\ sg[n] \in SegmentType
  BY <1>1
<1>4. \A n \in Segment : n \notin S /\ sg[n].st = "sent" => sg[n].due \in Nat /\ sg[n].due > t
  <2> SUFFICES ASSUME NEW n \in Segment, n \notin S, sg[n].st = "sent"
               PROVE  sg[n].due \in Nat /\ sg[n].due > t
    OBVIOUS
  <2>1. sg[n].due \in Nat /\ Itimediff(t % W, sg[n].resendts) = t - sg[n].due
    BY DueTime
  <2>2. ~(Itimediff(t % W, sg[n].resendts) >= 0)
    BY Zenon DEF Resent
  <2> QED
    BY <2>1, <2>2
<1>8. \A n \in S : sg[n].st = "sent" /\ ~sg[n].fast => sg[n].due <= t
  <2> SUFFICES ASSUME NEW n \in Segment, n \in S, sg[n].st = "sent", ~sg[n].fast
               PROVE  sg[n].due <= t
    BY DEF Resent
  <2>1. sg[n].due \in Nat /\ Itimediff(t % W, sg[n].resendts) = t - sg[n].due
    BY DueTime
  <2>2. Itimediff(t % W, sg[n].resendts) >= 0
    BY Zenon DEF Resent
  <2> QED
    BY <2>1, <2>2
<1> HIDE DEF S
<1>9. Waits(sg, s1, t)
  BY <1>3, <1>8 DEF Waits
<1>5. s1 \in [Segment -> SegmentType]
  <2>1. \A n \in Segment : s1[n] \in SegmentType
    BY <1>2, <1>3
  <2> QED
    BY <1>1, <2>1
<1>6. Timed(s1, t)
  <2> SUFFICES ASSUME NEW n \in Segment, s1[n].st = "sent"
               PROVE  s1[n].resendts = s1[n].due % W /\ \E r \in Rtos : s1[n].due <= t + r
    BY DEF Timed
  <2>1. CASE n \in S
    <3>1. s1[n].resendts = s1[n].due % W
      BY <1>2, <2>1, Zenon
    <3>2. rto[n] \in Rtos /\ s1[n].due = t + rto[n] /\ s1[n].due <= t + rto[n]
      BY <1>2, <2>1, Constants
    <3> QED
      BY <3>1, <3>2
  <2>2. CASE n \notin S
    <3>1. s1[n] = sg[n] /\ sg[n] \in SegmentType
      BY <1>3, <2>2
    <3>2. PICK r \in Rtos : sg[n].due <= fl + r
      BY <3>1 DEF Timed
    <3>3. sg[n].due <= t + r
      BY <3>1, <3>2, Constants DEF SegmentType
    <3>4. sg[n].resendts = sg[n].due % W
      BY <3>1 DEF Timed
    <3> QED
      BY <3>1, <3>3, <3>4
  <2> QED
    BY <2>1, <2>2
<1>7. Ahead(s1, t)
  <2> SUFFICES ASSUME NEW n \in Segment, s1[n].st = "sent" PROVE s1[n].due > t
    BY DEF Ahead
  <2>1. CASE n \in S
    BY <1>2, <2>1, Constants
  <2>2. CASE n \notin S
    BY <1>3, <1>4, <2>2
  <2> QED
    BY <2>1, <2>2
<1> QED
  BY <1>2, <1>3, <1>5, <1>6, <1>7, <1>9 DEF Retimed

LEMMA ProbeTimes ==
  ASSUME NEW k \in KcpType, NEW t \in Nat, NEW fl \in Nat, NEW ak \in Nat,
         ak <= t, fl <= t, t - fl < interval + MaxStep, ProbeAhead(k, fl, ak)
  PROVE  /\ FlushedProbe(k, t % W) \in KcpType
         /\ FlushedProbe(k, t % W).updated = k.updated
         /\ FlushedProbe(k, t % W).ts_flush = k.ts_flush
         /\ ProbeAhead(FlushedProbe(k, t % W), t, IF Asks(k, t % W) THEN t ELSE ak)
         /\ k.probe_wait # 0 /\ Asks(k, t % W) => t - ak >= k.probe_wait
         /\ k.probe_wait # 0 /\ ~Asks(k, t % W) => ~Asks(FlushedProbe(k, t % W), t % W)
<1> DEFINE c == t % W
<1>1. \A w \in Nat : Later(c, w) = (t + w) % W /\ (t + w) % W \in 0..(W - 1)
  <2> SUFFICES ASSUME NEW w \in Nat
               PROVE  Later(c, w) = (t + w) % W /\ (t + w) % W \in 0..(W - 1)
    OBVIOUS
  <2>1. t \in Int /\ w \in Int
    OBVIOUS
  <2>2. Later(c, w) = (t + w) % W
    BY <2>1, LaterSum, Zenon
  <2>3. (t + w) % W \in 0..(W - 1)
    BY Constants
  <2> QED
    BY <2>2, <2>3, Zenon
<1> HIDE DEF c
<1>2. PICK pw \in 0..IKCP_PROBE_LIMIT, ts \in 0..(W - 1) :
        pw = k.probe_wait /\ ts = k.ts_probe
  BY DEF KcpType
<1>3. CASE ~k.closed
  <2>1. FlushedProbe(k, c) = [k EXCEPT !.probe_wait = 0, !.ts_probe = 0]
    BY <1>3 DEF FlushedProbe, KcpType
  <2>2. ~Asks(k, c)
    BY <1>3 DEF Asks, ProbeIsDue
  <2>3. 0 \in 0..IKCP_PROBE_LIMIT /\ 0 \in 0..(W - 1)
    BY Constants
  <2>4. /\ FlushedProbe(k, c) \in KcpType
        /\ FlushedProbe(k, c).updated = k.updated /\ FlushedProbe(k, c).ts_flush = k.ts_flush
        /\ FlushedProbe(k, c).probe_wait = 0
    BY <2>1, <2>3 DEF KcpType
  <2>5. ~FlushedProbe(k, c).closed
    BY <1>3, <2>1 DEF KcpType
  <2>6. ~Asks(FlushedProbe(k, c), c)
    BY <2>5 DEF Asks, ProbeIsDue
  <2> QED
    BY <2>2, <2>4, <2>6 DEF ProbeAhead, c
<1>4. CASE k.closed /\ pw = 0
  <2>1. PICK x \in 0..(W - 1) : x = (t + IKCP_PROBE_INIT) % W /\ x = Later(c, IKCP_PROBE_INIT)
    BY <1>1, Constants
  <2>2. FlushedProbe(k, c) = [k EXCEPT !.probe_wait = IKCP_PROBE_INIT, !.ts_probe = x]
    BY <1>2, <1>4, <2>1 DEF FlushedProbe
  <2>3. Asks(k, c)
    BY <1>2, <1>4 DEF Asks
  <2>4. IKCP_PROBE_INIT \in 0..IKCP_PROBE_LIMIT
    BY Constants
  <2>5. /\ FlushedProbe(k, c) \in KcpType
        /\ FlushedProbe(k, c).updated = k.updated /\ FlushedProbe(k, c).ts_flush = k.ts_flush
        /\ FlushedProbe(k, c).probe_wait = IKCP_PROBE_INIT /\ FlushedProbe(k, c).ts_probe = x
    BY <2>1, <2>2, <2>4 DEF KcpType
  <2>6. t < t + IKCP_PROBE_INIT
    BY Constants
  <2>7. ProbeAhead(FlushedProbe(k, c), t, t)
    BY <2>1, <2>5, <2>6, Zenon DEF ProbeAhead
  <2> QED
    BY <1>2, <1>4, <2>3, <2>5, <2>7 DEF c
<1>5. CASE k.closed /\ pw # 0
  <2>1. PICK T \in Nat : T = ak + pw
    BY <1>2, Constants
  <2>2. ts = T % W /\ fl < T
    BY <1>2, <1>5, <2>1, Zenon DEF ProbeAhead
  <2>3. Itimediff(c, ts) = t - T
    <3>1. t \in Int /\ T \in Int /\ 2 * (t - T) < W /\ -W <= 2 * (t - T)
      <4>1. fl < T
        BY <2>2
      <4> QED
        BY <1>2, <2>1, <4>1, Constants
    <3> QED
      BY <2>2, <3>1, Difference, Zenon DEF c
  <2>4. ProbeIsDue(k, c) <=> t >= T
    <3>1. Itimediff(c, k.ts_probe) >= 0 <=> t >= T
      BY <1>2, <2>1, <2>3
    <3>2. k.probe_wait # 0
      BY <1>2, <1>5, Zenon
    <3> QED
      BY <1>5, <3>1, <3>2, Zenon DEF ProbeIsDue
  <2>5. Asks(k, c) <=> t >= T
    BY <1>2, <1>5, <2>4, Zenon DEF Asks
  <2>6. CASE t >= T
    <3>1. PICK w \in 1..IKCP_PROBE_LIMIT : w = NextWait(k.probe_wait)
      <4>1. \A v \in Nat : v \div 2 \in Nat
        OBVIOUS
      <4> QED
        BY <1>2, <4>1, Constants DEF NextWait, Lesser, Greater
    <3>2. PICK x \in 0..(W - 1) : x = (t + w) % W /\ x = Later(c, w)
      BY <1>1, <3>1, Constants
    <3>3. FlushedProbe(k, c) = [k EXCEPT !.probe_wait = w, !.ts_probe = x]
      BY <1>2, <1>5, <2>4, <2>6, <3>1, <3>2 DEF FlushedProbe
    <3>4. w \in 0..IKCP_PROBE_LIMIT /\ t < t + w
      BY <3>1, Constants
    <3>5. /\ FlushedProbe(k, c) \in KcpType
          /\ FlushedProbe(k, c).updated = k.updated /\ FlushedProbe(k, c).ts_flush = k.ts_flush
          /\ FlushedProbe(k, c).probe_wait = w /\ FlushedProbe(k, c).ts_probe = x
      BY <3>2, <3>3, <3>4 DEF KcpType
    <3>6. ProbeAhead(FlushedProbe(k, c), t, t)
      BY <3>2, <3>4, <3>5, Zenon DEF ProbeAhead
    <3>7. t - ak >= pw
      BY <2>1, <2>6, <1>2, Constants
    <3>8. Asks(k, c)
      BY <2>5, <2>6
    <3> QED
      BY <1>2, <3>5, <3>6, <3>7, <3>8, Zenon DEF c
  <2>7. CASE ~(t >= T)
    <3>1. FlushedProbe(k, c) = k /\ ~Asks(k, c)
      BY <1>2, <1>5, <2>4, <2>5, <2>7 DEF FlushedProbe
    <3>2. t < T
      BY <1>2, <2>1, <2>7
    <3>3. ProbeAhead(k, t, ak)
      BY <1>2, <2>1, <2>2, <3>2, Zenon DEF ProbeAhead
    <3> QED
      BY <3>1, <3>3, Zenon DEF c
  <2> QED
    BY <2>6, <2>7
<1> QED
  BY <1>3, <1>4, <1>5 DEF KcpType
-----------------------------------------------------------------------------
(* connection::update.                                                     *)

\* What connection::update finds at t: F is the real time of the next flush.
Found(k, sg, t, F, fl, ak) ==
  /\ t - F <= MaxStep /\ F - t <= interval
  /\ IF k.updated THEN k.ts_flush = F % W /\ F <= fl + interval ELSE F = t
  /\ fl <= t /\ ak <= t /\ t - fl < interval + MaxStep
  /\ Timed(sg, fl) /\ Ahead(sg, t - MaxStep) /\ ProbeAhead(k, fl, ak)

\* What it does: ikcp_update makes s1 of the segments, then ikcp_check returns next.
Does(k, sg, t, fl, ak, s1, next, s2, k3, fl2, ak2) ==
  LET c  == t % W
      k1 == Updated(k, c)
      k2 == IF FlushIsDue(k, c) THEN FlushedProbe(k1, c) ELSE k1
  IN /\ s1 \in IF FlushIsDue(k, c) THEN FlushedSegments(k1, sg, t) ELSE {sg}
     /\ next = Check(k2, s1, c)
     /\ s2 \in IF FlushesNow(next, t) THEN FlushedSegments(k2, s1, t) ELSE {s1}
     /\ k3 = IF FlushesNow(next, t) THEN FlushedProbe(k2, c) ELSE k2
     /\ fl2 = IF FlushIsDue(k, c) \/ FlushesNow(next, t) THEN t ELSE fl
     /\ ak2 = IF \/ FlushIsDue(k, c) /\ Asks(k1, c)
                 \/ FlushesNow(next, t) /\ Asks(k2, c)
              THEN t ELSE ak

\* What it leaves.
Leaves(k, sg, t, ak, next, s2, k3, fl2, ak2) ==
  /\ k3 \in KcpType /\ next \in 0..(W - 1) /\ s2 \in [Segment -> SegmentType]
  /\ fl2 \in 0..t /\ ak2 \in 0..t /\ k3.updated
  /\ FlushAhead(k3, next, t, fl2)
  /\ Timed(s2, fl2) /\ Ahead(s2, t) /\ AllAwake(s2, next, t) /\ Waits(sg, s2, t)
  /\ ProbeAhead(k3, fl2, ak2)
  /\ k.probe_wait # 0 /\ ak2 # ak => t - ak >= k.probe_wait

LEMMA UpdateTimes ==
  ASSUME NEW t \in Nat, NEW F \in Nat, NEW fl \in Nat, NEW ak \in Nat,
         NEW k \in KcpType, NEW sg \in [Segment -> SegmentType],
         NEW s1, NEW next, NEW s2, NEW k3, NEW fl2, NEW ak2,
         Found(k, sg, t, F, fl, ak),
         Does(k, sg, t, fl, ak, s1, next, s2, k3, fl2, ak2)
  PROVE  Leaves(k, sg, t, ak, next, s2, k3, fl2, ak2)
<1> DEFINE c  == t % W
           k1 == Updated(k, c)
           k2 == IF FlushIsDue(k, c) THEN FlushedProbe(k1, c) ELSE k1
<1>a. /\ s1 \in IF FlushIsDue(k, c) THEN FlushedSegments(k1, sg, t) ELSE {sg}
      /\ next = Check(k2, s1, c)
      /\ s2 \in IF FlushesNow(next, t) THEN FlushedSegments(k2, s1, t) ELSE {s1}
      /\ k3 = IF FlushesNow(next, t) THEN FlushedProbe(k2, c) ELSE k2
      /\ fl2 = IF FlushIsDue(k, c) \/ FlushesNow(next, t) THEN t ELSE fl
      /\ ak2 = IF \/ FlushIsDue(k, c) /\ Asks(k1, c)
                  \/ FlushesNow(next, t) /\ Asks(k2, c)
               THEN t ELSE ak
  BY Zenon DEF Does
<1>b. /\ t - F <= MaxStep /\ F - t <= interval
      /\ IF k.updated THEN k.ts_flush = F % W /\ F <= fl + interval ELSE F = t
      /\ fl <= t /\ ak <= t /\ t - fl < interval + MaxStep
      /\ Timed(sg, fl) /\ Ahead(sg, t - MaxStep) /\ ProbeAhead(k, fl, ak)
  BY Zenon DEF Found
<1>c. /\ c = t % W /\ k1 = Updated(k, c)
      /\ k2 = IF FlushIsDue(k, c) THEN FlushedProbe(k1, c) ELSE k1
  OBVIOUS
<1> HIDE DEF c, k1, k2
<1> USE <1>a, <1>b, <1>c
<1> DEFINE due == FlushIsDue(k, c)
<1>1. PICK G \in Nat : /\ due <=> F <= t
                       /\ NextFlushTime(k, c) = G % W
                       /\ t < G /\ G <= t + interval
                       /\ F > t => G = F
  BY FlushSchedule
<1>2. ~due => k.updated /\ F > t /\ G = F /\ G <= fl + interval
  BY <1>1
<1> HIDE DEF due
<1>3. /\ k1 \in KcpType /\ k1.updated /\ k1.ts_flush = G % W
      /\ k1.probe_wait = k.probe_wait /\ k1.ts_probe = k.ts_probe
  <2>1. G % W \in 0..(W - 1)
    BY Constants
  <2> QED
    BY <1>1, <2>1 DEF Updated, KcpType
<1>4. ProbeAhead(k1, fl, ak)
  BY <1>3, Zenon DEF ProbeAhead
<1>5. PICK f1 \in 0..t, a1 \in 0..t : /\ f1 = IF due THEN t ELSE fl
                                      /\ a1 = IF due /\ Asks(k1, c) THEN t ELSE ak
  OBVIOUS
<1>6. /\ k2 \in KcpType /\ k2.updated /\ k2.ts_flush = G % W
      /\ ProbeAhead(k2, f1, a1)
      /\ k.probe_wait # 0 /\ a1 # ak => t - ak >= k.probe_wait
      /\ k.probe_wait # 0 /\ due /\ a1 = ak /\ Asks(k2, c) => t - ak >= k.probe_wait
  <2>1. CASE due
    <3>1. /\ FlushedProbe(k1, c) \in KcpType
          /\ FlushedProbe(k1, c).updated = k1.updated
          /\ FlushedProbe(k1, c).ts_flush = k1.ts_flush
          /\ ProbeAhead(FlushedProbe(k1, c), t, IF Asks(k1, c) THEN t ELSE ak)
          /\ k1.probe_wait # 0 /\ Asks(k1, c) => t - ak >= k1.probe_wait
          /\ k1.probe_wait # 0 /\ ~Asks(k1, c) => ~Asks(FlushedProbe(k1, c), c)
      BY <1>3, <1>4, ProbeTimes
    <3>2. k2 = FlushedProbe(k1, c) /\ f1 = t /\ a1 = IF Asks(k1, c) THEN t ELSE ak
      BY <1>5, <2>1 DEF due
    <3> QED
      BY <1>3, <2>1, <3>1, <3>2
  <2>2. CASE ~due
    BY <1>3, <1>4, <1>5, <2>2 DEF due
  <2> QED
    BY <2>1, <2>2
<1>7. /\ s1 \in [Segment -> SegmentType]
      /\ Timed(s1, f1) /\ Ahead(s1, t - MaxStep) /\ Waits(sg, s1, t)
  <2>1. CASE due
    <3>1. s1 \in FlushedSegments(k1, sg, t)
      BY <2>1 DEF due
    <3>2. /\ s1 \in [Segment -> SegmentType] /\ Timed(s1, t) /\ Ahead(s1, t)
          /\ Waits(sg, s1, t)
      BY <3>1, FlushTimes
    <3>3. Ahead(s1, t - MaxStep)
      BY <3>2, Constants DEF Ahead, SegmentType
    <3> QED
      BY <1>5, <2>1, <3>2, <3>3
  <2>2. CASE ~due
    BY <1>5, <2>2 DEF due, Waits
  <2> QED
    BY <2>1, <2>2
<1>8. /\ next \in 0..(W - 1)
      /\ next <= t \/ (Ahead(s1, t) /\ next <= G /\ AllAwake(s1, next, t))
  BY <1>1, <1>5, <1>6, <1>7, CheckTime
<1>9. G <= f1 + interval
  BY <1>1, <1>2, <1>5, Constants
<1>10. t - f1 < interval + MaxStep
  BY <1>5, Constants
<1>11. CASE FlushesNow(next, t)
  <2>1. next < t + update_interval
    BY <1>8, <1>11, Constants DEF FlushesNow
  <2>2. fl2 = t /\ ak2 = IF Asks(k2, c) THEN t ELSE a1
    BY <1>5, <1>11 DEF due
  <2>3. /\ k3 = FlushedProbe(k2, c) /\ k3 \in KcpType /\ k3.updated /\ k3.ts_flush = G % W
        /\ ProbeAhead(k3, t, ak2)
        /\ k2.probe_wait # 0 /\ Asks(k2, c) => t - a1 >= k2.probe_wait
    <3>1. k3 = FlushedProbe(k2, c)
      BY <1>11
    <3> QED
      BY <1>5, <1>6, <1>10, <2>2, <3>1, ProbeTimes
  <2>4. s2 \in FlushedSegments(k2, s1, t)
    BY <1>11
  <2>5. /\ s2 \in [Segment -> SegmentType] /\ Timed(s2, t) /\ Ahead(s2, t)
        /\ Retimed(s1, s2, t) /\ Waits(s1, s2, t)
    <3>1. f1 \in Nat /\ f1 <= t
      BY <1>5
    <3> QED
      BY <1>7, <2>4, <3>1, FlushTimes
  <2>6. AllAwake(s2, next, t)
    <3> SUFFICES ASSUME NEW n \in Segment, s2[n].st = "sent"
                 PROVE  Awake(next, t, s2[n].due)
      BY DEF AllAwake
    <3>1. CASE s1[n].st = "sent" /\ s2[n].due = s1[n].due
      BY <1>8, <3>1 DEF AllAwake, Awake
    <3>2. CASE \E r \in Rtos : s2[n].due = t + r
      <4>1. PICK r \in Rtos : s2[n].due = t + r
        BY <3>2
      <4>2. next <= t + r
        BY <1>8, <2>1, Constants
      <4> QED
        BY <4>1, <4>2 DEF Awake
    <3> QED
      BY <2>5, <3>1, <3>2 DEF Retimed
  <2>7. FlushAhead(k3, next, t, fl2)
    BY <1>1, <1>8, <2>2, <2>3 DEF FlushAhead, Awake
  <2>8. k.probe_wait # 0 /\ ak2 # ak => t - ak >= k.probe_wait
    <3> SUFFICES ASSUME k.probe_wait # 0, ak2 # ak PROVE t - ak >= k.probe_wait
      OBVIOUS
    <3>1. CASE a1 # ak
      BY <1>6, <3>1
    <3>2. CASE a1 = ak /\ due
      BY <1>6, <2>2, <3>2
    <3>3. CASE a1 = ak /\ ~due
      <4>1. k2.probe_wait = k.probe_wait /\ Asks(k2, c)
        BY <1>3, <2>2, <3>3 DEF due
      <4> QED
        BY <2>3, <3>3, <4>1
    <3> QED
      BY <3>1, <3>2, <3>3
  <2>9. fl2 \in 0..t /\ ak2 \in 0..t
    BY <1>5, <2>2
  <2>10. Waits(sg, s2, t)
    BY <1>7, <2>5, Zenon DEF Waits
  <2> QED
    BY <1>8, <2>2, <2>3, <2>5, <2>6, <2>7, <2>8, <2>9, <2>10 DEF Leaves
<1>12. CASE ~FlushesNow(next, t)
  <2>1. next > t
    BY <1>8, <1>12, Constants DEF FlushesNow
  <2>2. fl2 = f1 /\ ak2 = a1 /\ k3 = k2 /\ s2 = s1
    BY <1>5, <1>12 DEF due
  <2>3. Ahead(s1, t) /\ next <= G /\ AllAwake(s1, next, t)
    BY <1>8, <2>1
  <2>4. FlushAhead(k3, next, t, fl2)
    BY <1>1, <1>6, <1>9, <2>2, <2>3 DEF FlushAhead, Awake
  <2> QED
    BY <1>5, <1>6, <1>7, <1>8, <2>2, <2>3, <2>4 DEF Leaves
<1> QED
  BY <1>11, <1>12
-----------------------------------------------------------------------------
(* The theorems.                                                           *)

\* The types of the state, as the lemmas name them.
LEMMA Types ==
  TypeOK <=> /\ now \in Nat /\ next_tick_ \in 0..(W - 1)
             /\ kcp \in KcpType /\ seg \in [Segment -> SegmentType]
             /\ flushed \in 0..now /\ asked \in 0..now
  BY Zenon DEF TypeOK, KcpType, SegmentType

LEMMA InitClock == Init => ClockInv
<1> SUFFICES ASSUME Init PROVE ClockInv
  OBVIOUS
<1>1. now \in Nat /\ flushed = now /\ asked = now /\ next_tick_ = 0 /\ 0 \in 0..(W - 1)
  BY Constants DEF Init
<1>2. /\ kcp \in KcpType /\ ~kcp.updated /\ kcp.probe_wait = 0
  <2>1. interval % W \in 0..(W - 1) /\ 0 \in 0..IKCP_PROBE_LIMIT
    BY Constants
  <2> QED
    BY <1>1, <2>1 DEF Init, KcpType
<1>3. seg \in [Segment -> SegmentType] /\ \A n \in Segment : seg[n].st # "sent"
  BY <1>1 DEF Init, Free, SegmentType
<1>4. TypeOK
  BY <1>1, <1>2, <1>3, Types
<1> QED
  BY <1>1, <1>2, <1>3, <1>4
  DEF ClockInv, FlushAhead, Unused, Timed, Ahead, AllAwake, ProbeAhead

\* A call of connection::update that finds nothing to do misses nothing.
LEMMA SleepClock ==
  ASSUME ClockInv, NEW t \in Nat, now < t, next_tick_ > t
  PROVE  /\ FlushAhead(kcp, next_tick_, t, flushed)
         /\ Unused(kcp, seg, next_tick_, t, flushed, asked)
         /\ Ahead(seg, t) /\ AllAwake(seg, next_tick_, t)
<1>1. /\ now \in Nat /\ next_tick_ \in 0..(W - 1)
      /\ seg \in [Segment -> SegmentType]
  BY Types DEF ClockInv
<1>2. kcp.updated
  BY <1>1 DEF ClockInv, Unused
<1>3. FlushAhead(kcp, next_tick_, t, flushed)
  <2>1. PICK F \in Nat : /\ kcp.ts_flush = F % W /\ now < F /\ F <= flushed + interval
                         /\ Awake(next_tick_, now, F)
    BY <1>2 DEF ClockInv, FlushAhead
  <2>2. next_tick_ <= F /\ t < F
    BY <1>1, <2>1 DEF Awake
  <2> QED
    BY <2>1, <2>2 DEF FlushAhead, Awake
<1>4. \A n \in Segment : seg[n].st = "sent" => next_tick_ <= seg[n].due /\ t < seg[n].due
  <2> SUFFICES ASSUME NEW n \in Segment, seg[n].st = "sent"
               PROVE  next_tick_ <= seg[n].due /\ t < seg[n].due
    OBVIOUS
  <2>1. Awake(next_tick_, now, seg[n].due)
    BY DEF ClockInv, AllAwake
  <2>2. seg[n].due \in Nat
    BY <1>1 DEF SegmentType
  <2> QED
    BY <1>1, <2>1, <2>2 DEF Awake
<1> QED
  BY <1>2, <1>3, <1>4 DEF Unused, Ahead, AllAwake, Awake

\* A call at t that has something to do.
LEMMA UpdateClock ==
  ASSUME ClockInv, NEW t \in Nat, now < t, t <= now + MaxStep, now' = t,
         ConnectionUpdate(t)
  PROVE  /\ ClockInv'
         /\ kcp.probe_wait # 0 /\ asked' # asked => t - asked >= kcp.probe_wait
         /\ Waits(seg, seg', t)
<1>1. \E s1 : Does(kcp, seg, t, flushed, asked, s1, next_tick_', seg', kcp', flushed', asked')
  BY Zenon DEF ConnectionUpdate, Does
<1>2. /\ now \in Nat /\ kcp \in KcpType /\ seg \in [Segment -> SegmentType]
      /\ flushed \in 0..now /\ asked \in 0..now
  BY Types DEF ClockInv
<1>3. PICK F \in Nat :
        /\ t - F <= MaxStep /\ F - t <= interval
        /\ IF kcp.updated THEN kcp.ts_flush = F % W /\ F <= flushed + interval ELSE F = t
        /\ t - flushed < interval + MaxStep
  <2>1. CASE kcp.updated
    <3>1. PICK F \in Nat : kcp.ts_flush = F % W /\ now < F /\ F <= flushed + interval
      BY <2>1 DEF ClockInv, FlushAhead
    <3>2. t - F <= MaxStep /\ F - t <= interval /\ t - flushed < interval + MaxStep
      BY <1>2, <3>1, Constants
    <3> QED
      BY <2>1, <3>1, <3>2
  <2>2. CASE ~kcp.updated
    <3>1. flushed = now
      BY <2>2 DEF ClockInv, Unused
    <3>2. t - t <= MaxStep /\ t - t <= interval /\ t - flushed < interval + MaxStep
      BY <1>2, <3>1, Constants
    <3> QED
      BY <2>2, <3>2
  <2> QED
    BY <2>1, <2>2
<1>4. /\ Timed(seg, flushed) /\ ProbeAhead(kcp, flushed, asked)
      /\ Ahead(seg, t - MaxStep)
  <2>1. Ahead(seg, now)
    BY DEF ClockInv
  <2>2. Ahead(seg, t - MaxStep)
    BY <1>2, <2>1, Constants DEF Ahead, SegmentType
  <2> QED
    BY <2>2 DEF ClockInv
<1>5. flushed \in Nat /\ asked \in Nat /\ flushed <= t /\ asked <= t
  BY <1>2
<1>6. Found(kcp, seg, t, F, flushed, asked)
  BY <1>3, <1>4, <1>5, Zenon DEF Found
<1>7. Leaves(kcp, seg, t, asked, next_tick_', seg', kcp', flushed', asked')
  BY <1>1, <1>2, <1>3, <1>5, <1>6, UpdateTimes
<1>8. /\ now' \in Nat /\ next_tick_' \in 0..(W - 1)
      /\ kcp' \in KcpType /\ seg' \in [Segment -> SegmentType]
      /\ flushed' \in 0..now' /\ asked' \in 0..now'
  BY <1>7, Zenon DEF Leaves
<1>9. TypeOK'
  BY <1>8, Zenon DEF TypeOK, KcpType, SegmentType
<1> QED
  BY <1>7, <1>9, Zenon DEF Leaves, ClockInv, Unused

\* What wakes connection::update and leaves the times alone is safe.
LEMMA WakeClock ==
  ASSUME ClockInv, NEW closed \in BOOLEAN, kcp' = [kcp EXCEPT !.closed = closed],
         next_tick_' = 0, UNCHANGED <<now, flushed, asked>>,
         seg' \in [Segment -> SegmentType],
         \A n \in Segment : seg'[n].st = "sent" =>
           /\ seg[n].st = "sent" /\ seg'[n].due = seg[n].due
           /\ seg'[n].resendts = seg[n].resendts
  PROVE  ClockInv'
<1>1. /\ now \in Nat /\ kcp \in KcpType /\ flushed \in 0..now /\ asked \in 0..now
      /\ 0 \in 0..(W - 1)
  BY Types, Constants DEF ClockInv
<1>2. /\ kcp' \in KcpType
      /\ kcp'.updated = kcp.updated /\ kcp'.ts_flush = kcp.ts_flush
      /\ kcp'.probe_wait = kcp.probe_wait /\ kcp'.ts_probe = kcp.ts_probe
  BY <1>1 DEF KcpType
<1>3. TypeOK'
  BY <1>1, <1>2, Zenon DEF TypeOK, KcpType, SegmentType
<1>4. \A x : Awake(0, now, x)
  BY <1>1 DEF Awake
<1>5. FlushAhead(kcp', next_tick_', now, flushed)
  BY <1>2, <1>4 DEF ClockInv, FlushAhead
<1>6. Unused(kcp', seg', next_tick_', now, flushed, asked)
  BY <1>2 DEF ClockInv, Unused
<1>7. Timed(seg', flushed) /\ Ahead(seg', now) /\ AllAwake(seg', next_tick_', now)
  BY <1>4, Zenon DEF ClockInv, Timed, Ahead, AllAwake
<1>8. ProbeAhead(kcp', flushed, asked)
  BY <1>2, Zenon DEF ClockInv, ProbeAhead
<1> QED
  BY <1>3, <1>5, <1>6, <1>7, <1>8, Zenon DEF ClockInv

LEMMA WriteClock ==
  ASSUME ClockInv, NEW n \in Segment, Write(n)
  PROVE  ClockInv'
<1>1. kcp \in KcpType /\ seg \in [Segment -> SegmentType] /\ 0 \in 0..(W - 1)
  BY Types, Constants DEF ClockInv
<1>2. seg' = [seg EXCEPT ![n] = Queued] /\ Queued \in SegmentType /\ Queued.st # "sent"
  BY <1>1 DEF Write, Queued, Free, SegmentType
<1>3. /\ seg' \in [Segment -> SegmentType]
      /\ \A m \in Segment : seg'[m].st = "sent" =>
           /\ seg[m].st = "sent" /\ seg'[m].due = seg[m].due
           /\ seg'[m].resendts = seg[m].resendts
  BY <1>1, <1>2
<1>4. kcp.closed \in BOOLEAN /\ kcp' = [kcp EXCEPT !.closed = kcp.closed]
  BY <1>1 DEF Write, KcpType
<1>5. next_tick_' = 0 /\ UNCHANGED <<now, flushed, asked>>
  BY DEF Write
<1> QED
  BY <1>3, <1>4, <1>5, WakeClock

LEMMA InputClock ==
  ASSUME ClockInv, NEW n \in Segment, NEW what \in {"acked", "overtaken", "nothing"},
         NEW closed \in BOOLEAN, Input(n, what, closed)
  PROVE  ClockInv'
<1>1. kcp \in KcpType /\ seg \in [Segment -> SegmentType] /\ 0 \in 0..(W - 1)
  BY Types, Constants DEF ClockInv
<1>2. /\ seg' \in [Segment -> SegmentType]
      /\ \A m \in Segment : seg'[m].st = "sent" =>
           /\ seg[m].st = "sent" /\ seg'[m].due = seg[m].due
           /\ seg'[m].resendts = seg[m].resendts
  <2>1. CASE what = "acked"
    <3>1. seg' = [seg EXCEPT ![n] = Free]
      BY <2>1 DEF Input
    <3>2. Free \in SegmentType /\ Free.st # "sent"
      BY <1>1 DEF Free, SegmentType
    <3> QED
      BY <1>1, <3>1, <3>2
  <2>2. CASE what = "overtaken"
    <3>1. seg' = [seg EXCEPT ![n].fast = TRUE] /\ seg[n].st = "sent"
      BY <2>2 DEF Input
    <3>2. /\ [seg[n] EXCEPT !.fast = TRUE] \in SegmentType
          /\ [seg[n] EXCEPT !.fast = TRUE].due = seg[n].due
          /\ [seg[n] EXCEPT !.fast = TRUE].resendts = seg[n].resendts
      BY <1>1 DEF SegmentType
    <3>3. seg' = [seg EXCEPT ![n] = [seg[n] EXCEPT !.fast = TRUE]]
      BY <3>1
    <3> HIDE <3>1
    <3>4. \A m \in Segment : m # n => seg'[m] = seg[m]
      BY <1>1, <3>3
    <3>5. seg'[n] = [seg[n] EXCEPT !.fast = TRUE]
      BY <1>1, <3>3
    <3> QED
      BY <1>1, <3>1, <3>2, <3>3, <3>4, <3>5
  <2>3. CASE what = "nothing"
    <3>1. seg' = seg
      BY <2>3 DEF Input
    <3> QED
      BY <1>1, <3>1
  <2> QED
    BY <2>1, <2>2, <2>3
<1>3. kcp' = [kcp EXCEPT !.closed = closed] /\ next_tick_' = 0
      /\ UNCHANGED <<now, flushed, asked>>
  BY DEF Input
<1> QED
  BY <1>2, <1>3, WakeClock

LEMMA PollClock ==
  ASSUME ClockInv, NEW d \in 1..MaxStep, Poll(d)
  PROVE  /\ ClockInv'
         /\ kcp.probe_wait # 0 /\ asked' # asked => now' - asked >= kcp.probe_wait
         /\ Waits(seg, seg', now')
<1>1. now \in Nat /\ next_tick_ \in 0..(W - 1)
      /\ flushed \in 0..now /\ asked \in 0..now
  BY Types DEF ClockInv
<1>2. PICK t \in Nat : t = now + d /\ now < t /\ t <= now + MaxStep /\ now' = t
  BY <1>1, Constants DEF Poll
<1>3. CASE IsTime(now + d)
  <2>1. ConnectionUpdate(t)
    BY <1>2, <1>3 DEF Poll
  <2> QED
    BY <1>2, <2>1, UpdateClock
<1>4. CASE ~IsTime(now + d)
  <2>1. UNCHANGED <<next_tick_, kcp, seg, flushed, asked>>
    BY <1>4 DEF Poll
  <2>2. next_tick_ > t
    BY <1>1, <1>2, <1>4 DEF IsTime
  <2>3. /\ FlushAhead(kcp, next_tick_, t, flushed)
        /\ Unused(kcp, seg, next_tick_, t, flushed, asked)
        /\ Ahead(seg, t) /\ AllAwake(seg, next_tick_, t)
    BY <1>2, <2>2, SleepClock
  <2>4. flushed \in 0..t /\ asked \in 0..t
    BY <1>1, <1>2
  <2>5. TypeOK'
    BY <1>2, <2>1, <2>4 DEF ClockInv, TypeOK
  <2> QED
    BY <1>2, <2>1, <2>3, <2>5 DEF ClockInv, Waits
<1> QED
  BY <1>3, <1>4

LEMMA NextClock == ClockInv /\ [Next]_vars => ClockInv'
<1> SUFFICES ASSUME ClockInv, [Next]_vars PROVE ClockInv'
  OBVIOUS
<1>1. CASE \E d \in 1..MaxStep : Poll(d)
  BY <1>1, PollClock
<1>2. CASE \E n \in Segment : Write(n)
  BY <1>2, WriteClock
<1>3. CASE \E n \in Segment, what \in {"acked", "overtaken", "nothing"}, closed \in BOOLEAN :
             Input(n, what, closed)
  BY <1>3, InputClock
<1>4. CASE UNCHANGED vars
  BY <1>4 DEF vars, ClockInv, TypeOK
<1> QED
  BY <1>1, <1>2, <1>3, <1>4 DEF Next, Environment

\* The invariant holds in every reachable state.
LEMMA ClockInvariant == Spec => []ClockInv
<1>1. Init => ClockInv
  BY InitClock
<1>2. ClockInv /\ [Next]_vars => ClockInv'
  BY NextClock
<1> QED
  BY <1>1, <1>2, PTL DEF Spec

\* The state keeps its types: every time of KCP is cut to its width.
THEOREM ClockTypeCorrect == Spec => []TypeOK
<1>1. ClockInv => TypeOK
  BY DEF ClockInv
<1> QED
  BY <1>1, ClockInvariant, PTL

\* After connection::update no transmission is overdue, however often the times of KCP
\* have wrapped around.
THEOREM NothingStaysOverdue == Spec => []NothingOverdue
<1>1. ClockInv => NothingOverdue
  BY DEF ClockInv, Ahead, NothingOverdue
<1> QED
  BY <1>1, ClockInvariant, PTL

\* Flushes are never an interval apart when connection::update was called.
THEOREM FlushesAreInTime == Spec => []FlushedLately
<1>1. ClockInv => FlushedLately
  <2> SUFFICES ASSUME ClockInv PROVE FlushedLately
    OBVIOUS
  <2>1. now \in Nat /\ flushed \in 0..now
    BY Types DEF ClockInv
  <2>2. CASE kcp.updated
    <3>1. PICK F \in Nat : now < F /\ F <= flushed + interval
      BY <2>2 DEF ClockInv, FlushAhead
    <3> QED
      BY <2>1, <3>1, Constants DEF FlushedLately
  <2>3. CASE ~kcp.updated
    BY <2>1, <2>3, Constants DEF ClockInv, Unused, FlushedLately
  <2> QED
    BY <2>2, <2>3
<1> QED
  BY <1>1, ClockInvariant, PTL

\* A closed window is probed by the first flush after the wait.
THEOREM ProbesAreInTime == Spec => []ProbedLately
<1>1. ClockInv => ProbedLately
  <2> SUFFICES ASSUME ClockInv, kcp.probe_wait # 0
               PROVE  now - asked < kcp.probe_wait + interval
    BY DEF ProbedLately
  <2>1. /\ now \in Nat /\ flushed \in 0..now /\ asked \in 0..now
        /\ kcp.probe_wait \in Nat
    BY Types, Constants DEF ClockInv, KcpType
  <2>2. kcp.updated
    BY DEF ClockInv, Unused
  <2>3. PICK F \in Nat : now < F /\ F <= flushed + interval
    BY <2>2 DEF ClockInv, FlushAhead
  <2>4. flushed < asked + kcp.probe_wait
    BY DEF ClockInv, ProbeAhead
  <2> QED
    BY <2>1, <2>3, <2>4, Constants
<1> QED
  BY <1>1, ClockInvariant, PTL

\* No probe comes before the wait is over.
THEOREM ProbesWait == Spec => ProbesBackOff
<1>1. ClockInv /\ [Next]_vars =>
        [(kcp.probe_wait # 0 /\ asked' # asked) => now' - asked >= kcp.probe_wait]_vars
  <2> SUFFICES ASSUME ClockInv, Next, kcp.probe_wait # 0, asked' # asked
               PROVE  now' - asked >= kcp.probe_wait
    OBVIOUS
  <2>1. ~Environment
    BY DEF Environment, Write, Input
  <2>2. PICK d \in 1..MaxStep : Poll(d)
    BY <2>1 DEF Next
  <2> QED
    BY <2>2, PollClock
<1> QED
  BY <1>1, ClockInvariant, PTL DEF Spec, ProbesBackOff

\* No transmission is repeated before its timeout is over unless duplicate acks overtook
\* it, wherever the clock wraps and however often connection::update flushes.
THEOREM ResendsAreLate == Spec => ResendsWait
<1>1. ClockInv /\ [Next]_vars =>
        [\A n \in Segment :
           (/\ seg[n].st = "sent" /\ ~seg[n].fast
            /\ seg'[n].st = "sent" /\ seg'[n].due # seg[n].due)
             => seg[n].due <= now']_vars
  <2> SUFFICES ASSUME ClockInv, Next, NEW n \in Segment,
                      seg[n].st = "sent", ~seg[n].fast,
                      seg'[n].st = "sent", seg'[n].due # seg[n].due
               PROVE  seg[n].due <= now'
    BY Zenon
  <2>1. CASE \E d \in 1..MaxStep : Poll(d)
    BY <2>1, PollClock DEF Waits
  <2>2. CASE Environment
    <3>1. \A m \in Segment : seg'[m].st = "sent" => seg'[m].due = seg[m].due
      <4>1. seg \in [Segment -> SegmentType]
        BY Types DEF ClockInv
      <4>2. ASSUME NEW i \in Segment, Write(i), NEW m \in Segment, seg'[m].st = "sent"
            PROVE  seg'[m].due = seg[m].due
        BY <4>1, <4>2 DEF Write, Queued, Free
      <4>3. ASSUME NEW i \in Segment, NEW what \in {"acked", "overtaken", "nothing"},
                   NEW closed \in BOOLEAN, Input(i, what, closed),
                   NEW m \in Segment, seg'[m].st = "sent"
            PROVE  seg'[m].due = seg[m].due
        <5>1. \/ seg' = [seg EXCEPT ![i] = Free]
              \/ seg' = [seg EXCEPT ![i].fast = TRUE]
              \/ seg' = seg
          BY <4>3 DEF Input
        <5>2. seg[m] \in SegmentType
          BY <4>1
        <5> QED
          BY <4>1, <4>3, <5>1, <5>2 DEF Free, SegmentType
      <4> QED
        BY <2>2, <4>2, <4>3 DEF Environment
    <3> QED
      BY <3>1
  <2> QED
    BY <2>1, <2>2 DEF Next
<1> QED
  BY <1>1, ClockInvariant, PTL DEF Spec, ResendsWait
=============================================================================
