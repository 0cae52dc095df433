-------------------------- MODULE KcpStreamProofs --------------------------
(***************************************************************************)
(* Kcp carries a byte stream: the proof that it implements KcpStream, for  *)
(* windows, segment sizes, numbers of bytes and of datagrams of any size.  *)
(*                                                                         *)
(* IInv of KcpProofs says that rcv_buf agrees with what the peer numbered. *)
(* StreamInv adds the two ends of the way: the segments numbered and       *)
(* queued by a writer, in this order, cut what was written into pieces     *)
(* that follow each other, and the reader has read the bytes of the first  *)
(* of them and queues the next ones.  Moving segments to snd_buf changes   *)
(* neither, so ikcp_flush has only to keep what is numbered.               *)
(*                                                                         *)
(* The last part proves that each endpoint also implements KcpUse, the two *)
(* numbers a connection sees of it.  Every step that receives takes        *)
(* segments into rcv_buf and hands on the first of them (Takes), so the    *)
(* run of segments without a gap ends where it ended before, or later.     *)
(***************************************************************************)
EXTENDS KcpProofs, FiniteSetTheorems, WellFoundedInduction

\* Where the first k segments of s end.
EndOf(s, k) == IF k = 0 THEN 0 ELSE s[k].off + s[k].len

\* The segments of s follow each other and hold the first total bytes.
Cuts(s, total) ==
  /\ \A i \in 1..Len(s) : s[i].off = EndOf(s, i - 1) /\ s[i].off + s[i].len <= total
  /\ EndOf(s, Len(s)) = total

\* What n wrote is in the segments it numbered and those it will number.
WriterOK(n) == Cuts(numbered[n] \o snd_queue[n], written[n])

\* The number of segments n has handed to its reader.
HandedOn(n) == rcv_nxt[n] - Len(rcv_queue[n])

\* The queue q holds the segments of s after the first k.
Follows(q, s, k) == \A i \in 1..Len(q) : q[i] = s[k + i]

\* n queues the segments its peer numbered next after those whose bytes were read.
ReaderOK(n) ==
  /\ HandedOn(n) \in Nat
  /\ Follows(rcv_queue[n], numbered[Peer(n)], HandedOn(n))
  /\ Len(got[n]) = EndOf(numbered[Peer(n)], HandedOn(n))
  /\ \A i \in 1..Len(got[n]) : got[n][i] = i - 1

\* The inductive invariant, with IInv.
StreamInv ==
  /\ NothingReadyWaits
  /\ \A n \in Node : WriterOK(n) /\ ReaderOK(n)

-----------------------------------------------------------------------------
(* Writing.                                                                *)

\* Concatenation, element by element.
LEMMA Joined ==
  ASSUME NEW s \in Seq(Segment), NEW t \in Seq(Segment)
  PROVE  /\ s \o t \in Seq(Segment)
         /\ Len(s \o t) = Len(s) + Len(t)
         /\ \A i \in 1..Len(s) : (s \o t)[i] = s[i]
         /\ \A i \in 1..Len(t) : (s \o t)[Len(s) + i] = t[i]
OBVIOUS

\* The segments of t follow each other and hold the bytes from one position to another.
Holds(t, from, to) ==
  /\ t \in Seq(Segment) /\ t # <<>>
  /\ t[1].off = from
  /\ \A i \in 1..Len(t) : /\ i > 1 => t[i].off = t[i - 1].off + t[i - 1].len
                          /\ t[i].off + t[i].len <= to
  /\ t[Len(t)].off + t[Len(t)].len = to

\* Segments that begin where those of s end continue the cut.
LEMMA CutsGoOn ==
  ASSUME NEW s \in Seq(Segment), NEW from \in Nat, NEW to \in Nat, from <= to,
         Cuts(s, from), NEW t, Holds(t, from, to)
  PROVE  Cuts(s \o t, to)
<1> DEFINE u == s \o t
<1>0. /\ t \in Seq(Segment) /\ t # <<>>
      /\ t[1].off = from
      /\ \A i \in 1..Len(t) : /\ i > 1 => t[i].off = t[i - 1].off + t[i - 1].len
                              /\ t[i].off + t[i].len <= to
      /\ t[Len(t)].off + t[Len(t)].len = to
  BY DEF Holds
<1>1. /\ u \in Seq(Segment)
      /\ Len(u) = Len(s) + Len(t)
      /\ \A i \in 1..Len(s) : u[i] = s[i]
      /\ \A i \in 1..Len(t) : u[Len(s) + i] = t[i]
  BY <1>0, Joined
<1>2. Len(s) \in Nat /\ Len(t) \in Nat /\ Len(t) # 0
  BY <1>0
<1> HIDE DEF u
<1>3. ASSUME NEW i \in 1..Len(s)
      PROVE  u[i].off = EndOf(u, i - 1) /\ u[i].off + u[i].len <= to
  <2>1. s[i].off = EndOf(s, i - 1) /\ s[i].off + s[i].len <= from
    BY DEF Cuts
  <2>2. s[i].off \in Nat /\ s[i].len \in Nat
    <3>1. s[i] \in Segment
      OBVIOUS
    <3>2. QED
      BY <3>1 DEF Segment
  <2>3. EndOf(u, i - 1) = EndOf(s, i - 1)
    <3>1. i - 1 = 0 \/ i - 1 \in 1..Len(s)
      BY <1>2
    <3>2. QED
      BY <1>1, <3>1 DEF EndOf
  <2>4. u[i] = s[i]
    BY <1>1
  <2>5. QED
    BY <2>1, <2>2, <2>3, <2>4
<1>4. EndOf(u, Len(s)) = from
  <2>1. EndOf(s, Len(s)) = from
    BY DEF Cuts
  <2>2. Len(s) = 0 \/ Len(s) \in 1..Len(s)
    BY <1>2
  <2>3. QED
    BY <1>1, <2>1, <2>2 DEF EndOf
<1>5. ASSUME NEW j \in 1..Len(t)
      PROVE  /\ u[Len(s) + j].off = EndOf(u, Len(s) + j - 1)
             /\ u[Len(s) + j].off + u[Len(s) + j].len <= to
  <2>1. u[Len(s) + j] = t[j]
    BY <1>1
  <2>2. CASE j = 1
    <3>1. Len(s) + j - 1 = Len(s)
      BY <1>2, <2>2
    <3>2. QED
      BY <1>0, <1>4, <2>1, <2>2, <3>1
  <2>3. CASE j > 1
    <3>1. j - 1 \in 1..Len(t) /\ Len(s) + j - 1 = Len(s) + (j - 1) /\ Len(s) + (j - 1) # 0
      BY <1>2, <2>3
    <3>2. u[Len(s) + (j - 1)] = t[j - 1]
      BY <1>1, <3>1
    <3>3. QED
      BY <1>0, <2>1, <2>3, <3>1, <3>2 DEF EndOf
  <2>4. QED
    BY <1>0, <2>2, <2>3
<1>6. ASSUME NEW i \in 1..Len(u)
      PROVE  u[i].off = EndOf(u, i - 1) /\ u[i].off + u[i].len <= to
  <2>1. CASE i <= Len(s)
    BY <1>3, <2>1
  <2>2. CASE i > Len(s)
    <3>1. PICK j \in 1..Len(t) : Len(s) + j = i
      <4>1. i - Len(s) \in 1..Len(t) /\ Len(s) + (i - Len(s)) = i
        BY <1>1, <1>2, <2>2
      <4>2. QED
        BY <4>1
    <3>2. /\ u[Len(s) + j].off = EndOf(u, Len(s) + j - 1)
          /\ u[Len(s) + j].off + u[Len(s) + j].len <= to
      BY <1>5
    <3>3. QED
      BY <3>1, <3>2
  <2>3. QED
    BY <1>2, <2>1, <2>2
<1>7. EndOf(u, Len(u)) = to
  <2>1. Len(t) \in 1..Len(t) /\ Len(u) # 0
    BY <1>1, <1>2
  <2>2. u[Len(u)] = t[Len(t)]
    BY <1>1, <2>1
  <2>3. QED
    BY <1>0, <2>1, <2>2 DEF EndOf
<1>8. Cuts(u, to)
  BY <1>6, <1>7 DEF Cuts
<1>9. QED
  BY <1>8 DEF u

\* The fragments of ikcp_send follow each other and hold what the call adds.
LEMMA FragmentsFollow ==
  ASSUME NEW off \in Nat, NEW len \in Nat, NEW c \in Nat \ {0}, Needs(len, c),
         NEW t, t = Fragments(off, len, c)
  PROVE  Holds(t, off, off + len)
<1>1. t \in Seq(Segment)
  BY FragmentsType
<1>2. t = [i \in 1..c |-> [off |-> off + (i - 1) * Mss,
                           len |-> IF i < c THEN Mss ELSE len - (c - 1) * Mss]]
  BY DEF Fragments
<1>3. Len(t) = c
  BY <1>2
<1>4. Mss \in Nat /\ c - 1 \in Nat /\ 1 \in 1..c
  BY KcpAssumption
<1>5. /\ \A a \in Nat : a * Mss \in Nat /\ (a + 1) * Mss = a * Mss + Mss
      /\ \A a, b \in Nat : a <= b => a * Mss <= b * Mss
      /\ 0 * Mss = 0
  BY <1>4
<1>6. (c - 1) * Mss \in Nat /\ (c - 1) * Mss < len
  BY <1>4, <1>5 DEF Needs
<1>7. t[1].off = off
  BY <1>2, <1>4, <1>5
<1>8. ASSUME NEW i \in 1..c, i > 1 PROVE t[i].off = t[i - 1].off + t[i - 1].len
  <2>1. i - 1 \in 1..c /\ i - 1 < c /\ i - 2 \in Nat /\ (i - 2) + 1 = i - 1
    BY <1>8
  <2>2. t[i].off = off + (i - 1) * Mss
    BY <1>2
  <2>3. t[i - 1].off = off + (i - 2) * Mss /\ t[i - 1].len = Mss
    <3>1. (i - 1) - 1 = i - 2
      OBVIOUS
    <3>2. QED
      BY <1>2, <2>1, <3>1
  <2>4. (i - 1) * Mss = (i - 2) * Mss + Mss /\ (i - 2) * Mss \in Nat
    BY <1>5, <2>1
  <2>5. QED
    BY <1>4, <2>2, <2>3, <2>4
<1>9. t[c].off + t[c].len = off + len
  <2>1. t[c].off = off + (c - 1) * Mss /\ t[c].len = len - (c - 1) * Mss
    BY <1>2
  <2>2. QED
    BY <1>6, <2>1
<1>10. ASSUME NEW i \in 1..c PROVE t[i].off + t[i].len <= off + len
  <2>1. CASE i = c
    BY <1>9, <2>1
  <2>2. CASE i < c
    <3>1. t[i].off = off + (i - 1) * Mss /\ t[i].len = Mss
      BY <1>2, <2>2
    <3>2. i - 1 \in Nat /\ (i - 1) + 1 = i /\ i \in Nat /\ i <= c - 1
      BY <2>2
    <3>3. i * Mss = (i - 1) * Mss + Mss /\ (i - 1) * Mss \in Nat /\ i * Mss <= (c - 1) * Mss
      BY <1>4, <1>5, <3>2
    <3>4. QED
      BY <1>4, <1>6, <3>1, <3>3
  <2>3. QED
    BY <2>1, <2>2
<1>11. t # <<>>
  BY <1>3
<1>12. QED
  BY <1>1, <1>3, <1>7, <1>8, <1>9, <1>10, <1>11 DEF Holds

\* Filling the last segment of the queue lets the cut go on by as many bytes.
LEMMA ExtendedCuts ==
  ASSUME TypeOK, NEW n \in Node, WriterOK(n), NEW e \in Nat, e > 0 => HasRoom(n)
  PROVE  Cuts(numbered[n] \o Extended(n, e), written[n] + e)
<1> DEFINE q == snd_queue[n]
           s == numbered[n]
           w == written[n]
<1>1. q \in Seq(Segment) /\ s \in Seq(Segment) /\ w \in Nat
  BY DEF TypeOK
<1>2. CASE e = 0
  <2>1. Extended(n, e) = q /\ w + e = w
    BY <1>1, <1>2 DEF Extended
  <2>2. QED
    BY <2>1 DEF WriterOK
<1>3. CASE e # 0
  <2> DEFINE last == [q[Len(q)] EXCEPT !.len = @ + e]
             r    == [q EXCEPT ![Len(q)] = last]
             u    == s \o q
             v    == s \o r
             z    == Len(s) + Len(q)
  <2>1. q # <<>> /\ Extended(n, e) = r
    BY <1>3 DEF Extended, HasRoom
  <2>2. Len(q) \in 1..Len(q) /\ q[Len(q)] \in Segment /\ Len(s) \in Nat
    BY <1>1, <2>1
  <2>3. /\ last \in Segment /\ last.off = q[Len(q)].off
        /\ last.len = q[Len(q)].len + e
        /\ q[Len(q)].off \in Nat /\ q[Len(q)].len \in Nat
    BY <2>2 DEF Segment
  <2> HIDE DEF last
  <2>4. /\ r \in Seq(Segment) /\ Len(r) = Len(q) /\ r[Len(q)] = last
        /\ \A i \in 1..Len(q) : i # Len(q) => r[i] = q[i]
    <3> HIDE DEF q
    <3>1. QED
      BY <1>1, <2>2, <2>3
  <2>5. /\ u \in Seq(Segment) /\ Len(u) = z
        /\ \A i \in 1..Len(s) : u[i] = s[i]
        /\ \A i \in 1..Len(q) : u[Len(s) + i] = q[i]
    <3> HIDE DEF q, s
    <3>1. QED
      BY <1>1, Joined
  <2>6. /\ v \in Seq(Segment) /\ Len(v) = z
        /\ \A i \in 1..Len(s) : v[i] = s[i]
        /\ \A i \in 1..Len(q) : v[Len(s) + i] = r[i]
    <3> HIDE DEF q, s, r
    <3>1. /\ s \o r \in Seq(Segment) /\ Len(s \o r) = Len(s) + Len(r)
          /\ \A i \in 1..Len(s) : (s \o r)[i] = s[i]
          /\ \A i \in 1..Len(r) : (s \o r)[Len(s) + i] = r[i]
      BY <1>1, <2>4, Joined
    <3>2. Len(r) = Len(q)
      BY <2>4
    <3>3. QED
      BY <3>1, <3>2
  <2>7. Cuts(u, w)
    BY DEF WriterOK
  <2> HIDE DEF u, v, r, q, s, w
  <2>8. z \in Nat /\ z # 0 /\ z \in 1..z
    BY <1>1, <2>2
  <2>9. ASSUME NEW i \in 1..z, i # z PROVE v[i] = u[i]
    <3>1. CASE i <= Len(s)
      BY <2>2, <2>5, <2>6, <3>1
    <3>2. CASE i > Len(s)
      <4>1. /\ i - Len(s) \in 1..Len(q) /\ i - Len(s) # Len(q)
            /\ Len(s) + (i - Len(s)) = i
        BY <2>2, <2>9, <3>2
      <4>2. v[Len(s) + (i - Len(s))] = r[i - Len(s)] /\ u[Len(s) + (i - Len(s))] = q[i - Len(s)]
        BY <2>5, <2>6, <4>1
      <4>3. r[i - Len(s)] = q[i - Len(s)]
        BY <2>4, <4>1
      <4>4. QED
        BY <4>1, <4>2, <4>3
    <3>3. QED
      BY <2>2, <3>1, <3>2
  <2>10. v[z] = last /\ u[z] = q[Len(q)]
    BY <2>2, <2>4, <2>5, <2>6
  <2>11. EndOf(u, z) = w
    BY <2>5, <2>7 DEF Cuts
  <2>12. v[z].off + v[z].len = w + e
    <3>1. u[z].off + u[z].len = w
      BY <2>8, <2>11 DEF EndOf
    <3>2. q[Len(q)].off + q[Len(q)].len = w
      BY <2>10, <3>1
    <3>3. v[z].off = q[Len(q)].off /\ v[z].len = q[Len(q)].len + e
      BY <2>3, <2>10
    <3>4. QED
      BY <2>3, <3>2, <3>3
  <2>13. ASSUME NEW i \in 1..z
         PROVE  v[i].off = EndOf(v, i - 1) /\ v[i].off + v[i].len <= w + e
    <3>1. u[i].off = EndOf(u, i - 1) /\ u[i].off + u[i].len <= w
      BY <2>5, <2>7 DEF Cuts
    <3>2. v[i].off = u[i].off
      BY <2>3, <2>9, <2>10
    <3>3. EndOf(v, i - 1) = EndOf(u, i - 1)
      <4>1. i - 1 = 0 \/ (i - 1 \in 1..z /\ i - 1 # z)
        BY <2>8
      <4>2. QED
        BY <2>9, <4>1 DEF EndOf
    <3>4. v[i].off + v[i].len <= w + e
      <4>1. CASE i = z
        <5>1. w + e \in Nat
          BY <1>1
        <5>2. QED
          BY <2>12, <4>1, <5>1
      <4>2. CASE i # z
        <5>1. v[i] = u[i] /\ u[i] \in Segment
          BY <2>5, <2>9, <4>2
        <5>2. u[i].off \in Nat /\ u[i].len \in Nat
          BY <5>1 DEF Segment
        <5>3. QED
          BY <1>1, <3>1, <5>1, <5>2
      <4>3. QED
        BY <4>1, <4>2
    <3>5. QED
      BY <3>1, <3>2, <3>3, <3>4
  <2>14. EndOf(v, Len(v)) = w + e
    BY <2>6, <2>8, <2>12 DEF EndOf
  <2>15. Cuts(v, w + e)
    BY <2>6, <2>13, <2>14 DEF Cuts
  <2>16. QED
    BY <2>1, <2>15 DEF v, w, s
<1>4. QED
  BY <1>2, <1>3

\* ikcp_send adds what it took to the end of the stream, even when it fails half way.
LEMMA SendWrites ==
  ASSUME TypeOK, NEW n \in Node, NEW len \in Nat, Send(n, len), WriterOK(n)
  PROVE  /\ WriterOK(n)'
         /\ \E more \in Nat : written' = [written EXCEPT ![n] = @ + more]
<1> DEFINE e    == Extension(n, len)
           rest == len - e
<1>1. /\ snd_queue \in [Node -> Seq(Segment)] /\ written \in [Node -> Nat]
      /\ numbered[n] \in Seq(Segment)
  BY DEF TypeOK
<1>2. e \in 0..len /\ Extended(n, e) \in Seq(Segment)
  BY ExtendedType
<1>3. e > 0 => HasRoom(n)
  BY DEF Extension
<1>4. e \in Nat /\ rest \in Nat /\ e + rest = len
  BY <1>2
<1>5. numbered' = numbered
  BY DEF Send
<1> HIDE DEF e
<1>6. Cuts(numbered[n] \o Extended(n, e), written[n] + e)
  BY <1>3, <1>4, ExtendedCuts
<1>7. CASE /\ snd_queue' = [snd_queue EXCEPT ![n] = Extended(n, e)]
           /\ written' = [written EXCEPT ![n] = @ + e]
  <2>1. snd_queue'[n] = Extended(n, e) /\ written'[n] = written[n] + e
    BY <1>1, <1>7
  <2>2. QED
    BY <1>4, <1>5, <1>6, <1>7, <2>1 DEF WriterOK
<1>8. ASSUME NEW c \in 1..rest, Needs(rest, c),
             snd_queue' = [snd_queue EXCEPT ![n] =
                             Extended(n, e) \o Fragments(written[n] + e, rest, c)],
             written' = [written EXCEPT ![n] = @ + len]
      PROVE  /\ WriterOK(n)'
             /\ \E more \in Nat : written' = [written EXCEPT ![n] = @ + more]
  <2> DEFINE t == Fragments(written[n] + e, rest, c)
             a == numbered[n]
             b == Extended(n, e)
  <2>1. written[n] + e \in Nat /\ c \in Nat \ {0} /\ written[n] + e + rest = written[n] + len
    BY <1>1, <1>4
  <2>2. Holds(t, written[n] + e, written[n] + len)
    <3> HIDE DEF rest
    <3>1. Holds(t, written[n] + e, written[n] + e + rest)
      BY <1>4, <1>8, <2>1, FragmentsFollow
    <3>2. QED
      BY <2>1, <3>1
  <2> HIDE DEF t, rest
  <2>3. a \o b \in Seq(Segment)
    BY <1>1, <1>2
  <2>4. written[n] + e <= written[n] + len /\ written[n] + len \in Nat
    BY <1>1, <1>4
  <2>5. Cuts((a \o b) \o t, written[n] + len)
    <3> HIDE DEF a, b
    <3>1. Cuts(a \o b, written[n] + e)
      BY <1>6 DEF a, b
    <3>2. QED
      BY <2>1, <2>2, <2>3, <2>4, <3>1, CutsGoOn
  <2>6. (a \o b) \o t = a \o (b \o t)
    <3>1. a \in Seq(Segment) /\ b \in Seq(Segment) /\ t \in Seq(Segment)
      BY <1>1, <1>2, <2>2 DEF Holds
    <3> HIDE DEF a, b
    <3>2. QED
      BY <3>1
  <2>7. snd_queue'[n] = b \o t /\ written'[n] = written[n] + len
    BY <1>1, <1>8 DEF t
  <2>8. QED
    BY <1>5, <1>8, <2>5, <2>6, <2>7 DEF WriterOK
<1>9. \/ /\ snd_queue' = [snd_queue EXCEPT ![n] = Extended(n, e)]
         /\ written' = [written EXCEPT ![n] = @ + e]
      \/ \E c \in 1..rest :
           /\ Needs(rest, c)
           /\ snd_queue' = [snd_queue EXCEPT ![n] =
                             Extended(n, e) \o Fragments(written[n] + e, rest, c)]
           /\ written' = [written EXCEPT ![n] = @ + len]
  <2>1. rest = 0 => e = len
    BY <1>4
  <2>2. QED
    BY <2>1 DEF Send, e
<1>10. QED
  BY <1>7, <1>8, <1>9

-----------------------------------------------------------------------------
(* Receiving.                                                              *)

\* queue holds the segments of the peer of n after the first k and before rcv_nxt.
InPlace(n, queue, k) ==
  /\ k = rcv_nxt[n] - Len(queue)
  /\ Follows(queue, numbered[Peer(n)], k)

\* q is queue with m segments more, and holds the segments of s after the first k.
Grown(q, queue, m, s, k) ==
  /\ Len(q) = Len(queue) + m
  /\ Follows(q, s, k)

\* Moving segments that the peer numbered to a queue that holds the ones just before keeps
\* the queue in the peer's order.
LEMMA DrainInOrder ==
  ASSUME TypeOK, NEW n \in Node, NEW buf, IsWindow(buf, Segment),
         NEW queue \in Seq(Segment), NEW m \in Nat,
         NEW k \in Nat, InPlace(n, queue, k),
         \A sn \in DOMAIN buf : buf[sn] = numbered[Peer(n)][sn + 1],
         \A i \in 0..(m - 1) : rcv_nxt[n] + i \in DOMAIN buf,
         Drain(n, buf, queue, m)
  PROVE  /\ Grown(rcv_queue'[n], queue, m, numbered[Peer(n)], k)
         /\ \A j \in Node \ {n} : rcv_queue'[j] = rcv_queue[j] /\ rcv_nxt'[j] = rcv_nxt[j]
<1> DEFINE moved == [i \in 1..m |-> buf[rcv_nxt[n] + i - 1]]
<1>1. /\ rcv_nxt \in [Node -> Nat] /\ rcv_queue \in [Node -> Seq(Segment)]
      /\ Len(queue) \in Nat
      /\ k = rcv_nxt[n] - Len(queue) /\ Follows(queue, numbered[Peer(n)], k)
  <2>1. Len(queue) \in Nat
    OBVIOUS
  <2>2. QED
    BY <2>1 DEF TypeOK, InPlace
<1>2. /\ rcv_queue' = [rcv_queue EXCEPT ![n] = queue \o moved]
      /\ rcv_nxt' = [rcv_nxt EXCEPT ![n] = @ + m]
  BY DEF Drain
<1>3. rcv_queue'[n] = queue \o moved /\ rcv_nxt'[n] = rcv_nxt[n] + m
  BY <1>1, <1>2
<1>4. ASSUME NEW i \in 1..m
      PROVE  moved[i] \in Segment /\ moved[i] = numbered[Peer(n)][rcv_nxt[n] + i]
  <2>1. /\ i - 1 \in 0..(m - 1) /\ rcv_nxt[n] + (i - 1) = rcv_nxt[n] + i - 1
        /\ rcv_nxt[n] + i - 1 + 1 = rcv_nxt[n] + i
    BY <1>1
  <2>2. rcv_nxt[n] + i - 1 \in DOMAIN buf
    BY <2>1
  <2>3. QED
    BY <2>1, <2>2 DEF IsWindow
<1>5. moved \in Seq(Segment) /\ Len(moved) = m
  <2> DEFINE at(i) == buf[rcv_nxt[n] + i - 1]
  <2>1. \A i \in 1..m : at(i) \in Segment
    BY <1>4
  <2>2. moved = [i \in 1..m |-> at(i)]
    OBVIOUS
  <2> HIDE DEF at, moved
  <2>3. QED
    BY <2>1, <2>2
<1> HIDE DEF moved
<1>6. /\ Len(queue \o moved) = Len(queue) + m
      /\ \A i \in 1..Len(queue) : (queue \o moved)[i] = queue[i]
      /\ \A i \in 1..m : (queue \o moved)[Len(queue) + i] = moved[i]
  BY <1>5, Joined
<1>8. ASSUME NEW i \in 1..Len(rcv_queue'[n])
      PROVE  rcv_queue'[n][i] = numbered[Peer(n)][k + i]
  <2>1. CASE i <= Len(queue)
    BY <1>1, <1>3, <1>6, <2>1 DEF Follows
  <2>2. CASE i > Len(queue)
    <3>1. PICK j \in 1..m : i = Len(queue) + j
      <4>1. i - Len(queue) \in 1..m /\ i = Len(queue) + (i - Len(queue))
        BY <1>1, <1>3, <1>6, <2>2
      <4>2. QED
        BY <4>1
    <3>2. rcv_nxt[n] + j = k + i
      BY <1>1, <3>1
    <3>3. rcv_queue'[n][i] = moved[j]
      BY <1>3, <1>6, <3>1
    <3>4. moved[j] = numbered[Peer(n)][rcv_nxt[n] + j]
      BY <1>4
    <3>5. QED
      BY <3>2, <3>3, <3>4
  <2>3. QED
    BY <1>1, <2>1, <2>2
<1>9. \A j \in Node \ {n} : rcv_queue'[j] = rcv_queue[j] /\ rcv_nxt'[j] = rcv_nxt[j]
  BY <1>1, <1>2
<1>10. QED
  BY <1>3, <1>6, <1>8, <1>9 DEF Grown, Follows

\* The loops that move segments stop at a gap or at a full queue.
LEMMA DrainLeavesNothingReady ==
  ASSUME TypeOK, NEW n \in Node, NEW buf, IsWindow(buf, Segment), NEW queue, NEW m \in Nat,
         Len(queue) \in Nat, Drains(n, buf, queue, m), Drain(n, buf, queue, m),
         Len(rcv_queue'[n]) = Len(queue) + m, rcv_nxt'[n] = rcv_nxt[n] + m
  PROVE  rcv_nxt'[n] \in DOMAIN rcv_buf'[n] => Len(rcv_queue'[n]) = RcvWnd
<1>1. rcv_buf'[n] = [sn \in {s \in DOMAIN buf : s >= rcv_nxt[n] + m} |-> buf[sn]]
  BY DEF Drain, TypeOK
<1>2. CASE m = RcvWnd - Len(queue)
  BY <1>2, KcpAssumption
<1>3. CASE rcv_nxt[n] + m \notin DOMAIN buf
  BY <1>1, <1>3
<1>4. QED
  BY <1>2, <1>3 DEF Drains

\* What one endpoint receives does not concern the other.
LEMMA OtherReader ==
  ASSUME NEW n \in Node, NEW k \in Node, ReaderOK(k),
         rcv_queue'[k] = rcv_queue[k], rcv_nxt'[k] = rcv_nxt[k], got'[k] = got[k],
         UNCHANGED numbered
  PROVE  ReaderOK(k)'
BY DEF ReaderOK, HandedOn

\* ikcp_input keeps StreamInv.
LEMMA InputStream ==
  ASSUME IInv, StreamInv, NEW n \in Node, NEW d \in net[n], Input(n, d)
  PROVE  StreamInv'
<1> DEFINE inside(m) == {sn \in DOMAIN d.push : sn < rcv_nxt[n] + m + RcvWnd}
           parsed(m) == {sn \in inside(m) : sn >= rcv_nxt[n]}
           buf(m)    == [sn \in DOMAIN rcv_buf[n] \cup parsed(m) |->
                     IF sn \in DOMAIN rcv_buf[n] THEN rcv_buf[n][sn] ELSE d.push[sn]]
<1>1. /\ TypeOK /\ rcv_nxt \in [Node -> Nat] /\ rcv_queue \in [Node -> Seq(Segment)]
      /\ DOMAIN rcv_buf = Node /\ IsWindow(rcv_buf[n], Segment) /\ IsDatagram(d)
      /\ Peer(n) \in Node
  BY PeerNode DEF IInv, TypeOK
<1>2. PICK m \in 0..RcvWnd :
        /\ IF parsed(m) = {} THEN m = 0 ELSE Drains(n, buf(m), rcv_queue[n], m)
        /\ Drain(n, buf(m), rcv_queue[n], m)
  BY DEF Input, Receive
<1>3. m \in Nat
  BY KcpAssumption
<1>4. UNCHANGED <<snd_queue, numbered, written, got>>
  BY DEF Input, histVars
<1>5. parsed(m) \subseteq DOMAIN d.push
  OBVIOUS
<1>6. IsWindow(buf(m), Segment)
  <2> HIDE DEF parsed
  <2>1. QED
    BY <1>1, <1>5 DEF IsWindow, IsDatagram
<1>7. \A sn \in DOMAIN buf(m) : buf(m)[sn] = numbered[Peer(n)][sn + 1]
  <2>1. ReceiverOK(n)
    BY Parts
  <2> HIDE DEF parsed
  <2>2. \A sn \in DOMAIN rcv_buf[n] : rcv_buf[n][sn] = numbered[Peer(n)][sn + 1]
    BY <2>1 DEF ReceiverOK
  <2>3. \A sn \in parsed(m) : d.push[sn] = numbered[Peer(n)][sn + 1]
    BY <1>5, <2>1 DEF ReceiverOK
  <2>4. QED
    BY <2>2, <2>3
<1>8. \A i \in 0..(m - 1) : rcv_nxt[n] + i \in DOMAIN buf(m)
  <2> HIDE DEF parsed, buf
  <2>1. QED
    BY <1>2, <1>3 DEF Drains
<1>9. parsed(m) = {} => buf(m) = rcv_buf[n]
  <2>1. rcv_buf[n] = [sn \in DOMAIN rcv_buf[n] |-> rcv_buf[n][sn]]
    BY <1>1 DEF IsWindow
  <2> HIDE DEF parsed
  <2>2. ASSUME parsed(m) = {} PROVE buf(m) = [sn \in DOMAIN rcv_buf[n] |-> rcv_buf[n][sn]]
    BY <2>2
  <2>3. QED
    BY <2>1, <2>2
<1> HIDE DEF inside, parsed, buf
<1>10. /\ HandedOn(n) \in Nat /\ HandedOn(n) = rcv_nxt[n] - Len(rcv_queue[n])
       /\ Follows(rcv_queue[n], numbered[Peer(n)], HandedOn(n))
  BY DEF StreamInv, ReaderOK, HandedOn
<1>11. /\ HandedOn(n)' = HandedOn(n)
       /\ Follows(rcv_queue'[n], numbered[Peer(n)], HandedOn(n))
       /\ Len(rcv_queue'[n]) = Len(rcv_queue[n]) + m
       /\ rcv_nxt'[n] = rcv_nxt[n] + m
       /\ \A j \in Node \ {n} : rcv_queue'[j] = rcv_queue[j] /\ rcv_nxt'[j] = rcv_nxt[j]
  <2>1. PICK k \in Nat : k = HandedOn(n)
    BY <1>10
  <2>2. rcv_queue[n] \in Seq(Segment)
    BY <1>1
  <2>3. /\ HandedOn(n)' = k
        /\ Follows(rcv_queue'[n], numbered[Peer(n)], k)
        /\ Len(rcv_queue'[n]) = Len(rcv_queue[n]) + m
        /\ rcv_nxt'[n] = rcv_nxt[n] + m
        /\ \A j \in Node \ {n} : rcv_queue'[j] = rcv_queue[j] /\ rcv_nxt'[j] = rcv_nxt[j]
    <3>1. Drain(n, buf(m), rcv_queue[n], m)
      BY <1>2
    <3>2. k = rcv_nxt[n] - Len(rcv_queue[n]) /\ Follows(rcv_queue[n], numbered[Peer(n)], k)
      BY <1>10, <2>1
    <3>3. TypeOK
      BY <1>1
    <3>4. InPlace(n, rcv_queue[n], k)
      BY <3>2 DEF InPlace
    <3>5. Grown(rcv_queue'[n], rcv_queue[n], m, numbered[Peer(n)], k)
      BY <1>3, <1>6, <1>7, <1>8, <2>2, <3>1, <3>3, <3>4, DrainInOrder
    <3>6. Len(rcv_queue'[n]) = Len(rcv_queue[n]) + m /\ Follows(rcv_queue'[n], numbered[Peer(n)], k)
      BY <3>5 DEF Grown
    <3>7. \A j \in Node \ {n} : rcv_queue'[j] = rcv_queue[j] /\ rcv_nxt'[j] = rcv_nxt[j]
      BY <1>3, <1>6, <1>7, <1>8, <2>2, <3>1, <3>3, <3>4, DrainInOrder
    <3>8. rcv_nxt'[n] = rcv_nxt[n] + m
      BY <1>1, <3>1 DEF Drain
    <3>9. HandedOn(n)' = k
      <4>1. rcv_nxt[n] \in Nat /\ Len(rcv_queue[n]) \in Nat
        BY <1>1, <2>2
      <4>2. QED
        BY <1>3, <3>2, <3>8, <3>6, <4>1 DEF HandedOn
    <3>10. QED
      BY <2>1, <3>9, <3>8, <3>6, <3>7
  <2>4. QED
    BY <2>1, <2>3
<1>12. ReaderOK(n)'
  BY <1>4, <1>10, <1>11 DEF StreamInv, ReaderOK
<1>13. \A k \in Node : ReaderOK(k)'
  BY <1>4, <1>11, <1>12, OtherReader DEF StreamInv
<1>14. \A k \in Node : WriterOK(k)'
  BY <1>4 DEF StreamInv, WriterOK
<1>15. rcv_nxt'[n] \in DOMAIN rcv_buf'[n] => Len(rcv_queue'[n]) = RcvWnd
  <2>1. CASE parsed(m) = {}
    <3>1. m = 0 /\ buf(m) = rcv_buf[n]
      BY <1>2, <1>9, <2>1
    <3>2. rcv_nxt'[n] = rcv_nxt[n] /\ Len(rcv_queue'[n]) = Len(rcv_queue[n])
      BY <1>1, <1>11, <3>1
    <3>3. DOMAIN rcv_buf'[n] \subseteq DOMAIN rcv_buf[n]
      BY <1>1, <1>2, <3>1 DEF Drain
    <3>4. QED
      BY <3>2, <3>3 DEF StreamInv, NothingReadyWaits
  <2>2. CASE parsed(m) # {}
    <3>1. Drains(n, buf(m), rcv_queue[n], m) /\ Len(rcv_queue[n]) \in Nat
      BY <1>1, <1>2, <2>2
    <3>2. QED
      BY <1>1, <1>2, <1>3, <1>6, <1>11, <3>1, DrainLeavesNothingReady
  <2>3. QED
    BY <2>1, <2>2
<1>16. \A k \in Node \ {n} : rcv_buf'[k] = rcv_buf[k]
  BY <1>1, <1>2 DEF Drain
<1>17. NothingReadyWaits'
  BY <1>11, <1>15, <1>16 DEF StreamInv, NothingReadyWaits
<1>18. QED
  BY <1>13, <1>14, <1>17 DEF StreamInv

\* The first segments of a cut end inside it, and the next one begins where they end.
LEMMA CutsAt ==
  ASSUME NEW s \in Seq(Segment), NEW t \in Seq(Segment), NEW total \in Nat,
         Cuts(s \o t, total), NEW k \in Nat, k <= Len(s)
  PROVE  /\ EndOf(s, k) <= total
         /\ k < Len(s) => s[k + 1].off = EndOf(s, k)
<1> DEFINE u == s \o t
<1>1. /\ Len(u) = Len(s) + Len(t)
      /\ \A i \in 1..Len(s) : u[i] = s[i]
  BY Joined
<1>2. Len(s) \in Nat /\ Len(t) \in Nat
  OBVIOUS
<1>3. Cuts(u, total)
  OBVIOUS
<1> HIDE DEF u
<1>4. \A i \in 1..Len(s) : u[i].off = EndOf(u, i - 1) /\ u[i].off + u[i].len <= total
  BY <1>1, <1>2, <1>3 DEF Cuts
<1>5. EndOf(s, k) <= total
  <2>1. CASE k = 0
    BY <2>1 DEF EndOf
  <2>2. CASE k # 0
    <3>1. k \in 1..Len(s)
      BY <1>2, <2>2
    <3>2. QED
      BY <1>1, <1>4, <2>2, <3>1 DEF EndOf
  <2>3. QED
    BY <2>1, <2>2
<1>6. ASSUME k < Len(s) PROVE s[k + 1].off = EndOf(s, k)
  <2>1. k + 1 \in 1..Len(s) /\ (k + 1) - 1 = k
    BY <1>2, <1>6
  <2>2. u[k + 1].off = EndOf(u, k) /\ u[k + 1] = s[k + 1]
    BY <1>1, <1>4, <2>1
  <2>3. EndOf(u, k) = EndOf(s, k)
    <3>1. k = 0 \/ k \in 1..Len(s)
      BY <1>2
    <3>2. QED
      BY <1>1, <3>1 DEF EndOf
  <2>4. QED
    BY <2>2, <2>3
<1>7. QED
  BY <1>5, <1>6

\* The bytes handed to the reader n are among those its peer wrote, and the segments it
\* queues next were numbered.
LEMMA HandedOnBounds ==
  ASSUME IInv, StreamInv, NEW n \in Node
  PROVE  /\ numbered[Peer(n)] \in Seq(Segment) /\ written[Peer(n)] \in Nat
         /\ \E t \in Seq(Segment) : Cuts(numbered[Peer(n)] \o t, written[Peer(n)])
         /\ HandedOn(n) \in Nat /\ Len(rcv_queue[n]) \in Nat
         /\ HandedOn(n) + Len(rcv_queue[n]) <= Len(numbered[Peer(n)])
<1>1. /\ rcv_nxt[n] \in Nat /\ rcv_queue[n] \in Seq(Segment) /\ Peer(n) \in Node
      /\ numbered[Peer(n)] \in Seq(Segment) /\ snd_queue[Peer(n)] \in Seq(Segment)
      /\ written[Peer(n)] \in Nat
  BY PeerNode DEF IInv, TypeOK
<1>2. Cuts(numbered[Peer(n)] \o snd_queue[Peer(n)], written[Peer(n)])
  BY <1>1 DEF StreamInv, WriterOK
<1>3. rcv_nxt[n] <= Len(numbered[Peer(n)])
  <2>1. ReceiverOK(n) /\ SenderOK(Peer(n))
    BY <1>1, Parts
  <2>2. QED
    BY <2>1 DEF ReceiverOK, SenderOK
<1>4. HandedOn(n) \in Nat /\ HandedOn(n) = rcv_nxt[n] - Len(rcv_queue[n])
  BY DEF StreamInv, ReaderOK, HandedOn
<1>5. Len(rcv_queue[n]) \in Nat
  BY <1>1
<1>6. HandedOn(n) + Len(rcv_queue[n]) = rcv_nxt[n]
  BY <1>1, <1>4, <1>5
<1>7. QED
  BY <1>1, <1>2, <1>3, <1>4, <1>5, <1>6

\* The next byte of the reader n is the first one of the head of its rcv_queue, and its
\* peer wrote the bytes of that segment.
LEMMA HeadIsNext ==
  ASSUME IInv, StreamInv, NEW n \in Node, rcv_queue[n] # <<>>
  PROVE  /\ Head(rcv_queue[n]) \in Segment
         /\ Head(rcv_queue[n]).off = Len(got[n])
         /\ Len(got[n]) + Head(rcv_queue[n]).len <= written[Peer(n)]
         /\ Len(got[n]) + Head(rcv_queue[n]).len
              = EndOf(numbered[Peer(n)], HandedOn(n) + 1)
<1>1. rcv_queue[n] \in Seq(Segment)
  BY DEF IInv, TypeOK
<1>2. /\ Head(rcv_queue[n]) = rcv_queue[n][1] /\ 1 \in 1..Len(rcv_queue[n])
      /\ Head(rcv_queue[n]) \in Segment
  BY <1>1
<1>3. /\ numbered[Peer(n)] \in Seq(Segment) /\ written[Peer(n)] \in Nat
      /\ HandedOn(n) \in Nat /\ Len(rcv_queue[n]) \in Nat
      /\ HandedOn(n) + Len(rcv_queue[n]) <= Len(numbered[Peer(n)])
      /\ Len(numbered[Peer(n)]) \in Nat
  BY HandedOnBounds
<1>4. PICK t \in Seq(Segment) : Cuts(numbered[Peer(n)] \o t, written[Peer(n)])
  BY HandedOnBounds
<1>5. PICK h \in Nat : h = HandedOn(n)
  BY <1>3
<1>6. h < Len(numbered[Peer(n)]) /\ h <= Len(numbered[Peer(n)])
      /\ h + 1 <= Len(numbered[Peer(n)]) /\ h + 1 \in Nat /\ h + 1 # 0
  BY <1>2, <1>3, <1>5
<1>7. Head(rcv_queue[n]) = numbered[Peer(n)][h + 1]
  BY <1>2, <1>5 DEF StreamInv, ReaderOK, Follows
<1>8. numbered[Peer(n)][h + 1].off = EndOf(numbered[Peer(n)], h)
  BY <1>3, <1>4, <1>6, CutsAt
<1>9. EndOf(numbered[Peer(n)], h + 1) <= written[Peer(n)]
  BY <1>3, <1>4, <1>6, CutsAt
<1>10. Len(got[n]) = EndOf(numbered[Peer(n)], h)
  BY <1>5 DEF StreamInv, ReaderOK
<1>11. Head(rcv_queue[n]).off = Len(got[n])
  BY <1>7, <1>8, <1>10
<1>12. EndOf(numbered[Peer(n)], h + 1) = Len(got[n]) + Head(rcv_queue[n]).len
  BY <1>6, <1>7, <1>11 DEF EndOf
<1>13. QED
  BY <1>2, <1>5, <1>9, <1>11, <1>12

\* The bytes of s are the first ones.
InOrder(s) == \A i \in 1..Len(s) : s[i] = i - 1

\* Reading the next bytes keeps what was read in order.
LEMMA ReadMore ==
  ASSUME NEW s \in Seq(Nat), InOrder(s), NEW len \in Nat,
         NEW t, t = s \o [i \in 1..len |-> Len(s) + i - 1]
  PROVE  Len(t) = Len(s) + len /\ InOrder(t)
<1> DEFINE more == [i \in 1..len |-> Len(s) + i - 1]
<1>1. more \in Seq(Nat) /\ Len(more) = len /\ \A i \in 1..len : more[i] = Len(s) + i - 1
  <2>1. \A i \in 1..len : Len(s) + i - 1 \in Nat
    OBVIOUS
  <2>2. QED
    BY <2>1
<1> HIDE DEF more
<1>2. t = s \o more
  BY DEF more
<1>3. /\ Len(t) = Len(s) + len
      /\ \A i \in 1..Len(s) : t[i] = s[i]
      /\ \A i \in 1..len : t[Len(s) + i] = more[i]
  BY <1>1, <1>2
<1>4. ASSUME NEW i \in 1..Len(t) PROVE t[i] = i - 1
  <2>1. CASE i <= Len(s)
    BY <1>3, <2>1 DEF InOrder
  <2>2. CASE i > Len(s)
    <3>1. PICK j \in 1..len : i = Len(s) + j
      <4>1. i - Len(s) \in 1..len /\ i = Len(s) + (i - Len(s))
        BY <1>3, <2>2
      <4>2. QED
        BY <4>1
    <3>2. QED
      BY <1>1, <1>3, <3>1
  <2>3. QED
    BY <1>3, <2>1, <2>2
<1>5. QED
  BY <1>3, <1>4 DEF InOrder

\* What ikcp_recv returns is the next bytes.
LEMMA RecvReads ==
  ASSUME IInv, StreamInv, NEW n \in Node, Recv(n)
  PROVE  /\ Head(rcv_queue[n]).len \in 0..(written[Peer(n)] - Len(got[n]))
         /\ got' = [got EXCEPT ![n] =
              @ \o [i \in 1..Head(rcv_queue[n]).len |-> Len(got[n]) + i - 1]]
<1>1. rcv_queue[n] # <<>> /\ got \in [Node -> Seq(Nat)] /\ written \in [Node -> Nat]
  BY DEF IInv, TypeOK, Recv
<1>2. /\ Head(rcv_queue[n]) \in Segment /\ Head(rcv_queue[n]).off = Len(got[n])
      /\ Len(got[n]) + Head(rcv_queue[n]).len <= written[Peer(n)]
  BY <1>1, HeadIsNext
<1>3. Head(rcv_queue[n]).len \in Nat
  BY <1>2 DEF Segment
<1>4. Head(rcv_queue[n]).len \in 0..(written[Peer(n)] - Len(got[n]))
  <2>1. written[Peer(n)] \in Nat /\ Len(got[n]) \in Nat
    BY <1>1, PeerNode
  <2>2. QED
    BY <1>2, <1>3, <2>1
<1>5. got' = [got EXCEPT ![n] =
        @ \o [i \in 1..Head(rcv_queue[n]).len |-> Head(rcv_queue[n]).off + i - 1]]
  BY DEF Recv
<1>6. QED
  BY <1>2, <1>4, <1>5

\* ikcp_recv keeps StreamInv.
LEMMA RecvStream ==
  ASSUME IInv, StreamInv, NEW n \in Node, Recv(n)
  PROVE  StreamInv'
<1> DEFINE rest == Tail(rcv_queue[n])
           len  == Head(rcv_queue[n]).len
<1>1. /\ TypeOK /\ rcv_nxt \in [Node -> Nat] /\ rcv_queue[n] \in Seq(Segment)
      /\ rcv_queue[n] # <<>> /\ got \in [Node -> Seq(Nat)]
      /\ DOMAIN rcv_buf = Node /\ IsWindow(rcv_buf[n], Segment) /\ Peer(n) \in Node
  BY PeerNode DEF IInv, TypeOK, Recv
<1>2. PICK m \in 0..RcvWnd : Drains(n, rcv_buf[n], rest, m) /\ Drain(n, rcv_buf[n], rest, m)
  BY DEF Recv
<1>3. m \in Nat
  BY KcpAssumption
<1>4. /\ rest \in Seq(Segment) /\ Len(rest) = Len(rcv_queue[n]) - 1 /\ Len(rest) \in Nat
      /\ \A i \in 1..Len(rest) : rest[i] = rcv_queue[n][i + 1]
  BY <1>1
<1>5. /\ len \in Nat
      /\ Len(got[n]) + len = EndOf(numbered[Peer(n)], HandedOn(n) + 1)
  <2>1. /\ Head(rcv_queue[n]) \in Segment
        /\ Len(got[n]) + len = EndOf(numbered[Peer(n)], HandedOn(n) + 1)
    BY <1>1, HeadIsNext
  <2>2. QED
    BY <2>1 DEF Segment
<1>6. got' = [got EXCEPT ![n] = @ \o [i \in 1..len |-> Len(got[n]) + i - 1]]
  BY RecvReads
<1> HIDE DEF rest, len
<1>7. UNCHANGED <<snd_queue, numbered, written>>
  BY DEF Recv, sndVars
<1>8. /\ HandedOn(n) \in Nat /\ HandedOn(n) = rcv_nxt[n] - Len(rcv_queue[n])
      /\ Follows(rcv_queue[n], numbered[Peer(n)], HandedOn(n))
      /\ \A i \in 1..Len(got[n]) : got[n][i] = i - 1
  BY DEF StreamInv, ReaderOK, HandedOn
<1>9. PICK k \in Nat : k = HandedOn(n) + 1
  BY <1>8
<1>10. k = rcv_nxt[n] - Len(rest)
  BY <1>1, <1>4, <1>8, <1>9
<1>11. Follows(rest, numbered[Peer(n)], k)
  <2>1. ASSUME NEW i \in 1..Len(rest) PROVE rest[i] = numbered[Peer(n)][k + i]
    <3>1. HandedOn(n) \in Nat /\ Len(rcv_queue[n]) \in Nat
      BY <1>1, <1>8
    <3>2. HandedOn(n) + (i + 1) = k + i
      BY <1>9, <3>1
    <3>3. i + 1 \in 1..Len(rcv_queue[n])
      BY <1>4, <3>1
    <3>4. rcv_queue[n][i + 1] = numbered[Peer(n)][HandedOn(n) + (i + 1)]
      BY <1>8, <3>3 DEF Follows
    <3>5. QED
      BY <1>4, <3>2, <3>4
  <2>2. QED
    BY <2>1 DEF Follows
<1>12. \A sn \in DOMAIN rcv_buf[n] : rcv_buf[n][sn] = numbered[Peer(n)][sn + 1]
  BY Parts DEF ReceiverOK
<1>13. \A i \in 0..(m - 1) : rcv_nxt[n] + i \in DOMAIN rcv_buf[n]
  BY <1>2 DEF Drains
<1>14. /\ Follows(rcv_queue'[n], numbered[Peer(n)], k)
       /\ Len(rcv_queue'[n]) = Len(rest) + m
       /\ rcv_nxt'[n] = rcv_nxt[n] + m
       /\ \A j \in Node \ {n} : rcv_queue'[j] = rcv_queue[j] /\ rcv_nxt'[j] = rcv_nxt[j]
  <2>1. InPlace(n, rest, k)
    BY <1>10, <1>11 DEF InPlace
  <2>2. TypeOK /\ IsWindow(rcv_buf[n], Segment) /\ Drain(n, rcv_buf[n], rest, m)
    BY <1>1, <1>2
  <2>3. Grown(rcv_queue'[n], rest, m, numbered[Peer(n)], k)
    BY <1>3, <1>4, <1>12, <1>13, <2>2, <2>1, DrainInOrder
  <2>4. Len(rcv_queue'[n]) = Len(rest) + m /\ Follows(rcv_queue'[n], numbered[Peer(n)], k)
    BY <2>3 DEF Grown
  <2>5. \A j \in Node \ {n} : rcv_queue'[j] = rcv_queue[j] /\ rcv_nxt'[j] = rcv_nxt[j]
    BY <1>3, <1>4, <1>12, <1>13, <2>2, <2>1, DrainInOrder
  <2>6. rcv_nxt'[n] = rcv_nxt[n] + m
    BY <1>1, <1>2 DEF Drain
  <2>7. QED
    BY <2>6, <2>4, <2>5
<1>15. Len(got'[n]) = Len(got[n]) + len /\ \A i \in 1..Len(got'[n]) : got'[n][i] = i - 1
  <2>1. got'[n] = got[n] \o [i \in 1..len |-> Len(got[n]) + i - 1] /\ got[n] \in Seq(Nat)
    BY <1>1, <1>6
  <2>2. InOrder(got[n])
    BY <1>8 DEF InOrder
  <2>3. Len(got'[n]) = Len(got[n]) + len /\ InOrder(got'[n])
    BY <1>5, <2>1, <2>2, ReadMore
  <2>4. QED
    BY <2>3 DEF InOrder
<1>16. ReaderOK(n)'
  <2>1. HandedOn(n)' = k
    <3>1. rcv_nxt[n] \in Nat
      BY <1>1
    <3>2. QED
      BY <1>3, <1>4, <1>10, <1>14, <3>1 DEF HandedOn
  <2>2. QED
    BY <1>5, <1>7, <1>9, <1>14, <1>15, <2>1 DEF ReaderOK
<1>17. \A k2 \in Node \ {n} : got'[k2] = got[k2]
  BY <1>1, <1>6
<1>18. \A k2 \in Node : ReaderOK(k2)'
  BY <1>7, <1>14, <1>16, <1>17, OtherReader DEF StreamInv
<1>19. \A k2 \in Node : WriterOK(k2)'
  BY <1>7 DEF StreamInv, WriterOK
<1>20. rcv_nxt'[n] \in DOMAIN rcv_buf'[n] => Len(rcv_queue'[n]) = RcvWnd
  BY <1>1, <1>2, <1>3, <1>4, <1>14, DrainLeavesNothingReady
<1>21. \A k2 \in Node \ {n} : rcv_buf'[k2] = rcv_buf[k2]
  BY <1>1, <1>2 DEF Drain
<1>22. NothingReadyWaits'
  BY <1>14, <1>20, <1>21 DEF StreamInv, NothingReadyWaits
<1>23. QED
  BY <1>18, <1>19, <1>22 DEF StreamInv

-----------------------------------------------------------------------------
(* Sending.                                                                *)

\* Taking segments out of the queue leaves numbered and queue together as they were.
LEMMA SplitQueue ==
  ASSUME NEW q \in Seq(Segment), NEW old \in Seq(Segment), NEW m \in 0..Len(q)
  PROVE  (old \o SubSeq(q, 1, m)) \o SubSeq(q, m + 1, Len(q)) = old \o q
<1> DEFINE a == SubSeq(q, 1, m)
           b == SubSeq(q, m + 1, Len(q))
<1>1. m \in Nat /\ m <= Len(q) /\ Len(q) \in Nat
  OBVIOUS
<1>2. a \in Seq(Segment) /\ Len(a) = m /\ \A i \in 1..m : a[i] = q[i]
  BY <1>1
<1>3. b \in Seq(Segment) /\ Len(b) = Len(q) - m /\ \A i \in 1..(Len(q) - m) : b[i] = q[m + i]
  BY <1>1
<1> HIDE DEF a, b
<1>4. a \o b = q
  <2>1. /\ a \o b \in Seq(Segment) /\ Len(a \o b) = Len(q)
        /\ \A i \in 1..m : (a \o b)[i] = a[i]
        /\ \A i \in 1..(Len(q) - m) : (a \o b)[m + i] = b[i]
    BY <1>1, <1>2, <1>3, Joined
  <2>2. ASSUME NEW i \in 1..Len(q) PROVE (a \o b)[i] = q[i]
    <3>1. CASE i <= m
      BY <1>1, <1>2, <2>1, <3>1
    <3>2. CASE i > m
      <4>1. PICK j \in 1..(Len(q) - m) : i = m + j
        <5>1. i - m \in 1..(Len(q) - m) /\ i = m + (i - m)
          BY <1>1, <3>2
        <5>2. QED
          BY <5>1
      <4>2. QED
        BY <1>3, <2>1, <4>1
    <3>3. i <= m \/ i > m
      BY <1>1
    <3>4. QED
      BY <3>1, <3>2, <3>3
  <2>3. \A s, t \in Seq(Segment) : Len(s) = Len(t) /\ (\A i \in 1..Len(t) : s[i] = t[i]) => s = t
    OBVIOUS
  <2>4. QED
    BY <2>1, <2>2, <2>3
<1>5. (old \o a) \o b = old \o (a \o b)
  BY <1>2, <1>3
<1>6. QED
  BY <1>4, <1>5 DEF a, b

\* ikcp_flush keeps StreamInv.
LEMMA FlushStream ==
  ASSUME IInv, StreamInv, NEW n \in Node, NEW expired, NEW probes,
         Flush(n, expired, probes)
  PROVE  StreamInv'
<1>1. /\ rcv_nxt \in [Node -> Nat] /\ rcv_queue \in [Node -> Seq(Segment)]
      /\ snd_queue \in [Node -> Seq(Segment)] /\ numbered \in [Node -> Seq(Segment)]
      /\ Peer(n) \in Node /\ Peer(n) # n /\ Peer(Peer(n)) = n
  BY PeerNode DEF IInv, TypeOK
<1>2. PICK m \in 0..Len(snd_queue[n]) :
        /\ snd_queue' = [snd_queue EXCEPT ![n] = SubSeq(@, m + 1, Len(@))]
        /\ numbered' = [numbered EXCEPT ![n] = @ \o SubSeq(snd_queue[n], 1, m)]
  BY DEF Flush
<1>3. UNCHANGED <<rcv_nxt, rcv_buf, rcv_queue, written, got>>
  BY DEF Flush, rcvVars
<1>4. /\ numbered'[n] = numbered[n] \o SubSeq(snd_queue[n], 1, m)
      /\ snd_queue'[n] = SubSeq(snd_queue[n], m + 1, Len(snd_queue[n]))
      /\ numbered'[Peer(n)] = numbered[Peer(n)] /\ snd_queue'[Peer(n)] = snd_queue[Peer(n)]
  BY <1>1, <1>2
<1>5. WriterOK(n)'
  <2>1. numbered'[n] \o snd_queue'[n] = numbered[n] \o snd_queue[n]
    BY <1>1, <1>4, SplitQueue
  <2>2. QED
    BY <1>3, <2>1 DEF StreamInv, WriterOK
<1>6. WriterOK(Peer(n))'
  BY <1>1, <1>3, <1>4 DEF StreamInv, WriterOK
<1>7. ReaderOK(n)'
  BY <1>3, <1>4 DEF StreamInv, ReaderOK, HandedOn
<1>8. ReaderOK(Peer(n))'
  <2> DEFINE p == Peer(n)
  <2>1. \A i \in 1..Len(numbered[n]) : numbered'[n][i] = numbered[n][i]
    BY <1>1, <1>4, NumberedGrows
  <2>2. rcv_nxt[p] <= Len(numbered[n])
    <3>1. ReceiverOK(p) /\ SenderOK(n)
      BY <1>1, Parts
    <3>2. QED
      BY <1>1, <3>1 DEF ReceiverOK, SenderOK
  <2>3. /\ HandedOn(p) \in Nat /\ HandedOn(p) = rcv_nxt[p] - Len(rcv_queue[p])
        /\ Follows(rcv_queue[p], numbered[n], HandedOn(p))
        /\ Len(got[p]) = EndOf(numbered[n], HandedOn(p))
        /\ \A i \in 1..Len(got[p]) : got[p][i] = i - 1
    BY <1>1 DEF StreamInv, ReaderOK, HandedOn
  <2>4. HandedOn(p)' = HandedOn(p)
    BY <1>3 DEF HandedOn
  <2>5. rcv_nxt[p] \in Nat /\ Len(rcv_queue[p]) \in Nat /\ Peer(p) = n
    BY <1>1
  <2> HIDE DEF p
  <2>6. ASSUME NEW i \in 1..Len(rcv_queue[p])
        PROVE  rcv_queue[p][i] = numbered'[n][HandedOn(p) + i]
    <3>1. HandedOn(p) + i <= rcv_nxt[p]
      BY <2>3, <2>5
    <3>2. Len(numbered[n]) \in Nat
      BY <1>1
    <3>3. HandedOn(p) + i \in 1..Len(numbered[n])
      BY <2>2, <2>3, <2>5, <3>1, <3>2
    <3>4. QED
      BY <2>1, <2>3, <3>3 DEF Follows
  <2>7. EndOf(numbered'[n], HandedOn(p)) = EndOf(numbered[n], HandedOn(p))
    <3>1. Len(numbered[n]) \in Nat
      BY <1>1
    <3>2. HandedOn(p) = 0 \/ HandedOn(p) \in 1..Len(numbered[n])
      BY <2>2, <2>3, <2>5, <3>1
    <3>3. QED
      BY <2>1, <3>2 DEF EndOf
  <2>8. ReaderOK(p)'
    BY <1>3, <2>3, <2>4, <2>5, <2>6, <2>7 DEF ReaderOK, Follows
  <2>9. QED
    BY <2>8 DEF p
<1>9. \A k \in Node : WriterOK(k)' /\ ReaderOK(k)'
  BY <1>5, <1>6, <1>7, <1>8, TwoNodes
<1>10. NothingReadyWaits'
  BY <1>3 DEF StreamInv, NothingReadyWaits
<1>11. QED
  BY <1>9, <1>10 DEF StreamInv

\* ikcp_send keeps StreamInv.
LEMMA SendStream ==
  ASSUME IInv, StreamInv, NEW n \in Node, NEW len \in Nat, Send(n, len)
  PROVE  StreamInv'
<1>1. snd_queue \in [Node -> Seq(Segment)] /\ written \in [Node -> Nat] /\ TypeOK
  BY DEF IInv, TypeOK
<1>2. UNCHANGED <<rcv_nxt, rcv_buf, rcv_queue, numbered, got>>
  BY DEF Send, rcvVars
<1>3. WriterOK(n)'
  BY <1>1, SendWrites DEF StreamInv
<1>4. \A k \in Node \ {n} : snd_queue'[k] = snd_queue[k] /\ written'[k] = written[k]
  <2>1. \E q, w : /\ snd_queue' = [snd_queue EXCEPT ![n] = q]
                  /\ written' = [written EXCEPT ![n] = w]
    BY DEF Send
  <2>2. QED
    BY <1>1, <2>1
<1>5. \A k \in Node : WriterOK(k)'
  BY <1>2, <1>3, <1>4 DEF StreamInv, WriterOK
<1>6. \A k \in Node : ReaderOK(k)'
  BY <1>2, OtherReader DEF StreamInv
<1>7. NothingReadyWaits'
  BY <1>2 DEF StreamInv, NothingReadyWaits
<1>8. QED
  BY <1>5, <1>6, <1>7 DEF StreamInv

-----------------------------------------------------------------------------
(* Results.                                                                *)

\* StreamInv holds when both endpoints are created.
LEMMA InitStreamInv == Init => StreamInv
<1> SUFFICES ASSUME Init PROVE StreamInv
  OBVIOUS
<1>1. Len(<<>>) = 0 /\ DOMAIN <<>> = {} /\ <<>> \o <<>> = <<>>
  OBVIOUS
<1>2. ASSUME NEW n \in Node PROVE WriterOK(n) /\ ReaderOK(n)
  <2>1. Peer(n) \in Node
    BY PeerNode
  <2>2. WriterOK(n)
    BY <1>1 DEF Init, WriterOK, Cuts, EndOf
  <2>3. ReaderOK(n)
    <3>1. /\ rcv_nxt[n] = 0 /\ rcv_queue[n] = <<>> /\ got[n] = <<>>
      BY DEF Init
    <3>2. HandedOn(n) = 0
      <4>1. Len(rcv_queue[n]) = 0
        BY <1>1, <3>1
      <4>2. rcv_nxt[n] = 0
        BY <3>1
      <4>3. QED
        BY <4>1, <4>2 DEF HandedOn
    <3>3. Follows(<<>>, numbered[Peer(n)], 0)
      BY <1>1 DEF Follows
    <3>4. QED
      BY <1>1, <3>1, <3>2, <3>3 DEF ReaderOK, EndOf
  <2>4. QED
    BY <2>2, <2>3
<1>3. NothingReadyWaits
  BY <1>1 DEF Init, NothingReadyWaits
<1>4. QED
  BY <1>2, <1>3 DEF StreamInv

\* Every step keeps StreamInv.
LEMMA NextStreamInv == IInv /\ StreamInv /\ [Next]_vars => StreamInv'
<1> SUFFICES ASSUME IInv, StreamInv, [Next]_vars PROVE StreamInv'
  OBVIOUS
<1>1. ASSUME NEW n \in Node, NEW len \in 1..MaxBytes[n], Send(n, len) PROVE StreamInv'
  BY <1>1, KcpAssumption, SendStream
<1>2. ASSUME NEW n \in Node, NEW expired \in SUBSET DOMAIN snd_buf[n],
             NEW probes \in Probes(n), Flush(n, expired, probes)
      PROVE StreamInv'
  BY <1>2, FlushStream
<1>3. ASSUME NEW n \in Node, NEW d \in net[n], Input(n, d) PROVE StreamInv'
  BY <1>3, InputStream
<1>4. ASSUME NEW n \in Node, Recv(n) PROVE StreamInv'
  BY <1>4, RecvStream
<1>5. CASE UNCHANGED vars
  <2>1. UNCHANGED <<snd_queue, numbered, written, rcv_nxt, rcv_buf, rcv_queue, got>>
    BY <1>5 DEF vars, sndVars, rcvVars, histVars
  <2>2. QED
    BY <2>1 DEF StreamInv, NothingReadyWaits, WriterOK, ReaderOK, HandedOn
<1>6. QED
  BY <1>1, <1>2, <1>3, <1>4, <1>5 DEF Next

\* StreamInv is an invariant.
LEMMA StreamInvariance == Spec => []StreamInv
<1>1. Init => IInv /\ StreamInv
  BY InitIInv, InitStreamInv
<1>2. IInv /\ StreamInv /\ [Next]_vars => (IInv /\ StreamInv)'
  BY NextIInv, NextStreamInv
<1>3. QED
  BY <1>1, <1>2, PTL DEF Spec

\* A segment that ikcp_recv could return is never left in rcv_buf while rcv_queue has room
\* (the loops at the end of ikcp_parse_data and of ikcp_recv).
THEOREM ReadySegmentsMove == Spec => []NothingReadyWaits
<1>1. StreamInv => NothingReadyWaits
  BY DEF StreamInv
<1>2. QED
  BY <1>1, StreamInvariance, PTL

\* What was read is a beginning of what was written.
LEMMA ReadIsPrefix == IInv /\ StreamInv => ReadInOrder
<1> SUFFICES ASSUME IInv, StreamInv, NEW n \in Node
             PROVE  /\ Len(got[n]) <= written[Peer(n)]
                    /\ \A i \in 1..Len(got[n]) : got[n][i] = i - 1
  BY DEF ReadInOrder
<1>1. /\ numbered[Peer(n)] \in Seq(Segment) /\ written[Peer(n)] \in Nat
      /\ HandedOn(n) \in Nat /\ Len(rcv_queue[n]) \in Nat
      /\ HandedOn(n) + Len(rcv_queue[n]) <= Len(numbered[Peer(n)])
      /\ Len(numbered[Peer(n)]) \in Nat
  BY HandedOnBounds
<1>2. PICK t \in Seq(Segment) : Cuts(numbered[Peer(n)] \o t, written[Peer(n)])
  BY HandedOnBounds
<1>3. HandedOn(n) <= Len(numbered[Peer(n)])
  BY <1>1
<1>4. EndOf(numbered[Peer(n)], HandedOn(n)) <= written[Peer(n)]
  BY <1>1, <1>2, <1>3, CutsAt
<1>5. QED
  BY <1>4 DEF StreamInv, ReaderOK

\* Whatever is lost, repeated or reordered, and whenever windows close, ikcp_recv has
\* returned the first bytes the peer gave to ikcp_send, each once and in order.
THEOREM StreamStaysInOrder == Spec => []ReadInOrder
<1>1. Spec => []IInv
  BY Invariance
<1>2. QED
  BY <1>1, StreamInvariance, ReadIsPrefix, PTL

\* A step of Kcp is a step of KcpStream: ikcp_send writes, ikcp_recv reads, and neither
\* ikcp_flush nor ikcp_input is seen.
LEMMA StepImplements == IInv /\ StreamInv /\ [Next]_vars => [Stream!Next]_(Stream!vars)
<1> SUFFICES ASSUME IInv, StreamInv, [Next]_vars PROVE [Stream!Next]_(Stream!vars)
  OBVIOUS
<1>1. Stream!Node = Node /\ \A n \in Node : Stream!Peer(n) = Peer(n)
  BY DEF Stream!Node, Node, Stream!Peer, Peer
<1>2. TypeOK /\ written \in [Node -> Nat]
  BY DEF IInv, TypeOK
<1>3. ASSUME NEW n \in Node, NEW len \in 1..MaxBytes[n], Send(n, len) PROVE Stream!Next
  <2>1. len \in Nat
    BY KcpAssumption
  <2>2. PICK more \in Nat : written' = [written EXCEPT ![n] = @ + more]
    BY <1>2, <1>3, <2>1, SendWrites DEF StreamInv
  <2>3. written'[n] \in Nat /\ written'[n] >= written[n] /\ written'[n] = written[n] + more
    BY <1>2, <2>2
  <2>4. written' = [written EXCEPT ![n] = written'[n]]
    BY <2>2, <2>3
  <2>5. UNCHANGED got
    BY <1>3 DEF Send
  <2>6. Stream!Write(n)
    BY <2>3, <2>4, <2>5 DEF Stream!Write
  <2>7. QED
    BY <1>1, <2>6 DEF Stream!Next
<1>4. ASSUME NEW n \in Node, Recv(n) PROVE Stream!Next
  <2>1. /\ Head(rcv_queue[n]).len \in 0..(written[Peer(n)] - Len(got[n]))
        /\ got' = [got EXCEPT ![n] =
              @ \o [i \in 1..Head(rcv_queue[n]).len |-> Len(got[n]) + i - 1]]
    BY <1>4, RecvReads
  <2>2. UNCHANGED written
    BY <1>4 DEF Recv
  <2>3. Stream!Read(n)
    BY <1>1, <2>1, <2>2 DEF Stream!Read
  <2>4. QED
    BY <1>1, <2>3 DEF Stream!Next
<1>5. ASSUME NEW n \in Node, NEW expired, NEW probes, Flush(n, expired, probes)
      PROVE UNCHANGED Stream!vars
  BY <1>5 DEF Flush, Stream!vars
<1>6. ASSUME NEW n \in Node, NEW d, Input(n, d) PROVE UNCHANGED Stream!vars
  BY <1>6 DEF Input, histVars, Stream!vars
<1>7. CASE UNCHANGED vars
  BY <1>7 DEF vars, histVars, Stream!vars
<1>8. QED
  BY <1>3, <1>4, <1>5, <1>6, <1>7 DEF Next

\* The two endpoints implement a pair of reliable byte streams: the README's promise of an
\* ordered, reliable connection, as far as safety goes.
THEOREM ImplementsStream == Spec => StreamSpec
<1>1. Init => Stream!Init
  BY DEF Init, Stream!Init, Stream!Node, Node
<1>2. IInv /\ StreamInv /\ [Next]_vars => [Stream!Next]_(Stream!vars)
  BY StepImplements
<1>3. Spec => []IInv
  BY Invariance
<1>4. QED
  BY <1>1, <1>2, <1>3, StreamInvariance, PTL DEF Spec, StreamSpec, Stream!Spec

\* What is not read yet and not in the reader's queue is still with its writer.
LEMMA StreamKeeps == IInv /\ StreamInv => MissingIsKept
<1> SUFFICES ASSUME IInv, StreamInv, NEW n \in Node,
                    Len(got[Peer(n)]) < written[n], rcv_queue[Peer(n)] = <<>>
             PROVE  \/ rcv_nxt[Peer(n)] \in DOMAIN snd_buf[n]
                    \/ rcv_nxt[Peer(n)] = snd_nxt[n] /\ snd_queue[n] # <<>>
  BY DEF MissingIsKept
<1>1. PICK p \in Node : p = Peer(n) /\ Peer(p) = n
  BY PeerNode
<1>2. /\ rcv_nxt[p] \in Nat /\ snd_nxt[n] \in Nat /\ numbered[n] \in Seq(Segment)
      /\ DOMAIN rcv_buf[p] \subseteq Nat
  BY <1>1 DEF IInv, TypeOK, IsWindow
<1>3. Len(rcv_queue[p]) = 0
  BY <1>1
<1>4. rcv_nxt[p] \notin DOMAIN rcv_buf[p]
  BY <1>3, KcpAssumption DEF StreamInv, NothingReadyWaits
<1>5. HandedOn(p) = rcv_nxt[p]
  BY <1>2, <1>3 DEF HandedOn
<1>6. rcv_nxt[p] <= snd_nxt[n] /\ snd_nxt[n] = Len(numbered[n])
  BY <1>1, Parts DEF ReceiverOK, SenderOK
<1>7. CASE rcv_nxt[p] < snd_nxt[n]
  <2>1. rcv_nxt[p] \in 0..(snd_nxt[Peer(p)] - 1)
    BY <1>1, <1>2, <1>7
  <2>2. rcv_nxt[p] \in DOMAIN snd_buf[n] \/ Received(p, rcv_nxt[p])
    BY <1>1, <2>1, Parts DEF ReceiverOK
  <2>3. ~Received(p, rcv_nxt[p])
    BY <1>2, <1>4 DEF Received
  <2>4. QED
    BY <1>1, <2>2, <2>3
<1>8. CASE rcv_nxt[p] = snd_nxt[n]
  <2>1. Len(got[p]) = EndOf(numbered[n], Len(numbered[n]))
    BY <1>1, <1>5, <1>6, <1>8 DEF StreamInv, ReaderOK
  <2>2. ASSUME snd_queue[n] = <<>> PROVE FALSE
    <3>1. numbered[n] \o snd_queue[n] = numbered[n]
      BY <1>2, <2>2
    <3>2. EndOf(numbered[n], Len(numbered[n])) = written[n]
      BY <3>1 DEF StreamInv, WriterOK, Cuts
    <3>3. written[n] \in Nat
      BY DEF IInv, TypeOK
    <3>4. QED
      BY <1>1, <2>1, <3>2, <3>3
  <2>3. QED
    BY <1>1, <1>8, <2>2
<1>9. QED
  BY <1>2, <1>6, <1>7, <1>8

\* No byte that ikcp_send took is lost while it was not read: ikcp_recv finds the next one,
\* or its segment is in snd_buf, where ikcp_flush resends it, or in snd_queue.
THEOREM UnreadIsKept == Spec => []MissingIsKept
<1>1. Spec => []IInv
  BY Invariance
<1>2. QED
  BY <1>1, StreamInvariance, StreamKeeps, PTL

-----------------------------------------------------------------------------
(* What a connection uses.                                                 *)

\* A set of numbers that is not empty has a least one.
LEMMA HasLeast ==
  ASSUME NEW T, T \subseteq Nat, T # {}
  PROVE  \E x \in T : \A y \in T : x <= y
<1> DEFINE R == {ss \in Nat \X Nat : ss[1] < ss[2]}
<1>1. IsWellFoundedOn(R, Nat)
  BY NatLessThanWellFounded, Zenon DEF OpToRel
<1>2. PICK x \in T : \A y \in T : <<y, x>> \notin R
  <2> HIDE DEF R
  <2> QED
    BY <1>1, WFMin, Zenon
<1>3. \A y \in T : ~(y < x)
  BY <1>2
<1> QED
  BY <1>3

\* The numbers of D follow each other from lo on up to e, which is not one of them.
IsRun(lo, D, e) ==
  /\ e \in Nat /\ lo <= e /\ e <= lo + RcvWnd
  /\ \A sn \in lo..(e - 1) : sn \in D
  /\ e \notin D

\* RunEnd, for any window.
RunOf(lo, D) ==
  CHOOSE e \in lo..(lo + RcvWnd) : (\A sn \in lo..(e - 1) : sn \in D) /\ e \notin D

\* In a window of RcvWnd numbers there is such an end, and it is the one RunOf takes.
LEMMA RunIs ==
  ASSUME NEW lo \in Nat, NEW D, D \subseteq lo..(lo + RcvWnd - 1)
  PROVE  IsRun(lo, D, RunOf(lo, D))
<1>1. RcvWnd \in Nat /\ lo + RcvWnd \notin D
  BY KcpAssumption
<1> DEFINE T == {e \in Nat : lo <= e /\ e \notin D}
<1>2. lo + RcvWnd \in T
  BY <1>1
<1>3. PICK e \in T : \A y \in T : e <= y
  <2>1. T \subseteq Nat /\ T # {}
    BY <1>2
  <2> HIDE DEF T
  <2>2. QED
    BY <2>1, HasLeast
<1>4. e \in Nat /\ lo <= e /\ e \notin D /\ e <= lo + RcvWnd
  BY <1>2, <1>3
<1>5. ASSUME NEW sn \in lo..(e - 1) PROVE sn \in D
  <2>1. sn \in Nat /\ lo <= sn /\ ~(e <= sn)
    BY <1>4
  <2>2. sn \notin T
    BY <1>3, <2>1
  <2>3. QED
    BY <2>1, <2>2
<1>6. \E x \in lo..(lo + RcvWnd) : (\A sn \in lo..(x - 1) : sn \in D) /\ x \notin D
  <2>1. e \in lo..(lo + RcvWnd)
    BY <1>1, <1>4
  <2>2. QED
    BY <1>4, <1>5, <2>1
<1>7. /\ RunOf(lo, D) \in lo..(lo + RcvWnd)
      /\ \A sn \in lo..(RunOf(lo, D) - 1) : sn \in D
      /\ RunOf(lo, D) \notin D
  BY <1>6, Zenon DEF RunOf
<1>8. QED
  BY <1>1, <1>7 DEF IsRun

\* n takes segments: its run does not get shorter, and stays when nothing new comes.
LEMMA TakesRun ==
  ASSUME NEW n \in Node, rcv_nxt[n] \in Nat, NEW D, NEW m, NEW k, Takes(n, D, m, k),
         NEW e, IsRun(rcv_nxt[n], DOMAIN rcv_buf[n], e),
         NEW f, IsRun(rcv_nxt'[n], DOMAIN rcv_buf'[n], f)
  PROVE  e <= f /\ (D = DOMAIN rcv_buf[n] => e = f)
<1>1. /\ m \in Nat /\ DOMAIN rcv_buf[n] \subseteq D
      /\ \A i \in 0..(m - 1) : rcv_nxt[n] + i \in D
      /\ rcv_nxt'[n] = rcv_nxt[n] + m
      /\ DOMAIN rcv_buf'[n] = {sn \in D : sn >= rcv_nxt[n] + m}
  BY DEF Takes
<1>2. /\ e \in Nat /\ rcv_nxt[n] <= e /\ e \notin DOMAIN rcv_buf[n]
      /\ \A sn \in rcv_nxt[n]..(e - 1) : sn \in DOMAIN rcv_buf[n]
  BY DEF IsRun
<1>3. /\ f \in Nat /\ rcv_nxt[n] + m <= f /\ f \notin DOMAIN rcv_buf'[n]
      /\ \A sn \in (rcv_nxt[n] + m)..(f - 1) : sn \in DOMAIN rcv_buf'[n]
  BY <1>1 DEF IsRun
<1>4. ~(f < e)
  <2>1. SUFFICES ASSUME f < e PROVE FALSE
    OBVIOUS
  <2>2. f \in rcv_nxt[n]..(e - 1)
    BY <1>1, <1>2, <1>3, <2>1
  <2>3. f \in D /\ f >= rcv_nxt[n] + m
    BY <1>1, <1>2, <1>3, <2>2
  <2>4. QED
    BY <1>1, <1>3, <2>3
<1>5. ASSUME D = DOMAIN rcv_buf[n] PROVE ~(e < f)
  <2>1. SUFFICES ASSUME e < f PROVE FALSE
    OBVIOUS
  <2>2. CASE e < rcv_nxt[n] + m
    <3>1. e - rcv_nxt[n] \in 0..(m - 1) /\ rcv_nxt[n] + (e - rcv_nxt[n]) = e
      BY <1>1, <1>2, <2>2
    <3>2. e \in D
      BY <1>1, <3>1
    <3>3. QED
      BY <1>2, <1>5, <3>2
  <2>3. CASE e >= rcv_nxt[n] + m
    <3>1. e \in (rcv_nxt[n] + m)..(f - 1)
      BY <1>1, <1>2, <1>3, <2>1, <2>3
    <3>2. QED
      BY <1>1, <1>2, <1>3, <1>5, <3>1
  <2>4. QED
    BY <1>1, <1>2, <2>2, <2>3
<1>6. QED
  BY <1>2, <1>3, <1>4, <1>5

\* RunEnd before and after a step.
LEMMA RunEnds ==
  ASSUME IInv, IInv', NEW n \in Node
  PROVE  /\ IsRun(rcv_nxt[n], DOMAIN rcv_buf[n], RunEnd(n))
         /\ IsRun(rcv_nxt'[n], DOMAIN rcv_buf'[n], RunEnd(n)')
<1>1. rcv_nxt[n] \in Nat /\ rcv_nxt'[n] \in Nat
  BY DEF IInv, TypeOK
<1>2. /\ DOMAIN rcv_buf[n] \subseteq rcv_nxt[n]..(rcv_nxt[n] + RcvWnd - 1)
      /\ DOMAIN rcv_buf'[n] \subseteq rcv_nxt'[n]..(rcv_nxt'[n] + RcvWnd - 1)
  BY DEF IInv, WindowsRespected
<1>3. RunEnd(n) = RunOf(rcv_nxt[n], DOMAIN rcv_buf[n])
  BY DEF RunEnd, RunOf
<1>4. RunEnd(n)' = RunOf(rcv_nxt'[n], DOMAIN rcv_buf'[n])
  BY DEF RunEnd, RunOf
<1>5. QED
  BY <1>1, <1>2, <1>3, <1>4, RunIs

\* Taking segments into a queue of k makes k and the new run readable.
LEMMA TakesAvail ==
  ASSUME IInv, IInv', NEW n \in Node, NEW D, NEW m, NEW k \in Nat, Takes(n, D, m, k)
  PROVE  /\ Avail(n) \in Nat /\ Avail(n)' \in Nat /\ Avail(n)' <= 2 * RcvWnd
         /\ Avail(n)' >= Avail(n) + k - Len(rcv_queue[n])
         /\ D = DOMAIN rcv_buf[n] => Avail(n)' = Avail(n) + k - Len(rcv_queue[n])
<1>1. /\ rcv_nxt[n] \in Nat /\ rcv_nxt'[n] \in Nat
      /\ Len(rcv_queue[n]) \in Nat /\ Len(rcv_queue'[n]) \in Nat
      /\ Len(rcv_queue'[n]) <= RcvWnd /\ RcvWnd \in Nat
  <2>1. rcv_queue[n] \in Seq(Segment) /\ rcv_queue'[n] \in Seq(Segment)
    BY DEF IInv, TypeOK
  <2>2. rcv_nxt[n] \in Nat /\ rcv_nxt'[n] \in Nat /\ Len(rcv_queue'[n]) <= RcvWnd
    BY DEF IInv, TypeOK
  <2>3. QED
    BY <2>1, <2>2, KcpAssumption
<1>2. PICK e \in Nat : e = RunEnd(n) /\ IsRun(rcv_nxt[n], DOMAIN rcv_buf[n], e)
  BY RunEnds DEF IsRun
<1>3. PICK f \in Nat : f = RunEnd(n)' /\ IsRun(rcv_nxt'[n], DOMAIN rcv_buf'[n], f)
  BY RunEnds DEF IsRun
<1>4. e <= f /\ (D = DOMAIN rcv_buf[n] => e = f)
  BY <1>1, <1>2, <1>3, TakesRun
<1>5. m \in Nat /\ rcv_nxt'[n] = rcv_nxt[n] + m /\ Len(rcv_queue'[n]) = k + m
  BY DEF Takes
<1>6. PICK a \in Int : a = Avail(n) /\ a = Len(rcv_queue[n]) + (e - rcv_nxt[n]) /\ rcv_nxt[n] <= e
  <2>1. Avail(n) = Len(rcv_queue[n]) + (e - rcv_nxt[n]) /\ rcv_nxt[n] <= e
    BY <1>2 DEF Avail, IsRun
  <2>2. Len(rcv_queue[n]) + (e - rcv_nxt[n]) \in Int
    BY <1>1
  <2>3. QED
    BY <2>1, <2>2
<1>7. PICK b \in Int :
        /\ b = Avail(n)' /\ b = Len(rcv_queue'[n]) + (f - rcv_nxt'[n])
        /\ rcv_nxt'[n] <= f /\ f <= rcv_nxt'[n] + RcvWnd
  <2>1. /\ Avail(n)' = Len(rcv_queue'[n]) + (f - rcv_nxt'[n])
        /\ rcv_nxt'[n] <= f /\ f <= rcv_nxt'[n] + RcvWnd
    BY <1>3 DEF Avail, IsRun
  <2>2. Len(rcv_queue'[n]) + (f - rcv_nxt'[n]) \in Int
    BY <1>1
  <2>3. QED
    BY <2>1, <2>2
<1>8. a \in Nat /\ b \in Nat /\ b <= 2 * RcvWnd
  <2>1. a \in Nat
    BY <1>1, <1>6
  <2>2. b \in Nat
    BY <1>1, <1>7
  <2>3. b <= 2 * RcvWnd
    BY <1>1, <1>7
  <2>4. QED
    BY <2>1, <2>2, <2>3
<1>9. /\ b >= a + k - Len(rcv_queue[n])
      /\ e = f => b = a + k - Len(rcv_queue[n])
  <2>1. b = k + f - rcv_nxt[n]
    BY <1>1, <1>5, <1>7
  <2>2. a + k - Len(rcv_queue[n]) = k + e - rcv_nxt[n]
    BY <1>1, <1>6
  <2>3. k + f - rcv_nxt[n] >= k + e - rcv_nxt[n]
    BY <1>1, <1>4
  <2>4. QED
    BY <2>1, <2>2, <2>3
<1>10. QED
  BY <1>4, <1>6, <1>7, <1>8, <1>9

\* What is read and waits at an endpoint that does not take part in a step stays.
LEMMA OthersAvail ==
  ASSUME NEW n \in Node, OthersRest(n), NEW j \in Node, j # n
  PROVE  Avail(j)' = Avail(j)
BY DEF OthersRest, Avail, RunEnd

-----------------------------------------------------------------------------
(* ikcp_waitsnd.                                                           *)

\* snd_buf is finite, and ikcp_waitsnd a number.
LEMMA WaitSndType ==
  ASSUME IInv, NEW n \in Node
  PROVE  /\ IsFiniteSet(DOMAIN snd_buf[n]) /\ Cardinality(DOMAIN snd_buf[n]) \in Nat
         /\ Len(snd_queue[n]) \in Nat /\ WaitSnd(n) \in Nat
<1>1. snd_una[n] \in Nat /\ snd_nxt[n] \in Nat /\ snd_queue[n] \in Seq(Segment)
  BY DEF IInv, TypeOK
<1>2. DOMAIN snd_buf[n] \subseteq snd_una[n]..(snd_nxt[n] - 1)
  BY DEF IInv, WindowsRespected
<1>3. snd_una[n] \in Int /\ snd_nxt[n] - 1 \in Int
  BY <1>1
<1>4. IsFiniteSet(snd_una[n]..(snd_nxt[n] - 1))
  BY <1>3, FS_Interval
<1>5. IsFiniteSet(DOMAIN snd_buf[n])
  BY <1>2, <1>4, FS_Subset
<1>6. Cardinality(DOMAIN snd_buf[n]) \in Nat
  BY <1>5, FS_CardinalityType
<1>7. Len(snd_queue[n]) \in Nat
  BY <1>1
<1>8. QED
  BY <1>5, <1>6, <1>7 DEF WaitSnd

\* ikcp_send takes nothing out of a queue.
LEMMA SendWaits ==
  ASSUME IInv, NEW n \in Node, NEW len \in Nat, Send(n, len)
  PROVE  /\ WaitSnd(n)' \in Nat /\ WaitSnd(n)' >= WaitSnd(n)
         /\ \A j \in Node \ {n} : WaitSnd(j)' = WaitSnd(j)
<1> DEFINE e    == Extension(n, len)
           rest == len - e
           q    == snd_queue[n]
<1>1. TypeOK /\ snd_queue \in [Node -> Seq(Segment)] /\ q \in Seq(Segment) /\ written[n] \in Nat
  BY DEF IInv, TypeOK
<1>2. e \in 0..len /\ Extended(n, e) \in Seq(Segment)
  BY <1>1, ExtendedType
<1>3. Len(Extended(n, e)) = Len(q)
  BY <1>1 DEF Extended
<1>4. e \in Nat /\ rest \in Nat
  BY <1>2
<1>5. snd_buf' = snd_buf
  BY DEF Send
<1>6. \A j \in Node \ {n} : snd_queue'[j] = snd_queue[j]
  <2>1. \E z : snd_queue' = [snd_queue EXCEPT ![n] = z]
    BY DEF Send
  <2>2. QED
    BY <1>1, <2>1
<1>7. \/ snd_queue' = [snd_queue EXCEPT ![n] = Extended(n, e)]
      \/ \E c \in 1..rest, off \in Nat :
           /\ Needs(rest, c)
           /\ snd_queue' = [snd_queue EXCEPT ![n] = Extended(n, e) \o Fragments(off, rest, c)]
  <2>1. written[n] + e \in Nat
    BY <1>1, <1>4
  <2>2. QED
    BY <2>1 DEF Send
<1> HIDE DEF e, rest
<1>8. Len(snd_queue'[n]) \in Nat /\ Len(snd_queue'[n]) >= Len(q)
  <2>1. CASE snd_queue' = [snd_queue EXCEPT ![n] = Extended(n, e)]
    <3>1. snd_queue'[n] = Extended(n, e)
      BY <1>1, <2>1
    <3>2. QED
      BY <1>1, <1>3, <3>1
  <2>2. ASSUME NEW c \in 1..rest, NEW off \in Nat, Needs(rest, c),
               snd_queue' = [snd_queue EXCEPT ![n] = Extended(n, e) \o Fragments(off, rest, c)]
        PROVE  Len(snd_queue'[n]) \in Nat /\ Len(snd_queue'[n]) >= Len(q)
    <3> DEFINE t == Fragments(off, rest, c)
               x == Extended(n, e)
    <3>1. c \in Nat \ {0}
      BY <1>4
    <3>2. t \in Seq(Segment)
      BY <1>4, <2>2, <3>1, FragmentsType
    <3>3. x \in Seq(Segment) /\ Len(x) = Len(q) /\ snd_queue'[n] = x \o t
      BY <1>1, <1>2, <1>3, <2>2
    <3> HIDE DEF t, x
    <3>4. Len(x \o t) = Len(x) + Len(t)
      BY <3>2, <3>3, Joined
    <3>5. Len(t) \in Nat /\ Len(x) \in Nat
      BY <3>2, <3>3
    <3>6. QED
      BY <3>3, <3>4, <3>5
  <2>3. QED
    BY <1>7, <2>1, <2>2
<1>9. PICK a \in Nat, b \in Nat, c \in Nat :
        a = Len(q) /\ b = Len(snd_queue'[n]) /\ c = Cardinality(DOMAIN snd_buf[n]) /\ a <= b
  BY <1>8, WaitSndType
<1>10. WaitSnd(n) = a + c /\ WaitSnd(n)' = b + c
  BY <1>5, <1>9 DEF WaitSnd
<1>11. a + c \in Nat /\ b + c \in Nat /\ b + c >= a + c
  BY <1>9
<1>12. \A j \in Node \ {n} : WaitSnd(j)' = WaitSnd(j)
  BY <1>5, <1>6 DEF WaitSnd
<1>13. QED
  BY <1>10, <1>11, <1>12

\* ikcp_flush moves segments from one queue to the other.
LEMMA FlushWaits ==
  ASSUME IInv, NEW n \in Node, NEW expired, NEW probes, Flush(n, expired, probes)
  PROVE  \A j \in Node : WaitSnd(j)' = WaitSnd(j)
<1>1. /\ snd_queue \in [Node -> Seq(Segment)] /\ snd_nxt \in [Node -> Nat]
      /\ DOMAIN snd_buf = Node /\ DOMAIN snd_buf[n] \subseteq snd_una[n]..(snd_nxt[n] - 1)
      /\ snd_una[n] \in Nat
  BY DEF IInv, TypeOK, WindowsRespected
<1>2. PICK m \in 0..Len(snd_queue[n]) :
        /\ snd_queue' = [snd_queue EXCEPT ![n] = SubSeq(@, m + 1, Len(@))]
        /\ snd_buf' = [snd_buf EXCEPT ![n] = Transmitted(n, m, expired)]
  BY DEF Flush
<1>3. m \in Nat /\ m <= Len(snd_queue[n]) /\ Len(snd_queue[n]) \in Nat
  BY <1>1
<1> DEFINE A == DOMAIN snd_buf[n]
           B == snd_nxt[n]..(snd_nxt[n] + m - 1)
<1>4. DOMAIN snd_buf'[n] = A \cup B
  BY <1>1, <1>2 DEF Transmitted
<1>5. IsFiniteSet(A) /\ Cardinality(A) \in Nat
  BY WaitSndType
<1>6. IsFiniteSet(B) /\ Cardinality(B) = m
  <2>1. snd_nxt[n] \in Int /\ snd_nxt[n] + m - 1 \in Int
    BY <1>1, <1>3
  <2>2. /\ IsFiniteSet(B)
        /\ Cardinality(B) = IF snd_nxt[n] > snd_nxt[n] + m - 1 THEN 0
                            ELSE (snd_nxt[n] + m - 1) - snd_nxt[n] + 1
    BY <2>1, FS_Interval
  <2>3. (IF snd_nxt[n] > snd_nxt[n] + m - 1 THEN 0
         ELSE (snd_nxt[n] + m - 1) - snd_nxt[n] + 1) = m
    BY <1>1, <1>3
  <2>4. QED
    BY <2>2, <2>3
<1>7. A \cap B = {}
  BY <1>1, <1>3
<1> HIDE DEF A, B
<1>8. Cardinality(A \cup B) = Cardinality(A) + m
  <2>1. Cardinality(A \cup B) = Cardinality(A) + Cardinality(B) - Cardinality(A \cap B)
    BY <1>5, <1>6, FS_Union
  <2>2. Cardinality(A \cap B) = 0
    BY <1>7, FS_EmptySet
  <2>3. QED
    BY <1>3, <1>5, <1>6, <2>1, <2>2
<1>9. Len(snd_queue'[n]) = Len(snd_queue[n]) - m
  <2>1. snd_queue'[n] = SubSeq(snd_queue[n], m + 1, Len(snd_queue[n])) /\ snd_queue[n] \in Seq(Segment)
    BY <1>1, <1>2
  <2>2. QED
    BY <1>3, <2>1
<1>10. WaitSnd(n)' = WaitSnd(n)
  <2>1. WaitSnd(n)' = Len(snd_queue'[n]) + Cardinality(DOMAIN snd_buf'[n])
    BY DEF WaitSnd
  <2>2. WaitSnd(n) = Len(snd_queue[n]) + Cardinality(A)
    BY DEF WaitSnd, A
  <2>3. QED
    BY <1>3, <1>4, <1>5, <1>8, <1>9, <2>1, <2>2
<1>11. \A j \in Node \ {n} : WaitSnd(j)' = WaitSnd(j)
  BY <1>1, <1>2 DEF WaitSnd
<1>12. QED
  BY <1>10, <1>11

\* ikcp_input takes acknowledged segments out of snd_buf.
LEMMA InputWaits ==
  ASSUME IInv, NEW n \in Node, NEW d \in net[n], Input(n, d)
  PROVE  /\ WaitSnd(n)' \in 0..WaitSnd(n)
         /\ \A j \in Node \ {n} : WaitSnd(j)' = WaitSnd(j)
<1>1. Acknowledge(n, d) /\ snd_queue' = snd_queue
  BY DEF Input
<1>2. /\ DOMAIN snd_buf'[n] \subseteq DOMAIN snd_buf[n]
      /\ \A j \in Node \ {n} : snd_buf'[j] = snd_buf[j]
  BY <1>1, AcknowledgeOldest
<1>3. /\ IsFiniteSet(DOMAIN snd_buf[n]) /\ Cardinality(DOMAIN snd_buf[n]) \in Nat
      /\ Len(snd_queue[n]) \in Nat
  BY WaitSndType
<1>4. /\ IsFiniteSet(DOMAIN snd_buf'[n])
      /\ Cardinality(DOMAIN snd_buf'[n]) <= Cardinality(DOMAIN snd_buf[n])
  BY <1>2, <1>3, FS_Subset
<1>5. Cardinality(DOMAIN snd_buf'[n]) \in Nat
  BY <1>4, FS_CardinalityType
<1>6. PICK a \in Nat, b \in Nat, c \in Nat :
        /\ a = Len(snd_queue[n]) /\ b = Cardinality(DOMAIN snd_buf[n])
        /\ c = Cardinality(DOMAIN snd_buf'[n]) /\ c <= b
  BY <1>3, <1>4, <1>5
<1>7. WaitSnd(n) = a + b /\ WaitSnd(n)' = a + c
  BY <1>1, <1>6 DEF WaitSnd
<1>8. a + c \in 0..(a + b)
  BY <1>6
<1>9. \A j \in Node \ {n} : WaitSnd(j)' = WaitSnd(j)
  BY <1>1, <1>2 DEF WaitSnd
<1>10. QED
  BY <1>7, <1>8, <1>9

-----------------------------------------------------------------------------
(* The refinement of KcpUse.                                               *)

\* The two numbers as functions.
AvailOf   == [n \in Node |-> Avail(n)]
WaitSndOf == [n \in Node |-> WaitSnd(n)]

\* A function over Node that changes at n only.
LEMMA ChangesAt ==
  ASSUME NEW f, f = [j \in Node |-> f[j]], NEW g, g = [j \in Node |-> g[j]],
         NEW n \in Node, \A j \in Node \ {n} : g[j] = f[j]
  PROVE  g = [f EXCEPT ![n] = g[n]]
<1>1. DOMAIN f = Node
  OBVIOUS
<1>2. [f EXCEPT ![n] = g[n]] = [j \in Node |-> IF j = n THEN g[n] ELSE f[j]]
  BY <1>1
<1>3. \A j \in Node : g[j] = IF j = n THEN g[n] ELSE f[j]
  OBVIOUS
<1>4. [j \in Node |-> g[j]] = [j \in Node |-> IF j = n THEN g[n] ELSE f[j]]
  BY <1>3
<1>5. QED
  BY <1>2, <1>4

\* AvailOf and WaitSndOf after a step at n.
LEMMA UseChanges ==
  ASSUME NEW n \in Node
  PROVE  /\ (\A j \in Node \ {n} : Avail(j)' = Avail(j))
              => AvailOf' = [AvailOf EXCEPT ![n] = AvailOf'[n]]
         /\ (\A j \in Node \ {n} : WaitSnd(j)' = WaitSnd(j))
              => WaitSndOf' = [WaitSndOf EXCEPT ![n] = WaitSndOf'[n]]
         /\ (\A j \in Node : Avail(j)' = Avail(j)) => AvailOf' = AvailOf
         /\ (\A j \in Node : WaitSnd(j)' = WaitSnd(j)) => WaitSndOf' = WaitSndOf
         /\ AvailOf[n] = Avail(n) /\ AvailOf'[n] = Avail(n)'
         /\ WaitSndOf[n] = WaitSnd(n) /\ WaitSndOf'[n] = WaitSnd(n)'
<1>1. /\ \A j \in Node : AvailOf[j] = Avail(j) /\ AvailOf'[j] = Avail(j)'
      /\ AvailOf = [j \in Node |-> AvailOf[j]] /\ AvailOf' = [j \in Node |-> AvailOf'[j]]
  BY DEF AvailOf
<1>2. /\ \A j \in Node : WaitSndOf[j] = WaitSnd(j) /\ WaitSndOf'[j] = WaitSnd(j)'
      /\ WaitSndOf = [j \in Node |-> WaitSndOf[j]]
      /\ WaitSndOf' = [j \in Node |-> WaitSndOf'[j]]
  BY DEF WaitSndOf
<1>3. ASSUME \A j \in Node \ {n} : Avail(j)' = Avail(j)
      PROVE  AvailOf' = [AvailOf EXCEPT ![n] = AvailOf'[n]]
  <2>1. \A j \in Node \ {n} : AvailOf'[j] = AvailOf[j]
    BY <1>1, <1>3
  <2>2. QED
    BY <1>1, <2>1, ChangesAt
<1>4. ASSUME \A j \in Node \ {n} : WaitSnd(j)' = WaitSnd(j)
      PROVE  WaitSndOf' = [WaitSndOf EXCEPT ![n] = WaitSndOf'[n]]
  <2>1. \A j \in Node \ {n} : WaitSndOf'[j] = WaitSndOf[j]
    BY <1>2, <1>4
  <2>2. QED
    BY <1>2, <2>1, ChangesAt
<1>5. ASSUME \A j \in Node : Avail(j)' = Avail(j) PROVE AvailOf' = AvailOf
  <2>1. \A j \in Node : AvailOf'[j] = AvailOf[j]
    BY <1>1, <1>5
  <2>2. QED
    BY <1>1, <2>1
<1>6. ASSUME \A j \in Node : WaitSnd(j)' = WaitSnd(j) PROVE WaitSndOf' = WaitSndOf
  <2>1. \A j \in Node : WaitSndOf'[j] = WaitSndOf[j]
    BY <1>2, <1>6
  <2>2. QED
    BY <1>2, <2>1
<1>7. QED
  BY <1>1, <1>2, <1>3, <1>4, <1>5, <1>6

\* A step of Kcp shows its connections a step of KcpUse.
LEMMA StepUses == IInv /\ IInv' /\ [Next]_vars => [Use!Next]_(Use!vars)
<1> SUFFICES ASSUME IInv, IInv', [Next]_vars PROVE [Use!Next]_(Use!vars)
  OBVIOUS
<1>1. Use!Node = Node
  BY DEF Use!Node, Node
<1>2. ASSUME NEW n \in Node, NEW len \in 1..MaxBytes[n], Send(n, len) PROVE Use!Next
  <2>1. len \in Nat
    BY KcpAssumption
  <2>2. /\ WaitSnd(n)' \in Nat /\ WaitSnd(n)' >= WaitSnd(n)
        /\ \A j \in Node \ {n} : WaitSnd(j)' = WaitSnd(j)
    BY <1>2, <2>1, SendWaits
  <2>3. \A j \in Node : Avail(j)' = Avail(j)
    BY <1>2 DEF Send, rcvVars, Avail, RunEnd
  <2>4. /\ WaitSndOf' = [WaitSndOf EXCEPT ![n] = WaitSndOf'[n]]
        /\ WaitSndOf'[n] \in Nat /\ WaitSndOf'[n] >= WaitSndOf[n]
        /\ AvailOf' = AvailOf
    BY <2>2, <2>3, UseChanges
  <2>5. Use!Write(n)
    BY <2>4 DEF Use!Write, AvailOf, WaitSndOf
  <2>6. QED
    BY <1>1, <2>5 DEF Use!Next
<1>3. ASSUME NEW n \in Node, NEW d \in net[n], Input(n, d) PROVE Use!Next
  <2>1. /\ WaitSnd(n)' \in 0..WaitSnd(n)
        /\ \A j \in Node \ {n} : WaitSnd(j)' = WaitSnd(j)
    BY <1>3, InputWaits
  <2>2. OthersRest(n)
    BY <1>3, InputTakes
  <2>3. PICK D \in SUBSET Nat, m \in Nat : Takes(n, D, m, Len(rcv_queue[n]))
    BY <1>3, InputTakes
  <2>4. Len(rcv_queue[n]) \in Nat
    <3>1. rcv_queue[n] \in Seq(Segment)
      BY DEF IInv, TypeOK
    <3>2. QED
      BY <3>1
  <2>5. Avail(n)' \in Avail(n)..(2 * RcvWnd)
    <3>1. PICK k \in Nat : k = Len(rcv_queue[n])
      BY <2>4
    <3>2. /\ Avail(n) \in Nat /\ Avail(n)' \in Nat /\ Avail(n)' <= 2 * RcvWnd
          /\ Avail(n)' >= Avail(n) + k - k
      BY <2>3, <3>1, TakesAvail
    <3>3. RcvWnd \in Nat
      BY KcpAssumption
    <3>4. QED
      BY <3>2, <3>3
  <2>6. \A j \in Node \ {n} : Avail(j)' = Avail(j)
    BY <2>2, OthersAvail
  <2>7. /\ WaitSndOf' = [WaitSndOf EXCEPT ![n] = WaitSndOf'[n]]
        /\ WaitSndOf'[n] \in 0..WaitSndOf[n]
        /\ AvailOf' = [AvailOf EXCEPT ![n] = AvailOf'[n]]
        /\ AvailOf'[n] \in AvailOf[n]..(2 * RcvWnd)
    BY <2>1, <2>5, <2>6, UseChanges
  <2>8. Use!Input(n)
    BY <2>7 DEF Use!Input, AvailOf, WaitSndOf
  <2>9. QED
    BY <1>1, <2>8 DEF Use!Next
<1>4. ASSUME NEW n \in Node, Recv(n) PROVE Use!Next
  <2>1. PICK m \in Nat, k \in Nat :
          k = Len(rcv_queue[n]) - 1 /\ Takes(n, DOMAIN rcv_buf[n], m, k)
    BY <1>4, RecvTakes
  <2>2. OthersRest(n)
    BY <1>4, RecvTakes
  <2>3. Len(rcv_queue[n]) \in Nat
    <3>1. rcv_queue[n] \in Seq(Segment)
      BY DEF IInv, TypeOK
    <3>2. QED
      BY <3>1
  <2>4. Avail(n) > 0 /\ Avail(n)' = Avail(n) - 1
    <3>1. PICK l \in Nat : l = Len(rcv_queue[n])
      BY <2>3
    <3>2. Avail(n) \in Nat /\ Avail(n)' \in Nat /\ Avail(n)' = Avail(n) + k - l /\ k = l - 1
      BY <2>1, <3>1, TakesAvail
    <3>3. QED
      BY <3>2
  <2>5. \A j \in Node \ {n} : Avail(j)' = Avail(j)
    BY <2>2, OthersAvail
  <2>6. \A j \in Node : WaitSnd(j)' = WaitSnd(j)
    BY <1>4 DEF Recv, sndVars, WaitSnd
  <2>7. /\ AvailOf' = [AvailOf EXCEPT ![n] = AvailOf'[n]]
        /\ AvailOf[n] > 0 /\ AvailOf'[n] = AvailOf[n] - 1
        /\ WaitSndOf' = WaitSndOf
    BY <2>4, <2>5, <2>6, UseChanges
  <2>8. AvailOf' = [AvailOf EXCEPT ![n] = @ - 1]
    BY <2>7
  <2>9. Use!Recv(n)
    BY <2>7, <2>8 DEF Use!Recv, AvailOf, WaitSndOf
  <2>10. QED
    BY <1>1, <2>9 DEF Use!Next
<1>5. ASSUME NEW n \in Node, NEW expired, NEW probes, Flush(n, expired, probes)
      PROVE UNCHANGED Use!vars
  <2>1. \A j \in Node : WaitSnd(j)' = WaitSnd(j)
    BY <1>5, FlushWaits
  <2>2. \A j \in Node : Avail(j)' = Avail(j)
    BY <1>5 DEF Flush, rcvVars, Avail, RunEnd
  <2>3. AvailOf' = AvailOf /\ WaitSndOf' = WaitSndOf
    BY <2>1, <2>2, UseChanges
  <2>4. QED
    BY <2>3 DEF Use!vars, AvailOf, WaitSndOf
<1>6. CASE UNCHANGED vars
  BY <1>6 DEF vars, sndVars, rcvVars, Use!vars, Avail, RunEnd, WaitSnd
<1>7. QED
  BY <1>2, <1>3, <1>4, <1>5, <1>6 DEF Next

\* Both numbers are zero when the endpoints are created.
LEMMA InitUses == Init => Use!Init
<1> SUFFICES ASSUME Init, NEW n \in Node PROVE Avail(n) = 0 /\ WaitSnd(n) = 0
  BY DEF Use!Init, Use!Node, Node
<1>1. Len(<<>>) = 0 /\ DOMAIN <<>> = {}
  OBVIOUS
<1>2. rcv_queue[n] = <<>> /\ rcv_nxt[n] = 0 /\ DOMAIN rcv_buf[n] = {}
  BY <1>1 DEF Init
<1>3. RunOf(0, {}) = 0
  <2>1. IsRun(0, {}, RunOf(0, {}))
    BY RunIs
  <2>2. RunOf(0, {}) \in Nat /\ ~(0 <= RunOf(0, {}) - 1)
    BY <2>1 DEF IsRun
  <2>3. QED
    BY <2>2
<1>4. RunEnd(n) = RunOf(0, {})
  BY <1>2 DEF RunEnd, RunOf
<1>5. Avail(n) = 0
  BY <1>1, <1>2, <1>3, <1>4 DEF Avail
<1>6. snd_queue[n] = <<>> /\ DOMAIN snd_buf[n] = {}
  BY <1>1 DEF Init
<1>7. WaitSnd(n) = 0
  BY <1>1, <1>6, FS_EmptySet DEF WaitSnd
<1>8. QED
  BY <1>5, <1>7

\* An ikcpcb in stream mode is to its connection what Connection takes it for: whatever
\* the network does, ikcp_recv returns all that follows without a gap, never more than two
\* windows of it, and only ikcp_send and acknowledgements change what ikcp_waitsnd returns.
THEOREM ServesConnection == Spec => UseSpec
<1>1. Spec => []IInv
  BY Invariance
<1>2. Init => Use!Init
  BY InitUses
<1>3. IInv /\ IInv' /\ [Next]_vars => [Use!Next]_(Use!vars)
  BY StepUses
<1>4. QED
  BY <1>1, <1>2, <1>3, PTL DEF Spec, UseSpec, Use!Spec

\* The read loops of connection stop when ikcp_recv fails: there is nothing they missed.
LEMMA NothingIsMissed == IInv /\ StreamInv => EmptyMeansNothing
<1> SUFFICES ASSUME IInv, StreamInv, NEW n \in Node, rcv_queue[n] = <<>> PROVE Avail(n) = 0
  BY DEF EmptyMeansNothing
<1>1. rcv_nxt[n] \in Nat /\ DOMAIN rcv_buf[n] \subseteq rcv_nxt[n]..(rcv_nxt[n] + RcvWnd - 1)
  BY DEF IInv, TypeOK, WindowsRespected
<1>2. Len(rcv_queue[n]) = 0
  OBVIOUS
<1>3. rcv_nxt[n] \notin DOMAIN rcv_buf[n]
  BY <1>2, KcpAssumption DEF StreamInv, NothingReadyWaits
<1>4. PICK e : e = RunEnd(n) /\ IsRun(rcv_nxt[n], DOMAIN rcv_buf[n], e)
  BY <1>1, RunIs DEF RunEnd, RunOf
<1>5. e \in Nat /\ rcv_nxt[n] <= e /\ (\A sn \in rcv_nxt[n]..(e - 1) : sn \in DOMAIN rcv_buf[n])
  BY <1>4 DEF IsRun
<1>6. e = rcv_nxt[n]
  <2>1. rcv_nxt[n] \notin rcv_nxt[n]..(e - 1)
    BY <1>3, <1>5
  <2>2. QED
    BY <1>1, <1>5, <2>1
<1>7. QED
  BY <1>1, <1>2, <1>4, <1>6 DEF Avail

\* With an empty rcv_queue ikcp_recv has nothing to return and nothing is readable, so a
\* read operation that fails to read may wait for the next datagram.
THEOREM EmptyQueueIsAll == Spec => []EmptyMeansNothing
<1>1. Spec => []IInv
  BY Invariance
<1>2. QED
  BY <1>1, StreamInvariance, NothingIsMissed, PTL
=============================================================================
