---------------------------- MODULE KcpRttProofs ----------------------------
(***************************************************************************)
(* Theorems about the round trip estimate, for every interval, every limit *)
(* of the timeout and every sequence of round trips.                       *)
(***************************************************************************)
EXTENDS KcpRtt, TLAPS

\* A truncated average of 7 parts srtt and 1 part rtt, rounded up to 1, is not less than
\* the smaller of the two and not more than the larger of them and 1.
LEMMA SmoothedBetween ==
  ASSUME NEW srtt \in Nat, NEW rtt \in Nat
  PROVE  /\ Smoothed(srtt, rtt) \in Nat
         /\ srtt <= Smoothed(srtt, rtt) \/ rtt <= Smoothed(srtt, rtt)
         /\ \/ Smoothed(srtt, rtt) <= Larger(srtt, 1)
            \/ Smoothed(srtt, rtt) <= Larger(rtt, 1)
BY DEF Smoothed, Larger

\* The variation is a natural number, and it has grown with the distance of the round
\* trip: that lies at most 3 beyond the estimate and four variations.
Near(srtt, rttval, rtt) == rtt <= srtt + 4 * rttval + 3

LEMMA VariedNear ==
  ASSUME NEW srtt \in Nat, NEW rttval \in Nat, NEW rtt \in Nat
  PROVE  /\ Varied(srtt, rttval, rtt) \in Nat
         /\ Near(Smoothed(srtt, rtt), Varied(srtt, rttval, rtt), rtt)
<1>1. Varied(srtt, rttval, rtt) \in Nat  BY DEF Varied, Deviation
<1>2. 4 * Varied(srtt, rttval, rtt) + 3 >= 3 * rttval + Deviation(rtt, srtt)
      BY DEF Varied, Deviation
<1>3. CASE rtt <= srtt
  <2>1. rtt <= Smoothed(srtt, rtt) /\ Smoothed(srtt, rtt) \in Nat
        BY <1>3 DEF Smoothed, Larger
  <2> QED  BY <1>1, <2>1 DEF Near
<1>4. CASE srtt < rtt
  <2>1. srtt <= Smoothed(srtt, rtt) /\ Smoothed(srtt, rtt) \in Nat
        BY <1>4 DEF Smoothed, Larger
  <2>2. Deviation(rtt, srtt) = rtt - srtt  BY <1>4 DEF Deviation
  <2> QED  BY <1>1, <1>2, <2>1, <2>2 DEF Near
<1> QED  BY <1>3, <1>4

\* A round trip that was near, measured once more, is less than the timeout allows for.
LEMMA NearTwice ==
  ASSUME NEW srtt \in Nat, NEW rttval \in Nat, NEW rtt \in Nat, Near(srtt, rttval, rtt)
  PROVE  rtt < Smoothed(srtt, rtt) + Larger(rtt_interval, 4 * Varied(srtt, rttval, rtt))
<1>1. /\ rtt_interval \in Nat /\ rtt_interval >= 8  BY RttAssumption
<1>2. Varied(srtt, rttval, rtt) \in Nat  BY VariedNear
<1>3. Smoothed(srtt, rtt) \in Nat  BY SmoothedBetween
<1>4. 4 * Varied(srtt, rttval, rtt) + 3 >= 3 * rttval + Deviation(rtt, srtt)
      BY DEF Varied, Deviation
<1>5. CASE rtt < srtt + 8
  <2>1. rtt < Smoothed(srtt, rtt) + 8  BY <1>5 DEF Smoothed, Larger
  <2> QED  BY <1>1, <1>2, <1>3, <2>1 DEF Larger
<1>6. CASE srtt + 8 <= rtt
  <2>1. Smoothed(srtt, rtt) >= srtt + 1  BY <1>6 DEF Smoothed, Larger
  <2>2. Deviation(rtt, srtt) = rtt - srtt  BY <1>6 DEF Deviation
  <2>3. rttval >= 2  BY <1>6 DEF Near
  <2>4. 4 * Varied(srtt, rttval, rtt) >= 3 + (rtt - srtt)  BY <1>2, <1>4, <2>2, <2>3
  <2> QED  BY <1>1, <1>2, <1>3, <2>1, <2>4 DEF Larger
<1> QED  BY <1>5, <1>6

-----------------------------------------------------------------------------
Rx == [rx_srtt : Nat, rx_rttval : Nat, rx_rto : rx_minrto..IKCP_RTO_MAX]

\* The parts of an estimate are natural numbers.
LEMMA Parts ==
  ASSUME NEW r, r \in Rx
  PROVE  /\ r.rx_srtt \in Nat /\ r.rx_rttval \in Nat
         /\ r.rx_rto \in rx_minrto..IKCP_RTO_MAX
BY DEF Rx

\* The timeout keeps its limits, and is interval above the smoothed round trip unless
\* that exceeds the largest timeout.
LEMMA TimeoutBounds ==
  ASSUME NEW srtt \in Nat, NEW rttval \in Nat
  PROVE  /\ Timeout_(srtt, rttval) \in rx_minrto..IKCP_RTO_MAX
         /\ Timeout_(srtt, rttval) >= Smaller(srtt + rtt_interval, IKCP_RTO_MAX)
         /\ \A r \in Nat :
              (r < IKCP_RTO_MAX /\ r < srtt + Larger(rtt_interval, 4 * rttval))
                => r < Timeout_(srtt, rttval)
BY RttAssumption DEF Timeout_, Bounded, Larger, Smaller

\* What ikcp_update_ack makes of an estimate.
LEMMA UpdateAckParts ==
  ASSUME NEW r, r \in Rx, NEW rtt \in Nat
  PROVE  LET u == UpdateAck(r, rtt)
         IN /\ u \in Rx
            /\ u.rx_rto = Timeout_(u.rx_srtt, u.rx_rttval)
            /\ r.rx_srtt = 0 => u.rx_srtt = rtt
            /\ r.rx_srtt # 0 => /\ u.rx_srtt = Smoothed(r.rx_srtt, rtt)
                                /\ u.rx_rttval = Varied(r.rx_srtt, r.rx_rttval, rtt)
<1> DEFINE srtt   == IF r.rx_srtt = 0 THEN rtt ELSE Smoothed(r.rx_srtt, rtt)
           rttval == IF r.rx_srtt = 0 THEN rtt \div 2
                     ELSE Varied(r.rx_srtt, r.rx_rttval, rtt)
<1>1. r.rx_srtt \in Nat /\ r.rx_rttval \in Nat  BY Parts
<1>2. srtt \in Nat  BY <1>1, SmoothedBetween
<1>3. rttval \in Nat
  <2>1. Varied(r.rx_srtt, r.rx_rttval, rtt) \in Nat  BY <1>1, VariedNear, Zenon
  <2>2. rtt \div 2 \in Nat  OBVIOUS
  <2> QED  BY <2>1, <2>2
<1>4. UpdateAck(r, rtt) =
        [rx_srtt |-> srtt, rx_rttval |-> rttval, rx_rto |-> Timeout_(srtt, rttval)]
      BY DEF UpdateAck
<1>5. /\ r.rx_srtt = 0 => srtt = rtt
      /\ r.rx_srtt # 0 => /\ srtt = Smoothed(r.rx_srtt, rtt)
                          /\ rttval = Varied(r.rx_srtt, r.rx_rttval, rtt)
      OBVIOUS
<1> HIDE DEF srtt, rttval
<1> QED  BY <1>2, <1>3, <1>4, <1>5, TimeoutBounds DEF Rx

-----------------------------------------------------------------------------
\* Before the first round trip nothing is estimated.  Afterwards the timeout is that of
\* the estimate, and the last round trip was near; once it was measured twice the timeout
\* is above it.  This makes the properties inductive.
RttInv ==
  /\ RttTypeOK
  /\ count = 0 => rx.rx_srtt = 0
  /\ count > 0 => /\ rx.rx_rto = Timeout_(rx.rx_srtt, rx.rx_rttval)
                  /\ Near(rx.rx_srtt, rx.rx_rttval, last)
  /\ SrttBetweenTrips
  /\ RtoCatchesUp

LEMMA RttInitInv == RttInit => RttInv
BY RttAssumption
   DEF RttInit, RttInv, RttTypeOK, Unmeasured, SrttBetweenTrips, RtoCatchesUp

\* One more round trip: the smoothed round trip lies between this one and those that
\* were there before.
LEMMA MeasureBetween ==
  ASSUME RttInv, NEW rtt \in Trip, Measure(rtt)
  PROVE  SrttBetweenTrips'
<1> USE RttAssumption
<1>1. /\ rx \in Rx
      /\ rtt \in Nat /\ trips \subseteq Nat /\ count \in Nat /\ rx.rx_srtt \in Nat
      BY Parts DEF RttInv, RttTypeOK, Rx
<1>2. rx' = UpdateAck(rx, rtt) /\ trips' = trips \cup {rtt}  BY DEF Measure
<1>3. CASE rx.rx_srtt = 0
  <2>1. rx'.rx_srtt = rtt  BY <1>1, <1>2, <1>3, UpdateAckParts
  <2>2. rtt <= rx'.rx_srtt /\ rx'.rx_srtt <= Larger(rtt, 1)  BY <1>1, <2>1 DEF Larger
  <2> QED  BY <1>2, <2>2 DEF SrttBetweenTrips
<1>4. CASE rx.rx_srtt # 0
  <2>1. rx'.rx_srtt = Smoothed(rx.rx_srtt, rtt)  BY <1>1, <1>2, <1>4, UpdateAckParts
  <2>2. count > 0  BY <1>1, <1>4 DEF RttInv
  <2>3. PICK lo \in trips, hi \in trips :
          lo <= rx.rx_srtt /\ rx.rx_srtt <= Larger(hi, 1)
        BY <2>2 DEF RttInv, SrttBetweenTrips
  <2>4. /\ Smoothed(rx.rx_srtt, rtt) \in Nat
        /\ \/ rx.rx_srtt <= Smoothed(rx.rx_srtt, rtt)
           \/ rtt <= Smoothed(rx.rx_srtt, rtt)
        /\ \/ Smoothed(rx.rx_srtt, rtt) <= Larger(rx.rx_srtt, 1)
           \/ Smoothed(rx.rx_srtt, rtt) <= Larger(rtt, 1)
        BY <1>1, SmoothedBetween
  <2>5. \E l \in trips' : l <= rx'.rx_srtt
    <3>1. lo <= Smoothed(rx.rx_srtt, rtt) \/ rtt <= Smoothed(rx.rx_srtt, rtt)
          BY <1>1, <2>3, <2>4
    <3> QED  BY <1>2, <2>1, <3>1
  <2>6. \E h \in trips' : rx'.rx_srtt <= Larger(h, 1)
    <3>1. Larger(rx.rx_srtt, 1) <= Larger(hi, 1)  BY <1>1, <2>3 DEF Larger
    <3>2. \/ Smoothed(rx.rx_srtt, rtt) <= Larger(hi, 1)
          \/ Smoothed(rx.rx_srtt, rtt) <= Larger(rtt, 1)
          BY <1>1, <2>3, <2>4, <3>1 DEF Larger
    <3> QED  BY <1>2, <2>1, <3>2
  <2> QED  BY <2>5, <2>6 DEF SrttBetweenTrips
<1> QED  BY <1>3, <1>4

\* One more round trip is near afterwards; when it is the last one again the timeout is
\* above it.
LEMMA MeasureNear ==
  ASSUME RttInv, NEW rtt \in Trip, Measure(rtt)
  PROVE  Near(rx'.rx_srtt, rx'.rx_rttval, rtt) /\ RtoCatchesUp'
<1>1. /\ rx \in Rx /\ rx.rx_srtt \in Nat /\ rx.rx_rttval \in Nat
      /\ rtt \in Nat /\ count \in Nat /\ MaxFree \in Nat \ {0} /\ IKCP_RTO_MAX \in Nat
      /\ rtt_interval \in Nat /\ rtt_interval >= 8
      BY Parts, RttAssumption DEF RttInv, RttTypeOK, Rx
<1>2. /\ rx' = UpdateAck(rx, rtt) /\ count' = count + 1 /\ last' = rtt
      /\ count >= MaxFree => rtt = last
      BY DEF Measure
<1>3. rx' \in Rx /\ rx'.rx_rto = Timeout_(rx'.rx_srtt, rx'.rx_rttval)
      BY <1>1, <1>2, UpdateAckParts
<1>4. rx'.rx_srtt \in Nat /\ rx'.rx_rttval \in Nat  BY <1>3, Parts
<1>5. ASSUME rtt < rx'.rx_srtt + Larger(rtt_interval, 4 * rx'.rx_rttval)
      PROVE  RtoCatchesUp'
      BY <1>1, <1>2, <1>3, <1>4, <1>5, TimeoutBounds DEF RtoCatchesUp
<1>6. CASE rx.rx_srtt = 0
  <2>1. rx'.rx_srtt = rtt  BY <1>1, <1>2, <1>6, UpdateAckParts
  <2>2. Near(rx'.rx_srtt, rx'.rx_rttval, rtt)  BY <1>1, <1>4, <2>1 DEF Near
  <2>3. rtt < rx'.rx_srtt + Larger(rtt_interval, 4 * rx'.rx_rttval)
        BY <1>1, <1>4, <2>1 DEF Larger
  <2> QED  BY <1>5, <2>2, <2>3
<1>7. CASE rx.rx_srtt # 0
  <2>1. /\ rx'.rx_srtt = Smoothed(rx.rx_srtt, rtt)
        /\ rx'.rx_rttval = Varied(rx.rx_srtt, rx.rx_rttval, rtt)
        BY <1>1, <1>2, <1>7, UpdateAckParts
  <2>2. Near(rx'.rx_srtt, rx'.rx_rttval, rtt)
    <3>1. Near(Smoothed(rx.rx_srtt, rtt), Varied(rx.rx_srtt, rx.rx_rttval, rtt), rtt)
          BY <1>1, VariedNear, Zenon
    <3> QED  BY <2>1, <3>1, Zenon
  <2>3. CASE count >= MaxFree
    <3>1. Near(rx.rx_srtt, rx.rx_rttval, rtt)  BY <1>1, <1>2, <2>3 DEF RttInv
    <3>2. rtt < rx'.rx_srtt + Larger(rtt_interval, 4 * rx'.rx_rttval)
          BY <1>1, <2>1, <3>1, NearTwice
    <3> QED  BY <1>5, <2>2, <3>2
  <2>4. CASE count < MaxFree
    <3>1. ~(count' > MaxFree)  BY <1>1, <1>2, <2>4
    <3> QED  BY <2>2, <3>1 DEF RtoCatchesUp
  <2> QED  BY <1>1, <2>3, <2>4
<1> QED  BY <1>6, <1>7

LEMMA RttStepInv == RttInv /\ [RttNext]_rttVars => RttInv'
<1> SUFFICES ASSUME RttInv, [RttNext]_rttVars PROVE RttInv'
    OBVIOUS
<1>1. CASE UNCHANGED rttVars
      BY <1>1 DEF RttInv, RttTypeOK, SrttBetweenTrips, RtoCatchesUp, rttVars
<1>2. ASSUME NEW rtt \in Trip, Measure(rtt) PROVE RttInv'
  <2>1. rx \in Rx /\ rtt \in Nat /\ count \in Nat
        BY RttAssumption DEF RttInv, RttTypeOK, Rx
  <2>2. rx' = UpdateAck(rx, rtt) /\ count' = count + 1 /\ last' = rtt  BY <1>2 DEF Measure
  <2>3. RttTypeOK'
        BY <1>2, <2>1, <2>2, UpdateAckParts DEF RttInv, RttTypeOK, Measure, Rx
  <2>4. rx'.rx_rto = Timeout_(rx'.rx_srtt, rx'.rx_rttval)
        BY <2>1, <2>2, UpdateAckParts
  <2>5. SrttBetweenTrips'  BY <1>2, MeasureBetween
  <2>6. Near(rx'.rx_srtt, rx'.rx_rttval, last') /\ RtoCatchesUp'
        BY <1>2, <2>2, MeasureNear
  <2> QED  BY <2>1, <2>2, <2>3, <2>4, <2>5, <2>6 DEF RttInv
<1> QED  BY <1>1, <1>2 DEF RttNext

LEMMA RttInvariant == RttSpec => []RttInv
BY RttInitInv, RttStepInv, PTL DEF RttSpec

-----------------------------------------------------------------------------
\* The estimate of ikcp_update_ack keeps its types, and rx_rto the limits that
\* _ibound_ is given.
THEOREM RttTypeCorrect == RttSpec => []RttTypeOK
<1>1. RttInv => RttTypeOK  BY DEF RttInv
<1> QED  BY RttInvariant, <1>1, PTL

\* The smoothed round trip of ikcp_update_ack stays between measured round trips.
THEOREM SrttStaysBetween == RttSpec => []SrttBetweenTrips
<1>1. RttInv => SrttBetweenTrips  BY DEF RttInv
<1> QED  BY RttInvariant, <1>1, PTL

\* The retransmission timeout never falls below the quickest round trip and interval.
THEOREM RtoStaysAbove == RttSpec => []RtoCoversATrip
<1>1. ASSUME RttInv PROVE RtoCoversATrip
  <2> SUFFICES ASSUME count > 0
               PROVE  \E lo \in trips : rx.rx_rto >= Smaller(lo + rtt_interval, IKCP_RTO_MAX)
      BY DEF RtoCoversATrip
  <2>1. PICK lo \in trips : lo <= rx.rx_srtt  BY <1>1 DEF RttInv, SrttBetweenTrips
  <2>2. /\ lo \in Nat /\ rx.rx_srtt \in Nat /\ rx.rx_rttval \in Nat
        /\ rtt_interval \in Nat /\ IKCP_RTO_MAX \in Nat /\ rx_minrto \in Nat
        BY <1>1, RttAssumption, Parts DEF RttInv, RttTypeOK, Rx
  <2>3. rx.rx_rto = Timeout_(rx.rx_srtt, rx.rx_rttval)  BY <1>1 DEF RttInv
  <2>4. /\ rx.rx_rto >= Smaller(rx.rx_srtt + rtt_interval, IKCP_RTO_MAX)
        /\ rx.rx_rto \in rx_minrto..IKCP_RTO_MAX
        BY <2>2, <2>3, TimeoutBounds
  <2>5. rx.rx_rto >= Smaller(lo + rtt_interval, IKCP_RTO_MAX)
        BY <2>1, <2>2, <2>4 DEF Smaller
  <2> QED  BY <2>5
<1> QED  BY RttInvariant, <1>1, PTL

\* When the round trip stays the same the timeout rises above it at once and for good,
\* whatever was measured before.
THEOREM RtoStaysAhead == RttSpec => []RtoCatchesUp
<1>1. RttInv => RtoCatchesUp  BY DEF RttInv
<1> QED  BY RttInvariant, <1>1, PTL
=============================================================================
