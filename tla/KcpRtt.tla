------------------------------- MODULE KcpRtt -------------------------------
(***************************************************************************)
(* The round trip estimate of 3rd/kcp/ikcp.c: ikcp_update_ack, which turns *)
(* the round trips of acknowledged segments into the retransmission        *)
(* timeout.  Divisions truncate as in C; a round trip is never negative    *)
(* here, because ikcp_input measures it only when it is not.               *)
(*                                                                         *)
(* The clock that round trips are measured with is ikcpcb.current, the     *)
(* time of the last ikcp_update: a fast path has round trips of 0.  After  *)
(* MaxFree round trips the path is steady.                                 *)
(***************************************************************************)
EXTENDS Integers

CONSTANTS
  rtt_interval,  \* interval of the ikcpcb
  rx_minrto,     \* rx_minrto, which init_kcp_context sets
  IKCP_RTO_DEF, IKCP_RTO_MAX,
  Trip,          \* round trips of the path
  MaxFree,       \* bound: round trips that are measured before the path is steady
  Settling       \* bound: round trips that are measured on the steady path

ASSUME RttAssumption ==
  /\ {rtt_interval, rx_minrto, IKCP_RTO_DEF, IKCP_RTO_MAX} \subseteq Nat
  /\ rtt_interval >= 8   \* ikcp_nodelay sets no less than 10
  /\ rx_minrto <= IKCP_RTO_DEF /\ IKCP_RTO_DEF <= IKCP_RTO_MAX
  /\ Trip \subseteq Nat
  /\ MaxFree \in Nat \ {0} /\ Settling \in Nat

VARIABLES
  rx,     \* rx_srtt, rx_rttval, rx_rto
  trips,  \* history: the round trips that were measured
  last,   \* history: the last of them
  count   \* history: how many they were

rttVars == <<rx, trips, last, count>>

\* The estimate of a new ikcpcb.
Unmeasured == [rx_srtt |-> 0, rx_rttval |-> 0, rx_rto |-> IKCP_RTO_DEF]

RttInit == rx = Unmeasured /\ trips = {} /\ last = 0 /\ count = 0

Larger(a, b)  == IF a >= b THEN a ELSE b
Smaller(a, b) == IF a <= b THEN a ELSE b

\* _ibound_
Bounded(lower, middle, upper) == Smaller(Larger(lower, middle), upper)

\* Mutant: nothing is added for the interval.
TimeoutNoInterval(srtt, rttval) == Bounded(rx_minrto, srtt + 4 * rttval, IKCP_RTO_MAX)

\* Mutant: the deviation counts once, and the interval not at all.
TimeoutTight(srtt, rttval) == Bounded(rx_minrto, srtt + rttval, IKCP_RTO_MAX)

\* rx_rto
Timeout_(srtt, rttval) ==
  Bounded(rx_minrto, srtt + Larger(rtt_interval, 4 * rttval), IKCP_RTO_MAX)

Deviation(a, b) == IF a < b THEN b - a ELSE a - b

\* Mutant: the new sample is added and the old estimate is not reduced for it.
SmoothedSum(srtt, rtt) == Larger((8 * srtt + rtt) \div 8, 1)

\* rx_srtt after one more round trip.
Smoothed(srtt, rtt) == Larger((7 * srtt + rtt) \div 8, 1)

\* rx_rttval after one more round trip.
Varied(srtt, rttval, rtt) == (3 * rttval + Deviation(rtt, srtt)) \div 4

\* ikcp_update_ack.  An estimate of 0 counts as no estimate.
UpdateAck(r, rtt) ==
  LET srtt   == IF r.rx_srtt = 0 THEN rtt ELSE Smoothed(r.rx_srtt, rtt)
      rttval == IF r.rx_srtt = 0 THEN rtt \div 2
                ELSE Varied(r.rx_srtt, r.rx_rttval, rtt)
  IN [rx_srtt |-> srtt, rx_rttval |-> rttval, rx_rto |-> Timeout_(srtt, rttval)]

\* An acknowledgement that took rtt.
Measure(rtt) ==
  /\ count < MaxFree + Settling
  /\ count >= MaxFree => rtt = last
  /\ rx' = UpdateAck(rx, rtt)
  /\ trips' = trips \cup {rtt} /\ last' = rtt /\ count' = count + 1

RttNext == \E rtt \in Trip : Measure(rtt)

RttSpec == RttInit /\ [][RttNext]_rttVars
-----------------------------------------------------------------------------
(* Correctness.                                                            *)

\* Types, and the limits of the timeout.
RttTypeOK ==
  /\ rx \in [rx_srtt : Nat, rx_rttval : Nat, rx_rto : rx_minrto..IKCP_RTO_MAX]
  /\ trips \in SUBSET Trip /\ last \in Nat /\ count \in Nat

\* However the divisions truncate, the smoothed round trip stays between round trips
\* that were measured; once measured it can be rounded up to 1.
SrttBetweenTrips ==
  count > 0 =>
    \E lo, hi \in trips : lo <= rx.rx_srtt /\ rx.rx_srtt <= Larger(hi, 1)

\* The timeout leaves one of the round trips, so the quickest, time to finish, and
\* interval more for the acknowledgement to wait in: on a steady path, however short,
\* nothing is resent needlessly.
RtoCoversATrip ==
  count > 0 =>
    \E lo \in trips : rx.rx_rto >= Smaller(lo + rtt_interval, IKCP_RTO_MAX)

\* When a path becomes slower for good the timeout catches up with it, and stays ahead
\* of it although the truncated average stays behind.
RtoCatchesUp ==
  (count > MaxFree /\ last < IKCP_RTO_MAX) => rx.rx_rto > last
=============================================================================
