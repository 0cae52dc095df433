----------------------------- MODULE MCKcpClock -----------------------------
(***************************************************************************)
(* The times of KCP for TLC: KcpClock with a narrow clock, and KcpRtt with *)
(* the constants of the code.  The two share no state, so it is enough to  *)
(* explore each of them from the start of the other.                       *)
(***************************************************************************)
EXTENDS KcpClock, KcpRtt

\* Round trips in milliseconds: of a local path, of a slow one, and one beyond the
\* largest timeout.
Trips == {0, 1, 2, 5, 9, 10, 40, 300, 70000}

\* The clock starts a little before the first wrap.
MCInit == Init /\ RttInit /\ now >= W - 3

MCNext ==
  \/ RttInit /\ Next /\ UNCHANGED rttVars
  \/ Init /\ now = W - 1 /\ RttNext /\ UNCHANGED vars

MCSpec == MCInit /\ [][MCNext]_<<vars, rttVars>>
=============================================================================
