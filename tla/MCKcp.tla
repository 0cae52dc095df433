------------------------------- MODULE MCKcp -------------------------------
(***************************************************************************)
(* Instances of Kcp for TLC.                                               *)
(***************************************************************************)
EXTENDS Kcp

\* The client writes, the server only acknowledges.
OneWay == [client |-> 3, server |-> 0]

\* The client writes enough for segments to be filled and for ikcp_send to refuse.
Bulk == [client |-> 5, server |-> 0]

\* Both write.
TwoWay == [client |-> 2, server |-> 1]

\* The client writes more than the receiver holds.
Flood == [client |-> 2, server |-> 0]
=============================================================================
