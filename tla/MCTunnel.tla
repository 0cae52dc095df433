------------------------------ MODULE MCTunnel ------------------------------
(***************************************************************************)
(* Instances of Tunnel for TLC.                                            *)
(***************************************************************************)
EXTENDS Tunnel

\* The entry's TCP peer sends more than the tunnel holds, the exit's answers.
Units == [entry |-> 4, exit |-> 1]
=============================================================================
