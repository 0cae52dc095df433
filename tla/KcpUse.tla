------------------------------- MODULE KcpUse -------------------------------
(***************************************************************************)
(* What moon::kcp::connection takes an ikcpcb for: two numbers.  avail is  *)
(* how many segments ikcp_recv returns before it returns an error, waitsnd *)
(* what ikcp_waitsnd returns.  Connection is written over these numbers,   *)
(* of one end; here are those of both ends.                                *)
(***************************************************************************)
EXTENDS Naturals

CONSTANT MaxAvail  \* the segments that can be read never exceed this

Node == {"client", "server"}

VARIABLES avail, waitsnd

Init ==
  /\ avail = [n \in Node |-> 0]
  /\ waitsnd = [n \in Node |-> 0]

\* ikcp_send makes more wait, and nothing readable.
Write(n) ==
  /\ waitsnd'[n] \in Nat /\ waitsnd'[n] >= waitsnd[n]
  /\ waitsnd' = [waitsnd EXCEPT ![n] = waitsnd'[n]]
  /\ UNCHANGED avail

\* ikcp_input makes more readable and fewer wait.
Input(n) ==
  /\ avail'[n] \in avail[n]..MaxAvail
  /\ waitsnd'[n] \in 0..waitsnd[n]
  /\ avail' = [avail EXCEPT ![n] = avail'[n]]
  /\ waitsnd' = [waitsnd EXCEPT ![n] = waitsnd'[n]]

\* ikcp_recv takes one segment.
Recv(n) ==
  /\ avail[n] > 0
  /\ avail' = [avail EXCEPT ![n] = @ - 1]
  /\ UNCHANGED waitsnd

Next == \E n \in Node : Write(n) \/ Input(n) \/ Recv(n)

vars == <<avail, waitsnd>>

Spec == Init /\ [][Next]_vars
=============================================================================
