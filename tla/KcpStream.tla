----------------------------- MODULE KcpStream -----------------------------
(***************************************************************************)
(* What two KCP endpoints in stream mode promise their users: a reliable   *)
(* byte stream in each direction.  A byte is named by its position in the  *)
(* stream of its writer, so <<0, 1, 2>> is a reader that has read the      *)
(* first three bytes its peer wrote, each once and in order.               *)
(***************************************************************************)
EXTENDS Naturals, Sequences

Node == {"client", "server"}
Peer(n) == IF n = "client" THEN "server" ELSE "client"

VARIABLES
  sent,  \* sent[n]: the number of bytes n wrote
  got    \* got[n]: the bytes n read

Init ==
  /\ sent = [n \in Node |-> 0]
  /\ got = [n \in Node |-> <<>>]

\* n writes some bytes.
Write(n) ==
  /\ sent'[n] \in Nat /\ sent'[n] >= sent[n]
  /\ sent' = [sent EXCEPT ![n] = sent'[n]]
  /\ UNCHANGED got

\* n reads the next k of the bytes its peer wrote.
Read(n) ==
  /\ \E k \in 0..(sent[Peer(n)] - Len(got[n])) :
       got' = [got EXCEPT ![n] = @ \o [i \in 1..k |-> Len(got[n]) + i - 1]]
  /\ UNCHANGED sent

Next == \E n \in Node : Write(n) \/ Read(n)

vars == <<sent, got>>

Spec == Init /\ [][Next]_vars
=============================================================================
