------------------------------- MODULE Tunnel -------------------------------
(***************************************************************************)
(* One session of example/tcp_over_kcp.cpp: a TCP connection that the      *)
(* entry (mode tcp2kcp) accepted, a KCP connection to the exit (mode       *)
(* kcp2tcp), and the TCP connection the exit makes to the remote endpoint. *)
(* Each end runs two coroutines, tcp2kcp and kcp2tcp, that share the two   *)
(* sockets and stop each other by closing them.                            *)
(*                                                                         *)
(* The KCP connection is what modules Connection and Kcp promise: a        *)
(* reliable stream while both ends keep it, operations that complete once, *)
(* close that aborts the stored ones.  A unit of data is what one read     *)
(* returns.  With Perfect the disconnect never overtakes data, nothing     *)
(* sent is lost and nothing times out.                                     *)
(***************************************************************************)
EXTENDS Naturals

CONSTANTS
  MaxUnits,                \* bound: units each TCP peer sends
  idle_send_packet_count,  \* units that may be unacknowledged when a write completes
  RcvWnd,                  \* units that a KCP connection holds for its reader
  TryTimes,                \* try_times of the entry
  Perfect                  \* whether network and peers are at their best

Node == {"entry", "exit"}
Peer(n) == IF n = "entry" THEN "exit" ELSE "entry"

ASSUME TunnelAssumption ==
  /\ MaxUnits \in [Node -> Nat]
  /\ idle_send_packet_count \in Nat /\ RcvWnd \in Nat \ {0}
  /\ TryTimes \in Nat \ {0}
  /\ Perfect \in BOOLEAN

VARIABLES
  tries,    \* connects that failed in the entry's loop, while it runs
  kcp,      \* state_ of the KCP connection of a node; "erased" when the acceptor dropped it
  tcp,      \* whether the TCP socket of a node is open
  remote,   \* the other end of that TCP connection: "up", "eof", "reset"
  tcp2kcp,  \* where the coroutine tcp2kcp of a node is
  kcp2tcp,  \* where the coroutine kcp2tcp of a node is
  sent,     \* history: units the TCP peer of a node sent
  taken,    \* history: units tcp2kcp read
  given,    \* history: units kcp2tcp wrote
  sndq,     \* units of a node that its peer did not receive
  rcvq,     \* units that wait for kcp2tcp of a node
  bye       \* whether a disconnect of a node is on its way

tcpVars  == <<tcp, remote, sent>>
kcpVars  == <<kcp, sndq, rcvq, bye>>
vars == <<tries, tcpVars, kcpVars, tcp2kcp, kcp2tcp, taken, given>>

Init ==
  /\ tries = 0
  /\ kcp = [n \in Node |-> "none"]
  /\ tcp = [n \in Node |-> IF n = "entry" THEN "open" ELSE "none"]
  /\ remote = [n \in Node |-> "up"]
  /\ tcp2kcp = [n \in Node |-> "off"] /\ kcp2tcp = [n \in Node |-> "off"]
  /\ sent = [n \in Node |-> 0]
  /\ taken = [n \in Node |-> 0] /\ given = [n \in Node |-> 0]
  /\ sndq = [n \in Node |-> 0] /\ rcvq = [n \in Node |-> 0]
  /\ bye = [n \in Node |-> FALSE]
-----------------------------------------------------------------------------
(* How the coroutines stop each other.                                     *)

\* A coroutine in "read" or "write" waits for its own socket: tcp2kcp reads TCP and
\* writes KCP, kcp2tcp reads KCP and writes TCP.  "written" is a write that succeeded
\* at once, "aborted" an operation that failed: their completions are queued.
OnKcp(n, c) == IF c = "tcp2kcp" THEN tcp2kcp[n] = "write" ELSE kcp2tcp[n] = "read"
OnTcp(n, c) == IF c = "tcp2kcp" THEN tcp2kcp[n] = "read" ELSE kcp2tcp[n] = "write"

Coroutine == {"tcp2kcp", "kcp2tcp"}
At(n, c)  == IF c = "tcp2kcp" THEN tcp2kcp[n] ELSE kcp2tcp[n]

\* Where coroutine c of n is after the coroutines of C ended by their exceptions, and
\* those that close of the KCP connection aborted, if closes.  Each closes TCP.
After(n, c, C, closes) ==
  IF c \in C \/ (closes /\ OnKcp(n, c)) THEN "done"
  ELSE IF OnTcp(n, c) /\ (C # {} \/ (closes /\ \E o \in Coroutine : OnKcp(n, o)))
       THEN "aborted"
  ELSE At(n, c)

\* Mutant: the coroutine that ends does not close TCP.
EndsKeepsTcp(n, C, closes) ==
  /\ tcp2kcp' = [tcp2kcp EXCEPT ![n] =
       IF "tcp2kcp" \in C \/ (closes /\ OnKcp(n, "tcp2kcp")) THEN "done" ELSE @]
  /\ kcp2tcp' = [kcp2tcp EXCEPT ![n] =
       IF "kcp2tcp" \in C \/ (closes /\ OnKcp(n, "kcp2tcp")) THEN "done" ELSE @]
  /\ UNCHANGED tcp

\* The coroutines of C end, and those that are aborted inline.
Ends(n, C, closes) ==
  /\ tcp2kcp' = [tcp2kcp EXCEPT ![n] = After(n, "tcp2kcp", C, closes)]
  /\ kcp2tcp' = [kcp2tcp EXCEPT ![n] = After(n, "kcp2tcp", C, closes)]
  /\ tcp' = [tcp EXCEPT ![n] =
       IF C # {} \/ (closes /\ \E o \in Coroutine : OnKcp(n, o)) THEN "closed" ELSE @]

\* connection::close: only an opened connection is closed.
Closes(n) == kcp[n] = "opened"

\* The catch block of coroutine c of n.
Catch(n, c) ==
  /\ Ends(n, {c}, Closes(n))
  /\ kcp' = [kcp EXCEPT ![n] = IF Closes(n) THEN "closed" ELSE @]
  /\ bye' = [bye EXCEPT ![n] = @ \/ Closes(n)]
  /\ UNCHANGED <<tries, remote, sent, taken, given, sndq, rcvq>>

\* The completion of an operation that failed.
Aborted(n) == \E c \in Coroutine : At(n, c) = "aborted" /\ Catch(n, c)
-----------------------------------------------------------------------------
(* start_pipe of both modes.                                               *)

\* Mutant: a closed connection takes a read.
KcpReadPcUnchecked(n) == "read"

\* kcp2tcp that starts to read KCP: a closed connection refuses.
KcpReadPc(n) == IF kcp[n] = "closed" THEN "aborted" ELSE "read"

\* The entry's connect succeeds, its loop ends, and both its pipes start; the exit accepts
\* and starts to connect.
Connect ==
  /\ kcp["entry"] = "none" /\ tcp["entry"] = "open"
  /\ kcp' = [n \in Node |-> IF n = "entry" THEN "opened" ELSE "idle"]
  /\ tcp2kcp' = [tcp2kcp EXCEPT !["entry"] = "read"]
  /\ kcp2tcp' = [kcp2tcp EXCEPT !["entry"] = "read"]
  /\ tries' = 0
  /\ UNCHANGED <<tcpVars, sndq, rcvq, bye, taken, given>>

\* remote_endpoint may throw once the TCP peer was reset: start_pipe ends without a catch
\* and drops the socket.
EndpointThrows == remote["entry"] = "reset" /\ tcp' = [tcp EXCEPT !["entry"] = "closed"]

\* The connect succeeds and start_pipe throws before it starts the pipes.  Nobody closes
\* the KCP connection: its timer and its receive keep it until it times out.
ConnectThrows ==
  /\ kcp["entry"] = "none" /\ tcp["entry"] = "open"
  /\ EndpointThrows
  /\ kcp' = [n \in Node |-> IF n = "entry" THEN "opened" ELSE "idle"]
  /\ tries' = 0
  /\ UNCHANGED <<remote, sent, sndq, rcvq, bye, tcp2kcp, kcp2tcp, taken, given>>

\* A connect of the entry fails or takes too long: it tries again, and after the last the
\* socket is dropped.
ConnectFails ==
  /\ kcp["entry"] = "none" /\ tcp["entry"] = "open" /\ tries < TryTimes
  /\ tries' = tries + 1
  /\ \/ tries' < TryTimes /\ UNCHANGED tcp
     \/ tries' = TryTimes /\ tcp' = [tcp EXCEPT !["entry"] = "closed"]
     \/ EndpointThrows
  /\ UNCHANGED <<remote, sent, kcpVars, tcp2kcp, kcp2tcp, taken, given>>

\* The exit has its TCP connection and starts both pipes.
ExitConnected ==
  /\ kcp["exit"] # "none" /\ tcp["exit"] = "none"
  /\ tcp' = [tcp EXCEPT !["exit"] = "open"]
  /\ kcp2tcp' = [kcp2tcp EXCEPT !["exit"] = KcpReadPc("exit")]
  /\ tcp2kcp' = [tcp2kcp EXCEPT !["exit"] = "read"]
  /\ UNCHANGED <<tries, remote, sent, kcpVars, taken, given>>

\* The exit cannot connect.  Its KCP connection is not closed.
ExitConnectFails ==
  /\ ~Perfect
  /\ kcp["exit"] # "none" /\ tcp["exit"] = "none"
  /\ tcp' = [tcp EXCEPT !["exit"] = "closed"]
  /\ UNCHANGED <<tries, remote, sent, kcpVars, tcp2kcp, kcp2tcp, taken, given>>
-----------------------------------------------------------------------------
(* tcp2kcp.                                                                *)

RemoteSends(n) ==
  /\ tcp[n] = "open" /\ remote[n] = "up" /\ sent[n] < MaxUnits[n]
  /\ sent' = [sent EXCEPT ![n] = @ + 1]
  /\ UNCHANGED <<tries, tcp, remote, kcpVars, tcp2kcp, kcp2tcp, taken, given>>

RemoteEnds(n, how) ==
  /\ tcp[n] = "open" /\ remote[n] = "up"
  /\ Perfect => how = "eof" /\ n = "entry"
  /\ remote' = [remote EXCEPT ![n] = how]
  /\ UNCHANGED <<tries, tcp, sent, kcpVars, tcp2kcp, kcp2tcp, taken, given>>

\* Mutant: a write completes whatever waits.
WrittenAlways(n, waitsnd) == TRUE

\* A write completes as soon as ikcp_waitsnd allows it.
WrittenNow(n, waitsnd) == waitsnd <= idle_send_packet_count

\* A unit is read from TCP and written to KCP.
TcpRead(n) ==
  /\ tcp2kcp[n] = "read" /\ sent[n] > taken[n] /\ remote[n] # "reset"
  /\ taken' = [taken EXCEPT ![n] = @ + 1]
  /\ IF kcp[n] = "closed"
     THEN tcp2kcp' = [tcp2kcp EXCEPT ![n] = "aborted"] /\ UNCHANGED sndq
     ELSE /\ sndq' = [sndq EXCEPT ![n] = @ + 1]
          /\ tcp2kcp' = [tcp2kcp EXCEPT ![n] =
               IF WrittenNow(n, sndq'[n]) THEN "written" ELSE "write"]
  /\ UNCHANGED <<tries, tcpVars, kcp, rcvq, bye, kcp2tcp, given>>

\* The end of the TCP stream, or an error.
TcpReadFails(n) ==
  /\ tcp2kcp[n] = "read"
  /\ remote[n] = "reset" \/ (remote[n] = "eof" /\ sent[n] = taken[n])
  /\ Catch(n, "tcp2kcp")

\* The write of a unit completes: at once, or when enough was acknowledged.
KcpWritten(n) ==
  /\ \/ tcp2kcp[n] = "written"
     \/ tcp2kcp[n] = "write" /\ WrittenNow(n, sndq[n])
  /\ tcp2kcp' = [tcp2kcp EXCEPT ![n] = IF tcp[n] = "open" THEN "read" ELSE "aborted"]
  /\ UNCHANGED <<tries, tcpVars, kcpVars, kcp2tcp, taken, given>>
-----------------------------------------------------------------------------
(* kcp2tcp.                                                                *)

\* Where kcp2tcp is when its read of KCP completed and it writes the unit to TCP.
TcpWritePc(n) == IF tcp[n] = "open" THEN "write" ELSE "aborted"

\* Mutant: KCP is read again before the unit before is written.
KcpReadEarly(n) ==
  /\ kcp2tcp[n] \in {"read", "write"} /\ rcvq[n] > 0
  /\ rcvq' = [rcvq EXCEPT ![n] = @ - 1]
  /\ kcp2tcp' = [kcp2tcp EXCEPT ![n] = TcpWritePc(n)]
  /\ UNCHANGED <<tries, tcpVars, kcp, sndq, bye, tcp2kcp, taken, given>>

\* The posted check of a new read finds a unit.
KcpRead(n) ==
  /\ kcp2tcp[n] = "read" /\ rcvq[n] > 0
  /\ rcvq' = [rcvq EXCEPT ![n] = @ - 1]
  /\ kcp2tcp' = [kcp2tcp EXCEPT ![n] = TcpWritePc(n)]
  /\ UNCHANGED <<tries, tcpVars, kcp, sndq, bye, tcp2kcp, taken, given>>

TcpWritten(n) ==
  /\ kcp2tcp[n] = "write" /\ remote[n] # "reset"
  /\ given' = [given EXCEPT ![n] = @ + 1]
  /\ kcp2tcp' = [kcp2tcp EXCEPT ![n] = KcpReadPc(n)]
  /\ UNCHANGED <<tries, tcpVars, kcpVars, tcp2kcp, taken>>

TcpWriteFails(n) ==
  /\ kcp2tcp[n] = "write" /\ remote[n] = "reset"
  /\ Catch(n, "kcp2tcp")
-----------------------------------------------------------------------------
(* The KCP connections.                                                    *)

Hears(n) == kcp[n] \in {"idle", "opened"}

\* n has the connection closed by an event: stored operations are aborted inline.
ClosedByEvent(n) ==
  /\ Ends(n, {}, TRUE)
  /\ kcp' = [kcp EXCEPT ![n] = "closed"]

\* Mutant: a unit is taken whatever waits.
DeliverOverfull(n) ==
  LET m == Peer(n)
  IN /\ sndq[n] > 0 /\ kcp[n] # "erased" /\ Hears(m)
     /\ sndq' = [sndq EXCEPT ![n] = @ - 1]
     /\ kcp' = [k \in Node |-> IF kcp[k] = "idle" THEN "opened" ELSE kcp[k]]
     /\ IF kcp2tcp[m] = "read"
        THEN kcp2tcp' = [kcp2tcp EXCEPT ![m] = TcpWritePc(m)] /\ UNCHANGED rcvq
        ELSE rcvq' = [rcvq EXCEPT ![m] = @ + 1] /\ UNCHANGED kcp2tcp
     /\ UNCHANGED <<tries, tcpVars, bye, tcp2kcp, taken, given>>

\* A unit of n arrives, and its acknowledgement; an idle connection that hears is opened.
\* A read that waits completes inline.
Deliver(n) ==
  LET m == Peer(n)
  IN /\ sndq[n] > 0 /\ kcp[n] # "erased" /\ Hears(m) /\ rcvq[m] < RcvWnd
     /\ sndq' = [sndq EXCEPT ![n] = @ - 1]
     /\ kcp' = [k \in Node |-> IF kcp[k] = "idle" THEN "opened" ELSE kcp[k]]
     /\ IF kcp2tcp[m] = "read"
        THEN kcp2tcp' = [kcp2tcp EXCEPT ![m] = TcpWritePc(m)] /\ UNCHANGED rcvq
        ELSE rcvq' = [rcvq EXCEPT ![m] = @ + 1] /\ UNCHANGED kcp2tcp
     /\ UNCHANGED <<tries, tcpVars, bye, tcp2kcp, taken, given>>

\* A disconnect of n arrives.  What the peer has not read stays unread.
Bye(n) ==
  /\ bye[n]
  /\ Perfect => sndq[n] = 0 \/ rcvq[Peer(n)] = RcvWnd
  /\ IF Hears(Peer(n))
     THEN /\ ClosedByEvent(Peer(n))
          /\ bye' = [m \in Node |-> m # n]
     ELSE bye' = [bye EXCEPT ![n] = FALSE] /\ UNCHANGED <<kcp, tcp, tcp2kcp, kcp2tcp>>
  /\ UNCHANGED <<tries, remote, sent, taken, given, sndq, rcvq>>

LoseBye(n) ==
  /\ ~Perfect /\ bye[n]
  /\ bye' = [bye EXCEPT ![n] = FALSE]
  /\ UNCHANGED <<tries, tcpVars, kcp, sndq, rcvq, tcp2kcp, kcp2tcp, taken, given>>

\* n heard nothing for timeout_duration: an opened connection is closed, an idle one,
\* which only the exit can have, is dropped by its acceptor without a word.
Timeout(n) ==
  /\ ~Perfect
  /\ \/ /\ kcp[n] = "opened"
        /\ ClosedByEvent(n)
        /\ bye' = [bye EXCEPT ![n] = TRUE]
     \/ /\ kcp[n] = "idle"
        /\ kcp' = [kcp EXCEPT ![n] = "erased"]
        /\ UNCHANGED <<tcp, tcp2kcp, kcp2tcp, bye>>
  /\ UNCHANGED <<tries, remote, sent, taken, given, sndq, rcvq>>
-----------------------------------------------------------------------------
Session(n) ==
  \/ Aborted(n) \/ TcpRead(n) \/ TcpReadFails(n) \/ KcpWritten(n)
  \/ KcpRead(n) \/ TcpWritten(n) \/ TcpWriteFails(n)
  \/ Deliver(n) \/ Bye(n)

Next ==
  \/ Connect \/ ConnectThrows \/ ConnectFails \/ ExitConnected \/ ExitConnectFails
  \/ \E n \in Node : \/ Session(n)
                     \/ RemoteSends(n) \/ \E how \in {"eof", "reset"} : RemoteEnds(n, how)
                     \/ LoseBye(n) \/ Timeout(n)

Spec == Init /\ [][Next]_vars

\* n has nothing to send that its peer has room for.  The probes of a closed window come
\* at intervals that grow beyond timeout_duration.
Quiet(n) == sndq[n] = 0 \/ rcvq[Peer(n)] = RcvWnd

\* Nothing passes between the ends, or the other end is gone.
Silent(n) == (Quiet(n) /\ Quiet(Peer(n))) \/ ~Hears(Peer(n))

\* Queued completions run, KCP delivers while both ends are there, and a connect comes to
\* an end.  Silence lasts until it times out.  Nothing is assumed of the TCP peers: one
\* that never reads keeps a write to it waiting.
Fairness ==
  /\ WF_vars(ExitConnected \/ ExitConnectFails)
  /\ \A n \in Node :
       /\ WF_vars(Aborted(n)) /\ WF_vars(TcpRead(n)) /\ WF_vars(TcpReadFails(n))
       /\ WF_vars(KcpWritten(n)) /\ WF_vars(KcpRead(n))
       /\ WF_vars(TcpWriteFails(n)) /\ WF_vars(Deliver(n))
       /\ WF_vars(Silent(n) /\ Timeout(n))

FairSpec == Spec /\ Fairness
-----------------------------------------------------------------------------
(* Correctness.                                                            *)

\* The type invariant.
TypeOK ==
  /\ tries \in 0..TryTimes
  /\ kcp \in [Node -> {"none", "idle", "opened", "closed", "erased"}]
  /\ tcp \in [Node -> {"none", "open", "closed"}]
  /\ remote \in [Node -> {"up", "eof", "reset"}]
  /\ tcp2kcp \in [Node -> {"off", "read", "write", "written", "aborted", "done"}]
  /\ kcp2tcp \in [Node -> {"off", "read", "write", "aborted", "done"}]
  /\ sent \in [Node -> Nat] /\ taken \in [Node -> Nat] /\ given \in [Node -> Nat]
  /\ sndq \in [Node -> Nat] /\ rcvq \in [Node -> 0..RcvWnd]
  /\ bye \in [Node -> BOOLEAN]

\* While the connections and the TCP sockets at both ends are open, every unit read from
\* one TCP connection is in the tunnel or was written to the other.
NothingDropped ==
  \A n \in Node :
    LET m == Peer(n)
    IN (Hears(n) /\ Hears(m) /\ tcp[m] # "closed") =>
         taken[n] = given[m] + sndq[n] + rcvq[m] + (IF kcp2tcp[m] = "write" THEN 1 ELSE 0)

\* A TCP peer that does not read stops the other one: the tunnel holds a bounded number
\* of units that were read and not yet written.
Backpressure ==
  \A n \in Node : Hears(n) /\ Hears(Peer(n)) =>
    taken[n] - given[Peer(n)] <= idle_send_packet_count + RcvWnd + 2

\* The session at n is over: nothing of it is left open or running.
Over(n) == tcp[n] = "closed" /\ {tcp2kcp[n], kcp2tcp[n]} \subseteq {"off", "done"}

\* When the KCP connection is closed at one end the session ends at both, unless the
\* exit's connection was dropped while it was idle.  An end whose TCP peer never reads
\* meets the closed connection only after its write, so no write may wait for ever.
EndSpreads ==
  (\A n \in Node : []<>(kcp2tcp[n] # "write")) =>
  \A n \in Node :
    kcp[n] = "closed" ~> \A m \in Node : Over(m) \/ kcp[m] = "erased"

\* The end of a TCP connection ends the session there, whatever is still queued in the
\* tunnel, and though no TCP peer may read any more.
EofEnds ==
  \A n \in Node : (remote[n] # "up" /\ kcp[n] = "opened") ~> (Over(n) /\ kcp[n] = "closed")

\* A closed KCP connection never leaves its end asleep: until the session is over there,
\* or has not begun, a coroutine has a completion queued or ends the write to TCP it is in,
\* and meets the closed connection.  A TCP read that nothing ends is never all that is left.
NoneLeftWaiting ==
  \A n \in Node : kcp[n] = "closed" =>
    \/ Over(n) \/ tcp[n] = "none"
    \/ tcp2kcp[n] \in {"written", "aborted"} \/ kcp2tcp[n] \in {"write", "aborted"}

\* Whatever is closed or aborted while units are on their way, none is written twice or
\* made up: what was given, is queued or in hand was read at the other end.
NothingInvented ==
  \A n \in Node :
    LET m == Peer(n)
    IN given[m] + sndq[n] + rcvq[m] + (IF kcp2tcp[m] = "write" THEN 1 ELSE 0) <= taken[n]

\* An end that is over stays over, and moves no unit any more.
OverIsFinal ==
  [][\A n \in Node : (Over(n) /\ kcp[n] = "closed") =>
       /\ Over(n)' /\ kcp'[n] = "closed"
       /\ taken'[n] = taken[n] /\ given'[n] = given[n]]_vars

\* What the README says of the two modes, when nothing goes wrong: once the session is
\* over at the exit, all that the entry read was sent.
AllIsForwarded ==
  (remote["exit"] = "up" /\ kcp2tcp["exit"] = "done") => given["exit"] = taken["entry"]
=============================================================================
