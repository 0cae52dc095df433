----------------------------- MODULE Connection -----------------------------
(***************************************************************************)
(* One moon::kcp::connection object (include/kcp.hpp): its three states,   *)
(* the pending read and write operations, the handlers that wait in the    *)
(* executor, and everything that keeps the object alive.                   *)
(*                                                                         *)
(* All code of a connection runs on one asio executor thread, so a handler *)
(* is one action, unless it completes an operation: check_read_op calls    *)
(* the application inline, which may start operations or close, and goes   *)
(* on when that call returns (HandlerReturns).  No other handler runs in   *)
(* between.                                                                *)
(*                                                                         *)
(* IsServer selects who drives the object: the acceptor's update loop and  *)
(* receive loop (TRUE), or the connection's own timer and receive chain,   *)
(* started by run_client (FALSE).                                          *)
(*                                                                         *)
(* The ikcpcb is seen through the two numbers the handlers branch on: how  *)
(* many segments ikcp_recv can hand out, and what ikcp_waitsnd returns.    *)
(***************************************************************************)
EXTENDS Naturals

CONSTANTS
  IsServer,             \* isserver_
  Timeout,              \* timeout_duration, in clock ticks
  IdleSendPacketCount,  \* idle_send_packet_count
  Need,                 \* the size argument of async_read, in segments
  MaxAvail,             \* bound: segments waiting in the KCP receive queue
  MaxWaitSnd,           \* bound: segments waiting in the KCP send queues
  MaxPending,           \* bound: unfinished calls of one kind, posted checks
  MaxSends              \* bound: async_send_to handlers in flight

ASSUME ConnectionAssumption ==
  /\ IsServer \in BOOLEAN
  /\ Timeout \in Nat
  /\ IdleSendPacketCount \in Nat
  /\ Need \in Nat \ {0}
  /\ MaxAvail \in Nat
  /\ MaxWaitSnd \in Nat
  /\ MaxPending \in Nat \ {0}
  /\ MaxSends \in Nat

VARIABLES
  state_,     \* connection::state_
  quiet,      \* clock ticks since now_tick_ was set
  avail,      \* segments ikcp_recv can return
  rbuf,       \* segments in the streambuf of async_read
  waitsnd,    \* ikcp_waitsnd
  read_op_,   \* kind of the operation in read_op_
  write_op_,  \* kind of the operation in write_op_
  checks,     \* posted lambdas that call check_read_op through a raw pointer
  rfails,     \* posted read completions (busy or aborted)
  wposts,     \* posted write completions (done, busy, aborted, too long)
  rpend,      \* reads the application started and has not seen completed
  wpend,      \* writes the application started and has not seen completed
  inline,     \* which operation's handler runs inside a handler of the connection
  timer_,     \* the client's timer wait
  recv,       \* the client's async_receive_from
  table,      \* whether acceptor::connections_ holds the connection
  appRef,     \* whether the application holds a connection_ptr
  sends       \* async_send_to handlers in flight, each holding a self pointer

kcpVars  == <<avail, rbuf, waitsnd>>
opVars   == <<read_op_, write_op_, rpend, wpend, inline>>
postVars == <<checks, rfails, wposts>>
lifeVars == <<timer_, recv, table, appRef, sends>>
vars     == <<state_, quiet, kcpVars, opVars, postVars, lifeVars>>

Init ==
  /\ IF IsServer
     THEN state_ = "idle" /\ timer_ = "off" /\ recv = "off" /\ table = TRUE
     ELSE state_ = "opened" /\ timer_ = "armed" /\ recv = "waiting" /\ table = FALSE
  /\ quiet = 0
  /\ avail = 0 /\ rbuf = 0 /\ waitsnd = 0
  /\ read_op_ = "none" /\ write_op_ = "none"
  /\ rpend = 0 /\ wpend = 0
  /\ inline = "none"
  /\ checks = 0 /\ rfails = 0 /\ wposts = 0
  /\ appRef = TRUE
  /\ sends = 0

\* Somebody holds a shared_ptr to the object: a table entry, a timer, receive or
\* send handler, the application, or a handler the application waits on.
Held ==
  \/ appRef \/ table
  \/ timer_ # "off" \/ recv # "off" \/ sends > 0
  \/ rpend > 0 \/ wpend > 0
-----------------------------------------------------------------------------
(* Steps shared by the handlers.                                           *)

\* ikcp_update or ikcp_flush may hand datagrams to raw_send.
MaySend == sends' \in {sends, IF sends < MaxSends THEN sends + 1 ELSE sends}

\* The stored read completes when ikcp_recv has a segments.
ReadFinishes(a) ==
  \/ read_op_ = "some" /\ a > 0
  \/ read_op_ = "stream" /\ rbuf + a >= Need

\* What the stored read takes of the a segments.  Its slot is empty when its handler is
\* called, and is filled again only if it is not.
CheckReadOp(a) ==
  /\ IF ReadFinishes(a)
     THEN read_op_' = "none" /\ rpend' = rpend - 1
     ELSE UNCHANGED <<read_op_, rpend>>
  /\ IF read_op_ = "stream"
     THEN avail' = 0 /\ rbuf' = IF ReadFinishes(a) THEN rbuf + a - Need ELSE rbuf + a
     ELSE avail' = (IF ReadFinishes(a) THEN a - 1 ELSE a) /\ UNCHANGED rbuf

\* check_write_op without an error, when ikcp_waitsnd returns w.
CheckWriteOp(w) ==
  /\ waitsnd' = w
  /\ IF write_op_ # "none" /\ w <= IdleSendPacketCount
     THEN write_op_' = "none" /\ wpend' = wpend - 1 /\ inline' = "write"
     ELSE inline' = "none" /\ UNCHANGED <<write_op_, wpend>>

\* check_read_op without an error: the handler of the read comes before check_write_op.
CheckOps(a, w) ==
  /\ CheckReadOp(a)
  /\ IF ReadFinishes(a)
     THEN inline' = "read" /\ waitsnd' = w /\ UNCHANGED <<write_op_, wpend>>
     ELSE CheckWriteOp(w)

\* Mutant: the handlers are called whether or not an operation is stored.
AbortOpsUnchecked ==
  /\ read_op_' = "none" /\ rpend' = rpend - 1
  /\ write_op_' = "none" /\ wpend' = wpend - 1
  /\ UNCHANGED inline

\* Mutant: check_read_op with an error does not go on to check_write_op.
AbortOpsReadOnly ==
  /\ read_op_' = "none"
  /\ rpend' = IF read_op_ = "none" THEN rpend ELSE rpend - 1
  /\ UNCHANGED <<write_op_, wpend, inline>>

\* Mutant: close aborts the stored write but not the stored read.
AbortOpsWriteOnly ==
  /\ write_op_' = "none"
  /\ wpend' = IF write_op_ = "none" THEN wpend ELSE wpend - 1
  /\ UNCHANGED <<read_op_, rpend, inline>>

\* check_read_op with an error: whatever is pending completes.  The handlers run inside
\* close, when state_ is closed already: what they start is refused as it would be later.
AbortOps ==
  /\ read_op_' = "none"
  /\ rpend' = IF read_op_ = "none" THEN rpend ELSE rpend - 1
  /\ write_op_' = "none"
  /\ wpend' = IF write_op_ = "none" THEN wpend ELSE wpend - 1
  /\ UNCHANGED inline

\* What sock_->close and timer_->cancel do to a client's outstanding waits: a wait
\* fails, unless its success is already queued ("late", "fired").
CancelWaits ==
  IF IsServer
  THEN UNCHANGED timer_
  ELSE timer_' = IF timer_ = "armed" THEN "cancelled" ELSE timer_

\* close: nothing unless opened; a server leaves the table entry to the acceptor.
Close(st) ==
  IF st = "opened"
  THEN state_' = "closed" /\ AbortOps /\ CancelWaits /\ MaySend
  ELSE state_' = st /\ UNCHANGED <<opVars, timer_, sends>>

\* close called outside the client's own receive handler.
CloseSocket ==
  IF ~IsServer /\ state_ = "opened" /\ recv = "waiting"
  THEN recv' \in {"aborted", "late"}
  ELSE UNCHANGED recv
-----------------------------------------------------------------------------
(* The application.                                                        *)

\* Mutant: the read waits for the next datagram, no check is posted.
AsyncReadNoCheck(kind) ==
  /\ appRef /\ rpend < MaxPending /\ checks < MaxPending
  /\ rpend' = rpend + 1
  /\ IF read_op_ # "none" \/ state_ = "closed"
     THEN rfails' = rfails + 1 /\ UNCHANGED read_op_
     ELSE read_op_' = kind /\ UNCHANGED rfails
  /\ UNCHANGED <<state_, quiet, kcpVars, checks, write_op_, wpend, inline, wposts,
                 lifeVars>>

\* async_read_some ("some") and async_read ("stream").
AsyncRead(kind) ==
  /\ appRef /\ rpend < MaxPending /\ checks < MaxPending
  /\ rpend' = rpend + 1
  /\ IF read_op_ # "none" \/ state_ = "closed"
     THEN rfails' = rfails + 1 /\ UNCHANGED <<read_op_, checks>>
     ELSE read_op_' = kind /\ checks' = checks + 1 /\ UNCHANGED rfails
  /\ UNCHANGED <<state_, quiet, kcpVars, write_op_, wpend, inline, wposts, lifeVars>>

\* async_write of data that adds k segments to the send queue (0 when all of it fits
\* in the last queued segment).
AsyncWrite(k) ==
  /\ appRef /\ wpend < MaxPending /\ waitsnd + k <= MaxWaitSnd
  /\ wpend' = wpend + 1
  /\ \/ /\ write_op_ # "none" \/ state_ = "closed"
        /\ wposts' = wposts + 1
        /\ UNCHANGED <<write_op_, waitsnd>>
     \/ /\ write_op_ = "none" /\ state_ # "closed"
        /\ waitsnd' = waitsnd + k
        /\ IF waitsnd' <= IdleSendPacketCount
           THEN wposts' = wposts + 1 /\ UNCHANGED write_op_
           ELSE write_op_' = "write" /\ UNCHANGED wposts
  /\ UNCHANGED <<state_, quiet, avail, rbuf, read_op_, rpend, inline, checks, rfails,
                 lifeVars>>

\* async_write of more than ikcp_send takes: the handler is told message_size.
AsyncWriteTooLong ==
  /\ appRef /\ wpend < MaxPending
  /\ write_op_ = "none" /\ state_ # "closed"
  /\ wpend' = wpend + 1 /\ wposts' = wposts + 1
  /\ UNCHANGED <<state_, quiet, kcpVars, read_op_, write_op_, rpend, inline, checks,
                 rfails, lifeVars>>

AppClose ==
  /\ appRef
  /\ Close(state_) /\ CloseSocket
  /\ UNCHANGED <<quiet, kcpVars, postVars, table, appRef>>

\* A coroutine that awaits an operation keeps its connection_ptr.
AppRelease ==
  /\ appRef /\ rpend = 0 /\ wpend = 0
  /\ appRef' = FALSE
  /\ UNCHANGED <<state_, quiet, kcpVars, opVars, postVars, timer_, recv, table, sends>>
-----------------------------------------------------------------------------
(* Handlers queued in the executor.                                        *)

\* The lambda posted by initiate_async_read.  It captured this, not a shared_ptr:
\* once nobody holds the object it runs on freed memory.
RunCheck ==
  /\ inline = "none" /\ checks > 0
  /\ checks' = checks - 1
  /\ IF Held THEN CheckOps(avail, waitsnd) ELSE UNCHANGED <<kcpVars, opVars>>
  /\ UNCHANGED <<state_, quiet, rfails, wposts, lifeVars>>

RunReadFailure ==
  /\ inline = "none" /\ rfails > 0
  /\ rfails' = rfails - 1 /\ rpend' = rpend - 1
  /\ UNCHANGED <<state_, quiet, kcpVars, read_op_, write_op_, wpend, inline, checks,
                 wposts, lifeVars>>

RunWriteCompletion ==
  /\ inline = "none" /\ wposts > 0
  /\ wposts' = wposts - 1 /\ wpend' = wpend - 1
  /\ UNCHANGED <<state_, quiet, kcpVars, read_op_, write_op_, rpend, inline, checks,
                 rfails, lifeVars>>

SendDone ==
  /\ inline = "none" /\ sends > 0
  /\ sends' = sends - 1
  /\ UNCHANGED <<state_, quiet, kcpVars, opVars, postVars, timer_, recv, table, appRef>>
-----------------------------------------------------------------------------
(* Datagrams.                                                              *)

\* The receive loop that hands datagrams to the connection is waiting, or its last wait
\* succeeded before the socket was closed.
Receiving ==
  /\ inline = "none"
  /\ IF IsServer THEN table ELSE recv \in {"waiting", "late"}

\* on_receive: any datagram that is long enough opens an idle connection.
Opened == IF state_ = "idle" THEN "opened" ELSE state_

\* do_receive after on_receive: the client waits again unless closed.
ReceiveAgain ==
  IF IsServer THEN UNCHANGED recv
  ELSE recv' = IF inline' # "none" THEN "handling"
               ELSE IF state_' = "closed" THEN "off" ELSE "waiting"

\* A datagram shorter than a KCP header is ignored.
OnShort ==
  /\ Receiving
  /\ UNCHANGED <<state_, quiet, kcpVars, opVars, postVars, timer_, table, appRef, sends>>
  /\ ReceiveAgain

\* opcode_data: ikcp_input makes a segments readable and acknowledges d.
OnData(a, d) ==
  /\ Receiving /\ avail + a <= MaxAvail /\ d <= waitsnd
  /\ state_' = Opened /\ quiet' = 0
  /\ CheckOps(avail + a, waitsnd - d)
  /\ ReceiveAgain
  /\ UNCHANGED <<postVars, timer_, table, appRef, sends>>

\* Mutant: the slot of the read is emptied after its handler returned.
HandlerReturnsEmptiesSlot ==
  /\ inline # "none"
  /\ IF inline = "read"
     THEN CheckWriteOp(waitsnd) /\ read_op_' = "none"
     ELSE inline' = "none" /\ UNCHANGED <<waitsnd, write_op_, wpend, read_op_>>
  /\ UNCHANGED <<state_, quiet, avail, rbuf, rpend, postVars, timer_, table, appRef,
                 sends>>
  /\ IF recv = "handling" THEN ReceiveAgain ELSE UNCHANGED recv

\* The inline call of the application returns: check_read_op goes on to check_write_op,
\* and a receive handler that called it ends.  What the application stored stays stored.
HandlerReturns ==
  /\ inline # "none"
  /\ IF inline = "read"
     THEN CheckWriteOp(waitsnd)
     ELSE inline' = "none" /\ UNCHANGED <<waitsnd, write_op_, wpend>>
  /\ UNCHANGED <<state_, quiet, avail, rbuf, read_op_, rpend, postVars, timer_, table,
                 appRef, sends>>
  /\ IF recv = "handling" THEN ReceiveAgain ELSE UNCHANGED recv

\* opcode_keepalive, or an opcode the switch does not name.
OnOther ==
  /\ Receiving
  /\ state_' = Opened /\ quiet' = 0
  /\ UNCHANGED <<kcpVars, opVars, postVars, timer_, table, appRef, sends>>
  /\ ReceiveAgain

\* opcode_disconnect closes with eof.
OnDisconnect ==
  /\ Receiving
  /\ quiet' = 0
  /\ Close(Opened) /\ ReceiveAgain
  /\ UNCHANGED <<kcpVars, postVars, table, appRef>>

\* The client's receive fails: on the open socket it closes the connection, after
\* close it only ends the receive chain.
OnReceiveError ==
  /\ inline = "none"
  /\ ~IsServer /\ recv \in {"waiting", "aborted"}
  /\ Close(state_)
  /\ recv' = "off"
  /\ UNCHANGED <<quiet, kcpVars, postVars, table, appRef>>
-----------------------------------------------------------------------------
(* Time.                                                                   *)

Tick ==
  /\ Held /\ quiet <= Timeout
  /\ quiet' = quiet + 1
  /\ UNCHANGED <<state_, kcpVars, opVars, postVars, lifeVars>>

TimerExpires ==
  /\ timer_ = "armed"
  /\ timer_' = "fired"
  /\ UNCHANGED <<state_, quiet, kcpVars, opVars, postVars, recv, table, appRef, sends>>

\* Mutant: the handler starts the timer again whatever the time.
TimerHandlerForever ==
  /\ inline = "none" /\ timer_ = "fired"
  /\ timer_' = "armed"
  /\ MaySend
  /\ UNCHANGED <<state_, opVars, quiet, kcpVars, postVars, recv, table, appRef>>

\* Mutant: the handler checks the timeout once and does not wait again.
TimerHandlerOnce ==
  /\ inline = "none" /\ timer_ = "fired"
  /\ timer_' = "off"
  /\ IF quiet > Timeout /\ state_ = "opened"
     THEN state_' = "closed" /\ AbortOps
     ELSE UNCHANGED <<state_, opVars>>
  /\ CloseSocket
  /\ MaySend
  /\ UNCHANGED <<quiet, kcpVars, postVars, table, appRef>>

\* The client's timer handler: update, then close on timeout or wait again.  It does
\* not look at state_: a wait that was queued when close cancelled it starts anew.
TimerHandler ==
  /\ inline = "none" /\ timer_ = "fired"
  /\ IF quiet > Timeout
     THEN /\ IF state_ = "opened"
             THEN state_' = "closed" /\ AbortOps
             ELSE UNCHANGED <<state_, opVars>>
          /\ timer_' = "off"
          /\ CloseSocket
     ELSE /\ timer_' = "armed"
          /\ UNCHANGED <<state_, opVars, recv>>
  /\ MaySend
  /\ UNCHANGED <<quiet, kcpVars, postVars, table, appRef>>

TimerCancelled ==
  /\ inline = "none" /\ timer_ = "cancelled"
  /\ timer_' = "off"
  /\ UNCHANGED <<state_, quiet, kcpVars, opVars, postVars, recv, table, appRef, sends>>

\* Mutant: a timed out connection is erased without being closed.
AcceptorUpdateErases ==
  /\ inline = "none" /\ IsServer /\ table
  /\ table' = ~(state_ = "closed" \/ quiet > Timeout)
  /\ MaySend
  /\ UNCHANGED <<state_, opVars, quiet, kcpVars, postVars, timer_, recv, appRef>>

\* Mutant: only the timeout removes a connection, closed() is not asked.
AcceptorUpdateTimeoutOnly ==
  /\ inline = "none" /\ IsServer /\ table
  /\ IF quiet > Timeout
     THEN /\ IF state_ = "opened"
             THEN state_' = "closed" /\ AbortOps
             ELSE UNCHANGED <<state_, opVars>>
          /\ table' = FALSE
     ELSE UNCHANGED <<state_, opVars, table>>
  /\ MaySend
  /\ UNCHANGED <<quiet, kcpVars, postVars, timer_, recv, appRef>>

\* Mutant: only closed() removes a connection, the timeout is not asked.
AcceptorUpdateClosedOnly ==
  /\ inline = "none" /\ IsServer /\ table
  /\ table' = (state_ # "closed")
  /\ MaySend
  /\ UNCHANGED <<state_, opVars, quiet, kcpVars, postVars, timer_, recv, appRef>>

\* One round of acceptor::do_update for this connection: update, then drop it from
\* the table when it is closed or timed out.  close has no effect on an idle one.
AcceptorUpdate ==
  /\ inline = "none" /\ IsServer /\ table
  /\ IF state_ = "closed" \/ quiet > Timeout
     THEN /\ IF state_ = "opened"
             THEN state_' = "closed" /\ AbortOps
             ELSE UNCHANGED <<state_, opVars>>
          /\ table' = FALSE
     ELSE UNCHANGED <<state_, opVars, table>>
  /\ MaySend
  /\ UNCHANGED <<quiet, kcpVars, postVars, timer_, recv, appRef>>

\* acceptor::handshark for an endpoint whose connection is no longer idle.
Superseded ==
  /\ inline = "none" /\ IsServer /\ table /\ state_ # "idle"
  /\ Close(state_)
  /\ table' = FALSE
  /\ UNCHANGED <<quiet, kcpVars, postVars, recv, appRef>>
-----------------------------------------------------------------------------
App ==
  \/ \E kind \in {"some", "stream"} : AsyncRead(kind)
  \/ \E k \in 0..MaxWaitSnd : AsyncWrite(k)
  \/ AsyncWriteTooLong
  \/ AppClose
  \/ AppRelease

Datagram ==
  \/ OnShort
  \/ \E a \in 0..MaxAvail, d \in 0..MaxWaitSnd : OnData(a, d)
  \/ OnOther
  \/ OnDisconnect

Next ==
  \/ App
  \/ Datagram \/ HandlerReturns \/ OnReceiveError
  \/ RunCheck \/ RunReadFailure \/ RunWriteCompletion \/ SendDone
  \/ Tick \/ TimerExpires \/ TimerHandler \/ TimerCancelled
  \/ AcceptorUpdate \/ Superseded

Spec == Init /\ [][Next]_vars

\* Every call of the application returns, the executor runs every queued handler, timers
\* expire, the clock advances, a cancelled or already completed receive is delivered.
\* Nothing else is assumed of the application, and nothing of the peer.
Fairness ==
  /\ WF_vars(HandlerReturns)
  /\ WF_vars(RunCheck) /\ WF_vars(RunReadFailure) /\ WF_vars(RunWriteCompletion)
  /\ WF_vars(SendDone)
  /\ WF_vars(Tick) /\ WF_vars(TimerExpires) /\ WF_vars(TimerHandler)
  /\ WF_vars(TimerCancelled) /\ WF_vars(AcceptorUpdate)
  /\ WF_vars(recv = "aborted" /\ OnReceiveError)
  /\ WF_vars(recv = "late" /\ Datagram)

FairSpec == Spec /\ Fairness
-----------------------------------------------------------------------------
(* Correctness.                                                            *)

\* The type invariant.
TypeOK ==
  /\ state_ \in {"idle", "opened", "closed"}
  /\ quiet \in Nat
  /\ avail \in Nat /\ rbuf \in Nat /\ waitsnd \in Nat
  /\ read_op_ \in {"none", "some", "stream"}
  /\ write_op_ \in {"none", "write"}
  /\ checks \in Nat /\ rfails \in Nat /\ wposts \in Nat
  /\ rpend \in Nat /\ wpend \in Nat
  /\ inline \in {"none", "read", "write"}
  /\ timer_ \in {"off", "armed", "fired", "cancelled"}
  /\ recv \in {"off", "waiting", "late", "aborted", "handling"}
  /\ table \in BOOLEAN /\ appRef \in BOOLEAN
  /\ sends \in Nat

\* Every read and write the application started is waiting in exactly one place: in
\* its slot or as one posted completion.  No handler is dropped or called twice, though it
\* starts the next operation while the slot of its own is being handled.
OneCompletionPerOperation ==
  /\ rpend = rfails + (IF read_op_ = "none" THEN 0 ELSE 1)
  /\ wpend = wposts + (IF write_op_ = "none" THEN 0 ELSE 1)

\* close leaves no operation behind, and none is stored afterwards.
ClosedHasNoOperation ==
  state_ = "closed" => read_op_ = "none" /\ write_op_ = "none"

\* A stored operation that could complete now always has a check on its way, which for a
\* write may be the rest of check_read_op.
NoLostWakeup ==
  /\ \/ read_op_ = "some" /\ avail > 0
     \/ read_op_ = "stream" /\ (avail > 0 \/ rbuf >= Need)
     => checks > 0
  /\ write_op_ # "none" => waitsnd > IdleSendPacketCount \/ inline = "read"

\* An opened connection receives datagrams, or is handling one, and is looked at by a timer,
\* so it can be closed by its peer and by the timeout, and is never destroyed while opened.
OpenedIsDriven ==
  state_ = "opened" =>
    IF IsServer THEN table
    ELSE recv \in {"waiting", "handling"} /\ timer_ \in {"armed", "fired"}

\* While a handler of the application runs inside check_read_op somebody else holds the
\* connection, so check_read_op does not go on with an object that the handler closed and
\* let go of.  The posted check got there through a raw pointer.
InlineIsHeld ==
  inline # "none" => IF IsServer THEN table ELSE timer_ # "off"

\* Once datagrams stop coming, an opened connection times out and closes.
SilenceCloses ==
  <>[](quiet > 0) => (state_ = "opened" ~> state_ = "closed")

\* Whatever the timers do when close cancels them, the acceptor, the timer and the
\* receive chain let go of a closed connection.
ClosedIsReleased ==
  state_ = "closed" ~> ~table /\ timer_ = "off" /\ recv = "off"

\* What lets go of a closed connection never takes hold of it again: no receive is waited
\* for, a timer that ended is not set, the acceptor does not list it; and once the last
\* datagram that was on its way was handled only silence grows, which ends the timer.
ClosedLetsGo ==
  [][state_ = "closed" =>
       /\ state_' = "closed"
       /\ recv' # "waiting" /\ (recv = "off" => recv' = "off")
       /\ timer_ = "off" => timer_' = "off"
       /\ table' => table
       /\ recv = "off" /\ ~table => quiet' >= quiet]_vars

\* Once datagrams stop coming, a stored read completes.
ReadCompletes ==
  <>[](quiet > 0) => (read_op_ # "none" ~> read_op_ = "none")
=============================================================================
