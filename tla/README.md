# asio-kcp: specifications and proofs

asio-kcp puts asynchronous connections (`async_accept`, `async_connect`, `async_read`,
`async_write`) on top of KCP, a protocol that makes a reliable byte stream from UDP
datagrams. This directory models the program in TLA+, checks the models with TLC on small
instances and proves safety theorems about them, for all instances, with TLAPS.

Line numbers are of `src/include/kcp.hpp` unless `ikcp.c` (`src/3rd/kcp/ikcp.c`) is named.

## 1. Inventory

| Component | State | Operations | Talks to |
|---|---|---|---|
| `connection` (241-814) | `state_`, `next_tick_`, `now_tick_`, `read_op_`, `write_op_`, `timer_`, the ikcpcb | `async_read`, `async_read_some`, `async_write`, `close`; handlers: receive, timer, posted checks and completions | its ikcpcb by call; the acceptor by call; the application by inline completion handlers; the peer by datagrams |
| KCP window (`ikcp.c` 234-1138) | `snd_queue`, `snd_buf`, `snd_una`, `snd_nxt`, `rmt_wnd`, `probe`, `acklist`, `rcv_nxt`, `rcv_buf`, `rcv_queue` | `ikcp_send`, `ikcp_flush`, `ikcp_input`, `ikcp_recv` | the peer's ikcpcb, by datagrams that may be lost, repeated and reordered |
| KCP clock (`ikcp.c` 1146-1219; 618-628) | `current`, `ts_flush`, `updated`, `next_tick_` | `ikcp_update`, `ikcp_check`, `connection::update` | `ikcp_flush` |
| KCP round trip (`ikcp.c` 543-558) | `rx_srtt`, `rx_rttval`, `rx_rto`, `rto` of a segment | `ikcp_update_ack`, the rto part of `ikcp_flush` | acks of `ikcp_input` |
| `acceptor` (820-1009) | `connections_`, `accept_ops_`, `now_` | `async_accept`, `do_update`, `do_receive`, `handshark` | connections by call, clients by datagrams |
| `async_connect` (1012-1044) | a static `conv` | one handshake | the acceptor by datagrams |
| `static_buffer`, `static_buffer_pool` (121-222) | free list | `make`, release, `write` | every send and client receive |
| `operation` (224-237) | a function pointer | `complete` | the slots of connection and acceptor |
| `error.hpp` | none | names and messages | - |
| `tcp_over_kcp` example (`src/example`) | per session a TCP socket, a connection and two coroutines | `tcp2kcp`, `kcp2tcp`, `start_pipe` of both modes | connections, TCP sockets |

All code of a connection or acceptor runs in the handlers of one executor thread, so a
handler is atomic with respect to the others. What is hard is the order of handlers:

* a completion handler runs inline, inside `check_read_op`, and may call back into the
  connection; another completion is posted and runs later, after anything;
* closing a socket or cancelling a timer does not take back a completion that is already
  queued, so handlers run on a closed connection;
* an object is destroyed when the last handler, table entry or user lets go of it, and one
  kind of posted handler holds only a raw pointer;
* datagrams are lost, repeated, reordered and delayed, acknowledgements, window sizes,
  handshakes and disconnects included.

What makes each component correct:

* connection: an operation completes once, and does complete when there is data or the
  connection ends; an opened connection notices that its peer is gone; a closed one lets go;
* KCP window: what the reader reads is what the writer wrote, in order; nothing is
  forgotten before it was received; everything arrives if the network lets anything through;
* KCP clock: flushes keep coming, and comparisons survive the wrap of 32 bit times;
* KCP round trip: the timeout follows the path, with divisions that truncate;
* acceptor and `async_connect`: each handshake gives one accepted connection with the same
  `conv` at both ends; no accept is taken from an empty queue; abandoned connections go away;
* tunnel: nothing is dropped while it lasts, a slow peer stops the fast one, and an end at
  one side ends everything;
* buffer pool: no more than 1024 free buffers, no write beyond a buffer.

`PROJECT.json` lists the hazards at their lines, with the properties that would catch them.

## 2. Modules

| Module | Contents |
|---|---|
| `Connection` | the connection object on either side, and what the acceptor does to it |
| `ConnectionProofs` | its inductive invariant, its safety, and that a closed connection is only let go of |
| `KcpStream` | abstract specification: a reliable byte stream each way |
| `KcpUse` | abstract specification: the two numbers that `Connection` takes an ikcpcb for |
| `Kcp` | two ikcpcbs and the network; its refinements of `KcpStream` and `KcpUse` |
| `KcpProofs` | the inductive invariant of `Kcp`: windows, numbers, acknowledgements; what no step moves back |
| `KcpStreamProofs` | the invariant that makes `Kcp` a stream, what the reader still lacks, and the proofs that it implements `KcpStream` and `KcpUse` |
| `SessionPromise` | abstract specification: accepts and connects match one to one |
| `Session` | the acceptor's table, `async_connect`, and the connections between them; its refinement of `SessionPromise` |
| `SessionProofs` | its invariants, also with ports used again and repeated datagrams, and how each side of a session is forgotten |
| `SessionRefinement` | the proof that it implements `SessionPromise` |
| `KcpClock` | `connection::update`, `ikcp_update`, `ikcp_check` and the times of `ikcp_flush`, modulo a width |
| `KcpClockProofs` | flushes, resends and probes are in time, and not early, for every width |
| `KcpRtt` | the round trip estimate and the retransmission timeout |
| `KcpRttProofs` | its bounds, for every round trip |
| `Tunnel` | one session of the `tcp_over_kcp` example, entry and exit |
| `TunnelProofs` | its inductive invariants: what the tunnel holds, and how both ends end |
| `MCKcp`, `MCKcpClock`, `MCTunnel` | the values TLC gives to constants that are functions or sets |

`Kcp` builds on what `Connection` does with an ikcpcb, `Session` sees connections through
their state, `conv` and silence, and `Tunnel` uses what the two promise: operations that
complete once, a close that aborts the stored ones, a reliable stream while both ends last.

An operator whose comment begins with *Mutant* is not part of a specification. It is a
definition with a plausible bug, kept beside the original: put in place of the original it
makes the named run fail, which shows that the property of that run can fail.

### Connection

A variable is a field of the class, or something that waits in the executor on behalf of
the object: posted checks (`checks`), posted completions (`rfails`, `wposts`), the timer
wait, the outstanding receive, sends in flight. `rpend` and `wpend` count what the
application started and has not seen completed. `inline` says whose handler runs inside
`check_read_op`: the slot was emptied before, the application may start operations, close or
let go, and no other handler of the executor runs until `HandlerReturns`, which goes on to
`check_write_op` and then to the next receive. The handlers that `close` completes run inline
too, but on a connection that is closed already, so what they start is refused as it would
be later, and they are part of the step. The constant `IsServer` chooses who drives
the object: the acceptor's two loops, or the timer and receive chain that `run_client`
starts. The timer wait is `armed`, then `fired` (its handler is queued with success) or
`cancelled`; the receive is `waiting`, `handling` while an inline handler runs inside it, and
after a close `aborted`, or `late` when its success was already queued.

| Action | Code |
|---|---|
| `AsyncRead`, `AsyncWrite`, `AsyncWriteTooLong` | `initiate_async_read`, `initiate_async_write` |
| `AppClose`, `AppRelease` | `close`; the application drops its pointer |
| `RunCheck`, `RunReadFailure`, `RunWriteCompletion`, `SendDone` | the posted lambdas and completions, the `async_send_to` handler |
| `HandlerReturns` | the rest of `check_read_op` and of the handler that called it, after an inline completion |
| `OnShort`, `OnData`, `OnOther`, `OnDisconnect`, `OnReceiveError` | `on_receive` and the receive handler |
| `Tick`, `TimerExpires`, `TimerHandler`, `TimerCancelled` | the clock and `start_timer` |
| `AcceptorUpdate`, `Superseded` | one round of `do_update`; `handshark` for a known endpoint |

The ikcpcb is two numbers: the segments `ikcp_recv` can return and `ikcp_waitsnd`. A
datagram changes them by any amount within the bounds; that `Kcp` behaves so towards its
connection is its refinement of `KcpUse`. Exceptions thrown by a socket, the
contents of buffers, and sizes below one segment are left out.

### Kcp

A variable is a field of `ikcpcb`, indexed by the endpoint. A byte is its position in its
writer's stream, so a segment is an interval `[off, len]`, and data that is lost, repeated
or moved shows. The lists ordered by sequence number are functions from sequence numbers,
and the loops that move a run of segments are one step with the length of the run `m`.
`acklist` is a set: an entry listed twice is sent twice and has no other effect.

| Action | Code |
|---|---|
| `Send(n, len)` | `ikcp_send`: extends the last queued segment, then adds fragments, or fails having extended |
| `Flush(n, expired, probes)` | `ikcp_flush` at a time when the segments of `expired` are due: acks, probes, the move from `snd_queue` to `snd_buf`, first transmissions, resends, early resends |
| `Input(n, d)` | `ikcp_input`: window, una, acks and fastack, data, probes |
| `Recv(n)` | `ikcp_recv`, with the move from `rcv_buf` to `rcv_queue` and the answer to a recovered window |

`init_kcp_context` fixes what is modelled: stream mode (`frg` is always 0) and no
congestion window. Time is open: every flush may find any transmitted segment due and,
once `probe_wait` is set, the probe too; this covers every round trip estimate and every
schedule of flushes. Where the datagrams of a flush are cut depends on sizes and the mtu:
any data segment may begin a new datagram, and `AckCuts` datagrams may carry acks alone.
`xmit` counts to `FastLimit + 1` and `fastack` to `FastResend`, beyond which the code tells
no difference. Sequence numbers do not wrap, and segments are well formed with the right
`conv` (what else arrives, `ikcp_input` refuses).

`written`, `numbered` and `got` are history variables: bytes taken by `ikcp_send`, the
segment each number was given to, bytes returned by `ikcp_recv`.

`Kcp` implements two abstract specifications. The mapping to `KcpStream` takes the history:
what was written and what was read of it. The mapping to `KcpUse` takes what a connection
sees of its ikcpcb: `Avail`, the segments in `rcv_queue` and those behind it in `rcv_buf`
without a gap, and `WaitSnd`.

### Session

`conv` is the static variable of `async_connect`. `client[a]` is call `a` of it and the
connection it returns: its state, port, `conv`, how long it heard nothing, and two history
fields, the server connection whose response it took (`srv`) and those whose data it took
(`heard`). `conns` are the connections the acceptor made, `connections_` is its table from
endpoints to them, and `net` is the set of datagrams. A datagram names its sender for the
properties only. `Takes` is the one comparison of `ikcp_input` (`ikcp.c` 769) that sessions
depend on: data of another `conv` is refused, though it counts as a sign of life.

| Action | Code |
|---|---|
| `StartConnect`, `SendHandshark`, `FirstDatagram` | `async_connect` up to its first await, up to the second, and from the first datagram on |
| `Abandon` | an error of the socket, or a timeout that the caller runs beside it |
| `ClientReceive`, `ClientTimer`, `ClientClose` | `on_receive`, the timer handler and `close` of the client's connection |
| `Handshark` (`HandsharkAgain`, `HandsharkNew`) | `handshark`, for an endpoint whose connection is idle, and otherwise |
| `AcceptorReceive`, `DoUpdate`, `ServerClose` | `do_receive`, a round of `do_update`, `close` |
| `Tick`, `Lose` | the clock; a datagram is lost |

`do_receive` spawns `handshark`, which runs inside the same handler up to its end, so the
two are one step. Whatever a connection may send when it is updated or closed is a datagram
that carries its `conv`, and each may be lost. With `Reuse` a port belongs to several
sockets in turn; with `Duplicates` a delivered datagram stays in the network.

The server's application is assumed to accept again inside the completion of an accept, as
the loop of `README.md` (lines 36-52) does: `handshark` takes the first of `accept_ops_`
(998) without asking whether there is one, and a program that stops accepting while
handshakes come is outside of this model.

The refinement mapping reads the four relations of `SessionPromise` off the history fields:
`accepted` is who asked for each connection, `connected` whose response each client took,
`toServer` and `toClient` whose data was taken.

### KcpClock

`W` is the width of KCP's times, 2^32 in the code; `now` is the wide clock of `connection`.
`Itimediff` is the sign of the difference cut to the width. `Poll(d)` is a call of
`connection::update` `d` after the last one, whole: the comparison with `next_tick_`,
`ikcp_update` with its jump rule, `ikcp_check`, and the extra `ikcp_flush` when the next
tick is near. `Write` and `Input` are what a write and a datagram do to what the clock
handles: they queue, acknowledge or overtake a segment, open or close the peer's window,
and set `next_tick_` to 0. The timeout of each transmission is any of `Rtos`. Three history
variables live on the clock that never wraps: `due` of a segment, `flushed`, `asked`.

### KcpRtt

`Measure(rtt)` is `ikcp_update_ack`, with C's truncating divisions and the rule that an
estimate of 0 is none. The first `MaxFree` round trips are any of `Trip`, the later ones
repeat the last of them: a path that stays as it is. `KcpClock` and `KcpRtt` share no
state, and `MCKcpClock` explores each from the start of the other.

### Tunnel

A session has two nodes, `entry` (mode `tcp2kcp`, which connects) and `exit` (mode
`kcp2tcp`, which accepts), each with a TCP socket (`tcp`, and `remote` for its other end), a
KCP connection (`kcp`, with `sndq`, `rcvq` and a disconnect on its way, `bye`) and the
coroutines `tcp2kcp` and `kcp2tcp`, of which the state is the operation they wait for. A
unit is what one read returns; `sent`, `taken` and `given` count units. `Catch` is the catch
block of a coroutine, which closes both sockets: an operation stored on the KCP connection
is aborted inside `close`, so its coroutine ends in the same step, while one on the TCP
socket gets a completion that runs later (`aborted`).

| Action | Code |
|---|---|
| `Connect`, `ConnectThrows`, `ConnectFails` | `start_pipe` of the entry, with its tries; its `remote_endpoint()` may throw when the TCP peer was reset, which ends it before the pipes start |
| `ExitConnected`, `ExitConnectFails` | `start_pipe` of the exit, with its TCP connect |
| `TcpRead`, `TcpReadFails`, `KcpWritten` | `tcp2kcp` |
| `KcpRead`, `TcpWritten`, `TcpWriteFails` | `kcp2tcp` |
| `Aborted` | the completion of an operation that failed, in either |
| `Deliver`, `Bye`, `LoseBye`, `Timeout` | the KCP connections: data, the disconnect, silence |
| `RemoteSends`, `RemoteEnds` | the TCP peers |

## 3. Runs

| Run | Shows | Bounds |
|---|---|---|
| `connection_server` | operations are accounted for, none sleeps through its wake-up, none is left on a closed connection; opened connections are driven, time out in silence, and closed ones are dropped | timeout of 2 ticks, 2 calls of each kind, 2 readable and 2 queued segments, 1 send in flight |
| `connection_client` | the same of the timer and receive chains: late completions after `close` end, and every read completes | the same |
| `connection_idle` | **violated**: a read on a server's connection that never received a datagram is never completed | the same |
| `kcp_replay` | types, windows, nothing forgotten before it was received, what the reader has not got still kept where it is needed, on a network that repeats any old datagram | 3 segments one way, windows of 2, 3 datagrams |
| `kcp_pack` | honest acks, stable numbering, and the reader reads a prefix of what was taken, with segments filled by several writes and refused writes | 5 bytes, segments of 2, send window 2, receive window 1 |
| `kcp_duplex` | `Kcp` implements `KcpStream`, and `KcpUse`, with data both ways | 2 bytes and 1 byte, receive window 1, 2 datagrams |
| `kcp_live` | every byte taken is read, and send queues drain | 2 segments, receive window 1, 1 datagram at a time |
| `session_live` | `Session` implements `SessionPromise`; the acceptor forgets clients that failed or left; a client whose server connection is gone ends | 2 connects from ports of their own, 2 connections, 1 datagram at a time, silence of one tick times out |
| `session_replay` | an opened connection is the one its endpoint is listed with, a stream takes data only of its own port and `conv`, and the `conv`s of a connected pair agree, although handshakes, responses, data and disconnects come late and repeatedly | 2 connects that use one port in turn, 2 connections, 2 datagrams that may be repeated |
| `clock_wrap` | after each call of `connection::update` nothing is overdue and the last flush is not an interval ago; a closed window is probed in time and not before; the estimate stays between the round trips and the timeout above them | `W` = 18 with the clock from 15 up to 38, 2 segments, 1 or 2 ticks between calls, interval 3, timeouts 2 and 3; the estimator with the constants of the code, 3 round trips of 0 to 70000 ms in any order, then 60 equal ones |
| `tunnel` | nothing is dropped while a session lasts, the tunnel holds a bounded number of units, an end or a closed connection ends the session at both ends | 4 units one way and 1 the other, windows of 1, two tries, ends, resets, lost disconnects and timeouts at any moment |
| `tunnel_tail` | **violated**: the tail of what the entry read is never written | the same units, windows of 1 and 2, nothing fails |

Why these bounds are enough. The connection's handlers compare with one limit each
(`Timeout`, `IdleSendPacketCount`, `Need`), and each is crossed in both directions; two
calls of a kind make one succeed and one be refused, or one finish while another starts.
For `Kcp`, a receive window of one or two segments fills, closes and reopens; with three
segments there is one before, one in and one beyond a gap; `FastResend` and `FastLimit`
are 1, so early resends happen and stop; a datagram can be repeated after everything it
says is out of date. For `Session`, two connects are enough to overlap on the static `conv`
or to own one port in turn, and a second datagram lets an old one overtake a new one. For
`KcpClock`, a clock that starts just below `W` and runs to more than twice `W` passes two
wraps of the narrow times and the point from which `next_tick_` is always behind the wide
clock; two segments make one be due before the other. For `KcpRtt`, sixty steps are
more than the estimate takes to settle from any start. For `Tunnel`, the entry's peer sends
more units than the tunnel holds, so both coroutines of a direction wait. The theorems of
section 5 remove the bounds for every safety property that a passing run checks.

`CHECK_DEADLOCK FALSE` is set where the system may stop: a connection that was closed and
released, endpoints that have written all they may and repeat nothing, a full network that
loses nothing more, a clock at its bound, or a tunnel whose session is over.

### The violated runs

`connection_idle`. `close` (793) returns unless the connection is opened. A server's
connection is idle from the handshake to its first datagram. If the client goes away in
between, `do_update` (905-908) finds the timeout, calls `close`, which does nothing, and
erases the connection; a read the application stored on it is neither completed with
`timed_out` nor with anything else. On an opened connection, and on a client, the same read
completes; the comment at 703 calls it an asynchronous operation that was started, without
such an exception.

`tunnel_tail`. `README.md` (20-21) says that the entry reads TCP data and sends it, and that
the exit reads it and sends it on. When the TCP peer of the entry closes, `tcp2kcp` ends and
closes the KCP connection (`tcp_over_kcp.cpp` 69). The disconnect closes the exit's
connection (589) while data that arrived before it still waits there for its reader, and a
read of a closed connection is refused (388), so that data is never written to TCP; what the
entry's send queue could not send is lost as well (801-805 flush once and close). The run
allows nothing to go wrong otherwise: nothing is lost, delayed or timed out.

### Known limits of the code that the runs keep out

No line of the repository promises the contrary of these, so they are no findings.

* With a port that is used again, a disconnect ends whatever connection the endpoint has
  now, since it carries no `conv`; and a client and a server connection of different times
  keep each other alive, since `on_receive` (565, 577) counts every datagram as a sign of
  life before `ikcp_input` looks at its `conv`. `session_live` gives each socket its own
  port, `session_replay` checks what holds regardless: such a pair takes data of its own
  `conv` only (`StreamsAgree`).
* A late response sets the static `conv` back (1040), so later connects may repeat one.
  Endpoints differ, so `ConvAgrees`, a part of `StreamsAgree`, holds all the same. But two
  sessions of one port whose `conv`s repeat are one to the code, and `StreamsAgree`, which
  compares port and `conv`, lets the datagrams of one into the other.
* A write that `ikcp_send` refuses was partly taken: its first bytes extended the last queued
  segment (`ikcp.c` 482-510) and are sent. `ReadInOrder` counts them as written.
* `async_connect` never repeats a handshake (1028). `AbandonedIsReleased` is about the server;
  a client waits for the response until its caller gives up (`Abandon`).
* The comment of `ikcp_check` (`ikcp.c` 1175-1178) says when to call `ikcp_update`; at the
  time of a resend that call need not flush. `connection::update` (624) flushes by itself,
  which is what `NothingOverdue` rests on.
* From the fifth window probe on the wait is longer than the 30 s after which a connection
  times out, so a peer that does not read for that long loses its session.
* A connection never reads the `state` that `ikcp_flush` sets after `dead_link`
  transmissions (`ikcp.c` 1104).

## 4. Fairness

`Connection`: the executor runs every queued handler, timers expire and the clock advances
(weak fairness of each). The application's handlers return; nothing else is assumed of it,
nor of the peer or of new datagrams; a receive that already succeeded or was aborted is delivered. asio guarantees
these while the `io_context` runs. `SilenceCloses` and `ReadCompletes` have the hypothesis
that datagrams stop coming (`<>[](quiet > 0)`), since every datagram puts off the timeout.

`Kcp`: both connections flush again and again (the timers of `start_timer` and
`do_update`), their readers read what is there, and a datagram in the network arrives or is
overtaken. The network may lose datagrams, but of those with a given content (the oldest
segment that is not acknowledged, acks, a window probe, the answer to one) that are sent
over and over, some get through: strong fairness of sending one that is not lost. That is
the assumption under which a protocol with resends can promise anything.

`Session`: the clock advances, `do_update` goes round, the timers of clients run (weak
fairness of each). Nothing is assumed of the network, which may lose every datagram, nor of
the applications: what ends, ends by silence.

`Tunnel`: queued completions run, what can be read is read (weak fairness of each kind per
node), KCP delivers while both ends are there and have room (that is what `kcp_live` shows
of `Kcp`), and the exit's connect succeeds or fails. No fairness is assumed of the writes to
TCP: a peer may stop to read for ever, and `EofEnds` holds all the same, because the silence
of the full tunnel ends it. `EndSpreads` has the hypothesis that no write to TCP waits for
ever: an end whose write does wait learns only then that its connection was closed. A
connection that hears nothing times out, where hearing nothing means that neither end has
anything to send that the other has room for, or that the other end is gone. A TCP peer need
not end, and a disconnect need not arrive.

`KcpClock` and `KcpRtt` have safety properties only: "in time" is a bound on the clock.

## 5. Proofs

All safety properties of the passing runs, and the three refinements, are theorems for
every value of the constants that the assumptions allow. Some theorems state a property
that no configuration lists: a part of one that is listed (`ConvAgrees`), or a fact about
steps that TLC was asked once on the same instances before it was proved. They are named
with their theorem below.

| Module | Theorems |
|---|---|
| `ConnectionProofs` | `TypeCorrect`, `HandlersAccountedFor`, `ClosedIsEmpty`, `NoWakeupIsLost`, `OpenedStaysDriven`; `InlineStaysHeld` (`InlineIsHeld`), `ClosedIsLetGo` (`ClosedLetsGo`) |
| `KcpProofs` | `TypeCorrect`, `WindowsAreRespected`, `NumbersStayStable`, `AcksStayHonest`, `NothingForgottenIsLost`; `UnaStaysOldest` (`UnaIsOldest`), `NoStepMovesBack` (`NothingMovesBack`) |
| `KcpStreamProofs` | `StreamStaysInOrder`, `ImplementsStream`, `UnreadIsKept`, `ServesConnection`; `ReadySegmentsMove` (`NothingReadyWaits`), `EmptyQueueIsAll` (`EmptyMeansNothing`) |
| `SessionProofs` | `TypeCorrect`, `TableIsConsistent`, `StreamsStayApart`; `ConvsAgree` (`ConvAgrees`), `AbandonedOnlyAges` (`SilenceGrows`), `ForgottenStaysSilent` (`SilenceStays`) |
| `SessionRefinement` | `KeepsPromise` |
| `KcpClockProofs` | `ClockTypeCorrect`, `NothingStaysOverdue`, `FlushesAreInTime`, `ProbesAreInTime`, `ProbesWait`; `ResendsAreLate` (`ResendsWait`) |
| `KcpRttProofs` | `SrttStaysBetween`, `RtoStaysAbove`, `RtoStaysAhead`; `RttTypeCorrect` (`RttTypeOK`) |
| `TunnelProofs` | `TunnelTypeCorrect`, `NothingIsDropped`, `SlowPeerStops`; `ClosedWakesAll` (`NoneLeftWaiting`), `NoUnitIsInvented` (`NothingInvented`), `EndIsFinal` (`OverIsFinal`) |

`ConnectionProofs`. The invariants need each other. A completion counts `rpend` or `wpend`
down, so `TypeOK` needs `OneCompletionPerOperation`; a check that finds nobody holding the
object does nothing, which is right because then nothing is pending; `ClosedHasNoOperation`
and `OpenedIsDriven` depend on every way to close; `NoLostWakeup` says that a call is inline
only if the connection was opened, and so `InlineIsHeld`: an inline handler may close the
connection and drop its last pointer, and `check_read_op` still goes on with a live object.
`IInv` is their conjunction with two more facts: a client's connection is never idle, and
an idle one received nothing. `ClosedIsLetGo` needs `HoldersInv` as well,
which says who may hold a connection: the table a server's, the timer and the receive a
client's, and that no receive waits on a closed one. It is the safety half of
`ClosedIsReleased`: whatever handler still runs on a closed connection, none reopens it,
waits for a datagram, sets a timer that ended or lists it again.

`KcpProofs`. `IInv` is the conjunction of `TypeOK`, `WindowsRespected`,
`NumbersAreStable`, `AcksAreHonest` and `ForgottenIsReceived`. It is inductive without
more: acks are honest because the datagram that carried a segment was numbered by the
sender (`NumbersAreStable`) and the receiver acknowledges what it keeps; the sender may
forget what acks name because they are honest; the receiver's window stays behind
`snd_nxt` because it only moves over segments it holds. `Parts` and `PartsSuffice` regroup
it by endpoint, so a step is examined for what it does to its own send side, its own
receive side and the other's receive side (`FlushSender`, `AcknowledgeSafe`, `DrainSafe`,
`ReceiverStep`). `UnaIsOldest` is inductive beside it: `ikcp_shrink_buf` runs after every
datagram and finds the oldest segment, or none. `NoStepMovesBack` compares the two sides of
a step: no datagram, however old, moves `snd_una` or `rcv_nxt` back, gives up a segment
that was received, or renames a number.

`KcpStreamProofs`. `IInv` says that what is in `rcv_buf` is what the peer numbered;
`StreamInv` adds the two ends of the way. `WriterOK`: the segments numbered followed by
those queued cut what was written into pieces without a gap. `ReaderOK`: the bytes read are
those of the first segments the peer numbered, and `rcv_queue` holds the next ones. Moving a
segment from `snd_queue` to `snd_buf` changes neither, an `ikcp_send` extends only what has
no number yet, also when it is refused. `ReadInOrder` and each step of the refinement
follow: `ImplementsStream` is `Spec => StreamSpec`.

`UnreadIsKept` joins the two invariants: bytes that were written and not read are, by
`WriterOK` and `ReaderOK`, in a segment at or beyond `rcv_nxt`, or in the reader's queue, and
the sender keeps the segment at `rcv_nxt` because only what was received is forgotten.
`ServesConnection` is `Spec => UseSpec`: the run of segments in `rcv_buf` behind `rcv_nxt`
(`RunEnd`) only grows by input, moves into `rcv_queue` without a change of `Avail`, and
loses one at its front by `ikcp_recv`; `snd_queue` and `snd_buf` together change neither by
a flush nor grow by input. This is what allows `Connection` to keep two numbers instead of
an ikcpcb. `EmptyQueueIsAll` adds that an empty `rcv_queue` leaves no run in `rcv_buf`, so
an `ikcp_recv` that fails did not miss anything.

`SessionProofs`. `SafeInv` strengthens `OpenedIsListed` and `ConvAgrees` with: a connect
that was started has a port, and `conv` is not 0 from then on (`Started`), nor is the conv
of a handshake (`Numbered`); a datagram to a client is of a connection of that endpoint, and
a response has its `conv` (`FromConns`). It holds with repeated datagrams and ports used
again. `AgreeInv` adds what datagrams tell of their senders: one to the acceptor has the
port of its client, data has the client's `conv` (`FromClients`), data to a client has the
connection's (`DataHasConv`). As a client keeps its port, and its `conv` from the response
on, `StreamsAgree` follows whenever a datagram arrives.

The liveness of sessions rests on silence, and its safety halves are theorems.
`AbandonedOnlyAges`, for `AbandonedIsReleased`: once no socket of a port is left and none of
its datagrams is on its way to the acceptor, the port's entry only grows older or is erased;
the acceptor's own updates do not count as a sign of life. `ForgottenStaysSilent`, for
`OrphanEnds`: a client that the acceptor has no entry for hears nothing again, whatever it
sends, until its timer closes it. It needs that no two sockets have one port (`OneSocket`),
or the handshake of another would make an entry whose datagrams keep the client alive. What
is left to TLC is that the clock and the timers turn silence into a close.

`SessionRefinement`. With `~Reuse` and `~Duplicates`, which the theorem assumes, a port
belongs to one connect, so it can be used as its name (`OneOwner`), and a handshake exists
once: it was not sent, is in the network, or was delivered. Hence a connection is accepted
for one client and a client by one connection (`OnceAsked`, `AcceptedOnce`), and data goes
to the pair (`TalksToOwn`). `KeepsPromise` is `Spec => PromiseSpec`.

`KcpClockProofs`. The heart is the lemma `Difference`: of two real times less than half the
range apart, `Itimediff` of their remainders is the difference. `ClockInv` says that every
time KCP keeps is the remainder of a real time near the clock (`ts_flush` at most an interval
ahead, `resendts` the remainder of `due`, `ts_probe` of `asked` plus the wait), that those
are ahead of the clock, and that `next_tick_` does not sleep past them. So everything holds
for `W` = 2^32 and a clock without a bound, not only for the narrow width TLC explores.
`ResendsAreLate` carries `Waits` through the two flushes that one `connection::update` may
make: neither sends a segment again whose `due` is still to come.

`KcpRttProofs`. `RttInv` adds that `rx_rto` is what the formula makes of the estimate, and
`Near`: the distance of the estimate from the last round trip is covered by the deviation
and the interval. It keeps `RtoCatchesUp` although the truncated average stops short.

`TunnelProofs`. `TunnelInv` is five facts: nothing moved before a session started
(`Fresh`), no coroutine runs at a node that has no TCP socket yet (`NeedsTcp`), `kcp2tcp`
stops only when a socket of its node was closed (`Stopped`), a write that waits is one unit
above the threshold at most (`SendQ`), and what one end took was given or is in the tunnel,
but for one unit in the hands of `kcp2tcp` (`Flow`).

`EndingInv` is about the ends: nobody waits on a socket of its node that is closed, a
coroutine that ended closed the TCP socket, and where both sockets are there both coroutines
run. Hence `ClosedWakesAll`: behind a closed KCP connection something is always about to
run until both coroutines have ended; it is the safety half of `EndSpreads` and `EofEnds`.
`NoUnitIsInvented` is inductive by itself. `EndIsFinal` says that an end that is over moves
nothing any more, though datagrams and disconnects still arrive.

Assumptions are named `ASSUME`s that TLC evaluates. `ConnectionAssumption`,
`KcpAssumption`, `SessionAssumption` and `TunnelAssumption` give constants their types and
ask that a window, a segment, `Need`, `FastResend` and `FastLimit` are not zero
(`init_kcp_context` and `ikcp_create` set them so). `ClockAssumption` asks that the width is
even, that times which are compared are less than half of it apart (in the code: 60 s and
120 s against 24 days), that `connection::update` is called often enough for the clock not
to seem to have jumped (10 s), and that `update_interval`, 5, is at most the smallest timeout,
`rx_minrto` 10. `RttAssumption` asks for an interval of at least 8 (`ikcp_nodelay` sets no
less than 10).

Only model-checked, because liveness is out of the prover's reach: `SilenceCloses`,
`ClosedIsReleased`, `ReadCompletes`, `BytesArrive`, `SendQueuesDrain`,
`AbandonedIsReleased`, `OrphanEnds`, `EndSpreads`, `EofEnds`. Of `ReadCompletes` and
`BytesArrive` a safety half is a theorem too: `NoWakeupIsLost` says that a read that can
complete has a check on its way, and `UnreadIsKept` that no byte is lost before it arrives.
That fairness makes the step happen is what TLC checks.

## 6. Not modelled

* The list loops of `ikcp_parse_data`, `ikcp_parse_ack`, `ikcp_parse_una` and `ikcp_flush`
  one segment at a time: `Kcp` has their closed forms.
* Message mode (`ikcp_peeksize`, fragments in `ikcp_send` and `ikcp_recv`): connection sets
  stream mode, in which `frg` is always 0.
* The congestion window: `init_kcp_context` switches it off.
* `static_buffer_pool`: a free list of one thread without any other state; that a write
  stays within its 2048 bytes is a matter of the mtu, a constant.
* A server that stops accepting (998), exceptions thrown by a socket's `send_to`, what an
  executor with several threads would do.
* Several sessions of the tunnel at once: they share nothing but the acceptor, which
  `Session` has.
* `error.hpp`, address parsing, logging, build files: no state.
* asio (`src/3rd/asio`, by far the largest part of the repository): vendored; what it
  promises of handlers, timers and sockets is the fairness and the actions of `Connection`.
