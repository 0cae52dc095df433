-------------------------- MODULE ConnectionProofs --------------------------
(***************************************************************************)
(* Safety of the connection object for every value of its constants.       *)
(*                                                                         *)
(* The invariants of Connection support each other: a completion may be    *)
(* counted down because OneCompletionPerOperation says it is outstanding,  *)
(* a check that finds the object gone may do nothing because no operation  *)
(* is stored then.  IInv adds what they lack: a client's connection is     *)
(* never idle, and an idle one received nothing.                           *)
(*                                                                         *)
(* HoldersInv says what may hold a connection: a server's is held by the   *)
(* acceptor's table, a client's by its timer and its receive.              *)
(***************************************************************************)
EXTENDS Connection, TLAPS

\* The inductive invariant.
IInv ==
  /\ TypeOK
  /\ OneCompletionPerOperation
  /\ ClosedHasNoOperation
  /\ NoLostWakeup
  /\ OpenedIsDriven
  /\ InlineIsHeld
  /\ ~IsServer => state_ # "idle"
  /\ state_ = "idle" => avail = 0 /\ rbuf = 0

USE ConnectionAssumption DEF kcpVars, opVars, postVars, lifeVars, vars

\* IInv holds of a new connection.
LEMMA InitIInv == Init => IInv
<1> SUFFICES ASSUME Init PROVE IInv
  OBVIOUS
<1>1. TypeOK
  BY DEF Init, TypeOK
<1>2. OneCompletionPerOperation /\ ClosedHasNoOperation /\ NoLostWakeup
  BY DEF Init, OneCompletionPerOperation, ClosedHasNoOperation, NoLostWakeup
<1>3. /\ OpenedIsDriven /\ InlineIsHeld /\ (~IsServer => state_ # "idle")
      /\ state_ = "idle" => avail = 0 /\ rbuf = 0
  BY DEF Init, OpenedIsDriven, InlineIsHeld
<1>4. QED
  BY <1>1, <1>2, <1>3 DEF IInv

\* check_read_op without an error completes an operation once, and stores nothing that
\* could complete; it calls the application only for an operation that was stored.
LEMMA CheckOpsPreserve ==
  ASSUME IInv, inline = "none", NEW a \in Nat, NEW w \in Nat, w <= waitsnd, CheckOps(a, w)
  PROVE  /\ avail' \in Nat /\ rbuf' \in Nat /\ waitsnd' \in Nat
         /\ rpend' \in Nat /\ wpend' \in Nat
         /\ read_op_' \in {"none", "some", "stream"} /\ write_op_' \in {"none", "write"}
         /\ rpend' = rfails + (IF read_op_' = "none" THEN 0 ELSE 1)
         /\ wpend' = wposts + (IF write_op_' = "none" THEN 0 ELSE 1)
         /\ read_op_ = "none" => read_op_' = "none"
         /\ write_op_ = "none" => write_op_' = "none"
         /\ ~(read_op_' = "some" /\ avail' > 0)
         /\ ~(read_op_' = "stream" /\ (avail' > 0 \/ rbuf' >= Need))
         /\ write_op_' # "none" => waitsnd' > IdleSendPacketCount \/ inline' = "read"
         /\ inline' \in {"none", "read", "write"}
         /\ inline' = "read" => read_op_ # "none" /\ (a > 0 \/ rbuf >= Need)
         /\ inline' = "write" => write_op_ # "none" /\ w < waitsnd
         /\ inline' = "none" \/ read_op_ # "none" \/ write_op_ # "none"
         /\ a = 0 /\ rbuf = 0 => avail' = 0 /\ rbuf' = 0
<1> USE DEF IInv, TypeOK, OneCompletionPerOperation, NoLostWakeup
<1>1. /\ avail' \in Nat /\ rbuf' \in Nat /\ rpend' \in Nat
      /\ read_op_' \in {"none", "some", "stream"}
      /\ rpend' = rfails + (IF read_op_' = "none" THEN 0 ELSE 1)
      /\ read_op_ = "none" => read_op_' = "none"
      /\ ~(read_op_' = "some" /\ avail' > 0)
      /\ ~(read_op_' = "stream" /\ (avail' > 0 \/ rbuf' >= Need))
      /\ a = 0 /\ rbuf = 0 => avail' = 0 /\ rbuf' = 0
  <2>1. CheckReadOp(a)
    BY DEF CheckOps
  <2>2. CASE read_op_ = "none"
    BY <2>1, <2>2 DEF CheckReadOp, ReadFinishes
  <2>3. CASE read_op_ = "some"
    BY <2>1, <2>3 DEF CheckReadOp, ReadFinishes
  <2>4. CASE read_op_ = "stream"
    <3>1. /\ avail \in Nat /\ rbuf \in Nat /\ rfails \in Nat /\ rpend = rfails + 1
          /\ Need \in Nat /\ Need # 0
      BY <2>4
    <3>2. CASE rbuf + a >= Need
      BY <2>1, <2>4, <3>1, <3>2 DEF CheckReadOp, ReadFinishes
    <3>3. CASE ~(rbuf + a >= Need)
      BY <2>1, <2>4, <3>1, <3>3 DEF CheckReadOp, ReadFinishes
    <3> QED
      BY <3>2, <3>3
  <2> QED
    BY <2>2, <2>3, <2>4
<1>2. CASE ReadFinishes(a)
  BY <1>1, <1>2 DEF CheckOps, ReadFinishes
<1>3. CASE ~ReadFinishes(a)
  BY <1>1, <1>3 DEF CheckOps, CheckWriteOp
<1> QED
  BY <1>2, <1>3

\* check_read_op with an error leaves no operation stored.
LEMMA AbortOpsPreserve ==
  ASSUME IInv, AbortOps
  PROVE  /\ read_op_' = "none" /\ write_op_' = "none" /\ inline' = inline
         /\ rpend' = rfails /\ wpend' = wposts
BY DEF IInv, TypeOK, OneCompletionPerOperation, AbortOps

\* Every step keeps IInv: it is inductive.
LEMMA NextIInv == IInv /\ [Next]_vars => IInv'
<1> SUFFICES ASSUME IInv, [Next]_vars PROVE IInv'
  OBVIOUS
<1> USE DEF IInv, TypeOK, OneCompletionPerOperation, ClosedHasNoOperation,
            NoLostWakeup, OpenedIsDriven, InlineIsHeld
<1>1. ASSUME NEW kind \in {"some", "stream"}, AsyncRead(kind) PROVE IInv'
  BY <1>1 DEF AsyncRead
<1>2. ASSUME NEW k \in 0..MaxWaitSnd, AsyncWrite(k) PROVE IInv'
  BY <1>2 DEF AsyncWrite
<1>3. CASE AsyncWriteTooLong
  BY <1>3 DEF AsyncWriteTooLong
<1>4. CASE AppClose
  BY <1>4, AbortOpsPreserve DEF AppClose, Close, CloseSocket, CancelWaits, MaySend
<1>5. CASE AppRelease
  <2>1. appRef' \in BOOLEAN /\ UNCHANGED <<state_, quiet, kcpVars, opVars, postVars>>
        /\ UNCHANGED <<timer_, recv, table, sends>>
    BY <1>5 DEF AppRelease
  <2>2. QED
    BY <2>1
<1>6. ASSUME NEW a \in 0..MaxAvail, NEW d \in 0..MaxWaitSnd, OnData(a, d) PROVE IInv'
  BY <1>6, CheckOpsPreserve DEF OnData, Receiving, Opened, ReceiveAgain
<1>0. CASE OnShort
  BY <1>0 DEF OnShort, Receiving, ReceiveAgain
<1>7. CASE OnOther
  BY <1>7 DEF OnOther, Receiving, Opened, ReceiveAgain
<1>8. CASE OnDisconnect
  BY <1>8, AbortOpsPreserve
     DEF OnDisconnect, Receiving, Opened, ReceiveAgain, Close, CancelWaits, MaySend
<1>9. CASE OnReceiveError
  BY <1>9, AbortOpsPreserve DEF OnReceiveError, Close, CancelWaits, MaySend
<1>10. CASE RunCheck
  BY <1>10, CheckOpsPreserve DEF RunCheck, Held
<1>11. CASE RunReadFailure
  BY <1>11 DEF RunReadFailure
<1>12. CASE RunWriteCompletion
  BY <1>12 DEF RunWriteCompletion
<1>22. CASE HandlerReturns
  BY <1>22 DEF HandlerReturns, CheckWriteOp, ReceiveAgain
<1>13. CASE SendDone
  BY <1>13 DEF SendDone
<1>14. CASE Tick
  BY <1>14 DEF Tick
<1>15. CASE TimerExpires
  BY <1>15 DEF TimerExpires
<1>16. CASE TimerHandler
  BY <1>16, AbortOpsPreserve DEF TimerHandler, CloseSocket, MaySend
<1>17. CASE TimerCancelled
  BY <1>17 DEF TimerCancelled
<1>18. CASE AcceptorUpdate
  <2>1. CASE state_ = "closed" \/ quiet > Timeout
    <3>1. table' \in BOOLEAN
      BY <1>18, <2>1 DEF AcceptorUpdate
    <3>2. sends' \in Nat
      BY <1>18 DEF AcceptorUpdate, MaySend
    <3>3. CASE state_ = "opened"
      <4>1. state_' = "closed" /\ AbortOps
        BY <1>18, <2>1, <3>3 DEF AcceptorUpdate
      <4>2. QED
        BY <1>18, <3>1, <3>2, <4>1, AbortOpsPreserve DEF AcceptorUpdate
    <3>4. CASE state_ # "opened"
      <4>1. UNCHANGED <<state_, opVars>>
        BY <1>18, <2>1, <3>4 DEF AcceptorUpdate
      <4>2. QED
        BY <1>18, <3>1, <3>2, <3>4, <4>1 DEF AcceptorUpdate
    <3>5. QED
      BY <3>3, <3>4
  <2>2. CASE ~(state_ = "closed" \/ quiet > Timeout)
    BY <1>18, <2>2 DEF AcceptorUpdate, MaySend
  <2>3. QED
    BY <2>1, <2>2
<1>19. CASE Superseded
  <2>1. state_' = "closed" /\ table' \in BOOLEAN
    BY <1>19 DEF Superseded, Close
  <2>2. QED
    BY <1>19, <2>1, AbortOpsPreserve DEF Superseded, Close, CancelWaits, MaySend
<1>20. CASE UNCHANGED vars
  BY <1>20
<1>21. QED
  BY <1>0, <1>1, <1>2, <1>3, <1>4, <1>5, <1>6, <1>7, <1>8, <1>9, <1>10, <1>11, <1>12,
     <1>13, <1>14, <1>15, <1>16, <1>17, <1>18, <1>19, <1>20, <1>22
     DEF Next, App, Datagram

\* No step of the executor, the application or the network leads out of IInv.
THEOREM Invariance == Spec => []IInv
<1>1. Init => IInv
  BY InitIInv
<1>2. IInv /\ [Next]_vars => IInv'
  BY NextIInv
<1>3. QED
  BY <1>1, <1>2, PTL DEF Spec

\* The variables keep their types whatever the sizes, limits and timeouts are.
THEOREM TypeCorrect == Spec => []TypeOK
<1>1. IInv => TypeOK
  BY DEF IInv
<1>2. QED
  BY <1>1, Invariance, PTL

\* initiate_async_read, initiate_async_write, check_read_op and check_write_op account
\* for every handler they were given: it is stored or posted, once.
THEOREM HandlersAccountedFor == Spec => []OneCompletionPerOperation
<1>1. IInv => OneCompletionPerOperation
  BY DEF IInv
<1>2. QED
  BY <1>1, Invariance, PTL

\* A closed connection stores no operation, so no completion is left behind by close.
THEOREM ClosedIsEmpty == Spec => []ClosedHasNoOperation
<1>1. IInv => ClosedHasNoOperation
  BY DEF IInv
<1>2. QED
  BY <1>1, Invariance, PTL

\* A stored read with enough data, or a stored write below the limit, has been looked
\* at or will be: on_receive and the posted check leave nothing unnoticed.
THEOREM NoWakeupIsLost == Spec => []NoLostWakeup
<1>1. IInv => NoLostWakeup
  BY DEF IInv
<1>2. QED
  BY <1>1, Invariance, PTL

\* An opened connection is in the acceptor's table, or has both its timer and its
\* receive outstanding: the destructor never meets it opened.
THEOREM OpenedStaysDriven == Spec => []OpenedIsDriven
<1>1. IInv => OpenedIsDriven
  BY DEF IInv
<1>2. QED
  BY <1>1, Invariance, PTL

\* An inline handler may close the connection and drop its last pointer: check_read_op,
\* which goes on behind it, is still in the hands of the table or the timer.
THEOREM InlineStaysHeld == Spec => []InlineIsHeld
<1>1. IInv => InlineIsHeld
  BY DEF IInv
<1>2. QED
  BY <1>1, Invariance, PTL

\* What holds a connection on either side, and that the receive chain of a closed one has
\* ended or is about to.
HoldersInv ==
  /\ IsServer => timer_ = "off" /\ recv = "off"
  /\ ~IsServer => ~table
  /\ state_ = "closed" => recv # "waiting"

\* The step of ClosedLetsGo.
LetsGo ==
  state_ = "closed" =>
    /\ state_' = "closed"
    /\ recv' # "waiting" /\ (recv = "off" => recv' = "off")
    /\ timer_ = "off" => timer_' = "off"
    /\ table' => table
    /\ recv = "off" /\ ~table => quiet' >= quiet

\* Every step keeps HoldersInv and, when the connection is closed, lets go.
LEMMA NextLetsGo == IInv /\ HoldersInv /\ [Next]_vars => HoldersInv' /\ LetsGo
<1> SUFFICES ASSUME IInv, HoldersInv, [Next]_vars PROVE HoldersInv' /\ LetsGo
  OBVIOUS
<1> USE DEF HoldersInv, LetsGo, IInv, TypeOK
<1>1. CASE App
  <2>1. ASSUME NEW kind \in {"some", "stream"}, AsyncRead(kind) PROVE HoldersInv' /\ LetsGo
    BY <2>1 DEF AsyncRead
  <2>2. ASSUME NEW k \in 0..MaxWaitSnd, AsyncWrite(k) PROVE HoldersInv' /\ LetsGo
    BY <2>2 DEF AsyncWrite
  <2>3. CASE AsyncWriteTooLong \/ AppRelease
    BY <2>3 DEF AsyncWriteTooLong, AppRelease
  <2>4. CASE AppClose
    BY <2>4 DEF AppClose, Close, CloseSocket, CancelWaits
  <2> QED
    BY <1>1, <2>1, <2>2, <2>3, <2>4 DEF App
<1>2. CASE Datagram
  <2>1. ASSUME NEW a \in 0..MaxAvail, NEW d \in 0..MaxWaitSnd, OnData(a, d)
        PROVE  HoldersInv' /\ LetsGo
    BY <2>1 DEF OnData, Receiving, Opened, ReceiveAgain
  <2>2. CASE OnShort \/ OnOther
    BY <2>2 DEF OnShort, OnOther, Receiving, Opened, ReceiveAgain
  <2>3. CASE OnDisconnect
    BY <2>3 DEF OnDisconnect, Receiving, Opened, ReceiveAgain, Close, CancelWaits
  <2> QED
    BY <1>2, <2>1, <2>2, <2>3 DEF Datagram
<1>3. CASE OnReceiveError
  BY <1>3 DEF OnReceiveError, Close, CancelWaits
<1>9. CASE HandlerReturns
  BY <1>9 DEF HandlerReturns, ReceiveAgain
<1>4. CASE RunCheck \/ RunReadFailure \/ RunWriteCompletion \/ SendDone
  BY <1>4 DEF RunCheck, RunReadFailure, RunWriteCompletion, SendDone
<1>5. CASE Tick \/ TimerExpires \/ TimerCancelled
  BY <1>5 DEF Tick, TimerExpires, TimerCancelled
<1>6. CASE TimerHandler
  BY <1>6 DEF TimerHandler, CloseSocket
<1>7. CASE AcceptorUpdate \/ Superseded
  <2>1. UNCHANGED <<timer_, recv, quiet>> /\ (table' => table)
    BY <1>7 DEF AcceptorUpdate, Superseded, Close, CancelWaits
  <2>2. state_ = "closed" => state_' = "closed"
    BY <1>7 DEF AcceptorUpdate, Superseded, Close
  <2>3. IsServer
    BY <1>7 DEF AcceptorUpdate, Superseded
  <2> QED
    BY <2>1, <2>2, <2>3
<1>8. CASE UNCHANGED vars
  BY <1>8
<1> QED
  BY <1>1, <1>2, <1>3, <1>4, <1>5, <1>6, <1>7, <1>8, <1>9 DEF Next

\* A closed connection is only ever let go of: the safety half of ClosedIsReleased, for
\* every way in which close meets a timer or a receive that has just succeeded.
THEOREM ClosedIsLetGo == Spec => ClosedLetsGo
<1>1. Init => HoldersInv
  BY DEF Init, HoldersInv
<1>2. IInv /\ HoldersInv /\ [Next]_vars => HoldersInv'
  BY NextLetsGo
<1>3. IInv /\ HoldersInv /\ [Next]_vars => [LetsGo]_vars
  BY NextLetsGo
<1>4. Spec => [][LetsGo]_vars
  BY <1>1, <1>2, <1>3, Invariance, PTL DEF Spec
<1> QED
  BY <1>4, Zenon DEF ClosedLetsGo, LetsGo
=============================================================================
