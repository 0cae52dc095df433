--------------------------- MODULE SessionPromise ---------------------------
(***************************************************************************)
(* What async_connect and async_accept promise together when every socket  *)
(* has a port of its own and no datagram is repeated: connects and accepts *)
(* match one to one, a client is connected only to a connection that was   *)
(* accepted for it, and the two talk to nobody else.                       *)
(***************************************************************************)
EXTENDS Naturals

CONSTANTS
  Client,  \* the calls of async_connect
  Server   \* names for the connections a server accepts

VARIABLES
  accepted,   \* pairs: the server's connection was accepted for the client
  connected,  \* pairs: the client's connect was answered by the server's connection
  toServer,   \* pairs: the server's connection took data of the client
  toClient    \* pairs: the client's connection took data of the server

vars == <<accepted, connected, toServer, toClient>>

Init ==
  /\ accepted = {} /\ connected = {} /\ toServer = {} /\ toClient = {}

Accept(c, s) ==
  /\ \A p \in accepted : p[1] # c /\ p[2] # s
  /\ accepted' = accepted \cup {<<c, s>>}
  /\ UNCHANGED <<connected, toServer, toClient>>

Connect(c, s) ==
  /\ <<c, s>> \in accepted
  /\ connected' = connected \cup {<<c, s>>}
  /\ UNCHANGED <<accepted, toServer, toClient>>

DataToServer(c, s) ==
  /\ <<c, s>> \in connected
  /\ toServer' = toServer \cup {<<c, s>>}
  /\ UNCHANGED <<accepted, connected, toClient>>

DataToClient(c, s) ==
  /\ <<c, s>> \in connected
  /\ toClient' = toClient \cup {<<c, s>>}
  /\ UNCHANGED <<accepted, connected, toServer>>

Next ==
  \E c \in Client, s \in Server :
    Accept(c, s) \/ Connect(c, s) \/ DataToServer(c, s) \/ DataToClient(c, s)

Spec == Init /\ [][Next]_vars
=============================================================================
