---------------------------- MODULE StatusSession ----------------------------
(***************************************************************************)
(* The server list ping protocol as each client sees it: what a connection *)
(* may go through, and which answers it may get.  util/packets.h describes *)
(* the packets.  Server implements this module: its threads, its queue and *)
(* the reuse of descriptors are invisible to a client.                     *)
(*                                                                         *)
(* A packet is abstracted to what the server can tell of it:               *)
(*   "status"   a handshake whose next_state is 1                          *)
(*   "login"    a handshake with another next_state                        *)
(*   "request"  packet id 0 and no body: a status request                  *)
(*   "ping"     a packet with another id                                   *)
(***************************************************************************)
EXTENDS Naturals, Sequences

CONSTANTS
  Clients,   \* the connections clients make
  Scripts    \* the sequences of packets a client may send

Packets == {"status", "login", "request", "ping"}

\* A packet the server may take for a handshake that asks for the status.  The
\* server does not compare a field with the length of the packet: behind a
\* packet that is too short for a handshake it may find anything.
AsksForStatus(packet) == packet \in {"status", "request"}

\* A packet the server takes for a status request: only the id is looked at.
IsRequest(packet) == packet # "ping"

VARIABLES
  script,    \* the packets each client sends
  conn,      \* "new", "waiting", "open" or "closed"
  read,      \* how many of its packets the server has read
  replies    \* what the server has sent it; each answer names the client it is meant for

vars == <<script, conn, read, replies>>

Init ==
  /\ script \in [Clients -> Scripts]
  /\ conn = [c \in Clients |-> "new"]
  /\ read = [c \in Clients |-> 0]
  /\ replies = [c \in Clients |-> <<>>]

Connect(c) ==
  /\ conn[c] = "new"
  /\ conn' = [conn EXCEPT ![c] = "waiting"]
  /\ UNCHANGED <<script, read, replies>>

Accept(c) ==
  /\ conn[c] = "waiting"
  /\ conn' = [conn EXCEPT ![c] = "open"]
  /\ UNCHANGED <<script, read, replies>>

Refuse(c) ==
  /\ conn[c] = "waiting"
  /\ conn' = [conn EXCEPT ![c] = "closed"]
  /\ UNCHANGED <<script, read, replies>>

\* A packet is read only when the ones before it called for it: a request
\* after a handshake that asks for the status, a ping after the status.
Read(c) ==
  /\ conn[c] = "open"
  /\ read[c] < Len(script[c])
  /\ \/ read[c] = 0
     \/ read[c] = 1 /\ AsksForStatus(script[c][1])
     \/ read[c] = 2 /\ Len(replies[c]) = 1
  /\ read' = [read EXCEPT ![c] = read[c] + 1]
  /\ UNCHANGED <<script, conn, replies>>

\* The status is sent once, for the client's own handshake and request.
SendStatus(c) ==
  /\ conn[c] = "open"
  /\ read[c] = 2 /\ IsRequest(script[c][2])
  /\ replies[c] = <<>>
  /\ replies' = [replies EXCEPT ![c] = <<<<"status", c>>>>]
  /\ UNCHANGED <<script, conn, read>>

\* Whatever follows the request is sent back.
SendPong(c) ==
  /\ conn[c] = "open"
  /\ read[c] = 3 /\ Len(replies[c]) = 1
  /\ replies' = [replies EXCEPT ![c] = Append(replies[c], <<"pong", c>>)]
  /\ UNCHANGED <<script, conn, read>>

Close(c) ==
  /\ conn[c] = "open"
  /\ conn' = [conn EXCEPT ![c] = "closed"]
  /\ UNCHANGED <<script, read, replies>>

Next ==
  \E c \in Clients :
    \/ Connect(c) \/ Accept(c) \/ Refuse(c)
    \/ Read(c) \/ SendStatus(c) \/ SendPong(c)
    \/ Close(c)

Spec == Init /\ [][Next]_vars

===============================================================================
