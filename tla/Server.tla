-------------------------------- MODULE Server --------------------------------
(***************************************************************************)
(* The server of main.c: the accept loop of main, the queue of accepted    *)
(* sockets (FifoQueue, implemented by ConnQueue), the pool that runs one   *)
(* handle_client per accepted connection (WorkPool, implemented by         *)
(* ThreadPool), and the get_stop job.                                      *)
(*                                                                         *)
(* A handle_client job is not told which connection it is for: it takes    *)
(* the oldest socket of the queue.  A job is named here for the client in  *)
(* whose round of the accept loop it was added.                            *)
(*                                                                         *)
(* A step is one call to the kernel, the queue or the pool, with the local *)
(* computation that follows it.  The kernel's descriptor table, with the   *)
(* lowest free descriptor given out first, and the end of a connection at  *)
(* the client's side are modelled from how main.c and network.c use them.  *)
(***************************************************************************)
EXTENDS Integers, Sequences, FiniteSets

CONSTANTS
  Clients,    \* the connections clients make
  Scripts,    \* the sequences of packets a client may send
  MaxFd,      \* the largest descriptor the process may open
  MaxFaults,  \* a bound on failed allocations in the accept loop
  Stop,       \* the get_stop job
  NoClient    \* no connection: a free descriptor

\* 0, 1 and 2 are the standard streams and 3 is sockfd.
Fds == 4 .. MaxFd

\* What queue_dequeue returns when the queue is empty.
NoFd == 0

Jobs == Clients \cup {Stop}

VARIABLES
  script, conn, read, replies,   \* the clients' side, as in StatusSession
  peer       \* the client's end: "open", "closed", or "reset" after the
             \* server has sent to a closed end

VARIABLES
  open,      \* the descriptor table: the connection behind each descriptor
  alive      \* the process: "yes", "exited", or "killed" by SIGPIPE

VARIABLES
  main,           \* where the accept loop is
  client_sockfd,  \* its local client_sockfd
  round,          \* auxiliary: the client of this round
  cnnts,          \* the queue of sockets
  pending,        \* the jobs in the pool that have not started
  status          \* what has become of each job, as in WorkPool

VARIABLES
  at,        \* where each handle_client is
  sock,      \* its local client_sockfd
  hs_packet, \* the client whose handshake it has read
  held       \* it holds a packet network_recv has allocated

(* Auxiliary: what failed allocations have led to. *)
VARIABLES
  lostFds,   \* the sockets accepted and never put in the queue
  lostJobs,  \* how many sockets were queued without a job being added
  dry        \* how many jobs have found the queue empty

clientVars  == <<script, conn, read, replies, peer>>
mainVars    == <<main, client_sockfd, round>>
poolVars    == <<pending, status>>
handlerVars == <<at, hs_packet, held>>
faultVars   == <<lostFds, lostJobs>>
vars == <<clientVars, open, alive, mainVars, cnnts, poolVars, handlerVars,
          sock, faultVars, dry>>

Session == INSTANCE StatusSession
Queue == INSTANCE FifoQueue
           WITH Data <- Fds, Callers <- Clients, Nothing <- NoFd,
                items <- cnnts, got <- sock
Pool == INSTANCE WorkPool WITH Works <- Jobs, Endless <- {Stop}

ASSUME ServerAssumption ==
  /\ Scripts \subseteq Seq(Session!Packets)
  /\ MaxFd \in Nat /\ MaxFaults \in Nat
  /\ Stop \notin Clients /\ NoClient \notin Clients

Init ==
  /\ Session!Init /\ Queue!Init /\ Pool!Init
  /\ peer = [c \in Clients |-> "open"]
  /\ open = [f \in Fds |-> NoClient]
  /\ alive = "yes"
  /\ main = "start" /\ client_sockfd = NoFd /\ round = NoClient
  /\ at = [j \in Clients |-> "dequeue"]
  /\ hs_packet = [j \in Clients |-> NoClient]
  /\ held = [j \in Clients |-> FALSE]
  /\ lostFds = {} /\ lostJobs = 0 /\ dry = 0

\* The process has neither called exit nor been killed.
Running == alive = "yes"

-------------------------------------------------------------------------------
(* The clients. *)

Connect(c) ==
  /\ Running
  /\ Session!Connect(c)
  /\ UNCHANGED <<peer, open, alive, mainVars, cnnts, poolVars, handlerVars,
                 sock, faultVars, dry>>

\* The client closes its end; what it has sent can still be read.
Depart(c) ==
  /\ Running
  /\ peer[c] = "open" /\ conn[c] \in {"waiting", "open"}
  /\ peer' = [peer EXCEPT ![c] = "closed"]
  /\ UNCHANGED <<script, conn, read, replies, open, alive, mainVars, cnnts,
                 poolVars, handlerVars, sock, faultVars, dry>>

\* What the server sends to a closed end is answered with a reset.
Reset(c) ==
  /\ Running
  /\ peer[c] = "closed" /\ replies[c] # <<>>
  /\ peer' = [peer EXCEPT ![c] = "reset"]
  /\ UNCHANGED <<script, conn, read, replies, open, alive, mainVars, cnnts,
                 poolVars, handlerVars, sock, faultVars, dry>>

-------------------------------------------------------------------------------
(* main. *)

\* What follows each call of the accept loop.
After == [accept |-> "enqueue", enqueue |-> "add", add |-> "accept"]

\* The get_stop job is added before the first connection is accepted.
AddStop ==
  /\ Running
  /\ main = "start"
  /\ Pool!Add(Stop)
  /\ main' = "accept"
  /\ UNCHANGED <<clientVars, open, alive, client_sockfd, round, cnnts,
                 handlerVars, sock, faultVars, dry>>

\* Something fails before that: main returns 1.
StartFails ==
  /\ Running
  /\ main = "start"
  /\ alive' = "exited"
  /\ UNCHANGED <<clientVars, open, mainVars, cnnts, poolVars, handlerVars,
                 sock, faultVars, dry>>

\* accept gives the connection the lowest free descriptor.  With none free it
\* fails, and the loop tries again.
AcceptConn(c) ==
  /\ Running
  /\ main = "accept"
  /\ \E f \in Fds :
       /\ open[f] = NoClient
       /\ \A g \in Fds : open[g] = NoClient => f <= g
       /\ open' = [open EXCEPT ![f] = c]
       /\ client_sockfd' = f
  /\ Session!Accept(c)
  /\ round' = c
  /\ main' = After["accept"]
  /\ UNCHANGED <<peer, alive, cnnts, poolVars, handlerVars, sock, faultVars, dry>>

\* client_addr_len is passed without a value: when what is there is a negative
\* length, accept takes the connection, closes it and fails.
AcceptFails(c) ==
  /\ Running
  /\ main = "accept"
  /\ Session!Refuse(c)
  /\ UNCHANGED <<peer, open, alive, mainVars, cnnts, poolVars, handlerVars, sock,
                 faultVars, dry>>

EnqueueFd ==
  /\ Running
  /\ main = "enqueue"
  /\ Queue!Enqueue(client_sockfd)
  /\ main' = After["enqueue"]
  /\ UNCHANGED <<clientVars, open, alive, client_sockfd, round, poolVars,
                 handlerVars, faultVars, dry>>

Faults == Cardinality(lostFds) + lostJobs

\* malloc fails in queue_enqueue, which says nothing: the socket stays open.
EnqueueFails ==
  /\ Running
  /\ main = "enqueue"
  /\ Faults < MaxFaults
  /\ lostFds' = lostFds \cup {client_sockfd}
  /\ main' = After["enqueue"]
  /\ UNCHANGED <<clientVars, open, alive, client_sockfd, round, cnnts, poolVars,
                 handlerVars, sock, lostJobs, dry>>

AddJob ==
  /\ Running
  /\ main = "add"
  /\ Pool!Add(round)
  /\ main' = After["add"]
  /\ UNCHANGED <<clientVars, open, alive, client_sockfd, round, cnnts,
                 handlerVars, sock, faultVars, dry>>

\* thrdpool_add_work fails: the socket stays in the queue.
AddFails ==
  /\ Running
  /\ main = "add"
  /\ Faults < MaxFaults
  /\ lostJobs' = lostJobs + 1
  /\ main' = After["add"]
  /\ UNCHANGED <<clientVars, open, alive, client_sockfd, round, cnnts, poolVars,
                 handlerVars, sock, lostFds, dry>>

MainStep ==
  \/ AddStop \/ EnqueueFd \/ EnqueueFails \/ AddJob \/ AddFails
  \/ \E c \in Clients : AcceptConn(c) \/ AcceptFails(c)

-------------------------------------------------------------------------------
(* The pool, and get_stop. *)

StartJob ==
  /\ Running
  /\ Pool!Start
  /\ UNCHANGED <<clientVars, open, alive, mainVars, cnnts, handlerVars, sock,
                 faultVars, dry>>

\* "stop" is read from stdin and get_stop calls exit(0).
StopServer ==
  /\ Running
  /\ status[Stop] = "running"
  /\ alive' = "exited"
  /\ UNCHANGED <<clientVars, open, mainVars, cnnts, poolVars, handlerVars, sock,
                 faultVars, dry>>

-------------------------------------------------------------------------------
(* handle_client, run by job j. *)

Client(j) == open[sock[j]]

Go(j, place) == at' = [at EXCEPT ![j] = place]

Dequeue(j) ==
  /\ Running
  /\ status[j] = "running" /\ at[j] = "dequeue"
  /\ Queue!Dequeue(j)
  /\ Go(j, IF Head(cnnts) < 3 THEN "return" ELSE "setsockopt")
  /\ UNCHANGED <<clientVars, open, alive, mainVars, poolVars, hs_packet, held,
                 faultVars, dry>>

DequeueEmpty(j) ==
  /\ Running
  /\ status[j] = "running" /\ at[j] = "dequeue"
  /\ Queue!DequeueEmpty(j)
  /\ Go(j, "return")
  /\ dry' = dry + 1
  /\ UNCHANGED <<clientVars, open, alive, mainVars, poolVars, hs_packet, held,
                 faultVars>>

\* setsockopt, with the two outcomes of its check.
SetTimeout(j) ==
  /\ Running
  /\ at[j] = "setsockopt"
  /\ \E place \in {"handshake", "close"} : Go(j, place)
  /\ UNCHANGED <<clientVars, open, alive, mainVars, cnnts, poolVars, hs_packet,
                 held, sock, faultVars, dry>>

\* network_recv succeeds: the client's next packet.
Recv(j) ==
  /\ read[Client(j)] < Len(script[Client(j)])
  /\ read' = [read EXCEPT ![Client(j)] = @ + 1]

Received(j) == script[Client(j)][read[Client(j)] + 1]

\* Mutation: the handler returns without closing the connection.
RecvFailsOpen(j) ==
  /\ Running
  /\ at[j] \in {"handshake", "request", "ping"}
  /\ Go(j, "return")
  /\ UNCHANGED <<clientVars, open, alive, mainVars, cnnts, poolVars, hs_packet,
                 held, sock, faultVars, dry>>

\* Mutation: without the timeout a silent client with an open end is waited for.
RecvFailsUntimed(j) ==
  /\ Running
  /\ at[j] \in {"handshake", "request", "ping"}
  /\ peer[Client(j)] # "open"
  /\ Go(j, "close")
  /\ UNCHANGED <<clientVars, open, alive, mainVars, cnnts, poolVars, hs_packet,
                 held, sock, faultVars, dry>>

\* network_recv fails: the timeout of 5 seconds, the end of the stream, a
\* packet that arrives in pieces, or a failed malloc.
RecvFails(j) ==
  /\ Running
  /\ at[j] \in {"handshake", "request", "ping"}
  /\ Go(j, "close")
  /\ UNCHANGED <<clientVars, open, alive, mainVars, cnnts, poolVars, hs_packet,
                 held, sock, faultVars, dry>>

\* What handshake_packet_read makes of a packet: a request for the status,
\* another request, or a failure.  See AsksForStatus for the short packet.
HandshakeResults(packet) ==
  CASE packet = "status"  -> {"status"}
    [] packet = "login"   -> {"other"}
    [] packet = "ping"    -> {"failure"}
    [] packet = "request" -> {"status", "other", "failure"}

\* After a failure the packet is not freed.
RecvHandshake(j) ==
  /\ Running
  /\ at[j] = "handshake"
  /\ Recv(j)
  /\ \E result \in HandshakeResults(Received(j)) :
       /\ Go(j, IF result = "status" THEN "request" ELSE "close")
       /\ held' = [held EXCEPT ![j] = result = "failure"]
  /\ hs_packet' = [hs_packet EXCEPT ![j] = Client(j)]
  /\ UNCHANGED <<script, conn, replies, peer, open, alive, mainVars, cnnts,
                 poolVars, sock, faultVars, dry>>

\* Mutation: the packet is not looked at.
RecvAnything(j) ==
  /\ Running
  /\ at[j] = "request"
  /\ Recv(j)
  /\ Go(j, "respond")
  /\ UNCHANGED <<script, conn, replies, peer, open, alive, mainVars, cnnts,
                 poolVars, hs_packet, held, sock, faultVars, dry>>

\* Nor is it when it is not a request.
RecvRequest(j) ==
  /\ Running
  /\ at[j] = "request"
  /\ Recv(j)
  /\ Go(j, IF Session!IsRequest(Received(j)) THEN "respond" ELSE "close")
  /\ held' = [held EXCEPT ![j] = ~Session!IsRequest(Received(j))]
  /\ UNCHANGED <<script, conn, replies, peer, open, alive, mainVars, cnnts,
                 poolVars, hs_packet, sock, faultVars, dry>>

\* network_send to an end that has reset the connection raises SIGPIPE, which
\* the process does not ignore.
SendKills(j) ==
  /\ Running
  /\ at[j] \in {"respond", "pong"}
  /\ peer[Client(j)] = "reset"
  /\ alive' = "killed"
  /\ UNCHANGED <<clientVars, open, mainVars, cnnts, poolVars, handlerVars, sock,
                 faultVars, dry>>

Reply(j, reply) ==
  replies' = [replies EXCEPT ![Client(j)] = Append(@, reply)]

\* The status, with the protocol version of the handshake.
SendStatus(j) ==
  /\ Running
  /\ at[j] = "respond" /\ peer[Client(j)] # "reset"
  /\ Reply(j, <<"status", hs_packet[j]>>)
  /\ Go(j, "ping")
  /\ UNCHANGED <<script, conn, read, peer, open, alive, mainVars, cnnts,
                 poolVars, hs_packet, held, sock, faultVars, dry>>

\* No JSON, JSON that is too long, no packet, or send returns an error.
SendStatusFails(j) ==
  /\ Running
  /\ at[j] = "respond" /\ peer[Client(j)] # "reset"
  /\ Go(j, "close")
  /\ UNCHANGED <<clientVars, open, alive, mainVars, cnnts, poolVars, hs_packet,
                 held, sock, faultVars, dry>>

RecvPing(j) ==
  /\ Running
  /\ at[j] = "ping"
  /\ Recv(j)
  /\ Go(j, "pong")
  /\ held' = [held EXCEPT ![j] = TRUE]
  /\ UNCHANGED <<script, conn, replies, peer, open, alive, mainVars, cnnts,
                 poolVars, hs_packet, sock, faultVars, dry>>

\* Mutation: the packet is not freed when it cannot be sent.
KeptAfterPong(j) == held

\* The packet is freed whether it could be sent or not.
FreedAfterPong(j) == [held EXCEPT ![j] = FALSE]

SendPong(j) ==
  /\ Running
  /\ at[j] = "pong" /\ peer[Client(j)] # "reset"
  /\ Reply(j, <<"pong", Client(j)>>)
  /\ Go(j, "close")
  /\ held' = FreedAfterPong(j)
  /\ UNCHANGED <<script, conn, read, peer, open, alive, mainVars, cnnts,
                 poolVars, hs_packet, sock, faultVars, dry>>

SendPongFails(j) ==
  /\ Running
  /\ at[j] = "pong" /\ peer[Client(j)] # "reset"
  /\ Go(j, "close")
  /\ held' = FreedAfterPong(j)
  /\ UNCHANGED <<clientVars, open, alive, mainVars, cnnts, poolVars, hs_packet,
                 sock, faultVars, dry>>

CloseFd(j) ==
  /\ Running
  /\ at[j] = "close"
  /\ Session!Close(Client(j))
  /\ open' = [open EXCEPT ![sock[j]] = NoClient]
  /\ Go(j, "return")
  /\ UNCHANGED <<peer, alive, mainVars, cnnts, poolVars, hs_packet, held, sock,
                 faultVars, dry>>

Return(j) ==
  /\ Running
  /\ at[j] = "return"
  /\ Pool!Finish(j)
  /\ Go(j, "done")
  /\ UNCHANGED <<clientVars, open, alive, mainVars, cnnts, hs_packet, held, sock,
                 faultVars, dry>>

Handler(j) ==
  \/ Dequeue(j) \/ DequeueEmpty(j) \/ SetTimeout(j)
  \/ RecvHandshake(j) \/ RecvRequest(j) \/ RecvPing(j) \/ RecvFails(j)
  \/ SendStatus(j) \/ SendStatusFails(j) \/ SendPong(j) \/ SendPongFails(j)
  \/ SendKills(j)
  \/ CloseFd(j) \/ Return(j)

-------------------------------------------------------------------------------
Next ==
  \/ \E c \in Clients : Connect(c) \/ Depart(c) \/ Reset(c)
  \/ MainStep \/ StartFails
  \/ StartJob \/ StopServer
  \/ \E j \in Clients : Handler(j)

Spec == Init /\ [][Next]_vars

(***************************************************************************)
(* The accept loop and the handlers are threads that are scheduled; every  *)
(* call of a handler returns, network_recv by its timeout and network_send *)
(* because clients read or go away; and the pool starts the oldest job,    *)
(* which is ThreadPool's WorkStarts.                                       *)
(***************************************************************************)
FairSpec ==
  /\ Spec
  /\ WF_vars(MainStep)
  /\ WF_vars(StartJob)
  /\ \A j \in Clients : WF_vars(Handler(j))

-------------------------------------------------------------------------------
(* Properties. *)

Places == {"dequeue", "setsockopt", "handshake", "request", "respond", "ping",
           "pong", "close", "return", "done"}

\* A handler uses its socket from the dequeue to the close.
Using(j) == at[j] \in Places \ {"dequeue", "return", "done"}

\* Every variable has its type; a socket that is queued or used is one.
TypeOK ==
  /\ script \in [Clients -> Scripts]
  /\ conn \in [Clients -> {"new", "waiting", "open", "closed"}]
  /\ read \in [Clients -> Nat]
  /\ replies \in [Clients -> Seq({"status", "pong"} \X Clients)]
  /\ peer \in [Clients -> {"open", "closed", "reset"}]
  /\ open \in [Fds -> Clients \cup {NoClient}]
  /\ alive \in {"yes", "exited", "killed"}
  /\ main \in {"start", "accept", "enqueue", "add"}
  /\ client_sockfd \in Fds \cup {NoFd} /\ round \in Clients \cup {NoClient}
  /\ cnnts \in Seq(Fds)
  /\ pending \in Seq(Jobs)
  /\ status \in [Jobs -> {"new", "queued", "running", "done"}]
  /\ at \in [Clients -> Places]
  /\ sock \in [Clients -> Fds \cup {NoFd}]
  /\ \A j \in Clients : Using(j) => sock[j] \in Fds
  /\ hs_packet \in [Clients -> Clients \cup {NoClient}]
  /\ held \in [Clients -> BOOLEAN]
  /\ lostFds \subseteq Fds /\ lostJobs \in Nat /\ dry \in Nat

\* Who is to see that descriptor f is closed: main until it is queued, its
\* place in the queue, the handler that has taken it, or, when it could not be
\* queued, nobody.
Owners(f) ==
  {o \in {<<"main", main>>} : main = "enqueue" /\ client_sockfd = f}
    \cup {<<"queue", k>> : k \in {k \in 1 .. Len(cnnts) : cnnts[k] = f}}
    \cup {<<"handler", j>> : j \in {j \in Clients : Using(j) /\ sock[j] = f}}
    \cup {o \in {<<"nobody", f>>} : f \in lostFds}

\* An open descriptor has one owner at a time and a closed one has none:
\* no handler works on a descriptor that has been closed and given to another
\* client, no socket is closed twice, and none is left open by a handler.
FdOwnership ==
  \A f \in Fds : IF open[f] = NoClient THEN Owners(f) = {}
                                       ELSE \E o \in Owners(f) : Owners(f) = {o}

\* The jobs that have not taken their socket yet.
Undelivered == {j \in Clients : status[j] \in {"queued", "running"} /\ at[j] = "dequeue"}

\* One socket is queued for each of these jobs, but for what failed: a job that
\* was not added leaves a socket behind, a socket that was not queued takes one
\* away, and from then on every client is served in another's round.  Unless
\* queue_enqueue has failed, no handler finds the queue empty (the test of line
\* 64): the socket is queued before the job is added.
QueueMatchesJobs ==
  /\ Len(cnnts) + Cardinality(lostFds) =
       Cardinality(Undelivered) + lostJobs + dry + (IF main = "add" THEN 1 ELSE 0)
  /\ lostFds = {} => dry = 0

\* A client is answered as the protocol says, whatever the other threads do:
\* its own status once, after its own handshake and request, then its ping.
ImplementsStatusSession == Session!Spec

\* A handler that has come to its end has freed every packet it received, but
\* for one: the packet over which it has turned its client away.
LeakOnlyOnRejection ==
  \A j \in Clients : at[j] \in {"return", "done"} /\ held[j] =>
    LET c == hs_packet[j] IN
      /\ c \in Clients /\ conn[c] = "closed" /\ replies[c] = <<>>
      /\ \/ read[c] = 1 /\ script[c][1] \in {"request", "ping"}
         \/ read[c] = 2 /\ ~Session!IsRequest(script[c][2])

\* network.h, lines 34 and 35: "send a packet to a socket, return -1 if fail".  A send
\* that fails comes back to handle_client, which closes the connection.
FailedSendReturns ==
  [][\A j \in Clients : at[j] \in {"respond", "pong"} /\ peer[Client(j)] = "reset" =>
       at'[j] \in {at[j], "close"} /\ alive' # "killed"]_vars

\* Every client that connects is let go in the end, unless the process ends or
\* an allocation has failed in the accept loop.
EveryClientLeaves ==
  \A c \in Clients :
    conn[c] = "waiting" ~> conn[c] = "closed" \/ alive # "yes" \/ Faults > 0

===============================================================================
