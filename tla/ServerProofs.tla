----------------------------- MODULE ServerProofs -----------------------------
(***************************************************************************)
(* Proofs about Server for any clients, scripts, descriptors and faults.   *)
(*                                                                         *)
(* IInv is inductive.  That no handler works on another's descriptor       *)
(* (OwnedOnce) and that each is behind its own client (ConnsOpen) make the *)
(* place of a handler say what its client has seen (InStage), which is     *)
(* what the session is about, whichever thread runs the handler and        *)
(* whichever round of the accept loop its socket is from.                  *)
(***************************************************************************)
EXTENDS Server, FiniteSetTheorems, TLAPS

\* Every owner of a descriptor is its only one, and the descriptor is open; an
\* open descriptor has an owner.  FdOwnership says it with sets of owners.
OwnedOnce ==
  /\ main = "enqueue" =>
       /\ client_sockfd \in Fds \ lostFds /\ open[client_sockfd] # NoClient
       /\ \A k \in 1 .. Len(cnnts) : cnnts[k] # client_sockfd
       /\ \A j \in Clients : Using(j) => sock[j] # client_sockfd
  /\ \A k \in 1 .. Len(cnnts) :
       /\ cnnts[k] \notin lostFds /\ open[cnnts[k]] # NoClient
       /\ \A l \in 1 .. Len(cnnts) : cnnts[k] = cnnts[l] => k = l
       /\ \A j \in Clients : Using(j) => sock[j] # cnnts[k]
  /\ \A j \in Clients : Using(j) =>
       /\ sock[j] \notin lostFds /\ open[sock[j]] # NoClient
       /\ \A i \in Clients : Using(i) /\ sock[i] = sock[j] => i = j
  /\ \A f \in lostFds : open[f] # NoClient

AllOwned ==
  \A f \in Fds : open[f] # NoClient =>
    \/ main = "enqueue" /\ client_sockfd = f
    \/ \E k \in 1 .. Len(cnnts) : cnnts[k] = f
    \/ \E j \in Clients : Using(j) /\ sock[j] = f
    \/ f \in lostFds

\* A descriptor that is open is behind the open connection of one client.
ConnsOpen ==
  \A f \in Fds : open[f] # NoClient =>
    /\ conn[open[f]] = "open"
    /\ \A g \in Fds : open[g] = open[f] => g = f

Untouched(c) == read[c] = 0 /\ replies[c] = <<>>

\* Nothing has been read from a client whose socket no handler has.
NotYetServed ==
  /\ \A c \in Clients : conn[c] \in {"new", "waiting"} => Untouched(c)
  /\ \A f \in Fds :
       open[f] # NoClient /\ (\A j \in Clients : Using(j) => sock[j] # f)
         => Untouched(open[f])

\* What the client of handler j has sent and got when j is at that place.
Stage(j) ==
  LET c == Client(j) IN
    /\ at[j] \in {"setsockopt", "handshake"} => Untouched(c)
    /\ at[j] \in {"request", "respond", "ping", "pong"} => hs_packet[j] = c
    /\ at[j] = "request" =>
         read[c] = 1 /\ Session!AsksForStatus(script[c][1]) /\ replies[c] = <<>>
    /\ at[j] = "respond" =>
         read[c] = 2 /\ Session!IsRequest(script[c][2]) /\ replies[c] = <<>>
    /\ at[j] = "ping" => read[c] = 2 /\ Len(replies[c]) = 1
    /\ at[j] = "pong" => read[c] = 3 /\ Len(replies[c]) = 1

InStage == \A j \in Clients : Using(j) => Stage(j)

\* The client whose handshake j has read was turned away over its last packet.
Rejected(j) ==
  LET c == hs_packet[j] IN
    /\ c \in Clients /\ replies[c] = <<>>
    /\ \/ read[c] = 1 /\ script[c][1] \in {"request", "ping"}
       \/ read[c] = 2 /\ ~Session!IsRequest(script[c][2])

\* A packet is held until it has been sent back, or because of a rejection.
HeldForReason ==
  \A j \in Clients : held[j] =>
    /\ at[j] \in {"pong", "close", "return", "done"}
    /\ at[j] = "close" => hs_packet[j] = Client(j) /\ Rejected(j)
    /\ at[j] \in {"return", "done"} => Rejected(j) /\ conn[hs_packet[j]] = "closed"

\* The jobs in the pool are those added and not started, each once, and a job
\* that has not started has done nothing.
JobsInOrder ==
  /\ \A k \in 1 .. Len(pending) : status[pending[k]] = "queued"
  /\ \A k, l \in 1 .. Len(pending) : pending[k] = pending[l] => k = l
  /\ \A j \in Clients : status[j] \in {"new", "queued"} => at[j] = "dequeue"
  /\ main \in {"enqueue", "add"} => round \in Clients
  /\ IsFiniteSet(Undelivered)

IInv ==
  /\ TypeOK /\ OwnedOnce /\ AllOwned /\ ConnsOpen
  /\ NotYetServed /\ InStage /\ HeldForReason
  /\ JobsInOrder /\ QueueMatchesJobs

-------------------------------------------------------------------------------
(* What groups of steps have in common. *)

\* Only the clients' ends and the end of the process are touched.
Aside ==
  /\ UNCHANGED <<script, conn, read, replies, open, mainVars, cnnts, poolVars,
                 handlerVars, sock, faultVars, dry>>
  /\ peer' \in [Clients -> {"open", "closed", "reset"}]
  /\ alive' \in {"yes", "exited", "killed"}

\* Handler j works on its socket, between the dequeue and the close.
Working(j) ==
  \/ SetTimeout(j) \/ RecvFails(j)
  \/ RecvHandshake(j) \/ RecvRequest(j) \/ RecvPing(j)
  \/ SendStatus(j) \/ SendStatusFails(j) \/ SendPong(j) \/ SendPongFails(j)

\* No descriptor of a connection fails handle_client's test of its socket.
LEMMA FdsType == NoFd \notin Fds /\ Fds \subseteq Int /\ \A f \in Fds : ~ (f < 3)
BY ServerAssumption DEF Fds, NoFd

LEMMA ClientType ==
  ASSUME TypeOK, OwnedOnce, NEW j \in Clients, Using(j)
  PROVE  /\ sock[j] \in Fds /\ Client(j) = open[sock[j]]
         /\ Client(j) \in Clients /\ Client(j) # NoClient
BY DEF TypeOK, OwnedOnce, Client

\* Two handlers never have the same client.
LEMMA OneHandlerEach ==
  ASSUME TypeOK, OwnedOnce, ConnsOpen,
         NEW i \in Clients, NEW j \in Clients, Using(i), Using(j), i # j
  PROVE  Client(i) # Client(j)
<1>1. sock[i] \in Fds /\ sock[j] \in Fds /\ open[sock[i]] # NoClient
  BY ClientType
<1>2. sock[i] # sock[j]
  BY DEF OwnedOnce
<1>3. QED
  BY <1>1, <1>2 DEF ConnsOpen, Client

\* A script is a sequence of packets.
LEMMA ScriptType ==
  ASSUME TypeOK, NEW c \in Clients
  PROVE  script[c] \in Seq(Session!Packets) /\ Len(script[c]) \in Nat
<1>1. script[c] \in Seq(Session!Packets)
  BY ServerAssumption DEF TypeOK
<1>2. QED
  BY <1>1

\* A working handler stays one, and touches its own state and its client's.
LEMMA WorkingFrame ==
  ASSUME TypeOK, OwnedOnce, NEW j \in Clients, Working(j)
  PROVE  /\ Using(j)
         /\ UNCHANGED <<script, conn, peer, open, alive, mainVars, cnnts, poolVars,
                        sock, faultVars, dry>>
         /\ \E place \in Places \ {"dequeue", "return", "done"} :
              at' = [at EXCEPT ![j] = place]
         /\ \A c \in Clients \ {Client(j)} :
              read'[c] = read[c] /\ replies'[c] = replies[c]
         /\ \A i \in Clients \ {j} : held'[i] = held[i] /\ hs_packet'[i] = hs_packet[i]
<1> USE DEF TypeOK, Go, Using, Places, clientVars, handlerVars
<1>1. Using(j) => Client(j) \in Clients
  BY ClientType
<1>2. CASE SetTimeout(j)
  BY <1>2 DEF SetTimeout
<1>3. CASE RecvFails(j)
  BY <1>3 DEF RecvFails
<1>4. CASE RecvHandshake(j)
  BY <1>1, <1>4 DEF RecvHandshake, Recv
<1>5. CASE RecvRequest(j)
  BY <1>1, <1>5 DEF RecvRequest, Recv
<1>6. CASE RecvPing(j)
  BY <1>1, <1>6 DEF RecvPing, Recv
<1>7. CASE SendStatus(j)
  BY <1>1, <1>7 DEF SendStatus, Reply
<1>8. CASE SendStatusFails(j)
  BY <1>8 DEF SendStatusFails
<1>9. CASE SendPong(j)
  BY <1>1, <1>9 DEF SendPong, Reply, FreedAfterPong
<1>10. CASE SendPongFails(j)
  BY <1>10 DEF SendPongFails, FreedAfterPong
<1>11. QED
  BY <1>2, <1>3, <1>4, <1>5, <1>6, <1>7, <1>8, <1>9, <1>10 DEF Working

LEMMA WorkingUses ==
  ASSUME TypeOK, OwnedOnce, NEW j \in Clients, Working(j)
  PROVE  Using(j)'
<1>1. PICK place \in Places \ {"dequeue", "return", "done"} :
        at' = [at EXCEPT ![j] = place]
  BY WorkingFrame
<1>2. at'[j] = place
  BY <1>1 DEF TypeOK
<1>3. QED
  BY <1>2 DEF Using

\* Every step is one of these.
LEMMA Steps ==
  ASSUME TypeOK, [Next]_vars
  PROVE  \/ Aside
         \/ \E c \in Clients : Connect(c) \/ AcceptConn(c) \/ AcceptFails(c)
         \/ AddStop \/ EnqueueFd \/ EnqueueFails \/ AddJob \/ AddFails \/ StartJob
         \/ \E j \in Clients : \/ Dequeue(j) \/ DequeueEmpty(j) \/ Working(j)
                               \/ CloseFd(j) \/ Return(j)
<1> USE DEF TypeOK, Aside, clientVars
<1>1. ASSUME NEW c \in Clients, Depart(c) \/ Reset(c) PROVE Aside
  BY <1>1 DEF Depart, Reset
<1>2. CASE StartFails \/ StopServer
  BY <1>2 DEF StartFails, StopServer
<1>3. ASSUME NEW j \in Clients, SendKills(j) PROVE Aside
  BY <1>3 DEF SendKills
<1>4. CASE UNCHANGED vars
  BY <1>4 DEF vars
<1>5. QED
  BY <1>1, <1>2, <1>3, <1>4 DEF Next, MainStep, Handler, Working

-------------------------------------------------------------------------------
LEMMA IInvInit == Init => IInv
<1> SUFFICES ASSUME Init PROVE IInv
  OBVIOUS
<1> USE ServerAssumption DEF Init, Session!Init, Queue!Init, Pool!Init
<1>1. Jobs = Clients \cup {Stop} /\ cnnts = <<>> /\ pending = <<>>
  BY DEF Jobs
<1>2. \A j \in Clients : at[j] = "dequeue" /\ status[j] = "new" /\ ~Using(j)
  BY <1>1 DEF Using
<1>3. TypeOK
  BY <1>1, <1>2 DEF TypeOK, Places
<1>4. OwnedOnce /\ AllOwned /\ ConnsOpen
  BY <1>1, <1>2 DEF OwnedOnce, AllOwned, ConnsOpen
<1>5. NotYetServed /\ InStage /\ HeldForReason
  BY <1>2 DEF NotYetServed, Untouched, InStage, HeldForReason
<1>6. Undelivered = {}
  BY <1>2 DEF Undelivered
<1>7. JobsInOrder
  BY <1>1, <1>2, <1>6, FS_EmptySet DEF JobsInOrder
<1>8. QueueMatchesJobs
  BY <1>1, <1>6, FS_EmptySet DEF QueueMatchesJobs
<1>9. QED
  BY <1>3, <1>4, <1>5, <1>7, <1>8 DEF IInv

LEMMA AsideKeeps == IInv /\ Aside => IInv'
<1> SUFFICES ASSUME IInv, Aside PROVE IInv'
  OBVIOUS
<1> USE DEF IInv, Aside, mainVars, poolVars, handlerVars, faultVars
<1>1. /\ \A j \in Clients : (Using(j) <=> Using(j)') /\ Client(j)' = Client(j)
      /\ \A c \in Clients : Untouched(c)' = Untouched(c)
      /\ \A j \in Clients : Stage(j)' = Stage(j) /\ Rejected(j)' = Rejected(j)
      /\ Undelivered' = Undelivered
  BY DEF Using, Client, Untouched, Stage, Rejected, Undelivered
<1>2. TypeOK'
  BY <1>1 DEF TypeOK
<1>3. OwnedOnce' /\ AllOwned' /\ ConnsOpen'
  BY <1>1 DEF OwnedOnce, AllOwned, ConnsOpen
<1>4. NotYetServed' /\ InStage' /\ HeldForReason'
  BY <1>1 DEF NotYetServed, InStage, HeldForReason, Untouched
<1>5. JobsInOrder' /\ QueueMatchesJobs'
  BY <1>1 DEF JobsInOrder, QueueMatchesJobs
<1>6. QED
  BY <1>2, <1>3, <1>4, <1>5

-------------------------------------------------------------------------------
(* Types. *)

LEMMA WorkingType ==
  ASSUME IInv, NEW j \in Clients, Working(j)
  PROVE  TypeOK'
<1>1. TypeOK /\ OwnedOnce /\ InStage
  BY DEF IInv
<1>2. /\ Using(j) /\ Client(j) \in Clients
      /\ at[j] = "respond" => hs_packet[j] = Client(j)
  BY <1>1, WorkingFrame, ClientType DEF InStage, Stage
<1> DEFINE c == Client(j)
<1>3. /\ read' \in [Clients -> Nat] /\ hs_packet' \in [Clients -> Clients \cup {NoClient}]
      /\ held' \in [Clients -> BOOLEAN]
  <2> USE <1>1, <1>2 DEF TypeOK, clientVars
  <2>1. CASE SetTimeout(j) \/ RecvFails(j) \/ SendStatusFails(j)
    BY <2>1 DEF SetTimeout, RecvFails, SendStatusFails
  <2>2. CASE RecvHandshake(j)
    BY <2>2 DEF RecvHandshake, Recv
  <2>3. CASE RecvRequest(j)
    <3> HIDE DEF Client
    <3>1. read' \in [Clients -> Nat] /\ UNCHANGED hs_packet
      BY <2>3 DEF RecvRequest, Recv
    <3>2. held' \in [Clients -> BOOLEAN]
      BY <2>3, Zenon DEF RecvRequest, Session!IsRequest
    <3>3. QED
      BY <3>1, <3>2
  <2>4. CASE RecvPing(j)
    BY <2>4 DEF RecvPing, Recv
  <2>5. CASE SendStatus(j)
    BY <2>5 DEF SendStatus
  <2>6. CASE SendPong(j) \/ SendPongFails(j)
    BY <2>6 DEF SendPong, SendPongFails, FreedAfterPong
  <2>7. QED
    BY <2>1, <2>2, <2>3, <2>4, <2>5, <2>6 DEF Working
<1>4. replies' \in [Clients -> Seq({"status", "pong"} \X Clients)]
  <2>1. \A w \in {"status", "pong"} \X Clients :
          replies[c] \in Seq({"status", "pong"} \X Clients)
            /\ Append(replies[c], w) \in Seq({"status", "pong"} \X Clients)
    BY <1>1, <1>2 DEF TypeOK
  <2>2. CASE SendStatus(j)
    <3>1. /\ <<"status", hs_packet[j]>> \in {"status", "pong"} \X Clients
          /\ replies' = [replies EXCEPT ![c] = Append(replies[c], <<"status", hs_packet[j]>>)]
      BY <1>2, <2>2 DEF SendStatus, Reply
    <3>2. QED
      BY <1>1, <2>1, <3>1 DEF TypeOK
  <2>3. CASE SendPong(j)
    <3>1. /\ <<"pong", c>> \in {"status", "pong"} \X Clients
          /\ replies' = [replies EXCEPT ![c] = Append(replies[c], <<"pong", c>>)]
      BY <1>2, <2>3 DEF SendPong, Reply
    <3>2. QED
      BY <1>1, <2>1, <3>1 DEF TypeOK
  <2>4. CASE UNCHANGED replies
    BY <1>1, <2>4 DEF TypeOK
  <2>5. SendStatus(j) \/ SendPong(j) \/ UNCHANGED replies
    BY DEF Working, SetTimeout, RecvFails, RecvHandshake, RecvRequest, RecvPing,
           SendStatusFails, SendPongFails, clientVars
  <2>6. QED
    BY <2>2, <2>3, <2>4, <2>5
<1>5. QED
  <2>1. \A i \in Clients : Using(i)' => Using(i)
    BY <1>1, <1>2, WorkingFrame DEF TypeOK, Using, Places
  <2>2. at' \in [Clients -> Places]
    BY <1>1, WorkingFrame DEF TypeOK
  <2>3. QED
    BY <1>1, <1>3, <1>4, <2>1, <2>2, WorkingFrame
       DEF TypeOK, mainVars, poolVars, faultVars

LEMMA TypeNext ==
  ASSUME IInv, [Next]_vars
  PROVE  TypeOK'
<1>1. TypeOK /\ OwnedOnce
  BY DEF IInv
<1>2. CASE Aside
  BY <1>2, AsideKeeps DEF IInv
<1> USE DEF clientVars, mainVars, poolVars, handlerVars, faultVars, Jobs
<1>3. ASSUME NEW c \in Clients, Connect(c) \/ AcceptConn(c) \/ AcceptFails(c)
      PROVE  TypeOK'
  <2>1. CASE Connect(c) \/ AcceptFails(c)
    BY <1>1, <2>1
       DEF TypeOK, Connect, AcceptFails, Using, Session!Connect, Session!Refuse
  <2>2. CASE AcceptConn(c)
    <3>1. main' = "enqueue"
      BY <2>2 DEF AcceptConn, After
    <3>2. /\ open' \in [Fds -> Clients \cup {NoClient}] /\ client_sockfd' \in Fds
          /\ conn' \in [Clients -> {"new", "waiting", "open", "closed"}]
      BY <1>1, <2>2 DEF TypeOK, AcceptConn, Session!Accept
    <3>3. QED
      BY <1>1, <2>2, <3>1, <3>2 DEF TypeOK, AcceptConn, Session!Accept, Using
  <2>3. QED
    BY <1>3, <2>1, <2>2
<1>4. CASE AddStop
  BY <1>1, <1>4 DEF TypeOK, Using, AddStop, Pool!Add
<1>5. CASE AddJob
  <2>1. round \in Clients
    BY <1>5 DEF IInv, JobsInOrder, AddJob
  <2>2. QED
    BY <1>1, <1>5, <2>1 DEF TypeOK, Using, AddJob, Pool!Add, After
<1>6. CASE EnqueueFd
  BY <1>1, <1>6 DEF TypeOK, OwnedOnce, Using, EnqueueFd, Queue!Enqueue, After
<1>7. CASE EnqueueFails
  BY <1>1, <1>7 DEF TypeOK, OwnedOnce, Using, EnqueueFails, After
<1>8. CASE AddFails
  BY <1>1, <1>8 DEF TypeOK, Using, AddFails, After
<1>9. CASE StartJob
  BY <1>1, <1>9 DEF TypeOK, Using, StartJob, Pool!Start
<1>10. ASSUME NEW j \in Clients, Dequeue(j) PROVE TypeOK'
  <2>1. /\ Head(cnnts) \in Fds /\ sock' = [sock EXCEPT ![j] = Head(cnnts)]
        /\ cnnts' \in Seq(Fds)
    BY <1>1, <1>10 DEF TypeOK, Dequeue, Queue!Dequeue
  <2>2. at' = [at EXCEPT ![j] = "setsockopt"]
    <3>1. ~(Head(cnnts) < 3)
      BY <2>1, FdsType, Zenon
    <3>2. QED
      BY <1>10, <3>1 DEF Dequeue, Go
  <2>3. \A i \in Clients : Using(i)' => i = j \/ Using(i)
    BY <1>1, <2>2 DEF TypeOK, Using
  <2>4. at' \in [Clients -> Places] /\ sock' \in [Clients -> Fds \cup {NoFd}]
    BY <1>1, <2>1, <2>2 DEF TypeOK, Places
  <2>5. \A i \in Clients : Using(i)' => sock'[i] \in Fds
    BY <1>1, <2>1, <2>3 DEF TypeOK
  <2>6. QED
    BY <1>1, <1>10, <2>1, <2>4, <2>5 DEF TypeOK, Dequeue
<1>11. ASSUME NEW j \in Clients, DequeueEmpty(j) PROVE TypeOK'
  <2>1. at' = [at EXCEPT ![j] = "return"] /\ sock' = [sock EXCEPT ![j] = NoFd]
    BY <1>11 DEF DequeueEmpty, Queue!DequeueEmpty, Go
  <2>2. \A i \in Clients : Using(i)' => i # j /\ Using(i)
    BY <1>1, <2>1 DEF TypeOK, Using
  <2>3. at' \in [Clients -> Places] /\ sock' \in [Clients -> Fds \cup {NoFd}]
    BY <1>1, <2>1 DEF TypeOK, Places
  <2>4. \A i \in Clients : Using(i)' => sock'[i] \in Fds
    BY <1>1, <2>1, <2>2 DEF TypeOK
  <2>5. QED
    BY <1>1, <1>11, <2>3, <2>4 DEF TypeOK, DequeueEmpty, Queue!DequeueEmpty
<1>12. ASSUME NEW j \in Clients, CloseFd(j) \/ Return(j) PROVE TypeOK'
  <2>1. at' = [at EXCEPT ![j] = "return"] \/ at' = [at EXCEPT ![j] = "done"]
    BY <1>12 DEF CloseFd, Return, Go
  <2>2. at' \in [Clients -> Places] /\ \A i \in Clients : Using(i)' => Using(i)
    BY <1>1, <2>1 DEF TypeOK, Using, Places
  <2>3. QED
    BY <1>1, <1>12, <2>2 DEF TypeOK, CloseFd, Return, Session!Close, Pool!Finish
<1>13. QED
  BY <1>1, <1>2, <1>3, <1>4, <1>5, <1>6, <1>7, <1>8, <1>9, <1>10, <1>11, <1>12,
     WorkingType, Steps

-------------------------------------------------------------------------------
(* Descriptors. *)

\* The steps that hand a descriptor on; the others leave every owner as it is.
LEMMA OwnersFrame ==
  ASSUME TypeOK, OwnedOnce, [Next]_vars
  PROVE  \/ \E c \in Clients : AcceptConn(c)
         \/ EnqueueFd \/ EnqueueFails
         \/ \E j \in Clients : Dequeue(j) \/ CloseFd(j)
         \/ /\ UNCHANGED <<open, cnnts, lostFds, client_sockfd>>
            /\ main = "enqueue" <=> main' = "enqueue"
            /\ \A j \in Clients : /\ Using(j)' <=> Using(j)
                                  /\ Using(j) => sock'[j] = sock[j]
<1> DEFINE Same == /\ UNCHANGED <<open, cnnts, lostFds, client_sockfd>>
                   /\ main = "enqueue" <=> main' = "enqueue"
                   /\ \A j \in Clients : /\ Using(j)' <=> Using(j)
                                         /\ Using(j) => sock'[j] = sock[j]
<1> USE DEF mainVars, handlerVars, faultVars, Using
<1>1. CASE Aside
  BY <1>1 DEF Aside
<1>2. ASSUME NEW c \in Clients, Connect(c) \/ AcceptFails(c) PROVE Same
  BY <1>2 DEF Connect, AcceptFails
<1>3. CASE AddStop
  BY <1>3 DEF AddStop
<1>4. CASE AddJob
  BY <1>4 DEF AddJob, After
<1>5. CASE AddFails
  BY <1>5 DEF AddFails, After
<1>6. CASE StartJob
  BY <1>6 DEF StartJob
<1>7. ASSUME NEW j \in Clients, DequeueEmpty(j) PROVE Same
  BY <1>7 DEF TypeOK, DequeueEmpty, Queue!DequeueEmpty, Go
<1>8. ASSUME NEW j \in Clients, Working(j) PROVE Same
  <2>1. PICK place \in Places \ {"dequeue", "return", "done"} :
          at' = [at EXCEPT ![j] = place]
    BY <1>8, WorkingFrame
  <2>2. Using(j) /\ Using(j)' /\ \A i \in Clients \ {j} : at'[i] = at[i]
    BY <1>8, <2>1, WorkingFrame DEF TypeOK
  <2>3. QED
    BY <1>8, <2>2, WorkingFrame
<1>9. ASSUME NEW j \in Clients, Return(j) PROVE Same
  BY <1>9 DEF TypeOK, Return, Go
<1>10. QED
  BY <1>1, <1>2, <1>3, <1>4, <1>5, <1>6, <1>7, <1>8, <1>9, Steps

\* What each of them does, in one place.
Accepts(c) ==
  \E f \in Fds : /\ open[f] = NoClient
                 /\ open' = [open EXCEPT ![f] = c] /\ client_sockfd' = f
                 /\ main # "enqueue" /\ main' = "enqueue"
                 /\ conn[c] = "waiting" /\ conn' = [conn EXCEPT ![c] = "open"]
                 /\ UNCHANGED <<script, read, replies, cnnts, lostFds, at, sock>>

LEMMA AcceptDoes ==
  ASSUME TypeOK, NEW c \in Clients, AcceptConn(c)
  PROVE  Accepts(c)
BY DEF AcceptConn, Accepts, After, Session!Accept, handlerVars, faultVars

LEMMA EnqueueDoes ==
  ASSUME TypeOK, OwnedOnce, EnqueueFd
  PROVE  /\ main = "enqueue" /\ main' = "add" /\ client_sockfd \in Fds
         /\ cnnts' \in Seq(Fds) /\ Len(cnnts') = Len(cnnts) + 1 /\ Len(cnnts) \in Nat
         /\ \A k \in 1 .. Len(cnnts) : cnnts'[k] = cnnts[k]
         /\ cnnts'[Len(cnnts) + 1] = client_sockfd
         /\ UNCHANGED <<clientVars, open, client_sockfd, lostFds, at, sock>>
BY DEF TypeOK, OwnedOnce, EnqueueFd, Queue!Enqueue, After, handlerVars, faultVars

LEMMA DequeueDoes ==
  ASSUME TypeOK, NEW j \in Clients, Dequeue(j)
  PROVE  /\ at[j] = "dequeue" /\ at' = [at EXCEPT ![j] = "setsockopt"]
         /\ Len(cnnts) \in Nat /\ Len(cnnts) > 0 /\ cnnts[1] \in Fds
         /\ sock' = [sock EXCEPT ![j] = cnnts[1]]
         /\ cnnts' \in Seq(Fds) /\ Len(cnnts') = Len(cnnts) - 1
         /\ \A k \in 1 .. Len(cnnts') : cnnts'[k] = cnnts[k + 1]
         /\ UNCHANGED <<clientVars, open, main, client_sockfd, lostFds>>
<1>1. Head(cnnts) \in Fds /\ Head(cnnts) = cnnts[1] /\ cnnts # <<>>
  BY DEF TypeOK, Dequeue, Queue!Dequeue
<1>2. ~(Head(cnnts) < 3)
  BY <1>1, FdsType, Zenon
<1>3. at' = [at EXCEPT ![j] = "setsockopt"] /\ at[j] = "dequeue"
  BY <1>2 DEF Dequeue, Go
<1>4. QED
  BY <1>1, <1>3 DEF TypeOK, Dequeue, Queue!Dequeue, mainVars, faultVars

LEMMA CloseDoes ==
  ASSUME TypeOK, OwnedOnce, NEW j \in Clients, CloseFd(j)
  PROVE  /\ at[j] = "close" /\ Using(j) /\ sock[j] \in Fds /\ Client(j) \in Clients
         /\ at' = [at EXCEPT ![j] = "return"]
         /\ open' = [open EXCEPT ![sock[j]] = NoClient]
         /\ conn' = [conn EXCEPT ![Client(j)] = "closed"]
         /\ UNCHANGED <<script, read, replies, cnnts, main, client_sockfd,
                        lostFds, sock, hs_packet, held>>
<1>1. at[j] = "close" /\ Using(j)
  BY DEF CloseFd, Using, Places
<1>2. QED
  BY <1>1, ClientType DEF CloseFd, Session!Close, Go, mainVars, faultVars

LEMMA OwnedOnceNext ==
  ASSUME IInv, [Next]_vars
  PROVE  OwnedOnce'
<1> USE DEF OwnedOnce
<1>1. /\ TypeOK /\ OwnedOnce /\ AllOwned
      /\ cnnts \in Seq(Fds) /\ Len(cnnts) \in Nat /\ open \in [Fds -> Clients \cup {NoClient}]
  BY DEF IInv, TypeOK
<1>2. \A k \in 1 .. Len(cnnts) : cnnts[k] \in Fds
  BY <1>1
<1>3. ASSUME NEW c \in Clients, AcceptConn(c) PROVE OwnedOnce'
  <2>1. PICK f \in Fds :
          /\ open[f] = NoClient
          /\ open' = [open EXCEPT ![f] = c] /\ client_sockfd' = f
          /\ main # "enqueue" /\ main' = "enqueue"
          /\ UNCHANGED <<cnnts, lostFds, at, sock>>
    BY <1>1, <1>3, AcceptDoes DEF Accepts
  <2>2. c # NoClient
    BY ServerAssumption
  <2>3. \A g \in Fds : open[g] # NoClient => open'[g] # NoClient /\ g # f
    BY <1>1, <2>1, <2>2
  <2>4. open'[f] # NoClient
    BY <1>1, <2>1, <2>2
  <2>5. \A j \in Clients : /\ Using(j)' <=> Using(j)
                           /\ Using(j) => sock[j] \in Fds
    BY <1>1, <2>1 DEF Using, TypeOK
  <2>6. lostFds \subseteq Fds
    BY <1>1 DEF TypeOK
  <2>7. QED
    BY <1>1, <1>2, <2>1, <2>3, <2>4, <2>5, <2>6
<1>4. CASE EnqueueFd
  <2> DEFINE n == Len(cnnts)
  <2>1. /\ main' # "enqueue" /\ client_sockfd \in Fds \ lostFds
        /\ open[client_sockfd] # NoClient
        /\ \A k \in 1 .. n : cnnts[k] # client_sockfd
        /\ \A j \in Clients : Using(j) => sock[j] # client_sockfd
    BY <1>1, <1>4, EnqueueDoes
  <2>2. /\ UNCHANGED <<open, lostFds, sock>>
        /\ \A j \in Clients : Using(j)' <=> Using(j)
    BY <1>1, <1>4, EnqueueDoes DEF Using
  <2>3. \A k \in 1 .. Len(cnnts') : \/ k \in 1 .. n /\ cnnts'[k] = cnnts[k]
                                    \/ k = n + 1 /\ cnnts'[k] = client_sockfd
    BY <1>1, <1>4, EnqueueDoes
  <2>4. QED
    BY <1>1, <2>1, <2>2, <2>3
<1>5. CASE EnqueueFails
  BY <1>1, <1>2, <1>5 DEF EnqueueFails, Using, After, handlerVars
<1>6. ASSUME NEW j \in Clients, Dequeue(j) PROVE OwnedOnce'
  <2>1. \A i \in Clients : Using(i)' <=> Using(i) \/ i = j
    BY <1>1, <1>6, DequeueDoes DEF TypeOK, Using, Places
  <2>2. \A i \in Clients : sock'[i] = IF i = j THEN cnnts[1] ELSE sock[i]
    BY <1>1, <1>6, DequeueDoes DEF TypeOK
  <2>3. /\ UNCHANGED <<open, main, client_sockfd, lostFds>>
        /\ 1 \in 1 .. Len(cnnts)
        /\ \A k \in 1 .. Len(cnnts') : k + 1 \in 1 .. Len(cnnts) /\ k + 1 # 1
                                       /\ cnnts'[k] = cnnts[k + 1]
    BY <1>1, <1>6, DequeueDoes
  <2>4. \A k, l \in 1 .. Len(cnnts') : cnnts'[k] = cnnts'[l] => k = l
    <3> TAKE k, l \in 1 .. Len(cnnts')
    <3> DEFINE m == k + 1
               n == l + 1
    <3>1. /\ m \in 1 .. Len(cnnts) /\ cnnts'[k] = cnnts[m]
          /\ n \in 1 .. Len(cnnts) /\ cnnts'[l] = cnnts[n]
      BY <2>3
    <3>2. cnnts[m] = cnnts[n] => m = n
      <4> HIDE DEF m, n
      <4>1. QED
        BY <1>1, <3>1
    <3>3. QED
      BY <3>1, <3>2
  <2>5. \A k \in 1 .. Len(cnnts') :
          /\ cnnts'[k] \notin lostFds /\ open[cnnts'[k]] # NoClient
          /\ cnnts'[k] # cnnts[1] /\ main = "enqueue" => cnnts'[k] # client_sockfd
          /\ \A i \in Clients : Using(i) => sock[i] # cnnts'[k]
    BY <1>1, <2>3
  <2>6. /\ cnnts[1] \notin lostFds /\ open[cnnts[1]] # NoClient
        /\ main = "enqueue" => cnnts[1] # client_sockfd
        /\ \A i \in Clients : Using(i) => sock[i] # cnnts[1]
    BY <1>1, <2>3
  <2>7. QED
    BY <1>1, <2>1, <2>2, <2>3, <2>4, <2>5, <2>6
<1>7. ASSUME NEW j \in Clients, CloseFd(j) PROVE OwnedOnce'
  <2>1. \A i \in Clients : Using(i)' <=> Using(i) /\ i # j
    BY <1>1, <1>7, CloseDoes DEF TypeOK, Using, Places
  <2>2. \A f \in Fds : f # sock[j] => open'[f] = open[f]
    BY <1>1, <1>7, CloseDoes
  <2>3. /\ UNCHANGED <<cnnts, main, client_sockfd, lostFds, sock>>
        /\ Using(j) /\ lostFds \subseteq Fds
        /\ \A i \in Clients : Using(i) => sock[i] \in Fds
    BY <1>1, <1>7, CloseDoes DEF TypeOK
  <2>4. QED
    BY <1>1, <1>2, <2>1, <2>2, <2>3
<1>8. QED
  BY <1>1, <1>3, <1>4, <1>5, <1>6, <1>7, OwnersFrame

LEMMA AllOwnedNext ==
  ASSUME IInv, [Next]_vars
  PROVE  AllOwned'
<1> USE DEF AllOwned
<1>1. /\ TypeOK /\ OwnedOnce /\ AllOwned
      /\ cnnts \in Seq(Fds) /\ Len(cnnts) \in Nat /\ open \in [Fds -> Clients \cup {NoClient}]
  BY DEF IInv, TypeOK
<1>2. ASSUME NEW c \in Clients, AcceptConn(c) PROVE AllOwned'
  BY <1>1, <1>2, AcceptDoes DEF Accepts, Using
<1>3. CASE EnqueueFd
  BY <1>1, <1>3, EnqueueDoes DEF Using, clientVars
<1>4. CASE EnqueueFails
  BY <1>1, <1>4 DEF EnqueueFails, Using, After, handlerVars
<1>5. ASSUME NEW j \in Clients, Dequeue(j) PROVE AllOwned'
  <2>1. /\ \A i \in Clients : Using(i)' <=> Using(i) \/ i = j
        /\ ~Using(j)
    BY <1>1, <1>5, DequeueDoes DEF TypeOK, Using, Places
  <2>2. \A i \in Clients : sock'[i] = IF i = j THEN cnnts[1] ELSE sock[i]
    BY <1>1, <1>5, DequeueDoes DEF TypeOK
  <2>3. \A k \in 1 .. Len(cnnts) :
          k = 1 \/ \E l \in 1 .. Len(cnnts') : cnnts'[l] = cnnts[k]
    <3> TAKE k \in 1 .. Len(cnnts)
    <3> SUFFICES ASSUME k # 1 PROVE \E l \in 1 .. Len(cnnts') : cnnts'[l] = cnnts[k]
      OBVIOUS
    <3> DEFINE l == k - 1
    <3>1. l \in 1 .. Len(cnnts') /\ l + 1 = k
      BY <1>1, <1>5, DequeueDoes
    <3>2. cnnts'[l] = cnnts[l + 1]
      BY <1>1, <1>5, <3>1, DequeueDoes
    <3>3. QED
      BY <3>1, <3>2
  <2>4. /\ UNCHANGED <<open, main, client_sockfd, lostFds>>
        /\ Using(j)' /\ sock'[j] = cnnts[1]
    BY <1>1, <1>5, <2>1, <2>2, DequeueDoes
  <2>5. QED
    BY <1>1, <2>1, <2>2, <2>3, <2>4
<1>6. ASSUME NEW j \in Clients, CloseFd(j) PROVE AllOwned'
  <2>1. \A i \in Clients : Using(i)' <=> Using(i) /\ i # j
    BY <1>1, <1>6, CloseDoes DEF TypeOK, Using, Places
  <2>2. QED
    BY <1>1, <1>6, <2>1, CloseDoes
<1>7. QED
  BY <1>1, <1>2, <1>3, <1>4, <1>5, <1>6, OwnersFrame

-------------------------------------------------------------------------------
(* Connections. *)

LEMMA ConnsOpenNext ==
  ASSUME IInv, [Next]_vars
  PROVE  ConnsOpen'
<1> USE DEF ConnsOpen
<1>1. /\ TypeOK /\ OwnedOnce /\ ConnsOpen /\ NoClient \notin Clients
      /\ open \in [Fds -> Clients \cup {NoClient}]
      /\ conn \in [Clients -> {"new", "waiting", "open", "closed"}]
  BY ServerAssumption DEF IInv, TypeOK
<1>2. ASSUME NEW c \in Clients, Connect(c) \/ AcceptFails(c) PROVE ConnsOpen'
  <2>1. /\ conn[c] \in {"new", "waiting"} /\ open' = open
        /\ \A d \in Clients \ {c} : conn'[d] = conn[d]
    BY <1>1, <1>2
       DEF Connect, AcceptFails, Session!Connect, Session!Refuse
  <2>2. \A f \in Fds : open[f] # c
    BY <1>1, <2>1
  <2>3. QED
    BY <1>1, <2>1, <2>2
<1>3. ASSUME NEW c \in Clients, AcceptConn(c) PROVE ConnsOpen'
  BY <1>1, <1>3, AcceptDoes DEF Accepts
<1>4. ASSUME NEW j \in Clients, CloseFd(j) PROVE ConnsOpen'
  <2>1. \A f \in Fds : f # sock[j] => open[f] # Client(j)
    BY <1>1, <1>4, CloseDoes, ClientType
  <2>2. QED
    BY <1>1, <1>4, <2>1, CloseDoes
<1>5. CASE UNCHANGED <<conn, open>>
  BY <1>1, <1>5
<1>6. \/ UNCHANGED <<conn, open>>
      \/ \E c \in Clients : Connect(c) \/ AcceptConn(c) \/ AcceptFails(c)
      \/ \E j \in Clients : CloseFd(j)
  <2> USE DEF clientVars
  <2>1. AddStop \/ EnqueueFd \/ EnqueueFails \/ AddJob \/ AddFails \/ StartJob
          => UNCHANGED <<conn, open>>
    BY DEF AddStop, EnqueueFd, EnqueueFails, AddJob, AddFails, StartJob
  <2>2. \A j \in Clients : Dequeue(j) \/ DequeueEmpty(j) \/ Return(j)
                             => UNCHANGED <<conn, open>>
    BY DEF Dequeue, DequeueEmpty, Return
  <2>3. \A j \in Clients : Working(j) => UNCHANGED <<conn, open>>
    BY <1>1, WorkingFrame
  <2>4. Aside => UNCHANGED <<conn, open>>
    BY DEF Aside
  <2>5. QED
    BY <1>1, <2>1, <2>2, <2>3, <2>4, Steps
<1>7. QED
  BY <1>2, <1>3, <1>4, <1>5, <1>6

\* What clients have sent and got changes only where a handler works.
LEMMA AnswersFrame ==
  ASSUME TypeOK, OwnedOnce, [Next]_vars
  PROVE  /\ script' = script
         /\ (\E j \in Clients : Working(j)) \/ UNCHANGED <<read, replies>>
<1> DEFINE Same == UNCHANGED <<script, read, replies>>
<1> USE DEF clientVars
<1>1. ASSUME NEW c \in Clients, Connect(c) \/ AcceptConn(c) \/ AcceptFails(c)
      PROVE  Same
  BY <1>1 DEF Connect, AcceptConn, AcceptFails, Session!Connect,
              Session!Accept, Session!Refuse
<1>2. AddStop \/ EnqueueFd \/ EnqueueFails \/ AddJob \/ AddFails \/ StartJob => Same
  BY DEF AddStop, EnqueueFd, EnqueueFails, AddJob, AddFails, StartJob
<1>3. ASSUME NEW j \in Clients, Dequeue(j) \/ DequeueEmpty(j) \/ CloseFd(j) \/ Return(j)
      PROVE  Same
  BY <1>3 DEF Dequeue, DequeueEmpty, CloseFd, Return, Session!Close
<1>4. Aside => Same
  BY DEF Aside
<1>5. ASSUME NEW j \in Clients, Working(j) PROVE script' = script
  BY <1>5, WorkingFrame
<1>6. QED
  BY <1>1, <1>2, <1>3, <1>4, <1>5, Steps

\* A handler's own state is touched by the handler only.
LEMMA HandlersFrame ==
  ASSUME TypeOK, OwnedOnce, [Next]_vars, NEW i \in Clients
  PROVE  \/ Working(i) \/ Dequeue(i) \/ DequeueEmpty(i) \/ CloseFd(i) \/ Return(i)
         \/ /\ at'[i] = at[i] /\ sock'[i] = sock[i]
            /\ hs_packet'[i] = hs_packet[i] /\ held'[i] = held[i]
<1> DEFINE Same == /\ at'[i] = at[i] /\ sock'[i] = sock[i]
                   /\ hs_packet'[i] = hs_packet[i] /\ held'[i] = held[i]
<1> USE DEF handlerVars
<1>1. ASSUME NEW c \in Clients, Connect(c) \/ AcceptConn(c) \/ AcceptFails(c)
      PROVE  Same
  BY <1>1 DEF Connect, AcceptConn, AcceptFails
<1>2. AddStop \/ EnqueueFd \/ EnqueueFails \/ AddJob \/ AddFails \/ StartJob => Same
  BY DEF AddStop, EnqueueFd, EnqueueFails, AddJob, AddFails, StartJob, Queue!Enqueue
<1>3. ASSUME NEW j \in Clients \ {i},
             Dequeue(j) \/ DequeueEmpty(j) \/ CloseFd(j) \/ Return(j)
      PROVE  Same
  BY <1>3 DEF TypeOK, Dequeue, DequeueEmpty, CloseFd, Return, Go,
              Queue!Dequeue, Queue!DequeueEmpty
<1>4. Aside => Same
  BY DEF Aside
<1>5. ASSUME NEW j \in Clients \ {i}, Working(j) PROVE Same
  <2>1. PICK place \in Places : at' = [at EXCEPT ![j] = place]
    BY <1>5, WorkingFrame
  <2>2. at'[i] = at[i]
    BY <2>1 DEF TypeOK
  <2>3. QED
    BY <1>5, <2>2, WorkingFrame
<1>6. QED
  BY <1>1, <1>2, <1>3, <1>4, <1>5, Steps

\* A handler keeps its client, and what its client has sent and got is as the
\* handler has left it.
LEMMA ClientKept ==
  ASSUME IInv, [Next]_vars, NEW i \in Clients, Using(i), Using(i)'
  PROVE  /\ Client(i)' = Client(i) /\ script' = script
         /\ \/ Working(i)
            \/ /\ read'[Client(i)] = read[Client(i)]
               /\ replies'[Client(i)] = replies[Client(i)]
               /\ at'[i] = at[i]
               /\ hs_packet'[i] = hs_packet[i] /\ held'[i] = held[i]
<1>1. TypeOK /\ OwnedOnce /\ ConnsOpen /\ open \in [Fds -> Clients \cup {NoClient}]
  BY DEF IInv, TypeOK
<1>2. Client(i) \in Clients /\ sock[i] \in Fds /\ open[sock[i]] # NoClient
  BY <1>1, ClientType
<1>3. ~Dequeue(i) /\ ~DequeueEmpty(i) /\ ~Return(i)
  BY DEF Using, Dequeue, DequeueEmpty, Return
<1>4. ~CloseFd(i)
  <2> SUFFICES ASSUME CloseFd(i) PROVE FALSE
    OBVIOUS
  <2>1. at' = [at EXCEPT ![i] = "return"]
    BY DEF CloseFd, Go
  <2>2. QED
    BY <1>1, <2>1 DEF Using, TypeOK
<1>5. sock'[i] = sock[i]
  BY <1>1, <1>3, <1>4, HandlersFrame, WorkingFrame
<1>6. open'[sock[i]] = open[sock[i]]
  <2>1. ASSUME NEW c \in Clients, AcceptConn(c) PROVE open'[sock[i]] = open[sock[i]]
    BY <1>1, <1>2, <2>1, AcceptDoes DEF Accepts
  <2>2. ASSUME NEW j \in Clients, CloseFd(j) PROVE open'[sock[i]] = open[sock[i]]
    <3>1. j # i /\ Using(j) /\ sock[j] \in Fds
             /\ open' = [open EXCEPT ![sock[j]] = NoClient]
      BY <1>1, <1>4, <2>2, CloseDoes
    <3>2. sock[j] # sock[i]
      BY <1>1, <3>1 DEF OwnedOnce
    <3>3. QED
      BY <1>1, <1>2, <3>1, <3>2
  <2>3. (EnqueueFd \/ EnqueueFails \/ \E j \in Clients : Dequeue(j)) => open' = open
    BY DEF EnqueueFd, EnqueueFails, Dequeue
  <2>4. QED
    BY <1>1, <2>1, <2>2, <2>3, OwnersFrame
<1>7. ASSUME NEW j \in Clients, Working(j), ~Working(i)
      PROVE  /\ read'[Client(i)] = read[Client(i)]
             /\ replies'[Client(i)] = replies[Client(i)]
  <2>1. Using(j) /\ Client(j) # Client(i)
    BY <1>1, <1>7, WorkingFrame, OneHandlerEach
  <2>2. QED
    BY <1>1, <1>2, <1>7, <2>1, WorkingFrame
<1>8. QED
  BY <1>1, <1>3, <1>4, <1>5, <1>6, <1>7, AnswersFrame, HandlersFrame DEF Client

LEMMA NotYetServedNext ==
  ASSUME IInv, [Next]_vars
  PROVE  NotYetServed'
<1>1. /\ TypeOK /\ OwnedOnce /\ ConnsOpen /\ NotYetServed
      /\ open \in [Fds -> Clients \cup {NoClient}] /\ TypeOK'
  BY TypeNext DEF IInv, TypeOK
<1>2. \A c \in Clients : /\ conn[c] \in {"new", "waiting"} => Untouched(c)
                         /\ conn'[c] \in {"new", "waiting"} => conn[c] \in {"new", "waiting"}
  <2>1. \A c \in Clients : conn[c] \in {"new", "waiting"} => Untouched(c)
    BY <1>1 DEF NotYetServed
  <2> USE DEF clientVars, TypeOK
  <2>2. ASSUME NEW c \in Clients, NEW d \in Clients,
               Connect(c) \/ AcceptConn(c) \/ AcceptFails(c),
               conn'[d] \in {"new", "waiting"}
        PROVE  conn[d] \in {"new", "waiting"}
    BY <1>1, <2>2 DEF Connect, AcceptConn, AcceptFails, Session!Connect,
                      Session!Accept, Session!Refuse
  <2>3. ASSUME NEW j \in Clients, CloseFd(j), NEW d \in Clients,
               conn'[d] \in {"new", "waiting"}
        PROVE  conn[d] \in {"new", "waiting"}
    <3>1. conn' = [conn EXCEPT ![Client(j)] = "closed"]
      BY <1>1, <2>3, CloseDoes
    <3>2. QED
      BY <1>1, <2>3, <3>1
  <2>4. AddStop \/ EnqueueFd \/ EnqueueFails \/ AddJob \/ AddFails \/ StartJob
          => UNCHANGED conn
    BY DEF AddStop, EnqueueFd, EnqueueFails, AddJob, AddFails, StartJob
  <2>5. \A j \in Clients : Dequeue(j) \/ DequeueEmpty(j) \/ Return(j) => UNCHANGED conn
    BY DEF Dequeue, DequeueEmpty, Return
  <2>6. \A j \in Clients : Working(j) => UNCHANGED conn
    BY <1>1, WorkingFrame
  <2>7. Aside => UNCHANGED conn
    BY DEF Aside
  <2>8. QED
    BY <1>1, <2>1, <2>2, <2>3, <2>4, <2>5, <2>6, <2>7, Steps
<1>3. ASSUME NEW c \in Clients, Untouched(c), ~Untouched(c)'
      PROVE  \E j \in Clients : Using(j) /\ Using(j)' /\ Client(j) = c
                                /\ Client(j)' = c /\ sock'[j] \in Fds
  <2>1. PICK j \in Clients : Working(j)
    BY <1>1, <1>3, AnswersFrame DEF Untouched
  <2>2. Using(j) /\ Client(j) = c
    BY <1>1, <1>3, <2>1, WorkingFrame DEF Untouched
  <2>3. Using(j)'
    BY <1>1, <2>1, WorkingUses
  <2>4. QED
    BY <1>1, <2>2, <2>3, ClientKept DEF TypeOK
<1>4. ASSUME NEW c \in Clients, conn'[c] \in {"new", "waiting"}
      PROVE  Untouched(c)'
  <2>1. conn[c] \in {"new", "waiting"} /\ Untouched(c)
    BY <1>2, <1>4
  <2>2. ~ \E j \in Clients : Using(j) /\ Client(j) = c
    BY <1>1, <2>1, ClientType DEF ConnsOpen
  <2>3. QED
    BY <1>3, <2>1, <2>2
<1>5. ASSUME NEW f \in Fds, NEW c \in Clients, open'[f] = c,
             \A j \in Clients : Using(j)' => sock'[j] # f
      PROVE  Untouched(c)'
  <2>1. c # NoClient /\ ConnsOpen'
    BY ConnsOpenNext, ServerAssumption
  <2>2. Untouched(c)
    <3>1. CASE open[f] = NoClient
      <4>1. PICK d \in Clients : AcceptConn(d)
        BY <1>1, <1>5, <2>1, <3>1, OwnersFrame, CloseDoes
           DEF EnqueueFd, EnqueueFails, Dequeue
      <4>2. c = d /\ conn[c] = "waiting"
        BY <1>1, <1>5, <2>1, <3>1, <4>1, AcceptDoes DEF Accepts
      <4>3. QED
        BY <1>2, <4>2
    <3>2. CASE open[f] # NoClient
      <4>1. open[f] = c
        BY <1>1, <1>5, <2>1, <3>2, OwnersFrame, CloseDoes, AcceptDoes
           DEF EnqueueFd, EnqueueFails, Dequeue, Accepts
      <4>2. CASE \A j \in Clients : Using(j) => sock[j] # f
        BY <1>1, <3>2, <4>1, <4>2 DEF NotYetServed
      <4>3. ASSUME NEW j \in Clients, Using(j), sock[j] = f PROVE FALSE
        <5>1. ~Using(j)' \/ sock'[j] # sock[j]
          BY <1>5, <4>3
        <5>2. CloseFd(j)
          <6>1. ~Dequeue(j) /\ ~DequeueEmpty(j) /\ ~Return(j)
            BY <4>3 DEF Using, Dequeue, DequeueEmpty, Return
          <6>2. Working(j) => Using(j)' /\ sock'[j] = sock[j]
            BY <1>1, WorkingUses, WorkingFrame
          <6>3. QED
            BY <1>1, <4>3, <5>1, <6>1, <6>2, HandlersFrame DEF Using
        <5>3. QED
          BY <1>1, <1>5, <2>1, <4>3, <5>2, CloseDoes
      <4>4. QED
        BY <4>2, <4>3
    <3>3. QED
      BY <3>1, <3>2
  <2>3. ASSUME ~Untouched(c)' PROVE FALSE
    <3>1. PICK j \in Clients : Using(j)' /\ Client(j)' = c /\ sock'[j] \in Fds
      BY <1>3, <2>2, <2>3
    <3>2. sock'[j] = f
      BY <1>5, <2>1, <3>1 DEF ConnsOpen, Client
    <3>3. QED
      BY <1>5, <3>1, <3>2
  <2>4. QED
    BY <2>3
<1>6. \A f \in Fds : open'[f] # NoClient => open'[f] \in Clients
  BY <1>1 DEF TypeOK
<1>7. QED
  BY <1>4, <1>5, <1>6 DEF NotYetServed

-------------------------------------------------------------------------------
(* Handlers. *)

\* Each step of a handler at work leads to the next stage.
LEMMA WorkingStage ==
  ASSUME IInv, [Next]_vars, NEW j \in Clients, Working(j)
  PROVE  /\ Stage(j)'
         /\ held'[j] => /\ at'[j] \in {"pong", "close"}
                        /\ at'[j] = "close" =>
                             hs_packet'[j] = Client(j)' /\ Rejected(j)'
<1>1. /\ TypeOK /\ OwnedOnce /\ Using(j) /\ Using(j)' /\ Stage(j)
      /\ held[j] => at[j] \in {"pong", "close", "return", "done"}
  BY WorkingFrame, WorkingUses DEF IInv, InStage, HeldForReason
<1>2. PICK c \in Clients : Client(j) = c /\ Client(j)' = c /\ script' = script
  BY <1>1, ClientType, ClientKept
<1>3. /\ read \in [Clients -> Nat] /\ at \in [Clients -> Places]
      /\ held \in [Clients -> BOOLEAN]
      /\ hs_packet \in [Clients -> Clients \cup {NoClient}]
      /\ replies \in [Clients -> Seq({"status", "pong"} \X Clients)]
      /\ script[c] \in Seq(Session!Packets)
  BY <1>1, <1>2, ScriptType DEF TypeOK
<1> DEFINE Goal == /\ Stage(j)'
                   /\ held'[j] => /\ at'[j] \in {"pong", "close"}
                                  /\ at'[j] = "close" =>
                                       hs_packet'[j] = Client(j)' /\ Rejected(j)'
<1> USE DEF Go, Stage, Untouched, clientVars
<1>4. CASE SetTimeout(j)
  BY <1>1, <1>2, <1>3, <1>4 DEF SetTimeout
<1>5. CASE RecvFails(j)
  BY <1>1, <1>2, <1>3, <1>5 DEF RecvFails
<1>6. CASE RecvHandshake(j)
  <2>1. at[j] = "handshake" /\ read[c] = 0 /\ replies[c] = <<>>
    BY <1>1, <1>2, <1>6 DEF RecvHandshake
  <2>2. Received(j) = script[c][1] /\ 0 < Len(script[c])
    BY <1>2, <1>6, <2>1 DEF RecvHandshake, Recv, Received
  <2>3. /\ read'[c] = 1 /\ replies' = replies
        /\ hs_packet' = [hs_packet EXCEPT ![j] = c]
    BY <1>2, <1>3, <1>6, <2>1 DEF RecvHandshake, Recv
  <2>4. PICK result \in HandshakeResults(script[c][1]) :
          /\ at' = [at EXCEPT ![j] = IF result = "status" THEN "request" ELSE "close"]
          /\ held' = [held EXCEPT ![j] = (result = "failure")]
    BY <1>6, <2>2 DEF RecvHandshake
  <2>5. script[c][1] \in Session!Packets
    BY <1>3, <2>2
  <2>6. /\ result = "status" => Session!AsksForStatus(script[c][1])
        /\ result = "failure" => script[c][1] \in {"request", "ping"}
    BY <2>4, <2>5 DEF HandshakeResults, Session!AsksForStatus, Session!Packets
  <2>7. /\ at'[j] = IF result = "status" THEN "request" ELSE "close"
        /\ hs_packet'[j] = c
        /\ held'[j] = (result = "failure")
    BY <1>3, <2>3, <2>4, Zenon
  <2>8. Stage(j)'
    BY <1>2, <2>1, <2>3, <2>6, <2>7 DEF Session!AsksForStatus
  <2>9. held'[j] => at'[j] = "close" /\ script'[c][1] \in {"request", "ping"}
    BY <1>2, <2>6, <2>7
  <2>10. QED
    BY <1>2, <2>1, <2>3, <2>7, <2>8, <2>9 DEF Rejected
<1>7. CASE RecvRequest(j)
  <2>1. /\ at[j] = "request" /\ read[c] = 1 /\ replies[c] = <<>>
        /\ hs_packet[j] = c
    BY <1>1, <1>2, <1>7 DEF RecvRequest
  <2>2. Received(j) = script[c][2]
    BY <1>2, <1>7, <2>1 DEF RecvRequest, Recv, Received
  <2>3. read'[c] = 2 /\ replies' = replies /\ hs_packet' = hs_packet
    BY <1>2, <1>3, <1>7, <2>1 DEF RecvRequest, Recv
  <2>4. /\ at'[j] = IF Session!IsRequest(script[c][2]) THEN "respond" ELSE "close"
        /\ held'[j] = ~Session!IsRequest(script[c][2])
    BY <1>3, <1>7, <2>2, Zenon DEF RecvRequest
  <2>5. Stage(j)'
    BY <1>2, <2>1, <2>3, <2>4 DEF Session!IsRequest
  <2>6. held'[j] => at'[j] = "close" /\ ~Session!IsRequest(script'[c][2])
    BY <1>2, <2>4
  <2>7. QED
    BY <1>2, <2>1, <2>3, <2>5, <2>6 DEF Rejected
<1>8. CASE RecvPing(j)
  <2>1. /\ at[j] = "ping" /\ read[c] = 2 /\ Len(replies[c]) = 1
        /\ hs_packet[j] = c
    BY <1>1, <1>2, <1>8 DEF RecvPing
  <2>2. /\ read'[c] = 3 /\ replies' = replies /\ hs_packet' = hs_packet
        /\ at'[j] = "pong"
    BY <1>2, <1>3, <1>8, <2>1 DEF RecvPing, Recv
  <2>3. QED
    BY <1>2, <2>1, <2>2
<1>9. CASE SendStatus(j)
  BY <1>1, <1>2, <1>3, <1>9 DEF SendStatus, Reply
<1>10. CASE SendStatusFails(j)
  BY <1>1, <1>2, <1>3, <1>10 DEF SendStatusFails
<1>11. CASE SendPong(j)
  BY <1>1, <1>2, <1>3, <1>11 DEF SendPong, FreedAfterPong
<1>12. CASE SendPongFails(j)
  BY <1>1, <1>2, <1>3, <1>12 DEF SendPongFails, FreedAfterPong
<1>13. QED
  BY <1>4, <1>5, <1>6, <1>7, <1>8, <1>9, <1>10, <1>11, <1>12 DEF Working

LEMMA InStageNext ==
  ASSUME IInv, [Next]_vars
  PROVE  InStage'
<1>1. TypeOK /\ OwnedOnce /\ NotYetServed /\ InStage /\ cnnts \in Seq(Fds)
  BY DEF IInv, TypeOK
<1>2. ASSUME NEW i \in Clients, Using(i)', Using(i) PROVE Stage(i)'
  <2>1. CASE Working(i)
    BY <2>1, WorkingStage
  <2>2. CASE ~Working(i)
    <3>1. PICK c \in Clients : Client(i) = c /\ Client(i)' = c
      BY <1>1, <1>2, ClientType, ClientKept
    <3>2. UNCHANGED <<script, at[i], hs_packet[i], read[c], replies[c]>>
      BY <1>2, <2>2, <3>1, ClientKept
    <3>3. QED
      BY <1>1, <1>2, <3>1, <3>2 DEF InStage, Stage, Untouched
  <2>3. QED
    BY <2>1, <2>2
<1>3. ASSUME NEW i \in Clients, Using(i)', ~Using(i) PROVE Stage(i)'
  <2>1. Dequeue(i)
    <3>1. ~DequeueEmpty(i)
      BY <1>1, <1>3 DEF DequeueEmpty, Go, Using, TypeOK
    <3>2. ~CloseFd(i) /\ ~Return(i)
      BY <1>1, <1>3 DEF CloseFd, Return, Go, Using, TypeOK
    <3>3. QED
      BY <1>1, <1>3, <3>1, <3>2, WorkingFrame, HandlersFrame DEF Using
  <2>2. /\ at'[i] = "setsockopt" /\ sock'[i] = cnnts[1] /\ 1 \in 1 .. Len(cnnts)
        /\ UNCHANGED <<open, read, replies>> /\ cnnts[1] \in Fds
    <3>1. at \in [Clients -> Places] /\ sock \in [Clients -> Fds \cup {NoFd}]
      BY <1>1 DEF TypeOK
    <3>2. QED
      BY <1>1, <2>1, <3>1, DequeueDoes DEF clientVars
  <2>3. Untouched(open[cnnts[1]])
    BY <1>1, <2>2 DEF OwnedOnce, NotYetServed
  <2>4. QED
    BY <2>2, <2>3 DEF Stage, Untouched, Client
<1>4. QED
  BY <1>2, <1>3 DEF InStage

\* A connection that is closed stays closed, and its client gets no more.
LEMMA ClosedStays ==
  ASSUME IInv, [Next]_vars, NEW c \in Clients, conn[c] = "closed"
  PROVE  conn'[c] = "closed" /\ UNCHANGED <<read[c], replies[c]>>
<1>1. /\ TypeOK /\ OwnedOnce /\ ConnsOpen
      /\ conn \in [Clients -> {"new", "waiting", "open", "closed"}]
  BY DEF IInv, TypeOK
<1>2. ASSUME NEW j \in Clients, Working(j) PROVE UNCHANGED <<conn, read[c], replies[c]>>
  <2>1. Client(j) # c
    BY <1>1, <1>2, WorkingFrame, ClientType DEF ConnsOpen
  <2>2. QED
    BY <1>1, <1>2, <2>1, WorkingFrame
<1> USE DEF clientVars
<1>3. ASSUME NEW d \in Clients, Connect(d) \/ AcceptConn(d) \/ AcceptFails(d)
      PROVE  conn'[c] = "closed"
  BY <1>1, <1>3 DEF Connect, AcceptConn, AcceptFails, Session!Connect,
                    Session!Accept, Session!Refuse
<1>4. ASSUME NEW j \in Clients, CloseFd(j) PROVE conn'[c] = "closed"
  BY <1>1, <1>4 DEF CloseFd, Session!Close
<1>5. AddStop \/ EnqueueFd \/ EnqueueFails \/ AddJob \/ AddFails \/ StartJob
        => UNCHANGED conn
  BY DEF AddStop, EnqueueFd, EnqueueFails, AddJob, AddFails, StartJob
<1>6. \A j \in Clients : Dequeue(j) \/ DequeueEmpty(j) \/ Return(j) => UNCHANGED conn
  BY DEF Dequeue, DequeueEmpty, Return
<1>7. Aside => UNCHANGED conn
  BY DEF Aside
<1>8. QED
  BY <1>1, <1>2, <1>3, <1>4, <1>5, <1>6, <1>7, Steps, AnswersFrame

LEMMA HeldForReasonNext ==
  ASSUME IInv, [Next]_vars
  PROVE  HeldForReason'
<1>1. TypeOK /\ OwnedOnce /\ HeldForReason /\ TypeOK' /\ script' = script
  BY TypeNext, AnswersFrame DEF IInv
<1> DEFINE Fine(i) == held[i] =>
             /\ at[i] \in {"pong", "close", "return", "done"}
             /\ at[i] = "close" => hs_packet[i] = Client(i) /\ Rejected(i)
             /\ at[i] \in {"return", "done"} => Rejected(i) /\ conn[hs_packet[i]] = "closed"
<1> SUFFICES ASSUME NEW i \in Clients, held'[i] PROVE Fine(i)'
  BY DEF HeldForReason
<1>2. Fine(i)
  BY <1>1 DEF HeldForReason
<1>3. CASE Working(i)
  BY <1>3, WorkingStage
<1>4. CASE Dequeue(i) \/ DequeueEmpty(i)
  <2>1. held' = held /\ at[i] = "dequeue"
    BY <1>4 DEF Dequeue, DequeueEmpty
  <2>2. QED
    BY <1>2, <2>1
<1>5. ASSUME held[i], hs_packet'[i] = hs_packet[i], at[i] \in {"return", "done"}
      PROVE  Rejected(i)' /\ conn'[hs_packet'[i]] = "closed"
  <2>1. PICK c \in Clients : c = hs_packet[i] /\ conn[c] = "closed" /\ Rejected(i)
    BY <1>2, <1>5 DEF Rejected
  <2>2. conn'[c] = "closed" /\ UNCHANGED <<read[c], replies[c], script>>
    BY <1>1, <2>1, ClosedStays
  <2>3. QED
    BY <1>5, <2>1, <2>2 DEF Rejected
<1>6. CASE CloseFd(i)
  <2>1. PICK c \in Clients : c = Client(i)
    BY <1>1, <1>6, CloseDoes
  <2>2. /\ at[i] = "close" /\ at'[i] = "return" /\ held' = held /\ hs_packet' = hs_packet
        /\ conn'[c] = "closed" /\ UNCHANGED <<read, replies>>
    <3>1. /\ at \in [Clients -> Places]
          /\ conn \in [Clients -> {"new", "waiting", "open", "closed"}]
      BY <1>1 DEF TypeOK
    <3>2. QED
      BY <1>1, <1>6, <2>1, <3>1, CloseDoes
  <2>3. QED
    BY <1>1, <1>2, <2>1, <2>2 DEF Rejected
<1>7. CASE Return(i)
  <2>1. /\ at[i] = "return" /\ at'[i] = "done" /\ held' = held
        /\ hs_packet' = hs_packet
    BY <1>1, <1>7 DEF Return, Go, TypeOK
  <2>2. QED
    BY <1>5, <2>1
<1>8. CASE /\ ~Working(i) /\ at'[i] = at[i]
           /\ hs_packet'[i] = hs_packet[i] /\ held'[i] = held[i]
  <2>1. CASE at[i] = "close"
    <3>1. Using(i) /\ Using(i)'
      BY <1>8, <2>1 DEF Using, Places
    <3>2. PICK c \in Clients : c = Client(i) /\ c = Client(i)'
      BY <1>1, <3>1, ClientType, ClientKept
    <3>3. UNCHANGED <<read[c], replies[c]>>
      BY <1>8, <3>1, <3>2, ClientKept
    <3>4. QED
      BY <1>1, <1>2, <1>8, <2>1, <3>2, <3>3 DEF Rejected
  <2>2. CASE at[i] # "close"
    BY <1>2, <1>5, <1>8, <2>2
  <2>3. QED
    BY <2>1, <2>2
<1>9. QED
  BY <1>1, <1>3, <1>4, <1>6, <1>7, <1>8, HandlersFrame

-------------------------------------------------------------------------------
(* Jobs. *)

\* What each step does to the jobs that have not taken their socket, and to the
\* other numbers that QueueMatchesJobs compares.
LEMMA JobsFrame ==
  ASSUME IInv, [Next]_vars
  PROVE  \/ /\ AddJob /\ round \in Clients \ Undelivered
            /\ Undelivered' = Undelivered \cup {round}
         \/ \E j \in Undelivered : /\ Dequeue(j) \/ DequeueEmpty(j)
                                   /\ Undelivered' = Undelivered \ {j}
         \/ /\ Undelivered' = Undelivered
            /\ \/ EnqueueFd \/ EnqueueFails \/ AddFails
               \/ /\ UNCHANGED <<cnnts, lostFds, lostJobs, dry>>
                  /\ main = "add" <=> main' = "add"
<1>1. /\ TypeOK /\ OwnedOnce /\ JobsInOrder
      /\ at \in [Clients -> Places]
      /\ status \in [Jobs -> {"new", "queued", "running", "done"}]
      /\ Stop \notin Clients /\ Clients \subseteq Jobs
  BY ServerAssumption DEF IInv, TypeOK, Jobs
<1> DEFINE Same == /\ UNCHANGED <<cnnts, lostFds, lostJobs, dry>>
                   /\ main = "add" <=> main' = "add"
<1> USE DEF mainVars, poolVars, handlerVars, faultVars, clientVars
<1>2. CASE Aside
  <2>1. Undelivered' = Undelivered /\ Same
    BY <1>2 DEF Aside, Undelivered
  <2>2. QED
    BY <2>1
<1>3. ASSUME NEW c \in Clients, Connect(c) \/ AcceptConn(c) \/ AcceptFails(c)
      PROVE  Undelivered' = Undelivered /\ Same
  BY <1>3 DEF Connect, AcceptConn, AcceptFails, Undelivered, After
<1>4. CASE AddStop
  <2>1. Same
    BY <1>4 DEF AddStop
  <2>2. \A j \in Clients : status'[j] = status[j] /\ at'[j] = at[j]
    BY <1>1, <1>4 DEF AddStop, Pool!Add
  <2>3. Undelivered' = Undelivered
    BY <2>2 DEF Undelivered
  <2>4. QED
    BY <2>1, <2>3
<1>5. EnqueueFd \/ EnqueueFails \/ AddFails => Undelivered' = Undelivered
  BY DEF EnqueueFd, EnqueueFails, AddFails, Undelivered
<1>6. CASE AddJob
  <2>1. round \in Clients /\ status[round] = "new" /\ at[round] = "dequeue" /\ at' = at
    BY <1>1, <1>6 DEF AddJob, Pool!Add, JobsInOrder
  <2>2. status' = [status EXCEPT ![round] = "queued"]
    BY <1>6 DEF AddJob, Pool!Add
  <2>3. Undelivered' = Undelivered \cup {round} /\ round \notin Undelivered
    BY <1>1, <2>1, <2>2 DEF Undelivered
  <2>4. QED
    BY <1>6, <2>1, <2>3
<1>7. CASE StartJob
  <2>1. Head(pending) \in Jobs /\ status[Head(pending)] = "queued"
    BY <1>1, <1>7 DEF TypeOK, JobsInOrder, StartJob, Pool!Start
  <2>2. \A j \in Clients : /\ at'[j] = at[j]
                           /\ status[j] \in {"queued", "running"} <=>
                                status'[j] \in {"queued", "running"}
    BY <1>1, <1>7, <2>1 DEF StartJob, Pool!Start
  <2>3. Undelivered' = Undelivered
    BY <2>2 DEF Undelivered
  <2>4. Same
    BY <1>7 DEF StartJob
  <2>5. QED
    BY <2>3, <2>4
<1>8. ASSUME NEW j \in Clients, Dequeue(j) \/ DequeueEmpty(j)
      PROVE  j \in Undelivered /\ Undelivered' = Undelivered \ {j}
  <2>1. /\ status[j] = "running" /\ at[j] = "dequeue" /\ status' = status
        /\ \E place \in {"setsockopt", "return"} : at' = [at EXCEPT ![j] = place]
    BY <1>8 DEF Dequeue, DequeueEmpty, Go
  <2>2. QED
    BY <1>1, <2>1 DEF Undelivered
<1>9. ASSUME NEW j \in Clients, Working(j) \/ CloseFd(j) \/ Return(j)
      PROVE  Undelivered' = Undelivered /\ Same
  <2>1. CASE Working(j)
    <3>1. PICK place \in Places \ {"dequeue", "return", "done"} :
            at' = [at EXCEPT ![j] = place]
      BY <1>1, <2>1, WorkingFrame
    <3>2. at[j] # "dequeue" /\ status' = status /\ Same
      BY <1>1, <2>1, WorkingFrame DEF Using
    <3>3. QED
      BY <1>1, <3>1, <3>2 DEF Undelivered
  <2>2. CASE CloseFd(j)
    <3>1. at[j] # "dequeue" /\ status' = status /\ at' = [at EXCEPT ![j] = "return"] /\ Same
      BY <2>2 DEF CloseFd, Go
    <3>2. QED
      BY <1>1, <3>1 DEF Undelivered
  <2>3. CASE Return(j)
    <3>1. /\ at[j] # "dequeue" /\ at' = [at EXCEPT ![j] = "done"] /\ Same
          /\ status' = [status EXCEPT ![j] = "done"]
      BY <2>3 DEF Return, Go, Pool!Finish
    <3>2. QED
      BY <1>1, <3>1 DEF Undelivered
  <2>4. QED
    BY <1>9, <2>1, <2>2, <2>3
<1>10. QED
  BY <1>1, <1>2, <1>3, <1>4, <1>5, <1>6, <1>7, <1>8, <1>9, Steps

LEMMA QueueMatchesNext ==
  ASSUME IInv, [Next]_vars
  PROVE  QueueMatchesJobs' /\ IsFiniteSet(Undelivered)'
<1> DEFINE u == Cardinality(Undelivered)
           l == Cardinality(lostFds)
           a == IF main = "add" THEN 1 ELSE 0
<1>1. /\ TypeOK /\ OwnedOnce /\ QueueMatchesJobs /\ IsFiniteSet(Undelivered)
      /\ Len(cnnts) \in Nat /\ lostJobs \in Nat /\ dry \in Nat
  BY DEF IInv, TypeOK, JobsInOrder
<1>2. IsFiniteSet(lostFds)
  <2>1. IsFiniteSet(Fds)
    BY FS_Interval, ServerAssumption DEF Fds
  <2>2. lostFds \subseteq Fds
    BY <1>1 DEF TypeOK
  <2>3. QED
    BY <2>1, <2>2, FS_Subset
<1>3. u \in Nat /\ l \in Nat /\ a \in Nat
  BY <1>1, <1>2, FS_CardinalityType
<1>4. Len(cnnts) + l = u + lostJobs + dry + a
  BY <1>1 DEF QueueMatchesJobs
<1>5. lostFds = {} => dry = 0 /\ l = 0
  BY <1>1, FS_EmptySet DEF QueueMatchesJobs
<1> USE DEF mainVars, poolVars, handlerVars, faultVars, clientVars
<1>6. ASSUME AddJob, round \notin Undelivered, Undelivered' = Undelivered \cup {round}
      PROVE  QueueMatchesJobs' /\ IsFiniteSet(Undelivered)'
  <2>1. Cardinality(Undelivered') = u + 1 /\ IsFiniteSet(Undelivered')
    BY <1>1, <1>6, FS_AddElement
  <2>2. main = "add" /\ main' = "accept" /\ UNCHANGED <<cnnts, lostFds, lostJobs, dry>>
    BY <1>6 DEF AddJob, After
  <2>3. Len(cnnts) + l = u + 1 + lostJobs + dry
    BY <1>1, <1>3, <1>4, <2>2
  <2> HIDE DEF u
  <2>4. QED
    BY <1>1, <1>3, <1>5, <2>1, <2>2, <2>3 DEF QueueMatchesJobs
<1>7. ASSUME NEW j \in Undelivered, Dequeue(j) \/ DequeueEmpty(j),
             Undelivered' = Undelivered \ {j}
      PROVE  QueueMatchesJobs' /\ IsFiniteSet(Undelivered)'
  <2>1. Cardinality(Undelivered') = u - 1 /\ IsFiniteSet(Undelivered')
    BY <1>1, <1>7, FS_RemoveElement
  <2>2. u > 0
    BY <1>1, <1>3, <1>7, FS_EmptySet
  <2>3. main' = main /\ UNCHANGED <<lostFds, lostJobs>>
    BY <1>7 DEF Dequeue, DequeueEmpty
  <2>4. CASE Dequeue(j)
    <3>1. Len(cnnts') = Len(cnnts) - 1 /\ dry' = dry
      BY <1>1, <1>7, <2>4, DequeueDoes DEF Undelivered, Dequeue
    <3>2. Len(cnnts') + l = (u - 1) + lostJobs + dry + a
      <4> HIDE DEF u, l, a
      <4>1. QED
        BY <1>1, <1>3, <1>4, <3>1
    <3> HIDE DEF u
    <3>3. QED
      BY <1>3, <1>5, <2>1, <2>3, <3>1, <3>2 DEF QueueMatchesJobs
  <2>5. CASE DequeueEmpty(j)
    <3>1. cnnts' = cnnts /\ Len(cnnts) = 0 /\ dry' = dry + 1
      BY <2>5 DEF DequeueEmpty, Queue!DequeueEmpty
    <3>2. /\ Len(cnnts) + l = (u - 1) + lostJobs + (dry + 1) + a
          /\ lostFds # {}
      <4> HIDE DEF u, l, a
      <4>1. QED
        BY <1>1, <1>3, <1>4, <1>5, <2>2, <3>1
    <3> HIDE DEF u
    <3>3. QED
      BY <1>3, <2>1, <2>3, <3>1, <3>2 DEF QueueMatchesJobs
  <2>6. QED
    BY <1>7, <2>4, <2>5
<1>8. ASSUME Undelivered' = Undelivered, EnqueueFd
      PROVE  QueueMatchesJobs' /\ IsFiniteSet(Undelivered)'
  <2>1. /\ Len(cnnts') = Len(cnnts) + 1 /\ main = "enqueue" /\ main' = "add"
        /\ UNCHANGED <<lostFds, lostJobs, dry>>
    BY <1>1, <1>8, EnqueueDoes DEF EnqueueFd
  <2>2. QED
    BY <1>1, <1>3, <1>4, <1>5, <1>8, <2>1 DEF QueueMatchesJobs
<1>9. ASSUME Undelivered' = Undelivered, EnqueueFails
      PROVE  QueueMatchesJobs' /\ IsFiniteSet(Undelivered)'
  <2>1. /\ main = "enqueue" /\ main' = "add" /\ UNCHANGED <<cnnts, lostJobs, dry>>
        /\ lostFds' = lostFds \cup {client_sockfd} /\ client_sockfd \notin lostFds
    BY <1>1, <1>9 DEF EnqueueFails, After, OwnedOnce
  <2>2. Cardinality(lostFds') = l + 1
    BY <1>2, <2>1, FS_AddElement
  <2>3. lostFds' # {}
    BY <2>1
  <2>4. Len(cnnts) + (l + 1) = u + lostJobs + dry + 1
    BY <1>1, <1>3, <1>4, <2>1
  <2> HIDE DEF l
  <2>5. QED
    BY <1>1, <1>9, <2>1, <2>2, <2>3, <2>4 DEF QueueMatchesJobs
<1>10. ASSUME Undelivered' = Undelivered, AddFails
       PROVE  QueueMatchesJobs' /\ IsFiniteSet(Undelivered)'
  <2>1. /\ main = "add" /\ main' = "accept" /\ lostJobs' = lostJobs + 1
        /\ UNCHANGED <<cnnts, lostFds, dry>>
    BY <1>10 DEF AddFails, After
  <2>2. QED
    BY <1>1, <1>3, <1>4, <1>5, <1>10, <2>1 DEF QueueMatchesJobs
<1>11. ASSUME Undelivered' = Undelivered, UNCHANGED <<cnnts, lostFds, lostJobs, dry>>,
              main = "add" <=> main' = "add"
       PROVE  QueueMatchesJobs' /\ IsFiniteSet(Undelivered)'
  BY <1>1, <1>11 DEF QueueMatchesJobs
<1>12. QED
  BY <1>6, <1>7, <1>8, <1>9, <1>10, <1>11, JobsFrame

LEMMA JobsInOrderNext ==
  ASSUME IInv, [Next]_vars
  PROVE  JobsInOrder'
<1>1. /\ TypeOK /\ OwnedOnce /\ JobsInOrder
      /\ at \in [Clients -> Places]
      /\ status \in [Jobs -> {"new", "queued", "running", "done"}]
      /\ Clients \subseteq Jobs
      /\ pending \in Seq(Jobs) /\ Len(pending) \in Nat
  BY DEF IInv, TypeOK, Jobs
<1> DEFINE InPool == /\ \A k \in 1 .. Len(pending) : status[pending[k]] = "queued"
                     /\ \A k, l \in 1 .. Len(pending) : pending[k] = pending[l] => k = l
           Unstarted == \A j \in Clients :
                          status[j] \in {"new", "queued"} => at[j] = "dequeue"
           RoundType == main \in {"enqueue", "add"} => round \in Clients
<1>2. InPool /\ Unstarted /\ RoundType
  BY <1>1 DEF JobsInOrder
<1>3. ASSUME NEW w \in Jobs, Pool!Add(w), at' = at PROVE InPool' /\ Unstarted'
  <2> DEFINE n == Len(pending)
  <2>1. /\ status[w] = "new" /\ status' = [status EXCEPT ![w] = "queued"]
        /\ Len(pending') = n + 1 /\ pending'[n + 1] = w
        /\ \A k \in 1 .. n : pending'[k] = pending[k] /\ pending[k] # w
    BY <1>1, <1>2, <1>3 DEF Pool!Add
  <2>2. \A k \in 1 .. n + 1 : k \in 1 .. n \/ k = n + 1
    BY <1>1
  <2>3. \A k \in 1 .. n : pending[k] \in Jobs
    BY <1>1
  <2>4. InPool'
    <3>1. \A k \in 1 .. n + 1 : status'[pending'[k]] = "queued"
      BY <1>1, <1>2, <2>1, <2>2, <2>3
    <3>2. \A k, l \in 1 .. n + 1 : pending'[k] = pending'[l] => k = l
      BY <1>2, <2>1, <2>2
    <3>3. QED
      BY <2>1, <3>1, <3>2
  <2>5. Unstarted'
    BY <1>1, <1>2, <1>3, <2>1
  <2>6. QED
    BY <2>4, <2>5
<1>4. ASSUME Pool!Start, at' = at PROVE InPool' /\ Unstarted'
  <2> DEFINE n == Len(pending)
  <2>1. /\ n > 0 /\ 1 \in 1 .. n /\ Head(pending) = pending[1] /\ pending[1] \in Jobs
        /\ status' = [status EXCEPT ![pending[1]] = "running"]
        /\ Len(pending') = n - 1
        /\ \A k \in 1 .. n - 1 : pending'[k] = pending[k + 1]
    BY <1>1, <1>4 DEF Pool!Start
  <2>2. \A k \in 1 .. n - 1 : k + 1 \in 1 .. n /\ pending[k + 1] \in Jobs
                              /\ pending[k + 1] # pending[1]
    BY <1>1, <1>2, <2>1
  <2>3. \A k \in 1 .. n - 1 : status'[pending'[k]] = "queued"
    BY <1>1, <1>2, <2>1, <2>2
  <2>4. \A k, l \in 1 .. n - 1 : pending'[k] = pending'[l] => k = l
    <3> TAKE k, l \in 1 .. n - 1
    <3> DEFINE kk == k + 1
               ll == l + 1
    <3>1. /\ kk \in 1 .. n /\ pending'[k] = pending[kk]
          /\ ll \in 1 .. n /\ pending'[l] = pending[ll]
      BY <2>1, <2>2
    <3>2. pending[kk] = pending[ll] => kk = ll
      <4> HIDE DEF kk, ll
      <4>1. QED
        BY <1>2, <3>1
    <3>3. QED
      BY <3>1, <3>2
  <2>5. Unstarted'
    BY <1>1, <1>2, <1>4, <2>1
  <2>6. QED
    BY <2>1, <2>3, <2>4, <2>5
<1>5. ASSUME UNCHANGED poolVars,
             \A j \in Clients : at'[j] = at[j] \/ status[j] \in {"running", "done"}
      PROVE  InPool' /\ Unstarted'
  BY <1>2, <1>5 DEF poolVars
<1> USE DEF mainVars, handlerVars
<1>6. InPool' /\ Unstarted'
  <2>1. ASSUME NEW c \in Clients, Connect(c) \/ AcceptConn(c) \/ AcceptFails(c)
        PROVE  UNCHANGED <<poolVars, at>>
    BY <2>1 DEF Connect, AcceptConn, AcceptFails
  <2>2. Aside \/ EnqueueFd \/ EnqueueFails \/ AddFails => UNCHANGED <<poolVars, at>>
    BY DEF Aside, EnqueueFd, EnqueueFails, AddFails
  <2>3. CASE AddStop
    BY <1>3, <2>3 DEF AddStop, Jobs
  <2>4. CASE AddJob
    BY <1>1, <1>2, <1>3, <2>4 DEF AddJob
  <2>5. CASE StartJob
    BY <1>4, <2>5 DEF StartJob
  <2>6. ASSUME NEW j \in Clients, Dequeue(j) \/ DequeueEmpty(j)
        PROVE  InPool' /\ Unstarted'
    <3>1. /\ status[j] = "running" /\ UNCHANGED poolVars
          /\ \E place \in {"setsockopt", "return"} : at' = [at EXCEPT ![j] = place]
      BY <2>6 DEF Dequeue, DequeueEmpty, Go
    <3>2. QED
      BY <1>1, <1>5, <3>1
  <2>7. ASSUME NEW j \in Clients, Working(j) \/ CloseFd(j)
        PROVE  InPool' /\ Unstarted'
    <3>1. at[j] # "dequeue" /\ UNCHANGED poolVars
      BY <1>1, <2>7, WorkingFrame DEF CloseFd, Using
    <3>2. \A i \in Clients \ {j} : at'[i] = at[i]
      <4>1. CASE Working(j)
        <5>1. PICK place \in Places : at' = [at EXCEPT ![j] = place]
          BY <1>1, <4>1, WorkingFrame
        <5>2. QED
          BY <1>1, <5>1
      <4>2. CASE CloseFd(j)
        BY <1>1, <4>2 DEF CloseFd, Go
      <4>3. QED
        BY <2>7, <4>1, <4>2
    <3>3. status[j] \in {"running", "done"}
      BY <1>1, <1>2, <3>1
    <3>4. QED
      BY <1>5, <3>1, <3>2, <3>3
  <2>8. ASSUME NEW j \in Clients, Return(j) PROVE InPool' /\ Unstarted'
    <3>1. /\ status[j] = "running" /\ status' = [status EXCEPT ![j] = "done"]
          /\ pending' = pending /\ at' = [at EXCEPT ![j] = "done"]
      BY <2>8 DEF Return, Go, Pool!Finish
    <3>2. \A k \in 1 .. Len(pending) : pending[k] \in Jobs /\ pending[k] # j
      BY <1>1, <1>2, <3>1
    <3>3. QED
      BY <1>1, <1>2, <3>1, <3>2
  <2>9. QED
    BY <1>1, <1>5, <2>1, <2>2, <2>3, <2>4, <2>5, <2>6, <2>7, <2>8, Steps
<1>7. RoundType'
  <2>1. ASSUME NEW c \in Clients, Connect(c) \/ AcceptConn(c) \/ AcceptFails(c)
        PROVE  RoundType'
    BY <1>2, <2>1 DEF Connect, AcceptConn, AcceptFails
  <2>2. Aside \/ StartJob => UNCHANGED mainVars
    BY DEF Aside, StartJob
  <2>3. AddStop \/ AddJob \/ AddFails => main' = "accept"
    BY DEF AddStop, AddJob, AddFails, After
  <2>4. EnqueueFd \/ EnqueueFails => main = "enqueue" /\ round' = round
    BY DEF EnqueueFd, EnqueueFails
  <2>5. \A j \in Clients : Dequeue(j) \/ DequeueEmpty(j) \/ CloseFd(j) \/ Return(j)
                             => UNCHANGED mainVars
    BY DEF Dequeue, DequeueEmpty, CloseFd, Return
  <2>6. \A j \in Clients : Working(j) => UNCHANGED mainVars
    BY <1>1, WorkingFrame
  <2>7. QED
    BY <1>1, <1>2, <2>1, <2>2, <2>3, <2>4, <2>5, <2>6, Steps
<1>8. QED
  BY <1>6, <1>7, QueueMatchesNext DEF JobsInOrder

LEMMA IInvNext == IInv /\ [Next]_vars => IInv'
<1> SUFFICES ASSUME IInv, [Next]_vars PROVE IInv'
  OBVIOUS
<1>1. QED
  BY TypeNext, OwnedOnceNext, AllOwnedNext, ConnsOpenNext, NotYetServedNext,
     InStageNext, HeldForReasonNext, JobsInOrderNext, QueueMatchesNext DEF IInv

-------------------------------------------------------------------------------
(* What follows from the invariant. *)

\* Descriptors, connections, handlers and jobs agree in every state.
THEOREM Invariance == Spec => []IInv
BY IInvInit, IInvNext, PTL DEF Spec

\* Every variable keeps its type, and no handler uses a socket it never got.
THEOREM TypeCorrect == Spec => []TypeOK
<1>1. IInv => TypeOK
  BY DEF IInv
<1>2. QED
  BY <1>1, Invariance, PTL

LEMMA OwnershipFollows == IInv => FdOwnership
<1> SUFFICES ASSUME IInv, NEW f \in Fds
             PROVE  IF open[f] = NoClient THEN Owners(f) = {}
                    ELSE \E o \in Owners(f) : Owners(f) = {o}
  BY DEF FdOwnership
<1>1. /\ OwnedOnce /\ AllOwned /\ lostFds \subseteq Fds
      /\ \A k \in 1 .. Len(cnnts) : cnnts[k] \in Fds
  BY DEF IInv, TypeOK
<1>2. \A o : o \in Owners(f) <=>
        \/ main = "enqueue" /\ client_sockfd = f /\ o = <<"main", main>>
        \/ \E k \in 1 .. Len(cnnts) : cnnts[k] = f /\ o = <<"queue", k>>
        \/ \E j \in Clients : Using(j) /\ sock[j] = f /\ o = <<"handler", j>>
        \/ f \in lostFds /\ o = <<"nobody", f>>
  BY DEF Owners
<1>3. CASE open[f] = NoClient
  BY <1>1, <1>2, <1>3 DEF OwnedOnce
<1>4. CASE open[f] # NoClient
  <2>1. CASE main = "enqueue" /\ client_sockfd = f
    <3>1. \A o : o \in Owners(f) <=> o = <<"main", main>>
      BY <1>1, <1>2, <2>1 DEF OwnedOnce
    <3>2. Owners(f) = {<<"main", main>>}
      BY <3>1
    <3>3. QED
      BY <1>4, <3>2
  <2>2. ASSUME NEW k \in 1 .. Len(cnnts), cnnts[k] = f
        PROVE  \E o \in Owners(f) : Owners(f) = {o}
    <3>1. \A o : o \in Owners(f) <=> o = <<"queue", k>>
      BY <1>1, <1>2, <2>2 DEF OwnedOnce
    <3>2. Owners(f) = {<<"queue", k>>}
      BY <3>1
    <3>3. QED
      BY <3>2
  <2>3. ASSUME NEW j \in Clients, Using(j), sock[j] = f
        PROVE  \E o \in Owners(f) : Owners(f) = {o}
    <3>1. \A o : o \in Owners(f) <=> o = <<"handler", j>>
      BY <1>1, <1>2, <2>3 DEF OwnedOnce
    <3>2. Owners(f) = {<<"handler", j>>}
      BY <3>1
    <3>3. QED
      BY <3>2
  <2>4. CASE f \in lostFds
    <3>1. \A o : o \in Owners(f) <=> o = <<"nobody", f>>
      BY <1>1, <1>2, <2>4 DEF OwnedOnce
    <3>2. Owners(f) = {<<"nobody", f>>}
      BY <3>1
    <3>3. QED
      BY <1>4, <3>2
  <2>5. QED
    BY <1>1, <1>4, <2>1, <2>2, <2>3, <2>4 DEF AllOwned
<1>5. QED
  BY <1>3, <1>4

\* Whatever allocations fail, an open descriptor has one owner, which closes it
\* once or is nobody: main's socket, the queue's and the handlers' are different.
THEOREM FdsAreOwned == Spec => []FdOwnership
BY OwnershipFollows, Invariance, PTL

\* main queues a socket before it adds its job: a handler finds one, for any
\* number of clients, unless queue_enqueue has failed.
THEOREM QueueIsMatched == Spec => []QueueMatchesJobs
<1>1. IInv => QueueMatchesJobs
  BY DEF IInv
<1>2. QED
  BY <1>1, Invariance, PTL

LEMMA LeaksFollow == IInv => LeakOnlyOnRejection
<1> SUFFICES ASSUME IInv, NEW j \in Clients, at[j] \in {"return", "done"}, held[j]
             PROVE  LET c == hs_packet[j] IN
                      /\ c \in Clients /\ conn[c] = "closed" /\ replies[c] = <<>>
                      /\ \/ read[c] = 1 /\ script[c][1] \in {"request", "ping"}
                         \/ read[c] = 2 /\ ~Session!IsRequest(script[c][2])
  BY DEF LeakOnlyOnRejection
<1>1. QED
  BY DEF IInv, HeldForReason, Rejected

\* The only packet handle_client does not free is the one over which it turns
\* its client away, and that client has got no answer.
THEOREM LeaksAreRejections == Spec => []LeakOnlyOnRejection
BY LeaksFollow, Invariance, PTL

-------------------------------------------------------------------------------
(* The refinement. *)

LEMMA SessionNext ==
  ASSUME IInv, [Next]_vars
  PROVE  [Session!Next]_(Session!vars)
<1>1. /\ TypeOK /\ OwnedOnce /\ ConnsOpen /\ InStage
      /\ replies \in [Clients -> Seq({"status", "pong"} \X Clients)]
  BY DEF IInv, TypeOK
<1> DEFINE Step == [Session!Next]_(Session!vars)
<1> USE DEF clientVars, Session!vars
<1>2. ASSUME NEW c \in Clients, Connect(c) \/ AcceptConn(c) \/ AcceptFails(c)
      PROVE  Step
  BY <1>2 DEF Session!Next, Connect, AcceptConn, AcceptFails
<1>3. ASSUME NEW j \in Clients, Working(j) PROVE Step
  <2>1. PICK c \in Clients : c = Client(j) /\ conn[c] = "open"
    <3>1. /\ Using(j) /\ sock[j] \in Fds
          /\ Client(j) \in Clients /\ Client(j) = open[sock[j]] /\ Client(j) # NoClient
      BY <1>1, <1>3, WorkingFrame, ClientType
    <3>2. QED
      BY <1>1, <3>1 DEF ConnsOpen
  <2>2. Stage(j)
    BY <1>1, <1>3, WorkingFrame DEF InStage
  <2>3. CASE RecvHandshake(j) \/ RecvRequest(j) \/ RecvPing(j)
    <3>1. /\ Recv(j) /\ UNCHANGED <<script, conn, replies>>
          /\ at[j] \in {"handshake", "request", "ping"}
      BY <2>3 DEF RecvHandshake, RecvRequest, RecvPing
    <3>2. \/ read[c] = 0
          \/ read[c] = 1 /\ Session!AsksForStatus(script[c][1])
          \/ read[c] = 2 /\ Len(replies[c]) = 1
      BY <2>1, <2>2, <3>1 DEF Stage, Untouched
    <3>3. Session!Read(c)
      BY <2>1, <3>1, <3>2 DEF Session!Read, Recv
    <3>4. QED
      BY <3>3 DEF Session!Next
  <2>4. CASE SendStatus(j)
    <3>1. /\ at[j] = "respond" /\ UNCHANGED <<script, conn, read>>
          /\ replies' = [replies EXCEPT ![c] = Append(replies[c], <<"status", hs_packet[j]>>)]
      BY <2>1, <2>4 DEF SendStatus, Reply
    <3>2. /\ read[c] = 2 /\ Session!IsRequest(script[c][2]) /\ replies[c] = <<>>
          /\ hs_packet[j] = c
      BY <2>1, <2>2, <3>1 DEF Stage
    <3>3. replies' = [replies EXCEPT ![c] = <<<<"status", c>>>>]
      BY <1>1, <3>1, <3>2
    <3>4. Session!SendStatus(c)
      BY <2>1, <3>1, <3>2, <3>3 DEF Session!SendStatus
    <3>5. QED
      BY <3>4 DEF Session!Next
  <2>5. CASE SendPong(j)
    <3>1. /\ at[j] = "pong" /\ UNCHANGED <<script, conn, read>>
          /\ replies' = [replies EXCEPT ![c] = Append(replies[c], <<"pong", c>>)]
      BY <2>1, <2>5 DEF SendPong, Reply
    <3>2. read[c] = 3 /\ Len(replies[c]) = 1
      BY <2>1, <2>2, <3>1 DEF Stage
    <3>3. Session!SendPong(c)
      BY <2>1, <3>1, <3>2 DEF Session!SendPong
    <3>4. QED
      BY <3>3 DEF Session!Next
  <2>6. CASE SetTimeout(j) \/ RecvFails(j) \/ SendStatusFails(j) \/ SendPongFails(j)
    BY <2>6 DEF SetTimeout, RecvFails, SendStatusFails, SendPongFails
  <2>7. QED
    BY <1>3, <2>3, <2>4, <2>5, <2>6 DEF Working
<1>4. ASSUME NEW j \in Clients, CloseFd(j) PROVE Step
  BY <1>1, <1>4, CloseDoes DEF Session!Next, CloseFd
<1>5. AddStop \/ EnqueueFd \/ EnqueueFails \/ AddJob \/ AddFails \/ StartJob => Step
  BY DEF AddStop, EnqueueFd, EnqueueFails, AddJob, AddFails, StartJob
<1>6. \A j \in Clients : Dequeue(j) \/ DequeueEmpty(j) \/ Return(j) => Step
  BY DEF Dequeue, DequeueEmpty, Return
<1>7. Aside => Step
  BY DEF Aside
<1>8. QED
  BY <1>1, <1>2, <1>3, <1>4, <1>5, <1>6, <1>7, Steps

\* Threads, queue, pool and reused descriptors together answer every client as
\* the protocol says: its own status once, after its own handshake and request,
\* and then its own ping.
THEOREM Refinement == Spec => ImplementsStatusSession
<1>1. Init => Session!Init
  BY DEF Init
<1>2. IInv /\ [Next]_vars => [Session!Next]_(Session!vars)
  BY SessionNext
<1>3. QED
  BY <1>1, <1>2, Invariance, PTL DEF Spec, ImplementsStatusSession, Session!Spec

===============================================================================
