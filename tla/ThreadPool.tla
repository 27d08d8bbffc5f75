------------------------------ MODULE ThreadPool ------------------------------
(***************************************************************************)
(* The thread pool of util/thread_pool.c while it serves: callers add work *)
(* (thrdpool_add_work), one admin thread creates workers on demand         *)
(* (__admin_thread), workers take work, run it and leave after 10 idle     *)
(* milliseconds (__create_thread).  thrdpool_exit is in ThreadPoolExit.    *)
(*                                                                         *)
(* Granularity.  A step makes at most one access to state another thread   *)
(* writes outside the mutex.  A critical section is one step that takes    *)
(* the lock and does the section's work, followed by a step that unlocks:  *)
(* threads that read without the lock see the section's effects before the *)
(* lock is free.  The admin's condition is read as the -O3 build of the    *)
(* Makefile reads it: one load of work_count, then one of busy_thrd.       *)
(* Clocks are abstracted to idle[t]: "wait_tm >= timeout" in worker t.     *)
(***************************************************************************)
EXTENDS Integers, Sequences, FiniteSets

CONSTANTS
  Threads,   \* the pthread_t values the system can give to workers
  Works,     \* the work items (and their list nodes) that callers submit
  Endless,   \* the work items whose func never returns (get_stop in main.c)
  MaxThrd,   \* max_thrd, the argument of thrdpool_create
  SizeMax,   \* the largest value of a size_t
  NoThread,  \* a zero pthread_t: a free slot of tid, a free mutex
  NoWork     \* a NULL work pointer

ASSUME ThreadPoolAssumption ==
  /\ IsFiniteSet(Threads)
  /\ NoThread \notin Threads \cup {"admin", "caller", "exit"}
  /\ NoWork \notin Works
  /\ Endless \subseteq Works
  /\ MaxThrd \in Nat
  /\ SizeMax \in Nat \ {0}
  /\ MaxThrd <= SizeMax

Slots == 0 .. (MaxThrd - 1)

\* An index outside tid: the value of an int nobody has assigned yet.
Unset == MaxThrd

VARIABLES
  tid,         \* tpool->tid, the thread id array
  work_head,   \* tpool->work_head
  work_end,    \* tpool->work_end
  next,        \* the next field of every list node
  work_count,  \* tpool->work_count
  busy_thrd,   \* tpool->busy_thrd: threads counted, whether busy or waiting
  lock,        \* the holder of tpool->lock
  exit,        \* tpool->exit
  admin_exit   \* tpool->admin_exit

VARIABLES
  admin,       \* where the admin thread is; "gone" is tadmin = 0
  scan,        \* its loop variable i
  work_thrd,   \* its local work_thrd: the slot for the next thread
  seen         \* the work_count it loaded for its condition

VARIABLES
  pc,          \* where each worker is; "none" when no such thread exists
  idle,        \* wait_tm >= timeout in that worker
  pos,         \* its local pos: the slot it is going to clear
  work         \* the work it has taken

(* Auxiliary: they record history and no action reads them. *)
VARIABLES
  fifo,        \* the work linked in and not yet taken, oldest first
  status,      \* what has become of each work item
  clobbered    \* whether a slot in use has been overwritten

listVars   == <<work_head, work_end, next, work_count, fifo>>
slotVars   == <<tid, clobbered>>
flagVars   == <<exit, admin_exit>>
adminVars  == <<admin, scan, work_thrd, seen>>
workerVars == <<pc, idle, pos, work>>
vars == <<listVars, slotVars, flagVars, adminVars, workerVars,
          busy_thrd, lock, status>>

-------------------------------------------------------------------------------
(* size_t arithmetic wraps around. *)
Inc(n) == IF n = SizeMax THEN 0 ELSE n + 1
\* Mutation: the decrement is forgotten.
DecForgotten(n) == n
Dec(n) == IF n = 0 THEN SizeMax ELSE n - 1

Init ==
  /\ tid = [s \in Slots |-> NoThread]
  /\ work_head = NoWork /\ work_end = NoWork
  /\ next = [w \in Works |-> NoWork]
  /\ work_count = 0 /\ busy_thrd = 0
  /\ lock = NoThread
  /\ exit = FALSE /\ admin_exit = FALSE
  /\ admin = "scan" /\ scan = 0 /\ work_thrd = Unset /\ seen = 0
  /\ pc = [t \in Threads |-> "none"]
  /\ idle = [t \in Threads |-> FALSE]
  /\ pos = [t \in Threads |-> Unset]
  /\ work = [t \in Threads |-> NoWork]
  /\ fifo = <<>>
  /\ status = [w \in Works |-> "new"]
  /\ clobbered = FALSE

-------------------------------------------------------------------------------
(* thrdpool_add_work.  A failed malloc returns -1 and changes nothing. *)

\* The new node is linked behind work_end, which is looked at only when the
\* list is not empty: the pointer is left dangling when the list runs empty.
\* Mutation: the end of the list tells whether it is empty.
LinkByEnd(w) ==
  IF work_end = NoWork
    THEN /\ work_head' = w
         /\ work_end' = w
         /\ next' = [next EXCEPT ![w] = NoWork]
    ELSE /\ next' = [next EXCEPT ![w] = NoWork, ![work_end] = w]
         /\ work_end' = w
         /\ UNCHANGED work_head
\* Mutation: new work is put in front.
LinkInFront(w) ==
  /\ work_head' = w
  /\ work_end' = IF work_head = NoWork THEN w ELSE work_end
  /\ next' = [next EXCEPT ![w] = work_head]
Link(w) ==
  IF work_head = NoWork
    THEN /\ work_head' = w
         /\ work_end' = w
         /\ next' = [next EXCEPT ![w] = NoWork]
    ELSE /\ next' = [next EXCEPT ![w] = NoWork, ![work_end] = w]
         /\ work_end' = w
         /\ UNCHANGED work_head

AddWork(w) ==
  /\ status[w] = "new"
  /\ lock = NoThread
  /\ lock' = "caller"
  /\ Link(w)
  /\ work_count' = work_count + 1
  /\ fifo' = Append(fifo, w)
  /\ status' = [status EXCEPT ![w] = "queued"]
  /\ UNCHANGED <<slotVars, flagVars, adminVars, workerVars, busy_thrd>>

AddUnlock ==
  /\ lock = "caller"
  /\ lock' = NoThread
  /\ UNCHANGED <<listVars, slotVars, flagVars, adminVars, workerVars,
                 busy_thrd, status>>

-------------------------------------------------------------------------------
(* __create_thread: worker t. *)

\* The body of the wait loop: the clock reaches the timeout.
WaitTimeout(t) ==
  /\ pc[t] = "wait" /\ ~idle[t]
  /\ work_count = 0 /\ ~exit
  /\ idle' = [idle EXCEPT ![t] = TRUE]
  /\ UNCHANGED <<listVars, slotVars, flagVars, adminVars, pc, pos, work,
                 busy_thrd, lock, status>>

\* Mutation: a worker never leaves for having waited too long.
AfterWaitForever(t) == IF exit THEN "leave" ELSE "get"

\* A worker that has timed out leaves without another look at work_count.
AfterWait(t) == IF exit \/ idle[t] THEN "leave" ELSE "get"

WaitOver(t) ==
  /\ pc[t] = "wait"
  /\ idle[t] \/ work_count > 0 \/ exit
  /\ pc' = [pc EXCEPT ![t] = AfterWait(t)]
  /\ UNCHANGED <<listVars, slotVars, flagVars, adminVars, idle, pos, work,
                 busy_thrd, lock, status>>

\* What the head of the list becomes when its first node is taken.
NewHead == next[work_head]

\* The critical section that takes the oldest work.
GetWork(t) ==
  /\ pc[t] = "get"
  /\ lock = NoThread
  /\ lock' = t
  /\ work_count > 0
  /\ work' = [work EXCEPT ![t] = work_head]
  /\ work_head' = NewHead
  /\ work_count' = work_count - 1
  /\ pc' = [pc EXCEPT ![t] = "took"]
  /\ fifo' = Tail(fifo)
  /\ status' = [status EXCEPT ![work_head] = "running"]
  /\ UNCHANGED <<work_end, next, slotVars, flagVars, adminVars, idle, pos,
                 busy_thrd>>

\* The same section when another worker has been faster.
GetNothing(t) ==
  /\ pc[t] = "get"
  /\ lock = NoThread
  /\ lock' = t
  /\ work_count = 0
  /\ pc' = [pc EXCEPT ![t] = "missed"]
  /\ UNCHANGED <<listVars, slotVars, flagVars, adminVars, idle, pos, work,
                 busy_thrd, status>>

AfterUnlock == [took |-> "run", missed |-> "wait", left |-> "none"]

\* Unlock; after the section that leaves the pool, pthread_exit follows.
Unlock(t) ==
  /\ pc[t] \in DOMAIN AfterUnlock
  /\ lock' = NoThread
  /\ pc' = [pc EXCEPT ![t] = AfterUnlock[pc[t]]]
  /\ UNCHANGED <<listVars, slotVars, flagVars, adminVars, idle, pos, work,
                 busy_thrd, status>>

\* work->func returns and the node is freed.
RunWork(t) ==
  /\ pc[t] = "run"
  /\ work[t] \notin Endless
  /\ pc' = [pc EXCEPT ![t] = "wait"]
  /\ work' = [work EXCEPT ![t] = NoWork]
  /\ next' = [next EXCEPT ![work[t]] = NoWork]
  /\ status' = [status EXCEPT ![work[t]] = "done"]
  /\ UNCHANGED <<work_head, work_end, work_count, fifo, slotVars, flagVars,
                 adminVars, idle, pos, busy_thrd, lock>>

\* The two indices of the search close in on each other and stop before they
\* meet: of an odd number of slots the middle one is never looked at.
Searched == {s \in Slots : 2 * s # MaxThrd - 1}

\* pos is never assigned when the search fails: any index, in tid or not.
FindSlot(t) ==
  /\ pc[t] = "leave"
  /\ LET own == {s \in Searched : tid[s] = t}
     IN \E p \in IF own # {} THEN own ELSE Slots \cup {Unset} :
          pos' = [pos EXCEPT ![t] = p]
  /\ pc' = [pc EXCEPT ![t] = "found"]
  /\ UNCHANGED <<listVars, slotVars, flagVars, adminVars, idle, work,
                 busy_thrd, lock, status>>

\* The critical section that leaves the pool.  A write outside tid damages
\* memory the model does not have.
Deregister(t) ==
  /\ pc[t] = "found"
  /\ lock = NoThread
  /\ lock' = t
  /\ tid' = IF pos[t] \in Slots THEN [tid EXCEPT ![pos[t]] = NoThread] ELSE tid
  /\ busy_thrd' = Dec(busy_thrd)
  /\ pc' = [pc EXCEPT ![t] = "left"]
  /\ pos' = [pos EXCEPT ![t] = Unset]
  /\ idle' = [idle EXCEPT ![t] = FALSE]
  /\ UNCHANGED <<listVars, flagVars, adminVars, work, status, clobbered>>

Worker(t) ==
  \/ WaitTimeout(t) \/ WaitOver(t)
  \/ GetWork(t) \/ GetNothing(t) \/ Unlock(t) \/ RunWork(t)
  \/ FindSlot(t) \/ Deregister(t)

-------------------------------------------------------------------------------
(* __admin_thread. *)

\* The search for a free slot, one slot a step: tid[scan] is in use.
ScanNext ==
  /\ admin = "scan"
  /\ scan \in Slots /\ tid[scan] # NoThread
  /\ scan' = scan + 1
  /\ UNCHANGED <<listVars, slotVars, flagVars, admin, work_thrd, seen,
                 workerVars, busy_thrd, lock, status>>

\* tid[scan] is free.
ScanFree ==
  /\ admin = "scan"
  /\ scan \in Slots /\ tid[scan] = NoThread
  /\ work_thrd' = scan
  /\ admin' = "load"
  /\ UNCHANGED <<listVars, slotVars, flagVars, scan, seen, workerVars,
                 busy_thrd, lock, status>>

\* No slot is free: work_thrd keeps the value it had.
ScanFull ==
  /\ admin = "scan"
  /\ scan = MaxThrd
  /\ admin' = "load"
  /\ UNCHANGED <<listVars, slotVars, flagVars, scan, work_thrd, seen,
                 workerVars, busy_thrd, lock, status>>

LoadCount ==
  /\ admin = "load"
  /\ seen' = work_count
  /\ admin' = "check"
  /\ UNCHANGED <<listVars, slotVars, flagVars, scan, work_thrd, workerVars,
                 busy_thrd, lock, status>>

\* Mutation: a thread only for more work than threads.
WantsThreadStrict(queued, counted) ==
  /\ queued > counted
  /\ counted < MaxThrd
\* Mutation: one thread too many.
WantsThreadBeyond(queued, counted) ==
  /\ queued >= counted
  /\ queued > 0
  /\ counted <= MaxThrd

\* The condition of line 128: as much work is queued as threads are counted.
WantsThread(queued, counted) ==
  /\ queued >= counted
  /\ queued > 0
  /\ counted < MaxThrd

Check ==
  /\ admin = "check"
  /\ admin' = IF WantsThread(seen, busy_thrd) THEN "create" ELSE "poll"
  /\ seen' = 0
  /\ UNCHANGED <<listVars, slotVars, flagVars, scan, work_thrd, workerVars,
                 busy_thrd, lock, status>>

\* pthread_create stores the id in tid[work_thrd] and starts the thread.
CreateThread(t) ==
  /\ admin = "create"
  /\ pc[t] = "none"
  /\ tid' = [tid EXCEPT ![work_thrd] = t]
  /\ clobbered' = (clobbered \/ tid[work_thrd] # NoThread)
  /\ pc' = [pc EXCEPT ![t] = "wait"]
  /\ admin' = "count"
  /\ UNCHANGED <<listVars, flagVars, scan, work_thrd, seen, idle, pos, work,
                 busy_thrd, lock, status>>

\* pthread_create fails and exit(-1) ends the process.
CreateFails ==
  /\ admin = "create"
  /\ admin' = "exit(-1)"
  /\ UNCHANGED <<listVars, slotVars, flagVars, scan, work_thrd, seen,
                 workerVars, busy_thrd, lock, status>>

CountThread ==
  /\ admin = "count"
  /\ lock = NoThread
  /\ lock' = "admin"
  /\ busy_thrd' = Inc(busy_thrd)
  /\ admin' = "counted"
  /\ UNCHANGED <<listVars, slotVars, flagVars, scan, work_thrd, seen,
                 workerVars, status>>

\* Mutation: the next round starts behind the search for a slot.
CountUnlockNoScan ==
  /\ admin = "counted"
  /\ lock' = NoThread
  /\ admin' = "load"
  /\ UNCHANGED <<listVars, slotVars, flagVars, scan, work_thrd, seen,
                 workerVars, busy_thrd, status>>

CountUnlock ==
  /\ admin = "counted"
  /\ lock' = NoThread
  /\ admin' = "scan" /\ scan' = 0
  /\ UNCHANGED <<listVars, slotVars, flagVars, work_thrd, seen, workerVars,
                 busy_thrd, status>>

\* No thread is wanted: stop if asked to, else sleep 1 ms and start again.
Poll ==
  /\ admin = "poll"
  /\ admin' = IF admin_exit THEN "gone" ELSE "scan"
  /\ scan' = 0
  /\ UNCHANGED <<listVars, slotVars, flagVars, work_thrd, seen, workerVars,
                 busy_thrd, lock, status>>

AdminStep ==
  \/ ScanNext \/ ScanFree \/ ScanFull \/ LoadCount \/ Check
  \/ \E t \in Threads : CreateThread(t)
  \/ CountThread \/ CountUnlock \/ Poll

-------------------------------------------------------------------------------
Alive == admin # "exit(-1)"

Next ==
  /\ Alive
  /\ \/ \E w \in Works : AddWork(w)
     \/ AddUnlock
     \/ \E t \in Threads : Worker(t)
     \/ AdminStep
     \/ CreateFails

Spec == Init /\ [][Next]_vars

(***************************************************************************)
(* Every thread that can take a step is scheduled in the end: the mutex is *)
(* released by its holder, clocks advance, and a func outside Endless      *)
(* returns.  No caller has to add work.                                    *)
(***************************************************************************)
FairSpec ==
  /\ Spec
  /\ WF_vars(Alive /\ AddUnlock)
  /\ WF_vars(Alive /\ AdminStep)
  /\ \A t \in Threads : WF_vars(Alive /\ Worker(t))

-------------------------------------------------------------------------------
(* Properties. *)

\* The threads of the pool: created, and not yet through with Deregister.
Registered == {t \in Threads : pc[t] \notin {"none", "left"}}

\* 1 while pthread_create has started a thread that busy_thrd does not count.
Uncounted == IF admin = "count" THEN 1 ELSE 0

WorkerPCs == {"none", "wait", "get", "took", "missed", "run", "leave", "found",
              "left"}
AdminPCs == {"scan", "load", "check", "create", "count", "counted", "poll",
             "gone", "exit(-1)"}

\* Every variable has its C type, list nodes and slots included.
TypeOK ==
  /\ tid \in [Slots -> Threads \cup {NoThread}]
  /\ work_head \in Works \cup {NoWork}
  /\ work_end \in Works \cup {NoWork}
  /\ next \in [Works -> Works \cup {NoWork}]
  /\ work_count \in Nat
  /\ busy_thrd \in 0 .. SizeMax
  /\ lock \in Threads \cup {NoThread, "admin", "caller", "exit"}
  /\ exit \in BOOLEAN /\ admin_exit \in BOOLEAN
  /\ admin \in AdminPCs
  /\ scan \in 0 .. MaxThrd
  /\ work_thrd \in 0 .. MaxThrd
  /\ seen \in Nat
  /\ pc \in [Threads -> WorkerPCs]
  /\ idle \in [Threads -> BOOLEAN]
  /\ pos \in [Threads -> 0 .. MaxThrd]
  /\ work \in [Threads -> Works \cup {NoWork}]
  /\ fifo \in Seq(Works)
  /\ status \in [Works -> {"new", "queued", "running", "done", "dropped"}]
  /\ clobbered \in BOOLEAN

\* busy_thrd counts the threads of the pool, less the one the admin has
\* started and not yet counted.  When that thread has already left again,
\* busy_thrd has wrapped around, and the admin's next step puts it right.
BusyExact ==
  busy_thrd = IF Cardinality(Registered) >= Uncounted
                THEN Cardinality(Registered) - Uncounted
                ELSE SizeMax

\* thread_pool.h: max_thrd is the maximum number of threads in the pool.  The
\* admin reads busy_thrd without the lock and creates a thread some steps
\* later, while workers leave.
PoolBound == Cardinality(Registered) <= MaxThrd

\* The list from work_head is the work added and not yet taken, in order; its
\* length is work_count and, when it is not empty, it ends at work_end.
ListIntact ==
  /\ work_count = Len(fifo)
  /\ fifo = <<>> => work_head = NoWork
  /\ fifo # <<>> => work_head = fifo[1] /\ work_end = fifo[Len(fifo)]
  /\ \A k \in 1 .. Len(fifo) :
       next[fifo[k]] = IF k < Len(fifo) THEN fifo[k + 1] ELSE NoWork

\* A work item is run by one thread at a time, and only between its removal
\* from the list and the free of its node.
OneRunner ==
  /\ \A t \in Threads : work[t] # NoWork <=> pc[t] \in {"took", "run"}
  /\ \A t, u \in Threads : work[t] = work[u] /\ work[t] # NoWork => t = u
  /\ \A w \in Works : status[w] = "running" <=> \E t \in Threads : work[t] = w

\* The slot the admin's search has found free is still free when the admin
\* stores the next thread in it, though it holds no lock on the way, and the
\* admin never stores a thread through an index it has not assigned.
SlotStaysFree ==
  /\ admin \in {"load", "check", "create"} /\ scan < MaxThrd =>
       work_thrd = scan /\ tid[scan] = NoThread
  /\ admin = "create" => work_thrd \in Slots

\* As long as the admin has overwritten no slot in use, tid holds the threads
\* of the pool, each once, and a leaving worker clears its own slot.  An odd
\* max_thrd is excluded: Searched misses the middle slot.
SlotsExact ==
  ~clobbered /\ MaxThrd % 2 = 0 =>
    /\ \A t \in Registered : \E s \in Slots : tid[s] = t
    /\ \A s \in Slots : tid[s] # NoThread => tid[s] \in Registered
    /\ \A r, s \in Slots : tid[r] = tid[s] /\ tid[r] # NoThread => r = s
    /\ \A t \in Threads : pc[t] = "found" => pos[t] \in Slots /\ tid[pos[t]] = t

(* What the safety properties need to be inductive. *)

\* fifo holds each queued work item once, and nothing else.
FifoExact ==
  /\ \A j, k \in 1 .. Len(fifo) : fifo[j] = fifo[k] => j = k
  /\ \A w \in Works : status[w] = "queued" <=> \E k \in 1 .. Len(fifo) : fifo[k] = w

\* Between the condition and pthread_create there is room for one more thread.
RoomForOne == admin = "create" => Cardinality(Registered) < MaxThrd

\* Until its first search has found a slot the admin has created no thread.
FirstSearch ==
  work_thrd = Unset /\ MaxThrd > 0 =>
    /\ admin = "scan" /\ scan = 0
    /\ \A s \in Slots : tid[s] = NoThread

\* The inductive invariant of the pool.  Every state it admits is consistent:
\* the list, the work each thread holds, the thread count and the slots agree.
IInv ==
  /\ TypeOK
  /\ ListIntact /\ FifoExact /\ OneRunner
  /\ BusyExact /\ PoolBound /\ RoomForOne
  /\ SlotStaysFree /\ FirstSearch /\ SlotsExact

\* A slot in use is overwritten only after a search that found none free, that
\* is, after the pool has had max_thrd threads at once.
ClobberOnlyWhenFull ==
  [][~clobbered /\ clobbered' => scan = MaxThrd]_vars

\* The pool implements WorkPool: each work item is started once, oldest first.
Abstract == INSTANCE WorkPool WITH pending <- fifo
ImplementsWorkPool == Abstract!Spec

\* Line 102, "set thread id to 0": a worker that leaves removes its own id from
\* tid, and no other.
LeaverClearsOwnSlot ==
  [][\A t \in Threads : pc[t] = "found" /\ pc'[t] = "left" =>
       \E s \in Slots : tid[s] = t /\ tid' = [tid EXCEPT ![s] = NoThread]]_vars

\* Queued work is started in the end, or the process has ended.
WorkStarts ==
  \A w \in Works : status[w] = "queued" ~> status[w] # "queued" \/ ~Alive

\* Once no more work arrives, only threads inside a func that never returns
\* are left.
PoolDrains == <>[](~Alive \/ \A t \in Threads : pc[t] \in {"none", "run"})

===============================================================================
