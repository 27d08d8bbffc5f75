--------------------------- MODULE ThreadPoolProofs ---------------------------
(***************************************************************************)
(* Proofs about ThreadPool and ThreadPoolExit for every number of threads, *)
(* works and slots.                                                        *)
(*                                                                         *)
(* IInv is inductive.  Its parts are taken in the order in which they rest *)
(* on each other: the list and the work each thread holds (with the types, *)
(* since what GetWork takes is a work item only because the list is        *)
(* intact), the thread count, and the slots.                               *)
(***************************************************************************)
EXTENDS ThreadPoolExit, FiniteSetTheorems, TLAPS

-------------------------------------------------------------------------------
(* Types. *)

LEMMA SlotsType == Slots \subseteq 0 .. MaxThrd /\ Unset \in 0 .. MaxThrd
BY ThreadPoolAssumption DEF Slots, Unset

LEMMA TypeInit == Init => TypeOK
<1> SUFFICES ASSUME Init PROVE TypeOK
  OBVIOUS
<1>1. fifo \in Seq(Works) /\ NoWork \in Works \cup {NoWork}
  BY DEF Init
<1>2. scan \in 0 .. MaxThrd /\ work_thrd \in 0 .. MaxThrd /\ 0 \in 0 .. SizeMax
  BY ThreadPoolAssumption, SlotsType DEF Init
<1>3. QED
  BY <1>1, <1>2, SlotsType DEF Init, TypeOK, WorkerPCs, AdminPCs

\* With work in the list, its head is a work item.
LEMMA HeadIsWork ==
  ASSUME TypeOK, ListIntact, work_count > 0
  PROVE  /\ fifo # <<>> /\ Len(fifo) \in Nat /\ Len(fifo) > 0
         /\ work_head = fifo[1] /\ work_head = Head(fifo)
         /\ work_head \in Works
BY DEF TypeOK, ListIntact

LEMMA TypeNext ==
  ASSUME TypeOK, ListIntact, [Next]_vars
  PROVE  TypeOK'
<1> USE ThreadPoolAssumption, SlotsType
    DEF TypeOK, WorkerPCs, AdminPCs, listVars, slotVars, flagVars, adminVars,
        workerVars
<1>1. ASSUME NEW w \in Works, AddWork(w) PROVE TypeOK'
  <2>1. Link(w) /\ fifo' = Append(fifo, w)
    BY <1>1 DEF AddWork
  <2>2. next' \in [Works -> Works \cup {NoWork}]
    BY <2>1 DEF Link
  <2>3. work_head' \in Works \cup {NoWork} /\ work_end' \in Works \cup {NoWork}
    BY <2>1 DEF Link
  <2>4. fifo' \in Seq(Works)
    BY <2>1
  <2>5. work_count' \in Nat /\ lock' = "caller"
    BY <1>1 DEF AddWork
  <2>6. status' \in [Works -> {"new", "queued", "running", "done", "dropped"}]
    BY <1>1 DEF AddWork
  <2>7. UNCHANGED <<slotVars, flagVars, adminVars, workerVars, busy_thrd>>
    BY <1>1 DEF AddWork
  <2>8. QED
    BY <2>2, <2>3, <2>4, <2>5, <2>6, <2>7
<1>2. CASE AddUnlock
  BY <1>2 DEF AddUnlock
<1>3. ASSUME NEW t \in Threads, WaitTimeout(t) PROVE TypeOK'
  BY <1>3 DEF WaitTimeout
<1>4. ASSUME NEW t \in Threads, WaitOver(t) PROVE TypeOK'
  BY <1>4 DEF WaitOver, AfterWait
<1>5. ASSUME NEW t \in Threads, GetWork(t) PROVE TypeOK'
  <2>1. fifo # <<>> /\ work_head \in Works
    BY <1>5, HeadIsWork DEF GetWork
  <2>2. fifo' \in Seq(Works)
    BY <1>5, <2>1 DEF GetWork
  <2>3. QED
    BY <1>5, <2>1, <2>2 DEF GetWork, NewHead
<1>6. ASSUME NEW t \in Threads, GetNothing(t) PROVE TypeOK'
  BY <1>6 DEF GetNothing
<1>7. ASSUME NEW t \in Threads, Unlock(t) PROVE TypeOK'
  BY <1>7 DEF Unlock, AfterUnlock
<1>8. ASSUME NEW t \in Threads, RunWork(t) PROVE TypeOK'
  <2>1. pc' \in [Threads -> WorkerPCs] /\ work' \in [Threads -> Works \cup {NoWork}]
    BY <1>8 DEF RunWork
  <2>2. status' \in [Works -> {"new", "queued", "running", "done", "dropped"}]
    BY <1>8 DEF RunWork
  <2>3. next' \in [Works -> Works \cup {NoWork}]
    BY <1>8 DEF RunWork
  <2>4. UNCHANGED <<work_head, work_end, work_count, fifo, slotVars, flagVars,
                    adminVars, idle, pos, busy_thrd, lock>>
    BY <1>8 DEF RunWork
  <2>5. QED
    BY <2>1, <2>2, <2>3, <2>4
<1>9. ASSUME NEW t \in Threads, FindSlot(t) PROVE TypeOK'
  BY <1>9 DEF FindSlot, Searched
<1>10. ASSUME NEW t \in Threads, Deregister(t) PROVE TypeOK'
  BY <1>10 DEF Deregister, Dec
<1>11. CASE ScanNext
  BY <1>11 DEF ScanNext, Slots
<1>12. CASE ScanFree
  BY <1>12 DEF ScanFree
<1>13. CASE ScanFull
  BY <1>13 DEF ScanFull
<1>14. CASE LoadCount
  BY <1>14 DEF LoadCount
<1>15. CASE Check
  BY <1>15 DEF Check
<1>16. ASSUME NEW t \in Threads, CreateThread(t) PROVE TypeOK'
  BY <1>16 DEF CreateThread
<1>17. CASE CreateFails
  BY <1>17 DEF CreateFails
<1>18. CASE CountThread
  BY <1>18 DEF CountThread, Inc
<1>19. CASE CountUnlock
  BY <1>19 DEF CountUnlock
<1>20. CASE Poll
  BY <1>20 DEF Poll
<1>21. CASE UNCHANGED vars
  BY <1>21 DEF vars
<1>22. QED
  BY <1>1, <1>2, <1>3, <1>4, <1>5, <1>6, <1>7, <1>8, <1>9, <1>10, <1>11, <1>12,
     <1>13, <1>14, <1>15, <1>16, <1>17, <1>18, <1>19, <1>20, <1>21
     DEF Next, Worker, AdminStep

-------------------------------------------------------------------------------
(* The list, and the work each thread holds. *)

Holding == {t \in Threads : pc[t] \in {"took", "run"}}

\* Only three actions change the list, the status or the work of a thread.
LEMMA WorkFrame ==
  ASSUME TypeOK, [Next]_vars
  PROVE  \/ \E w \in Works : AddWork(w)
         \/ \E t \in Threads : GetWork(t) \/ RunWork(t)
         \/ UNCHANGED <<listVars, work, status, Holding>>
<1> USE DEF TypeOK, listVars, slotVars, flagVars, adminVars, workerVars, Holding
<1>1. ASSUME NEW t \in Threads, Worker(t), ~GetWork(t), ~RunWork(t)
      PROVE  UNCHANGED <<listVars, work, status, Holding>>
  <2>1. CASE WaitTimeout(t)
    BY <2>1 DEF WaitTimeout
  <2>2. CASE WaitOver(t)
    BY <2>2 DEF WaitOver, AfterWait
  <2>3. CASE GetNothing(t)
    BY <2>3 DEF GetNothing
  <2>4. CASE Unlock(t)
    BY <2>4 DEF Unlock, AfterUnlock
  <2>5. CASE FindSlot(t)
    BY <2>5 DEF FindSlot
  <2>6. CASE Deregister(t)
    BY <2>6 DEF Deregister
  <2>7. QED
    BY <1>1, <2>1, <2>2, <2>3, <2>4, <2>5, <2>6 DEF Worker
<1>2. ASSUME NEW t \in Threads, CreateThread(t)
      PROVE  UNCHANGED <<listVars, work, status, Holding>>
  BY <1>2 DEF CreateThread
<1>3. CASE AddUnlock \/ CreateFails \/ ScanNext \/ ScanFree \/ ScanFull
  BY <1>3 DEF AddUnlock, CreateFails, ScanNext, ScanFree, ScanFull
<1>4. CASE LoadCount \/ Check \/ CountThread \/ CountUnlock \/ Poll
  BY <1>4 DEF LoadCount, Check, CountThread, CountUnlock, Poll
<1>5. CASE UNCHANGED vars
  BY <1>5 DEF vars
<1>6. QED
  BY <1>1, <1>2, <1>3, <1>4, <1>5 DEF Next, AdminStep

\* The conjuncts of the invariant about the list and the works.
ListPart == ListIntact /\ FifoExact /\ OneRunner

LEMMA ListInit == Init => ListPart
BY ThreadPoolAssumption DEF Init, ListPart, ListIntact, FifoExact, OneRunner

\* A work item in the list is in nobody's hands.
LEMMA QueuedNotHeld ==
  ASSUME TypeOK, ListPart, NEW k \in 1 .. Len(fifo)
  PROVE  /\ fifo[k] \in Works /\ status[fifo[k]] = "queued"
         /\ \A t \in Threads : work[t] # fifo[k]
<1>1. fifo[k] \in Works
  BY DEF TypeOK
<1>2. status[fifo[k]] = "queued"
  BY <1>1 DEF ListPart, FifoExact
<1>3. QED
  BY <1>1, <1>2 DEF ListPart, OneRunner

LEMMA ListAddWork ==
  ASSUME TypeOK, TypeOK', ListPart, NEW w \in Works, AddWork(w)
  PROVE  ListPart'
<1> USE DEF TypeOK
<1> DEFINE n == Len(fifo)
<1>1. /\ n \in Nat /\ n = work_count
      /\ Len(fifo') = n + 1 /\ fifo'[n + 1] = w
      /\ \A k \in 1 .. n : fifo'[k] = fifo[k]
  BY DEF AddWork, ListPart, ListIntact
<1>2. status[w] = "new" /\ status' = [status EXCEPT ![w] = "queued"]
      /\ UNCHANGED <<pc, work>>
  BY DEF AddWork, workerVars
<1>3. \A k \in 1 .. n : fifo[k] # w /\ fifo[k] \in Works
  BY <1>1, <1>2, QueuedNotHeld
<1>4. FifoExact'
  <2>1. \A j, k \in 1 .. n + 1 : fifo'[j] = fifo'[k] => j = k
    <3>1. \A j, k \in 1 .. n : fifo[j] = fifo[k] => j = k
      BY DEF FifoExact, ListPart
    <3>2. \A k \in 1 .. n + 1 : k \in 1 .. n \/ k = n + 1
      BY ONLY <1>1
    <3>3. QED
      BY ONLY <1>1, <1>3, <3>1, <3>2
  <2>2. \A v \in Works : status'[v] = "queued" <=> v = w \/ status[v] = "queued"
    BY <1>2
  <2>3. \A v \in Works :
          (\E k \in 1 .. n + 1 : fifo'[k] = v) <=> v = w \/ \E k \in 1 .. n : fifo[k] = v
    BY ONLY <1>1
  <2>4. \A v \in Works : status[v] = "queued" <=> \E k \in 1 .. n : fifo[k] = v
    BY DEF FifoExact, ListPart
  <2>5. \A v \in Works :
          status'[v] = "queued" <=> \E k \in 1 .. n + 1 : fifo'[k] = v
    BY <2>2, <2>3, <2>4
  <2>6. QED
    BY ONLY <1>1, <2>1, <2>5 DEF FifoExact
<1>5. OneRunner'
  BY <1>2, <1>3 DEF OneRunner, ListPart
<1>6. ListIntact'
  <2>1. CASE fifo = <<>>
    <3>1. work_head' = w /\ work_end' = w /\ next'[w] = NoWork /\ n = 0
      BY <2>1, <1>1, ThreadPoolAssumption DEF AddWork, Link, ListPart, ListIntact
    <3>2. fifo'[1] = w /\ Len(fifo') = 1 /\ work_count' = 1 /\ fifo' # <<>>
      BY <1>1, <3>1 DEF AddWork
    <3>3. QED
      BY <3>1, <3>2 DEF ListIntact
  <2>2. CASE fifo # <<>>
    <3>1. /\ n > 0 /\ work_head = fifo[1] /\ work_end = fifo[n]
          /\ \A k \in 1 .. n :
               next[fifo[k]] = IF k < n THEN fifo[k + 1] ELSE NoWork
      BY <2>2, <1>1 DEF ListPart, ListIntact
    <3>2. /\ work_head' = fifo[1] /\ work_end' = w
          /\ next' = [next EXCEPT ![w] = NoWork, ![fifo[n]] = w]
      BY <3>1, <1>3, ThreadPoolAssumption DEF AddWork, Link
    <3>3. \A k \in 1 .. n + 1 :
            next'[fifo'[k]] = IF k < n + 1 THEN fifo'[k + 1] ELSE NoWork
      <4> TAKE k \in 1 .. n + 1
      <4>1. CASE k = n + 1
        BY <4>1, <1>1, <1>3, <3>1, <3>2
      <4>2. CASE k = n
        BY <4>2, <1>1, <1>3, <3>1, <3>2
      <4>3. CASE k < n
        BY <4>3, <1>1, <1>3, <3>1, <3>2 DEF FifoExact, ListPart
      <4>4. QED
        BY <4>1, <4>2, <4>3, <1>1
    <3>4. QED
      BY <1>1, <3>1, <3>2, <3>3 DEF AddWork, ListIntact
  <2>3. QED
    BY <2>1, <2>2
<1>7. QED
  BY <1>4, <1>5, <1>6 DEF ListPart

LEMMA ListGetWork ==
  ASSUME TypeOK, ListPart, NEW t \in Threads, GetWork(t)
  PROVE  ListPart'
<1> DEFINE n == Len(fifo)
           w == fifo[1]
<1>1. /\ n \in Nat /\ n > 0 /\ n = work_count
      /\ fifo \in Seq(Works) /\ w = work_head /\ work_end = fifo[n]
  BY DEF TypeOK, GetWork, ListPart, ListIntact
<1>2. /\ fifo' = Tail(fifo) /\ Len(fifo') = n - 1
      /\ \A k \in 1 .. n - 1 : fifo'[k] = fifo[k + 1]
  BY <1>1 DEF GetWork
<1>3. \A j, k \in 1 .. n : fifo[j] = fifo[k] => j = k
  BY DEF ListPart, FifoExact
<1>4. /\ w \in Works /\ status[w] = "queued" /\ \A u \in Threads : work[u] # w
  BY <1>1, QueuedNotHeld
<1>5. /\ pc' = [pc EXCEPT ![t] = "took"] /\ work' = [work EXCEPT ![t] = w]
      /\ status' = [status EXCEPT ![w] = "running"]
      /\ pc \in [Threads -> WorkerPCs] /\ work \in [Threads -> Works \cup {NoWork}]
      /\ status \in [Works -> {"new", "queued", "running", "done", "dropped"}]
  BY <1>1 DEF GetWork, TypeOK
<1>6. ListIntact'
  <2>1. next' = next /\ work_end' = work_end /\ work_count' = n - 1
    BY <1>1 DEF GetWork
  <2>2. \A k \in 1 .. n : next[fifo[k]] = IF k < n THEN fifo[k + 1] ELSE NoWork
    BY DEF ListPart, ListIntact
  <2>3. work_head' = IF n > 1 THEN fifo[2] ELSE NoWork
    BY <1>1, <2>2 DEF GetWork, NewHead
  <2>4. \A k \in 1 .. n - 1 :
          next'[fifo'[k]] = IF k < n - 1 THEN fifo'[k + 1] ELSE NoWork
    BY ONLY <1>1, <1>2, <2>1, <2>2
  <2>5. fifo' = <<>> => n = 1
    BY ONLY <1>1, <1>2
  <2>6. fifo' # <<>> => n > 1
    BY ONLY <1>1, <1>2
  <2>7. QED
    BY ONLY <1>1, <1>2, <2>1, <2>3, <2>4, <2>5, <2>6, SMTT(20) DEF ListIntact
<1>7. FifoExact'
  <2>1. \A j, k \in 1 .. n - 1 : fifo'[j] = fifo'[k] => j = k
    BY ONLY <1>1, <1>2, <1>3
  <2>2. \A v \in Works : status[v] = "queued" <=> \E k \in 1 .. n : fifo[k] = v
    BY DEF ListPart, FifoExact
  <2>3. \A v \in Works : status'[v] = "queued" <=> v # w /\ status[v] = "queued"
    BY ONLY <1>4, <1>5
  <2>4. ASSUME NEW v \in Works
        PROVE  (\E k \in 1 .. n - 1 : fifo'[k] = v) <=>
                 v # w /\ \E k \in 1 .. n : fifo[k] = v
    <3>1. ASSUME NEW k \in 1 .. n - 1, fifo'[k] = v
          PROVE  v # w /\ \E m \in 1 .. n : fifo[m] = v
      <4>1. k + 1 \in 1 .. n /\ fifo[k + 1] = v /\ 1 \in 1 .. n /\ k + 1 # 1
        BY ONLY <1>1, <1>2, <3>1
      <4>2. QED
        BY ONLY <1>3, <4>1
    <3>2. ASSUME NEW k \in 1 .. n, fifo[k] = v, v # w
          PROVE  \E m \in 1 .. n - 1 : fifo'[m] = v
      <4>1. k - 1 \in 1 .. n - 1 /\ fifo'[k - 1] = v
        BY ONLY <1>1, <1>2, <3>2
      <4>2. QED
        BY ONLY <4>1
    <3>3. QED
      BY ONLY <3>1, <3>2
  <2>5. \A v \in Works :
          status'[v] = "queued" <=> \E k \in 1 .. n - 1 : fifo'[k] = v
    BY ONLY <2>2, <2>3, <2>4
  <2>6. QED
    BY ONLY <1>2, <2>1, <2>5 DEF FifoExact
<1>8. OneRunner'
  <2>1. /\ \A u \in Threads : work[u] # NoWork <=> pc[u] \in {"took", "run"}
        /\ \A u, v \in Threads : work[u] = work[v] /\ work[u] # NoWork => u = v
        /\ \A v \in Works : status[v] = "running" <=> \E u \in Threads : work[u] = v
    BY DEF ListPart, OneRunner
  <2>2. w # NoWork /\ pc[t] = "get"
    BY <1>4, ThreadPoolAssumption DEF GetWork
  <2>3. work[t] = NoWork
    BY <2>1, <2>2
  <2>4. \A u \in Threads : work'[u] # NoWork <=> pc'[u] \in {"took", "run"}
    BY ONLY <1>5, <2>1, <2>2
  <2>5. \A u, v \in Threads : work'[u] = work'[v] /\ work'[u] # NoWork => u = v
    BY ONLY <1>4, <1>5, <2>1, <2>2
  <2>6. \A v \in Works : status'[v] = "running" <=> \E u \in Threads : work'[u] = v
    BY ONLY <1>4, <1>5, <2>1, <2>2, <2>3, ThreadPoolAssumption
  <2>7. QED
    BY ONLY <2>4, <2>5, <2>6 DEF OneRunner
<1>9. QED
  BY <1>6, <1>7, <1>8 DEF ListPart

LEMMA ListRunWork ==
  ASSUME TypeOK, ListPart, NEW t \in Threads, RunWork(t)
  PROVE  ListPart'
<1> DEFINE w == work[t]
<1>1. /\ \A u \in Threads : work[u] # NoWork <=> pc[u] \in {"took", "run"}
      /\ \A u, v \in Threads : work[u] = work[v] /\ work[u] # NoWork => u = v
      /\ \A v \in Works : status[v] = "running" <=> \E u \in Threads : work[u] = v
  BY DEF ListPart, OneRunner
<1>2. /\ pc[t] = "run" /\ pc' = [pc EXCEPT ![t] = "wait"]
      /\ work' = [work EXCEPT ![t] = NoWork]
      /\ next' = [next EXCEPT ![w] = NoWork]
      /\ status' = [status EXCEPT ![w] = "done"]
      /\ UNCHANGED <<work_head, work_end, work_count, fifo>>
      /\ pc \in [Threads -> WorkerPCs] /\ work \in [Threads -> Works \cup {NoWork}]
      /\ next \in [Works -> Works \cup {NoWork}]
      /\ status \in [Works -> {"new", "queued", "running", "done", "dropped"}]
      /\ fifo \in Seq(Works)
  BY DEF RunWork, TypeOK
<1>3. w \in Works /\ status[w] = "running"
  BY <1>1, <1>2
<1>4. \A k \in 1 .. Len(fifo) : fifo[k] # w /\ fifo[k] \in Works
  BY <1>3, QueuedNotHeld
<1>5. ListIntact'
  BY <1>2, <1>4 DEF ListPart, ListIntact
<1>6. FifoExact'
  BY <1>2, <1>3 DEF ListPart, FifoExact
<1>7. OneRunner'
  <2>1. \A u \in Threads : work'[u] # NoWork <=> pc'[u] \in {"took", "run"}
    BY ONLY <1>1, <1>2
  <2>2. \A u, v \in Threads : work'[u] = work'[v] /\ work'[u] # NoWork => u = v
    BY ONLY <1>1, <1>2
  <2>3. \A v \in Works : status'[v] = "running" <=> \E u \in Threads : work'[u] = v
    BY ONLY <1>1, <1>2, <1>3, ThreadPoolAssumption
  <2>4. QED
    BY ONLY <2>1, <2>2, <2>3 DEF OneRunner
<1>8. QED
  BY <1>5, <1>6, <1>7 DEF ListPart

LEMMA ListNext ==
  ASSUME TypeOK, TypeOK', ListPart, [Next]_vars
  PROVE  ListPart'
<1>1. CASE UNCHANGED <<listVars, work, status, Holding>>
  <2>1. \A t \in Threads : pc[t] \in {"took", "run"} <=> pc'[t] \in {"took", "run"}
    BY <1>1 DEF Holding
  <2>2. QED
    BY <1>1, <2>1 DEF ListPart, ListIntact, FifoExact, OneRunner, listVars
<1>2. QED
  BY <1>1, WorkFrame, ListAddWork, ListGetWork, ListRunWork

-------------------------------------------------------------------------------
(* The thread count. *)

CountPart == BusyExact /\ PoolBound /\ RoomForOne

LEMMA RegisteredFinite == IsFiniteSet(Registered) /\ Cardinality(Registered) \in Nat
BY ThreadPoolAssumption, FS_Subset, FS_CardinalityType DEF Registered

LEMMA CountInit == Init => CountPart
<1> SUFFICES ASSUME Init PROVE CountPart
  OBVIOUS
<1>1. Registered = {}
  BY DEF Init, Registered
<1>2. Cardinality(Registered) = 0
  BY <1>1, FS_EmptySet
<1>3. QED
  BY <1>2, ThreadPoolAssumption
     DEF Init, CountPart, BusyExact, PoolBound, RoomForOne, Uncounted

\* Four actions count a thread, or change what is to be counted.
LEMMA CountFrame ==
  ASSUME TypeOK, [Next]_vars
  PROVE  \/ \E t \in Threads : Deregister(t) \/ CreateThread(t)
         \/ Check
         \/ CountThread
         \/ /\ UNCHANGED <<Registered, busy_thrd>>
            /\ admin = "count" <=> admin' = "count"
            /\ admin' = "create" => admin = "create"
<1> DEFINE Same == /\ UNCHANGED <<Registered, busy_thrd>>
                   /\ admin = "count" <=> admin' = "count"
                   /\ admin' = "create" => admin = "create"
<1> USE DEF TypeOK, listVars, slotVars, flagVars, adminVars, workerVars, Registered
<1>1. ASSUME NEW w \in Works, AddWork(w) PROVE Same
  BY <1>1 DEF AddWork
<1>2. ASSUME NEW t \in Threads, Worker(t), ~Deregister(t) PROVE Same
  <2>1. CASE WaitTimeout(t)
    BY <2>1 DEF WaitTimeout
  <2>2. CASE WaitOver(t)
    BY <2>2 DEF WaitOver, AfterWait
  <2>3. CASE GetWork(t)
    BY <2>3 DEF GetWork
  <2>4. CASE GetNothing(t)
    BY <2>4 DEF GetNothing
  <2>5. CASE Unlock(t)
    BY <2>5 DEF Unlock, AfterUnlock
  <2>6. CASE RunWork(t)
    BY <2>6 DEF RunWork
  <2>7. CASE FindSlot(t)
    BY <2>7 DEF FindSlot
  <2>8. QED
    BY <1>2, <2>1, <2>2, <2>3, <2>4, <2>5, <2>6, <2>7 DEF Worker
<1>3. CASE AddUnlock \/ CreateFails \/ ScanNext \/ ScanFree \/ ScanFull
  BY <1>3 DEF AddUnlock, CreateFails, ScanNext, ScanFree, ScanFull
<1>4. CASE LoadCount \/ CountUnlock \/ Poll
  BY <1>4 DEF LoadCount, CountUnlock, Poll
<1>5. CASE UNCHANGED vars
  BY <1>5 DEF vars
<1>6. QED
  BY <1>1, <1>2, <1>3, <1>4, <1>5 DEF Next, Worker, AdminStep

LEMMA CountNext ==
  ASSUME TypeOK, CountPart, [Next]_vars
  PROVE  CountPart'
<1> DEFINE c == Cardinality(Registered)
<1> USE DEF CountPart, PoolBound, RoomForOne
<1>1. c \in Nat /\ c <= MaxThrd /\ IsFiniteSet(Registered)
  BY RegisteredFinite
<1>2. busy_thrd = IF c >= Uncounted THEN c - Uncounted ELSE SizeMax
  BY DEF BusyExact
<1>3. ASSUME NEW t \in Threads, Deregister(t) PROVE CountPart'
  <2>1. pc[t] = "found" /\ pc' = [pc EXCEPT ![t] = "left"] /\ admin' = admin
        /\ pc \in [Threads -> WorkerPCs] /\ busy_thrd' = Dec(busy_thrd)
    BY <1>3 DEF Deregister, adminVars, TypeOK
  <2>2. t \in Registered /\ Registered' = Registered \ {t}
    BY <2>1 DEF Registered
  <2>3. c' = c - 1 /\ c > 0
    BY <1>1, <2>2, FS_RemoveElement, FS_EmptySet
  <2>4. Uncounted' = Uncounted /\ Uncounted \in {0, 1}
    BY <2>1 DEF Uncounted
  <2>5. busy_thrd = c - Uncounted
    BY <1>1, <1>2, <2>3, <2>4
  <2>6. BusyExact'
    BY <1>1, <2>1, <2>3, <2>4, <2>5 DEF BusyExact, Dec
  <2>7. QED
    BY <1>1, <2>1, <2>3, <2>6, ThreadPoolAssumption
<1>4. ASSUME NEW t \in Threads, CreateThread(t) PROVE CountPart'
  <2>1. /\ pc[t] = "none" /\ pc' = [pc EXCEPT ![t] = "wait"]
        /\ admin = "create" /\ admin' = "count"
        /\ pc \in [Threads -> WorkerPCs] /\ busy_thrd' = busy_thrd
    BY <1>4 DEF CreateThread, TypeOK
  <2>2. t \notin Registered /\ Registered' = Registered \cup {t}
    BY <2>1 DEF Registered
  <2>3. c' = c + 1 /\ c < MaxThrd
    BY <1>1, <2>1, <2>2, FS_AddElement
  <2>4. Uncounted = 0 /\ Uncounted' = 1 /\ busy_thrd = c
    BY <1>1, <1>2, <2>1 DEF Uncounted
  <2>5. BusyExact'
    BY <1>1, <2>1, <2>3, <2>4 DEF BusyExact
  <2>6. QED
    BY <1>1, <2>1, <2>3, <2>5, ThreadPoolAssumption
<1>5. CASE Check
  <2>1. admin = "check" /\ admin' \in {"create", "poll"} /\ Registered' = Registered
        /\ busy_thrd' = busy_thrd
    BY <1>5 DEF Check, Registered, workerVars
  <2>2. Uncounted = 0 /\ Uncounted' = 0 /\ busy_thrd = c
    BY <1>1, <1>2, <2>1 DEF Uncounted
  <2>3. admin' = "create" => busy_thrd < MaxThrd
    BY <1>5 DEF Check, WantsThread
  <2>4. BusyExact'
    BY <1>1, <2>1, <2>2 DEF BusyExact
  <2>5. QED
    BY <1>1, <2>1, <2>2, <2>3, <2>4
<1>6. CASE CountThread
  <2>1. admin = "count" /\ admin' = "counted" /\ Registered' = Registered
        /\ busy_thrd' = Inc(busy_thrd)
    BY <1>6 DEF CountThread, Registered, workerVars
  <2>2. Uncounted = 1 /\ Uncounted' = 0
    BY <2>1 DEF Uncounted
  <2>3. Inc(busy_thrd) = c
    BY <1>1, <1>2, <2>2, ThreadPoolAssumption DEF Inc
  <2>4. BusyExact'
    BY <1>1, <2>1, <2>2, <2>3 DEF BusyExact
  <2>5. QED
    BY <1>1, <2>1, <2>4
<1>7. CASE /\ UNCHANGED <<Registered, busy_thrd>>
           /\ admin = "count" <=> admin' = "count"
           /\ admin' = "create" => admin = "create"
  <2>1. Uncounted' = Uncounted
    BY <1>7 DEF Uncounted
  <2>2. QED
    BY <1>7, <2>1 DEF BusyExact
<1>8. QED
  BY <1>3, <1>4, <1>5, <1>6, <1>7, CountFrame

-------------------------------------------------------------------------------
(* The slots. *)

SlotPart == SlotStaysFree /\ FirstSearch /\ SlotsExact

LEMMA SlotInit == Init => SlotPart
BY ThreadPoolAssumption
   DEF Init, SlotPart, SlotStaysFree, FirstSearch, SlotsExact, Registered, Slots

\* A worker clears one slot or none.
LEMMA SlotsCleared ==
  ASSUME TypeOK, NEW t \in Threads, Deregister(t)
  PROVE  \A s \in Slots : tid'[s] = IF s = pos[t] THEN NoThread ELSE tid[s]
BY DEF TypeOK, Deregister

\* Only the admin moves scan and work_thrd; only it and leaving workers write tid.
LEMMA SearchFrame ==
  ASSUME [Next]_vars
  PROVE  \/ \E t \in Threads : Deregister(t)
         \/ AdminStep
         \/ CreateFails
         \/ UNCHANGED <<tid, adminVars>>
<1> USE DEF slotVars, adminVars
<1>1. ASSUME NEW w \in Works, AddWork(w) PROVE UNCHANGED <<tid, adminVars>>
  BY <1>1 DEF AddWork
<1>2. ASSUME NEW t \in Threads, Worker(t), ~Deregister(t)
      PROVE  UNCHANGED <<tid, adminVars>>
  <2>1. CASE WaitTimeout(t)
    BY <2>1 DEF WaitTimeout
  <2>2. CASE WaitOver(t)
    BY <2>2 DEF WaitOver
  <2>3. CASE GetWork(t)
    BY <2>3 DEF GetWork
  <2>4. CASE GetNothing(t)
    BY <2>4 DEF GetNothing
  <2>5. CASE Unlock(t)
    BY <2>5 DEF Unlock
  <2>6. CASE RunWork(t)
    BY <2>6 DEF RunWork
  <2>7. CASE FindSlot(t)
    BY <2>7 DEF FindSlot
  <2>8. QED
    BY <1>2, <2>1, <2>2, <2>3, <2>4, <2>5, <2>6, <2>7 DEF Worker
<1>3. CASE AddUnlock
  BY <1>3 DEF AddUnlock
<1>4. CASE UNCHANGED vars
  BY <1>4 DEF vars
<1>5. QED
  BY <1>1, <1>2, <1>3, <1>4 DEF Next

LEMMA SearchNext ==
  ASSUME TypeOK, SlotStaysFree, FirstSearch, [Next]_vars
  PROVE  SlotStaysFree' /\ FirstSearch'
<1> DEFINE Goal == SlotStaysFree /\ FirstSearch
<1> USE ThreadPoolAssumption
    DEF SlotStaysFree, FirstSearch, Slots, Unset, slotVars, adminVars
<1>1. tid \in [Slots -> Threads \cup {NoThread}] /\ scan \in 0 .. MaxThrd
      /\ work_thrd \in 0 .. MaxThrd /\ MaxThrd \in Nat /\ busy_thrd \in Nat
  BY DEF TypeOK
<1>2. ASSUME NEW t \in Threads, Deregister(t) PROVE Goal'
  <2>1. \A s \in Slots : tid'[s] = IF s = pos[t] THEN NoThread ELSE tid[s]
    BY <1>2, SlotsCleared
  <2>2. UNCHANGED adminVars
    BY <1>2 DEF Deregister
  <2>3. QED
    BY <1>1, <2>1, <2>2
<1>3. CASE ScanNext
  BY <1>1, <1>3 DEF ScanNext
<1>4. CASE ScanFree
  BY <1>1, <1>4 DEF ScanFree
<1>5. CASE ScanFull
  BY <1>1, <1>5 DEF ScanFull
<1>6. CASE LoadCount
  BY <1>1, <1>6 DEF LoadCount
<1>7. CASE Check
  BY <1>1, <1>7 DEF Check, WantsThread
<1>8. ASSUME NEW t \in Threads, CreateThread(t) PROVE Goal'
  BY <1>1, <1>8 DEF CreateThread
<1>9. CASE CreateFails
  BY <1>1, <1>9 DEF CreateFails
<1>10. CASE CountThread
  BY <1>1, <1>10 DEF CountThread
<1>11. CASE CountUnlock
  BY <1>1, <1>11 DEF CountUnlock
<1>12. CASE Poll
  BY <1>1, <1>12 DEF Poll
<1>13. CASE UNCHANGED <<tid, adminVars>>
  BY <1>1, <1>13
<1>14. QED
  BY <1>2, <1>3, <1>4, <1>5, <1>6, <1>7, <1>8, <1>9, <1>10, <1>11, <1>12, <1>13,
     SearchFrame DEF AdminStep

\* The workers that are about to clear a slot.
Clearing == {t \in Threads : pc[t] = "found"}

LEMMA SlotsFrame ==
  ASSUME TypeOK, [Next]_vars
  PROVE  \/ \E t \in Threads : FindSlot(t) \/ Deregister(t) \/ CreateThread(t)
         \/ UNCHANGED <<tid, clobbered, pos, Registered, Clearing>>
<1> DEFINE Same == UNCHANGED <<tid, clobbered, pos, Registered, Clearing>>
<1> USE DEF TypeOK, slotVars, workerVars, Registered, Clearing
<1>1. ASSUME NEW w \in Works, AddWork(w) PROVE Same
  BY <1>1 DEF AddWork
<1>2. ASSUME NEW t \in Threads, Worker(t), ~FindSlot(t), ~Deregister(t)
      PROVE  Same
  <2>1. CASE WaitTimeout(t)
    BY <2>1 DEF WaitTimeout
  <2>2. CASE WaitOver(t)
    BY <2>2 DEF WaitOver, AfterWait
  <2>3. CASE GetWork(t)
    BY <2>3 DEF GetWork
  <2>4. CASE GetNothing(t)
    BY <2>4 DEF GetNothing
  <2>5. CASE Unlock(t)
    BY <2>5 DEF Unlock, AfterUnlock
  <2>6. CASE RunWork(t)
    BY <2>6 DEF RunWork
  <2>7. QED
    BY <1>2, <2>1, <2>2, <2>3, <2>4, <2>5, <2>6 DEF Worker
<1>3. CASE AddUnlock \/ CreateFails \/ ScanNext \/ ScanFree \/ ScanFull
  BY <1>3 DEF AddUnlock, CreateFails, ScanNext, ScanFree, ScanFull
<1>4. CASE LoadCount \/ Check \/ CountThread \/ CountUnlock \/ Poll
  BY <1>4 DEF LoadCount, Check, CountThread, CountUnlock, Poll
<1>5. CASE UNCHANGED vars
  BY <1>5 DEF vars
<1>6. QED
  BY <1>1, <1>2, <1>3, <1>4, <1>5 DEF Next, AdminStep

\* Of an even number of slots the search leaves none out.
LEMMA SearchedAll == MaxThrd % 2 = 0 => Searched = Slots
BY ThreadPoolAssumption DEF Searched, Slots

LEMMA SlotsNext ==
  ASSUME TypeOK, SlotStaysFree, SlotsExact, [Next]_vars
  PROVE  SlotsExact'
<1> SUFFICES ASSUME ~clobbered', MaxThrd % 2 = 0
             PROVE  SlotsExact'
  BY DEF SlotsExact
<1>1. /\ tid \in [Slots -> Threads \cup {NoThread}] /\ pc \in [Threads -> WorkerPCs]
      /\ pos \in [Threads -> 0 .. MaxThrd]
      /\ NoThread \notin Threads
  BY ThreadPoolAssumption DEF TypeOK
<1>2. ~clobbered =>
        /\ \A t \in Registered : \E s \in Slots : tid[s] = t
        /\ \A s \in Slots : tid[s] # NoThread => tid[s] \in Registered
        /\ \A r, s \in Slots : tid[r] = tid[s] /\ tid[r] # NoThread => r = s
        /\ \A t \in Threads : pc[t] = "found" => pos[t] \in Slots /\ tid[pos[t]] = t
  BY DEF SlotsExact
<1>3. ASSUME NEW t \in Threads, FindSlot(t) PROVE SlotsExact'
  <2>1. /\ pc[t] = "leave" /\ pc' = [pc EXCEPT ![t] = "found"]
        /\ tid' = tid /\ ~clobbered
    BY <1>3 DEF FindSlot, slotVars
  <2>2. PICK p \in IF {s \in Searched : tid[s] = t} # {}
                     THEN {s \in Searched : tid[s] = t} ELSE Slots \cup {Unset} :
          pos' = [pos EXCEPT ![t] = p]
    BY <1>3 DEF FindSlot
  <2>3. t \in Registered /\ Registered' = Registered
    BY <1>1, <2>1 DEF Registered
  <2>4. p \in Slots /\ tid[p] = t
    BY <1>2, <2>1, <2>2, <2>3, SearchedAll
  <2>5. \A u \in Threads : pc'[u] = "found" => pos'[u] \in Slots /\ tid'[pos'[u]] = u
    BY <1>1, <1>2, <2>1, <2>2, <2>4
  <2>6. QED
    BY <1>2, <2>1, <2>3, <2>5 DEF SlotsExact
<1>4. ASSUME NEW t \in Threads, Deregister(t) PROVE SlotsExact'
  <2>1. /\ pc[t] = "found" /\ pc' = [pc EXCEPT ![t] = "left"]
        /\ pos' = [pos EXCEPT ![t] = Unset] /\ ~clobbered
    BY <1>4 DEF Deregister
  <2>2. \A s \in Slots : tid'[s] = IF s = pos[t] THEN NoThread ELSE tid[s]
    BY <1>4, SlotsCleared
  <2>3. pos[t] \in Slots /\ tid[pos[t]] = t
    BY <1>2, <2>1
  <2>4. Registered' = Registered \ {t}
    BY <1>1, <2>1 DEF Registered
  <2>5. \A s \in Slots : tid[s] = t => s = pos[t]
    BY <1>1, <1>2, <2>1, <2>3
  <2>6. \A u \in Registered' : \E s \in Slots : tid'[s] = u
    BY <1>2, <2>1, <2>2, <2>3, <2>4
  <2>7. \A s \in Slots : tid'[s] # NoThread => tid'[s] \in Registered'
    BY <1>2, <2>1, <2>2, <2>4, <2>5
  <2>8. \A r, s \in Slots : tid'[r] = tid'[s] /\ tid'[r] # NoThread => r = s
    BY <1>2, <2>1, <2>2
  <2>9. \A u \in Threads : pc'[u] = "found" => pos'[u] \in Slots /\ tid'[pos'[u]] = u
    BY <1>1, <1>2, <2>1, <2>2, <2>3
  <2>10. QED
    BY <2>6, <2>7, <2>8, <2>9 DEF SlotsExact
<1>5. ASSUME NEW t \in Threads, CreateThread(t) PROVE SlotsExact'
  <2>1. /\ pc[t] = "none" /\ pc' = [pc EXCEPT ![t] = "wait"]
        /\ pos' = pos /\ admin = "create"
        /\ tid' = [tid EXCEPT ![work_thrd] = t]
        /\ ~clobbered /\ tid[work_thrd] = NoThread
    BY <1>5 DEF CreateThread
  <2>2. work_thrd \in Slots
    BY <2>1 DEF SlotStaysFree
  <2>3. t \notin Registered /\ Registered' = Registered \cup {t}
    BY <1>1, <2>1 DEF Registered
  <2>4. \A s \in Slots : tid'[s] = IF s = work_thrd THEN t ELSE tid[s]
    BY <1>1, <2>1, <2>2
  <2>5. \A s \in Slots : tid[s] # t
    BY <1>1, <1>2, <2>1, <2>3
  <2>6. \A u \in Registered' : \E s \in Slots : tid'[s] = u
    BY <1>1, <1>2, <2>1, <2>2, <2>3, <2>4 DEF Registered
  <2>7. \A s \in Slots : tid'[s] # NoThread => tid'[s] \in Registered'
    BY <1>2, <2>1, <2>3, <2>4
  <2>8. \A r, s \in Slots : tid'[r] = tid'[s] /\ tid'[r] # NoThread => r = s
    BY <1>2, <2>1, <2>4, <2>5
  <2>9. \A u \in Threads : pc'[u] = "found" => pos'[u] \in Slots /\ tid'[pos'[u]] = u
    BY <1>1, <1>2, <2>1, <2>4
  <2>10. QED
    BY <2>6, <2>7, <2>8, <2>9 DEF SlotsExact
<1>6. CASE UNCHANGED <<tid, clobbered, pos, Registered, Clearing>>
  <2>1. \A u \in Threads : pc'[u] = "found" <=> pc[u] = "found"
    BY <1>6 DEF Clearing
  <2>2. QED
    BY <1>2, <1>6, <2>1 DEF SlotsExact
<1>7. QED
  BY <1>3, <1>4, <1>5, <1>6, SlotsFrame

-------------------------------------------------------------------------------
(* The theorems. *)

LEMMA IInvInit == Init => IInv
BY TypeInit, ListInit, CountInit, SlotInit DEF IInv, ListPart, CountPart, SlotPart

LEMMA IInvNext == IInv /\ [Next]_vars => IInv'
<1> SUFFICES ASSUME IInv, [Next]_vars PROVE IInv'
  OBVIOUS
<1>1. TypeOK /\ ListPart /\ CountPart /\ SlotPart
  BY DEF IInv, ListPart, CountPart, SlotPart
<1>2. TypeOK'
  BY <1>1, TypeNext DEF ListPart
<1>3. ListPart'
  BY <1>1, <1>2, ListNext
<1>4. CountPart'
  BY <1>1, CountNext
<1>5. SlotStaysFree' /\ FirstSearch' /\ SlotsExact'
  BY <1>1, SearchNext, SlotsNext DEF SlotPart
<1>6. QED
  BY <1>2, <1>3, <1>4, <1>5 DEF IInv, ListPart, CountPart

\* The inductive invariant holds in every state of every pool.
THEOREM Invariance == Spec => []IInv
BY IInvInit, IInvNext, PTL DEF Spec

\* Every variable of the pool keeps its type.
THEOREM TypeCorrect == Spec => []TypeOK
<1>1. IInv => TypeOK
  BY DEF IInv
<1>2. QED
  BY <1>1, Invariance, PTL

\* thread_pool.h's maximum number of threads is never exceeded.
THEOREM PoolBounded == Spec => []PoolBound
<1>1. IInv => PoolBound
  BY DEF IInv
<1>2. QED
  BY <1>1, Invariance, PTL

\* busy_thrd counts the threads of the pool, but for the one being created.
THEOREM BusyIsExact == Spec => []BusyExact
<1>1. IInv => BusyExact
  BY DEF IInv
<1>2. QED
  BY <1>1, Invariance, PTL

\* The linked list is the work added and not yet taken, in order.
THEOREM ListIsIntact == Spec => []ListIntact
<1>1. IInv => ListIntact
  BY DEF IInv
<1>2. QED
  BY <1>1, Invariance, PTL

\* No work item is in the hands of two threads, or of one and the list.
THEOREM OneRunnerEach == Spec => []OneRunner
<1>1. IInv => OneRunner
  BY DEF IInv
<1>2. QED
  BY <1>1, Invariance, PTL

\* The slot the admin has found free is free when it stores a thread in it.
THEOREM SlotIsKept == Spec => []SlotStaysFree
<1>1. IInv => SlotStaysFree
  BY DEF IInv
<1>2. QED
  BY <1>1, Invariance, PTL

\* For an even max_thrd, tid is the threads of the pool until a full array has
\* made the admin overwrite a slot in use.
THEOREM SlotsAreExact == Spec => []SlotsExact
<1>1. IInv => SlotsExact
  BY DEF IInv
<1>2. QED
  BY <1>1, Invariance, PTL

\* Only a search that found no free slot makes the admin overwrite one in use.
THEOREM OnlyFullClobbers == Spec => ClobberOnlyWhenFull
<1>1. ASSUME IInv, [Next]_vars, ~clobbered, clobbered'
      PROVE  scan = MaxThrd
  <2>1. TypeOK /\ SlotStaysFree
    BY <1>1 DEF IInv
  <2>2. \A t \in Threads : CreateThread(t) => scan = MaxThrd
    <3> TAKE t \in Threads
    <3> HAVE CreateThread(t)
    <3>1. admin = "create" /\ tid[work_thrd] # NoThread
      BY <1>1 DEF CreateThread
    <3>2. QED
      BY <2>1, <3>1, ThreadPoolAssumption DEF SlotStaysFree, TypeOK
  <2>3. \A t \in Threads : Deregister(t) => UNCHANGED clobbered
    BY DEF Deregister
  <2>4. \A t \in Threads : FindSlot(t) => UNCHANGED clobbered
    BY DEF FindSlot, slotVars
  <2>5. QED
    BY <1>1, <2>1, <2>2, <2>3, <2>4, SlotsFrame
<1>2. IInv /\ [Next]_vars => [~clobbered /\ clobbered' => scan = MaxThrd]_vars
  BY <1>1
<1>3. QED
  BY <1>2, Invariance, PTL DEF Spec, ClobberOnlyWhenFull

-------------------------------------------------------------------------------
(* The refinement: what WorkPool promises. *)

LEMMA AbstractInit == Init => Abstract!Init
BY DEF Init, Abstract!Init

LEMMA AbstractNext ==
  ASSUME IInv, [Next]_vars
  PROVE  [Abstract!Next]_(Abstract!vars)
<1> USE DEF Abstract!Next, Abstract!vars
<1>1. TypeOK /\ ListPart
  BY DEF IInv, ListPart
<1>2. ASSUME NEW w \in Works, AddWork(w) PROVE Abstract!Add(w)
  BY <1>2 DEF AddWork, Abstract!Add
<1>3. ASSUME NEW t \in Threads, GetWork(t) PROVE Abstract!Start
  <2>1. fifo # <<>> /\ work_head = Head(fifo)
    BY <1>1, <1>3, HeadIsWork DEF GetWork, ListPart
  <2>2. QED
    BY <1>3, <2>1 DEF GetWork, Abstract!Start
<1>4. ASSUME NEW t \in Threads, RunWork(t) PROVE Abstract!Finish(work[t])
  <2>1. work[t] \in Works /\ status[work[t]] = "running"
    BY <1>1, <1>4 DEF RunWork, ListPart, OneRunner, TypeOK
  <2>2. QED
    BY <1>4, <2>1 DEF RunWork, Abstract!Finish
<1>5. ASSUME NEW t \in Threads, RunWork(t) PROVE work[t] \in Works
  BY <1>1, <1>5 DEF RunWork, ListPart, OneRunner, TypeOK
<1>6. CASE UNCHANGED <<listVars, work, status, Holding>>
  BY <1>6 DEF listVars
<1>7. QED
  BY <1>1, <1>2, <1>3, <1>4, <1>5, <1>6, WorkFrame

\* thrdpool_add_work and the workers implement a FIFO of works, each started
\* once and in the order of their arrival, however the threads interleave.
THEOREM Refinement == Spec => ImplementsWorkPool
<1>1. IInv /\ [Next]_vars => [Abstract!Next]_(Abstract!vars)
  BY AbstractNext
<1>2. QED
  BY <1>1, AbstractInit, Invariance, PTL DEF Spec, ImplementsWorkPool, Abstract!Spec

-------------------------------------------------------------------------------
(***************************************************************************)
(* ThreadPoolExit.  Until the call of its exit function the pool has the   *)
(* inductive invariant above.  The call breaks BusyExact: its decrement of *)
(* busy_thrd is not atomic.  What holds on is that busy_thrd is never too  *)
(* small: an update it loses, and one it undoes, are decrements, as long   *)
(* as the admin does not count a thread.                                   *)
(***************************************************************************)


\* The caller, once it has taken itself off the pool's books.
Self == IF x_pos \in Slots THEN {x_by} ELSE {}

\* A caller in the pool stays inside its func until the pool is freed.
CallerRuns ==
  /\ x_at # "out" => x_by \in Threads \cup {"owner"}
  /\ x_at \in {"out", "search"} => x_pos = Unset
  /\ x_pos \in Slots => x_by \in Threads
  /\ x_at \notin {"out", "freed"} /\ x_by \in Threads => pc[x_by] = "run"

\* A quiet pool stays at rest.
QuietRest ==
  x_at # "out" /\ Quiet =>
    /\ fifo = <<>>
    /\ admin = "check" => seen = 0
    /\ admin \notin {"create", "count"}

BeforeStore == {"search", "self", "slot", "load", "store"}

\* In a quiet pool busy_thrd is at least the number of threads that are left,
\* and when the call goes by it there are none but the caller.
QuietCount ==
  x_at # "out" /\ Quiet =>
    /\ x_at \in BeforeStore => busy_thrd >= Cardinality(Registered)
    /\ x_at \in {"slot", "load", "store"} => x_pos \in Slots
    /\ x_at = "store" => x_busy >= busy_thrd
    /\ x_at \in {"flag", "clear", "unlock", "drain", "head", "busy"} =>
         busy_thrd >= Cardinality(Registered \ Self)
    /\ x_at \in {"stop", "join"} => Registered \subseteq Self
    /\ x_at = "freed" => admin = "gone" /\ Registered = {}

XIInv ==
  /\ XTypeOK
  /\ x_at = "out" => IInv
  /\ x_at # "freed" => ListPart
  /\ CallerRuns /\ QuietRest /\ QuietCount

-------------------------------------------------------------------------------
LEMMA XIInvInit == XInit => XIInv
<1> SUFFICES ASSUME XInit PROVE XIInv
  OBVIOUS
<1>1. IInv /\ TypeOK /\ ListPart
  BY IInvInit DEF XInit, IInv, ListPart
<1>2. x_pos \in 0 .. MaxThrd /\ x_busy \in 0 .. SizeMax
  BY ThreadPoolAssumption, SlotsType DEF XInit
<1>3. XTypeOK
  BY <1>1, <1>2 DEF XInit, XTypeOK
<1>4. CallerRuns /\ QuietRest /\ QuietCount
  BY ThreadPoolAssumption
     DEF XInit, CallerRuns, QuietRest, QuietCount, Unset, Slots
<1>5. QED
  BY <1>1, <1>3, <1>4 DEF XIInv

\* What the steps of the call leave alone.
LEMMA ExitFrame ==
  ASSUME ExitStep, XTypeOK
  PROVE  /\ UNCHANGED <<admin, seen, work, x_by, x_flag, x_rest, x_added>>
         /\ UNCHANGED <<listVars, status>> \/ ClearList
         /\ UNCHANGED <<pc, Registered>> \/ FreePool
         /\ UNCHANGED busy_thrd \/ StoreSelf
         /\ UNCHANGED x_pos \/ Search
<1> USE DEF listVars, slotVars, flagVars, adminVars, workerVars, vars, Registered
<1>1. CASE Search
  BY <1>1 DEF Search
<1>2. CASE LeaveSelf
  BY <1>2 DEF LeaveSelf
<1>3. CASE StoreSelf
  BY <1>3 DEF StoreSelf
<1>4. CASE StaySelf
  BY <1>4 DEF StaySelf
<1>5. CASE SetExit
  BY <1>5 DEF SetExit
<1>6. CASE ClearList
  BY <1>6 DEF ClearList
<1>7. CASE ClearUnlock
  BY <1>7 DEF ClearUnlock
<1>8. CASE Drained
  BY <1>8 DEF Drained
<1>9. CASE WaitHead
  BY <1>9 DEF WaitHead
<1>10. CASE WaitBusy
  BY <1>10 DEF WaitBusy
<1>11. CASE StopAdmin
  BY <1>11 DEF StopAdmin
<1>12. CASE FreePool
  BY <1>12 DEF FreePool
<1>13. CASE ClearSelf
  BY <1>13 DEF ClearSelf
<1>14. CASE LoadSelf
  BY <1>14 DEF LoadSelf
<1>15. QED
  BY <1>1, <1>2, <1>3, <1>4, <1>5, <1>6, <1>7, <1>8, <1>9, <1>10, <1>11, <1>12,
     <1>13, <1>14 DEF ExitStep

\* The nodes that are freed were all of the list.
LEMMA ClearDoes ==
  ASSUME TypeOK, ListPart, ClearList
  PROVE  /\ fifo' = <<>> /\ work_count' = 0 /\ work_head' = NoWork
         /\ \A w \in Works : /\ status'[w] # "queued"
                             /\ status'[w] = "running" <=> status[w] = "running"
         /\ UNCHANGED <<work, pc>>
<1>1. work_count = Len(fifo) /\ Len(fifo) \in Nat
  BY DEF ListPart, ListIntact, TypeOK
<1>2. work_count' = 0
  BY <1>1 DEF ClearList
<1>3. QED
  BY <1>2 DEF ClearList, workerVars

LEMMA XTypeNext ==
  ASSUME XIInv, XNext
  PROVE  XTypeOK'
<1>1. XTypeOK /\ TypeOK /\ x_at # "freed" /\ ListPart /\ ListIntact
  BY DEF XIInv, XTypeOK, XNext, ListPart
<1> USE DEF XTypeOK
<1>2. CASE PoolStep
  <2>1. TypeOK'
    BY <1>1, <1>2, TypeNext DEF PoolStep
  <2>2. QED
    BY <1>1, <1>2, <2>1 DEF PoolStep
<1>3. ASSUME NEW by \in Threads \cup {"owner"}, NEW flag \in Flags, Call(by, flag)
      PROVE  XTypeOK'
  <2>1. TypeOK'
    BY <1>1, <1>3 DEF Call, TypeOK, vars, listVars, slotVars, flagVars, adminVars, workerVars
  <2>2. x_rest' \in BOOLEAN
    BY <1>3, Zenon DEF Call, AtRest
  <2>3. flag \in {"none", "wait"}
    BY ExitAssumption
  <2>4. QED
    BY <1>1, <1>3, <2>1, <2>2, <2>3 DEF Call
<1>4. CASE ExitStep
  <2> USE DEF TypeOK, vars, listVars, slotVars, flagVars, adminVars, workerVars, xVars
  <2>1. CASE Search
    <3>1. x_pos' \in 0 .. MaxThrd
      BY <1>1, <2>1, SlotsType DEF Search
    <3>2. QED
      BY <1>1, <2>1, <3>1 DEF Search
  <2>2. CASE LeaveSelf
    BY <1>1, <2>2 DEF LeaveSelf
  <2>3. CASE StoreSelf
    <3>1. busy_thrd' \in 0 .. SizeMax /\ 0 \in 0 .. SizeMax
      BY <1>1, <2>3, ThreadPoolAssumption DEF StoreSelf, Dec
    <3>2. QED
      BY <1>1, <2>3, <3>1 DEF StoreSelf
  <2>4. CASE StaySelf
    BY <1>1, <2>4 DEF StaySelf
  <2>5. CASE SetExit
    BY <1>1, <2>5 DEF SetExit
  <2>6. CASE ClearList
    <3>1. work_count' \in Nat /\ fifo' \in Seq(Works)
      <4>1. work_count' = 0 /\ fifo' = <<>>
        BY <1>1, <2>6, ClearDoes
      <4>2. QED
        BY <4>1
    <3>2. /\ next' \in [Works -> Works \cup {NoWork}]
          /\ status' \in [Works -> {"new", "queued", "running", "done", "dropped"}]
      BY <1>1, <2>6 DEF ClearList
    <3>3. QED
      BY <1>1, <2>6, <3>1, <3>2 DEF ClearList
  <2>7. CASE ClearUnlock
    BY <1>1, <2>7 DEF ClearUnlock
  <2>8. CASE Drained
    BY <1>1, <2>8 DEF Drained
  <2>9. CASE WaitHead
    BY <1>1, <2>9 DEF WaitHead
  <2>10. CASE WaitBusy
    BY <1>1, <2>10 DEF WaitBusy
  <2>11. CASE StopAdmin
    BY <1>1, <2>11 DEF StopAdmin
  <2>12. CASE FreePool
    <3>1. pc' \in [Threads -> WorkerPCs]
      BY <1>1, <2>12 DEF FreePool, WorkerPCs
    <3>2. QED
      BY <1>1, <2>12, <3>1 DEF FreePool
  <2>13. CASE ClearSelf
    <3>1. tid' \in [Slots -> Threads \cup {NoThread}]
      BY <1>1, <2>13 DEF ClearSelf
    <3>2. QED
      BY <1>1, <2>13, <3>1 DEF ClearSelf
  <2>14. CASE LoadSelf
    BY <1>1, <2>14 DEF LoadSelf
  <2>15. QED
    BY <1>4, <2>1, <2>2, <2>3, <2>4, <2>5, <2>6, <2>7, <2>8, <2>9, <2>10, <2>11,
       <2>12, <2>13, <2>14 DEF ExitStep
<1>5. QED
  BY <1>2, <1>3, <1>4 DEF XNext

\* The call leaves the list, and who holds which work, consistent.
LEMMA ExitKeepsList ==
  ASSUME XIInv, x_at # "freed", ExitStep, x_at' # "freed"
  PROVE  ListPart'
<1>1. TypeOK /\ XTypeOK /\ ListPart
  BY DEF XIInv, XTypeOK
<1>2. ~FreePool
  BY DEF FreePool
<1>3. CASE ClearList
  BY <1>1, <1>3, ClearDoes DEF ListPart, ListIntact, FifoExact, OneRunner
<1>4. CASE UNCHANGED <<listVars, status, work, pc>>
  BY <1>1, <1>4 DEF ListPart, ListIntact, FifoExact, OneRunner, listVars
<1>5. QED
  BY <1>1, <1>2, <1>3, <1>4, ExitFrame

LEMMA CallerRunsNext ==
  ASSUME XIInv, XNext
  PROVE  CallerRuns'
<1>1. XTypeOK /\ TypeOK /\ CallerRuns /\ x_at # "freed" /\ XTypeOK'
  BY XTypeNext DEF XIInv, XTypeOK, XNext
<1>2. CASE PoolStep
  BY <1>1, <1>2 DEF PoolStep, CallerRuns
<1>3. ASSUME NEW by \in Threads \cup {"owner"}, NEW flag \in Flags, Call(by, flag)
      PROVE  CallerRuns'
  BY <1>1, <1>3, ExitAssumption DEF Call, CallerRuns, vars, workerVars, Unset, Slots
<1>4. CASE Search
  <2>1. x_pos' \in Slots => x_by \in Threads
    <3>1. x_by \in Threads \cup {"owner"} /\ NoThread # "owner"
      BY <1>1, <1>4, ExitAssumption DEF CallerRuns, Search
    <3>2. \A s \in Slots : tid[s] \in Threads \cup {NoThread}
      BY <1>1 DEF TypeOK
    <3>3. x_pos \notin Slots
      BY <1>1, <1>4, ThreadPoolAssumption DEF CallerRuns, Search, Unset, Slots
    <3>4. QED
      BY <1>4, <3>1, <3>2, <3>3, ExitAssumption DEF Search
  <2>2. QED
    BY <1>1, <1>4, <2>1 DEF Search, CallerRuns, vars, workerVars
<1>5. CASE ExitStep /\ ~Search
  <2>1. x_at \notin {"out", "search"}
    BY <1>5 DEF ExitStep, LeaveSelf, ClearSelf, LoadSelf, StoreSelf, StaySelf, SetExit, ClearList,
                ClearUnlock, Drained, WaitHead, WaitBusy, StopAdmin, FreePool
  <2>2. x_at' \notin {"out", "search"}
    BY <1>5 DEF ExitStep, LeaveSelf, ClearSelf, LoadSelf, StoreSelf, StaySelf, SetExit, ClearList,
                ClearUnlock, Drained, WaitHead, WaitBusy, StopAdmin, FreePool
  <2>3. /\ x_by' = x_by /\ x_pos' = x_pos
        /\ pc' = pc \/ x_at' = "freed"
    BY <1>1, <1>5, ExitFrame DEF FreePool
  <2>4. QED
    BY <1>1, <2>1, <2>2, <2>3 DEF CallerRuns
<1>6. QED
  BY <1>2, <1>3, <1>4, <1>5 DEF XNext

-------------------------------------------------------------------------------
(* A quiet pool. *)

\* In a quiet pool the only thing that happens to the threads is that one of
\* them, which is not the caller, takes itself off the books.
LEMMA QuietStep ==
  ASSUME XIInv, PoolStep, x_at \notin {"out", "freed"}, Quiet'
  PROVE  /\ Quiet /\ x_at' = x_at /\ Self' = Self /\ x_busy' = x_busy
         /\ fifo' = <<>>
         /\ admin' = "check" => seen' = 0
         /\ admin' \notin {"create", "count"}
         /\ \/ UNCHANGED <<Registered, busy_thrd>>
            \/ \E t \in Registered : /\ t # x_by
                                     /\ Registered' = Registered \ {t}
                                     /\ busy_thrd' = Dec(busy_thrd)
<1>1. /\ Quiet /\ x_at' = x_at /\ x_by' = x_by /\ x_pos' = x_pos /\ x_busy' = x_busy
      /\ ~(work_count' > work_count)
  BY DEF PoolStep, Quiet
<1>2. /\ TypeOK /\ ListPart /\ fifo = <<>>
      /\ admin = "check" => seen = 0
      /\ admin \notin {"create", "count"}
      /\ [Next]_vars
      /\ x_by \in Threads => pc[x_by] = "run" /\ pc'[x_by] = "run"
  BY <1>1 DEF XIInv, XTypeOK, QuietRest, CallerRuns, PoolStep
<1>3. work_count = 0
  BY <1>2 DEF ListPart, ListIntact
<1>4. Self' = Self
  BY <1>1 DEF Self
<1>5. fifo' = <<>>
  <2>1. ASSUME NEW w \in Works, AddWork(w) PROVE FALSE
    BY <1>1, <1>3, <2>1 DEF AddWork
  <2>2. ASSUME NEW t \in Threads, GetWork(t) PROVE FALSE
    BY <1>3, <2>2 DEF GetWork
  <2>3. \A t \in Threads : RunWork(t) => fifo' = fifo
    BY DEF RunWork
  <2>4. QED
    BY <1>2, <2>1, <2>2, <2>3, WorkFrame DEF listVars
<1>6. UNCHANGED <<admin, seen>> \/ AdminStep \/ CreateFails
  BY <1>2, SearchFrame DEF adminVars, Deregister
<1>7. /\ admin' = "check" => seen' = 0
      /\ admin' \notin {"create", "count"}
  BY <1>2, <1>3, <1>6
     DEF AdminStep, CreateFails, ScanNext, ScanFree, ScanFull, LoadCount, Check,
         WantsThread, CreateThread, CountThread, CountUnlock, Poll
<1>8. \/ UNCHANGED <<Registered, busy_thrd>>
      \/ \E t \in Registered : /\ t # x_by
                               /\ Registered' = Registered \ {t}
                               /\ busy_thrd' = Dec(busy_thrd)
  <2>1. ASSUME NEW t \in Threads, Deregister(t)
        PROVE  /\ t \in Registered /\ t # x_by
               /\ Registered' = Registered \ {t} /\ busy_thrd' = Dec(busy_thrd)
    <3>1. /\ pc[t] = "found" /\ pc' = [pc EXCEPT ![t] = "left"]
          /\ busy_thrd' = Dec(busy_thrd)
      BY <2>1 DEF Deregister
    <3>2. pc \in [Threads -> WorkerPCs]
      BY <1>2 DEF TypeOK
    <3>3. QED
      BY <1>2, <3>1, <3>2 DEF Registered
  <2>2. \A t \in Threads : ~CreateThread(t)
    BY <1>2 DEF CreateThread
  <2>3. ~CountThread
    BY <1>2 DEF CountThread
  <2>4. Check => UNCHANGED <<Registered, busy_thrd>>
    BY DEF Check, Registered, workerVars
  <2>5. QED
    BY <1>2, <2>1, <2>2, <2>3, <2>4, CountFrame
<1>9. QED
  BY <1>1, <1>4, <1>5, <1>7, <1>8

LEMMA QuietRestNext ==
  ASSUME XIInv, XNext
  PROVE  QuietRest'
<1>1. XTypeOK /\ TypeOK /\ QuietRest /\ x_at # "freed"
      /\ ListPart
  BY DEF XIInv, XTypeOK, XNext
<1>2. CASE PoolStep
  <2>1. CASE x_at = "out"
    BY <1>2, <2>1 DEF PoolStep, QuietRest
  <2>2. CASE x_at # "out"
    BY <1>1, <1>2, <2>2, QuietStep DEF QuietRest
  <2>3. QED
    BY <2>1, <2>2
<1>3. ASSUME NEW by \in Threads \cup {"owner"}, NEW flag \in Flags, Call(by, flag)
      PROVE  QuietRest'
  BY <1>3 DEF Call, QuietRest, Quiet, AtRest, vars, listVars, adminVars
<1>4. CASE ExitStep
  <2>1. x_at # "out" /\ x_at' # "out"
    BY <1>4 DEF ExitStep, Search, LeaveSelf, ClearSelf, LoadSelf, StoreSelf,
                    StaySelf, SetExit, ClearList, ClearUnlock, Drained, WaitHead, WaitBusy,
             StopAdmin, FreePool
  <2>2. UNCHANGED <<admin, seen, x_rest, x_added>> /\ (fifo' = fifo \/ fifo' = <<>>)
    BY <1>1, <1>4, ExitFrame, ClearDoes DEF listVars
  <2>3. QED
    BY <1>1, <2>1, <2>2 DEF QuietRest, Quiet
<1>5. QED
  BY <1>2, <1>3, <1>4 DEF XNext

LEMMA QuietCountNext ==
  ASSUME XIInv, XNext
  PROVE  QuietCount'
<1> DEFINE r == Cardinality(Registered)
           s == Cardinality(Registered \ Self)
<1>1. /\ XTypeOK /\ TypeOK /\ QuietCount /\ CallerRuns /\ x_at # "freed"
      /\ busy_thrd \in Nat /\ x_busy \in Nat
  BY ThreadPoolAssumption DEF XIInv, XTypeOK, TypeOK, XNext
<1>2. /\ IsFiniteSet(Registered) /\ r \in Nat
      /\ IsFiniteSet(Registered \ Self) /\ s \in Nat /\ s <= r
  BY RegisteredFinite, FS_Subset, FS_CardinalityType
<1>3. ASSUME x_pos \in Slots, x_at \notin {"out", "freed"}
      PROVE  Self = {x_by} /\ x_by \in Registered /\ s = r - 1
  <2>1. Self = {x_by} /\ x_by \in Threads /\ pc[x_by] = "run"
    BY <1>1, <1>3 DEF Self, CallerRuns
  <2>2. x_by \in Registered
    BY <2>1 DEF Registered
  <2>3. QED
    BY <1>2, <2>1, <2>2, FS_RemoveElement
<1>4. CASE PoolStep /\ x_at # "out"
  <2> SUFFICES ASSUME Quiet' PROVE QuietCount'
    BY DEF QuietCount
  <2>1. /\ Quiet /\ x_at' = x_at /\ Self' = Self /\ x_busy' = x_busy
        /\ UNCHANGED x_pos
    BY <1>1, <1>4, QuietStep DEF PoolStep
  <2>2. CASE UNCHANGED <<Registered, busy_thrd>>
    BY <1>1, <1>4, <2>1, <2>2 DEF QuietCount
  <2>3. ASSUME NEW t \in Registered, t # x_by, Registered' = Registered \ {t},
               busy_thrd' = Dec(busy_thrd)
        PROVE  QuietCount'
    <3>1. t \notin Self /\ t \in Registered \ Self
      BY <2>3 DEF Self
    <3>2. Cardinality(Registered') = r - 1 /\ r > 0
      BY <1>2, <2>3, FS_RemoveElement, FS_EmptySet
    <3>3. Cardinality((Registered \ Self) \ {t}) = s - 1 /\ s > 0
      <4> DEFINE Others == Registered \ Self
      <4>1. IsFiniteSet(Others) /\ t \in Others /\ Cardinality(Others) \in Nat
        BY <1>2, <3>1
      <4> HIDE DEF Others
      <4>2. Cardinality(Others \ {t}) = Cardinality(Others) - 1 /\ Cardinality(Others) > 0
        BY <4>1, FS_RemoveElement, FS_EmptySet
      <4>3. QED
        BY <4>2 DEF Others
    <3>4. Registered' \ Self' = (Registered \ Self) \ {t}
      BY <2>1, <2>3
    <3>5. x_at \notin {"stop", "join", "freed"}
      BY <1>1, <1>4, <2>1, <3>1 DEF QuietCount
    <3>6. CASE x_at \in BeforeStore
      <4>1. /\ busy_thrd >= r /\ (x_at = "store" => x_busy >= busy_thrd)
            /\ x_at \in {"slot", "load", "store"} => x_pos \in Slots
        BY <1>1, <1>4, <2>1, <3>6 DEF QuietCount
      <4>2. busy_thrd' = busy_thrd - 1
        BY <1>1, <1>2, <2>3, <3>2, <4>1 DEF Dec
      <4>3. /\ busy_thrd' >= Cardinality(Registered')
            /\ x_at \in {"slot", "load", "store"} => x_pos' \in Slots
            /\ x_at = "store" => x_busy' >= busy_thrd'
        BY <1>1, <1>2, <2>1, <3>2, <4>1, <4>2
      <4>4. QED
        BY <2>1, <3>6, <4>3 DEF QuietCount, BeforeStore
    <3>7. CASE x_at \in {"flag", "clear", "unlock", "drain", "head", "busy"}
      <4>1. busy_thrd >= s
        BY <1>1, <1>4, <2>1, <3>7 DEF QuietCount
      <4>2. busy_thrd' = busy_thrd - 1
        BY <1>1, <1>2, <2>3, <3>3, <4>1 DEF Dec
      <4>3. busy_thrd' >= Cardinality(Registered' \ Self')
        BY <1>1, <1>2, <3>3, <3>4, <4>1, <4>2
      <4>4. QED
        BY <2>1, <3>7, <4>3 DEF QuietCount, BeforeStore
    <3>8. x_at \in BeforeStore \/ x_at \in {"flag", "clear", "unlock", "drain", "head", "busy"}
      <4>1. x_at \notin {"out", "stop", "join", "freed"}
        BY <1>4, <3>5
      <4>2. QED
        BY <1>1, <4>1 DEF XTypeOK, BeforeStore
    <3>9. QED
      BY <3>6, <3>7, <3>8
  <2>4. QED
    BY <1>1, <1>4, <2>2, <2>3, QuietStep
<1>5. CASE PoolStep /\ x_at = "out"
  BY <1>5 DEF PoolStep, QuietCount
<1>6. ASSUME NEW by \in Threads \cup {"owner"}, NEW flag \in Flags, Call(by, flag)
      PROVE  QuietCount'
  <2> SUFFICES ASSUME Quiet' PROVE QuietCount'
    BY DEF QuietCount
  <2>1. /\ x_at = "out" /\ x_at' = "search" /\ AtRest /\ IInv
        /\ UNCHANGED <<vars, Registered>>
    BY <1>6 DEF Call, Quiet, XIInv, vars, workerVars, Registered
  <2>2. busy_thrd = r
    <3>1. Uncounted = 0 /\ BusyExact
      BY <2>1 DEF AtRest, Uncounted, IInv
    <3>2. QED
      BY <1>2, <3>1 DEF BusyExact
  <2>3. busy_thrd' >= Cardinality(Registered')
    BY <1>1, <2>1, <2>2 DEF vars
  <2>4. QED
    BY <2>1, <2>3 DEF QuietCount, BeforeStore
<1>7. CASE ExitStep
  <2> SUFFICES ASSUME Quiet' PROVE QuietCount'
    BY DEF QuietCount
  <2>1. Quiet /\ x_at \notin {"out", "freed"}
    <3>1. UNCHANGED <<x_rest, x_added>>
      BY <1>1, <1>7, ExitFrame
    <3>2. QED
      BY <1>7, <3>1
         DEF Quiet, ExitStep, Search, LeaveSelf, ClearSelf, LoadSelf, StoreSelf,
             StaySelf, SetExit, ClearList, ClearUnlock, Drained, WaitHead, WaitBusy,
             StopAdmin, FreePool
  <2> USE DEF BeforeStore
  <2>2. /\ x_at \in BeforeStore => busy_thrd >= r
        /\ x_at \in {"slot", "load", "store"} => x_pos \in Slots
        /\ x_at = "store" => x_busy >= busy_thrd
        /\ x_at \in {"flag", "clear", "unlock", "drain", "head", "busy"} => busy_thrd >= s
        /\ x_at \in {"stop", "join"} => Registered \subseteq Self
    BY <1>1, <2>1 DEF QuietCount
  <2>3. ~FreePool => UNCHANGED Registered
    BY <1>1, <1>7, ExitFrame
  <2>4. ~Search => UNCHANGED Self
    BY <1>1, <1>7, ExitFrame DEF Self
  <2>5. CASE Search
    <3>1. x_at = "search" /\ x_at' = "self" /\ UNCHANGED <<busy_thrd, Registered>>
      BY <1>1, <1>7, <2>5, ExitFrame DEF Search, FreePool, StoreSelf
    <3>2. QED
      BY <2>2, <3>1 DEF QuietCount
  <2>6. CASE LeaveSelf
    <3>1. /\ x_at = "self" /\ x_at' = "slot" /\ x_pos \in Slots /\ x_pos' = x_pos
          /\ UNCHANGED <<busy_thrd, Registered>>
      BY <1>1, <1>7, <2>3, <2>6, ExitFrame DEF LeaveSelf, FreePool, Search, StoreSelf
    <3>2. QED
      BY <1>1, <2>2, <3>1 DEF QuietCount
  <2>7. CASE StoreSelf
    <3>1. /\ x_at = "store" /\ x_at' = "flag" /\ UNCHANGED <<Registered, Self>>
          /\ busy_thrd' \in {Dec(x_busy), busy_thrd}
      BY <2>3, <2>4, <2>7 DEF StoreSelf, FreePool, Search
    <3>2. s = r - 1 /\ x_busy >= busy_thrd /\ busy_thrd >= r
      BY <1>3, <2>1, <2>2, <3>1
    <3>3. Dec(x_busy) >= s
      BY <1>1, <1>2, <3>2 DEF Dec
    <3>4. busy_thrd' >= s
      BY <1>1, <1>2, <3>1, <3>2, <3>3
    <3>5. QED
      BY <3>1, <3>4 DEF QuietCount
  <2>8. CASE StaySelf
    <3>1. /\ x_at = "self" /\ x_at' = "flag" /\ UNCHANGED <<Registered, Self, busy_thrd>>
      BY <1>1, <1>7, <2>3, <2>4, <2>8, ExitFrame DEF StaySelf, FreePool, Search, StoreSelf
    <3>2. busy_thrd >= s
      BY <1>1, <1>2, <2>2, <3>1
    <3>3. QED
      BY <3>1, <3>2 DEF QuietCount
  <2>9. CASE SetExit \/ ClearList \/ ClearUnlock \/ WaitHead
    <3>1. /\ x_at \in {"flag", "clear", "unlock", "head"}
          /\ x_at' \in {"clear", "unlock", "drain", "busy"}
      BY <2>9 DEF SetExit, ClearList, ClearUnlock, WaitHead
    <3>2. UNCHANGED <<Registered, Self, busy_thrd>>
      BY <1>1, <1>7, <2>3, <2>4, <3>1, ExitFrame DEF FreePool, Search, StoreSelf
    <3>3. QED
      BY <2>2, <3>1, <3>2 DEF QuietCount
  <2>10. CASE Drained \/ WaitBusy
    <3>1. /\ x_at \in {"drain", "busy"} /\ x_at' \in {"stop", "head"}
          /\ x_at' = "stop" => busy_thrd = 0
      BY <2>10 DEF Drained, WaitBusy
    <3>2. UNCHANGED <<Registered, Self, busy_thrd>>
      BY <1>1, <1>7, <2>3, <2>4, <3>1, ExitFrame DEF FreePool, Search, StoreSelf
    <3>3. x_at' = "stop" => Registered \ Self = {}
      BY <1>2, <2>2, <3>1, FS_EmptySet
    <3>4. QED
      BY <2>2, <3>1, <3>2, <3>3 DEF QuietCount
  <2>11. CASE StopAdmin
    <3>1. x_at = "stop" /\ x_at' = "join" /\ UNCHANGED <<Registered, Self>>
      BY <2>3, <2>4, <2>11 DEF StopAdmin, FreePool, Search
    <3>2. QED
      BY <2>2, <3>1 DEF QuietCount
  <2>12. CASE FreePool
    <3>1. /\ x_at = "join" /\ x_at' = "freed" /\ admin' = "gone"
          /\ pc' = IF x_pos \in Slots THEN [pc EXCEPT ![x_by] = "none"] ELSE pc
      BY <2>12 DEF FreePool, adminVars
    <3>2. pc \in [Threads -> WorkerPCs] /\ Registered \subseteq Self
      BY <1>1, <2>2, <3>1 DEF TypeOK
    <3>3. Registered' = {}
      BY <3>1, <3>2 DEF Registered, Self
    <3>4. QED
      BY <3>1, <3>3 DEF QuietCount
  <2>13. CASE ClearSelf
    <3>1. /\ x_at = "slot" /\ x_at' = "load" /\ x_pos' = x_pos
          /\ UNCHANGED <<busy_thrd, Registered>>
      BY <1>1, <1>7, <2>3, <2>13, ExitFrame DEF ClearSelf, FreePool, Search, StoreSelf
    <3>2. QED
      BY <1>1, <2>2, <3>1 DEF QuietCount
  <2>14. CASE LoadSelf
    <3>1. /\ x_at = "load" /\ x_at' = "store" /\ x_pos' = x_pos
          /\ x_busy' = busy_thrd /\ UNCHANGED <<busy_thrd, Registered>>
      BY <1>1, <1>7, <2>3, <2>14, ExitFrame DEF LoadSelf, FreePool, Search, StoreSelf
    <3>2. QED
      BY <1>1, <2>2, <3>1 DEF QuietCount
  <2>15. QED
    BY <1>7, <2>5, <2>6, <2>7, <2>8, <2>9, <2>10, <2>11, <2>12, <2>13, <2>14
       DEF ExitStep
<1>8. QED
  BY <1>4, <1>5, <1>6, <1>7 DEF XNext

LEMMA XIInvNext == XIInv /\ [XNext]_allVars => XIInv'
<1> SUFFICES ASSUME XIInv, [XNext]_allVars PROVE XIInv'
  OBVIOUS
<1>1. CASE UNCHANGED allVars
  <2>1. TypeOK /\ [Next]_vars /\ (ListPart => ListIntact)
    BY <1>1 DEF allVars, XIInv, XTypeOK, ListPart
  <2>2. x_at # "freed" => TypeOK' /\ ListPart'
    BY <2>1, TypeNext, ListNext DEF XIInv
  <2>3. x_at = "out" => IInv'
    BY <2>1, IInvNext DEF XIInv
  <2>4. TypeOK'
    BY <1>1, <2>1 DEF allVars, vars, listVars, slotVars, flagVars, adminVars,
                      workerVars, TypeOK
  <2>5. CallerRuns' /\ QuietRest' /\ QuietCount'
    BY <1>1 DEF allVars, vars, listVars, slotVars, flagVars, adminVars, workerVars,
         xVars, Registered, Self, XIInv, CallerRuns, QuietRest, QuietCount, Quiet
  <2>6. QED
    BY <1>1, <2>2, <2>3, <2>4, <2>5 DEF allVars, xVars, XIInv, XTypeOK
<1>2. CASE XNext
  <2>1. x_at # "freed" /\ TypeOK /\ ListPart /\ XTypeOK' /\ TypeOK'
    BY <1>2, XTypeNext DEF XNext, XIInv, XTypeOK
  <2>2. x_at' = "out" => IInv'
    <3>1. CASE PoolStep
      BY <3>1, IInvNext DEF XIInv, PoolStep
    <3>2. CASE ~PoolStep
      BY <1>2, <3>2
         DEF XNext, Call, ExitStep, Search, LeaveSelf, ClearSelf, LoadSelf, StoreSelf,
             StaySelf, SetExit, ClearList, ClearUnlock, Drained, WaitHead, WaitBusy,
             StopAdmin, FreePool
    <3>3. QED
      BY <3>1, <3>2
  <2>3. x_at' # "freed" => ListPart'
    <3>1. CASE PoolStep
      BY <2>1, <3>1, ListNext DEF PoolStep
    <3>2. ASSUME NEW by \in Threads \cup {"owner"}, NEW flag \in Flags, Call(by, flag)
          PROVE  ListPart'
      BY <2>1, <3>2 DEF Call, ListPart, ListIntact, FifoExact, OneRunner, vars,
                        listVars, workerVars
    <3>3. QED
      BY <1>2, <2>1, <3>1, <3>2, ExitKeepsList DEF XNext
  <2>4. QED
    BY <1>2, <2>1, <2>2, <2>3, CallerRunsNext, QuietRestNext, QuietCountNext DEF XIInv
<1>3. QED
  BY <1>1, <1>2

-------------------------------------------------------------------------------
(* What follows. *)

\* Every variable keeps its type, during a call of thrdpool_exit too.
THEOREM XTypeCorrect == XSpec => []XTypeOK
<1>1. XIInv => XTypeOK
  BY DEF XIInv
<1>2. QED
  BY <1>1, XIInvInit, XIInvNext, PTL DEF XSpec

LEMMA UsersRegistered ==
  ASSUME XIInv, x_at \in {"stop", "join", "freed"}, Quiet, NEW t \in Users
  PROVE  pc[t] = "left"
<1>1. t \in Threads /\ pc[t] # "none" /\ (t = x_by => x_at = "freed")
  BY DEF Users
<1>2. t \notin Registered
  BY <1>1 DEF XIInv, QuietCount, Self
<1>3. QED
  BY <1>1, <1>2 DEF Registered

\* thrdpool_exit frees a quiet pool only when the admin is gone and every worker
\* has taken itself off the books: its racing decrement of busy_thrd can make it
\* wait for ever, never too short.  A worker may still be between that and the
\* end of its unlock.
THEOREM ExitIsSafe == XSpec => []QuietExitIsSafe
<1>1. XIInv => QuietExitIsSafe
  BY UsersRegistered DEF QuietExitIsSafe, XIInv, QuietCount
<1>2. QED
  BY <1>1, XIInvInit, XIInvNext, PTL DEF XSpec

\* THRDPOOL_EXIT_WAIT gets past its loop only when every func has returned.
THEOREM WaitFinishes == XSpec => []QuietWaitFinishes
<1>1. XIInv => QuietWaitFinishes
  BY UsersRegistered DEF QuietWaitFinishes
<1>2. QED
  BY <1>1, XIInvInit, XIInvNext, PTL DEF XSpec

===============================================================================
