---------------------------- MODULE ThreadPoolExit ----------------------------
(***************************************************************************)
(* thrdpool_exit of util/thread_pool.c, run by one caller while the pool   *)
(* of ThreadPool goes on: the admin thread and the workers keep stepping   *)
(* until the memory of the pool is freed.  The caller is a thread outside  *)
(* the pool ("owner", the one that created it or any other) or a worker    *)
(* inside the func of one of the works in Quitters.                        *)
(*                                                                         *)
(* Every unlocked access the function makes to state other threads write   *)
(* is a step of its own; its spin loops are steps that wait for their      *)
(* condition.  After the free nothing is modelled: what matters is who is  *)
(* still going to touch the pool.                                          *)
(***************************************************************************)
EXTENDS ThreadPool

CONSTANTS
  Callers,    \* who may call: "owner", "worker"
  Flags,      \* the flags passed: "none" (THRDPOOL_EXIT_NONE), "wait"
  Quitters    \* the works whose func may call thrdpool_exit

ASSUME ExitAssumption ==
  /\ Callers \subseteq {"owner", "worker"}
  /\ Flags \subseteq {"none", "wait"}
  /\ Quitters \subseteq Works
  /\ Threads \cap {"owner", "exit"} = {} /\ NoThread # "owner"

VARIABLES
  x_at,     \* where the call is; "out" before it is made
  x_by,     \* the calling thread
  x_flag,   \* its flag
  x_pos,    \* its local pos: the caller's slot, MaxThrd if it has none
  x_busy,   \* busy_thrd as loaded by its unlocked decrement
  x_rest,   \* auxiliary: the pool was at rest when the call was made
  x_added   \* auxiliary: work has been added during the call

xVars == <<x_at, x_by, x_flag, x_pos, x_busy, x_rest, x_added>>

allVars == <<vars, xVars>>

XInit ==
  /\ Init
  /\ x_at = "out" /\ x_by = NoThread /\ x_flag = "none"
  /\ x_pos = Unset /\ x_busy = 0
  /\ x_rest = FALSE /\ x_added = FALSE

-------------------------------------------------------------------------------
\* Nothing is queued and the admin is not on its way to one more thread.
AtRest ==
  /\ fifo = <<>>
  /\ admin = "check" => seen = 0
  /\ admin \notin {"create", "count"}

Call(by, flag) ==
  /\ x_at = "out"
  /\ \/ by = "owner" /\ "owner" \in Callers
     \/ /\ by \in Threads /\ "worker" \in Callers
        /\ pc[by] = "run" /\ work[by] \in Quitters
  /\ x_at' = "search" /\ x_by' = by /\ x_flag' = flag
  /\ x_rest' = AtRest
  /\ UNCHANGED <<vars, x_pos, x_busy, x_added>>

\* The search for the caller in tid; unlike a worker's it covers every slot.
Search ==
  /\ x_at = "search"
  /\ LET own == {s \in Slots : tid[s] = x_by}
     IN IF own = {} THEN UNCHANGED x_pos ELSE x_pos' \in own
  /\ x_at' = "self"
  /\ UNCHANGED <<vars, x_by, x_flag, x_busy, x_rest, x_added>>

\* A caller in the pool clears its slot and decrements busy_thrd, all of it
\* without the lock: it looks whether a thread is counted, ...
LeaveSelf ==
  /\ x_at = "self"
  /\ x_pos \in Slots /\ busy_thrd > 0
  /\ x_at' = "slot"
  /\ UNCHANGED <<vars, x_by, x_flag, x_pos, x_busy, x_rest, x_added>>

\* ... clears the slot, ...
ClearSelf ==
  /\ x_at = "slot"
  /\ tid' = [tid EXCEPT ![x_pos] = NoThread]
  /\ x_at' = "load"
  /\ UNCHANGED <<listVars, clobbered, flagVars, adminVars, workerVars,
                 busy_thrd, lock, status, x_by, x_flag, x_pos, x_busy, x_rest, x_added>>

\* ... and loads busy_thrd again, which may be another by now, ...
LoadSelf ==
  /\ x_at = "load"
  /\ x_busy' = busy_thrd
  /\ x_at' = "store"
  /\ UNCHANGED <<vars, x_by, x_flag, x_pos, x_rest, x_added>>

\* ... to store one less.  The store of a critical section that is still
\* open may land after this one and undo it.
StoreSelf ==
  /\ x_at = "store"
  /\ busy_thrd' \in {Dec(x_busy)} \cup
       (IF admin = "counted" \/ \E t \in Threads : pc[t] = "left"
          THEN {busy_thrd} ELSE {})
  /\ x_busy' = 0
  /\ x_at' = "flag"
  /\ UNCHANGED <<listVars, slotVars, flagVars, adminVars, workerVars, lock,
                 status, x_by, x_flag, x_pos, x_rest, x_added>>

\* A caller outside the pool, or one that finds busy_thrd zero.
StaySelf ==
  /\ x_at = "self"
  /\ x_pos = Unset \/ busy_thrd = 0
  /\ x_at' = "flag"
  /\ UNCHANGED <<vars, x_by, x_flag, x_pos, x_busy, x_rest, x_added>>

-------------------------------------------------------------------------------
(* THRDPOOL_EXIT_NONE. *)

SetExit ==
  /\ x_at = "flag" /\ x_flag = "none"
  /\ exit' = TRUE
  /\ x_at' = "clear"
  /\ UNCHANGED <<listVars, slotVars, admin_exit, adminVars, workerVars,
                 busy_thrd, lock, status, x_by, x_flag, x_pos, x_busy, x_rest, x_added>>

\* The critical section that frees the queued nodes; work_end is left alone.
ClearList ==
  /\ x_at = "clear"
  /\ lock = NoThread
  /\ lock' = "exit"
  /\ work_head' = NoWork
  /\ work_count' = work_count - Len(fifo)
  /\ next' = [w \in Works |-> IF status[w] = "queued" THEN NoWork ELSE next[w]]
  /\ fifo' = <<>>
  /\ status' = [w \in Works |->
                  IF status[w] = "queued" THEN "dropped" ELSE status[w]]
  /\ x_at' = "unlock"
  /\ UNCHANGED <<work_end, slotVars, flagVars, adminVars, workerVars, busy_thrd,
                 x_by, x_flag, x_pos, x_busy, x_rest, x_added>>

ClearUnlock ==
  /\ x_at = "unlock"
  /\ lock' = NoThread
  /\ x_at' = "drain"
  /\ UNCHANGED <<listVars, slotVars, flagVars, adminVars, workerVars,
                 busy_thrd, status, x_by, x_flag, x_pos, x_busy, x_rest, x_added>>

\* Mutation: one thread may be left.
DrainedButOne ==
  /\ x_at = "drain"
  /\ busy_thrd <= 1
  /\ x_at' = "stop"
  /\ UNCHANGED <<vars, x_by, x_flag, x_pos, x_busy, x_rest, x_added>>

Drained ==
  /\ x_at = "drain"
  /\ busy_thrd = 0
  /\ x_at' = "stop"
  /\ UNCHANGED <<vars, x_by, x_flag, x_pos, x_busy, x_rest, x_added>>

-------------------------------------------------------------------------------
(* THRDPOOL_EXIT_WAIT: the two operands of its loop condition. *)

WaitHead ==
  /\ x_at = "head" \/ (x_at = "flag" /\ x_flag = "wait")
  /\ work_head = NoWork
  /\ x_at' = "busy"
  /\ UNCHANGED <<vars, x_by, x_flag, x_pos, x_busy, x_rest, x_added>>

\* Mutation: an empty list is enough.
WaitBusyIgnored ==
  /\ x_at = "busy"
  /\ x_at' = "stop"
  /\ UNCHANGED <<vars, x_by, x_flag, x_pos, x_busy, x_rest, x_added>>

WaitBusy ==
  /\ x_at = "busy"
  /\ x_at' = IF busy_thrd = 0 THEN "stop" ELSE "head"
  /\ UNCHANGED <<vars, x_by, x_flag, x_pos, x_busy, x_rest, x_added>>

-------------------------------------------------------------------------------
(* The common end. *)

\* Mutation: the admin is not told to stop.
StopAdminForgotten ==
  /\ x_at = "stop"
  /\ x_at' = "join"
  /\ UNCHANGED <<vars, x_by, x_flag, x_pos, x_busy, x_rest, x_added>>

StopAdmin ==
  /\ x_at = "stop"
  /\ admin_exit' = TRUE
  /\ x_at' = "join"
  /\ UNCHANGED <<listVars, slotVars, exit, adminVars, workerVars, busy_thrd,
                 lock, status, x_by, x_flag, x_pos, x_busy, x_rest, x_added>>

\* tadmin is 0: free the pool; a caller in the pool ends with pthread_exit.
FreePool ==
  /\ x_at = "join"
  /\ admin = "gone"
  /\ x_at' = "freed"
  /\ pc' = IF x_pos \in Slots THEN [pc EXCEPT ![x_by] = "none"] ELSE pc
  /\ UNCHANGED <<listVars, slotVars, flagVars, adminVars, idle, pos, work,
                 busy_thrd, lock, status, x_by, x_flag, x_pos, x_busy, x_rest,
                 x_added>>

ExitStep ==
  \/ Search \/ LeaveSelf \/ ClearSelf \/ LoadSelf \/ StoreSelf \/ StaySelf
  \/ SetExit \/ ClearList \/ ClearUnlock \/ Drained
  \/ WaitHead \/ WaitBusy
  \/ StopAdmin \/ FreePool

-------------------------------------------------------------------------------
\* Work may still be added during the call; a worker that makes it does nothing
\* else meanwhile.
PoolStep ==
  /\ Next
  /\ x_by \in Threads => pc'[x_by] = pc[x_by]
  /\ x_added' = (x_added \/ (x_at # "out" /\ work_count' > work_count))
  /\ UNCHANGED <<x_at, x_by, x_flag, x_pos, x_busy, x_rest>>

XNext ==
  /\ Alive /\ x_at # "freed"
  /\ \/ PoolStep
     \/ \E by \in Threads \cup {"owner"}, flag \in Flags : Call(by, flag)
     \/ ExitStep

XSpec == XInit /\ [][XNext]_allVars

Running == Alive /\ x_at # "freed"

(***************************************************************************)
(* As FairSpec; the caller of thrdpool_exit is scheduled too.  Between     *)
(* SetExit and ClearList the admin may start workers that leave at once,   *)
(* one after another, all of them locking the mutex: the caller gets it in *)
(* the end only if the mutex starves nobody, hence the strong fairness.    *)
(***************************************************************************)
XFairSpec ==
  /\ XSpec
  /\ WF_allVars(Running /\ ExitStep)
  /\ SF_allVars(Running /\ ClearList)
  /\ WF_allVars(Running /\ AddUnlock /\ PoolStep)
  /\ WF_allVars(Running /\ AdminStep /\ PoolStep)
  /\ \A t \in Threads : WF_allVars(Running /\ Worker(t) /\ PoolStep)

-------------------------------------------------------------------------------
(* Properties. *)

\* Every variable has its type, during a call too.
XTypeOK ==
  /\ TypeOK
  /\ x_at \in {"out", "search", "self", "slot", "load", "store", "flag", "clear", "unlock",
               "drain", "head", "busy", "stop", "join", "freed"}
  /\ x_by \in Threads \cup {NoThread, "owner"}
  /\ x_flag \in {"none", "wait"}
  /\ x_pos \in 0 .. MaxThrd
  /\ x_busy \in 0 .. SizeMax
  /\ x_rest \in BOOLEAN /\ x_added \in BOOLEAN

\* The threads that are still going to use the pool; a caller in the pool is
\* not one of them while its call lasts.
Users == {t \in Threads : pc[t] # "none" /\ (t = x_by => x_at = "freed")}

Quiet == x_rest /\ ~x_added

\* When the pool was at rest at the call and no work came in during it, the
\* free of lines 298 and 299 finds the admin gone and no worker that has not
\* taken itself off the books.  One that has, and is between its decrement of
\* busy_thrd (line 105) and the end of its unlock (line 106), may still be
\* there, and unlocks a mutex that is freed: ExitWaitsForAll is what fails.
QuietExitIsSafe ==
  x_at = "freed" /\ Quiet =>
    /\ admin = "gone"
    /\ \A t \in Users : pc[t] = "left"

\* "wait for all threads exit", line 280: when an exit that waits frees the
\* pool, at rest at the call and with no work added during it, no thread of the
\* pool is left.
ExitWaitsForAll ==
  x_at = "freed" /\ x_flag = "wait" /\ Quiet => Users = {}

\* A pool at rest is not stopped before its running works are over.
QuietWaitFinishes ==
  x_flag = "wait" /\ x_at \in {"stop", "join", "freed"} /\ Quiet =>
    \A t \in Users : pc[t] \notin {"took", "run"}

\* With every func returning, thrdpool_exit called from outside the pool
\* returns.  Work added during the call can keep it from returning: behind the
\* cleared list it keeps the admin creating workers, each leaves at the exit
\* flag without taking it, and the admin never comes to look at admin_exit.
ExitReturns ==
  (x_at = "search" /\ x_by = "owner") ~> (x_at = "freed" \/ ~Alive \/ x_added)

===============================================================================
