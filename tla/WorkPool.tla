------------------------------- MODULE WorkPool -------------------------------
(***************************************************************************)
(* What the thread pool of util/thread_pool.h promises a caller: work that *)
(* has been added is started once, in the order it was added, unless it is *)
(* discarded by thrdpool_exit, and a work item is over when its func       *)
(* returns.  Nothing is said about threads.  ThreadPool implements this    *)
(* module.                                                                 *)
(***************************************************************************)
EXTENDS Sequences

CONSTANTS
  Works,     \* the work items callers can add
  Endless    \* those whose func never returns

VARIABLES
  pending,   \* the work added and not yet started, oldest first
  status     \* "new", "queued", "running", "done" or "dropped"

vars == <<pending, status>>

Init ==
  /\ pending = <<>>
  /\ status = [w \in Works |-> "new"]

\* thrdpool_add_work.
Add(w) ==
  /\ status[w] = "new"
  /\ pending' = Append(pending, w)
  /\ status' = [status EXCEPT ![w] = "queued"]

\* Some thread calls the func of the oldest work.
Start ==
  /\ pending # <<>>
  /\ pending' = Tail(pending)
  /\ status' = [status EXCEPT ![Head(pending)] = "running"]

\* The func returns.
Finish(w) ==
  /\ status[w] = "running" /\ w \notin Endless
  /\ status' = [status EXCEPT ![w] = "done"]
  /\ UNCHANGED pending

\* thrdpool_exit(THRDPOOL_EXIT_NONE): what has not started never will.
Discard ==
  /\ pending # <<>>
  /\ pending' = <<>>
  /\ status' = [w \in Works |->
                  IF status[w] = "queued" THEN "dropped" ELSE status[w]]

Next ==
  \/ \E w \in Works : Add(w) \/ Finish(w)
  \/ Start
  \/ Discard

Spec == Init /\ [][Next]_vars

===============================================================================
