------------------------------ MODULE JsonArray ------------------------------
(***************************************************************************)
(* The mutable arrays of src/util/yyjson.h: the values of an array form a  *)
(* circular list, of which the array knows the last and the number.  One   *)
(* array, the values that come and go, and one iterator; a value that was  *)
(* taken out keeps its `next', and may be put in again.                    *)
(***************************************************************************)
EXTENDS Integers, Sequences

CONSTANT MaxValues   \* the number of values there are

ASSUME ArrayAssumption == MaxValues \in Nat

Values == 1..MaxValues     \* as they lie in the pool

VARIABLES nxt,        \* the next of every value
          ptr,        \* arr->uni.ptr, the last value
          len,        \* the length in the array's tag
          itAt,       \* the iterator's last call: "off" without one, "at" a
                      \* value it has returned, "between" when it was another,
                      \* "spoilt" when it has broken the list
          it,         \* iter: idx, max, pre and cur
          strayed     \* whether it removed another value than the last, or one
                      \* it had not just returned

arrayVars == <<nxt, ptr, len, itAt, it, strayed>>

\* `n' steps along the list
Ahead(v, n) == LET at[i \in 0..n] == IF i = 0 THEN v ELSE nxt[at[i - 1]] IN at[n]

Get(idx) == Ahead(ptr, idx + 1)
GetFirst == nxt[ptr]
GetLast == ptr

LinkedValues == {Ahead(ptr, i) : i \in 1..len}
Spare == Values \ LinkedValues

Iter(idx, max, pre, cur) == [idx |-> idx, max |-> max, pre |-> pre, cur |-> cur]

NoArrIter == Iter(0, 0, 0, 0)

\* The array may not be modified while it is iterated over: the iterator is not
\* used again before it is initialised.
ArrModified == itAt' = "off" /\ it' = NoArrIter /\ strayed' = FALSE

-----------------------------------------------------------------------------
\* yyjson_mut_arr, yyjson_mut_arr_with_*: `count' values behind the array
Created(count) ==
  /\ nxt = [v \in Values |-> IF v = count THEN 1 ELSE v + 1]
  /\ ptr = count
  /\ len = count

\* yyjson_mut_arr_insert
ArrInsert(v, idx) ==
  /\ idx <= len
  /\ len' = len + 1
  /\ \/ /\ len = 0
        /\ nxt' = [nxt EXCEPT ![v] = v]
     \/ /\ len > 0
        /\ LET prev == Ahead(ptr, IF idx = len THEN 0 ELSE idx)
           IN nxt' = [nxt EXCEPT ![prev] = v, ![v] = nxt[prev]]
  /\ ptr' = IF idx = len THEN v ELSE ptr
  /\ ArrModified

\* yyjson_mut_arr_append
AppendTo(v) ==
  /\ len' = len + 1
  /\ nxt' = IF len = 0 THEN [nxt EXCEPT ![v] = v]
            ELSE [nxt EXCEPT ![ptr] = v, ![v] = nxt[ptr]]
  /\ ptr' = v
  /\ ArrModified

\* yyjson_mut_arr_prepend
Prepend(v) ==
  /\ len' = len + 1
  /\ nxt' = IF len = 0 THEN [nxt EXCEPT ![v] = v]
            ELSE [nxt EXCEPT ![ptr] = v, ![v] = nxt[ptr]]
  /\ ptr' = IF len = 0 THEN v ELSE ptr
  /\ ArrModified

\* yyjson_mut_arr_add_*: create a value, for which there may be no memory, and
\* append it
Add(v) == AppendTo(v) \/ UNCHANGED <<nxt, ptr, len, itAt, it, strayed>>

\* yyjson_mut_arr_replace
ArrReplace(idx, v) ==
  LET prev == Ahead(ptr, idx)
      next == nxt[prev]
  IN /\ idx < len
     /\ nxt' = IF len > 1 THEN [nxt EXCEPT ![prev] = v, ![v] = nxt[next]]
               ELSE [nxt EXCEPT ![v] = v]
     /\ ptr' = IF len = 1 \/ next = ptr THEN v ELSE ptr
     /\ UNCHANGED len
     /\ ArrModified

\* The last value is not looked after.
ArrRemoveLoose(idx) ==
  LET prev == Ahead(ptr, idx)
  IN /\ idx < len
     /\ len' = len - 1
     /\ nxt' = [nxt EXCEPT ![prev] = nxt[nxt[prev]]]
     /\ UNCHANGED ptr
     /\ ArrModified

\* yyjson_mut_arr_remove
ArrRemove(idx) ==
  LET prev == Ahead(ptr, idx)
      next == nxt[prev]
  IN /\ idx < len
     /\ len' = len - 1
     /\ IF len = 1 THEN UNCHANGED <<nxt, ptr>>
        ELSE /\ nxt' = [nxt EXCEPT ![prev] = nxt[next]]
             /\ ptr' = IF next = ptr THEN prev ELSE ptr
     /\ ArrModified

\* yyjson_mut_arr_remove_first
ArrRemoveFirst ==
  /\ len > 0
  /\ len' = len - 1
  /\ nxt' = IF len = 1 THEN nxt ELSE [nxt EXCEPT ![ptr] = nxt[nxt[ptr]]]
  /\ UNCHANGED ptr
  /\ ArrModified

\* yyjson_mut_arr_remove_last
ArrRemoveLast ==
  LET prev == Ahead(ptr, len - 1)
  IN /\ len > 0
     /\ len' = len - 1
     /\ IF len = 1 THEN UNCHANGED <<nxt, ptr>>
        ELSE nxt' = [nxt EXCEPT ![prev] = nxt[ptr]] /\ ptr' = prev
     /\ ArrModified

\* yyjson_mut_arr_remove_range
ArrRemoveRange(idx, n) ==
  LET prev == Ahead(ptr, idx)
  IN /\ n > 0 /\ idx + n <= len
     /\ len' = len - n
     /\ IF n = len THEN UNCHANGED <<nxt, ptr>>
        ELSE /\ nxt' = [nxt EXCEPT ![prev] = Ahead(prev, n + 1)]
             /\ ptr' = IF idx + n = len THEN prev ELSE ptr
     /\ ArrModified

\* yyjson_mut_arr_clear
ArrClear == len' = 0 /\ UNCHANGED <<nxt, ptr>> /\ ArrModified

\* yyjson_mut_arr_rotate
ArrRotate(idx) ==
  /\ idx < len
  /\ ptr' = Ahead(ptr, idx)
  /\ UNCHANGED <<nxt, len>>
  /\ ArrModified

-----------------------------------------------------------------------------
\* yyjson_mut_arr_iter_init
ArrIterInit ==
  /\ it' = Iter(0, len, 0, IF len > 0 THEN ptr ELSE 0)
  /\ itAt' = "between"
  /\ strayed' = FALSE
  /\ UNCHANGED <<nxt, ptr, len>>

\* yyjson_mut_arr_iter_next
ArrIterNext ==
  /\ itAt # "off"
  /\ it.idx < it.max
  /\ it' = Iter(it.idx + 1, it.max, it.cur, nxt[it.cur])
  /\ itAt' = "at"
  /\ UNCHANGED <<nxt, ptr, len, strayed>>

\* arr->uni.ptr becomes pre when the iterator is at its end, which is right when
\* it is cur, the last value, that goes, or pre is the last one already.
Fits == IF it.idx = it.max THEN ptr \in {it.pre, it.cur} ELSE ptr # it.cur

\* yyjson_mut_arr_iter_remove.  Behind a value that is removed before the end
\* cur is the value that yyjson_mut_arr_iter_next should return, which returns
\* the one behind it.
ArrIterRemove ==
  /\ itAt # "off"
  /\ 0 < it.idx /\ it.idx <= it.max
  /\ ptr' = IF it.idx = it.max THEN it.pre ELSE ptr
  /\ len' = it.max - 1
  /\ nxt' = [nxt EXCEPT ![it.pre] = nxt[it.cur]]
  /\ it' = Iter(it.idx - 1, it.max - 1, it.pre, nxt[it.cur])
  /\ strayed' = (strayed \/ it.idx < it.max \/ itAt # "at")
  /\ itAt' = IF Fits THEN "between" ELSE "spoilt"

-----------------------------------------------------------------------------
ArrayInit ==
  /\ \E count \in Values : Created(count)
  /\ itAt = "off"
  /\ it = NoArrIter
  /\ strayed = FALSE

Edit ==
  \/ \E v \in Spare :
       \/ AppendTo(v) \/ Prepend(v) \/ Add(v)
       \/ \E idx \in 0..len : ArrInsert(v, idx) \/ ArrReplace(idx, v)
  \/ \E idx \in 0..len :
       ArrRemove(idx) \/ ArrRotate(idx) \/ \E n \in 1..len : ArrRemoveRange(idx, n)
  \/ ArrRemoveFirst \/ ArrRemoveLast \/ ArrClear

Iterate == ArrIterInit \/ ArrIterNext \/ ArrIterRemove

\* What is done with a list that is broken is not followed.
ArrayNext == itAt # "spoilt" /\ (Edit \/ Iterate)

ArraySpec == ArrayInit /\ [][ArrayNext]_arrayVars

-----------------------------------------------------------------------------
(* Properties.                                                             *)

\* The circular list is a sequence: by position, from its first value and from
\* its last it is the same one, through every sequence of edits, and an iterator
\* goes along it and removes what it has returned.  One that goes on after it has
\* removed another value than the last is astray: it still removes one value, or
\* breaks the list (lines 5889-5904 of yyjson.h).
Items == [i \in 1..len |-> IF i = len THEN GetLast
                           ELSE IF i = 1 THEN GetFirst ELSE Get(i - 1)]
Position == CASE itAt = "off" -> -1
              [] itAt = "spoilt" -> -3
              [] itAt \in {"at", "between"} -> IF strayed THEN -2 ELSE it.idx
Held == itAt = "at" /\ ~strayed

JS == INSTANCE JsonSequence WITH Elements <- Values, items <- Items,
                                 pos <- Position, held <- Held
ImplementsSequence == JS!Spec

\* "you can use `yyjson_mut_arr_iter_remove()` to remove current value": in the
\* loop of the example in lines 2493-2505 of yyjson.h, which removes some of the
\* values it has just been given, the list stays whole.
Whole == len > 0 => Ahead(ptr, len) = ptr
LoopKeepsWhole == [][ArrIterRemove /\ itAt = "at" => Whole']_arrayVars

=============================================================================
