----------------------------- MODULE JsonObject -----------------------------
(***************************************************************************)
(* The mutable objects of src/util/yyjson.h: keys and values take turns in *)
(* a circular list, of which the object knows the last key and the number  *)
(* of pairs.  One object, the keys and values that come and go, and one    *)
(* iterator; what was taken out keeps its `next', and may be put in again. *)
(***************************************************************************)
EXTENDS Integers, Sequences

CONSTANTS Keys, Vals,  \* the values that are used as keys and as values
          Names        \* the strings of keys

ASSUME ObjectAssumption == Keys \cap Vals = {} /\ "none" \notin Keys \cup Vals

VARIABLES obj,         \* next of every key and value, uni.ptr and the length
          str,         \* the string of every key
          body,        \* the content of every value
          oitAt,       \* the iterator's last call: "off" without one, "at" a
                       \* pair it has returned, "between" when it was another,
                       \* "astray" when its index is no longer the place of
                       \* cur, "spoilt" when it has broken the list
          oit          \* iter: idx, max, pre and cur

objectVars == <<obj, str, body, oitAt, oit>>

NoObjIter == [idx |-> 0, max |-> 0, pre |-> "none", cur |-> "none"]

\* key->next->next, and so on
KeyAfter(o, k) == o.next[o.next[k]]
KeyAhead(o, k, n) ==
  LET at[i \in 0..n] == IF i = 0 THEN k ELSE KeyAfter(o, at[i - 1]) IN at[n]

KeyAt(i) == KeyAhead(obj, obj.ptr, i)
LinkedKeys == {KeyAt(i) : i \in 1..obj.len}
SpareKeys == Keys \ LinkedKeys
SpareVals == Vals \ {obj.next[k] : k \in LinkedKeys}

\* yyjson_mut_obj_getn: the value of the first pair with this key
Getn(name) ==
  LET found == {i \in 1..obj.len : str[KeyAt(i)] = name}
  IN IF found = {} THEN "none"
     ELSE obj.next[KeyAt(CHOOSE i \in found : \A j \in found : i <= j)]

\* The object may not be modified while it is iterated over.
ObjModified == oitAt' = "off" /\ oit' = NoObjIter

-----------------------------------------------------------------------------
(* The iterator, as functions of an object and an iterator.                *)

\* yyjson_mut_obj_iter_init
IterOf(o) == [idx |-> 0, max |-> o.len,
              pre |-> "none", cur |-> IF o.len > 0 THEN o.ptr ELSE "none"]

\* yyjson_mut_obj_iter_next
Stepped(o, it) == [it EXCEPT !.idx = @ + 1, !.pre = it.cur,
                             !.cur = KeyAfter(o, it.cur)]

\* The last pair is not looked after.
CutOutKeepsLast(o, it) ==
  [next |-> [o.next EXCEPT ![o.next[it.pre]] = KeyAfter(o, it.cur)],
   ptr  |-> o.ptr,
   len  |-> it.max - 1]

\* yyjson_mut_obj_iter_remove: the object, and the iterator
CutOut(o, it) ==
  [next |-> [o.next EXCEPT ![o.next[it.pre]] = KeyAfter(o, it.cur)],
   ptr  |-> IF it.idx = it.max THEN it.pre ELSE o.ptr,
   len  |-> it.max - 1]
SteppedBack(it) == [it EXCEPT !.idx = @ - 1, !.max = @ - 1, !.cur = it.pre]

-----------------------------------------------------------------------------
\* unsafe_yyjson_mut_obj_add
Added(o, k, v) ==
  LET last == o.next[o.ptr]
  IN [next |-> IF o.len = 0 THEN [o.next EXCEPT ![v] = k, ![k] = v]
               ELSE [o.next EXCEPT ![last] = k, ![v] = o.next[last], ![k] = v],
      ptr  |-> k,
      len  |-> o.len + 1]

\* unsafe_yyjson_mut_obj_rotate
Rotated(o, idx) == [o EXCEPT !.ptr = KeyAhead(o, @, idx)]

\* A turn of the loop of unsafe_yyjson_mut_obj_remove, with the current and the
\* previous key.
RemoveTurn(s, name) ==
  LET next == KeyAfter(s.o, s.cur)
  IN IF str[s.cur] # name
     THEN [s EXCEPT !.i = @ + 1, !.pre = s.cur, !.cur = next]
     ELSE [s EXCEPT !.cur = next,
                    !.o = [next |-> [s.o.next EXCEPT ![s.o.next[s.pre]] = next],
                           ptr  |-> IF s.i + 1 = s.o.len THEN s.pre ELSE s.o.ptr,
                           len  |-> s.o.len - 1]]

\* unsafe_yyjson_mut_obj_remove: a turn for each pair
Removed(o, name) ==
  LET start == [o |-> o, i |-> 0, pre |-> o.ptr, cur |-> KeyAfter(o, o.ptr)]
      after[n \in 0..o.len] ==
        IF n = 0 THEN start ELSE RemoveTurn(after[n - 1], name)
  IN IF o.len = 0 THEN o ELSE after[o.len].o

\* A turn of the loop of yyjson_mut_obj_put and of yyjson_mut_obj_remove_strn:
\* the first pair of the key gets the value v, if there is one, and the others
\* are removed.
SweepTurn(s, name, v) ==
  LET it == Stepped(s.o, s.it)
  IN IF str[it.cur] # name THEN [s EXCEPT !.it = it]
     ELSE IF ~s.replaced /\ v # "none"
     THEN [o |-> [s.o EXCEPT !.next[v] = KeyAfter(s.o, it.cur), !.next[it.cur] = v],
           it |-> it, replaced |-> TRUE]
     ELSE [s EXCEPT !.o = CutOut(s.o, it), !.it = SteppedBack(it)]

\* The loop: the iterator passes every pair.
Swept(o, name, v) ==
  LET start == [o |-> o, it |-> IterOf(o), replaced |-> FALSE]
      after[n \in 0..o.len] ==
        IF n = 0 THEN start ELSE SweepTurn(after[n - 1], name, v)
  IN after[o.len]

-----------------------------------------------------------------------------
SetObj(o) == obj' = o /\ UNCHANGED <<str, body>> /\ ObjModified

\* yyjson_mut_obj_add
AddPair(k, v) == SetObj(Added(obj, k, v))

\* yyjson_mut_obj_add_*: create a key and a value, for which there may be no
\* memory, and add them
AddNew(k, v) == AddPair(k, v) \/ UNCHANGED <<obj, str, body, oitAt, oit>>

\* yyjson_mut_obj_put
ObjPut(k, v) ==
  LET s == Swept(obj, str[k], v)
  IN SetObj(IF s.replaced THEN s.o ELSE Added(s.o, k, v))

ObjPutNull(k) == SetObj(Swept(obj, str[k], "none").o)

\* yyjson_mut_obj_insert: rotate, add, and put the last key back
ObjInsert(k, v, idx) ==
  /\ idx <= obj.len
  /\ SetObj(IF idx < obj.len THEN [Added(Rotated(obj, idx), k, v) EXCEPT !.ptr = obj.ptr]
         ELSE Added(obj, k, v))

\* yyjson_mut_obj_remove, yyjson_mut_obj_remove_key, _keyn
RemoveKey(name) == SetObj(Removed(obj, name))

\* yyjson_mut_obj_remove_str, _strn
RemoveStr(name) == SetObj(Swept(obj, name, "none").o)

\* yyjson_mut_obj_clear
ObjClear == SetObj([obj EXCEPT !.len = 0])

\* yyjson_mut_obj_replace: the first value of the key gets the content
ObjReplace(k, v) ==
  /\ body' = IF Getn(str[k]) = "none" THEN body
             ELSE [body EXCEPT ![Getn(str[k])] = body[v]]
  /\ UNCHANGED <<obj, str>>
  /\ ObjModified

\* yyjson_mut_obj_rotate
ObjRotate(idx) == idx < obj.len /\ SetObj(Rotated(obj, idx))

\* yyjson_mut_obj_rename_keyn: nothing is renamed without memory for a copy
ObjRename(old, new) ==
  /\ str' \in {[k \in Keys |-> IF k \in LinkedKeys /\ str[k] = old THEN new
                               ELSE str[k]], str}
  /\ UNCHANGED <<obj, body>>
  /\ ObjModified

-----------------------------------------------------------------------------
ObjIterInit ==
  /\ oit' = IterOf(obj)
  /\ oitAt' = "between"
  /\ UNCHANGED <<obj, str, body>>

ObjIterNext ==
  /\ oitAt # "off" /\ oit.idx < oit.max
  /\ oit' = Stepped(obj, oit)
  /\ oitAt' = IF oitAt = "astray" THEN "astray" ELSE "at"
  /\ UNCHANGED <<obj, str, body>>

\* cur is the one behind pre, and uni.ptr becomes pre when cur, the last key,
\* goes, or when it is pre already.
Unlinks ==
  /\ KeyAfter(obj, oit.pre) = oit.cur
  /\ IF oit.idx = oit.max THEN obj.ptr \in {oit.pre, oit.cur} ELSE obj.ptr # oit.cur

ObjIterRemove ==
  /\ oitAt # "off" /\ 0 < oit.idx /\ oit.idx <= oit.max
  /\ obj' = CutOut(obj, oit)
  /\ oit' = SteppedBack(oit)
  /\ oitAt' = IF ~Unlinks THEN "spoilt"
              ELSE IF oitAt = "at" THEN "between" ELSE "astray"
  /\ UNCHANGED <<str, body>>

\* yyjson_mut_obj_iter_getn: the keys behind the current one, around the end,
\* behind which the index is one less than the place of cur
ObjIterGetn(name) ==
  LET found == {i \in 1..oit.max : str[KeyAhead(obj, oit.cur, i)] = name}
      n == CHOOSE i \in found : \A j \in found : i <= j
  IN /\ oitAt # "off"
     /\ found # {}
     /\ oit' = [oit EXCEPT !.idx = IF @ + n > oit.max THEN @ + n - oit.max - 1
                                   ELSE @ + n,
                           !.pre = KeyAhead(obj, oit.cur, n - 1),
                           !.cur = KeyAhead(obj, oit.cur, n)]
     /\ oitAt' = IF oitAt = "astray" \/ oit.idx + n > oit.max THEN "astray"
                 ELSE "at"
     /\ UNCHANGED <<obj, str, body>>

-----------------------------------------------------------------------------
ObjectInit ==
  /\ obj = [next |-> [x \in Keys \cup Vals |-> x], ptr |-> "none", len |-> 0]
  /\ str \in [Keys -> Names]
  /\ body = [v \in Vals |-> v]
  /\ oitAt = "off"
  /\ oit = NoObjIter

ObjectEdit ==
  \/ \E k \in SpareKeys, v \in SpareVals :
       \/ AddNew(k, v) \/ ObjPut(k, v) \/ ObjReplace(k, v)
       \/ \E idx \in 0..obj.len : ObjInsert(k, v, idx)
  \/ \E k \in SpareKeys : ObjPutNull(k)
  \/ \E name \in Names :
       RemoveKey(name) \/ RemoveStr(name) \/ \E new \in Names \ {name} : ObjRename(name, new)
  \/ \E idx \in 0..obj.len : ObjRotate(idx)
  \/ ObjClear

ObjectIterate ==
  \/ ObjIterInit \/ ObjIterNext \/ ObjIterRemove \/ \E name \in Names : ObjIterGetn(name)

\* What is done with a list that is broken is not followed.
ObjectNext == oitAt # "spoilt" /\ (ObjectEdit \/ ObjectIterate)

ObjectSpec == ObjectInit /\ [][ObjectNext]_objectVars

-----------------------------------------------------------------------------
(* Properties.                                                             *)

\* The circular list is a sequence of pairs through every sequence of edits; a
\* key is found, replaced, renamed and removed wherever it occurs, and an iterator
\* removes the pair it has returned and goes on behind it.  When a search has gone
\* around the end (line 6564 of yyjson.h) its index is one short: a removal is
\* refused at the first pair, and at the last one leaves uni.ptr at the key that
\* is gone (line 6536), which breaks the object.
Pairs == [i \in 1..obj.len |->
            LET k == IF i = obj.len THEN obj.ptr ELSE KeyAt(i)
            IN <<str[k], body[obj.next[k]]>>]
Place == CASE oitAt = "off" -> -1
           [] oitAt \in {"at", "between"} -> oit.idx
           [] oitAt = "astray" -> -2
           [] oitAt = "spoilt" -> -3
Holding == oitAt = "at"

JP == INSTANCE JsonPairs WITH Contents <- Vals, pairs <- Pairs, pos <- Place,
                              held <- Holding
ImplementsPairs == JP!Spec

=============================================================================
