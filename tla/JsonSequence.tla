---------------------------- MODULE JsonSequence ----------------------------
(***************************************************************************)
(* What yyjson.h makes of a mutable array: a sequence of values, edited by *)
(* position, and an iterator along it that may take out the value it has   *)
(* just returned.  What the iterator is good for ends, in the code, when   *)
(* it has taken out another value than the last, or one it has not just    *)
(* returned: from then on it is astray, and what it takes out next is some *)
(* value, or breaks the list.                                              *)
(***************************************************************************)
EXTENDS Integers, Sequences, SequencesExt

CONSTANT Elements

VARIABLES items,   \* the values in their order
          pos,     \* how many of them the iterator has passed, or None, ...
          held     \* whether the last of these is the one it has just returned

vars == <<items, pos, held>>

None == -1       \* no iterator
Astray == -2     \* it is somewhere
Broken == -3     \* it has broken the list

Turned(s, n) == SubSeq(s, n + 1, Len(s)) \o SubSeq(s, 1, n)

Gone == pos' = None /\ held' = FALSE

InsertOne(i, x) == items' = InsertAt(items, i, x) /\ Gone

RemoveSome(i, n) ==
  /\ items' = SubSeq(items, 1, i - 1) \o SubSeq(items, i + n, Len(items))
  /\ Gone

ReplaceOne(i, x) == items' = ReplaceAt(items, i, x) /\ Gone

Rotate(n) == items' = Turned(items, n) /\ Gone

\* An iterator need not be used to its end.
Drop == Gone /\ UNCHANGED items

Begin == pos' = 0 /\ held' = FALSE /\ UNCHANGED items

Advance ==
  /\ pos >= 0 /\ pos < Len(items)
  /\ pos' = pos + 1 /\ held' = TRUE
  /\ UNCHANGED items

TakeOut ==
  /\ held
  /\ items' = RemoveAt(items, pos)
  /\ pos' = IF pos = Len(items) THEN pos - 1 ELSE Astray
  /\ held' = FALSE

Lost == ~held /\ (pos > 0 \/ pos = Astray)

TakeOutOther(i) ==
  /\ Lost
  /\ items' = RemoveAt(items, i)
  /\ pos' = Astray /\ held' = FALSE

Break == Lost /\ pos' = Broken /\ held' = FALSE

Next ==
  \/ \E i \in 1..(Len(items) + 1), x \in Elements : InsertOne(i, x)
  \/ \E i \in 1..Len(items), x \in Elements : ReplaceOne(i, x)
  \/ \E i \in 1..Len(items) :
       Rotate(i - 1) \/ TakeOutOther(i)
         \/ \E n \in 0..(Len(items) - i + 1) : RemoveSome(i, n)
  \/ Drop \/ Begin \/ Advance \/ TakeOut \/ Break

Spec == pos = None /\ held = FALSE /\ [][Next]_vars

=============================================================================
