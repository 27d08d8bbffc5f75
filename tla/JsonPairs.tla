------------------------------ MODULE JsonPairs ------------------------------
(***************************************************************************)
(* What yyjson.h makes of a mutable object: a sequence of pairs of a key   *)
(* and a value, in which a key may occur more than once, and an iterator   *)
(* that walks along it, finds keys from where it is, and may take out the  *)
(* pair it has just returned.  What it is good for ends, in the code, when *)
(* a search has gone around the end, or when it takes out a pair it has    *)
(* not just returned: what it takes out from then on is some pair, or it   *)
(* breaks the list.                                                        *)
(***************************************************************************)
EXTENDS Integers, Sequences, SequencesExt

CONSTANTS Names,     \* the keys
          Contents   \* the values

VARIABLES pairs,     \* <<key, value>> in their order
          pos,       \* how many pairs the iterator has passed, or None, ...
          held       \* whether the last of these is the one it has just returned

vars == <<pairs, pos, held>>

None == -1       \* no iterator
Astray == -2     \* it is somewhere
Broken == -3     \* it has broken the list

At(k) == {i \in 1..Len(pairs) : pairs[i][1] = k}
First(k) == CHOOSE i \in At(k) : \A j \in At(k) : i <= j

Gone == pos' = None /\ held' = FALSE

Changed(ps) == pairs' = ps /\ Gone

Insert(i, k, c) == Changed(InsertAt(pairs, i, <<k, c>>))

\* The pairs at the places in I, in their order.
Picked(ps, I) ==
  LET upTo[n \in 0..Len(ps)] ==
        IF n = 0 THEN <<>>
        ELSE IF n \in I THEN Append(upTo[n - 1], ps[n]) ELSE upTo[n - 1]
  IN upTo[Len(ps)]

Others(k) == (1..Len(pairs)) \ At(k)

\* The first pair of the key gets the value, the others go.
Put(k, c) ==
  IF At(k) = {} THEN Changed(Append(pairs, <<k, c>>))
  ELSE Changed(Picked(ReplaceAt(pairs, First(k), <<k, c>>), Others(k) \cup {First(k)}))

RemoveAll(k) == Changed(Picked(pairs, Others(k)))

Replace(k, c) == At(k) # {} /\ Changed(ReplaceAt(pairs, First(k), <<k, c>>))

Rename(old, new) ==
  Changed([i \in 1..Len(pairs) |-> <<IF pairs[i][1] = old THEN new
                                      ELSE pairs[i][1], pairs[i][2]>>])

Rotate(n) ==
  Changed(SubSeq(pairs, n + 1, Len(pairs)) \o SubSeq(pairs, 1, n))

Clear == Changed(<<>>)

Begin == pos' = 0 /\ held' = FALSE /\ UNCHANGED pairs

Advance ==
  /\ pos >= 0 /\ pos < Len(pairs)
  /\ pos' = pos + 1 /\ held' = TRUE
  /\ UNCHANGED pairs

TakeOut ==
  /\ held
  /\ pairs' = RemoveAt(pairs, pos)
  /\ pos' = pos - 1 /\ held' = FALSE

\* To the next pair of the key; behind the end the iterator is astray.
Find(k) ==
  /\ pos >= 0 /\ At(k) # {}
  /\ \/ \E i \in At(k) :
          /\ i > pos /\ \A j \in At(k) : j > pos => i <= j
          /\ pos' = i /\ held' = TRUE
     \/ /\ \A j \in At(k) : j <= pos
        /\ pos' = Astray /\ held' = FALSE
  /\ UNCHANGED pairs

Lost == ~held /\ (pos > 0 \/ pos = Astray)

TakeOutOther(i) ==
  /\ Lost
  /\ pairs' = RemoveAt(pairs, i)
  /\ pos' = Astray /\ held' = FALSE

Break == Lost /\ pos' = Broken /\ held' = FALSE

Drop == Gone /\ UNCHANGED pairs

Next ==
  \/ \E k \in Names, c \in Contents :
       Put(k, c) \/ Replace(k, c) \/ \E i \in 1..(Len(pairs) + 1) : Insert(i, k, c)
  \/ \E k, k2 \in Names : RemoveAll(k) \/ Find(k) \/ Rename(k, k2)
  \/ \E n \in 1..Len(pairs) : Rotate(n - 1) \/ TakeOutOther(n)
  \/ Clear \/ Begin \/ Advance \/ TakeOut \/ Break \/ Drop

Spec == pairs = <<>> /\ pos = None /\ held = FALSE /\ [][Next]_vars

=============================================================================
