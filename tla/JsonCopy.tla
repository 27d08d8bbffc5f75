------------------------------ MODULE JsonCopy ------------------------------
(***************************************************************************)
(* The two layouts of a JSON value and the copy from one to the other,     *)
(* src/util/yyjson.c: an immutable value is an array in which a container  *)
(* is followed by its contents and keeps the distance to what comes behind *)
(* them; mutable values are joined by pointers, and the contents of a      *)
(* container form a circular list it knows the last value (of an object:   *)
(* the last key) of.                                                       *)
(***************************************************************************)
EXTENDS Naturals, Sequences

Ctn(v) == v.t \in {"ARR", "OBJ"}
Size(v) == IF v.t = "OBJ" THEN 2 * v.len ELSE v.len

\* unsafe_yyjson_get_next
Next1(vs, i) == i + IF Ctn(vs[i]) THEN vs[i].ofs ELSE 1

\* The contents of the container at i, in their order.
Contents(vs, i) ==
  LET at[j \in 1..Size(vs[i])] ==
        IF j = 1 THEN i + 1 ELSE Next1(vs, at[j - 1])
  IN at

\* The last member of an object taken for its last key.
MutCopyOff(vs) ==
  [i \in 1..Len(vs) |->
     [t |-> vs[i].t, len |-> vs[i].len,
      last |-> IF Ctn(vs[i]) /\ vs[i].len > 0 THEN Contents(vs, i)[Size(vs[i])]
               ELSE 0,
      next |-> IF \E p \in 1..(i - 1) : Ctn(vs[p]) /\ i = Contents(vs, p)[Size(vs[p])]
               THEN 1 + CHOOSE p \in 1..(i - 1) : Ctn(vs[p]) /\ vs[p].len > 0
                                 /\ i = Contents(vs, p)[Size(vs[p])]
               ELSE Next1(vs, i)]]

\* yyjson_val_mut_copy: as many mutable values, linked as the offsets say
MutCopy(vs) ==
  LET inside(i) == {p \in 1..(i - 1) : Ctn(vs[p]) /\ \E j \in 1..Size(vs[p]) :
                                          Contents(vs, p)[j] = i}
      next(i) ==
        IF inside(i) = {} THEN 0
        ELSE LET p == CHOOSE p \in inside(i) : TRUE
                 kids == Contents(vs, p)
                 j == CHOOSE j \in DOMAIN kids : kids[j] = i
             IN IF j = Size(vs[p]) THEN p + 1 ELSE kids[j + 1]
      last(i) ==
        IF ~Ctn(vs[i]) \/ vs[i].len = 0 THEN 0
        ELSE Contents(vs, i)[IF vs[i].t = "OBJ" THEN Size(vs[i]) - 1
                             ELSE Size(vs[i])]
  IN [i \in 1..Len(vs) |-> [t |-> vs[i].t, len |-> vs[i].len,
                            last |-> last(i), next |-> next(i)]]

=============================================================================
