------------------------------ MODULE JsonTree ------------------------------
(***************************************************************************)
(* What the calls of JsonPointer promise, on JSON values as trees: RFC     *)
(* 6901 says what a pointer means, RFC 6902 and RFC 7386 what a patch and  *)
(* a merge patch do, and the comments of src/util/yyjson.h the rest.       *)
(***************************************************************************)
EXTENDS Naturals, Sequences, SequencesExt

NoTree == [t |-> "none", x |-> "none", names |-> <<>>, kids |-> <<>>]
LeafOf(x) == [t |-> "leaf", x |-> x, names |-> <<>>, kids |-> <<>>]
ArrOf(kids) == [t |-> "ARR", x |-> "none", names |-> <<>>, kids |-> kids]
ObjOf(names, kids) == [t |-> "OBJ", x |-> "none", names |-> names, kids |-> kids]
Null == LeafOf("null")

-----------------------------------------------------------------------------
(* Pointers: texts over "/", "~", digits, "-" and letters.                 *)

\* s with every pair of "~" and c replaced, from the left.
RECURSIVE Unescaped(_, _, _)
Unescaped(s, c, d) ==
  IF Len(s) < 2 THEN s
  ELSE IF s[1] = "~" /\ s[2] = c THEN <<d>> \o Unescaped(SubSeq(s, 3, Len(s)), c, d)
  ELSE <<s[1]>> \o Unescaped(Tail(s), c, d)

\* The reference tokens: what lies between the slashes, with "~1" taken for a
\* slash first and then "~0" for a tilde.
RefTokens(ptr) ==
  LET slashes == SetToSortSeq({i \in DOMAIN ptr : ptr[i] = "/"}, <) IN
  [k \in DOMAIN slashes |->
     LET raw == SubSeq(ptr, slashes[k] + 1,
                       IF k < Len(slashes) THEN slashes[k + 1] - 1 ELSE Len(ptr))
     IN Unescaped(Unescaped(raw, "1", "/"), "0", "~")]

WellFormed(ptr) ==
  /\ ptr # <<>> => ptr[1] = "/"
  /\ \A i \in DOMAIN ptr :
       ptr[i] = "~" => i < Len(ptr) /\ ptr[i + 1] \in {"0", "1"}

\* The place in an array of n values a token names: n stands for the place
\* behind the last, n + 1 for none.
PlaceOf(tok, n) ==
  IF tok = <<"-">> THEN n
  ELSE IF \E i \in 0..n : tok = <<ToString(i)>>
  THEN CHOOSE i \in 0..n : tok = <<ToString(i)>>
  ELSE n + 1

\* The member of t a token names, 0 if there is none.
MemberOf(t, tok) ==
  CASE t.t = "OBJ" -> LET is == {i \in DOMAIN t.names : t.names[i] = tok}
                      IN IF is = {} THEN 0
                         ELSE CHOOSE i \in is : \A j \in is : i <= j
    [] t.t = "ARR" -> IF PlaceOf(tok, Len(t.kids)) < Len(t.kids)
                      THEN PlaceOf(tok, Len(t.kids)) + 1 ELSE 0
    [] OTHER -> 0

-----------------------------------------------------------------------------
(* The operations; NoTree when the call has to fail.                       *)

RECURSIVE RefGet(_, _)
RefGet(t, toks) ==
  IF toks = <<>> THEN t
  ELSE IF MemberOf(t, toks[1]) = 0 THEN NoTree
  ELSE RefGet(t.kids[MemberOf(t, toks[1])], Tail(toks))

RECURSIVE Nested(_, _)
Nested(toks, v) ==
  IF toks = <<>> THEN v ELSE ObjOf(<<toks[1]>>, <<Nested(Tail(toks), v)>>)

AppendMember(t, name, v) ==
  ObjOf(Append(t.names, name), Append(t.kids, v))

\* Object t with only those members
OnlyMembers(t, is) ==
  LET kept == SetToSortSeq(is, <)
  IN ObjOf([k \in DOMAIN kept |-> t.names[kept[k]]],
           [k \in DOMAIN kept |-> t.kids[kept[k]]])

\* v in the place of the first member of its name, and no other of the name
SetMember(t, i, v) ==
  OnlyMembers([t EXCEPT !.kids[i] = v],
              {j \in DOMAIN t.names : j = i \/ t.names[j] # t.names[i]})

RECURSIVE RefPut(_, _, _, _, _)
RefPut(t, toks, v, create, insert) ==
  LET m     == MemberOf(t, toks[1])
      last  == Len(toks) = 1
      place == PlaceOf(toks[1], Len(t.kids))
      deep  == RefPut(t.kids[m], Tail(toks), v, create, insert)
  IN CASE ~last /\ m # 0 -> IF deep = NoTree THEN NoTree
                            ELSE [t EXCEPT !.kids[m] = deep]
       [] t.t = "OBJ" /\ last ->
            IF m = 0 \/ insert THEN AppendMember(t, toks[1], v)
            ELSE SetMember(t, m, v)
       [] t.t = "OBJ" /\ ~last /\ m = 0 /\ create ->
            AppendMember(t, toks[1], Nested(Tail(toks), v))
       [] t.t = "ARR" /\ last /\ insert /\ place <= Len(t.kids) ->
            ArrOf(InsertAt(t.kids, place + 1, v))
       [] t.t = "ARR" /\ last /\ ~insert /\ m # 0 -> [t EXCEPT !.kids[m] = v]
       [] t.t = "ARR" /\ ~last /\ create /\ insert /\ place = Len(t.kids) ->
            ArrOf(Append(t.kids, Nested(Tail(toks), v)))
       [] OTHER -> NoTree

RECURSIVE RefRemove(_, _)
RefRemove(t, toks) ==
  LET m    == MemberOf(t, toks[1])
      deep == RefRemove(t.kids[m], Tail(toks))
  IN CASE m = 0 -> NoTree
       [] m # 0 /\ Len(toks) > 1 -> IF deep = NoTree THEN NoTree
                                    ELSE [t EXCEPT !.kids[m] = deep]
       [] m # 0 /\ Len(toks) = 1 /\ t.t = "ARR" -> ArrOf(RemoveAt(t.kids, m))
       [] OTHER -> OnlyMembers(t, {j \in DOMAIN t.names : t.names[j] # toks[1]})

RefReplace(t, toks, v) ==
  IF RefGet(t, toks) = NoTree THEN NoTree ELSE RefPut(t, toks, v, FALSE, FALSE)

-----------------------------------------------------------------------------
\* A tree with its objects as functions of the names; the first of equal names
\* counts.
RECURSIVE Meant(_)
Meant(t) ==
  IF t.t = "OBJ"
  THEN [t |-> "OBJ",
        members |-> [n \in {t.names[i] : i \in DOMAIN t.names} |->
                       Meant(t.kids[MemberOf(t, n)])]]
  ELSE IF t.t = "ARR" THEN [t |-> "ARR", kids |-> [i \in DOMAIN t.kids |-> Meant(t.kids[i])]]
  ELSE t

\* The tokens lead to a member of an object.
IsMember(t, toks) ==
  toks # <<>> /\ RefGet(t, toks) # NoTree /\ RefGet(t, Front(toks)).t = "OBJ"

\* One operation of a patch, RFC 6902: add, move and copy insert into an array
\* and replace the value of a member that exists (4.1).
RefPatch1(t, o) ==
  LET path == RefTokens(o.path)
      from == RefTokens(o.from)
      added(u, v) == IF u = NoTree \/ v = NoTree THEN NoTree
                     ELSE IF path = <<>> THEN v
                     ELSE RefPut(u, path, v, FALSE, ~IsMember(u, path))
  IN CASE o.op = "add"     -> added(t, o.value)
       [] o.op = "replace" -> IF path = <<>> THEN o.value
                              ELSE RefReplace(t, path, o.value)
       [] o.op = "remove"  -> IF path = <<>> THEN NoTree ELSE RefRemove(t, path)
       [] o.op = "move"    -> IF from = <<>> THEN (IF path = <<>> THEN t ELSE NoTree)
                              ELSE added(RefRemove(t, from), RefGet(t, from))
       [] o.op = "copy"    -> added(t, RefGet(t, from))
       [] o.op = "test"    -> IF RefGet(t, path) # NoTree
                                 /\ Meant(RefGet(t, path)) = Meant(o.value)
                              THEN t ELSE NoTree

\* The operation adds where t has a member of that name already.
AddsToMember(t, o) ==
  LET from == RefTokens(o.from)
      u == IF o.op # "move" THEN t ELSE IF from = <<>> THEN NoTree ELSE RefRemove(t, from)
  IN o.op \in {"add", "move", "copy"} /\ u # NoTree /\ IsMember(u, RefTokens(o.path))

\* RFC 7386, on trees as Meant gives them
RECURSIVE RefMerge(_, _)
RefMerge(t, patch) ==
  IF patch.t # "OBJ" THEN patch
  ELSE LET old  == IF t.t = "OBJ" THEN t.members ELSE <<>>
           gone == {n \in DOMAIN patch.members : patch.members[n] = Null}
       IN [t |-> "OBJ",
           members |-> [n \in (DOMAIN old \cup DOMAIN patch.members) \ gone |->
                          IF n \notin DOMAIN patch.members THEN old[n]
                          ELSE RefMerge(IF n \in DOMAIN old THEN old[n] ELSE NoTree,
                                        patch.members[n])]]

=============================================================================
