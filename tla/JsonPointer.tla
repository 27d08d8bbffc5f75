----------------------------- MODULE JsonPointer -----------------------------
(***************************************************************************)
(* JSON Pointer, JSON Patch and JSON Merge-Patch, src/util/yyjson.c: how   *)
(* the circular lists of mutable values are found by a pointer's tokens    *)
(* and relinked, and the context a call leaves for the next one.  JsonTree *)
(* says what each call is to do.                                           *)
(***************************************************************************)
EXTENDS JsonTree, FiniteSets

CONSTANTS DocTrees,     \* the documents, NoTree for one without a root
          Pointers,     \* texts
          NewTrees,     \* the values that are put in
          Patches,      \* sequences of patch operations
          MaxRoom,      \* bound: allocations a call may be granted
          MaxCtxOps     \* bound: calls that use one context

VARIABLES heap,    \* the mutable values: type, content, length, uni.ptr, next
          root,    \* doc->root, 0 for NULL
          pctx,     \* yyjson_ptr_ctx
          call,    \* the last call: what it was given, and how it ended
          was      \* the document before it, or the members of the container of pctx

ptrVars == <<heap, root, pctx, call, was>>

NoCtx == [ctn |-> 0, pre |-> 0, old |-> 0]
NoCall == [op |-> "none", ptr |-> <<>>, new |-> NoTree, create |-> FALSE,
           whole |-> TRUE, code |-> "NONE", got |-> 0, n |-> 0]

-----------------------------------------------------------------------------
(* The lists.                                                              *)

PtrNode(t, x, n) == [t |-> t, x |-> x, len |-> n, last |-> 0, next |-> 0]
KeyAftr(h, k) == h[h[k].next].next

\* The values of an array, the keys of an object, from the first on.
Linked(h, c) ==
  LET at[i \in 0..h[c].len] ==
        IF i = 0 THEN h[c].last
        ELSE IF h[c].t = "OBJ" THEN KeyAftr(h, at[i - 1]) ELSE h[at[i - 1]].next
  IN [i \in 1..h[c].len |-> at[i]]

Closed(h, c) == h[c].len > 0 => Linked(h, c)[h[c].len] = h[c].last

RECURSIVE TreeAt(_, _)
TreeAt(h, v) ==
  LET treeOf(x) == TreeAt(h, x)
      inner == Linked(h, v)
  IN IF h[v].t = "leaf" THEN LeafOf(h[v].x)
     ELSE IF ~Closed(h, v) THEN NoTree
     ELSE IF h[v].t = "ARR" THEN ArrOf([i \in 1..h[v].len |-> treeOf(inner[i])])
     ELSE ObjOf([i \in 1..h[v].len |-> h[inner[i]].x],
                [i \in 1..h[v].len |-> treeOf(h[inner[i]].next)])

\* A copy of a value behind the values of h, as yyjson_val_mut_copy and
\* yyjson_mut_val_mut_copy make it.
RECURSIVE Copied(_, _), CopiedMembers(_, _, _)
CopiedMembers(done, tree, i) ==
  LET head == Len(done.h) + 1
      key  == IF tree.t = "OBJ" THEN <<PtrNode("KEY", tree.names[i], 0)>> ELSE <<>>
  IN IF i > Len(tree.kids) THEN done
     ELSE CopiedMembers([h |-> Copied(done.h \o key, tree.kids[i]),
                         heads |-> Append(done.heads, head)], tree, i + 1)

\* The heads in a circle (a key and its value are one behind the other) and
\* the last of them in their container c
CopyLinked(done, c, keyed) ==
  LET heads == done.heads
      off == IF keyed THEN 1 ELSE 0
      after(i) == heads[IF i = Len(heads) THEN 1 ELSE i + 1]
      link(k) ==
        IF k = c THEN [done.h[k] EXCEPT !.last = heads[Len(heads)]]
        ELSE IF keyed /\ \E i \in DOMAIN heads : k = heads[i]
        THEN [done.h[k] EXCEPT !.next = k + 1]
        ELSE IF \E i \in DOMAIN heads : k = heads[i] + off
        THEN [done.h[k] EXCEPT !.next =
                after(CHOOSE i \in DOMAIN heads : k = heads[i] + off)]
        ELSE done.h[k]
  IN SubSeq([k \in DOMAIN done.h |-> link(k)], 1, Len(done.h))

Copied(h, tree) ==
  LET self == Append(h, PtrNode(tree.t, tree.x, Len(tree.kids)))
  IN IF tree.kids = <<>> THEN self
     ELSE CopyLinked(CopiedMembers([h |-> self, heads |-> <<>>], tree, 1),
                     Len(h) + 1, tree.t = "OBJ")

\* unsafe_yyjson_mut_obj_add
AddMember(h, c, k, v) ==
  LET lastVal == h[h[c].last].next
      linked == IF h[c].len = 0 THEN [h EXCEPT ![v].next = k]
                ELSE [h EXCEPT ![lastVal].next = k, ![v].next = h[lastVal].next]
  IN [linked EXCEPT ![k].next = v, ![c].last = k, ![c].len = @ + 1]

\* yyjson_mut_arr_append
AppendValue(h, c, v) ==
  LET linked == IF h[c].len = 0 THEN [h EXCEPT ![v].next = v]
                ELSE [h EXCEPT ![v].next = h[h[c].last].next, ![h[c].last].next = v]
  IN [linked EXCEPT ![c].last = v, ![c].len = @ + 1]

\* The pairs of c are those of the keys kept.
Relisted(h, c, kept) ==
  LET listed == [j \in DOMAIN h |->
       IF j = c THEN [h[c] EXCEPT !.len = Len(kept),
                                  !.last = IF kept = <<>> THEN 0 ELSE kept[Len(kept)]]
       ELSE IF \E i \in DOMAIN kept : j = h[kept[i]].next
       THEN [h[j] EXCEPT !.next =
               LET i == CHOOSE i \in DOMAIN kept : j = h[kept[i]].next
               IN kept[IF i = Len(kept) THEN 1 ELSE i + 1]]
       ELSE h[j]]
  IN SubSeq(listed, 1, Len(h))

\* yyjson_mut_obj_put for a key there is: v takes the place of the first value,
\* or none does (0), and the other pairs are unlinked (JsonObject has the loop).
PutMember(h, c, k, v) ==
  LET same(j) == h[j].x = h[k].x
      first == SelectSeq(Linked(h, c), same)[1]
  IN IF v = 0 THEN Relisted(h, c, SelectSeq(Linked(h, c), LAMBDA j : ~same(j)))
     ELSE Relisted([h EXCEPT ![first].next = v], c,
                   SelectSeq(Linked(h, c), LAMBDA j : ~same(j) \/ j = first))

-----------------------------------------------------------------------------
(* Tokens.                                                                 *)

\* ptr_next_token, of the "/" at i: next is the "/" of the next token
TokenAt(ptr, i) ==
  LET next == Min({j \in (i + 1)..Len(ptr) : ptr[j] = "/"} \cup {Len(ptr) + 1})
      raw  == SubSeq(ptr, i + 1, next - 1)
      esc  == {j \in DOMAIN raw : raw[j] = "~"}
  IN [raw |-> raw, next |-> next, len |-> Len(raw) - Cardinality(esc),
      bad |-> \E j \in esc : j = Len(raw) \/ raw[j + 1] \notin {"0", "1"}]

IsLastOf(ptr, tok) == tok.next > Len(ptr)

\* ptr_new_key, and what ptr_token_eq compares a key with
Chars(tok) ==
  LET at[j \in 1..tok.len] ==
        IF j = 1 THEN 1
        ELSE at[j - 1] + IF tok.raw[at[j - 1]] = "~" THEN 2 ELSE 1
  IN [j \in 1..tok.len |->
        IF tok.raw[at[j]] # "~" THEN tok.raw[at[j]]
        ELSE IF tok.raw[at[j] + 1] = "0" THEN "~" ELSE "/"]

Digit == [c \in {"0", "1", "2"} |-> CASE c = "0" -> 0 [] c = "1" -> 1 [] c = "2" -> 2]
NoIdx == 10000
SizeMaxIdx == 9999   \* USIZE_MAX, for "-"

\* ptr_token_to_idx, which looks at as many characters as the token has once
\* it is unescaped
ToIdx(tok) ==
  LET cs == SubSeq(tok.raw, 1, tok.len)
      num[i \in 0..Len(cs)] == IF i = 0 THEN 0 ELSE num[i - 1] * 10 + Digit[cs[i]]
  IN CASE cs = <<>> -> NoIdx
       [] cs # <<>> /\ cs[1] \in {"0", "-"} ->
            IF Len(cs) > 1 THEN NoIdx ELSE IF cs[1] = "0" THEN 0 ELSE SizeMaxIdx
       [] OTHER -> IF \A i \in DOMAIN cs : cs[i] \in DOMAIN Digit
                   THEN num[Len(cs)] ELSE NoIdx

\* ptr_mut_arr_get: the value, the one before it, and whether it would be the
\* one behind the last
ArrayPlace(h, c, idx) ==
  LET n == h[c].len
      ahead[i \in 0..n] == IF i = 0 THEN h[c].last ELSE h[ahead[i - 1]].next
  IN IF idx >= n THEN [val |-> 0, pre |-> 0, last |-> idx \in {n, SizeMaxIdx}]
     ELSE [val |-> ahead[idx + 1], pre |-> ahead[idx], last |-> FALSE]

\* In an array of none only "0" and "-" are compared with.
InArray(h, c, tok) ==
  IF h[c].len > 0 THEN ArrayPlace(h, c, ToIdx(tok))
  ELSE [val |-> 0, pre |-> 0, last |-> tok.len = 1 /\ tok.raw[1] \in {"0", "-"}]

\* ptr_mut_obj_get: the value, and the key before its key
KeyPlace(h, c, keys, i) ==
  [val |-> h[keys[i]].next, last |-> FALSE,
   pre |-> IF i = 1 THEN h[c].last ELSE keys[i - 1]]

InObject(h, c, tok) ==
  LET keys == Linked(h, c)
      is == {i \in DOMAIN keys : h[keys[i]].x = Chars(tok)}
  IN IF is = {} THEN [val |-> 0, pre |-> 0, last |-> FALSE]
     ELSE KeyPlace(h, c, keys, Min(is))

StepTo(h, c, tok) ==
  CASE h[c].t = "OBJ" -> InObject(h, c, tok)
    [] h[c].t = "ARR" -> InArray(h, c, tok)
    [] OTHER -> [val |-> 0, pre |-> 0, last |-> FALSE]

-----------------------------------------------------------------------------
(* The calls, as functions of the lists: how they end is in code, got and  *)
(* pctx.  A call may fail before the first token is looked at.              *)

Ended(h, code, got, c) == [h |-> h, code |-> code, got |-> got, pctx |-> c]
Refuses(h, code) == Ended(h, code, 0, NoCtx)

\* unsafe_yyjson_mut_ptr_getx, at token tok; to is the place the token leads to
RECURSIVE GetFrom(_, _, _, _, _)
GetFrom(h, v, ptr, tok, to) ==
  LET c == IF IsLastOf(ptr, tok)
              /\ (h[v].t = "OBJ" \/ (h[v].t = "ARR" /\ (to.val # 0 \/ to.last)))
           THEN [ctn |-> v, pre |-> to.pre, old |-> 0] ELSE NoCtx
      following == TokenAt(ptr, tok.next)
  IN CASE tok.bad -> Refuses(h, "SYNTAX")
       [] ~tok.bad /\ to.val = 0 -> Ended(h, "RESOLVE", 0, c)
       [] ~tok.bad /\ to.val # 0 /\ IsLastOf(ptr, tok) -> Ended(h, "NONE", to.val, c)
       [] OTHER -> GetFrom(h, to.val, ptr, following, StepTo(h, to.val, following))

\* yyjson_mut_ptr_getx
PtrGet(h, v, ptr) ==
  IF ptr = <<>> THEN Ended(h, "NONE", v, NoCtx)
  ELSE IF ptr[1] # "/" THEN Refuses(h, "SYNTAX")
  ELSE GetFrom(h, v, ptr, TokenAt(ptr, 1), StepTo(h, v, TokenAt(ptr, 1)))

\* unsafe_yyjson_mut_ptr_putx: past the parents that exist
Put0(h, c, tok, to, code) ==
  [h |-> h, ctn |-> c, tok |-> tok, val |-> to.val, pre |-> to.pre,
   last |-> to.last, sep |-> 0, sepKey |-> 0, sepVal |-> 0, room |-> 0,
   code |-> code]

RECURSIVE SkipParents(_, _, _, _, _)
SkipParents(h, c, ptr, tok, to) ==
  LET following == TokenAt(ptr, tok.next) IN
  CASE tok.bad -> Put0(h, c, tok, [val |-> 0, pre |-> 0, last |-> FALSE], "SYNTAX")
    [] ~tok.bad /\ h[c].t = "leaf" -> Put0(h, c, tok, to, "RESOLVE")
    [] ~tok.bad /\ h[c].t # "leaf" /\ (to.val = 0 \/ IsLastOf(ptr, tok)) ->
         Put0(h, c, tok, to, "NONE")
    [] OTHER -> SkipParents(h, to.val, ptr, following, StepTo(h, to.val, following))

\* A new object for the place behind the last of an array
ParentInArray(p, ptr, insert) ==
  LET h == Append(p.h, PtrNode("OBJ", "none", 0))
      tok == TokenAt(ptr, p.tok.next)
  IN CASE ~p.last \/ ~insert -> [p EXCEPT !.code = "RESOLVE"]
       [] p.last /\ insert /\ p.room = 0 -> [p EXCEPT !.code = "MEMORY_ALLOCATION"]
       [] OTHER -> [p EXCEPT !.h = h, !.ctn = Len(h), !.tok = tok, !.room = @ - 1,
                             !.sep = p.ctn, !.sepVal = Len(h),
                             !.code = IF tok.bad THEN "RESOLVE" ELSE "NONE"]

\* New objects for the tokens but the last; tok is the one behind that of p.
RECURSIVE ParentsInObject(_, _, _)
ParentsInObject(p, ptr, tok) ==
  LET key == Len(p.h) + 1
      h   == p.h \o <<PtrNode("KEY", Chars(p.tok), 0), PtrNode("OBJ", "none", 0)>>
      moved == [p EXCEPT !.h = IF p.sep = 0 THEN h ELSE AddMember(h, p.ctn, key, key + 1),
                         !.ctn = key + 1, !.val = 0, !.tok = tok, !.room = @ - 2,
                         !.code = IF tok.bad THEN "SYNTAX" ELSE "NONE",
                         !.sep = IF @ = 0 THEN p.ctn ELSE @,
                         !.sepKey = IF p.sep = 0 THEN key ELSE @,
                         !.sepVal = IF p.sep = 0 THEN key + 1 ELSE @]
  IN IF p.code # "NONE" \/ IsLastOf(ptr, p.tok) THEN p
     ELSE IF p.room < 2 THEN [p EXCEPT !.code = "MEMORY_ALLOCATION"]
     ELSE ParentsInObject(moved, ptr, TokenAt(ptr, tok.next))

\* The parents of the target, from those there are
WithParents(p, ptr, create, insert) ==
  LET begun == IF p.h[p.ctn].t = "ARR" THEN ParentInArray(p, ptr, insert) ELSE p
  IN CASE p.code # "NONE" \/ IsLastOf(ptr, p.tok) -> p
       [] p.code = "NONE" /\ ~IsLastOf(ptr, p.tok) /\ ~create -> [p EXCEPT !.code = "RESOLVE"]
       [] OTHER -> ParentsInObject(begun, ptr, TokenAt(ptr, begun.tok.next))

InsertInObject(p, new) ==
  LET h == Append(p.h, PtrNode("KEY", Chars(p.tok), 0))
      n == p.h[p.ctn].len
  IN IF p.room = 0
     THEN Ended(p.h, "MEMORY_ALLOCATION", 0, [NoCtx EXCEPT !.ctn = p.ctn])
     ELSE Ended(AddMember(h, p.ctn, Len(h), new), "NONE", new,
                [ctn |-> p.ctn, old |-> 0,
                 pre |-> IF n > 0 THEN h[p.ctn].last ELSE Len(h)])

ReplaceInObject(p, new) ==
  Ended(PutMember(p.h, p.ctn, KeyAftr(p.h, p.pre), new), "NONE", new,
        [ctn |-> p.ctn, pre |-> p.pre, old |-> p.val])

InsertInArray(p, new) ==
  LET h == p.h
      n == h[p.ctn].len
  IN IF p.val # 0
     THEN Ended([h EXCEPT ![p.pre].next = new, ![new].next = p.val,
                          ![p.ctn].len = @ + 1],
                "NONE", new, [ctn |-> p.ctn, pre |-> p.pre, old |-> 0])
     ELSE IF p.last
     THEN Ended(AppendValue(h, p.ctn, new), "NONE", new,
                [ctn |-> p.ctn, old |-> 0,
                 pre |-> IF n > 0 THEN h[p.ctn].last ELSE new])
     ELSE Refuses(h, "RESOLVE")

\* The array's last value is not looked after.
RelinkedKeepsLast(h, c, pre, val, new) ==
  IF h[c].len > 1
  THEN [h EXCEPT ![new].next = h[val].next, ![pre].next = new]
  ELSE [h EXCEPT ![new].next = new, ![c].last = new]

\* new in the place of val, which is behind pre
Relinked(h, c, pre, val, new) ==
  IF h[c].len > 1
  THEN [h EXCEPT ![new].next = h[val].next, ![pre].next = new,
                 ![c].last = IF @ = val THEN new ELSE @]
  ELSE [h EXCEPT ![new].next = new, ![c].last = new]

ReplaceInArray(p, new) ==
  LET n == p.h[p.ctn].len IN
  IF p.val = 0
  THEN Ended(p.h, "RESOLVE", 0, IF p.last THEN [NoCtx EXCEPT !.ctn = p.ctn] ELSE NoCtx)
  ELSE Ended(Relinked(p.h, p.ctn, p.pre, p.val, new), "NONE", new,
             [ctn |-> p.ctn, pre |-> IF n > 1 THEN p.pre ELSE new, old |-> p.val])

\* The new components are attached when all else is done.
Attached(p, r) ==
  IF r.code # "NONE" \/ p.sep = 0 THEN r
  ELSE IF p.sepKey # 0
  THEN [r EXCEPT !.h = AddMember(@, p.sep, p.sepKey, p.sepVal)]
  ELSE [r EXCEPT !.h = AppendValue(@, p.sep, p.sepVal)]

PutIn(p, new, insert) ==
  IF p.code # "NONE" THEN Refuses(p.h, p.code)
  ELSE Attached(p,
         CASE p.h[p.ctn].t = "OBJ" /\ (p.val = 0 \/ insert) -> InsertInObject(p, new)
           [] p.h[p.ctn].t = "OBJ" /\ p.val # 0 /\ ~insert -> ReplaceInObject(p, new)
           [] p.h[p.ctn].t = "ARR" /\ insert -> InsertInArray(p, new)
           [] OTHER -> ReplaceInArray(p, new))

PutFrom(h, v, ptr, new, create, insert, room) ==
  LET tok == TokenAt(ptr, 1)
      p   == [SkipParents(h, v, ptr, tok, StepTo(h, v, tok)) EXCEPT !.room = room]
  IN PutIn(WithParents(p, ptr, create, insert), new, insert)

\* yyjson_mut_ptr_addx (insert) and yyjson_mut_ptr_setx
PtrPut(h, v, ptr, new, create, insert, room) ==
  IF ptr = <<>> THEN Refuses(h, "SET_ROOT")
  ELSE IF ptr[1] # "/" THEN Refuses(h, "SYNTAX")
  ELSE PutFrom(h, v, ptr, new, create, insert, room)

\* yyjson_ptr_ctx_replace: the list and the context behind it
CtxReplaced(h, c, new) ==
  IF h[c.ctn].t = "OBJ"
  THEN LET k == KeyAftr(h, c.pre)
       IN Ended([h EXCEPT ![k].next = new, ![new].next = h[h[k].next].next],
                "NONE", new, [c EXCEPT !.old = h[k].next])
  ELSE LET val == h[c.pre].next
       IN Ended(IF c.pre # val THEN [h EXCEPT ![new].next = h[val].next,
                                              ![c.pre].next = new,
                                              ![c.ctn].last = IF @ = val THEN new ELSE @]
                ELSE [h EXCEPT ![new].next = new, ![c.ctn].last = new],
                "NONE", new,
                [c EXCEPT !.old = val, !.pre = IF c.pre # val THEN @ ELSE new])

\* yyjson_ptr_ctx_remove
CtxRemoved(h, c) ==
  LET keyed   == h[c.ctn].t = "OBJ"
      preVal  == IF keyed THEN h[c.pre].next ELSE c.pre
      cur     == h[preVal].next
      curVal  == IF keyed THEN h[cur].next ELSE cur
  IN Ended([h EXCEPT ![preVal].next = h[curVal].next,
                     ![c.ctn].last = IF h[c.ctn].len = 1 THEN 0
                                     ELSE IF @ = cur THEN c.pre ELSE @,
                     ![c.ctn].len = @ - 1],
           "NONE", curVal, [c EXCEPT !.pre = 0, !.old = curVal])

\* yyjson_ptr_ctx_append, of a key (of an object only) and a value
CtxAppended(h, c, k, new) ==
  LET keyed   == h[c.ctn].t = "OBJ"
      head    == IF keyed THEN k ELSE new
      value(j) == IF keyed THEN h[j].next ELSE j
      pre     == IF c.pre = 0 THEN h[c.ctn].last ELSE h[value(c.pre)].next
      linked  == IF h[c.ctn].len = 0 THEN [h EXCEPT ![new].next = head]
                 ELSE [h EXCEPT ![new].next = h[value(pre)].next,
                                ![value(pre)].next = head]
      keyedTo == IF keyed THEN [linked EXCEPT ![k].next = new] ELSE linked
  IN Ended([keyedTo EXCEPT
              ![c.ctn].last = IF h[c.ctn].len = 0 \/ @ = pre THEN head ELSE @,
              ![c.ctn].len = @ + 1],
           "NONE", new,
           [c EXCEPT !.pre = IF h[c.ctn].len = 0 THEN head ELSE pre])

\* unsafe_yyjson_mut_ptr_replacex and _removex, of what is got
GotReplaced(h, g, new) ==
  LET r == IF h[g.pctx.ctn].t = "OBJ"
           THEN Ended(PutMember(h, g.pctx.ctn, KeyAftr(h, g.pctx.pre), new),
                      "NONE", new, g.pctx)
           ELSE CtxReplaced(h, g.pctx, new)
  IN IF g.got = 0 THEN g ELSE [r EXCEPT !.got = g.got, !.pctx.old = g.got]

PtrReplace(h, v, ptr, new) ==
  IF ptr = <<>> THEN Refuses(h, "SET_ROOT") ELSE GotReplaced(h, PtrGet(h, v, ptr), new)

GotRemoved(h, g) ==
  LET r == IF h[g.pctx.ctn].t = "OBJ"
           THEN Ended(PutMember(h, g.pctx.ctn, KeyAftr(h, g.pctx.pre), 0),
                      "NONE", g.got, g.pctx)
           ELSE CtxRemoved(h, g.pctx)
  IN IF g.got = 0 THEN g ELSE [r EXCEPT !.got = g.got, !.pctx.pre = 0, !.pctx.old = g.got]

PtrRemove(h, v, ptr) ==
  IF ptr = <<>> THEN Refuses(h, "SET_ROOT") ELSE GotRemoved(h, PtrGet(h, v, ptr))

-----------------------------------------------------------------------------
(* Immutable values, in one array: a container has the distance to what    *)
(* comes behind it, and one of scalars only is indexed.                    *)

RECURSIVE Flattened(_), FlattenedMembers(_, _)
FlattenedMembers(tree, i) ==
  LET key == IF tree.t = "OBJ"
             THEN <<[t |-> "KEY", x |-> tree.names[i], len |-> 0, ofs |-> 1]>>
             ELSE <<>>
  IN IF i > Len(tree.kids) THEN <<>>
     ELSE key \o Flattened(tree.kids[i]) \o FlattenedMembers(tree, i + 1)

Flattened(tree) ==
  LET inner == FlattenedMembers(tree, 1)
  IN <<[t |-> tree.t, x |-> tree.x, len |-> Len(tree.kids), ofs |-> Len(inner) + 1]>>
     \o inner

\* ptr_arr_get and ptr_obj_get
FlatStep(vs, c, tok) ==
  LET n == vs[c].len
      past[i \in 0..n] ==
        IF i = 0 THEN c + 1
        ELSE IF vs[c].t = "OBJ" THEN past[i - 1] + 1 + vs[past[i - 1] + 1].ofs
        ELSE past[i - 1] + vs[past[i - 1]].ofs
      idx == ToIdx(tok)
      is  == {i \in 1..n : vs[past[i - 1]].x = Chars(tok)}
  IN CASE vs[c].t = "ARR" -> IF n = 0 \/ idx = NoIdx \/ idx >= n THEN 0
                             ELSE IF vs[c].ofs = n + 1 THEN c + 1 + idx ELSE past[idx]
       [] vs[c].t = "OBJ" -> IF is = {} THEN 0
                             ELSE 1 + past[(CHOOSE i \in is : \A j \in is : i <= j) - 1]
       [] OTHER -> 0

\* unsafe_yyjson_ptr_getx, at token tok; to is the place the token leads to
RECURSIVE FlatGetFrom(_, _, _, _)
FlatGetFrom(vs, ptr, tok, to) ==
  LET following == TokenAt(ptr, tok.next)
  IN IF tok.bad \/ to = 0 THEN 0
     ELSE IF IsLastOf(ptr, tok) THEN to
     ELSE FlatGetFrom(vs, ptr, following, FlatStep(vs, to, following))

\* yyjson_ptr_getx
FlatGet(vs, ptr) ==
  LET first == TokenAt(ptr, 1)
  IN IF ptr = <<>> THEN 1
     ELSE IF ptr[1] # "/" THEN 0 ELSE FlatGetFrom(vs, ptr, first, FlatStep(vs, 1, first))

-----------------------------------------------------------------------------
(* JSON Patch and JSON Merge-Patch.                                        *)

PatchOps == {"add", "remove", "replace", "move", "copy", "test"}

\* Why an operation of the patch is refused before it is performed
Malformed(o) ==
  CASE o.op = "no object" -> "INVALID_OPERATION"
    [] o.op = "missing" -> "MISSING_KEY"
    [] o.op = "no string" -> "INVALID_MEMBER"
    [] OTHER ->
         IF o.path = <<"missing">> THEN "MISSING_KEY"
         ELSE IF o.path = <<"no string">> THEN "INVALID_MEMBER"
         ELSE IF o.op \in {"add", "replace", "test"} /\ o.value = NoTree
         THEN "MISSING_KEY"
         ELSE IF o.op \in {"move", "copy"} /\ o.from = <<"missing">>
         THEN "MISSING_KEY"
         ELSE IF o.op \in {"move", "copy"} /\ o.from = <<"no string">>
         THEN "INVALID_MEMBER"
         ELSE IF o.op \notin PatchOps THEN "INVALID_MEMBER" ELSE "NONE"

\* unsafe_yyjson_mut_equals; JsonObject has the iterator that finds a key again
SameValue(h, l, r) == Meant(TreeAt(h, l)) = Meant(TreeAt(h, r))

\* The patch goes on after a call that did not fail.
WentOn(s, r) == IF r.code # "NONE" THEN [s EXCEPT !.code = "POINTER"] ELSE [s EXCEPT !.h = r.h]

\* ptr_add or ptr_replace, or the value for the root
Placed(s, o, h, v) ==
  IF o.path = <<>> THEN [s EXCEPT !.h = h, !.root = v]
  ELSE WentOn(s, IF o.op = "replace" THEN PtrReplace(h, s.root, o.path, v)
                 ELSE PtrPut(h, s.root, o.path, v, FALSE, TRUE, MaxRoom))

\* One operation of the patch on the copy s.root: why is what Malformed says of
\* it, source what the value comes from ("from" of move and copy, "path" of test).
Performed(s, o, why, source) ==
  LET refused(code) == [s EXCEPT !.code = code]
      fresh == Len(s.h) + 1
      value == IF o.op = "copy" THEN TreeAt(s.h, source.got) ELSE o.value
      h == IF o.op = "move" THEN source.h ELSE Copied(s.h, value)
  IN CASE why # "NONE" -> refused(why)
       [] why = "NONE" /\ o.op = "remove" -> WentOn(s, source)
       [] why = "NONE" /\ o.op = "test" ->
            IF source.got = 0 THEN refused("POINTER")
            ELSE IF ~SameValue(h, fresh, source.got) THEN refused("EQUAL")
            ELSE [s EXCEPT !.h = h]
       [] why = "NONE" /\ o.op = "move" /\ o.from = <<>> /\ o.path = <<>> -> s
       [] why = "NONE" /\ o.op \in {"move", "copy"} /\ source.code # "NONE" ->
            refused("POINTER")
       [] why = "NONE" /\ o.op = "copy" /\ source.code = "NONE" /\ o.path = <<>> ->
            [s EXCEPT !.root = source.got]
       [] OTHER -> Placed(s, o, h, IF o.op = "move" THEN source.got ELSE fresh)

\* What an operation reads or takes out before it puts something in
Source(s, o) ==
  IF o.op \in {"remove", "move"}
  THEN PtrRemove(s.h, s.root, IF o.op = "move" THEN o.from ELSE o.path)
  ELSE PtrGet(s.h, s.root, IF o.op = "copy" THEN o.from ELSE o.path)

\* yyjson_patch and yyjson_mut_patch
RECURSIVE Patched(_, _)
Patched(s, ops) ==
  IF ops = <<>> \/ s.code # "NONE" THEN s
  ELSE Patched(Performed(s, Head(ops), Malformed(Head(ops)), Source(s, Head(ops))),
               Tail(ops))

\* yyjson_merge_patch and yyjson_mut_merge_patch, which build a new value by
\* adding members
RECURSIVE Merged(_, _)
Merged(orig, patch) ==
  LET at(t, name) == IF t.t = "OBJ" /\ MemberOf(t, name) # 0
                     THEN t.kids[MemberOf(t, name)] ELSE NoTree
      kept == IF orig.t # "OBJ" THEN ObjOf(<<>>, <<>>)
              ELSE OnlyMembers(orig, {i \in DOMAIN orig.names :
                                        at(patch, orig.names[i]) = NoTree})
      built[i \in 0..Len(patch.names)] ==
        IF i = 0 THEN kept
        ELSE IF patch.kids[i] = Null THEN built[i - 1]
        ELSE AppendMember(built[i - 1], patch.names[i],
                          Merged(at(orig, patch.names[i]), patch.kids[i]))
  IN IF patch.t # "OBJ" THEN patch ELSE built[Len(patch.names)]

-----------------------------------------------------------------------------
(* The steps: one call that looks a pointer up, then calls that use the    *)
(* context it left.                                                        *)

RootTree == IF root = 0 THEN NoTree ELSE TreeAt(heap, root)

PtrInit ==
  /\ \E tree \in DocTrees : IF tree = NoTree THEN heap = <<>> /\ root = 0
                            ELSE heap = Copied(<<>>, tree) /\ root = 1
  /\ pctx = NoCtx /\ call = NoCall /\ was = NoTree

\* The root is set to newRoot unless the call fails.
Ends(c, r, newRoot) ==
  /\ call' = [c EXCEPT !.code = r.code, !.got = r.got]
  /\ heap' = r.h /\ pctx' = r.pctx
  /\ root' = IF r.code = "NONE" THEN newRoot ELSE root
  /\ was' = RootTree

\* yyjson_mut_doc_ptr_getx, yyjson_mut_ptr_getx
PtrGetAt(ptr, whole) ==
  Ends([NoCall EXCEPT !.op = "get", !.ptr = ptr, !.whole = whole],
       IF root = 0 THEN Refuses(heap, IF whole THEN "NULL_ROOT" ELSE "PARAMETER")
       ELSE PtrGet(heap, root, ptr), root)

\* yyjson_mut_doc_ptr_addx (insert) and _setx of a value, and those of a value
\* that is not a document; a missing root is made, and set when all is done.
PtrPutAt(op, ptr, tree, create, room, whole) ==
  LET new    == Len(heap) + 1
      h      == Copied(heap, tree)
      insert == op = "add"
      fresh  == Append(h, PtrNode("OBJ", "none", 0))
      c      == [NoCall EXCEPT !.op = op, !.ptr = ptr, !.new = tree,
                               !.create = create, !.whole = whole]
      refuses(code) == Ends(c, Refuses(heap, code), root)
  IN CASE ~whole /\ root = 0 -> refuses("PARAMETER")
       [] ~whole /\ root # 0 ->
            Ends(c, PtrPut(h, root, ptr, new, create, insert, room), root)
       [] whole /\ ptr = <<>> ->
            IF insert /\ root # 0 THEN refuses("SET_ROOT")
            ELSE Ends(c, Ended(h, "NONE", new, [NoCtx EXCEPT !.old =
                                 IF insert THEN 0 ELSE root]), new)
       [] whole /\ ptr # <<>> /\ ptr[1] # "/" -> refuses("SYNTAX")
       [] whole /\ ptr # <<>> /\ ptr[1] = "/" /\ root = 0 ->
            IF ~create THEN refuses("NULL_ROOT")
            ELSE IF room = 0 THEN refuses("MEMORY_ALLOCATION")
            ELSE Ends(c, PutFrom(fresh, Len(fresh), ptr, new, create, insert, room - 1),
                      Len(fresh))
       [] OTHER -> Ends(c, PutFrom(h, root, ptr, new, create, insert, room), root)

\* yyjson_mut_doc_ptr_replacex, yyjson_mut_ptr_replacex
PtrReplaceAt(ptr, tree, whole) ==
  LET new == Len(heap) + 1
      h   == Copied(heap, tree)
      c   == [NoCall EXCEPT !.op = "replace", !.ptr = ptr, !.new = tree, !.whole = whole]
      refuses(code) == Ends(c, Refuses(heap, code), root)
  IN CASE root = 0 -> refuses(IF ~whole THEN "PARAMETER"
                              ELSE IF ptr = <<>> THEN "RESOLVE" ELSE "NULL_ROOT")
       [] root # 0 /\ ptr = <<>> /\ whole ->
            Ends(c, Ended(h, "NONE", root, [NoCtx EXCEPT !.old = root]), new)
       [] OTHER -> Ends(c, PtrReplace(h, root, ptr, new), root)

\* yyjson_mut_doc_ptr_removex, yyjson_mut_ptr_removex
PtrRemoveAt(ptr, whole) ==
  LET c == [NoCall EXCEPT !.op = "remove", !.ptr = ptr, !.whole = whole]
  IN CASE root = 0 -> Ends(c, Refuses(heap, IF whole THEN "NULL_ROOT" ELSE "PARAMETER"), 0)
       [] root # 0 /\ ptr = <<>> /\ whole ->
            Ends(c, Ended(heap, "NONE", root, [NoCtx EXCEPT !.old = root]), 0)
       [] OTHER -> Ends(c, PtrRemove(heap, root, ptr), root)

\* yyjson_mut_doc_ptr_setx and yyjson_mut_ptr_setx of no value
PtrUnset(ptr, whole) ==
  LET c == [NoCall EXCEPT !.op = "unset", !.ptr = ptr, !.whole = whole]
      refuses(code) == Ends(c, Refuses(heap, code), root)
  IN CASE ptr = <<>> /\ whole ->
            Ends(c, Ended(heap, "NONE", 0, [NoCtx EXCEPT !.old = root]), 0)
       [] ~(ptr = <<>> /\ whole) /\ root = 0 ->
            refuses(IF ~whole THEN "PARAMETER"
                    ELSE IF ptr[1] # "/" THEN "SYNTAX" ELSE "RESOLVE")
       [] OTHER -> Ends(c, PtrRemove(heap, root, ptr), root)

\* The patched value is a new one, which the caller makes the root.
PatchRoot(ops) ==
  /\ root # 0
  /\ \E s \in {Patched([h |-> Copied(heap, RootTree), root |-> Len(heap) + 1,
                         code |-> "NONE"], ops),
                [h |-> heap, root |-> root, code |-> "MEMORY_ALLOCATION"]} :
       Ends([NoCall EXCEPT !.op = "patch", !.ptr = ops],
            Ended(s.h, s.code, 0, NoCtx), s.root)

MergeRoot(tree) ==
  LET h == Copied(heap, Merged(RootTree, tree))
      c == [NoCall EXCEPT !.op = "merge", !.new = tree]
  IN /\ root # 0
     /\ Ends(c, Ended(h, "NONE", 0, NoCtx), Len(heap) + 1)

-----------------------------------------------------------------------------
\* The members of the context's container, and the one the context is at (0:
\* none).
Children(h, c) ==
  LET ls == Linked(h, c)
  IN [i \in DOMAIN ls |-> IF h[c].t = "OBJ" THEN <<h[ls[i]].x, h[ls[i]].next>>
                          ELSE <<"none", ls[i]>>]
TargetOf(h, c) ==
  LET ls == Linked(h, c.ctn)
      head == IF h[c.ctn].t = "OBJ" THEN KeyAftr(h, c.pre) ELSE h[c.pre].next
      is == {i \in DOMAIN ls : ls[i] = head}
  IN IF c.pre = 0 \/ is = {} THEN 0 ELSE CHOOSE i \in is : TRUE

\* ctx->pre is in the list of its container.  It is not after one of several
\* members of a name was set or replaced and the one before it was another of
\* them: yyjson_mut_obj_put (yyjson.c:2273) has unlinked it.
PreLinked == pctx.pre \in Range(Linked(heap, pctx.ctn))

CtxEnds(op, name, r) ==
  /\ call' = [NoCall EXCEPT !.op = op, !.ptr = name, !.got = r.got, !.n = call.n + 1]
  /\ heap' = r.h /\ pctx' = r.pctx
  /\ was' = [pairs |-> Children(heap, pctx.ctn), at |-> TargetOf(heap, pctx),
             closed |-> Closed(heap, pctx.ctn), linked |-> PreLinked]
  /\ UNCHANGED root

CtxAppend(name) ==
  LET h == heap \o <<PtrNode("leaf", "new", 0), PtrNode("KEY", name, 0)>>
  IN /\ pctx.ctn # 0
     /\ CtxEnds("ctx append", name, CtxAppended(h, pctx, Len(h), Len(h) - 1))

CtxReplace ==
  LET h == Append(heap, PtrNode("leaf", "new", 0))
  IN /\ pctx.ctn # 0 /\ pctx.pre # 0
     /\ CtxEnds("ctx replace", <<>>, CtxReplaced(h, pctx, Len(h)))

CtxRemove ==
  /\ pctx.ctn # 0 /\ pctx.pre # 0
  /\ CtxEnds("ctx remove", <<>>, CtxRemoved(heap, pctx))

PtrNext ==
  \/ /\ call.op = "none"
     /\ \/ \E ptr \in Pointers, whole \in BOOLEAN :
             \/ PtrGetAt(ptr, whole)
             \/ PtrRemoveAt(ptr, whole)
             \/ PtrUnset(ptr, whole)
             \/ \E tree \in NewTrees : PtrReplaceAt(ptr, tree, whole)
             \/ \E tree \in NewTrees, op \in {"add", "set"}, create \in BOOLEAN,
                   room \in 0..MaxRoom : PtrPutAt(op, ptr, tree, create, room, whole)
        \/ \E ops \in Patches : PatchRoot(ops)
        \/ \E tree \in NewTrees : MergeRoot(tree)
  \/ /\ call.op # "none" /\ call.n < MaxCtxOps
     /\ CtxAppend(<<"z">>) \/ CtxReplace \/ CtxRemove

-----------------------------------------------------------------------------
(* What a call has to have done.                                           *)

\* The document after the operations of a patch up to each; NoTree from the
\* one that has to fail on.
RefPatch(ops) ==
  LET after[i \in 0..Len(ops)] ==
        IF i = 0 THEN was
        ELSE IF after[i - 1] = NoTree \/ Malformed(ops[i]) # "NONE" THEN NoTree
        ELSE RefPatch1(after[i - 1], ops[i])
  IN after

Expected ==
  LET toks == RefTokens(call.ptr)
      atRoot == call.ptr = <<>>
  IN IF call.op = "merge" THEN NoTree
     ELSE IF call.op = "patch" THEN RefPatch(call.ptr)[Len(call.ptr)]
     ELSE IF ~WellFormed(call.ptr) \/ (was = NoTree /\ ~call.whole) THEN NoTree
     ELSE CASE call.op = "get" -> IF was = NoTree THEN NoTree ELSE RefGet(was, toks)
            [] call.op \in {"add", "set"} /\ atRoot ->
                 IF call.whole /\ (call.op = "set" \/ was = NoTree) THEN call.new
                 ELSE NoTree
            [] call.op \in {"add", "set"} /\ ~atRoot ->
                 IF was = NoTree
                 THEN IF call.create THEN Nested(toks, call.new) ELSE NoTree
                 ELSE RefPut(was, toks, call.new, call.create, call.op = "add")
            [] call.op = "replace" ->
                 IF was = NoTree THEN NoTree
                 ELSE IF atRoot THEN (IF call.whole THEN call.new ELSE NoTree)
                 ELSE RefReplace(was, toks, call.new)
            [] call.op \in {"remove", "unset"} -> IF was = NoTree \/ atRoot THEN NoTree
                                     ELSE RefRemove(was, toks)

Answers(expected, now) ==
  /\ call.code = "SYNTAX" => ~WellFormed(call.ptr)
  /\ CASE call.code = "MEMORY_ALLOCATION" -> now = was
       [] call.code # "MEMORY_ALLOCATION" /\ call.op = "merge" ->
            Meant(now) = RefMerge(Meant(was), Meant(call.new))
       [] call.code # "MEMORY_ALLOCATION" /\ call.op = "get" ->
            /\ now = was
            /\ (call.got = 0) = (expected = NoTree)
            /\ call.got # 0 => TreeAt(heap, call.got) = expected
            /\ root # 0 =>
                 LET vs == Flattened(was)
                     at == FlatGet(vs, call.ptr)
                 IN IF expected = NoTree THEN at = 0
                    ELSE at # 0 /\ SubSeq(vs, at, at + vs[at].ofs - 1)
                                     = Flattened(expected)
       [] call.code # "MEMORY_ALLOCATION" /\ call.op \in {"remove", "unset"}
            /\ call.ptr = <<>> /\ call.whole ->
            root = 0 /\ (call.code = "NONE") = (was # NoTree \/ call.op = "unset")
       [] OTHER -> IF expected = NoTree THEN call.code # "NONE" /\ now = was
                   ELSE call.code = "NONE" /\ now = expected

\* A patch (yyjson_patch, yyjson.c:2440) does what RFC 6902 says, as its comment
\* in yyjson.h tells, or fails and leaves the value as it was.
PatchesAsRFC == call.op = "patch" => Answers(Expected, RootTree)

\* An operation of the patch adds where a member of that name exists.
AddsTwice ==
  \E i \in DOMAIN call.ptr :
    LET t == RefPatch(call.ptr)[i - 1]
    IN t # NoTree /\ Malformed(call.ptr[i]) = "NONE" /\ AddsToMember(t, call.ptr[i])

\* A pointer call does what RFC 6901 and its comment say, or fails and leaves
\* the document as it was, though the parents it creates and the key it adds
\* may lack memory half way; a pointer is called malformed only if it is, and
\* the value read is the one an immutable document gives for the pointer.  A
\* merge patch does what RFC 7386 says, and a patch what RFC 6902 says unless it
\* adds where a member of the name exists: of that PatchesAsRFC speaks.
PointerAnswers ==
  /\ call.op = "patch" /\ ~AddsTwice => PatchesAsRFC
  /\ call.op \in {"get", "add", "set", "replace", "remove", "unset", "merge"} =>
       Answers(Expected, RootTree)

\* The context a call left is at the value it found or put in, so that the
\* calls that use it put their value behind that one, in its place, or take it
\* out, and nothing else changes in the container.  It says nothing of a removal
\* by a context whose pre is not in the list, nor of calls that find the list
\* such a removal has broken: the length is one less then, the list is not.
ContextAimed ==
  LET pairs == Children(heap, pctx.ctn)
      target == TargetOf(heap, pctx)
  IN /\ call.op \in {"get", "add", "set"} /\ call.code = "NONE" /\ pctx.ctn # 0 =>
          target # 0 /\ pairs[target][2] = call.got
     /\ call.op = "ctx append" /\ was.closed =>
          LET to == IF was.at = 0 THEN Len(was.pairs) + 1 ELSE was.at + 1
          IN /\ Closed(heap, pctx.ctn) /\ target = to
             /\ pairs = InsertAt(was.pairs, to,
                  <<IF heap[pctx.ctn].t = "OBJ" THEN call.ptr ELSE "none", call.got>>)
     /\ call.op = "ctx replace" /\ was.closed =>
          /\ Closed(heap, pctx.ctn) /\ target = was.at
          /\ pairs = [was.pairs EXCEPT ![was.at] = <<@[1], call.got>>]
     /\ call.op = "ctx remove" /\ was.closed /\ was.linked =>
          /\ Closed(heap, pctx.ctn) /\ target = 0
          /\ pairs = RemoveAt(was.pairs, was.at)

\* Both.
PointersAgree == PointerAnswers /\ ContextAimed

=============================================================================
