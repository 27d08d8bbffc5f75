---------------------------- MODULE JsonDocPool ----------------------------
(***************************************************************************)
(* The memory of the mutable documents of src/util/yyjson.c: a document    *)
(* has a pool for its strings and one for its values, each a list of       *)
(* chunks of which the newest is cut up, and the memory is freed with the  *)
(* document.  A string counts its bytes, a value is one; the header of a   *)
(* chunk is one of the pool's units.  Every allocation may fail.           *)
(***************************************************************************)
EXTENDS Naturals, Sequences, SequencesExt, FiniteSets, FiniteSetsExt

CONSTANTS Docs,        \* the documents a program has at a time
          Lens,        \* the lengths of the strings
          Counts,      \* the numbers of values that are asked for together
          PoolSizes,   \* what yyjson_mut_doc_set_*_pool_size is told
          FirstChunk,  \* YYJSON_MUT_DOC_*_POOL_INIT_SIZE
          LargestChunk,\* YYJSON_MUT_DOC_*_POOL_MAX_SIZE
          MostChunks   \* bound: the chunks of a pool

\* The library asks for one value at least: an array made of none is a value.
ASSUME DocAssumption ==
  /\ Lens \subseteq Nat /\ Counts \subseteq Nat \ {0} /\ PoolSizes \subseteq Nat
  /\ FirstChunk \in Nat /\ LargestChunk \in Nat

VARIABLES docs,        \* the documents: No, or their pools
          held,        \* what malloc has returned and was not freed
          given        \* the parts of chunks that were handed out

docVars == <<docs, held, given>>

Kinds == {"str", "val"}
No == [str |-> <<>>, val |-> <<>>]       \* no document

\* A pool: the sizes of its chunks, the newest last, the cursor in the newest,
\* and the size of the next one.
NewPool == [sizes |-> <<>>, cur |-> 0, next |-> FirstChunk]
NewDoc == [k \in Kinds |-> NewPool]

Room(p) == IF p.sizes = <<>> THEN 0 ELSE Last(p.sizes) - p.cur

TheDoc(d) == <<d, "doc", 0>>
TheChunk(d, k, n) == <<d, k, n>>
ChunksOf(d) == UNION {{TheChunk(d, k, n) : n \in DOMAIN docs[d][k].sizes} : k \in Kinds}
Live == {d \in Docs : docs[d] # No}

\* The header of the chunk is not counted.
GrownNoHeader(p, need) ==
  [sizes |-> Append(p.sizes, Max({p.next, need})),
   cur |-> 1,
   next |-> IF Min({2 * p.next, LargestChunk}) < p.next THEN LargestChunk
            ELSE Min({2 * p.next, LargestChunk})]

\* unsafe_yyjson_str_pool_grow, unsafe_yyjson_val_pool_grow
Grown(p, need) ==
  [sizes |-> Append(p.sizes, Max({p.next, need + 1})),
   cur |-> 1,
   next |-> IF Min({2 * p.next, LargestChunk}) < p.next THEN LargestChunk
            ELSE Min({2 * p.next, LargestChunk})]

\* The work on one document in one call: its pools, and what was handed out.
\* unsafe_yyjson_mut_str_alc (with a byte for the zero), unsafe_yyjson_mut_val:
\* `ok' says whether the system has memory, should a chunk be needed.
Alloc(w, k, need, ok) ==
  LET p == w.pools[k]
      q == IF Room(p) < need THEN Grown(p, need) ELSE p
  IN IF Room(p) < need /\ ~ok THEN [w EXCEPT !.failed = TRUE]
     ELSE [w EXCEPT !.pools[k] = [q EXCEPT !.cur = @ + need],
                    !.spans = @ \cup {[kind |-> k, chunk |-> Len(q.sizes),
                                       from |-> q.cur, to |-> q.cur + need - 1]}]

Work(pools) == [pools |-> pools, spans |-> {}, failed |-> FALSE]
AllocStr(w, len, ok) == Alloc(w, "str", len + 1, ok)

\* The work is done on document d: its chunks are held.
Done(d, w) ==
  /\ docs' = [docs EXCEPT ![d] = w.pools]
  /\ given' = given \cup {[s EXCEPT !.chunk = TheChunk(d, s.kind, s.chunk)] : s \in w.spans}
  /\ held' = held \cup {TheDoc(d)}
             \cup UNION {{TheChunk(d, k, n) : n \in DOMAIN w.pools[k].sizes} : k \in Kinds}
  /\ \A k \in Kinds : Len(w.pools[k].sizes) <= MostChunks

-----------------------------------------------------------------------------
\* yyjson_mut_doc_new
DocNew(d) == docs[d] = No /\ Done(d, Work(NewDoc))

\* yyjson_mut_doc_free: both lists of chunks, and the document
DocFree(d) ==
  /\ docs[d] # No
  /\ docs' = [docs EXCEPT ![d] = No]
  /\ held' = held \ (ChunksOf(d) \cup {TheDoc(d)})
  /\ given' = {s \in given : s.chunk[1] # d}

\* yyjson_mut_doc_set_str_pool_size, yyjson_mut_doc_set_val_pool_size
SetPoolSize(d, k, n) ==
  /\ docs[d] # No
  /\ n > 0
  /\ docs' = [docs EXCEPT ![d][k].next = n + 1]
  /\ UNCHANGED <<held, given>>

\* unsafe_yyjson_mut_val
MutVal(d, count) ==
  /\ docs[d] # No
  /\ \E ok \in BOOLEAN : Done(d, Alloc(Work(docs[d]), "val", count, ok))

\* yyjson_mut_null to yyjson_mut_strn, whose string stays the caller's
NewValue(d) == MutVal(d, 1)

\* yyjson_mut_strcpy, yyjson_mut_strncpy: the string is copied also when there
\* is no value for it, and a value is taken also when there is no string.
Strcpy(d, len) ==
  /\ docs[d] # No
  /\ \E ok1, ok2 \in BOOLEAN :
       Done(d, AllocStr(Alloc(Work(docs[d]), "val", 1, ok1), len, ok2))

\* yyjson_val_mut_copy, yyjson_mut_val_mut_copy in yyjson_doc_mut_copy and
\* yyjson_mut_doc_mut_copy: to a new document, the values at once or one by one,
\* and a string with each; whatever fails, the new document is freed again.
DocCopy(d, strings, atOnce) ==
  /\ docs[d] = No
  /\ \E ok \in [1..(2 * Len(strings)) -> BOOLEAN] :
       LET vals(w, i) == IF ~atOnce THEN Alloc(w, "val", 1, ok[2 * i])
                         ELSE IF i = 1 THEN Alloc(w, "val", Len(strings), ok[2])
                         ELSE w
           made[i \in 0..Len(strings)] ==
             IF i = 0 THEN Work(NewDoc)
             ELSE LET w == made[i - 1]
                      v == IF w.failed THEN w ELSE vals(w, i)
                  IN IF v.failed THEN v ELSE AllocStr(v, strings[i], ok[2 * i - 1])
       IN IF made[Len(strings)].failed THEN UNCHANGED docVars
          ELSE Done(d, made[Len(strings)])

-----------------------------------------------------------------------------
DocInit ==
  /\ docs = [d \in Docs |-> No]
  /\ held = {}
  /\ given = {}

DocNext ==
  \E d \in Docs :
    \/ DocNew(d) \/ DocFree(d)
    \/ \E k \in Kinds, n \in PoolSizes : SetPoolSize(d, k, n)
    \/ NewValue(d)
    \/ \E count \in Counts : MutVal(d, count)
    \/ \E len \in Lens : Strcpy(d, len)
    \/ \E a, b \in Lens, atOnce \in BOOLEAN : DocCopy(d, <<a, b>>, atOnce)

DocSpec == DocInit /\ [][DocNext]_docVars

-----------------------------------------------------------------------------
(* Properties.                                                             *)

Overlap(s, t) == s.chunk = t.chunk /\ s.from <= t.to /\ t.from <= s.to

\* What a document has handed out lies in a chunk it holds, behind the header and
\* before the end, and no two parts overlap, whatever failed on the way and
\* whatever the pools' sizes were set to; and what is held belongs to a document
\* that exists, so that nothing remains when the documents are gone.
RoomIsOwned ==
  /\ \A s \in given :
       /\ s.chunk \in held
       /\ LET c == s.chunk IN
            s.from >= 1 /\ s.to < docs[c[1]][c[2]].sizes[c[3]]
  /\ \A s, t \in given : s # t => ~Overlap(s, t)
  /\ held = UNION {ChunksOf(d) \cup {TheDoc(d)} : d \in Live}

=============================================================================
