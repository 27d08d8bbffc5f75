----------------------------- MODULE JsonPoolAlc -----------------------------
(***************************************************************************)
(* The pool allocator of src/util/yyjson.c: one buffer, cut into chunks    *)
(* that follow each other, of which the free ones form a list.  A chunk is *)
(* its address and its size, its header included; a block is the chunk of  *)
(* some memory in use, with the size its owner knows.  The unit is half of *)
(* a header.                                                               *)
(***************************************************************************)
EXTENDS Naturals, Sequences, SequencesExt, FiniteSets

CONSTANTS Buffers,     \* the sizes of the buffer given to yyjson_alc_pool_init
          Sizes,       \* the sizes that are asked for
          MinGrowth    \* a reallocation asks for at least so much more

VARIABLES total,       \* ctx->size, 0 without an allocator
          free,        \* ctx->free_list
          blocks,      \* the chunks in use
          torn         \* a copy was longer than the chunk it went to

poolVars == <<total, free, blocks, torn>>

Hdr == 2               \* sizeof(pool_chunk), sizeof(pool_ctx)

\* A block may have a little more room than was asked for: growth of two headers
\* always asks for more than that, and every caller grows by as much.
ASSUME PoolAssumption ==
  /\ Buffers \subseteq Nat /\ Sizes \subseteq Nat
  /\ MinGrowth \in Nat /\ MinGrowth >= 2 * Hdr

\* pool_size_align
Aligned(size) == ((size + Hdr - 1) \div Hdr) * Hdr + Hdr

Chunk(at, size) == [at |-> at, size |-> size]
Behind(c) == c.at + c.size
Block(c, asked) == [at |-> c.at, size |-> c.size, asked |-> asked]

-----------------------------------------------------------------------------
(* The list, as functions.  Each gives the list that is left and the chunk  *)
(* that was taken.                                                         *)

\* The first chunk that is large enough, split when the rest is worth it.
Taken(list, size) ==
  LET fits == {i \in DOMAIN list : list[i].size >= size}
      i == CHOOSE i \in fits : \A j \in fits : i <= j
      c == list[i]
  IN IF fits = {} THEN [ok |-> FALSE]
     ELSE IF c.size >= size + 2 * Hdr
     THEN [ok |-> TRUE, chunk |-> Chunk(c.at, size),
           list |-> [list EXCEPT ![i] = Chunk(c.at + size, c.size - size)]]
     ELSE [ok |-> TRUE, chunk |-> c, list |-> RemoveAt(list, i)]

\* How many chunks of the list lie before c.
Before(list, c) == Cardinality({i \in DOMAIN list : list[i].at < c.at})

\* pool_free without the merge with the chunk below.
GivenNoMerge(list, c) == InsertAt(list, Before(list, c) + 1, c)

\* pool_free: put c where its address belongs, and merge it with the chunk
\* above and the chunk below when they touch.
Given(list, c) ==
  LET n == Before(list, c)
      above == IF n < Len(list) /\ Behind(c) = list[n + 1].at THEN 1 ELSE 0
      below == IF n > 0 /\ Behind(list[n]) = c.at THEN 1 ELSE 0
      low  == IF below = 1 THEN list[n].at ELSE c.at
      high == IF above = 1 THEN Behind(list[n + 1]) ELSE Behind(c)
  IN SubSeq(list, 1, n - below) \o <<Chunk(low, high - low)>>
     \o SubSeq(list, n + 1 + above, Len(list))

-----------------------------------------------------------------------------
\* yyjson_alc_pool_init
PoolStart(size) ==
  /\ total = 0
  /\ size >= 4 * Hdr
  /\ total' = size - (size % Hdr)
  /\ free' = <<Chunk(Hdr, total' - Hdr)>>
  /\ UNCHANGED <<blocks, torn>>

PoolMalloc(size) ==
  LET got == Taken(free, Aligned(size))
  IN /\ total > 0 /\ size < total
     /\ got.ok
     /\ free' = got.list
     /\ blocks' = blocks \cup {Block(got.chunk, size)}
     /\ UNCHANGED <<total, torn>>

PoolFree(b) ==
  /\ free' = Given(free, Chunk(b.at, b.size))
  /\ blocks' = blocks \ {b}
  /\ UNCHANGED <<total, torn>>

\* pool_realloc: in place, into the free chunk above, or by a copy
PoolRealloc(b, size) ==
  LET need == Aligned(size)
      n == Before(free, b)
      above == IF n < Len(free) /\ Behind(b) = free[n + 1].at THEN free[n + 1].size
               ELSE 0
      rest == b.size + above - need
      got == Taken(free, Aligned(need - Hdr))
  IN /\ size < total
     /\ size >= b.asked + MinGrowth
     /\ \/ /\ Aligned(b.asked) = need
           /\ blocks' = (blocks \ {b}) \cup {Block(b, size)}
           /\ UNCHANGED <<free, torn>>
        \/ /\ Aligned(b.asked) # need
           /\ above > 0 /\ b.size + above >= need
           /\ IF rest > 2 * Hdr
              THEN /\ free' = [free EXCEPT ![n + 1] = Chunk(b.at + need, rest)]
                   /\ blocks' = (blocks \ {b}) \cup {Block(Chunk(b.at, need), size)}
              ELSE /\ free' = RemoveAt(free, n + 1)
                   /\ blocks' = (blocks \ {b})
                                \cup {Block(Chunk(b.at, b.size + above), size)}
           /\ UNCHANGED torn
        \/ /\ Aligned(b.asked) # need
           /\ ~(above > 0 /\ b.size + above >= need)
           /\ got.ok
           /\ torn' = (torn \/ b.size > got.chunk.size)
           /\ free' = Given(got.list, Chunk(b.at, b.size))
           /\ blocks' = (blocks \ {b}) \cup {Block(got.chunk, size)}
     /\ UNCHANGED total

-----------------------------------------------------------------------------
PoolInit ==
  /\ total = 0
  /\ free = <<>>
  /\ blocks = {}
  /\ torn = FALSE

PoolNext ==
  \/ \E size \in Buffers : PoolStart(size)
  \/ \E size \in Sizes : PoolMalloc(size)
  \/ \E b \in blocks : PoolFree(b) \/ \E size \in Sizes : PoolRealloc(b, size)

PoolSpec == PoolInit /\ [][PoolNext]_poolVars

-----------------------------------------------------------------------------
(* Properties.                                                             *)

\* The blocks and the free chunks make up the buffer without gap or overlap, no
\* two free ones touch, so that all memory given back is one chunk again, and a
\* block has the room its owner asked for.
Chunks == ToSet(free) \cup {Chunk(b.at, b.size) : b \in blocks}
PoolTiles ==
  total > 0 =>
    /\ \A a \in Hdr..(total - 1) :
         Cardinality({c \in Chunks : c.at <= a /\ a < Behind(c)}) = 1
    /\ \A c \in Chunks : c.at >= Hdr /\ Behind(c) <= total
    /\ \A i \in 1..(Len(free) - 1) : Behind(free[i]) < free[i + 1].at
    /\ \A b \in blocks : b.asked + Hdr <= b.size
    /\ ~torn

=============================================================================
