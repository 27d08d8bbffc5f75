----------------------------- MODULE JsonDynAlc -----------------------------
(***************************************************************************)
(* The dynamic allocator of src/util/yyjson.c: the chunks of the memory    *)
(* that is in use and of the memory that was given back are two lists, and *)
(* nothing is returned to the system before the allocator goes.            *)
(***************************************************************************)
EXTENDS Naturals, Sequences, SequencesExt, FiniteSets, FiniteSetsExt

CONSTANTS DynSizes,    \* the sizes that are asked for
          Step,        \* YYJSON_ALC_DYN_MIN_SIZE; the header is one
          Addresses    \* where the system's memory may lie

ASSUME DynAssumption == DynSizes \subseteq Nat /\ Step \in Nat \ {0}

VARIABLES dynAt,       \* whether the allocator exists
          system,      \* the chunks the system has given: address -> size
          freeList,    \* ctx->free_list, addresses
          usedList,    \* ctx->used_list
          owed         \* what the owner of a chunk in use asked for

dynVars == <<dynAt, system, freeList, usedList, owed>>

\* dyn_size_align
Rounded(size) == ((size + Step) \div Step) * Step

With(f, a, v) == [x \in DOMAIN f \cup {a} |-> IF x = a THEN v ELSE f[x]]
Without(f, a) == [x \in DOMAIN f \ {a} |-> f[x]]

\* Memory of the system, which may move when it is resized.
Fresh == Addresses \ DOMAIN system
Resized(old, new, size) == With(Without(system, old), new, size)

\* dyn_chunk_list_remove, of a chunk that is in the list
Unlinked(list, chunk) == RemoveAt(list, CHOOSE i \in DOMAIN list : list[i] = chunk)

-----------------------------------------------------------------------------
\* yyjson_alc_dyn_new
DynNew ==
  /\ ~dynAt
  /\ dynAt' = TRUE
  /\ freeList' = <<>> /\ usedList' = <<>>
  /\ UNCHANGED <<system, owed>>

\* dyn_malloc: a new chunk, the first free one that is large enough, or the
\* largest free one resized; the system may have no more.
DynMalloc(size) ==
  LET need == Rounded(size)
      fits == {i \in DOMAIN freeList : system[freeList[i]] >= need}
  IN /\ dynAt
     /\ \/ /\ freeList = <<>>
           /\ \E a \in Fresh : /\ system' = With(system, a, need)
                               /\ usedList' = <<a>> \o usedList
                               /\ owed' = With(owed, a, size)
           /\ UNCHANGED freeList
        \/ /\ fits # {}
           /\ LET a == freeList[Min(fits)]
              IN /\ freeList' = RemoveAt(freeList, Min(fits))
                 /\ usedList' = <<a>> \o usedList
                 /\ owed' = With(owed, a, size)
           /\ UNCHANGED system
        \/ /\ freeList # <<>> /\ fits = {}
           /\ \E a \in Fresh \cup {Last(freeList)} :
                /\ system' = Resized(Last(freeList), a, need)
                /\ usedList' = <<a>> \o usedList
                /\ owed' = With(owed, a, size)
           /\ freeList' = Front(freeList)
     /\ UNCHANGED dynAt

\* A chunk that is too small is taken off the list of the used ones, and put
\* back at its head, resized or, when the system has no more, as it was.
DynRealloc(b, size) ==
  LET need == Rounded(size)
      others == Unlinked(usedList, b)
  IN /\ dynAt /\ size > owed[b]
     /\ \/ /\ system[b] >= need
           /\ owed' = With(owed, b, size)
           /\ UNCHANGED <<system, usedList>>
        \/ /\ system[b] < need
           /\ \E a \in Fresh \cup {b} :
                /\ system' = Resized(b, a, need)
                /\ usedList' = <<a>> \o others
                /\ owed' = With(Without(owed, b), a, size)
        \/ /\ system[b] < need
           /\ usedList' = <<b>> \o others
           /\ UNCHANGED <<system, owed>>
     /\ UNCHANGED <<dynAt, freeList>>

\* The chunk is put in front of the list, whatever its size.
GivenAtHead(list, b) == <<b>> \o list

\* dyn_free: before the first chunk that is not smaller
GivenInOrder(list, b) ==
  LET smaller == {i \in DOMAIN list : \A j \in 1..i : system[list[j]] < system[b]}
  IN InsertAt(list, Cardinality(smaller) + 1, b)

DynFree(b) ==
  /\ dynAt
  /\ usedList' = Unlinked(usedList, b)
  /\ freeList' = GivenInOrder(freeList, b)
  /\ owed' = Without(owed, b)
  /\ UNCHANGED <<dynAt, system>>

\* yyjson_alc_dyn_free: both lists go back to the system.
DynDestroy ==
  /\ dynAt
  /\ dynAt' = FALSE
  /\ system' = [a \in DOMAIN system \ ToSet(freeList \o usedList) |-> system[a]]
  /\ freeList' = <<>> /\ usedList' = <<>>
  /\ owed' = [a \in {} |-> 0]

-----------------------------------------------------------------------------
DynInit ==
  /\ dynAt = FALSE
  /\ system = [a \in {} |-> 0]
  /\ freeList = <<>> /\ usedList = <<>>
  /\ owed = [a \in {} |-> 0]

DynNext ==
  \/ DynNew
  \/ \E size \in DynSizes : DynMalloc(size)
  \/ \E b \in DOMAIN owed : DynFree(b) \/ \E size \in DynSizes : DynRealloc(b, size)
  \/ DynDestroy

DynSpec == DynInit /\ [][DynNext]_dynVars

-----------------------------------------------------------------------------
(* Properties.                                                             *)

\* Every chunk of the system is in one of the lists, once, also after a failed
\* reallocation; those in use have the room their owners asked for; the free
\* ones are in order of their sizes, so that the first that fits is the smallest
\* that does and the one that is resized is the largest; and nothing remains.
DynListsExact ==
  /\ IsInjective(freeList \o usedList)
  /\ ToSet(freeList \o usedList) = DOMAIN system
  /\ ToSet(usedList) = DOMAIN owed
  /\ \A b \in DOMAIN owed : owed[b] + 1 <= system[b]
  /\ \A i \in 1..(Len(freeList) - 1) : system[freeList[i]] <= system[freeList[i + 1]]
  /\ ~dynAt => DOMAIN system = {}

=============================================================================
