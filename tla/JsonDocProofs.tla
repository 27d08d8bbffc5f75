--------------------------- MODULE JsonDocProofs ---------------------------
(***************************************************************************)
(* Proofs about the allocators and arrays of yyjson, for any sizes.  The   *)
(* lists of the dynamic one hold every chunk the system gave, once, and    *)
(* nothing remains of them, whatever addresses it gives.  The chunks of    *)
(* the pool make up its buffer without gap or overlap.  Documents share no *)
(* memory, and hold what they have handed out.  Files are read whole and   *)
(* closed again.  An array is a sequence.                                  *)
(***************************************************************************)
EXTENDS JsonDynAlc, JsonPoolAlc, JsonDocPool, JsonFile, JsonArray, SequenceTheorems, FiniteSetTheorems,
        NaturalRecursion

-----------------------------------------------------------------------------
(* Lists.                                                                  *)

\* A list is put together, taken off its end and unlinked by these two.
LEMMA InFront ==
  ASSUME NEW S, NEW s \in Seq(S), NEW e \in S
  PROVE  <<e>> \o s = InsertAt(s, 1, e)
<1>1. SubSeq(s, 1, 1 - 1) = <<>>
  BY SubSeqEmpty
<1>2. SubSeq(s, 1, Len(s)) = s
  BY SubSeqFull
<1>3. <<e>> \in Seq(S)
  OBVIOUS
<1>4. <<>> \o <<e>> = <<e>>
  BY <1>3, ConcatEmptySeq
<1>. QED BY <1>1, <1>2, <1>4 DEF InsertAt

LEMMA FrontRemoved ==
  ASSUME NEW S, NEW s \in Seq(S), s # <<>>
  PROVE  Len(s) \in 1 .. Len(s) /\ Front(s) = RemoveAt(s, Len(s))
<1>1. Len(s) \in Nat \ {0}
  BY EmptySeq
<1>2. SubSeq(s, Len(s) + 1, Len(s)) = <<>>
  BY <1>1, SubSeqEmpty
<1>3. SubSeq(s, 1, Len(s) - 1) \in Seq(S)
  <2>1. \A k \in 1 .. (Len(s) - 1) : s[k] \in S
    BY <1>1, ElementOfSeq
  <2>. QED BY <1>1, <2>1, SubSeqProperties
<1>. QED BY <1>1, <1>2, <1>3, ConcatEmptySeq DEF Front, RemoveAt

LEMMA UnlinkedAt ==
  ASSUME NEW S, NEW s \in Seq(S), NEW b \in ToSet(s)
  PROVE  \E i \in 1 .. Len(s) : s[i] = b /\ Unlinked(s, b) = RemoveAt(s, i)
<1>1. DOMAIN s = 1 .. Len(s)
  BY LenProperties
<1>2. \E i \in DOMAIN s : s[i] = b
  BY DEF ToSet
<1>. QED BY <1>1, <1>2 DEF Unlinked

\* Two lists in one.
LEMMA Joined ==
  ASSUME NEW S, NEW s \in Seq(S), NEW t \in Seq(S)
  PROVE  /\ ToSet(s \o t) = ToSet(s) \cup ToSet(t)
         /\ Distinct(s) /\ Distinct(t) /\ ToSet(s) \cap ToSet(t) = {} => IsInjective(s \o t)
<1>. DEFINE u == s \o t
<1>1. PICK m \in Nat, n \in Nat : m = Len(s) /\ n = Len(t)
  BY LenProperties
<1>2. /\ u \in Seq(S) /\ Len(u) = m + n
      /\ \A k \in 1 .. (m + n) : u[k] = IF k <= m THEN s[k] ELSE t[k - m]
  BY <1>1, ConcatProperties
<1>. HIDE DEF u
<1>3. DOMAIN u = 1 .. (m + n) /\ DOMAIN s = 1 .. m /\ DOMAIN t = 1 .. n
  BY <1>1, <1>2, LenProperties
<1>4. \A k \in 1 .. m : k \in 1 .. (m + n) /\ u[k] = s[k]
  BY <1>2
<1>5. ASSUME NEW k \in 1 .. n PROVE k + m \in 1 .. (m + n) /\ u[k + m] = t[k]
  <2>1. k + m \in 1 .. (m + n) /\ ~(k + m <= m) /\ (k + m) - m = k
    OBVIOUS
  <2>. QED BY <1>2, <2>1
<1>6. ASSUME NEW k \in 1 .. (m + n) PROVE k \in 1 .. m \/ \E l \in 1 .. n : k = l + m
  <2>1. CASE k <= m
    BY <2>1
  <2>2. CASE ~(k <= m)
    <3>1. k - m \in 1 .. n /\ k = (k - m) + m
      BY <2>2
    <3>. QED BY <3>1
  <2>. QED BY <2>1, <2>2
<1>7. ToSet(u) = ToSet(s) \cup ToSet(t)
  <2>1. ASSUME NEW k \in 1 .. (m + n) PROVE u[k] \in ToSet(s) \cup ToSet(t)
    BY <1>3, <1>4, <1>5, <1>6 DEF ToSet
  <2>2. ASSUME NEW k \in 1 .. m PROVE s[k] \in ToSet(u)
    BY <1>3, <1>4 DEF ToSet
  <2>3. ASSUME NEW k \in 1 .. n PROVE t[k] \in ToSet(u)
    BY <1>3, <1>5 DEF ToSet
  <2>. QED BY <1>3, <2>1, <2>2, <2>3 DEF ToSet
<1>8. ASSUME Distinct(s), Distinct(t), ToSet(s) \cap ToSet(t) = {} PROVE IsInjective(u)
  <2>. SUFFICES ASSUME NEW k \in 1 .. (m + n), NEW l \in 1 .. (m + n), u[k] = u[l]
                PROVE  k = l
    BY <1>3 DEF IsInjective
  <2>1. CASE k \in 1 .. m /\ l \in 1 .. m
    BY <1>1, <1>4, <1>8, <2>1 DEF Distinct
  <2>2. \A i \in 1 .. m, j \in 1 .. n : s[i] # t[j]
    BY <1>3, <1>8 DEF ToSet
  <2>3. ASSUME NEW i \in 1 .. n, k = i + m, NEW j \in 1 .. n, l = j + m PROVE k = l
    BY <1>1, <1>5, <1>8, <2>3 DEF Distinct
  <2>4. ASSUME NEW i \in 1 .. m, NEW j \in 1 .. n PROVE u[i] # u[j + m]
    BY <1>4, <1>5, <2>2
  <2>. QED BY <1>6, <2>1, <2>3, <2>4
<1>. QED BY <1>7, <1>8 DEF u

-----------------------------------------------------------------------------
(* Lists that are in order of the sizes.                                   *)

Ordered(s, size) == \A i, j \in 1 .. Len(s) : i <= j => size[s[i]] <= size[s[j]]

LEMMA RemovedOrdered ==
  ASSUME NEW S, NEW s \in Seq(S), NEW i \in 1 .. Len(s), NEW size, Ordered(s, size)
  PROVE  Ordered(RemoveAt(s, i), size)
<1>. DEFINE t == RemoveAt(s, i)
            up(m) == IF m < i THEN m ELSE m + 1
<1>1. PICK n \in Nat : n = Len(s)
  BY LenProperties
<1>2. Len(t) = n - 1 /\ \A k \in 1 .. (n - 1) : t[k] = IF k < i THEN s[k] ELSE s[k + 1]
  BY <1>1, RemovedIs
<1>3. \A k, l \in 1 .. (n - 1) : /\ up(k) \in 1 .. n /\ up(l) \in 1 .. n
                                 /\ k <= l => up(k) <= up(l)
  BY <1>1
<1>4. \A k \in 1 .. (n - 1) : t[k] = s[up(k)]
  BY <1>2
<1>. HIDE DEF t, up
<1>5. Ordered(t, size)
  BY <1>1, <1>2, <1>3, <1>4 DEF Ordered
<1>. QED BY <1>5 DEF t

\* Only the sizes of the elements matter.
LEMMA OrderedSame ==
  ASSUME NEW S, NEW s \in Seq(S), NEW size, NEW new, Ordered(s, size),
         \A x \in ToSet(s) : new[x] = size[x]
  PROVE  Ordered(s, new)
<1>1. DOMAIN s = 1 .. Len(s)
  BY LenProperties
<1>2. \A i \in 1 .. Len(s) : new[s[i]] = size[s[i]]
  BY <1>1 DEF ToSet
<1>. QED BY <1>2 DEF Ordered

\* Where dyn_free puts a chunk, those before it are smaller and those behind not.
LEMMA PlaceInOrder ==
  ASSUME NEW S, NEW s \in Seq(S), Ordered(s, system), NEW b \in S,
         \A x \in S : system[x] \in Nat
  PROVE  \E i \in 1 .. (Len(s) + 1) :
           /\ GivenInOrder(s, b) = InsertAt(s, i, b)
           /\ \A k \in 1 .. Len(s) : /\ k < i => system[s[k]] < system[b]
                                     /\ k >= i => system[b] <= system[s[k]]
<1>1. PICK n \in Nat : n = Len(s) /\ DOMAIN s = 1 .. n
  BY LenProperties
<1>2. \A k \in 1 .. n : system[s[k]] \in Nat
  BY <1>1, ElementOfSeq
<1>3. system[b] \in Nat
  OBVIOUS
<1>. DEFINE larger == {i \in 1 .. (n + 1) : i = n + 1 \/ ~(system[s[i]] < system[b])}
<1>4. larger \subseteq Nat /\ larger # {}
  OBVIOUS
<1>5. PICK m \in larger : \A j \in larger : m <= j
  BY <1>4, LeastNumber
<1>6. m \in 1 .. (n + 1)
  OBVIOUS
<1>7. ASSUME NEW k \in 1 .. n, k < m PROVE system[s[k]] < system[b]
  <2>1. k \notin larger
    BY <1>5, <1>6, <1>7
  <2>. QED BY <1>7, <2>1
<1>8. ASSUME NEW k \in 1 .. n, k >= m PROVE system[b] <= system[s[k]]
  <2>1. m \in 1 .. n /\ m <= k
    BY <1>6, <1>8
  <2>2. ~(system[s[m]] < system[b])
    BY <1>5, <2>1
  <2>3. system[s[m]] <= system[s[k]]
    BY <1>1, <2>1 DEF Ordered
  <2>. QED BY <1>2, <1>3, <2>1, <2>2, <2>3
<1>. DEFINE smaller == {i \in DOMAIN s : \A j \in 1 .. i : system[s[j]] < system[b]}
<1>9. smaller = 1 .. (m - 1)
  <2>1. ASSUME NEW i \in 1 .. (m - 1) PROVE i \in smaller
    <3>1. i \in 1 .. n /\ \A j \in 1 .. i : j \in 1 .. n /\ j < m
      BY <1>6
    <3>. QED BY <1>1, <1>7, <3>1
  <2>2. ASSUME NEW i \in smaller PROVE i \in 1 .. (m - 1)
    <3>1. i \in 1 .. n /\ i \in 1 .. i
      BY <1>1
    <3>2. system[s[i]] < system[b]
      BY <3>1
    <3>3. ~(i >= m)
      BY <1>2, <1>3, <1>8, <3>1, <3>2
    <3>. QED BY <1>6, <3>1, <3>3
  <2>. QED BY <2>1, <2>2
<1>10. Cardinality(smaller) + 1 = m
  <2>. HIDE DEF smaller
  <2>1. Cardinality(1 .. (m - 1)) = IF 1 > m - 1 THEN 0 ELSE m - 1 - 1 + 1
    <3>1. m - 1 \in Int /\ 1 \in Int
      BY <1>6
    <3>2. \A j, k \in Int : Cardinality(j .. k) = IF j > k THEN 0 ELSE k - j + 1
      BY FS_Interval, Zenon
    <3>. QED BY <3>1, <3>2
  <2>2. Cardinality(1 .. (m - 1)) + 1 = m
    BY <1>6, <2>1
  <2>. QED BY <1>9, <2>2
<1>11. GivenInOrder(s, b) = InsertAt(s, m, b)
  BY <1>10 DEF GivenInOrder
<1>. QED BY <1>1, <1>6, <1>7, <1>8, <1>11

\* There the list stays in order.
LEMMA InsertedOrdered ==
  ASSUME NEW S, NEW s \in Seq(S), Ordered(s, system), NEW b \in S,
         \A x \in S : system[x] \in Nat, NEW i \in 1 .. (Len(s) + 1),
         \A k \in 1 .. Len(s) : /\ k < i => system[s[k]] < system[b]
                                /\ k >= i => system[b] <= system[s[k]]
  PROVE  Ordered(InsertAt(s, i, b), system)
<1>. DEFINE t == InsertAt(s, i, b)
            down(m) == IF m < i THEN m ELSE m - 1
<1>1. PICK n \in Nat : n = Len(s)
  BY LenProperties
<1>2. \A k \in 1 .. n : system[s[k]] \in Nat
  BY <1>1, ElementOfSeq
<1>3. system[b] \in Nat /\ i \in 1 .. (n + 1)
  BY <1>1
<1>4. /\ Len(t) = n + 1
      /\ \A k \in 1 .. (n + 1) :
           t[k] = IF k < i THEN s[k] ELSE IF k = i THEN b ELSE s[k - 1]
  BY <1>1, Inserted
<1>. HIDE DEF t
<1>5. t[i] = b
  BY <1>3, <1>4
<1>6. ASSUME NEW k \in 1 .. (n + 1), k # i
      PROVE  /\ down(k) \in 1 .. n /\ t[k] = s[down(k)]
             /\ k < i <=> down(k) < i
  <2>1. down(k) \in 1 .. n /\ (k < i <=> down(k) < i)
    BY <1>3, <1>6
  <2>2. CASE k < i
    BY <1>4, <2>1, <2>2
  <2>3. CASE ~(k < i)
    BY <1>4, <1>6, <2>1, <2>3
  <2>. QED BY <2>1, <2>2, <2>3
<1>7. \A k, l \in 1 .. (n + 1) : k # i /\ l # i /\ k <= l => down(k) <= down(l)
  BY <1>3
<1>. HIDE DEF down
<1>8. ASSUME NEW k \in 1 .. (n + 1), NEW l \in 1 .. (n + 1), k <= l
      PROVE  system[t[k]] <= system[t[l]]
  <2>1. CASE k # i /\ l # i
    BY <1>1, <1>6, <1>7, <1>8, <2>1 DEF Ordered
  <2>2. CASE k = i /\ l = i
    BY <1>3, <1>5, <2>2
  <2>3. CASE k # i /\ l = i
    <3>1. k < i
      BY <1>3, <1>8, <2>3
    <3>2. system[s[down(k)]] < system[b] /\ system[s[down(k)]] \in Nat
      BY <1>1, <1>2, <1>6, <2>3, <3>1
    <3>3. t[k] = s[down(k)] /\ t[l] = b
      BY <1>3, <1>5, <1>6, <2>3
    <3>. QED BY <1>3, <3>2, <3>3
  <2>4. CASE k = i /\ l # i
    <3>1. ~(l < i)
      BY <1>3, <1>8, <2>4
    <3>2. down(l) \in 1 .. n /\ down(l) >= i
      BY <1>3, <1>6, <2>4, <3>1
    <3>. QED BY <1>1, <1>5, <1>6, <2>4, <3>2
  <2>. QED BY <2>1, <2>2, <2>3, <2>4
<1>9. Ordered(t, system)
  BY <1>4, <1>8 DEF Ordered
<1>. QED BY <1>9 DEF t

-----------------------------------------------------------------------------
(* The invariant of the dynamic allocator.                                 *)

Sized(f) == f \in [DOMAIN f -> Nat]

DynLists ==
  /\ freeList \in Seq(Addresses) /\ usedList \in Seq(Addresses)
  /\ Distinct(freeList) /\ Distinct(usedList)
  /\ ToSet(freeList) \cap ToSet(usedList) = {}
  /\ ToSet(freeList) \cup ToSet(usedList) = DOMAIN system
  /\ ToSet(usedList) = DOMAIN owed

DynMemory ==
  /\ Sized(system) /\ Sized(owed)
  /\ \A b \in DOMAIN owed : owed[b] + 1 <= system[b]
  /\ Ordered(freeList, system)

DynGone == ~dynAt => DOMAIN system = {}

DynIInv == DynLists /\ DynMemory /\ DynGone

\* A size is rounded up, with room for the header.
LEMMA RoundedUp ==
  ASSUME NEW size \in Nat
  PROVE  Rounded(size) \in Nat /\ size + 1 <= Rounded(size)
<1>1. Step \in Nat \ {0}
  BY DynAssumption
<1>. DEFINE q == (size + Step) \div Step
            r == (size + Step) % Step
<1>2. size + Step = Step * q + r /\ r \in 0 .. (Step - 1) /\ q \in Nat
  BY <1>1
<1>. HIDE DEF q, r
<1>3. Step * q = q * Step /\ q * Step \in Nat
  BY <1>1, <1>2
<1>4. size + 1 <= q * Step
  BY <1>1, <1>2, <1>3
<1>. QED BY <1>3, <1>4 DEF Rounded, q

\* The sizes g are those of f with v at a.
Puts(g, f, a, v) ==
  /\ Sized(g) /\ DOMAIN g = DOMAIN f \cup {a} /\ g[a] = v
  /\ \A x \in DOMAIN f \ {a} : g[x] = f[x]

LEMMA WithIs ==
  ASSUME NEW f, Sized(f), NEW a, NEW v \in Nat
  PROVE  Puts(With(f, a, v), f, a, v)
BY DEF Sized, With, Puts

LEMMA WithoutIs ==
  ASSUME NEW f, Sized(f), NEW a
  PROVE  /\ Sized(Without(f, a)) /\ DOMAIN Without(f, a) = DOMAIN f \ {a}
         /\ \A x \in DOMAIN f \ {a} : Without(f, a)[x] = f[x]
BY DEF Sized, Without

LEMMA ResizedIs ==
  ASSUME Sized(system), NEW a, NEW b \in DOMAIN system, NEW v \in Nat,
         a \notin DOMAIN system \ {b}
  PROVE  /\ Sized(Resized(b, a, v))
         /\ DOMAIN Resized(b, a, v) = (DOMAIN system \ {b}) \cup {a}
         /\ Resized(b, a, v)[a] = v
<1>. DEFINE f == Without(system, b)
<1>1. /\ Sized(f) /\ DOMAIN f = DOMAIN system \ {b}
      /\ \A x \in DOMAIN system \ {b} : f[x] = system[x]
  BY WithoutIs
<1>. HIDE DEF f
<1>2. Puts(With(f, a, v), f, a, v)
  BY <1>1, WithIs
<1>3. Resized(b, a, v) = With(f, a, v)
  BY DEF Resized, f
<1>. QED BY <1>1, <1>2, <1>3 DEF Puts

LEMMA OthersAsBefore ==
  ASSUME Sized(system), NEW a, NEW b \in DOMAIN system, NEW v \in Nat,
         a \notin DOMAIN system \ {b}, NEW x \in DOMAIN system \ {b}
  PROVE  Resized(b, a, v)[x] = system[x]
BY DEF Resized, With, Without

\* A new chunk in front of the list of those in use.
LEMMA PutInFront ==
  ASSUME NEW s \in Seq(Addresses), NEW a \in Addresses, Distinct(s), a \notin ToSet(s)
  PROVE  /\ <<a>> \o s \in Seq(Addresses) /\ Distinct(<<a>> \o s)
         /\ ToSet(<<a>> \o s) = ToSet(s) \cup {a}
<1>1. 1 \in 1 .. (Len(s) + 1)
  BY LenProperties
<1>2. InsertAt(s, 1, a) \in Seq(Addresses)
  BY <1>1, Inserted
<1>3. Distinct(InsertAt(s, 1, a)) /\ ToSet(InsertAt(s, 1, a)) = ToSet(s) \cup {a}
  BY <1>1, InsertedSet
<1>. QED BY <1>2, <1>3, InFront

\* A chunk taken off a list.
LEMMA TakenOff ==
  ASSUME NEW s \in Seq(Addresses), NEW i \in 1 .. Len(s), Distinct(s)
  PROVE  /\ RemoveAt(s, i) \in Seq(Addresses) /\ Distinct(RemoveAt(s, i))
         /\ ToSet(RemoveAt(s, i)) = ToSet(s) \ {s[i]}
         /\ s[i] \in ToSet(s) /\ s[i] \in Addresses
<1>1. RemoveAt(s, i) \in Seq(Addresses)
  BY RemovedIs
<1>2. Distinct(RemoveAt(s, i)) /\ ToSet(RemoveAt(s, i)) = ToSet(s) \ {s[i]}
  BY RemovedSet
<1>3. s[i] \in ToSet(s) /\ s[i] \in Addresses
  BY LenProperties, ElementOfSeq DEF ToSet
<1>. QED BY <1>1, <1>2, <1>3

LEMMA UnlinkedIs ==
  ASSUME NEW s \in Seq(Addresses), Distinct(s), NEW b \in ToSet(s)
  PROVE  /\ Unlinked(s, b) \in Seq(Addresses) /\ Distinct(Unlinked(s, b))
         /\ ToSet(Unlinked(s, b)) = ToSet(s) \ {b} /\ b \in Addresses
<1>1. PICK i \in 1 .. Len(s) : s[i] = b /\ Unlinked(s, b) = RemoveAt(s, i)
  BY UnlinkedAt
<1>. QED BY <1>1, TakenOff

LEMMA DynInitially == DynInit => DynIInv
<1>. SUFFICES ASSUME DynInit PROVE DynIInv
  OBVIOUS
<1>1. freeList = <<>> /\ usedList = <<>> /\ DOMAIN system = {} /\ DOMAIN owed = {}
  BY DEF DynInit
<1>2. ToSet(<<>>) = {} /\ <<>> \in Seq(Addresses) /\ Len(<<>>) = 0
  BY DEF ToSet
<1>3. DynLists
  BY <1>1, <1>2 DEF DynLists, Distinct
<1>4. Sized(system) /\ Sized(owed)
  BY DEF DynInit, Sized
<1>5. Ordered(freeList, system)
  BY <1>1, <1>2 DEF Ordered
<1>. QED BY <1>1, <1>3, <1>4, <1>5 DEF DynIInv, DynMemory, DynGone

\* A chunk in use has an owner, one that is free has none.
LEMMA ChunkKinds ==
  ASSUME DynIInv
  PROVE  /\ \A b \in DOMAIN owed : b \in ToSet(usedList) /\ b \in DOMAIN system
         /\ \A b \in ToSet(freeList) :
              /\ b \in DOMAIN system /\ b \notin DOMAIN owed /\ b \notin ToSet(usedList)
         /\ \A b \in DOMAIN system : system[b] \in Nat
         /\ \A b \in DOMAIN owed : owed[b] \in Nat
BY DEF DynIInv, DynLists, DynMemory, Sized

LEMMA OwedWith ==
  ASSUME DynIInv, NEW a, NEW size \in Nat
  PROVE  Puts(With(owed, a, size), owed, a, size)
<1>1. Sized(owed)
  BY DEF DynIInv, DynMemory
<1>. QED BY <1>1, WithIs

\* A free chunk comes into use, of a size that is large enough; the others stay.
LEMMA IntoUse ==
  ASSUME DynIInv, NEW i \in 1 .. Len(freeList), NEW a \in Addresses, NEW size \in Nat,
         NEW new \in Nat, size + 1 <= new,
         a \notin DOMAIN system \/ a = freeList[i],
         Sized(system'), DOMAIN system' = (DOMAIN system \ {freeList[i]}) \cup {a},
         system'[a] = new,
         \A x \in DOMAIN system \ {freeList[i]} : system'[x] = system[x],
         freeList' = RemoveAt(freeList, i), usedList' = <<a>> \o usedList,
         owed' = With(owed, a, size), dynAt, dynAt' = dynAt
  PROVE  DynIInv'
<1>. DEFINE b == freeList[i]
            less == RemoveAt(freeList, i)
            more == <<a>> \o usedList
<1>1. /\ less \in Seq(Addresses) /\ Distinct(less) /\ ToSet(less) = ToSet(freeList) \ {b}
      /\ b \in ToSet(freeList)
  BY TakenOff DEF DynIInv, DynLists
<1>2. a \notin ToSet(usedList)
  BY <1>1, ChunkKinds DEF DynIInv, DynLists
<1>3. more \in Seq(Addresses) /\ Distinct(more) /\ ToSet(more) = ToSet(usedList) \cup {a}
  BY <1>2, PutInFront DEF DynIInv, DynLists
<1>4. /\ Sized(owed') /\ DOMAIN owed' = DOMAIN owed \cup {a} /\ owed'[a] = size
      /\ \A x \in DOMAIN owed \ {a} : owed'[x] = owed[x]
  <2>1. Puts(With(owed, a, size), owed, a, size)
    BY OwedWith
  <2>2. Puts(owed', owed, a, size)
    BY <2>1
  <2>. QED BY <2>2 DEF Puts
<1>. HIDE DEF less, more, b
<1>5. freeList' = less /\ usedList' = more
  BY DEF less, more
<1>6. ToSet(less) \cap ToSet(more) = {}
  BY <1>1, <1>3, ChunkKinds DEF DynIInv, DynLists, b
<1>7. ToSet(less) \cup ToSet(more) = DOMAIN system'
  BY <1>1, <1>3, <1>6, ChunkKinds DEF DynIInv, DynLists, b
<1>8. ToSet(more) = DOMAIN owed'
  BY <1>3, <1>4 DEF DynIInv, DynLists
<1>9. DynLists'
  BY <1>1, <1>3, <1>5, <1>6, <1>7, <1>8 DEF DynLists
<1>10. Ordered(less, system')
  <2>1. Ordered(less, system)
    BY RemovedOrdered DEF DynIInv, DynLists, DynMemory, less
  <2>2. \A x \in ToSet(less) : system'[x] = system[x]
    BY <1>1, ChunkKinds DEF b
  <2>. QED BY <1>1, <2>1, <2>2, OrderedSame
<1>11. ASSUME NEW x \in DOMAIN owed' PROVE owed'[x] + 1 <= system'[x]
  <2>1. CASE x = a
    BY <1>4, <2>1
  <2>2. CASE x # a
    <3>1. x \in DOMAIN owed /\ owed'[x] = owed[x]
      BY <1>4, <2>2
    <3>2. x # b /\ x \in DOMAIN system
      BY <1>1, <3>1, ChunkKinds
    <3>. QED BY <3>1, <3>2 DEF DynIInv, DynMemory, b
  <2>. QED BY <2>1, <2>2
<1>12. DynMemory' /\ DynGone'
  BY <1>4, <1>5, <1>10, <1>11 DEF DynMemory, DynGone
<1>. QED BY <1>9, <1>12 DEF DynIInv

LEMMA MallocStep ==
  ASSUME DynIInv, NEW size \in DynSizes, DynMalloc(size)
  PROVE  DynIInv'
<1>. DEFINE need == Rounded(size)
            fits == {i \in DOMAIN freeList : system[freeList[i]] >= need}
<1>1. size \in Nat /\ need \in Nat /\ size + 1 <= need
  BY DynAssumption, RoundedUp
<1>2. Sized(system) /\ DOMAIN system \subseteq Addresses
  <2>1. ToSet(freeList) \subseteq Addresses /\ ToSet(usedList) \subseteq Addresses
    BY LenProperties, ElementOfSeq DEF DynIInv, DynLists, ToSet
  <2>. QED BY <2>1 DEF DynIInv, DynLists, DynMemory
<1>3. freeList \in Seq(Addresses) /\ DOMAIN freeList = 1 .. Len(freeList) /\ Len(freeList) \in Nat
  BY LenProperties DEF DynIInv, DynLists
<1>. HIDE DEF need
<1>4. dynAt /\ dynAt' = dynAt
  BY DEF DynMalloc
<1>5. ASSUME freeList = <<>>, NEW a \in Fresh, system' = With(system, a, need),
             usedList' = <<a>> \o usedList, owed' = With(owed, a, size),
             freeList' = freeList
      PROVE  DynIInv'
  <2>1. a \in Addresses /\ a \notin DOMAIN system
    BY DEF Fresh
  <2>2. a \notin ToSet(usedList) /\ a \notin DOMAIN owed /\ a \notin ToSet(freeList)
    BY <2>1 DEF DynIInv, DynLists
  <2>3. /\ usedList' \in Seq(Addresses) /\ Distinct(usedList')
        /\ ToSet(usedList') = ToSet(usedList) \cup {a}
    BY <1>5, <2>1, <2>2, PutInFront DEF DynIInv, DynLists
  <2>4. /\ Sized(system') /\ DOMAIN system' = DOMAIN system \cup {a} /\ system'[a] = need
        /\ \A x \in DOMAIN system \ {a} : system'[x] = system[x]
    <3>1. Puts(With(system, a, need), system, a, need)
      BY <1>1, <1>2, WithIs
    <3>2. Puts(system', system, a, need)
      BY <1>5, <3>1
    <3>. QED BY <3>2 DEF Puts
  <2>5. /\ Sized(owed') /\ DOMAIN owed' = DOMAIN owed \cup {a} /\ owed'[a] = size
        /\ \A x \in DOMAIN owed \ {a} : owed'[x] = owed[x]
    <3>1. Puts(With(owed, a, size), owed, a, size)
      BY <1>1, OwedWith
    <3>2. Puts(owed', owed, a, size)
      BY <1>5, <3>1
    <3>. QED BY <3>2 DEF Puts
  <2>6. DynLists'
    BY <1>5, <2>2, <2>3, <2>4, <2>5 DEF DynIInv, DynLists
  <2>7. \A x \in DOMAIN owed' : owed'[x] + 1 <= system'[x]
    BY <1>1, <2>1, <2>2, <2>4, <2>5, ChunkKinds DEF DynIInv, DynMemory
  <2>8. Ordered(freeList', system')
    <3>1. \A x \in ToSet(freeList) : system'[x] = system[x]
      BY <2>2, <2>4, ChunkKinds
    <3>. QED BY <1>3, <1>5, <3>1, OrderedSame DEF DynIInv, DynMemory
  <2>9. DynMemory' /\ DynGone'
    BY <1>4, <2>4, <2>5, <2>7, <2>8 DEF DynMemory, DynGone
  <2>. QED BY <2>6, <2>9 DEF DynIInv
<1>6. ASSUME fits # {}, freeList' = RemoveAt(freeList, Min(fits)),
             usedList' = <<freeList[Min(fits)]>> \o usedList,
             owed' = With(owed, freeList[Min(fits)], size), system' = system
      PROVE  DynIInv'
  <2>1. fits \subseteq Nat
    BY <1>3
  <2>2. \E m \in fits : \A j \in fits : m <= j
    BY <1>6, <2>1, LeastNumber
  <2>3. Min(fits) \in fits
    BY <2>2 DEF Min
  <2>4. PICK i \in 1 .. Len(freeList) : i = Min(fits) /\ system[freeList[i]] >= need
    BY <1>3, <2>3
  <2>. DEFINE a == freeList[i]
  <2>5. a \in ToSet(freeList) /\ a \in Addresses
    BY <1>3, TakenOff DEF DynIInv, DynLists
  <2>6. a \in DOMAIN system /\ system[a] \in Nat
    BY <2>5, ChunkKinds
  <2>7. size + 1 <= system[a]
    BY <1>1, <2>4, <2>6
  <2>8. DOMAIN system' = (DOMAIN system \ {freeList[i]}) \cup {a}
    BY <1>6, <2>6
  <2>9. Sized(system') /\ system'[a] = system[a] /\ \A x \in DOMAIN system : system'[x] = system[x]
    BY <1>2, <1>6
  <2>10. freeList' = RemoveAt(freeList, i) /\ usedList' = <<a>> \o usedList
         /\ owed' = With(owed, a, size)
    BY <1>6, <2>4
  <2>. QED BY <1>1, <1>4, <2>5, <2>6, <2>7, <2>8, <2>9, <2>10, IntoUse
<1>7. ASSUME freeList # <<>>, NEW a \in Fresh \cup {Last(freeList)},
             system' = Resized(Last(freeList), a, need),
             usedList' = <<a>> \o usedList, owed' = With(owed, a, size),
             freeList' = Front(freeList)
      PROVE  DynIInv'
  <2>. DEFINE i == Len(freeList)
              b == freeList[i]
  <2>1. i \in 1 .. Len(freeList) /\ Front(freeList) = RemoveAt(freeList, i)
    BY <1>3, <1>7, FrontRemoved
  <2>2. b \in ToSet(freeList) /\ b \in Addresses /\ Last(freeList) = b
    BY <1>3, <2>1, TakenOff DEF DynIInv, DynLists, Last
  <2>3. b \in DOMAIN system
    BY <2>2, ChunkKinds
  <2>4. a \in Addresses /\ (a \notin DOMAIN system \/ a = b)
    BY <1>7, <2>2 DEF Fresh
  <2>5. /\ Sized(system') /\ DOMAIN system' = (DOMAIN system \ {b}) \cup {a}
        /\ system'[a] = need
        /\ \A x \in DOMAIN system \ {b} : system'[x] = system[x]
    <3>. HIDE DEF i, b
    <3>1. a \notin DOMAIN system \ {b}
      BY <2>4
    <3>2. /\ Sized(Resized(b, a, need))
          /\ DOMAIN Resized(b, a, need) = (DOMAIN system \ {b}) \cup {a}
          /\ Resized(b, a, need)[a] = need
          /\ \A x \in DOMAIN system \ {b} : Resized(b, a, need)[x] = system[x]
      <4>1. /\ Sized(Resized(b, a, need))
            /\ DOMAIN Resized(b, a, need) = (DOMAIN system \ {b}) \cup {a}
            /\ Resized(b, a, need)[a] = need
        BY <1>1, <1>2, <2>3, <3>1, ResizedIs
      <4>2. ASSUME NEW x \in DOMAIN system \ {b} PROVE Resized(b, a, need)[x] = system[x]
        BY <1>1, <1>2, <2>3, <3>1, OthersAsBefore
      <4>. QED BY <4>1, <4>2
    <3>. QED BY <1>7, <2>2, <3>2 DEF b
  <2>. QED BY <1>1, <1>4, <1>7, <2>1, <2>4, <2>5, IntoUse
<1>8. CASE freeList = <<>> /\ UNCHANGED freeList
           /\ \E a \in Fresh : /\ system' = With(system, a, need)
                               /\ usedList' = <<a>> \o usedList
                               /\ owed' = With(owed, a, size)
  BY <1>5, <1>8
<1>9. CASE /\ fits # {} /\ UNCHANGED system
           /\ LET a == freeList[Min(fits)]
              IN /\ freeList' = RemoveAt(freeList, Min(fits))
                 /\ usedList' = <<a>> \o usedList
                 /\ owed' = With(owed, a, size)
  BY <1>6, <1>9
<1>10. CASE /\ freeList # <<>> /\ fits = {}
            /\ \E a \in Fresh \cup {Last(freeList)} :
                 /\ system' = Resized(Last(freeList), a, need)
                 /\ usedList' = <<a>> \o usedList
                 /\ owed' = With(owed, a, size)
            /\ freeList' = Front(freeList)
  BY <1>7, <1>10
<1>. QED BY <1>8, <1>9, <1>10 DEF DynMalloc, need

\* A chunk in use is moved to the front, perhaps as another one.
LEMMA ToTheFront ==
  ASSUME DynIInv, NEW b \in DOMAIN owed, NEW a \in Addresses, a \notin DOMAIN system \ {b}
  PROVE  LET s == <<a>> \o Unlinked(usedList, b)
         IN /\ s \in Seq(Addresses) /\ Distinct(s)
            /\ ToSet(s) = (DOMAIN owed \ {b}) \cup {a}
<1>1. b \in ToSet(usedList) /\ ToSet(usedList) = DOMAIN owed
  BY DEF DynIInv, DynLists
<1>2. /\ Unlinked(usedList, b) \in Seq(Addresses) /\ Distinct(Unlinked(usedList, b))
      /\ ToSet(Unlinked(usedList, b)) = DOMAIN owed \ {b}
  BY <1>1, UnlinkedIs DEF DynIInv, DynLists
<1>3. a \notin DOMAIN owed \ {b}
  BY ChunkKinds
<1>. QED BY <1>2, <1>3, PutInFront

LEMMA ReallocStep ==
  ASSUME DynIInv, NEW b \in DOMAIN owed, NEW size \in DynSizes, DynRealloc(b, size)
  PROVE  DynIInv'
<1>. DEFINE need == Rounded(size)
            others == Unlinked(usedList, b)
<1>1. size \in Nat /\ need \in Nat /\ size + 1 <= need
  BY DynAssumption, RoundedUp
<1>. HIDE DEF need
<1>2. b \in DOMAIN system /\ system[b] \in Nat /\ b \notin ToSet(freeList)
  BY ChunkKinds
<1>3. dynAt /\ dynAt' = dynAt /\ freeList' = freeList
  BY DEF DynRealloc
<1>4. b \in Addresses
  BY UnlinkedIs DEF DynIInv, DynLists
<1>5. ASSUME system[b] >= need, owed' = With(owed, b, size),
             system' = system, usedList' = usedList
      PROVE  DynIInv'
  <2>1. /\ Sized(With(owed, b, size)) /\ DOMAIN With(owed, b, size) = DOMAIN owed \cup {b}
        /\ With(owed, b, size)[b] = size
        /\ \A x \in DOMAIN owed \ {b} : With(owed, b, size)[x] = owed[x]
    <3>1. Puts(With(owed, b, size), owed, b, size)
      BY <1>1, OwedWith
    <3>. QED BY <3>1 DEF Puts
  <2>2. DOMAIN owed' = DOMAIN owed
    BY <1>5, <2>1
  <2>3. size + 1 <= system[b]
    BY <1>1, <1>2, <1>5
  <2>4. ASSUME NEW x \in DOMAIN owed PROVE owed'[x] + 1 <= system'[x]
    BY <1>5, <2>1, <2>3 DEF DynIInv, DynMemory
  <2>5. DynLists' /\ DynGone'
    BY <1>3, <1>5, <2>2 DEF DynIInv, DynLists, DynGone
  <2>6. Ordered(freeList', system')
    BY <1>3, <1>5 DEF DynIInv, DynMemory
  <2>7. DynMemory'
    BY <1>5, <2>1, <2>2, <2>4, <2>6 DEF DynIInv, DynMemory
  <2>. QED BY <2>5, <2>7 DEF DynIInv
<1>6. ASSUME NEW a \in Fresh \cup {b}, system' = Resized(b, a, need),
             usedList' = <<a>> \o others, owed' = With(Without(owed, b), a, size)
      PROVE  DynIInv'
  <2>1. a \in Addresses /\ a \notin DOMAIN system \ {b}
    BY <1>4 DEF Fresh
  <2>2. a \notin ToSet(freeList)
    BY <1>2, <2>1, ChunkKinds
  <2>3. /\ usedList' \in Seq(Addresses) /\ Distinct(usedList')
        /\ ToSet(usedList') = (DOMAIN owed \ {b}) \cup {a}
    BY <1>6, <2>1, ToTheFront
  <2>4. Sized(system)
    BY DEF DynIInv, DynMemory
  <2>5. /\ Sized(system') /\ DOMAIN system' = (DOMAIN system \ {b}) \cup {a}
        /\ system'[a] = need
        /\ \A x \in DOMAIN system \ {b} : system'[x] = system[x]
    <3>1. /\ Sized(Resized(b, a, need))
          /\ DOMAIN Resized(b, a, need) = (DOMAIN system \ {b}) \cup {a}
          /\ Resized(b, a, need)[a] = need
      BY <1>1, <1>2, <2>1, <2>4, ResizedIs
    <3>2. ASSUME NEW x \in DOMAIN system \ {b} PROVE Resized(b, a, need)[x] = system[x]
      BY <1>1, <1>2, <2>1, <2>4, OthersAsBefore
    <3>. QED BY <1>6, <3>1, <3>2
  <2>6. /\ Sized(owed') /\ DOMAIN owed' = (DOMAIN owed \ {b}) \cup {a}
        /\ owed'[a] = size
        /\ \A x \in DOMAIN owed \ {b} : x # a => owed'[x] = owed[x]
    <3>. DEFINE f == Without(owed, b)
    <3>1. /\ Sized(f) /\ DOMAIN f = DOMAIN owed \ {b}
          /\ \A x \in DOMAIN owed \ {b} : f[x] = owed[x]
      BY WithoutIs DEF DynIInv, DynMemory
    <3>. HIDE DEF f
    <3>2. Puts(With(f, a, size), f, a, size)
      BY <1>1, <3>1, WithIs
    <3>3. owed' = With(f, a, size)
      BY <1>6 DEF f
    <3>. QED BY <3>1, <3>2, <3>3 DEF Puts
  <2>7. DynLists'
    BY <1>2, <1>3, <2>2, <2>3, <2>5, <2>6 DEF DynIInv, DynLists
  <2>8. ASSUME NEW x \in DOMAIN owed' PROVE owed'[x] + 1 <= system'[x]
    <3>1. CASE x = a
      BY <1>1, <2>5, <2>6, <3>1
    <3>2. CASE x # a
      <4>1. x \in DOMAIN owed \ {b} /\ owed'[x] = owed[x]
        BY <2>6, <3>2
      <4>2. x \in DOMAIN system \ {b}
        BY <4>1, ChunkKinds
      <4>. QED BY <2>5, <4>1, <4>2 DEF DynIInv, DynMemory
    <3>. QED BY <3>1, <3>2
  <2>9. Ordered(freeList', system')
    <3>1. \A x \in ToSet(freeList) : system'[x] = system[x]
      BY <1>2, <2>5, ChunkKinds
    <3>. QED BY <1>3, <3>1, OrderedSame DEF DynIInv, DynLists, DynMemory
  <2>10. DynMemory' /\ DynGone'
    BY <1>3, <2>5, <2>6, <2>8, <2>9 DEF DynMemory, DynGone
  <2>. QED BY <2>7, <2>10 DEF DynIInv
<1>7. ASSUME usedList' = <<b>> \o others, system' = system, owed' = owed PROVE DynIInv'
  <2>1. /\ usedList' \in Seq(Addresses) /\ Distinct(usedList')
        /\ ToSet(usedList') = DOMAIN owed
    <3>1. b \notin DOMAIN system \ {b}
      OBVIOUS
    <3>2. LET s == <<b>> \o Unlinked(usedList, b)
          IN /\ s \in Seq(Addresses) /\ Distinct(s)
             /\ ToSet(s) = (DOMAIN owed \ {b}) \cup {b}
      BY <1>4, <3>1, ToTheFront
    <3>. QED BY <1>7, <3>2
  <2>2. DynLists'
    BY <1>3, <1>7, <2>1 DEF DynIInv, DynLists
  <2>3. DynMemory' /\ DynGone'
    BY <1>3, <1>7 DEF DynIInv, DynMemory, DynGone
  <2>. QED BY <2>2, <2>3 DEF DynIInv
<1>8. CASE system[b] >= need /\ owed' = With(owed, b, size) /\ UNCHANGED <<system, usedList>>
  BY <1>5, <1>8
<1>9. CASE /\ system[b] < need
           /\ \E a \in Fresh \cup {b} :
                /\ system' = Resized(b, a, need)
                /\ usedList' = <<a>> \o others
                /\ owed' = With(Without(owed, b), a, size)
  BY <1>6, <1>9
<1>10. CASE /\ system[b] < need
            /\ usedList' = <<b>> \o others
            /\ UNCHANGED <<system, owed>>
  BY <1>7, <1>10
<1>. QED BY <1>8, <1>9, <1>10 DEF DynRealloc, need

LEMMA FreeStep ==
  ASSUME DynIInv, NEW b \in DOMAIN owed, DynFree(b)
  PROVE  DynIInv'
<1>1. b \in ToSet(usedList) /\ b \in DOMAIN system /\ b \notin ToSet(freeList)
  BY ChunkKinds
<1>2. /\ usedList' \in Seq(Addresses) /\ Distinct(usedList')
      /\ ToSet(usedList') = ToSet(usedList) \ {b} /\ b \in Addresses
  BY <1>1, UnlinkedIs DEF DynIInv, DynLists, DynFree
<1>. DEFINE S == DOMAIN system
<1>3. freeList \in Seq(S)
  <2>1. freeList \in Seq(Addresses) /\ Len(freeList) \in Nat /\ DOMAIN freeList = 1 .. Len(freeList)
    BY LenProperties DEF DynIInv, DynLists
  <2>2. \A k \in 1 .. Len(freeList) : freeList[k] \in S
    BY <2>1, ChunkKinds DEF ToSet
  <2>. QED BY <2>1, <2>2
<1>4. b \in S /\ \A x \in S : system[x] \in Nat
  BY <1>1, ChunkKinds
<1>5. Ordered(freeList, system) /\ Distinct(freeList) /\ freeList \in Seq(Addresses)
  BY DEF DynIInv, DynMemory, DynLists
<1>6. PICK i \in 1 .. (Len(freeList) + 1) :
        /\ GivenInOrder(freeList, b) = InsertAt(freeList, i, b)
        /\ \A k \in 1 .. Len(freeList) : /\ k < i => system[freeList[k]] < system[b]
                                         /\ k >= i => system[b] <= system[freeList[k]]
  BY <1>3, <1>4, <1>5, PlaceInOrder
<1>7. freeList' = InsertAt(freeList, i, b)
  BY <1>6 DEF DynFree
<1>8. Ordered(freeList', system)
  BY <1>3, <1>4, <1>5, <1>6, <1>7, InsertedOrdered
<1>9. /\ freeList' \in Seq(Addresses) /\ Distinct(freeList')
      /\ ToSet(freeList') = ToSet(freeList) \cup {b}
  <2>1. InsertAt(freeList, i, b) \in Seq(Addresses)
    BY <1>2, <1>5, Inserted
  <2>2. /\ Distinct(InsertAt(freeList, i, b))
        /\ ToSet(InsertAt(freeList, i, b)) = ToSet(freeList) \cup {b}
    BY <1>1, <1>2, <1>5, InsertedSet
  <2>. QED BY <1>7, <2>1, <2>2
<1>10. system' = system /\ dynAt' = dynAt /\ owed' = Without(owed, b)
  BY DEF DynFree
<1>11. /\ Sized(Without(owed, b)) /\ DOMAIN Without(owed, b) = DOMAIN owed \ {b}
       /\ \A x \in DOMAIN owed \ {b} : Without(owed, b)[x] = owed[x]
  BY WithoutIs DEF DynIInv, DynMemory
<1>12. DynLists'
  BY <1>1, <1>2, <1>9, <1>10, <1>11 DEF DynIInv, DynLists
<1>13. DynMemory' /\ DynGone'
  BY <1>8, <1>10, <1>11 DEF DynIInv, DynMemory, DynGone
<1>. QED BY <1>12, <1>13 DEF DynIInv

LEMMA DynStep == DynIInv /\ [DynNext]_dynVars => DynIInv'
<1>. SUFFICES ASSUME DynIInv, [DynNext]_dynVars PROVE DynIInv'
  OBVIOUS
<1>1. ToSet(<<>>) = {} /\ <<>> \in Seq(Addresses) /\ Len(<<>>) = 0
  BY DEF ToSet
<1>2. CASE DynNew
  <2>1. DOMAIN system = {} /\ DOMAIN owed = {}
    BY <1>2 DEF DynNew, DynIInv, DynLists, DynGone
  <2>2. dynAt' /\ freeList' = <<>> /\ usedList' = <<>> /\ system' = system /\ owed' = owed
    BY <1>2 DEF DynNew
  <2>3. DynLists'
    BY <1>1, <2>1, <2>2 DEF DynLists, Distinct
  <2>4. Ordered(freeList', system')
    BY <1>1, <2>2 DEF Ordered
  <2>. QED BY <2>1, <2>2, <2>3, <2>4 DEF DynIInv, DynMemory, DynGone
<1>3. CASE \E size \in DynSizes : DynMalloc(size)
  BY <1>3, MallocStep
<1>4. CASE \E b \in DOMAIN owed : DynFree(b) \/ \E size \in DynSizes : DynRealloc(b, size)
  <2>1. PICK b \in DOMAIN owed : DynFree(b) \/ \E size \in DynSizes : DynRealloc(b, size)
    BY <1>4
  <2>2. CASE DynFree(b)
    BY <2>2, FreeStep
  <2>3. CASE \E size \in DynSizes : DynRealloc(b, size)
    BY <2>3, ReallocStep
  <2>. QED BY <2>1, <2>2, <2>3
<1>5. CASE DynDestroy
  <2>1. ToSet(freeList \o usedList) = DOMAIN system
    <3>1. freeList \in Seq(Addresses) /\ usedList \in Seq(Addresses)
      BY DEF DynIInv, DynLists
    <3>2. ToSet(freeList) \cup ToSet(usedList) = DOMAIN system
      BY DEF DynIInv, DynLists
    <3>3. ToSet(freeList \o usedList) = ToSet(freeList) \cup ToSet(usedList)
      BY <3>1, Joined
    <3>. QED BY <3>2, <3>3
  <2>2. DOMAIN system' = {} /\ freeList' = <<>> /\ usedList' = <<>> /\ DOMAIN owed' = {}
    BY <1>5, <2>1 DEF DynDestroy
  <2>3. DynLists'
    BY <1>1, <2>2 DEF DynLists, Distinct
  <2>4. Sized(system') /\ Sized(owed')
    BY <1>5, <2>2 DEF DynDestroy, Sized
  <2>5. Ordered(freeList', system')
    BY <1>1, <2>2 DEF Ordered
  <2>. QED BY <2>2, <2>3, <2>4, <2>5 DEF DynIInv, DynMemory, DynGone
<1>6. CASE UNCHANGED dynVars
  BY <1>6 DEF dynVars, DynIInv, DynLists, DynMemory, DynGone
<1>. QED BY <1>2, <1>3, <1>4, <1>5, <1>6 DEF DynNext

-----------------------------------------------------------------------------
(* The theorem about the dynamic allocator.                                *)

\* Every chunk of the system is in one of the two lists, once, whatever is asked
\* for, moved or refused; those in use have the room their owners asked for; the
\* free ones are in order; and nothing remains when the allocator is gone.
THEOREM DynListsAreExact == DynSpec => []DynListsExact
<1>1. ASSUME DynIInv PROVE DynListsExact
  <2>1. ToSet(freeList \o usedList) = DOMAIN system /\ IsInjective(freeList \o usedList)
    <3>1. /\ freeList \in Seq(Addresses) /\ usedList \in Seq(Addresses)
          /\ Distinct(freeList) /\ Distinct(usedList)
          /\ ToSet(freeList) \cap ToSet(usedList) = {}
          /\ ToSet(freeList) \cup ToSet(usedList) = DOMAIN system
      BY <1>1 DEF DynIInv, DynLists
    <3>2. ToSet(freeList \o usedList) = ToSet(freeList) \cup ToSet(usedList)
      BY <3>1, Joined
    <3>3. IsInjective(freeList \o usedList)
      BY <3>1, Joined
    <3>. QED BY <3>1, <3>2, <3>3
  <2>2. ASSUME NEW i \in 1 .. (Len(freeList) - 1)
        PROVE  system[freeList[i]] <= system[freeList[i + 1]]
    <3>1. Len(freeList) \in Nat
      BY <1>1, LenProperties DEF DynIInv, DynLists
    <3>2. i \in 1 .. Len(freeList) /\ i + 1 \in 1 .. Len(freeList) /\ i <= i + 1
      BY <3>1
    <3>. QED BY <1>1, <3>2 DEF DynIInv, DynMemory, Ordered
  <2>. QED BY <1>1, <2>1, <2>2 DEF DynIInv, DynLists, DynMemory, DynGone, DynListsExact
<1>. QED BY <1>1, DynInitially, DynStep, PTL DEF DynSpec

-----------------------------------------------------------------------------
(* The pool allocator: chunks and lists of chunks by their addresses.      *)

Pieces == [at : Nat, size : Nat]

In(a, c) == c.at <= a /\ a < Behind(c)
Within(c, top) == c \in Pieces /\ c.size > 0 /\ Hdr <= c.at /\ Behind(c) <= top
Holds(s, a) == \E i \in 1 .. Len(s) : In(a, s[i])

\* A list of free chunks: in order, and no two touch.
Listed(s, top) ==
  /\ s \in Seq(Pieces)
  /\ \A i \in 1 .. Len(s) : Within(s[i], top)
  /\ \A i, j \in 1 .. Len(s) : i < j => Behind(s[i]) < s[j].at

LEMMA AlignedUp ==
  ASSUME NEW size \in Nat
  PROVE  /\ Aligned(size) \in Nat /\ size + Hdr <= Aligned(size)
         /\ Aligned(size) % Hdr = 0 /\ Aligned(size) < size + 2 * Hdr
BY DEF Aligned, Hdr

\* What is malloc'ed in the place of a block comes to the same size.
LEMMA AlignedAgain ==
  ASSUME NEW size \in Nat
  PROVE  Aligned(size) - Hdr \in Nat /\ Aligned(Aligned(size) - Hdr) = Aligned(size)
BY DEF Aligned, Hdr

\* Sizes that are two headers apart are so when they are aligned.
LEMMA AlignedApart ==
  ASSUME NEW m \in Nat, NEW n \in Nat, m + 2 * Hdr <= n
  PROVE  Aligned(m) + 2 * Hdr <= Aligned(n)
BY DEF Aligned, Hdr

LEMMA ListedOnce ==
  ASSUME NEW top \in Nat, NEW s, Listed(s, top), NEW a \in Nat,
         NEW i \in 1 .. Len(s), NEW j \in 1 .. Len(s), In(a, s[i]), In(a, s[j])
  PROVE  i = j
<1>1. \A k \in 1 .. Len(s) : s[k].at \in Nat /\ s[k].size \in Nat
  BY DEF Listed, Within, Pieces
<1>2. Len(s) \in Nat
  BY LenProperties DEF Listed
<1>3. ASSUME NEW k \in 1 .. Len(s), NEW l \in 1 .. Len(s), k < l,
             In(a, s[k]), In(a, s[l])
      PROVE  FALSE
  <2>1. Behind(s[k]) < s[l].at /\ Behind(s[k]) \in Nat
    BY <1>1, <1>3 DEF Listed, Behind
  <2>2. a < Behind(s[k]) /\ s[l].at <= a
    BY <1>3 DEF In
  <2>. QED BY <1>1, <2>1, <2>2
<1>. QED BY <1>2, <1>3

\* A list without the chunk at i.
LEMMA WithoutPiece ==
  ASSUME NEW top \in Nat, NEW s, Listed(s, top), NEW i \in 1 .. Len(s)
  PROVE  /\ Listed(RemoveAt(s, i), top)
         /\ \A a \in Nat : Holds(RemoveAt(s, i), a) <=> Holds(s, a) /\ ~In(a, s[i])
<1>. DEFINE t == RemoveAt(s, i)
            up(m) == IF m < i THEN m ELSE m + 1
<1>1. s \in Seq(Pieces)
  BY DEF Listed
<1>2. PICK n \in Nat : n = Len(s)
  BY <1>1, LenProperties
<1>3. /\ t \in Seq(Pieces) /\ Len(t) = n - 1
      /\ \A k \in 1 .. (n - 1) : t[k] = IF k < i THEN s[k] ELSE s[k + 1]
  BY <1>1, <1>2, RemovedIs
<1>4. /\ \A k \in 1 .. (n - 1) : up(k) \in 1 .. n /\ up(k) # i
      /\ \A k, l \in 1 .. (n - 1) : k < l => up(k) < up(l)
      /\ \A l \in 1 .. n : l # i => \E k \in 1 .. (n - 1) : up(k) = l
  <2>1. ASSUME NEW l \in 1 .. n, l # i PROVE \E k \in 1 .. (n - 1) : up(k) = l
    <3>1. CASE l < i
      BY <1>2, <3>1
    <3>2. CASE ~(l < i)
      <4>1. l - 1 \in 1 .. (n - 1) /\ up(l - 1) = l
        BY <1>2, <2>1, <3>2
      <4>. QED BY <4>1
    <3>. QED BY <3>1, <3>2
  <2>. QED BY <1>2, <2>1
<1>5. \A k \in 1 .. (n - 1) : t[k] = s[up(k)]
  BY <1>3
<1>. HIDE DEF t, up
<1>6. Listed(t, top)
  <2>1. \A k \in 1 .. n : Within(s[k], top)
    BY <1>2 DEF Listed
  <2>2. \A k, l \in 1 .. n : k < l => Behind(s[k]) < s[l].at
    BY <1>2 DEF Listed
  <2>3. \A k \in 1 .. (n - 1) : Within(t[k], top)
    BY <1>4, <1>5, <2>1
  <2>4. \A k, l \in 1 .. (n - 1) : k < l => Behind(t[k]) < t[l].at
    BY <1>4, <1>5, <2>2
  <2>. QED BY <1>3, <2>3, <2>4 DEF Listed
<1>7. ASSUME NEW a \in Nat PROVE Holds(t, a) <=> Holds(s, a) /\ ~In(a, s[i])
  <2>1. ASSUME Holds(t, a) PROVE Holds(s, a) /\ ~In(a, s[i])
    <3>1. PICK k \in 1 .. (n - 1) : In(a, s[up(k)])
      BY <1>3, <1>5, <2>1 DEF Holds
    <3>2. up(k) \in 1 .. Len(s) /\ up(k) # i
      BY <1>2, <1>4
    <3>. QED BY <3>1, <3>2, ListedOnce DEF Holds
  <2>2. ASSUME Holds(s, a), ~In(a, s[i]) PROVE Holds(t, a)
    <3>1. PICK l \in 1 .. n : l # i /\ In(a, s[l])
      BY <1>2, <2>2 DEF Holds
    <3>. QED BY <1>3, <1>4, <1>5, <3>1 DEF Holds
  <2>. QED BY <2>1, <2>2
<1>. QED BY <1>6, <1>7 DEF t

\* A chunk that begins m later and is m shorter ends where it did.
LEMMA SameEnd ==
  ASSUME NEW at \in Nat, NEW size \in Nat, NEW m \in Nat
  PROVE  at + m + (size - m) = at + size
OBVIOUS

\* A list of which the chunk at i has lost its first m bytes.
LEMMA CutPiece ==
  ASSUME NEW top \in Nat, NEW s, Listed(s, top), NEW i \in 1 .. Len(s),
         NEW m \in Nat, m < s[i].size
  PROVE  LET t == [s EXCEPT ![i] = Chunk(s[i].at + m, s[i].size - m)]
         IN /\ Listed(t, top)
            /\ \A a \in Nat : Holds(t, a) <=> Holds(s, a) /\ ~In(a, Chunk(s[i].at, m))
<1>. DEFINE c == Chunk(s[i].at + m, s[i].size - m)
            t == [s EXCEPT ![i] = c]
<1>1. s \in Seq(Pieces) /\ Within(s[i], top)
  BY DEF Listed
<1>2. PICK n \in Nat : n = Len(s)
  BY <1>1, LenProperties
<1>3. s[i].at \in Nat /\ s[i].size \in Nat
  BY <1>1 DEF Within, Pieces
<1>4. /\ c \in Pieces /\ c.at = s[i].at + m /\ c.size = s[i].size - m
      /\ Behind(c) = Behind(s[i]) /\ c.size > 0
  <2>1. s[i].size - m \in Nat /\ s[i].size - m > 0 /\ s[i].at + m \in Nat
    BY <1>3
  <2>2. c \in Pieces /\ c.at = s[i].at + m /\ c.size = s[i].size - m
    <3>. DEFINE at == s[i].at + m
                size == s[i].size - m
    <3>. HIDE DEF at, size
    <3>1. at \in Nat /\ size \in Nat /\ c = Chunk(at, size)
      BY <2>1 DEF at, size
    <3>2. c \in Pieces /\ c.at = at /\ c.size = size
      BY <3>1 DEF Chunk, Pieces
    <3>. QED BY <3>2 DEF at, size
  <2>3. Behind(c) = s[i].at + m + (s[i].size - m)
    BY <2>2 DEF Behind
  <2>4. s[i].at + m + (s[i].size - m) = s[i].at + s[i].size
    BY <1>3, SameEnd
  <2>. QED BY <2>1, <2>2, <2>3, <2>4 DEF Behind
<1>. HIDE DEF c
<1>5. /\ t \in Seq(Pieces) /\ Len(t) = n
      /\ \A k \in 1 .. n : t[k] = IF k = i THEN c ELSE s[k]
  BY <1>1, <1>2, <1>4, ExceptSeq
<1>. HIDE DEF t
<1>6. Within(c, top)
  BY <1>1, <1>3, <1>4 DEF Within, Hdr
<1>7. \A k \in 1 .. n : s[k].at \in Nat /\ s[k].size \in Nat
  BY <1>2 DEF Listed, Within, Pieces
<1>8. \A k \in 1 .. n : Behind(t[k]) = Behind(s[k]) /\ s[k].at <= t[k].at
  BY <1>3, <1>4, <1>5, <1>7
<1>9. Listed(t, top)
  <2>1. \A k \in 1 .. n : Within(t[k], top)
    BY <1>2, <1>5, <1>6 DEF Listed
  <2>2. ASSUME NEW k \in 1 .. n PROVE t[k].at \in Nat /\ Behind(s[k]) \in Nat
    <3>1. t[k] \in Pieces
      BY <2>1 DEF Within
    <3>2. t[k].at \in Nat
      BY <3>1 DEF Pieces
    <3>3. Behind(s[k]) \in Nat
      BY <1>7 DEF Behind
    <3>. QED BY <3>2, <3>3
  <2>3. \A k, l \in 1 .. n : k < l => Behind(s[k]) < s[l].at
    BY <1>2 DEF Listed
  <2>4. ASSUME NEW k \in 1 .. n, NEW l \in 1 .. n, k < l
        PROVE  Behind(t[k]) < t[l].at
    <3>1. Behind(t[k]) = Behind(s[k]) /\ Behind(s[k]) < s[l].at /\ s[l].at <= t[l].at
      BY <1>8, <2>3, <2>4
    <3>2. Behind(s[k]) \in Nat /\ s[l].at \in Nat /\ t[l].at \in Nat
      BY <1>7, <2>2
    <3>. QED BY <3>1, <3>2
  <2>. QED BY <1>5, <2>1, <2>4 DEF Listed
<1>10. ASSUME NEW a \in Nat
       PROVE  Holds(t, a) <=> Holds(s, a) /\ ~In(a, Chunk(s[i].at, m))
  <2>1. In(a, c) <=> In(a, s[i]) /\ ~In(a, Chunk(s[i].at, m))
    BY <1>3, <1>4 DEF In, Behind, Chunk
  <2>2. ASSUME NEW k \in 1 .. n, k # i, In(a, s[k]) PROVE ~In(a, Chunk(s[i].at, m))
    <3>1. ~In(a, s[i])
      BY <1>2, <2>2, ListedOnce
    <3>. QED BY <1>3, <3>1 DEF In, Behind, Chunk
  <2>. QED BY <1>2, <1>5, <2>1, <2>2 DEF Holds
<1>. QED BY <1>9, <1>10 DEF t, c

\* What is cut off the list for an allocation: enough, and not much more.
LEMMA TakenIs ==
  ASSUME NEW top \in Nat, NEW s, Listed(s, top), NEW size \in Nat, size > 0,
         Taken(s, size).ok
  PROVE  LET r == Taken(s, size)
         IN /\ Listed(r.list, top) /\ Within(r.chunk, top)
            /\ size <= r.chunk.size /\ r.chunk.size < size + 2 * Hdr
            /\ \A a \in Nat : In(a, r.chunk) => Holds(s, a)
            /\ \A a \in Nat : Holds(r.list, a) <=> Holds(s, a) /\ ~In(a, r.chunk)
<1>. DEFINE fits == {i \in DOMAIN s : s[i].size >= size}
            j == CHOOSE i \in fits : \A k \in fits : i <= k
            r == Taken(s, size)
<1>1. s \in Seq(Pieces) /\ DOMAIN s = 1 .. Len(s) /\ Len(s) \in Nat
  BY LenProperties DEF Listed
<1>2. fits # {}
  BY DEF Taken
<1>3. j \in fits
  <2>1. fits \subseteq Nat
    BY <1>1
  <2>2. \E i \in fits : \A k \in fits : i <= k
    BY <1>2, <2>1, LeastNumber
  <2>. QED BY <2>2
<1>4. r = IF s[j].size >= size + 2 * Hdr
          THEN [ok |-> TRUE, chunk |-> Chunk(s[j].at, size),
                list |-> [s EXCEPT ![j] = Chunk(s[j].at + size, s[j].size - size)]]
          ELSE [ok |-> TRUE, chunk |-> s[j], list |-> RemoveAt(s, j)]
  BY <1>2 DEF Taken
<1>5. PICK i \in 1 .. Len(s) : i = j /\ s[i].size >= size
  BY <1>1, <1>3
<1>. HIDE DEF fits, j, r
<1>6. /\ Within(s[i], top) /\ s[i] \in Pieces /\ s[i].at \in Nat /\ s[i].size \in Nat
      /\ Hdr <= s[i].at /\ Behind(s[i]) <= top
  BY DEF Listed, Within, Pieces
<1>7. \A a \in Nat : In(a, s[i]) => Holds(s, a)
  BY DEF Holds
<1>8. CASE s[i].size >= size + 2 * Hdr
  <2>1. size < s[i].size
    BY <1>6, <1>8 DEF Hdr
  <2>. DEFINE c == Chunk(s[i].at, size)
              t == [s EXCEPT ![i] = Chunk(s[i].at + size, s[i].size - size)]
  <2>2. /\ Listed(t, top)
        /\ \A a \in Nat : Holds(t, a) <=> Holds(s, a) /\ ~In(a, c)
    BY <2>1, CutPiece
  <2>3. r.chunk = c /\ r.list = t
    BY <1>4, <1>5, <1>8
  <2>4. /\ Within(c, top) /\ c.size = size
        /\ \A a \in Nat : In(a, c) => In(a, s[i])
    BY <1>6, <2>1 DEF Chunk, Within, Pieces, Behind, In
  <2>5. c.size < size + 2 * Hdr /\ size <= c.size
    BY <2>4 DEF Hdr
  <2>. HIDE DEF c, t
  <2>. QED BY <1>7, <2>2, <2>3, <2>4, <2>5 DEF r
<1>9. CASE ~(s[i].size >= size + 2 * Hdr)
  <2>1. r.chunk = s[i] /\ r.list = RemoveAt(s, i)
    BY <1>4, <1>5, <1>9
  <2>2. s[i].size < size + 2 * Hdr /\ size <= s[i].size
    BY <1>5, <1>6, <1>9 DEF Hdr
  <2>. QED BY <1>6, <1>7, <2>1, <2>2, WithoutPiece DEF r
<1>. QED BY <1>8, <1>9

\* A chunk that is not in the list lies between two that are.
LEMMA PlaceByAddress ==
  ASSUME NEW top \in Nat, NEW s, Listed(s, top), NEW c, Within(c, top),
         \A a \in Nat : ~(In(a, c) /\ Holds(s, a))
  PROVE  /\ Before(s, c) \in 0 .. Len(s)
         /\ \A k \in 1 .. Len(s) : /\ k <= Before(s, c) => Behind(s[k]) <= c.at
                                   /\ k > Before(s, c) => Behind(c) <= s[k].at
<1>1. PICK n \in Nat : n = Len(s) /\ DOMAIN s = 1 .. n
  BY LenProperties DEF Listed
<1>2. \A k \in 1 .. n : s[k].at \in Nat /\ s[k].size \in Nat /\ s[k].size > 0
  BY <1>1 DEF Listed, Within, Pieces
<1>3. c.at \in Nat /\ c.size \in Nat /\ c.size > 0
  BY DEF Within, Pieces
<1>4. ASSUME NEW k \in 1 .. n, s[k].at < c.at PROVE Behind(s[k]) <= c.at
  <2>. SUFFICES ASSUME ~(Behind(s[k]) <= c.at) PROVE FALSE
    OBVIOUS
  <2>1. Behind(s[k]) \in Nat /\ Behind(c) \in Nat /\ c.at < Behind(c)
    BY <1>2, <1>3 DEF Behind
  <2>2. In(c.at, c) /\ In(c.at, s[k])
    BY <1>2, <1>3, <1>4, <2>1 DEF In
  <2>. QED BY <1>1, <1>3, <2>2 DEF Holds
<1>5. ASSUME NEW k \in 1 .. n, ~(s[k].at < c.at) PROVE Behind(c) <= s[k].at
  <2>. SUFFICES ASSUME ~(Behind(c) <= s[k].at) PROVE FALSE
    OBVIOUS
  <2>1. Behind(s[k]) \in Nat /\ Behind(c) \in Nat /\ s[k].at < Behind(s[k])
    BY <1>2, <1>3 DEF Behind
  <2>2. In(s[k].at, c) /\ In(s[k].at, s[k])
    BY <1>2, <1>3, <1>5, <2>1 DEF In
  <2>. QED BY <1>1, <1>2, <2>2 DEF Holds
<1>. DEFINE higher == {k \in 1 .. (n + 1) : k = n + 1 \/ ~(s[k].at < c.at)}
<1>6. higher \subseteq Nat /\ higher # {}
  <2>1. n + 1 \in higher
    BY <1>1
  <2>. QED BY <1>1, <2>1
<1>7. PICK m \in higher : \A k \in higher : m <= k
  BY <1>6, LeastNumber
<1>8. m \in 1 .. (n + 1)
  BY <1>7
<1>9. ASSUME NEW k \in 1 .. n, k < m PROVE s[k].at < c.at
  <2>1. k \notin higher
    BY <1>7, <1>8, <1>9
  <2>. QED BY <1>9, <2>1
<1>10. ASSUME NEW k \in 1 .. n, k >= m PROVE ~(s[k].at < c.at)
  <2>1. m \in 1 .. n /\ ~(s[m].at < c.at)
    BY <1>7, <1>8, <1>10
  <2>2. k # m => Behind(s[m]) < s[k].at
    BY <1>1, <1>8, <1>10, <2>1 DEF Listed
  <2>. QED BY <1>2, <1>3, <2>1, <2>2 DEF Behind
<1>. DEFINE lower == {k \in DOMAIN s : s[k].at < c.at}
<1>11. lower = 1 .. (m - 1)
  <2>1. ASSUME NEW k \in 1 .. (m - 1) PROVE k \in lower
    BY <1>1, <1>8, <1>9
  <2>2. ASSUME NEW k \in lower PROVE k \in 1 .. (m - 1)
    <3>1. k \in 1 .. n /\ ~(k >= m)
      BY <1>1, <1>10
    <3>. QED BY <1>8, <3>1
  <2>. QED BY <2>1, <2>2
<1>12. Before(s, c) = m - 1
  <2>. HIDE DEF lower
  <2>1. Cardinality(1 .. (m - 1)) = IF 1 > m - 1 THEN 0 ELSE m - 1 - 1 + 1
    BY <1>8, FS_Interval
  <2>2. Cardinality(1 .. (m - 1)) = m - 1
    BY <1>8, <2>1
  <2>3. Before(s, c) = Cardinality(lower)
    BY DEF Before, lower
  <2>. QED BY <1>11, <2>2, <2>3
<1>. HIDE DEF higher, lower
<1>13. \A k \in 1 .. n : /\ k <= m - 1 => k < m
                         /\ k > m - 1 => k >= m
  BY <1>8
<1>. QED BY <1>1, <1>4, <1>5, <1>8, <1>9, <1>10, <1>12, <1>13


\* The piece lies between those up to lo and those behind hi, touching neither.
Between(p, s, lo, hi) ==
  /\ \A k \in 1 .. lo : Behind(s[k]) < p.at
  /\ \A k \in (hi + 1) .. Len(s) : Behind(p) < s[k].at

\* A piece in the place of those behind lo, up to hi.
LEMMA SplicedPieces ==
  ASSUME NEW top \in Nat, NEW s, Listed(s, top), NEW p, Within(p, top),
         NEW lo \in Nat, NEW hi \in Nat, lo <= hi, hi <= Len(s), Between(p, s, lo, hi)
  PROVE  /\ Listed(Splice(s, lo, hi, p), top)
         /\ \A a \in Nat :
              Holds(Splice(s, lo, hi, p), a) <=>
                \/ In(a, p)
                \/ \E k \in 1 .. lo : In(a, s[k])
                \/ \E k \in (hi + 1) .. Len(s) : In(a, s[k])
<1>. DEFINE t == Splice(s, lo, hi, p)
            from(k) == k - (lo + 1) + hi
<1>1. PICK n \in Nat : n = Len(s)
  BY LenProperties DEF Listed
<1>2. PICK m \in Nat : m = lo + 1 + (n - hi)
  <2>1. hi <= n
    BY <1>1
  <2>. QED BY <2>1
<1>0. s \in Seq(Pieces) /\ p \in Pieces /\ lo \in Nat /\ hi \in Nat /\ lo <= hi /\ hi <= Len(s)
  BY DEF Listed, Within
<1>3. /\ t \in Seq(Pieces) /\ Len(t) = lo + 1 + (Len(s) - hi)
      /\ \A k \in 1 .. (lo + 1 + (Len(s) - hi)) :
           t[k] = IF k <= lo THEN s[k] ELSE IF k = lo + 1 THEN p ELSE s[from(k)]
  <2>1. Len(s) \in Nat
    BY <1>1
  <2>2. Splice(s, lo, hi, p) \in Seq(Pieces)
    BY <1>0, <2>1, Spliced
  <2>3. Len(Splice(s, lo, hi, p)) = lo + 1 + (Len(s) - hi)
    BY <1>0, <2>1, Spliced
  <2>4. ASSUME NEW k \in 1 .. (lo + 1 + (Len(s) - hi))
        PROVE  Splice(s, lo, hi, p)[k] = IF k <= lo THEN s[k]
                                         ELSE IF k = lo + 1 THEN p
                                         ELSE s[k - (lo + 1) + hi]
    BY <1>0, <2>1, Spliced
  <2>. QED BY <2>2, <2>3, <2>4
<1>. HIDE DEF t
<1>4. /\ t \in Seq(Pieces) /\ Len(t) = m
      /\ \A k \in 1 .. m :
           t[k] = IF k <= lo THEN s[k] ELSE IF k = lo + 1 THEN p ELSE s[from(k)]
  BY <1>1, <1>2, <1>3
<1>5. ASSUME NEW k \in 1 .. m, k <= lo PROVE t[k] = s[k] /\ k \in 1 .. n /\ k \in 1 .. lo
  BY <1>1, <1>2, <1>4, <1>5
<1>6. lo + 1 \in 1 .. m /\ t[lo + 1] = p
  <2>1. lo + 1 \in 1 .. m /\ ~(lo + 1 <= lo)
    BY <1>1, <1>2
  <2>. QED BY <1>4, <2>1
<1>7. ASSUME NEW k \in 1 .. m, k > lo + 1
      PROVE  t[k] = s[from(k)] /\ from(k) \in 1 .. n /\ from(k) \in (hi + 1) .. n
  <2>1. ~(k <= lo) /\ k # lo + 1 /\ from(k) \in 1 .. n /\ from(k) \in (hi + 1) .. n
    BY <1>1, <1>2, <1>7
  <2>. QED BY <1>4, <2>1
<1>8. ASSUME NEW l \in (hi + 1) .. n PROVE \E k \in 1 .. m : k > lo + 1 /\ from(k) = l
  <2>1. l - hi + (lo + 1) \in 1 .. m /\ l - hi + (lo + 1) > lo + 1
        /\ from(l - hi + (lo + 1)) = l
    BY <1>1, <1>2
  <2>. QED BY <2>1
<1>9. \A k, l \in 1 .. m : k < l => from(k) < from(l)
  BY <1>1, <1>2
<1>10. ASSUME NEW i \in 1 .. m PROVE Within(t[i], top)
  <2>1. i <= lo \/ i = lo + 1 \/ i > lo + 1
    OBVIOUS
  <2>. HIDE DEF from
  <2>2. CASE i <= lo
    BY <1>1, <1>5, <2>2 DEF Listed
  <2>3. CASE i = lo + 1
    BY <1>6, <2>3
  <2>4. CASE i > lo + 1
    BY <1>1, <1>7, <2>4 DEF Listed
  <2>. QED BY <2>1, <2>2, <2>3, <2>4
<1>11. ASSUME NEW i \in 1 .. m, NEW j \in 1 .. m, i < j PROVE Behind(t[i]) < t[j].at
  <2>0. \A k, l \in 1 .. n : k < l => Behind(s[k]) < s[l].at
    BY <1>1 DEF Listed
  <2>1. \/ j <= lo /\ i <= lo
        \/ j = lo + 1 /\ i <= lo
        \/ j > lo + 1 /\ i <= lo
        \/ j > lo + 1 /\ i = lo + 1
        \/ j > lo + 1 /\ i > lo + 1
    BY <1>11
  <2>2. CASE j <= lo /\ i <= lo
    BY <1>5, <1>11, <2>0, <2>2
  <2>3. CASE j = lo + 1 /\ i <= lo
    BY <1>5, <1>6, <2>3 DEF Between
  <2>4. CASE j > lo + 1 /\ i <= lo
    <3>1. i < from(j)
      BY <1>1, <1>2, <2>4
    <3>. HIDE DEF from
    <3>. QED BY <1>5, <1>7, <2>0, <2>4, <3>1
  <2>5. CASE j > lo + 1 /\ i = lo + 1
    <3>. HIDE DEF from
    <3>. QED BY <1>1, <1>6, <1>7, <2>5 DEF Between
  <2>6. CASE j > lo + 1 /\ i > lo + 1
    <3>1. from(i) < from(j)
      BY <1>9, <1>11
    <3>. HIDE DEF from
    <3>. QED BY <1>7, <2>0, <2>6, <3>1
  <2>. QED BY <2>1, <2>2, <2>3, <2>4, <2>5, <2>6
<1>12. Listed(t, top)
  BY <1>4, <1>10, <1>11 DEF Listed
<1>13. ASSUME NEW a \in Nat
       PROVE  Holds(t, a) <=> \/ In(a, p)
                              \/ \E k \in 1 .. lo : In(a, s[k])
                              \/ \E k \in (hi + 1) .. Len(s) : In(a, s[k])
  <2>. HIDE DEF from
  <2>1. ASSUME NEW k \in 1 .. m, In(a, t[k])
        PROVE  \/ In(a, p)
               \/ \E l \in 1 .. lo : In(a, s[l])
               \/ \E l \in (hi + 1) .. Len(s) : In(a, s[l])
    <3>1. k <= lo \/ k = lo + 1 \/ k > lo + 1
      OBVIOUS
    <3>2. CASE k <= lo
      BY <1>5, <2>1, <3>2
    <3>3. CASE k = lo + 1
      BY <1>6, <2>1, <3>3
    <3>4. CASE k > lo + 1
      BY <1>1, <1>7, <2>1, <3>4
    <3>. QED BY <3>1, <3>2, <3>3, <3>4
  <2>2. ASSUME NEW l \in 1 .. lo, In(a, s[l]) PROVE Holds(t, a)
    <3>1. l \in 1 .. m /\ l <= lo
      BY <1>1, <1>2
    <3>. QED BY <1>4, <1>5, <2>2, <3>1 DEF Holds
  <2>3. ASSUME NEW l \in (hi + 1) .. Len(s), In(a, s[l]) PROVE Holds(t, a)
    <3>1. PICK k \in 1 .. m : k > lo + 1 /\ from(k) = l
      BY <1>1, <1>8
    <3>. QED BY <1>4, <1>7, <2>3, <3>1 DEF Holds
  <2>4. In(a, p) => Holds(t, a)
    BY <1>4, <1>6 DEF Holds
  <2>. QED BY <1>4, <2>1, <2>2, <2>3, <2>4 DEF Holds
<1>. QED BY <1>12, <1>13 DEF t

\* What pool_free adds to the list is the chunk, whichever neighbours it joins.
LEMMA GivenIs ==
  ASSUME NEW top \in Nat, NEW s, Listed(s, top), NEW c, Within(c, top),
         \A a \in Nat : ~(In(a, c) /\ Holds(s, a))
  PROVE  /\ Listed(Given(s, c), top)
         /\ \A a \in Nat : Holds(Given(s, c), a) <=> Holds(s, a) \/ In(a, c)
<1>. DEFINE before == Before(s, c)
            above == IF before < Len(s) /\ Behind(c) = s[before + 1].at THEN 1 ELSE 0
            below == IF before > 0 /\ Behind(s[before]) = c.at THEN 1 ELSE 0
            from  == IF below = 1 THEN s[before].at ELSE c.at
            upto == IF above = 1 THEN Behind(s[before + 1]) ELSE Behind(c)
<1>1. PICK n \in Nat : n = Len(s)
  BY LenProperties DEF Listed
<1>2. PICK b \in 0 .. n : b = before
  BY <1>1, PlaceByAddress
<1>3. /\ \A k \in 1 .. n : k <= b => Behind(s[k]) <= c.at
      /\ \A k \in 1 .. n : k > b => Behind(c) <= s[k].at
  BY <1>1, <1>2, PlaceByAddress
<1>4. \A k \in 1 .. n : /\ s[k].at \in Nat /\ s[k].size \in Nat /\ s[k].size > 0
                        /\ Hdr <= s[k].at /\ Behind(s[k]) <= top
  BY <1>1 DEF Listed, Within, Pieces
<1>5. c.at \in Nat /\ c.size \in Nat /\ c.size > 0 /\ Hdr <= c.at /\ Behind(c) <= top
  BY DEF Within, Pieces
<1>6. \A k, l \in 1 .. n : k < l => Behind(s[k]) < s[l].at
  BY <1>1 DEF Listed
<1>7. PICK lo \in Nat : lo = b - below
  <2>1. b - 1 \in Nat \/ b = 0
    BY <1>1
  <2>2. below = 0 \/ (below = 1 /\ b # 0)
    BY <1>1, <1>2
  <2>. HIDE DEF below
  <2>. QED BY <1>1, <2>1, <2>2
<1>8. PICK hi \in Nat : hi = b + above
  BY <1>1
<1>9. /\ lo <= b /\ from \in Nat /\ Hdr <= from /\ from <= c.at
      /\ \A k \in 1 .. lo : Behind(s[k]) < from
      /\ \A a \in Nat : from <= a /\ a < c.at <=> \E k \in (lo + 1) .. b : In(a, s[k])
  <2>1. CASE b > 0 /\ Behind(s[b]) = c.at
    <3>1. below = 1 /\ from = s[b].at /\ lo = b - 1 /\ b \in 1 .. n
      BY <1>1, <1>2, <1>7, <2>1
    <3>. HIDE DEF below, from
    <3>2. \A a \in Nat : from <= a /\ a < c.at <=> In(a, s[b])
      BY <2>1, <3>1 DEF In
    <3>3. (lo + 1) .. b = {b}
      BY <3>1
    <3>4. from \in Nat /\ Hdr <= from /\ from <= c.at
      BY <1>4, <1>5, <2>1, <3>1 DEF Behind
    <3>5. \A k \in 1 .. lo : k \in 1 .. n /\ k < b
      BY <1>1, <3>1
    <3>6. \A k \in 1 .. lo : Behind(s[k]) < from
      BY <1>6, <3>1, <3>5
    <3>. QED BY <3>1, <3>2, <3>3, <3>4, <3>6
  <2>2. CASE ~(b > 0 /\ Behind(s[b]) = c.at)
    <3>1. below = 0 /\ from = c.at /\ lo = b
      BY <1>1, <1>2, <1>7, <2>2
    <3>. HIDE DEF below, from
    <3>2. (lo + 1) .. b = {}
      BY <3>1
    <3>3. \A a \in Nat : ~(from <= a /\ a < c.at)
      BY <1>5, <3>1
    <3>4. ASSUME NEW k \in 1 .. lo PROVE Behind(s[k]) < from
      <4>1. b \in 1 .. n /\ k \in 1 .. n /\ k <= b /\ b > 0
        BY <1>1, <3>1
      <4>2. Behind(s[b]) \in Nat /\ Behind(s[k]) \in Nat
        BY <1>4, <4>1 DEF Behind
      <4>3. Behind(s[b]) < c.at
        BY <1>3, <1>5, <2>2, <4>1, <4>2
      <4>4. CASE k = b
        BY <3>1, <4>3, <4>4
      <4>5. CASE k # b
        BY <1>3, <1>4, <1>5, <1>6, <3>1, <4>1, <4>2, <4>3, <4>5 DEF Behind
      <4>. QED BY <4>4, <4>5
    <3>. QED BY <1>5, <3>1, <3>2, <3>3, <3>4
  <2>. QED BY <2>1, <2>2
<1>10. /\ b <= hi /\ hi <= n /\ upto \in Nat /\ Behind(c) <= upto /\ upto <= top
       /\ \A k \in (hi + 1) .. n : upto < s[k].at
       /\ \A a \in Nat : Behind(c) <= a /\ a < upto <=> \E k \in (b + 1) .. hi : In(a, s[k])
  <2>0. Behind(c) \in Nat
    BY <1>5 DEF Behind
  <2>1. CASE b < n /\ Behind(c) = s[b + 1].at
    <3>1. above = 1 /\ upto = Behind(s[b + 1]) /\ hi = b + 1 /\ b + 1 \in 1 .. n
      BY <1>1, <1>2, <1>8, <2>1
    <3>. HIDE DEF above, upto
    <3>2. \A a \in Nat : Behind(c) <= a /\ a < upto <=> In(a, s[b + 1])
      BY <2>1, <3>1 DEF In
    <3>3. (b + 1) .. hi = {b + 1}
      BY <3>1
    <3>4. upto \in Nat /\ Behind(c) <= upto /\ upto <= top
      BY <1>4, <2>0, <2>1, <3>1 DEF Behind
    <3>5. \A k \in (hi + 1) .. n : k \in 1 .. n /\ b + 1 < k
      BY <1>1, <3>1
    <3>6. \A k \in (hi + 1) .. n : upto < s[k].at
      BY <1>6, <3>1, <3>5
    <3>. QED BY <3>1, <3>2, <3>3, <3>4, <3>6
  <2>2. CASE ~(b < n /\ Behind(c) = s[b + 1].at)
    <3>1. above = 0 /\ upto = Behind(c) /\ hi = b
      BY <1>1, <1>2, <1>8, <2>2
    <3>. HIDE DEF above, upto
    <3>2. (b + 1) .. hi = {}
      BY <3>1
    <3>3. \A a \in Nat : ~(Behind(c) <= a /\ a < upto)
      BY <2>0, <3>1
    <3>4. ASSUME NEW k \in (hi + 1) .. n PROVE upto < s[k].at
      <4>1. b + 1 \in 1 .. n /\ k \in 1 .. n /\ b + 1 <= k /\ b < n /\ b + 1 > b
        BY <1>1, <3>1
      <4>2. Behind(c) < s[b + 1].at
        BY <1>3, <1>4, <2>0, <2>2, <4>1
      <4>3. CASE k = b + 1
        BY <3>1, <4>2, <4>3
      <4>4. CASE k # b + 1
        <5>1. Behind(s[b + 1]) < s[k].at
          BY <1>6, <4>1, <4>4
        <5>. QED BY <1>4, <2>0, <3>1, <4>1, <4>2, <5>1 DEF Behind
      <4>. QED BY <4>3, <4>4
    <3>. QED BY <1>1, <1>5, <2>0, <3>1, <3>2, <3>3, <3>4
  <2>. QED BY <2>1, <2>2
<1>. DEFINE p == Chunk(from, upto - from)
<1>11. Given(s, c) = Splice(s, lo, hi, p)
  <2>1. Given(s, c) = SubSeq(s, 1, before - below) \o <<p>>
                      \o SubSeq(s, before + 1 + above, Len(s))
    BY DEF Given
  <2>2. before - below = lo /\ before + 1 + above = hi + 1
    <3>1. above \in Nat
      OBVIOUS
    <3>. HIDE DEF before, above, below
    <3>. QED BY <1>1, <1>2, <1>7, <1>8, <3>1
  <2>. HIDE DEF before, above, below, p
  <2>. QED BY <2>1, <2>2 DEF Splice
<1>. HIDE DEF before, above, below, from, upto
<1>12. Behind(p) = upto /\ p.at = from /\ Within(p, top)
  BY <1>5, <1>9, <1>10 DEF Chunk, Behind, Within, Pieces
<1>13. ASSUME NEW a \in Nat
       PROVE  In(a, p) <=> In(a, c) \/ \E k \in (lo + 1) .. hi : In(a, s[k])
  <2>1. In(a, p) <=> (from <= a /\ a < c.at) \/ In(a, c) \/ (Behind(c) <= a /\ a < upto)
    BY <1>5, <1>9, <1>10, <1>12 DEF In, Behind
  <2>2. (lo + 1) .. hi = ((lo + 1) .. b) \cup ((b + 1) .. hi)
    BY <1>1, <1>9, <1>10
  <2>. QED BY <1>9, <1>10, <2>1, <2>2
<1>. HIDE DEF p
<1>14. /\ Listed(Splice(s, lo, hi, p), top)
       /\ \A a \in Nat :
            Holds(Splice(s, lo, hi, p), a) <=>
              \/ In(a, p)
              \/ \E k \in 1 .. lo : In(a, s[k])
              \/ \E k \in (hi + 1) .. Len(s) : In(a, s[k])
  <2>1. lo <= hi /\ hi <= Len(s)
    BY <1>1, <1>9, <1>10
  <2>2. Between(p, s, lo, hi)
    BY <1>1, <1>9, <1>10, <1>12 DEF Between
  <2>. QED BY <1>12, <2>1, <2>2, SplicedPieces
<1>15. 1 .. Len(s) = (1 .. lo) \cup ((lo + 1) .. hi) \cup ((hi + 1) .. Len(s))
  BY <1>1, <1>9, <1>10
<1>16. ASSUME NEW a \in Nat PROVE Holds(Given(s, c), a) <=> Holds(s, a) \/ In(a, c)
  BY <1>11, <1>13, <1>14, <1>15 DEF Holds
<1>. QED BY <1>11, <1>14, <1>16

-----------------------------------------------------------------------------
(* The inductive invariant of the pool.  The free chunks and the blocks    *)
(* share the buffer out; a block has what was asked for, aligned, and at   *)
(* most two headers more, so that a growth never moves into less room.     *)

\* A block has the room that was asked for.
Fit(b, top) ==
  /\ b \in [at : Nat, size : Nat, asked : Nat]
  /\ Within(Chunk(b.at, b.size), top)
  /\ Aligned(b.asked) <= b.size /\ b.size <= Aligned(b.asked) + 2 * Hdr

\* What belongs to a block belongs to it alone, and to no free chunk.
Shared(list, own, top) ==
  /\ Listed(list, top)
  /\ \A b \in own : Fit(b, top)
  /\ \A b, c \in own : \A a \in Nat : In(a, b) /\ In(a, c) => b = c
  /\ \A a \in Hdr .. (top - 1) : Holds(list, a) <=> ~\E b \in own : In(a, b)

PoolIInv ==
  /\ total \in Nat
  /\ Shared(free, blocks, total)
  /\ ~torn

\* Of the list, c was taken and left is left; c was given to it, and gave more.
TakenFrom(list, c, left) ==
  /\ \A a \in Nat : In(a, c) => Holds(list, a)
  /\ \A a \in Nat : Holds(left, a) <=> Holds(list, a) /\ ~In(a, c)
GivenTo(list, c, more) == \A a \in Nat : Holds(more, a) <=> Holds(list, a) \/ In(a, c)

LEMMA FitIn ==
  ASSUME NEW top \in Nat, NEW b, Fit(b, top)
  PROVE  /\ b.at \in Nat /\ b.size \in Nat /\ b.asked \in Nat
         /\ b.at + b.size <= top /\ Hdr <= b.at /\ b.size > 0
         /\ \A a : In(a, b) <=> In(a, Chunk(b.at, b.size))
         /\ \A a \in Nat : In(a, b) => a \in Hdr .. (top - 1)
         /\ In(b.at, b)
BY DEF Fit, Within, Pieces, Chunk, In, Behind, Hdr

\* A chunk of the list comes into use.
LEMMA Took ==
  ASSUME NEW top \in Nat, NEW list, NEW own, Shared(list, own, top),
         NEW b, Fit(b, top), NEW left, Listed(left, top),
         TakenFrom(list, Chunk(b.at, b.size), left)
  PROVE  Shared(left, own \cup {b}, top)
<1>1. \A a \in Nat : In(a, b) => a \in Hdr .. (top - 1) /\ Holds(list, a)
  BY FitIn DEF TakenFrom
<1>2. \A a \in Nat : Holds(left, a) <=> Holds(list, a) /\ ~In(a, b)
  BY FitIn DEF TakenFrom
<1>3. \A c \in own : \A a \in Nat : ~(In(a, b) /\ In(a, c))
  BY <1>1 DEF Shared
<1>4. \A c, d \in own \cup {b} : \A a \in Nat : In(a, c) /\ In(a, d) => c = d
  BY <1>3 DEF Shared
<1>5. \A a \in Hdr .. (top - 1) : Holds(left, a) <=> ~\E c \in own \cup {b} : In(a, c)
  <2>1. \A a \in Hdr .. (top - 1) : a \in Nat
    BY DEF Hdr
  <2>. QED BY <1>2, <2>1 DEF Shared
<1>. QED BY <1>4, <1>5 DEF Shared

\* A block is given back.
LEMMA Gave ==
  ASSUME NEW top \in Nat, NEW list, NEW own, Shared(list, own, top),
         NEW b \in own, NEW more, Listed(more, top),
         GivenTo(list, Chunk(b.at, b.size), more)
  PROVE  Shared(more, own \ {b}, top)
<1>1. Fit(b, top)
  BY DEF Shared
<1>2. \A a \in Nat : Holds(more, a) <=> Holds(list, a) \/ In(a, b)
  BY <1>1, FitIn DEF GivenTo
<1>3. \A c \in own \ {b} : \A a \in Nat : ~(In(a, b) /\ In(a, c))
  BY DEF Shared
<1>4. \A a \in Hdr .. (top - 1) : Holds(more, a) <=> ~\E c \in own \ {b} : In(a, c)
  <2>1. \A a \in Hdr .. (top - 1) : a \in Nat
    BY DEF Hdr
  <2>. QED BY <1>2, <1>3, <2>1 DEF Shared
<1>. QED BY <1>4 DEF Shared

\* A block grows into what was free behind it.
LEMMA Grew ==
  ASSUME NEW top \in Nat, NEW list, NEW own, Shared(list, own, top),
         NEW b \in own, NEW c, Fit(c, top), NEW m \in Nat,
         c.at = b.at, c.size = b.size + m, NEW left, Listed(left, top),
         TakenFrom(list, Chunk(b.at + b.size, m), left)
  PROVE  Shared(left, (own \ {b}) \cup {c}, top)
<1>. DEFINE cut == Chunk(b.at + b.size, m)
            now == (own \ {b}) \cup {c}
<1>1. Fit(b, top)
  BY DEF Shared
<1>2. b.at \in Nat /\ b.size \in Nat
  BY <1>1, FitIn
<1>3. \A a \in Nat : In(a, c) <=> In(a, b) \/ In(a, cut)
  BY <1>2 DEF In, Behind, Chunk
<1>. HIDE DEF cut
<1>4. /\ \A a \in Nat : In(a, c) => a \in Hdr .. (top - 1)
      /\ \A a \in Nat : In(a, b) => a \in Hdr .. (top - 1)
  BY <1>1, FitIn
<1>5. /\ \A a \in Nat : In(a, cut) => Holds(list, a)
      /\ \A a \in Nat : Holds(left, a) <=> Holds(list, a) /\ ~In(a, cut)
  BY DEF TakenFrom, cut
<1>6. \A d \in own \ {b} : \A a \in Nat : ~(In(a, c) /\ In(a, d))
  <2>. SUFFICES ASSUME NEW d \in own \ {b}, NEW a \in Nat, In(a, c), In(a, d)
                PROVE  FALSE
    OBVIOUS
  <2>1. ~In(a, b)
    BY DEF Shared
  <2>2. Holds(list, a) /\ a \in Hdr .. (top - 1)
    BY <1>3, <1>4, <1>5, <2>1
  <2>. QED BY <2>2 DEF Shared
<1>7. \A d, e \in now : \A a \in Nat : In(a, d) /\ In(a, e) => d = e
  BY <1>6 DEF Shared
<1>8. ASSUME NEW a \in Hdr .. (top - 1)
      PROVE  Holds(left, a) <=> ~\E d \in now : In(a, d)
  <2>1. a \in Nat
    BY DEF Hdr
  <2>2. Holds(list, a) <=> ~\E d \in own : In(a, d)
    BY DEF Shared
  <2>3. (\E d \in own : In(a, d)) <=> In(a, b) \/ \E d \in own \ {b} : In(a, d)
    OBVIOUS
  <2>4. (\E d \in now : In(a, d)) <=> In(a, c) \/ \E d \in own \ {b} : In(a, d)
    OBVIOUS
  <2>5. /\ In(a, c) <=> In(a, b) \/ In(a, cut)
        /\ Holds(left, a) <=> Holds(list, a) /\ ~In(a, cut)
        /\ In(a, cut) => Holds(list, a)
    BY <1>3, <1>5, <2>1
  <2>. HIDE DEF now
  <2>. QED BY <2>2, <2>3, <2>4, <2>5
<1>9. \A d \in now : Fit(d, top)
  BY DEF Shared
<1>. QED BY <1>7, <1>8, <1>9 DEF Shared

-----------------------------------------------------------------------------
LEMMA PoolInitially == PoolInit => PoolIInv
<1>. SUFFICES ASSUME PoolInit PROVE PoolIInv
  OBVIOUS
<1>1. Listed(<<>>, 0)
  BY DEF Listed
<1>3. Hdr .. (0 - 1) = {}
  BY DEF Hdr
<1>4. Shared(<<>>, {}, 0)
  BY <1>1, <1>3, Zenon DEF Shared
<1>. QED BY <1>4 DEF PoolInit, PoolIInv

\* What was taken for a size can be its block.
LEMMA TakenFits ==
  ASSUME NEW top \in Nat, NEW list, Listed(list, top), NEW size \in Nat, NEW need \in Nat,
         Aligned(need) = Aligned(size), Taken(list, Aligned(need)).ok
  PROVE  LET got == Taken(list, Aligned(need))
             b == Block(got.chunk, size)
         IN /\ Listed(got.list, top) /\ Fit(b, top)
            /\ TakenFrom(list, Chunk(b.at, b.size), got.list)
<1>. DEFINE got == Taken(list, Aligned(need))
            b == Block(got.chunk, size)
<1>1. Aligned(need) \in Nat /\ Aligned(need) > 0 /\ Aligned(size) \in Nat
  BY AlignedUp DEF Hdr
<1>2. /\ Listed(got.list, top) /\ Within(got.chunk, top)
      /\ Aligned(need) <= got.chunk.size /\ got.chunk.size < Aligned(need) + 2 * Hdr
      /\ \A a \in Nat : In(a, got.chunk) => Holds(list, a)
      /\ \A a \in Nat : Holds(got.list, a) <=> Holds(list, a) /\ ~In(a, got.chunk)
  BY <1>1, TakenIs
<1>. HIDE DEF got
<1>3. Chunk(b.at, b.size) = got.chunk
  <2>1. got.chunk \in [at : Nat, size : Nat]
    BY <1>2 DEF Within, Pieces
  <2>2. got.chunk = [at |-> got.chunk.at, size |-> got.chunk.size]
    BY <2>1
  <2>. QED BY <2>2 DEF Block, Chunk
<1>4. got.chunk.at \in Nat /\ got.chunk.size \in Nat
  BY <1>2 DEF Within, Pieces
<1>5. b \in [at : Nat, size : Nat, asked : Nat] /\ b.size = got.chunk.size /\ b.asked = size
  BY <1>4 DEF Block
<1>. HIDE DEF b
<1>6. Fit(b, top)
  BY <1>1, <1>2, <1>3, <1>4, <1>5 DEF Fit, Hdr
<1>7. TakenFrom(list, Chunk(b.at, b.size), got.list)
  BY <1>2, <1>3 DEF TakenFrom
<1>. QED BY <1>2, <1>6, <1>7 DEF b, got

\* A block is given back to a list that holds none of it.
LEMMA GivenBack ==
  ASSUME NEW top \in Nat, NEW list, NEW own, Shared(list, own, top), NEW b \in own
  PROVE  Shared(Given(list, Chunk(b.at, b.size)), own \ {b}, top)
<1>. DEFINE c == Chunk(b.at, b.size)
<1>1. Fit(b, top) /\ Within(c, top) /\ Listed(list, top)
  BY DEF Shared, Fit
<1>2. \A a \in Nat : ~(In(a, c) /\ Holds(list, a))
  BY <1>1, FitIn DEF Shared
<1>. HIDE DEF c
<1>3. Listed(Given(list, c), top) /\ GivenTo(list, c, Given(list, c))
  BY <1>1, <1>2, GivenIs DEF GivenTo
<1>. QED BY <1>3, Gave DEF c

\* A buffer that is one free chunk.
LEMMA WholeBuffer ==
  ASSUME NEW top \in Nat, top > Hdr
  PROVE  Shared(<<Chunk(Hdr, top - Hdr)>>, {}, top)
<1>. DEFINE all == Chunk(Hdr, top - Hdr)
            list == <<all>>
<1>1. all.at = Hdr /\ all.size = top - Hdr /\ all \in Pieces
  BY DEF Chunk, Pieces, Hdr
<1>. HIDE DEF all
<1>2. list \in Seq(Pieces) /\ Len(list) = 1 /\ list[1] = all
  BY <1>1
<1>. HIDE DEF list
<1>3. Within(all, top) /\ \A a \in Hdr .. (top - 1) : In(a, all)
  BY <1>1 DEF Within, In, Behind, Hdr
<1>4. Listed(list, top)
  BY <1>2, <1>3 DEF Listed
<1>5. \A a \in Hdr .. (top - 1) : Holds(list, a)
  BY <1>2, <1>3 DEF Holds
<1>6. Shared(list, {}, top)
  BY <1>4, <1>5 DEF Shared
<1>. QED BY <1>6 DEF list, all

LEMMA PoolStartStep ==
  ASSUME PoolIInv, NEW size \in Buffers, PoolStart(size)
  PROVE  PoolIInv'
<1>1. size \in Nat /\ size >= 4 * Hdr /\ total' = size - (size % Hdr)
  BY PoolAssumption DEF PoolStart
<1>2. PICK top \in Nat : top = total' /\ top > Hdr
  BY <1>1 DEF Hdr
<1>3. blocks = {}
  <2>1. \A b \in blocks : Fit(b, 0)
    BY DEF PoolIInv, Shared, PoolStart
  <2>2. \A b : ~Fit(b, 0)
    BY FitIn DEF Hdr
  <2>. QED BY <2>1, <2>2
<1>4. free' = <<Chunk(Hdr, top - Hdr)>> /\ blocks' = {} /\ torn' = torn
  BY <1>2, <1>3 DEF PoolStart
<1>5. Shared(<<Chunk(Hdr, top - Hdr)>>, {}, top)
  BY <1>2, WholeBuffer
<1>6. Shared(free', blocks', total')
  BY <1>2, <1>4, <1>5
<1>. QED BY <1>2, <1>4, <1>6 DEF PoolIInv

LEMMA PoolMallocStep ==
  ASSUME PoolIInv, NEW size \in Sizes, PoolMalloc(size)
  PROVE  PoolIInv'
<1>. DEFINE got == Taken(free, Aligned(size))
            b == Block(got.chunk, size)
<1>1. size \in Nat /\ total \in Nat /\ Shared(free, blocks, total) /\ Listed(free, total)
  BY PoolAssumption DEF PoolIInv, Shared
<1>2. /\ got.ok /\ free' = got.list /\ blocks' = blocks \cup {b}
      /\ total' = total /\ torn' = torn
  BY DEF PoolMalloc
<1>3. /\ Listed(got.list, total) /\ Fit(b, total)
      /\ TakenFrom(free, Chunk(b.at, b.size), got.list)
  BY <1>1, <1>2, TakenFits
<1>. HIDE DEF got, b
<1>4. Shared(got.list, blocks \cup {b}, total)
  BY <1>1, <1>3, Took
<1>5. Shared(free', blocks', total')
  BY <1>2, <1>4
<1>. QED BY <1>1, <1>2, <1>5 DEF PoolIInv

LEMMA PoolFreeStep ==
  ASSUME PoolIInv, NEW b \in blocks, PoolFree(b)
  PROVE  PoolIInv'
<1>1. total \in Nat /\ Shared(free, blocks, total)
  BY DEF PoolIInv
<1>2. Shared(Given(free, Chunk(b.at, b.size)), blocks \ {b}, total)
  BY <1>1, GivenBack
<1>3. Shared(free', blocks', total')
  BY <1>2 DEF PoolFree
<1>. QED BY <1>1, <1>3 DEF PoolFree, PoolIInv

\* A growth asks for more room than the block has, so its aligned size differs.
LEMMA GrowthMoves ==
  ASSUME NEW top \in Nat, NEW b, Fit(b, top), NEW size \in Nat, size >= b.asked + MinGrowth
  PROVE  b.size <= Aligned(size) /\ Aligned(b.asked) # Aligned(size)
<1>1. b.asked \in Nat /\ b.size \in Nat /\ b.size <= Aligned(b.asked) + 2 * Hdr
  BY FitIn DEF Fit
<1>2. b.asked + 2 * Hdr <= size
  BY <1>1, PoolAssumption DEF Hdr
<1>3. Aligned(b.asked) + 2 * Hdr <= Aligned(size)
  BY <1>1, <1>2, AlignedApart
<1>4. Aligned(b.asked) \in Nat /\ Aligned(size) \in Nat
  BY <1>1, AlignedUp
<1>. QED BY <1>1, <1>3, <1>4 DEF Hdr

\* The chunk of the list that begins where a block ends is the next by address.
LEMMA RoomBehind ==
  ASSUME NEW top \in Nat, NEW list, NEW own, Shared(list, own, top), NEW b \in own,
         Before(list, b) < Len(list)
  PROVE  /\ Before(list, b) + 1 \in 1 .. Len(list)
         /\ list[Before(list, b) + 1].at \in Nat /\ list[Before(list, b) + 1].size \in Nat
         /\ list[Before(list, b) + 1].size > 0
         /\ list[Before(list, b) + 1] =
              Chunk(list[Before(list, b) + 1].at, list[Before(list, b) + 1].size)
         /\ Within(list[Before(list, b) + 1], top)
<1>. DEFINE c == Chunk(b.at, b.size)
            i == Before(list, b) + 1
<1>1. Fit(b, top) /\ Within(c, top) /\ Listed(list, top)
  BY DEF Shared, Fit
<1>2. \A a \in Nat : ~(In(a, c) /\ Holds(list, a))
  BY <1>1, FitIn DEF Shared
<1>3. Before(list, b) = Before(list, c)
  BY DEF Before, Chunk
<1>. HIDE DEF c
<1>4. Before(list, c) \in 0 .. Len(list)
  BY <1>1, <1>2, PlaceByAddress
<1>5. Len(list) \in Nat
  BY <1>1, LenProperties DEF Listed
<1>6. i \in 1 .. Len(list)
  BY <1>3, <1>4, <1>5
<1>. HIDE DEF i
<1>7. Within(list[i], top)
  BY <1>1, <1>6 DEF Listed
<1>8. list[i] \in [at : Nat, size : Nat] /\ list[i].size > 0
  BY <1>7 DEF Within, Pieces
<1>9. list[i] = [at |-> list[i].at, size |-> list[i].size]
  BY <1>8
<1>. QED BY <1>6, <1>7, <1>8, <1>9 DEF i, Chunk

\* pool_realloc
LEMMA PoolReallocStep ==
  ASSUME PoolIInv, NEW b \in blocks, NEW size \in Sizes, PoolRealloc(b, size)
  PROVE  PoolIInv'
<1>. DEFINE need == Aligned(size)
            i == Before(free, b) + 1
            above == IF Before(free, b) < Len(free) /\ Behind(b) = free[i].at
                     THEN free[i].size ELSE 0
            rest == b.size + above - need
            got == Taken(free, Aligned(need - Hdr))
            others == blocks \ {b}
<1>1. /\ total \in Nat /\ Shared(free, blocks, total) /\ Listed(free, total)
      /\ Fit(b, total) /\ size \in Nat /\ ~torn
  BY PoolAssumption DEF PoolIInv, Shared
<1>2. size >= b.asked + MinGrowth /\ total' = total
  BY DEF PoolRealloc
<1>3. b.size <= need /\ Aligned(b.asked) # need
  BY <1>1, <1>2, GrowthMoves
<1>4. b.at \in Nat /\ b.size \in Nat /\ b.size > 0 /\ need \in Nat /\ Hdr <= b.at
  BY <1>1, FitIn, AlignedUp
<1>5. \/ /\ above > 0 /\ b.size + above >= need /\ torn' = torn
         /\ IF rest > 2 * Hdr
            THEN /\ free' = [free EXCEPT ![i] = Chunk(b.at + need, rest)]
                 /\ blocks' = others \cup {Block(Chunk(b.at, need), size)}
            ELSE /\ free' = RemoveAt(free, i)
                 /\ blocks' = others \cup {Block(Chunk(b.at, b.size + above), size)}
      \/ /\ got.ok
         /\ torn' = (torn \/ b.size > got.chunk.size)
         /\ free' = Given(got.list, Chunk(b.at, b.size))
         /\ blocks' = others \cup {Block(got.chunk, size)}
  BY <1>3 DEF PoolRealloc
<1>. HIDE DEF need
<1>6. CASE /\ above > 0 /\ b.size + above >= need /\ torn' = torn
           /\ IF rest > 2 * Hdr
              THEN /\ free' = [free EXCEPT ![i] = Chunk(b.at + need, rest)]
                   /\ blocks' = others \cup {Block(Chunk(b.at, need), size)}
              ELSE /\ free' = RemoveAt(free, i)
                   /\ blocks' = others \cup {Block(Chunk(b.at, b.size + above), size)}
  <2>1. Before(free, b) < Len(free) /\ Behind(b) = free[i].at /\ above = free[i].size
    BY <1>6
  <2>2. /\ i \in 1 .. Len(free) /\ free[i].size \in Nat
        /\ free[i] = Chunk(b.at + b.size, above) /\ Within(free[i], total)
        /\ free[i].at = b.at + b.size
    BY <1>1, <2>1, RoomBehind DEF Behind
  <2>. HIDE DEF i, above
  <2>3. above \in Nat /\ Behind(free[i]) = b.at + b.size + above
    BY <1>4, <2>1, <2>2 DEF Behind
  <2>4. b.at + b.size + above <= total
    BY <2>2, <2>3 DEF Within
  <2>5. CASE rest > 2 * Hdr
    <3>. DEFINE c == Block(Chunk(b.at, need), size)
                m == need - b.size
                left == [free EXCEPT ![i] = Chunk(b.at + need, rest)]
    <3>1. m \in Nat /\ m < above /\ above - m = rest /\ (b.at + b.size) + m = b.at + need
          /\ rest \in Nat /\ b.size + m = need
      BY <1>3, <1>4, <2>3, <2>5 DEF Hdr
    <3>2. left = [free EXCEPT ![i] = Chunk(free[i].at + m, free[i].size - m)]
      BY <2>1, <2>2, <3>1
    <3>. HIDE DEF m, rest
    <3>3. /\ Listed([free EXCEPT ![i] = Chunk(free[i].at + m, free[i].size - m)], total)
          /\ \A a \in Nat : Holds([free EXCEPT ![i] = Chunk(free[i].at + m, free[i].size - m)], a)
                              <=> Holds(free, a) /\ ~In(a, Chunk(free[i].at, m))
      BY <1>1, <2>1, <2>2, <3>1, CutPiece
    <3>. HIDE DEF left
    <3>4. /\ Listed(left, total)
          /\ \A a \in Nat : Holds(left, a)
                              <=> Holds(free, a) /\ ~In(a, Chunk(b.at + b.size, m))
      BY <2>2, <3>2, <3>3
    <3>5. \A a \in Nat : In(a, Chunk(b.at + b.size, m)) => In(a, free[i])
      BY <1>4, <2>2, <2>3, <3>1 DEF In, Chunk, Behind
    <3>6. \A a \in Nat : In(a, Chunk(b.at + b.size, m)) => Holds(free, a)
      BY <2>2, <3>5 DEF Holds
    <3>7. TakenFrom(free, Chunk(b.at + b.size, m), left)
      BY <3>4, <3>6 DEF TakenFrom
    <3>8. c.at = b.at /\ c.size = need /\ c.asked = size
          /\ c \in [at : Nat, size : Nat, asked : Nat]
      BY <1>1, <1>4 DEF Block, Chunk
    <3>9. Fit(c, total)
      <4>1. Chunk(c.at, c.size) \in Pieces /\ Chunk(c.at, c.size).at = b.at
            /\ Chunk(c.at, c.size).size = need /\ Behind(Chunk(c.at, c.size)) = b.at + need
        BY <1>4, <3>8 DEF Chunk, Pieces, Behind
      <4>2. need > 0 /\ b.at + need <= total
        BY <1>1, <1>3, <1>4, <2>3, <2>4, <3>1
      <4>3. Aligned(c.asked) = need
        BY <3>8 DEF need
      <4>4. Within(Chunk(c.at, c.size), total)
        BY <1>4, <4>1, <4>2 DEF Within
      <4>. QED BY <1>4, <3>8, <4>3, <4>4 DEF Fit, Hdr
    <3>. HIDE DEF c
    <3>10. Shared(left, others \cup {c}, total)
      BY <1>1, <3>1, <3>4, <3>7, <3>8, <3>9, Grew
    <3>11. free' = left /\ blocks' = others \cup {c}
      BY <1>6, <2>5 DEF left, c, rest
    <3>12. Shared(free', blocks', total')
      BY <1>2, <3>10, <3>11
    <3>. QED BY <1>1, <1>2, <1>6, <3>12 DEF PoolIInv
  <2>6. CASE ~(rest > 2 * Hdr)
    <3>. DEFINE c == Block(Chunk(b.at, b.size + above), size)
                left == RemoveAt(free, i)
    <3>1. /\ Listed(left, total)
          /\ \A a \in Nat : Holds(left, a) <=> Holds(free, a) /\ ~In(a, free[i])
      BY <1>1, <2>2, WithoutPiece
    <3>. HIDE DEF left
    <3>2. TakenFrom(free, Chunk(b.at + b.size, above), left)
      <4>1. \A a \in Nat : In(a, free[i]) => Holds(free, a)
        BY <2>2 DEF Holds
      <4>. QED BY <2>2, <3>1, <4>1 DEF TakenFrom
    <3>3. c.at = b.at /\ c.size = b.size + above /\ c.asked = size
          /\ c \in [at : Nat, size : Nat, asked : Nat]
      BY <1>1, <1>4, <2>3 DEF Block, Chunk
    <3>4. Fit(c, total)
      <4>1. Chunk(c.at, c.size) \in Pieces /\ Chunk(c.at, c.size).at = b.at
            /\ Chunk(c.at, c.size).size = b.size + above
            /\ Behind(Chunk(c.at, c.size)) = b.at + b.size + above
        BY <1>4, <2>3, <3>3 DEF Chunk, Pieces, Behind
      <4>2. Within(Chunk(c.at, c.size), total)
        BY <1>4, <2>3, <2>4, <4>1 DEF Within
      <4>3. Aligned(c.asked) = need
        BY <3>3 DEF need
      <4>4. need <= b.size + above /\ b.size + above <= need + 2 * Hdr
        BY <1>4, <1>6, <2>3, <2>6 DEF Hdr
      <4>. QED BY <3>3, <4>2, <4>3, <4>4 DEF Fit
    <3>. HIDE DEF c
    <3>5. Shared(left, others \cup {c}, total)
      BY <1>1, <2>3, <3>1, <3>2, <3>3, <3>4, Grew
    <3>6. free' = left /\ blocks' = others \cup {c}
      BY <1>6, <2>6 DEF left, c
    <3>7. Shared(free', blocks', total')
      BY <1>2, <3>5, <3>6
    <3>. QED BY <1>1, <1>2, <1>6, <3>7 DEF PoolIInv
  <2>. QED BY <2>5, <2>6
<1>7. CASE /\ got.ok
           /\ torn' = (torn \/ b.size > got.chunk.size)
           /\ free' = Given(got.list, Chunk(b.at, b.size))
           /\ blocks' = others \cup {Block(got.chunk, size)}
  <2>. DEFINE c == Block(got.chunk, size)
  <2>1. need - Hdr \in Nat /\ Aligned(need - Hdr) = Aligned(size)
    BY <1>1, AlignedAgain DEF need
  <2>2. /\ Listed(got.list, total) /\ Fit(c, total)
        /\ TakenFrom(free, Chunk(c.at, c.size), got.list)
    BY <1>1, <1>7, <2>1, TakenFits
  <2>3. c.size = got.chunk.size /\ c.asked = size
    BY DEF Block
  <2>. HIDE DEF got, c
  <2>4. Shared(got.list, blocks \cup {c}, total)
    BY <1>1, <2>2, Took
  <2>5. c # b
    <3>1. c.asked # b.asked
      BY <1>1, <1>2, <2>3, FitIn, PoolAssumption DEF Hdr
    <3>. QED BY <3>1
  <2>6. Shared(Given(got.list, Chunk(b.at, b.size)), (blocks \cup {c}) \ {b}, total)
    BY <1>1, <2>4, GivenBack
  <2>7. (blocks \cup {c}) \ {b} = others \cup {c}
    BY <2>5
  <2>8. Shared(free', blocks', total')
    BY <1>2, <1>7, <2>6, <2>7 DEF c
  <2>9. ~(b.size > got.chunk.size)
    <3>1. need <= c.size /\ c.size \in Nat
      BY <2>2, <2>3, FitIn DEF Fit, need
    <3>. QED BY <1>3, <1>4, <2>3, <3>1
  <2>. QED BY <1>1, <1>2, <1>7, <2>8, <2>9 DEF PoolIInv
<1>. QED BY <1>5, <1>6, <1>7

LEMMA PoolStep == PoolIInv /\ [PoolNext]_poolVars => PoolIInv'
<1>. SUFFICES ASSUME PoolIInv, [PoolNext]_poolVars PROVE PoolIInv'
  OBVIOUS
<1>1. ASSUME NEW size \in Buffers, PoolStart(size) PROVE PoolIInv'
  BY <1>1, PoolStartStep
<1>2. ASSUME NEW size \in Sizes, PoolMalloc(size) PROVE PoolIInv'
  BY <1>2, PoolMallocStep
<1>3. ASSUME NEW b \in blocks, PoolFree(b) PROVE PoolIInv'
  BY <1>3, PoolFreeStep
<1>4. ASSUME NEW b \in blocks, NEW size \in Sizes, PoolRealloc(b, size) PROVE PoolIInv'
  BY <1>4, PoolReallocStep
<1>5. CASE UNCHANGED poolVars
  BY <1>5 DEF PoolIInv, Shared, poolVars
<1>. QED BY <1>1, <1>2, <1>3, <1>4, <1>5 DEF PoolNext

\* Every unit of the buffer belongs to one chunk.
LEMMA OneChunk ==
  ASSUME PoolIInv, NEW a \in Hdr .. (total - 1)
  PROVE  Cardinality({c \in Chunks : c.at <= a /\ a < Behind(c)}) = 1
<1>. DEFINE here == {c \in Chunks : c.at <= a /\ a < Behind(c)}
<1>1. /\ total \in Nat /\ a \in Nat /\ Listed(free, total)
      /\ \A b \in blocks : Fit(b, total)
      /\ Holds(free, a) <=> ~\E b \in blocks : In(a, b)
  BY DEF PoolIInv, Shared, Hdr
<1>2. free \in Seq(Pieces) /\ DOMAIN free = 1 .. Len(free)
  BY <1>1, LenProperties DEF Listed
<1>3. \A c \in Chunks : \/ \E i \in 1 .. Len(free) : c = free[i]
                        \/ \E b \in blocks : c = Chunk(b.at, b.size)
  BY <1>2 DEF Chunks, ToSet
<1>4. \A i \in 1 .. Len(free) : free[i] \in Chunks
  BY <1>2 DEF Chunks, ToSet
<1>5. \A b \in blocks : Chunk(b.at, b.size) \in Chunks
  BY DEF Chunks
<1>6. \A b \in blocks : In(a, b) <=> In(a, Chunk(b.at, b.size))
  BY <1>1, FitIn
<1>7. \A c : c \in here <=> c \in Chunks /\ In(a, c)
  BY DEF In
<1>. HIDE DEF here
<1>8. CASE Holds(free, a)
  <2>1. PICK i \in 1 .. Len(free) : In(a, free[i])
    BY <1>8 DEF Holds
  <2>2. ASSUME NEW c \in here PROVE c = free[i]
    <3>1. ~\E b \in blocks : c = Chunk(b.at, b.size)
      BY <1>1, <1>6, <1>7, <1>8, <2>2
    <3>2. PICK j \in 1 .. Len(free) : c = free[j]
      BY <1>3, <1>7, <3>1
    <3>3. In(a, free[j])
      BY <1>7, <2>2, <3>2
    <3>4. i = j
      BY <1>1, <2>1, <3>3, ListedOnce
    <3>. QED BY <3>2, <3>4
  <2>3. here = {free[i]}
    BY <1>4, <1>7, <2>1, <2>2
  <2>. QED BY <2>3, FS_Singleton DEF here
<1>9. CASE ~Holds(free, a)
  <2>1. PICK b \in blocks : In(a, b)
    BY <1>1, <1>9
  <2>2. ASSUME NEW c \in here PROVE c = Chunk(b.at, b.size)
    <3>1. ~\E i \in 1 .. Len(free) : c = free[i]
      BY <1>7, <1>9, <2>2 DEF Holds
    <3>2. PICK d \in blocks : c = Chunk(d.at, d.size)
      BY <1>3, <1>7, <3>1
    <3>3. In(a, d)
      BY <1>6, <1>7, <2>2, <3>2
    <3>4. d = b
      BY <1>1, <2>1, <3>3 DEF PoolIInv, Shared
    <3>. QED BY <3>2, <3>4
  <2>3. here = {Chunk(b.at, b.size)}
    BY <1>5, <1>6, <1>7, <2>1, <2>2
  <2>. QED BY <2>3, FS_Singleton DEF here
<1>. QED BY <1>8, <1>9

\* Whatever is asked for, grown and given back, and in any order: the chunks in use
\* and the free ones make up the whole buffer, no memory belongs to two, what is
\* free and touches is one chunk, and a growth never copies past its new room
\* (pool_malloc, pool_free, pool_realloc).
THEOREM PoolIsTiled == PoolSpec => []PoolTiles
<1>1. PoolIInv => PoolTiles
  <2>. SUFFICES ASSUME PoolIInv PROVE PoolTiles
    OBVIOUS
  <2>1. /\ total \in Nat /\ Listed(free, total) /\ ~torn
        /\ \A b \in blocks : Fit(b, total)
    BY DEF PoolIInv, Shared
  <2>2. free \in Seq(Pieces) /\ DOMAIN free = 1 .. Len(free) /\ Len(free) \in Nat
    BY <2>1, LenProperties DEF Listed
  <2>3. \A c \in Chunks : Within(c, total)
    <3>1. \A i \in 1 .. Len(free) : Within(free[i], total)
      BY <2>1 DEF Listed
    <3>2. \A b \in blocks : Within(Chunk(b.at, b.size), total)
      BY <2>1 DEF Fit
    <3>. QED BY <2>2, <3>1, <3>2 DEF Chunks, ToSet
  <2>4. \A c \in Chunks : c.at >= Hdr /\ Behind(c) <= total
    <3>1. \A c : Within(c, total) => c.at >= Hdr /\ Behind(c) <= total
      BY DEF Within, Pieces, Hdr
    <3>. QED BY <2>3, <3>1
  <2>5. \A i \in 1 .. (Len(free) - 1) : Behind(free[i]) < free[i + 1].at
    <3>1. \A i \in 1 .. (Len(free) - 1) :
            i \in 1 .. Len(free) /\ i + 1 \in 1 .. Len(free) /\ i < i + 1
      BY <2>2
    <3>. QED BY <2>1, <3>1 DEF Listed
  <2>6. ASSUME NEW b \in blocks PROVE b.asked + Hdr <= b.size
    <3>1. b.asked \in Nat /\ b.size \in Nat /\ Aligned(b.asked) <= b.size
      BY <2>1, FitIn DEF Fit
    <3>2. Aligned(b.asked) \in Nat /\ b.asked + Hdr <= Aligned(b.asked)
      BY <3>1, AlignedUp
    <3>. QED BY <3>1, <3>2 DEF Hdr
  <2>7. \A a \in Hdr .. (total - 1) :
          Cardinality({c \in Chunks : c.at <= a /\ a < Behind(c)}) = 1
    BY OneChunk
  <2>. HIDE DEF PoolIInv
  <2>. QED BY <2>1, <2>4, <2>5, <2>6, <2>7 DEF PoolTiles
<1>. QED BY <1>1, PoolInitially, PoolStep, PTL DEF PoolSpec

-----------------------------------------------------------------------------
(* The memory of documents.  A pool is told by its chunks and its cursor;  *)
(* what one call does to it is cut off behind what was handed out before.  *)

PoolType == [sizes : Seq(Nat), cur : Nat, next : Nat]

\* The cursor is in the newest chunk.
Sound(p) ==
  /\ p \in PoolType
  /\ Len(p.sizes) > 0 => 1 <= p.cur /\ p.cur <= p.sizes[Len(p.sizes)]

\* These units of the n-th chunk are in use.
InChunk(n, from, to, p) ==
  /\ n \in 1 .. Len(p.sizes)
  /\ 1 <= from /\ to < p.sizes[n]
  /\ n = Len(p.sizes) => to < p.cur

\* The n-th chunk from there on was free in p.
After(n, from, p) ==
  /\ Len(p.sizes) <= n
  /\ n = Len(p.sizes) => p.cur <= from

\* The pool p has become q.
Later(p, q) ==
  /\ Len(p.sizes) <= Len(q.sizes)
  /\ \A n \in 1 .. Len(p.sizes) : q.sizes[n] = p.sizes[n]
  /\ Len(p.sizes) = Len(q.sizes) => p.cur <= q.cur

LEMMA Larger ==
  ASSUME NEW a \in Nat, NEW b \in Nat
  PROVE  Max({a, b}) \in Nat /\ Max({a, b}) >= a /\ Max({a, b}) >= b
<1>1. \E x \in {a, b} : \A y \in {a, b} : x >= y
  <2>1. a >= b \/ b >= a
    OBVIOUS
  <2>. QED BY <2>1
<1>. QED BY <1>1 DEF Max

LEMMA Smaller ==
  ASSUME NEW a \in Nat, NEW b \in Nat
  PROVE  Min({a, b}) \in Nat
<1>1. \E x \in {a, b} : \A y \in {a, b} : x <= y
  <2>1. a <= b \/ b <= a
    OBVIOUS
  <2>. QED BY <2>1
<1>. QED BY <1>1 DEF Min

LEMMA LaterSame == ASSUME NEW p, Sound(p) PROVE Later(p, p)
<1>1. Len(p.sizes) \in Nat /\ p.cur \in Nat
  BY LenProperties DEF Sound, PoolType
<1>. QED BY <1>1 DEF Later

LEMMA LaterLater ==
  ASSUME NEW p, Sound(p), NEW q, Sound(q), NEW r, Sound(r), Later(p, q), Later(q, r)
  PROVE  Later(p, r)
<1>1. /\ Len(p.sizes) \in Nat /\ Len(q.sizes) \in Nat /\ Len(r.sizes) \in Nat
      /\ p.cur \in Nat /\ q.cur \in Nat /\ r.cur \in Nat
  BY LenProperties DEF Sound, PoolType
<1>. QED BY <1>1 DEF Later

\* What is in use stays so.
LEMMA StaysInUse ==
  ASSUME NEW p, Sound(p), NEW q, Sound(q), Later(p, q),
         NEW n \in Nat, NEW from \in Nat, NEW to \in Nat, InChunk(n, from, to, p)
  PROVE  InChunk(n, from, to, q)
<1>1. /\ Len(p.sizes) \in Nat /\ Len(q.sizes) \in Nat /\ p.cur \in Nat /\ q.cur \in Nat
  BY LenProperties DEF Sound, PoolType
<1>. QED BY <1>1 DEF Later, InChunk

\* What is free later was free.
LEMMA WasFree ==
  ASSUME NEW p, Sound(p), NEW q, Sound(q), Later(p, q),
         NEW n \in Nat, NEW from \in Nat, After(n, from, q)
  PROVE  After(n, from, p)
<1>1. /\ Len(p.sizes) \in Nat /\ Len(q.sizes) \in Nat /\ p.cur \in Nat /\ q.cur \in Nat
  BY LenProperties DEF Sound, PoolType
<1>. QED BY <1>1 DEF Later, After

\* What was in use lies before what was free.
LEMMA InUseBefore ==
  ASSUME NEW p, Sound(p), NEW n \in Nat, NEW from \in Nat, NEW to \in Nat, NEW at \in Nat,
         InChunk(n, from, to, p), After(n, at, p)
  PROVE  to < at
<1>1. Len(p.sizes) \in Nat /\ p.cur \in Nat
  BY LenProperties DEF Sound, PoolType
<1>. QED BY <1>1 DEF InChunk, After

\* The pool with a chunk more.
LEMMA GrownIs ==
  ASSUME NEW p, Sound(p), NEW need \in Nat
  PROVE  LET q == Grown(p, need)
         IN /\ Sound(q) /\ Len(q.sizes) = Len(p.sizes) + 1
            /\ \A n \in 1 .. Len(p.sizes) : q.sizes[n] = p.sizes[n]
            /\ q.cur = 1 /\ q.sizes[Len(q.sizes)] >= need + 1
<1>. DEFINE q == Grown(p, need)
            size == Max({p.next, need + 1})
            least == Min({2 * p.next, LargestChunk})
<1>1. p.sizes \in Seq(Nat) /\ p.cur \in Nat /\ p.next \in Nat /\ Len(p.sizes) \in Nat
  BY LenProperties DEF Sound, PoolType
<1>2. size \in Nat /\ size >= need + 1
  <2>1. need + 1 \in Nat
    OBVIOUS
  <2>. QED BY <1>1, <2>1, Larger
<1>3. least \in Nat /\ LargestChunk \in Nat
  <2>1. 2 * p.next \in Nat
    BY <1>1
  <2>. QED BY <2>1, Smaller, DocAssumption
<1>4. /\ q.sizes = Append(p.sizes, size) /\ q.cur = 1
      /\ q.next = IF least < p.next THEN LargestChunk ELSE least
      /\ q = [sizes |-> q.sizes, cur |-> q.cur, next |-> q.next]
  BY DEF Grown
<1>. HIDE DEF q, size, least
<1>5. /\ q.sizes \in Seq(Nat) /\ Len(q.sizes) = Len(p.sizes) + 1
      /\ \A n \in 1 .. Len(p.sizes) : q.sizes[n] = p.sizes[n]
      /\ q.sizes[Len(p.sizes) + 1] = size
  BY <1>1, <1>2, <1>4, AppendProperties
<1>6. q \in PoolType
  <2>1. q.next \in Nat /\ q.cur \in Nat
    BY <1>3, <1>4
  <2>. QED BY <1>4, <1>5, <2>1 DEF PoolType
<1>7. Sound(q)
  BY <1>1, <1>2, <1>4, <1>5, <1>6 DEF Sound
<1>. QED BY <1>1, <1>2, <1>4, <1>5, <1>7 DEF q

\* The pool out of which n units are cut, after a chunk was added if it had to be.
Ready(p, need) == IF Room(p) < need THEN Grown(p, need) ELSE p
Cut(p, need) == [Ready(p, need) EXCEPT !.cur = @ + need]

LEMMA CutIs ==
  ASSUME NEW p, Sound(p), NEW need \in Nat \ {0}
  PROVE  LET n == Len(Ready(p, need).sizes)
             from == Ready(p, need).cur
         IN /\ Sound(Cut(p, need)) /\ Later(p, Cut(p, need))
            /\ n \in Nat /\ from \in Nat /\ from + need - 1 \in Nat
            /\ InChunk(n, from, from + need - 1, Cut(p, need)) /\ After(n, from, p)
<1>. DEFINE q == Ready(p, need)
            r == Cut(p, need)
<1>1. p.sizes \in Seq(Nat) /\ p.cur \in Nat /\ Len(p.sizes) \in Nat
  BY LenProperties DEF Sound, PoolType
<1>2. /\ Sound(q) /\ Later(p, q) /\ Len(q.sizes) > 0
      /\ q.cur + need <= q.sizes[Len(q.sizes)]
      /\ After(Len(q.sizes), q.cur, p)
  <2>1. CASE Room(p) < need
    <3>1. q = Grown(p, need)
      BY <2>1 DEF Ready
    <3>2. /\ Sound(q) /\ Len(q.sizes) = Len(p.sizes) + 1
          /\ \A n \in 1 .. Len(p.sizes) : q.sizes[n] = p.sizes[n]
          /\ q.cur = 1 /\ q.sizes[Len(q.sizes)] >= need + 1
      BY <3>1, GrownIs
    <3>. HIDE DEF q
    <3>3. q.sizes \in Seq(Nat) /\ Len(q.sizes) \in 1 .. Len(q.sizes)
      BY <1>1, <3>2 DEF Sound, PoolType
    <3>4. q.sizes[Len(q.sizes)] \in Nat
      BY <3>3, ElementOfSeq
    <3>5. q.cur + need <= q.sizes[Len(q.sizes)]
      BY <3>2, <3>4
    <3>6. Sound(q) /\ Len(q.sizes) > 0 /\ q.cur \in Nat
      BY <1>1, <3>2, <3>3 DEF Sound, PoolType
    <3>. QED BY <1>1, <3>2, <3>5, <3>6, SMTT(30) DEF Later, After
  <2>2. CASE ~(Room(p) < need)
    <3>1. q = p
      BY <2>2 DEF Ready
    <3>. HIDE DEF q
    <3>2. p.sizes # <<>>
      BY <2>2 DEF Room
    <3>3. Len(p.sizes) > 0 /\ Len(p.sizes) \in 1 .. Len(p.sizes)
      BY <1>1, <3>2, EmptySeq
    <3>4. p.sizes[Len(p.sizes)] \in Nat
      BY <1>1, <3>3, ElementOfSeq
    <3>5. Room(p) = p.sizes[Len(p.sizes)] - p.cur
      BY <3>2 DEF Room, Last
    <3>6. p.cur + need <= p.sizes[Len(p.sizes)]
      BY <1>1, <2>2, <3>4, <3>5
    <3>. QED BY <1>1, <3>1, <3>3, <3>6, LaterSame DEF After
  <2>. QED BY <2>1, <2>2
<1>3. /\ r.sizes = q.sizes /\ r.cur = q.cur + need /\ r.next = q.next /\ r \in PoolType
      /\ q.sizes \in Seq(Nat) /\ q.cur \in Nat /\ Len(q.sizes) \in Nat
  <2>1. q \in PoolType
    BY <1>2 DEF Sound
  <2>2. r = [q EXCEPT !.cur = @ + need]
    BY DEF Cut
  <2>. HIDE DEF q, r
  <2>. QED BY <2>1, <2>2, LenProperties DEF PoolType
<1>. HIDE DEF q, r
<1>4. 1 <= q.cur /\ q.cur <= q.sizes[Len(q.sizes)] /\ q.sizes[Len(q.sizes)] \in Nat
  <2>1. Len(q.sizes) \in 1 .. Len(q.sizes)
    BY <1>2, <1>3
  <2>. QED BY <1>2, <1>3, <2>1, ElementOfSeq DEF Sound
<1>5. Sound(r)
  BY <1>2, <1>3, <1>4 DEF Sound
<1>6. Later(q, r)
  BY <1>3 DEF Later
<1>7. Later(p, r)
  BY <1>2, <1>5, <1>6, LaterLater
<1>8. InChunk(Len(q.sizes), q.cur, q.cur + need - 1, r)
  BY <1>2, <1>3, <1>4 DEF InChunk
<1>9. q.cur + need - 1 \in Nat
  BY <1>3
<1>. QED BY <1>2, <1>3, <1>5, <1>7, <1>8, <1>9 DEF q, r

-----------------------------------------------------------------------------
(* The work of one call.                                                   *)

Span == [kind : Kinds, chunk : Nat, from : Nat, to : Nat]

AllSound(pools) == pools \in [Kinds -> PoolType] /\ \A k \in Kinds : Sound(pools[k])

\* Parts of one chunk do not overlap.
Apart(s, t) == s.to < t.from \/ t.to < s.from

\* The work that goes on from these pools.
Works(pools) ==
  {w \in [pools : [Kinds -> PoolType], spans : SUBSET Span, failed : BOOLEAN] :
     /\ \A k \in Kinds : Sound(w.pools[k]) /\ Later(pools[k], w.pools[k])
     /\ \A s \in w.spans : /\ InChunk(s.chunk, s.from, s.to, w.pools[s.kind])
                           /\ After(s.chunk, s.from, pools[s.kind])
     /\ \A s, t \in w.spans :
          s # t /\ s.kind = t.kind /\ s.chunk = t.chunk => Apart(s, t)}

LEMMA WorkBegins ==
  ASSUME NEW pools, AllSound(pools) PROVE Work(pools) \in Works(pools)
<1>1. \A k \in Kinds : Sound(pools[k]) /\ Later(pools[k], pools[k])
  BY LaterSame DEF AllSound
<1>. QED BY <1>1 DEF Work, Works, AllSound

LEMMA WorkIs ==
  ASSUME NEW pools, NEW w \in Works(pools)
  PROVE  /\ w.pools \in [Kinds -> PoolType] /\ w.spans \subseteq Span /\ w.failed \in BOOLEAN
         /\ w = [pools |-> w.pools, spans |-> w.spans, failed |-> w.failed]
         /\ AllSound(w.pools) /\ \A k \in Kinds : Later(pools[k], w.pools[k])
         /\ \A s \in w.spans : /\ InChunk(s.chunk, s.from, s.to, w.pools[s.kind])
                               /\ After(s.chunk, s.from, pools[s.kind])
         /\ \A s, t \in w.spans :
              s # t /\ s.kind = t.kind /\ s.chunk = t.chunk => Apart(s, t)
BY DEF Works, AllSound

\* unsafe_yyjson_mut_str_alc and unsafe_yyjson_mut_val, after what the call has
\* taken already.
LEMMA AllocIs ==
  ASSUME NEW pools, AllSound(pools), NEW w \in Works(pools), NEW k \in Kinds,
         NEW need \in Nat \ {0}, NEW ok \in BOOLEAN
  PROVE  Alloc(w, k, need, ok) \in Works(pools)
<1>. DEFINE p == w.pools[k]
            q == Ready(p, need)
            r == Cut(p, need)
            new == [kind |-> k, chunk |-> Len(q.sizes), from |-> q.cur, to |-> q.cur + need - 1]
            then == [w.pools EXCEPT ![k] = r]
            v == [pools |-> then, spans |-> w.spans \cup {new}, failed |-> w.failed]
            out == [w EXCEPT !.failed = TRUE]
<1>1. /\ w.pools \in [Kinds -> PoolType] /\ w.spans \subseteq Span /\ w.failed \in BOOLEAN
      /\ w = [pools |-> w.pools, spans |-> w.spans, failed |-> w.failed]
      /\ AllSound(w.pools) /\ \A j \in Kinds : Later(pools[j], w.pools[j])
      /\ \A s \in w.spans : /\ InChunk(s.chunk, s.from, s.to, w.pools[s.kind])
                            /\ After(s.chunk, s.from, pools[s.kind])
      /\ \A s, t \in w.spans :
           s # t /\ s.kind = t.kind /\ s.chunk = t.chunk => Apart(s, t)
  BY WorkIs
<1>2. CASE Room(p) < need /\ ~ok
  <2>1. Alloc(w, k, need, ok) = [w EXCEPT !.failed = TRUE]
    BY <1>2 DEF Alloc
  <2>2. /\ out \in [pools : [Kinds -> PoolType], spans : SUBSET Span, failed : BOOLEAN]
        /\ out.pools = w.pools /\ out.spans = w.spans
    <3>1. w \in [pools : [Kinds -> PoolType], spans : SUBSET Span, failed : BOOLEAN]
      BY DEF Works
    <3>. QED BY <3>1
  <2>. HIDE DEF out
  <2>3. out \in Works(pools)
    BY <1>1, <2>2 DEF Works, AllSound
  <2>. QED BY <2>1, <2>3 DEF out
<1>3. CASE ~(Room(p) < need /\ ~ok)
  <2>1. Alloc(w, k, need, ok) =
          [w EXCEPT !.pools[k] = [q EXCEPT !.cur = @ + need], !.spans = @ \cup {new}]
    BY <1>3 DEF Alloc, Ready
  <2>2. Alloc(w, k, need, ok) = v
    <3>1. r = [q EXCEPT !.cur = @ + need]
      BY DEF Cut
    <3>. HIDE DEF q, r, new
    <3>. QED BY <1>1, <2>1, <3>1
  <2>3. Sound(p) /\ p \in PoolType
    BY <1>1 DEF AllSound
  <2>. HIDE DEF p
  <2>4. /\ Sound(r) /\ Later(p, r)
        /\ Len(q.sizes) \in Nat /\ q.cur \in Nat /\ q.cur + need - 1 \in Nat
        /\ InChunk(Len(q.sizes), q.cur, q.cur + need - 1, r) /\ After(Len(q.sizes), q.cur, p)
    BY <2>3, CutIs
  <2>. HIDE DEF q, r
  <2>5. /\ new \in Span /\ new.kind = k /\ new.chunk = Len(q.sizes)
        /\ new.from = q.cur /\ new.to = q.cur + need - 1
    BY <2>4 DEF Span
  <2>. HIDE DEF new
  <2>6. r \in PoolType
    BY <2>4 DEF Sound
  <2>7. then \in [Kinds -> PoolType] /\ then[k] = r /\ \A j \in Kinds \ {k} : then[j] = w.pools[j]
    BY <1>1, <2>6
  <2>. HIDE DEF then
  <2>8. ASSUME NEW j \in Kinds
        PROVE  Sound(then[j]) /\ Later(w.pools[j], then[j]) /\ Sound(w.pools[j])
               /\ Sound(pools[j]) /\ Later(pools[j], w.pools[j]) /\ Later(pools[j], then[j])
    <3>1. Sound(w.pools[j]) /\ Sound(pools[j]) /\ Later(pools[j], w.pools[j])
      BY <1>1 DEF AllSound
    <3>2. Sound(then[j]) /\ Later(w.pools[j], then[j])
      BY <2>4, <2>7, <3>1, LaterSame DEF p
    <3>. QED BY <3>1, <3>2, LaterLater
  <2>9. ASSUME NEW s \in w.spans
        PROVE  /\ InChunk(s.chunk, s.from, s.to, then[s.kind])
               /\ After(s.chunk, s.from, pools[s.kind])
               /\ s.kind = k /\ s.chunk = new.chunk => Apart(s, new)
    <3>1. s.kind \in Kinds /\ s.chunk \in Nat /\ s.from \in Nat /\ s.to \in Nat
      BY <1>1 DEF Span
    <3>2. InChunk(s.chunk, s.from, s.to, w.pools[s.kind]) /\ After(s.chunk, s.from, pools[s.kind])
      BY <1>1
    <3>3. InChunk(s.chunk, s.from, s.to, then[s.kind])
      BY <2>8, <3>1, <3>2, StaysInUse
    <3>4. ASSUME s.kind = k, s.chunk = new.chunk PROVE Apart(s, new)
      <4>1. InChunk(s.chunk, s.from, s.to, p) /\ After(s.chunk, new.from, p)
        BY <2>4, <2>5, <3>2, <3>4 DEF p
      <4>2. new.from \in Nat
        BY <2>4, <2>5
      <4>3. s.to < new.from
        BY <2>3, <3>1, <4>1, <4>2, InUseBefore
      <4>. QED BY <4>3 DEF Apart
    <3>. QED BY <3>2, <3>3, <3>4
  <2>10. InChunk(new.chunk, new.from, new.to, then[new.kind])
    BY <2>4, <2>5, <2>7
  <2>11. After(new.chunk, new.from, pools[new.kind])
    <3>1. After(new.chunk, new.from, w.pools[k]) /\ new.chunk \in Nat /\ new.from \in Nat
      BY <2>4, <2>5 DEF p
    <3>2. After(new.chunk, new.from, pools[k])
      BY <2>8, <3>1, WasFree
    <3>. QED BY <2>5, <3>2
  <2>12. \A s, t \in w.spans \cup {new} :
           s # t /\ s.kind = t.kind /\ s.chunk = t.chunk => Apart(s, t)
    <3>1. \A s, t : Apart(s, t) <=> Apart(t, s)
      BY DEF Apart
    <3>. QED BY <1>1, <2>5, <2>9, <3>1
  <2>13. v \in [pools : [Kinds -> PoolType], spans : SUBSET Span, failed : BOOLEAN]
    BY <1>1, <2>5, <2>7
  <2>14. v.pools = then /\ v.spans = w.spans \cup {new}
    OBVIOUS
  <2>. HIDE DEF v
  <2>15. v \in Works(pools)
    BY <2>8, <2>9, <2>10, <2>11, <2>12, <2>13, <2>14 DEF Works
  <2>. QED BY <2>2, <2>15
<1>. QED BY <1>2, <1>3

\* yyjson_val_mut_copy and yyjson_mut_val_mut_copy: what DocCopy calls made.
MadeBy(strings, atOnce, ok, f) ==
  f = [i \in 0..Len(strings) |->
         LET vals(w, j) == IF ~atOnce THEN Alloc(w, "val", 1, ok[2 * j])
                           ELSE IF j = 1 THEN Alloc(w, "val", Len(strings), ok[2])
                           ELSE w
         IN IF i = 0 THEN Work(NewDoc)
            ELSE LET w == f[i - 1]
                     v == IF w.failed THEN w ELSE vals(w, i)
                 IN IF v.failed THEN v ELSE AllocStr(v, strings[i], ok[2 * i - 1])]
Made(strings, atOnce, ok) == CHOOSE f : MadeBy(strings, atOnce, ok, f)

LEMMA NewDocSound == AllSound(NewDoc)
<1>. DEFINE p == NewPool
<1>1. p.sizes = <<>> /\ Len(p.sizes) = 0 /\ p \in PoolType
  BY DocAssumption DEF NewPool, PoolType
<1>2. Sound(p)
  BY <1>1 DEF Sound
<1>. HIDE DEF p
<1>3. NewDoc = [k \in Kinds |-> p]
  BY DEF NewDoc, p
<1>. QED BY <1>1, <1>2, <1>3 DEF AllSound

\* However long the document is, the copy is one work from empty pools.
LEMMA CopyIs ==
  ASSUME NEW strings \in Seq(Nat), NEW atOnce \in BOOLEAN,
         NEW ok \in [1..(2 * Len(strings)) -> BOOLEAN]
  PROVE  Made(strings, atOnce, ok)[Len(strings)] \in Works(NewDoc)
<1>. DEFINE V == Works(NewDoc)
            Rec == Nat \ {0}
            back == [i \in Rec |-> i - 1]
            base == [i \in Nat \ Rec |-> Work(NewDoc)]
            Vals(i, w) == IF ~atOnce THEN Alloc(w, "val", 1, ok[2 * i])
                          ELSE IF i = 1 THEN Alloc(w, "val", Len(strings), ok[2]) ELSE w
            Valued(i, w) == IF w.failed THEN w ELSE Vals(i, w)
            Then(i, w) == IF Valued(i, w).failed THEN Valued(i, w)
                          ELSE AllocStr(Valued(i, w), strings[i], ok[2 * i - 1])
            step == [a \in Rec \X V |-> IF a[1] <= Len(strings) THEN Then(a[1], a[2]) ELSE a[2]]
<1>1. PICK n \in Nat : n = Len(strings)
  BY LenProperties
<1>2. ASSUME NEW i \in 1 .. n, NEW w \in V PROVE Then(i, w) \in V
  <2>1. n \in Nat \ {0} /\ 2 * i \in 1 .. (2 * n) /\ 2 * i - 1 \in 1 .. (2 * n) /\ 2 \in 1 .. (2 * n)
    BY <1>1
  <2>2. ok[2 * i] \in BOOLEAN /\ ok[2 * i - 1] \in BOOLEAN /\ ok[2] \in BOOLEAN
    BY <1>1, <2>1
  <2>3. strings[i] + 1 \in Nat \ {0}
    <3>1. strings[i] \in Nat
      BY <1>1, ElementOfSeq
    <3>. QED BY <3>1
  <2>. HIDE DEF V
  <2>4. Vals(i, w) \in V
    <3>1. "val" \in Kinds /\ 1 \in Nat \ {0} /\ Len(strings) \in Nat \ {0}
      BY <1>1, <2>1 DEF Kinds
    <3>2. Alloc(w, "val", 1, ok[2 * i]) \in V
      BY <2>2, <3>1, NewDocSound, AllocIs DEF V
    <3>3. Alloc(w, "val", Len(strings), ok[2]) \in V
      BY <2>2, <3>1, NewDocSound, AllocIs DEF V
    <3>. QED BY <3>2, <3>3
  <2>. HIDE DEF Vals
  <2>5. Valued(i, w) \in V
    BY <2>4
  <2>. HIDE DEF Valued
  <2>6. AllocStr(Valued(i, w), strings[i], ok[2 * i - 1]) \in V
    <3>1. "str" \in Kinds
      BY DEF Kinds
    <3>2. Alloc(Valued(i, w), "str", strings[i] + 1, ok[2 * i - 1]) \in V
      BY <2>2, <2>3, <2>5, <3>1, NewDocSound, AllocIs DEF V
    <3>. QED BY <3>2 DEF AllocStr
  <2>. QED BY <2>5, <2>6
<1>3. PICK f \in [Nat -> V] : Recursive(f, Rec, back, base, step)
  <2>1. Work(NewDoc) \in V
    BY NewDocSound, WorkBegins
  <2>. HIDE DEF V, Then
  <2>2. base \in [Nat \ Rec -> V]
    BY <2>1
  <2>3. step \in [Rec \X V -> V]
    <3>1. ASSUME NEW a \in Rec \X V
          PROVE  (IF a[1] <= Len(strings) THEN Then(a[1], a[2]) ELSE a[2]) \in V
      <4>1. a[1] \in Rec /\ a[2] \in V
        OBVIOUS
      <4>2. a[1] <= Len(strings) => a[1] \in 1 .. n
        BY <1>1, <4>1
      <4>. QED BY <1>2, <4>1, <4>2
    <3>. QED BY <3>1
  <2>4. /\ Rec \in SUBSET Nat /\ back \in [Rec -> Nat]
        /\ \A i \in Rec : back[i] < i
    OBVIOUS
  <2>. HIDE DEF Rec, back, base, step
  <2>. QED BY <2>2, <2>3, <2>4, RecursiveFunction
<1>. DEFINE u == [i \in 0 .. Len(strings) |-> f[i]]
            v(i) == IF i = 0 THEN Work(NewDoc) ELSE Then(i, u[i - 1])
<1>4. ASSUME NEW i \in 0 .. n PROVE u[i] = v(i)
  <2>. HIDE DEF V, Then
  <2>1. CASE i = 0
    <3>1. i \in Nat /\ i \notin Rec /\ base[i] = Work(NewDoc)
      BY <2>1
    <3>2. f[i] = Work(NewDoc)
      <4>. HIDE DEF Rec, back, base, step
      <4>. QED BY <1>3, <3>1 DEF Recursive, ValueAt
    <3>. QED BY <1>1, <2>1, <3>2
  <2>2. CASE i # 0
    <3>1. i \in Rec /\ i \in Nat /\ back[i] = i - 1 /\ i - 1 \in Nat /\ i - 1 \in 0 .. n
          /\ i <= Len(strings)
      BY <1>1, <2>2
    <3>2. f[i] = step[<<i, f[i - 1]>>]
      <4>. HIDE DEF Rec, back, base, step
      <4>. QED BY <1>3, <3>1 DEF Recursive, ValueAt
    <3>3. <<i, f[i - 1]>> \in Rec \X V
      BY <3>1
    <3>4. step[<<i, f[i - 1]>>] = Then(i, f[i - 1])
      BY <3>1, <3>3
    <3>. QED BY <1>1, <2>2, <3>1, <3>2, <3>4
  <2>. QED BY <2>1, <2>2
<1>5. MadeBy(strings, atOnce, ok, u)
  <2>1. u = [i \in 0 .. Len(strings) |-> v(i)]
    <3>1. u = [i \in 0 .. Len(strings) |-> u[i]]
      OBVIOUS
    <3>. HIDE DEF u, v
    <3>. QED BY <1>1, <1>4, <3>1
  <2>. HIDE DEF u
  <2>. QED BY <2>1 DEF MadeBy
<1>6. MadeBy(strings, atOnce, ok, Made(strings, atOnce, ok))
  BY <1>5 DEF Made
<1>. DEFINE m == Made(strings, atOnce, ok)
            Entry(i) == IF i = 0 THEN Work(NewDoc) ELSE Then(i, m[i - 1])
<1>7. m = [i \in 0 .. Len(strings) |-> Entry(i)]
  BY <1>6 DEF MadeBy
<1>. HIDE DEF m
<1>8. \A i \in 0 .. n : m[i] = IF i = 0 THEN Work(NewDoc) ELSE Then(i, m[i - 1])
  <2>1. \A i \in 0 .. Len(strings) : m[i] = Entry(i)
    <3>. HIDE DEF Entry
    <3>. QED BY <1>7
  <2>. HIDE DEF Then
  <2>. QED BY <1>1, <2>1
<1>. HIDE DEF V, Then
<1>. DEFINE T == {i \in 0 .. n : m[i] \notin V}
<1>9. T = {}
  <2>. SUFFICES ASSUME T # {} PROVE FALSE
    OBVIOUS
  <2>1. PICK i \in T : \A j \in T : i <= j
    <3>1. T \subseteq Nat
      OBVIOUS
    <3>. HIDE DEF T
    <3>. QED BY <3>1, LeastNumber
  <2>2. i # 0
    <3>1. Work(NewDoc) \in V
      BY NewDocSound, WorkBegins DEF V
    <3>. QED BY <1>8, <2>1, <3>1
  <2>3. i \in 1 .. n /\ i - 1 \in 0 .. n /\ i - 1 < i
    BY <1>1, <2>1, <2>2
  <2>4. m[i - 1] \in V
    BY <2>1, <2>3
  <2>5. m[i] = Then(i, m[i - 1])
    BY <1>8, <2>1, <2>2
  <2>. QED BY <1>2, <2>1, <2>3, <2>4, <2>5
<1>10. m[n] \in V
  BY <1>1, <1>9
<1>. QED BY <1>1, <1>10 DEF m, V

-----------------------------------------------------------------------------
(* The inductive invariant of the documents.                               *)

Part == [kind : Kinds, chunk : Docs \X Kinds \X Nat, from : Nat, to : Nat]

\* What was handed out is in use, in a document that exists.
PartsInUse ==
  /\ given \subseteq Part
  /\ \A s \in given :
       LET d == s.chunk[1]
           k == s.chunk[2]
       IN docs[d] # No /\ InChunk(s.chunk[3], s.from, s.to, docs[d][k])

DocIInv ==
  /\ docs \in [Docs -> {No} \cup [Kinds -> PoolType]]
  /\ \A d \in Docs : docs[d] # No => AllSound(docs[d])
  /\ PartsInUse
  /\ \A s, t \in given : s # t /\ s.chunk = t.chunk => Apart(s, t)
  /\ held = UNION {ChunksOf(d) \cup {TheDoc(d)} : d \in Live}

\* The chunks of a document's pools.
ChunkSet(d, pools) == UNION {{TheChunk(d, k, n) : n \in DOMAIN pools[k].sizes} : k \in Kinds}

LEMMA PoolsAreDoc == ASSUME NEW pools \in [Kinds -> PoolType] PROVE pools # No
<1>1. pools["str"] \in PoolType
  BY DEF Kinds
<1>2. \A p \in PoolType : p # <<>>
  <2>1. \A p \in PoolType : DOMAIN p = {"sizes", "cur", "next"}
    BY DEF PoolType
  <2>2. DOMAIN <<>> = {}
    OBVIOUS
  <2>. QED BY <2>1, <2>2
<1>3. No["str"] = <<>>
  BY DEF No
<1>. QED BY <1>1, <1>2, <1>3

LEMMA ChunksAre ==
  ASSUME NEW d, NEW pools, AllSound(pools), NEW x
  PROVE  x \in ChunkSet(d, pools) <=>
           \E k \in Kinds : \E n \in 1 .. Len(pools[k].sizes) : x = <<d, k, n>>
<1>1. \A k \in Kinds : DOMAIN pools[k].sizes = 1 .. Len(pools[k].sizes)
  BY LenProperties DEF AllSound, PoolType
<1>. QED BY <1>1 DEF ChunkSet, TheChunk

\* The chunks remain when the pools go on.
LEMMA ChunksRemain ==
  ASSUME NEW d, NEW pools, AllSound(pools), NEW then, AllSound(then),
         \A k \in Kinds : Later(pools[k], then[k])
  PROVE  ChunkSet(d, pools) \subseteq ChunkSet(d, then)
<1>. SUFFICES ASSUME NEW x \in ChunkSet(d, pools) PROVE x \in ChunkSet(d, then)
  OBVIOUS
<1>1. PICK k \in Kinds : \E n \in 1 .. Len(pools[k].sizes) : x = <<d, k, n>>
  BY ChunksAre
<1>2. PICK n \in 1 .. Len(pools[k].sizes) : x = <<d, k, n>>
  BY <1>1
<1>3. Len(pools[k].sizes) \in Nat /\ Len(then[k].sizes) \in Nat
  BY LenProperties DEF AllSound, PoolType
<1>4. n \in 1 .. Len(then[k].sizes)
  BY <1>3 DEF Later
<1>. QED BY <1>2, <1>4, ChunksAre

\* A call's work on a document, from its pools or, for a new one, from none.
LEMMA DoneStep ==
  ASSUME DocIInv, NEW d \in Docs, NEW pools, AllSound(pools),
         docs[d] = No \/ docs[d] = pools,
         NEW w \in Works(pools), Done(d, w)
  PROVE  DocIInv'
<1>. DEFINE new == {[s EXCEPT !.chunk = TheChunk(d, s.kind, s.chunk)] : s \in w.spans}
            then == w.pools
<1>1. /\ then \in [Kinds -> PoolType] /\ w.spans \subseteq Span
      /\ AllSound(then) /\ \A k \in Kinds : Later(pools[k], then[k])
      /\ \A s \in w.spans : /\ InChunk(s.chunk, s.from, s.to, then[s.kind])
                            /\ After(s.chunk, s.from, pools[s.kind])
      /\ \A s, t \in w.spans :
           s # t /\ s.kind = t.kind /\ s.chunk = t.chunk => Apart(s, t)
  BY WorkIs
<1>2. /\ docs \in [Docs -> {No} \cup [Kinds -> PoolType]]
      /\ \A e \in Docs : docs[e] # No => AllSound(docs[e])
      /\ PartsInUse
      /\ \A s, t \in given : s # t /\ s.chunk = t.chunk => Apart(s, t)
      /\ held = UNION {ChunksOf(e) \cup {TheDoc(e)} : e \in Live}
  BY DEF DocIInv
<1>3. /\ docs' = [docs EXCEPT ![d] = then]
      /\ given' = given \cup new
      /\ held' = held \cup {TheDoc(d)} \cup ChunkSet(d, then)
  BY DEF Done, ChunkSet
<1>. HIDE DEF then
<1>4. then # No
  BY <1>1, PoolsAreDoc
<1>5. /\ docs' \in [Docs -> {No} \cup [Kinds -> PoolType]]
      /\ docs'[d] = then /\ \A e \in Docs \ {d} : docs'[e] = docs[e]
  BY <1>1, <1>2, <1>3
<1>6. \A e \in Docs : docs'[e] # No => AllSound(docs'[e])
  BY <1>1, <1>2, <1>5
<1>7. ASSUME NEW x \in new
      PROVE  \E s \in w.spans : /\ x.kind = s.kind /\ x.chunk = <<d, s.kind, s.chunk>>
                                /\ x.from = s.from /\ x.to = s.to
                                /\ s.kind \in Kinds /\ s.chunk \in Nat
                                /\ s.from \in Nat /\ s.to \in Nat
                                /\ x = [kind |-> s.kind, chunk |-> <<d, s.kind, s.chunk>>,
                                        from |-> s.from, to |-> s.to]
  <2>1. PICK s \in w.spans : x = [s EXCEPT !.chunk = <<d, s.kind, s.chunk>>]
    BY DEF TheChunk
  <2>2. s \in [kind : Kinds, chunk : Nat, from : Nat, to : Nat]
    BY <1>1 DEF Span
  <2>. QED BY <2>1, <2>2
<1>. HIDE DEF new
<1>8. PartsInUse'
  <2>1. given' \subseteq Part
    <3>1. \A x \in new : x \in Part
      <4>. SUFFICES ASSUME NEW x \in new PROVE x \in Part
        OBVIOUS
      <4>1. PICK s \in w.spans :
              /\ s.kind \in Kinds /\ s.chunk \in Nat /\ s.from \in Nat /\ s.to \in Nat
              /\ x = [kind |-> s.kind, chunk |-> <<d, s.kind, s.chunk>>,
                      from |-> s.from, to |-> s.to]
        BY <1>7
      <4>2. <<d, s.kind, s.chunk>> \in Docs \X Kinds \X Nat
        BY <4>1
      <4>. QED BY <4>1, <4>2 DEF Part
    <3>. QED BY <1>2, <1>3, <3>1 DEF PartsInUse
  <2>2. ASSUME NEW s \in given
        PROVE  docs'[s.chunk[1]] # No
               /\ InChunk(s.chunk[3], s.from, s.to, docs'[s.chunk[1]][s.chunk[2]])
    <3>1. /\ s.chunk[1] \in Docs /\ s.chunk[2] \in Kinds /\ s.chunk[3] \in Nat
          /\ s.from \in Nat /\ s.to \in Nat
      BY <1>2 DEF PartsInUse, Part
    <3>2. /\ docs[s.chunk[1]] # No
          /\ InChunk(s.chunk[3], s.from, s.to, docs[s.chunk[1]][s.chunk[2]])
      BY <1>2 DEF PartsInUse
    <3>3. CASE s.chunk[1] = d
      <4>. DEFINE k == s.chunk[2]
      <4>1. docs[d] = pools
        BY <3>2, <3>3
      <4>2. k \in Kinds /\ Sound(pools[k]) /\ Sound(then[k]) /\ Later(pools[k], then[k])
        BY <1>1, <3>1 DEF AllSound
      <4>3. InChunk(s.chunk[3], s.from, s.to, pools[k])
        BY <3>2, <3>3, <4>1
      <4>4. InChunk(s.chunk[3], s.from, s.to, then[k])
        BY <3>1, <4>2, <4>3, StaysInUse
      <4>. QED BY <1>4, <1>5, <3>3, <4>4
    <3>4. CASE s.chunk[1] # d
      BY <1>5, <3>1, <3>2, <3>4
    <3>. QED BY <3>3, <3>4
  <2>3. ASSUME NEW x \in new
        PROVE  docs'[x.chunk[1]] # No
               /\ InChunk(x.chunk[3], x.from, x.to, docs'[x.chunk[1]][x.chunk[2]])
    <3>1. PICK s \in w.spans : x.chunk = <<d, s.kind, s.chunk>> /\ x.from = s.from /\ x.to = s.to
      BY <1>7
    <3>2. x.chunk[1] = d /\ x.chunk[2] = s.kind /\ x.chunk[3] = s.chunk
      BY <3>1
    <3>. QED BY <1>1, <1>4, <1>5, <3>1, <3>2
  <2>4. \A s \in given' :
          docs'[s.chunk[1]] # No
          /\ InChunk(s.chunk[3], s.from, s.to, docs'[s.chunk[1]][s.chunk[2]])
    BY <1>3, <2>2, <2>3
  <2>. QED BY <2>1, <2>4 DEF PartsInUse
<1>9. \A s, t \in given' : s # t /\ s.chunk = t.chunk => Apart(s, t)
  <2>1. ASSUME NEW s \in given, NEW x \in new, s.chunk = x.chunk PROVE Apart(s, x)
    <3>1. PICK a \in w.spans : /\ x.chunk = <<d, a.kind, a.chunk>> /\ x.from = a.from
                               /\ a.kind \in Kinds /\ a.chunk \in Nat /\ a.from \in Nat
      BY <1>7
    <3>2. s.chunk[1] = d /\ s.chunk[2] = a.kind /\ s.chunk[3] = a.chunk
      BY <2>1, <3>1
    <3>3. docs[d] # No /\ InChunk(a.chunk, s.from, s.to, docs[d][a.kind])
      BY <1>2, <3>2 DEF PartsInUse
    <3>4. InChunk(a.chunk, s.from, s.to, pools[a.kind]) /\ Sound(pools[a.kind])
      BY <3>1, <3>3 DEF AllSound
    <3>5. After(a.chunk, a.from, pools[a.kind])
      BY <1>1
    <3>6. s.from \in Nat /\ s.to \in Nat
      BY <1>2 DEF PartsInUse, Part
    <3>7. s.to < a.from
      BY <3>1, <3>4, <3>5, <3>6, InUseBefore
    <3>. QED BY <3>1, <3>7 DEF Apart
  <2>2. ASSUME NEW x \in new, NEW y \in new, x # y, x.chunk = y.chunk PROVE Apart(x, y)
    <3>1. PICK a \in w.spans :
            /\ x.from = a.from /\ x.to = a.to /\ x.chunk = <<d, a.kind, a.chunk>>
            /\ x = [kind |-> a.kind, chunk |-> <<d, a.kind, a.chunk>>,
                    from |-> a.from, to |-> a.to]
      BY <1>7
    <3>2. PICK b \in w.spans :
            /\ y.from = b.from /\ y.to = b.to /\ y.chunk = <<d, b.kind, b.chunk>>
            /\ y = [kind |-> b.kind, chunk |-> <<d, b.kind, b.chunk>>,
                    from |-> b.from, to |-> b.to]
      BY <1>7
    <3>3. a # b
      BY <2>2, <3>1, <3>2
    <3>4. a.kind = b.kind /\ a.chunk = b.chunk
      BY <2>2, <3>1, <3>2
    <3>5. Apart(a, b)
      BY <1>1, <3>3, <3>4
    <3>. QED BY <3>1, <3>2, <3>5 DEF Apart
  <2>3. \A s, t : Apart(s, t) <=> Apart(t, s)
    BY DEF Apart
  <2>. QED BY <1>2, <1>3, <2>1, <2>2, <2>3
<1>10. held' = UNION {ChunksOf(e)' \cup {TheDoc(e)} : e \in Live'}
  <2>1. \A e : ChunksOf(e) = ChunkSet(e, docs[e]) /\ ChunksOf(e)' = ChunkSet(e, docs'[e])
    BY DEF ChunksOf, ChunkSet
  <2>2. Live' = Live \cup {d}
    BY <1>4, <1>5 DEF Live
  <2>3. \A e \in Live \ {d} : ChunksOf(e)' = ChunksOf(e)
    BY <1>5, <2>1 DEF Live
  <2>4. ChunksOf(d)' = ChunkSet(d, then)
    BY <1>5, <2>1
  <2>5. d \in Live => ChunksOf(d) \subseteq ChunkSet(d, then)
    <3>1. ChunkSet(d, pools) \subseteq ChunkSet(d, then)
      BY <1>1, ChunksRemain
    <3>. QED BY <2>1, <3>1 DEF Live
  <2>. DEFINE all(e) == ChunksOf(e) \cup {TheDoc(e)}
              now(e) == ChunksOf(e)' \cup {TheDoc(e)}
  <2>6. ASSUME NEW e \in Live \cup {d} PROVE now(e) \subseteq held'
    <3>1. CASE e = d
      BY <1>3, <2>4, <3>1
    <3>2. CASE e # d
      <4>1. now(e) = all(e) /\ e \in Live
        BY <2>3, <3>2
      <4>2. all(e) \subseteq held
        BY <1>2, <4>1
      <4>. QED BY <1>3, <4>1, <4>2
    <3>. QED BY <3>1, <3>2
  <2>7. ASSUME NEW x \in held' PROVE \E e \in Live \cup {d} : x \in now(e)
    <3>1. CASE x \in held
      <4>1. PICK e \in Live : x \in all(e)
        BY <1>2, <3>1
      <4>2. x \in now(e)
        BY <2>3, <2>4, <2>5, <4>1
      <4>. QED BY <4>2
    <3>2. CASE x \notin held
      BY <1>3, <2>4, <3>2
    <3>. QED BY <3>1, <3>2
  <2>. HIDE DEF now
  <2>8. held' = UNION {now(e) : e \in Live \cup {d}}
    BY <2>6, <2>7
  <2>. QED BY <2>2, <2>8 DEF now
<1>. QED BY <1>5, <1>6, <1>8, <1>9, <1>10 DEF DocIInv

LEMMA DocInitially == DocInit => DocIInv
<1>. SUFFICES ASSUME DocInit PROVE DocIInv
  OBVIOUS
<1>1. /\ docs = [d \in Docs |-> No] /\ held = {} /\ given = {}
  BY DEF DocInit
<1>2. Live = {}
  BY <1>1 DEF Live
<1>3. PartsInUse
  BY <1>1 DEF PartsInUse
<1>4. held = UNION {ChunksOf(d) \cup {TheDoc(d)} : d \in Live}
  BY <1>1, <1>2
<1>5. \A d \in Docs : docs[d] = No
  BY <1>1
<1>. QED BY <1>1, <1>3, <1>4, <1>5 DEF DocIInv

LEMMA DocNewStep ==
  ASSUME DocIInv, NEW d \in Docs, DocNew(d) PROVE DocIInv'
<1>1. Work(NewDoc) \in Works(NewDoc) /\ AllSound(NewDoc)
  BY NewDocSound, WorkBegins
<1>. QED BY <1>1, DoneStep DEF DocNew

LEMMA DocCopyStep ==
  ASSUME DocIInv, NEW d \in Docs, NEW strings \in Seq(Nat), NEW atOnce \in BOOLEAN,
         DocCopy(d, strings, atOnce)
  PROVE  DocIInv'
<1>1. PICK ok \in [1..(2 * Len(strings)) -> BOOLEAN] :
        IF Made(strings, atOnce, ok)[Len(strings)].failed THEN UNCHANGED docVars
        ELSE Done(d, Made(strings, atOnce, ok)[Len(strings)])
  BY DEF DocCopy, Made, MadeBy
<1>2. Made(strings, atOnce, ok)[Len(strings)] \in Works(NewDoc)
  BY CopyIs
<1>3. CASE UNCHANGED docVars
  BY <1>3 DEF DocIInv, PartsInUse, Live, ChunksOf, docVars
<1>4. CASE Done(d, Made(strings, atOnce, ok)[Len(strings)])
  BY <1>2, <1>4, NewDocSound, DoneStep DEF DocCopy
<1>. QED BY <1>1, <1>3, <1>4

LEMMA MutValStep ==
  ASSUME DocIInv, NEW d \in Docs, NEW count \in Nat \ {0}, MutVal(d, count)
  PROVE  DocIInv'
<1>1. PICK ok \in BOOLEAN : Done(d, Alloc(Work(docs[d]), "val", count, ok))
  BY DEF MutVal
<1>2. AllSound(docs[d]) /\ "val" \in Kinds
  BY DEF MutVal, DocIInv, Kinds
<1>3. Work(docs[d]) \in Works(docs[d])
  BY <1>2, WorkBegins
<1>4. Alloc(Work(docs[d]), "val", count, ok) \in Works(docs[d])
  BY <1>2, <1>3, AllocIs
<1>. QED BY <1>1, <1>2, <1>4, DoneStep

LEMMA StrcpyStep ==
  ASSUME DocIInv, NEW d \in Docs, NEW long \in Nat, Strcpy(d, long)
  PROVE  DocIInv'
<1>1. PICK ok1 \in BOOLEAN, ok2 \in BOOLEAN :
        Done(d, AllocStr(Alloc(Work(docs[d]), "val", 1, ok1), long, ok2))
  BY DEF Strcpy
<1>2. AllSound(docs[d]) /\ "val" \in Kinds /\ "str" \in Kinds
      /\ 1 \in Nat \ {0} /\ long + 1 \in Nat \ {0}
  BY DEF Strcpy, DocIInv, Kinds
<1>3. Work(docs[d]) \in Works(docs[d])
  BY <1>2, WorkBegins
<1>4. Alloc(Work(docs[d]), "val", 1, ok1) \in Works(docs[d])
  BY <1>2, <1>3, AllocIs
<1>5. Alloc(Alloc(Work(docs[d]), "val", 1, ok1), "str", long + 1, ok2) \in Works(docs[d])
  BY <1>2, <1>4, AllocIs
<1>6. Done(d, Alloc(Alloc(Work(docs[d]), "val", 1, ok1), "str", long + 1, ok2))
  BY <1>1 DEF AllocStr
<1>. QED BY <1>2, <1>5, <1>6, DoneStep

\* yyjson_mut_doc_set_str_pool_size, yyjson_mut_doc_set_val_pool_size
LEMMA PoolSizeStep ==
  ASSUME DocIInv, NEW d \in Docs, NEW k \in Kinds, NEW n \in PoolSizes, SetPoolSize(d, k, n)
  PROVE  DocIInv'
<1>. DEFINE p == docs[d][k]
            q == [p EXCEPT !.next = n + 1]
            then == [docs[d] EXCEPT ![k] = q]
<1>1. /\ docs \in [Docs -> {No} \cup [Kinds -> PoolType]] /\ docs[d] # No
      /\ AllSound(docs[d]) /\ docs[d] \in [Kinds -> PoolType] /\ n + 1 \in Nat
  BY DocAssumption DEF DocIInv, SetPoolSize, AllSound
<1>2. docs' = [docs EXCEPT ![d] = then] /\ given' = given /\ held' = held
  BY DEF SetPoolSize
<1>3. p \in PoolType /\ Sound(p)
  BY <1>1 DEF AllSound
<1>4. q \in PoolType /\ q.sizes = p.sizes /\ q.cur = p.cur
  BY <1>1, <1>3 DEF PoolType
<1>. HIDE DEF q
<1>5. Sound(q)
  BY <1>3, <1>4 DEF Sound
<1>6. then \in [Kinds -> PoolType] /\ then[k] = q /\ \A j \in Kinds \ {k} : then[j] = docs[d][j]
  BY <1>1, <1>4
<1>. HIDE DEF then
<1>7. /\ AllSound(then) /\ then # No
      /\ \A j \in Kinds : then[j].sizes = docs[d][j].sizes /\ then[j].cur = docs[d][j].cur
  BY <1>1, <1>4, <1>5, <1>6, PoolsAreDoc DEF AllSound
<1>8. /\ docs' \in [Docs -> {No} \cup [Kinds -> PoolType]]
      /\ docs'[d] = then /\ \A e \in Docs \ {d} : docs'[e] = docs[e]
  BY <1>1, <1>2, <1>6
<1>9. \A e \in Docs : docs'[e] # No => AllSound(docs'[e])
  BY <1>7, <1>8 DEF DocIInv
<1>10. PartsInUse'
  <2>1. given' \subseteq Part
    BY <1>2 DEF DocIInv, PartsInUse
  <2>2. ASSUME NEW s \in given
        PROVE  docs'[s.chunk[1]] # No
               /\ InChunk(s.chunk[3], s.from, s.to, docs'[s.chunk[1]][s.chunk[2]])
    <3>1. s.chunk[1] \in Docs /\ s.chunk[2] \in Kinds
      BY DEF DocIInv, PartsInUse, Part
    <3>2. docs[s.chunk[1]] # No
          /\ InChunk(s.chunk[3], s.from, s.to, docs[s.chunk[1]][s.chunk[2]])
      BY DEF DocIInv, PartsInUse
    <3>3. CASE s.chunk[1] = d
      <4>1. InChunk(s.chunk[3], s.from, s.to, docs[d][s.chunk[2]])
        BY <3>2, <3>3
      <4>2. InChunk(s.chunk[3], s.from, s.to, then[s.chunk[2]])
        BY <1>7, <3>1, <4>1 DEF InChunk
      <4>. QED BY <1>7, <1>8, <3>3, <4>2
    <3>4. CASE s.chunk[1] # d
      BY <1>8, <3>1, <3>2, <3>4
    <3>. QED BY <3>3, <3>4
  <2>. QED BY <1>2, <2>1, <2>2 DEF PartsInUse
<1>11. Live' = Live /\ \A e \in Docs : ChunksOf(e)' = ChunksOf(e)
  <2>1. \A e \in Docs : docs'[e] # No <=> docs[e] # No
    BY <1>1, <1>7, <1>8
  <2>2. \A e \in Docs, j \in Kinds : docs[e] # No => docs'[e][j].sizes = docs[e][j].sizes
    BY <1>7, <1>8
  <2>3. ChunksOf(d)' = ChunksOf(d)
    BY <1>7, <1>8 DEF ChunksOf
  <2>4. \A e \in Docs \ {d} : ChunksOf(e)' = ChunksOf(e)
    BY <1>8 DEF ChunksOf
  <2>. QED BY <2>1, <2>3, <2>4 DEF Live
<1>12. held' = UNION {ChunksOf(e)' \cup {TheDoc(e)} : e \in Live'}
  <2>1. held = UNION {ChunksOf(e) \cup {TheDoc(e)} : e \in Live} /\ Live \subseteq Docs
    BY DEF DocIInv, Live
  <2>. QED BY <1>2, <1>11, <2>1
<1>13. \A s, t \in given' : s # t /\ s.chunk = t.chunk => Apart(s, t)
  BY <1>2 DEF DocIInv
<1>. QED BY <1>8, <1>9, <1>10, <1>12, <1>13 DEF DocIInv

\* yyjson_mut_doc_free
LEMMA DocFreeStep ==
  ASSUME DocIInv, NEW d \in Docs, DocFree(d) PROVE DocIInv'
<1>1. /\ docs \in [Docs -> {No} \cup [Kinds -> PoolType]] /\ docs[d] # No
      /\ docs' = [docs EXCEPT ![d] = No]
      /\ held' = held \ (ChunksOf(d) \cup {TheDoc(d)})
      /\ given' = {s \in given : s.chunk[1] # d}
      /\ held = UNION {ChunksOf(e) \cup {TheDoc(e)} : e \in Live}
  BY DEF DocIInv, DocFree
<1>2. /\ docs' \in [Docs -> {No} \cup [Kinds -> PoolType]]
      /\ docs'[d] = No /\ \A e \in Docs \ {d} : docs'[e] = docs[e]
  BY <1>1
<1>3. \A e \in Docs : docs'[e] # No => AllSound(docs'[e])
  BY <1>2 DEF DocIInv
<1>4. PartsInUse'
  <2>1. given' \subseteq given
    BY <1>1
  <2>2. ASSUME NEW s \in given'
        PROVE  docs'[s.chunk[1]] # No
               /\ InChunk(s.chunk[3], s.from, s.to, docs'[s.chunk[1]][s.chunk[2]])
    <3>1. s \in given /\ s.chunk[1] # d
      BY <1>1
    <3>2. s.chunk[1] \in Docs
      BY <3>1 DEF DocIInv, PartsInUse, Part
    <3>. QED BY <1>2, <3>1, <3>2 DEF DocIInv, PartsInUse
  <2>. QED BY <2>1, <2>2 DEF DocIInv, PartsInUse
<1>5. \A s, t \in given' : s # t /\ s.chunk = t.chunk => Apart(s, t)
  BY <1>1 DEF DocIInv
<1>6. Live' = Live \ {d} /\ \A e \in Live \ {d} : ChunksOf(e)' = ChunksOf(e)
  BY <1>2 DEF Live, ChunksOf
<1>7. ASSUME NEW e \in Live, e # d, NEW x \in ChunksOf(e) \cup {TheDoc(e)}
      PROVE  x \notin ChunksOf(d) \cup {TheDoc(d)}
  <2>1. \A f \in Live : \A y \in ChunksOf(f) : y[1] = f
    BY DEF ChunksOf, TheChunk
  <2>2. \A f : TheDoc(f)[1] = f
    BY DEF TheDoc
  <2>3. d \in Live
    BY <1>1 DEF Live
  <2>4. x[1] = e
    BY <2>1, <2>2
  <2>. QED BY <1>7, <2>1, <2>2, <2>3, <2>4
<1>8. held' = UNION {ChunksOf(e) \cup {TheDoc(e)} : e \in Live \ {d}}
  BY <1>1, <1>7
<1>9. held' = UNION {ChunksOf(e)' \cup {TheDoc(e)} : e \in Live'}
  BY <1>6, <1>8
<1>. QED BY <1>2, <1>3, <1>4, <1>5, <1>9 DEF DocIInv

LEMMA DocStep == DocIInv /\ [DocNext]_docVars => DocIInv'
<1>. SUFFICES ASSUME DocIInv, [DocNext]_docVars PROVE DocIInv'
  OBVIOUS
<1>1. ASSUME NEW d \in Docs, DocNew(d) PROVE DocIInv'
  BY <1>1, DocNewStep
<1>2. ASSUME NEW d \in Docs, DocFree(d) PROVE DocIInv'
  BY <1>2, DocFreeStep
<1>3. ASSUME NEW d \in Docs, NEW k \in Kinds, NEW n \in PoolSizes, SetPoolSize(d, k, n)
      PROVE  DocIInv'
  BY <1>3, PoolSizeStep
<1>4. ASSUME NEW d \in Docs, NewValue(d) PROVE DocIInv'
  BY <1>4, MutValStep DEF NewValue
<1>5. ASSUME NEW d \in Docs, NEW count \in Counts, MutVal(d, count) PROVE DocIInv'
  <2>1. count \in Nat \ {0}
    BY DocAssumption
  <2>. QED BY <1>5, <2>1, MutValStep
<1>6. ASSUME NEW d \in Docs, NEW long \in Lens, Strcpy(d, long) PROVE DocIInv'
  <2>1. long \in Nat
    BY DocAssumption
  <2>. QED BY <1>6, <2>1, StrcpyStep
<1>7. ASSUME NEW d \in Docs, NEW a \in Lens, NEW b \in Lens, NEW atOnce \in BOOLEAN,
             DocCopy(d, <<a, b>>, atOnce)
      PROVE  DocIInv'
  <2>1. <<a, b>> \in Seq(Nat)
    BY DocAssumption
  <2>. QED BY <1>7, <2>1, DocCopyStep
<1>8. CASE UNCHANGED docVars
  BY <1>8 DEF DocIInv, PartsInUse, Live, ChunksOf, docVars
<1>. QED BY <1>1, <1>2, <1>3, <1>4, <1>5, <1>6, <1>7, <1>8 DEF DocNext

\* For any documents, strings and sizes of pools, and whatever allocation fails:
\* what a document has handed out lies in a chunk that it holds, parts do not
\* overlap, and what is held belongs to a document that exists
\* (unsafe_yyjson_mut_str_alc, unsafe_yyjson_mut_val, yyjson_mut_doc_free).
THEOREM RoomOfDocuments == DocSpec => []RoomIsOwned
<1>1. DocIInv => RoomIsOwned
  <2>. SUFFICES ASSUME DocIInv PROVE RoomIsOwned
    OBVIOUS
  <2>1. /\ PartsInUse /\ docs \in [Docs -> {No} \cup [Kinds -> PoolType]]
        /\ \A d \in Docs : docs[d] # No => AllSound(docs[d])
        /\ held = UNION {ChunksOf(d) \cup {TheDoc(d)} : d \in Live}
        /\ \A s, t \in given : s # t /\ s.chunk = t.chunk => Apart(s, t)
    BY DEF DocIInv
  <2>2. ASSUME NEW s \in given
        PROVE  /\ s.chunk \in held
               /\ s.from >= 1 /\ s.to < docs[s.chunk[1]][s.chunk[2]].sizes[s.chunk[3]]
    <3>. DEFINE d == s.chunk[1]
                k == s.chunk[2]
                n == s.chunk[3]
    <3>1. /\ d \in Docs /\ k \in Kinds /\ s.chunk = <<d, k, n>> /\ s.from \in Nat
      BY <2>1 DEF PartsInUse, Part
    <3>2. docs[d] # No /\ InChunk(n, s.from, s.to, docs[d][k])
      BY <2>1 DEF PartsInUse
    <3>. HIDE DEF d, k, n
    <3>3. n \in 1 .. Len(docs[d][k].sizes) /\ 1 <= s.from /\ s.to < docs[d][k].sizes[n]
      BY <3>2 DEF InChunk
    <3>4. s.chunk \in ChunkSet(d, docs[d])
      BY <2>1, <3>1, <3>2, <3>3, ChunksAre
    <3>5. d \in Live /\ s.chunk \in ChunksOf(d)
      BY <3>1, <3>2, <3>4 DEF Live, ChunksOf, ChunkSet
    <3>6. s.chunk \in held
      BY <2>1, <3>5
    <3>. QED BY <3>1, <3>3, <3>6 DEF d, k, n
  <2>3. \A s, t \in given : s # t => ~Overlap(s, t)
    <3>. SUFFICES ASSUME NEW s \in given, NEW t \in given, s # t, Overlap(s, t) PROVE FALSE
      OBVIOUS
    <3>1. s.from \in Nat /\ s.to \in Nat /\ t.from \in Nat /\ t.to \in Nat
      BY <2>1 DEF PartsInUse, Part
    <3>. QED BY <2>1, <3>1 DEF Overlap, Apart
  <2>. QED BY <2>1, <2>2, <2>3 DEF RoomIsOwned
<1>. QED BY <1>1, DocInitially, DocStep, PTL DEF DocSpec

-----------------------------------------------------------------------------
(* Files, of any size, read in pieces of any size.                         *)


Places == {"idle", "measure", "whole", "pieces", "parse", "write", "close"}
Results == {"none", "doc", "error", "true", "false"}

FileTypeOK ==
  /\ disk \in Nat
  /\ changed \in BOOLEAN
  /\ fat \in Places
  /\ ours \in BOOLEAN /\ open \in BOOLEAN
  /\ fpos \in Nat /\ begun \in Nat
  /\ fileSize \in Int /\ short \in Nat
  /\ bufSize \in Nat /\ chunkNow \in Nat
  /\ written \in [length : Nat, pending : Nat, result : Results]

\* What was read so far is behind the position where the reading began, and it
\* is counted; the counting starts below zero when the file became shorter.
Counted ==
  /\ begun <= fpos
  /\ fileSize = fpos - begun - short
  /\ short > 0 => changed

\* There is a buffer for a document, for the text that is written, and for the
\* pieces once there is one, with room for the padding behind them.
NoBuffer ==
  /\ fat \in {"measure", "whole"} => bufSize = 0
  /\ fat = "idle" /\ written.result # "doc" => bufSize = 0
RoomForPieces ==
  fat = "pieces" =>
    /\ Counted
    /\ \/ fileSize <= 0 /\ bufSize = 0
       \/ fileSize + Padding <= bufSize
RoomForAll == fat = "parse" => Counted /\ fileSize + Padding <= bufSize

\* Before the size is taken the position is where the reading begins, in a file
\* that is as long as it was; the size is what is left of that.
SizeTaken ==
  /\ fat = "measure" /\ ~changed => fpos <= disk
  /\ fat = "whole" => fileSize > 0 /\ fpos = begun /\ short = 0

\* The file of a call is open while the call runs only.
ClosedAgain ==
  /\ fat = "idle" /\ ours => ~open
  /\ fat = "close" => ours

\* What the text's length and its pending part say of the disk.
TextOnDisk ==
  /\ fat = "close" /\ ~changed => disk + written.pending = begun + written.length
  /\ fat = "idle" /\ written.result = "true" /\ ~changed =>
       IF ours THEN disk = begun + written.length
       ELSE disk + written.pending = begun + written.length

FInv == FileTypeOK /\ NoBuffer /\ RoomForPieces /\ RoomForAll /\ SizeTaken
        /\ ClosedAgain /\ TextOnDisk

-----------------------------------------------------------------------------
(* Lemmas.                                                                 *)

\* The smaller of two numbers is one of them, and no larger than either.
LEMMA MinOfTwo ==
  ASSUME NEW a \in Nat, NEW b \in Nat
  PROVE  Min({a, b}) \in {a, b} /\ Min({a, b}) <= a /\ Min({a, b}) <= b
<1>1. \E x \in {a, b} : \A y \in {a, b} : x <= y
  <2>1. CASE a <= b
    BY <2>1
  <2>2. CASE b <= a
    BY <2>2
  <2>. QED BY <2>1, <2>2
<1>. QED BY <1>1 DEF Min

\* fread_safe returns no more than it was asked for and no more than there is.
LEMMA FreadBounded ==
  ASSUME FileTypeOK, NEW n \in Nat, NEW r \in Fread(n)
  PROVE  r \in Nat /\ r <= n
<1>1. Rest \in Nat
  BY DEF Rest, FileTypeOK
<1>. QED BY <1>1, MinOfTwo DEF Fread

\* A text that is not written yet.
LEMMA TextSet ==
  /\ NoText \in [length : Nat, pending : Nat, result : Results]
  /\ \A n \in Nat : [NoText EXCEPT !.length = n]
                     \in [length : Nat, pending : Nat, result : Results]
<1>1. "none" \in Results /\ 0 \in Nat
  BY DEF Results
<1>2. NoText \in [length : Nat, pending : Nat, result : Results]
  BY <1>1 DEF NoText
<1>. QED BY <1>2

\* What the return from a call does to the invariant's parts.
LEMMA Returning ==
  ASSUME FileTypeOK, ClosedAgain, fat # "idle",
         NEW r \in {"doc", "error", "true", "false"}, Return(r), UNCHANGED ours
  PROVE  /\ fat' = "idle" /\ open' \in BOOLEAN
         /\ bufSize' \in Nat
         /\ written' \in [length : Nat, pending : Nat, result : Results]
         /\ written'.result = r
         /\ written'.length = written.length /\ written'.pending = written.pending
         /\ r # "doc" => bufSize' = 0
         /\ ours => ~open'
BY DEF FileTypeOK, ClosedAgain, Return, Returned, Results

-----------------------------------------------------------------------------
(* The inductive invariant.                                                *)

LEMMA FileInitially == FileInit => FInv
<1>. SUFFICES ASSUME FileInit PROVE FInv
  OBVIOUS
<1>1. FileTypeOK
  <2>1. "idle" \in Places /\ Sizes0 \subseteq Nat
    BY FileAssumption DEF Places, Sizes0
  <2>2. written \in [length : Nat, pending : Nat, result : Results]
    BY TextSet DEF FileInit
  <2>3. changed \in BOOLEAN /\ ours \in BOOLEAN /\ open \in BOOLEAN /\ short \in Nat
    BY DEF FileInit
  <2>4. /\ fpos \in Nat /\ begun \in Nat /\ fileSize \in Int
        /\ bufSize \in Nat /\ chunkNow \in Nat
    BY DEF FileInit
  <2>5. disk \in Nat /\ fat \in Places
    BY <2>1 DEF FileInit
  <2>. QED BY <2>2, <2>3, <2>4, <2>5 DEF FileTypeOK
<1>. QED BY <1>1 DEF FileInit, FInv, NoBuffer, RoomForPieces, RoomForAll, SizeTaken,
            ClosedAgain, TextOnDisk, NoText

LEMMA FileStep == FInv /\ [FileNext]_fileVars => FInv'
<1>. SUFFICES ASSUME FInv, [FileNext]_fileVars PROVE FInv'
  OBVIOUS
<1>. USE FileAssumption
<1>. USE DEF FInv
<1>1. CASE Others
  BY <1>1 DEF Others, FileTypeOK, NoBuffer, RoomForPieces, RoomForAll, SizeTaken,
       ClosedAgain, TextOnDisk, Counted, Sizes0, Places, Results
<1>2. CASE Another
  <2>1. FileTypeOK'
    <3>1. written' \in [length : Nat, pending : Nat, result : Results]
      BY <1>2, TextSet DEF Another
    <3>2. disk' \in Sizes0 /\ bufSize' = 0
      BY <1>2 DEF Another
    <3>4. open' \in BOOLEAN
      BY <1>2 DEF Another
    <3>3. UNCHANGED <<changed, fat, ours, fpos, begun, fileSize, short, chunkNow>>
      BY <1>2 DEF Another
    <3>5. disk' \in Nat /\ bufSize' \in Nat
      BY <3>2 DEF Sizes0
    <3>. QED BY <3>1, <3>3, <3>4, <3>5 DEF FileTypeOK
  <2>. QED BY <1>2, <2>1 DEF Another, NoBuffer, RoomForPieces, RoomForAll, SizeTaken,
              ClosedAgain, TextOnDisk, NoText
<1>3. CASE BeginRead
  <2>1. fpos' \in Nat /\ fpos' <= disk
    BY <1>3 DEF BeginRead, FileTypeOK
  <2>. QED BY <1>3, <2>1 DEF BeginRead, FileTypeOK, NoBuffer, RoomForPieces, RoomForAll,
              SizeTaken, ClosedAgain, TextOnDisk, Places, Results
<1>4. CASE OpenFails
  BY <1>4 DEF OpenFails, Returned, FileTypeOK, NoBuffer, RoomForPieces, RoomForAll,
       SizeTaken, ClosedAgain, TextOnDisk, Places, Results
<1>5. CASE Measure
  <2>. USE DEF FileTypeOK
  <2>1. /\ fat = "measure"
        /\ begun' = fpos' /\ fat' = (IF fileSize' > 0 THEN "whole" ELSE "pieces")
        /\ chunkNow' = ChunkMin
        /\ UNCHANGED <<disk, changed, ours, open, bufSize, written>>
    BY <1>5 DEF Measure
  <2>2. /\ fpos' \in Nat /\ fileSize' \in Int
        /\ fileSize' < 0 => changed
    BY <1>5 DEF Measure, SizeTaken
  <2>5. PICK size \in Int, less \in Nat :
          /\ size = fileSize' /\ less = short'
          /\ IF size < 0 THEN less = 0 - size ELSE less = 0
    <3>1. PICK size \in Int : size = fileSize'
      BY <2>2
    <3>2. PICK less \in Int : less = IF size < 0 THEN 0 - size ELSE 0
      OBVIOUS
    <3>3. less = short'
      BY <1>5, <3>1, <3>2 DEF Measure
    <3>4. less \in Nat
      BY ONLY <3>2, size \in Int, less \in Int
    <3>. QED BY <3>1, <3>2, <3>3, <3>4
  <2>7. IF size < 0 THEN less = 0 - size ELSE less = 0
    BY <2>5
  <2>3. FileTypeOK'
    BY <2>1, <2>2, <2>5 DEF Places
  <2>4. RoomForPieces'
    <3>1. bufSize' = 0
      BY <2>1 DEF NoBuffer
    <3>2. fat' = "pieces" => size <= 0
      BY <2>1, <2>5
    <3>3. size <= 0 => size = 0 - less /\ (less > 0 => size < 0)
      BY ONLY size \in Int, less \in Nat, <2>7
    <3>4. ASSUME size <= 0 PROVE Counted'
      <4>1. begun' <= fpos' /\ fpos' - begun' = 0
        <5>1. PICK at \in Nat : at = fpos'
          BY <2>2
        <5>2. at <= at /\ at - at = 0
          OBVIOUS
        <5>. QED BY <2>1, <5>1, <5>2
      <4>2. fileSize' = fpos' - begun' - short'
        BY ONLY size \in Int, less \in Nat, <2>5, <3>3, <3>4, <4>1
      <4>3. short' > 0 => changed'
        BY <2>1, <2>2, <2>5, <3>3, <3>4
      <4>. QED BY <4>1, <4>2, <4>3 DEF Counted
    <3>. QED BY <2>5, <3>1, <3>2, <3>4 DEF RoomForPieces
  <2>6. SizeTaken'
    <3>1. fat' # "measure" /\ (fat' = "whole" => size > 0)
      BY <2>1, <2>5
    <3>2. size > 0 => less = 0
      BY ONLY size \in Int, less \in Nat, <2>7
    <3>. QED BY <2>1, <2>5, <3>1, <3>2 DEF SizeTaken
  <2>. QED BY <2>1, <2>3, <2>4, <2>6 DEF NoBuffer, RoomForAll, ClosedAgain, TextOnDisk
<1>6. CASE ReadWhole
  <2>. USE DEF FileTypeOK
  <2>. fat = "whole" /\ fileSize \in Nat
    BY <1>6 DEF ReadWhole, SizeTaken
  <2>1. ASSUME NEW n \in Fread(fileSize), n = fileSize, fpos' = fpos + n,
               bufSize' = fileSize + Padding, fat' = "parse",
               UNCHANGED <<open, written, disk, changed, ours, begun, fileSize, short, chunkNow>>
        PROVE  FInv'
    BY <2>1 DEF NoBuffer, RoomForPieces, RoomForAll, SizeTaken, ClosedAgain,
         TextOnDisk, Counted, Places, Results
  <2>2. ASSUME Return("error"), fpos' \in Nat,
               UNCHANGED <<disk, changed, ours, begun, fileSize, short, chunkNow>>
        PROVE  FInv'
    BY <2>2, Returning DEF NoBuffer, RoomForPieces, RoomForAll, SizeTaken,
         ClosedAgain, TextOnDisk, Places
  <2>. QED BY <1>6, <2>1, <2>2, FreadBounded DEF ReadWhole
<1>7. CASE ReadPiece
  <2>. USE DEF FileTypeOK
  <2>. fat = "pieces" /\ chunkNow \in Nat
    BY <1>7 DEF ReadPiece
  <2>1. ASSUME NEW n \in Fread(chunkNow), fpos' = fpos + n, bufSize' = GrownBuf,
               fileSize' = fileSize + n,
               \/ chunkNow' = Min({2 * chunkNow, ChunkMax}) /\ UNCHANGED fat
               \/ fat' = "parse" /\ UNCHANGED chunkNow,
               UNCHANGED <<open, written, disk, changed, ours, begun, short>>
        PROVE  FInv'
    <3>1. n \in Nat /\ n <= chunkNow
      BY <2>1, FreadBounded
    <3>2. chunkNow' \in Nat
      BY <2>1, MinOfTwo
    <3>3. bufSize' \in Nat /\ fileSize' + Padding <= bufSize'
      BY <2>1, <3>1 DEF GrownBuf, RoomForPieces
    <3>4. Counted'
      BY <2>1, <3>1 DEF RoomForPieces, Counted
    <3>. QED BY <2>1, <3>1, <3>2, <3>3, <3>4 DEF NoBuffer, RoomForPieces, RoomForAll,
                SizeTaken, ClosedAgain, TextOnDisk, Places
  <2>2. ASSUME Return("error"),
               UNCHANGED <<fpos, disk, changed, ours, begun, fileSize, short, chunkNow>>
        PROVE  FInv'
    BY <2>2, Returning DEF NoBuffer, RoomForPieces, RoomForAll, SizeTaken,
         ClosedAgain, TextOnDisk, Places
  <2>. QED BY <1>7, <2>1, <2>2 DEF ReadPiece
<1>8. CASE Parse
  <2>. USE DEF FileTypeOK
  <2>1. PICK r \in {"doc", "error"} : Return(r)
    BY <1>8 DEF Parse
  <2>. QED BY <1>8, <2>1, Returning DEF Parse, NoBuffer, RoomForPieces, RoomForAll,
              SizeTaken, ClosedAgain, TextOnDisk, Places
<1>9. CASE BeginWrite
  <2>1. FileTypeOK'
    <3>1. "write" \in Places /\ Sizes0 \subseteq Nat
      BY DEF Places, Sizes0
    <3>. QED BY <1>9, <3>1, TextSet DEF BeginWrite, FileTypeOK
  <2>. QED BY <1>9, <2>1 DEF BeginWrite, NoBuffer, RoomForPieces, RoomForAll,
              SizeTaken, ClosedAgain, TextOnDisk
<1>10. CASE Fwrite
  <2>. USE DEF FileTypeOK
  <2>1. PICK n \in 0..written.length :
          /\ disk' = begun + n
          /\ \/ n < written.length /\ Return("false")
             \/ /\ ~ours /\ fat' = "idle" /\ bufSize' = 0
                /\ written' = [written EXCEPT !.pending = written.length - n,
                                              !.result = "true"]
                /\ UNCHANGED open
             \/ /\ ours /\ fat' = "close"
                /\ written' = [written EXCEPT !.pending = written.length - n]
                /\ UNCHANGED <<open, bufSize>>
    BY <1>10, Zenon DEF Fwrite
  <2>2. n \in Nat /\ written.length - n \in Nat
    OBVIOUS
  <2>3. /\ fat = "write"
        /\ UNCHANGED <<changed, ours, fpos, begun, fileSize, short, chunkNow>>
    BY <1>10 DEF Fwrite
  <2>4. CASE Return("false")
    BY <2>1, <2>2, <2>3, <2>4, Returning DEF NoBuffer, RoomForPieces, RoomForAll,
         SizeTaken, ClosedAgain, TextOnDisk, Places
  <2>5. CASE /\ ~ours /\ fat' = "idle" /\ bufSize' = 0
             /\ written' = [written EXCEPT !.pending = written.length - n,
                                           !.result = "true"]
             /\ UNCHANGED open
    <3>1. /\ written' \in [length : Nat, pending : Nat, result : Results]
          /\ written'.length = written.length
          /\ written'.pending = written.length - n
          /\ written'.result = "true"
      BY <2>2, <2>5 DEF Results
    <3>. QED BY <2>1, <2>2, <2>3, <2>5, <3>1 DEF NoBuffer, RoomForPieces, RoomForAll,
                SizeTaken, ClosedAgain, TextOnDisk, Places
  <2>6. CASE /\ ours /\ fat' = "close"
             /\ written' = [written EXCEPT !.pending = written.length - n]
             /\ UNCHANGED <<open, bufSize>>
    BY <2>1, <2>2, <2>3, <2>6 DEF NoBuffer, RoomForPieces, RoomForAll,
         SizeTaken, ClosedAgain, TextOnDisk, Places, Results
  <2>. QED BY <2>1, <2>4, <2>5, <2>6
<1>11. CASE Fclose
  <2>. USE DEF FileTypeOK
  <2>1. PICK n \in 0..written.pending :
          /\ disk' = disk + n
          /\ Return(IF n = written.pending THEN "true" ELSE "false")
    BY <1>11 DEF Fclose
  <2>. QED BY <1>11, <2>1, Returning DEF Fclose, NoBuffer, RoomForPieces, RoomForAll,
              SizeTaken, ClosedAgain, TextOnDisk, Places
<1>12. CASE UNCHANGED fileVars
  BY <1>12 DEF fileVars, FileTypeOK, NoBuffer, RoomForPieces, RoomForAll, SizeTaken,
       ClosedAgain, TextOnDisk, Counted
<1>. QED BY <1>1, <1>2, <1>3, <1>4, <1>5, <1>6, <1>7, <1>8, <1>9, <1>10, <1>11, <1>12
         DEF FileNext, BeginMutWrite

\* What the invariant says of a file at rest and of one that is parsed.
LEMMA FileWhole == FInv => FilesWhole
<1>. SUFFICES ASSUME FInv PROVE FilesWhole
  OBVIOUS
<1>1. ASSUME fat = "parse"
      PROVE  /\ fileSize + Padding <= bufSize
             /\ fileSize = fpos - begun - short
             /\ IF short = 0 THEN fileSize >= 0 ELSE short > 0 /\ changed
  BY <1>1 DEF FInv, FileTypeOK, RoomForAll, Counted
<1>. QED BY <1>1 DEF FInv, FilesWhole, NoBuffer, ClosedAgain, TextOnDisk

-----------------------------------------------------------------------------
\* In every behaviour of yyjson_read_fp, yyjson_read_file and the functions that
\* write, with files of every size that may change meanwhile, what is parsed is
\* what was read and lies in its buffer with the padding, unless the file had become
\* shorter than the position when its size was taken; buffers and files do not
\* outlive their calls, and a text that is said to be written is written.
THEOREM FilesAreWhole == FileSpec => []FilesWhole
<1>1. FileSpec => []FInv
  BY FileInitially, FileStep, PTL DEF FileSpec
<1>. QED BY <1>1, FileWhole, PTL

-----------------------------------------------------------------------------
(* Arrays.  The values lie as a ring, in which each edit changes the next  *)
(* of one or two of them.                                                  *)

\* Ahead, of any list N.
Steps(N, v, n) == LET at[i \in 0..n] == IF i = 0 THEN v ELSE N[at[i - 1]] IN at[n]

\* The member i of a ring: the last one is in front of the first, and the first
\* behind the last.
RingAt(s, i) == s[IF i = 0 THEN Len(s) ELSE IF i = Len(s) + 1 THEN 1 ELSE i]

\* The sequence s of n values lies in N as a ring, whose last value is p.
Ring(s, N, p, n) ==
  /\ n \in Nat /\ s \in Seq(Values) /\ Len(s) = n /\ Distinct(s)
  /\ N \in [Values -> Nat]
  /\ n > 0 => p = s[n]
  /\ \A i \in 1 .. n : N[s[i]] = RingAt(s, i + 1)

\* A step along the list is a step along the ring.
LEMMA StepsAlong ==
  ASSUME NEW s, NEW N, NEW p, NEW n \in Nat, Ring(s, N, p, n), n > 0,
         NEW a \in Nat, NEW m \in Nat, a + m <= n + 1
  PROVE  Steps(N, RingAt(s, a), m) = RingAt(s, a + m)
<1>. DEFINE v == RingAt(s, a)
            Eq(g) == g = [i \in 0..m |-> IF i = 0 THEN v ELSE N[g[i - 1]]]
            f == [i \in 0..m |-> RingAt(s, a + i)]
<1>1. ASSUME NEW j \in 0 .. n
      PROVE  N[RingAt(s, j)] = RingAt(s, j + 1)
  <2>1. CASE j = 0
    <3>1. N[s[n]] = RingAt(s, n + 1) /\ n \in 1 .. n
      BY DEF Ring
    <3>2. RingAt(s, j) = s[n] /\ RingAt(s, n + 1) = s[1] /\ RingAt(s, 1) = s[1]
      BY <2>1 DEF Ring, RingAt
    <3>. QED BY <2>1, <3>1, <3>2
  <2>2. CASE j # 0
    <3>1. RingAt(s, j) = s[j] /\ j \in 1 .. n
      BY <2>2 DEF Ring, RingAt
    <3>. QED BY <3>1 DEF Ring
  <2>. QED BY <2>1, <2>2
<1>2. Eq(f)
  <2>1. ASSUME NEW i \in 0..m, i # 0
        PROVE  RingAt(s, a + i) = N[f[i - 1]]
    <3>1. i - 1 \in 0..m /\ a + (i - 1) \in 0 .. n /\ (a + (i - 1)) + 1 = a + i
      BY <2>1
    <3>2. f[i - 1] = RingAt(s, a + (i - 1))
      BY <3>1
    <3>. HIDE DEF f
    <3>. QED BY <1>1, <3>1, <3>2
  <2>2. RingAt(s, a + 0) = v
    BY DEF RingAt
  <2>. HIDE DEF v
  <2>3. f = [i \in 0..m |-> IF i = 0 THEN v ELSE N[f[i - 1]]]
    <3>1. \A i \in 0..m : RingAt(s, a + i) = IF i = 0 THEN v ELSE N[f[i - 1]]
      BY <2>1, <2>2
    <3>2. f = [i \in 0..m |-> RingAt(s, a + i)]
      OBVIOUS
    <3>. HIDE DEF f
    <3>. QED BY <3>1, <3>2
  <2>. QED BY <2>3
<1>3. ASSUME NEW g, Eq(g)
      PROVE  g[m] = f[m]
  <2>. DEFINE Off == {i \in 0..m : g[i] # f[i]}
  <2>1. ASSUME Off # {} PROVE FALSE
    <3>1. PICK i \in Off : \A j \in Off : i <= j
      <4>1. Off \subseteq Nat
        OBVIOUS
      <4>. HIDE DEF Off
      <4>. QED BY <2>1, <4>1, LeastNumber
    <3>. HIDE DEF f, v
    <3>2. i \in 0..m /\ g[i] # f[i]
      BY <3>1
    <3>3. i - 1 \in 0..m => g[i - 1] = f[i - 1]
      BY <3>1
    <3>4. /\ g[i] = IF i = 0 THEN v ELSE N[g[i - 1]]
          /\ f[i] = IF i = 0 THEN v ELSE N[f[i - 1]]
      <4>1. \A h : Eq(h) => h[i] = IF i = 0 THEN v ELSE N[h[i - 1]]
        BY <3>2
      <4>. QED BY <1>2, <1>3, <4>1
    <3>. QED BY <3>2, <3>3, <3>4
  <2>. QED BY <2>1
<1>4. Steps(N, v, m) = (CHOOSE g : Eq(g))[m]
  BY DEF Steps
<1>5. f[m] = RingAt(s, a + m)
  OBVIOUS
<1>. HIDE DEF Eq, f
<1>. QED BY <1>2, <1>3, <1>4, <1>5

\* Items, of any list.
ItemsOf(N, p, n) ==
  [i \in 1..n |-> IF i = n THEN p ELSE IF i = 1 THEN N[p] ELSE Steps(N, p, i - 1 + 1)]

\* The list is known by its last value.
LEMMA RingIs ==
  ASSUME NEW s, NEW N, NEW p, NEW n, Ring(s, N, p, n)
  PROVE  /\ ItemsOf(N, p, n) = s
         /\ {Steps(N, p, i) : i \in 1..n} = {s[i] : i \in 1..n}
         /\ n > 0 => \A i \in 0 .. (n + 1) : Steps(N, p, i) = RingAt(s, i)
<1>1. n \in Nat /\ s \in Seq(Values) /\ Len(s) = n
  BY DEF Ring
<1>2. ASSUME n > 0
      PROVE  \A i \in 0 .. (n + 1) : Steps(N, p, i) = RingAt(s, i)
  <2>1. p = RingAt(s, 0)
    BY <1>2 DEF Ring, RingAt
  <2>2. ASSUME NEW i \in 0 .. (n + 1)
        PROVE  Steps(N, p, i) = RingAt(s, i)
    <3>1. Steps(N, RingAt(s, 0), i) = RingAt(s, 0 + i)
      BY <1>1, <1>2, StepsAlong
    <3>. QED BY <2>1, <3>1
  <2>. QED BY <2>2
<1>3. \A i \in 1..n : Steps(N, p, i) = s[i]
  BY <1>1, <1>2 DEF RingAt
<1>4. ASSUME NEW i \in 1..n
      PROVE  (IF i = n THEN p ELSE IF i = 1 THEN N[p] ELSE Steps(N, p, i - 1 + 1)) = s[i]
  <2>1. i - 1 + 1 = i
    BY <1>1
  <2>2. p = s[n] /\ N[s[n]] = s[1]
    BY <1>1 DEF Ring, RingAt
  <2>. QED BY <1>3, <2>1, <2>2
<1>5. s = [i \in 1..n |-> s[i]]
  BY <1>1
<1>6. ItemsOf(N, p, n) = s
  BY <1>4, <1>5 DEF ItemsOf
<1>7. {Steps(N, p, i) : i \in 1..n} = {s[i] : i \in 1..n}
  BY <1>3
<1>. QED BY <1>2, <1>6, <1>7

LEMMA RingOfOne ==
  ASSUME NEW N \in [Values -> Nat], NEW v \in Values
  PROVE  Ring(<<v>>, [N EXCEPT ![v] = v], v, 1)
<1>1. <<v>> \in Seq(Values) /\ Len(<<v>>) = 1 /\ <<v>>[1] = v
  OBVIOUS
<1>2. Distinct(<<v>>)
  BY DEF Distinct
<1>3. [N EXCEPT ![v] = v] \in [Values -> Nat] /\ [N EXCEPT ![v] = v][v] = v
  BY DEF Values
<1>4. \A i \in 1 .. 1 : [N EXCEPT ![v] = v][<<v>>[i]] = RingAt(<<v>>, i + 1)
  BY <1>1, <1>3 DEF RingAt
<1>. QED BY <1>1, <1>2, <1>3, <1>4 DEF Ring

LEMMA EmptyRing ==
  ASSUME NEW s, NEW N, NEW p, NEW n, Ring(s, N, p, n)
  PROVE  Ring(<<>>, N, p, 0)
BY DEF Ring, Distinct

\* A value that goes in at i is the next of the one in front of it.
LEMMA RingInserted ==
  ASSUME NEW s, NEW N, NEW p, NEW n, Ring(s, N, p, n), n > 0,
         NEW v \in Values, \A k \in 1 .. n : s[k] # v, NEW i \in 1 .. (n + 1),
         NEW q, q = RingAt(s, i - 1)
  PROVE  Ring(InsertAt(s, i, v), [N EXCEPT ![q] = v, ![v] = N[q]],
              IF i = n + 1 THEN v ELSE p, n + 1)
<1>. DEFINE t == InsertAt(s, i, v)
            M == [N EXCEPT ![q] = v, ![v] = N[q]]
            e == IF i = n + 1 THEN v ELSE p
<1>1. n \in Nat /\ s \in Seq(Values) /\ Len(s) = n /\ Distinct(s) /\ p = s[n]
  BY DEF Ring
<1>2. /\ t \in Seq(Values) /\ Len(t) = n + 1
      /\ \A k \in 1 .. (n + 1) : t[k] = IF k < i THEN s[k] ELSE IF k = i THEN v ELSE s[k - 1]
  <2>1. i \in 1 .. (Len(s) + 1)
    BY <1>1
  <2>2. /\ t \in Seq(Values) /\ Len(t) = Len(s) + 1
        /\ \A k \in 1 .. (Len(s) + 1) :
             t[k] = IF k < i THEN s[k] ELSE IF k = i THEN v ELSE s[k - 1]
    <3>1. s \in Seq(Values) /\ v \in Values
      BY <1>1
    <3>. QED BY ONLY <2>1, <3>1, Inserted DEF t
  <2>. HIDE DEF t
  <2>. QED BY <1>1, <2>2
<1>3. Distinct(t)
  <2>1. v \notin ToSet(s)
    BY <1>1 DEF ToSet
  <2>. QED BY <1>1, <2>1, InsertedSet
<1>. HIDE DEF t
<1>4. PICK h \in 1 .. n : h = (IF i = 1 THEN n ELSE i - 1) /\ q = s[h]
  BY <1>1 DEF RingAt
<1>5. \A k \in 1 .. n : s[k] \in Values
  BY <1>1, ElementOfSeq
<1>6. N \in [Values -> Nat] /\ \A k \in 1 .. n : N[s[k]] = s[IF k = n THEN 1 ELSE k + 1]
  BY <1>1 DEF Ring, RingAt
<1>7. /\ M \in [Values -> Nat] /\ M[v] = N[q] /\ M[q] = v
      /\ \A x \in Values : x # v /\ x # q => M[x] = N[x]
  <2>1. q \in Values /\ q # v
    BY <1>4, <1>5
  <2>2. v \in Nat /\ N[q] \in Nat
    BY <1>6, <2>1 DEF Values
  <2>. QED BY <1>6, <2>1, <2>2
<1>. HIDE DEF M
<1>8. ASSUME NEW k \in 1 .. (n + 1)
      PROVE  M[t[k]] = t[IF k = n + 1 THEN 1 ELSE k + 1]
  <2>1. CASE k = i
    <3>1. t[k] = v /\ M[t[k]] = s[IF h = n THEN 1 ELSE h + 1]
      <4>1. t[k] = v
        BY <1>2, <2>1
      <4>2. N[q] = s[IF h = n THEN 1 ELSE h + 1]
        BY <1>4, <1>6
      <4>. QED BY <1>7, <4>1, <4>2
    <3>2. CASE i = n + 1
      <4>1. h = n /\ t[1] = s[1]
        BY <1>1, <1>2, <1>4, <3>2
      <4>. QED BY <2>1, <3>1, <3>2, <4>1
    <3>3. CASE i # n + 1
      <4>1. t[k + 1] = s[i] /\ (IF h = n THEN 1 ELSE h + 1) = i
        BY <1>1, <1>2, <1>4, <2>1, <3>3
      <4>. QED BY <2>1, <3>1, <3>3, <4>1
    <3>. QED BY <3>2, <3>3
  <2>2. CASE k # i /\ (IF k = n + 1 THEN 1 ELSE k + 1) = i
    <3>1. t[k] = s[h]
      BY <1>1, <1>2, <1>4, <2>2
    <3>2. t[i] = v
      BY <1>2
    <3>. QED BY <1>4, <1>7, <2>2, <3>1, <3>2
  <2>3. CASE k # i /\ (IF k = n + 1 THEN 1 ELSE k + 1) # i
    <3>1. PICK j \in 1 .. n : j = (IF k < i THEN k ELSE k - 1)
      BY <1>1, <2>3
    <3>2. t[k] = s[j] /\ j # h
      BY <1>1, <1>2, <1>4, <2>3, <3>1
    <3>3. s[j] # q /\ s[j] # v /\ s[j] \in Values
      BY <1>1, <1>4, <1>5, <3>2 DEF Distinct
    <3>4. M[t[k]] = s[IF j = n THEN 1 ELSE j + 1]
      BY <1>6, <1>7, <3>2, <3>3
    <3>5. t[IF k = n + 1 THEN 1 ELSE k + 1] = s[IF j = n THEN 1 ELSE j + 1]
      <4>1. CASE k < i
        <5>1. k # n + 1 /\ j = k /\ k + 1 \in 1 .. (n + 1) /\ k + 1 < i
          BY <1>1, <2>3, <3>1, <4>1
        <5>2. t[k + 1] = s[k + 1]
          BY <1>2, <5>1
        <5>3. j # n
          BY <1>1, <5>1
        <5>. QED BY <5>1, <5>2, <5>3
      <4>2. CASE ~(k < i) /\ k = n + 1
        <5>1. j = n /\ 1 < i /\ 1 \in 1 .. (n + 1)
          BY <1>1, <2>3, <3>1, <4>2
        <5>2. t[1] = s[1]
          BY <1>2, <5>1
        <5>. QED BY <4>2, <5>1, <5>2
      <4>3. CASE ~(k < i) /\ k # n + 1
        <5>1. j = k - 1 /\ k + 1 \in 1 .. (n + 1) /\ k + 1 > i /\ j # n
          BY <1>1, <2>3, <3>1, <4>3
        <5>2. t[k + 1] = s[k + 1 - 1] /\ k + 1 - 1 = j + 1
          BY <1>1, <1>2, <5>1
        <5>. QED BY <4>3, <5>1, <5>2
      <4>. QED BY <4>1, <4>2, <4>3
    <3>. QED BY <3>4, <3>5
  <2>. QED BY <2>1, <2>2, <2>3
<1>9. e = t[n + 1]
  BY <1>1, <1>2
<1>. HIDE DEF e
<1>10. \A k \in 1 .. (n + 1) : M[t[k]] = RingAt(t, k + 1)
  <2>1. \A k \in 1 .. (n + 1) : RingAt(t, k + 1) = t[IF k = n + 1 THEN 1 ELSE k + 1]
    BY <1>1, <1>2 DEF RingAt
  <2>. QED BY <1>8, <2>1
<1>11. Ring(t, M, e, n + 1)
  <2>1. n + 1 \in Nat
    BY <1>1
  <2>. QED BY <2>1, <1>1, <1>2, <1>3, <1>7, <1>9, <1>10 DEF Ring
<1>. QED BY <1>11 DEF t, M, e

\* Without the c values from i on: what remains of the sequence.
LEMMA CutOut ==
  ASSUME NEW S, NEW s \in Seq(S), NEW i \in 1 .. Len(s), NEW c \in 0 .. (Len(s) - i + 1)
  PROVE  LET t == SubSeq(s, 1, i - 1) \o SubSeq(s, i + c, Len(s))
         IN /\ t \in Seq(S) /\ Len(t) = Len(s) - c
            /\ \A k \in 1 .. (Len(s) - c) : t[k] = IF k < i THEN s[k] ELSE s[k + c]
<1>. DEFINE low == SubSeq(s, 1, i - 1)
            high == SubSeq(s, i + c, Len(s))
<1>1. PICK n \in Nat : n = Len(s)
  BY LenProperties
<1>2. \A k \in 1 .. n : s[k] \in S
  BY <1>1, ElementOfSeq
<1>3. /\ low \in Seq(S) /\ Len(low) = i - 1
      /\ \A k \in 1 .. (i - 1) : low[k] = s[k]
  <2>1. \A k \in 1 .. (i - 1) : s[k] \in S
    BY <1>1, <1>2
  <2>2. /\ low \in Seq(S) /\ Len(low) = IF 1 <= i - 1 THEN i - 1 - 1 + 1 ELSE 0
        /\ \A k \in 1 .. (i - 1 - 1 + 1) : low[k] = s[1 + k - 1]
    BY <1>1, <2>1, SubSeqProperties
  <2>. HIDE DEF low
  <2>. QED BY <1>1, <2>2
<1>4. /\ high \in Seq(S) /\ Len(high) = n - i - c + 1
      /\ \A k \in 1 .. (n - i - c + 1) : high[k] = s[i + c + k - 1]
  <2>1. \A k \in (i + c) .. n : s[k] \in S
    BY <1>1, <1>2
  <2>2. /\ high \in Seq(S)
        /\ Len(high) = IF i + c <= n THEN n - (i + c) + 1 ELSE 0
        /\ \A k \in 1 .. (n - (i + c) + 1) : high[k] = s[i + c + k - 1]
    BY <1>1, <2>1, SubSeqProperties
  <2>3. (IF i + c <= n THEN n - (i + c) + 1 ELSE 0) = n - i - c + 1 /\ n - (i + c) + 1 = n - i - c + 1
    BY <1>1
  <2>. HIDE DEF high
  <2>. QED BY <1>1, <2>2, <2>3
<1>. HIDE DEF low, high
<1>5. /\ low \o high \in Seq(S) /\ Len(low \o high) = Len(low) + Len(high)
      /\ \A k \in 1 .. (Len(low) + Len(high)) :
           (low \o high)[k] = IF k <= Len(low) THEN low[k] ELSE high[k - Len(low)]
  BY <1>3, <1>4, ConcatProperties
<1>6. Len(low) + Len(high) = n - c
  BY <1>1, <1>3, <1>4
<1>7. ASSUME NEW k \in 1 .. (n - c)
      PROVE  (low \o high)[k] = IF k < i THEN s[k] ELSE s[k + c]
  <2>1. CASE k < i
    <3>1. k \in 1 .. (i - 1)
      BY <1>1, <2>1
    <3>2. k \in 1 .. (Len(low) + Len(high)) /\ k <= Len(low)
      BY <1>3, <1>6, <3>1
    <3>. QED BY <1>3, <1>5, <2>1, <3>1, <3>2
  <2>2. CASE ~(k < i)
    <3>1. k - (i - 1) \in 1 .. (n - i - c + 1)
      BY <1>1, <2>2
    <3>2. k \in 1 .. (Len(low) + Len(high)) /\ ~(k <= Len(low))
      BY <1>1, <1>3, <1>6, <2>2
    <3>3. (low \o high)[k] = high[k - (i - 1)]
      BY <1>3, <1>5, <3>2
    <3>4. i + c + (k - (i - 1)) - 1 = k + c
      BY <1>1
    <3>. QED BY <1>4, <2>2, <3>1, <3>3, <3>4
  <2>. QED BY <2>1, <2>2
<1>. QED BY <1>1, <1>5, <1>6, <1>7 DEF low, high

\* Values go out of the ring, not all of them, when the one in front of them is
\* given the one behind them as its next.
LEMMA RingCut ==
  ASSUME NEW s, NEW N, NEW p, NEW n, Ring(s, N, p, n),
         NEW i \in 1 .. n, NEW c \in 1 .. (n - i + 1), c < n,
         NEW q, q = RingAt(s, i - 1), NEW x, x = RingAt(s, i + c)
  PROVE  Ring(SubSeq(s, 1, i - 1) \o SubSeq(s, i + c, Len(s)), [N EXCEPT ![q] = x],
              IF i + c = n + 1 THEN q ELSE p, n - c)
<1>. DEFINE t == SubSeq(s, 1, i - 1) \o SubSeq(s, i + c, Len(s))
            M == [N EXCEPT ![q] = x]
            e == IF i + c = n + 1 THEN q ELSE p
<1>1. n \in Nat /\ n > 0 /\ s \in Seq(Values) /\ Len(s) = n /\ Distinct(s) /\ p = s[n]
  BY DEF Ring
<1>2. /\ t \in Seq(Values) /\ Len(t) = n - c
      /\ \A k \in 1 .. (n - c) : t[k] = IF k < i THEN s[k] ELSE s[k + c]
  <2>1. i \in 1 .. Len(s) /\ c \in 0 .. (Len(s) - i + 1)
    BY <1>1
  <2>. QED BY <1>1, <2>1, CutOut
<1>. HIDE DEF t
<1>3. Distinct(t)
  <2>. DEFINE of(k) == IF k < i THEN k ELSE k + c
  <2>1. \A k \in 1 .. (n - c) : of(k) \in 1 .. n /\ t[k] = s[of(k)]
    BY <1>1, <1>2
  <2>2. \A j, k \in 1 .. (n - c) : of(j) = of(k) => j = k
    BY <1>1
  <2>. HIDE DEF of
  <2>. QED BY <1>1, <1>2, <2>1, <2>2 DEF Distinct
<1>4. PICK h \in 1 .. n : h = (IF i = 1 THEN n ELSE i - 1) /\ q = s[h]
  BY <1>1 DEF RingAt
<1>5. x = s[IF i + c = n + 1 THEN 1 ELSE i + c]
  BY <1>1 DEF RingAt
<1>6. \A k \in 1 .. n : s[k] \in Values
  BY <1>1, ElementOfSeq
<1>7. N \in [Values -> Nat] /\ \A k \in 1 .. n : N[s[k]] = s[IF k = n THEN 1 ELSE k + 1]
  BY <1>1 DEF Ring, RingAt
<1>8. /\ M \in [Values -> Nat] /\ M[q] = x
      /\ \A y \in Values : y # q => M[y] = N[y]
  <2>1. (IF i + c = n + 1 THEN 1 ELSE i + c) \in 1 .. n
    BY <1>1
  <2>2. q \in Values /\ x \in Values
    BY <1>4, <1>5, <1>6, <2>1
  <2>3. x \in Nat
    BY <2>2 DEF Values
  <2>. QED BY <1>7, <2>2, <2>3
<1>. HIDE DEF M
<1>9. ASSUME NEW k \in 1 .. (n - c)
      PROVE  M[t[k]] = t[IF k = n - c THEN 1 ELSE k + 1]
  <2>1. PICK j \in 1 .. n : j = IF k < i THEN k ELSE k + c
    BY <1>1
  <2>2. t[k] = s[j]
    BY <1>2, <2>1
  <2>3. CASE j = h
    <3>1. M[t[k]] = s[IF i + c = n + 1 THEN 1 ELSE i + c]
      BY <1>4, <1>5, <1>8, <2>2, <2>3
    <3>2. CASE i = 1
      <4>1. k = n - c /\ 1 \in 1 .. (n - c) /\ t[1] = s[1 + c] /\ i + c # n + 1
        BY <1>1, <1>2, <1>4, <2>1, <2>3, <3>2
      <4>. QED BY <3>1, <3>2, <4>1
    <3>3. CASE i # 1
      <4>1. k = i - 1
        BY <1>1, <1>4, <2>1, <2>3, <3>3
      <4>2. CASE i + c = n + 1
        <5>1. k = n - c /\ t[1] = s[1]
          BY <1>1, <1>2, <3>3, <4>1, <4>2
        <5>. QED BY <3>1, <4>2, <5>1
      <4>3. CASE i + c # n + 1
        <5>1. k # n - c /\ k + 1 \in 1 .. (n - c) /\ t[k + 1] = s[i + c]
          BY <1>1, <1>2, <4>1, <4>3
        <5>. QED BY <3>1, <4>3, <5>1
      <4>. QED BY <4>2, <4>3
    <3>. QED BY <3>2, <3>3
  <2>4. CASE j # h
    <3>1. s[j] # q /\ s[j] \in Values
      BY <1>1, <1>4, <1>6, <2>4 DEF Distinct
    <3>2. M[t[k]] = s[IF j = n THEN 1 ELSE j + 1]
      BY <1>7, <1>8, <2>2, <3>1
    <3>3. CASE k = n - c
      <4>1. j = n /\ i # 1 /\ t[1] = s[1]
        BY <1>1, <1>2, <1>4, <2>1, <2>4, <3>3
      <4>. QED BY <3>2, <3>3, <4>1
    <3>4. CASE k # n - c
      <4>1. j # n /\ k + 1 \in 1 .. (n - c) /\ k + 1 # i
        BY <1>1, <1>4, <2>1, <2>4, <3>4
      <4>2. t[k + 1] = s[j + 1]
        BY <1>1, <1>2, <2>1, <4>1
      <4>. QED BY <3>2, <3>4, <4>1, <4>2
    <3>. QED BY <3>3, <3>4
  <2>. QED BY <2>3, <2>4
<1>10. e = t[n - c]
  <2>1. CASE i + c = n + 1
    <3>1. i # 1 /\ n - c = i - 1
      BY <1>1, <2>1
    <3>. QED BY <1>1, <1>2, <1>4, <2>1, <3>1
  <2>2. CASE i + c # n + 1
    BY <1>1, <1>2, <2>2
  <2>. QED BY <2>1, <2>2
<1>. HIDE DEF e
<1>11. \A k \in 1 .. (n - c) : M[t[k]] = RingAt(t, k + 1)
  <2>1. \A k \in 1 .. (n - c) : RingAt(t, k + 1) = t[IF k = n - c THEN 1 ELSE k + 1]
    BY <1>1, <1>2 DEF RingAt
  <2>. QED BY <1>9, <2>1
<1>12. Ring(t, M, e, n - c)
  <2>1. n - c \in Nat
    BY <1>1
  <2>. QED BY <2>1, <1>1, <1>2, <1>3, <1>8, <1>10, <1>11 DEF Ring
<1>. QED BY <1>12 DEF t, M, e

\* A value takes the place of another.
LEMMA RingReplaced ==
  ASSUME NEW s, NEW N, NEW p, NEW n, Ring(s, N, p, n), n > 1,
         NEW v \in Values, \A k \in 1 .. n : s[k] # v, NEW i \in 1 .. n,
         NEW q, q = RingAt(s, i - 1), NEW x, x = RingAt(s, i + 1)
  PROVE  Ring([s EXCEPT ![i] = v], [N EXCEPT ![q] = v, ![v] = x],
              IF i = n THEN v ELSE p, n)
<1>. DEFINE t == [s EXCEPT ![i] = v]
            M == [N EXCEPT ![q] = v, ![v] = x]
            e == IF i = n THEN v ELSE p
<1>1. n \in Nat /\ s \in Seq(Values) /\ Len(s) = n /\ Distinct(s) /\ p = s[n]
  BY DEF Ring
<1>2. /\ t \in Seq(Values) /\ Len(t) = n
      /\ \A k \in 1 .. n : t[k] = IF k = i THEN v ELSE s[k]
  BY <1>1
<1>. HIDE DEF t
<1>3. Distinct(t)
  BY <1>1, <1>2 DEF Distinct
<1>4. PICK h \in 1 .. n : h = (IF i = 1 THEN n ELSE i - 1) /\ q = s[h] /\ h # i
  BY <1>1 DEF RingAt
<1>5. PICK g \in 1 .. n : g = (IF i = n THEN 1 ELSE i + 1) /\ x = s[g] /\ g # i
  BY <1>1 DEF RingAt
<1>6. \A k \in 1 .. n : s[k] \in Values
  BY <1>1, ElementOfSeq
<1>7. N \in [Values -> Nat] /\ \A k \in 1 .. n : N[s[k]] = s[IF k = n THEN 1 ELSE k + 1]
  BY <1>1 DEF Ring, RingAt
<1>8. /\ M \in [Values -> Nat] /\ M[v] = x /\ M[q] = v
      /\ \A y \in Values : y # v /\ y # q => M[y] = N[y]
  <2>1. q \in Values /\ q # v /\ x \in Values
    BY <1>4, <1>5, <1>6
  <2>2. v \in Nat /\ x \in Nat
    BY <2>1 DEF Values
  <2>. QED BY <1>7, <2>1, <2>2
<1>. HIDE DEF M
<1>9. ASSUME NEW k \in 1 .. n
      PROVE  M[t[k]] = t[IF k = n THEN 1 ELSE k + 1]
  <2>1. CASE k = i
    <3>1. t[k] = v /\ t[g] = s[g]
      BY <1>2, <1>5, <2>1
    <3>. QED BY <1>5, <1>8, <2>1, <3>1
  <2>2. CASE k = h
    <3>1. t[k] = q /\ t[i] = v
      BY <1>2, <1>4, <2>2
    <3>2. (IF k = n THEN 1 ELSE k + 1) = i
      BY <1>1, <1>4, <2>2
    <3>. QED BY <1>8, <3>1, <3>2
  <2>3. CASE k # i /\ k # h
    <3>1. t[k] = s[k] /\ s[k] # q /\ s[k] # v /\ s[k] \in Values
      BY <1>1, <1>2, <1>4, <1>6, <2>3 DEF Distinct
    <3>2. M[t[k]] = s[IF k = n THEN 1 ELSE k + 1]
      BY <1>7, <1>8, <3>1
    <3>3. PICK j \in 1 .. n : j = (IF k = n THEN 1 ELSE k + 1) /\ j # i
      BY <1>1, <1>4, <2>3
    <3>4. t[j] = s[j]
      BY <1>2, <3>3
    <3>. QED BY <3>2, <3>3, <3>4
  <2>. QED BY <2>1, <2>2, <2>3
<1>10. e = t[n]
  BY <1>1, <1>2
<1>. HIDE DEF e
<1>11. \A k \in 1 .. n : M[t[k]] = RingAt(t, k + 1)
  <2>1. \A k \in 1 .. n : RingAt(t, k + 1) = t[IF k = n THEN 1 ELSE k + 1]
    BY <1>1, <1>2 DEF RingAt
  <2>. QED BY <1>9, <2>1
<1>12. Ring(t, M, e, n)
  BY <1>1, <1>2, <1>3, <1>8, <1>10, <1>11 DEF Ring
<1>. QED BY <1>12 DEF t, M, e

\* The ring with another last value is the sequence, turned.
LEMMA RingTurned ==
  ASSUME NEW s, NEW N, NEW p, NEW n, Ring(s, N, p, n), NEW m \in 0 .. (n - 1)
  PROVE  Ring(SubSeq(s, m + 1, Len(s)) \o SubSeq(s, 1, m), N, RingAt(s, m), n)
<1>. DEFINE t == SubSeq(s, m + 1, Len(s)) \o SubSeq(s, 1, m)
            of(k) == IF k <= n - m THEN k + m ELSE k - (n - m)
<1>1. n \in Nat /\ n > 0 /\ s \in Seq(Values) /\ Len(s) = n /\ Distinct(s)
  BY DEF Ring
<1>2. /\ t \in Seq(Values) /\ Len(t) = n
      /\ \A k \in 1 .. n : t[k] = IF k <= n - m THEN s[k + m] ELSE s[k - (n - m)]
  BY <1>1, TurnedIs
<1>. HIDE DEF t
<1>3. \A k \in 1 .. n : of(k) \in 1 .. n /\ t[k] = s[of(k)]
  BY <1>1, <1>2
<1>4. ASSUME NEW j \in 1 .. n, NEW k \in 1 .. n, of(j) = of(k)
      PROVE  j = k
  <2>1. n \in Nat /\ m \in 0 .. (n - 1)
    BY <1>1
  <2>2. /\ j <= n - m => of(j) = j + m /\ of(j) > m
        /\ ~(j <= n - m) => of(j) = j - (n - m) /\ of(j) <= m
    BY ONLY <2>1, j \in 1 .. n
  <2>3. /\ k <= n - m => of(k) = k + m /\ of(k) > m
        /\ ~(k <= n - m) => of(k) = k - (n - m) /\ of(k) <= m
    BY ONLY <2>1, k \in 1 .. n
  <2>. QED BY ONLY <1>4, <2>1, <2>2, <2>3, j \in 1 .. n, k \in 1 .. n
<1>5. ASSUME NEW k \in 1 .. n
      PROVE  (IF of(k) = n THEN 1 ELSE of(k) + 1) = of(IF k = n THEN 1 ELSE k + 1)
  <2>1. CASE k = n
    <3>1. of(k) = (IF m = 0 THEN n ELSE m) /\ of(1) = m + 1
      BY <1>1, <2>1
    <3>. QED BY <1>1, <2>1, <3>1
  <2>2. CASE k # n /\ k < n - m
    <3>1. of(k) = k + m /\ k + m # n /\ of(k + 1) = k + m + 1
      BY <1>1, <2>2
    <3>. QED BY <2>2, <3>1
  <2>3. CASE k # n /\ k = n - m
    <3>1. of(k) = n /\ of(k + 1) = 1
      BY <1>1, <2>3
    <3>. QED BY <2>3, <3>1
  <2>4. CASE k # n /\ k > n - m
    <3>1. of(k) = k - (n - m) /\ of(k) # n /\ of(k + 1) = k - (n - m) + 1
      BY <1>1, <2>4
    <3>. QED BY <2>4, <3>1
  <2>5. k < n - m \/ k = n - m \/ k > n - m
    BY <1>1
  <2>. QED BY ONLY <2>1, <2>2, <2>3, <2>4, <2>5
<1>6. of(n) = IF m = 0 THEN n ELSE m
  BY <1>1
<1>. HIDE DEF of
<1>7. Distinct(t)
  BY <1>1, <1>2, <1>3, <1>4 DEF Distinct
<1>8. N \in [Values -> Nat] /\ \A k \in 1 .. n : N[s[k]] = s[IF k = n THEN 1 ELSE k + 1]
  BY <1>1 DEF Ring, RingAt
<1>9. ASSUME NEW k \in 1 .. n
      PROVE  N[t[k]] = RingAt(t, k + 1)
  <2>1. N[t[k]] = s[IF of(k) = n THEN 1 ELSE of(k) + 1]
    BY <1>3, <1>8
  <2>2. PICK j \in 1 .. n : j = IF k = n THEN 1 ELSE k + 1
    BY <1>1
  <2>3. RingAt(t, k + 1) = t[j]
    BY <1>1, <1>2, <2>2 DEF RingAt
  <2>. QED BY <1>3, <1>5, <2>1, <2>2, <2>3
<1>10. RingAt(s, m) = t[n]
  <2>1. RingAt(s, m) = s[IF m = 0 THEN n ELSE m]
    BY <1>1 DEF RingAt
  <2>. QED BY <1>1, <1>3, <1>6, <2>1
<1>11. Ring(t, N, RingAt(s, m), n)
  BY <1>1, <1>2, <1>7, <1>8, <1>9, <1>10 DEF Ring
<1>. QED BY <1>11 DEF t

\* Wherever the iterator is, cur is a value of the list, and pre the one before.
AtSome(i) == it.cur = RingAt(Items, i) /\ (it.idx > 0 => it.pre = RingAt(Items, i - 1))

OnList ==
  /\ it.max = len /\ it.idx \in 0 .. len
  /\ len > 0 => \E i \in 1 .. len : AtSome(i)

\* The iterator has passed it.idx values.
OnItsWay ==
  /\ it.idx < len => it.cur = RingAt(Items, it.idx)
  /\ itAt = "at" => it.idx > 0 /\ AtSome(it.idx)

ArrIInv ==
  /\ itAt \in {"off", "at", "between"}
  /\ Ring(Items, nxt, ptr, len)
  /\ itAt # "off" => OnList
  /\ itAt # "off" /\ ~strayed => OnItsWay

\* What is left of it when the iterator has broken the list.
ArrayInv == itAt # "spoilt" => ArrIInv

LEMMA AsLists ==
  /\ \A v, n : Ahead(v, n) = Steps(nxt, v, n)
  /\ Items = ItemsOf(nxt, ptr, len)
  /\ LinkedValues = {Steps(nxt, ptr, i) : i \in 1..len}
  /\ Items' = ItemsOf(nxt', ptr', len')
<1>1. \A v, n : Ahead(v, n) = Steps(nxt, v, n)
  BY DEF Ahead, Steps
<1>2. Items = ItemsOf(nxt, ptr, len)
  BY DEF Items, ItemsOf, GetLast, GetFirst, Get, Ahead, Steps
<1>3. LinkedValues = {Steps(nxt, ptr, i) : i \in 1..len}
  BY DEF LinkedValues, Ahead, Steps
<1>4. Items' = ItemsOf(nxt', ptr', len')
  BY DEF Items, ItemsOf, GetLast, GetFirst, Get, Ahead, Steps
<1>. QED BY <1>1, <1>2, <1>3, <1>4

LEMMA ItemsAre ==
  ASSUME Ring(Items, nxt, ptr, len)
  PROVE  /\ len \in Nat /\ Items \in Seq(Values) /\ Len(Items) = len
         /\ \A v \in Spare : v \in Values /\ \A k \in 1 .. len : Items[k] # v
         /\ len > 0 => \A i \in 0 .. (len + 1) : Ahead(ptr, i) = RingAt(Items, i)
<1>1. /\ LinkedValues = {Items[k] : k \in 1 .. len}
      /\ len > 0 => \A i \in 0 .. (len + 1) : Ahead(ptr, i) = RingAt(Items, i)
  <2>1. /\ {Steps(nxt, ptr, i) : i \in 1 .. len} = {Items[i] : i \in 1 .. len}
        /\ len > 0 => \A i \in 0 .. (len + 1) : Steps(nxt, ptr, i) = RingAt(Items, i)
    BY RingIs, SMTT(20)
  <2>2. LinkedValues = {Items[k] : k \in 1 .. len}
    BY <2>1, AsLists
  <2>3. \A i : Ahead(ptr, i) = Steps(nxt, ptr, i)
    BY AsLists
  <2>4. len > 0 => \A i \in 0 .. (len + 1) : Ahead(ptr, i) = RingAt(Items, i)
    BY <2>1, <2>3, Zenon
  <2>. QED BY <2>2, <2>4
<1>. QED BY <1>1 DEF Ring, Spare

\* The steps of an edit.
Edited(t) == Items' = t /\ Position' = -1 /\ Held' = FALSE

LEMMA EditIs ==
  ASSUME ArrModified, NEW t, Ring(t, nxt', ptr', len')
  PROVE  ArrIInv' /\ Edited(t)
<1>1. Items' = t
  BY RingIs, AsLists
<1>2. ArrIInv'
  BY <1>1 DEF ArrIInv, ArrModified
<1>. QED BY <1>1, <1>2 DEF Edited, Position, Held, ArrModified

\* What an edit amounts to.
Inserts == \E i \in 1 .. (Len(Items) + 1), v \in Values : Edited(InsertAt(Items, i, v))
Replaces == \E i \in 1 .. Len(Items), v \in Values : Edited(ReplaceAt(Items, i, v))
Removes ==
  \E i \in 1 .. Len(Items) : \E c \in 1 .. (Len(Items) - i + 1) :
    Edited(SubSeq(Items, 1, i - 1) \o SubSeq(Items, i + c, Len(Items)))
Turns ==
  \E m \in 0 .. (Len(Items) - 1) :
    Edited(SubSeq(Items, m + 1, Len(Items)) \o SubSeq(Items, 1, m))

LEMMA OnlyValue ==
  ASSUME NEW z \in Seq(Values), NEW v \in Values
  PROVE  /\ Len(z) = 0 => InsertAt(z, 1, v) = <<v>>
         /\ Len(z) = 1 => ReplaceAt(z, 1, v) = <<v>>
<1>1. ASSUME NEW u \in Seq(Values), Len(u) = 1, u[1] = v
      PROVE  u = <<v>>
  BY <1>1
<1>2. ASSUME Len(z) = 0
      PROVE  InsertAt(z, 1, v) = <<v>>
  <2>1. 1 \in 1 .. (Len(z) + 1) /\ 1 \in 1 .. 1 /\ Len(z) + 1 = 1
    BY <1>2
  <2>2. /\ InsertAt(z, 1, v) \in Seq(Values) /\ Len(InsertAt(z, 1, v)) = Len(z) + 1
        /\ \A k \in 1 .. (Len(z) + 1) :
             InsertAt(z, 1, v)[k] = IF k < 1 THEN z[k] ELSE IF k = 1 THEN v ELSE z[k - 1]
    BY <2>1, Inserted
  <2>3. PICK u : u = InsertAt(z, 1, v)
    OBVIOUS
  <2>4. u \in Seq(Values) /\ Len(u) = 1
    BY <2>1, <2>2, <2>3
  <2>5. InsertAt(z, 1, v)[1] = v
    BY <2>1, <2>2
  <2>. QED BY <1>1, <2>3, <2>4, <2>5
<1>3. ASSUME Len(z) = 1
      PROVE  ReplaceAt(z, 1, v) = <<v>>
  <2>1. PICK u : u = [z EXCEPT ![1] = v]
    OBVIOUS
  <2>2. u \in Seq(Values) /\ Len(u) = 1 /\ u[1] = v
    <3>1. PICK n \in Nat : n = Len(z) /\ 1 \in 1 .. n
      BY <1>3
    <3>2. u \in Seq(Values) /\ Len(u) = n /\ u[1] = v
      BY <2>1, <3>1
    <3>. QED BY <1>3, <3>1, <3>2
  <2>. QED BY <1>1, <2>1, <2>2 DEF ReplaceAt
<1>. QED BY <1>2, <1>3

LEMMA FirstStep ==
  ASSUME ArrIInv, len = 0, NEW v \in Values, ArrModified,
         nxt' = [nxt EXCEPT ![v] = v], ptr' = v, len' = len + 1
  PROVE  ArrIInv' /\ Inserts
<1>1. /\ len \in Nat /\ Items \in Seq(Values) /\ Len(Items) = 0 /\ nxt \in [Values -> Nat]
  BY DEF ArrIInv, Ring
<1>2. Ring(<<v>>, nxt', ptr', len')
  <2>1. len' = 1
    BY <1>1
  <2>. QED BY <1>1, <2>1, RingOfOne
<1>3. InsertAt(Items, 1, v) = <<v>>
  BY <1>1, OnlyValue
<1>4. ArrIInv' /\ Edited(<<v>>)
  BY <1>2, EditIs
<1>. QED BY <1>1, <1>3, <1>4 DEF Inserts

LEMMA InsertStep ==
  ASSUME ArrIInv, len > 0, NEW v \in Spare, NEW i \in 1 .. (len + 1),
         NEW q, q = RingAt(Items, i - 1), ArrModified,
         nxt' = [nxt EXCEPT ![q] = v, ![v] = nxt[q]],
         ptr' = IF i = len + 1 THEN v ELSE ptr, len' = len + 1
  PROVE  ArrIInv' /\ Inserts
<1>1. /\ len \in Nat /\ Len(Items) = len /\ v \in Values
      /\ \A k \in 1 .. len : Items[k] # v
  BY ItemsAre DEF ArrIInv
<1>2. Ring(InsertAt(Items, i, v), nxt', ptr', len')
  BY <1>1, RingInserted DEF ArrIInv
<1>3. ArrIInv' /\ Edited(InsertAt(Items, i, v))
  BY <1>2, EditIs
<1>. QED BY <1>1, <1>3 DEF Inserts

\* What the lists know of their ends.
LEMMA Ends ==
  ASSUME ArrIInv, len > 0
  PROVE  /\ ptr = RingAt(Items, 0) /\ ptr = RingAt(Items, len)
         /\ \A i \in 0 .. len : nxt[RingAt(Items, i)] = RingAt(Items, i + 1)
         /\ RingAt(Items, len + 1) = RingAt(Items, 1)
         /\ \A i \in 1 .. len : RingAt(Items, i) = ptr <=> i = len
<1>1. Len(Items) = len /\ len \in Nat /\ Distinct(Items) /\ ptr = Items[len]
  BY DEF ArrIInv, Ring
<1>2. \A i \in 1 .. len : RingAt(Items, i) = Items[i]
  BY <1>1 DEF RingAt
<1>3. /\ RingAt(Items, 0) = Items[len] /\ RingAt(Items, len + 1) = Items[1]
  BY <1>1 DEF RingAt
<1>4. \A i \in 1 .. len : nxt[Items[i]] = RingAt(Items, i + 1)
  BY DEF ArrIInv, Ring
<1>5. \A i \in 0 .. len : nxt[RingAt(Items, i)] = RingAt(Items, i + 1)
  <2>1. nxt[RingAt(Items, 0)] = RingAt(Items, 1)
    <3>1. len \in 1 .. len /\ 1 \in 1 .. len
      BY <1>1
    <3>2. nxt[Items[len]] = RingAt(Items, len + 1)
      BY <1>4, <3>1
    <3>. QED BY <1>2, <1>3, <3>1, <3>2
  <2>. QED BY <1>1, <1>2, <1>4, <2>1
<1>6. \A i \in 1 .. len : RingAt(Items, i) = ptr <=> i = len
  BY <1>1, <1>2 DEF Distinct
<1>. QED BY <1>1, <1>2, <1>3, <1>5, <1>6

LEMMA CutStep ==
  ASSUME ArrIInv, NEW i \in 1 .. len, NEW c \in 1 .. (len - i + 1), c < len,
         NEW q, q = RingAt(Items, i - 1), ArrModified,
         nxt' = [nxt EXCEPT ![q] = RingAt(Items, i + c)],
         ptr' = IF i + c = len + 1 THEN q ELSE ptr, len' = len - c
  PROVE  ArrIInv' /\ Removes
<1>1. len \in Nat /\ Len(Items) = len
  BY DEF ArrIInv, Ring
<1>2. Ring(SubSeq(Items, 1, i - 1) \o SubSeq(Items, i + c, Len(Items)), nxt', ptr', len')
  BY <1>1, RingCut DEF ArrIInv
<1>3. ArrIInv' /\ Edited(SubSeq(Items, 1, i - 1) \o SubSeq(Items, i + c, Len(Items)))
  BY <1>2, EditIs
<1>. QED BY <1>1, <1>3 DEF Removes

LEMMA ClearStep ==
  ASSUME ArrIInv, ArrModified, len' = 0, UNCHANGED <<nxt, ptr>>
  PROVE  ArrIInv' /\ Edited(<<>>) /\ (len > 0 => Removes)
<1>1. len \in Nat /\ Items \in Seq(Values) /\ Len(Items) = len
  BY DEF ArrIInv, Ring
<1>2. Ring(<<>>, nxt', ptr', len')
  BY EmptyRing DEF ArrIInv
<1>3. ArrIInv' /\ Edited(<<>>)
  BY <1>2, EditIs
<1>4. ASSUME len > 0
      PROVE  SubSeq(Items, 1, 1 - 1) \o SubSeq(Items, 1 + len, Len(Items)) = <<>>
  <2>1. 1 \in 1 .. Len(Items) /\ len \in 0 .. (Len(Items) - 1 + 1)
    BY <1>1, <1>4
  <2>2. PICK t : t = SubSeq(Items, 1, 1 - 1) \o SubSeq(Items, 1 + len, Len(Items))
    OBVIOUS
  <2>3. t \in Seq(Values) /\ Len(t) = Len(Items) - len
    BY <1>1, <2>1, <2>2, CutOut
  <2>4. t = <<>>
    BY <1>1, <2>3
  <2>. QED BY <2>2, <2>4
<1>5. ASSUME len > 0
      PROVE  Removes
  <2>1. 1 \in 1 .. Len(Items) /\ len \in 1 .. (Len(Items) - 1 + 1)
    BY <1>1, <1>5
  <2>. QED BY <1>3, <1>4, <1>5, <2>1 DEF Removes
<1>. QED BY <1>3, <1>5

LEMMA ReplaceStep ==
  ASSUME ArrIInv, len > 1, NEW v \in Spare, NEW i \in 1 .. len,
         NEW q, q = RingAt(Items, i - 1), ArrModified,
         nxt' = [nxt EXCEPT ![q] = v, ![v] = RingAt(Items, i + 1)],
         ptr' = IF i = len THEN v ELSE ptr, len' = len
  PROVE  ArrIInv' /\ Replaces
<1>1. /\ len \in Nat /\ Len(Items) = len /\ v \in Values
      /\ \A k \in 1 .. len : Items[k] # v
  BY ItemsAre DEF ArrIInv
<1>2. Ring([Items EXCEPT ![i] = v], nxt', ptr', len')
  BY <1>1, RingReplaced DEF ArrIInv
<1>3. ArrIInv' /\ Edited([Items EXCEPT ![i] = v])
  BY <1>2, EditIs
<1>. QED BY <1>1, <1>3 DEF Replaces, ReplaceAt

LEMMA ReplaceOnlyStep ==
  ASSUME ArrIInv, len = 1, NEW v \in Values, ArrModified,
         nxt' = [nxt EXCEPT ![v] = v], ptr' = v, len' = len
  PROVE  ArrIInv' /\ Replaces
<1>1. /\ len \in Nat /\ Items \in Seq(Values) /\ Len(Items) = 1 /\ nxt \in [Values -> Nat]
  BY DEF ArrIInv, Ring
<1>2. Ring(<<v>>, nxt', ptr', len')
  BY <1>1, RingOfOne
<1>3. ReplaceAt(Items, 1, v) = <<v>>
  BY <1>1, OnlyValue
<1>4. ArrIInv' /\ Edited(<<v>>)
  BY <1>2, EditIs
<1>. QED BY <1>1, <1>3, <1>4 DEF Replaces

LEMMA TurnStep ==
  ASSUME ArrIInv, NEW m \in 0 .. (len - 1), ArrModified,
         ptr' = RingAt(Items, m), UNCHANGED <<nxt, len>>
  PROVE  ArrIInv' /\ Turns
<1>1. len \in Nat /\ Len(Items) = len
  BY DEF ArrIInv, Ring
<1>2. Ring(SubSeq(Items, m + 1, Len(Items)) \o SubSeq(Items, 1, m), nxt', ptr', len')
  BY <1>1, RingTurned DEF ArrIInv
<1>3. ArrIInv' /\ Edited(SubSeq(Items, m + 1, Len(Items)) \o SubSeq(Items, 1, m))
  BY <1>2, EditIs
<1>. QED BY <1>1, <1>3 DEF Turns

\* yyjson_mut_arr_append, _prepend and _insert.
LEMMA AppendStep ==
  ASSUME ArrIInv, NEW v \in Spare, AppendTo(v)
  PROVE  ArrIInv' /\ Inserts
<1>1. len \in Nat /\ v \in Values
  BY ItemsAre DEF ArrIInv
<1>2. ArrModified /\ ptr' = v /\ len' = len + 1
  BY DEF AppendTo
<1>3. CASE len = 0
  <2>1. nxt' = [nxt EXCEPT ![v] = v]
    BY <1>3 DEF AppendTo
  <2>. QED BY <1>1, <1>2, <1>3, <2>1, FirstStep
<1>4. CASE len > 0
  <2>1. nxt' = [nxt EXCEPT ![ptr] = v, ![v] = nxt[ptr]]
    BY <1>1, <1>4 DEF AppendTo
  <2>2. ptr = RingAt(Items, len)
    BY <1>4, Ends
  <2>3. PICK i \in 1 .. (len + 1) : i = len + 1 /\ i - 1 = len
    BY <1>1
  <2>4. ptr = RingAt(Items, i - 1) /\ ptr' = IF i = len + 1 THEN v ELSE ptr
    BY <1>2, <2>2, <2>3
  <2>. QED BY <1>2, <1>4, <2>1, <2>4, InsertStep
<1>. QED BY <1>1, <1>3, <1>4

LEMMA PrependStep ==
  ASSUME ArrIInv, NEW v \in Spare, Prepend(v)
  PROVE  ArrIInv' /\ Inserts
<1>1. len \in Nat /\ v \in Values
  BY ItemsAre DEF ArrIInv
<1>2. ArrModified /\ len' = len + 1
  BY DEF Prepend
<1>3. CASE len = 0
  <2>1. nxt' = [nxt EXCEPT ![v] = v] /\ ptr' = v
    BY <1>3 DEF Prepend
  <2>. QED BY <1>1, <1>2, <1>3, <2>1, FirstStep
<1>4. CASE len > 0
  <2>1. nxt' = [nxt EXCEPT ![ptr] = v, ![v] = nxt[ptr]] /\ ptr' = ptr
    BY <1>1, <1>4 DEF Prepend
  <2>2. PICK i \in 1 .. (len + 1) : i = 1 /\ i # len + 1 /\ i - 1 = 0
    BY <1>1, <1>4
  <2>3. ptr = RingAt(Items, i - 1)
    BY <1>4, <2>2, Ends
  <2>4. ptr' = IF i = len + 1 THEN v ELSE ptr
    BY <2>1, <2>2
  <2>. QED BY <1>2, <1>4, <2>1, <2>3, <2>4, InsertStep
<1>. QED BY <1>1, <1>3, <1>4

LEMMA ArrInsertStep ==
  ASSUME ArrIInv, NEW v \in Spare, NEW idx \in 0 .. len, ArrInsert(v, idx)
  PROVE  ArrIInv' /\ Inserts
<1>1. len \in Nat /\ v \in Values
  BY ItemsAre DEF ArrIInv
<1>2. ArrModified /\ len' = len + 1 /\ ptr' = IF idx = len THEN v ELSE ptr
  BY DEF ArrInsert
<1>3. CASE len = 0
  <2>1. nxt' = [nxt EXCEPT ![v] = v] /\ ptr' = v
    BY <1>3 DEF ArrInsert
  <2>. QED BY <1>1, <1>2, <1>3, <2>1, FirstStep
<1>4. CASE len > 0
  <2>1. PICK q : /\ q = Ahead(ptr, IF idx = len THEN 0 ELSE idx)
                 /\ nxt' = [nxt EXCEPT ![q] = v, ![v] = nxt[q]]
    BY <1>1, <1>4 DEF ArrInsert
  <2>2. PICK i \in 1 .. (len + 1) : i = idx + 1 /\ i - 1 = idx /\ (i = len + 1 <=> idx = len)
    BY <1>1
  <2>3. (IF idx = len THEN 0 ELSE idx) \in 0 .. (len + 1)
    BY <1>1
  <2>4. q = RingAt(Items, IF idx = len THEN 0 ELSE idx)
    BY <1>4, <2>1, <2>3, ItemsAre DEF ArrIInv
  <2>5. RingAt(Items, 0) = RingAt(Items, len)
    BY <1>4, Ends
  <2>6. q = RingAt(Items, i - 1)
    BY <2>2, <2>4, <2>5
  <2>7. ptr' = IF i = len + 1 THEN v ELSE ptr
    BY <1>2, <2>2
  <2>. QED BY <1>2, <1>4, <2>1, <2>6, <2>7, InsertStep
<1>. QED BY <1>1, <1>3, <1>4

\* yyjson_mut_arr_replace.
LEMMA ArrReplaceStep ==
  ASSUME ArrIInv, NEW v \in Spare, NEW idx \in 0 .. len, ArrReplace(idx, v)
  PROVE  ArrIInv' /\ Replaces
<1>1. len \in Nat /\ v \in Values
  BY ItemsAre DEF ArrIInv
<1>2. PICK q : q = Ahead(ptr, idx)
  OBVIOUS
<1>3. /\ idx < len /\ ArrModified /\ len' = len
      /\ nxt' = IF len > 1 THEN [nxt EXCEPT ![q] = v, ![v] = nxt[nxt[q]]] ELSE [nxt EXCEPT ![v] = v]
      /\ ptr' = IF len = 1 \/ nxt[q] = ptr THEN v ELSE ptr
  BY <1>2 DEF ArrReplace
<1>4. CASE len = 1
  <2>1. nxt' = [nxt EXCEPT ![v] = v] /\ ptr' = v
    BY <1>3, <1>4
  <2>. QED BY <1>1, <1>3, <1>4, <2>1, ReplaceOnlyStep
<1>5. CASE len > 1
  <2>1. PICK i \in 1 .. len : i = idx + 1 /\ i - 1 = idx /\ idx \in 0 .. (len + 1) /\ idx \in 0 .. len
                             /\ len > 0 /\ len # 1
    BY <1>1, <1>3, <1>5
  <2>2. q = RingAt(Items, i - 1)
    BY <1>2, <2>1, ItemsAre DEF ArrIInv
  <2>3. nxt[q] = RingAt(Items, i)
    BY <2>1, <2>2, Ends
  <2>4. nxt[nxt[q]] = RingAt(Items, i + 1) /\ (nxt[q] = ptr <=> i = len)
    <3>1. i \in 0 .. len
      BY <1>1
    <3>. QED BY <2>1, <2>3, <3>1, Ends
  <2>5. /\ nxt' = [nxt EXCEPT ![q] = v, ![v] = RingAt(Items, i + 1)]
        /\ ptr' = IF i = len THEN v ELSE ptr
    BY <1>3, <1>5, <2>1, <2>4
  <2>. QED BY <1>3, <1>5, <2>2, <2>5, ReplaceStep
<1>. QED BY <1>1, <1>3, <1>4, <1>5

\* yyjson_mut_arr_remove.
LEMMA ArrRemoveStep ==
  ASSUME ArrIInv, NEW idx \in 0 .. len, ArrRemove(idx)
  PROVE  ArrIInv' /\ Removes
<1>1. len \in Nat
  BY DEF ArrIInv, Ring
<1>2. PICK q : q = Ahead(ptr, idx)
  OBVIOUS
<1>3. /\ idx < len /\ ArrModified /\ len' = len - 1
      /\ IF len = 1 THEN UNCHANGED <<nxt, ptr>>
         ELSE /\ nxt' = [nxt EXCEPT ![q] = nxt[nxt[q]]]
              /\ ptr' = IF nxt[q] = ptr THEN q ELSE ptr
  BY <1>2 DEF ArrRemove
<1>4. CASE len = 1
  <2>1. len' = 0 /\ UNCHANGED <<nxt, ptr>> /\ len > 0
    BY <1>3, <1>4
  <2>. QED BY <1>3, <2>1, ClearStep
<1>5. CASE len > 1
  <2>1. PICK i \in 1 .. len : i = idx + 1 /\ i - 1 = idx /\ idx \in 0 .. (len + 1) /\ idx \in 0 .. len
                             /\ i \in 0 .. len /\ len > 0 /\ len # 1
    BY <1>1, <1>3, <1>5
  <2>2. q = RingAt(Items, i - 1)
    BY <1>2, <2>1, ItemsAre DEF ArrIInv
  <2>3. nxt[q] = RingAt(Items, i)
    BY <2>1, <2>2, Ends
  <2>4. nxt[nxt[q]] = RingAt(Items, i + 1) /\ (nxt[q] = ptr <=> i = len)
    BY <2>1, <2>3, Ends
  <2>5. PICK c \in 1 .. (len - i + 1) : c = 1 /\ c < len /\ (i + c = len + 1 <=> i = len)
    BY <1>1, <1>5
  <2>6. /\ nxt' = [nxt EXCEPT ![q] = RingAt(Items, i + c)]
        /\ ptr' = IF i + c = len + 1 THEN q ELSE ptr
        /\ len' = len - c
    BY <1>3, <2>1, <2>4, <2>5
  <2>. QED BY <1>3, <2>2, <2>5, <2>6, CutStep
<1>. QED BY <1>1, <1>3, <1>4, <1>5

\* yyjson_mut_arr_remove_first and _last.
LEMMA RemoveFirstStep ==
  ASSUME ArrIInv, ArrRemoveFirst
  PROVE  ArrIInv' /\ Removes
<1>1. len \in Nat /\ len > 0
  BY DEF ArrIInv, Ring, ArrRemoveFirst
<1>2. /\ ArrModified /\ len' = len - 1 /\ ptr' = ptr
      /\ nxt' = IF len = 1 THEN nxt ELSE [nxt EXCEPT ![ptr] = nxt[nxt[ptr]]]
  BY DEF ArrRemoveFirst
<1>3. CASE len = 1
  <2>1. len' = 0 /\ UNCHANGED <<nxt, ptr>>
    BY <1>2, <1>3
  <2>. QED BY <1>1, <1>2, <2>1, ClearStep
<1>4. CASE len > 1
  <2>1. PICK i \in 1 .. len : i = 1 /\ i - 1 = 0 /\ i \in 0 .. len /\ 0 \in 0 .. len
    BY <1>1
  <2>2. ptr = RingAt(Items, 0) /\ nxt[ptr] = RingAt(Items, 0 + 1)
    BY <1>1, <2>1, Ends
  <2>3. nxt[nxt[ptr]] = RingAt(Items, i + 1)
    BY <1>1, <2>1, <2>2, Ends
  <2>4. PICK c \in 1 .. (len - i + 1) : c = 1 /\ c < len /\ i + c # len + 1
    BY <1>1, <1>4, <2>1
  <2>5. PICK q : q = ptr
    OBVIOUS
  <2>6. i + c = i + 1 /\ len # 1
    BY <1>4, <2>1, <2>4
  <2>7. nxt' = [nxt EXCEPT ![q] = RingAt(Items, i + c)]
    BY <1>2, <2>3, <2>5, <2>6
  <2>8. ptr' = IF i + c = len + 1 THEN q ELSE ptr
    BY <1>2, <2>5
  <2>9. len' = len - c
    BY <1>2, <2>4
  <2>10. q = RingAt(Items, i - 1)
    BY <2>1, <2>2, <2>5
  <2>. QED BY <1>2, <2>4, <2>7, <2>8, <2>9, <2>10, CutStep
<1>. QED BY <1>1, <1>3, <1>4

LEMMA RemoveLastStep ==
  ASSUME ArrIInv, ArrRemoveLast
  PROVE  ArrIInv' /\ Removes
<1>1. len \in Nat /\ len > 0
  BY DEF ArrIInv, Ring, ArrRemoveLast
<1>2. PICK q : q = Ahead(ptr, len - 1)
  OBVIOUS
<1>3. /\ ArrModified /\ len' = len - 1
      /\ IF len = 1 THEN UNCHANGED <<nxt, ptr>>
         ELSE nxt' = [nxt EXCEPT ![q] = nxt[ptr]] /\ ptr' = q
  BY <1>2 DEF ArrRemoveLast
<1>4. CASE len = 1
  <2>1. len' = 0 /\ UNCHANGED <<nxt, ptr>>
    BY <1>3, <1>4
  <2>. QED BY <1>1, <1>3, <2>1, ClearStep
<1>5. CASE len > 1
  <2>1. PICK i \in 1 .. len : i = len /\ i - 1 \in 0 .. (len + 1)
    BY <1>1
  <2>2. q = RingAt(Items, i - 1)
    BY <1>1, <1>2, <2>1, ItemsAre DEF ArrIInv
  <2>3. nxt[ptr] = RingAt(Items, i + 1)
    <3>1. len \in 0 .. len
      BY <1>1
    <3>. QED BY <1>1, <2>1, <3>1, Ends
  <2>4. PICK c \in 1 .. (len - i + 1) : c = 1 /\ c < len /\ i + c = len + 1
    BY <1>1, <1>5, <2>1
  <2>5. /\ nxt' = [nxt EXCEPT ![q] = RingAt(Items, i + c)]
        /\ ptr' = IF i + c = len + 1 THEN q ELSE ptr
        /\ len' = len - c
    BY <1>3, <1>5, <2>1, <2>3, <2>4
  <2>. QED BY <1>3, <2>2, <2>4, <2>5, CutStep
<1>. QED BY <1>1, <1>3, <1>4, <1>5

\* yyjson_mut_arr_remove_range.
LEMMA RemoveRangeStep ==
  ASSUME ArrIInv, NEW idx \in 0 .. len, NEW c \in 1 .. len, ArrRemoveRange(idx, c)
  PROVE  ArrIInv' /\ Removes
<1>1. len \in Nat /\ len > 0
  BY DEF ArrIInv, Ring
<1>2. PICK q : q = Ahead(ptr, idx)
  OBVIOUS
<1>3. /\ ArrModified /\ len' = len - c /\ idx + c <= len
      /\ IF c = len THEN UNCHANGED <<nxt, ptr>>
         ELSE /\ nxt' = [nxt EXCEPT ![q] = Ahead(q, c + 1)]
              /\ ptr' = IF idx + c = len THEN q ELSE ptr
  BY <1>2 DEF ArrRemoveRange
<1>4. CASE c = len
  <2>1. len' = 0 /\ UNCHANGED <<nxt, ptr>>
    BY <1>1, <1>3, <1>4
  <2>. QED BY <1>1, <1>3, <2>1, ClearStep
<1>5. CASE c # len
  <2>1. PICK i \in 1 .. len : i = idx + 1 /\ i - 1 = idx
    BY <1>1, <1>3
  <2>2. /\ c \in 1 .. (len - i + 1) /\ c < len /\ (i + c = len + 1 <=> idx + c = len)
        /\ idx \in 0 .. (len + 1) /\ idx + (c + 1) = i + c
        /\ idx \in Nat /\ c + 1 \in Nat /\ idx + (c + 1) <= len + 1
    BY <1>1, <1>3, <1>5, <2>1
  <2>3. q = RingAt(Items, i - 1) /\ q = RingAt(Items, idx)
    BY <1>1, <1>2, <2>1, <2>2, ItemsAre DEF ArrIInv
  <2>4. Ahead(q, c + 1) = RingAt(Items, i + c)
    <3>1. Steps(nxt, RingAt(Items, idx), c + 1) = RingAt(Items, idx + (c + 1))
      BY <1>1, <2>2, StepsAlong DEF ArrIInv
    <3>. QED BY <2>2, <2>3, <3>1, AsLists
  <2>5. /\ nxt' = [nxt EXCEPT ![q] = RingAt(Items, i + c)]
        /\ ptr' = IF i + c = len + 1 THEN q ELSE ptr
    BY <1>3, <1>5, <2>2, <2>4
  <2>. QED BY <1>3, <2>2, <2>3, <2>5, CutStep
<1>. QED BY <1>4, <1>5

\* yyjson_mut_arr_rotate.
LEMMA RotateStep ==
  ASSUME ArrIInv, NEW idx \in 0 .. len, ArrRotate(idx)
  PROVE  ArrIInv' /\ Turns
<1>1. len \in Nat
  BY DEF ArrIInv, Ring
<1>2. /\ ArrModified /\ idx < len /\ ptr' = Ahead(ptr, idx) /\ UNCHANGED <<nxt, len>>
  BY DEF ArrRotate
<1>3. idx \in 0 .. (len - 1) /\ idx \in 0 .. (len + 1) /\ len > 0
  BY <1>1, <1>2
<1>4. ptr' = RingAt(Items, idx)
  BY <1>2, <1>3, ItemsAre DEF ArrIInv
<1>. QED BY <1>2, <1>3, <1>4, TurnStep

\* What an iterator does.
Begins == Items' = Items /\ Position' = 0 /\ Held' = FALSE
Advances ==
  /\ Position \in Nat /\ Position < Len(Items)
  /\ Items' = Items /\ Position' = Position + 1 /\ Held' = TRUE
TakesOut ==
  /\ Held = TRUE /\ Position \in 1 .. Len(Items)
  /\ Items' = RemoveAt(Items, Position)
  /\ Position' = (IF Position = Len(Items) THEN Position - 1 ELSE -2) /\ Held' = FALSE
Strays == Held = FALSE /\ (Position > 0 \/ Position = -2)
TakesOther ==
  /\ Strays
  /\ \E i \in 1 .. Len(Items) : Items' = RemoveAt(Items, i)
  /\ Position' = -2 /\ Held' = FALSE
Breaks == Strays /\ Position' = -3 /\ Held' = FALSE
Stays == Items' = Items /\ Position' = Position /\ Held' = Held

LEMMA PositionIs ==
  ASSUME ArrIInv
  PROVE  /\ itAt = "off" => Position = -1
         /\ itAt # "off" => Position = IF strayed THEN -2 ELSE it.idx
         /\ Held = (itAt = "at" /\ ~strayed)
  BY DEF ArrIInv, Position, Held

LEMMA IterInitStep ==
  ASSUME ArrIInv, ArrIterInit
  PROVE  ArrIInv' /\ Begins
<1>1. /\ it' = Iter(0, len, 0, IF len > 0 THEN ptr ELSE 0) /\ itAt' = "between"
      /\ strayed' = FALSE /\ nxt' = nxt /\ ptr' = ptr /\ len' = len
  BY DEF ArrIterInit
<1>2. Items' = Items
  BY <1>1, AsLists
<1>3. len \in Nat
  BY DEF ArrIInv, Ring
<1>4. /\ it'.max = len /\ it'.idx = 0 /\ 0 \in 0 .. len /\ itAt' # "at" /\ itAt' # "off"
      /\ len > 0 => it'.cur = ptr
  BY <1>1, <1>3 DEF Iter
<1>5. len > 0 => ptr = RingAt(Items, 0) /\ ptr = RingAt(Items, len) /\ len \in 1 .. len
  BY <1>3, Ends
<1>6. OnItsWay' /\ OnList'
  BY <1>1, <1>2, <1>4, <1>5 DEF OnItsWay, OnList, AtSome
<1>7. ArrIInv'
  BY <1>1, <1>2, <1>6 DEF ArrIInv
<1>8. Position' = 0 /\ Held' = FALSE
  BY <1>1, <1>4 DEF Position, Held
<1>. QED BY <1>2, <1>7, <1>8 DEF Begins

LEMMA IterNextStep ==
  ASSUME ArrIInv, ArrIterNext
  PROVE  ArrIInv' /\ (Advances \/ Stays)
<1>1. /\ itAt # "off" /\ it.idx < it.max
      /\ it' = Iter(it.idx + 1, it.max, it.cur, nxt[it.cur]) /\ itAt' = "at"
      /\ strayed' = strayed /\ nxt' = nxt /\ ptr' = ptr /\ len' = len
  BY DEF ArrIterNext
<1>2. Items' = Items
  BY <1>1, AsLists
<1>3. len \in Nat /\ Len(Items) = len
  BY DEF ArrIInv, Ring
<1>4. /\ it.max = len /\ it.idx \in 0 .. len /\ it.idx < len /\ len > 0
      /\ ~strayed => it.cur = RingAt(Items, it.idx)
  BY <1>1, <1>3 DEF ArrIInv, OnItsWay, OnList
<1>5. /\ it'.max = len /\ it'.idx = it.idx + 1 /\ it'.pre = it.cur
      /\ it'.cur = nxt[it.cur] /\ it'.idx \in 0 .. len
  BY <1>1, <1>3, <1>4 DEF Iter
<1>6. ASSUME NEW i \in 0 .. (len - 1), it.cur = RingAt(Items, i)
      PROVE  i + 1 \in 1 .. len /\ AtSome(i + 1)'
  <2>1. i \in 0 .. len /\ (i + 1) - 1 = i /\ i + 1 \in 1 .. len
    BY <1>3
  <2>2. nxt[it.cur] = RingAt(Items, i + 1)
    BY <1>4, <1>6, <2>1, Ends
  <2>. QED BY <1>2, <1>5, <1>6, <2>1, <2>2 DEF AtSome
<1>7. \E i \in 0 .. (len - 1) : it.cur = RingAt(Items, i)
  <2>1. PICK i \in 1 .. len : it.cur = RingAt(Items, i)
    BY <1>1, <1>4 DEF ArrIInv, OnList, AtSome
  <2>2. RingAt(Items, 0) = RingAt(Items, len)
    BY <1>4, Ends
  <2>3. CASE i = len
    BY <1>3, <1>4, <2>1, <2>2, <2>3
  <2>4. CASE i # len
    <3>1. i \in 0 .. (len - 1)
      BY <1>3, <2>4
    <3>. QED BY <2>1, <3>1
  <2>. QED BY <2>3, <2>4
<1>8. OnList'
  BY <1>1, <1>5, <1>6, <1>7 DEF OnList
<1>9. ~strayed => OnItsWay'
  <2>1. it.idx \in 0 .. (len - 1) /\ it.idx + 1 > 0
    BY <1>3, <1>4
  <2>. QED BY <1>1, <1>4, <1>5, <1>6, <2>1 DEF OnItsWay, AtSome
<1>10. ArrIInv'
  BY <1>1, <1>2, <1>8, <1>9 DEF ArrIInv
<1>11. ~strayed => Advances
  <2>1. ~strayed => Position = it.idx /\ Position' = it.idx + 1 /\ Held' = TRUE
    BY <1>1, <1>5, PositionIs DEF Position, Held
  <2>. QED BY <1>2, <1>3, <1>4, <2>1 DEF Advances
<1>12. strayed => Stays
  <2>1. strayed => Position = -2 /\ Position' = -2 /\ Held = FALSE /\ Held' = FALSE
    BY <1>1, PositionIs DEF Position, Held
  <2>. QED BY <1>2, <2>1 DEF Stays
<1>. QED BY <1>10, <1>11, <1>12

LEMMA RingLeft ==
  ASSUME NEW s, NEW N, NEW p, NEW n, Ring(s, N, p, n),
         NEW i \in 1 .. n, NEW q, q = RingAt(s, i - 1), NEW x, x = RingAt(s, i + 1)
  PROVE  Ring(RemoveAt(s, i), [N EXCEPT ![q] = x], IF i = n THEN q ELSE p, n - 1)
<1>1. n \in Nat /\ n > 0 /\ s \in Seq(Values) /\ Len(s) = n /\ N \in [Values -> Nat]
  BY DEF Ring
<1>2. CASE n = 1
  <2>1. PICK t : t = RemoveAt(s, i)
    OBVIOUS
  <2>2. t \in Seq(Values) /\ Len(t) = n - 1
    BY <1>1, <2>1, RemovedIs
  <2>3. t = <<>> /\ n - 1 = 0
    BY <1>2, <2>2
  <2>4. x \in Nat
    <3>1. x = s[1] /\ 1 \in 1 .. Len(s)
      BY <1>1, <1>2 DEF RingAt
    <3>2. s[1] \in Values
      BY <1>1, <3>1, ElementOfSeq
    <3>. QED BY <3>1, <3>2 DEF Values
  <2>5. [N EXCEPT ![q] = x] \in [Values -> Nat]
    BY <1>1, <2>4
  <2>6. t \in Seq(Values) /\ Len(t) = 0 /\ Distinct(t)
    BY <2>2, <2>3 DEF Distinct
  <2>7. Ring(t, [N EXCEPT ![q] = x], IF i = n THEN q ELSE p, 0)
    BY <2>5, <2>6 DEF Ring
  <2>. QED BY <2>1, <2>3, <2>7
<1>3. CASE n > 1
  <2>1. PICK c \in 1 .. (n - i + 1) : c = 1 /\ c < n /\ (i + c = n + 1 <=> i = n)
    BY <1>1, <1>3
  <2>2. Ring(SubSeq(s, 1, i - 1) \o SubSeq(s, i + c, Len(s)), [N EXCEPT ![q] = x],
             IF i + c = n + 1 THEN q ELSE p, n - c)
    BY <2>1, RingCut
  <2>. QED BY <2>1, <2>2 DEF RemoveAt
<1>. QED BY <1>1, <1>2, <1>3

\* cur and pre are side by side in the list that is left, too.
LEMMA SideBySide ==
  ASSUME NEW s \in Seq(Values), NEW n \in Nat, n > 1, Len(s) = n, NEW i \in 1 .. n
  PROVE  \E k \in 1 .. (n - 1) : /\ RingAt(RemoveAt(s, i), k) = RingAt(s, i + 1)
                                 /\ RingAt(RemoveAt(s, i), k - 1) = RingAt(s, i - 1)
<1>1. PICK t : t = RemoveAt(s, i)
  OBVIOUS
<1>2. /\ t \in Seq(Values) /\ Len(t) = n - 1
      /\ \A k \in 1 .. (n - 1) : t[k] = IF k < i THEN s[k] ELSE s[k + 1]
  BY <1>1, RemovedIs
<1>3. CASE i = n
  <2>1. RingAt(t, 1) = RingAt(s, i + 1)
    BY <1>2, <1>3 DEF RingAt
  <2>2. RingAt(t, 1 - 1) = RingAt(s, i - 1)
    BY <1>2, <1>3 DEF RingAt
  <2>. QED BY <1>1, <2>1, <2>2
<1>4. CASE i # n
  <2>1. i \in 1 .. (n - 1)
    BY <1>4
  <2>2. RingAt(t, i) = RingAt(s, i + 1)
    BY <1>2, <2>1 DEF RingAt
  <2>3. RingAt(t, i - 1) = RingAt(s, i - 1)
    BY <1>2, <2>1 DEF RingAt
  <2>. QED BY <1>1, <2>1, <2>2, <2>3
<1>. QED BY <1>3, <1>4

LEMMA IterRemoveStep ==
  ASSUME ArrIInv, ArrIterRemove
  PROVE  ArrayInv' /\ (TakesOut \/ TakesOther \/ Breaks)
<1>1. /\ itAt \in {"at", "between"} /\ 0 < it.idx /\ it.idx <= it.max
      /\ ptr' = IF it.idx = it.max THEN it.pre ELSE ptr
      /\ len' = it.max - 1
      /\ nxt' = [nxt EXCEPT ![it.pre] = nxt[it.cur]]
      /\ it' = Iter(it.idx - 1, it.max - 1, it.pre, nxt[it.cur])
      /\ strayed' = (strayed \/ it.idx < it.max \/ itAt # "at")
      /\ itAt' = IF Fits THEN "between" ELSE "spoilt"
  BY DEF ArrIterRemove, ArrIInv
<1>2. /\ len \in Nat /\ Items \in Seq(Values) /\ Len(Items) = len
      /\ it.max = len /\ it.idx \in 1 .. len /\ len > 0
  BY <1>1 DEF ArrIInv, Ring, OnList
<1>3. PICK i \in 1 .. len : /\ it.cur = RingAt(Items, i) /\ it.pre = RingAt(Items, i - 1)
                            /\ Held => i = it.idx
  <2>1. CASE Held
    BY <1>1, <1>2, <2>1 DEF Held, ArrIInv, OnItsWay, AtSome
  <2>2. CASE ~Held
    BY <1>1, <1>2, <2>2 DEF ArrIInv, OnList, AtSome
  <2>. QED BY <2>1, <2>2
<1>4. /\ nxt[it.cur] = RingAt(Items, i + 1)
      /\ it.cur = ptr <=> i = len
      /\ it.pre = ptr /\ i # len => i = 1
  <2>1. i \in 0 .. len /\ (i - 1 # 0 => i - 1 \in 1 .. len)
    BY <1>2
  <2>2. RingAt(Items, i - 1) = ptr /\ i # len => i - 1 = 0
    BY <1>2, <2>1, Ends
  <2>. QED BY <1>2, <1>3, <2>1, <2>2, Ends
<1>5. CASE Fits
  <2>1. Ring(RemoveAt(Items, i), nxt', ptr', len')
    <3>1. Ring(RemoveAt(Items, i), [nxt EXCEPT ![it.pre] = nxt[it.cur]],
               IF i = len THEN it.pre ELSE ptr, len - 1)
      BY <1>3, <1>4, RingLeft DEF ArrIInv
    <3>2. ptr' = IF i = len THEN it.pre ELSE ptr
      BY <1>1, <1>2, <1>4, <1>5 DEF Fits
    <3>. QED BY <1>1, <1>2, <3>1, <3>2
  <2>2. Items' = RemoveAt(Items, i)
    BY <2>1, RingIs, AsLists
  <2>3. /\ it'.idx = it.idx - 1 /\ it'.max = len - 1 /\ len' = len - 1 /\ it'.pre = it.pre
        /\ it'.cur = nxt[it.cur] /\ itAt' = "between"
    BY <1>1, <1>2, <1>5 DEF Iter
  <2>4. OnList'
    <3>1. it.idx - 1 \in 0 .. (len - 1)
      BY <1>2
    <3>2. ASSUME len - 1 > 0
          PROVE  \E k \in 1 .. (len - 1) : AtSome(k)'
      <4>1. PICK k \in 1 .. (len - 1) :
              /\ RingAt(RemoveAt(Items, i), k) = RingAt(Items, i + 1)
              /\ RingAt(RemoveAt(Items, i), k - 1) = RingAt(Items, i - 1)
        <5>1. len > 1
          BY <1>2, <3>2
        <5>2. PICK z, n : z = Items /\ n = len
          OBVIOUS
        <5>3. /\ z \in Seq(Values) /\ n \in Nat /\ n > 1 /\ Len(z) = n /\ i \in 1 .. n
          BY <1>2, <5>1, <5>2
        <5>4. \E k \in 1 .. (n - 1) : /\ RingAt(RemoveAt(z, i), k) = RingAt(z, i + 1)
                                      /\ RingAt(RemoveAt(z, i), k - 1) = RingAt(z, i - 1)
          BY <5>3, SideBySide
        <5>. QED BY <5>2, <5>4
      <4>. QED BY <1>3, <1>4, <2>2, <2>3, <4>1 DEF AtSome
    <3>. QED BY <2>3, <3>1, <3>2 DEF OnList
  <2>5. ~strayed' => OnItsWay'
    <3>1. ~strayed' => it.idx = len
      <4>1. ~strayed' => ~(it.idx < it.max)
        BY <1>1, Zenon
      <4>. QED BY <1>2, <4>1
    <3>2. it.idx = len => ~(it.idx - 1 < len - 1)
      BY <1>2
    <3>. QED BY <2>3, <3>1, <3>2 DEF OnItsWay
  <2>6. ArrIInv'
    BY <2>1, <2>2, <2>3, <2>4, <2>5 DEF ArrIInv
  <2>7. Held' = FALSE
    BY <2>3 DEF Held
  <2>8. CASE Held
    <3>1. itAt = "at" /\ strayed = FALSE /\ Position = it.idx /\ Held = TRUE
      BY <2>8, <1>1, PositionIs DEF Held
    <3>2. Position' = IF it.idx = len THEN it.idx - 1 ELSE -2
      <4>1. strayed' = (it.idx # len)
        BY <1>1, <1>2, <3>1
      <4>. QED BY <2>3, <4>1 DEF Position
    <3>. QED BY <1>2, <1>3, <2>2, <2>6, <2>7, <2>8, <3>1, <3>2 DEF TakesOut, ArrayInv
  <2>9. CASE ~Held
    <3>1. /\ Held = FALSE /\ strayed' = TRUE
          /\ Position = -2 \/ Position = it.idx
      BY <1>1, <2>9, PositionIs DEF Held
    <3>2. Position' = -2
      BY <2>3, <3>1 DEF Position
    <3>. QED BY <1>2, <2>2, <2>6, <2>7, <3>1, <3>2 DEF TakesOther, Strays, ArrayInv
  <2>. QED BY <2>8, <2>9
<1>6. CASE ~Fits
  <2>1. itAt' = "spoilt"
    BY <1>1, <1>6
  <2>2. Position' = -3 /\ Held' = FALSE /\ ArrayInv'
    BY <2>1 DEF Position, Held, ArrayInv
  <2>3. ~Held
    BY <1>2, <1>3, <1>4, <1>6 DEF Fits
  <2>4. Held = FALSE /\ (Position = -2 \/ Position = it.idx)
    BY <1>1, <2>3, PositionIs DEF Held
  <2>. QED BY <1>2, <2>2, <2>4 DEF Breaks, Strays
<1>. QED BY <1>5, <1>6

-----------------------------------------------------------------------------
LEMMA CreatedIs ==
  ASSUME NEW count \in Values, Created(count)
  PROVE  Ring(Items, nxt, ptr, len)
<1>. DEFINE s == [i \in 1 .. count |-> i]
<1>1. count \in Nat /\ count > 0 /\ ptr = count /\ len = count
      /\ nxt = [v \in Values |-> IF v = count THEN 1 ELSE v + 1]
  BY DEF Values, Created
<1>2. \A i \in 1 .. count : i \in Values
  BY ArrayAssumption DEF Values
<1>3. s \in Seq(Values) /\ Len(s) = count /\ \A i \in 1 .. count : s[i] = i
  BY <1>1, <1>2
<1>. HIDE DEF s
<1>4. Distinct(s)
  BY <1>3 DEF Distinct
<1>5. nxt \in [Values -> Nat]
  <2>1. \A v \in Values : (IF v = count THEN 1 ELSE v + 1) \in Nat
    BY DEF Values
  <2>. QED BY <1>1, <2>1
<1>6. \A i \in 1 .. count : nxt[s[i]] = RingAt(s, i + 1)
  <2>1. ASSUME NEW i \in 1 .. count
        PROVE  nxt[s[i]] = RingAt(s, i + 1)
    <3>1. nxt[s[i]] = IF i = count THEN 1 ELSE i + 1
      BY <1>1, <1>2, <1>3
    <3>2. PICK j \in 1 .. count : j = IF i = count THEN 1 ELSE i + 1
      BY <1>1
    <3>3. RingAt(s, i + 1) = s[j]
      BY <1>1, <1>3, <3>2 DEF RingAt
    <3>. QED BY <1>3, <3>1, <3>2, <3>3
  <2>. QED BY <2>1
<1>7. ptr = s[len]
  BY <1>1, <1>3
<1>8. Ring(s, nxt, ptr, len)
  BY <1>1, <1>3, <1>4, <1>5, <1>6, <1>7 DEF Ring
<1>9. Items = s
  BY <1>8, RingIs, AsLists
<1>. QED BY <1>8, <1>9

LEMMA ArrayInitially == ArrayInit => ArrIInv /\ Position = -1 /\ Held = FALSE
<1>. SUFFICES ASSUME ArrayInit PROVE ArrIInv /\ Position = -1 /\ Held = FALSE
  OBVIOUS
<1>1. itAt = "off" /\ \E count \in Values : Created(count)
  BY DEF ArrayInit
<1>2. Ring(Items, nxt, ptr, len)
  BY <1>1, CreatedIs
<1>. QED BY <1>1, <1>2 DEF ArrIInv, Position, Held

JSVars == <<Items, Position, Held>>

\* Every step is one of the sequence.
SequenceStep ==
  \/ Inserts \/ Replaces \/ Removes \/ Turns \/ Edited(Items)
  \/ Begins \/ Advances \/ TakesOut \/ TakesOther \/ Breaks \/ Stays

LEMMA Unchanged ==
  ASSUME UNCHANGED arrayVars
  PROVE  /\ ArrIInv => ArrIInv'
         /\ ArrayInv => ArrayInv'
         /\ Stays
<1>1. Items' = Items
  BY AsLists DEF arrayVars
<1>2. Position' = Position /\ Held' = Held
  BY DEF Position, Held, arrayVars
<1>3. ArrIInv => ArrIInv'
  BY <1>1 DEF ArrIInv, OnItsWay, OnList, AtSome, arrayVars
<1>4. ArrayInv => ArrayInv'
  BY <1>3 DEF ArrayInv, arrayVars
<1>. QED BY <1>1, <1>2, <1>3, <1>4 DEF Stays

LEMMA ArrayStep ==
  ASSUME ArrayInv, [ArrayNext]_arrayVars
  PROVE  ArrayInv' /\ SequenceStep
<1>1. CASE UNCHANGED arrayVars
  BY <1>1, Unchanged DEF SequenceStep
<1>. SUFFICES ASSUME ArrayNext PROVE ArrayInv' /\ SequenceStep
  BY <1>1
<1>10. ArrIInv /\ (ArrIInv' => ArrayInv')
  BY DEF ArrayNext, ArrayInv
<1>2. ASSUME NEW v \in Spare, AppendTo(v) \/ Prepend(v)
      PROVE  ArrayInv' /\ SequenceStep
  BY <1>2, <1>10, AppendStep, PrependStep DEF SequenceStep
<1>3. ASSUME NEW v \in Spare, Add(v)
      PROVE  ArrayInv' /\ SequenceStep
  <2>1. CASE AppendTo(v)
    BY <1>2, <2>1
  <2>2. CASE UNCHANGED <<nxt, ptr, len, itAt, it, strayed>>
    <3>1. UNCHANGED arrayVars
      BY <2>2 DEF arrayVars
    <3>. QED BY <1>1, <3>1
  <2>. QED BY <1>3, <2>1, <2>2 DEF Add
<1>4. ASSUME NEW v \in Spare, NEW idx \in 0 .. len, ArrInsert(v, idx) \/ ArrReplace(idx, v)
      PROVE  ArrayInv' /\ SequenceStep
  BY <1>4, <1>10, ArrInsertStep, ArrReplaceStep DEF SequenceStep
<1>5. ASSUME NEW idx \in 0 .. len, ArrRemove(idx) \/ ArrRotate(idx)
      PROVE  ArrayInv' /\ SequenceStep
  BY <1>5, <1>10, ArrRemoveStep, RotateStep DEF SequenceStep
<1>6. ASSUME NEW idx \in 0 .. len, NEW n \in 1 .. len, ArrRemoveRange(idx, n)
      PROVE  ArrayInv' /\ SequenceStep
  BY <1>6, <1>10, RemoveRangeStep DEF SequenceStep
<1>7. CASE ArrRemoveFirst \/ ArrRemoveLast
  BY <1>7, <1>10, RemoveFirstStep, RemoveLastStep DEF SequenceStep
<1>8. CASE ArrClear
  <2>1. ArrModified /\ len' = 0 /\ UNCHANGED <<nxt, ptr>>
    BY <1>8 DEF ArrClear
  <2>2. ArrIInv' /\ Edited(<<>>) /\ (len > 0 => Removes)
    BY <1>10, <2>1, ClearStep
  <2>3. len = 0 => Items = <<>>
    BY <1>10 DEF ArrIInv, Ring
  <2>4. len \in Nat
    BY <1>10 DEF ArrIInv, Ring
  <2>. QED BY <1>10, <2>2, <2>3, <2>4 DEF SequenceStep
<1>9. CASE Iterate
  BY <1>9, <1>10, IterInitStep, IterNextStep, IterRemoveStep DEF Iterate, SequenceStep
<1>. QED BY <1>2, <1>3, <1>4, <1>5, <1>6, <1>7, <1>8, <1>9 DEF ArrayNext, Edit

LEMMA StepIs ==
  ASSUME SequenceStep, (Inserts \/ Replaces \/ Removes \/ Turns) => Items \in Seq(Values)
  PROVE  [JS!Next]_JSVars
<1>1. ASSUME Inserts PROVE JS!Next
  BY <1>1 DEF Inserts, Edited, JS!Next, JS!InsertOne, JS!Gone, JS!None, InsertAt, JS!InsertAt
<1>2. ASSUME Replaces PROVE JS!Next
  BY <1>2 DEF Replaces, Edited, JS!Next, JS!ReplaceOne, JS!Gone, JS!None, ReplaceAt,
              JS!ReplaceAt
<1>3. ASSUME Removes PROVE JS!Next
  <2>1. PICK i \in 1 .. Len(Items) : \E c \in 1 .. (Len(Items) - i + 1) :
          Edited(SubSeq(Items, 1, i - 1) \o SubSeq(Items, i + c, Len(Items)))
    BY <1>3 DEF Removes
  <2>2. PICK c \in 1 .. (Len(Items) - i + 1) :
          Edited(SubSeq(Items, 1, i - 1) \o SubSeq(Items, i + c, Len(Items)))
    BY <2>1
  <2>3. c \in 0 .. (Len(Items) - i + 1)
    BY <1>3
  <2>4. JS!RemoveSome(i, c)
    BY <2>2 DEF Edited, JS!RemoveSome, JS!Gone, JS!None
  <2>. QED BY <2>3, <2>4 DEF JS!Next
<1>4. ASSUME Turns PROVE JS!Next
  <2>1. PICK m \in 0 .. (Len(Items) - 1) :
          Edited(SubSeq(Items, m + 1, Len(Items)) \o SubSeq(Items, 1, m))
    BY <1>4 DEF Turns
  <2>2. PICK i \in 1 .. Len(Items) : i - 1 = m
    <3>1. m + 1 \in 1 .. Len(Items) /\ (m + 1) - 1 = m
      BY <1>4
    <3>. QED BY <3>1
  <2>3. JS!Rotate(i - 1)
    BY <2>1, <2>2 DEF Edited, JS!Rotate, JS!Turned, JS!Gone, JS!None
  <2>. QED BY <2>3 DEF JS!Next
<1>5. ASSUME Edited(Items) PROVE JS!Next
  BY <1>5 DEF Edited, JS!Next, JS!Drop, JS!Gone, JS!None
<1>6. ASSUME Begins PROVE JS!Next
  BY <1>6 DEF Begins, JS!Next, JS!Begin
<1>7. ASSUME Advances PROVE JS!Next
  BY <1>7 DEF Advances, JS!Next, JS!Advance
<1>8. ASSUME TakesOut PROVE JS!Next
  BY <1>8 DEF TakesOut, JS!Next, JS!TakeOut, JS!Astray, RemoveAt, JS!RemoveAt
<1>9. ASSUME TakesOther PROVE JS!Next
  BY <1>9 DEF TakesOther, Strays, JS!Next, JS!TakeOutOther, JS!Lost, JS!Astray, RemoveAt,
              JS!RemoveAt
<1>10. ASSUME Breaks PROVE JS!Next
  BY <1>10 DEF Breaks, Strays, JS!Next, JS!Break, JS!Lost, JS!Astray, JS!Broken
<1>11. ASSUME Stays PROVE UNCHANGED JSVars
  BY <1>11 DEF Stays, JSVars
<1>. QED BY <1>1, <1>2, <1>3, <1>4, <1>5, <1>6, <1>7, <1>8, <1>9, <1>10, <1>11
         DEF SequenceStep

\* By position, from its first value and from its last, an array is a sequence,
\* whatever is done to it, with as many values as one likes.  An iterator goes
\* along it and takes out the value it has returned; when that was another than
\* the last and it is used on, it takes out some value, or breaks the list.
THEOREM ArraysAreSequences == ArraySpec => ImplementsSequence
<1>1. ArrayInit => ArrayInv /\ Position = -1 /\ Held = FALSE
  BY ArrayInitially DEF ArrayInv
<1>2. ArrayInv /\ [ArrayNext]_arrayVars => ArrayInv' /\ [JS!Next]_JSVars
  <2>. SUFFICES ASSUME ArrayInv, [ArrayNext]_arrayVars PROVE ArrayInv' /\ [JS!Next]_JSVars
    OBVIOUS
  <2>1. CASE UNCHANGED arrayVars
    <3>1. ArrayInv' /\ UNCHANGED JSVars
      BY <2>1, Unchanged DEF Stays, JSVars
    <3>. QED BY <3>1
  <2>2. CASE ArrayNext
    <3>1. Items \in Seq(Values)
      BY <2>2 DEF ArrayNext, ArrayInv, ArrIInv, Ring
    <3>. QED BY <3>1, ArrayStep, StepIs
  <2>. QED BY <2>1, <2>2
<1>3. JSVars = JS!vars
  BY DEF JSVars, JS!vars
<1>. QED BY <1>1, <1>2, PTL DEF ArraySpec, ImplementsSequence, JS!Spec, JS!vars, JS!None, JSVars

=============================================================================
