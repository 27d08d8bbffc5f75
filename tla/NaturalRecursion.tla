-------------------------- MODULE NaturalRecursion --------------------------
(***************************************************************************)
(* Induction and recursion on the natural numbers, for the proofs about    *)
(* functions on numbers and sequences: a set of numbers has a least one,   *)
(* and a function may be defined at each number by its value at a smaller  *)
(* one.  What varies is a set or a function, so that the facts can be      *)
(* cited for a given one.                                                  *)
(* Then facts about lists of which one element is removed or inserted, or  *)
(* that are turned.                                                        *)
(***************************************************************************)
EXTENDS Integers, SequencesExt, SequenceTheorems, WellFoundedInduction, TLAPS

LessThan == OpToRel(<, Nat)

\* Induction: a set of natural numbers has a least element.  A formula holds of
\* every number when the set of those for which it does not has none.
LEMMA LeastNumber ==
  ASSUME NEW T, T \subseteq Nat, T # {}
  PROVE  \E x \in T : \A y \in T : x <= y
<1>1. IsWellFoundedOn(LessThan, Nat)
  BY NatLessThanWellFounded DEF LessThan
<1>2. \A x, y \in Nat : x < y => <<x, y>> \in LessThan
  BY DEF LessThan, OpToRel
<1>3. PICK x \in T : \A y \in T : <<y, x>> \notin LessThan
  BY <1>1, WFMin
<1>4. \A y \in T : ~(y < x)
  BY <1>2, <1>3
<1>. QED BY <1>4

\* The number n for which the function is asked is in `Rec' when its value is
\* step[n, the value at back[n]], and base[n] otherwise.
ValueAt(f, Rec, back, base, step, n) ==
  IF n \in Rec THEN step[<<n, f[back[n]]>>] ELSE base[n]

\* The function on the natural numbers has these values.
Recursive(f, Rec, back, base, step) ==
  \A n \in Nat : f[n] = ValueAt(f, Rec, back, base, step, n)

\* The functions that are right up to m.
UpTo(m, V, Rec, back, base, step) ==
  {f \in [0..m -> V] : \A n \in 0..m : f[n] = ValueAt(f, Rec, back, base, step, n)}

\* Recursion: there is such a function on the natural numbers.
LEMMA RecursiveFunction ==
  ASSUME NEW V, NEW Rec \in SUBSET Nat,
         NEW back \in [Rec -> Nat], \A n \in Rec : back[n] < n,
         NEW base \in [Nat \ Rec -> V],
         NEW step \in [Rec \X V -> V]
  PROVE  \E f \in [Nat -> V] : Recursive(f, Rec, back, base, step)
<1>. DEFINE Good(m) == UpTo(m, V, Rec, back, base, step)
            Val(f, n) == ValueAt(f, Rec, back, base, step, n)
<1>1. ASSUME NEW m \in Nat, NEW g \in [0..(m - 1) -> V],
             \A n \in 0..(m - 1) : g[n] = Val(g, n)
      PROVE  Good(m) # {}
  <2>. DEFINE v == IF m \in Rec THEN step[<<m, g[back[m]]>>] ELSE base[m]
              f == [n \in 0..m |-> IF n = m THEN v ELSE g[n]]
  <2>1. v \in V
    <3>1. CASE m \in Rec
      <4>1. back[m] \in 0..(m - 1)
        BY <3>1
      <4>. QED BY <3>1, <4>1
    <3>2. CASE m \notin Rec
      BY <3>2
    <3>. QED BY <3>1, <3>2
  <2>2. f \in [0..m -> V]
    BY <2>1
  <2>3. ASSUME NEW n \in 0..m
        PROVE  f[n] = Val(f, n)
    <3>1. n \in Rec => back[n] \in 0..(m - 1) /\ f[back[n]] = g[back[n]]
      OBVIOUS
    <3>2. CASE n = m
      BY <3>1, <3>2 DEF ValueAt
    <3>3. CASE n # m
      <4>1. f[n] = g[n] /\ g[n] = Val(g, n)
        BY <1>1, <3>3
      <4>. HIDE DEF f
      <4>. QED BY <4>1, <3>1 DEF ValueAt
    <3>. QED BY <3>2, <3>3
  <2>4. f \in Good(m)
    BY <2>2, <2>3 DEF UpTo
  <2>. QED BY <2>4
<1>2. \A m \in Nat : Good(m) # {}
  <2>. DEFINE T == {m \in Nat : Good(m) = {}}
  <2>. SUFFICES ASSUME T # {} PROVE FALSE
    OBVIOUS
  <2>1. PICK m \in T : \A k \in T : m <= k
    BY LeastNumber
  <2>2. CASE m = 0
    <3>1. [n \in {} |-> n] \in [0..(m - 1) -> V]
      BY <2>2
    <3>2. \A n \in 0..(m - 1) : FALSE
      BY <2>2
    <3>. QED BY <1>1, <3>1, <3>2
  <2>3. CASE m # 0
    <3>1. m - 1 \in Nat /\ m - 1 \notin T
      BY <2>1, <2>3
    <3>2. PICK g : g \in Good(m - 1)
      BY <3>1
    <3>. QED BY <1>1, <3>2 DEF UpTo
  <2>. QED BY <2>2, <2>3
<1>3. ASSUME NEW k \in Nat, NEW m \in Nat, NEW g \in Good(k), NEW h \in Good(m),
             NEW n \in Nat, n <= k, n <= m
      PROVE  g[n] = h[n]
  <2>. DEFINE T == {i \in Nat : i <= k /\ i <= m /\ g[i] # h[i]}
  <2>. SUFFICES ASSUME T # {} PROVE FALSE
    BY <1>3
  <2>1. PICK i \in T : \A j \in T : i <= j
    BY LeastNumber
  <2>2. i \in 0..k /\ i \in 0..m /\ g[i] # h[i]
    OBVIOUS
  <2>3. g[i] = Val(g, i) /\ h[i] = Val(h, i)
    BY <2>2 DEF UpTo
  <2>4. i \in Rec => back[i] \in Nat /\ back[i] \notin T /\ back[i] <= k /\ back[i] <= m
    BY <2>1, <2>2
  <2>. QED BY <2>2, <2>3, <2>4 DEF ValueAt
<1>. DEFINE G(n) == CHOOSE g : g \in Good(n)
            F == [n \in Nat |-> G(n)[n]]
<1>4. \A n \in Nat : G(n) \in Good(n)
  BY <1>2
<1>. HIDE DEF G
<1>5. F \in [Nat -> V]
  <2>1. ASSUME NEW n \in Nat PROVE G(n)[n] \in V
    <3>1. G(n) \in [0..n -> V] /\ n \in 0..n
      BY <1>4 DEF UpTo
    <3>. QED BY <3>1
  <2>. QED BY <2>1
<1>6. ASSUME NEW n \in Nat
      PROVE  F[n] = Val(F, n)
  <2>1. F[n] = Val(G(n), n)
    BY <1>4 DEF UpTo
  <2>2. CASE n \in Rec
    <3>1. back[n] \in Nat /\ back[n] <= n /\ back[n] <= back[n]
      BY <2>2
    <3>2. G(n)[back[n]] = G(back[n])[back[n]]
      <4>1. G(n) \in Good(n) /\ G(back[n]) \in Good(back[n])
        BY <1>4, <3>1
      <4>. HIDE DEF Good
      <4>. QED BY <1>3, <3>1, <4>1
    <3>. QED BY <2>1, <2>2, <3>1, <3>2 DEF ValueAt
  <2>3. CASE n \notin Rec
    BY <2>1, <2>3 DEF ValueAt
  <2>. QED BY <2>2, <2>3
<1>7. Recursive(F, Rec, back, base, step)
  BY <1>6 DEF Recursive
<1>. QED BY <1>5, <1>7

-----------------------------------------------------------------------------
(* Lists: what is at which place when one element is removed or inserted, or  *)
(* the list is turned.                                                       *)

Distinct(s) == \A i, j \in 1 .. Len(s) : s[i] = s[j] => i = j

\* Without its element at i.
LEMMA RemovedIs ==
  ASSUME NEW S, NEW s \in Seq(S), NEW i \in 1 .. Len(s)
  PROVE  /\ RemoveAt(s, i) \in Seq(S) /\ Len(RemoveAt(s, i)) = Len(s) - 1
         /\ \A k \in 1 .. (Len(s) - 1) :
              RemoveAt(s, i)[k] = IF k < i THEN s[k] ELSE s[k + 1]
<1>. DEFINE low == SubSeq(s, 1, i - 1)
            high == SubSeq(s, i + 1, Len(s))
<1>1. Len(s) \in Nat /\ i \in Nat
  BY LenProperties
<1>2. \A k \in 1 .. Len(s) : s[k] \in S
  BY ElementOfSeq
<1>3. /\ low \in Seq(S) /\ Len(low) = i - 1
      /\ \A k \in 1 .. (i - 1) : low[k] = s[k]
  <2>1. \A k \in 1 .. (i - 1) : s[k] \in S
    BY <1>1, <1>2
  <2>2. /\ low \in Seq(S) /\ Len(low) = IF 1 <= i - 1 THEN i - 1 - 1 + 1 ELSE 0
        /\ \A k \in 1 .. (i - 1 - 1 + 1) : low[k] = s[1 + k - 1]
    BY <1>1, <2>1, SubSeqProperties
  <2>. HIDE DEF low
  <2>. QED BY <1>1, <2>2
<1>4. /\ high \in Seq(S) /\ Len(high) = Len(s) - i
      /\ \A k \in 1 .. (Len(s) - i) : high[k] = s[i + k]
  <2>1. \A k \in (i + 1) .. Len(s) : s[k] \in S
    BY <1>1, <1>2
  <2>2. /\ high \in Seq(S)
        /\ Len(high) = IF i + 1 <= Len(s) THEN Len(s) - (i + 1) + 1 ELSE 0
        /\ \A k \in 1 .. (Len(s) - (i + 1) + 1) : high[k] = s[i + 1 + k - 1]
    BY <1>1, <2>1, SubSeqProperties
  <2>. HIDE DEF high
  <2>. QED BY <1>1, <2>2
<1>. HIDE DEF low, high
<1>5. /\ low \o high \in Seq(S) /\ Len(low \o high) = Len(low) + Len(high)
      /\ \A k \in 1 .. (Len(low) + Len(high)) :
           (low \o high)[k] = IF k <= Len(low) THEN low[k] ELSE high[k - Len(low)]
  BY <1>3, <1>4, ConcatProperties
<1>6. RemoveAt(s, i) = low \o high
  BY DEF RemoveAt, low, high
<1>7. ASSUME NEW k \in 1 .. (Len(s) - 1)
      PROVE  (low \o high)[k] = IF k < i THEN s[k] ELSE s[k + 1]
  <2>1. CASE k < i
    BY <1>1, <1>3, <1>4, <1>5, <2>1
  <2>2. CASE ~(k < i)
    <3>1. (low \o high)[k] = high[k - (i - 1)] /\ k - (i - 1) \in 1 .. (Len(s) - i)
      BY <1>1, <1>3, <1>4, <1>5, <2>2, SMTT(20)
    <3>2. high[k - (i - 1)] = s[i + (k - (i - 1))]
      BY <1>4, <3>1
    <3>3. i + (k - (i - 1)) = k + 1
      BY <1>1
    <3>. QED BY <2>2, <3>1, <3>2, <3>3
  <2>. QED BY <2>1, <2>2
<1>8. Len(low \o high) = Len(s) - 1
  <2>1. Len(low) = i - 1 /\ Len(high) = Len(s) - i /\ Len(low \o high) = Len(low) + Len(high)
    BY <1>3, <1>4, <1>5
  <2>. QED BY <1>1, <2>1
<1>. QED BY <1>5, <1>6, <1>7, <1>8

\* With e in the place of its elements behind low, up to high.
Splice(s, low, high, e) == SubSeq(s, 1, low) \o <<e>> \o SubSeq(s, high + 1, Len(s))

LEMMA Spliced ==
  ASSUME NEW S, NEW s \in Seq(S), NEW e \in S,
         NEW low \in Nat, NEW high \in Nat, low <= high, high <= Len(s)
  PROVE  /\ Splice(s, low, high, e) \in Seq(S)
         /\ Len(Splice(s, low, high, e)) = low + 1 + (Len(s) - high)
         /\ \A k \in 1 .. (low + 1 + (Len(s) - high)) :
              Splice(s, low, high, e)[k] = IF k <= low THEN s[k]
                                           ELSE IF k = low + 1 THEN e
                                           ELSE s[k - (low + 1) + high]
<1>. DEFINE first == SubSeq(s, 1, low)
            one == <<e>>
            rest == SubSeq(s, high + 1, Len(s))
            upto == first \o one
<1>0. one \in Seq(S) /\ Len(one) = 1 /\ one[1] = e
  OBVIOUS
<1>1. Len(s) \in Nat /\ low \in Nat /\ high \in Nat /\ low <= high /\ high <= Len(s)
  BY LenProperties
<1>2. \A k \in 1 .. Len(s) : s[k] \in S
  BY ElementOfSeq
<1>3. /\ first \in Seq(S) /\ Len(first) = low
      /\ \A k \in 1 .. low : first[k] = s[k]
  <2>1. \A k \in 1 .. low : s[k] \in S
    BY <1>1, <1>2
  <2>2. /\ first \in Seq(S) /\ Len(first) = IF 1 <= low THEN low - 1 + 1 ELSE 0
        /\ \A k \in 1 .. (low - 1 + 1) : first[k] = s[1 + k - 1]
    BY <1>1, <2>1, SubSeqProperties
  <2>. HIDE DEF first
  <2>. QED BY <1>1, <2>2
<1>4. /\ rest \in Seq(S) /\ Len(rest) = Len(s) - high
      /\ \A k \in 1 .. (Len(s) - high) : rest[k] = s[high + k]
  <2>1. \A k \in (high + 1) .. Len(s) : s[k] \in S
    BY <1>1, <1>2
  <2>2. /\ rest \in Seq(S)
        /\ Len(rest) = IF high + 1 <= Len(s) THEN Len(s) - (high + 1) + 1 ELSE 0
        /\ \A k \in 1 .. (Len(s) - (high + 1) + 1) : rest[k] = s[high + 1 + k - 1]
    BY <1>1, <2>1, SubSeqProperties
  <2>. HIDE DEF rest
  <2>3. Len(rest) = Len(s) - high
    BY <1>1, <2>2
  <2>4. ASSUME NEW k \in 1 .. (Len(s) - high)
        PROVE  rest[k] = s[high + k]
    <3>1. k \in 1 .. (Len(s) - (high + 1) + 1) /\ high + 1 + k - 1 = high + k
      BY <1>1
    <3>2. rest[k] = s[high + 1 + k - 1]
      BY <2>2, <3>1
    <3>. QED BY <3>1, <3>2
  <2>. QED BY <2>2, <2>3, <2>4
<1>. HIDE DEF first, one, rest
<1>5. /\ upto \in Seq(S) /\ Len(upto) = low + 1
      /\ \A k \in 1 .. (low + 1) : upto[k] = IF k <= low THEN s[k] ELSE e
  <2>1. /\ upto \in Seq(S) /\ Len(upto) = Len(first) + Len(one)
        /\ \A k \in 1 .. (Len(first) + Len(one)) :
             upto[k] = IF k <= Len(first) THEN first[k] ELSE one[k - Len(first)]
    <3>1. first \in Seq(S) /\ one \in Seq(S)
      BY <1>0, <1>3
    <3>2. upto \in Seq(S) /\ Len(upto) = Len(first) + Len(one)
      BY <3>1, ConcatProperties
    <3>3. ASSUME NEW k \in 1 .. (Len(first) + Len(one))
          PROVE  upto[k] = IF k <= Len(first) THEN first[k] ELSE one[k - Len(first)]
      BY <3>1, ConcatProperties
    <3>. QED BY <3>2, <3>3
  <2>. HIDE DEF upto
  <2>2. \A k \in 1 .. (low + 1) : k <= low \/ k - low = 1
    BY <1>1
  <2>. QED BY <1>0, <1>1, <1>3, <2>1, <2>2
<1>. HIDE DEF upto
<1>. DEFINE v == upto \o rest
<1>6. /\ v \in Seq(S) /\ Len(v) = Len(upto) + Len(rest)
      /\ \A k \in 1 .. (Len(upto) + Len(rest)) :
           v[k] = IF k <= Len(upto) THEN upto[k] ELSE rest[k - Len(upto)]
  BY <1>4, <1>5, ConcatProperties
<1>. HIDE DEF v
<1>7. Len(v) = low + 1 + (Len(s) - high)
  BY <1>4, <1>5, <1>6
<1>8. ASSUME NEW k \in 1 .. (low + 1 + (Len(s) - high))
      PROVE  v[k] = IF k <= low THEN s[k]
                    ELSE IF k = low + 1 THEN e ELSE s[k - (low + 1) + high]
  <2>1. CASE k <= low + 1
    <3>1. k \in 1 .. (low + 1) /\ k \in 1 .. (Len(upto) + Len(rest)) /\ k <= Len(upto)
      BY <1>1, <1>4, <1>5, <2>1
    <3>2. v[k] = IF k <= low THEN s[k] ELSE e
      BY <1>5, <1>6, <3>1
    <3>3. ~(k <= low) => k = low + 1
      BY <1>1, <2>1
    <3>. QED BY <3>2, <3>3
  <2>2. CASE ~(k <= low + 1)
    <3>1. v[k] = rest[k - (low + 1)] /\ k - (low + 1) \in 1 .. (Len(s) - high)
      BY <1>1, <1>4, <1>5, <1>6, <2>2
    <3>2. rest[k - (low + 1)] = s[high + (k - (low + 1))]
      BY <1>4, <3>1
    <3>3. high + (k - (low + 1)) = k - (low + 1) + high /\ ~(k <= low) /\ k # low + 1
      BY <1>1, <2>2
    <3>. QED BY <3>1, <3>2, <3>3
  <2>. QED BY <2>1, <2>2
<1>9. Splice(s, low, high, e) = v
  BY DEF v, upto, first, one, rest, Splice
<1>. QED BY <1>6, <1>7, <1>8, <1>9

\* With e before its element at i, or behind the last.
LEMMA Inserted ==
  ASSUME NEW S, NEW s \in Seq(S), NEW e \in S, NEW i \in 1 .. (Len(s) + 1)
  PROVE  /\ InsertAt(s, i, e) \in Seq(S) /\ Len(InsertAt(s, i, e)) = Len(s) + 1
         /\ \A k \in 1 .. (Len(s) + 1) :
              InsertAt(s, i, e)[k] = IF k < i THEN s[k] ELSE IF k = i THEN e ELSE s[k - 1]
<1>. DEFINE t == InsertAt(s, i, e)
<1>1. PICK n \in Nat : n = Len(s)
  BY LenProperties
<1>2. PICK low \in 0 .. Len(s) : low = i - 1
  BY <1>1
<1>3. /\ t \in Seq(S) /\ Len(t) = low + 1 + (Len(s) - low)
      /\ \A k \in 1 .. (low + 1 + (Len(s) - low)) :
           t[k] = IF k <= low THEN s[k]
                  ELSE IF k = low + 1 THEN e ELSE s[k - (low + 1) + low]
  <2>1. low \in Nat /\ Len(s) \in Nat /\ low <= Len(s) /\ low <= low /\ low + 1 = i
    BY <1>1, <1>2
  <2>2. t = Splice(s, low, low, e)
    BY <1>2, <2>1 DEF InsertAt, Splice
  <2>. DEFINE u == Splice(s, low, low, e)
  <2>3. /\ u \in Seq(S) /\ Len(u) = low + 1 + (Len(s) - low)
        /\ \A k \in 1 .. (low + 1 + (Len(s) - low)) :
             u[k] = IF k <= low THEN s[k]
                    ELSE IF k = low + 1 THEN e ELSE s[k - (low + 1) + low]
    BY <2>1, Spliced
  <2>. HIDE DEF t, u
  <2>. QED BY <2>2, <2>3 DEF u
<1>. HIDE DEF t
<1>4. low + 1 + (Len(s) - low) = Len(s) + 1
  BY <1>1, <1>2
<1>5. \A k \in 1 .. (Len(s) + 1) :
        /\ k <= low <=> k < i
        /\ k = low + 1 <=> k = i
        /\ k - (low + 1) + low = k - 1
  BY <1>1, <1>2
<1>6. Len(t) = Len(s) + 1
  BY <1>3, <1>4
<1>7. \A k \in 1 .. (Len(s) + 1) :
        t[k] = IF k < i THEN s[k] ELSE IF k = i THEN e ELSE s[k - 1]
  BY <1>3, <1>4, <1>5
<1>. QED BY <1>3, <1>6, <1>7 DEF t

\* The set of a sequence without one of its elements, which are different.
LEMMA RemovedSet ==
  ASSUME NEW S, NEW s \in Seq(S), NEW i \in 1 .. Len(s), Distinct(s)
  PROVE  /\ Distinct(RemoveAt(s, i)) /\ ToSet(RemoveAt(s, i)) = ToSet(s) \ {s[i]}
<1>. DEFINE t == RemoveAt(s, i)
<1>1. /\ t \in Seq(S) /\ Len(t) = Len(s) - 1
      /\ \A k \in 1 .. (Len(s) - 1) : t[k] = IF k < i THEN s[k] ELSE s[k + 1]
  BY RemovedIs
<1>. HIDE DEF t
<1>2. PICK n \in Nat : n = Len(s)
  BY LenProperties
<1>3. /\ DOMAIN s = 1 .. n /\ DOMAIN t = 1 .. (n - 1) /\ Len(t) = n - 1
      /\ i \in 1 .. n
  BY <1>1, <1>2, LenProperties
<1>4. Distinct(t)
  <2>. SUFFICES ASSUME NEW k \in 1 .. (n - 1), NEW l \in 1 .. (n - 1), t[k] = t[l]
                PROVE  k = l
    BY <1>3 DEF Distinct
  <2>. DEFINE up(m) == IF m < i THEN m ELSE m + 1
  <2>1. up(k) \in 1 .. n /\ up(l) \in 1 .. n /\ (up(k) = up(l) => k = l)
    BY <1>3
  <2>2. t[k] = s[up(k)] /\ t[l] = s[up(l)]
    BY <1>1, <1>2
  <2>. HIDE DEF up
  <2>. QED BY <1>2, <2>1, <2>2 DEF Distinct
<1>5. ASSUME NEW k \in 1 .. (n - 1) PROVE \E l \in 1 .. n : l # i /\ t[k] = s[l]
  <2>1. CASE k < i
    BY <1>1, <1>2, <1>3, <2>1
  <2>2. CASE ~(k < i)
    <3>1. k + 1 \in 1 .. n /\ k + 1 # i /\ t[k] = s[k + 1]
      BY <1>1, <1>2, <1>3, <2>2
    <3>. QED BY <3>1
  <2>. QED BY <2>1, <2>2
<1>6. ASSUME NEW l \in 1 .. n, l # i PROVE \E k \in 1 .. (n - 1) : t[k] = s[l]
  <2>1. CASE l < i
    <3>1. l \in 1 .. (n - 1) /\ t[l] = s[l]
      BY <1>1, <1>2, <1>3, <2>1
    <3>. QED BY <3>1
  <2>2. CASE ~(l < i)
    <3>1. l - 1 \in 1 .. (n - 1) /\ ~(l - 1 < i) /\ (l - 1) + 1 = l
      BY <1>3, <1>6, <2>2
    <3>2. t[l - 1] = s[l]
      BY <1>1, <1>2, <3>1
    <3>. QED BY <3>1, <3>2
  <2>. QED BY <2>1, <2>2
<1>7. \A l \in 1 .. n : s[l] = s[i] => l = i
  BY <1>2 DEF Distinct
<1>8. ToSet(t) = ToSet(s) \ {s[i]}
  <2>1. ASSUME NEW k \in 1 .. (n - 1) PROVE t[k] \in ToSet(s) \ {s[i]}
    <3>1. PICK l \in 1 .. n : l # i /\ t[k] = s[l]
      BY <1>5
    <3>. QED BY <1>3, <1>7, <3>1 DEF ToSet
  <2>2. ASSUME NEW l \in 1 .. n, s[l] # s[i] PROVE s[l] \in ToSet(t)
    <3>1. PICK k \in 1 .. (n - 1) : t[k] = s[l]
      BY <1>6, <2>2
    <3>. QED BY <1>3, <3>1 DEF ToSet
  <2>3. \A x \in ToSet(t) : \E k \in 1 .. (n - 1) : x = t[k]
    BY <1>3 DEF ToSet
  <2>4. \A x \in ToSet(s) : \E l \in 1 .. n : x = s[l]
    BY <1>3 DEF ToSet
  <2>. QED BY <2>1, <2>2, <2>3, <2>4
<1>. QED BY <1>4, <1>8 DEF t

\* The set of a sequence into which a new element is put.
LEMMA InsertedSet ==
  ASSUME NEW S, NEW s \in Seq(S), NEW e \in S, NEW i \in 1 .. (Len(s) + 1),
         Distinct(s), e \notin ToSet(s)
  PROVE  /\ Distinct(InsertAt(s, i, e)) /\ ToSet(InsertAt(s, i, e)) = ToSet(s) \cup {e}
<1>. DEFINE t == InsertAt(s, i, e)
<1>1. /\ t \in Seq(S) /\ Len(t) = Len(s) + 1
      /\ \A k \in 1 .. (Len(s) + 1) :
           t[k] = IF k < i THEN s[k] ELSE IF k = i THEN e ELSE s[k - 1]
  BY Inserted
<1>. HIDE DEF t
<1>2. PICK n \in Nat : n = Len(s)
  BY LenProperties
<1>3. /\ DOMAIN s = 1 .. n /\ DOMAIN t = 1 .. (n + 1) /\ Len(t) = n + 1
      /\ i \in 1 .. (n + 1)
  BY <1>1, <1>2, LenProperties
<1>. DEFINE down(m) == IF m < i THEN m ELSE m - 1
<1>4. t[i] = e
  BY <1>1, <1>2
<1>5. ASSUME NEW k \in 1 .. (n + 1), k # i
      PROVE  down(k) \in 1 .. n /\ t[k] = s[down(k)]
  <2>1. down(k) \in 1 .. n
    BY <1>3, <1>5
  <2>2. CASE k < i
    BY <1>1, <1>2, <2>1, <2>2
  <2>3. CASE ~(k < i)
    BY <1>1, <1>2, <1>5, <2>1, <2>3
  <2>. QED BY <2>1, <2>2, <2>3
<1>6. \A k, l \in 1 .. (n + 1) : k # i /\ l # i /\ down(k) = down(l) => k = l
  BY <1>3
<1>7. ASSUME NEW l \in 1 .. n PROVE \E k \in 1 .. (n + 1) : k # i /\ down(k) = l
  <2>1. CASE l < i
    BY <1>3, <2>1
  <2>2. CASE ~(l < i)
    <3>1. l + 1 \in 1 .. (n + 1) /\ l + 1 # i /\ down(l + 1) = l
      BY <1>3, <2>2
    <3>. QED BY <3>1
  <2>. QED BY <2>1, <2>2
<1>. HIDE DEF down
<1>8. \A l \in 1 .. n : s[l] # e
  BY <1>3 DEF ToSet
<1>9. Distinct(t)
  <2>. SUFFICES ASSUME NEW k \in 1 .. (n + 1), NEW l \in 1 .. (n + 1), t[k] = t[l]
                PROVE  k = l
    BY <1>3 DEF Distinct
  <2>1. CASE k # i /\ l # i
    BY <1>2, <1>5, <1>6, <2>1 DEF Distinct
  <2>2. CASE k = i /\ l # i
    BY <1>4, <1>5, <1>8, <2>2
  <2>3. CASE k # i /\ l = i
    BY <1>4, <1>5, <1>8, <2>3
  <2>. QED BY <2>1, <2>2, <2>3
<1>10. \A x : x \in ToSet(t) => x \in ToSet(s) \cup {e}
  <2>. SUFFICES ASSUME NEW k \in 1 .. (n + 1) PROVE t[k] \in ToSet(s) \cup {e}
    BY <1>3 DEF ToSet
  <2>. QED BY <1>3, <1>4, <1>5 DEF ToSet
<1>11. \A x : x \in ToSet(s) \cup {e} => x \in ToSet(t)
  <2>1. e \in ToSet(t)
    BY <1>3, <1>4 DEF ToSet
  <2>2. ASSUME NEW l \in 1 .. n PROVE s[l] \in ToSet(t)
    <3>1. PICK k \in 1 .. (n + 1) : k # i /\ down(k) = l
      BY <1>7
    <3>. QED BY <1>3, <1>5, <3>1 DEF ToSet
  <2>. QED BY <1>3, <2>1, <2>2 DEF ToSet
<1>. QED BY <1>9, <1>10, <1>11 DEF t

\* Turned by m places.
LEMMA TurnedIs ==
  ASSUME NEW S, NEW s \in Seq(S), NEW m \in 0 .. (Len(s) - 1)
  PROVE  LET t == SubSeq(s, m + 1, Len(s)) \o SubSeq(s, 1, m)
         IN /\ t \in Seq(S) /\ Len(t) = Len(s)
            /\ \A k \in 1 .. Len(s) :
                 t[k] = IF k <= Len(s) - m THEN s[k + m] ELSE s[k - (Len(s) - m)]
<1>. DEFINE low == SubSeq(s, m + 1, Len(s))
            high == SubSeq(s, 1, m)
<1>1. PICK n \in Nat : n = Len(s)
  BY LenProperties
<1>2. \A k \in 1 .. n : s[k] \in S
  BY <1>1, ElementOfSeq
<1>3. /\ low \in Seq(S) /\ Len(low) = n - m
      /\ \A k \in 1 .. (n - m) : low[k] = s[k + m]
  <2>1. \A k \in (m + 1) .. n : s[k] \in S
    BY <1>1, <1>2
  <2>2. /\ low \in Seq(S) /\ Len(low) = IF m + 1 <= n THEN n - (m + 1) + 1 ELSE 0
        /\ \A k \in 1 .. (n - (m + 1) + 1) : low[k] = s[m + 1 + k - 1]
    BY <1>1, <2>1, SubSeqProperties
  <2>3. \A k \in 1 .. (n - m) : k \in 1 .. (n - (m + 1) + 1) /\ m + 1 + k - 1 = k + m
    BY <1>1
  <2>. HIDE DEF low
  <2>. QED BY <1>1, <2>2, <2>3
<1>4. /\ high \in Seq(S) /\ Len(high) = m
      /\ \A k \in 1 .. m : high[k] = s[k]
  <2>1. \A k \in 1 .. m : s[k] \in S
    BY <1>1, <1>2
  <2>2. /\ high \in Seq(S) /\ Len(high) = IF 1 <= m THEN m - 1 + 1 ELSE 0
        /\ \A k \in 1 .. (m - 1 + 1) : high[k] = s[1 + k - 1]
    BY <1>1, <2>1, SubSeqProperties
  <2>. HIDE DEF high
  <2>. QED BY <1>1, <2>2
<1>. HIDE DEF low, high
<1>5. /\ low \o high \in Seq(S) /\ Len(low \o high) = Len(low) + Len(high)
      /\ \A k \in 1 .. (Len(low) + Len(high)) :
           (low \o high)[k] = IF k <= Len(low) THEN low[k] ELSE high[k - Len(low)]
  BY <1>3, <1>4, ConcatProperties
<1>6. Len(low) + Len(high) = n
  BY <1>1, <1>3, <1>4
<1>7. ASSUME NEW k \in 1 .. n
      PROVE  (low \o high)[k] = IF k <= n - m THEN s[k + m] ELSE s[k - (n - m)]
  <2>1. CASE k <= n - m
    <3>1. k \in 1 .. (n - m) /\ k \in 1 .. (Len(low) + Len(high)) /\ k <= Len(low)
      BY <1>1, <1>3, <1>6, <2>1
    <3>. QED BY <1>3, <1>5, <2>1, <3>1
  <2>2. CASE ~(k <= n - m)
    <3>1. (low \o high)[k] = high[k - (n - m)] /\ k - (n - m) \in 1 .. m
      BY <1>1, <1>3, <1>5, <1>6, <2>2
    <3>. QED BY <1>4, <2>2, <3>1
  <2>. QED BY <2>1, <2>2
<1>. QED BY <1>1, <1>5, <1>6, <1>7 DEF low, high

=============================================================================
