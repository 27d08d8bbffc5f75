------------------------- MODULE JsonObjectProofs -------------------------
(***************************************************************************)
(* Proofs about the mutable objects of yyjson, for any keys and values.    *)
(* The circular list of keys and values is a sequence of pairs, and the    *)
(* loops that remove, put and pass keys leave what JsonPairs says.  An     *)
(* invariant between the turns of a loop says what it has done so far.     *)
(***************************************************************************)
EXTENDS JsonObject, FiniteSetTheorems, NaturalRecursion

-----------------------------------------------------------------------------
(* Loops, and the keys and pairs of an object.                               *)

LEMMA SameSequence ==
  ASSUME NEW S, NEW s \in Seq(S), NEW t \in Seq(S), Len(s) = Len(t),
         \A i \in 1 .. Len(s) : s[i] = t[i]
  PROVE  s = t
OBVIOUS

\* What is true before a loop, and after each turn if it was before, is true in
\* the end.
LEMMA LoopKeeps ==
  ASSUME NEW N \in Nat, NEW g, NEW inv, g[0] \in inv[0],
         \A n \in 1..N : g[n - 1] \in inv[n - 1] => g[n] \in inv[n]
  PROVE  \A n \in 0..N : g[n] \in inv[n]
<1>. DEFINE T == {n \in 0..N : g[n] \notin inv[n]}
<1>. SUFFICES ASSUME T # {} PROVE FALSE
  OBVIOUS
<1>1. PICK n \in T : \A k \in T : n <= k
  <2>1. T \subseteq Nat
    OBVIOUS
  <2>. HIDE DEF T
  <2>. QED BY <2>1, LeastNumber
<1>2. n \in 0..N /\ g[n] \notin inv[n]
  OBVIOUS
<1>3. n # 0
  BY <1>2
<1>4. n \in 1..N /\ n - 1 \in 0..N /\ n - 1 \notin T
  BY <1>1, <1>2, <1>3
<1>5. g[n - 1] \in inv[n - 1]
  BY <1>4
<1>. QED BY <1>2, <1>4, <1>5

InsertedIs(S, s, e, i, t) ==
  /\ t \in Seq(S) /\ Len(t) = Len(s) + 1
  /\ \A k \in 1 .. (Len(s) + 1) : t[k] = IF k < i THEN s[k] ELSE IF k = i THEN e ELSE s[k - 1]

LEMMA InsertedAt ==
  ASSUME NEW S, NEW s \in Seq(S), NEW e \in S, NEW i \in 1 .. (Len(s) + 1)
  PROVE  InsertedIs(S, s, e, i, InsertAt(s, i, e))
BY Inserted DEF InsertedIs

\* The values of a loop of N turns from `start', and sets that each turn leads
\* from one into the next.
Runs(f, N, start, turn) ==
  /\ f = [n \in 0..N |-> f[n]]
  /\ f[0] = start /\ \A n \in 1..N : f[n] = turn[<<n, f[n - 1]>>]

Holds(N, inv, turn) == \A n \in 1..N : \A s \in inv[n - 1] : turn[<<n, s>>] \in inv[n]

Within(f, N, inv) == \A n \in 0..N : f[n] \in inv[n]

\* A loop whose turns keep to sets of values runs.
LEMMA LoopRuns ==
  ASSUME NEW V, NEW N \in Nat, NEW inv, \A n \in 0..N : inv[n] \subseteq V,
         NEW start \in inv[0], NEW turn, Holds(N, inv, turn)
  PROVE  \E f : Runs(f, N, start, turn) /\ Within(f, N, inv)
<1>. DEFINE Rec == Nat \ {0}
            back == [n \in Rec |-> n - 1]
            base == [n \in Nat \ Rec |-> start]
            step == [p \in Rec \X V |-> IF turn[p] \in V THEN turn[p] ELSE start]
<1>1. /\ \A n \in 0..N : inv[n] \subseteq V
      /\ \A n \in 1..N : \A s \in inv[n - 1] : turn[<<n, s>>] \in inv[n]
  BY DEF Holds
<1>2. start \in V
  BY <1>1
<1>3. PICK f \in [Nat -> V] : Recursive(f, Rec, back, base, step)
  <2>1. Rec \in SUBSET Nat /\ back \in [Rec -> Nat] /\ \A n \in Rec : back[n] < n
    OBVIOUS
  <2>2. base \in [Nat \ Rec -> V] /\ step \in [Rec \X V -> V]
    BY <1>2
  <2>. HIDE DEF Rec, back, base, step
  <2>. QED BY <2>1, <2>2, RecursiveFunction
<1>4. f[0] = start
  BY <1>3 DEF Recursive, ValueAt
<1>5. ASSUME NEW n \in 1..N
      PROVE  f[n - 1] \in V /\ (turn[<<n, f[n - 1]>>] \in V => f[n] = turn[<<n, f[n - 1]>>])
  <2>1. n \in Rec /\ n \in Nat /\ n - 1 \in Nat /\ back[n] = n - 1
    OBVIOUS
  <2>2. f[n] = step[<<n, f[n - 1]>>]
    <3>1. f[n] = ValueAt(f, Rec, back, base, step, n)
      BY <1>3, <2>1 DEF Recursive
    <3>. HIDE DEF Rec, back, base, step
    <3>. QED BY <2>1, <3>1 DEF ValueAt
  <2>3. <<n, f[n - 1]>> \in Rec \X V
    BY <2>1
  <2>. HIDE DEF Rec
  <2>. QED BY <2>2, <2>3
<1>6. \A n \in 0..N : f[n] \in inv[n]
  <2>1. ASSUME NEW n \in 1..N, f[n - 1] \in inv[n - 1]
        PROVE  f[n] \in inv[n]
    <3>1. turn[<<n, f[n - 1]>>] \in inv[n]
      BY <1>1, <2>1
    <3>2. turn[<<n, f[n - 1]>>] \in V
      BY <1>1, <3>1
    <3>. QED BY <1>5, <3>1, <3>2
  <2>2. f[0] \in inv[0]
    BY <1>4
  <2>. QED BY <2>1, <2>2, LoopKeeps
<1>7. \A n \in 1..N : f[n] = turn[<<n, f[n - 1]>>]
  BY <1>1, <1>5, <1>6
<1>. DEFINE g == [n \in 0..N |-> f[n]]
<1>8. \A n \in 0..N : g[n] = f[n]
  OBVIOUS
<1>9. g = [n \in 0..N |-> g[n]]
  OBVIOUS
<1>. HIDE DEF g
<1>10. g[0] = start /\ \A n \in 0..N : g[n] \in inv[n]
  BY <1>4, <1>6, <1>8
<1>11. ASSUME NEW n \in 1..N PROVE g[n] = turn[<<n, g[n - 1]>>]
  <2>1. n \in 0..N /\ n - 1 \in 0..N
    OBVIOUS
  <2>. QED BY <1>7, <1>8, <2>1
<1>. QED BY <1>9, <1>10, <1>11 DEF Runs, Within

-----------------------------------------------------------------------------
\* What is picked, place by place.
Picks(ps, I, T, F) ==
  /\ F[0] = <<>> /\ JP!Picked(ps, I) = F[Len(ps)]
  /\ \A n \in 0 .. Len(ps) : F[n] \in Seq(T)
  /\ \A n \in 1 .. Len(ps) : F[n] = IF n \in I THEN Append(F[n - 1], ps[n]) ELSE F[n - 1]

LEMMA PickedIs ==
  ASSUME NEW T, NEW ps \in Seq(T), NEW I
  PROVE  \E F : Picks(ps, I, T, F)
<1>. DEFINE N == Len(ps)
            Eq(g) == g = [n \in 0..N |-> IF n = 0 THEN <<>>
                                         ELSE IF n \in I THEN Append(g[n - 1], ps[n])
                                              ELSE g[n - 1]]
            inv == [n \in 0..N |-> Seq(T)]
            turn == [p \in (1..N) \X Seq(T) |-> IF p[1] \in I THEN Append(p[2], ps[p[1]])
                                                ELSE p[2]]
<1>1. N \in Nat /\ \A n \in 1..N : ps[n] \in T
  BY LenProperties, ElementOfSeq
<1>2. inv \in [0..N -> SUBSET Seq(T)] /\ <<>> \in inv[0]
  BY <1>1
<1>3. \A n \in 1..N : \A s \in Seq(T) :
        turn[<<n, s>>] = IF n \in I THEN Append(s, ps[n]) ELSE s
  OBVIOUS
<1>4. \A n \in 1..N : \A s \in inv[n - 1] : turn[<<n, s>>] \in inv[n]
  <2>1. ASSUME NEW n \in 1..N, NEW s \in Seq(T)
        PROVE  (IF n \in I THEN Append(s, ps[n]) ELSE s) \in Seq(T)
    BY <1>1
  <2>2. \A n \in 1..N : n \in 0..N /\ n - 1 \in 0..N
    BY <1>1
  <2>. HIDE DEF turn
  <2>. QED BY <1>3, <2>1, <2>2
<1>. HIDE DEF N
<1>5. PICK f : Runs(f, N, <<>>, turn) /\ Within(f, N, inv)
  <2>. HIDE DEF inv, turn
  <2>1. Holds(N, inv, turn)
    BY <1>4 DEF Holds
  <2>2. \A n \in 0..N : inv[n] \subseteq Seq(T)
    BY <1>2
  <2>. QED BY <1>1, <1>2, <2>1, <2>2, LoopRuns
<1>6. \A n \in 0..N : f[n] \in Seq(T)
  BY <1>5 DEF Within
<1>7. Eq(f)
  <2>. HIDE DEF turn
  <2>1. \A n \in 0..N : n # 0 => n \in 1..N /\ n - 1 \in 0..N
    BY <1>1
  <2>2. f[0] = <<>> /\ \A n \in 1..N : f[n] = turn[<<n, f[n - 1]>>]
    BY <1>5 DEF Runs
  <2>3. ASSUME NEW n \in 0..N
        PROVE  f[n] = IF n = 0 THEN <<>>
                      ELSE IF n \in I THEN Append(f[n - 1], ps[n]) ELSE f[n - 1]
    BY <1>3, <1>6, <2>1, <2>2
  <2>4. f = [n \in 0..N |-> f[n]]
    BY <1>5 DEF Runs
  <2>. QED BY <2>3, <2>4
<1>. DEFINE F == CHOOSE g : Eq(g)
<1>8. Eq(F)
  BY <1>7
<1>9. JP!Picked(ps, I) = F[N]
  BY DEF JP!Picked, N
<1>. HIDE DEF F
<1>10. F[0] = <<>> /\ \A n \in 1..N : F[n] = IF n \in I THEN Append(F[n - 1], ps[n])
                                             ELSE F[n - 1]
  <2>1. \A n \in 0..N : F[n] = IF n = 0 THEN <<>>
                               ELSE IF n \in I THEN Append(F[n - 1], ps[n]) ELSE F[n - 1]
    BY <1>8
  <2>2. 0 \in 0..N /\ \A n \in 1..N : n \in 0..N /\ n # 0
    BY <1>1
  <2>. QED BY <2>1, <2>2
<1>11. \A n \in 0..N : F[n] \in Seq(T)
  <2>1. ASSUME NEW n \in 1..N, F[n - 1] \in inv[n - 1]
        PROVE  F[n] \in inv[n]
    <3>1. n \in 0..N /\ n - 1 \in 0..N
      BY <1>1
    <3>2. F[n - 1] \in Seq(T)
      BY <2>1, <3>1
    <3>3. ps[n] \in T
      BY <1>1
    <3>4. Append(F[n - 1], ps[n]) \in Seq(T)
      BY <3>2, <3>3, AppendProperties
    <3>5. F[n] \in Seq(T)
      BY <1>10, <3>2, <3>4
    <3>. QED BY <3>1, <3>5
  <2>2. F[0] \in inv[0]
    BY <1>1, <1>10
  <2>3. \A n \in 0..N : F[n] \in inv[n]
    <3>. HIDE DEF inv
    <3>. QED BY <1>1, <2>1, <2>2, LoopKeeps
  <2>. QED BY <2>3
<1>. QED BY <1>9, <1>10, <1>11 DEF N, Picks

\* A sequence that begins with F and goes on with ps, from behind m.
GoesOn(F, ps, m) == F \o SubSeq(ps, m + 1, Len(ps))

JoinedIs(T, F, ps, m, t) ==
  /\ t \in Seq(T) /\ Len(t) = Len(F) + (Len(ps) - m)
  /\ \A i \in 1 .. (Len(F) + (Len(ps) - m)) :
       t[i] = IF i <= Len(F) THEN F[i] ELSE ps[i - Len(F) + m]

LEMMA GoesOnIs ==
  ASSUME NEW T, NEW F \in Seq(T), NEW ps \in Seq(T), NEW m \in 0 .. Len(ps)
  PROVE  JoinedIs(T, F, ps, m, GoesOn(F, ps, m))
<1>. DEFINE tail == SubSeq(ps, m + 1, Len(ps))
<1>1. PICK n \in Nat, k \in Nat : n = Len(ps) /\ k = Len(F)
  BY LenProperties
<1>2. \A i \in (m + 1) .. n : ps[i] \in T
  BY <1>1, ElementOfSeq
<1>3. /\ tail \in Seq(T) /\ Len(tail) = n - m
      /\ \A i \in 1 .. (n - m) : tail[i] = ps[i + m]
  <2>1. /\ tail \in Seq(T)
        /\ Len(tail) = IF m + 1 <= n THEN n - (m + 1) + 1 ELSE 0
        /\ \A i \in 1 .. (n - (m + 1) + 1) : tail[i] = ps[m + 1 + i - 1]
    BY <1>1, <1>2, SubSeqProperties
  <2>. HIDE DEF tail
  <2>2. \A i \in 1 .. (n - m) : i \in 1 .. (n - (m + 1) + 1) /\ m + 1 + i - 1 = i + m
    BY <1>1
  <2>. QED BY <1>1, <2>1, <2>2
<1>. HIDE DEF tail
<1>4. /\ F \o tail \in Seq(T) /\ Len(F \o tail) = Len(F) + Len(tail)
      /\ \A i \in 1 .. (Len(F) + Len(tail)) :
           (F \o tail)[i] = IF i <= Len(F) THEN F[i] ELSE tail[i - Len(F)]
  BY <1>3, ConcatProperties
<1>5. ASSUME NEW i \in 1 .. (k + (n - m)), ~(i <= k)
      PROVE  tail[i - k] = ps[i - k + m]
  <2>1. i - k \in 1 .. (n - m)
    BY <1>1, <1>5
  <2>. QED BY <1>3, <2>1
<1>. QED BY <1>1, <1>3, <1>4, <1>5 DEF GoesOn, tail, JoinedIs

\* The next place behind m is passed: its element is kept, replaced by x, or
\* left out.
LEMMA GoesOnSteps ==
  ASSUME NEW T, NEW F \in Seq(T), NEW ps \in Seq(T), NEW m \in 0 .. (Len(ps) - 1)
  PROVE  LET q == GoesOn(F, ps, m)
             i == Len(F) + 1
         IN /\ i \in 1 .. Len(q) /\ q[i] = ps[m + 1]
            /\ GoesOn(Append(F, ps[m + 1]), ps, m + 1) = q
            /\ \A x \in T : GoesOn(Append(F, x), ps, m + 1) = ReplaceAt(q, i, x)
            /\ GoesOn(F, ps, m + 1) = RemoveAt(q, i)
<1>. DEFINE q == GoesOn(F, ps, m)
<1>1. PICK n \in Nat, k \in Nat : n = Len(ps) /\ k = Len(F)
  BY LenProperties
<1>2. m \in 0 .. Len(ps) /\ m + 1 \in 0 .. Len(ps)
  BY <1>1
<1>3. /\ q \in Seq(T) /\ Len(q) = k + (n - m)
      /\ \A i \in 1 .. (k + (n - m)) : q[i] = IF i <= k THEN F[i] ELSE ps[i - k + m]
  <2>1. /\ q \in Seq(T) /\ Len(q) = Len(F) + (Len(ps) - m)
        /\ \A i \in 1 .. (Len(F) + (Len(ps) - m)) :
             q[i] = IF i <= Len(F) THEN F[i] ELSE ps[i - Len(F) + m]
    <3>1. JoinedIs(T, F, ps, m, GoesOn(F, ps, m))
      BY <1>2, GoesOnIs
    <3>. QED BY <3>1 DEF JoinedIs
  <2>. HIDE DEF q
  <2>. QED BY <1>1, <2>1
<1>. HIDE DEF q
<1>4. k + 1 \in 1 .. Len(q) /\ q[k + 1] = ps[m + 1]
  <2>1. k + 1 \in 1 .. (k + (n - m)) /\ ~(k + 1 <= k) /\ k + 1 - k + m = m + 1
    BY <1>1
  <2>. QED BY <1>3, <2>1
<1>5. ps[m + 1] \in T
  BY <1>1, ElementOfSeq
<1>6. ASSUME NEW x \in T
      PROVE  LET t == GoesOn(Append(F, x), ps, m + 1)
             IN /\ t \in Seq(T) /\ Len(t) = k + (n - m)
                /\ \A i \in 1 .. (k + (n - m)) : t[i] = IF i = k + 1 THEN x ELSE q[i]
  <2>. DEFINE G == Append(F, x)
              t == GoesOn(G, ps, m + 1)
  <2>1. /\ G \in Seq(T) /\ Len(G) = k + 1
        /\ \A i \in 1 .. (k + 1) : G[i] = IF i = k + 1 THEN x ELSE F[i]
    <3>1. /\ G \in Seq(T) /\ Len(G) = Len(F) + 1
          /\ \A i \in 1 .. Len(F) : G[i] = F[i]
          /\ G[Len(F) + 1] = x
      BY AppendProperties
    <3>. HIDE DEF G
    <3>. QED BY <1>1, <3>1
  <2>. HIDE DEF G
  <2>2. /\ t \in Seq(T) /\ Len(t) = k + 1 + (n - (m + 1))
        /\ \A i \in 1 .. (k + 1 + (n - (m + 1))) :
             t[i] = IF i <= k + 1 THEN G[i] ELSE ps[i - (k + 1) + (m + 1)]
    <3>1. /\ t \in Seq(T) /\ Len(t) = Len(G) + (Len(ps) - (m + 1))
          /\ \A i \in 1 .. (Len(G) + (Len(ps) - (m + 1))) :
               t[i] = IF i <= Len(G) THEN G[i] ELSE ps[i - Len(G) + (m + 1)]
      <4>1. PICK l \in 0 .. Len(ps) : l = m + 1
        BY <1>2
      <4>2. JoinedIs(T, G, ps, l, GoesOn(G, ps, l))
        BY <2>1, GoesOnIs
      <4>. QED BY <4>1, <4>2 DEF JoinedIs
    <3>. HIDE DEF t
    <3>. QED BY <1>1, <2>1, <3>1
  <2>. HIDE DEF t
  <2>3. k + 1 + (n - (m + 1)) = k + (n - m)
    BY <1>1
  <2>4. ASSUME NEW i \in 1 .. (k + (n - m))
        PROVE  t[i] = IF i = k + 1 THEN x ELSE q[i]
    <3>1. CASE i <= k
      <4>1. i <= k + 1 /\ i \in 1 .. (k + 1) /\ i # k + 1
        BY <1>1, <3>1
      <4>. QED BY <1>3, <2>1, <2>2, <2>3, <3>1, <4>1
    <3>2. CASE i = k + 1
      <4>1. i <= k + 1 /\ i \in 1 .. (k + 1)
        BY <1>1, <3>2
      <4>. QED BY <2>1, <2>2, <2>3, <3>2, <4>1
    <3>3. CASE ~(i <= k) /\ i # k + 1
      <4>1. ~(i <= k + 1) /\ i - (k + 1) + (m + 1) = i - k + m
        BY <1>1, <3>3
      <4>. QED BY <1>3, <2>2, <2>3, <3>3, <4>1
    <3>. QED BY <3>1, <3>2, <3>3
  <2>. QED BY <2>2, <2>3, <2>4 DEF t, G
<1>7. GoesOn(Append(F, ps[m + 1]), ps, m + 1) = q
  <2>1. PICK t : t = GoesOn(Append(F, ps[m + 1]), ps, m + 1)
    OBVIOUS
  <2>2. /\ t \in Seq(T) /\ Len(t) = k + (n - m)
        /\ \A i \in 1 .. (k + (n - m)) : t[i] = IF i = k + 1 THEN ps[m + 1] ELSE q[i]
    BY <1>5, <1>6, <2>1
  <2>3. \A i \in 1 .. (k + (n - m)) : t[i] = q[i]
    BY <1>4, <2>2
  <2>. QED BY <1>3, <2>1, <2>2, <2>3, SameSequence
<1>8. ASSUME NEW x \in T
      PROVE  GoesOn(Append(F, x), ps, m + 1) = ReplaceAt(q, k + 1, x)
  <2>1. PICK t : t = GoesOn(Append(F, x), ps, m + 1)
    OBVIOUS
  <2>2. /\ t \in Seq(T) /\ Len(t) = k + (n - m)
        /\ \A i \in 1 .. (k + (n - m)) : t[i] = IF i = k + 1 THEN x ELSE q[i]
    BY <1>6, <2>1
  <2>3. PICK u : u = [q EXCEPT ![k + 1] = x]
    OBVIOUS
  <2>4. /\ u \in Seq(T) /\ Len(u) = k + (n - m)
        /\ \A i \in 1 .. (k + (n - m)) : u[i] = IF i = k + 1 THEN x ELSE q[i]
    BY <1>1, <1>3, <1>4, <2>3
  <2>5. t = u
    BY <2>2, <2>4, SameSequence
  <2>. QED BY <2>1, <2>3, <2>5 DEF ReplaceAt
<1>9. GoesOn(F, ps, m + 1) = RemoveAt(q, k + 1)
  <2>1. PICK t : t = GoesOn(F, ps, m + 1)
    OBVIOUS
  <2>2. /\ t \in Seq(T) /\ Len(t) = k + (n - (m + 1))
        /\ \A i \in 1 .. (k + (n - (m + 1))) :
             t[i] = IF i <= k THEN F[i] ELSE ps[i - k + (m + 1)]
    <3>1. PICK l \in 0 .. Len(ps) : l = m + 1
      BY <1>2
    <3>2. t = GoesOn(F, ps, l)
      BY <2>1, <3>1
    <3>3. /\ t \in Seq(T) /\ Len(t) = Len(F) + (Len(ps) - l)
          /\ \A i \in 1 .. (Len(F) + (Len(ps) - l)) :
               t[i] = IF i <= Len(F) THEN F[i] ELSE ps[i - Len(F) + l]
      <4>1. JoinedIs(T, F, ps, l, t)
        BY <3>2, GoesOnIs
      <4>. QED BY <4>1 DEF JoinedIs
    <3>. QED BY <1>1, <3>1, <3>3
  <2>3. PICK u : u = RemoveAt(q, k + 1)
    OBVIOUS
  <2>4. /\ u \in Seq(T) /\ Len(u) = Len(q) - 1
        /\ \A i \in 1 .. (Len(q) - 1) : u[i] = IF i < k + 1 THEN q[i] ELSE q[i + 1]
    BY <1>3, <1>4, <2>3, RemovedIs
  <2>5. Len(q) - 1 = k + (n - (m + 1))
    BY <1>1, <1>3
  <2>6. ASSUME NEW i \in 1 .. (k + (n - (m + 1)))
        PROVE  t[i] = u[i]
    <3>1. CASE i <= k
      <4>1. i < k + 1 /\ i \in 1 .. (k + (n - m))
        BY <1>1, <3>1
      <4>. QED BY <1>3, <2>2, <2>4, <2>5, <3>1, <4>1
    <3>2. CASE ~(i <= k)
      <4>1. /\ ~(i < k + 1) /\ i + 1 \in 1 .. (k + (n - m)) /\ ~(i + 1 <= k)
            /\ i + 1 - k + m = i - k + (m + 1)
        BY <1>1, <3>2
      <4>. QED BY <1>3, <2>2, <2>4, <2>5, <3>2, <4>1
    <3>. QED BY <3>1, <3>2
  <2>7. t = u
    <3>1. Len(t) = Len(u) /\ \A i \in 1 .. Len(t) : t[i] = u[i]
      BY <2>2, <2>4, <2>5, <2>6
    <3>. QED BY <2>2, <2>4, <3>1, SameSequence
  <2>. QED BY <2>1, <2>3, <2>7
<1>. QED BY <1>1, <1>4, <1>7, <1>8, <1>9 DEF q

LEMMA GoesOnEnds ==
  ASSUME NEW T, NEW F \in Seq(T), NEW ps \in Seq(T)
  PROVE  GoesOn(<<>>, ps, 0) = ps /\ GoesOn(F, ps, Len(ps)) = F
<1>1. PICK n \in Nat, k \in Nat : n = Len(ps) /\ k = Len(F)
  BY LenProperties
<1>2. GoesOn(<<>>, ps, 0) = ps
  <2>1. PICK e \in Seq(T) : e = << >> /\ Len(e) = 0
    <3>1. << >> \in Seq(T) /\ Len(<< >>) = 0
      OBVIOUS
    <3>. QED BY <3>1
  <2>2. PICK u : u = GoesOn(e, ps, 0)
    OBVIOUS
  <2>3. PICK z \in 0 .. Len(ps) : z = 0 /\ u = GoesOn(e, ps, z)
    BY <1>1, <2>2
  <2>4. Len(u) = n /\ u \in Seq(T) /\ \A i \in 1 .. n : u[i] = ps[i]
    <3>1. /\ u \in Seq(T) /\ Len(u) = Len(e) + (Len(ps) - z)
          /\ \A i \in 1 .. (Len(e) + (Len(ps) - z)) :
               u[i] = IF i <= Len(e) THEN e[i] ELSE ps[i - Len(e) + z]
      <4>1. JoinedIs(T, e, ps, z, u)
        BY <2>3, GoesOnIs
      <4>. QED BY <4>1 DEF JoinedIs
    <3>. QED BY <1>1, <2>1, <2>3, <3>1
  <2>5. u = ps
    BY <1>1, <2>4, SameSequence
  <2>. QED BY <2>1, <2>2, <2>5
<1>3. GoesOn(F, ps, n) = F
  <2>1. PICK u : u = GoesOn(F, ps, n)
    OBVIOUS
  <2>2. /\ u \in Seq(T) /\ Len(u) = k + (n - n)
        /\ \A i \in 1 .. (k + (n - n)) : u[i] = IF i <= k THEN F[i] ELSE ps[i - k + n]
    <3>1. PICK z \in 0 .. Len(ps) : z = n /\ u = GoesOn(F, ps, z)
      BY <1>1, <2>1
    <3>2. /\ u \in Seq(T) /\ Len(u) = Len(F) + (Len(ps) - z)
          /\ \A i \in 1 .. (Len(F) + (Len(ps) - z)) :
               u[i] = IF i <= Len(F) THEN F[i] ELSE ps[i - Len(F) + z]
      <4>1. JoinedIs(T, F, ps, z, u)
        BY <3>1, GoesOnIs
      <4>. QED BY <4>1 DEF JoinedIs
    <3>. QED BY <1>1, <3>1, <3>2
  <2>3. Len(u) = k /\ \A i \in 1 .. k : u[i] = F[i]
    BY <1>1, <2>2
  <2>4. u = F
    BY <1>1, <2>2, <2>3, SameSequence
  <2>. QED BY <2>1, <2>4
<1>. QED BY <1>1, <1>2, <1>3

-----------------------------------------------------------------------------
(* Objects.                                                                *)

Elems == Keys \cup Vals
ObjType == [next : [Elems -> Elems], ptr : Elems \cup {"none"}, len : Nat]

\* The key i of a circle: the last one is in front of the first, and the first
\* behind the last.
Round(ks, i) == ks[IF i = 0 THEN Len(ks) ELSE IF i > Len(ks) THEN i - Len(ks) ELSE i]

\* The keys ks and their values take turns in o.
Lies(o, ks) ==
  /\ o \in ObjType /\ ks \in Seq(Keys) /\ Len(ks) = o.len /\ Distinct(ks)
  /\ o.len > 0 => o.ptr = ks[o.len]
  /\ \A i \in 1 .. o.len : /\ o.next[ks[i]] \in Vals
                           /\ o.next[o.next[ks[i]]] = Round(ks, i + 1)

\* The pairs of the keys, with their strings s and contents b.
PairsOf(o, ks, s, b) == [i \in 1 .. Len(ks) |-> <<s[ks[i]], b[o.next[ks[i]]]>>]

LEMMA ElemsApart == \A k \in Keys, v \in Vals : k # v /\ k \in Elems /\ v \in Elems
BY ObjectAssumption DEF Elems

LEMMA RoundBehind ==
  ASSUME NEW ks, NEW n \in Nat, Len(ks) = n
  PROVE  /\ \A j \in 1 .. n : Round(ks, j + 1) = ks[IF j = n THEN 1 ELSE j + 1]
         /\ \A j \in 1 .. (n + 1) : n > 0 => Round(ks, j - 1) = ks[IF j = 1 THEN n ELSE j - 1]
<1>1. ASSUME NEW j \in 1 .. n
      PROVE  Round(ks, j + 1) = ks[IF j = n THEN 1 ELSE j + 1]
  <2>1. (IF j + 1 = 0 THEN n ELSE IF j + 1 > n THEN j + 1 - n ELSE j + 1)
        = IF j = n THEN 1 ELSE j + 1
    OBVIOUS
  <2>. QED BY <2>1 DEF Round
<1>2. ASSUME NEW j \in 1 .. (n + 1), n > 0
      PROVE  Round(ks, j - 1) = ks[IF j = 1 THEN n ELSE j - 1]
  <2>1. (IF j - 1 = 0 THEN n ELSE IF j - 1 > n THEN j - 1 - n ELSE j - 1)
        = IF j = 1 THEN n ELSE j - 1
    BY <1>2
  <2>. QED BY <2>1 DEF Round
<1>. QED BY <1>1, <1>2

LEMMA LiesIs ==
  ASSUME NEW o, NEW ks, Lies(o, ks)
  PROVE  /\ o.len \in Nat /\ Len(ks) = o.len
         /\ \A i \in 1 .. o.len : ks[i] \in Keys /\ Round(ks, i) = ks[i]
         /\ o.len > 0 => /\ o.ptr = Round(ks, 0)
                         /\ \A i \in 0 .. (2 * o.len) : Round(ks, i) \in Keys
                         /\ \A i \in 0 .. (2 * o.len - 1) :
                              /\ o.next[Round(ks, i)] \in Vals
                              /\ KeyAfter(o, Round(ks, i)) = Round(ks, i + 1)
         /\ \A i, j \in 1 .. o.len : o.next[ks[i]] = o.next[ks[j]] => i = j
<1>1. PICK n \in Nat : n = o.len /\ Len(ks) = n
  BY DEF Lies, ObjType
<1>2. \A i \in 1 .. n : ks[i] \in Keys
  BY <1>1, ElementOfSeq DEF Lies
<1>3. \A i \in 1 .. n : Round(ks, i) = ks[i]
  BY <1>1 DEF Round
<1>4. \A i \in 0 .. (2 * n) : n > 0 =>
        \E j \in 1 .. n : /\ Round(ks, i) = ks[j]
                          /\ j = IF i = 0 THEN n ELSE IF i > n THEN i - n ELSE i
  <2>1. ASSUME NEW i \in 0 .. (2 * n), n > 0
        PROVE  \E j \in 1 .. n : /\ Round(ks, i) = ks[j]
                                 /\ j = IF i = 0 THEN n ELSE IF i > n THEN i - n ELSE i
    <3>1. (IF i = 0 THEN n ELSE IF i > n THEN i - n ELSE i) \in 1 .. n
      BY <2>1
    <3>. QED BY <1>1, <3>1 DEF Round
  <2>. QED BY <2>1
<1>5. \A j \in 1 .. n : o.next[ks[j]] \in Vals /\ KeyAfter(o, ks[j]) = Round(ks, j + 1)
  BY <1>1 DEF Lies, KeyAfter
<1>6. ASSUME NEW i \in 0 .. (2 * n - 1), n > 0
      PROVE  /\ o.next[Round(ks, i)] \in Vals
             /\ KeyAfter(o, Round(ks, i)) = Round(ks, i + 1)
  <2>1. PICK j \in 1 .. n : /\ Round(ks, i) = ks[j]
                            /\ j = IF i = 0 THEN n ELSE IF i > n THEN i - n ELSE i
    <3>1. i \in 0 .. (2 * n)
      BY <1>1
    <3>. QED BY <1>4, <1>6, <3>1
  <2>2. (IF j + 1 > n THEN j + 1 - n ELSE j + 1) = (IF i + 1 > n THEN i + 1 - n ELSE i + 1)
    <3>1. PICK x \in Nat, y \in Nat : x = i /\ y = j
      BY <1>1
    <3>2. x <= 2 * n - 1 /\ y = (IF x = 0 THEN n ELSE IF x > n THEN x - n ELSE x)
      BY <1>1, <2>1, <3>1
    <3>3. (IF y + 1 > n THEN y + 1 - n ELSE y + 1) = (IF x + 1 > n THEN x + 1 - n ELSE x + 1)
      BY ONLY n \in Nat, x \in Nat, y \in Nat, n > 0, <3>2
    <3>. QED BY <3>1, <3>3
  <2>3. Round(ks, j + 1) = Round(ks, i + 1)
    <3>1. j + 1 # 0 /\ i + 1 # 0 /\ j + 1 \in Nat /\ i + 1 \in Nat
      BY <1>1
    <3>2. /\ Round(ks, j + 1) = ks[IF j + 1 > n THEN j + 1 - n ELSE j + 1]
          /\ Round(ks, i + 1) = ks[IF i + 1 > n THEN i + 1 - n ELSE i + 1]
      BY <1>1, <3>1 DEF Round
    <3>3. PICK z : /\ z = (IF j + 1 > n THEN j + 1 - n ELSE j + 1)
                   /\ z = (IF i + 1 > n THEN i + 1 - n ELSE i + 1)
      BY ONLY <2>2
    <3>4. Round(ks, j + 1) = ks[z]
      BY ONLY <3>2, <3>3
    <3>5. Round(ks, i + 1) = ks[z]
      BY ONLY <3>2, <3>3
    <3>. QED BY ONLY <3>4, <3>5
  <2>. QED BY <1>5, <2>1, <2>3
<1>7. ASSUME NEW i \in 1 .. n, NEW j \in 1 .. n, o.next[ks[i]] = o.next[ks[j]]
      PROVE  i = j
  <2>1. Round(ks, i + 1) = Round(ks, j + 1)
    BY <1>5, <1>7 DEF KeyAfter
  <2>2. PICK k \in 1 .. n, l \in 1 .. n : /\ k = (IF i = n THEN 1 ELSE i + 1)
                                        /\ l = (IF j = n THEN 1 ELSE j + 1)
    BY <1>1
  <2>3. Round(ks, i + 1) = ks[k] /\ Round(ks, j + 1) = ks[l]
    BY <1>1, <2>2, RoundBehind
  <2>4. k = l
    BY <1>1, <2>1, <2>3 DEF Lies, Distinct
  <2>. QED BY <1>1, <2>2, <2>4
<1>8. n > 0 => o.ptr = Round(ks, 0)
  BY <1>1 DEF Lies, Round
<1>9. \A i \in 0 .. (2 * n) : n > 0 => Round(ks, i) \in Keys
  BY <1>2, <1>4
<1>. QED BY <1>1, <1>2, <1>3, <1>6, <1>7, <1>8, <1>9

\* A walk along the keys, around the end.
LEMMA AheadIs ==
  ASSUME NEW o, NEW ks, Lies(o, ks), o.len > 0,
         NEW a \in Nat, NEW m \in Nat, a + m <= 2 * o.len
  PROVE  KeyAhead(o, Round(ks, a), m) = Round(ks, a + m)
<1>. DEFINE k == Round(ks, a)
            Eq(g) == g = [i \in 0..m |-> IF i = 0 THEN k ELSE KeyAfter(o, g[i - 1])]
            f == [i \in 0..m |-> Round(ks, a + i)]
<1>1. PICK n \in Nat : n = o.len
  BY LiesIs
<1>2. Eq(f)
  <2>1. ASSUME NEW i \in 0..m, i # 0
        PROVE  Round(ks, a + i) = KeyAfter(o, f[i - 1])
    <3>1. i - 1 \in 0..m /\ a + (i - 1) \in 0 .. (2 * n - 1) /\ (a + (i - 1)) + 1 = a + i
      BY <1>1, <2>1
    <3>2. f[i - 1] = Round(ks, a + (i - 1))
      BY <3>1
    <3>3. KeyAfter(o, Round(ks, a + (i - 1))) = Round(ks, (a + (i - 1)) + 1)
      BY <1>1, <3>1, LiesIs
    <3>. HIDE DEF f
    <3>. QED BY <3>1, <3>2, <3>3
  <2>2. Round(ks, a + 0) = k
    <3>1. a + 0 = a
      OBVIOUS
    <3>. QED BY <3>1
  <2>. HIDE DEF k
  <2>3. f = [i \in 0..m |-> IF i = 0 THEN k ELSE KeyAfter(o, f[i - 1])]
    <3>1. \A i \in 0..m : Round(ks, a + i) = IF i = 0 THEN k ELSE KeyAfter(o, f[i - 1])
      BY <2>1, <2>2
    <3>2. f = [i \in 0..m |-> Round(ks, a + i)]
      OBVIOUS
    <3>. HIDE DEF f
    <3>. QED BY <3>1, <3>2
  <2>. QED BY <2>3
<1>3. ASSUME NEW g, Eq(g)
      PROVE  g[m] = f[m]
  <2>. DEFINE inv == [i \in 0..m |-> {f[i]}]
  <2>. HIDE DEF f, k
  <2>1. \A h : Eq(h) => \A i \in 0..m : h[i] = IF i = 0 THEN k ELSE KeyAfter(o, h[i - 1])
    OBVIOUS
  <2>2. \A i \in 0..m : /\ g[i] = IF i = 0 THEN k ELSE KeyAfter(o, g[i - 1])
                        /\ f[i] = IF i = 0 THEN k ELSE KeyAfter(o, f[i - 1])
    BY <1>2, <1>3, <2>1
  <2>. HIDE DEF Eq
  <2>3. g[0] \in inv[0]
    BY <2>2
  <2>4. ASSUME NEW i \in 1..m, g[i - 1] \in inv[i - 1]
        PROVE  g[i] \in inv[i]
    <3>1. i \in 0..m /\ i - 1 \in 0..m /\ i # 0
      OBVIOUS
    <3>. QED BY <2>2, <2>4, <3>1
  <2>5. \A i \in 0..m : g[i] \in inv[i]
    <3>. HIDE DEF inv
    <3>. QED BY <2>3, <2>4, LoopKeeps
  <2>. QED BY <2>5
<1>4. KeyAhead(o, k, m) = (CHOOSE g : Eq(g))[m]
  BY DEF KeyAhead
<1>5. f[m] = Round(ks, a + m)
  OBVIOUS
<1>. HIDE DEF Eq, f
<1>. QED BY <1>2, <1>3, <1>4, <1>5

\* The keys of an object.
KeysOf(o) == [i \in 1 .. o.len |-> IF i = o.len THEN o.ptr ELSE KeyAhead(o, o.ptr, i)]

\* The object is known by its last key.
LEMMA KeysAre ==
  ASSUME NEW o, NEW ks, Lies(o, ks)
  PROVE  /\ KeysOf(o) = ks
         /\ {KeyAhead(o, o.ptr, i) : i \in 1 .. o.len} = {ks[i] : i \in 1 .. o.len}
         /\ \A i \in 1 .. o.len : KeyAhead(o, o.ptr, i) = ks[i]
<1>1. PICK n \in Nat : n = o.len /\ Len(ks) = n /\ ks \in Seq(Keys)
  BY LiesIs DEF Lies
<1>2. \A i \in 1 .. n : KeyAhead(o, o.ptr, i) = ks[i]
  <2>1. ASSUME NEW i \in 1 .. n PROVE KeyAhead(o, o.ptr, i) = ks[i]
    <3>1. n > 0 /\ 0 + i = i /\ 0 + i <= 2 * n
      BY <1>1
    <3>2. KeyAhead(o, Round(ks, 0), i) = Round(ks, i)
      <4>1. KeyAhead(o, Round(ks, 0), i) = Round(ks, 0 + i)
        BY <1>1, <3>1, AheadIs
      <4>. QED BY <3>1, <4>1
    <3>. QED BY <1>1, <3>1, <3>2, LiesIs
  <2>. QED BY <2>1
<1>3. n > 0 => o.ptr = ks[n]
  BY <1>1 DEF Lies
<1>4. KeysOf(o) = ks
  <2>1. ks = [i \in 1 .. n |-> ks[i]]
    BY <1>1
  <2>2. \A i \in 1 .. n : (IF i = n THEN o.ptr ELSE KeyAhead(o, o.ptr, i)) = ks[i]
    BY <1>1, <1>2, <1>3
  <2>. QED BY <1>1, <2>1, <2>2 DEF KeysOf
<1>5. {KeyAhead(o, o.ptr, i) : i \in 1 .. n} = {ks[i] : i \in 1 .. n}
  BY <1>2
<1>. QED BY <1>1, <1>2, <1>4, <1>5

PairType == Names \X Vals
Strings == [Keys -> Names]
Bodies == [Vals -> Vals]

LEMMA PairsAre ==
  ASSUME NEW o, NEW ks, Lies(o, ks), NEW s \in Strings, NEW b \in Bodies
  PROVE  /\ PairsOf(o, ks, s, b) \in Seq(PairType) /\ Len(PairsOf(o, ks, s, b)) = o.len
         /\ \A i \in 1 .. o.len : PairsOf(o, ks, s, b)[i] = <<s[ks[i]], b[o.next[ks[i]]]>>
<1>1. PICK n \in Nat : n = o.len /\ Len(ks) = n
  BY LiesIs
<1>2. \A i \in 1 .. n : <<s[ks[i]], b[o.next[ks[i]]]>> \in PairType
  <2>1. \A i \in 1 .. n : ks[i] \in Keys /\ o.next[ks[i]] \in Vals
    BY <1>1, LiesIs DEF Lies
  <2>. QED BY <2>1 DEF PairType, Strings, Bodies
<1>3. PICK q : q = PairsOf(o, ks, s, b)
  OBVIOUS
<1>4. q = [i \in 1 .. n |-> <<s[ks[i]], b[o.next[ks[i]]]>>]
  BY <1>1, <1>3 DEF PairsOf
<1>5. q \in Seq(PairType) /\ Len(q) = n /\ \A i \in 1 .. n : q[i] = <<s[ks[i]], b[o.next[ks[i]]]>>
  BY <1>2, <1>4
<1>. QED BY <1>1, <1>3, <1>5

\* The place behind one, without the place i.
LEMMA PlaceBehind ==
  ASSUME NEW n \in Nat, NEW i \in 1 .. n, NEW k \in 1 .. (n - 1), NEW l \in 1 .. (n - 1),
         l = IF k = n - 1 THEN 1 ELSE k + 1,
         NEW j \in 1 .. n, j = (IF k < i THEN k ELSE k + 1), j # (IF i = 1 THEN n ELSE i - 1)
  PROVE  (IF j = n THEN 1 ELSE j + 1) = IF l < i THEN l ELSE l + 1
<1>1. CASE k < i
  <2>1. j = k /\ i # 1 /\ k # i - 1
    BY <1>1
  <2>2. k + 1 < i /\ k # n - 1 /\ j # n
    BY <1>1, <2>1
  <2>. QED BY <2>1, <2>2
<1>2. CASE ~(k < i) /\ k = n - 1
  <2>1. j = n /\ l = 1 /\ i # 1
    BY <1>2
  <2>. QED BY <2>1
<1>3. CASE ~(k < i) /\ k # n - 1
  <2>1. j = k + 1 /\ l = k + 1 /\ j # n
    BY <1>3
  <2>. QED BY <1>3, <2>1
<1>. QED BY ONLY <1>1, <1>2, <1>3

\* A pair goes out when the one in front of it is given the key behind it.
LEMMA PairCut ==
  ASSUME NEW o, NEW ks, Lies(o, ks), NEW i \in 1 .. o.len,
         NEW oo \in ObjType, oo.len = o.len - 1,
         oo.ptr = IF i = o.len THEN Round(ks, i - 1) ELSE o.ptr,
         \A x \in Elems : oo.next[x] = IF x = o.next[Round(ks, i - 1)] THEN Round(ks, i + 1)
                                       ELSE o.next[x]
  PROVE  /\ Lies(oo, RemoveAt(ks, i))
         /\ \A s \in Strings, b \in Bodies :
              PairsOf(oo, RemoveAt(ks, i), s, b) = RemoveAt(PairsOf(o, ks, s, b), i)
<1>. DEFINE t == RemoveAt(ks, i)
            N == o.next
            M == oo.next
<1>1. PICK n \in Nat : n = o.len /\ Len(ks) = n /\ ks \in Seq(Keys) /\ n > 0 /\ oo.len = n - 1
  BY LiesIs DEF Lies
<1>2. /\ t \in Seq(Keys) /\ Len(t) = n - 1
      /\ \A k \in 1 .. (n - 1) : t[k] = IF k < i THEN ks[k] ELSE ks[k + 1]
  BY <1>1, RemovedIs
<1>. HIDE DEF t
<1>3. PICK h \in 1 .. n : h = (IF i = 1 THEN n ELSE i - 1) /\ Round(ks, i - 1) = ks[h]
  BY <1>1 DEF Round
<1>4. PICK g \in 1 .. n : g = (IF i = n THEN 1 ELSE i + 1) /\ Round(ks, i + 1) = ks[g]
  BY <1>1 DEF Round
<1>5. \A j \in 1 .. n : /\ ks[j] \in Keys /\ N[ks[j]] \in Vals
                        /\ N[N[ks[j]]] = ks[IF j = n THEN 1 ELSE j + 1]
  <2>1. \A j \in 1 .. n : Round(ks, j + 1) = ks[IF j = n THEN 1 ELSE j + 1]
    BY <1>1, RoundBehind
  <2>2. \A j \in 1 .. n : ks[j] \in Keys
    BY <1>1, LiesIs
  <2>3. \A j \in 1 .. n : N[ks[j]] \in Vals /\ N[N[ks[j]]] = Round(ks, j + 1)
    BY <1>1 DEF Lies
  <2>. HIDE DEF N
  <2>4. ASSUME NEW j \in 1 .. n
        PROVE  /\ ks[j] \in Keys /\ N[ks[j]] \in Vals
               /\ N[N[ks[j]]] = ks[IF j = n THEN 1 ELSE j + 1]
    <3>1. N[ks[j]] \in Vals /\ N[N[ks[j]]] = Round(ks, j + 1)
      BY ONLY <2>3, j \in 1 .. n
    <3>2. Round(ks, j + 1) = ks[IF j = n THEN 1 ELSE j + 1]
      BY ONLY <2>1, j \in 1 .. n
    <3>3. ks[j] \in Keys
      BY ONLY <2>2, j \in 1 .. n
    <3>. QED BY ONLY <3>1, <3>2, <3>3
  <2>. QED BY ONLY <2>4
<1>6. \A j, l \in 1 .. n : (ks[j] = ks[l] => j = l) /\ (N[ks[j]] = N[ks[l]] => j = l)
  <2>1. Distinct(ks) /\ \A j, l \in 1 .. o.len : N[ks[j]] = N[ks[l]] => j = l
    BY LiesIs DEF Lies
  <2>. HIDE DEF N
  <2>. QED BY <1>1, <2>1 DEF Distinct
<1>7. \A x \in Elems : M[x] = IF x = N[ks[h]] THEN ks[g] ELSE N[x]
  BY <1>3, <1>4
<1>. HIDE DEF M, N
<1>8. \A j \in 1 .. n : M[ks[j]] = N[ks[j]]
  BY <1>3, <1>5, <1>7, ElemsApart
<1>9. \A j \in 1 .. n : M[N[ks[j]]] = IF j = h THEN ks[g] ELSE ks[IF j = n THEN 1 ELSE j + 1]
  BY <1>3, <1>5, <1>6, <1>7, ElemsApart
<1>10. ASSUME NEW k \in 1 .. (n - 1)
       PROVE  \E j \in 1 .. n : /\ t[k] = ks[j] /\ j = (IF k < i THEN k ELSE k + 1)
                                /\ M[t[k]] = N[ks[j]] /\ M[t[k]] \in Vals
                                /\ M[M[t[k]]] = t[IF k = n - 1 THEN 1 ELSE k + 1]
  <2>1. PICK j \in 1 .. n : j = IF k < i THEN k ELSE k + 1
    BY <1>1
  <2>2. t[k] = ks[j]
    BY <1>2, <2>1
  <2>3. M[t[k]] = N[ks[j]] /\ M[t[k]] \in Vals
    BY <1>5, <1>8, <2>2
  <2>4. CASE j = h
    <3>1. M[M[t[k]]] = ks[g]
      BY <1>9, <2>3, <2>4
    <3>2. PICK l \in 1 .. (n - 1) : l = IF k = n - 1 THEN 1 ELSE k + 1
      BY <1>1
    <3>3. g = IF l < i THEN l ELSE l + 1
      BY <1>1, <1>3, <1>4, <2>1, <2>4, <3>2
    <3>4. t[l] = ks[g]
      BY <1>2, <3>3
    <3>. QED BY <2>1, <2>2, <2>3, <3>1, <3>2, <3>4
  <2>5. CASE j # h
    <3>1. M[M[t[k]]] = ks[IF j = n THEN 1 ELSE j + 1]
      BY <1>9, <2>3, <2>5
    <3>2. PICK l \in 1 .. (n - 1) : l = IF k = n - 1 THEN 1 ELSE k + 1
      BY <1>1
    <3>3. (IF j = n THEN 1 ELSE j + 1) = IF l < i THEN l ELSE l + 1
      <4>1. /\ i \in 1 .. n /\ j = (IF k < i THEN k ELSE k + 1)
            /\ j # (IF i = 1 THEN n ELSE i - 1)
        BY <1>1, <1>3, <2>1, <2>5
      <4>2. n \in Nat /\ j \in 1 .. n /\ k \in 1 .. (n - 1) /\ l \in 1 .. (n - 1)
        OBVIOUS
      <4>. QED BY ONLY <3>2, <4>1, <4>2, PlaceBehind
    <3>4. t[l] = ks[IF j = n THEN 1 ELSE j + 1]
      BY <1>2, <3>3
    <3>. QED BY <2>1, <2>2, <2>3, <3>1, <3>2, <3>4
  <2>. QED BY <2>4, <2>5
<1>11. Distinct(t)
  <2>1. ASSUME NEW k \in 1 .. (n - 1), NEW l \in 1 .. (n - 1), t[k] = t[l]
        PROVE  k = l
    <3>1. PICK j \in 1 .. n : t[k] = ks[j] /\ j = (IF k < i THEN k ELSE k + 1)
      BY <1>10
    <3>2. PICK m \in 1 .. n : t[l] = ks[m] /\ m = (IF l < i THEN l ELSE l + 1)
      BY <1>10
    <3>3. j = m
      <4>1. ks[j] = ks[m]
        BY ONLY <2>1, <3>1, <3>2
      <4>. QED BY <1>6, <4>1
    <3>4. (IF k < i THEN k ELSE k + 1) = (IF l < i THEN l ELSE l + 1)
      BY <3>1, <3>2, <3>3
    <3>. QED BY <1>1, <3>4
  <2>. QED BY <1>2, <2>1 DEF Distinct
<1>12. n - 1 > 0 => oo.ptr = t[n - 1]
  <2>1. ASSUME n - 1 > 0
        PROVE  oo.ptr = t[n - 1]
    <3>1. o.ptr = ks[n]
      BY <1>1 DEF Lies
    <3>2. oo.ptr = ks[IF i = n THEN n - 1 ELSE n]
      BY <1>1, <1>3, <2>1, <3>1
    <3>3. n - 1 \in 1 .. (n - 1) /\ (n - 1 < i <=> i = n) /\ (n - 1) + 1 = n
      BY <1>1, <2>1
    <3>. QED BY <1>2, <3>2, <3>3
  <2>. QED BY <2>1
<1>13. Lies(oo, t)
  <2>1. \A k \in 1 .. (n - 1) : Round(t, k + 1) = t[IF k = n - 1 THEN 1 ELSE k + 1]
    <3>1. ASSUME NEW k \in 1 .. (n - 1)
          PROVE  (IF k + 1 = 0 THEN n - 1 ELSE IF k + 1 > n - 1 THEN k + 1 - (n - 1) ELSE k + 1)
                 = IF k = n - 1 THEN 1 ELSE k + 1
      BY <1>1
    <3>. QED BY <1>2, <3>1 DEF Round
  <2>2. \A k \in 1 .. (n - 1) : M[t[k]] \in Vals /\ M[M[t[k]]] = Round(t, k + 1)
    BY <1>10, <2>1
  <2>. QED BY <1>1, <1>2, <1>11, <1>12, <2>2 DEF Lies, M
<1>14. ASSUME NEW s \in Strings, NEW b \in Bodies
       PROVE  PairsOf(oo, t, s, b) = RemoveAt(PairsOf(o, ks, s, b), i)
  <2>1. PICK q : q = PairsOf(o, ks, s, b)
    OBVIOUS
  <2>2. /\ q \in Seq(PairType) /\ Len(q) = n
        /\ \A j \in 1 .. n : q[j] = <<s[ks[j]], b[N[ks[j]]]>>
    BY <1>1, <2>1, PairsAre DEF N
  <2>3. PICK p : p = PairsOf(oo, t, s, b)
    OBVIOUS
  <2>4. /\ p \in Seq(PairType) /\ Len(p) = n - 1
        /\ \A k \in 1 .. (n - 1) : p[k] = <<s[t[k]], b[M[t[k]]]>>
    BY <1>1, <1>13, <2>3, PairsAre DEF M
  <2>5. PICK u : u = RemoveAt(q, i)
    OBVIOUS
  <2>6. /\ u \in Seq(PairType) /\ Len(u) = n - 1
        /\ \A k \in 1 .. (n - 1) : u[k] = IF k < i THEN q[k] ELSE q[k + 1]
    <3>1. i \in 1 .. Len(q)
      BY <1>1, <2>2
    <3>2. /\ u \in Seq(PairType) /\ Len(u) = Len(q) - 1
          /\ \A k \in 1 .. (Len(q) - 1) : u[k] = IF k < i THEN q[k] ELSE q[k + 1]
      BY <2>2, <2>5, <3>1, RemovedIs
    <3>. QED BY <2>2, <3>2
  <2>7. ASSUME NEW k \in 1 .. (n - 1)
        PROVE  p[k] = u[k]
    <3>1. PICK j \in 1 .. n : /\ t[k] = ks[j] /\ j = (IF k < i THEN k ELSE k + 1)
                              /\ M[t[k]] = N[ks[j]]
      BY <1>10
    <3>2. u[k] = q[j]
      <4>1. u[k] = IF k < i THEN q[k] ELSE q[k + 1]
        BY <2>6
      <4>. QED BY <3>1, <4>1
    <3>3. p[k] = <<s[t[k]], b[M[t[k]]]>>
      BY <2>4
    <3>4. q[j] = <<s[ks[j]], b[N[ks[j]]]>>
      BY <2>2
    <3>. QED BY ONLY <3>1, <3>2, <3>3, <3>4
  <2>8. p = u
    BY <2>4, <2>6, <2>7, SameSequence
  <2>. QED BY <2>1, <2>3, <2>5, <2>8
<1>. QED BY <1>13, <1>14 DEF t

\* The value of a pair is replaced by another one, which takes its place.
LEMMA PairChanged ==
  ASSUME NEW o, NEW ks, Lies(o, ks), NEW i \in 1 .. o.len,
         NEW v \in Vals, \A j \in 1 .. o.len : o.next[ks[j]] # v,
         NEW oo \in ObjType, oo.len = o.len, oo.ptr = o.ptr,
         \A x \in Elems : oo.next[x] = IF x = ks[i] THEN v
                                       ELSE IF x = v THEN Round(ks, i + 1) ELSE o.next[x]
  PROVE  /\ Lies(oo, ks)
         /\ \A s \in Strings, b \in Bodies :
              PairsOf(oo, ks, s, b) = ReplaceAt(PairsOf(o, ks, s, b), i, <<s[ks[i]], b[v]>>)
<1>1. PICK n \in Nat : n = o.len /\ Len(ks) = n /\ ks \in Seq(Keys)
  BY LiesIs DEF Lies
<1>2. \A j \in 1 .. n : /\ ks[j] \in Keys /\ o.next[ks[j]] \in Vals
                        /\ o.next[o.next[ks[j]]] = Round(ks, j + 1)
  BY <1>1, LiesIs DEF Lies
<1>3. \A j, l \in 1 .. n : ks[j] = ks[l] => j = l
  BY <1>1 DEF Lies, Distinct
<1>4. \A j \in 1 .. n : oo.next[ks[j]] = IF j = i THEN v ELSE o.next[ks[j]]
  BY <1>1, <1>2, <1>3, ElemsApart
<1>5. oo.next[v] = Round(ks, i + 1)
  BY <1>1, <1>2, ElemsApart
<1>6. \A j \in 1 .. n : j # i => oo.next[o.next[ks[j]]] = o.next[o.next[ks[j]]]
  BY <1>1, <1>2, ElemsApart
<1>7. Lies(oo, ks)
  BY <1>1, <1>2, <1>4, <1>5, <1>6 DEF Lies
<1>8. ASSUME NEW s \in Strings, NEW b \in Bodies
      PROVE  PairsOf(oo, ks, s, b) = ReplaceAt(PairsOf(o, ks, s, b), i, <<s[ks[i]], b[v]>>)
  <2>1. PICK q : q = PairsOf(o, ks, s, b)
    OBVIOUS
  <2>2. /\ q \in Seq(PairType) /\ Len(q) = n
        /\ \A j \in 1 .. n : q[j] = <<s[ks[j]], b[o.next[ks[j]]]>>
    BY <1>1, <2>1, PairsAre
  <2>3. PICK p : p = PairsOf(oo, ks, s, b)
    OBVIOUS
  <2>4. /\ p \in Seq(PairType) /\ Len(p) = n
        /\ \A j \in 1 .. n : p[j] = <<s[ks[j]], b[oo.next[ks[j]]]>>
    BY <1>1, <1>7, <2>3, PairsAre
  <2>5. <<s[ks[i]], b[v]>> \in PairType
    BY <1>1, <1>2 DEF PairType, Strings, Bodies
  <2>6. PICK c : c = <<s[ks[i]], b[v]>>
    OBVIOUS
  <2>7. PICK u : u = [q EXCEPT ![i] = c]
    OBVIOUS
  <2>8. u \in Seq(PairType) /\ Len(u) = n /\ \A j \in 1 .. n : u[j] = IF j = i THEN c ELSE q[j]
    BY <1>1, <2>2, <2>5, <2>6, <2>7
  <2>9. ASSUME NEW j \in 1 .. n PROVE p[j] = u[j]
    <3>1. p[j] = <<s[ks[j]], b[oo.next[ks[j]]]>>
      BY <2>4
    <3>. QED BY <1>4, <2>2, <2>6, <2>8, <3>1
  <2>10. p = u
    BY <2>4, <2>8, <2>9, SameSequence
  <2>. QED BY <2>1, <2>3, <2>6, <2>7, <2>10 DEF ReplaceAt
<1>. QED BY <1>7, <1>8

\* A pair that goes in at i has the one in front of it led to it, if there is one.
LEMMA PairAdded ==
  ASSUME NEW o, NEW ks, Lies(o, ks), NEW i \in 1 .. (o.len + 1),
         NEW k \in Keys, \A j \in 1 .. o.len : ks[j] # k,
         NEW v \in Vals, \A j \in 1 .. o.len : o.next[ks[j]] # v,
         NEW oo \in ObjType, oo.len = o.len + 1,
         oo.ptr = IF i = o.len + 1 THEN k ELSE o.ptr,
         \A x \in Elems : oo.next[x] = IF x = k THEN v
                                       ELSE IF x = v THEN (IF o.len = 0 THEN k ELSE Round(ks, i))
                                       ELSE IF o.len > 0 /\ x = o.next[Round(ks, i - 1)] THEN k
                                       ELSE o.next[x]
  PROVE  /\ Lies(oo, InsertAt(ks, i, k))
         /\ \A s \in Strings, b \in Bodies :
              PairsOf(oo, InsertAt(ks, i, k), s, b)
              = InsertAt(PairsOf(o, ks, s, b), i, <<s[k], b[v]>>)
<1>. DEFINE t == InsertAt(ks, i, k)
            N == o.next
            M == oo.next
<1>1. PICK n \in Nat : n = o.len /\ Len(ks) = n /\ ks \in Seq(Keys)
  BY LiesIs DEF Lies
<1>2. /\ t \in Seq(Keys) /\ Len(t) = n + 1
      /\ \A m \in 1 .. (n + 1) : t[m] = IF m < i THEN ks[m] ELSE IF m = i THEN k ELSE ks[m - 1]
  BY <1>1, Inserted
<1>. HIDE DEF t
<1>3. n > 0 => \E h \in 1 .. n : h = (IF i = 1 THEN n ELSE i - 1) /\ Round(ks, i - 1) = ks[h]
  BY <1>1 DEF Round
<1>4. n > 0 => /\ (IF i = n + 1 THEN 1 ELSE i) \in 1 .. n
               /\ Round(ks, i) = ks[IF i = n + 1 THEN 1 ELSE i]
  BY <1>1 DEF Round
<1>5. \A j \in 1 .. n : /\ ks[j] \in Keys /\ N[ks[j]] \in Vals /\ ks[j] # k /\ N[ks[j]] # v
                        /\ N[N[ks[j]]] = ks[IF j = n THEN 1 ELSE j + 1]
  <2>1. \A j \in 1 .. n : Round(ks, j + 1) = ks[IF j = n THEN 1 ELSE j + 1]
    BY <1>1, RoundBehind
  <2>2. \A j \in 1 .. n : ks[j] \in Keys
    BY <1>1, LiesIs
  <2>3. \A j \in 1 .. n : N[ks[j]] \in Vals /\ N[N[ks[j]]] = Round(ks, j + 1)
    BY <1>1 DEF Lies
  <2>4. \A j \in 1 .. n : ks[j] # k /\ N[ks[j]] # v
    BY <1>1
  <2>. HIDE DEF N
  <2>5. ASSUME NEW j \in 1 .. n
        PROVE  /\ ks[j] \in Keys /\ N[ks[j]] \in Vals /\ ks[j] # k /\ N[ks[j]] # v
               /\ N[N[ks[j]]] = ks[IF j = n THEN 1 ELSE j + 1]
    <3>1. N[ks[j]] \in Vals /\ N[N[ks[j]]] = Round(ks, j + 1)
      BY ONLY <2>3, j \in 1 .. n
    <3>2. Round(ks, j + 1) = ks[IF j = n THEN 1 ELSE j + 1]
      BY ONLY <2>1, j \in 1 .. n
    <3>3. ks[j] \in Keys /\ ks[j] # k /\ N[ks[j]] # v
      BY ONLY <2>2, <2>4, j \in 1 .. n
    <3>. QED BY ONLY <3>1, <3>2, <3>3
  <2>. QED BY ONLY <2>5
<1>6. \A j, l \in 1 .. n : (ks[j] = ks[l] => j = l) /\ (N[ks[j]] = N[ks[l]] => j = l)
  <2>1. Distinct(ks) /\ \A j, l \in 1 .. o.len : N[ks[j]] = N[ks[l]] => j = l
    BY LiesIs DEF Lies
  <2>. HIDE DEF N
  <2>. QED BY <1>1, <2>1 DEF Distinct
<1>7. \A x \in Elems : M[x] = IF x = k THEN v
                              ELSE IF x = v THEN (IF n = 0 THEN k ELSE Round(ks, i))
                              ELSE IF n > 0 /\ x = N[Round(ks, i - 1)] THEN k
                              ELSE N[x]
  BY <1>1
<1>8. i \in 1 .. (n + 1)
  BY <1>1
<1>. HIDE DEF M, N
<1>9. M[k] = v /\ (n = 0 => M[v] = k) /\ (n > 0 => M[v] = ks[IF i = n + 1 THEN 1 ELSE i])
  <2>1. k \in Elems /\ v \in Elems /\ v # k
    BY ElemsApart
  <2>. QED BY <1>4, <1>7, <2>1
<1>10. \A j \in 1 .. n : M[ks[j]] = N[ks[j]]
  <2>1. ASSUME NEW j \in 1 .. n PROVE M[ks[j]] = N[ks[j]]
    <3>1. PICK h \in 1 .. n : Round(ks, i - 1) = ks[h]
      BY <1>1, <1>3
    <3>2. ks[j] \in Elems /\ ks[j] # v /\ ks[j] # N[ks[h]]
      BY <1>5, ElemsApart
    <3>. QED BY <1>5, <1>7, <3>1, <3>2
  <2>. QED BY <2>1
<1>11. ASSUME NEW j \in 1 .. n
       PROVE  M[N[ks[j]]] = IF j = (IF i = 1 THEN n ELSE i - 1) THEN k
                            ELSE ks[IF j = n THEN 1 ELSE j + 1]
  <2>1. PICK h \in 1 .. n : h = (IF i = 1 THEN n ELSE i - 1) /\ Round(ks, i - 1) = ks[h]
    BY <1>1, <1>3
  <2>2. N[ks[j]] \in Elems /\ N[ks[j]] # v /\ N[ks[j]] # k
    BY <1>5, ElemsApart
  <2>3. n > 0
    BY <1>1
  <2>4. M[N[ks[j]]] = IF N[ks[j]] = N[ks[h]] THEN k ELSE N[N[ks[j]]]
    BY <1>7, <2>1, <2>2, <2>3
  <2>. QED BY <1>5, <1>6, <2>1, <2>4
<1>12. ASSUME NEW m \in 1 .. (n + 1)
       PROVE  M[t[m]] \in Vals /\ M[M[t[m]]] = t[IF m = n + 1 THEN 1 ELSE m + 1]
  <2>1. PICK l \in 1 .. (n + 1) : l = IF m = n + 1 THEN 1 ELSE m + 1
    BY <1>1
  <2>2. CASE m = i
    <3>1. t[m] = k /\ M[t[m]] = v
      BY <1>2, <1>9, <2>2
    <3>2. CASE n = 0
      <4>1. l = i
        BY <1>8, <2>1, <3>2
      <4>2. t[l] = k
        BY <1>2, <4>1
      <4>. QED BY <1>9, <2>1, <3>1, <3>2, <4>2
    <3>3. CASE n > 0
      <4>1. t[l] = ks[IF i = n + 1 THEN 1 ELSE i]
        <5>1. CASE i = n + 1
          <6>1. l = 1 /\ l < i
            BY <1>1, <2>1, <2>2, <3>3, <5>1
          <6>. QED BY <1>2, <5>1, <6>1
        <5>2. CASE i # n + 1
          <6>1. l = i + 1 /\ ~(l < i) /\ l # i /\ l - 1 = i
            BY <1>1, <1>8, <2>1, <2>2, <5>2
          <6>. QED BY <1>2, <5>2, <6>1
        <5>. QED BY <5>1, <5>2
      <4>. QED BY <1>9, <2>1, <3>1, <3>3, <4>1
    <3>. QED BY <1>1, <3>2, <3>3
  <2>3. CASE m # i
    <3>1. PICK j \in 1 .. n : j = IF m < i THEN m ELSE m - 1
      BY <1>1, <1>8, <2>3
    <3>2. t[m] = ks[j] /\ M[t[m]] = N[ks[j]] /\ M[t[m]] \in Vals
      BY <1>2, <1>5, <1>10, <2>3, <3>1
    <3>3. CASE j = IF i = 1 THEN n ELSE i - 1
      <4>1. l = i
        BY <1>1, <1>8, <2>1, <2>3, <3>1, <3>3
      <4>2. t[l] = k
        BY <1>2, <4>1
      <4>. QED BY <1>11, <2>1, <3>2, <3>3, <4>2
    <3>4. CASE j # IF i = 1 THEN n ELSE i - 1
      <4>1. PICK g \in 1 .. n : g = IF j = n THEN 1 ELSE j + 1
        BY <1>1
      <4>2. l # i /\ g = IF l < i THEN l ELSE l - 1
        BY <1>1, <1>8, <2>1, <2>3, <3>1, <3>4, <4>1
      <4>3. t[l] = ks[g]
        BY <1>2, <4>2
      <4>. QED BY <1>11, <2>1, <3>2, <3>4, <4>1, <4>3
    <3>. QED BY <3>3, <3>4
  <2>. QED BY <2>2, <2>3
<1>13. Distinct(t)
  <2>1. k \notin ToSet(ks)
    BY <1>1, <1>5 DEF ToSet
  <2>. QED BY <1>1, <1>8, <2>1, InsertedSet DEF Lies, t
<1>14. oo.ptr = t[n + 1]
  <2>1. n + 1 \in 1 .. (n + 1) /\ (n + 1) - 1 = n /\ ~(n + 1 < i) /\ (i # n + 1 => n > 0)
    BY <1>1, <1>8
  <2>2. t[n + 1] = IF i = n + 1 THEN k ELSE ks[n]
    BY <1>2, <2>1
  <2>. QED BY <1>1, <2>1, <2>2 DEF Lies
<1>15. Lies(oo, t)
  <2>1. \A m \in 1 .. (n + 1) : Round(t, m + 1) = t[IF m = n + 1 THEN 1 ELSE m + 1]
    <3>1. ASSUME NEW m \in 1 .. (n + 1)
          PROVE  (IF m + 1 = 0 THEN n + 1 ELSE IF m + 1 > n + 1 THEN m + 1 - (n + 1) ELSE m + 1)
                 = IF m = n + 1 THEN 1 ELSE m + 1
      BY <1>1
    <3>. QED BY <1>2, <3>1 DEF Round
  <2>2. \A m \in 1 .. (n + 1) : M[t[m]] \in Vals /\ M[M[t[m]]] = Round(t, m + 1)
    BY <1>12, <2>1
  <2>3. oo.len = n + 1
    BY <1>1
  <2>. QED BY <1>2, <1>13, <1>14, <2>2, <2>3 DEF Lies, M
<1>16. ASSUME NEW s \in Strings, NEW b \in Bodies
       PROVE  PairsOf(oo, t, s, b) = InsertAt(PairsOf(o, ks, s, b), i, <<s[k], b[v]>>)
  <2>1. PICK q : q = PairsOf(o, ks, s, b)
    OBVIOUS
  <2>2. /\ q \in Seq(PairType) /\ Len(q) = n
        /\ \A j \in 1 .. n : q[j] = <<s[ks[j]], b[N[ks[j]]]>>
    BY <1>1, <2>1, PairsAre DEF N
  <2>3. PICK p : p = PairsOf(oo, t, s, b)
    OBVIOUS
  <2>4. /\ p \in Seq(PairType) /\ Len(p) = n + 1
        /\ \A m \in 1 .. (n + 1) : p[m] = <<s[t[m]], b[M[t[m]]]>>
    <3>1. oo.len = n + 1
      BY <1>1
    <3>. QED BY <1>15, <2>3, <3>1, PairsAre DEF M
  <2>5. PICK c \in PairType : c = <<s[k], b[v]>>
    <3>1. <<s[k], b[v]>> \in PairType
      BY DEF PairType, Strings, Bodies
    <3>. QED BY <3>1
  <2>6. PICK u : u = InsertAt(q, i, c)
    OBVIOUS
  <2>7. /\ u \in Seq(PairType) /\ Len(u) = n + 1
        /\ \A m \in 1 .. (n + 1) : u[m] = IF m < i THEN q[m] ELSE IF m = i THEN c ELSE q[m - 1]
    <3>1. i \in 1 .. (Len(q) + 1) /\ q \in Seq(PairType)
      BY <1>8, <2>2
    <3>. DEFINE w == InsertAt(q, i, c)
    <3>2. /\ w \in Seq(PairType) /\ Len(w) = Len(q) + 1
          /\ \A m \in 1 .. (Len(q) + 1) :
               w[m] = IF m < i THEN q[m] ELSE IF m = i THEN c ELSE q[m - 1]
      <4>1. InsertedIs(PairType, q, c, i, w)
        BY <3>1, InsertedAt
      <4>. HIDE DEF w
      <4>. QED BY <4>1 DEF InsertedIs
    <3>3. u = w
      BY <2>6
    <3>. HIDE DEF w
    <3>. QED BY <2>2, <3>2, <3>3
  <2>8. ASSUME NEW m \in 1 .. (n + 1)
        PROVE  p[m] = u[m]
    <3>1. CASE m = i
      <4>1. t[m] = k /\ u[m] = c
        BY <1>2, <2>7, <3>1
      <4>. QED BY <1>9, <2>4, <2>5, <4>1
    <3>2. CASE m # i
      <4>1. PICK j \in 1 .. n : j = IF m < i THEN m ELSE m - 1
        BY <1>1, <1>8, <3>2
      <4>2. t[m] = ks[j]
        BY <1>2, <3>2, <4>1
      <4>3. u[m] = q[j]
        BY <2>7, <3>2, <4>1
      <4>4. p[m] = <<s[t[m]], b[M[t[m]]]>>
        BY <2>4
      <4>5. q[j] = <<s[ks[j]], b[N[ks[j]]]>> /\ M[ks[j]] = N[ks[j]]
        BY <1>10, <2>2
      <4>. QED BY ONLY <4>2, <4>3, <4>4, <4>5
    <3>. QED BY <3>1, <3>2
  <2>9. p = u
    BY <2>4, <2>7, <2>8, SameSequence
  <2>. QED BY <2>1, <2>3, <2>5, <2>6, <2>9
<1>. QED BY <1>15, <1>16 DEF t

\* The elements behind m, and then the first m.
Turned(s, m) == SubSeq(s, m + 1, Len(s)) \o SubSeq(s, 1, m)

\* The circle with another last key is the sequence, turned.
LEMMA PairsTurned ==
  ASSUME NEW o, NEW ks, Lies(o, ks), NEW m \in 0 .. (o.len - 1),
         NEW oo \in ObjType, oo.len = o.len, oo.next = o.next, oo.ptr = Round(ks, m)
  PROVE  /\ Lies(oo, Turned(ks, m))
         /\ \A s \in Strings, b \in Bodies :
              PairsOf(oo, Turned(ks, m), s, b) = Turned(PairsOf(o, ks, s, b), m)
<1>. DEFINE t == SubSeq(ks, m + 1, Len(ks)) \o SubSeq(ks, 1, m)
<1>1. PICK n \in Nat : n = o.len /\ Len(ks) = n /\ ks \in Seq(Keys) /\ n > 0
  BY LiesIs DEF Lies
<1>. DEFINE of(k) == IF k <= n - m THEN k + m ELSE k - (n - m)
<1>2. /\ t \in Seq(Keys) /\ Len(t) = n
      /\ \A k \in 1 .. n : t[k] = IF k <= n - m THEN ks[k + m] ELSE ks[k - (n - m)]
  <2>1. ks \in Seq(Keys) /\ m \in 0 .. (Len(ks) - 1)
    BY <1>1
  <2>2. /\ t \in Seq(Keys) /\ Len(t) = Len(ks)
        /\ \A k \in 1 .. Len(ks) :
             t[k] = IF k <= Len(ks) - m THEN ks[k + m] ELSE ks[k - (Len(ks) - m)]
    BY ONLY <2>1, TurnedIs DEF t
  <2>. HIDE DEF t
  <2>. QED BY <1>1, <2>2
<1>. HIDE DEF t
<1>3. \A k \in 1 .. n : of(k) \in 1 .. n /\ t[k] = ks[of(k)]
  BY <1>1, <1>2
<1>4. ASSUME NEW j \in 1 .. n, NEW k \in 1 .. n, of(j) = of(k)
      PROVE  j = k
  <2>1. n \in Nat /\ m \in 0 .. (n - 1)
    BY <1>1
  <2>2. /\ j <= n - m => of(j) = j + m /\ of(j) > m
        /\ ~(j <= n - m) => of(j) = j - (n - m) /\ of(j) <= m
    BY ONLY <2>1, j \in 1 .. n
  <2>3. /\ k <= n - m => of(k) = k + m /\ of(k) > m
        /\ ~(k <= n - m) => of(k) = k - (n - m) /\ of(k) <= m
    BY ONLY <2>1, k \in 1 .. n
  <2>. QED BY ONLY <1>4, <2>1, <2>2, <2>3, j \in 1 .. n, k \in 1 .. n
<1>5. ASSUME NEW k \in 1 .. n
      PROVE  (IF of(k) = n THEN 1 ELSE of(k) + 1) = of(IF k = n THEN 1 ELSE k + 1)
  <2>1. CASE k = n
    <3>1. of(k) = (IF m = 0 THEN n ELSE m) /\ of(1) = m + 1
      BY <1>1, <2>1
    <3>. QED BY <1>1, <2>1, <3>1
  <2>2. CASE k # n /\ k < n - m
    <3>1. of(k) = k + m /\ k + m # n /\ of(k + 1) = k + m + 1
      BY <1>1, <2>2
    <3>. QED BY <2>2, <3>1
  <2>3. CASE k # n /\ k = n - m
    <3>1. of(k) = n /\ of(k + 1) = 1
      BY <1>1, <2>3
    <3>. QED BY <2>3, <3>1
  <2>4. CASE k # n /\ k > n - m
    <3>1. of(k) = k - (n - m) /\ of(k) # n /\ of(k + 1) = k - (n - m) + 1
      BY <1>1, <2>4
    <3>. QED BY <2>4, <3>1
  <2>5. k < n - m \/ k = n - m \/ k > n - m
    BY <1>1
  <2>. QED BY ONLY <2>1, <2>2, <2>3, <2>4, <2>5
<1>6. of(n) = IF m = 0 THEN n ELSE m
  BY <1>1
<1>7. \A k \in 1 .. n : of(k) = IF k <= n - m THEN k + m ELSE k - (n - m)
  OBVIOUS
<1>. HIDE DEF of
<1>8. Distinct(t)
  <2>1. \A j, k \in 1 .. n : ks[j] = ks[k] => j = k
    BY <1>1 DEF Lies, Distinct
  <2>2. ASSUME NEW j \in 1 .. n, NEW k \in 1 .. n, t[j] = t[k]
        PROVE  j = k
    <3>1. of(j) \in 1 .. n /\ of(k) \in 1 .. n /\ ks[of(j)] = ks[of(k)]
      BY <1>3, <2>2
    <3>2. of(j) = of(k)
      BY <2>1, <3>1
    <3>. QED BY <1>4, <3>2
  <2>. QED BY <1>2, <2>2 DEF Distinct
<1>9. \A k \in 1 .. n : /\ oo.next[ks[k]] \in Vals
                        /\ oo.next[oo.next[ks[k]]] = ks[IF k = n THEN 1 ELSE k + 1]
  <2>1. \A k \in 1 .. n : Round(ks, k + 1) = ks[IF k = n THEN 1 ELSE k + 1]
    BY <1>1 DEF Round
  <2>. QED BY <1>1, <2>1 DEF Lies
<1>10. ASSUME NEW k \in 1 .. n
       PROVE  oo.next[t[k]] \in Vals /\ oo.next[oo.next[t[k]]] = Round(t, k + 1)
  <2>1. oo.next[t[k]] \in Vals /\ oo.next[oo.next[t[k]]] = ks[IF of(k) = n THEN 1 ELSE of(k) + 1]
    BY <1>3, <1>9
  <2>2. PICK j \in 1 .. n : j = IF k = n THEN 1 ELSE k + 1
    BY <1>1
  <2>3. Round(t, k + 1) = t[j]
    BY <1>1, <1>2, <2>2 DEF Round
  <2>. QED BY <1>3, <1>5, <2>1, <2>2, <2>3
<1>11. oo.ptr = t[n]
  <2>1. Round(ks, m) = ks[IF m = 0 THEN n ELSE m]
    BY <1>1 DEF Round
  <2>. QED BY <1>1, <1>3, <1>6, <2>1
<1>12. Lies(oo, t)
  BY <1>1, <1>2, <1>8, <1>10, <1>11 DEF Lies
<1>13. ASSUME NEW s \in Strings, NEW b \in Bodies, NEW q, q = PairsOf(o, ks, s, b)
       PROVE  PairsOf(oo, t, s, b) = SubSeq(q, m + 1, Len(q)) \o SubSeq(q, 1, m)
  <2>1. /\ q \in Seq(PairType) /\ Len(q) = n
        /\ \A j \in 1 .. n : q[j] = <<s[ks[j]], b[o.next[ks[j]]]>>
    BY <1>1, <1>13, PairsAre
  <2>2. PICK p : p = PairsOf(oo, t, s, b)
    OBVIOUS
  <2>3. /\ p \in Seq(PairType) /\ Len(p) = n
        /\ \A k \in 1 .. n : p[k] = <<s[t[k]], b[o.next[t[k]]]>>
    BY <1>1, <1>12, <2>2, PairsAre
  <2>4. PICK u : u = SubSeq(q, m + 1, Len(q)) \o SubSeq(q, 1, m)
    OBVIOUS
  <2>5. /\ u \in Seq(PairType) /\ Len(u) = n
        /\ \A k \in 1 .. n : u[k] = IF k <= n - m THEN q[k + m] ELSE q[k - (n - m)]
    <3>1. q \in Seq(PairType) /\ m \in 0 .. (Len(q) - 1)
      BY <1>1, <2>1
    <3>2. /\ u \in Seq(PairType) /\ Len(u) = Len(q)
          /\ \A k \in 1 .. Len(q) :
               u[k] = IF k <= Len(q) - m THEN q[k + m] ELSE q[k - (Len(q) - m)]
      BY ONLY <2>4, <3>1, TurnedIs
    <3>. QED BY <2>1, <3>2
  <2>6. \A k \in 1 .. n : u[k] = q[of(k)]
    BY <1>7, <2>5
  <2>7. ASSUME NEW k \in 1 .. n PROVE p[k] = u[k]
    <3>1. of(k) \in 1 .. n /\ t[k] = ks[of(k)] /\ u[k] = q[of(k)]
      BY <1>3, <2>6
    <3>2. p[k] = <<s[t[k]], b[o.next[t[k]]]>>
      BY <2>3
    <3>. QED BY <2>1, <3>1, <3>2
  <2>8. p = u
    BY <2>3, <2>5, <2>7, SameSequence
  <2>. QED BY <2>2, <2>4, <2>8
<1>. QED BY <1>12, <1>13 DEF t, Turned

-----------------------------------------------------------------------------
(* The loop that removes a key.                                              *)

-----------------------------------------------------------------------------
(* The loops over an object.                                               *)

\* Behind the place of a pair that goes out nothing is where it was, but the
\* walk finds the same keys in front of it and at it.
LEMMA WalkAfterCut ==
  ASSUME NEW ks \in Seq(Keys), NEW c \in 1 .. (Len(ks) - 1)
  PROVE  /\ Round(RemoveAt(ks, c), c - 1) = Round(ks, c - 1)
         /\ Round(RemoveAt(ks, c), c) = Round(ks, c + 1)
<1>1. PICK n \in Nat : n = Len(ks)
  BY LenProperties
<1>2. PICK t : t = RemoveAt(ks, c)
  OBVIOUS
<1>3. Len(t) = n - 1 /\ \A k \in 1 .. (n - 1) : t[k] = IF k < c THEN ks[k] ELSE ks[k + 1]
  <2>1. c \in 1 .. Len(ks)
    BY <1>1
  <2>. QED BY <1>1, <1>2, <2>1, RemovedIs
<1>4. Round(t, c) = Round(ks, c + 1)
  <2>1. Round(t, c) = t[c] /\ Round(ks, c + 1) = ks[c + 1]
    BY <1>1, <1>3 DEF Round
  <2>. QED BY <1>1, <1>3, <2>1
<1>5. Round(t, c - 1) = Round(ks, c - 1)
  <2>1. CASE c = 1
    <3>1. Round(t, c - 1) = t[n - 1] /\ Round(ks, c - 1) = ks[n]
      BY <1>1, <1>3, <2>1 DEF Round
    <3>2. n - 1 \in 1 .. (n - 1) /\ ~(n - 1 < c) /\ (n - 1) + 1 = n
      BY <1>1, <2>1
    <3>. QED BY <1>3, <3>1, <3>2
  <2>2. CASE c # 1
    <3>1. Round(t, c - 1) = t[c - 1] /\ Round(ks, c - 1) = ks[c - 1]
      BY <1>1, <1>3, <2>2 DEF Round
    <3>2. c - 1 \in 1 .. (n - 1) /\ c - 1 < c
      BY <1>1, <2>2
    <3>. QED BY <1>3, <3>1, <3>2
  <2>. QED BY <2>1, <2>2
<1>. QED BY <1>2, <1>4, <1>5

\* A loop has been at the first n pairs of ps, of which those in F are left.
Passed(o, ks, F, ps, n) ==
  /\ Lies(o, ks) /\ str \in Strings /\ body \in Bodies
  /\ F \in Seq(PairType) /\ ps \in Seq(PairType) /\ n \in 0 .. Len(ps)
  /\ PairsOf(o, ks, str, body) = GoesOn(F, ps, n)

\* The next one, at c.
NextIs(o, ks, F, ps, n, c) ==
  /\ c \in 1 .. o.len /\ Len(F) \in Nat /\ Len(ks) = o.len /\ Len(ps) \in Nat
  /\ o.len = Len(F) + (Len(ps) - (n - 1))
  /\ ks[c] \in Keys /\ Round(ks, c) = ks[c] /\ str[ks[c]] = ps[n][1]
  /\ F \in Seq(PairType) /\ ps[n] \in PairType
  /\ Round(ks, c - 1) \in Keys /\ o.next[Round(ks, c - 1)] \in Vals
  /\ Round(ks, c + 1) \in Keys
  /\ KeyAfter(o, Round(ks, c - 1)) = ks[c] /\ KeyAfter(o, ks[c]) = Round(ks, c + 1)
  /\ Passed(o, ks, Append(F, ps[n]), ps, n)
  /\ \A x \in PairType :
       GoesOn(Append(F, x), ps, n) = ReplaceAt(PairsOf(o, ks, str, body), c, x)
  /\ GoesOn(F, ps, n) = RemoveAt(PairsOf(o, ks, str, body), c)

LEMMA NextPair ==
  ASSUME NEW o, NEW ks, NEW F, NEW ps, NEW n \in 1 .. Len(ps), Passed(o, ks, F, ps, n - 1)
  PROVE  NextIs(o, ks, F, ps, n, Len(F) + 1)
<1>. DEFINE c == Len(F) + 1
<1>1. PICK N \in Nat, k \in Nat : N = Len(ps) /\ k = Len(F) /\ F \in Seq(PairType)
                                  /\ ps \in Seq(PairType)
  BY LenProperties DEF Passed
<1>2. Lies(o, ks) /\ str \in Strings /\ body \in Bodies
  BY DEF Passed
<1>3. PICK q : q = PairsOf(o, ks, str, body) /\ q = GoesOn(F, ps, n - 1)
  BY DEF Passed
<1>4. PICK m \in 0 .. (Len(ps) - 1) : m = n - 1 /\ m + 1 = n
  <2>1. n - 1 \in 0 .. (Len(ps) - 1) /\ (n - 1) + 1 = n
    BY <1>1
  <2>. QED BY <2>1
<1>5. /\ c \in 1 .. Len(q) /\ q[c] = ps[n]
      /\ GoesOn(Append(F, ps[n]), ps, n) = q
      /\ \A x \in PairType : GoesOn(Append(F, x), ps, n) = ReplaceAt(q, c, x)
      /\ GoesOn(F, ps, n) = RemoveAt(q, c)
  <2>1. /\ c \in 1 .. Len(GoesOn(F, ps, m)) /\ GoesOn(F, ps, m)[c] = ps[m + 1]
        /\ GoesOn(Append(F, ps[m + 1]), ps, m + 1) = GoesOn(F, ps, m)
        /\ \A x \in PairType :
             GoesOn(Append(F, x), ps, m + 1) = ReplaceAt(GoesOn(F, ps, m), c, x)
        /\ GoesOn(F, ps, m + 1) = RemoveAt(GoesOn(F, ps, m), c)
    BY <1>1, GoesOnSteps
  <2>. QED BY <1>3, <1>4, <2>1
<1>6. /\ Len(q) = o.len /\ \A i \in 1 .. o.len : q[i] = <<str[ks[i]], body[o.next[ks[i]]]>>
  <2>1. /\ Len(PairsOf(o, ks, str, body)) = o.len
        /\ \A i \in 1 .. o.len :
             PairsOf(o, ks, str, body)[i] = <<str[ks[i]], body[o.next[ks[i]]]>>
    BY ONLY <1>2, PairsAre
  <2>. QED BY <1>3, <2>1
<1>7. Len(q) = k + (N - (n - 1))
  <2>1. m \in 0 .. Len(ps)
    BY <1>1
  <2>2. Len(GoesOn(F, ps, m)) = Len(F) + (Len(ps) - m)
    <3>1. JoinedIs(PairType, F, ps, m, GoesOn(F, ps, m))
      BY <1>1, <2>1, GoesOnIs
    <3>. QED BY <3>1 DEF JoinedIs
  <2>. QED BY <1>1, <1>3, <1>4, <2>2
<1>8. str[ks[c]] = ps[n][1]
  BY <1>5, <1>6
<1>9. ps[n] \in PairType
  BY <1>1, ElementOfSeq
<1>10. Append(F, ps[n]) \in Seq(PairType)
  BY <1>1, <1>9, AppendProperties
<1>11. Passed(o, ks, Append(F, ps[n]), ps, n)
  <2>1. n \in 0 .. Len(ps)
    BY <1>1
  <2>. QED BY <1>1, <1>2, <1>3, <1>5, <1>10, <2>1 DEF Passed
<1>12. PICK l \in Nat : l = o.len /\ Len(ks) = l /\ c \in 1 .. l
  BY <1>2, <1>5, <1>6, LiesIs
<1>13. /\ ks[c] \in Keys /\ Round(ks, c) = ks[c]
       /\ Round(ks, c - 1) \in Keys /\ o.next[Round(ks, c - 1)] \in Vals
       /\ Round(ks, c + 1) \in Keys
       /\ KeyAfter(o, Round(ks, c - 1)) = ks[c] /\ KeyAfter(o, ks[c]) = Round(ks, c + 1)
  <2>1. /\ l > 0 /\ c \in 0 .. (2 * l - 1) /\ c - 1 \in 0 .. (2 * l - 1) /\ (c - 1) + 1 = c
        /\ c - 1 \in 0 .. (2 * l) /\ c + 1 \in 0 .. (2 * l)
    BY <1>12
  <2>2. /\ \A i \in 1 .. l : ks[i] \in Keys /\ Round(ks, i) = ks[i]
        /\ \A i \in 0 .. (2 * l) : Round(ks, i) \in Keys
        /\ \A i \in 0 .. (2 * l - 1) : /\ o.next[Round(ks, i)] \in Vals
                                       /\ KeyAfter(o, Round(ks, i)) = Round(ks, i + 1)
    BY <1>2, <1>12, <2>1, LiesIs
  <2>3. ks[c] \in Keys /\ Round(ks, c) = ks[c]
    BY <1>12, <2>2
  <2>4. KeyAfter(o, Round(ks, c - 1)) = Round(ks, (c - 1) + 1)
    BY <2>1, <2>2
  <2>5. KeyAfter(o, Round(ks, c)) = Round(ks, c + 1)
    BY <2>1, <2>2
  <2>6. Round(ks, c - 1) \in Keys /\ o.next[Round(ks, c - 1)] \in Vals /\ Round(ks, c + 1) \in Keys
    BY <2>1, <2>2
  <2>. QED BY <2>1, <2>3, <2>4, <2>5, <2>6
<1>14. o.len = Len(F) + (Len(ps) - (n - 1))
  BY <1>1, <1>6, <1>7
<1>. HIDE DEF c
<1>15. NextIs(o, ks, F, ps, n, c)
  BY <1>1, <1>3, <1>5, <1>8, <1>9, <1>11, <1>12, <1>13, <1>14 DEF NextIs
<1>. QED BY <1>15 DEF c

\* The next one goes out.
LEMMA NextCut ==
  ASSUME NEW o, NEW ks, NEW F, NEW ps, NEW n \in 1 .. Len(ps), Passed(o, ks, F, ps, n - 1),
         NEW c, c = Len(F) + 1,
         NEW oo, oo = [next |-> [o.next EXCEPT ![o.next[Round(ks, c - 1)]] = Round(ks, c + 1)],
                       ptr |-> IF c = o.len THEN Round(ks, c - 1) ELSE o.ptr,
                       len |-> o.len - 1]
  PROVE  /\ oo \in ObjType /\ Passed(oo, RemoveAt(ks, c), F, ps, n)
         /\ n < Len(ps) => /\ Round(RemoveAt(ks, c), c - 1) = Round(ks, c - 1)
                           /\ Round(RemoveAt(ks, c), c) = Round(ks, c + 1)
<1>1. /\ c \in 1 .. o.len /\ Len(ks) = o.len
      /\ o.len = Len(F) + (Len(ps) - (n - 1)) /\ Len(F) \in Nat /\ Len(ps) \in Nat
      /\ Round(ks, c - 1) \in Keys /\ o.next[Round(ks, c - 1)] \in Vals
      /\ Round(ks, c + 1) \in Keys
      /\ GoesOn(F, ps, n) = RemoveAt(PairsOf(o, ks, str, body), c)
  <2>1. NextIs(o, ks, F, ps, n, c)
    BY NextPair
  <2>. QED BY ONLY <2>1 DEF NextIs
<1>2. /\ Lies(o, ks) /\ str \in Strings /\ body \in Bodies /\ F \in Seq(PairType)
      /\ ps \in Seq(PairType) /\ o \in ObjType /\ ks \in Seq(Keys)
  BY DEF Passed, Lies
<1>3. PICK l \in Nat : l = o.len /\ l > 0
  <2>1. o.len \in Nat
    BY <1>2, LiesIs
  <2>. QED BY <1>1, <2>1
<1>4. /\ o.next \in [Elems -> Elems] /\ o.ptr \in Elems \cup {"none"}
  BY <1>2 DEF ObjType
<1>5. oo.next \in [Elems -> Elems]
  BY <1>1, <1>4 DEF Elems
<1>6. oo \in ObjType
  <2>1. (IF c = o.len THEN Round(ks, c - 1) ELSE o.ptr) \in Elems \cup {"none"}
    BY <1>1, <1>4 DEF Elems
  <2>2. o.len - 1 \in Nat
    BY <1>3
  <2>. QED BY <1>5, <2>1, <2>2 DEF ObjType
<1>7. \A x \in Elems : oo.next[x] = IF x = o.next[Round(ks, c - 1)] THEN Round(ks, c + 1)
                                    ELSE o.next[x]
  BY <1>4
<1>8. oo.len = o.len - 1 /\ oo.ptr = IF c = o.len THEN Round(ks, c - 1) ELSE o.ptr
  OBVIOUS
<1>9. /\ Lies(oo, RemoveAt(ks, c))
      /\ PairsOf(oo, RemoveAt(ks, c), str, body) = RemoveAt(PairsOf(o, ks, str, body), c)
  <2>1. c \in 1 .. o.len /\ Lies(o, ks)
    BY <1>1, <1>2
  <2>2. /\ Lies(oo, RemoveAt(ks, c))
        /\ \A s \in Strings, b \in Bodies :
             PairsOf(oo, RemoveAt(ks, c), s, b) = RemoveAt(PairsOf(o, ks, s, b), c)
    BY ONLY <1>6, <1>7, <1>8, <2>1, PairCut
  <2>. QED BY <1>2, <2>2
<1>10. Passed(oo, RemoveAt(ks, c), F, ps, n)
  <2>1. n \in 0 .. Len(ps)
    BY <1>1
  <2>. QED BY <1>1, <1>2, <1>9, <2>1 DEF Passed
<1>11. ASSUME n < Len(ps)
       PROVE  c \in 1 .. (Len(ks) - 1)
  BY <1>1, <1>11
<1>. QED BY <1>2, <1>6, <1>10, <1>11, WalkAfterCut

\* unsafe_yyjson_mut_obj_remove, between its turns.
RemoveStates == [o : ObjType, i : Nat, pre : Elems, cur : Elems]

Removing(s, F, ps, n) ==
  \E ks : /\ Passed(s.o, ks, F, ps, n) /\ s.i = Len(F)
          /\ n < Len(ps) => s.pre = Round(ks, s.i) /\ s.cur = Round(ks, s.i + 1)

LEMMA RemoveTurnIs ==
  ASSUME NEW s \in RemoveStates, NEW F, NEW ps, NEW n \in 1 .. Len(ps),
         Removing(s, F, ps, n - 1), NEW name
  PROVE  /\ RemoveTurn(s, name) \in RemoveStates
         /\ Removing(RemoveTurn(s, name), IF ps[n][1] # name THEN Append(F, ps[n]) ELSE F, ps, n)
<1>1. PICK ks : /\ Passed(s.o, ks, F, ps, n - 1) /\ s.i = Len(F)
                /\ n - 1 < Len(ps) => s.pre = Round(ks, s.i) /\ s.cur = Round(ks, s.i + 1)
  BY DEF Removing
<1>2. PICK c : c = Len(F) + 1
  OBVIOUS
<1>3. /\ c \in 1 .. s.o.len /\ Len(F) \in Nat /\ Len(ps) \in Nat /\ Len(ks) = s.o.len
      /\ ks[c] \in Keys /\ Round(ks, c) = ks[c] /\ str[ks[c]] = ps[n][1]
      /\ Round(ks, c - 1) \in Keys /\ Round(ks, c + 1) \in Keys
      /\ KeyAfter(s.o, ks[c]) = Round(ks, c + 1)
      /\ Passed(s.o, ks, Append(F, ps[n]), ps, n)
  <2>1. NextIs(s.o, ks, F, ps, n, c)
    BY <1>1, <1>2, NextPair
  <2>. QED BY <2>1 DEF NextIs
<1>4. s.i = c - 1 /\ s.i + 1 = c /\ s.i \in Nat
  BY <1>1, <1>2, <1>3
<1>5. s.pre = Round(ks, c - 1) /\ s.cur = ks[c]
  <2>1. n - 1 < Len(ps)
    BY <1>3
  <2>. QED BY <1>1, <1>3, <1>4, <2>1
<1>6. PICK t : t = RemoveTurn(s, name)
  OBVIOUS
<1>7. CASE ps[n][1] # name
  <2>1. t = [s EXCEPT !.i = @ + 1, !.pre = ks[c], !.cur = Round(ks, c + 1)]
    BY <1>3, <1>5, <1>6, <1>7 DEF RemoveTurn
  <2>2. t.o = s.o /\ t.i = c /\ t.pre = ks[c] /\ t.cur = Round(ks, c + 1)
    BY <1>4, <2>1 DEF RemoveStates
  <2>3. t \in RemoveStates
    <3>1. c \in Nat /\ ks[c] \in Elems /\ Round(ks, c + 1) \in Elems
      BY <1>3, <1>4 DEF Elems
    <3>. QED BY <1>4, <2>1, <3>1 DEF RemoveStates
  <2>4. Len(Append(F, ps[n])) = c
    <3>1. F \in Seq(PairType) /\ ps[n] \in PairType
      BY <1>1, NextPair DEF NextIs
    <3>. QED BY <1>2, <3>1, AppendProperties
  <2>5. Removing(t, Append(F, ps[n]), ps, n)
    BY <1>3, <2>2, <2>4 DEF Removing
  <2>. QED BY <1>6, <1>7, <2>3, <2>5
<1>8. CASE ps[n][1] = name
  <2>. DEFINE oo == [next |-> [s.o.next EXCEPT ![s.o.next[Round(ks, c - 1)]] = Round(ks, c + 1)],
                     ptr |-> IF c = s.o.len THEN Round(ks, c - 1) ELSE s.o.ptr,
                     len |-> s.o.len - 1]
  <2>1. t = [s EXCEPT !.cur = Round(ks, c + 1), !.o = oo]
    BY <1>3, <1>4, <1>5, <1>6, <1>8 DEF RemoveTurn
  <2>2. /\ oo \in ObjType /\ Passed(oo, RemoveAt(ks, c), F, ps, n)
        /\ n < Len(ps) => /\ Round(RemoveAt(ks, c), c - 1) = Round(ks, c - 1)
                          /\ Round(RemoveAt(ks, c), c) = Round(ks, c + 1)
    BY <1>1, <1>2, NextCut
  <2>. HIDE DEF oo
  <2>3. t.o = oo /\ t.i = s.i /\ t.pre = s.pre /\ t.cur = Round(ks, c + 1)
    BY <2>1 DEF RemoveStates
  <2>4. t \in RemoveStates
    BY <1>3, <2>1, <2>2 DEF RemoveStates, Elems
  <2>5. Removing(t, F, ps, n)
    BY <1>1, <1>4, <1>5, <2>2, <2>3 DEF Removing
  <2>. QED BY <1>6, <1>8, <2>4, <2>5
<1>. QED BY <1>7, <1>8

\* The places of the pairs with other keys.
OthersIn(ps, name) == {i \in 1 .. Len(ps) : ps[i][1] # name}

LEMMA RemovedAre ==
  ASSUME NEW o, NEW ks, Lies(o, ks), str \in Strings, body \in Bodies, NEW name,
         NEW ps, ps = PairsOf(o, ks, str, body)
  PROVE  \E kk : /\ Lies(Removed(o, name), kk)
                 /\ PairsOf(Removed(o, name), kk, str, body)
                    = JP!Picked(ps, OthersIn(ps, name))
<1>1. PICK N \in Nat : N = o.len /\ Len(ps) = N /\ ps \in Seq(PairType) /\ Len(ks) = N
  BY LiesIs, PairsAre
<1>2. PICK F : /\ F[0] = <<>> /\ JP!Picked(ps, OthersIn(ps, name)) = F[N]
               /\ \A n \in 0 .. N : F[n] \in Seq(PairType)
               /\ \A n \in 1 .. N : F[n] = IF n \in OthersIn(ps, name)
                                           THEN Append(F[n - 1], ps[n]) ELSE F[n - 1]
  <2>1. \E F : /\ F[0] = <<>> /\ JP!Picked(ps, OthersIn(ps, name)) = F[Len(ps)]
               /\ \A n \in 0 .. Len(ps) : F[n] \in Seq(PairType)
               /\ \A n \in 1 .. Len(ps) : F[n] = IF n \in OthersIn(ps, name)
                                                THEN Append(F[n - 1], ps[n]) ELSE F[n - 1]
    <3>1. PICK I : I = OthersIn(ps, name)
      OBVIOUS
    <3>2. PICK F : Picks(ps, I, PairType, F)
      <4>1. ps \in Seq(PairType)
        BY <1>1
      <4>. QED BY ONLY <4>1, PickedIs
    <3>. QED BY <3>1, <3>2 DEF Picks
  <2>. QED BY <1>1, <2>1
<1>3. \A n \in 1 .. N : F[n] = IF ps[n][1] # name THEN Append(F[n - 1], ps[n]) ELSE F[n - 1]
  BY <1>1, <1>2 DEF OthersIn
<1>4. Passed(o, ks, F[0], ps, 0)
  <2>1. <<>> \in Seq(PairType) /\ 0 \in 0 .. Len(ps)
    BY <1>1
  <2>. QED BY <1>1, <1>2, <2>1, GoesOnEnds DEF Passed
<1>5. CASE N = 0
  <2>1. Removed(o, name) = o
    BY <1>1, <1>5 DEF Removed
  <2>2. ps = <<>>
    BY <1>1, <1>5
  <2>. QED BY <1>2, <1>5, <2>1, <2>2
<1>6. CASE N > 0
  <2>. DEFINE start == [o |-> o, i |-> 0, pre |-> o.ptr, cur |-> KeyAfter(o, o.ptr)]
              Eq(g) == g = [n \in 0 .. o.len |-> IF n = 0 THEN start
                                                 ELSE RemoveTurn(g[n - 1], name)]
              inv == [n \in 0 .. N |-> {s \in RemoveStates : Removing(s, F[n], ps, n)}]
              turn == [p \in (1 .. N) \X RemoveStates |-> RemoveTurn(p[2], name)]
  <2>1. start \in inv[0]
    <3>1. /\ o.ptr = Round(ks, 0) /\ Round(ks, 0) \in Keys /\ Round(ks, 1) \in Keys
          /\ KeyAfter(o, o.ptr) = Round(ks, 1)
      <4>1. N > 0 /\ 0 \in 0 .. (2 * N - 1) /\ 0 \in 0 .. (2 * N) /\ 1 \in 0 .. (2 * N) /\ 0 + 1 = 1
        BY <1>6
      <4>2. /\ o.ptr = Round(ks, 0)
            /\ \A i \in 0 .. (2 * N) : Round(ks, i) \in Keys
            /\ \A i \in 0 .. (2 * N - 1) : KeyAfter(o, Round(ks, i)) = Round(ks, i + 1)
        BY <1>1, <4>1, LiesIs
      <4>3. KeyAfter(o, Round(ks, 0)) = Round(ks, 0 + 1)
        BY <4>1, <4>2
      <4>. QED BY <4>1, <4>2, <4>3
    <3>2. start \in RemoveStates
      BY <3>1 DEF RemoveStates, Elems, Lies
    <3>3. Len(F[0]) = 0 /\ 0 + 1 = 1
      BY <1>2
    <3>4. Removing(start, F[0], ps, 0)
      BY <1>4, <3>1, <3>3 DEF Removing
    <3>. QED BY <3>2, <3>4
  <2>2. ASSUME NEW n \in 1 .. N, NEW s \in inv[n - 1]
        PROVE  RemoveTurn(s, name) \in inv[n] /\ turn[<<n, s>>] = RemoveTurn(s, name)
    <3>1. n \in 0 .. N /\ n - 1 \in 0 .. N /\ n \in 1 .. Len(ps)
      BY <1>1
    <3>2. s \in RemoveStates /\ Removing(s, F[n - 1], ps, n - 1)
      BY <3>1
    <3>3. RemoveTurn(s, name) \in RemoveStates /\ Removing(RemoveTurn(s, name), F[n], ps, n)
      <4>1. F[n] = IF ps[n][1] # name THEN Append(F[n - 1], ps[n]) ELSE F[n - 1]
        BY <1>3
      <4>2. /\ RemoveTurn(s, name) \in RemoveStates
            /\ Removing(RemoveTurn(s, name),
                        IF ps[n][1] # name THEN Append(F[n - 1], ps[n]) ELSE F[n - 1], ps, n)
        BY ONLY <3>1, <3>2, RemoveTurnIs
      <4>. QED BY <4>1, <4>2
    <3>4. turn[<<n, s>>] = RemoveTurn(s, name)
      BY <3>2
    <3>. QED BY <3>1, <3>3, <3>4
  <2>3. inv \in [0 .. N -> SUBSET RemoveStates]
    OBVIOUS
  <2>. HIDE DEF inv, turn, start
  <2>4. PICK f : Runs(f, N, start, turn) /\ Within(f, N, inv)
    <3>1. Holds(N, inv, turn)
      BY <2>2 DEF Holds
    <3>2. \A n \in 0 .. N : inv[n] \subseteq RemoveStates
      BY <2>3
    <3>. QED BY <2>1, <3>1, <3>2, LoopRuns
  <2>5. Eq(f)
    <3>1. /\ f = [n \in 0 .. N |-> f[n]] /\ f[0] = start
          /\ \A n \in 1 .. N : f[n] = turn[<<n, f[n - 1]>>]
          /\ \A n \in 0 .. N : f[n] \in inv[n]
      BY <2>4 DEF Runs, Within
    <3>2. ASSUME NEW n \in 0 .. N
          PROVE  f[n] = IF n = 0 THEN start ELSE RemoveTurn(f[n - 1], name)
      <4>1. n # 0 => n \in 1 .. N /\ n - 1 \in 0 .. N
        BY <1>1
      <4>. QED BY <2>2, <3>1, <4>1
    <3>. QED BY <1>1, <3>1, <3>2
  <2>. DEFINE g == CHOOSE h : Eq(h)
  <2>6. Eq(g)
    BY <2>5
  <2>7. Removed(o, name) = g[N].o
    BY <1>1, <1>6 DEF Removed, start
  <2>. HIDE DEF g
  <2>8. g[0] = start /\ \A n \in 1 .. N : g[n] = RemoveTurn(g[n - 1], name)
    BY <1>1, <2>6
  <2>9. g[N] \in inv[N]
    <3>1. \A n \in 1 .. N : g[n - 1] \in inv[n - 1] => g[n] \in inv[n]
      BY <2>2, <2>8
    <3>2. g[0] \in inv[0]
      BY <2>1, <2>8
    <3>3. \A n \in 0 .. N : g[n] \in inv[n]
      BY ONLY N \in Nat, <3>1, <3>2, LoopKeeps
    <3>. QED BY <1>1, <3>3
  <2>10. Removing(g[N], F[N], ps, N)
    BY <1>1, <2>9 DEF inv
  <2>11. PICK kk : Passed(g[N].o, kk, F[N], ps, N)
    BY <2>10 DEF Removing
  <2>12. GoesOn(F[N], ps, N) = F[N]
    <3>1. F[N] \in Seq(PairType)
      BY <1>1, <1>2
    <3>. QED BY <1>1, <3>1, GoesOnEnds
  <2>. QED BY <1>2, <2>7, <2>11, <2>12 DEF Passed
<1>. QED BY <1>1, <1>5, <1>6

-----------------------------------------------------------------------------
(* The loop that passes every pair.                                          *)

\* The loop of yyjson_mut_obj_put, between its turns: no value is there twice,
\* because one that was not there is put in once.
Places == Elems \cup {"none"}
IterType == [idx : Int, max : Int, pre : Places, cur : Places]
SweepStates == [o : ObjType, it : IterType, replaced : BOOLEAN]

Unlinked(o, v) == v \in Vals /\ \A j \in 1 .. o.len : o.next[KeysOf(o)[j]] # v

\* From o0, with the value v, of which `hit' tells whether its key was seen.
Sweeping(s, F, ps, n, o0, v, hit) ==
  \E ks : /\ Passed(s.o, ks, F, ps, n) /\ s.it.idx = Len(F) /\ s.it.max = s.o.len
          /\ n < Len(ps) => s.it.cur = Round(ks, s.it.idx)
          /\ s.replaced = (v # "none" /\ hit)
          /\ v # "none" /\ ~hit => s.o = o0

\* What is left of the pairs in F, with the next one.
SweepsTo(F, ps, n, name, v, hit, G) ==
  /\ ps[n][1] # name => G = Append(F, ps[n])
  /\ ps[n][1] = name /\ v # "none" /\ ~hit => G = Append(F, <<name, body[v]>>)
  /\ ps[n][1] = name /\ (v = "none" \/ hit) => G = F

LEMMA SweepTurnIs ==
  ASSUME NEW s \in SweepStates, NEW F, NEW ps, NEW n \in 1 .. Len(ps), NEW o0,
         NEW v, v # "none" => Unlinked(o0, v), NEW hit \in BOOLEAN,
         Sweeping(s, F, ps, n - 1, o0, v, hit), NEW name,
         NEW G, SweepsTo(F, ps, n, name, v, hit, G)
  PROVE  /\ SweepTurn(s, name, v) \in SweepStates
         /\ Sweeping(SweepTurn(s, name, v), G, ps, n, o0, v, hit \/ ps[n][1] = name)
<1>1. PICK ks : /\ Passed(s.o, ks, F, ps, n - 1) /\ s.it.idx = Len(F) /\ s.it.max = s.o.len
                /\ n - 1 < Len(ps) => s.it.cur = Round(ks, s.it.idx)
                /\ s.replaced = (v # "none" /\ hit)
                /\ v # "none" /\ ~hit => s.o = o0
  BY DEF Sweeping
<1>2. PICK c : c = Len(F) + 1
  OBVIOUS
<1>3. NextIs(s.o, ks, F, ps, n, c)
  BY <1>1, <1>2, NextPair
<1>4. /\ c \in 1 .. s.o.len /\ Len(F) \in Nat /\ Len(ps) \in Nat /\ Len(ks) = s.o.len
      /\ ks[c] \in Keys /\ Round(ks, c) = ks[c] /\ str[ks[c]] = ps[n][1]
      /\ Round(ks, c - 1) \in Keys /\ Round(ks, c + 1) \in Keys
      /\ KeyAfter(s.o, Round(ks, c - 1)) = ks[c] /\ KeyAfter(s.o, ks[c]) = Round(ks, c + 1)
      /\ Passed(s.o, ks, Append(F, ps[n]), ps, n)
      /\ F \in Seq(PairType) /\ ps[n] \in PairType
  BY <1>3 DEF NextIs
<1>5. s.it.idx = c - 1 /\ s.it.idx + 1 = c /\ c \in Int /\ s.it.cur = Round(ks, c - 1)
  <2>1. n - 1 < Len(ps)
    BY <1>4
  <2>. QED BY <1>1, <1>2, <1>4, <2>1
<1>6. PICK it : it = Stepped(s.o, s.it)
  OBVIOUS
<1>7. /\ it \in IterType /\ it.idx = c /\ it.max = s.o.len /\ it.pre = Round(ks, c - 1)
      /\ it.cur = ks[c]
  <2>1. it = [s.it EXCEPT !.idx = c, !.pre = Round(ks, c - 1), !.cur = ks[c]]
    BY <1>4, <1>5, <1>6 DEF Stepped
  <2>2. s.it \in IterType
    BY DEF SweepStates
  <2>3. ks[c] \in Places /\ Round(ks, c - 1) \in Places
    BY <1>4 DEF Places, Elems
  <2>. QED BY <1>1, <1>5, <2>1, <2>2, <2>3 DEF IterType
<1>8. PICK t : t = SweepTurn(s, name, v)
  OBVIOUS
<1>9. CASE ps[n][1] # name
  <2>1. t = [s EXCEPT !.it = it]
    BY <1>4, <1>6, <1>7, <1>8, <1>9 DEF SweepTurn
  <2>2. t.o = s.o /\ t.it = it /\ t.replaced = s.replaced /\ t \in SweepStates
    BY <1>7, <2>1 DEF SweepStates
  <2>3. G = Append(F, ps[n])
    BY <1>9 DEF SweepsTo
  <2>4. Len(G) = c
    BY <1>2, <1>4, <2>3, AppendProperties
  <2>5. Sweeping(t, G, ps, n, o0, v, hit)
    BY <1>1, <1>4, <1>7, <2>2, <2>3, <2>4 DEF Sweeping
  <2>. QED BY <1>8, <1>9, <2>2, <2>5
<1>10. CASE ps[n][1] = name /\ v # "none" /\ ~hit
  <2>1. s.replaced = FALSE /\ s.o = o0 /\ v \in Vals /\ Lies(s.o, ks)
    BY <1>1, <1>10 DEF Unlinked, Passed
  <2>2. PICK oo : oo = [s.o EXCEPT !.next[v] = Round(ks, c + 1), !.next[ks[c]] = v]
    OBVIOUS
  <2>3. t = [o |-> oo, it |-> it, replaced |-> TRUE]
    BY <1>4, <1>6, <1>7, <1>8, <1>10, <2>1, <2>2 DEF SweepTurn
  <2>4. /\ oo \in ObjType /\ oo.len = s.o.len /\ oo.ptr = s.o.ptr
        /\ \A x \in Elems : oo.next[x] = IF x = ks[c] THEN v
                                         ELSE IF x = v THEN Round(ks, c + 1) ELSE s.o.next[x]
    <3>1. s.o \in ObjType
      BY DEF SweepStates
    <3>2. /\ v \in Elems /\ ks[c] \in Elems /\ Round(ks, c + 1) \in Elems /\ v # ks[c]
      BY <1>4, <2>1, ElemsApart DEF Elems
    <3>. QED BY <2>2, <3>1, <3>2 DEF ObjType
  <2>5. \A j \in 1 .. s.o.len : s.o.next[ks[j]] # v
    <3>1. KeysOf(s.o) = ks
      BY <2>1, KeysAre
    <3>. QED BY <1>10, <2>1, <3>1 DEF Unlinked
  <2>6. /\ Lies(oo, ks)
        /\ \A p \in Strings, b \in Bodies :
             PairsOf(oo, ks, p, b) = ReplaceAt(PairsOf(s.o, ks, p, b), c, <<p[ks[c]], b[v]>>)
    BY ONLY <1>4, <2>1, <2>4, <2>5, PairChanged
  <2>7. G = Append(F, <<name, body[v]>>) /\ <<name, body[v]>> \in PairType
    <3>1. str[ks[c]] \in Names /\ body[v] \in Vals
      BY <1>1, <1>4, <2>1 DEF Passed, Strings, Bodies
    <3>. QED BY <1>4, <1>10, <3>1 DEF SweepsTo, PairType
  <2>8. G \in Seq(PairType) /\ Len(G) = c
    BY <1>2, <1>4, <2>7, AppendProperties
  <2>9. Passed(oo, ks, G, ps, n)
    <3>1. GoesOn(G, ps, n) = ReplaceAt(PairsOf(s.o, ks, str, body), c, <<name, body[v]>>)
      BY <1>3, <2>7 DEF NextIs
    <3>2. /\ str \in Strings /\ body \in Bodies /\ ps \in Seq(PairType) /\ n \in 0 .. Len(ps)
      BY <1>4 DEF Passed
    <3>3. PairsOf(oo, ks, str, body) = GoesOn(G, ps, n)
      BY <1>4, <1>10, <2>6, <3>1, <3>2
    <3>. QED BY <2>6, <2>8, <3>2, <3>3 DEF Passed
  <2>10. t \in SweepStates
    BY <1>7, <2>3, <2>4 DEF SweepStates
  <2>11. t.o = oo /\ t.it = it /\ t.replaced = TRUE
    BY <2>3
  <2>12. Sweeping(t, G, ps, n, o0, v, TRUE)
    BY <1>4, <1>7, <1>10, <2>4, <2>8, <2>9, <2>11 DEF Sweeping
  <2>13. (hit \/ ps[n][1] = name) = TRUE
    BY <1>10
  <2>. QED BY <1>8, <2>10, <2>12, <2>13
<1>11. CASE ps[n][1] = name /\ (v = "none" \/ hit)
  <2>1. s.replaced = (v # "none")
    BY <1>1, <1>11
  <2>2. PICK oo : oo = [next |-> [s.o.next EXCEPT ![s.o.next[Round(ks, c - 1)]] = Round(ks, c + 1)],
                        ptr |-> IF c = s.o.len THEN Round(ks, c - 1) ELSE s.o.ptr,
                        len |-> s.o.len - 1]
    OBVIOUS
  <2>3. CutOut(s.o, it) = oo
    BY <1>4, <1>7, <2>2 DEF CutOut
  <2>4. t = [s EXCEPT !.o = oo, !.it = SteppedBack(it)]
    BY <1>4, <1>6, <1>7, <1>8, <1>11, <2>1, <2>3 DEF SweepTurn
  <2>5. /\ oo \in ObjType /\ Passed(oo, RemoveAt(ks, c), F, ps, n)
        /\ n < Len(ps) => Round(RemoveAt(ks, c), c - 1) = Round(ks, c - 1)
    BY <1>1, <1>2, <2>2, NextCut
  <2>6. PICK back : back = SteppedBack(it)
    OBVIOUS
  <2>7. /\ back \in IterType /\ back.idx = c - 1 /\ back.max = s.o.len - 1
        /\ back.cur = Round(ks, c - 1)
    <3>1. PICK m \in Int : m = s.o.len
      BY DEF SweepStates, ObjType
    <3>2. PICK r \in Places : r = Round(ks, c - 1)
      BY <1>4 DEF Places, Elems
    <3>3. /\ it \in [idx : Int, max : Int, pre : Places, cur : Places]
          /\ it.idx = c /\ it.max = m /\ it.pre = r
      BY <1>7, <3>1, <3>2 DEF IterType
    <3>4. back = [it EXCEPT !.idx = c - 1, !.max = m - 1, !.cur = r]
      BY <2>6, <3>3 DEF SteppedBack
    <3>5. back = [idx |-> c - 1, max |-> m - 1, pre |-> it.pre, cur |-> r]
      BY <3>3, <3>4
    <3>6. c - 1 \in Int /\ m - 1 \in Int
      BY <1>5
    <3>7. back \in [idx : Int, max : Int, pre : Places, cur : Places]
      BY <3>3, <3>5, <3>6
    <3>. QED BY <3>1, <3>2, <3>3, <3>5, <3>7 DEF IterType
  <2>8. t \in SweepStates /\ t.o = oo /\ t.it = back /\ t.replaced = s.replaced
    BY <2>4, <2>5, <2>6, <2>7 DEF SweepStates
  <2>9. G = F /\ oo.len = s.o.len - 1 /\ c - 1 = Len(F)
    BY <1>2, <1>4, <1>11, <2>2 DEF SweepsTo
  <2>10. Sweeping(t, G, ps, n, o0, v, TRUE)
    BY <2>1, <2>5, <2>7, <2>8, <2>9 DEF Sweeping
  <2>11. (hit \/ ps[n][1] = name) = TRUE
    BY <1>11
  <2>. QED BY <1>8, <2>8, <2>10, <2>11
<1>. QED BY <1>9, <1>10, <1>11

\* What is there after the loop: the places in J of Q, which has the new value
\* at the first pair of the key.
Keeps(Q, J, ps, name, v) ==
  /\ Q \in Seq(PairType) /\ Len(Q) = Len(ps)
  /\ \A n \in 1 .. Len(ps) :
       LET hit == \E j \in 1 .. (n - 1) : ps[j][1] = name
       IN /\ ps[n][1] # name => n \in J /\ Q[n] = ps[n]
          /\ ps[n][1] = name /\ v # "none" /\ ~hit => n \in J /\ Q[n] = <<name, body[v]>>
          /\ ps[n][1] = name /\ (v = "none" \/ hit) => n \notin J

LEMMA SweptAre ==
  ASSUME NEW o, NEW ks, Lies(o, ks), str \in Strings, body \in Bodies, NEW name,
         NEW ps, ps = PairsOf(o, ks, str, body),
         NEW v, v # "none" => Unlinked(o, v), NEW Q, NEW J, Keeps(Q, J, ps, name, v)
  PROVE  /\ \E kk : /\ Lies(Swept(o, name, v).o, kk)
                    /\ PairsOf(Swept(o, name, v).o, kk, str, body) = JP!Picked(Q, J)
         /\ Swept(o, name, v).replaced
            = (v # "none" /\ \E n \in 1 .. Len(ps) : ps[n][1] = name)
         /\ v # "none" /\ (\A n \in 1 .. Len(ps) : ps[n][1] # name) => Swept(o, name, v).o = o
<1>1. PICK N \in Nat : N = o.len /\ Len(ps) = N /\ ps \in Seq(PairType) /\ Len(ks) = N
  BY LiesIs, PairsAre
<1>2. Q \in Seq(PairType) /\ Len(Q) = N
  BY <1>1 DEF Keeps
<1>3. PICK F : /\ F[0] = <<>> /\ JP!Picked(Q, J) = F[N]
               /\ \A n \in 0 .. N : F[n] \in Seq(PairType)
               /\ \A n \in 1 .. N : F[n] = IF n \in J THEN Append(F[n - 1], Q[n]) ELSE F[n - 1]
  <2>1. PICK F : Picks(Q, J, PairType, F)
    BY ONLY <1>2, PickedIs
  <2>. QED BY <1>2, <2>1 DEF Picks
<1>. DEFINE hit == [n \in 0 .. N |-> \E j \in 1 .. n : ps[j][1] = name]
<1>4. ASSUME NEW n \in 1 .. N
      PROVE  /\ SweepsTo(F[n - 1], ps, n, name, v, hit[n - 1], F[n])
             /\ hit[n - 1] \in BOOLEAN
             /\ hit[n] = (hit[n - 1] \/ ps[n][1] = name)
  <2>1. n \in 0 .. N /\ n - 1 \in 0 .. N
    BY <1>1
  <2>2. /\ hit[n] = (\E j \in 1 .. n : ps[j][1] = name)
        /\ hit[n - 1] = (\E j \in 1 .. (n - 1) : ps[j][1] = name)
    BY <2>1
  <2>. HIDE DEF hit
  <2>3. /\ ps[n][1] # name => n \in J /\ Q[n] = ps[n]
        /\ ps[n][1] = name /\ v # "none" /\ ~hit[n - 1] => n \in J /\ Q[n] = <<name, body[v]>>
        /\ ps[n][1] = name /\ (v = "none" \/ hit[n - 1]) => n \notin J
    BY <1>1, <2>2 DEF Keeps
  <2>4. F[n] = IF n \in J THEN Append(F[n - 1], Q[n]) ELSE F[n - 1]
    BY <1>3
  <2>5. SweepsTo(F[n - 1], ps, n, name, v, hit[n - 1], F[n])
    BY <2>3, <2>4 DEF SweepsTo
  <2>6. \A j \in 1 .. n : j \in 1 .. (n - 1) \/ j = n
    BY <1>1
  <2>7. n \in 1 .. n /\ \A j \in 1 .. (n - 1) : j \in 1 .. n
    BY <1>1
  <2>. QED BY <2>2, <2>5, <2>6, <2>7
<1>5. hit[0] = FALSE /\ hit[N] = (\E n \in 1 .. N : ps[n][1] = name)
  <2>1. 0 \in 0 .. N /\ N \in 0 .. N
    BY <1>1
  <2>2. hit[0] = (\E j \in 1 .. 0 : ps[j][1] = name) /\ hit[N] = (\E j \in 1 .. N : ps[j][1] = name)
    BY <2>1
  <2>. HIDE DEF hit
  <2>. QED BY <2>2
<1>. HIDE DEF hit
<1>. DEFINE start == [o |-> o, it |-> IterOf(o), replaced |-> FALSE]
            Eq(g) == g = [n \in 0 .. o.len |-> IF n = 0 THEN start
                                               ELSE SweepTurn(g[n - 1], name, v)]
            inv == [n \in 0 .. N |-> {s \in SweepStates : Sweeping(s, F[n], ps, n, o, v, hit[n])}]
            turn == [p \in (1 .. N) \X SweepStates |-> SweepTurn(p[2], name, v)]
<1>6. start \in inv[0]
  <2>1. N > 0 => o.ptr = Round(ks, 0) /\ Round(ks, 0) \in Keys
    <3>1. ASSUME N > 0 PROVE Round(ks, 0) \in Keys
      <4>1. 0 \in 0 .. (2 * N)
        BY <1>1
      <4>. QED BY <1>1, <3>1, <4>1, LiesIs
    <3>. QED BY <1>1, <3>1, LiesIs
  <2>2. PICK it : it = IterOf(o)
    OBVIOUS
  <2>3. /\ it \in IterType /\ it.idx = 0 /\ it.max = o.len
        /\ N > 0 => it.cur = Round(ks, 0)
    <3>1. (IF o.len > 0 THEN o.ptr ELSE "none") \in Places
      BY <1>1, <2>1 DEF Places, Elems
    <3>2. "none" \in Places
      BY DEF Places
    <3>. QED BY <1>1, <2>1, <2>2, <3>1, <3>2 DEF IterOf, IterType
  <2>4. start \in SweepStates
    BY <2>2, <2>3 DEF SweepStates, Lies
  <2>5. Len(F[0]) = 0
    BY <1>3
  <2>6. Passed(o, ks, F[0], ps, 0)
    <3>1. <<>> \in Seq(PairType) /\ 0 \in 0 .. Len(ps)
      BY <1>1
    <3>. QED BY <1>1, <1>3, <3>1, GoesOnEnds DEF Passed
  <2>7. start.o = o /\ start.it = it /\ start.replaced = FALSE
    BY <2>2
  <2>. HIDE DEF start
  <2>8. Sweeping(start, F[0], ps, 0, o, v, hit[0])
    BY <1>1, <1>5, <2>3, <2>5, <2>6, <2>7 DEF Sweeping
  <2>. QED BY <1>1, <2>4, <2>8
<1>7. ASSUME NEW n \in 1 .. N, NEW s \in inv[n - 1]
      PROVE  SweepTurn(s, name, v) \in inv[n] /\ turn[<<n, s>>] = SweepTurn(s, name, v)
  <2>1. n \in 0 .. N /\ n - 1 \in 0 .. N /\ n \in 1 .. Len(ps)
    BY <1>1
  <2>2. s \in SweepStates /\ Sweeping(s, F[n - 1], ps, n - 1, o, v, hit[n - 1])
    BY <2>1
  <2>3. /\ SweepTurn(s, name, v) \in SweepStates
        /\ Sweeping(SweepTurn(s, name, v), F[n], ps, n, o, v, hit[n - 1] \/ ps[n][1] = name)
    BY <1>4, <2>1, <2>2, SweepTurnIs
  <2>4. Sweeping(SweepTurn(s, name, v), F[n], ps, n, o, v, hit[n])
    BY <1>4, <2>3
  <2>. QED BY <2>1, <2>2, <2>3, <2>4
<1>8. \A n \in 0 .. N : inv[n] \subseteq SweepStates
  OBVIOUS
<1>9. \A s \in inv[N] : s \in SweepStates /\ Sweeping(s, F[N], ps, N, o, v, hit[N])
  BY <1>1
<1>. HIDE DEF inv, turn, start
<1>10. PICK f : Runs(f, N, start, turn) /\ Within(f, N, inv)
  <2>1. Holds(N, inv, turn)
    BY <1>7 DEF Holds
  <2>. QED BY <1>6, <1>8, <2>1, LoopRuns
<1>11. Eq(f)
  <2>1. /\ f = [n \in 0 .. N |-> f[n]] /\ f[0] = start
        /\ \A n \in 1 .. N : f[n] = turn[<<n, f[n - 1]>>]
        /\ \A n \in 0 .. N : f[n] \in inv[n]
    BY <1>10 DEF Runs, Within
  <2>2. ASSUME NEW n \in 0 .. N
        PROVE  f[n] = IF n = 0 THEN start ELSE SweepTurn(f[n - 1], name, v)
    <3>1. n # 0 => n \in 1 .. N /\ n - 1 \in 0 .. N
      BY <1>1
    <3>. QED BY <1>7, <2>1, <3>1
  <2>. QED BY <1>1, <2>1, <2>2
<1>. DEFINE g == CHOOSE h : Eq(h)
<1>12. Eq(g)
  BY <1>11
<1>13. Swept(o, name, v) = g[N]
  BY <1>1 DEF Swept, start
<1>. HIDE DEF g
<1>14. g[0] = start /\ \A n \in 1 .. N : g[n] = SweepTurn(g[n - 1], name, v)
  BY <1>1, <1>12
<1>. HIDE DEF Eq
<1>15. g[N] \in inv[N]
  <2>1. \A n \in 1 .. N : g[n - 1] \in inv[n - 1] => g[n] \in inv[n]
    BY <1>7, <1>14
  <2>2. g[0] \in inv[0]
    BY <1>6, <1>14
  <2>3. \A n \in 0 .. N : g[n] \in inv[n]
    BY ONLY N \in Nat, <2>1, <2>2, LoopKeeps
  <2>. QED BY <1>1, <2>3
<1>16. PICK kk : /\ Passed(g[N].o, kk, F[N], ps, N)
                 /\ g[N].replaced = (v # "none" /\ hit[N])
                 /\ v # "none" /\ ~hit[N] => g[N].o = o
  BY <1>9, <1>15 DEF Sweeping
<1>17. GoesOn(F[N], ps, N) = F[N]
  <2>1. F[N] \in Seq(PairType)
    BY <1>1, <1>3
  <2>. QED BY <1>1, <2>1, GoesOnEnds
<1>18. Lies(g[N].o, kk) /\ PairsOf(g[N].o, kk, str, body) = F[N]
  BY <1>16, <1>17 DEF Passed
<1>. QED BY <1>1, <1>3, <1>5, <1>13, <1>16, <1>18

-----------------------------------------------------------------------------
(* The invariant of an object, and an object that was edited.                *)

\* cur and pre are keys of the object, wherever the iterator is.
IterThere(o, it) ==
  /\ it \in IterType /\ it.max = o.len /\ it.idx \in 0 .. o.len
  /\ o.len > 0 => \E c \in 0 .. o.len : it.cur = Round(KeysOf(o), c)
  /\ o.len > 0 /\ it.idx > 0 => \E c \in 0 .. o.len : it.pre = Round(KeysOf(o), c)

\* They are those at idx, unless it is astray.
IterLies(o, it, at) ==
  /\ it \in IterType /\ it.max = o.len /\ it.idx \in 0 .. o.len
  /\ o.len > 0 => it.cur = Round(KeysOf(o), it.idx)
  /\ at = "at" => it.idx > 0 /\ it.pre = Round(KeysOf(o), it.idx - 1)

ObjectInv ==
  /\ Lies(obj, KeysOf(obj)) /\ str \in Strings /\ body \in Bodies
  /\ oitAt \in {"off", "at", "between", "astray"}
  /\ oitAt # "off" => IterThere(obj, oit)
  /\ oitAt \in {"at", "between"} => IterLies(obj, oit, oitAt)

\* The invariant: after a removal that broke the list nothing is known of it.
ObjectSafe == oitAt # "spoilt" => ObjectInv

\* There is no iterator any more.
Dropped == Place = -1 /\ Holding = FALSE

\* The pairs of the refinement are those of the keys.
LEMMA PairsAreThese ==
  ASSUME NEW o, NEW ks, Lies(o, ks), NEW s, NEW b
  PROVE  [i \in 1 .. o.len |-> LET k == IF i = o.len THEN o.ptr ELSE KeyAhead(o, o.ptr, i)
                               IN <<s[k], b[o.next[k]]>>]
         = PairsOf(o, ks, s, b)
<1>1. PICK n \in Nat : n = o.len /\ Len(ks) = n
  BY LiesIs
<1>2. ks = [i \in 1 .. n |-> IF i = n THEN o.ptr ELSE KeyAhead(o, o.ptr, i)]
  BY <1>1, KeysAre DEF KeysOf
<1>3. \A i \in 1 .. n : ks[i] = IF i = n THEN o.ptr ELSE KeyAhead(o, o.ptr, i)
  BY <1>2
<1>. QED BY <1>1, <1>3 DEF PairsOf

LEMMA ViewIs ==
  ASSUME ObjectInv, NEW ks, Lies(obj, ks)
  PROVE  /\ KeysOf(obj) = ks
         /\ Pairs = PairsOf(obj, ks, str, body) /\ Pairs \in Seq(PairType) /\ Len(Pairs) = obj.len
         /\ \A i \in 1 .. obj.len : /\ Pairs[i] = <<str[ks[i]], body[obj.next[ks[i]]]>>
                                    /\ Pairs[i][1] = str[ks[i]]
<1>1. KeysOf(obj) = ks
  BY KeysAre
<1>2. Pairs = PairsOf(obj, ks, str, body)
  BY PairsAreThese DEF Pairs, KeyAt
<1>3. /\ PairsOf(obj, ks, str, body) \in Seq(PairType)
      /\ Len(PairsOf(obj, ks, str, body)) = obj.len
      /\ \A i \in 1 .. obj.len :
           PairsOf(obj, ks, str, body)[i] = <<str[ks[i]], body[obj.next[ks[i]]]>>
  BY PairsAre DEF ObjectInv
<1>4. \A i \in 1 .. obj.len : Pairs[i] = <<str[ks[i]], body[obj.next[ks[i]]]>>
  BY <1>2, <1>3
<1>. QED BY <1>1, <1>2, <1>3, <1>4

\* An edit that leaves the keys kk.
LEMMA Arrives ==
  ASSUME ObjectInv, NEW kk, Lies(obj', kk), str' \in Strings, body' \in Bodies, ObjModified
  PROVE  ObjectInv' /\ Dropped' /\ Pairs' = PairsOf(obj', kk, str', body')
<1>1. KeysOf(obj') = kk
  BY KeysAre
<1>2. Pairs' = PairsOf(obj', kk, str', body')
  BY PairsAreThese DEF Pairs, KeyAt
<1>3. oitAt' = "off"
  BY DEF ObjModified
<1>. QED BY <1>1, <1>2, <1>3 DEF ObjectInv, Dropped, Place, Holding

LEMMA ArrivesObj ==
  ASSUME ObjectInv, NEW o, NEW kk, Lies(o, kk), SetObj(o)
  PROVE  ObjectInv' /\ Dropped' /\ Pairs' = PairsOf(o, kk, str, body)
<1>1. /\ obj' = o /\ str' = str /\ body' = body /\ ObjModified /\ Lies(obj', kk)
      /\ str' \in Strings /\ body' \in Bodies
  BY DEF SetObj, ObjectInv
<1>. QED BY <1>1, Arrives

\* A pair is added behind the first idx.
AddedBehind(o, ks, idx, k, v) ==
  [next |-> IF o.len = 0 THEN [o.next EXCEPT ![v] = k, ![k] = v]
            ELSE [o.next EXCEPT ![o.next[Round(ks, idx)]] = k,
                                ![v] = KeyAfter(o, Round(ks, idx)), ![k] = v],
   ptr  |-> IF idx = o.len THEN k ELSE o.ptr,
   len  |-> o.len + 1]

LEMMA AddedAt ==
  ASSUME NEW o, NEW ks, Lies(o, ks), NEW idx \in 0 .. o.len,
         NEW k \in Keys, \A j \in 1 .. o.len : ks[j] # k,
         NEW v \in Vals, \A j \in 1 .. o.len : o.next[ks[j]] # v
  PROVE  LET oo == AddedBehind(o, ks, idx, k, v)
             kk == InsertAt(ks, idx + 1, k)
         IN /\ Lies(oo, kk)
            /\ \A s \in Strings, b \in Bodies :
                 PairsOf(oo, kk, s, b) = InsertAt(PairsOf(o, ks, s, b), idx + 1, <<s[k], b[v]>>)
<1>0. PICK oo :
        /\ oo = AddedBehind(o, ks, idx, k, v)
        /\ oo.next = IF o.len = 0 THEN [o.next EXCEPT ![v] = k, ![k] = v]
                     ELSE [o.next EXCEPT ![o.next[Round(ks, idx)]] = k,
                                         ![v] = KeyAfter(o, Round(ks, idx)), ![k] = v]
        /\ oo = [next |-> oo.next, ptr |-> IF idx = o.len THEN k ELSE o.ptr, len |-> o.len + 1]
  <2>. DEFINE next == IF o.len = 0 THEN [o.next EXCEPT ![v] = k, ![k] = v]
                      ELSE [o.next EXCEPT ![o.next[Round(ks, idx)]] = k,
                                          ![v] = KeyAfter(o, Round(ks, idx)), ![k] = v]
  <2>1. PICK oo : oo = AddedBehind(o, ks, idx, k, v)
    OBVIOUS
  <2>2. oo = [next |-> next, ptr |-> IF idx = o.len THEN k ELSE o.ptr, len |-> o.len + 1]
    BY <2>1 DEF AddedBehind
  <2>. HIDE DEF next
  <2>3. oo.next = next
    BY <2>2
  <2>. QED BY <2>1, <2>2, <2>3 DEF next
<1>1. PICK n \in Nat : n = o.len /\ Len(ks) = n
  BY LiesIs
<1>2. PICK i \in 1 .. (o.len + 1) : i = idx + 1 /\ i - 1 = idx /\ (i = o.len + 1 <=> idx = o.len)
  <2>1. idx + 1 \in 1 .. (o.len + 1) /\ (idx + 1) - 1 = idx /\ (idx + 1 = o.len + 1 <=> idx = o.len)
    BY <1>1
  <2>. QED BY <2>1
<1>3. o.next \in [Elems -> Elems] /\ o.ptr \in Elems \cup {"none"}
  BY DEF Lies, ObjType
<1>4. k \in Elems /\ v \in Elems /\ k # v
  BY ElemsApart
<1>5. n > 0 => /\ o.next[Round(ks, idx)] \in Vals /\ o.next[Round(ks, idx)] \in Elems
               /\ Round(ks, i) \in Elems /\ KeyAfter(o, Round(ks, idx)) = Round(ks, i)
  <2>1. ASSUME n > 0
        PROVE  /\ o.next[Round(ks, idx)] \in Vals
               /\ Round(ks, i) \in Keys /\ KeyAfter(o, Round(ks, idx)) = Round(ks, i)
    <3>1. idx \in 0 .. (2 * n - 1) /\ i \in 0 .. (2 * n)
      BY <1>1, <1>2, <2>1
    <3>2. /\ \A j \in 0 .. (2 * n) : Round(ks, j) \in Keys
          /\ \A j \in 0 .. (2 * n - 1) : /\ o.next[Round(ks, j)] \in Vals
                                         /\ KeyAfter(o, Round(ks, j)) = Round(ks, j + 1)
      BY <1>1, <2>1, LiesIs
    <3>. QED BY <1>2, <3>1, <3>2
  <2>. QED BY <2>1 DEF Elems
<1>6. n > 0 => o.next[Round(ks, idx)] # v
  <2>1. ASSUME n > 0 PROVE o.next[Round(ks, idx)] # v
    <3>1. PICK j \in 1 .. n : Round(ks, idx) = ks[j]
      BY <1>1, <2>1 DEF Round
    <3>. QED BY <1>1, <3>1
  <2>. QED BY <2>1
<1>7. oo.next \in [Elems -> Elems]
  BY <1>0, <1>1, <1>3, <1>4, <1>5
<1>8. \A x \in Elems : oo.next[x] = IF x = k THEN v
                                    ELSE IF x = v THEN (IF o.len = 0 THEN k ELSE Round(ks, i))
                                    ELSE IF o.len > 0 /\ x = o.next[Round(ks, i - 1)] THEN k
                                    ELSE o.next[x]
  <2>1. CASE n = 0
    BY <1>0, <1>1, <1>3, <1>4, <2>1
  <2>2. CASE n > 0
    <3>1. oo.next = [o.next EXCEPT ![o.next[Round(ks, idx)]] = k, ![v] = Round(ks, i), ![k] = v]
      BY <1>0, <1>1, <1>5, <2>2
    <3>2. i - 1 = idx
      BY <1>2
    <3>. QED BY <1>1, <1>3, <1>4, <1>5, <1>6, <2>2, <3>1, <3>2
  <2>3. n = 0 \/ n > 0
    BY <1>1
  <2>. QED BY ONLY <2>1, <2>2, <2>3
<1>9. oo.len = o.len + 1 /\ oo.ptr = IF i = o.len + 1 THEN k ELSE o.ptr
  BY <1>0, <1>2
<1>10. oo \in ObjType
  <2>1. (IF idx = o.len THEN k ELSE o.ptr) \in Elems \cup {"none"} /\ o.len + 1 \in Nat
    BY <1>1, <1>3, <1>4
  <2>. QED BY <1>0, <1>7, <2>1 DEF ObjType
<1>11. /\ Lies(oo, InsertAt(ks, i, k))
       /\ \A s \in Strings, b \in Bodies :
            PairsOf(oo, InsertAt(ks, i, k), s, b) = InsertAt(PairsOf(o, ks, s, b), i, <<s[k], b[v]>>)
  BY ONLY Lies(o, ks), i \in 1 .. (o.len + 1), k \in Keys, v \in Vals,
          \A j \in 1 .. o.len : ks[j] # k, \A j \in 1 .. o.len : o.next[ks[j]] # v,
          <1>8, <1>9, <1>10, PairAdded
<1>. QED BY <1>0, <1>2, <1>11

-----------------------------------------------------------------------------
(* Pairs are added.                                                          *)

ObjectStep ==
  /\ oitAt' # "spoilt" => ObjectInv'
  /\ JP!Next \/ UNCHANGED <<Pairs, Place, Holding>>

LEMMA SpareIs ==
  ASSUME ObjectInv, NEW ks, ks = KeysOf(obj)
  PROVE  /\ Lies(obj, ks) /\ obj.len \in Nat /\ LinkedKeys = {ks[i] : i \in 1 .. obj.len}
         /\ \A i \in 1 .. obj.len : KeyAt(i) = ks[i]
         /\ \A k \in SpareKeys : k \in Keys /\ str[k] \in Names /\ \A j \in 1 .. obj.len : ks[j] # k
         /\ \A v \in SpareVals : /\ v \in Vals /\ body[v] \in Vals /\ v # "none" /\ Unlinked(obj, v)
                                 /\ \A j \in 1 .. obj.len : obj.next[ks[j]] # v
<1>1. Lies(obj, ks) /\ str \in Strings /\ body \in Bodies
  BY DEF ObjectInv
<1>2. /\ \A i \in 1 .. obj.len : KeyAhead(obj, obj.ptr, i) = ks[i]
      /\ {KeyAhead(obj, obj.ptr, i) : i \in 1 .. obj.len} = {ks[i] : i \in 1 .. obj.len}
  BY <1>1, KeysAre
<1>3. LinkedKeys = {ks[i] : i \in 1 .. obj.len} /\ \A i \in 1 .. obj.len : KeyAt(i) = ks[i]
  BY <1>2 DEF LinkedKeys, KeyAt
<1>4. \A k \in SpareKeys : k \in Keys /\ str[k] \in Names /\ \A j \in 1 .. obj.len : ks[j] # k
  BY <1>1, <1>3 DEF SpareKeys, Strings
<1>5. \A v \in SpareVals : /\ v \in Vals /\ body[v] \in Vals
                           /\ \A j \in 1 .. obj.len : obj.next[ks[j]] # v
  BY <1>1, <1>3 DEF SpareVals, Bodies
<1>6. \A v \in Vals : v # "none"
  BY ObjectAssumption
<1>7. obj.len \in Nat
  BY <1>1, LiesIs
<1>. QED BY <1>1, <1>3, <1>4, <1>5, <1>6, <1>7 DEF Unlinked

LEMMA Adds ==
  ASSUME ObjectInv, NEW k \in SpareKeys, NEW v \in SpareVals, NEW idx \in 0 .. obj.len,
         SetObj(AddedBehind(obj, KeysOf(obj), idx, k, v))
  PROVE  /\ ObjectInv' /\ Dropped'
         /\ Pairs' = InsertAt(Pairs, idx + 1, <<str[k], body[v]>>)
         /\ str[k] \in Names /\ body[v] \in Vals /\ idx + 1 \in 1 .. (Len(Pairs) + 1)
<1>1. PICK ks : ks = KeysOf(obj)
  OBVIOUS
<1>2. /\ Lies(obj, ks) /\ k \in Keys /\ v \in Vals /\ str[k] \in Names /\ body[v] \in Vals
      /\ \A j \in 1 .. obj.len : ks[j] # k
      /\ \A j \in 1 .. obj.len : obj.next[ks[j]] # v
      /\ obj.len \in Nat
  BY <1>1, SpareIs
<1>3. PICK oo, kk :
        /\ oo = AddedBehind(obj, ks, idx, k, v) /\ Lies(oo, kk)
        /\ \A s \in Strings, b \in Bodies :
             PairsOf(oo, kk, s, b) = InsertAt(PairsOf(obj, ks, s, b), idx + 1, <<s[k], b[v]>>)
  BY <1>2, AddedAt
<1>4. ObjectInv' /\ Dropped' /\ Pairs' = PairsOf(oo, kk, str, body)
  BY <1>1, <1>3, ArrivesObj
<1>5. Pairs = PairsOf(obj, ks, str, body) /\ Len(Pairs) = obj.len
  BY <1>2, ViewIs
<1>6. str \in Strings /\ body \in Bodies
  BY DEF ObjectInv
<1>7. idx + 1 \in 1 .. (Len(Pairs) + 1)
  BY <1>2, <1>5
<1>. QED BY <1>2, <1>3, <1>4, <1>5, <1>6, <1>7

LEMMA InsertSteps ==
  ASSUME ObjectInv', Dropped', NEW k \in Names, NEW c \in Vals, NEW i \in 1 .. (Len(Pairs) + 1),
         Pairs' = InsertAt(Pairs, i, <<k, c>>)
  PROVE  ObjectStep
<1>1. JP!Insert(i, k, c)
  BY DEF JP!Insert, JP!Changed, JP!Gone, JP!None, Dropped, JP!InsertAt, InsertAt
<1>2. JP!Next
  BY <1>1 DEF JP!Next
<1>. QED BY <1>2 DEF ObjectStep

\* At the end.
LEMMA AddedLast ==
  ASSUME ObjectInv, NEW k \in SpareKeys, NEW v \in SpareVals, SetObj(Added(obj, k, v))
  PROVE  /\ ObjectInv' /\ Dropped'
         /\ Pairs' = InsertAt(Pairs, Len(Pairs) + 1, <<str[k], body[v]>>)
         /\ str[k] \in Names /\ body[v] \in Vals /\ Len(Pairs) + 1 \in 1 .. (Len(Pairs) + 1)
<1>1. PICK ks : ks = KeysOf(obj) /\ Lies(obj, ks)
  BY DEF ObjectInv
<1>2. PICK n \in Nat : n = obj.len
  BY <1>1, LiesIs
<1>3. n > 0 => Round(ks, n) = obj.ptr
  BY <1>1, <1>2 DEF Lies, Round
<1>4. Added(obj, k, v) = AddedBehind(obj, KeysOf(obj), n, k, v)
  <2>1. CASE n = 0
    BY <1>2, <2>1 DEF Added, AddedBehind
  <2>2. CASE n > 0
    <3>1. obj.len # 0
      BY <1>2, <2>2
    <3>. QED BY <1>1, <1>2, <1>3, <2>2, <3>1 DEF Added, AddedBehind, KeyAfter
  <2>3. n = 0 \/ n > 0
    BY <1>2
  <2>. QED BY ONLY <2>1, <2>2, <2>3
<1>8. n \in 0 .. obj.len /\ SetObj(AddedBehind(obj, KeysOf(obj), n, k, v))
  BY <1>2, <1>4
<1>9. /\ ObjectInv' /\ Dropped'
      /\ Pairs' = InsertAt(Pairs, n + 1, <<str[k], body[v]>>)
      /\ str[k] \in Names /\ body[v] \in Vals /\ n + 1 \in 1 .. (Len(Pairs) + 1)
  BY ONLY ObjectInv, k \in SpareKeys, v \in SpareVals, <1>8, Adds
<1>10. Len(Pairs) = n
  BY <1>1, <1>2, ViewIs
<1>. QED BY <1>9, <1>10

LEMMA AddSteps ==
  ASSUME ObjectInv, NEW k \in SpareKeys, NEW v \in SpareVals, AddNew(k, v)
  PROVE  ObjectStep
<1>1. CASE AddPair(k, v)
  BY <1>1, AddedLast, InsertSteps DEF AddPair
<1>2. CASE UNCHANGED <<obj, str, body, oitAt, oit>>
  BY <1>2 DEF ObjectStep, ObjectInv, Pairs, KeyAt, Place, Holding
<1>. QED BY <1>1, <1>2 DEF AddNew

LEMMA ObjInsertSteps ==
  ASSUME ObjectInv, NEW k \in SpareKeys, NEW v \in SpareVals, NEW idx \in 0 .. obj.len,
         ObjInsert(k, v, idx)
  PROVE  ObjectStep
<1>1. PICK ks : ks = KeysOf(obj) /\ Lies(obj, ks)
  BY DEF ObjectInv
<1>2. PICK n \in Nat : n = obj.len
  BY <1>1, LiesIs
<1>3. CASE idx < n
  <2>1. PICK r : r = Round(ks, idx)
    OBVIOUS
  <2>2. KeyAhead(obj, obj.ptr, idx) = r
    <3>1. n > 0 /\ 0 + idx = idx /\ idx \in Nat /\ 0 + idx <= 2 * n
      BY <1>2, <1>3
    <3>2. KeyAhead(obj, Round(ks, 0), idx) = Round(ks, 0 + idx)
      BY <1>1, <1>2, <3>1, AheadIs
    <3>3. obj.ptr = Round(ks, 0)
      BY <1>1, <1>2, <3>1, LiesIs
    <3>. QED BY <2>1, <3>1, <3>2, <3>3
  <2>3. PICK oo : oo = [Added(Rotated(obj, idx), k, v) EXCEPT !.ptr = obj.ptr]
    OBVIOUS
  <2>4. PICK ro : ro = Rotated(obj, idx)
    OBVIOUS
  <2>5. ro.next = obj.next /\ ro.ptr = r /\ ro.len = obj.len
    BY <1>1, <2>2, <2>4 DEF Rotated, Lies, ObjType
  <2>6. oo = AddedBehind(obj, KeysOf(obj), idx, k, v)
    <3>1. obj.len # 0 /\ idx # obj.len
      BY <1>2, <1>3
    <3>. QED BY <1>1, <2>1, <2>3, <2>4, <2>5, <3>1 DEF Added, AddedBehind, KeyAfter
  <2>9. SetObj(AddedBehind(obj, KeysOf(obj), idx, k, v))
    BY <1>2, <1>3, <2>3, <2>6 DEF ObjInsert
  <2>10. /\ ObjectInv' /\ Dropped'
         /\ Pairs' = InsertAt(Pairs, idx + 1, <<str[k], body[v]>>)
         /\ str[k] \in Names /\ body[v] \in Vals /\ idx + 1 \in 1 .. (Len(Pairs) + 1)
    BY ONLY ObjectInv, k \in SpareKeys, v \in SpareVals, idx \in 0 .. obj.len,
            <2>9, Adds
  <2>. QED BY <2>10, InsertSteps
<1>4. CASE ~(idx < n)
  <2>1. SetObj(Added(obj, k, v))
    BY <1>2, <1>4 DEF ObjInsert
  <2>. QED BY <2>1, AddedLast, InsertSteps
<1>. QED BY <1>3, <1>4

-----------------------------------------------------------------------------
(* Pairs are rotated, removed and put.                                       *)

LEMMA RotateSteps ==
  ASSUME ObjectInv, NEW idx \in 0 .. obj.len, ObjRotate(idx)
  PROVE  ObjectStep
<1>1. PICK ks : ks = KeysOf(obj) /\ Lies(obj, ks) /\ str \in Strings /\ body \in Bodies
  BY DEF ObjectInv
<1>2. PICK n \in Nat : n = obj.len
  BY <1>1, LiesIs
<1>3. idx < n /\ idx \in 0 .. (obj.len - 1) /\ SetObj(Rotated(obj, idx))
  BY <1>2 DEF ObjRotate
<1>4. KeyAhead(obj, obj.ptr, idx) = Round(ks, idx)
  <2>1. n > 0 /\ 0 + idx = idx /\ idx \in Nat /\ 0 + idx <= 2 * n
    BY <1>2, <1>3
  <2>2. KeyAhead(obj, Round(ks, 0), idx) = Round(ks, 0 + idx)
    BY <1>1, <1>2, <2>1, AheadIs
  <2>3. obj.ptr = Round(ks, 0)
    BY <1>1, <1>2, <2>1, LiesIs
  <2>. QED BY <2>1, <2>2, <2>3
<1>5. PICK oo : oo = Rotated(obj, idx)
  OBVIOUS
<1>6. Round(ks, idx) \in Keys
  <2>1. n > 0 /\ idx \in 0 .. (2 * n)
    BY <1>2, <1>3
  <2>. QED BY <1>1, <1>2, <2>1, LiesIs
<1>7. oo \in ObjType /\ oo.len = obj.len /\ oo.next = obj.next /\ oo.ptr = Round(ks, idx)
  BY <1>1, <1>4, <1>5, <1>6 DEF Rotated, Lies, ObjType, Elems
<1>8. PICK q : q = PairsOf(obj, ks, str, body)
  OBVIOUS
<1>9. PICK kk : /\ Lies(oo, kk)
                /\ PairsOf(oo, kk, str, body) = SubSeq(q, idx + 1, Len(q)) \o SubSeq(q, 1, idx)
  <2>1. PICK o, m : o = obj /\ m = idx
    OBVIOUS
  <2>2. /\ Lies(o, ks) /\ m \in 0 .. (o.len - 1) /\ oo \in ObjType /\ oo.len = o.len
        /\ oo.next = o.next /\ oo.ptr = Round(ks, m)
    BY <1>1, <1>3, <1>7, <2>1
  <2>3. /\ Lies(oo, Turned(ks, m))
        /\ \A s \in Strings, b \in Bodies :
             PairsOf(oo, Turned(ks, m), s, b) = Turned(PairsOf(o, ks, s, b), m)
    BY ONLY <2>2, PairsTurned
  <2>. QED BY <1>1, <1>8, <2>1, <2>3 DEF Turned
<1>10. ObjectInv' /\ Dropped' /\ Pairs' = PairsOf(oo, kk, str, body)
  BY <1>3, <1>5, <1>9, ArrivesObj
<1>11. Pairs = q /\ Len(Pairs) = n
  BY <1>1, <1>2, <1>8, ViewIs
<1>12. PICK m \in 1 .. Len(Pairs) : m - 1 = idx
  <2>1. idx + 1 \in 1 .. n /\ (idx + 1) - 1 = idx
    BY <1>2, <1>3
  <2>. QED BY <1>11, <2>1
<1>13. JP!Rotate(m - 1)
  BY <1>9, <1>10, <1>11, <1>12 DEF JP!Rotate, JP!Changed, JP!Gone, JP!None, Dropped
<1>14. JP!Next
  BY <1>12, <1>13 DEF JP!Next
<1>. QED BY <1>10, <1>14 DEF ObjectStep

LEMMA ClearSteps ==
  ASSUME ObjectInv, ObjClear
  PROVE  ObjectStep
<1>1. PICK oo : oo = [obj EXCEPT !.len = 0]
  OBVIOUS
<1>2. oo \in ObjType /\ oo.len = 0
  BY <1>1 DEF ObjectInv, Lies, ObjType
<1>3. PICK kk \in Seq(Keys) : kk = << >> /\ Len(kk) = 0
  <2>1. << >> \in Seq(Keys) /\ Len(<< >>) = 0
    OBVIOUS
  <2>. QED BY <2>1
<1>4. Lies(oo, kk)
  <2>1. \A i \in 1 .. 0 : FALSE
    OBVIOUS
  <2>2. Distinct(kk)
    BY <1>3, <2>1 DEF Distinct
  <2>. QED BY <1>2, <1>3, <2>1, <2>2 DEF Lies
<1>5. ObjectInv' /\ Dropped' /\ Pairs' = PairsOf(oo, kk, str, body)
  BY <1>1, <1>4, ArrivesObj DEF ObjClear
<1>6. PairsOf(oo, kk, str, body) = << >>
  BY <1>3 DEF PairsOf
<1>7. JP!Clear
  BY <1>5, <1>6 DEF JP!Clear, JP!Changed, JP!Gone, JP!None, Dropped
<1>8. JP!Next
  BY <1>7 DEF JP!Next
<1>. QED BY <1>5, <1>8 DEF ObjectStep

LEMMA RemovalSteps ==
  ASSUME ObjectInv, NEW name \in Names, NEW o, NEW kk, SetObj(o), Lies(o, kk),
         PairsOf(o, kk, str, body) = JP!Picked(Pairs, OthersIn(Pairs, name))
  PROVE  ObjectStep
<1>1. ObjectInv' /\ Dropped' /\ Pairs' = JP!Picked(Pairs, OthersIn(Pairs, name))
  BY ArrivesObj
<1>2. OthersIn(Pairs, name) = JP!Others(name)
  BY DEF OthersIn, JP!Others, JP!At
<1>3. JP!RemoveAll(name)
  BY <1>1, <1>2 DEF JP!RemoveAll, JP!Changed, JP!Gone, JP!None, Dropped
<1>4. JP!Next
  BY <1>3 DEF JP!Next
<1>. QED BY <1>1, <1>4 DEF ObjectStep

LEMMA RemoveKeySteps ==
  ASSUME ObjectInv, NEW name \in Names, RemoveKey(name)
  PROVE  ObjectStep
<1>1. PICK ks : ks = KeysOf(obj) /\ Lies(obj, ks) /\ str \in Strings /\ body \in Bodies
  BY DEF ObjectInv
<1>2. Pairs = PairsOf(obj, ks, str, body)
  BY <1>1, ViewIs
<1>3. PICK kk : /\ Lies(Removed(obj, name), kk)
                /\ PairsOf(Removed(obj, name), kk, str, body)
                   = JP!Picked(Pairs, OthersIn(Pairs, name))
  BY <1>1, <1>2, RemovedAre
<1>. QED BY <1>3, RemovalSteps DEF RemoveKey

LEMMA SweepSteps ==
  ASSUME ObjectInv, NEW name \in Names, SetObj(Swept(obj, name, "none").o)
  PROVE  ObjectStep
<1>1. PICK ks : ks = KeysOf(obj) /\ Lies(obj, ks) /\ str \in Strings /\ body \in Bodies
  BY DEF ObjectInv
<1>2. PICK ps : ps = Pairs
  OBVIOUS
<1>3. ps = PairsOf(obj, ks, str, body) /\ ps \in Seq(PairType)
  BY <1>1, <1>2, ViewIs
<1>4. Keeps(ps, OthersIn(ps, name), ps, name, "none")
  BY <1>3 DEF Keeps, OthersIn
<1>5. PICK kk : /\ Lies(Swept(obj, name, "none").o, kk)
                /\ PairsOf(Swept(obj, name, "none").o, kk, str, body)
                   = JP!Picked(ps, OthersIn(ps, name))
  <2>1. PICK v : v = "none"
    OBVIOUS
  <2>2. PICK J : J = OthersIn(ps, name)
    OBVIOUS
  <2>3. Keeps(ps, J, ps, name, v)
    BY <1>4, <2>1, <2>2
  <2>4. \E kk : /\ Lies(Swept(obj, name, v).o, kk)
                /\ PairsOf(Swept(obj, name, v).o, kk, str, body) = JP!Picked(ps, J)
    BY <1>1, <1>3, <2>1, <2>3, SweptAre
  <2>. QED BY <2>1, <2>2, <2>4
<1>. QED BY <1>2, <1>5, RemovalSteps

LEMMA PutNullSteps ==
  ASSUME ObjectInv, NEW k \in SpareKeys, ObjPutNull(k)
  PROVE  ObjectStep
<1>1. str[k] \in Names
  BY SpareIs
<1>. QED BY <1>1, SweepSteps DEF ObjPutNull

LEMMA RemoveStrSteps ==
  ASSUME ObjectInv, NEW name \in Names, RemoveStr(name)
  PROVE  ObjectStep
BY SweepSteps DEF RemoveStr

\* The first pair of a key.
LEMMA FirstIs ==
  ASSUME NEW name, NEW m \in JP!At(name), Len(Pairs) \in Nat
  PROVE  /\ JP!First(name) \in JP!At(name)
         /\ \A j \in JP!At(name) : JP!First(name) <= j
<1>1. JP!At(name) \subseteq Nat
  BY DEF JP!At
<1>2. \E n \in JP!At(name) : \A k \in JP!At(name) : n <= k
  BY <1>1, LeastNumber
<1>. QED BY <1>2 DEF JP!First

LEMMA PutSteps ==
  ASSUME ObjectInv, NEW k \in SpareKeys, NEW v \in SpareVals, ObjPut(k, v)
  PROVE  ObjectStep
<1>1. PICK ks : ks = KeysOf(obj) /\ Lies(obj, ks) /\ str \in Strings /\ body \in Bodies
  BY DEF ObjectInv
<1>2. PICK ps : ps = Pairs
  OBVIOUS
<1>3. ps = PairsOf(obj, ks, str, body) /\ ps \in Seq(PairType) /\ Len(ps) = obj.len
  BY <1>1, <1>2, ViewIs
<1>4. PICK name \in Names, c \in Vals : name = str[k] /\ c = body[v]
  BY <1>1, SpareIs
<1>5. v # "none" /\ Unlinked(obj, v)
  BY <1>1, SpareIs
<1>6. PICK s : s = Swept(obj, name, v)
  OBVIOUS
<1>7. SetObj(IF s.replaced THEN s.o ELSE Added(s.o, k, v))
  BY <1>4, <1>6 DEF ObjPut
<1>8. Len(ps) \in Nat
  BY <1>3, LenProperties
<1>9. JP!At(name) = {i \in 1 .. Len(ps) : ps[i][1] = name}
  BY <1>2 DEF JP!At
<1>10. CASE JP!At(name) = {}
  <2>1. \A n \in 1 .. Len(ps) : ps[n][1] # name
    BY <1>9, <1>10
  <2>2. Keeps(ps, 1 .. Len(ps), ps, name, v)
    BY <1>3, <2>1 DEF Keeps
  <2>3. s.o = obj /\ s.replaced = FALSE
    <3>1. PICK J : J = 1 .. Len(ps)
      OBVIOUS
    <3>2. Keeps(ps, J, ps, name, v)
      BY <2>2, <3>1
    <3>3. /\ Swept(obj, name, v).replaced
             = (v # "none" /\ \E n \in 1 .. Len(ps) : ps[n][1] = name)
          /\ v # "none" /\ (\A n \in 1 .. Len(ps) : ps[n][1] # name) => Swept(obj, name, v).o = obj
      BY <1>1, <1>3, <1>5, <3>2, SweptAre
    <3>. QED BY <1>5, <1>6, <2>1, <3>3
  <2>4. SetObj(Added(obj, k, v))
    BY <1>7, <2>3
  <2>5. /\ ObjectInv' /\ Dropped'
        /\ Pairs' = InsertAt(Pairs, Len(Pairs) + 1, <<str[k], body[v]>>)
    BY <2>4, AddedLast
  <2>6. Pairs' = Append(Pairs, <<name, c>>)
    <3>1. PICK p \in PairType : p = <<name, c>>
      BY DEF PairType
    <3>2. InsertAt(ps, Len(ps) + 1, p) = Append(ps, p)
      <4>1. PICK t : t = InsertAt(ps, Len(ps) + 1, p)
        OBVIOUS
      <4>2. PICK n \in Nat : n = Len(ps)
        BY <1>8
      <4>3. /\ t \in Seq(PairType) /\ Len(t) = n + 1
            /\ \A i \in 1 .. (n + 1) : t[i] = IF i < n + 1 THEN ps[i] ELSE IF i = n + 1 THEN p ELSE ps[i - 1]
        <5>1. PICK l \in 1 .. (Len(ps) + 1) : l = Len(ps) + 1
          BY <4>2
        <5>. DEFINE w == InsertAt(ps, l, p)
        <5>2. /\ w \in Seq(PairType) /\ Len(w) = Len(ps) + 1
              /\ \A i \in 1 .. (Len(ps) + 1) :
                   w[i] = IF i < l THEN ps[i] ELSE IF i = l THEN p ELSE ps[i - 1]
          <6>1. InsertedIs(PairType, ps, p, l, w)
            BY <1>3, InsertedAt
          <6>. HIDE DEF w
          <6>. QED BY <6>1 DEF InsertedIs
        <5>3. t = w
          BY <4>1, <5>1
        <5>. HIDE DEF w
        <5>. QED BY <4>2, <5>1, <5>2, <5>3
      <4>4. /\ Append(ps, p) \in Seq(PairType) /\ Len(Append(ps, p)) = n + 1
            /\ \A i \in 1 .. n : Append(ps, p)[i] = ps[i]
            /\ Append(ps, p)[n + 1] = p
        BY <1>3, <3>1, <4>2, AppendProperties
      <4>5. ASSUME NEW i \in 1 .. (n + 1) PROVE t[i] = Append(ps, p)[i]
        <5>1. i \in 1 .. n \/ i = n + 1
          BY <4>2
        <5>2. i \in 1 .. n => i < n + 1
          BY <4>2
        <5>. QED BY <4>3, <4>4, <5>1, <5>2
      <4>6. t = Append(ps, p)
        BY <4>3, <4>4, <4>5, SameSequence
      <4>. QED BY <4>1, <4>6
    <3>. QED BY <1>2, <1>4, <2>5, <3>1, <3>2
  <2>7. JP!Put(name, c)
    BY <1>10, <2>5, <2>6 DEF JP!Put, JP!Changed, JP!Gone, JP!None, Dropped
  <2>8. JP!Next
    BY <2>7 DEF JP!Next
  <2>. QED BY <2>5, <2>8 DEF ObjectStep
<1>11. CASE JP!At(name) # {}
  <2>1. PICK f : f = JP!First(name) /\ f \in JP!At(name) /\ \A j \in JP!At(name) : f <= j
    BY <1>2, <1>8, <1>11, FirstIs
  <2>2. f \in 1 .. Len(ps) /\ ps[f][1] = name
    BY <1>9, <2>1
  <2>3. PICK p \in PairType : p = <<name, c>>
    BY DEF PairType
  <2>4. PICK Q : Q = [ps EXCEPT ![f] = p]
    OBVIOUS
  <2>5. Q \in Seq(PairType) /\ Len(Q) = Len(ps) /\ \A j \in 1 .. Len(ps) : Q[j] = IF j = f THEN p ELSE ps[j]
    BY <1>3, <2>2, <2>4
  <2>6. PICK J : J = JP!Others(name) \cup {f}
    OBVIOUS
  <2>7. \A n \in 1 .. Len(ps) : n \in J <=> ps[n][1] # name \/ n = f
    BY <1>2, <1>9, <2>6 DEF JP!Others
  <2>8. Keeps(Q, J, ps, name, v)
    <3>1. ASSUME NEW n \in 1 .. Len(ps)
          PROVE  LET hit == \E j \in 1 .. (n - 1) : ps[j][1] = name
                 IN /\ ps[n][1] # name => n \in J /\ Q[n] = ps[n]
                    /\ ps[n][1] = name /\ v # "none" /\ ~hit => n \in J /\ Q[n] = <<name, body[v]>>
                    /\ ps[n][1] = name /\ (v = "none" \/ hit) => n \notin J
      <4>. DEFINE hit == \E j \in 1 .. (n - 1) : ps[j][1] = name
      <4>1. ps[n][1] # name => n \in J /\ Q[n] = ps[n]
        BY <2>2, <2>5, <2>7
      <4>2. ps[n][1] = name => (hit <=> n # f)
        <5>1. ASSUME ps[n][1] = name, n # f PROVE hit
          <6>1. f <= n
            BY <1>9, <2>1, <5>1
          <6>2. f \in 1 .. (n - 1)
            BY <1>8, <2>2, <5>1, <6>1
          <6>. QED BY <2>2, <6>2
        <5>2. ASSUME hit PROVE n # f
          <6>1. PICK j \in 1 .. (n - 1) : ps[j][1] = name
            BY <5>2
          <6>2. j \in 1 .. Len(ps) /\ j < n
            BY <1>8
          <6>3. f <= j
            BY <1>9, <2>1, <6>1, <6>2
          <6>. QED BY <1>8, <2>2, <6>2, <6>3
        <5>. QED BY <5>1, <5>2
      <4>. HIDE DEF hit
      <4>3. ps[n][1] = name /\ v # "none" /\ ~hit => n \in J /\ Q[n] = <<name, body[v]>>
        BY <1>4, <2>3, <2>5, <2>7, <4>2
      <4>4. ps[n][1] = name /\ (v = "none" \/ hit) => n \notin J
        BY <1>5, <2>7, <4>2
      <4>. QED BY <4>1, <4>3, <4>4 DEF hit
    <3>. QED BY <2>5, <3>1 DEF Keeps
  <2>9. /\ \E kk : Lies(s.o, kk) /\ PairsOf(s.o, kk, str, body) = JP!Picked(Q, J)
        /\ s.replaced = (v # "none" /\ \E n \in 1 .. Len(ps) : ps[n][1] = name)
    BY <1>1, <1>3, <1>5, <1>6, <2>8, SweptAre
  <2>10. SetObj(s.o)
    BY <1>5, <1>7, <2>2, <2>9
  <2>11. ObjectInv' /\ Dropped' /\ Pairs' = JP!Picked(Q, J)
    BY <2>9, <2>10, ArrivesObj
  <2>12. JP!Put(name, c)
    BY <1>2, <1>11, <2>1, <2>3, <2>4, <2>6, <2>11
       DEF JP!Put, JP!Changed, JP!Gone, JP!None, Dropped, JP!ReplaceAt, ReplaceAt
  <2>13. JP!Next
    BY <2>12 DEF JP!Next
  <2>. QED BY <2>11, <2>13 DEF ObjectStep
<1>. QED BY <1>10, <1>11

-----------------------------------------------------------------------------
(* Values are replaced and keys renamed.                                     *)

ThePairs(o, ks, s, b, p) ==
  /\ p \in Seq(PairType) /\ Len(p) = o.len
  /\ \A i \in 1 .. o.len : p[i] = <<s[ks[i]], b[o.next[ks[i]]]>>

LEMMA PairsThere ==
  ASSUME NEW o, NEW ks, Lies(o, ks), NEW s \in Strings, NEW b \in Bodies
  PROVE  ThePairs(o, ks, s, b, PairsOf(o, ks, s, b))
BY PairsAre DEF ThePairs

\* Nothing of the pairs changes, and there is no iterator any more.
LEMMA DropSteps ==
  ASSUME ObjectInv', Pairs' = Pairs, Dropped'
  PROVE  ObjectStep
<1>1. JP!Drop
  BY DEF JP!Drop, JP!Gone, JP!None, Dropped
<1>2. JP!Next
  BY <1>1 DEF JP!Next
<1>. QED BY <1>2 DEF ObjectStep

LEMMA ReplaceSteps ==
  ASSUME ObjectInv, NEW k \in SpareKeys, NEW v \in SpareVals, ObjReplace(k, v)
  PROVE  ObjectStep
<1>1. PICK ks : ks = KeysOf(obj) /\ Lies(obj, ks) /\ str \in Strings /\ body \in Bodies
  BY DEF ObjectInv
<1>2. PICK ps : ps = Pairs
  OBVIOUS
<1>3. /\ ps = PairsOf(obj, ks, str, body) /\ ps \in Seq(PairType) /\ Len(ps) = obj.len
      /\ \A i \in 1 .. obj.len : /\ ps[i] = <<str[ks[i]], body[obj.next[ks[i]]]>>
                                 /\ ps[i][1] = str[ks[i]]
  BY <1>1, <1>2, ViewIs
<1>4. PICK n \in Nat : n = obj.len
  BY <1>1, LiesIs
<1>5. PICK name \in Names, c \in Vals : name = str[k] /\ c = body[v]
  BY <1>1, SpareIs
<1>6. /\ \A i \in 1 .. n : KeyAt(i) = ks[i] /\ ks[i] \in Keys /\ obj.next[ks[i]] \in Vals
      /\ \A i, j \in 1 .. n : obj.next[ks[i]] = obj.next[ks[j]] => i = j
  <2>1. \A i \in 1 .. obj.len : KeyAt(i) = ks[i]
    BY <1>1, SpareIs
  <2>2. /\ \A i \in 1 .. obj.len : ks[i] \in Keys
        /\ \A i, j \in 1 .. obj.len : obj.next[ks[i]] = obj.next[ks[j]] => i = j
    BY <1>1, LiesIs
  <2>3. \A i \in 1 .. obj.len : obj.next[ks[i]] \in Vals
    BY <1>1 DEF Lies
  <2>. QED BY <1>4, <2>1, <2>2, <2>3
<1>7. JP!At(name) = {i \in 1 .. n : ps[i][1] = name}
  BY <1>2, <1>3, <1>4 DEF JP!At
<1>8. JP!At(name) = {i \in 1 .. obj.len : str[KeyAt(i)] = name}
  BY <1>3, <1>4, <1>6, <1>7
<1>9. obj' = obj /\ str' = str /\ ObjModified
  BY DEF ObjReplace
<1>10. CASE JP!At(name) = {}
  <2>1. Getn(name) = "none"
    BY <1>8, <1>10 DEF Getn
  <2>2. body' = body
    BY <1>5, <2>1 DEF ObjReplace
  <2>3. ObjectInv' /\ Dropped' /\ Pairs' = PairsOf(obj', ks, str', body')
    BY <1>1, <1>9, <2>2, Arrives
  <2>4. Pairs' = Pairs
    BY <1>2, <1>3, <1>9, <2>2, <2>3
  <2>. QED BY <2>3, <2>4, DropSteps
<1>11. CASE JP!At(name) # {}
  <2>1. PICK f : f = JP!First(name) /\ f \in JP!At(name) /\ \A j \in JP!At(name) : f <= j
    BY <1>2, <1>3, <1>4, <1>11, FirstIs
  <2>2. f \in 1 .. n
    BY <1>7, <2>1
  <2>3. Getn(name) = obj.next[ks[f]]
    <3>1. Getn(name) = obj.next[KeyAt(JP!First(name))]
      BY <1>8, <1>11 DEF Getn, JP!First
    <3>. QED BY <1>6, <2>1, <2>2, <3>1
  <2>4. PICK w \in Vals : w = obj.next[ks[f]] /\ w # "none"
    BY <1>6, <2>2, ObjectAssumption
  <2>5. body' = [body EXCEPT ![w] = c]
    BY <1>5, <2>3, <2>4 DEF ObjReplace
  <2>6. body' \in Bodies /\ \A x \in Vals : body'[x] = IF x = w THEN c ELSE body[x]
    BY <1>1, <2>5 DEF Bodies
  <2>7. ObjectInv' /\ Dropped' /\ Pairs' = PairsOf(obj', ks, str', body')
    BY <1>1, <1>9, <2>6, Arrives
  <2>8. PICK bb \in Bodies : bb = body'
    BY <2>6
  <2>9. PICK p : p = PairsOf(obj, ks, str, bb) /\ p = Pairs'
    BY <1>9, <2>7, <2>8
  <2>10. /\ p \in Seq(PairType) /\ Len(p) = n
         /\ \A i \in 1 .. n : p[i] = <<str[ks[i]], bb[obj.next[ks[i]]]>>
    <3>1. ThePairs(obj, ks, str, bb, p)
      BY <1>1, <2>9, PairsThere
    <3>. QED BY <1>4, <3>1 DEF ThePairs
  <2>11. PICK e \in PairType : e = <<name, c>>
    BY DEF PairType
  <2>12. PICK u : u = [ps EXCEPT ![f] = e]
    OBVIOUS
  <2>13. u \in Seq(PairType) /\ Len(u) = n /\ \A i \in 1 .. n : u[i] = IF i = f THEN e ELSE ps[i]
    BY <1>3, <1>4, <2>2, <2>12
  <2>14. ASSUME NEW i \in 1 .. n PROVE p[i] = u[i]
    <3>1. p[i] = <<str[ks[i]], bb[obj.next[ks[i]]]>>
      BY <2>10
    <3>2. CASE i = f
      <4>1. str[ks[i]] = name
        BY <1>3, <1>4, <1>7, <2>1, <3>2
      <4>2. bb[obj.next[ks[i]]] = c
        BY <2>4, <2>6, <2>8, <3>2
      <4>. QED BY <2>11, <2>13, <3>1, <3>2, <4>1, <4>2
    <3>3. CASE i # f
      <4>1. obj.next[ks[i]] \in Vals /\ obj.next[ks[i]] # w
        BY <1>6, <2>2, <2>4, <3>3
      <4>2. bb[obj.next[ks[i]]] = body[obj.next[ks[i]]]
        BY <2>6, <2>8, <4>1
      <4>3. ps[i] = <<str[ks[i]], body[obj.next[ks[i]]]>>
        BY <1>3, <1>4
      <4>. QED BY <2>13, <3>1, <3>3, <4>2, <4>3
    <3>. QED BY <3>2, <3>3
  <2>15. p = u
    BY <2>10, <2>13, <2>14, SameSequence
  <2>16. JP!Replace(name, c)
    BY <1>2, <1>11, <2>1, <2>7, <2>9, <2>11, <2>12, <2>15
       DEF JP!Replace, JP!Changed, JP!Gone, JP!None, Dropped, JP!ReplaceAt, ReplaceAt
  <2>17. JP!Next
    BY <2>16 DEF JP!Next
  <2>. QED BY <2>7, <2>17 DEF ObjectStep
<1>. QED BY <1>10, <1>11

LEMMA RenameSteps ==
  ASSUME ObjectInv, NEW old \in Names, NEW new \in Names, ObjRename(old, new)
  PROVE  ObjectStep
<1>1. PICK ks : ks = KeysOf(obj) /\ Lies(obj, ks) /\ str \in Strings /\ body \in Bodies
  BY DEF ObjectInv
<1>2. PICK ps : ps = Pairs
  OBVIOUS
<1>3. /\ ps = PairsOf(obj, ks, str, body) /\ ps \in Seq(PairType) /\ Len(ps) = obj.len
      /\ \A i \in 1 .. obj.len : ps[i] = <<str[ks[i]], body[obj.next[ks[i]]]>>
  BY <1>1, <1>2, ViewIs
<1>4. PICK n \in Nat : n = obj.len
  BY <1>1, LiesIs
<1>5. obj' = obj /\ body' = body /\ ObjModified
  BY DEF ObjRename
<1>6. CASE str' = str
  <2>1. ObjectInv' /\ Dropped' /\ Pairs' = PairsOf(obj', ks, str', body')
    BY <1>1, <1>5, <1>6, Arrives
  <2>2. Pairs' = Pairs
    BY <1>2, <1>3, <1>5, <1>6, <2>1
  <2>. QED BY <2>1, <2>2, DropSteps
<1>7. CASE str' = [k \in Keys |-> IF k \in LinkedKeys /\ str[k] = old THEN new ELSE str[k]]
  <2>1. str' \in Strings
    BY <1>1, <1>7 DEF Strings
  <2>2. ObjectInv' /\ Dropped' /\ Pairs' = PairsOf(obj', ks, str', body')
    BY <1>1, <1>5, <2>1, Arrives
  <2>3. PICK ss \in Strings : ss = str'
    BY <2>1
  <2>4. PICK p : p = PairsOf(obj, ks, ss, body) /\ p = Pairs'
    BY <1>5, <2>2, <2>3
  <2>5. /\ p \in Seq(PairType) /\ Len(p) = n
        /\ \A i \in 1 .. n : p[i] = <<ss[ks[i]], body[obj.next[ks[i]]]>>
    <3>1. ThePairs(obj, ks, ss, body, p)
      BY <1>1, <2>4, PairsThere
    <3>. QED BY <1>4, <3>1 DEF ThePairs
  <2>6. \A i \in 1 .. n : ss[ks[i]] = IF str[ks[i]] = old THEN new ELSE str[ks[i]]
    <3>1. \A i \in 1 .. n : ks[i] \in Keys /\ ks[i] \in LinkedKeys
      BY <1>1, <1>4, SpareIs, LiesIs
    <3>. QED BY <1>7, <2>3, <3>1
  <2>7. PICK u : u = [i \in 1 .. n |-> <<IF ps[i][1] = old THEN new ELSE ps[i][1], ps[i][2]>>]
    OBVIOUS
  <2>8. ASSUME NEW i \in 1 .. n
        PROVE  p[i] = <<IF ps[i][1] = old THEN new ELSE ps[i][1], ps[i][2]>>
    <3>1. ps[i] = <<str[ks[i]], body[obj.next[ks[i]]]>>
      BY <1>3, <1>4
    <3>2. p[i] = <<ss[ks[i]], body[obj.next[ks[i]]]>>
      BY <2>5
    <3>3. ps[i][1] = str[ks[i]] /\ ps[i][2] = body[obj.next[ks[i]]]
      BY <3>1
    <3>. QED BY <2>6, <3>2, <3>3
  <2>9. p = u
    <3>1. p = [i \in 1 .. n |-> p[i]]
      BY <2>5
    <3>. QED BY <2>7, <2>8, <3>1
  <2>10. JP!Rename(old, new)
    BY <1>2, <1>3, <1>4, <2>2, <2>4, <2>7, <2>9 DEF JP!Rename, JP!Changed, JP!Gone, JP!None, Dropped
  <2>11. JP!Next
    BY <2>10 DEF JP!Next
  <2>. QED BY <2>2, <2>11 DEF ObjectStep
<1>. QED BY <1>6, <1>7 DEF ObjRename

-----------------------------------------------------------------------------
(* The iterator.                                                             *)

\* Around the circle, where the object is not empty.
LEMMA RoundIs ==
  ASSUME NEW o, NEW ks, Lies(o, ks), NEW i \in 0 .. o.len, o.len > 0
  PROVE  /\ Round(ks, i) \in Keys /\ Round(ks, i) \in Elems /\ Round(ks, i) \in Places
         /\ Round(ks, i + 1) \in Keys
         /\ o.next[Round(ks, i)] \in Vals
         /\ KeyAfter(o, Round(ks, i)) = Round(ks, i + 1)
<1>1. PICK n \in Nat : n = o.len
  BY LiesIs
<1>2. i \in 0 .. (2 * n - 1) /\ i \in 0 .. (2 * n) /\ i + 1 \in 0 .. (2 * n)
  BY <1>1
<1>3. /\ \A j \in 0 .. (2 * n) : Round(ks, j) \in Keys
      /\ \A j \in 0 .. (2 * n - 1) : /\ o.next[Round(ks, j)] \in Vals
                                     /\ KeyAfter(o, Round(ks, j)) = Round(ks, j + 1)
  BY <1>1, LiesIs
<1>. QED BY <1>2, <1>3 DEF Elems, Places

\* An iterator is moved.
Moved(it, i, a, b) == [it EXCEPT !.idx = i, !.pre = a, !.cur = b]
MovedBack(it, i, m, b) == [it EXCEPT !.idx = i, !.max = m, !.cur = b]

LEMMA IterMoved ==
  ASSUME NEW it \in IterType, NEW i \in Int, NEW a \in Places, NEW b \in Places,
         NEW t, t = Moved(it, i, a, b)
  PROVE  t \in IterType /\ t.idx = i /\ t.max = it.max /\ t.pre = a /\ t.cur = b
<1>1. it \in [idx : Int, max : Int, pre : Places, cur : Places]
  BY DEF IterType
<1>2. PICK m \in Int : m = it.max
  BY <1>1
<1>3. t = [idx |-> i, max |-> m, pre |-> a, cur |-> b]
  BY <1>1, <1>2 DEF Moved
<1>4. t \in IterType
  BY <1>3 DEF IterType
<1>. QED BY <1>2, <1>3, <1>4

LEMMA IterMovedBack ==
  ASSUME NEW it \in IterType, NEW i \in Int, NEW m \in Int, NEW b \in Places,
         NEW t, t = MovedBack(it, i, m, b)
  PROVE  t \in IterType /\ t.idx = i /\ t.max = m /\ t.pre = it.pre /\ t.cur = b
<1>1. it \in [idx : Int, max : Int, pre : Places, cur : Places]
  BY DEF IterType
<1>2. PICK a \in Places : a = it.pre
  BY <1>1
<1>3. t = [idx |-> i, max |-> m, pre |-> a, cur |-> b]
  BY <1>1, <1>2 DEF MovedBack
<1>4. t \in IterType
  BY <1>3 DEF IterType
<1>. QED BY <1>2, <1>3, <1>4

\* Two neighbours, as far as twice around.
LEMMA RoundAgain ==
  ASSUME NEW ks, NEW n \in Nat, Len(ks) = n, n > 0, NEW j \in 0 .. (2 * n - 1)
  PROVE  \E e \in 1 .. n : /\ Round(ks, j + 1) = Round(ks, e) /\ Round(ks, e) = ks[e]
                           /\ Round(ks, j) = Round(ks, e - 1)
<1>1. PICK e \in 1 .. n : e = IF j < n THEN j + 1 ELSE j + 1 - n
  <2>1. (IF j < n THEN j + 1 ELSE j + 1 - n) \in 1 .. n
    OBVIOUS
  <2>. QED BY <2>1
<1>2. (IF j + 1 = 0 THEN n ELSE IF j + 1 > n THEN j + 1 - n ELSE j + 1) = e
  BY <1>1
<1>3. (IF j = 0 THEN n ELSE IF j > n THEN j - n ELSE j)
      = (IF e - 1 = 0 THEN n ELSE IF e - 1 > n THEN e - 1 - n ELSE e - 1)
  BY <1>1
<1>4. (IF e = 0 THEN n ELSE IF e > n THEN e - n ELSE e) = e
  OBVIOUS
<1>5. Round(ks, j + 1) = ks[e] /\ Round(ks, e) = ks[e]
  BY <1>2, <1>4 DEF Round
<1>6. Round(ks, j) = Round(ks, e - 1)
  BY <1>3 DEF Round
<1>. QED BY <1>5, <1>6

\* A step of the iterator that leaves the object alone.
LEMMA LeavesAlone ==
  ASSUME obj' = obj, str' = str, body' = body, ObjectInv,
         oitAt' \in {"at", "between", "astray"}, IterThere(obj, oit'),
         oitAt' # "astray" => IterLies(obj, oit', oitAt')
  PROVE  ObjectInv' /\ Pairs' = Pairs
<1>1. Pairs' = Pairs
  BY DEF Pairs, KeyAt
<1>2. IterThere(obj', oit') /\ (oitAt' # "astray" => IterLies(obj', oit', oitAt'))
  OBVIOUS
<1>3. Lies(obj', KeysOf(obj')) /\ str' \in Strings /\ body' \in Bodies
  BY DEF ObjectInv
<1>. QED BY <1>1, <1>2, <1>3 DEF ObjectInv

LEMMA IterInitSteps ==
  ASSUME ObjectInv, ObjIterInit
  PROVE  ObjectStep
<1>1. PICK ks : ks = KeysOf(obj) /\ Lies(obj, ks)
  BY DEF ObjectInv
<1>2. PICK n \in Nat : n = obj.len
  BY <1>1, LiesIs
<1>3. n > 0 => obj.ptr = Round(ks, 0) /\ Round(ks, 0) \in Places
  <2>1. ASSUME n > 0 PROVE Round(ks, 0) \in Places
    <3>1. 0 \in 0 .. n
      BY <1>2
    <3>. QED BY <1>1, <1>2, <2>1, <3>1, RoundIs
  <2>. QED BY <1>1, <1>2, <2>1, LiesIs
<1>4. PICK it : it = IterOf(obj)
  OBVIOUS
<1>5. /\ it \in IterType /\ it.idx = 0 /\ it.max = n
      /\ n > 0 => it.cur = Round(ks, 0)
  <2>1. PICK c \in Places : c = (IF obj.len > 0 THEN obj.ptr ELSE "none")
    BY <1>2, <1>3 DEF Places
  <2>2. "none" \in Places
    BY DEF Places
  <2>3. it = [idx |-> 0, max |-> n, pre |-> "none", cur |-> c]
    BY <1>2, <1>4, <2>1 DEF IterOf
  <2>4. it \in IterType
    BY <2>2, <2>3 DEF IterType
  <2>5. it.idx = 0 /\ it.max = n /\ it.cur = c
    BY <2>3
  <2>. QED BY <1>2, <1>3, <2>1, <2>4, <2>5
<1>6. IterLies(obj, it, "between") /\ IterThere(obj, it)
  <2>1. 0 \in 0 .. n /\ ~(0 > 0)
    OBVIOUS
  <2>. QED BY <1>1, <1>2, <1>5, <2>1 DEF IterLies, IterThere
<1>7. /\ obj' = obj /\ str' = str /\ body' = body /\ oit' = it /\ oitAt' = "between"
  BY <1>4 DEF ObjIterInit
<1>8. ObjectInv' /\ Pairs' = Pairs
  BY <1>6, <1>7, LeavesAlone
<1>9. Place' = 0 /\ Holding' = FALSE
  BY <1>5, <1>7 DEF Place, Holding
<1>10. JP!Begin
  BY <1>8, <1>9 DEF JP!Begin
<1>11. JP!Next
  BY <1>10 DEF JP!Next
<1>. QED BY <1>8, <1>11 DEF ObjectStep

\* Where the iterator is.
LEMMA IterIs ==
  ASSUME ObjectInv, oitAt # "off", NEW ks, ks = KeysOf(obj), NEW n, n = obj.len
  PROVE  /\ oit \in IterType /\ oit.max = n /\ oit.idx \in 0 .. n
         /\ oitAt \in {"at", "between", "astray"}
         /\ n > 0 => \E c \in 0 .. n : /\ oit.cur = Round(ks, c)
                                       /\ oitAt # "astray" => c = oit.idx
         /\ n > 0 /\ oit.idx > 0 => \E c \in 0 .. n : oit.pre = Round(ks, c)
         /\ oitAt = "at" => oit.idx > 0 /\ oit.pre = Round(ks, oit.idx - 1)
<1>1. oitAt \in {"at", "between", "astray"} /\ IterThere(obj, oit)
  BY DEF ObjectInv
<1>2. oitAt # "astray" => IterLies(obj, oit, oitAt)
  BY <1>1 DEF ObjectInv
<1>. QED BY <1>1, <1>2 DEF IterThere, IterLies

LEMMA IterNextSteps ==
  ASSUME ObjectInv, ObjIterNext
  PROVE  ObjectStep
<1>1. PICK ks : ks = KeysOf(obj) /\ Lies(obj, ks)
  BY DEF ObjectInv
<1>2. PICK n \in Nat : n = obj.len /\ Len(ks) = n
  BY <1>1, LiesIs
<1>3. /\ oitAt # "off" /\ oit.idx < oit.max
      /\ oitAt' = IF oitAt = "astray" THEN "astray" ELSE "at"
      /\ obj' = obj /\ str' = str /\ body' = body /\ oit' = Stepped(obj, oit)
  BY DEF ObjIterNext
<1>4. PICK i \in 0 .. n : i = oit.idx /\ oit \in IterType /\ oit.max = n
  BY <1>1, <1>2, <1>3, IterIs
<1>5. i < n /\ n > 0 /\ i + 1 \in 0 .. n /\ i + 1 > 0 /\ (i + 1) - 1 = i
  BY <1>3, <1>4
<1>6. PICK c \in 0 .. n : oit.cur = Round(ks, c) /\ (oitAt # "astray" => c = i)
  BY <1>1, <1>2, <1>3, <1>4, <1>5, IterIs
<1>7. /\ Round(ks, c) \in Places /\ KeyAfter(obj, Round(ks, c)) = Round(ks, c + 1)
  BY <1>1, <1>2, <1>5, RoundIs
<1>8. PICK e \in 1 .. n : Round(ks, c + 1) = Round(ks, e) /\ Round(ks, c) = Round(ks, e - 1)
  <2>1. c \in 0 .. (2 * n - 1)
    BY <1>5
  <2>. QED BY <1>2, <1>5, <2>1, RoundAgain
<1>9. PICK a \in Places, b \in Places : a = Round(ks, c) /\ b = Round(ks, e)
  <2>1. e \in 0 .. n
    OBVIOUS
  <2>. QED BY <1>1, <1>2, <1>5, <1>7, <2>1, RoundIs
<1>10. PICK it : it = [oit EXCEPT !.idx = i + 1, !.pre = a, !.cur = b] /\ it = oit'
  <2>1. /\ Stepped(obj, oit) = [oit EXCEPT !.idx = oit.idx + 1, !.pre = oit.cur,
                                             !.cur = KeyAfter(obj, oit.cur)]
        /\ oit.idx = i
    BY <1>4 DEF Stepped, IterType
  <2>2. oit.cur = a /\ KeyAfter(obj, oit.cur) = b
    BY <1>6, <1>7, <1>8, <1>9
  <2>. QED BY <1>3, <2>1, <2>2
<1>11. it \in IterType /\ it.idx = i + 1 /\ it.max = n /\ it.pre = a /\ it.cur = b
  <2>1. i + 1 \in Int
    BY <1>5
  <2>2. it \in IterType /\ it.idx = i + 1 /\ it.max = oit.max /\ it.pre = a /\ it.cur = b
    <3>1. it = Moved(oit, i + 1, a, b)
      BY <1>10 DEF Moved
    <3>2. oit \in IterType /\ a \in Places /\ b \in Places
      BY <1>4, <1>9
    <3>. QED BY ONLY <2>1, <3>1, <3>2, IterMoved
  <2>. QED BY <1>4, <2>2
<1>12. IterThere(obj, it)
  <2>1. e \in 0 .. n
    OBVIOUS
  <2>. QED BY <1>1, <1>2, <1>5, <1>9, <1>11, <2>1 DEF IterThere
<1>13. oitAt # "astray" => IterLies(obj, it, "at")
  BY <1>1, <1>2, <1>5, <1>6, <1>8, <1>9, <1>11 DEF IterLies
<1>14. ObjectInv' /\ Pairs' = Pairs
  BY <1>3, <1>10, <1>12, <1>13, LeavesAlone
<1>15. CASE oitAt = "astray"
  <2>1. Place = -2 /\ Place' = -2 /\ Holding = FALSE /\ Holding' = FALSE
    BY <1>3, <1>15 DEF Place, Holding
  <2>. QED BY <1>14, <2>1 DEF ObjectStep
<1>16. CASE oitAt # "astray"
  <2>1. oitAt \in {"at", "between"} /\ oitAt' = "at"
    BY <1>1, <1>2, <1>3, <1>16, IterIs
  <2>2. Place = i /\ Place' = i + 1 /\ Holding' = TRUE
    BY <1>4, <1>10, <1>11, <2>1 DEF Place, Holding
  <2>3. Len(Pairs) = n
    BY <1>1, <1>2, ViewIs
  <2>4. JP!Advance
    BY <1>5, <1>14, <2>2, <2>3 DEF JP!Advance
  <2>5. JP!Next
    BY <2>4 DEF JP!Next
  <2>. QED BY <1>14, <2>5 DEF ObjectStep
<1>. QED BY <1>15, <1>16

\* What a removal that unlinks unlinks.
LEMMA UnlinksOne ==
  ASSUME ObjectInv, oitAt # "off", 0 < oit.idx, oit.idx <= oit.max,
         NEW ks, ks = KeysOf(obj), Lies(obj, ks), NEW n \in Nat, n = obj.len, Len(ks) = n
  PROVE  /\ oitAt = "at" => Unlinks
         /\ Unlinks => \E i \in 1 .. n :
              /\ oit.cur = Round(ks, i) /\ oit.pre = Round(ks, i - 1)
              /\ oitAt = "at" => i = oit.idx
              /\ (IF oit.idx = oit.max THEN oit.pre ELSE obj.ptr)
                 = (IF i = n THEN oit.pre ELSE obj.ptr)
<1>1. PICK x \in 1 .. n : x = oit.idx /\ oit.max = n /\ n > 0
  BY IterIs
<1>2. obj.ptr = ks[n] /\ \A i, j \in 1 .. n : ks[i] = ks[j] => i = j
  BY <1>1 DEF Lies, Distinct
<1>3. \A i \in 1 .. n : Round(ks, i) = ks[i]
  BY LiesIs
<1>4. oitAt = "at" => oit.cur = ks[x] /\ oit.pre = Round(ks, x - 1)
  BY <1>1, <1>3, IterIs
<1>5. ASSUME oitAt = "at" PROVE Unlinks
  <2>1. x - 1 \in 0 .. n /\ (x - 1) + 1 = x
    BY <1>1
  <2>2. KeyAfter(obj, Round(ks, x - 1)) = Round(ks, x)
    BY <1>1, <2>1, RoundIs
  <2>3. x = n \/ obj.ptr # oit.cur
    BY <1>1, <1>2, <1>4, <1>5
  <2>4. x = n => obj.ptr = oit.cur
    BY <1>2, <1>4, <1>5
  <2>. QED BY <1>1, <1>3, <1>4, <1>5, <2>2, <2>3, <2>4 DEF Unlinks
<1>6. ASSUME Unlinks
      PROVE  \E i \in 1 .. n :
               /\ oit.cur = Round(ks, i) /\ oit.pre = Round(ks, i - 1)
               /\ oitAt = "at" => i = oit.idx
               /\ (IF oit.idx = oit.max THEN oit.pre ELSE obj.ptr)
                  = (IF i = n THEN oit.pre ELSE obj.ptr)
  <2>1. PICK d \in 0 .. n : oit.pre = Round(ks, d)
    BY <1>1, IterIs
  <2>2. KeyAfter(obj, oit.pre) = Round(ks, d + 1)
    BY <1>1, <2>1, RoundIs
  <2>3. PICK i \in 1 .. n : Round(ks, d + 1) = Round(ks, i) /\ Round(ks, d) = Round(ks, i - 1)
    <3>1. d \in 0 .. (2 * n - 1)
      BY <1>1
    <3>. QED BY <1>1, <3>1, RoundAgain
  <2>4. oit.cur = Round(ks, i) /\ oit.cur = ks[i] /\ oit.pre = Round(ks, i - 1)
    BY <1>3, <1>6, <2>1, <2>2, <2>3 DEF Unlinks
  <2>5. oitAt = "at" => i = oit.idx
    BY <1>1, <1>2, <1>4, <2>4
  <2>6. oit.idx = oit.max => obj.ptr \in {oit.pre, oit.cur}
    BY <1>6 DEF Unlinks
  <2>7. oit.idx # oit.max => obj.ptr # oit.cur
    BY <1>6 DEF Unlinks
  <2>8. obj.ptr = oit.cur <=> i = n
    BY <1>1, <1>2, <2>4
  <2>9. (IF oit.idx = oit.max THEN oit.pre ELSE obj.ptr)
        = (IF i = n THEN oit.pre ELSE obj.ptr)
    BY <2>6, <2>7, <2>8
  <2>. QED BY <2>4, <2>5, <2>9
<1>. QED BY <1>5, <1>6

LEMMA IterRemoveSteps ==
  ASSUME ObjectInv, ObjIterRemove
  PROVE  ObjectStep
<1>1. PICK ks : ks = KeysOf(obj) /\ Lies(obj, ks) /\ str \in Strings /\ body \in Bodies
  BY DEF ObjectInv
<1>2. PICK n \in Nat : n = obj.len /\ Len(ks) = n /\ ks \in Seq(Keys)
  BY <1>1, LiesIs DEF Lies
<1>3. /\ oitAt # "off" /\ 0 < oit.idx /\ oit.idx <= oit.max
      /\ oitAt' = IF ~Unlinks THEN "spoilt" ELSE IF oitAt = "at" THEN "between" ELSE "astray"
      /\ obj' = CutOut(obj, oit) /\ str' = str /\ body' = body /\ oit' = SteppedBack(oit)
  BY DEF ObjIterRemove
<1>4. PICK x \in 1 .. n : x = oit.idx /\ oit \in IterType /\ oit.max = n /\ n > 0
  BY <1>1, <1>2, <1>3, IterIs
<1>5. oitAt \in {"at", "between", "astray"}
  BY <1>1, <1>2, <1>3, IterIs
<1>6. oitAt # "at" => Place \in {x, -2} /\ Holding = FALSE
  BY <1>4, <1>5 DEF Place, Holding
<1>7. oitAt # "at" => JP!Lost
  <2>1. \A y : y \in {x, -2} => y > 0 \/ y = -2
    OBVIOUS
  <2>. QED BY <1>6, <2>1 DEF JP!Lost, JP!Astray
<1>8. CASE ~Unlinks
  <2>1. oitAt # "at"
    BY <1>1, <1>2, <1>3, <1>8, UnlinksOne
  <2>2. oitAt' = "spoilt"
    BY <1>3, <1>8
  <2>3. Place' = -3 /\ Holding' = FALSE
    BY <2>2 DEF Place, Holding
  <2>4. JP!Break
    BY <1>7, <2>1, <2>3 DEF JP!Break, JP!Broken
  <2>5. JP!Next
    BY <2>4 DEF JP!Next
  <2>. QED BY <2>2, <2>5 DEF ObjectStep
<1>9. CASE Unlinks
  <2>1. PICK i \in 1 .. n :
          /\ oit.cur = Round(ks, i) /\ oit.pre = Round(ks, i - 1)
          /\ oitAt = "at" => i = x
          /\ (IF oit.idx = oit.max THEN oit.pre ELSE obj.ptr)
             = (IF i = n THEN oit.pre ELSE obj.ptr)
    BY <1>1, <1>2, <1>3, <1>4, <1>9, UnlinksOne
  <2>2. PICK h \in 0 .. n, y \in 0 .. n :
          /\ h = i - 1 /\ h + 1 = i /\ y = x - 1 /\ h \in 0 .. (n - 1) /\ y \in 0 .. (n - 1)
    BY <1>4
  <2>3. /\ Round(ks, h) \in Places /\ Round(ks, h) \in Keys /\ obj.next[Round(ks, h)] \in Vals
        /\ Round(ks, i + 1) \in Keys /\ KeyAfter(obj, Round(ks, i)) = Round(ks, i + 1)
    <3>1. i \in 0 .. n
      OBVIOUS
    <3>. QED BY <1>1, <1>2, <1>4, <3>1, RoundIs
  <2>4. oit.cur = Round(ks, i) /\ oit.pre = Round(ks, h)
    BY <2>1, <2>2
  <2>5. PICK oo : oo = CutOut(obj, oit)
    OBVIOUS
  <2>6. oo = [next |-> [obj.next EXCEPT ![obj.next[Round(ks, h)]] = Round(ks, i + 1)],
              ptr |-> IF i = n THEN Round(ks, h) ELSE obj.ptr, len |-> n - 1]
    <3>1. (IF oit.idx = oit.max THEN oit.pre ELSE obj.ptr)
          = (IF i = n THEN Round(ks, h) ELSE obj.ptr)
      BY <2>1, <2>4
    <3>2. oit.max - 1 = n - 1
      BY <1>4
    <3>. QED BY <2>3, <2>4, <2>5, <3>1, <3>2 DEF CutOut
  <2>7. PICK t : t = RemoveAt(ks, i)
    OBVIOUS
  <2>8. Lies(oo, t) /\ PairsOf(oo, t, str, body) = RemoveAt(PairsOf(obj, ks, str, body), i)
    <3>1. PICK o : o = obj
      OBVIOUS
    <3>2. o.next \in [Elems -> Elems] /\ o.ptr \in Elems \cup {"none"}
      BY <1>1, <3>1 DEF Lies, ObjType
    <3>3. /\ oo.next = [o.next EXCEPT ![o.next[Round(ks, h)]] = Round(ks, i + 1)]
          /\ oo.ptr = (IF i = n THEN Round(ks, h) ELSE o.ptr) /\ oo.len = n - 1
      BY <2>6, <3>1
    <3>4. Round(ks, h) \in Elems /\ Round(ks, i + 1) \in Elems /\ n - 1 \in Nat
      BY <2>3 DEF Elems
    <3>5. oo.next \in [Elems -> Elems]
      BY <3>2, <3>3, <3>4
    <3>6. oo \in ObjType
      BY <2>6, <3>1, <3>2, <3>3, <3>4, <3>5 DEF ObjType
    <3>7. \A z \in Elems : oo.next[z] = IF z = o.next[Round(ks, i - 1)] THEN Round(ks, i + 1)
                                        ELSE o.next[z]
      BY <2>2, <3>2, <3>3
    <3>8. oo.len = o.len - 1 /\ oo.ptr = (IF i = o.len THEN Round(ks, i - 1) ELSE o.ptr)
      BY <1>2, <2>2, <3>1, <3>3
    <3>9. Lies(o, ks) /\ i \in 1 .. o.len
      BY <1>1, <1>2, <3>1
    <3>10. /\ Lies(oo, RemoveAt(ks, i))
           /\ \A s \in Strings, b \in Bodies :
                PairsOf(oo, RemoveAt(ks, i), s, b) = RemoveAt(PairsOf(o, ks, s, b), i)
      BY ONLY <3>6, <3>7, <3>8, <3>9, PairCut
    <3>. QED BY <1>1, <2>7, <3>1, <3>10
  <2>9. n - 1 > 0 => Round(t, h) = Round(ks, h)
    <3>1. CASE i < n
      <4>1. i \in 1 .. (Len(ks) - 1)
        BY <1>2, <3>1
      <4>2. Round(RemoveAt(ks, i), i - 1) = Round(ks, i - 1)
        BY <1>2, <4>1, WalkAfterCut
      <4>. QED BY <2>2, <2>7, <4>2
    <3>2. CASE i = n /\ n - 1 > 0
      <4>1. /\ Len(t) = Len(ks) - 1
            /\ \A k \in 1 .. (Len(ks) - 1) : t[k] = IF k < i THEN ks[k] ELSE ks[k + 1]
        BY <1>2, <2>7, RemovedIs
      <4>2. h = n - 1 /\ h \in 1 .. (Len(ks) - 1) /\ h < i /\ h # 0 /\ ~(h > n - 1) /\ ~(h > n)
        <5>1. h = n - 1 /\ h < n /\ h # 0 /\ h \in 1 .. (n - 1)
          BY <2>2, <3>2
        <5>2. ~(h > n - 1) /\ ~(h > n)
          BY <5>1
        <5>. QED BY <1>2, <3>2, <5>1, <5>2
      <4>3. t[h] = ks[h]
        BY <4>1, <4>2
      <4>. QED BY <1>2, <4>1, <4>2, <4>3 DEF Round
    <3>. QED BY <3>1, <3>2
  <2>10. PICK r \in Places : r = Round(ks, h)
    BY <2>3
  <2>11. PICK it : it = [oit EXCEPT !.idx = y, !.max = n - 1, !.cur = r] /\ it = oit'
    <3>1. SteppedBack(oit) = [oit EXCEPT !.idx = oit.idx - 1, !.max = oit.max - 1, !.cur = oit.pre]
      BY <1>4 DEF SteppedBack, IterType
    <3>2. oit.idx - 1 = y /\ oit.max - 1 = n - 1 /\ oit.pre = r
      BY <1>4, <2>2, <2>4, <2>10
    <3>. QED BY <1>3, <3>1, <3>2
  <2>12. /\ it \in IterType /\ it.idx = y /\ it.max = n - 1 /\ it.cur = r
         /\ it.pre = r
    <3>1. y \in Int /\ n - 1 \in Int
      OBVIOUS
    <3>2. it = MovedBack(oit, y, n - 1, r)
      BY <2>11 DEF MovedBack
    <3>3. it \in IterType /\ it.idx = y /\ it.max = n - 1 /\ it.pre = oit.pre /\ it.cur = r
      BY ONLY <1>4, <2>10, <3>1, <3>2, IterMovedBack
    <3>. QED BY <2>4, <2>10, <3>3
  <2>13. KeysOf(oo) = t
    BY <2>8, KeysAre
  <2>14. oo.len = n - 1 /\ y \in 0 .. oo.len /\ h \in 0 .. oo.len
    BY <2>2, <2>6
  <2>15. IterThere(oo, it)
    BY <2>9, <2>10, <2>12, <2>13, <2>14 DEF IterThere
  <2>16. oitAt = "at" => IterLies(oo, it, "between")
    <3>1. oitAt = "at" => y = h
      BY <2>1, <2>2
    <3>. QED BY <2>9, <2>10, <2>12, <2>13, <2>14, <3>1 DEF IterLies
  <2>17. obj' = oo /\ oit' = it
    BY <1>3, <2>5, <2>11
  <2>18. oitAt' = IF oitAt = "at" THEN "between" ELSE "astray"
    BY <1>3, <1>9
  <2>19. ObjectInv'
    <3>1. Lies(obj', KeysOf(obj')) /\ str' \in Strings /\ body' \in Bodies
      BY <1>1, <1>3, <2>8, <2>13, <2>17
    <3>2. IterThere(obj', oit')
      BY <2>15, <2>17
    <3>3. oitAt' # "astray" => oitAt' = "between" /\ IterLies(obj', oit', "between")
      BY <2>16, <2>17, <2>18
    <3>. QED BY <2>18, <3>1, <3>2, <3>3 DEF ObjectInv
  <2>20. Pairs' = PairsOf(oo, t, str, body)
    <3>1. Lies(obj', t)
      BY <2>8, <2>17
    <3>2. Pairs' = PairsOf(obj', t, str', body')
      BY <3>1, PairsAreThese DEF Pairs, KeyAt
    <3>. QED BY <1>3, <2>17, <3>2
  <2>21. Pairs = PairsOf(obj, ks, str, body) /\ Len(Pairs) = n
    BY <1>1, <1>2, ViewIs
  <2>22. Pairs' = JP!RemoveAt(Pairs, i)
    BY <2>8, <2>20, <2>21 DEF JP!RemoveAt, RemoveAt
  <2>23. CASE oitAt = "at"
    <3>1. Place = i /\ Place' = i - 1 /\ Holding = TRUE /\ Holding' = FALSE
      BY <1>4, <2>1, <2>2, <2>12, <2>17, <2>18, <2>23 DEF Place, Holding
    <3>2. JP!TakeOut
      BY <2>22, <3>1 DEF JP!TakeOut
    <3>3. JP!Next
      BY <3>2 DEF JP!Next
    <3>. QED BY <2>19, <3>3 DEF ObjectStep
  <2>24. CASE oitAt # "at"
    <3>1. Place' = -2 /\ Holding' = FALSE
      BY <2>18, <2>24 DEF Place, Holding
    <3>2. JP!TakeOutOther(i)
      BY <1>7, <2>22, <2>24, <3>1 DEF JP!TakeOutOther, JP!Astray
    <3>3. JP!Next
      BY <2>21, <3>2 DEF JP!Next
    <3>. QED BY <2>19, <3>3 DEF ObjectStep
  <2>. QED BY <2>23, <2>24
<1>. QED BY <1>8, <1>9

LEMMA IterGetnSteps ==
  ASSUME ObjectInv, NEW name \in Names, ObjIterGetn(name)
  PROVE  ObjectStep
<1>. DEFINE found == {i \in 1 .. oit.max : str[KeyAhead(obj, oit.cur, i)] = name}
            least == CHOOSE i \in found : \A j \in found : i <= j
<1>1. /\ oitAt # "off" /\ found # {} /\ obj' = obj /\ str' = str /\ body' = body
      /\ oitAt' = IF oitAt = "astray" \/ oit.idx + least > oit.max THEN "astray" ELSE "at"
      /\ oit' = [oit EXCEPT !.idx = IF @ + least > oit.max THEN @ + least - oit.max - 1
                                    ELSE @ + least,
                            !.pre = KeyAhead(obj, oit.cur, least - 1),
                            !.cur = KeyAhead(obj, oit.cur, least)]
  BY DEF ObjIterGetn
<1>2. PICK ks : ks = KeysOf(obj) /\ Lies(obj, ks) /\ str \in Strings /\ body \in Bodies
  BY DEF ObjectInv
<1>3. PICK n \in Nat : n = obj.len /\ Len(ks) = n
  BY <1>2, LiesIs
<1>4. PICK i \in 0 .. n : i = oit.idx /\ oit \in IterType /\ oit.max = n
  BY <1>1, <1>2, <1>3, IterIs
<1>5. n > 0
  BY <1>1, <1>4
<1>6. PICK c \in 0 .. n : oit.cur = Round(ks, c) /\ (oitAt # "astray" => c = i)
  BY <1>1, <1>2, <1>3, <1>4, <1>5, IterIs
<1>7. \A m \in 0 .. n : KeyAhead(obj, oit.cur, m) = Round(ks, c + m)
  <2>1. ASSUME NEW m \in 0 .. n PROVE KeyAhead(obj, Round(ks, c), m) = Round(ks, c + m)
    <3>1. c \in Nat /\ m \in Nat /\ c + m <= 2 * n
      BY <1>3
    <3>. QED BY <1>2, <1>3, <1>5, <3>1, AheadIs
  <2>. QED BY <1>6, <2>1
<1>8. found = {j \in 1 .. n : str[Round(ks, c + j)] = name}
  <2>1. \A j \in 1 .. n : KeyAhead(obj, oit.cur, j) = Round(ks, c + j)
    BY <1>7
  <2>2. found = {j \in 1 .. n : str[KeyAhead(obj, oit.cur, j)] = name}
    BY <1>4
  <2>. QED BY ONLY <2>1, <2>2
<1>9. found \subseteq Nat
  BY <1>8
<1>10. least \in found /\ \A j \in found : least <= j
  <2>. HIDE DEF found
  <2>1. \E m \in found : \A j \in found : m <= j
    BY <1>1, <1>9, LeastNumber
  <2>. QED BY <2>1
<1>. HIDE DEF found, least
<1>11. PICK l \in 1 .. n : l = least /\ l \in found
  BY <1>8, <1>10
<1>12. PICK g \in 0 .. (2 * n - 1) : g + 1 = c + l /\ g = c + (l - 1) /\ l - 1 \in 0 .. n
  <2>1. c + l - 1 \in 0 .. (2 * n - 1)
    OBVIOUS
  <2>. QED BY <2>1
<1>13. PICK e \in 1 .. n : /\ Round(ks, g + 1) = Round(ks, e) /\ Round(ks, e) = ks[e]
                           /\ Round(ks, g) = Round(ks, e - 1)
  BY <1>3, <1>5, RoundAgain
<1>14. PICK a \in Places, b \in Places : a = Round(ks, e - 1) /\ b = Round(ks, e)
  <2>1. e - 1 \in 0 .. n /\ e \in 0 .. n
    OBVIOUS
  <2>. QED BY <1>2, <1>3, <1>5, <2>1, RoundIs
<1>15. PICK p \in 0 .. n : p = (IF i + l > n THEN i + l - n - 1 ELSE i + l)
  <2>1. (IF i + l > n THEN i + l - n - 1 ELSE i + l) \in 0 .. n
    OBVIOUS
  <2>. QED BY <2>1
<1>16. PICK it : it = [oit EXCEPT !.idx = p, !.pre = a, !.cur = b] /\ it = oit'
  <2>1. KeyAhead(obj, oit.cur, least) = b /\ KeyAhead(obj, oit.cur, least - 1) = a
    <3>1. l \in 0 .. n
      OBVIOUS
    <3>. QED BY <1>7, <1>11, <1>12, <1>13, <1>14, <3>1
  <2>2. oit' = [oit EXCEPT !.idx = IF oit.idx + least > oit.max
                                   THEN oit.idx + least - oit.max - 1 ELSE oit.idx + least,
                           !.pre = KeyAhead(obj, oit.cur, least - 1),
                           !.cur = KeyAhead(obj, oit.cur, least)]
    BY <1>1, <1>4 DEF IterType
  <2>3. (IF oit.idx + least > oit.max THEN oit.idx + least - oit.max - 1
         ELSE oit.idx + least) = p
    BY <1>4, <1>11, <1>15
  <2>. QED BY <2>1, <2>2, <2>3
<1>17. it \in IterType /\ it.idx = p /\ it.max = n /\ it.pre = a /\ it.cur = b
  <2>1. p \in Int
    OBVIOUS
  <2>2. it \in IterType /\ it.idx = p /\ it.max = oit.max /\ it.pre = a /\ it.cur = b
    <3>1. it = Moved(oit, p, a, b)
      BY <1>16 DEF Moved
    <3>2. oit \in IterType /\ a \in Places /\ b \in Places
      BY <1>4, <1>14
    <3>. QED BY ONLY <2>1, <3>1, <3>2, IterMoved
  <2>. QED BY <1>4, <2>2
<1>18. IterThere(obj, it)
  <2>1. e \in 0 .. n /\ e - 1 \in 0 .. n
    OBVIOUS
  <2>. QED BY <1>2, <1>3, <1>14, <1>17, <2>1 DEF IterThere
<1>19. oitAt' # "astray" => oitAt' = "at" /\ oitAt # "astray" /\ ~(i + l > n) /\ p = i + l /\ p > 0
  <2>1. oitAt' # "astray" => oitAt' = "at" /\ oitAt # "astray" /\ ~(i + l > n)
    BY <1>1, <1>4, <1>11
  <2>2. ~(i + l > n) => p = i + l /\ p > 0
    BY <1>15
  <2>. QED BY <2>1, <2>2
<1>20. oitAt' # "astray" => IterLies(obj, it, "at")
  <2>1. ASSUME oitAt' # "astray" PROVE b = Round(ks, p) /\ a = Round(ks, p - 1)
    <3>1. g + 1 = p /\ g = p - 1
      BY <1>6, <1>12, <1>19, <2>1
    <3>. QED BY <1>13, <1>14, <3>1
  <2>. QED BY <1>2, <1>3, <1>17, <1>19, <2>1 DEF IterLies
<1>21. oitAt' \in {"at", "astray"}
  BY <1>1
<1>22. ObjectInv' /\ Pairs' = Pairs
  BY <1>1, <1>16, <1>18, <1>19, <1>20, <1>21, LeavesAlone
<1>23. CASE oitAt = "astray"
  <2>1. oitAt' = "astray"
    BY <1>1, <1>23
  <2>2. Place = -2 /\ Place' = -2 /\ Holding = FALSE /\ Holding' = FALSE
    BY <1>23, <2>1 DEF Place, Holding
  <2>. QED BY <1>22, <2>2 DEF ObjectStep
<1>24. CASE oitAt # "astray"
  <2>1. c = i /\ oitAt \in {"at", "between"}
    BY <1>1, <1>2, <1>3, <1>6, <1>24, IterIs
  <2>2. Place = i /\ Place >= 0
    BY <1>4, <2>1 DEF Place
  <2>3. Len(Pairs) = n /\ \A j \in 1 .. n : Pairs[j][1] = str[ks[j]]
    BY <1>2, <1>3, ViewIs
  <2>4. JP!At(name) = {j \in 1 .. n : str[ks[j]] = name}
    BY <2>3 DEF JP!At
  <2>5. e \in JP!At(name)
    BY <1>8, <1>11, <1>12, <1>13, <2>4
  <2>6. ASSUME NEW j \in JP!At(name), j > i PROVE i + l <= j /\ i + l <= n
    <3>1. j \in 1 .. n /\ str[ks[j]] = name
      BY <2>4
    <3>2. PICK d \in 1 .. n : d = j - i /\ i + d = j
      BY <2>6, <3>1
    <3>3. Round(ks, c + d) = ks[j]
      <4>1. (IF j = 0 THEN n ELSE IF j > n THEN j - n ELSE j) = j
        BY <3>1
      <4>. QED BY <1>3, <2>1, <3>2, <4>1 DEF Round
    <3>4. d \in found
      BY <1>8, <3>1, <3>3
    <3>5. l <= d
      BY <1>10, <1>11, <3>4
    <3>. QED BY <3>1, <3>2, <3>5
  <2>7. CASE i + l > n
    <3>1. oitAt' = "astray"
      BY <1>1, <1>4, <1>11, <2>7
    <3>2. Place' = -2 /\ Holding' = FALSE
      BY <3>1 DEF Place, Holding
    <3>3. \A j \in JP!At(name) : j <= Place
      <4>1. ASSUME NEW j \in JP!At(name) PROVE j <= i
        <5>1. j \in 1 .. n
          BY <2>4
        <5>. QED BY <2>6, <2>7, <5>1
      <4>. QED BY <2>2, <4>1
    <3>4. JP!Find(name)
      BY <1>22, <2>2, <2>5, <3>2, <3>3 DEF JP!Find, JP!Astray
    <3>5. JP!Next
      BY <3>4 DEF JP!Next
    <3>. QED BY <1>22, <3>5 DEF ObjectStep
  <2>8. CASE ~(i + l > n)
    <3>1. oitAt' = "at" /\ p = i + l
      BY <1>1, <1>4, <1>11, <1>15, <1>24, <2>8
    <3>2. Place' = p /\ Holding' = TRUE
      BY <1>16, <1>17, <3>1 DEF Place, Holding
    <3>3. e = p
      <4>1. (IF p = 0 THEN n ELSE IF p > n THEN p - n ELSE p) = p /\ p \in 1 .. n
        BY <2>8, <3>1
      <4>2. Round(ks, g + 1) = ks[p]
        BY <1>3, <1>12, <2>1, <3>1, <4>1 DEF Round
      <4>3. ks[p] = ks[e]
        BY <1>13, <4>2
      <4>. QED BY <1>2, <1>3, <4>1, <4>3 DEF Lies, Distinct
    <3>4. p > i /\ \A j \in JP!At(name) : j > i => p <= j
      BY <2>6, <3>1
    <3>5. JP!Find(name)
      BY <1>22, <2>2, <2>5, <3>2, <3>3, <3>4 DEF JP!Find
    <3>6. JP!Next
      BY <3>5 DEF JP!Next
    <3>. QED BY <1>22, <3>6 DEF ObjectStep
  <2>. QED BY <2>7, <2>8
<1>. QED BY <1>23, <1>24

-----------------------------------------------------------------------------
(* An object is a sequence of pairs.                                         *)

LEMMA ObjectInitially ==
  ASSUME ObjectInit
  PROVE  ObjectInv /\ Dropped /\ Pairs = << >>
<1>1. PICK nx : nx = [x \in Keys \cup Vals |-> x]
  OBVIOUS
<1>2. nx \in [Elems -> Elems]
  BY <1>1 DEF Elems
<1>3. obj = [next |-> nx, ptr |-> "none", len |-> 0]
  BY <1>1 DEF ObjectInit
<1>4. obj \in ObjType /\ obj.len = 0
  BY <1>2, <1>3 DEF ObjType
<1>5. PICK kk \in Seq(Keys) : kk = << >> /\ Len(kk) = 0
  <2>1. << >> \in Seq(Keys) /\ Len(<< >>) = 0
    OBVIOUS
  <2>. QED BY <2>1
<1>6. Lies(obj, kk)
  <2>1. \A i \in 1 .. 0 : FALSE
    OBVIOUS
  <2>2. Distinct(kk)
    BY <1>5, <2>1 DEF Distinct
  <2>. QED BY <1>4, <1>5, <2>1, <2>2 DEF Lies
<1>7. /\ str \in Strings /\ body \in Bodies /\ oitAt = "off"
  BY DEF ObjectInit, Strings, Bodies
<1>8. KeysOf(obj) = kk
  BY <1>6, KeysAre
<1>9. ObjectInv
  BY <1>6, <1>7, <1>8 DEF ObjectInv
<1>10. Dropped
  BY <1>7 DEF Dropped, Place, Holding
<1>11. Pairs = PairsOf(obj, kk, str, body)
  BY <1>6, <1>9, ViewIs
<1>12. PairsOf(obj, kk, str, body) = << >>
  BY <1>5 DEF PairsOf
<1>. QED BY <1>9, <1>10, <1>11, <1>12

LEMMA ObjectSteps ==
  ASSUME ObjectSafe, [ObjectNext]_objectVars
  PROVE  ObjectSafe' /\ [JP!Next]_(JP!vars)
<1>1. ASSUME ObjectInv, ObjectEdit PROVE ObjectStep
  <2>1. ASSUME NEW k \in SpareKeys, NEW v \in SpareVals, AddNew(k, v) PROVE ObjectStep
    BY <1>1, <2>1, AddSteps
  <2>2. ASSUME NEW k \in SpareKeys, NEW v \in SpareVals, ObjPut(k, v) PROVE ObjectStep
    BY <1>1, <2>2, PutSteps
  <2>3. ASSUME NEW k \in SpareKeys, NEW v \in SpareVals, ObjReplace(k, v) PROVE ObjectStep
    BY <1>1, <2>3, ReplaceSteps
  <2>4. ASSUME NEW k \in SpareKeys, NEW v \in SpareVals, NEW idx \in 0 .. obj.len,
               ObjInsert(k, v, idx)
        PROVE  ObjectStep
    BY <1>1, <2>4, ObjInsertSteps
  <2>5. ASSUME NEW k \in SpareKeys, ObjPutNull(k) PROVE ObjectStep
    BY <1>1, <2>5, PutNullSteps
  <2>6. ASSUME NEW name \in Names, RemoveKey(name) PROVE ObjectStep
    BY <1>1, <2>6, RemoveKeySteps
  <2>7. ASSUME NEW name \in Names, RemoveStr(name) PROVE ObjectStep
    BY <1>1, <2>7, RemoveStrSteps
  <2>8. ASSUME NEW name \in Names, NEW new \in Names, ObjRename(name, new) PROVE ObjectStep
    BY <1>1, <2>8, RenameSteps
  <2>9. ASSUME NEW idx \in 0 .. obj.len, ObjRotate(idx) PROVE ObjectStep
    BY <1>1, <2>9, RotateSteps
  <2>10. ASSUME ObjClear PROVE ObjectStep
    BY <1>1, <2>10, ClearSteps
  <2>. QED BY ONLY <1>1, <2>1, <2>2, <2>3, <2>4, <2>5, <2>6, <2>7, <2>8, <2>9, <2>10 DEF ObjectEdit
<1>2. ASSUME ObjectInv, ObjectIterate PROVE ObjectStep
  <2>1. ASSUME NEW name \in Names, ObjIterGetn(name) PROVE ObjectStep
    BY <1>2, <2>1, IterGetnSteps
  <2>. QED BY <1>2, <2>1, IterInitSteps, IterNextSteps, IterRemoveSteps DEF ObjectIterate
<1>3. CASE UNCHANGED objectVars
  <2>1. obj' = obj /\ str' = str /\ body' = body /\ oitAt' = oitAt /\ oit' = oit
    BY <1>3 DEF objectVars
  <2>2. Pairs' = Pairs /\ Place' = Place /\ Holding' = Holding
    BY <2>1 DEF Pairs, KeyAt, Place, Holding
  <2>3. ObjectSafe'
    BY <2>1 DEF ObjectSafe, ObjectInv
  <2>. QED BY <2>2, <2>3 DEF JP!vars
<1>4. CASE ObjectNext
  <2>1. ObjectInv /\ (ObjectEdit \/ ObjectIterate)
    BY <1>4 DEF ObjectNext, ObjectSafe
  <2>2. ObjectStep
    BY <1>1, <1>2, <2>1
  <2>. QED BY <2>2 DEF ObjectStep, ObjectSafe, JP!vars
<1>. QED BY <1>3, <1>4

\* From its first key to its last an object is a sequence of pairs, whatever is
\* done to it, with as many keys and values as one likes: keys are put, replaced,
\* renamed and removed wherever they occur, and an iterator goes along the
\* pairs, finds keys behind it and removes the pair it has returned.  When a
\* search has gone around the end, or a pair is removed twice, what a removal
\* takes out is some pair, or it breaks the list; what follows that is not said.
THEOREM ObjectsArePairs == ObjectSpec => ImplementsPairs
<1>1. ObjectInit => ObjectSafe /\ Pairs = << >> /\ Place = JP!None /\ Holding = FALSE
  BY ObjectInitially DEF ObjectSafe, Dropped, JP!None
<1>2. ObjectSafe /\ [ObjectNext]_objectVars => ObjectSafe' /\ [JP!Next]_(JP!vars)
  BY ObjectSteps
<1>. QED BY <1>1, <1>2, PTL DEF ObjectSpec, ImplementsPairs, JP!Spec

=============================================================================
