---------------------------- MODULE PacketProofs ----------------------------
(***************************************************************************)
(* For digits and ints of every size: a varint is read as it was written;  *)
(* PacketRecv keeps PacketsWhole, whatever the packets are and however     *)
(* their bytes arrive; Packets keeps PacketReadBack and BuffersHold, for   *)
(* structs and buffers of every size; and Base64 keeps Base64Exact, for    *)
(* inputs of every length.                                                 *)
(***************************************************************************)
EXTENDS PacketRecv, Packets, Base64, NaturalRecursion, SequenceTheorems

-----------------------------------------------------------------------------
(* Division.                                                               *)

\* A number is its last digit and the others.
LEMMA DivMod ==
  ASSUME NEW n \in Nat, NEW b \in Nat \ {0}
  PROVE  /\ n \div b \in Nat /\ n % b \in 0..(b - 1)
         /\ n = b * (n \div b) + (n % b)
<1>1. n = b * (n \div b) + (n % b)
  BY Z3
<1>. QED BY <1>1

\* The parts of a number.
LEMMA Parts ==
  ASSUME NEW m \in Nat \ {0}, NEW x \in Nat, NEW r \in 0 .. (m - 1)
  PROVE  (x * m + r) \div m = x /\ (x * m + r) % m = r
<1>. DEFINE n == x * m + r
            d == n \div m
            e == n % m
<1>1. n \in Nat
  OBVIOUS
<1>2. d \in Nat /\ e \in 0 .. (m - 1) /\ n = m * d + e
  BY <1>1, DivMod
<1>. HIDE DEF d, e
<1>3. ~(x < d)
  <2>1. SUFFICES ASSUME x < d PROVE FALSE
    OBVIOUS
  <2>2. PICK t \in Nat : d = x + 1 + t
    <3>1. d - x - 1 \in Nat /\ d = x + 1 + (d - x - 1)
      BY <1>2, <2>1
    <3>. QED BY <3>1
  <2>3. m * d = m * x + m + m * t /\ m * t \in Nat
    BY <2>2
  <2>. QED BY <1>2, <2>3
<1>4. ~(d < x)
  <2>1. SUFFICES ASSUME d < x PROVE FALSE
    OBVIOUS
  <2>2. PICK t \in Nat : x = d + 1 + t
    <3>1. x - d - 1 \in Nat /\ x = d + 1 + (x - d - 1)
      BY <1>2, <2>1
    <3>. QED BY <3>1
  <2>3. x * m = m * d + m + m * t /\ m * t \in Nat
    BY <1>2, <2>2
  <2>. QED BY <1>2, <2>3
<1>5. d = x
  BY <1>2, <1>3, <1>4
<1>6. e = r
  BY <1>2, <1>5
<1>. QED BY <1>5, <1>6 DEF d, e

\* The last digit, marked or not.
LEMMA LastDigit ==
  ASSUME NEW n \in Nat
  PROVE  /\ n % Base \in 0..(Base - 1)
         /\ ((n % Base) + Base) % Base = n % Base
         /\ n < Base => n % Base = n
         /\ n >= Base => n \div Base \in Nat \ {0} /\ n \div Base < n
         /\ n = Base * (n \div Base) + (n % Base)
<1>. Base \in Nat \ {0, 1}
  BY VarintAssumption
<1>1. /\ n \div Base \in Nat /\ n % Base \in 0..(Base - 1)
      /\ n = Base * (n \div Base) + (n % Base)
  BY DivMod
<1>2. \A r \in Nat : r < Base => (r + Base) % Base = r /\ r % Base = r
  OBVIOUS
<1>3. ((n % Base) + Base) % Base = n % Base
  BY <1>1, <1>2
<1>4. n >= Base => n \div Base \in Nat \ {0} /\ n \div Base < n
  OBVIOUS
<1>. QED BY <1>1, <1>2, <1>3, <1>4

-----------------------------------------------------------------------------
(* The functions that are defined recursively.                             *)

Longer == {n \in Nat : n >= Base}
Others == [n \in Longer |-> n \div Base]

LEMMA OthersAreLess ==
  /\ Longer \in SUBSET Nat /\ Others \in [Longer -> Nat]
  /\ \A n \in Longer : Others[n] < n
BY LastDigit DEF Longer, Others

\* varint_size and varint_write go on with the other digits.
LEMMA SizeIs ==
  \A n \in Nat : Size[n] = IF n < Base THEN 1 ELSE 1 + Size[n \div Base]
<1>. DEFINE base == [n \in Nat \ Longer |-> 1]
            step == [p \in Longer \X Nat |-> 1 + p[2]]
            Eq(f) == f = [n \in Nat |-> IF n < Base THEN 1 ELSE 1 + f[n \div Base]]
<1>1. PICK f \in [Nat -> Nat] : Recursive(f, Longer, Others, base, step)
  <2>1. base \in [Nat \ Longer -> Nat] /\ step \in [Longer \X Nat -> Nat]
    OBVIOUS
  <2>. HIDE DEF base, step
  <2>. QED BY <2>1, OthersAreLess, RecursiveFunction
<1>2. ASSUME NEW n \in Nat
      PROVE  f[n] = IF n < Base THEN 1 ELSE 1 + f[n \div Base]
  <2>1. Base \in Nat
    BY VarintAssumption
  <2>2. CASE n < Base
    <3>1. n \notin Longer /\ base[n] = 1
      BY <2>1, <2>2 DEF Longer
    <3>. HIDE DEF base, step
    <3>. QED BY <1>1, <2>2, <3>1 DEF Recursive, ValueAt
  <2>3. CASE ~(n < Base)
    <3>1. n \in Longer /\ Others[n] = n \div Base /\ n \div Base \in Nat
      BY <2>1, <2>3, LastDigit DEF Longer, Others
    <3>2. f[n] = step[<<n, f[n \div Base]>>]
      BY <1>1, <3>1 DEF Recursive, ValueAt
    <3>. QED BY <2>3, <3>1, <3>2
  <2>. QED BY <2>2, <2>3
<1>3. Eq(f)
  BY <1>2
<1>4. Eq(Size)
  <2>1. Size = CHOOSE g : Eq(g)
    BY DEF Size
  <2>. HIDE DEF Eq
  <2>. QED BY <1>3, <2>1
<1>. QED BY <1>4

LEMMA EncodeIs ==
  \A n \in Nat : Encode[n] = IF n < Base THEN <<n>>
                             ELSE <<(n % Base) + Base>> \o Encode[n \div Base]
<1>. DEFINE base == [n \in Nat \ Longer |-> <<n>>]
            step == [p \in Longer \X Seq(Bytes) |-> <<(p[1] % Base) + Base>> \o p[2]]
            Eq(f) == f = [n \in Nat |-> IF n < Base THEN <<n>>
                                        ELSE <<(n % Base) + Base>> \o f[n \div Base]]
<1>1. PICK f \in [Nat -> Seq(Bytes)] : Recursive(f, Longer, Others, base, step)
  <2>1. ASSUME NEW n \in Nat \ Longer PROVE <<n>> \in Seq(Bytes)
    <3>1. n \in Bytes
      BY VarintAssumption DEF Longer, Bytes
    <3>. QED BY <3>1
  <2>2. ASSUME NEW p \in Longer \X Seq(Bytes)
        PROVE  <<(p[1] % Base) + Base>> \o p[2] \in Seq(Bytes)
    <3>1. (p[1] % Base) + Base \in Bytes
      <4>1. PICK n \in Nat : n = p[1]
        BY DEF Longer
      <4>2. n % Base \in 0..(Base - 1) /\ Base \in Nat
        BY LastDigit, VarintAssumption
      <4>3. (n % Base) + Base \in Bytes
        BY <4>2 DEF Bytes
      <4>. QED BY <4>1, <4>3
    <3>2. <<(p[1] % Base) + Base>> \in Seq(Bytes)
      BY <3>1
    <3>. QED BY <3>2, ConcatProperties
  <2>3. base \in [Nat \ Longer -> Seq(Bytes)] /\ step \in [Longer \X Seq(Bytes) -> Seq(Bytes)]
    BY <2>1, <2>2
  <2>. HIDE DEF base, step
  <2>. QED BY <2>3, OthersAreLess, RecursiveFunction
<1>2. ASSUME NEW n \in Nat
      PROVE  f[n] = IF n < Base THEN <<n>> ELSE <<(n % Base) + Base>> \o f[n \div Base]
  <2>1. Base \in Nat
    BY VarintAssumption
  <2>2. CASE n < Base
    <3>1. n \in Nat \ Longer
      BY <2>1, <2>2 DEF Longer
    <3>2. base[n] = <<n>>
      BY <3>1
    <3>. HIDE DEF base, step
    <3>. QED BY <1>1, <2>2, <3>1, <3>2 DEF Recursive, ValueAt
  <2>3. CASE ~(n < Base)
    <3>1. n \in Longer /\ Others[n] = n \div Base /\ n \div Base \in Nat
      BY <2>1, <2>3, LastDigit DEF Longer, Others
    <3>2. f[n] = step[<<n, f[n \div Base]>>]
      BY <1>1, <3>1 DEF Recursive, ValueAt
    <3>3. step[<<n, f[n \div Base]>>] = <<(n % Base) + Base>> \o f[n \div Base]
      BY <3>1
    <3>. QED BY <2>3, <3>2, <3>3
  <2>. QED BY <2>2, <2>3
<1>3. Eq(f)
  BY <1>2
<1>4. Eq(Encode)
  <2>1. Encode = CHOOSE g : Eq(g)
    BY DEF Encode
  <2>. HIDE DEF Eq
  <2>. QED BY <1>3, <2>1
<1>5. PICK g : g = Encode
  OBVIOUS
<1>6. g = [n \in Nat |-> IF n < Base THEN <<n>>
                        ELSE <<(n % Base) + Base>> \o g[n \div Base]]
  BY <1>4, <1>5
<1>7. \A n \in Nat : g[n] = IF n < Base THEN <<n>>
                            ELSE <<(n % Base) + Base>> \o g[n \div Base]
  BY <1>6, Zenon
<1>. QED BY <1>5, <1>7

\* The weight of a digit grows by the base.
LEMMA WeightIs ==
  /\ Weight[0] = 1
  /\ \A n \in Nat : Weight[n + 1] = Base * Weight[n]
<1>. DEFINE Positive == Nat \ {0}
            back == [n \in Positive |-> n - 1]
            base == [n \in Nat \ Positive |-> 1]
            step == [p \in Positive \X Nat |-> Base * p[2]]
            Eq(f) == f = [n \in Nat |-> IF n = 0 THEN 1 ELSE Base * f[n - 1]]
<1>1. PICK f \in [Nat -> Nat] : Recursive(f, Positive, back, base, step)
  <2>1. base \in [Nat \ Positive -> Nat] /\ step \in [Positive \X Nat -> Nat]
    BY VarintAssumption
  <2>2. /\ Positive \in SUBSET Nat /\ back \in [Positive -> Nat]
        /\ \A n \in Positive : back[n] < n
    OBVIOUS
  <2>. HIDE DEF Positive, back, base, step
  <2>. QED BY <2>1, <2>2, RecursiveFunction
<1>2. ASSUME NEW n \in Nat
      PROVE  f[n] = IF n = 0 THEN 1 ELSE Base * f[n - 1]
  <2>1. CASE n = 0
    <3>1. n \notin Positive /\ base[n] = 1
      BY <2>1
    <3>. HIDE DEF Positive, back, base, step
    <3>. QED BY <1>1, <2>1, <3>1 DEF Recursive, ValueAt
  <2>2. CASE n # 0
    <3>1. n \in Positive /\ back[n] = n - 1 /\ n - 1 \in Nat
      BY <2>2
    <3>2. f[n] = step[<<n, f[n - 1]>>]
      BY <1>1, <3>1 DEF Recursive, ValueAt
    <3>. QED BY <2>2, <3>1, <3>2
  <2>. QED BY <2>1, <2>2
<1>3. Eq(f)
  BY <1>2
<1>4. Eq(Weight)
  <2>1. Weight = CHOOSE g : Eq(g)
    BY DEF Weight
  <2>. HIDE DEF Eq
  <2>. QED BY <1>3, <2>1
<1>5. \A n \in Nat : Weight[n] = IF n = 0 THEN 1 ELSE Base * Weight[n - 1]
  BY <1>4, Zenon
<1>6. ASSUME NEW n \in Nat PROVE Weight[n + 1] = Base * Weight[n]
  <2>1. n + 1 \in Nat /\ n + 1 # 0 /\ (n + 1) - 1 = n
    OBVIOUS
  <2>. QED BY <1>5, <2>1
<1>. QED BY <1>5, <1>6

-----------------------------------------------------------------------------
(* What varint_write writes.                                               *)

\* Every byte but the last is marked, and there are as many as varint_size says.
Written(n) ==
  /\ Size[n] \in Nat \ {0}
  /\ Encode[n] \in Seq(Bytes)
  /\ Len(Encode[n]) = Size[n]
  /\ \A k \in 1..(Size[n] - 1) : Encode[n][k] >= Base
  /\ Encode[n][Size[n]] < Base

LEMMA EncodeWritten == \A n \in Nat : Written(n)
<1>. DEFINE T == {n \in Nat : ~Written(n)}
<1>. SUFFICES ASSUME T # {} PROVE FALSE
  OBVIOUS
<1>1. PICK n \in T : \A m \in T : n <= m
  BY LeastNumber
<1>. n \in Nat /\ ~Written(n)
  OBVIOUS
<1>2. Base \in Nat \ {0, 1}
  BY VarintAssumption
<1>3. CASE n < Base
  <2>1. Size[n] = 1 /\ Encode[n] = <<n>>
    BY <1>3, SizeIs, EncodeIs
  <2>2. n \in Bytes
    BY <1>2, <1>3 DEF Bytes
  <2>. QED BY <1>3, <2>1, <2>2 DEF Written
<1>4. CASE n >= Base
  <2>. DEFINE m == n \div Base
              s == Encode[m]
              d == (n % Base) + Base
  <2>1. m \in Nat /\ m < n /\ d \in Bytes /\ d >= Base
    <3>1. n % Base \in 0..(Base - 1)
      BY LastDigit
    <3>2. d \in Bytes /\ d >= Base
      BY <1>2, <3>1 DEF Bytes
    <3>. QED BY <1>4, <3>2, LastDigit
  <2>2. Written(m)
    BY <1>1, <2>1
  <2>3. Size[n] = 1 + Size[m] /\ Encode[n] = <<d>> \o s
    <3>1. ~(n < Base)
      BY <1>2, <1>4
    <3>2. Size[n] = 1 + Size[m]
      BY <3>1, SizeIs
    <3>3. Encode[n] = <<d>> \o s
      BY <3>1, EncodeIs
    <3>. QED BY <3>2, <3>3
  <2>. HIDE DEF m, d
  <2>4. /\ s \in Seq(Bytes) /\ Len(s) = Size[m] /\ Size[m] \in Nat \ {0}
        /\ \A k \in 1..(Size[m] - 1) : s[k] >= Base
        /\ s[Size[m]] < Base
    BY <2>2 DEF Written
  <2>. HIDE DEF s
  <2>5. <<d>> \in Seq(Bytes) /\ Len(<<d>>) = 1 /\ <<d>>[1] = d
    BY <2>1
  <2>6. /\ Encode[n] \in Seq(Bytes) /\ Len(Encode[n]) = 1 + Size[m]
        /\ Encode[n][1] = d
        /\ \A k \in 2..(1 + Size[m]) : Encode[n][k] = s[k - 1]
    BY <2>3, <2>4, <2>5, ConcatProperties
  <2>. QED BY <2>1, <2>3, <2>4, <2>6, SMTT(20) DEF Written
<1>. QED BY <1>2, <1>3, <1>4

\* An int that is not negative takes no more digits than varint_read allows.
LEMMA WeightGrows ==
  /\ \A k \in Nat : Weight[k] \in Nat \ {0}
  /\ \A j, k \in Nat : j <= k => Weight[j] <= Weight[k]
<1>1. Base \in Nat \ {0, 1}
  BY VarintAssumption
<1>2. \A k \in Nat : Weight[k] \in Nat \ {0}
  <2>. DEFINE T == {k \in Nat : Weight[k] \notin Nat \ {0}}
  <2>. SUFFICES ASSUME T # {} PROVE FALSE
    OBVIOUS
  <2>1. PICK k \in T : \A m \in T : k <= m
    BY LeastNumber
  <2>2. k # 0
    BY WeightIs
  <2>3. k - 1 \in Nat /\ Weight[k - 1] \in Nat \ {0} /\ Weight[k] = Base * Weight[k - 1]
    BY <2>1, <2>2, WeightIs
  <2>. QED BY <1>1, <2>3
<1>3. ASSUME NEW j \in Nat
      PROVE  \A k \in Nat : j <= k => Weight[j] <= Weight[k]
  <2>. DEFINE T == {k \in Nat : j <= k /\ ~(Weight[j] <= Weight[k])}
  <2>. SUFFICES ASSUME T # {} PROVE FALSE
    OBVIOUS
  <2>1. PICK k \in T : \A m \in T : k <= m
    BY LeastNumber
  <2>2. k # j
    BY <1>2
  <2>3. k - 1 \in Nat /\ Weight[j] <= Weight[k - 1] /\ Weight[k] = Base * Weight[k - 1]
    BY <2>1, <2>2, WeightIs
  <2>4. Weight[k - 1] \in Nat \ {0} /\ Weight[j] \in Nat
    BY <1>2, <2>3
  <2>5. \A w \in Nat : w <= Base * w
    BY <1>1
  <2>6. Weight[k - 1] <= Weight[k] /\ Weight[k] \in Nat
    BY <1>2, <2>3, <2>4, <2>5
  <2>. QED BY <2>3, <2>4, <2>6
<1>. QED BY <1>2, <1>3

LEMMA SizeAllowed == \A n \in 0..IntMax : Size[n] <= Digits
<1>1. Base \in Nat \ {0, 1}
  BY VarintAssumption
<1>2. \A n \in Nat \ {0} : Weight[Size[n] - 1] <= n
  <2>. DEFINE T == {n \in Nat \ {0} : ~(Weight[Size[n] - 1] <= n)}
  <2>. SUFFICES ASSUME T # {} PROVE FALSE
    OBVIOUS
  <2>1. PICK n \in T : \A m \in T : n <= m
    BY LeastNumber
  <2>2. n >= Base
    BY <1>1, SizeIs, WeightIs
  <2>. DEFINE m == n \div Base
  <2>3. m \in Nat \ {0} /\ m < n /\ Base * m <= n
    <3>1. n % Base \in Nat /\ n = Base * m + (n % Base)
      <4>1. n % Base \in 0..(Base - 1)
        BY LastDigit
      <4>. QED BY <4>1, <1>1, LastDigit
    <3>2. m \in Nat \ {0} /\ m < n
      BY <2>2, LastDigit
    <3>3. Base * m \in Nat
      BY <1>1, <3>2
    <3>. HIDE DEF m
    <3>. QED BY <3>1, <3>2, <3>3
  <2>4. Size[n] = 1 + Size[m] /\ Size[m] \in Nat \ {0}
    BY <1>1, <2>2, <2>3, SizeIs, EncodeWritten DEF Written
  <2>. HIDE DEF m
  <2>5. Weight[Size[m] - 1] <= m /\ Weight[Size[m] - 1] \in Nat
    BY <2>1, <2>3, <2>4, WeightGrows
  <2>6. Weight[Size[n] - 1] = Base * Weight[Size[m] - 1]
    <3>. DEFINE k == Size[m] - 1
    <3>1. k \in Nat /\ Size[n] - 1 = k + 1
      BY <2>4
    <3>. HIDE DEF k
    <3>2. Weight[k + 1] = Base * Weight[k]
      BY <3>1, WeightIs
    <3>. QED BY <3>1, <3>2 DEF k
  <2>7. \A w \in Nat : w <= m => Base * w <= Base * m /\ Base * w \in Nat
    BY <1>1, <2>3
  <2>8. Weight[Size[n] - 1] <= Base * m /\ Weight[Size[n] - 1] \in Nat
    BY <2>5, <2>6, <2>7
  <2>9. Weight[Size[n] - 1] <= n
    BY <1>1, <2>3, <2>8
  <2>. QED BY <2>9
<1>3. ASSUME NEW n \in 0..IntMax, ~(Size[n] <= Digits) PROVE FALSE
  <2>1. Digits \in Nat \ {0} /\ IntMax \in Nat /\ 2 * (IntMax + 1) <= Weight[Digits]
    BY VarintAssumption
  <2>2. Size[n] \in Nat /\ Digits <= Size[n] - 1
    BY <1>3, <2>1, EncodeWritten DEF Written
  <2>3. n # 0
    BY <1>1, <2>1, <2>2, SizeIs
  <2>4. Weight[Size[n] - 1] <= n
    BY <1>2, <2>1, <2>3
  <2>5. Weight[Digits] <= Weight[Size[n] - 1] /\ Weight[Digits] \in Nat
        /\ Weight[Size[n] - 1] \in Nat
    BY <2>1, <2>2, WeightGrows
  <2>. QED BY <2>1, <2>4, <2>5
<1>. QED BY <1>3, VarintAssumption, EncodeWritten DEF Written

-----------------------------------------------------------------------------
(* What varint_read puts together.                                         *)

\* The equation of the sums of the first digits, as Decode states it.
SumsOf(bytes, u) ==
  u = [k \in 0 .. Digits |->
         IF k = 0 THEN 0 ELSE u[k - 1] + (bytes[k] % Base) * Weight[k - 1]]

Sums(bytes) == CHOOSE u : SumsOf(bytes, u)

LEMMA SumsAre ==
  ASSUME NEW bytes, \A k \in 1 .. Digits : bytes[k] \in Nat
  PROVE  /\ Decode(bytes) = Wrap(Sums(bytes)[BytesRead(bytes)])
         /\ Sums(bytes)[0] = 0
         /\ \A k \in 0 .. (Digits - 1) :
              Sums(bytes)[k + 1] = Sums(bytes)[k] + (bytes[k + 1] % Base) * Weight[k]
<1>. DEFINE Rec == 1 .. Digits
            back == [k \in Rec |-> k - 1]
            base == [k \in Nat \ Rec |-> 0]
            step == [p \in Rec \X Nat |-> p[2] + (bytes[p[1]] % Base) * Weight[p[1] - 1]]
<1>1. Base \in Nat \ {0, 1} /\ Digits \in Nat \ {0}
  BY VarintAssumption
<1>2. ASSUME NEW k \in Rec PROVE (bytes[k] % Base) * Weight[k - 1] \in Nat
  <2>1. bytes[k] % Base \in Nat
    <3>1. bytes[k] \in Nat
      OBVIOUS
    <3>2. bytes[k] % Base \in 0 .. (Base - 1)
      BY <3>1, LastDigit, Zenon
    <3>. QED BY <1>1, <3>2
  <2>2. k - 1 \in Nat
    BY <1>1
  <2>3. Weight[k - 1] \in Nat
    BY <2>2, WeightGrows
  <2>4. \A a, b \in Nat : a * b \in Nat
    OBVIOUS
  <2>. QED BY <2>1, <2>3, <2>4
<1>3. PICK f \in [Nat -> Nat] : Recursive(f, Rec, back, base, step)
  <2>1. base \in [Nat \ Rec -> Nat]
    OBVIOUS
  <2>2. step \in [Rec \X Nat -> Nat]
    <3>1. ASSUME NEW p \in Rec \X Nat
          PROVE  p[2] + (bytes[p[1]] % Base) * Weight[p[1] - 1] \in Nat
      <4>1. p[1] \in Rec /\ p[2] \in Nat
        OBVIOUS
      <4>2. (bytes[p[1]] % Base) * Weight[p[1] - 1] \in Nat
        BY <1>2, <4>1
      <4>. QED BY <4>1, <4>2
    <3>. QED BY <3>1
  <2>3. /\ Rec \in SUBSET Nat /\ back \in [Rec -> Nat]
        /\ \A k \in Rec : back[k] < k
    BY <1>1
  <2>. HIDE DEF Rec, back, base, step
  <2>. QED BY <2>1, <2>2, <2>3, RecursiveFunction
<1>. DEFINE u == [k \in 0 .. Digits |-> f[k]]
            v(k) == IF k = 0 THEN 0 ELSE u[k - 1] + (bytes[k] % Base) * Weight[k - 1]
<1>4. ASSUME NEW k \in 0 .. Digits PROVE u[k] = v(k)
  <2>1. CASE k = 0
    <3>1. k \in Nat /\ k \notin Rec /\ base[k] = 0
      BY <2>1
    <3>2. f[k] = 0
      <4>. HIDE DEF Rec, back, base, step
      <4>. QED BY <1>3, <3>1 DEF Recursive, ValueAt
    <3>. QED BY <2>1, <3>2
  <2>2. CASE k # 0
    <3>1. k \in Rec /\ k \in Nat /\ back[k] = k - 1 /\ k - 1 \in Nat /\ k - 1 \in 0 .. Digits
      BY <1>1, <2>2
    <3>2. f[k] = step[<<k, f[k - 1]>>]
      <4>. HIDE DEF Rec, back, base, step
      <4>. QED BY <1>3, <3>1 DEF Recursive, ValueAt
    <3>3. <<k, f[k - 1]>> \in Rec \X Nat
      BY <3>1
    <3>4. step[<<k, f[k - 1]>>] = f[k - 1] + (bytes[k] % Base) * Weight[k - 1]
      BY <3>3
    <3>. QED BY <2>2, <3>1, <3>2, <3>4
  <2>. QED BY <2>1, <2>2
<1>5. SumsOf(bytes, u)
  <2>1. u = [k \in 0 .. Digits |-> v(k)]
    <3>1. u = [k \in 0 .. Digits |-> u[k]]
      OBVIOUS
    <3>. HIDE DEF u, v
    <3>. QED BY <1>4, <3>1
  <2>. HIDE DEF u
  <2>. QED BY <2>1 DEF SumsOf
<1>6. SumsOf(bytes, Sums(bytes))
  BY <1>5 DEF Sums
<1>7. Decode(bytes) = Wrap(Sums(bytes)[BytesRead(bytes)])
  BY DEF Decode, Sums, SumsOf
<1>8. \A k \in 0 .. Digits : Sums(bytes)[k] =
        IF k = 0 THEN 0 ELSE Sums(bytes)[k - 1] + (bytes[k] % Base) * Weight[k - 1]
  BY <1>6, Zenon DEF SumsOf
<1>9. ASSUME NEW k \in 0 .. (Digits - 1)
      PROVE  Sums(bytes)[k + 1] = Sums(bytes)[k] + (bytes[k + 1] % Base) * Weight[k]
  <2>1. k + 1 \in 0 .. Digits /\ k + 1 # 0 /\ (k + 1) - 1 = k
    BY <1>1
  <2>. QED BY <1>8, <2>1
<1>10. Sums(bytes)[0] = 0
  BY <1>1, <1>8
<1>. QED BY <1>7, <1>9, <1>10

\* From any digit on, the digits of a number add its value, so far as they go.
LEMMA SumOfDigits ==
  ASSUME NEW bytes, \A k \in 1 .. Digits : bytes[k] \in Nat,
         NEW n \in Nat, NEW o \in Nat, o + Size[n] <= Digits,
         Sums(bytes)[o] \in Nat,
         \A k \in 1 .. Size[n] : bytes[o + k] = Encode[n][k]
  PROVE  Sums(bytes)[o + Size[n]] = Sums(bytes)[o] + n * Weight[o]
<1>. DEFINE u == Sums(bytes)
            Claim(m, p) ==
              /\ p + Size[m] <= Digits
              /\ u[p] \in Nat
              /\ \A k \in 1 .. Size[m] : bytes[p + k] = Encode[m][k]
              => u[p + Size[m]] = u[p] + m * Weight[p]
            T == {m \in Nat : \E p \in Nat : ~Claim(m, p)}
<1>1. T = {}
  <2>. SUFFICES ASSUME T # {} PROVE FALSE
    OBVIOUS
  <2>1. PICK m \in T : \A i \in T : m <= i
    BY LeastNumber
  <2>2. PICK p \in Nat : ~Claim(m, p)
    BY <2>1
  <2>3. /\ m \in Nat /\ Size[m] \in Nat \ {0} /\ Encode[m] \in Seq(Bytes)
        /\ p + Size[m] <= Digits /\ u[p] \in Nat
        /\ \A k \in 1 .. Size[m] : bytes[p + k] = Encode[m][k]
    BY <2>2, EncodeWritten DEF Written
  <2>. SUFFICES u[p + Size[m]] = u[p] + m * Weight[p]
    BY <2>2
  <2>4. Base \in Nat \ {0, 1} /\ Digits \in Nat \ {0}
    BY VarintAssumption
  <2>5. /\ bytes[p + 1] = Encode[m][1]
        /\ u[p + 1] = u[p] + (bytes[p + 1] % Base) * Weight[p]
        /\ Weight[p] \in Nat /\ Weight[p + 1] = Base * Weight[p]
    <3>1. 1 \in 1 .. Size[m] /\ p \in 0 .. (Digits - 1)
      BY <2>3, <2>4, SMTT(20)
    <3>2. bytes[p + 1] = Encode[m][1]
      BY <2>3, <3>1
    <3>3. \A k \in 0 .. (Digits - 1) :
            u[k + 1] = u[k] + (bytes[k + 1] % Base) * Weight[k]
      BY SumsAre
    <3>. HIDE DEF u
    <3>4. u[p + 1] = u[p] + (bytes[p + 1] % Base) * Weight[p]
      BY <3>1, <3>3, Zenon
    <3>5. Weight[p] \in Nat
      BY WeightGrows
    <3>6. Weight[p + 1] = Base * Weight[p]
      BY WeightIs
    <3>. QED BY <3>2, <3>4, <3>5, <3>6
  <2>6. CASE m < Base
    <3>1. Size[m] = 1 /\ Encode[m] = <<m>> /\ m % Base = m
      BY <2>3, <2>4, <2>6, SizeIs, EncodeIs, LastDigit
    <3>. QED BY <2>5, <3>1
  <2>7. CASE ~(m < Base)
    <3>. DEFINE i == m \div Base
                r == m % Base
                w == Weight[p]
    <3>1. /\ i \in Nat /\ i < m /\ r \in Nat /\ m = Base * i + r
          /\ (r + Base) % Base = r
      <4>1. m >= Base
        BY <2>3, <2>4, <2>7
      <4>2. /\ r \in 0 .. (Base - 1) /\ (r + Base) % Base = r
            /\ i \in Nat \ {0} /\ i < m /\ m = Base * i + r
        BY <2>3, <4>1, LastDigit, Zenon
      <4>. HIDE DEF i, r
      <4>. QED BY <2>4, <4>2
    <3>2. Size[m] = 1 + Size[i]
      BY <2>3, <2>7, SizeIs
    <3>3. Encode[m] = <<r + Base>> \o Encode[i]
      BY <2>3, <2>7, EncodeIs
    <3>4. Written(i)
      BY <3>1, EncodeWritten
    <3>. HIDE DEF i, r, w, Claim
    <3>5. /\ Encode[m][1] = r + Base
          /\ \A k \in 1 .. Size[i] : Encode[m][k + 1] = Encode[i][k]
      <4>. DEFINE e == Encode[i]
                  d == r + Base
      <4>1. e \in Seq(Bytes) /\ Len(e) = Size[i] /\ Size[i] \in Nat
        BY <3>4 DEF Written
      <4>2. d \in Bytes
        <5>1. r < Base
          <6>1. m % Base \in 0 .. (Base - 1)
            BY <2>3, LastDigit
          <6>. QED BY <2>4, <6>1 DEF r
        <5>. QED BY <2>4, <3>1, <5>1 DEF Bytes
      <4>. HIDE DEF e, d
      <4>3. <<d>> \in Seq(Bytes) /\ Len(<<d>>) = 1 /\ <<d>>[1] = d
        BY <4>2
      <4>4. /\ (<<d>> \o e)[1] = d
            /\ \A k \in 1 .. Size[i] : (<<d>> \o e)[k + 1] = e[k]
        BY <4>1, <4>3, ConcatProperties, SMTT(20)
      <4>. QED BY <3>3, <4>4 DEF e, d
    <3>6. u[p + 1] = u[p] + r * w
      BY <2>5, <3>1, <3>5 DEF w
    <3>7. u[p + 1] \in Nat
      <4>1. r * w \in Nat
        BY <2>5, <3>1 DEF w
      <4>. QED BY <2>3, <3>6, <4>1
    <3>8. Claim(i, p + 1)
      <4>1. i \notin T
        <5>. HIDE DEF T
        <5>. QED BY <2>1, <2>3, <3>1
      <4>. QED BY <3>1, <4>1
    <3>9. \A k \in 1 .. Size[i] : bytes[(p + 1) + k] = Encode[i][k]
      <4>1. Size[i] \in Nat
        BY <3>4 DEF Written
      <4>. TAKE k \in 1 .. Size[i]
      <4>2. k + 1 \in 1 .. Size[m] /\ p + (k + 1) = (p + 1) + k
        BY <3>2, <4>1
      <4>. QED BY <2>3, <3>5, <4>2
    <3>10. u[(p + 1) + Size[i]] = u[p + 1] + i * Weight[p + 1]
      <4>1. Size[i] \in Nat /\ (p + 1) + Size[i] <= Digits
        BY <2>3, <3>2, <3>4 DEF Written
      <4>. QED BY <3>7, <3>8, <3>9, <4>1 DEF Claim
    <3>11. u[p + Size[m]] = u[p + 1] + i * (Base * w)
      <4>1. Size[i] \in Nat
        BY <3>4 DEF Written
      <4>2. (p + 1) + Size[i] = p + Size[m]
        BY <3>2, <4>1
      <4>. QED BY <2>5, <3>10, <4>2 DEF w
    <3>12. \A x \in Nat : (x + r * w) + i * (Base * w) = x + (Base * i + r) * w
      <4>1. r \in Nat /\ w \in Nat /\ i \in Nat /\ Base \in Nat
        BY <2>4, <2>5, <3>1 DEF w
      <4>. QED BY <4>1
    <3>. QED BY <2>3, <3>1, <3>6, <3>11, <3>12 DEF w
  <2>. QED BY <2>6, <2>7
<1>. QED BY <1>1

\* An int that is not negative is read as it was written, whatever follows it.
LEMMA ReadAsWritten ==
  ASSUME NEW bytes, \A k \in 1 .. Digits : bytes[k] \in Nat,
         NEW n \in 0 .. IntMax,
         \A k \in 1 .. Size[n] : bytes[k] = Encode[n][k]
  PROVE  Readable(bytes) /\ BytesRead(bytes) = Size[n] /\ Decode(bytes) = n
<1>1. /\ n \in Nat /\ IntMax \in Nat /\ Digits \in Nat \ {0} /\ Base \in Nat
      /\ Size[n] \in 1 .. Digits
  BY VarintAssumption, EncodeWritten, SizeAllowed DEF Written
<1>2. /\ \A k \in 1 .. (Size[n] - 1) : bytes[k] >= Base
      /\ bytes[Size[n]] < Base
  <2>1. Written(n)
    BY <1>1, EncodeWritten
  <2>2. /\ Size[n] \in 1 .. Size[n]
        /\ \A k \in 1 .. (Size[n] - 1) : k \in 1 .. Size[n]
    BY <1>1
  <2>. QED BY <2>1, <2>2 DEF Written
<1>3. Readable(bytes)
  BY <1>1, <1>2 DEF Readable
<1>4. BytesRead(bytes) = Size[n]
  <2>. DEFINE Final(k) == bytes[k] < Base /\ \A i \in 1 .. (k - 1) : bytes[i] >= Base
  <2>1. Final(Size[n])
    BY <1>2
  <2>2. ASSUME NEW k \in 1 .. Digits, Final(k) PROVE k = Size[n]
    <3>1. ~(k < Size[n])
      <4>1. k < Size[n] => k \in 1 .. (Size[n] - 1)
        BY <1>1
      <4>. QED BY <1>1, <1>2, <2>2, <4>1
    <3>2. ~(Size[n] < k)
      <4>1. Size[n] < k => Size[n] \in 1 .. (k - 1)
        BY <1>1
      <4>. QED BY <1>1, <1>2, <2>2, <4>1
    <3>. QED BY <1>1, <3>1, <3>2
  <2>3. BytesRead(bytes) = CHOOSE k \in 1 .. Digits : Final(k)
    BY DEF BytesRead
  <2>. HIDE DEF Final
  <2>. QED BY <1>1, <2>1, <2>2, <2>3
<1>5. Sums(bytes)[Size[n]] = n
  <2>1. Sums(bytes)[0] = 0 /\ Weight[0] = 1
    BY SumsAre, WeightIs
  <2>2. \A k \in 1 .. Size[n] : bytes[0 + k] = Encode[n][k]
    BY <1>1
  <2>3. 0 + Size[n] <= Digits /\ Sums(bytes)[0] \in Nat /\ 0 \in Nat
    BY <1>1, <2>1
  <2>4. Sums(bytes)[0 + Size[n]] = Sums(bytes)[0] + n * Weight[0]
    BY <1>1, <2>2, <2>3, SumOfDigits
  <2>. QED BY <1>1, <2>1, <2>4
<1>6. Wrap(n) = n
  <2>1. n % (2 * (IntMax + 1)) = n
    <3>1. \A m \in Nat : n < m => n % m = n
      BY <1>1
    <3>. QED BY <1>1, <3>1
  <2>. QED BY <1>1, <2>1 DEF Wrap
<1>. QED BY <1>3, <1>4, <1>5, <1>6, SumsAre

\* What is left of a number in an int is an int.
LEMMA WrapIsInt == \A n \in Int : Wrap(n) \in Ints
<1>. TAKE n \in Int
<1>1. IntMax \in Nat
  BY VarintAssumption
<1>2. n % (2 * (IntMax + 1)) \in 0 .. (2 * IntMax + 1)
  <2>1. \A m \in Nat \ {0} : n % m \in 0 .. (m - 1)
    OBVIOUS
  <2>. QED BY <1>1, <2>1
<1>. QED BY <1>1, <1>2 DEF Wrap, Ints

\* A number that is read is an int, and takes at most the digits there are.
LEMMA ReadIsInt ==
  ASSUME NEW bytes, \A k \in 1 .. Digits : bytes[k] \in Nat, Readable(bytes)
  PROVE  Decode(bytes) \in Ints /\ BytesRead(bytes) \in 1 .. Digits
<1>1. Base \in Nat \ {0, 1} /\ Digits \in Nat \ {0}
  BY VarintAssumption
<1>2. BytesRead(bytes) \in 1 .. Digits
  <2>. DEFINE T == {k \in 1 .. Digits : bytes[k] < Base}
  <2>1. T \subseteq Nat /\ T # {}
    BY <1>1 DEF Readable
  <2>2. PICK k \in T : \A i \in T : k <= i
    BY <2>1, LeastNumber
  <2>3. \A i \in 1 .. (k - 1) : bytes[i] >= Base
    BY <1>1, <2>2
  <2>. QED BY <2>2, <2>3 DEF BytesRead
<1>3. \A k \in 0 .. Digits : Sums(bytes)[k] \in Nat
  <2>. DEFINE T == {k \in 0 .. Digits : Sums(bytes)[k] \notin Nat}
  <2>. SUFFICES ASSUME T # {} PROVE FALSE
    OBVIOUS
  <2>1. PICK k \in T : \A i \in T : k <= i
    <3>1. T \subseteq Nat
      BY <1>1
    <3>. HIDE DEF T
    <3>. QED BY <3>1, LeastNumber
  <2>2. k # 0
    BY SumsAre
  <2>. DEFINE j == k - 1
  <2>3. j \in 0 .. (Digits - 1) /\ k = j + 1 /\ j < k /\ j \in 0 .. Digits
    BY <1>1, <2>2
  <2>4. Sums(bytes)[j] \in Nat
    BY <2>1, <2>3
  <2>. HIDE DEF j
  <2>5. Sums(bytes)[j + 1] = Sums(bytes)[j] + (bytes[j + 1] % Base) * Weight[j]
    BY <2>3, SumsAre
  <2>6. bytes[j + 1] % Base \in Nat
    <3>1. j + 1 \in 1 .. Digits
      BY <2>3
    <3>2. bytes[j + 1] \in Nat
      BY <3>1
    <3>3. bytes[j + 1] % Base \in 0 .. (Base - 1)
      BY <3>2, LastDigit, Zenon
    <3>. QED BY <1>1, <3>3
  <2>7. Weight[j] \in Nat
    BY <2>3, WeightGrows
  <2>8. \A a, b, c \in Nat : a + b * c \in Nat
    OBVIOUS
  <2>. QED BY <2>3, <2>4, <2>5, <2>6, <2>7, <2>8
<1>. QED BY <1>1, <1>2, <1>3, SumsAre, WrapIsInt

-----------------------------------------------------------------------------
(* The client's stream.                                                    *)

\* What the client sends, with the prefixes, is as long as an int can say;
\* network_recv refuses a packet that is not.
PacketsFit == \A body \in Bodies : Len(body) + Size[Len(body)] <= IntMax

LEMMA BodyIs ==
  ASSUME packets \in Seq(Bodies), NEW k \in 1 .. Len(packets)
  PROVE  /\ packets[k] \in Bodies /\ packets[k] \in Seq(Bytes)
         /\ Len(packets[k]) \in 0 .. IntMax
         /\ Prefix(k) \in Seq(Bytes) /\ Len(Prefix(k)) = Size[Len(packets[k])]
         /\ Size[Len(packets[k])] \in Nat \ {0}
<1>1. packets[k] \in Bodies
  OBVIOUS
<1>2. packets[k] \in Seq(Bytes) /\ Len(packets[k]) \in Nat /\ Len(packets[k]) <= IntMax
  BY <1>1, PacketRecvAssumption
<1>3. Len(packets[k]) \in 0 .. IntMax
  BY <1>2, VarintAssumption
<1>4. Written(Len(packets[k]))
  BY <1>2, EncodeWritten
<1>. QED BY <1>1, <1>2, <1>3, <1>4 DEF Written, Prefix

\* A packet begins where the one before it ends.
Ahead(k) == Len(Prefix(k)) + Len(packets[k])

LEMMA StartIs ==
  ASSUME packets \in Seq(Bodies)
  PROVE  /\ Start[1] = 0
         /\ \A k \in 1 .. Len(packets) : Start[k + 1] = Start[k] + Ahead(k)
         /\ \A k \in 1 .. Len(packets) : Ahead(k) \in Nat \ {0}
<1>. DEFINE N == Len(packets)
            Rec == 2 .. (N + 1)
            back == [k \in Rec |-> k - 1]
            base == [k \in Nat \ Rec |-> 0]
            step == [p \in Rec \X Nat |->
                       p[2] + Len(Prefix(p[1] - 1)) + Len(packets[p[1] - 1])]
            Eq(f) == f = [k \in 1 .. (N + 1) |->
                            IF k = 1 THEN 0
                            ELSE f[k - 1] + Len(Prefix(k - 1)) + Len(packets[k - 1])]
<1>1. N \in Nat
  OBVIOUS
<1>2. ASSUME NEW k \in 1 .. N
      PROVE  Ahead(k) \in Nat \ {0} /\ Len(Prefix(k)) \in Nat /\ Len(packets[k]) \in Nat
  BY BodyIs DEF Ahead
<1>3. PICK f \in [Nat -> Nat] : Recursive(f, Rec, back, base, step)
  <2>1. base \in [Nat \ Rec -> Nat]
    OBVIOUS
  <2>2. step \in [Rec \X Nat -> Nat]
    <3>1. ASSUME NEW p \in Rec \X Nat
          PROVE  p[2] + Len(Prefix(p[1] - 1)) + Len(packets[p[1] - 1]) \in Nat
      <4>1. PICK k \in 1 .. N : k = p[1] - 1
        BY <1>1
      <4>2. Len(Prefix(k)) \in Nat /\ Len(packets[k]) \in Nat /\ p[2] \in Nat
        BY <1>2
      <4>. QED BY <4>1, <4>2
    <3>. QED BY <3>1
  <2>3. /\ Rec \in SUBSET Nat /\ back \in [Rec -> Nat]
        /\ \A k \in Rec : back[k] < k
    BY <1>1
  <2>. HIDE DEF Rec, back, base, step
  <2>. QED BY <2>1, <2>2, <2>3, RecursiveFunction
<1>. DEFINE u == [k \in 1 .. (N + 1) |-> f[k]]
            v(k) == IF k = 1 THEN 0
                    ELSE u[k - 1] + Len(Prefix(k - 1)) + Len(packets[k - 1])
<1>4. ASSUME NEW k \in 1 .. (N + 1) PROVE u[k] = v(k)
  <2>1. CASE k = 1
    <3>1. k \in Nat /\ k \notin Rec /\ base[k] = 0
      BY <2>1
    <3>2. f[k] = 0
      <4>. HIDE DEF Rec, back, base, step
      <4>. QED BY <1>3, <3>1 DEF Recursive, ValueAt
    <3>. QED BY <2>1, <3>2
  <2>2. CASE k # 1
    <3>1. k \in Rec /\ k \in Nat /\ back[k] = k - 1 /\ k - 1 \in Nat /\ k - 1 \in 1 .. (N + 1)
      BY <1>1, <2>2
    <3>2. f[k] = step[<<k, f[k - 1]>>]
      <4>. HIDE DEF Rec, back, base, step
      <4>. QED BY <1>3, <3>1 DEF Recursive, ValueAt
    <3>3. <<k, f[k - 1]>> \in Rec \X Nat
      BY <3>1
    <3>4. step[<<k, f[k - 1]>>]
            = f[k - 1] + Len(Prefix(k - 1)) + Len(packets[k - 1])
      BY <3>3
    <3>. QED BY <2>2, <3>1, <3>2, <3>4
  <2>. QED BY <2>1, <2>2
<1>5. Eq(u)
  <2>1. u = [k \in 1 .. (N + 1) |-> u[k]]
    OBVIOUS
  <2>2. u = [k \in 1 .. (N + 1) |-> v(k)]
    <3>. HIDE DEF u, v
    <3>. QED BY <1>4, <2>1
  <2>. HIDE DEF u
  <2>. QED BY <2>2
<1>6. Eq(Start)
  <2>1. Start = CHOOSE g : Eq(g)
    BY DEF Start
  <2>. HIDE DEF Eq
  <2>. QED BY <1>5, <2>1
<1>7. \A k \in 1 .. (N + 1) : Start[k] =
        IF k = 1 THEN 0 ELSE Start[k - 1] + Len(Prefix(k - 1)) + Len(packets[k - 1])
  BY <1>6, Zenon
<1>. HIDE DEF N, Eq, Rec, back, base, step, u, v
<1>8. Start[1] = 0
  <2>1. 1 \in 1 .. (N + 1)
    BY <1>1
  <2>. QED BY <1>7, <2>1
<1>9. \A k \in 1 .. (N + 1) : Start[k] \in Nat
  <2>. DEFINE T == {k \in 1 .. (N + 1) : Start[k] \notin Nat}
  <2>. SUFFICES ASSUME T # {} PROVE FALSE
    OBVIOUS
  <2>1. PICK k \in T : \A i \in T : k <= i
    <3>1. T \subseteq Nat
      BY <1>1
    <3>. HIDE DEF T
    <3>. QED BY <3>1, LeastNumber
  <2>2. k # 1
    BY <1>8
  <2>. DEFINE j == k - 1
  <2>3. j \in 1 .. N /\ j < k /\ j \in 1 .. (N + 1) /\ k \in 1 .. (N + 1)
    BY <1>1, <2>2
  <2>4. Start[j] \in Nat
    <3>1. j \notin T
      <4>. HIDE DEF T, j
      <4>. QED BY <1>1, <2>1, <2>3
    <3>. QED BY <2>3, <3>1
  <2>5. Start[k] = Start[j] + Len(Prefix(j)) + Len(packets[j])
    BY <1>7, <2>2, <2>3
  <2>. HIDE DEF j
  <2>6. Len(Prefix(j)) \in Nat /\ Len(packets[j]) \in Nat
    BY <1>2, <2>3
  <2>7. Start[k] \in Nat
    <3>1. \A a, b, c \in Nat : a + b + c \in Nat
      OBVIOUS
    <3>. QED BY <2>4, <2>5, <2>6, <3>1
  <2>. QED BY <2>7
<1>10. ASSUME NEW k \in 1 .. N PROVE Start[k + 1] = Start[k] + Ahead(k)
  <2>1. k + 1 \in 1 .. (N + 1) /\ k + 1 # 1 /\ (k + 1) - 1 = k /\ k \in 1 .. (N + 1)
    BY <1>1
  <2>2. Start[k + 1] = Start[k] + Len(Prefix(k)) + Len(packets[k])
    BY <1>7, <2>1
  <2>3. Start[k] \in Nat /\ Len(Prefix(k)) \in Nat /\ Len(packets[k]) \in Nat
    BY <1>2, <1>9, <2>1
  <2>4. \A a, b, c \in Nat : a + b + c = a + (b + c)
    OBVIOUS
  <2>. QED BY <2>2, <2>3, <2>4 DEF Ahead
<1>. QED BY <1>2, <1>8, <1>10 DEF N

LEMMA StartsGrow ==
  ASSUME packets \in Seq(Bodies)
  PROVE  /\ \A k \in 1 .. (Len(packets) + 1) : Start[k] \in Nat
         /\ \A j, k \in 1 .. (Len(packets) + 1) : j < k => Start[j] < Start[k]
         /\ Total \in Nat
<1>. DEFINE N == Len(packets)
<1>1. N \in Nat /\ Start[1] = 0
      /\ \A k \in 1 .. N : Start[k + 1] = Start[k] + Ahead(k) /\ Ahead(k) \in Nat \ {0}
  BY StartIs
<1>. HIDE DEF N
<1>2. \A k \in 1 .. (N + 1) : Start[k] \in Nat
  <2>. DEFINE T == {k \in 1 .. (N + 1) : Start[k] \notin Nat}
  <2>. SUFFICES ASSUME T # {} PROVE FALSE
    OBVIOUS
  <2>1. PICK k \in T : \A i \in T : k <= i
    <3>1. T \subseteq Nat
      BY <1>1
    <3>. HIDE DEF T
    <3>. QED BY <3>1, LeastNumber
  <2>2. k \in 1 .. (N + 1) /\ k # 1
    BY <1>1
  <2>3. PICK j \in 1 .. N : k = j + 1
    BY <1>1, <2>2
  <2>4. j \in 1 .. (N + 1) /\ ~(k <= j)
    BY <1>1, <2>3
  <2>5. Start[j] \in Nat
    BY <2>1, <2>4
  <2>6. Start[k] \in Nat
    BY <1>1, <2>3, <2>5
  <2>. QED BY <2>6
<1>3. ASSUME NEW j \in 1 .. (N + 1)
      PROVE  \A k \in 1 .. (N + 1) : j < k => Start[j] < Start[k]
  <2>. DEFINE T == {k \in 1 .. (N + 1) : j < k /\ ~(Start[j] < Start[k])}
  <2>. SUFFICES ASSUME T # {} PROVE FALSE
    OBVIOUS
  <2>1. PICK k \in T : \A i \in T : k <= i
    <3>1. T \subseteq Nat
      BY <1>1
    <3>. HIDE DEF T
    <3>. QED BY <3>1, LeastNumber
  <2>2. k \in 1 .. (N + 1) /\ j < k /\ ~(Start[j] < Start[k])
    OBVIOUS
  <2>3. PICK i \in 1 .. N : k = i + 1
    BY <1>1, <2>2
  <2>4. /\ i \in 1 .. (N + 1) /\ ~(k <= i) /\ j <= i
        /\ Start[i] \in Nat /\ Start[j] \in Nat /\ Start[k] \in Nat
    BY <1>1, <1>2, <2>2, <2>3
  <2>5. i = j \/ Start[j] < Start[i]
    BY <1>1, <2>1, <2>4
  <2>6. Start[i] < Start[k]
    BY <1>1, <2>3, <2>4
  <2>. QED BY <2>2, <2>4, <2>5, <2>6
<1>4. Total \in Nat
  BY <1>1, <1>2 DEF Total, N
<1>. QED BY <1>2, <1>3, <1>4 DEF N

\* Every byte of the stream belongs to a packet.
LEMMA SomePacket ==
  ASSUME packets \in Seq(Bodies), NEW i \in 1 .. Total
  PROVE  \E k \in 1 .. Len(packets) : Start[k] < i /\ i <= Start[k + 1]
<1>. DEFINE N == Len(packets)
            T == {k \in 1 .. (N + 1) : i <= Start[k]}
<1>1. N \in Nat /\ Start[1] = 0 /\ i \in Nat /\ Total \in Nat
  BY StartIs, StartsGrow
<1>2. N + 1 \in T
  BY <1>1 DEF Total
<1>3. PICK k \in T : \A m \in T : k <= m
  <2>1. T \subseteq Nat
    BY <1>1
  <2>. HIDE DEF T
  <2>. QED BY <1>2, <2>1, LeastNumber
<1>4. k \in 1 .. (N + 1) /\ i <= Start[k] /\ k # 1
  BY <1>1
<1>5. PICK j \in 1 .. N : k = j + 1
  BY <1>1, <1>4
<1>6. j \in 1 .. (N + 1) /\ ~(k <= j) /\ Start[j] \in Nat
  BY <1>1, <1>5, StartsGrow
<1>7. ~(i <= Start[j])
  BY <1>3, <1>6
<1>8. Start[j] < i
  BY <1>1, <1>6, <1>7
<1>. QED BY <1>4, <1>5, <1>8

\* The bytes of a packet are its prefix and its body.
LEMMA ByteIs ==
  ASSUME packets \in Seq(Bodies), NEW k \in 1 .. Len(packets), NEW j \in 1 .. Ahead(k)
  PROVE  /\ Byte(Start[k] + j) = (Prefix(k) \o packets[k])[j]
         /\ Byte(Start[k] + j) \in Bytes
         /\ j <= Len(Prefix(k)) => Byte(Start[k] + j) = Prefix(k)[j]
<1>. DEFINE N == Len(packets)
            i == Start[k] + j
            In(m) == Start[m] < i /\ i <= Start[m + 1]
<1>1. N \in Nat /\ k \in 1 .. (N + 1) /\ k + 1 \in 1 .. (N + 1)
  BY StartIs
<1>2. Start[k] \in Nat /\ Start[k + 1] = Start[k] + Ahead(k) /\ Ahead(k) \in Nat
  BY <1>1, StartIs, StartsGrow
<1>3. In(k)
  BY <1>2
<1>4. ASSUME NEW m \in 1 .. N, In(m) PROVE m = k
  <2>1. m \in 1 .. (N + 1) /\ m + 1 \in 1 .. (N + 1) /\ Start[m] \in Nat /\ Start[m + 1] \in Nat
    BY <1>1, StartsGrow
  <2>2. ~(m + 1 <= k)
    <3>1. m + 1 < k => Start[m + 1] < Start[k]
      BY <1>1, <2>1, StartsGrow
    <3>2. m + 1 <= k => Start[m + 1] <= Start[k]
      BY <1>1, <1>2, <2>1, <3>1
    <3>. QED BY <1>2, <1>4, <2>1, <3>2
  <2>3. ~(k + 1 <= m)
    <3>1. k + 1 < m => Start[k + 1] < Start[m]
      BY <1>1, <2>1, StartsGrow
    <3>2. k + 1 <= m => Start[k + 1] <= Start[m]
      BY <1>1, <1>2, <2>1, <3>1
    <3>. QED BY <1>2, <1>4, <2>1, <3>2
  <2>. QED BY <1>1, <2>1, <2>2, <2>3
<1>5. (CHOOSE m \in 1 .. N : In(m)) = k
  <2>. HIDE DEF In
  <2>. QED BY <1>3, <1>4
<1>6. Byte(i) = (Prefix(k) \o packets[k])[i - Start[k]]
  BY <1>5 DEF Byte
<1>7. i - Start[k] = j
  BY <1>2
<1>8. /\ (Prefix(k) \o packets[k])[j] \in Bytes
      /\ j <= Len(Prefix(k)) => (Prefix(k) \o packets[k])[j] = Prefix(k)[j]
  <2>. DEFINE p == Prefix(k)
              b == packets[k]
  <2>1. p \in Seq(Bytes) /\ b \in Seq(Bytes) /\ j \in 1 .. (Len(p) + Len(b))
    BY BodyIs DEF Ahead
  <2>. HIDE DEF p, b
  <2>2. /\ p \o b \in Seq(Bytes) /\ Len(p \o b) = Len(p) + Len(b)
        /\ j <= Len(p) => (p \o b)[j] = p[j]
    BY <2>1, ConcatProperties
  <2>3. (p \o b)[j] \in Bytes
    BY <2>1, <2>2
  <2>. QED BY <2>2, <2>3 DEF p, b
<1>. QED BY <1>6, <1>7, <1>8

LEMMA ByteIsByte ==
  ASSUME packets \in Seq(Bodies), NEW i \in 1 .. Total
  PROVE  Byte(i) \in Bytes
<1>1. PICK k \in 1 .. Len(packets) : Start[k] < i /\ i <= Start[k + 1]
  BY SomePacket
<1>2. /\ Start[k] \in Nat /\ Start[k + 1] = Start[k] + Ahead(k)
      /\ Ahead(k) \in Nat /\ i \in Nat
  BY StartIs, StartsGrow
<1>. DEFINE j == i - Start[k]
<1>3. j \in 1 .. Ahead(k) /\ i = Start[k] + j
  BY <1>1, <1>2
<1>. HIDE DEF j
<1>. QED BY <1>3, ByteIs

\* The client does not change what it sends.
LEMMA StreamStays ==
  ASSUME UNCHANGED packets
  PROVE  Start' = Start /\ Total' = Total /\ \A k : Prefix(k)' = Prefix(k)
BY DEF Start, Total, Prefix

-----------------------------------------------------------------------------
(* The inductive invariant.                                                *)

Receiving == pc \in {"parse", "read"}

\* What is peeked at has arrived, and no negative length is read for.
InStream ==
  /\ pc = "parse" => seen <= Waiting
  /\ pc = "read" => len >= 0

\* As long as no prefix was cut, what was returned is the packets so far, and
\* the next call begins behind them.
InStep ==
  ~cut =>
    /\ Len(received) <= Len(packets)
    /\ \A k \in 1 .. Len(received) : received[k] = <<Start[k], Start[k + 1]>>
    /\ pc # "failed" => taken = Start[CurrentPacket]

\* A call that has peeked has seen the whole prefix of its packet, or the end.
PrefixSeen ==
  Receiving /\ ~cut =>
    \/ seen = 0 /\ ended /\ Waiting = 0 /\ ~whole
    \/ seen > 0 /\ CurrentPacket <= Len(packets) /\ Size[Len(packets[CurrentPacket])] <= seen

\* The packet that had arrived is still there.
StillThere ==
  Receiving /\ whole => CurrentPacket <= Len(packets) /\ arrived >= Start[CurrentPacket + 1]

\* The length that was read is the packet's, with its prefix.
LengthRead ==
  pc = "read" /\ ~cut =>
    IF seen = 0 THEN len > 0 ELSE len = Start[CurrentPacket + 1] - Start[CurrentPacket]

\* Without a cause a packet that had arrived is not given up.
NotGivenUp == pc = "failed" /\ ~cut /\ whole => cause

RInv == /\ packets \in Seq(Bodies) /\ RecvTypeOK
        /\ InStream /\ InStep /\ PrefixSeen /\ StillThere /\ LengthRead /\ NotGivenUp

LEMMA Bounds ==
  ASSUME packets \in Seq(Bodies), RecvTypeOK
  PROVE  /\ arrived \in Nat /\ taken \in Nat /\ taken <= arrived /\ arrived <= Total
         /\ Total \in Nat /\ Waiting \in Nat /\ Digits \in Nat \ {0}
         /\ Base \in Nat \ {0, 1} /\ IntMax \in Nat
         /\ seen \in Nat /\ seen <= Digits
BY StartsGrow, VarintAssumption DEF RecvTypeOK, Waiting

\* recv gives no more than it was asked for and no more than there is.
LEMMA SomeIs ==
  ASSUME packets \in Seq(Bodies), RecvTypeOK, NEW n \in Nat
  PROVE  Some(n) \in Nat /\ Some(n) <= n /\ Some(n) <= Waiting
         /\ (n <= Waiting => Some(n) = n) /\ (Some(n) = n \/ Some(n) = Waiting)
BY Bounds DEF Some

LEMMA PeekedIs ==
  ASSUME packets \in Seq(Bodies), RecvTypeOK, seen <= Waiting
  PROVE  \A k \in 1 .. Digits :
           Peeked[k] \in Nat /\ Peeked[k] = IF k <= seen THEN Byte(taken + k) ELSE 0
<1>. TAKE k \in 1 .. Digits
<1>1. Peeked[k] = IF k <= seen THEN Byte(taken + k) ELSE 0
  BY DEF Peeked
<1>2. CASE k <= seen
  <2>1. taken + k \in 1 .. Total
    BY <1>2, Bounds DEF Waiting
  <2>2. Byte(taken + k) \in Bytes
    BY <2>1, ByteIsByte
  <2>. QED BY <1>1, <1>2, <2>2, Bounds DEF Bytes
<1>3. CASE ~(k <= seen)
  BY <1>1, <1>3
<1>. QED BY <1>1, <1>2, <1>3

-----------------------------------------------------------------------------
(* Types.                                                                  *)

RTypeInv == packets \in Seq(Bodies) /\ RecvTypeOK /\ InStream

LEMMA InitTypes == RecvInit => RTypeInv
<1>. SUFFICES ASSUME RecvInit PROVE RTypeInv
  OBVIOUS
<1>1. packets \in Seq(Bodies)
  <2>1. PICK n \in 0 .. MaxPackets : packets \in [1 .. n -> Bodies]
    BY DEF RecvInit
  <2>2. n \in Nat
    BY PacketRecvAssumption
  <2>. QED BY <2>1, <2>2
<1>2. Total \in Nat /\ Digits \in Nat /\ 0 \in Ints
  BY <1>1, StartsGrow, VarintAssumption DEF Ints
<1>3. received \in Seq((0 .. Total) \X (0 .. Total))
  BY DEF RecvInit
<1>4. ended \in BOOLEAN /\ whole \in BOOLEAN /\ cut \in BOOLEAN /\ cause \in BOOLEAN
  BY DEF RecvInit
<1>5. /\ arrived \in 0 .. Total /\ taken \in 0 .. arrived /\ seen \in 0 .. Digits
      /\ len \in Ints /\ pc = "idle"
  BY <1>2 DEF RecvInit
<1>. QED BY <1>1, <1>3, <1>4, <1>5 DEF RTypeInv, RecvTypeOK, InStream

LEMMA TypeStep == RTypeInv /\ [RecvNext]_recvVars => RTypeInv'
<1>. SUFFICES ASSUME RTypeInv, [RecvNext]_recvVars PROVE RTypeInv'
  OBVIOUS
<1>1. packets \in Seq(Bodies) /\ RecvTypeOK /\ InStream
  BY DEF RTypeInv
<1>2. UNCHANGED packets
  BY DEF RecvNext, recvVars, client, Arrive, End, Peek, PeekTimeout, MallocFails, Parse, Read
<1>3. packets' \in Seq(Bodies) /\ Total' = Total /\ Total \in Nat
  BY <1>1, <1>2, StreamStays, Bounds
<1>4. CASE Arrive
  <2>1. arrived' \in 0 .. Total /\ arrived < arrived' /\ taken \in 0 .. arrived'
    BY <1>1, <1>4, Bounds DEF Arrive
  <2>2. UNCHANGED <<packets, ended, pc, seen, len, taken, received, whole, cut, cause>>
    BY <1>4 DEF Arrive
  <2>3. pc = "parse" => seen <= arrived' - taken
    BY <1>1, <2>1, Bounds DEF InStream, Waiting
  <2>. QED BY <1>1, <1>3, <2>1, <2>2, <2>3 DEF RTypeInv, RecvTypeOK, InStream, Waiting
<1>5. CASE End
  BY <1>1, <1>3, <1>5 DEF End, RTypeInv, RecvTypeOK, InStream, Waiting
<1>6. CASE Peek
  <2>1. seen' \in 0 .. Digits /\ seen' <= Waiting
    BY <1>1, <1>6, SomeIs, Bounds DEF Peek
  <2>2. /\ UNCHANGED <<packets, arrived, ended, len, taken, received, cause>>
        /\ pc' = "parse"
    BY <1>6 DEF Peek, client
  <2>3. whole' \in BOOLEAN
    BY <1>6 DEF Peek
  <2>4. cut' \in BOOLEAN
    BY <1>1, <1>6 DEF Peek, RecvTypeOK
  <2>. QED BY <1>1, <1>3, <2>1, <2>2, <2>3, <2>4 DEF RTypeInv, RecvTypeOK, InStream, Waiting
<1>7. CASE PeekTimeout
  BY <1>1, <1>3, <1>7 DEF PeekTimeout, client, RTypeInv, RecvTypeOK, InStream
<1>8. CASE MallocFails
  BY <1>1, <1>3, <1>8 DEF MallocFails, client, RTypeInv, RecvTypeOK, InStream
<1>9. CASE Parse
  <2>1. pc = "parse" /\ UNCHANGED <<packets, arrived, ended, seen, taken, received, whole, cut, cause>>
    BY <1>9 DEF Parse, client
  <2>2. CASE Readable(Peeked) /\ PacketLength >= 0
    <3>1. Decode(Peeked) \in Ints /\ BytesRead(Peeked) \in 1 .. Digits
      <4>1. \A k \in 1 .. Digits : Peeked[k] \in Nat
        BY <1>1, <2>1, PeekedIs DEF InStream
      <4>. QED BY <2>2, <4>1, ReadIsInt
    <3>2. PacketLength \in Ints
      <4>1. Decode(Peeked) + BytesRead(Peeked) \in Int
        BY <1>1, <3>1, Bounds DEF Ints
      <4>. QED BY <4>1, WrapIsInt DEF PacketLength
    <3>3. len' = PacketLength /\ pc' = "read"
      BY <1>9, <2>2 DEF Parse
    <3>. QED BY <1>1, <1>3, <2>1, <2>2, <3>2, <3>3 DEF RTypeInv, RecvTypeOK, InStream
  <2>3. CASE ~(Readable(Peeked) /\ PacketLength >= 0)
    <3>1. pc' = "failed" /\ UNCHANGED len
      BY <1>9, <2>3 DEF Parse
    <3>. QED BY <1>1, <1>3, <2>1, <3>1 DEF RTypeInv, RecvTypeOK, InStream
  <2>. QED BY <2>2, <2>3
<1>10. CASE Read
  <2>. DEFINE n == Some(len)
  <2>1. /\ pc = "read" /\ taken' = taken + n
        /\ UNCHANGED <<packets, arrived, ended, seen, len, whole, cut, cause>>
    BY <1>10 DEF Read, client
  <2>2. n \in Nat /\ taken + n \in 0 .. arrived /\ taken \in 0 .. Total /\ taken + n \in 0 .. Total
    <3>1. len \in Nat
      BY <1>1, <2>1, Bounds DEF InStream, RecvTypeOK, Ints
    <3>2. n \in Nat /\ n <= Waiting
      BY <1>1, <3>1, SomeIs
    <3>. QED BY <1>1, <3>2, Bounds DEF Waiting
  <2>3. \/ received' = Append(received, <<taken, taken + n>>) /\ pc' = "idle"
        \/ pc' = "failed" /\ UNCHANGED received
    BY <1>10 DEF Read
  <2>4. received' \in Seq((0 .. Total) \X (0 .. Total))
    <3>1. <<taken, taken + n>> \in (0 .. Total) \X (0 .. Total)
      BY <2>2
    <3>2. received \in Seq((0 .. Total) \X (0 .. Total))
      BY <1>1 DEF RecvTypeOK
    <3>. DEFINE S == (0 .. Total) \X (0 .. Total)
                x == <<taken, taken + n>>
    <3>. HIDE DEF n, S, x
    <3>3. x \in S /\ received \in Seq(S)
      BY <3>1, <3>2 DEF S, x
    <3>4. Append(received, x) \in Seq(S)
      BY <3>3, AppendProperties
    <3>. QED BY <2>3, <3>3, <3>4 DEF S, x
  <2>. HIDE DEF n
  <2>. QED BY <1>1, <1>3, <2>1, <2>2, <2>3, <2>4 DEF RTypeInv, RecvTypeOK, InStream
<1>11. CASE UNCHANGED recvVars
  BY <1>1, <1>3, <1>11 DEF recvVars, client, RTypeInv, RecvTypeOK, InStream, Waiting
<1>. QED BY <1>4, <1>5, <1>6, <1>7, <1>8, <1>9, <1>10, <1>11 DEF RecvNext

-----------------------------------------------------------------------------
(* The packets.                                                            *)

\* What a call reads of the prefix, and of nothing at the end of the stream.
LEMMA LengthOfPacket ==
  ASSUME PacketsFit, RInv, pc = "parse", ~cut
  PROVE  IF seen = 0 THEN PacketLength >= 0 => PacketLength > 0
         ELSE /\ Readable(Peeked)
              /\ PacketLength = Start[CurrentPacket + 1] - Start[CurrentPacket]
              /\ PacketLength >= 0
<1>1. /\ packets \in Seq(Bodies) /\ RecvTypeOK /\ seen <= Waiting
      /\ taken = Start[CurrentPacket]
  BY DEF RInv, InStream, InStep
<1>2. \A k \in 1 .. Digits :
        Peeked[k] \in Nat /\ Peeked[k] = IF k <= seen THEN Byte(taken + k) ELSE 0
  BY <1>1, PeekedIs
<1>3. IntMax \in Nat /\ Digits \in Nat \ {0} /\ Base \in Nat \ {0, 1} /\ seen \in Nat
  BY <1>1, Bounds
<1>4. CASE seen = 0
  <2>1. Size[0] = 1 /\ Encode[0] = <<0>>
    <3>1. 0 \in Nat /\ 0 < Base
      BY <1>3
    <3>. QED BY <3>1, SizeIs, EncodeIs
  <2>2. \A k \in 1 .. Size[0] : Peeked[k] = Encode[0][k]
    <3>1. Peeked[1] = 0
      BY <1>2, <1>3, <1>4
    <3>. QED BY <2>1, <3>1
  <2>3. 0 \in 0 .. IntMax
    BY <1>3
  <2>4. Decode(Peeked) = 0 /\ BytesRead(Peeked) = 1
    BY <1>2, <2>1, <2>2, <2>3, ReadAsWritten
  <2>5. 1 % (2 * (IntMax + 1)) = 1
    <3>1. \A m \in Nat : 1 < m => 1 % m = 1
      OBVIOUS
    <3>. QED BY <1>3, <3>1
  <2>6. PacketLength = IF 1 > IntMax THEN 1 - 2 * (IntMax + 1) ELSE 1
    BY <2>4, <2>5 DEF PacketLength, Wrap
  <2>. QED BY <1>3, <1>4, <2>6
<1>5. CASE seen # 0
  <2>. DEFINE c == CurrentPacket
              n == Len(packets[c])
  <2>1. c \in 1 .. Len(packets) /\ Size[n] <= seen
    <3>1. c <= Len(packets) /\ Size[n] <= seen
      BY <1>5 DEF RInv, PrefixSeen, Receiving
    <3>2. c \in Nat \ {0}
      <4>1. Len(received) \in Nat
        BY <1>1 DEF RecvTypeOK
      <4>. QED BY <4>1 DEF CurrentPacket
    <3>3. Len(packets) \in Nat
      BY <1>1
    <3>. QED BY <3>1, <3>2, <3>3
  <2>2. taken = Start[c]
    BY <1>1
  <2>. HIDE DEF c
  <2>3. /\ n \in 0 .. IntMax /\ packets[c] \in Bodies
        /\ Len(Prefix(c)) = Size[n] /\ Size[n] \in Nat \ {0}
    BY <1>1, <2>1, BodyIs
  <2>4. Size[n] \in 1 .. Digits
    BY <1>1, <1>3, <2>1, <2>3, Bounds
  <2>5. \A k \in 1 .. Size[n] : Peeked[k] = Encode[n][k]
    <3>. TAKE k \in 1 .. Size[n]
    <3>1. k \in 1 .. Digits /\ k <= seen
      BY <1>3, <2>1, <2>4
    <3>2. Peeked[k] = Byte(Start[c] + k)
      BY <1>2, <2>2, <3>1
    <3>3. k \in 1 .. Ahead(c) /\ k <= Len(Prefix(c))
      BY <2>3 DEF Ahead
    <3>4. Byte(Start[c] + k) = Prefix(c)[k]
      BY <1>1, <2>1, <3>3, ByteIs
    <3>. QED BY <3>2, <3>4 DEF Prefix
  <2>6. Readable(Peeked) /\ BytesRead(Peeked) = Size[n] /\ Decode(Peeked) = n
    BY <1>2, <2>3, <2>5, ReadAsWritten
  <2>7. n + Size[n] \in 0 .. IntMax
    <3>1. n + Size[n] <= IntMax
      BY <2>3 DEF PacketsFit
    <3>. QED BY <1>3, <2>3, <3>1
  <2>. HIDE DEF n
  <2>8. PacketLength = n + Size[n]
    <3>. DEFINE l == n + Size[n]
    <3>1. l % (2 * (IntMax + 1)) = l
      <4>. HIDE DEF l
      <4>1. \A m \in Nat : l < m => l % m = l
        BY <2>7 DEF l
      <4>2. l < 2 * (IntMax + 1)
        BY <1>3, <2>7 DEF l
      <4>. QED BY <1>3, <4>1, <4>2
    <3>2. ~(l > IntMax)
      BY <1>3, <2>7
    <3>. HIDE DEF l
    <3>3. PacketLength = Wrap(l)
      BY <2>6 DEF PacketLength, l
    <3>4. PacketLength = l
      BY <3>1, <3>2, <3>3 DEF Wrap
    <3>. QED BY <3>4 DEF l
  <2>9. Start[c + 1] - Start[c] = n + Size[n]
    <3>1. Start[c + 1] = Start[c] + Ahead(c) /\ c \in 1 .. (Len(packets) + 1)
      BY <1>1, <2>1, StartIs
    <3>2. Start[c] \in Nat
      BY <1>1, <3>1, StartsGrow
    <3>3. Ahead(c) = Size[n] + n
      BY <2>3 DEF Ahead, n
    <3>. QED BY <2>3, <3>1, <3>2, <3>3, <2>7
  <2>. QED BY <1>3, <1>5, <2>6, <2>7, <2>8, <2>9 DEF c
<1>. QED BY <1>4, <1>5

LEMMA PacketsInit == RecvInit => RInv
<1>. SUFFICES ASSUME RecvInit PROVE RInv
  OBVIOUS
<1>1. packets \in Seq(Bodies) /\ RecvTypeOK /\ InStream
  BY InitTypes DEF RTypeInv
<1>2. received = <<>> /\ pc = "idle" /\ taken = 0
  BY DEF RecvInit
<1>3. InStep
  <2>1. Len(received) = 0 /\ CurrentPacket = 1 /\ Len(packets) \in Nat
    BY <1>1, <1>2 DEF CurrentPacket
  <2>. QED BY <1>1, <1>2, <2>1, StartIs DEF InStep
<1>. QED BY <1>1, <1>2, <1>3 DEF RInv, PrefixSeen, StillThere, LengthRead, NotGivenUp, Receiving

LEMMA PacketsStep == PacketsFit /\ RInv /\ [RecvNext]_recvVars => RInv'
<1>. SUFFICES ASSUME PacketsFit, RInv, [RecvNext]_recvVars PROVE RInv'
  OBVIOUS
<1>1. /\ packets \in Seq(Bodies) /\ RecvTypeOK /\ InStream /\ RTypeInv
      /\ InStep /\ PrefixSeen /\ StillThere /\ LengthRead /\ NotGivenUp
  BY DEF RInv, RTypeInv
<1>2. packets' \in Seq(Bodies) /\ RecvTypeOK' /\ InStream'
  BY <1>1, TypeStep DEF RTypeInv
<1>3. UNCHANGED packets
  BY DEF RecvNext, recvVars, client, Arrive, End, Peek, PeekTimeout, MallocFails, Parse, Read
<1>4. Start' = Start /\ Total' = Total
  BY <1>3, StreamStays
<1>5. /\ arrived \in Nat /\ taken \in Nat /\ taken <= arrived /\ arrived <= Total
      /\ Total \in Nat /\ Waiting \in Nat /\ Digits \in Nat \ {0} /\ seen \in Nat
  BY <1>1, Bounds
<1>6. Len(packets) \in Nat /\ Len(received) \in Nat
  BY <1>1 DEF RecvTypeOK
<1>. SUFFICES InStep' /\ PrefixSeen' /\ StillThere' /\ LengthRead' /\ NotGivenUp'
  BY <1>2 DEF RInv
<1>7. CASE Arrive
  <2>1. arrived' > arrived /\ ~ended
    BY <1>1, <1>4, <1>5, <1>7 DEF Arrive
  <2>2. UNCHANGED <<packets, ended, pc, seen, len, taken, received, whole, cut, cause>>
    BY <1>7 DEF Arrive
  <2>3. CurrentPacket <= Len(packets) => Start[CurrentPacket + 1] \in Nat
    <3>1. CurrentPacket <= Len(packets) => CurrentPacket + 1 \in 1 .. (Len(packets) + 1)
      BY <1>6 DEF CurrentPacket
    <3>. QED BY <1>1, <3>1, StartsGrow
  <2>4. StillThere'
    <3>1. CurrentPacket' = CurrentPacket
      BY <2>2 DEF CurrentPacket
    <3>2. arrived' \in Nat
      BY <1>2, <1>4, <1>5 DEF RecvTypeOK
    <3>. QED BY <1>1, <1>4, <1>5, <2>1, <2>2, <2>3, <3>1, <3>2 DEF StillThere, Receiving
  <2>. QED BY <1>1, <1>4, <2>1, <2>2, <2>4
           DEF InStep, PrefixSeen, LengthRead, NotGivenUp, Receiving, CurrentPacket
<1>8. CASE End
  BY <1>1, <1>4, <1>8 DEF End, InStep, PrefixSeen, StillThere, LengthRead, NotGivenUp,
     Receiving, CurrentPacket, Waiting
<1>9. CASE Peek
  <2>1. /\ UNCHANGED <<packets, arrived, ended, len, taken, received, cause>>
        /\ pc = "idle" /\ pc' = "parse"
        /\ Waiting > 0 \/ ended
        /\ seen' = Some(Digits)
        /\ whole' = (CurrentPacket <= Len(packets) /\ arrived >= Start[CurrentPacket + 1])
        /\ cut' = (cut \/ (seen' > 0 /\ seen' < Len(Prefix(CurrentPacket))))
    BY <1>9 DEF Peek, client
  <2>2. ~cut' => ~cut
    BY <2>1
  <2>3. CurrentPacket' = CurrentPacket /\ Waiting' = Waiting
    BY <2>1 DEF CurrentPacket, Waiting
  <2>4. InStep'
    BY <1>1, <1>4, <2>1, <2>2, <2>3 DEF InStep
  <2>5. StillThere'
    BY <1>4, <2>1, <2>3 DEF StillThere, Receiving
  <2>6. PrefixSeen'
    <3>. SUFFICES ASSUME ~cut'
                  PROVE  \/ seen' = 0 /\ ended /\ Waiting = 0 /\ ~whole'
                         \/ /\ seen' > 0 /\ CurrentPacket <= Len(packets)
                            /\ Size[Len(packets[CurrentPacket])] <= seen'
      BY <2>1, <2>3 DEF PrefixSeen
    <3>1. /\ ~cut /\ Len(received) <= Len(packets) /\ taken = Start[CurrentPacket]
          /\ ~(seen' > 0 /\ seen' < Len(Prefix(CurrentPacket)))
      BY <1>1, <2>1, <2>2 DEF InStep
    <3>2. seen' \in Nat /\ (seen' = Digits \/ seen' = Waiting)
      BY <1>1, <1>5, <2>1, SomeIs
    <3>3. CurrentPacket \in 1 .. (Len(packets) + 1)
      BY <1>6, <3>1 DEF CurrentPacket
    <3>4. CASE seen' = 0
      <4>1. Waiting = 0 /\ ended
        BY <1>5, <2>1, <3>2, <3>4
      <4>2. ASSUME CurrentPacket <= Len(packets) PROVE arrived < Start[CurrentPacket + 1]
        <5>1. CurrentPacket + 1 \in 1 .. (Len(packets) + 1) /\ CurrentPacket < CurrentPacket + 1
          BY <1>6, <3>3, <4>2
        <5>2. Start[CurrentPacket] < Start[CurrentPacket + 1]
          BY <1>1, <3>3, <5>1, StartsGrow
        <5>. QED BY <1>5, <3>1, <4>1, <5>2 DEF Waiting
      <4>3. CurrentPacket <= Len(packets) => Start[CurrentPacket + 1] \in Nat
        <5>1. CurrentPacket <= Len(packets) => CurrentPacket + 1 \in 1 .. (Len(packets) + 1)
          BY <1>6, <3>3
        <5>. QED BY <1>1, <5>1, StartsGrow
      <4>4. ~whole'
        <5>1. ~(CurrentPacket <= Len(packets) /\ arrived >= Start[CurrentPacket + 1])
          BY <1>5, <4>2, <4>3
        <5>. QED BY <2>1, <5>1, Zenon
      <4>. QED BY <3>4, <4>1, <4>4
    <3>5. CASE seen' # 0
      <4>1. Waiting > 0
        BY <1>1, <1>5, <2>1, <3>2, <3>5, SomeIs
      <4>2. CurrentPacket <= Len(packets)
        <5>. SUFFICES ASSUME CurrentPacket = Len(packets) + 1 PROVE FALSE
          BY <1>6, <3>3
        <5>1. taken = Total
          BY <3>1 DEF Total
        <5>. QED BY <1>5, <4>1, <5>1 DEF Waiting
      <4>3. /\ Len(Prefix(CurrentPacket)) = Size[Len(packets[CurrentPacket])]
            /\ Size[Len(packets[CurrentPacket])] \in Nat
        <5>1. CurrentPacket \in 1 .. Len(packets)
          BY <1>6, <3>3, <4>2
        <5>. QED BY <1>1, <5>1, BodyIs
      <4>. QED BY <3>1, <3>2, <3>5, <4>2, <4>3
    <3>. QED BY <3>4, <3>5
  <2>. QED BY <2>1, <2>4, <2>5, <2>6 DEF LengthRead, NotGivenUp
<1>10. CASE PeekTimeout
  BY <1>1, <1>4, <1>10 DEF PeekTimeout, client, InStep, PrefixSeen, StillThere, LengthRead,
     NotGivenUp, Receiving
<1>11. CASE MallocFails
  BY <1>1, <1>4, <1>11 DEF MallocFails, client, InStep, PrefixSeen, StillThere, LengthRead,
     NotGivenUp, Receiving
<1>12. CASE Parse
  <2>1. /\ UNCHANGED <<packets, arrived, ended, seen, taken, received, whole, cut, cause>>
        /\ pc = "parse" /\ CurrentPacket' = CurrentPacket /\ Waiting' = Waiting
    BY <1>12 DEF Parse, client, CurrentPacket, Waiting
  <2>2. CASE Readable(Peeked) /\ PacketLength >= 0
    <3>1. len' = PacketLength /\ pc' = "read"
      BY <1>12, <2>2 DEF Parse
    <3>2. LengthRead'
      BY <1>4, <2>1, <2>2, <3>1, LengthOfPacket DEF LengthRead
    <3>. QED BY <1>1, <1>4, <2>1, <3>1, <3>2 DEF InStep, PrefixSeen, StillThere,
                NotGivenUp, Receiving
  <2>3. CASE ~(Readable(Peeked) /\ PacketLength >= 0)
    <3>1. pc' = "failed" /\ UNCHANGED len
      BY <1>12, <2>3 DEF Parse
    <3>2. ~cut => ~whole
      BY <1>1, <2>1, <2>3, LengthOfPacket DEF PrefixSeen, Receiving
    <3>. QED BY <1>1, <1>4, <2>1, <3>1, <3>2 DEF InStep, PrefixSeen, StillThere,
                LengthRead, NotGivenUp, Receiving
  <2>. QED BY <2>2, <2>3
<1>13. CASE Read
  <2>. DEFINE n == Some(len)
  <2>1. /\ pc = "read" /\ taken' = taken + n
        /\ UNCHANGED <<packets, arrived, ended, seen, len, whole, cut, cause>>
    BY <1>13 DEF Read, client
  <2>2. len \in Nat
    BY <1>1, <2>1, VarintAssumption DEF InStream, RecvTypeOK, Ints
  <2>3. n \in Nat /\ n <= Waiting /\ (len <= Waiting => n = len)
    BY <1>1, <2>2, SomeIs
  <2>. HIDE DEF n
  <2>4. CASE n = len
    <3>1. received' = Append(received, <<taken, taken + n>>) /\ pc' = "idle"
      BY <1>13, <2>4 DEF Read, Complete, n
    <3>2. InStep'
      <4>. SUFFICES ASSUME ~cut
                    PROVE  /\ Len(received') <= Len(packets)
                           /\ \A k \in 1 .. Len(received') : received'[k] = <<Start[k], Start[k + 1]>>
                           /\ taken' = Start[Len(received') + 1]
        BY <1>4, <2>1, <3>1 DEF InStep, CurrentPacket
      <4>1. seen # 0
        <5>1. seen = 0 => len > 0 /\ Waiting = 0
          BY <1>1, <1>5, <2>1 DEF LengthRead, PrefixSeen, Receiving
        <5>. QED BY <1>5, <2>2, <2>3, <2>4, <5>1
      <4>2. /\ len = Start[CurrentPacket + 1] - Start[CurrentPacket] /\ CurrentPacket <= Len(packets)
            /\ taken = Start[CurrentPacket]
        BY <1>1, <2>1, <4>1 DEF LengthRead, PrefixSeen, Receiving, InStep
      <4>3. Start[CurrentPacket] \in Nat /\ Start[CurrentPacket + 1] \in Nat
        <5>1. CurrentPacket \in 1 .. (Len(packets) + 1) /\ CurrentPacket + 1 \in 1 .. (Len(packets) + 1)
          BY <1>6, <4>2 DEF CurrentPacket
        <5>. QED BY <1>1, <5>1, StartsGrow
      <4>4. taken + n = Start[CurrentPacket + 1]
        BY <1>5, <2>4, <4>2, <4>3
      <4>5. received \in Seq((0 .. Total) \X (0 .. Total))
        BY <1>1 DEF RecvTypeOK
      <4>6. /\ Len(received') = Len(received) + 1
            /\ \A k \in 1 .. Len(received) : received'[k] = received[k]
            /\ received'[Len(received) + 1] = <<taken, taken + n>>
        <5>. DEFINE S == (0 .. Total) \X (0 .. Total)
                    x == <<taken, taken + n>>
        <5>1. x \in S
          BY <1>5, <2>3 DEF Waiting
        <5>. HIDE DEF S, x
        <5>2. received \in Seq(S)
          BY <4>5 DEF S
        <5>3. received' = Append(received, x)
          BY <3>1 DEF x
        <5>. QED BY <5>1, <5>2, <5>3, AppendProperties DEF x
      <4>7. \A k \in 1 .. Len(received) : received[k] = <<Start[k], Start[k + 1]>>
        BY <1>1 DEF InStep
      <4>8. received'[Len(received) + 1] = <<Start[Len(received) + 1], Start[(Len(received) + 1) + 1]>>
        BY <4>2, <4>4, <4>6 DEF CurrentPacket
      <4>9. \A k \in 1 .. (Len(received) + 1) : k \in 1 .. Len(received) \/ k = Len(received) + 1
        BY <1>6
      <4>. QED BY <1>6, <2>1, <4>2, <4>4, <4>6, <4>7, <4>8, <4>9 DEF CurrentPacket
    <3>. QED BY <3>1, <3>2 DEF PrefixSeen, StillThere, LengthRead, NotGivenUp, Receiving
  <2>5. CASE n # len
    <3>1. pc' = "failed" /\ UNCHANGED received
      BY <1>13, <2>5 DEF Read, Complete, n
    <3>2. InStep'
      BY <1>1, <1>4, <2>1, <3>1 DEF InStep
    <3>3. ASSUME ~cut PROVE ~whole
      <4>. SUFFICES ASSUME whole PROVE FALSE
        OBVIOUS
      <4>1. /\ seen # 0
            /\ CurrentPacket <= Len(packets) /\ arrived >= Start[CurrentPacket + 1]
            /\ taken = Start[CurrentPacket]
            /\ len = Start[CurrentPacket + 1] - Start[CurrentPacket]
        BY <1>1, <2>1, <3>3 DEF PrefixSeen, StillThere, LengthRead, InStep, Receiving
      <4>2. Start[CurrentPacket] \in Nat /\ Start[CurrentPacket + 1] \in Nat
        <5>1. CurrentPacket \in 1 .. (Len(packets) + 1) /\ CurrentPacket + 1 \in 1 .. (Len(packets) + 1)
          BY <1>6, <4>1 DEF CurrentPacket
        <5>. QED BY <1>1, <5>1, StartsGrow
      <4>3. len <= Waiting
        BY <1>5, <4>1, <4>2 DEF Waiting
      <4>. QED BY <2>3, <2>5, <4>3
    <3>. QED BY <2>1, <3>1, <3>2, <3>3 DEF PrefixSeen, StillThere, LengthRead, NotGivenUp,
                Receiving
  <2>. QED BY <2>4, <2>5
<1>14. CASE UNCHANGED recvVars
  BY <1>1, <1>4, <1>14 DEF recvVars, client, InStep, PrefixSeen, StillThere, LengthRead,
     NotGivenUp, Receiving, CurrentPacket, Waiting
<1>. QED BY <1>7, <1>8, <1>9, <1>10, <1>11, <1>12, <1>13, <1>14 DEF RecvNext

-----------------------------------------------------------------------------
(* The theorems.                                                           *)

\* Every variable of network_recv's model has its type, whatever is sent.
THEOREM RecvTypeCorrect == RecvSpec => []RecvTypeOK
<1>1. RecvSpec => []RTypeInv
  BY InitTypes, TypeStep, PTL DEF RecvSpec
<1>2. RTypeInv => RecvTypeOK
  BY DEF RTypeInv
<1>. QED BY <1>1, <1>2, PTL

\* varint_read gives back what varint_write wrote, over every digit and int, and
\* takes as many bytes as varint_size says.
THEOREM LengthsAreReadBack == RecvSpec => []LengthsReadBack
<1>1. ASSUME RTypeInv, pc = "parse" PROVE LengthsReadBack
  <2>. SUFFICES ASSUME NEW n \in 0 .. IntMax
                PROVE  LET bytes == Encode[n] \o Peeked
                       IN /\ Len(Encode[n]) = Size[n] /\ Size[n] <= Digits
                          /\ Readable(bytes) /\ BytesRead(bytes) = Size[n]
                          /\ Decode(bytes) = n
    BY DEF LengthsReadBack
  <2>. DEFINE e == Encode[n]
              bytes == e \o Peeked
  <2>1. IntMax \in Nat /\ Digits \in Nat
    BY VarintAssumption
  <2>2. /\ e \in Seq(Bytes) /\ Len(e) = Size[n] /\ Size[n] \in Nat /\ Size[n] <= Digits
    BY <2>1, EncodeWritten, SizeAllowed DEF Written
  <2>3. Peeked \in Seq(Nat) /\ Len(Peeked) = Digits
    <3>1. \A k \in 1 .. Digits : Peeked[k] \in Nat
      BY <1>1, PeekedIs DEF RTypeInv, InStream
    <3>2. Peeked = [k \in 1 .. Digits |-> Peeked[k]]
      BY DEF Peeked
    <3>3. Peeked \in [1 .. Digits -> Nat]
      BY <3>1, <3>2
    <3>. QED BY <2>1, <3>3
  <2>4. e \in Seq(Nat)
    <3>1. Bytes \subseteq Nat
      BY VarintAssumption DEF Bytes
    <3>. QED BY <2>2, <3>1, SeqMonotonic
  <2>. HIDE DEF e
  <2>5. /\ bytes \in Seq(Nat) /\ Len(bytes) = Size[n] + Digits
        /\ \A k \in 1 .. Size[n] : bytes[k] = e[k]
    <3>1. /\ bytes \in Seq(Nat) /\ Len(bytes) = Len(e) + Len(Peeked)
          /\ \A k \in 1 .. (Len(e) + Len(Peeked)) :
               bytes[k] = IF k <= Len(e) THEN e[k] ELSE Peeked[k - Len(e)]
      BY <2>3, <2>4, ConcatProperties
    <3>. HIDE DEF bytes
    <3>2. PICK m \in Nat : m = Size[n]
      BY <2>2
    <3>3. Len(e) = m /\ Len(Peeked) = Digits
      BY <2>2, <2>3, <3>2
    <3>4. Len(bytes) = m + Digits
      BY <3>1, <3>3
    <3>5. \A k \in 1 .. m : k \in 1 .. (m + Digits) /\ k <= m
      BY <2>1
    <3>6. \A k \in 1 .. m : bytes[k] = e[k]
      BY <3>1, <3>3, <3>5
    <3>. QED BY <3>1, <3>2, <3>4, <3>6
  <2>. HIDE DEF bytes
  <2>6. \A k \in 1 .. Digits : bytes[k] \in Nat
    <3>1. \A k \in 1 .. Digits : k \in 1 .. Len(bytes)
      BY <2>1, <2>2, <2>5
    <3>. QED BY <2>5, <3>1, ElementOfSeq
  <2>7. Readable(bytes) /\ BytesRead(bytes) = Size[n] /\ Decode(bytes) = n
    BY <2>5, <2>6, ReadAsWritten DEF e
  <2>. QED BY <2>2, <2>7 DEF bytes, e
<1>2. RTypeInv => LengthsReadBack
  BY <1>1 DEF LengthsReadBack
<1>3. RecvSpec => []RTypeInv
  BY InitTypes, TypeStep, PTL DEF RecvSpec
<1>. QED BY <1>2, <1>3, PTL

\* However the stream is cut up on its way, network_recv returns the packets of
\* the client whole, in order and one a call, until it has seen a part of a
\* prefix only; and it gives up none that had arrived without a cause.
THEOREM PacketsAreWhole ==
  ASSUME PacketsFit
  PROVE  RecvSpec => []PacketsWhole
<1>1. RecvSpec => []RInv
  BY PacketsInit, PacketsStep, PTL DEF RecvSpec
<1>2. RInv /\ LengthsReadBack => PacketsWhole
  BY DEF RInv, InStep, NotGivenUp, PacketsWhole
<1>. QED BY <1>1, <1>2, LengthsAreReadBack, PTL


-----------------------------------------------------------------------------
(* Sequences of bytes.                                                     *)

LEMMA PacketBounds ==
  /\ Base \in Nat \ {0, 1} /\ Digits \in Nat \ {0} /\ IntMax \in Nat
  /\ AddressSize \in Nat \ {0} /\ JsonSize \in Nat \ {0}
  /\ BufferSize \in Nat
  /\ AddressSize <= JsonSize
  /\ BufferSize <= IntMax /\ 1 + Digits + JsonSize <= IntMax
  /\ \A b \in Bytes : b \in Nat
<1>1. /\ Base \in Nat \ {0, 1} /\ Digits \in Nat \ {0} /\ IntMax \in Nat
      /\ \A b \in Bytes : b \in Nat
  BY VarintAssumption DEF Bytes
<1>2. /\ AddressSize \in Nat /\ JsonSize \in Nat /\ BufferSize \in Nat
      /\ AddressSize \in 1 .. JsonSize
      /\ BufferSize <= IntMax /\ 1 + Digits + JsonSize <= IntMax
  BY PacketsAssumption
<1>3. AddressSize \in Nat \ {0} /\ JsonSize \in Nat \ {0} /\ AddressSize <= JsonSize
  BY <1>2
<1>. QED BY <1>1, <1>2, <1>3

\* A part of a sequence that lies within it.
LEMMA PartOf ==
  ASSUME NEW s \in Seq(Bytes), NEW p \in Nat \ {0}, NEW n \in Nat, p + n - 1 <= Len(s)
  PROVE  /\ SubSeq(s, p, p + n - 1) \in Seq(Bytes)
         /\ Len(SubSeq(s, p, p + n - 1)) = n
         /\ \A k \in 1 .. n : SubSeq(s, p, p + n - 1)[k] = s[p + k - 1]
<1>1. Len(s) \in Nat /\ s = [k \in 1 .. Len(s) |-> s[k]]
  OBVIOUS
<1>2. p + n - 1 \in Int /\ p \in Int
  OBVIOUS
<1>3. \A k \in 1 .. n : p + k - 1 \in 1 .. Len(s) /\ s[p + k - 1] \in Bytes
  BY <1>1
<1>4. Len(SubSeq(s, p, p + n - 1)) = n
  BY <1>1
<1>5. \A k \in 1 .. n : SubSeq(s, p, p + n - 1)[k] = s[p + k - 1]
  BY <1>1
<1>6. SubSeq(s, p, p + n - 1) \in Seq(Bytes)
  BY <1>1, <1>3
<1>. QED BY <1>4, <1>5, <1>6

\* A sequence begins at p in another, as far as both have received.
Begins(memory, p, s, n) == \A k \in 1 .. n : memory[p + k - 1] = s[k]

LEMMA MemoryIs ==
  ASSUME NEW bytes \in Seq(Bytes), NEW beyond \in Beyond
  PROVE  /\ Memory(bytes, beyond) \in Seq(Bytes)
         /\ Len(Memory(bytes, beyond)) = Len(bytes) + 2 * JsonSize + 6 * Digits
         /\ \A k \in 1 .. Len(bytes) : Memory(bytes, beyond)[k] = bytes[k]
<1>. DEFINE N == Len(bytes) + 2 * JsonSize + 6 * Digits
            at(k) == beyond[1 + ((k - Len(bytes)) % Len(beyond))]
            byte(k) == IF k <= Len(bytes) THEN bytes[k] ELSE at(k)
<1>1. N \in Nat /\ Len(bytes) \in Nat /\ Len(bytes) <= N
  BY PacketBounds
<1>2. beyond \in Seq(Bytes) /\ Len(beyond) \in Nat \ {0}
  BY PacketsAssumption
<1>3. ASSUME NEW k \in 1 .. N PROVE byte(k) \in Bytes
  <2>1. CASE k <= Len(bytes)
    BY <2>1
  <2>2. CASE ~(k <= Len(bytes))
    <3>1. k - Len(bytes) \in Nat
      BY <1>1, <2>2
    <3>2. (k - Len(bytes)) % Len(beyond) \in 0 .. (Len(beyond) - 1)
      BY <1>2, <3>1, DivMod
    <3>3. 1 + ((k - Len(bytes)) % Len(beyond)) \in 1 .. Len(beyond)
      BY <1>2, <3>2
    <3>. QED BY <1>2, <2>2, <3>3
  <2>. QED BY <2>1, <2>2
<1>4. Memory(bytes, beyond) = [k \in 1 .. N |-> byte(k)]
  BY DEF Memory
<1>. HIDE DEF N, byte
<1>5. Memory(bytes, beyond) \in Seq(Bytes) /\ Len(Memory(bytes, beyond)) = N
  BY <1>1, <1>3, <1>4
<1>6. \A k \in 1 .. Len(bytes) : Memory(bytes, beyond)[k] = bytes[k]
  BY <1>1, <1>4 DEF byte
<1>. QED BY <1>5, <1>6 DEF N

-----------------------------------------------------------------------------
(* The readers of util/types.c.                                            *)

LEMMA EncodeLength ==
  ASSUME NEW n \in 0 .. IntMax
  PROVE  /\ Encode[n] \in Seq(Bytes) /\ Len(Encode[n]) = Size[n] /\ Size[n] \in 1 .. Digits
         /\ Size[n] \in Nat /\ Size[n] > 0 /\ Written(n)
<1>1. n \in Nat /\ Digits \in Nat
  BY PacketBounds
<1>2. Written(n) /\ Size[n] <= Digits
  BY <1>1, EncodeWritten, SizeAllowed
<1>3. /\ Encode[n] \in Seq(Bytes) /\ Len(Encode[n]) = Size[n]
      /\ Size[n] \in Nat /\ Size[n] > 0
  BY <1>2 DEF Written
<1>. QED BY <1>1, <1>2, <1>3

LEMMA DigitsAt ==
  ASSUME NEW memory \in Seq(Bytes), NEW p \in Nat \ {0}, p + Digits - 1 <= Len(memory)
  PROVE  /\ \A k \in 1 .. Digits : SubSeq(memory, p, p + Digits - 1)[k] = memory[p + k - 1]
         /\ \A k \in 1 .. Digits : SubSeq(memory, p, p + Digits - 1)[k] \in Nat
<1>. DEFINE part == SubSeq(memory, p, p + Digits - 1)
<1>1. Digits \in Nat /\ \A b \in Bytes : b \in Nat
  BY PacketBounds
<1>2. /\ part \in Seq(Bytes) /\ Len(part) = Digits
      /\ \A k \in 1 .. Digits : part[k] = memory[p + k - 1]
  BY <1>1, PartOf
<1>. HIDE DEF part
<1>3. \A k \in 1 .. Digits : part[k] \in Nat
  BY <1>1, <1>2
<1>. QED BY <1>2, <1>3 DEF part

\* A number takes at most Digits bytes, and one at least when it is read.
LEMMA IntReads ==
  ASSUME NEW memory \in Seq(Bytes), NEW p \in Nat \ {0}, p + Digits - 1 <= Len(memory)
  PROVE  /\ IntAt(memory, p).next \in p .. (p + Digits)
         /\ IntAt(memory, p).ok => IntAt(memory, p).value \in Ints
<1>. DEFINE bytes == SubSeq(memory, p, p + Digits - 1)
<1>1. \A k \in 1 .. Digits : bytes[k] \in Nat
  BY DigitsAt
<1>. HIDE DEF bytes
<1>2. CASE Readable(bytes)
  <2>1. IntAt(memory, p) = [ok |-> TRUE, value |-> Decode(bytes), next |-> p + BytesRead(bytes)]
    BY <1>2 DEF IntAt, bytes
  <2>2. Decode(bytes) \in Ints /\ BytesRead(bytes) \in 1 .. Digits
    BY <1>1, <1>2, ReadIsInt
  <2>. QED BY <2>1, <2>2, PacketBounds
<1>3. CASE ~Readable(bytes)
  <2>1. IntAt(memory, p) = [ok |-> FALSE, value |-> 0, next |-> p]
    BY <1>3 DEF IntAt, bytes
  <2>. QED BY <2>1, PacketBounds
<1>. QED BY <1>2, <1>3

\* A number that was written whole is read back ...
LEMMA IntReadBack ==
  ASSUME NEW memory \in Seq(Bytes), NEW p \in Nat \ {0}, p + Digits - 1 <= Len(memory),
         NEW n \in 0 .. IntMax, Begins(memory, p, Encode[n], Size[n])
  PROVE  IntAt(memory, p) = [ok |-> TRUE, value |-> n, next |-> p + Size[n]]
<1>. DEFINE bytes == SubSeq(memory, p, p + Digits - 1)
<1>1. /\ \A k \in 1 .. Digits : bytes[k] = memory[p + k - 1]
      /\ \A k \in 1 .. Digits : bytes[k] \in Nat
  BY DigitsAt
<1>2. Size[n] \in 1 .. Digits
  BY EncodeLength
<1>. HIDE DEF bytes
<1>3. \A k \in 1 .. Size[n] : bytes[k] = Encode[n][k]
  BY <1>1, <1>2, PacketBounds DEF Begins
<1>4. Readable(bytes) /\ BytesRead(bytes) = Size[n] /\ Decode(bytes) = n
  BY <1>1, <1>3, ReadAsWritten
<1>. QED BY <1>4 DEF IntAt, bytes

\* ... and of one that was cut off the reader takes more than there is.
LEMMA IntCutOff ==
  ASSUME NEW memory \in Seq(Bytes), NEW p \in Nat \ {0}, p + Digits - 1 <= Len(memory),
         NEW n \in 0 .. IntMax, NEW m \in 0 .. (Size[n] - 1), Begins(memory, p, Encode[n], m),
         IntAt(memory, p).ok
  PROVE  IntAt(memory, p).next > p + m
<1>. DEFINE bytes == SubSeq(memory, p, p + Digits - 1)
            r == BytesRead(bytes)
<1>1. /\ \A k \in 1 .. Digits : bytes[k] = memory[p + k - 1]
      /\ \A k \in 1 .. Digits : bytes[k] \in Nat
  BY DigitsAt
<1>2. Written(n) /\ Size[n] \in 1 .. Digits
  BY EncodeLength
<1>. HIDE DEF bytes
<1>0. Base \in Nat /\ Digits \in Nat /\ n \in Nat
  BY PacketBounds
<1>3. ASSUME NEW k \in 1 .. m PROVE bytes[k] >= Base
  <2>1. k \in 1 .. (Size[n] - 1) /\ k \in 1 .. Digits
    BY <1>0, <1>2
  <2>2. Encode[n][k] >= Base
    BY <1>2, <2>1 DEF Written
  <2>3. bytes[k] = Encode[n][k]
    BY <1>1, <2>1 DEF Begins
  <2>. QED BY <2>2, <2>3
<1>4. Readable(bytes)
  <2>1. CASE ~Readable(bytes)
    <3>1. IntAt(memory, p) = [ok |-> FALSE, value |-> 0, next |-> p]
      BY <2>1 DEF IntAt, bytes
    <3>. QED BY <3>1
  <2>. QED BY <2>1
<1>5. IntAt(memory, p).next = p + r
  BY <1>4 DEF IntAt, bytes
<1>6. r \in 1 .. Digits /\ bytes[r] < Base
  <2>1. \E k \in 1 .. Digits : bytes[k] < Base /\ \A i \in 1 .. (k - 1) : bytes[i] >= Base
    <3>. DEFINE T == {k \in 1 .. Digits : bytes[k] < Base}
    <3>1. T \subseteq Nat /\ T # {}
      BY <1>0, <1>4 DEF Readable
    <3>2. PICK k \in T : \A i \in T : k <= i
      BY <3>1, LeastNumber
    <3>3. \A i \in 1 .. (k - 1) : bytes[i] >= Base
      BY <1>0, <1>1, <3>2
    <3>. QED BY <3>2, <3>3
  <2>. QED BY <2>1 DEF BytesRead
<1>7. r > m
  <2>1. ASSUME ~(r > m) PROVE FALSE
    <3>1. r \in 1 .. m
      BY <1>0, <1>2, <1>6, <2>1
    <3>2. bytes[r] >= Base /\ bytes[r] \in Nat
      BY <1>1, <1>3, <1>6, <3>1
    <3>. QED BY <1>0, <1>6, <3>2
  <2>. QED BY <2>1
<1>. QED BY <1>2, <1>5, <1>6, <1>7, PacketBounds

LEMMA StringReads ==
  ASSUME NEW memory \in Seq(Bytes), NEW p \in Nat \ {0}, p + Digits - 1 <= Len(memory),
         NEW size \in Nat
  PROVE  StringAt(memory, p, size).next \in p .. (p + Digits + size)
<1>. DEFINE n == IntAt(memory, p)
<1>1. n.next \in p .. (p + Digits) /\ (n.ok => n.value \in Int)
  BY IntReads, PacketBounds DEF Ints
<1>. HIDE DEF n
<1>2. CASE n.ok /\ n.value >= 0 /\ n.value <= size
  <2>1. StringAt(memory, p, size).next = n.next + n.value
    BY <1>2 DEF StringAt, n
  <2>. QED BY <1>1, <1>2, <2>1, PacketBounds
<1>3. CASE ~(n.ok /\ n.value >= 0 /\ n.value <= size)
  <2>1. StringAt(memory, p, size).next = n.next
    BY <1>3 DEF StringAt, n
  <2>. QED BY <1>1, <2>1, PacketBounds
<1>. QED BY <1>2, <1>3

\* The bytes of a packet from p on, of which the memory has those up to end.
Within(wire, p, s) ==
  /\ p \in Nat \ {0} /\ p + Len(s) - 1 <= Len(wire)
  /\ \A k \in 1 .. Len(s) : wire[p + k - 1] = s[k]

Holds(memory, wire, end) ==
  /\ memory \in Seq(Bytes) /\ end \in 0 .. Len(wire) /\ end <= Len(memory)
  /\ \A k \in 1 .. end : memory[k] = wire[k]

\* What has been read is what was written, or more than there is.
AnInt(n, p) == [ok |-> TRUE, value |-> n, next |-> p + Size[n]]

LEMMA IntField ==
  ASSUME NEW memory, NEW wire \in Seq(Bytes), NEW end, Holds(memory, wire, end),
         NEW n \in 0 .. IntMax, NEW p, Within(wire, p, Encode[n]),
         p + Digits - 1 <= Len(memory), p <= end + 1
  PROVE  /\ p + Size[n] <= end + 1 => IntAt(memory, p) = AnInt(n, p)
         /\ IntAt(memory, p).ok =>
              IntAt(memory, p) = AnInt(n, p) \/ IntAt(memory, p).next > end + 1
<1>1. Written(n) /\ Len(Encode[n]) = Size[n] /\ Size[n] \in Nat
  BY EncodeLength
<1>2. memory \in Seq(Bytes) /\ end \in Nat /\ p \in Nat \ {0} /\ Len(wire) \in Nat
  BY DEF Holds, Within
<1>3. CASE p + Size[n] <= end + 1
  <2>1. Begins(memory, p, Encode[n], Size[n])
    <3>1. ASSUME NEW k \in 1 .. Size[n] PROVE memory[p + k - 1] = Encode[n][k]
      <4>1. p + k - 1 \in 1 .. end
        BY <1>1, <1>2, <1>3
      <4>. QED BY <1>1, <4>1 DEF Holds, Within
    <3>. QED BY <3>1 DEF Begins
  <2>. QED BY <1>2, <2>1, IntReadBack DEF AnInt
<1>4. CASE ~(p + Size[n] <= end + 1)
  <2>. DEFINE m == end - p + 1
  <2>1. m \in 0 .. (Size[n] - 1)
    BY <1>1, <1>2, <1>4
  <2>2. Begins(memory, p, Encode[n], m)
    <3>1. ASSUME NEW k \in 1 .. m PROVE memory[p + k - 1] = Encode[n][k]
      <4>1. p + k - 1 \in 1 .. end /\ k \in 1 .. Len(Encode[n])
        BY <1>1, <1>2, <2>1
      <4>. QED BY <4>1 DEF Holds, Within
    <3>. QED BY <3>1 DEF Begins
  <2>3. IntAt(memory, p).ok => IntAt(memory, p).next > p + m
    BY <1>2, <2>1, <2>2, IntCutOff
  <2>. QED BY <1>2, <1>4, <2>3
<1>. QED BY <1>3, <1>4

LEMMA WithinParts ==
  ASSUME NEW wire \in Seq(Bytes), NEW p, NEW s \in Seq(Bytes), NEW t \in Seq(Bytes),
         Within(wire, p, s \o t)
  PROVE  Within(wire, p, s) /\ Within(wire, p + Len(s), t)
<1>1. /\ Len(s \o t) = Len(s) + Len(t)
      /\ \A k \in 1 .. (Len(s) + Len(t)) :
           (s \o t)[k] = IF k <= Len(s) THEN s[k] ELSE t[k - Len(s)]
  BY ConcatProperties
<1>2. /\ p \in Nat \ {0} /\ Len(s) \in Nat /\ Len(t) \in Nat /\ Len(wire) \in Nat
      /\ p + (Len(s) + Len(t)) - 1 <= Len(wire)
  BY <1>1 DEF Within
<1>3. ASSUME NEW k \in 1 .. Len(s) PROVE wire[p + k - 1] = s[k]
  <2>1. k \in 1 .. (Len(s) + Len(t)) /\ k <= Len(s)
    BY <1>2
  <2>. QED BY <1>1, <2>1 DEF Within
<1>4. ASSUME NEW k \in 1 .. Len(t) PROVE wire[(p + Len(s)) + k - 1] = t[k]
  <2>1. /\ Len(s) + k \in 1 .. (Len(s) + Len(t)) /\ ~(Len(s) + k <= Len(s))
        /\ (Len(s) + k) - Len(s) = k
    BY <1>2
  <2>2. wire[p + (Len(s) + k) - 1] = t[k]
    BY <1>1, <2>1 DEF Within
  <2>3. p + (Len(s) + k) - 1 = (p + Len(s)) + k - 1
    BY <1>2
  <2>. QED BY <2>2, <2>3
<1>5. /\ p + Len(s) - 1 <= Len(wire) /\ p + Len(s) \in Nat \ {0}
      /\ (p + Len(s)) + Len(t) - 1 <= Len(wire)
  BY <1>2
<1>6. Within(wire, p, s)
  BY <1>2, <1>3, <1>5 DEF Within
<1>7. Within(wire, p + Len(s), t)
  BY <1>4, <1>5 DEF Within
<1>. QED BY <1>6, <1>7

AString(text, p) ==
  [ok |-> TRUE, value |-> text, next |-> p + Size[Len(text)] + Len(text)]

LEMMA StringField ==
  ASSUME NEW memory, NEW wire \in Seq(Bytes), NEW end, Holds(memory, wire, end),
         NEW text \in Seq(Bytes), NEW size \in Nat, Len(text) <= size, Len(text) <= IntMax,
         NEW p, Within(wire, p, Encode[Len(text)] \o text),
         p + Digits - 1 <= Len(memory), p <= end + 1
  PROVE  /\ p + Size[Len(text)] + Len(text) <= end + 1 =>
              StringAt(memory, p, size) = AString(text, p)
         /\ StringAt(memory, p, size).ok =>
              \/ StringAt(memory, p, size).next = p + Size[Len(text)] + Len(text)
              \/ StringAt(memory, p, size).next > end + 1
<1>. DEFINE t == Len(text)
            e == Encode[t]
            z == Size[t]
            n == IntAt(memory, p)
<1>1. /\ t \in 0 .. IntMax /\ t \in Nat /\ e \in Seq(Bytes) /\ Len(e) = z /\ z \in Nat
  <2>1. t \in Nat /\ t \in 0 .. IntMax
    BY PacketBounds
  <2>. QED BY <2>1, EncodeLength
<1>2. /\ memory \in Seq(Bytes) /\ end \in Nat /\ p \in Nat \ {0}
      /\ Len(wire) \in Nat /\ Len(memory) \in Nat
  BY DEF Holds, Within
<1>. HIDE DEF e, z, n
<1>4. Within(wire, p, e) /\ Within(wire, p + z, text)
  <2>1. Within(wire, p, e \o text)
    BY DEF e
  <2>2. e \in Seq(Bytes) /\ Len(e) = z
    BY <1>1
  <2>. QED BY <2>1, <2>2, WithinParts
<1>5. ASSUME NEW k \in 1 .. t PROVE wire[p + z + k - 1] = text[k]
  BY <1>4 DEF Within
<1>6. /\ p + z <= end + 1 => n = AnInt(t, p)
      /\ n.ok => n = AnInt(t, p) \/ n.next > end + 1
  BY <1>1, <1>4, IntField DEF e, z, n
<1>7. ASSUME n = AnInt(t, p)
      PROVE  StringAt(memory, p, size) =
               [ok |-> TRUE, value |-> SubSeq(memory, p + z, p + z + t - 1),
                next |-> p + z + t]
  <2>1. n.ok /\ n.value = t /\ n.next = p + z
    BY <1>7 DEF AnInt, z
  <2>. QED BY <1>1, <2>1 DEF StringAt, n
<1>8. ASSUME p + z + t <= end + 1 PROVE StringAt(memory, p, size) = AString(text, p)
  <2>1. n = AnInt(t, p)
    BY <1>1, <1>2, <1>6, <1>8
  <2>2. end <= Len(memory)
    BY DEF Holds
  <2>3. p + z \in Nat \ {0} /\ p + z + t - 1 <= Len(memory)
    BY <1>1, <1>2, <1>8, <2>2
  <2>4. SubSeq(memory, p + z, p + z + t - 1) = text
    <3>. DEFINE part == SubSeq(memory, p + z, p + z + t - 1)
    <3>1. part \in Seq(Bytes) /\ Len(part) = t
          /\ \A k \in 1 .. t : part[k] = memory[p + z + k - 1]
      BY <1>1, <1>2, <2>3, PartOf
    <3>2. ASSUME NEW k \in 1 .. t PROVE memory[p + z + k - 1] = text[k]
      <4>1. p + z + k - 1 \in 1 .. end
        BY <1>1, <1>2, <1>8
      <4>. QED BY <1>5, <4>1 DEF Holds
    <3>. HIDE DEF part
    <3>3. Len(text) = t /\ \A k \in 1 .. t : part[k] = text[k]
      BY <3>1, <3>2
    <3>4. part = text
      BY <3>1, <3>3, SeqEqual
    <3>. QED BY <3>4 DEF part
  <2>. QED BY <1>7, <2>1, <2>4 DEF AString, z
<1>9. ASSUME StringAt(memory, p, size).ok
      PROVE  \/ StringAt(memory, p, size).next = p + z + t
             \/ StringAt(memory, p, size).next > end + 1
  <2>1. CASE n = AnInt(t, p)
    BY <1>7, <2>1
  <2>2. CASE n # AnInt(t, p)
    <3>1. n.ok /\ n.value >= 0 /\ n.value <= size
      <4>1. CASE ~(n.ok /\ n.value >= 0 /\ n.value <= size)
        <5>1. StringAt(memory, p, size) = [ok |-> FALSE, value |-> <<>>, next |-> n.next]
          BY <4>1 DEF StringAt, n
        <5>. QED BY <1>9, <5>1
      <4>. QED BY <4>1
    <3>2. n.next > end + 1
      BY <1>6, <2>2, <3>1
    <3>3. StringAt(memory, p, size).next = n.next + n.value
      BY <3>1 DEF StringAt, n
    <3>4. n.next \in Nat /\ n.value \in Int
      <4>1. n.next \in p .. (p + Digits) /\ n.value \in Ints
        BY <1>2, <3>1, IntReads DEF n
      <4>2. Digits \in Nat /\ IntMax \in Nat
        BY PacketBounds
      <4>. QED BY <1>2, <4>1, <4>2 DEF Ints
    <3>. QED BY <1>2, <3>1, <3>2, <3>3, <3>4
  <2>. QED BY <2>1, <2>2
<1>. QED BY <1>8, <1>9 DEF z

\* A field that begins at p, read at q: there, or already behind the end.
LEMMA IntNext ==
  ASSUME NEW memory, NEW wire \in Seq(Bytes), NEW end, Holds(memory, wire, end),
         NEW n \in 0 .. IntMax, NEW p, Within(wire, p, Encode[n]),
         NEW q \in Nat \ {0}, q + Digits - 1 <= Len(memory), q = p \/ q > end + 1
  PROVE  /\ IntAt(memory, q).next \in q .. (q + Digits)
         /\ q = p /\ p + Size[n] <= end + 1 => IntAt(memory, q) = AnInt(n, p)
         /\ IntAt(memory, q).ok =>
              IntAt(memory, q).next = p + Size[n] \/ IntAt(memory, q).next > end + 1
<1>1. memory \in Seq(Bytes) /\ end \in Nat /\ p \in Nat \ {0} /\ Size[n] \in Nat \ {0}
  <2>1. Size[n] \in Nat \ {0}
    BY EncodeLength
  <2>2. memory \in Seq(Bytes) /\ end \in Nat /\ p \in Nat \ {0}
    BY DEF Holds, Within
  <2>. QED BY <2>1, <2>2
<1>2. IntAt(memory, q).next \in q .. (q + Digits)
  BY <1>1, IntReads
<1>3. CASE q > end + 1
  <2>. DEFINE next == IntAt(memory, q).next
              z == Size[n]
  <2>1. next \in q .. (q + Digits) /\ Digits \in Nat /\ z \in Nat
    BY <1>1, <1>2, PacketBounds
  <2>. HIDE DEF next, z
  <2>2. next > end + 1 /\ ~(q = p /\ p + z <= end + 1)
    BY <1>1, <1>3, <2>1
  <2>. QED BY <1>2, <2>2 DEF next, z
<1>4. CASE ~(q > end + 1)
  <2>1. q = p /\ p <= end + 1
    BY <1>1, <1>4
  <2>2. /\ p + Size[n] <= end + 1 => IntAt(memory, p) = AnInt(n, p)
        /\ IntAt(memory, p).ok =>
              IntAt(memory, p) = AnInt(n, p) \/ IntAt(memory, p).next > end + 1
    BY <2>1, IntField
  <2>3. AnInt(n, p).next = p + Size[n]
    BY DEF AnInt
  <2>. QED BY <1>2, <2>1, <2>2, <2>3
<1>. QED BY <1>3, <1>4

LEMMA StringNext ==
  ASSUME NEW memory, NEW wire \in Seq(Bytes), NEW end, Holds(memory, wire, end),
         NEW text \in Seq(Bytes), NEW size \in Nat, Len(text) <= size, Len(text) <= IntMax,
         NEW p, Within(wire, p, Encode[Len(text)] \o text),
         NEW q \in Nat \ {0}, q + Digits - 1 <= Len(memory), q = p \/ q > end + 1
  PROVE  /\ StringAt(memory, q, size).next \in q .. (q + Digits + size)
         /\ q = p /\ p + Size[Len(text)] + Len(text) <= end + 1 =>
              StringAt(memory, q, size) = AString(text, p)
         /\ StringAt(memory, q, size).ok =>
              \/ StringAt(memory, q, size).next = p + Size[Len(text)] + Len(text)
              \/ StringAt(memory, q, size).next > end + 1
<1>1. /\ memory \in Seq(Bytes) /\ end \in Nat /\ p \in Nat \ {0}
      /\ Size[Len(text)] \in Nat \ {0} /\ Len(text) \in Nat
  <2>1. Len(text) \in Nat /\ Len(text) \in 0 .. IntMax
    BY PacketBounds
  <2>2. Size[Len(text)] \in Nat \ {0}
    BY <2>1, EncodeLength
  <2>3. memory \in Seq(Bytes) /\ end \in Nat /\ p \in Nat \ {0}
    BY DEF Holds, Within
  <2>. QED BY <2>1, <2>2, <2>3
<1>2. StringAt(memory, q, size).next \in q .. (q + Digits + size)
  BY <1>1, StringReads
<1>3. CASE q > end + 1
  <2>1. q # p \/ ~(p + Size[Len(text)] + Len(text) <= end + 1)
    BY <1>1, <1>3
  <2>2. StringAt(memory, q, size).next > end + 1
    <3>. DEFINE next == StringAt(memory, q, size).next
    <3>1. next \in q .. (q + Digits + size) /\ Digits \in Nat
      BY <1>2, PacketBounds
    <3>. HIDE DEF next
    <3>2. next > end + 1
      BY <1>1, <1>3, <3>1
    <3>. QED BY <3>2 DEF next
  <2>. QED BY <1>2, <2>1, <2>2
<1>4. CASE ~(q > end + 1)
  <2>1. q = p /\ p <= end + 1
    BY <1>1, <1>4
  <2>. QED BY <1>2, <2>1, StringField
<1>. QED BY <1>3, <1>4

LEMMA EncodeZero == Encode[0] = <<0>> /\ Size[0] = 1
<1>1. 0 \in Nat /\ 0 < Base
  BY PacketBounds
<1>2. Encode[0] = <<0>>
  BY <1>1, EncodeIs
<1>3. Size[0] = 1
  BY <1>1, SizeIs
<1>. QED BY <1>2, <1>3

LEMMA HeadField ==
  ASSUME NEW memory, NEW wire \in Seq(Bytes), NEW end, Holds(memory, wire, end),
         NEW body \in 0 .. IntMax, Within(wire, 1, Encode[body]),
         Within(wire, 1 + Size[body], << 0 >>), 2 * Digits <= Len(memory)
  PROVE  /\ HeadAt(memory).next \in 1 .. (1 + 2 * Digits)
         /\ 2 + Size[body] <= end + 1 => HeadAt(memory).ok /\ HeadAt(memory).next = 2 + Size[body]
         /\ HeadAt(memory).ok =>
              HeadAt(memory).next = 2 + Size[body] \/ HeadAt(memory).next > end + 1
<1>. DEFINE length == IntAt(memory, 1)
            id == IntAt(memory, length.next)
            p == 1 + Size[body]
<1>1. Size[body] \in Nat \ {0} /\ end \in Nat /\ Len(memory) \in Nat
  <2>1. Size[body] \in Nat \ {0}
    BY EncodeLength
  <2>2. end \in Nat /\ Len(memory) \in Nat
    BY DEF Holds
  <2>. QED BY <2>1, <2>2
<1>2. /\ length.next \in 1 .. (1 + Digits)
      /\ 1 + Size[body] <= end + 1 => length = AnInt(body, 1)
      /\ length.ok => length.next = p \/ length.next > end + 1
  <2>1. 1 \in Nat \ {0} /\ 1 + Digits - 1 <= Len(memory)
    BY <1>1, PacketBounds
  <2>. QED BY <2>1, IntNext
<1>3. HeadAt(memory).next = id.next
  BY DEF HeadAt
<1>4. HeadAt(memory).ok <=> length.ok /\ id.ok /\ id.value = 0
  BY DEF HeadAt
<1>5. AnInt(body, 1).ok /\ AnInt(body, 1).next = p
  BY DEF AnInt
<1>6. AnInt(0, p).ok /\ AnInt(0, p).next = 2 + Size[body] /\ AnInt(0, p).value = 0
  BY <1>1, EncodeZero DEF AnInt
<1>. HIDE DEF length, id
<1>7. length.next \in Nat \ {0} /\ length.next + Digits - 1 <= Len(memory)
  BY <1>1, <1>2, PacketBounds
<1>8. id.next \in length.next .. (length.next + Digits)
  <2>1. memory \in Seq(Bytes)
    BY DEF Holds
  <2>. QED BY <1>7, <2>1, IntReads DEF id
<1>9. ASSUME length.next = p \/ length.next > end + 1
      PROVE  /\ length.next = p /\ p + 1 <= end + 1 => id = AnInt(0, p)
             /\ id.ok => id.next = p + 1 \/ id.next > end + 1
  <2>1. 0 \in 0 .. IntMax /\ Within(wire, p, Encode[0]) /\ Size[0] = 1
    BY EncodeZero, PacketBounds
  <2>. HIDE DEF p
  <2>. QED BY <1>7, <1>9, <2>1, IntNext DEF id
<1>10. HeadAt(memory).next \in 1 .. (1 + 2 * Digits)
  BY <1>2, <1>3, <1>8, PacketBounds
<1>11. ASSUME 2 + Size[body] <= end + 1
       PROVE  HeadAt(memory).ok /\ HeadAt(memory).next = 2 + Size[body]
  <2>1. length = AnInt(body, 1) /\ p + 1 <= end + 1
    BY <1>1, <1>2, <1>11
  <2>2. id = AnInt(0, p)
    BY <1>5, <1>9, <2>1
  <2>. QED BY <1>3, <1>4, <1>5, <1>6, <2>1, <2>2
<1>12. ASSUME HeadAt(memory).ok
       PROVE  HeadAt(memory).next = 2 + Size[body] \/ HeadAt(memory).next > end + 1
  <2>1. length.ok /\ id.ok
    BY <1>4, <1>12
  <2>2. id.next = p + 1 \/ id.next > end + 1
    BY <1>2, <1>9, <2>1
  <2>. QED BY <1>1, <1>3, <2>2
<1>. QED BY <1>10, <1>11, <1>12

-----------------------------------------------------------------------------
(* What is written.                                                        *)

LEMMA SizeGrows == \A n \in Nat : \A m \in 0 .. n : Size[m] <= Size[n]
<1>. DEFINE T == {n \in Nat : \E m \in 0 .. n : ~(Size[m] <= Size[n])}
<1>. SUFFICES ASSUME T # {} PROVE FALSE
  OBVIOUS
<1>1. PICK n \in T : \A k \in T : n <= k
  BY LeastNumber
<1>2. PICK m \in 0 .. n : ~(Size[m] <= Size[n])
  OBVIOUS
<1>3. Base \in Nat \ {0, 1} /\ n \in Nat /\ m \in Nat
  BY PacketBounds
<1>4. Size[m] \in Nat \ {0} /\ Size[n] \in Nat \ {0}
  BY <1>3, EncodeWritten DEF Written
<1>5. ~(m < Base)
  BY <1>2, <1>3, <1>4, SizeIs
<1>6. ~(n < Base)
  BY <1>3, <1>5
<1>. DEFINE p == n \div Base
            q == m \div Base
<1>7. Size[m] = 1 + Size[q] /\ Size[n] = 1 + Size[p]
  BY <1>3, <1>5, <1>6, SizeIs
<1>8. p \in Nat /\ q \in Nat /\ p < n
  <2>1. n >= Base /\ m >= Base
    BY <1>3, <1>5, <1>6
  <2>2. p \in Nat \ {0} /\ p < n
    BY <1>3, <2>1, LastDigit
  <2>3. q \in Nat \ {0}
    BY <1>3, <2>1, LastDigit
  <2>. QED BY <2>2, <2>3
<1>9. q <= p
  <2>1. /\ n = Base * p + (n % Base) /\ n % Base \in 0 .. (Base - 1)
        /\ m = Base * q + (m % Base) /\ m % Base \in 0 .. (Base - 1)
    BY <1>3, LastDigit
  <2>. HIDE DEF p, q
  <2>2. ASSUME ~(q <= p) PROVE FALSE
    <3>1. PICK d \in Nat : q = p + 1 + d
      <4>1. q - p - 1 \in Nat /\ q = p + 1 + (q - p - 1)
        BY <1>8, <2>2
      <4>. QED BY <4>1
    <3>2. Base * q = Base * p + Base + Base * d /\ Base * d \in Nat /\ Base * p \in Nat
      BY <1>3, <1>8, <3>1
    <3>. QED BY <1>3, <2>1, <3>2
  <2>. QED BY <2>2
<1>. HIDE DEF p, q
<1>10. p \notin T
  <2>1. ~(n <= p)
    BY <1>3, <1>8
  <2>. HIDE DEF T
  <2>. QED BY <1>1, <2>1
<1>11. Size[q] <= Size[p]
  BY <1>8, <1>9, <1>10
<1>12. Size[p] \in Nat /\ Size[q] \in Nat
  BY <1>8, EncodeWritten DEF Written
<1>. QED BY <1>2, <1>7, <1>11, <1>12

LEMMA PortReadBack ==
  ASSUME NEW n \in 0 .. (4 * Base * Base - 1)
  PROVE  /\ PortOut(n) \in Seq(Bytes) /\ Len(PortOut(n)) = 2
         /\ \A b : b[1] = PortOut(n)[1] /\ b[2] = PortOut(n)[2] => PortIn(b) = n
<1>. DEFINE w == 2 * Base
            h == n \div w
            l == n % w
<1>1. w \in Nat \ {0} /\ Base \in Nat \ {0, 1} /\ n \in Nat
  BY PacketBounds
<1>2. h \in Nat /\ l \in 0 .. (w - 1) /\ n = w * h + l
  BY <1>1, DivMod
<1>3. n < w * w
  <2>1. 4 * Base * Base = (2 * Base) * (2 * Base)
    BY <1>1
  <2>. QED BY <1>1, <2>1
<1>. HIDE DEF h, l
<1>4. h < w
  <2>1. ASSUME ~(h < w) PROVE FALSE
    <3>1. PICK d \in Nat : h = w + d
      <4>1. h - w \in Nat /\ h = w + (h - w)
        BY <1>1, <1>2, <2>1
      <4>. QED BY <4>1
    <3>. HIDE DEF w
    <3>2. w * h = w * w + w * d /\ w * d \in Nat /\ w * w \in Nat
      BY <1>1, <3>1
    <3>. QED BY <1>1, <1>2, <1>3, <3>2
  <2>. QED BY <2>1
<1>5. PortOut(n) = <<h, l>>
  BY DEF PortOut, h, l
<1>6. h \in Bytes /\ l \in Bytes
  BY <1>1, <1>2, <1>4 DEF Bytes
<1>7. PortOut(n) \in Seq(Bytes) /\ Len(PortOut(n)) = 2
  BY <1>5, <1>6
<1>8. ASSUME NEW b, b[1] = PortOut(n)[1], b[2] = PortOut(n)[2] PROVE PortIn(b) = n
  <2>1. b[1] = h /\ b[2] = l
    BY <1>5, <1>8
  <2>2. PortIn(b) = h * 2 * Base + l
    BY <2>1 DEF PortIn
  <2>3. h * 2 * Base = w * h
    BY <1>1, <1>2
  <2>. QED BY <1>2, <2>2, <2>3
<1>. QED BY <1>7, <1>8

LEMMA Joined ==
  ASSUME NEW s \in Seq(Bytes), NEW t \in Seq(Bytes)
  PROVE  s \o t \in Seq(Bytes) /\ Len(s \o t) = Len(s) + Len(t)
BY ConcatProperties

\* A handshake without its length.
Address(hs) == String(hs.server_address)
HandshakeBody(hs) ==
  <<0>> \o Encode[hs.protocol_version] \o Address(hs) \o PortOut(hs.server_port)
        \o Encode[hs.next_state]

\* One whose numbers can be written.
NonNegative(hs) == hs.protocol_version >= 0 /\ hs.next_state >= 0

LEMMA HandshakeIs ==
  ASSUME NEW hs \in Handshakes, hs.protocol_version >= 0, hs.next_state >= 0
  PROVE  /\ hs.protocol_version \in 0 .. IntMax /\ hs.next_state \in 0 .. IntMax
         /\ hs.server_address \in Seq(Bytes) /\ Len(hs.server_address) \in 0 .. (AddressSize - 1)
         /\ hs.server_port \in 0 .. (4 * Base * Base - 1)
         /\ Address(hs) \in Seq(Bytes)
         /\ Len(Address(hs)) = Size[Len(hs.server_address)] + Len(hs.server_address)
         /\ Len(hs.server_address) \in 0 .. IntMax
<1>1. /\ hs.protocol_version \in Ints /\ hs.next_state \in Ints
      /\ hs.server_port \in 0 .. (4 * Base * Base - 1)
      /\ hs.server_address \in Seq(Bytes \ {0})
      /\ Len(hs.server_address) < AddressSize
  BY PacketsAssumption DEF Numbers
<1>2. hs.protocol_version \in 0 .. IntMax /\ hs.next_state \in 0 .. IntMax
  BY <1>1, PacketBounds DEF Ints
<1>3. hs.server_address \in Seq(Bytes)
  BY <1>1
<1>4. Len(hs.server_address) \in 0 .. (AddressSize - 1) /\ Len(hs.server_address) \in 0 .. IntMax
  BY <1>1, <1>3, PacketBounds
<1>5. /\ Address(hs) \in Seq(Bytes)
      /\ Len(Address(hs)) = Size[Len(hs.server_address)] + Len(hs.server_address)
  <2>. DEFINE e == Encode[Len(hs.server_address)]
  <2>1. /\ e \in Seq(Bytes) /\ Len(e) = Size[Len(hs.server_address)]
        /\ hs.server_address \in Seq(Bytes)
    BY <1>3, <1>4, EncodeLength
  <2>2. Address(hs) = e \o hs.server_address
    BY DEF Address, String
  <2>. HIDE DEF e
  <2>3. /\ e \o hs.server_address \in Seq(Bytes)
        /\ Len(e \o hs.server_address) = Len(e) + Len(hs.server_address)
    BY <2>1, ConcatProperties
  <2>. QED BY <2>1, <2>2, <2>3
<1>. QED BY <1>1, <1>2, <1>3, <1>4, <1>5

LEMMA HandshakeLength ==
  ASSUME NEW hs \in Handshakes, hs.protocol_version >= 0, hs.next_state >= 0
  PROVE  /\ HandshakeBody(hs) \in Seq(Bytes)
         /\ Len(HandshakeBody(hs)) = 1 + Size[hs.protocol_version] + Len(Address(hs)) + 2
                                       + Size[hs.next_state]
         /\ Len(HandshakeBody(hs)) <= BufferSize
<1>. DEFINE v == Encode[hs.protocol_version]
            a == Address(hs)
            o == PortOut(hs.server_port)
            s == Encode[hs.next_state]
<1>1. /\ v \in Seq(Bytes) /\ Len(v) = Size[hs.protocol_version] /\ Len(v) \in 1 .. Digits
      /\ s \in Seq(Bytes) /\ Len(s) = Size[hs.next_state] /\ Len(s) \in 1 .. Digits
      /\ o \in Seq(Bytes) /\ Len(o) = 2
      /\ a \in Seq(Bytes) /\ Len(a) = Size[Len(hs.server_address)] + Len(hs.server_address)
      /\ Len(hs.server_address) \in 0 .. (AddressSize - 1)
  BY HandshakeIs, EncodeLength, PortReadBack
<1>2. <<0>> \in Seq(Bytes) /\ Len(<<0>>) = 1
  BY PacketBounds DEF Bytes
<1>. HIDE DEF v, a, o, s
<1>. DEFINE c == <<0>> \o v
            d == c \o a
            e == d \o o
            f == e \o s
<1>0. /\ v \in Seq(Bytes) /\ a \in Seq(Bytes) /\ o \in Seq(Bytes) /\ s \in Seq(Bytes)
      /\ Len(v) \in Nat /\ Len(a) \in Nat /\ Len(s) \in Nat /\ Len(o) = 2
  BY <1>1
<1>3. c \in Seq(Bytes) /\ Len(c) = 1 + Len(v)
  BY <1>0, <1>2, ConcatProperties
<1>. HIDE DEF c
<1>4. d \in Seq(Bytes) /\ Len(d) = 1 + Len(v) + Len(a)
  <2>1. d \in Seq(Bytes) /\ Len(d) = Len(c) + Len(a)
    BY <1>0, <1>3, Joined
  <2>. HIDE DEF d
  <2>. QED BY <1>0, <1>3, <2>1
<1>. HIDE DEF d
<1>5. e \in Seq(Bytes) /\ Len(e) = 1 + Len(v) + Len(a) + 2
  <2>1. e \in Seq(Bytes) /\ Len(e) = Len(d) + Len(o)
    BY <1>0, <1>4, Joined
  <2>. HIDE DEF e
  <2>. QED BY <1>0, <1>4, <2>1
<1>. HIDE DEF e
<1>6. f \in Seq(Bytes) /\ Len(f) = 1 + Len(v) + Len(a) + 2 + Len(s)
  <2>1. f \in Seq(Bytes) /\ Len(f) = Len(e) + Len(s)
    BY <1>0, <1>5, Joined
  <2>. HIDE DEF f
  <2>. QED BY <1>0, <1>5, <2>1
<1>. HIDE DEF f
<1>7. HandshakeBody(hs) = f
  BY DEF HandshakeBody, f, e, d, c, v, a, o, s
<1>8. 1 + Len(v) + Len(a) + 2 + Len(s) <= BufferSize
  <2>1. AddressSize - 1 \in Nat /\ Len(hs.server_address) \in 0 .. (AddressSize - 1)
    BY <1>1, PacketBounds
  <2>2. Size[Len(hs.server_address)] <= Size[AddressSize - 1]
    BY <2>1, SizeGrows
  <2>3. Size[AddressSize - 1] \in Nat /\ Size[Len(hs.server_address)] \in Nat
    BY <2>1, EncodeWritten DEF Written
  <2>4. 1 + Digits + Size[AddressSize - 1] + (AddressSize - 1) + 2 + Digits <= BufferSize
    BY PacketsAssumption
  <2>5. Len(v) <= Digits /\ Len(s) <= Digits /\ Len(v) \in Nat /\ Len(s) \in Nat
    BY <1>1
  <2>6. Len(a) <= Size[AddressSize - 1] + (AddressSize - 1) /\ Len(a) \in Nat
    BY <1>1, <2>1, <2>2, <2>3
  <2>7. BufferSize \in Nat /\ Digits \in Nat /\ AddressSize \in Nat
    BY PacketBounds
  <2>. DEFINE nv == Len(v)
              na == Len(a)
              ns == Len(s)
              z == Size[AddressSize - 1]
  <2>8. /\ nv \in Nat /\ na \in Nat /\ ns \in Nat /\ z \in Nat
        /\ nv <= Digits /\ ns <= Digits /\ na <= z + (AddressSize - 1)
        /\ 1 + Digits + z + (AddressSize - 1) + 2 + Digits <= BufferSize
    BY <2>3, <2>4, <2>5, <2>6
  <2>. HIDE DEF nv, na, ns, z
  <2>9. 1 + nv + na + 2 + ns <= BufferSize
    BY <2>7, <2>8
  <2>. QED BY <2>9 DEF nv, na, ns
<1>9. Len(v) = Size[hs.protocol_version] /\ Len(s) = Size[hs.next_state] /\ a = Address(hs)
  BY <1>1 DEF a
<1>. QED BY <1>6, <1>7, <1>8, <1>9

LEMMA HandshakeParts ==
  ASSUME NEW wire \in Seq(Bytes), NEW p \in Nat, NEW hs \in Handshakes,
         hs.protocol_version >= 0, hs.next_state >= 0, Within(wire, p, HandshakeBody(hs))
  PROVE  /\ Within(wire, p, <<0>>)
         /\ Within(wire, p + 1, Encode[hs.protocol_version])
         /\ Within(wire, p + 1 + Size[hs.protocol_version], Address(hs))
         /\ Within(wire, p + 1 + Size[hs.protocol_version] + Len(Address(hs)),
                   PortOut(hs.server_port))
         /\ Within(wire, p + 1 + Size[hs.protocol_version] + Len(Address(hs)) + 2,
                   Encode[hs.next_state])
<1>. DEFINE v == Encode[hs.protocol_version]
            a == Address(hs)
            o == PortOut(hs.server_port)
            s == Encode[hs.next_state]
            c == <<0>> \o v
            d == c \o a
            e == d \o o
            f == e \o s
<1>1. /\ v \in Seq(Bytes) /\ a \in Seq(Bytes) /\ o \in Seq(Bytes) /\ s \in Seq(Bytes)
      /\ Len(v) \in Nat /\ Len(a) \in Nat /\ Len(o) = 2
  <2>1. v \in Seq(Bytes) /\ Len(v) \in 1 .. Digits /\ s \in Seq(Bytes)
    BY HandshakeIs, EncodeLength
  <2>2. o \in Seq(Bytes) /\ Len(o) = 2
    BY HandshakeIs, PortReadBack
  <2>3. a \in Seq(Bytes)
    BY HandshakeIs
  <2>. HIDE DEF v, a, o, s
  <2>. QED BY <2>1, <2>2, <2>3, LenProperties
<1>2. <<0>> \in Seq(Bytes) /\ Len(<<0>>) = 1
  BY PacketBounds DEF Bytes
<1>3. f = HandshakeBody(hs) /\ Len(v) = Size[hs.protocol_version]
  BY HandshakeIs, EncodeLength DEF HandshakeBody
<1>. HIDE DEF v, a, o, s
<1>4. c \in Seq(Bytes) /\ Len(c) = 1 + Len(v)
  BY <1>1, <1>2, Joined
<1>. HIDE DEF c
<1>5. d \in Seq(Bytes) /\ Len(d) = Len(c) + Len(a)
  BY <1>1, <1>4, Joined
<1>. HIDE DEF d
<1>6. e \in Seq(Bytes) /\ Len(e) = Len(d) + Len(o)
  BY <1>1, <1>5, Joined
<1>. HIDE DEF e
<1>7. Within(wire, p, e) /\ Within(wire, p + Len(e), s)
  <2>1. Within(wire, p, e \o s)
    BY <1>3
  <2>. QED BY <1>1, <1>6, <2>1, WithinParts
<1>8. Within(wire, p, d) /\ Within(wire, p + Len(d), o)
  <2>1. Within(wire, p, d \o o)
    BY <1>7 DEF e
  <2>. QED BY <1>1, <1>5, <2>1, WithinParts
<1>9. Within(wire, p, c) /\ Within(wire, p + Len(c), a)
  <2>1. Within(wire, p, c \o a)
    BY <1>8 DEF d
  <2>. QED BY <1>1, <1>4, <2>1, WithinParts
<1>10. Within(wire, p, <<0>>) /\ Within(wire, p + 1, v)
  <2>1. Within(wire, p, <<0>> \o v)
    BY <1>9 DEF c
  <2>. QED BY <1>1, <1>2, <2>1, WithinParts
<1>11. Len(c) = 1 + Len(v) /\ Len(d) = 1 + Len(v) + Len(a) /\ Len(e) = 1 + Len(v) + Len(a) + 2
  BY <1>1, <1>4, <1>5, <1>6
<1>12. /\ p + Len(c) = p + 1 + Len(v) /\ p + Len(d) = p + 1 + Len(v) + Len(a)
       /\ p + Len(e) = p + 1 + Len(v) + Len(a) + 2
  BY <1>1, <1>11
<1>13. /\ Within(wire, p, <<0>>) /\ Within(wire, p + 1, v) /\ Within(wire, p + 1 + Len(v), a)
       /\ Within(wire, p + 1 + Len(v) + Len(a), o)
       /\ Within(wire, p + 1 + Len(v) + Len(a) + 2, s)
  BY <1>7, <1>8, <1>9, <1>10, <1>12
<1>. QED BY <1>3, <1>13 DEF v, a, o, s

\* A packet: its length and the rest.
Packed(body) == Encode[Len(body)] \o body

LEMMA PackedIs ==
  ASSUME NEW body \in Seq(Bytes), Len(body) <= IntMax
  PROVE  /\ Packed(body) \in Seq(Bytes) /\ Len(body) \in 0 .. IntMax
         /\ Len(Packed(body)) = Size[Len(body)] + Len(body)
         /\ Size[Len(body)] \in 1 .. Digits
         /\ Within(Packed(body), 1, Encode[Len(body)])
         /\ Within(Packed(body), 1 + Size[Len(body)], body)
<1>. DEFINE e == Encode[Len(body)]
            w == e \o body
<1>1. Len(body) \in 0 .. IntMax /\ Len(body) \in Nat
  BY PacketBounds
<1>2. e \in Seq(Bytes) /\ Len(e) = Size[Len(body)] /\ Size[Len(body)] \in 1 .. Digits
  BY <1>1, EncodeLength
<1>. HIDE DEF e
<1>3. w \in Seq(Bytes) /\ Len(w) = Len(e) + Len(body)
  BY <1>1, <1>2, Joined
<1>4. Within(w, 1, w)
  <2>. HIDE DEF w
  <2>. QED BY <1>3 DEF Within
<1>5. Within(w, 1, e) /\ Within(w, 1 + Len(e), body)
  BY <1>2, <1>3, <1>4, WithinParts
<1>6. Packed(body) = w
  BY DEF Packed, e
<1>. HIDE DEF w
<1>. QED BY <1>1, <1>2, <1>3, <1>5, <1>6 DEF e

\* What a reader finds of a packet of which the memory has the bytes up to end:
\* all of it; or else it takes more than there is.
ReadWell(result, wire, end, fields) ==
  /\ result.next \in Nat
  /\ end = Len(wire) => result.ok /\ result.value = fields /\ result.next = Len(wire) + 1
  /\ result.ok /\ end < Len(wire) => result.next > end + 1

\* The fields of a handshake where they are: id and version behind the length,
\* the address, the port, the state, and where it ends.
LaidOut(wire, length, hs, at, past) ==
  /\ wire \in Seq(Bytes) /\ length \in 0 .. IntMax
  /\ hs.protocol_version \in 0 .. IntMax /\ hs.next_state \in 0 .. IntMax
  /\ hs.server_address \in Seq(Bytes) /\ hs.server_port \in 0 .. (4 * Base * Base - 1)
  /\ Len(hs.server_address) <= AddressSize /\ Len(hs.server_address) <= IntMax
  /\ at.version = 2 + Size[length]
  /\ at.address = at.version + Size[hs.protocol_version]
  /\ at.port = at.address + Size[Len(hs.server_address)] + Len(hs.server_address)
  /\ past = at.state + Size[hs.next_state]
  /\ Within(wire, 1, Encode[length]) /\ Within(wire, 1 + Size[length], <<0>>)
  /\ Within(wire, at.version, Encode[hs.protocol_version])
  /\ Within(wire, at.address, Encode[Len(hs.server_address)] \o hs.server_address)
  /\ Within(wire, at.port, PortOut(hs.server_port))
  /\ Within(wire, at.state, Encode[hs.next_state])

InOrder(pv, pa, po, ps, past) ==
  /\ pv \in Nat /\ pa \in Nat /\ po \in Nat /\ ps \in Nat /\ past \in Nat
  /\ 0 < pv /\ pv < pa /\ pa <= po /\ ps = po + 2 /\ ps < past

\* Memory goes on behind a packet.
Behind(memory, end) == Len(memory) >= end + 2 * JsonSize + 6 * Digits

LEMMA HandshakeFields ==
  ASSUME NEW memory, NEW wire, NEW end, Holds(memory, wire, end), Behind(memory, end),
         NEW length, NEW hs, NEW at, NEW past, LaidOut(wire, length, hs, at, past),
         InOrder(at.version, at.address, at.port, at.state, past)
  PROVE  /\ past <= end + 1 =>
              HandshakeRead(memory) =
                [ok |-> TRUE, next |-> past,
                 value |-> [protocol_version |-> hs.protocol_version,
                            server_address |-> hs.server_address,
                            server_port |-> hs.server_port, next_state |-> hs.next_state]]
         /\ HandshakeRead(memory).ok =>
              HandshakeRead(memory).next = past \/ HandshakeRead(memory).next > end + 1
         /\ HandshakeRead(memory).next \in Nat
<1>. DEFINE v == hs.protocol_version
            a == hs.server_address
            o == hs.server_port
            s == hs.next_state
            pv == at.version
            pa == at.address
            po == at.port
            ps == at.state
            head == HeadAt(memory)
            version == IntAt(memory, head.next)
            address == StringAt(memory, version.next, AddressSize)
            state == IntAt(memory, address.next + 2)
            port == PortIn(SubSeq(memory, address.next, address.next + 1))
            M == Len(memory)
<1>1. /\ Digits \in Nat /\ Digits > 0 /\ AddressSize \in Nat /\ JsonSize \in Nat
      /\ AddressSize > 0 /\ AddressSize <= JsonSize
  BY PacketBounds
<1>2. /\ memory \in Seq(Bytes) /\ M \in Nat /\ end \in Nat /\ end <= M
      /\ M >= end + 2 * JsonSize + 6 * Digits
  BY DEF Holds, Behind
<1>0. InOrder(pv, pa, po, ps, past)
  OBVIOUS
<1>3. HandshakeRead(memory) =
        [ok |-> head.ok /\ version.ok /\ address.ok /\ state.ok, next |-> state.next,
         value |-> [protocol_version |-> version.value, server_address |-> address.value,
                    server_port |-> port, next_state |-> state.value]]
  BY DEF HandshakeRead
<1>4. /\ wire \in Seq(Bytes) /\ length \in 0 .. IntMax /\ v \in 0 .. IntMax /\ s \in 0 .. IntMax
      /\ a \in Seq(Bytes) /\ o \in 0 .. (4 * Base * Base - 1)
      /\ Len(a) <= AddressSize /\ Len(a) <= IntMax
  BY DEF LaidOut
<1>5. /\ Within(wire, 1, Encode[length]) /\ Within(wire, 1 + Size[length], <<0>>)
      /\ Within(wire, pv, Encode[v]) /\ Within(wire, pa, Encode[Len(a)] \o a)
      /\ Within(wire, po, PortOut(o)) /\ Within(wire, ps, Encode[s])
  BY DEF LaidOut
<1>6. /\ 2 + Size[length] = pv /\ pv + Size[v] = pa
      /\ pa + Size[Len(a)] + Len(a) = po /\ ps + Size[s] = past
  BY DEF LaidOut
<1>. HIDE DEF head, version, address, state, port, M, v, a, o, s, pv, pa, po, ps
<1>7. /\ head.next \in 1 .. (1 + 2 * Digits)
      /\ pv <= end + 1 => head.ok /\ head.next = pv
      /\ head.ok => head.next = pv \/ head.next > end + 1
  <2>1. 2 * Digits <= M
    BY <1>1, <1>2
  <2>2. /\ HeadAt(memory).next \in 1 .. (1 + 2 * Digits)
        /\ 2 + Size[length] <= end + 1 =>
             HeadAt(memory).ok /\ HeadAt(memory).next = 2 + Size[length]
        /\ HeadAt(memory).ok =>
             HeadAt(memory).next = 2 + Size[length] \/ HeadAt(memory).next > end + 1
    BY <1>4, <1>5, <2>1, HeadField DEF M
  <2>. QED BY <1>6, <2>2 DEF head
<1>8. PICK hn \in Nat : hn = head.next /\ hn > 0 /\ hn <= 1 + 2 * Digits
  <2>1. 1 + 2 * Digits \in Nat
    BY <1>1
  <2>. QED BY <1>7, <2>1
<1>9. /\ version.next \in hn .. (hn + Digits)
      /\ hn = pv /\ pa <= end + 1 => version = AnInt(v, pv)
      /\ hn = pv \/ hn > end + 1 => (version.ok => version.next = pa \/ version.next > end + 1)
  <2>1. hn \in Nat \ {0} /\ hn + Digits - 1 <= M
    BY <1>1, <1>2, <1>8
  <2>2. version = IntAt(memory, hn)
    BY <1>8 DEF version
  <2>3. version.next \in hn .. (hn + Digits)
    BY <1>2, <2>1, <2>2, IntReads DEF M
  <2>4. ASSUME hn = pv \/ hn > end + 1
        PROVE  /\ hn = pv /\ pa <= end + 1 => version = AnInt(v, pv)
               /\ version.ok => version.next = pa \/ version.next > end + 1
    <3>1. /\ hn = pv /\ pv + Size[v] <= end + 1 => IntAt(memory, hn) = AnInt(v, pv)
          /\ IntAt(memory, hn).ok =>
               IntAt(memory, hn).next = pv + Size[v] \/ IntAt(memory, hn).next > end + 1
      BY <1>4, <1>5, <2>1, <2>4, IntNext DEF M
    <3>. QED BY <1>6, <2>2, <3>1
  <2>. QED BY <2>3, <2>4
<1>10. PICK vn \in Nat : vn = version.next /\ vn > 0 /\ vn <= 1 + 3 * Digits
  <2>1. hn + Digits \in Nat /\ hn \in Nat /\ hn > 0 /\ hn + Digits <= 1 + 3 * Digits
    BY <1>1, <1>8
  <2>. QED BY <1>1, <1>9, <2>1
<1>11. /\ address.next \in vn .. (vn + Digits + AddressSize)
       /\ vn = pa /\ po <= end + 1 => address = AString(a, pa)
       /\ vn = pa \/ vn > end + 1 => (address.ok => address.next = po \/ address.next > end + 1)
  <2>1. vn \in Nat \ {0} /\ vn + Digits - 1 <= M
    BY <1>1, <1>2, <1>10
  <2>2. address = StringAt(memory, vn, AddressSize)
    BY <1>10 DEF address
  <2>3. address.next \in vn .. (vn + Digits + AddressSize)
    BY <1>1, <1>2, <2>1, <2>2, StringReads DEF M
  <2>4. ASSUME vn = pa \/ vn > end + 1
        PROVE  /\ vn = pa /\ po <= end + 1 => address = AString(a, pa)
               /\ address.ok => address.next = po \/ address.next > end + 1
    <3>. DEFINE r == StringAt(memory, vn, AddressSize)
    <3>1. /\ vn = pa /\ pa + Size[Len(a)] + Len(a) <= end + 1 => r = AString(a, pa)
          /\ r.ok => r.next = pa + Size[Len(a)] + Len(a) \/ r.next > end + 1
      BY <1>1, <1>4, <1>5, <2>1, <2>4, StringNext DEF M
    <3>. HIDE DEF r
    <3>2. address = r
      BY <2>2 DEF r
    <3>. QED BY <1>6, <3>1, <3>2
  <2>. QED BY <2>3, <2>4
<1>12. PICK an \in Nat : an = address.next /\ an > 0 /\ an <= 1 + 4 * Digits + AddressSize
  <2>1. /\ vn + Digits + AddressSize \in Nat /\ vn \in Nat /\ vn > 0
        /\ vn + Digits + AddressSize <= 1 + 4 * Digits + AddressSize
    BY <1>1, <1>10
  <2>. QED BY <1>1, <1>11, <2>1
<1>13. /\ state.next \in Nat
       /\ an + 2 = ps /\ past <= end + 1 => state = AnInt(s, ps)
       /\ an + 2 = ps \/ an + 2 > end + 1 =>
            (state.ok => state.next = past \/ state.next > end + 1)
  <2>1. an + 2 \in Nat \ {0} /\ (an + 2) + Digits - 1 <= M
    BY <1>1, <1>2, <1>12
  <2>2. state = IntAt(memory, an + 2)
    BY <1>12 DEF state
  <2>3. ASSUME an + 2 = ps \/ an + 2 > end + 1
        PROVE  /\ an + 2 = ps /\ past <= end + 1 => state = AnInt(s, ps)
               /\ state.ok => state.next = past \/ state.next > end + 1
    <3>1. PICK q \in Nat \ {0} : q = an + 2
      BY <2>1
    <3>2. q + Digits - 1 <= Len(memory) /\ (q = ps \/ q > end + 1)
      BY <2>1, <2>3, <3>1 DEF M
    <3>3. /\ q = ps /\ ps + Size[s] <= end + 1 => IntAt(memory, q) = AnInt(s, ps)
          /\ IntAt(memory, q).ok =>
               IntAt(memory, q).next = ps + Size[s] \/ IntAt(memory, q).next > end + 1
      BY <1>4, <1>5, <3>2, IntNext
    <3>. QED BY <1>6, <2>2, <3>1, <3>3
  <2>4. state.next \in Nat
    <3>1. PICK q \in Nat \ {0} : q = an + 2
      BY <2>1
    <3>2. IntAt(memory, q).next \in q .. (q + Digits)
      BY <1>2, <2>1, <3>1, IntReads DEF M
    <3>. QED BY <1>1, <2>2, <3>1, <3>2
  <2>. QED BY <2>3, <2>4
<1>14. ASSUME past <= end + 1
       PROVE  HandshakeRead(memory) =
                [ok |-> TRUE, next |-> past,
                 value |-> [protocol_version |-> v, server_address |-> a,
                            server_port |-> o, next_state |-> s]]
  <2>1. /\ pv <= end + 1 /\ pa <= end + 1 /\ po <= end + 1 /\ po + 1 <= end
        /\ po \in Nat /\ po > 0 /\ ps = po + 2
    BY <1>0, <1>2, <1>14 DEF InOrder
  <2>2. head.ok /\ hn = pv
    BY <1>7, <1>8, <2>1
  <2>3. version = AnInt(v, pv)
    BY <1>9, <2>1, <2>2
  <2>4. version.ok /\ version.value = v /\ vn = pa
    BY <1>6, <1>10, <2>3 DEF AnInt
  <2>5. address = AString(a, pa)
    BY <1>11, <2>1, <2>4
  <2>6. address.ok /\ address.value = a /\ an = po
    BY <1>6, <1>12, <2>5 DEF AString
  <2>7. state = AnInt(s, ps)
    BY <1>13, <1>14, <2>1, <2>6
  <2>8. state.ok /\ state.value = s /\ state.next = past
    BY <1>6, <2>7 DEF AnInt
  <2>9. port = o
    <3>. DEFINE b == SubSeq(memory, po, po + 1)
    <3>1. port = PortIn(b)
      BY <1>12, <2>6 DEF port
    <3>2. po + 2 - 1 = po + 1 /\ po + 1 - 1 = po
      BY <2>1
    <3>3. b[1] = memory[po] /\ b[2] = memory[po + 1]
      <4>1. po \in Nat \ {0} /\ po + 2 - 1 <= M
        BY <1>2, <2>1
      <4>2. \A k \in 1 .. 2 : SubSeq(memory, po, po + 2 - 1)[k] = memory[po + k - 1]
        BY <1>2, <4>1, PartOf DEF M
      <4>3. SubSeq(memory, po, po + 2 - 1) = b
        BY <3>2
      <4>. HIDE DEF b
      <4>4. \A k \in 1 .. 2 : b[k] = memory[po + k - 1]
        BY <4>2, <4>3
      <4>5. b[1] = memory[po + 1 - 1] /\ b[2] = memory[po + 2 - 1]
        BY <4>4
      <4>. QED BY <3>2, <4>5
    <3>4. memory[po] = wire[po] /\ memory[po + 1] = wire[po + 1]
      <4>1. po \in 1 .. end /\ po + 1 \in 1 .. end
        BY <1>2, <2>1
      <4>. QED BY <4>1 DEF Holds
    <3>5. wire[po] = PortOut(o)[1] /\ wire[po + 1] = PortOut(o)[2]
      <4>1. Len(PortOut(o)) = 2
        BY <1>4, PortReadBack
      <4>2. \A k \in 1 .. 2 : wire[po + k - 1] = PortOut(o)[k]
        BY <1>5, <4>1 DEF Within
      <4>3. wire[po + 1 - 1] = PortOut(o)[1] /\ wire[po + 2 - 1] = PortOut(o)[2]
        BY <4>2
      <4>. QED BY <3>2, <4>3
    <3>. HIDE DEF b
    <3>6. PortIn(b) = o
      BY <1>4, <3>3, <3>4, <3>5, PortReadBack
    <3>. QED BY <3>1, <3>6
  <2>. QED BY <1>3, <2>2, <2>4, <2>6, <2>8, <2>9
<1>15. ASSUME HandshakeRead(memory).ok
       PROVE  HandshakeRead(memory).next = past \/ HandshakeRead(memory).next > end + 1
  <2>1. head.ok /\ version.ok /\ address.ok /\ state.ok
    <3>1. HandshakeRead(memory).ok = (head.ok /\ version.ok /\ address.ok /\ state.ok)
      BY <1>3
    <3>. QED BY <1>15, <3>1
  <2>2. HandshakeRead(memory).next = state.next
    BY <1>3
  <2>3. hn = pv \/ hn > end + 1
    BY <1>7, <1>8, <2>1
  <2>4. vn = pa \/ vn > end + 1
    BY <1>9, <1>10, <2>1, <2>3
  <2>5. an = po \/ an > end + 1
    BY <1>11, <1>12, <2>1, <2>4
  <2>6. an + 2 = ps \/ an + 2 > end + 1
    BY <1>0, <1>2, <1>12, <2>5 DEF InOrder
  <2>. QED BY <1>13, <2>1, <2>2, <2>6
<1>16. HandshakeRead(memory).next \in Nat
  BY <1>3, <1>13
<1>. QED BY <1>14, <1>15, <1>16 DEF v, a, o, s

Placed(nb, nv, na, la, ns, pv, pa, po, ps, past) ==
  /\ InOrder(pv, pa, po, ps, past)
  /\ pv = 2 + nb /\ pa = pv + nv /\ po = pa + na + la /\ past = ps + ns
  /\ pv = (1 + nb) + 1 /\ pa = (1 + nb) + 1 + nv
  /\ po = (1 + nb) + 1 + nv + (na + la) /\ ps = (1 + nb) + 1 + nv + (na + la) + 2
  /\ past = (nb + (1 + nv + (na + la) + 2 + ns)) + 1

LEMMA Positions ==
  \A nb, nv, na, la, ns \in Nat : nv > 0 /\ ns > 0 =>
    \E pv, pa, po, ps, past \in Nat : Placed(nb, nv, na, la, ns, pv, pa, po, ps, past)
<1>. SUFFICES ASSUME NEW nb \in Nat, NEW nv \in Nat, NEW na \in Nat, NEW la \in Nat,
                     NEW ns \in Nat, nv > 0, ns > 0
              PROVE  \E pv, pa, po, ps, past \in Nat :
                       Placed(nb, nv, na, la, ns, pv, pa, po, ps, past)
  OBVIOUS
<1>1. PICK pv \in Nat, pa \in Nat, po \in Nat, ps \in Nat, past \in Nat :
        /\ pv = 2 + nb /\ pa = pv + nv /\ po = pa + na + la /\ ps = po + 2 /\ past = ps + ns
  OBVIOUS
<1>2. InOrder(pv, pa, po, ps, past)
  BY <1>1 DEF InOrder
<1>3. /\ pv = (1 + nb) + 1 /\ pa = (1 + nb) + 1 + nv
      /\ po = (1 + nb) + 1 + nv + (na + la) /\ ps = (1 + nb) + 1 + nv + (na + la) + 2
      /\ past = (nb + (1 + nv + (na + la) + 2 + ns)) + 1
  BY <1>1
<1>. QED BY <1>1, <1>2, <1>3 DEF Placed

LEMMA HandshakeReadBack ==
  ASSUME NEW hs \in Handshakes, NonNegative(hs),
         NEW wire, wire = Packed(HandshakeBody(hs)),
         NEW memory, NEW end, Holds(memory, wire, end), Behind(memory, end)
  PROVE  ReadWell(HandshakeRead(memory), wire, end, hs)
<1>. DEFINE body == HandshakeBody(hs)
            v == hs.protocol_version
            a == hs.server_address
            o == hs.server_port
            s == hs.next_state
<1>0. hs.protocol_version >= 0 /\ hs.next_state >= 0
  BY DEF NonNegative
<1>1. /\ v \in 0 .. IntMax /\ s \in 0 .. IntMax /\ a \in Seq(Bytes) /\ Len(a) \in Nat
      /\ Len(a) \in 0 .. IntMax /\ Len(a) <= AddressSize /\ Len(a) <= IntMax
      /\ o \in 0 .. (4 * Base * Base - 1)
      /\ Len(Address(hs)) = Size[Len(a)] + Len(a)
      /\ Address(hs) = Encode[Len(a)] \o a
  <2>1. /\ v \in 0 .. IntMax /\ s \in 0 .. IntMax /\ a \in Seq(Bytes)
        /\ Len(a) \in 0 .. (AddressSize - 1) /\ Len(a) \in 0 .. IntMax
        /\ o \in 0 .. (4 * Base * Base - 1)
        /\ Len(Address(hs)) = Size[Len(a)] + Len(a)
    BY <1>0, HandshakeIs
  <2>2. Len(a) \in Nat /\ Len(a) <= AddressSize /\ Len(a) <= IntMax
    BY <2>1, PacketBounds
  <2>3. Address(hs) = Encode[Len(a)] \o a
    BY DEF Address, String
  <2>. QED BY <2>1, <2>2, <2>3
<1>2. /\ body \in Seq(Bytes) /\ Len(body) \in 0 .. IntMax /\ Len(body) <= IntMax
      /\ Len(body) = 1 + Size[v] + Len(Address(hs)) + 2 + Size[s]
  <2>1. /\ body \in Seq(Bytes) /\ Len(body) <= BufferSize
        /\ Len(body) = 1 + Size[v] + Len(Address(hs)) + 2 + Size[s]
    BY <1>0, HandshakeLength
  <2>. HIDE DEF body
  <2>2. Len(body) \in Nat /\ Len(body) <= IntMax
    BY <2>1, PacketBounds
  <2>. QED BY <2>1, <2>2, PacketBounds
<1>. HIDE DEF body
<1>3. /\ wire \in Seq(Bytes) /\ Len(wire) = Size[Len(body)] + Len(body)
      /\ Within(wire, 1, Encode[Len(body)]) /\ Within(wire, 1 + Size[Len(body)], body)
  BY <1>2, PackedIs DEF body
<1>4. PICK nb \in Nat, nv \in Nat, na \in Nat, ns \in Nat, la \in Nat :
        /\ nb = Size[Len(body)] /\ nv = Size[v] /\ na = Size[Len(a)] /\ ns = Size[s]
        /\ la = Len(a) /\ nv > 0 /\ ns > 0
  <2>. HIDE DEF v, a, s
  <2>. QED BY <1>1, <1>2, EncodeLength
<1>5. PICK pv, pa, po, ps, past \in Nat : Placed(nb, nv, na, la, ns, pv, pa, po, ps, past)
  <2>1. nv > 0 /\ ns > 0
    BY <1>4
  <2>. QED BY <2>1, Positions
<1>6. past = Len(wire) + 1
  <2>1. Len(wire) = nb + (1 + nv + (na + la) + 2 + ns)
    BY <1>1, <1>2, <1>3, <1>4
  <2>. QED BY <1>5, <2>1 DEF Placed
<1>7. /\ Within(wire, 1 + nb, <<0>>) /\ Within(wire, pv, Encode[v])
      /\ Within(wire, pa, Address(hs)) /\ Within(wire, po, PortOut(o))
      /\ Within(wire, ps, Encode[s])
  <2>. DEFINE z == Len(Address(hs))
  <2>1. /\ Within(wire, 1 + nb, <<0>>) /\ Within(wire, (1 + nb) + 1, Encode[v])
        /\ Within(wire, (1 + nb) + 1 + nv, Address(hs))
        /\ Within(wire, (1 + nb) + 1 + nv + z, PortOut(o))
        /\ Within(wire, (1 + nb) + 1 + nv + z + 2, Encode[s])
    <3>1. 1 + nb \in Nat /\ Within(wire, 1 + nb, HandshakeBody(hs))
      BY <1>3, <1>4 DEF body
    <3>. QED BY <1>0, <1>3, <1>4, <3>1, HandshakeParts
  <2>2. z = na + la
    BY <1>1, <1>4
  <2>. HIDE DEF z, v, a, o, s
  <2>. QED BY <1>5, <2>1, <2>2 DEF Placed
<1>. DEFINE at == [version |-> pv, address |-> pa, port |-> po, state |-> ps]
<1>8. LaidOut(wire, Len(body), hs, at, past)
  <2>1. /\ at.version = 2 + Size[Len(body)] /\ at.address = at.version + Size[v]
        /\ at.port = at.address + Size[Len(a)] + Len(a) /\ past = at.state + Size[s]
    <3>. HIDE DEF v, a, s
    <3>. QED BY <1>4, <1>5 DEF Placed
  <2>2. /\ Within(wire, 1 + Size[Len(body)], <<0>>) /\ Within(wire, at.version, Encode[v])
        /\ Within(wire, at.address, Encode[Len(a)] \o a) /\ Within(wire, at.port, PortOut(o))
        /\ Within(wire, at.state, Encode[s])
    <3>. HIDE DEF v, a, s, o
    <3>. QED BY <1>1, <1>4, <1>7
  <2>. HIDE DEF at
  <2>. QED BY <1>1, <1>2, <1>3, <2>1, <2>2 DEF LaidOut
<1>9. InOrder(at.version, at.address, at.port, at.state, past)
  BY <1>5 DEF Placed
<1>. DEFINE fields == [protocol_version |-> v, server_address |-> a,
                       server_port |-> o, next_state |-> s]
<1>10. fields = hs
  BY PacketsAssumption
<1>. HIDE DEF at
<1>11. /\ past <= end + 1 =>
            HandshakeRead(memory) = [ok |-> TRUE, next |-> past, value |-> fields]
       /\ HandshakeRead(memory).ok =>
            HandshakeRead(memory).next = past \/ HandshakeRead(memory).next > end + 1
       /\ HandshakeRead(memory).next \in Nat
  BY <1>8, <1>9, HandshakeFields
<1>. HIDE DEF fields
<1>12. end \in Nat /\ Len(wire) \in Nat
  BY <1>3 DEF Holds
<1>13. (end = Len(wire) => past <= end + 1) /\ (end < Len(wire) => past > end + 1)
  BY <1>6, <1>12
<1>. QED BY <1>6, <1>10, <1>11, <1>13 DEF ReadWell

\* A response without its length.
ResponseBody(text) == <<0>> \o Encode[Len(text)] \o text

LEMMA ResponseIs ==
  ASSUME NEW text \in Seq(Bytes), Len(text) <= JsonSize
  PROVE  /\ ResponseBody(text) \in Seq(Bytes) /\ Len(text) \in 0 .. IntMax
         /\ Len(ResponseBody(text)) = 1 + Size[Len(text)] + Len(text)
         /\ Len(ResponseBody(text)) <= IntMax
         /\ \A wire \in Seq(Bytes), p \in Nat : Within(wire, p, ResponseBody(text)) =>
              /\ Within(wire, p, <<0>>)
              /\ Within(wire, p + 1, Encode[Len(text)] \o text)
<1>. DEFINE e == Encode[Len(text)]
            c == <<0>> \o e
            z == Size[Len(text)]
<1>1. Len(text) \in Nat /\ Len(text) \in 0 .. IntMax
  BY PacketBounds
<1>2. e \in Seq(Bytes) /\ Len(e) = z /\ z \in 1 .. Digits
  BY <1>1, EncodeLength
<1>3. <<0>> \in Seq(Bytes) /\ Len(<<0>>) = 1
  BY PacketBounds DEF Bytes
<1>4. ResponseBody(text) = <<0>> \o (e \o text) /\ ResponseBody(text) = c \o text
  <2>1. ResponseBody(text) = (<<0>> \o e) \o text
    BY DEF ResponseBody
  <2>. HIDE DEF e
  <2>2. (<<0>> \o e) \o text = <<0>> \o (e \o text)
    BY <1>2, <1>3, ConcatAssociative
  <2>. QED BY <2>1, <2>2
<1>. HIDE DEF e, z
<1>5. e \o text \in Seq(Bytes) /\ Len(e \o text) = z + Len(text)
  BY <1>2, Joined
<1>6. /\ ResponseBody(text) \in Seq(Bytes)
      /\ Len(ResponseBody(text)) = 1 + z + Len(text)
  <2>1. /\ <<0>> \o (e \o text) \in Seq(Bytes)
        /\ Len(<<0>> \o (e \o text)) = 1 + Len(e \o text)
    BY <1>3, <1>5, Joined
  <2>. HIDE DEF c
  <2>2. 1 + (z + Len(text)) = 1 + z + Len(text)
    BY <1>1, <1>2, PacketBounds
  <2>. QED BY <1>4, <1>5, <2>1, <2>2
<1>7. 1 + z + Len(text) <= IntMax
  BY <1>1, <1>2, PacketBounds
<1>8. ASSUME NEW wire \in Seq(Bytes), NEW p \in Nat, Within(wire, p, ResponseBody(text))
      PROVE  Within(wire, p, <<0>>) /\ Within(wire, p + 1, e \o text)
  <2>. DEFINE id == <<0>>
              t == e \o text
  <2>1. id \in Seq(Bytes) /\ t \in Seq(Bytes) /\ Len(id) = 1 /\ Within(wire, p, id \o t)
    BY <1>3, <1>4, <1>5, <1>8
  <2>. HIDE DEF id, t
  <2>2. Within(wire, p, id) /\ Within(wire, p + Len(id), t)
    BY <2>1, WithinParts
  <2>. QED BY <2>1, <2>2 DEF id, t
<1>. QED BY <1>1, <1>6, <1>7, <1>8 DEF e, z

LEMMA ResponseReadBack ==
  ASSUME NEW text \in Seq(Bytes), Len(text) <= JsonSize,
         NEW wire, wire = Packed(ResponseBody(text)),
         NEW memory, NEW end, Holds(memory, wire, end), Behind(memory, end)
  PROVE  ReadWell(ResponseRead(memory), wire, end, text)
<1>. DEFINE body == ResponseBody(text)
            head == HeadAt(memory)
            field == StringAt(memory, head.next, JsonSize)
            result == ResponseRead(memory)
<1>1. /\ body \in Seq(Bytes) /\ Len(body) <= IntMax /\ Len(text) \in 0 .. IntMax
      /\ Len(body) = 1 + Size[Len(text)] + Len(text)
  BY ResponseIs
<1>2. /\ wire \in Seq(Bytes) /\ Len(wire) = Size[Len(body)] + Len(body)
      /\ Len(body) \in 0 .. IntMax
      /\ Within(wire, 1, Encode[Len(body)]) /\ Within(wire, 1 + Size[Len(body)], body)
  BY <1>1, PackedIs
<1>3. PICK nb \in Nat, nt \in Nat, lt \in Nat :
        /\ nb = Size[Len(body)] /\ nt = Size[Len(text)] /\ lt = Len(text) /\ nt > 0
  <2>. HIDE DEF body
  <2>. QED BY <1>1, <1>2, EncodeLength
<1>4. PICK pt \in Nat, past \in Nat :
        /\ pt = 2 + nb /\ pt = (1 + nb) + 1 /\ past = pt + nt + lt /\ pt > 0 /\ pt < past
        /\ past = (nb + (1 + nt + lt)) + 1
  <2>. HIDE DEF body
  <2>1. nt > 0
    BY <1>3
  <2>. QED BY <2>1
<1>5. Within(wire, 1 + nb, <<0>>) /\ Within(wire, pt, Encode[Len(text)] \o text)
  <2>1. 1 + nb \in Nat /\ Within(wire, 1 + nb, ResponseBody(text))
    BY <1>2, <1>3
  <2>. HIDE DEF body
  <2>2. Within(wire, 1 + nb, <<0>>) /\ Within(wire, (1 + nb) + 1, Encode[Len(text)] \o text)
    BY <1>2, <2>1, ResponseIs
  <2>. QED BY <1>4, <2>2
<1>. HIDE DEF body
<1>6. past = Len(wire) + 1
  <2>1. Len(wire) = nb + (1 + nt + lt)
    BY <1>1, <1>2, <1>3
  <2>. QED BY <1>4, <2>1
<1>7. /\ memory \in Seq(Bytes) /\ Len(memory) \in Nat /\ end \in Nat /\ end <= Len(memory)
      /\ Len(memory) >= end + 2 * JsonSize + 6 * Digits /\ Len(wire) \in Nat
  BY <1>2 DEF Holds, Behind
<1>8. /\ Digits \in Nat /\ Digits > 0 /\ JsonSize \in Nat
  BY PacketBounds
<1>9. result = [ok |-> head.ok /\ field.ok, next |-> field.next, value |-> field.value]
  BY DEF ResponseRead
<1>. HIDE DEF head, field, result
<1>10. /\ head.next \in 1 .. (1 + 2 * Digits)
       /\ pt <= end + 1 => head.ok /\ head.next = pt
       /\ head.ok => head.next = pt \/ head.next > end + 1
  <2>1. 2 * Digits <= Len(memory)
    BY <1>7, <1>8
  <2>2. Within(wire, 1 + Size[Len(body)], <<0>>) /\ pt = 2 + Size[Len(body)]
    BY <1>3, <1>4, <1>5
  <2>. QED BY <1>2, <2>1, <2>2, HeadField DEF head
<1>11. PICK hn \in Nat : hn = head.next /\ hn > 0 /\ hn <= 1 + 2 * Digits
  <2>1. 1 + 2 * Digits \in Nat
    BY <1>8
  <2>. QED BY <1>10, <2>1
<1>12. /\ field.next \in Nat
       /\ hn = pt /\ past <= end + 1 => field = AString(text, pt)
       /\ hn = pt \/ hn > end + 1 => (field.ok => field.next = past \/ field.next > end + 1)
  <2>1. hn \in Nat \ {0} /\ hn + Digits - 1 <= Len(memory)
    BY <1>7, <1>8, <1>11
  <2>2. pt + Size[Len(text)] + Len(text) = past
    BY <1>3, <1>4
  <2>3. Len(text) <= IntMax
    BY <1>1, PacketBounds
  <2>4. ASSUME hn = pt \/ hn > end + 1
        PROVE  /\ hn = pt /\ past <= end + 1 => field = AString(text, pt)
               /\ field.ok => field.next = past \/ field.next > end + 1
    <3>. DEFINE r == StringAt(memory, hn, JsonSize)
    <3>1. /\ hn = pt /\ pt + Size[Len(text)] + Len(text) <= end + 1 => r = AString(text, pt)
          /\ r.ok => r.next = pt + Size[Len(text)] + Len(text) \/ r.next > end + 1
      <4>1. JsonSize \in Nat /\ Len(text) <= JsonSize
        BY <1>8
      <4>2. Within(wire, pt, Encode[Len(text)] \o text) /\ wire \in Seq(Bytes)
        BY <1>2, <1>5
      <4>. QED BY <2>1, <2>3, <2>4, <4>1, <4>2, StringNext
    <3>. HIDE DEF r
    <3>2. field = r
      BY <1>11 DEF field, r
    <3>. QED BY <2>2, <3>1, <3>2
  <2>5. StringAt(memory, hn, JsonSize).next \in hn .. (hn + Digits + JsonSize)
    BY <1>7, <1>8, <2>1, StringReads
  <2>6. field.next \in Nat
    <3>1. field = StringAt(memory, hn, JsonSize)
      BY <1>11 DEF field
    <3>. QED BY <1>8, <2>5, <3>1
  <2>. QED BY <2>4, <2>6
<1>13. ASSUME end = Len(wire) PROVE result.ok /\ result.value = text /\ result.next = past
  <2>1. pt <= end + 1 /\ past <= end + 1
    BY <1>4, <1>6, <1>7, <1>13
  <2>2. head.ok /\ hn = pt
    BY <1>10, <1>11, <2>1
  <2>3. field = AString(text, pt)
    BY <1>12, <2>1, <2>2
  <2>4. field.ok /\ field.value = text /\ field.next = pt + Size[Len(text)] + Len(text)
    BY <2>3 DEF AString
  <2>5. pt + Size[Len(text)] + Len(text) = past
    BY <1>3, <1>4
  <2>. QED BY <1>9, <2>2, <2>4, <2>5
<1>14. ASSUME result.ok, end < Len(wire) PROVE result.next > end + 1
  <2>1. head.ok /\ field.ok
    <3>1. result.ok = (head.ok /\ field.ok)
      BY <1>9
    <3>. QED BY <1>14, <3>1
  <2>2. field.next = past \/ field.next > end + 1
    BY <1>10, <1>11, <1>12, <2>1
  <2>3. past > end + 1
    BY <1>6, <1>7, <1>14
  <2>. QED BY <1>9, <2>2, <2>3
<1>15. result.next \in Nat
  BY <1>9, <1>12
<1>. QED BY <1>6, <1>13, <1>14, <1>15 DEF ReadWell, result

-----------------------------------------------------------------------------
(* A number, byte by byte.                                                 *)

LEMMA NumberRound ==
  ASSUME NEW body \in Seq(Bytes), NEW n \in Nat, ~LastByte(n)
  PROVE  /\ n \div Base \in Nat
         /\ Append(body, (n % Base) + Base) \in Seq(Bytes)
         /\ Append(body, (n % Base) + Base) \o Encode[n \div Base] = body \o Encode[n]
<1>. DEFINE b == (n % Base) + Base
            o == n \div Base
<1>1. Base \in Nat \ {0, 1} /\ ~(n < Base)
  BY PacketBounds DEF LastByte
<1>2. o \in Nat /\ b \in Bytes
  <2>1. o \in Nat /\ n % Base \in 0 .. (Base - 1)
    BY <1>1, DivMod
  <2>. HIDE DEF o
  <2>. QED BY <1>1, <2>1 DEF Bytes
<1>3. Encode[n] = <<b>> \o Encode[o] /\ Encode[o] \in Seq(Bytes)
  BY <1>1, <1>2, EncodeIs, EncodeWritten DEF Written
<1>. HIDE DEF b, o
<1>4. Append(body, b) = body \o <<b>> /\ Append(body, b) \in Seq(Bytes) /\ <<b>> \in Seq(Bytes)
  BY <1>2, AppendIsConcat, AppendProperties
<1>5. Append(body, b) \o Encode[o] = body \o Encode[n]
  <2>. DEFINE c == <<b>>
              e == Encode[o]
  <2>1. c \in Seq(Bytes) /\ e \in Seq(Bytes)
    BY <1>3, <1>4
  <2>2. Append(body, b) = body \o c /\ Encode[n] = c \o e
    BY <1>3, <1>4
  <2>. HIDE DEF c, e
  <2>3. (body \o c) \o e = body \o (c \o e)
    BY <2>1, ConcatAssociative
  <2>. QED BY <2>2, <2>3 DEF e
<1>. QED BY <1>2, <1>4, <1>5 DEF b, o

LEMMA NumberEnds ==
  ASSUME NEW body \in Seq(Bytes), NEW n, LastByte(n)
  PROVE  /\ n \in Nat /\ Encode[n] = <<n>> /\ <<n>> \in Seq(Bytes)
         /\ Append(body, n) \in Seq(Bytes) /\ Append(body, n) = body \o Encode[n]
<1>1. Base \in Nat \ {0, 1} /\ n \in Nat /\ n < Base /\ n \in Bytes
  BY PacketBounds DEF LastByte, Bytes
<1>2. Encode[n] = <<n>>
  BY <1>1, EncodeIs
<1>. QED BY <1>1, <1>2, AppendIsConcat, AppendProperties

LEMMA NegativeRound ==
  ASSUME NEW n \in Int, n < 0
  PROVE  ~LastByte(n) /\ n \div Base \in Int /\ n \div Base < 0
<1>1. Base \in Nat \ {0, 1}
  BY PacketBounds
<1>2. ~LastByte(n)
  BY <1>1 DEF LastByte
<1>. DEFINE q == n \div Base
            r == n % Base
<1>3. q \in Int /\ r \in 0 .. (Base - 1)
  BY <1>1
<1>4. n = Base * q + r
  BY <1>1, Z3
<1>. HIDE DEF q, r
<1>5. ASSUME ~(q < 0) PROVE FALSE
  <2>1. q \in Nat
    BY <1>3, <1>5
  <2>2. Base * q \in Nat
    BY <1>1, <2>1
  <2>. QED BY <1>3, <1>4, <2>2
<1>. QED BY <1>2, <1>3, <1>5 DEF q

\* As long as something of a handshake is to be written, its buffer has room.
LEMMA BufferHasRoom ==
  ASSUME NEW hs \in Handshakes, NonNegative(hs), NEW body \in Seq(Bytes), NEW n \in Nat,
         \/ body \o Encode[n] = HandshakeBody(hs)
         \/ body \o Encode[n] = << 0 >> \o Encode[hs.protocol_version]
  PROVE  Len(body) < BufferSize
<1>. DEFINE v == hs.protocol_version
            s == hs.next_state
            all == body \o Encode[n]
<1>1. hs.protocol_version >= 0 /\ hs.next_state >= 0
  BY DEF NonNegative
<1>2. /\ Len(HandshakeBody(hs)) <= BufferSize
      /\ Len(HandshakeBody(hs)) = 1 + Size[v] + Len(Address(hs)) + 2 + Size[s]
      /\ v \in 0 .. IntMax /\ s \in 0 .. IntMax /\ Address(hs) \in Seq(Bytes)
  BY <1>1, HandshakeIs, HandshakeLength
<1>3. /\ Encode[n] \in Seq(Bytes) /\ Len(Encode[n]) \in Nat /\ Len(Encode[n]) > 0
  <2>1. Written(n)
    BY EncodeWritten
  <2>. QED BY <2>1, PacketBounds DEF Written
<1>4. Len(all) = Len(body) + Len(Encode[n])
  BY <1>3, Joined
<1>5. Len(<<0>> \o Encode[v]) = 1 + Size[v]
  <2>1. <<0>> \in Seq(Bytes) /\ Len(<<0>>) = 1
    BY PacketBounds DEF Bytes
  <2>2. Encode[v] \in Seq(Bytes) /\ Len(Encode[v]) = Size[v]
    BY <1>2, EncodeLength
  <2>. HIDE DEF v
  <2>. QED BY <2>1, <2>2, Joined
<1>6. Len(all) = Len(HandshakeBody(hs)) \/ Len(all) = 1 + Size[v]
  BY <1>5
<1>. HIDE DEF all, v, s
<1>7. PICK nv \in Nat, ns \in Nat, na \in Nat, le \in Nat, lb \in Nat :
        /\ nv = Size[v] /\ ns = Size[s] /\ na = Len(Address(hs)) /\ le = Len(Encode[n])
        /\ lb = Len(body)
  <2>1. Size[v] \in Nat /\ Size[s] \in Nat
    BY <1>2, EncodeLength
  <2>2. Len(Address(hs)) \in Nat
    BY <1>2
  <2>. QED BY <1>3, <2>1, <2>2
<1>8. /\ 1 + nv + na + 2 + ns <= BufferSize /\ BufferSize \in Nat /\ le > 0
      /\ (lb + le = 1 + nv + na + 2 + ns \/ lb + le = 1 + nv)
  BY <1>2, <1>3, <1>4, <1>6, <1>7, PacketBounds
<1>9. lb < BufferSize
  BY <1>8
<1>. QED BY <1>7, <1>9

\* A client's request, whose body is its id.
LEMMA RequestReadBack ==
  ASSUME NEW wire, wire = Packed(<< 0 >>),
         NEW memory, NEW end, Holds(memory, wire, end), Behind(memory, end)
  PROVE  ReadWell(RequestCheck(memory), wire, end, <<>>)
<1>. DEFINE head == HeadAt(memory)
<1>1. <<0>> \in Seq(Bytes) /\ Len(<<0>>) = 1 /\ 1 \in 0 .. IntMax /\ 1 <= IntMax
  BY PacketBounds DEF Bytes
<1>2. /\ wire \in Seq(Bytes) /\ Len(wire) = Size[1] + 1 /\ Size[1] \in 1 .. Digits
      /\ Within(wire, 1, Encode[1]) /\ Within(wire, 1 + Size[1], <<0>>)
  BY <1>1, PackedIs
<1>3. /\ Len(memory) \in Nat /\ end \in Nat /\ Digits \in Nat /\ JsonSize \in Nat
      /\ Len(memory) >= end + 2 * JsonSize + 6 * Digits
  BY PacketBounds DEF Holds, Behind
<1>4. 2 * Digits <= Len(memory)
  BY <1>3
<1>5. /\ head.next \in 1 .. (1 + 2 * Digits)
      /\ 2 + Size[1] <= end + 1 => head.ok /\ head.next = 2 + Size[1]
      /\ head.ok => head.next = 2 + Size[1] \/ head.next > end + 1
  BY <1>1, <1>2, <1>4, HeadField
<1>6. RequestCheck(memory) = [ok |-> head.ok, next |-> head.next, value |-> <<>>]
  BY DEF RequestCheck
<1>. HIDE DEF head
<1>7. PICK s \in Nat : s = Size[1]
  <2>1. Size[1] \in Nat
    BY <1>2, <1>3
  <2>. QED BY <2>1, Zenon
<1>8. Len(wire) = s + 1 /\ head.next \in Nat
  BY <1>2, <1>3, <1>5, <1>7
<1>9. end = Len(wire) => head.ok /\ head.next = Len(wire) + 1
  BY <1>5, <1>7, <1>8
<1>10. head.ok /\ end < Len(wire) => head.next > end + 1
  BY <1>3, <1>5, <1>7, <1>8
<1>. QED BY <1>6, <1>8, <1>9, <1>10 DEF ReadWell

-----------------------------------------------------------------------------
(* The steps of Packets.                                                   *)

\* The packet that is to be written, without its length.
Body ==
  CASE pkKind = "handshake" -> HandshakeBody(pkFields)
    [] pkKind \in {"request", "asked"} -> <<0>>
    [] pkKind = "response"  -> ResponseBody(pkFields)
    [] pkKind = "ping"      -> <<1>> \o pkFields

\* What is written is of its kind.
FieldsInv ==
  /\ pkKind \in Kinds
  /\ pkKind = "handshake" => pkFields \in Handshakes
  /\ pkKind = "response" => pkFields \in Texts
  /\ pkKind = "ping" => pkFields \in Payloads
  /\ pkKind = "asked" => pkFields = <<>>

\* A number that is not negative is written as Encode has it, what is left of it
\* included; of one that is negative there is always something left.
BeingWritten(n, all) ==
  IF n < 0 THEN pkRest \in Int /\ pkRest < 0
           ELSE /\ pkRest \in Nat /\ pkBody \in Seq(Bytes)
                /\ pkBody \o Encode[pkRest] = all

NumbersInv ==
  /\ pkPc \in {"version", "state"} => pkKind = "handshake"
  /\ pkPc = "version" =>
       BeingWritten(pkFields.protocol_version, <<0>> \o Encode[pkFields.protocol_version])
  /\ pkPc = "state" =>
       /\ pkFields.protocol_version >= 0
       /\ BeingWritten(pkFields.next_state, HandshakeBody(pkFields))
  /\ pkPc = "overrun" => \E n \in Numbers(pkFields) : n < 0

\* The packet is complete before it is copied.
BodyInv ==
  pkPc \in {"packet", "data", "read", "done", "unread"} =>
    /\ pkBody = Body
    /\ pkKind = "handshake" => NonNegative(pkFields)
    /\ pkKind = "response" => Len(pkFields) <= JsonSize

WireInv ==
  pkPc \in {"read", "done", "unread"} =>
    pkWire = IF pkKind = "request" THEN <<>> ELSE Packed(pkBody)

\* What is allocated where a write may fail.
HeapInv ==
  /\ pkPc \in {"fill", "version", "state"} => pkHeap = {}
  /\ pkPc = "packet" =>
       pkHeap \subseteq {"scratch"} /\ (pkKind = "handshake" => pkHeap = {})
  /\ pkPc = "data" /\ pkKind = "handshake" => pkHeap \subseteq {"packet"}
  /\ pkPc = "failed" => pkHeap \subseteq (IF pkKind = "handshake" THEN {"packet"} ELSE {})

\* What PacketReadBack says but for Framed.
ReadInv ==
  /\ pkPc \in {"done", "unread"} /\ pkCut = 0 =>
       pkPc = "done" /\ pkRead = pkFields /\ pkUsed = Len(pkWire)
  /\ pkPc = "done" /\ pkCut > 0 /\ pkKind # "ping" =>
       pkUsed > Len(pkWire) - pkCut

PkInv == FieldsInv /\ NumbersInv /\ BodyInv /\ WireInv /\ HeapInv /\ ReadInv

LEMMA FieldsAre ==
  ASSUME FieldsInv, pkKind = "handshake"
  PROVE  /\ pkFields \in Handshakes
         /\ pkFields.protocol_version \in Int /\ pkFields.next_state \in Int
         /\ NonNegative(pkFields) <=> ~(\E n \in Numbers(pkFields) : n < 0)
<1>1. pkFields \in Handshakes
  BY DEF FieldsInv
<1>2. pkFields.protocol_version \in Ints /\ pkFields.next_state \in Ints
  BY <1>1, PacketsAssumption DEF Numbers
<1>3. pkFields.protocol_version \in Int /\ pkFields.next_state \in Int
  BY <1>2, PacketBounds DEF Ints
<1>. QED BY <1>1, <1>3 DEF NonNegative, Numbers

\* A round of varint_write in either place.
LEMMA RoundKeepsNumber ==
  ASSUME NEW n \in Int, NEW all, BeingWritten(n, all), ~LastByte(pkRest),
         pkBody' = Append(pkBody, (pkRest % Base) + Base), pkRest' = pkRest \div Base
  PROVE  IF n < 0 THEN pkRest' \in Int /\ pkRest' < 0
                  ELSE /\ pkRest' \in Nat /\ pkBody' \in Seq(Bytes)
                       /\ pkBody' \o Encode[pkRest'] = all
<1>1. CASE n < 0
  <2>1. pkRest \in Int /\ pkRest < 0
    BY <1>1 DEF BeingWritten
  <2>. QED BY <1>1, <2>1, NegativeRound
<1>2. CASE ~(n < 0)
  <2>1. pkRest \in Nat /\ pkBody \in Seq(Bytes) /\ pkBody \o Encode[pkRest] = all
    BY <1>2 DEF BeingWritten
  <2>2. /\ pkRest \div Base \in Nat
        /\ Append(pkBody, (pkRest % Base) + Base) \in Seq(Bytes)
        /\ Append(pkBody, (pkRest % Base) + Base) \o Encode[pkRest \div Base]
             = pkBody \o Encode[pkRest]
    BY <2>1, NumberRound
  <2>. QED BY <1>2, <2>1, <2>2
<1>. QED BY <1>1, <1>2

\* The last round: the number was not negative, and is complete.
LEMMA LastRoundEnds ==
  ASSUME NEW n \in Int, NEW all, BeingWritten(n, all), LastByte(pkRest)
  PROVE  /\ n >= 0
         /\ Append(pkBody, pkRest) = all /\ Append(pkBody, pkRest) \in Seq(Bytes)
<1>1. ASSUME n < 0 PROVE FALSE
  <2>1. pkRest \in Int /\ pkRest < 0
    BY <1>1 DEF BeingWritten
  <2>. QED BY <2>1, NegativeRound
<1>2. ~(n < 0)
  BY <1>1
<1>3. pkBody \in Seq(Bytes) /\ pkBody \o Encode[pkRest] = all
  BY <1>2 DEF BeingWritten
<1>4. Append(pkBody, pkRest) \in Seq(Bytes) /\ Append(pkBody, pkRest) = pkBody \o Encode[pkRest]
  BY <1>3, NumberEnds
<1>. QED BY <1>2, <1>3, <1>4

LEMMA FieldsStep ==
  ASSUME FieldsInv, [PkNext]_pkvars
  PROVE  FieldsInv' /\ pkKind' = pkKind /\ pkFields' = pkFields
<1>1. pkKind' = pkKind /\ pkFields' = pkFields
  BY DEF PkNext, HandshakeFill, NumberByte, VersionEnds, StateEnds, ResponseFill, PingFill,
         RequestFill, MallocPacket, MallocData, ReadPacket, pkvars
<1>. QED BY <1>1 DEF FieldsInv

LEMMA NumbersStep ==
  ASSUME FieldsInv, NumbersInv, [PkNext]_pkvars
  PROVE  NumbersInv'
<1>. DEFINE v == pkFields.protocol_version
            s == pkFields.next_state
            zv == <<0>> \o Encode[v]
<1>0. pkKind' = pkKind /\ pkFields' = pkFields
  BY FieldsStep
<1>1. CASE HandshakeFill
  <2>1. /\ pkKind = "handshake" /\ pkPc' = "version" /\ pkBody' = <<0>>
        /\ pkRest' = pkFields.protocol_version
    BY <1>1 DEF HandshakeFill
  <2>2. pkFields.protocol_version \in Int
    BY <2>1, FieldsAre
  <2>3. <<0>> \in Seq(Bytes)
    BY PacketBounds DEF Bytes
  <2>4. BeingWritten(v, zv)'
    <3>1. pkRest' = v /\ v' = v /\ zv' = zv
      BY <1>0, <2>1
    <3>. HIDE DEF v
    <3>. QED BY <2>1, <2>2, <2>3, <3>1 DEF BeingWritten, v
  <2>. QED BY <1>0, <2>1, <2>4 DEF NumbersInv
<1>2. CASE NumberByte
  <2>1. /\ pkPc \in {"version", "state"} /\ ~LastByte(pkRest) /\ pkKind = "handshake"
    BY <1>2 DEF NumberByte, NumbersInv
  <2>2. /\ pkFields \in Handshakes /\ v \in Int /\ s \in Int
        /\ NonNegative(pkFields) <=> ~(\E n \in Numbers(pkFields) : n < 0)
    BY <2>1, FieldsAre
  <2>3. CASE Len(pkBody) < BufferSize
    <3>1. /\ pkBody' = Append(pkBody, (pkRest % Base) + Base)
          /\ pkRest' = pkRest \div Base /\ pkPc' = pkPc
      BY <1>2, <2>3 DEF NumberByte
    <3>2. CASE pkPc = "version"
      <4>1. BeingWritten(v, zv)
        BY <3>2 DEF NumbersInv
      <4>2. BeingWritten(v, zv)'
        <5>1. v' = v /\ zv' = zv
          BY <1>0
        <5>. HIDE DEF v, zv
        <5>2. IF v < 0 THEN pkRest' \in Int /\ pkRest' < 0
                       ELSE /\ pkRest' \in Nat /\ pkBody' \in Seq(Bytes)
                            /\ pkBody' \o Encode[pkRest'] = zv
          BY <2>1, <2>2, <3>1, <4>1, RoundKeepsNumber
        <5>. QED BY <5>1, <5>2 DEF BeingWritten
      <4>. QED BY <1>0, <2>1, <3>1, <3>2, <4>2 DEF NumbersInv
    <3>3. CASE pkPc = "state"
      <4>1. BeingWritten(s, HandshakeBody(pkFields)) /\ v >= 0
        BY <3>3 DEF NumbersInv
      <4>. DEFINE all == HandshakeBody(pkFields)
      <4>2. BeingWritten(s, all)'
        <5>1. s' = s /\ all' = all
          BY <1>0
        <5>2. BeingWritten(s, all)
          BY <4>1
        <5>. HIDE DEF s, all
        <5>3. IF s < 0 THEN pkRest' \in Int /\ pkRest' < 0
                       ELSE /\ pkRest' \in Nat /\ pkBody' \in Seq(Bytes)
                            /\ pkBody' \o Encode[pkRest'] = all
          BY <2>1, <2>2, <3>1, <5>2, RoundKeepsNumber
        <5>. QED BY <5>1, <5>3 DEF BeingWritten
      <4>. QED BY <1>0, <2>1, <3>1, <3>3, <4>1, <4>2 DEF NumbersInv
    <3>. QED BY <2>1, <3>2, <3>3
  <2>4. CASE ~(Len(pkBody) < BufferSize)
    <3>1. pkPc' = "overrun"
      BY <1>2, <2>4 DEF NumberByte
    <3>2. ASSUME NonNegative(pkFields) PROVE FALSE
      <4>1. v >= 0 /\ s >= 0
        BY <3>2 DEF NonNegative
      <4>2. pkRest \in Nat /\ pkBody \in Seq(Bytes)
            /\ \/ pkBody \o Encode[pkRest] = HandshakeBody(pkFields)
               \/ pkBody \o Encode[pkRest] = <<0>> \o Encode[pkFields.protocol_version]
        <5>1. ~(v < 0) /\ ~(s < 0)
          BY <2>2, <4>1
        <5>2. CASE pkPc = "version"
          <6>1. BeingWritten(v, zv)
            BY <5>2 DEF NumbersInv
          <6>. QED BY <5>1, <6>1 DEF BeingWritten
        <5>3. CASE pkPc = "state"
          <6>1. BeingWritten(s, HandshakeBody(pkFields))
            BY <5>3 DEF NumbersInv
          <6>. QED BY <5>1, <6>1 DEF BeingWritten
        <5>. QED BY <2>1, <5>2, <5>3
      <4>3. Len(pkBody) < BufferSize
        BY <2>2, <3>2, <4>2, BufferHasRoom
      <4>. QED BY <2>4, <4>3
    <3>3. \E n \in Numbers(pkFields) : n < 0
      BY <2>2, <3>2
    <3>. QED BY <1>0, <3>1, <3>3 DEF NumbersInv
  <2>. QED BY <2>3, <2>4
<1>3. CASE VersionEnds
  <2>1. pkPc = "version" /\ LastByte(pkRest) /\ pkKind = "handshake"
    BY <1>3 DEF VersionEnds, NumbersInv
  <2>2. v \in Int /\ s \in Int /\ pkFields \in Handshakes
    BY <2>1, FieldsAre
  <2>3. v >= 0 /\ Append(pkBody, pkRest) = zv /\ Append(pkBody, pkRest) \in Seq(Bytes)
    <3>1. BeingWritten(v, zv)
      BY <2>1 DEF NumbersInv
    <3>. HIDE DEF v, zv
    <3>. QED BY <2>1, <2>2, <3>1, LastRoundEnds
  <2>4. CASE pkFields.server_address = <<>>
    BY <1>3, <2>4 DEF VersionEnds, NumbersInv
  <2>5. CASE pkFields.server_address # <<>>
    <3>1. /\ pkPc' = "state" /\ pkRest' = s
          /\ pkBody' = zv \o Address(pkFields) \o PortOut(pkFields.server_port)
      BY <1>3, <2>3, <2>5 DEF VersionEnds, Address
    <3>. DEFINE all == HandshakeBody(pkFields)
    <3>2. BeingWritten(s, all)'
      <4>1. s' = s /\ all' = all
        BY <1>0
      <4>2. CASE s < 0
        BY <2>2, <3>1, <4>1, <4>2 DEF BeingWritten
      <4>3. CASE ~(s < 0)
        <5>1. v >= 0 /\ s >= 0 /\ s \in Nat
          BY <2>2, <2>3, <4>3
        <5>2. Address(pkFields) \in Seq(Bytes) /\ PortOut(pkFields.server_port) \in Seq(Bytes)
          BY <2>2, <5>1, HandshakeIs, PortReadBack
        <5>3. pkBody' \o Encode[s] = all
          BY <3>1 DEF HandshakeBody
        <5>4. pkBody' \in Seq(Bytes)
          <6>. HIDE DEF zv
          <6>1. zv \in Seq(Bytes)
            BY <2>3
          <6>2. zv \o Address(pkFields) \in Seq(Bytes)
            BY <5>2, <6>1, Joined
          <6>. QED BY <3>1, <5>2, <6>2, Joined
        <5>. HIDE DEF s, all
        <5>. QED BY <3>1, <4>1, <4>3, <5>1, <5>3, <5>4 DEF BeingWritten
      <4>. QED BY <4>2, <4>3
    <3>. QED BY <1>0, <2>1, <2>3, <3>1, <3>2 DEF NumbersInv
  <2>. QED BY <2>4, <2>5
<1>4. CASE StateEnds
  BY <1>4 DEF StateEnds, NumbersInv
<1>5. CASE ResponseFill
  BY <1>5 DEF ResponseFill, NumbersInv
<1>6. CASE PingFill \/ RequestFill
  BY <1>6 DEF PingFill, RequestFill, NumbersInv
<1>7. CASE MallocPacket \/ MallocData
  BY <1>7 DEF MallocPacket, MallocData, NumbersInv
<1>8. CASE ReadPacket
  <2>1. pkPc' \in {"done", "unread"}
    BY <1>8 DEF ReadPacket
  <2>. QED BY <2>1 DEF NumbersInv
<1>9. CASE UNCHANGED pkvars
  BY <1>9 DEF pkvars, NumbersInv, BeingWritten
<1>. QED BY <1>1, <1>2, <1>3, <1>4, <1>5, <1>6, <1>7, <1>8, <1>9 DEF PkNext

LEMMA PingBounds ==
  /\ PayloadSize \in Nat /\ 1 + PayloadSize < Base /\ 1 + PayloadSize <= IntMax
  /\ Payloads \subseteq Seq(Bytes) /\ \A f \in Payloads : Len(f) = PayloadSize
<1>1. PayloadSize \in Nat /\ 1 + PayloadSize < Base /\ 1 + PayloadSize <= IntMax
  BY PacketsAssumption
<1>2. {0, 1, 2 * Base - 1} \subseteq Bytes
  BY PacketBounds DEF Bytes
<1>. QED BY <1>1, <1>2 DEF Payloads

\* The body of a packet, and of which length it is.
LEMMA BodyIsBytes ==
  ASSUME FieldsInv, pkBody = Body, pkKind = "handshake" => NonNegative(pkFields),
         pkKind = "response" => Len(pkFields) <= JsonSize
  PROVE  /\ pkBody \in Seq(Bytes) /\ Len(pkBody) <= IntMax
         /\ pkKind = "handshake" => Len(pkBody) <= BufferSize
<1>1. CASE pkKind = "handshake"
  <2>1. Body = HandshakeBody(pkFields)
    BY <1>1 DEF Body
  <2>2. pkFields \in Handshakes /\ pkFields.protocol_version >= 0 /\ pkFields.next_state >= 0
    BY <1>1 DEF FieldsInv, NonNegative
  <2>3. /\ HandshakeBody(pkFields) \in Seq(Bytes)
        /\ Len(HandshakeBody(pkFields)) <= BufferSize
    BY <2>2, HandshakeLength
  <2>4. pkBody \in Seq(Bytes) /\ Len(pkBody) <= BufferSize
    BY <2>1, <2>3
  <2>. QED BY <2>4, PacketBounds
<1>2. CASE pkKind \in {"request", "asked"}
  <2>1. pkBody = <<0>>
    BY <1>2 DEF Body
  <2>2. <<0>> \in Seq(Bytes) /\ Len(<<0>>) = 1 /\ 1 <= IntMax
    BY PacketBounds DEF Bytes
  <2>. QED BY <1>2, <2>1, <2>2
<1>3. CASE pkKind = "response"
  <2>1. pkBody = ResponseBody(pkFields)
    BY <1>3 DEF Body
  <2>2. pkFields \in Seq(Bytes) /\ Len(pkFields) <= JsonSize
    BY <1>3, PacketsAssumption DEF FieldsInv
  <2>. QED BY <1>3, <2>1, <2>2, ResponseIs
<1>4. CASE pkKind = "ping"
  <2>1. pkBody = <<1>> \o pkFields
    BY <1>4 DEF Body
  <2>2. pkFields \in Seq(Bytes) /\ Len(pkFields) = PayloadSize
    BY <1>4, PingBounds DEF FieldsInv
  <2>3. <<1>> \in Seq(Bytes) /\ Len(<<1>>) = 1
    BY PacketBounds DEF Bytes
  <2>4. pkBody \in Seq(Bytes) /\ Len(pkBody) = 1 + PayloadSize
    BY <2>1, <2>2, <2>3, Joined
  <2>. QED BY <1>4, <2>4, PingBounds
<1>. QED BY <1>1, <1>2, <1>3, <1>4 DEF FieldsInv, Kinds

Finished == {"packet", "data", "read", "done", "unread"}

LEMMA BodyStep ==
  ASSUME FieldsInv, NumbersInv, BodyInv, [PkNext]_pkvars
  PROVE  BodyInv'
<1>. DEFINE v == pkFields.protocol_version
            s == pkFields.next_state
<1>0. pkKind' = pkKind /\ pkFields' = pkFields
  BY FieldsStep
<1>1. CASE HandshakeFill \/ NumberByte \/ VersionEnds
  <2>1. pkPc' \notin Finished
    <3>1. CASE HandshakeFill
      BY <3>1 DEF HandshakeFill, Finished
    <3>2. CASE NumberByte
      BY <3>2 DEF NumberByte, Finished
    <3>3. CASE VersionEnds
      BY <3>3 DEF VersionEnds, Finished
    <3>. QED BY <1>1, <3>1, <3>2, <3>3
  <2>. QED BY <2>1 DEF BodyInv, Finished
<1>2. CASE StateEnds
  <2>1. /\ pkPc = "state" /\ LastByte(pkRest) /\ pkKind = "handshake"
        /\ pkBody' = Append(pkBody, pkRest)
    BY <1>2 DEF StateEnds, NumbersInv
  <2>2. v \in Int /\ s \in Int /\ pkFields \in Handshakes
    BY <2>1, FieldsAre
  <2>3. v >= 0 /\ BeingWritten(s, HandshakeBody(pkFields))
    BY <2>1 DEF NumbersInv
  <2>4. s >= 0 /\ Append(pkBody, pkRest) = HandshakeBody(pkFields)
    BY <2>1, <2>2, <2>3, LastRoundEnds
  <2>5. NonNegative(pkFields)
    BY <2>3, <2>4 DEF NonNegative
  <2>6. Body' = HandshakeBody(pkFields)
    BY <1>0, <2>1 DEF Body
  <2>. QED BY <1>0, <2>1, <2>4, <2>5, <2>6 DEF BodyInv
<1>3. CASE ResponseFill
  <2>1. pkKind = "response"
    BY <1>3 DEF ResponseFill
  <2>2. Body' = ResponseBody(pkFields)
    BY <1>0, <2>1 DEF Body
  <2>3. \/ pkPc' = "failed"
        \/ /\ ~(Len(pkFields) > JsonSize)
           /\ pkBody' = <<0>> \o Encode[Len(pkFields)] \o pkFields
    BY <1>3 DEF ResponseFill
  <2>4. CASE pkPc' = "failed"
    BY <2>4 DEF BodyInv
  <2>5. CASE /\ ~(Len(pkFields) > JsonSize)
             /\ pkBody' = <<0>> \o Encode[Len(pkFields)] \o pkFields
    <3>1. pkBody' = Body'
      BY <2>2, <2>5 DEF ResponseBody
    <3>2. Len(pkFields) \in Nat
      BY <2>1, PacketsAssumption DEF FieldsInv
    <3>3. Len(pkFields') <= JsonSize
      BY <1>0, <2>5, <3>2, PacketBounds
    <3>4. pkKind' # "handshake"
      BY <1>0, <2>1
    <3>. QED BY <3>1, <3>3, <3>4 DEF BodyInv
  <2>. QED BY <2>3, <2>4, <2>5
<1>4. CASE PingFill
  <2>1. pkKind = "ping" /\ pkBody' = <<1>> \o pkFields
    BY <1>4 DEF PingFill
  <2>2. Body' = <<1>> \o pkFields
    BY <1>0, <2>1 DEF Body
  <2>. QED BY <1>0, <2>1, <2>2 DEF BodyInv
<1>5. CASE RequestFill
  <2>1. pkKind = "request" /\ pkBody' = <<0>>
    BY <1>5 DEF RequestFill
  <2>2. Body' = <<0>>
    BY <1>0, <2>1 DEF Body
  <2>. QED BY <1>0, <2>1, <2>2 DEF BodyInv
<1>6. CASE MallocPacket \/ MallocData \/ ReadPacket \/ UNCHANGED pkvars
  <2>1. pkBody' = pkBody
    BY <1>6 DEF MallocPacket, MallocData, ReadPacket, pkvars
  <2>2. pkPc' \in Finished => pkPc \in Finished
    <3>1. CASE MallocPacket
      BY <3>1 DEF MallocPacket, Finished
    <3>2. CASE MallocData
      BY <3>2 DEF MallocData, Finished
    <3>3. CASE ReadPacket
      <4>1. pkPc = "read"
        BY <3>3 DEF ReadPacket
      <4>. QED BY <4>1 DEF Finished
    <3>4. CASE UNCHANGED pkvars
      BY <3>4 DEF pkvars
    <3>. QED BY <1>6, <3>1, <3>2, <3>3, <3>4
  <2>3. Body' = Body
    BY <1>0 DEF Body
  <2>. QED BY <1>0, <2>1, <2>2, <2>3 DEF BodyInv, Finished
<1>. QED BY <1>1, <1>2, <1>3, <1>4, <1>5, <1>6 DEF PkNext

LEMMA WireStep ==
  ASSUME FieldsInv, BodyInv, WireInv, [PkNext]_pkvars
  PROVE  WireInv'
<1>. DEFINE Copied == {"read", "done", "unread"}
<1>0. pkKind' = pkKind /\ pkFields' = pkFields
  BY FieldsStep
<1>1. CASE HandshakeFill \/ NumberByte \/ VersionEnds \/ StateEnds \/ ResponseFill
             \/ PingFill \/ RequestFill \/ MallocPacket
  <2>1. pkPc' \notin Copied
    <3>1. CASE HandshakeFill
      BY <3>1 DEF HandshakeFill
    <3>2. CASE NumberByte
      BY <3>2 DEF NumberByte
    <3>3. CASE VersionEnds
      BY <3>3 DEF VersionEnds
    <3>4. CASE StateEnds
      BY <3>4 DEF StateEnds
    <3>5. CASE ResponseFill
      BY <3>5 DEF ResponseFill
    <3>6. CASE PingFill \/ RequestFill \/ MallocPacket
      BY <3>6 DEF PingFill, RequestFill, MallocPacket
    <3>. QED BY <1>1, <3>1, <3>2, <3>3, <3>4, <3>5, <3>6
  <2>. QED BY <2>1 DEF WireInv
<1>2. CASE MallocData
  <2>1. pkPc = "data" /\ pkBody' = pkBody
    BY <1>2 DEF MallocData
  <2>2. /\ pkBody = Body /\ (pkKind = "handshake" => NonNegative(pkFields))
        /\ (pkKind = "response" => Len(pkFields) <= JsonSize)
    BY <2>1 DEF BodyInv
  <2>3. pkBody \in Seq(Bytes) /\ Len(pkBody) <= IntMax
    BY <2>2, BodyIsBytes
  <2>4. CASE pkPc' = "failed"
    BY <2>4 DEF WireInv
  <2>5. CASE pkPc' # "failed"
    <3>1. pkWire' = SubSeq(Encode[Len(pkBody)] \o pkBody, 1, WireLength)
      BY <1>2, <2>5 DEF MallocData
    <3>2. /\ Packed(pkBody) \in Seq(Bytes) /\ Len(pkBody) \in 0 .. IntMax
          /\ Len(Packed(pkBody)) = Size[Len(pkBody)] + Len(pkBody)
      BY <2>3, PackedIs
    <3>3. Len(Encode[Len(pkBody)]) = Size[Len(pkBody)]
      BY <3>2, EncodeLength
    <3>4. CASE pkKind = "request"
      <4>1. WireLength = 0
        BY <3>4 DEF WireLength
      <4>2. pkWire' = <<>>
        BY <3>1, <4>1, SubSeqEmpty
      <4>. QED BY <1>0, <3>4, <4>2 DEF WireInv
    <3>5. CASE pkKind # "request"
      <4>1. WireLength = Len(Packed(pkBody))
        BY <3>2, <3>3, <3>5 DEF WireLength
      <4>2. pkWire' = SubSeq(Packed(pkBody), 1, Len(Packed(pkBody)))
        BY <3>1, <4>1 DEF Packed
      <4>3. pkWire' = Packed(pkBody)
        BY <3>2, <4>2, SubSeqFull
      <4>. QED BY <1>0, <2>1, <3>5, <4>3 DEF WireInv
    <3>. QED BY <3>4, <3>5
  <2>. QED BY <2>4, <2>5
<1>3. CASE ReadPacket
  <2>1. pkPc = "read" /\ pkWire' = pkWire /\ pkBody' = pkBody
    BY <1>3 DEF ReadPacket
  <2>. QED BY <1>0, <2>1 DEF WireInv
<1>4. CASE UNCHANGED pkvars
  BY <1>4 DEF pkvars, WireInv
<1>. QED BY <1>1, <1>2, <1>3, <1>4 DEF PkNext

LEMMA HeapStep ==
  ASSUME FieldsInv, NumbersInv, HeapInv, [PkNext]_pkvars
  PROVE  HeapInv'
<1>0. pkKind' = pkKind
  BY FieldsStep
<1>1. CASE HandshakeFill
  BY <1>0, <1>1 DEF HandshakeFill, HeapInv
<1>2. CASE NumberByte
  BY <1>0, <1>2 DEF NumberByte, HeapInv
<1>3. CASE VersionEnds
  BY <1>0, <1>3 DEF VersionEnds, HeapInv
<1>4. CASE StateEnds
  BY <1>0, <1>4 DEF StateEnds, HeapInv
<1>5. CASE ResponseFill
  BY <1>0, <1>5 DEF ResponseFill, HeapInv
<1>6. CASE PingFill
  BY <1>0, <1>6 DEF PingFill, HeapInv
<1>7. CASE RequestFill
  BY <1>0, <1>7 DEF RequestFill, HeapInv
<1>8. CASE MallocPacket
  BY <1>0, <1>8 DEF MallocPacket, HeapInv
<1>9. CASE MallocData
  BY <1>0, <1>9 DEF MallocData, HeapInv, LeftWithoutData
<1>10. CASE ReadPacket
  <2>1. pkPc' \in {"done", "unread"}
    BY <1>10 DEF ReadPacket
  <2>. QED BY <2>1 DEF HeapInv
<1>11. CASE UNCHANGED pkvars
  BY <1>11 DEF pkvars, HeapInv
<1>. QED BY <1>1, <1>2, <1>3, <1>4, <1>5, <1>6, <1>7, <1>8, <1>9, <1>10, <1>11 DEF PkNext

\* What arrives of a packet, and the memory it is read in.
LEMMA ArrivedIs ==
  ASSUME NEW wire \in Seq(Bytes), NEW lost \in 0 .. (Len(wire) - 1), NEW beyond \in Beyond
  PROVE  LET bytes == SubSeq(wire, 1, Len(wire) - lost)
             memory == Memory(bytes, beyond)
         IN /\ bytes \in Seq(Bytes) /\ Len(bytes) = Len(wire) - lost
            /\ Holds(memory, wire, Len(wire) - lost)
            /\ Behind(memory, Len(wire) - lost)
<1>. DEFINE bytes == SubSeq(wire, 1, Len(wire) - lost)
            memory == Memory(bytes, beyond)
<1>1. PICK end \in Nat : end = Len(wire) - lost /\ end > 0 /\ end <= Len(wire)
  OBVIOUS
<1>2. 1 + end - 1 = end /\ 1 \in Nat \ {0} /\ 1 + end - 1 <= Len(wire)
  BY <1>1
<1>3. bytes = SubSeq(wire, 1, 1 + end - 1)
  BY <1>1, <1>2
<1>. DEFINE part == SubSeq(wire, 1, 1 + end - 1)
<1>4. /\ part \in Seq(Bytes) /\ Len(part) = end
      /\ \A k \in 1 .. end : part[k] = wire[1 + k - 1]
  BY <1>1, <1>2, PartOf
<1>. HIDE DEF bytes, part
<1>5. /\ bytes \in Seq(Bytes) /\ Len(bytes) = end
      /\ \A k \in 1 .. end : bytes[k] = wire[k]
  <2>1. \A k \in 1 .. end : 1 + k - 1 = k
    BY <1>1
  <2>2. bytes = part
    BY <1>3 DEF part
  <2>. QED BY <1>4, <2>1, <2>2
<1>6. /\ memory \in Seq(Bytes) /\ Len(memory) = Len(bytes) + 2 * JsonSize + 6 * Digits
      /\ \A k \in 1 .. Len(bytes) : memory[k] = bytes[k]
  BY <1>5, MemoryIs
<1>. HIDE DEF memory
<1>7. JsonSize \in Nat /\ Digits \in Nat
  BY PacketBounds
<1>8. Len(memory) = end + 2 * JsonSize + 6 * Digits
  BY <1>5, <1>6
<1>9. end <= Len(memory) /\ Len(memory) >= end + 2 * JsonSize + 6 * Digits
  BY <1>7, <1>8
<1>10. Holds(memory, wire, end) /\ Behind(memory, end)
  BY <1>1, <1>5, <1>6, <1>9 DEF Holds, Behind
<1>. QED BY <1>1, <1>5, <1>10 DEF bytes, memory

\* A ping that arrives whole is sent back with the payload it came with.
LEMMA EchoWhole ==
  ASSUME NEW fields \in Payloads, NEW wire, wire = Packed(<< 1 >> \o fields)
  PROVE  SubSeq(wire, 3, Len(wire)) = fields
<1>. DEFINE body == <<1>> \o fields
            n == 1 + PayloadSize
<1>1. /\ PayloadSize \in Nat /\ n \in Nat /\ n < Base /\ n \in 0 .. IntMax
      /\ fields \in Seq(Bytes) /\ Len(fields) = PayloadSize
  <2>1. /\ PayloadSize \in Nat /\ n < Base /\ n <= IntMax
        /\ fields \in Seq(Bytes) /\ Len(fields) = PayloadSize
    BY PingBounds
  <2>. QED BY <2>1, PacketBounds
<1>2. <<1>> \in Seq(Bytes) /\ Len(<<1>>) = 1
  BY PacketBounds DEF Bytes
<1>3. /\ body \in Seq(Bytes) /\ Len(body) = n
      /\ Len(body) <= IntMax
  <2>1. body \in Seq(Bytes) /\ Len(body) = n
    BY <1>1, <1>2, Joined
  <2>. QED BY <1>1, <2>1, PacketBounds
<1>4. Size[n] = 1
  BY <1>1, SizeIs
<1>5. /\ wire \in Seq(Bytes) /\ Len(wire) = Size[Len(body)] + Len(body)
      /\ Within(wire, 1 + Size[Len(body)], body)
  BY <1>3, PackedIs
<1>. HIDE DEF n
<1>6. wire \in Seq(Bytes) /\ Len(wire) = 1 + n /\ Within(wire, 2, body)
  <2>. HIDE DEF body
  <2>. QED BY <1>1, <1>3, <1>4, <1>5
<1>7. Within(wire, 3, fields)
  <2>1. Within(wire, 2 + Len(<<1>>), fields)
    BY <1>1, <1>2, <1>6, WithinParts
  <2>2. 2 + Len(<<1>>) = 3
    BY <1>2
  <2>. QED BY <2>1, <2>2
<1>8. n = 1 + PayloadSize
  BY DEF n
<1>. DEFINE part == SubSeq(wire, 3, 3 + PayloadSize - 1)
<1>9. Len(wire) = 3 + PayloadSize - 1
  BY <1>1, <1>6, <1>8
<1>10. /\ part \in Seq(Bytes) /\ Len(part) = PayloadSize
       /\ \A k \in 1 .. PayloadSize : part[k] = wire[3 + k - 1]
  <2>1. 3 \in Nat \ {0} /\ 3 + PayloadSize - 1 <= Len(wire)
    BY <1>1, <1>9
  <2>. QED BY <1>1, <1>6, <2>1, PartOf
<1>11. \A k \in 1 .. PayloadSize : wire[3 + k - 1] = fields[k]
  BY <1>1, <1>7 DEF Within
<1>. HIDE DEF part
<1>12. part = fields
  BY <1>1, <1>10, <1>11, SeqEqual
<1>. QED BY <1>9, <1>12 DEF part

LEMMA ReadStep ==
  ASSUME FieldsInv, BodyInv, WireInv, ReadInv, [PkNext]_pkvars
  PROVE  ReadInv'
<1>0. pkKind' = pkKind /\ pkFields' = pkFields
  BY FieldsStep
<1>1. CASE HandshakeFill \/ NumberByte \/ VersionEnds \/ StateEnds \/ ResponseFill
             \/ PingFill \/ RequestFill \/ MallocPacket \/ MallocData
  <2>1. pkPc' \notin {"done", "unread"}
    <3>1. CASE HandshakeFill
      BY <3>1 DEF HandshakeFill
    <3>2. CASE NumberByte
      BY <3>2 DEF NumberByte
    <3>3. CASE VersionEnds
      BY <3>3 DEF VersionEnds
    <3>4. CASE StateEnds
      BY <3>4 DEF StateEnds
    <3>5. CASE ResponseFill
      BY <3>5 DEF ResponseFill
    <3>6. CASE PingFill \/ RequestFill \/ MallocPacket
      BY <3>6 DEF PingFill, RequestFill, MallocPacket
    <3>7. CASE MallocData
      BY <3>7 DEF MallocData
    <3>. QED BY <1>1, <3>1, <3>2, <3>3, <3>4, <3>5, <3>6, <3>7
  <2>. QED BY <2>1 DEF ReadInv
<1>2. CASE ReadPacket
  <2>1. pkPc = "read" /\ pkWire # <<>> /\ pkWire' = pkWire /\ pkBody' = pkBody
    BY <1>2 DEF ReadPacket
  <2>2. /\ pkBody = Body /\ (pkKind = "handshake" => NonNegative(pkFields))
        /\ (pkKind = "response" => Len(pkFields) <= JsonSize)
    BY <2>1 DEF BodyInv
  <2>3. pkKind # "request" /\ pkWire = Packed(pkBody)
    BY <2>1 DEF WireInv
  <2>4. pkWire \in Seq(Bytes)
    BY <2>2, <2>3, BodyIsBytes, PackedIs
  <2>5. PICK lost \in 0 .. (Len(pkWire) - 1), beyond \in Beyond :
          LET bytes == SubSeq(pkWire, 1, Len(pkWire) - lost)
              memory == Memory(bytes, beyond)
              result == CASE pkKind = "handshake" -> HandshakeRead(memory)
                          [] pkKind = "asked"     -> RequestCheck(memory)
                          [] pkKind = "response"  -> ResponseRead(memory)
                          [] pkKind = "ping"      -> Echo(bytes)
          IN /\ pkCut' = lost
             /\ pkPc' = IF result.ok THEN "done" ELSE "unread"
             /\ pkRead' = result.value /\ pkUsed' = result.next - 1
    BY <1>2 DEF ReadPacket
  <2>. DEFINE bytes == SubSeq(pkWire, 1, Len(pkWire) - lost)
              memory == Memory(bytes, beyond)
              end == Len(pkWire) - lost
  <2>6. /\ bytes \in Seq(Bytes) /\ Len(bytes) = end
        /\ Holds(memory, pkWire, end) /\ Behind(memory, end)
    BY <2>4, ArrivedIs
  <2>7. /\ end \in Nat /\ Len(pkWire) \in Nat /\ lost \in Nat /\ end <= Len(pkWire)
        /\ lost = 0 => end = Len(pkWire)
        /\ lost > 0 => end < Len(pkWire)
    BY <2>4
  <2>8. CASE pkKind = "handshake" \/ pkKind = "response" \/ pkKind = "asked"
    <3>1. PICK result :
            /\ ReadWell(result, pkWire, end, pkFields)
            /\ pkPc' = (IF result.ok THEN "done" ELSE "unread")
            /\ pkRead' = result.value /\ pkUsed' = result.next - 1
      <4>1. CASE pkKind = "handshake"
        <5>1. /\ pkPc' = (IF HandshakeRead(memory).ok THEN "done" ELSE "unread")
              /\ pkRead' = HandshakeRead(memory).value
              /\ pkUsed' = HandshakeRead(memory).next - 1
          BY <2>5, <4>1
        <5>2. pkFields \in Handshakes /\ NonNegative(pkFields)
          BY <2>2, <4>1 DEF FieldsInv
        <5>3. pkWire = Packed(HandshakeBody(pkFields))
          BY <2>2, <2>3, <4>1 DEF Body
        <5>. HIDE DEF memory, end
        <5>4. ReadWell(HandshakeRead(memory), pkWire, end, pkFields)
          BY <2>6, <5>2, <5>3, HandshakeReadBack
        <5>. QED BY <5>1, <5>4
      <4>2. CASE pkKind = "response"
        <5>1. /\ pkPc' = (IF ResponseRead(memory).ok THEN "done" ELSE "unread")
              /\ pkRead' = ResponseRead(memory).value
              /\ pkUsed' = ResponseRead(memory).next - 1
          BY <2>5, <4>2
        <5>2. pkFields \in Seq(Bytes) /\ Len(pkFields) <= JsonSize
          BY <2>2, <4>2, PacketsAssumption DEF FieldsInv
        <5>3. pkWire = Packed(ResponseBody(pkFields))
          BY <2>2, <2>3, <4>2 DEF Body
        <5>. HIDE DEF memory, end
        <5>4. ReadWell(ResponseRead(memory), pkWire, end, pkFields)
          BY <2>6, <5>2, <5>3, ResponseReadBack
        <5>. QED BY <5>1, <5>4
      <4>3. CASE pkKind = "asked"
        <5>1. /\ pkPc' = (IF RequestCheck(memory).ok THEN "done" ELSE "unread")
              /\ pkRead' = RequestCheck(memory).value
              /\ pkUsed' = RequestCheck(memory).next - 1
          BY <2>5, <4>3
        <5>2. pkFields = <<>> /\ pkWire = Packed(<<0>>)
          BY <2>2, <2>3, <4>3 DEF FieldsInv, Body
        <5>. HIDE DEF memory, end
        <5>3. ReadWell(RequestCheck(memory), pkWire, end, pkFields)
          BY <2>6, <5>2, RequestReadBack
        <5>. QED BY <5>1, <5>3
      <4>. QED BY <2>8, <4>1, <4>2, <4>3
    <3>2. pkCut' = lost
      BY <2>5
    <3>. HIDE DEF end
    <3>3. ASSUME lost = 0
          PROVE  pkPc' = "done" /\ pkRead' = pkFields /\ pkUsed' = Len(pkWire)
      <4>1. result.ok /\ result.value = pkFields /\ result.next = Len(pkWire) + 1
        BY <2>7, <3>1, <3>3 DEF ReadWell
      <4>. QED BY <2>7, <3>1, <4>1
    <3>4. ASSUME lost > 0, pkPc' = "done" PROVE pkUsed' > end
      <4>1. result.ok
        BY <3>1, <3>4
      <4>2. result.next > end + 1 /\ result.next \in Nat
        BY <2>7, <3>1, <3>4, <4>1 DEF ReadWell
      <4>. QED BY <2>7, <3>1, <4>2
    <3>5. end = Len(pkWire) - lost
      BY DEF end
    <3>. QED BY <1>0, <2>1, <3>2, <3>3, <3>4, <3>5 DEF ReadInv
  <2>9. CASE pkKind = "ping"
    <3>1. /\ pkPc' = (IF Echo(bytes).ok THEN "done" ELSE "unread") /\ pkCut' = lost
          /\ pkRead' = Echo(bytes).value /\ pkUsed' = Echo(bytes).next - 1
      BY <2>5, <2>9
    <3>2. /\ pkPc' = "done" /\ pkRead' = SubSeq(bytes, 3, Len(bytes))
          /\ pkUsed' = Len(bytes) + 1 - 1
      <4>. HIDE DEF bytes
      <4>. QED BY <3>1 DEF Echo
    <3>3. ASSUME lost = 0 PROVE pkRead' = pkFields /\ pkUsed' = Len(pkWire)
      <4>1. bytes = pkWire
        <5>1. Len(pkWire) - lost = Len(pkWire)
          BY <2>7, <3>3
        <5>. QED BY <2>4, <5>1, SubSeqFull
      <4>2. pkFields \in Payloads /\ pkWire = Packed(<<1>> \o pkFields)
        BY <2>2, <2>3, <2>9 DEF FieldsInv, Body
      <4>3. SubSeq(pkWire, 3, Len(pkWire)) = pkFields
        BY <4>2, EchoWhole
      <4>. HIDE DEF bytes
      <4>. QED BY <2>7, <3>2, <4>1, <4>3
    <3>. QED BY <1>0, <2>1, <2>9, <3>1, <3>2, <3>3 DEF ReadInv
  <2>. QED BY <2>3, <2>8, <2>9 DEF FieldsInv, Kinds
<1>3. CASE UNCHANGED pkvars
  BY <1>3 DEF pkvars, ReadInv
<1>. QED BY <1>1, <1>2, <1>3 DEF PkNext

\* A complete packet begins with its length.
LEMMA PackedIsFramed ==
  ASSUME NEW body \in Seq(Bytes), Len(body) <= IntMax
  PROVE  LET wire == Packed(body)
             length == SubSeq(wire \o [k \in 1 .. Digits |-> 0], 1, Digits)
         IN Readable(length) /\ Decode(length) + BytesRead(length) = Len(wire)
<1>. DEFINE wire == Packed(body)
            zeros == [k \in 1 .. Digits |-> 0]
            all == wire \o zeros
            length == SubSeq(all, 1, 1 + Digits - 1)
            n == Len(body)
<1>1. /\ wire \in Seq(Bytes) /\ n \in 0 .. IntMax /\ Len(wire) = Size[n] + n
      /\ Size[n] \in 1 .. Digits /\ Within(wire, 1, Encode[n])
  BY PackedIs
<1>2. Digits \in Nat /\ 0 \in Bytes /\ (\A b \in Bytes : b \in Nat) /\ n \in Nat
  BY PacketBounds DEF Bytes
<1>3. zeros \in Seq(Bytes) /\ Len(zeros) = Digits
  BY <1>2
<1>. HIDE DEF wire, zeros, n
<1>4. /\ all \in Seq(Bytes) /\ Len(all) = Len(wire) + Digits
      /\ \A k \in 1 .. Len(wire) : all[k] = wire[k]
  <2>1. /\ Len(all) = Len(wire) + Len(zeros)
        /\ \A k \in 1 .. (Len(wire) + Len(zeros)) :
             all[k] = IF k <= Len(wire) THEN wire[k] ELSE zeros[k - Len(wire)]
    BY <1>1, <1>3, ConcatProperties
  <2>2. all \in Seq(Bytes)
    BY <1>1, <1>3, Joined
  <2>3. \A k \in 1 .. Len(wire) : all[k] = wire[k]
    BY <1>1, <1>2, <1>3, <2>1
  <2>. QED BY <1>3, <2>1, <2>2, <2>3
<1>. HIDE DEF all
<1>5. /\ \A k \in 1 .. Digits : length[k] = all[1 + k - 1]
      /\ \A k \in 1 .. Digits : length[k] \in Nat
  <2>1. 1 \in Nat \ {0} /\ 1 + Digits - 1 <= Len(all)
    BY <1>1, <1>2, <1>4
  <2>. QED BY <1>4, <2>1, DigitsAt
<1>. HIDE DEF length
<1>6. ASSUME NEW k \in 1 .. Size[n] PROVE length[k] = Encode[n][k]
  <2>1. k \in 1 .. Digits /\ k \in 1 .. Len(wire) /\ 1 + k - 1 = k
    BY <1>1, <1>2
  <2>2. Len(Encode[n]) = Size[n]
    BY <1>1, EncodeLength
  <2>3. wire[1 + k - 1] = Encode[n][k]
    BY <1>1, <2>2 DEF Within
  <2>. QED BY <1>4, <1>5, <2>1, <2>3
<1>7. Readable(length) /\ BytesRead(length) = Size[n] /\ Decode(length) = n
  BY <1>1, <1>5, <1>6, ReadAsWritten
<1>8. Decode(length) + BytesRead(length) = Len(wire)
  BY <1>1, <1>2, <1>7
<1>9. length = SubSeq(all, 1, Digits)
  <2>1. 1 + Digits - 1 = Digits
    BY <1>2
  <2>. QED BY <2>1 DEF length
<1>. QED BY <1>7, <1>8, <1>9 DEF wire, zeros, all

LEMMA PkInvInit == PkInit => PkInv
<1>. SUFFICES ASSUME PkInit PROVE PkInv
  OBVIOUS
<1>1. FieldsInv
  BY DEF PkInit, FieldsInv, Kinds
<1>2. CASE pkKind = "asked"
  <2>1. pkPc = "read" /\ pkBody = <<0>> /\ pkWire = Encode[1] \o <<0>>
    BY <1>2 DEF PkInit
  <2>2. Body = <<0>>
    BY <1>2 DEF Body
  <2>3. pkWire = Packed(pkBody)
    BY <2>1 DEF Packed
  <2>. QED BY <1>1, <1>2, <2>1, <2>2, <2>3
           DEF PkInv, NumbersInv, BodyInv, WireInv, HeapInv, ReadInv
<1>3. CASE pkKind # "asked"
  <2>1. pkPc = "fill" /\ pkHeap = {}
    BY <1>3 DEF PkInit
  <2>. QED BY <1>1, <2>1 DEF PkInv, NumbersInv, BodyInv, WireInv, HeapInv, ReadInv
<1>. QED BY <1>2, <1>3

LEMMA PkInvNext == PkInv /\ [PkNext]_pkvars => PkInv'
BY FieldsStep, NumbersStep, BodyStep, WireStep, HeapStep, ReadStep DEF PkInv

LEMMA PkInvHolds == PkSpec => []PkInv
BY PkInvInit, PkInvNext, PTL DEF PkSpec

\* Every packet that is finished, but a status request that is written, is
\* framed; one that arrives whole is read back as it was written, and one that
\* was cut is only read from behind its end.
THEOREM PacketsAreReadBack == PkSpec => []PacketReadBack
<1>1. PkInv => PacketReadBack
  <2>. SUFFICES ASSUME PkInv PROVE PacketReadBack
    OBVIOUS
  <2>1. FieldsInv /\ BodyInv /\ WireInv /\ ReadInv
    BY DEF PkInv
  <2>2. Framed
    <3>. SUFFICES ASSUME pkPc \in {"read", "done", "unread"}, pkKind # "request"
                  PROVE  LET length == SubSeq(pkWire \o [k \in 1 .. Digits |-> 0], 1, Digits)
                         IN /\ Readable(length)
                            /\ Decode(length) + BytesRead(length) = Len(pkWire)
      BY <2>1 DEF Framed, WireInv
    <3>1. pkWire = Packed(pkBody)
      BY <2>1 DEF WireInv
    <3>2. pkBody \in Seq(Bytes) /\ Len(pkBody) <= IntMax
      BY <2>1, BodyIsBytes DEF BodyInv
    <3>. QED BY <3>1, <3>2, PackedIsFramed
  <2>. QED BY <2>1, <2>2 DEF PacketReadBack, ReadInv
<1>. QED BY <1>1, PkInvHolds, PTL

\* A handshake fits its buffer unless a number in it is negative, every length
\* its digits, and a write that fails keeps nothing but the struct of a handshake.
THEOREM BuffersAreEnough == PkSpec => []BuffersHold
<1>1. PkInv => BuffersHold
  <2>. SUFFICES ASSUME PkInv PROVE BuffersHold
    OBVIOUS
  <2>1. FieldsInv /\ NumbersInv /\ BodyInv /\ HeapInv
    BY DEF PkInv
  <2>2. ASSUME pkPc = "packet"
        PROVE  /\ pkKind = "handshake" => Len(pkBody) <= BufferSize
               /\ Len(Encode[Len(pkBody)]) <= Digits
    <3>1. /\ pkBody \in Seq(Bytes) /\ Len(pkBody) <= IntMax
          /\ pkKind = "handshake" => Len(pkBody) <= BufferSize
      BY <2>1, <2>2, BodyIsBytes DEF BodyInv
    <3>2. Len(pkBody) \in 0 .. IntMax
      BY <3>1, PackedIs
    <3>3. Len(Encode[Len(pkBody)]) \in 1 .. Digits
      BY <3>2, EncodeLength
    <3>. QED BY <3>1, <3>3, PacketBounds
  <2>. QED BY <2>1, <2>2 DEF BuffersHold, NumbersInv, HeapInv
<1>. QED BY <1>1, PkInvHolds, PTL
-----------------------------------------------------------------------------
(* base64: three bytes are twelve groups of bits, and so are four digits.    *)

Group == 0 .. (Quarter - 1)

\* Two, three and four groups of bits.
Two(x, y) == x * Quarter + y
Three(x, y, z) == Two(x, y) * Quarter + z
Four(x, y, z, u) == Two(x, y) * Half + Two(z, u)

LEMMA SizesAre ==
  /\ Quarter \in Nat \ {0, 1}
  /\ Half = Quarter * Quarter /\ Half \in Nat \ {0}
  /\ Digit = Half * Quarter /\ Digit \in Nat \ {0}
  /\ Octet = Half * Half /\ Octet \in Nat \ {0}
<1>1. Quarter \in Nat \ {0, 1}
  BY Base64Assumption
<1>2. \A x, y \in Nat \ {0} : x * y \in Nat \ {0}
  OBVIOUS
<1>3. Half = Quarter * Quarter /\ Half \in Nat \ {0}
  BY <1>1, <1>2 DEF Half
<1>. QED BY <1>1, <1>2, <1>3 DEF Digit, Octet

\* A number of two parts is below their product.
LEMMA Below ==
  ASSUME NEW m \in Nat \ {0}, NEW k \in Nat \ {0}, NEW x \in 0 .. (k - 1), NEW y \in 0 .. (m - 1)
  PROVE  x * m + y \in 0 .. (k * m - 1)
<1>1. PICK t \in Nat : k = x + 1 + t
  <2>1. k - x - 1 \in Nat /\ k = x + 1 + (k - x - 1)
    OBVIOUS
  <2>. QED BY <2>1
<1>2. k * m = x * m + m + t * m /\ t * m \in Nat /\ x * m \in Nat
  BY <1>1
<1>. QED BY <1>2

LEMMA TwoIs ==
  ASSUME NEW x \in Group, NEW y \in Group
  PROVE  /\ Two(x, y) \in 0 .. (Half - 1)
         /\ Two(x, y) \div Quarter = x /\ Two(x, y) % Quarter = y
<1>1. x \in Nat /\ y \in 0 .. (Quarter - 1) /\ x \in 0 .. (Quarter - 1)
  BY SizesAre DEF Group
<1>. QED BY <1>1, SizesAre, Parts, Below DEF Two

LEMMA ThreeIs ==
  ASSUME NEW x \in Group, NEW y \in Group, NEW z \in Group
  PROVE  LET d == Three(x, y, z) IN
         /\ d \in 0 .. (Digit - 1)
         /\ d = x * Half + Two(y, z)
         /\ d \div Quarter = Two(x, y) /\ d % Quarter = z
         /\ d \div Half = x /\ d % Half = Two(y, z)
<1>. DEFINE d == Three(x, y, z)
<1>1. x \in Nat /\ y \in Nat /\ z \in 0 .. (Quarter - 1)
  BY SizesAre DEF Group
<1>2. Two(x, y) \in 0 .. (Half - 1) /\ Two(x, y) \in Nat /\ Two(y, z) \in 0 .. (Half - 1)
  BY TwoIs, SizesAre
<1>3. d \in 0 .. (Digit - 1) /\ d \div Quarter = Two(x, y) /\ d % Quarter = z
  BY <1>1, <1>2, SizesAre, Parts, Below DEF Three
<1>4. d = x * Half + Two(y, z)
  <2>1. \A q \in Nat : (x * q + y) * q + z = x * (q * q) + (y * q + z)
    BY <1>1
  <2>. QED BY <1>1, <2>1, SizesAre DEF Three, Two
<1>5. d \div Half = x /\ d % Half = Two(y, z)
  <2>1. (x * Half + Two(y, z)) \div Half = x /\ (x * Half + Two(y, z)) % Half = Two(y, z)
    BY <1>1, <1>2, SizesAre, Parts
  <2>. QED BY <1>4, <2>1
<1>. QED BY <1>3, <1>4, <1>5

LEMMA FourIs ==
  ASSUME NEW x \in Group, NEW y \in Group, NEW z \in Group, NEW u \in Group
  PROVE  LET a == Four(x, y, z, u) IN
         /\ a \in 0 .. (Octet - 1)
         /\ a = Three(x, y, z) * Quarter + u /\ a = x * Digit + Three(y, z, u)
         /\ a \div Quarter = Three(x, y, z) /\ a % Quarter = u
         /\ a \div Half = Two(x, y) /\ a % Half = Two(z, u)
         /\ a \div Digit = x /\ a % Digit = Three(y, z, u)
<1>. DEFINE a == Four(x, y, z, u)
<1>1. x \in Nat /\ y \in Nat /\ z \in Nat /\ u \in 0 .. (Quarter - 1) /\ u \in Nat
  BY SizesAre DEF Group
<1>2. /\ Two(x, y) \in 0 .. (Half - 1) /\ Two(x, y) \in Nat
      /\ Two(z, u) \in 0 .. (Half - 1) /\ Two(z, u) \in Nat
  BY TwoIs, SizesAre
<1>3. /\ Three(x, y, z) \in Nat /\ Three(y, z, u) \in 0 .. (Digit - 1)
      /\ Three(y, z, u) \in Nat
  BY ThreeIs, SizesAre
<1>4. a \in 0 .. (Octet - 1) /\ a \div Half = Two(x, y) /\ a % Half = Two(z, u)
  BY <1>2, SizesAre, Parts, Below DEF Four
<1>5. a = Three(x, y, z) * Quarter + u
  <2>1. \A q, t \in Nat : t * (q * q) + (z * q + u) = (t * q + z) * q + u
    BY <1>1
  <2>. QED BY <1>2, <2>1, SizesAre DEF Four, Three, Two
<1>6. a = x * Digit + Three(y, z, u)
  <2>1. \A q \in Nat : (x * q + y) * (q * q) + (z * q + u)
                       = x * (q * q * q) + ((y * q + z) * q + u)
    BY <1>1
  <2>. QED BY <1>1, <2>1, SizesAre DEF Four, Three, Two
<1>7. a \div Quarter = Three(x, y, z) /\ a % Quarter = u
  <2>. DEFINE t == Three(x, y, z)
  <2>1. t \in Nat
    BY <1>3
  <2>. HIDE DEF t
  <2>2. (t * Quarter + u) \div Quarter = t /\ (t * Quarter + u) % Quarter = u
    BY <1>1, <2>1, SizesAre, Parts
  <2>. QED BY <1>5, <2>2 DEF t
<1>8. a \div Digit = x /\ a % Digit = Three(y, z, u)
  <2>. DEFINE t == Three(y, z, u)
  <2>1. t \in 0 .. (Digit - 1)
    BY <1>3
  <2>. HIDE DEF t
  <2>2. (x * Digit + t) \div Digit = x /\ (x * Digit + t) % Digit = t
    BY <1>1, <2>1, SizesAre, Parts
  <2>. QED BY <1>6, <2>2 DEF t
<1>. QED BY <1>4, <1>5, <1>6, <1>7, <1>8

\* Every byte is four groups.
LEMMA GroupsOfByte ==
  ASSUME NEW a \in 0 .. (Octet - 1)
  PROVE  \E x, y, z, u \in Group : a = Four(x, y, z, u)
<1>1. /\ \A n \in Nat : n < Half => n \div Quarter \in Group
      /\ \A n \in Nat : n % Quarter \in Group /\ n = Two(n \div Quarter, n % Quarter)
  <2>1. ASSUME NEW n \in Nat
        PROVE  /\ n < Half => n \div Quarter \in Group
               /\ n % Quarter \in Group /\ n = Two(n \div Quarter, n % Quarter)
    <3>1. /\ n \div Quarter \in Nat /\ n % Quarter \in 0 .. (Quarter - 1)
          /\ n = Quarter * (n \div Quarter) + (n % Quarter)
      BY SizesAre, DivMod
    <3>2. n < Half => n \div Quarter < Quarter
      <4>1. SUFFICES ASSUME n \div Quarter >= Quarter PROVE n >= Half
        BY <3>1, SizesAre
      <4>2. PICK t \in Nat : n \div Quarter = Quarter + t
        <5>1. \A i, j \in Nat : i >= j => i - j \in Nat /\ i = j + (i - j)
          OBVIOUS
        <5>. QED BY <3>1, <4>1, <5>1, SizesAre
      <4>3. Quarter * (Quarter + t) = Half + Quarter * t /\ Quarter * t \in Nat
        BY SizesAre
      <4>. QED BY <3>1, <4>2, <4>3, SizesAre
    <3>. QED BY <3>1, <3>2, SizesAre DEF Group, Two
  <2>. QED BY <2>1
<1>2. /\ a \div Half \in Nat /\ a % Half \in 0 .. (Half - 1)
      /\ a = Half * (a \div Half) + (a % Half)
  <2>1. a \in Nat /\ Half \in Nat \ {0}
    BY SizesAre
  <2>. QED BY <2>1, DivMod
<1>3. a \div Half < Half
  <2>1. SUFFICES ASSUME a \div Half >= Half PROVE FALSE
    BY <1>2, SizesAre
  <2>2. PICK t \in Nat : a \div Half = Half + t
    <3>1. \A i, j \in Nat : i >= j => i - j \in Nat /\ i = j + (i - j)
      OBVIOUS
    <3>. QED BY <1>2, <2>1, <3>1, SizesAre
  <2>3. Half * (Half + t) = Octet + Half * t /\ Half * t \in Nat
    BY SizesAre
  <2>. QED BY <1>2, <2>2, <2>3, SizesAre
<1>. DEFINE h == a \div Half
            l == a % Half
<1>4. h \in Nat /\ l \in Nat /\ h < Half /\ l < Half /\ a = h * Half + l
  BY <1>2, <1>3, SizesAre
<1>. HIDE DEF h, l
<1>5. /\ h \div Quarter \in Group /\ h % Quarter \in Group
      /\ l \div Quarter \in Group /\ l % Quarter \in Group
      /\ a = Four(h \div Quarter, h % Quarter, l \div Quarter, l % Quarter)
  BY <1>1, <1>4 DEF Four
<1>. QED BY <1>5

\* The groups of a byte and of a digit, the highest first.
ByteGroup(a, j) == (a \div <<Digit, Half, Quarter, 1>>[j]) % Quarter
DigitGroup(d, j) == (d \div <<Half, Quarter, 1>>[j]) % Quarter

LEMMA GroupsAre ==
  ASSUME NEW x \in Group, NEW y \in Group, NEW z \in Group, NEW u \in Group
  PROVE  /\ LET a == Four(x, y, z, u) IN
            ByteGroup(a, 1) = x /\ ByteGroup(a, 2) = y /\ ByteGroup(a, 3) = z /\ ByteGroup(a, 4) = u
         /\ LET d == Three(x, y, z) IN
            DigitGroup(d, 1) = x /\ DigitGroup(d, 2) = y /\ DigitGroup(d, 3) = z
<1>. DEFINE a == Four(x, y, z, u)
            d == Three(x, y, z)
<1>1. x % Quarter = x
  <2>1. x \in Nat /\ x < Quarter /\ 0 * Quarter + x = x /\ x \in 0 .. (Quarter - 1)
    BY SizesAre DEF Group
  <2>2. (0 * Quarter + x) % Quarter = x
    BY <2>1, SizesAre, Parts
  <2>. QED BY <2>1, <2>2
<1>2. /\ a \div Digit = x /\ a \div Half = Two(x, y) /\ a \div Quarter = d /\ a % Quarter = u
      /\ a \in Nat
  BY FourIs, SizesAre
<1>3. d \div Half = x /\ d \div Quarter = Two(x, y) /\ d % Quarter = z /\ d \in Nat
  BY ThreeIs, SizesAre
<1>4. Two(x, y) % Quarter = y
  BY TwoIs
<1>. HIDE DEF a, d
<1>5. a \div 1 = a /\ d \div 1 = d
  BY <1>2, <1>3
<1>6. /\ ByteGroup(a, 1) = x /\ ByteGroup(a, 2) = y /\ ByteGroup(a, 3) = z
      /\ ByteGroup(a, 4) = u
  BY <1>1, <1>2, <1>3, <1>4, <1>5 DEF ByteGroup
<1>7. DigitGroup(d, 1) = x /\ DigitGroup(d, 2) = y /\ DigitGroup(d, 3) = z
  BY <1>1, <1>3, <1>4, <1>5 DEF DigitGroup
<1>. QED BY <1>6, <1>7 DEF a, d

\* The parts of a byte.
LEMMA ByteParts ==
  ASSUME NEW a \in 0 .. (Octet - 1)
  PROVE  \E x, y, z, u \in Group :
           /\ a = Four(x, y, z, u)
           /\ a = Three(x, y, z) * Quarter + u /\ a = x * Digit + Three(y, z, u)
           /\ a \div Quarter = Three(x, y, z) /\ a % Quarter = u
           /\ a \div Half = Two(x, y) /\ a % Half = Two(z, u)
           /\ a \div Digit = x /\ a % Digit = Three(y, z, u)
<1>1. PICK x, y, z, u \in Group : a = Four(x, y, z, u)
  BY GroupsOfByte
<1>. DEFINE f == Four(x, y, z, u)
<1>2. /\ f = Three(x, y, z) * Quarter + u /\ f = x * Digit + Three(y, z, u)
      /\ f \div Quarter = Three(x, y, z) /\ f % Quarter = u
      /\ f \div Half = Two(x, y) /\ f % Half = Two(z, u)
      /\ f \div Digit = x /\ f % Digit = Three(y, z, u)
  BY FourIs
<1>3. a = f
  BY <1>1
<1>. HIDE DEF f
<1>4. /\ a = Three(x, y, z) * Quarter + u /\ a = x * Digit + Three(y, z, u)
      /\ a \div Quarter = Three(x, y, z) /\ a % Quarter = u
      /\ a \div Half = Two(x, y) /\ a % Half = Two(z, u)
      /\ a \div Digit = x /\ a % Digit = Three(y, z, u)
  BY <1>2, <1>3
<1>. QED BY <1>1, <1>4, Zenon

\* The digits of three bytes have their groups, and give the bytes back.
LEMMA DigitsOfBytes ==
  ASSUME NEW a \in 0 .. (Octet - 1), NEW b \in 0 .. (Octet - 1), NEW c \in 0 .. (Octet - 1)
  PROVE  LET d1 == First(a)
             d2 == Second(a, b)
             d3 == Third(b, c)
             d4 == Fourth(c)
             digits == 0 .. (Digit - 1)
         IN /\ d1 \in digits /\ d2 \in digits /\ d3 \in digits /\ d4 \in digits
            /\ ByteGroup(a, 1) = DigitGroup(d1, 1) /\ ByteGroup(a, 2) = DigitGroup(d1, 2)
            /\ ByteGroup(a, 3) = DigitGroup(d1, 3) /\ ByteGroup(a, 4) = DigitGroup(d2, 1)
            /\ ByteGroup(b, 1) = DigitGroup(d2, 2) /\ ByteGroup(b, 2) = DigitGroup(d2, 3)
            /\ ByteGroup(b, 3) = DigitGroup(d3, 1) /\ ByteGroup(b, 4) = DigitGroup(d3, 2)
            /\ ByteGroup(c, 1) = DigitGroup(d3, 3) /\ ByteGroup(c, 2) = DigitGroup(d4, 1)
            /\ ByteGroup(c, 3) = DigitGroup(d4, 2) /\ ByteGroup(c, 4) = DigitGroup(d4, 3)
            /\ d1 * Quarter + d2 \div Half = a
            /\ (d2 * Half + d3 \div Quarter) % Octet = b
            /\ (d3 * Digit + d4) % Octet = c
<1>1. PICK a3, a2, a1, a0 \in Group :
        /\ a = Four(a3, a2, a1, a0)
        /\ a = Three(a3, a2, a1) * Quarter + a0 /\ a = a3 * Digit + Three(a2, a1, a0)
        /\ a \div Quarter = Three(a3, a2, a1) /\ a % Quarter = a0
        /\ a \div Half = Two(a3, a2) /\ a % Half = Two(a1, a0)
        /\ a \div Digit = a3 /\ a % Digit = Three(a2, a1, a0)
  BY ByteParts, Zenon
<1>2. PICK b3, b2, b1, b0 \in Group :
        /\ b = Four(b3, b2, b1, b0)
        /\ b = Three(b3, b2, b1) * Quarter + b0 /\ b = b3 * Digit + Three(b2, b1, b0)
        /\ b \div Quarter = Three(b3, b2, b1) /\ b % Quarter = b0
        /\ b \div Half = Two(b3, b2) /\ b % Half = Two(b1, b0)
        /\ b \div Digit = b3 /\ b % Digit = Three(b2, b1, b0)
  BY ByteParts, Zenon
<1>3. PICK c3, c2, c1, c0 \in Group :
        /\ c = Four(c3, c2, c1, c0)
        /\ c = Three(c3, c2, c1) * Quarter + c0 /\ c = c3 * Digit + Three(c2, c1, c0)
        /\ c \div Quarter = Three(c3, c2, c1) /\ c % Quarter = c0
        /\ c \div Half = Two(c3, c2) /\ c % Half = Two(c1, c0)
        /\ c \div Digit = c3 /\ c % Digit = Three(c2, c1, c0)
  BY ByteParts, Zenon
<1>4. First(a) = Three(a3, a2, a1) /\ Fourth(c) = Three(c2, c1, c0)
  BY <1>1, <1>3 DEF First, Fourth
<1>5. Second(a, b) = Three(a0, b3, b2)
  <2>1. a % Quarter = a0 /\ b \div Half = Two(b3, b2)
    BY <1>1, <1>2
  <2>2. Three(a0, b3, b2) = a0 * Half + Two(b3, b2)
    BY ThreeIs
  <2>. QED BY <2>1, <2>2 DEF Second
<1>6. Third(b, c) = Three(b1, b0, c3)
  <2>1. b % Half = Two(b1, b0) /\ c \div Digit = c3
    BY <1>2, <1>3
  <2>. QED BY <2>1 DEF Third, Three
<1>7. /\ First(a) \in 0 .. (Digit - 1) /\ Second(a, b) \in 0 .. (Digit - 1)
      /\ Third(b, c) \in 0 .. (Digit - 1) /\ Fourth(c) \in 0 .. (Digit - 1)
  BY <1>4, <1>5, <1>6, ThreeIs
<1>8. /\ ByteGroup(a, 1) = a3 /\ ByteGroup(a, 2) = a2
      /\ ByteGroup(a, 3) = a1 /\ ByteGroup(a, 4) = a0
      /\ ByteGroup(b, 1) = b3 /\ ByteGroup(b, 2) = b2
      /\ ByteGroup(b, 3) = b1 /\ ByteGroup(b, 4) = b0
      /\ ByteGroup(c, 1) = c3 /\ ByteGroup(c, 2) = c2
      /\ ByteGroup(c, 3) = c1 /\ ByteGroup(c, 4) = c0
  <2>1. /\ ByteGroup(a, 1) = a3 /\ ByteGroup(a, 2) = a2
        /\ ByteGroup(a, 3) = a1 /\ ByteGroup(a, 4) = a0
    <3>1. /\ ByteGroup(Four(a3, a2, a1, a0), 1) = a3 /\ ByteGroup(Four(a3, a2, a1, a0), 2) = a2
          /\ ByteGroup(Four(a3, a2, a1, a0), 3) = a1 /\ ByteGroup(Four(a3, a2, a1, a0), 4) = a0
      BY GroupsAre
    <3>. QED BY <1>1, <3>1
  <2>2. /\ ByteGroup(b, 1) = b3 /\ ByteGroup(b, 2) = b2
        /\ ByteGroup(b, 3) = b1 /\ ByteGroup(b, 4) = b0
    <3>1. /\ ByteGroup(Four(b3, b2, b1, b0), 1) = b3 /\ ByteGroup(Four(b3, b2, b1, b0), 2) = b2
          /\ ByteGroup(Four(b3, b2, b1, b0), 3) = b1 /\ ByteGroup(Four(b3, b2, b1, b0), 4) = b0
      BY GroupsAre
    <3>. QED BY <1>2, <3>1
  <2>3. /\ ByteGroup(c, 1) = c3 /\ ByteGroup(c, 2) = c2
        /\ ByteGroup(c, 3) = c1 /\ ByteGroup(c, 4) = c0
    <3>1. /\ ByteGroup(Four(c3, c2, c1, c0), 1) = c3 /\ ByteGroup(Four(c3, c2, c1, c0), 2) = c2
          /\ ByteGroup(Four(c3, c2, c1, c0), 3) = c1 /\ ByteGroup(Four(c3, c2, c1, c0), 4) = c0
      BY GroupsAre
    <3>. QED BY <1>3, <3>1
  <2>. QED BY <2>1, <2>2, <2>3
<1>9. /\ DigitGroup(First(a), 1) = a3 /\ DigitGroup(First(a), 2) = a2
      /\ DigitGroup(First(a), 3) = a1
      /\ DigitGroup(Second(a, b), 1) = a0 /\ DigitGroup(Second(a, b), 2) = b3
      /\ DigitGroup(Second(a, b), 3) = b2
      /\ DigitGroup(Third(b, c), 1) = b1 /\ DigitGroup(Third(b, c), 2) = b0
      /\ DigitGroup(Third(b, c), 3) = c3
      /\ DigitGroup(Fourth(c), 1) = c2 /\ DigitGroup(Fourth(c), 2) = c1
      /\ DigitGroup(Fourth(c), 3) = c0
  BY <1>4, <1>5, <1>6, GroupsAre
<1>10. First(a) * Quarter + Second(a, b) \div Half = a
  <2>1. Second(a, b) \div Half = a0
    BY <1>5, ThreeIs
  <2>2. a = Three(a3, a2, a1) * Quarter + a0
    BY <1>1
  <2>. QED BY <1>4, <2>1, <2>2
<1>11. (Second(a, b) * Half + Third(b, c) \div Quarter) % Octet = b
  <2>1. Third(b, c) \div Quarter = Two(b1, b0)
    BY <1>6, ThreeIs
  <2>2. Second(a, b) = a0 * Half + Two(b3, b2)
    BY <1>5, ThreeIs
  <2>3. a0 \in Nat /\ Two(b3, b2) \in Nat /\ Two(b1, b0) \in Nat
    BY TwoIs, SizesAre DEF Group
  <2>4. Second(a, b) * Half + Two(b1, b0) = a0 * Octet + b
    <3>1. \A i, j, h, k \in Nat : (i * h + j) * h + k = i * (h * h) + (j * h + k)
      OBVIOUS
    <3>2. b = Two(b3, b2) * Half + Two(b1, b0)
      BY <1>2 DEF Four
    <3>. QED BY <2>2, <2>3, <3>1, <3>2, SizesAre
  <2>5. (a0 * Octet + b) % Octet = b
    <3>1. Octet \in Nat \ {0} /\ a0 \in Nat /\ b \in 0 .. (Octet - 1)
      BY <2>3, SizesAre
    <3>. QED BY <3>1, Parts
  <2>. QED BY <2>1, <2>4, <2>5
<1>12. (Third(b, c) * Digit + Fourth(c)) % Octet = c
  <2>1. Two(b1, b0) \in Nat /\ c3 \in Nat /\ Three(c2, c1, c0) \in Nat
    <3>1. Two(b1, b0) \in 0 .. (Half - 1) /\ Three(c2, c1, c0) \in 0 .. (Digit - 1)
      BY TwoIs, ThreeIs
    <3>. QED BY <3>1, SizesAre DEF Group
  <2>2. Third(b, c) * Digit + Fourth(c) = Two(b1, b0) * Octet + c
    <3>1. \A i, j, q, k \in Nat :
            (i * q + j) * ((q * q) * q) + k = i * ((q * q) * (q * q)) + (j * ((q * q) * q) + k)
      OBVIOUS
    <3>2. c = c3 * Digit + Three(c2, c1, c0)
      BY <1>3
    <3>3. Third(b, c) = Two(b1, b0) * Quarter + c3
      BY <1>6 DEF Three
    <3>4. /\ Digit = (Quarter * Quarter) * Quarter /\ Quarter \in Nat
          /\ Octet = (Quarter * Quarter) * (Quarter * Quarter)
      BY SizesAre
    <3>. QED BY <1>4, <2>1, <3>1, <3>2, <3>3, <3>4
  <2>3. (Two(b1, b0) * Octet + c) % Octet = c
    <3>1. Octet \in Nat \ {0} /\ Two(b1, b0) \in Nat /\ c \in 0 .. (Octet - 1)
      BY <2>1, SizesAre
    <3>. QED BY <3>1, Parts
  <2>. QED BY <2>2, <2>3
<1>. HIDE DEF First, Second, Third, Fourth
<1>. QED BY <1>7, <1>8, <1>9, <1>10, <1>11, <1>12

-----------------------------------------------------------------------------
(* base64: the text and the bytes, group by group.                           *)

B6Types ==
  /\ b6Input \in Seq(0 .. (Octet - 1)) /\ b6Behind \in 0 .. (Octet - 1) /\ b6Padding \in 0 .. 2

Rounds == (Len(b6Input) + 2) \div 3

\* The byte at n, or the one behind the input.
ByteAt(n) == IF n <= Len(b6Input) THEN b6Input[n] ELSE b6Behind

\* How many rounds there are, and what the last one has.
LEMMA RoundsAre ==
  ASSUME B6Types
  PROVE  \E m \in Nat, r \in 0 .. 2 :
           /\ Len(b6Input) = 3 * m + r /\ Missing = (IF r = 0 THEN 0 ELSE 3 - r)
           /\ Rounds = (IF r = 0 THEN m ELSE m + 1)
<1>. DEFINE m == Len(b6Input) \div 3
            r == Len(b6Input) % 3
<1>1. Len(b6Input) \in Nat
  BY LenProperties DEF B6Types
<1>2. m \in Nat /\ r \in 0 .. 2 /\ Len(b6Input) = 3 * m + r
  BY <1>1
<1>3. Missing = IF r = 0 THEN 0 ELSE 3 - r
  BY DEF Missing
<1>4. Rounds = IF r = 0 THEN m ELSE m + 1
  BY <1>1 DEF Rounds
<1>. HIDE DEF m, r
<1>. QED BY <1>2, <1>3, <1>4

LEMMA BytesAre ==
  ASSUME B6Types, NEW n \in Nat \ {0}
  PROVE  ByteAt(n) \in 0 .. (Octet - 1)
<1>1. b6Input \in Seq(0 .. (Octet - 1)) /\ b6Behind \in 0 .. (Octet - 1)
  BY DEF B6Types
<1>2. \A i \in 1 .. Len(b6Input) : b6Input[i] \in 0 .. (Octet - 1)
  BY <1>1, ElementOfSeq
<1>3. Len(b6Input) \in Nat
  BY <1>1, LenProperties
<1>. QED BY <1>1, <1>2, <1>3 DEF ByteAt

LEMMA EncodedIs ==
  ASSUME B6Types
  PROVE  /\ Len(Encoded) = 4 * Rounds /\ DOMAIN Encoded = 1 .. 4 * Rounds
         /\ \A g \in 0 .. (Rounds - 1) :
              /\ Encoded[4 * g + 1] = First(ByteAt(3 * g + 1))
              /\ Encoded[4 * g + 2] = Second(ByteAt(3 * g + 1), ByteAt(3 * g + 2))
              /\ Encoded[4 * g + 3] = IF 3 * g + 2 <= Len(b6Input)
                                        THEN Third(ByteAt(3 * g + 2), ByteAt(3 * g + 3)) ELSE Pad
              /\ Encoded[4 * g + 4] = IF 3 * g + 3 <= Len(b6Input)
                                        THEN Fourth(ByteAt(3 * g + 3)) ELSE Pad
<1>1. PICK m \in Nat, r \in 0 .. 2 :
        /\ Len(b6Input) = 3 * m + r /\ Missing = (IF r = 0 THEN 0 ELSE 3 - r)
        /\ Rounds = (IF r = 0 THEN m ELSE m + 1)
  BY RoundsAre
<1>2. Rounds \in Nat
  BY <1>1
<1>3. Encoded = [k \in 1 .. 4 * Rounds |-> EncodeGroup(3 * ((k - 1) \div 4))[((k - 1) % 4) + 1]]
  BY DEF Encoded, Rounds
<1>4. Len(Encoded) = 4 * Rounds /\ DOMAIN Encoded = 1 .. 4 * Rounds
  BY <1>2, <1>3
<1>5. ASSUME NEW g \in 0 .. (Rounds - 1)
      PROVE  /\ Encoded[4 * g + 1] = First(ByteAt(3 * g + 1))
             /\ Encoded[4 * g + 2] = Second(ByteAt(3 * g + 1), ByteAt(3 * g + 2))
             /\ Encoded[4 * g + 3] = IF 3 * g + 2 <= Len(b6Input)
                                       THEN Third(ByteAt(3 * g + 2), ByteAt(3 * g + 3)) ELSE Pad
             /\ Encoded[4 * g + 4] = IF 3 * g + 3 <= Len(b6Input)
                                       THEN Fourth(ByteAt(3 * g + 3)) ELSE Pad
  <2>1. \A j \in 1 .. 4 : /\ 4 * g + j \in 1 .. 4 * Rounds
                          /\ ((4 * g + j) - 1) \div 4 = g /\ (((4 * g + j) - 1) % 4) + 1 = j
    BY <1>2
  <2>2. \A j \in 1 .. 4 : Encoded[4 * g + j] = EncodeGroup(3 * g)[j]
    BY <1>3, <2>1
  <2>. DEFINE padding == IF 3 * g + 3 >= Len(b6Input) THEN Missing ELSE 0
  <2>3. (padding = 2) <=> ~(3 * g + 2 <= Len(b6Input))
    BY <1>1
  <2>4. (padding # 0) <=> ~(3 * g + 3 <= Len(b6Input))
    BY <1>1
  <2>5. EncodeGroup(3 * g) =
          <<First(ByteAt(3 * g + 1)), Second(ByteAt(3 * g + 1), ByteAt(3 * g + 2)),
            IF padding = 2 THEN Pad ELSE Third(ByteAt(3 * g + 2), ByteAt(3 * g + 3)),
            IF padding # 0 THEN Pad ELSE Fourth(ByteAt(3 * g + 3))>>
    BY DEF EncodeGroup, ByteAt
  <2>. HIDE DEF padding
  <2>. QED BY <2>2, <2>3, <2>4, <2>5
<1>. QED BY <1>4, <1>5

\* The digits of a round.
LEMMA RoundIs ==
  ASSUME B6Types, NEW g \in 0 .. (Rounds - 1)
  PROVE  /\ 3 * g + 1 <= Len(b6Input)
         /\ Encoded[4 * g + 1] \in 0 .. (Digit - 1) /\ Encoded[4 * g + 2] \in 0 .. (Digit - 1)
         /\ 3 * g + 2 <= Len(b6Input) => Encoded[4 * g + 3] \in 0 .. (Digit - 1)
         /\ 3 * g + 3 <= Len(b6Input) => Encoded[4 * g + 4] \in 0 .. (Digit - 1)
         /\ 3 * g + 2 > Len(b6Input) => Encoded[4 * g + 3] = Pad
         /\ 3 * g + 3 > Len(b6Input) => Encoded[4 * g + 4] = Pad
<1>1. PICK m \in Nat, r \in 0 .. 2 :
        /\ Len(b6Input) = 3 * m + r /\ Missing = (IF r = 0 THEN 0 ELSE 3 - r)
        /\ Rounds = (IF r = 0 THEN m ELSE m + 1)
  BY RoundsAre
<1>2. 3 * g + 1 \in Nat \ {0} /\ 3 * g + 2 \in Nat \ {0} /\ 3 * g + 3 \in Nat \ {0}
  BY <1>1
<1>3. /\ ByteAt(3 * g + 1) \in 0 .. (Octet - 1) /\ ByteAt(3 * g + 2) \in 0 .. (Octet - 1)
      /\ ByteAt(3 * g + 3) \in 0 .. (Octet - 1)
  BY <1>2, BytesAre
<1>. DEFINE d1 == First(ByteAt(3 * g + 1))
            d2 == Second(ByteAt(3 * g + 1), ByteAt(3 * g + 2))
            d3 == Third(ByteAt(3 * g + 2), ByteAt(3 * g + 3))
            d4 == Fourth(ByteAt(3 * g + 3))
<1>4. /\ d1 \in 0 .. (Digit - 1) /\ d2 \in 0 .. (Digit - 1) /\ d3 \in 0 .. (Digit - 1)
      /\ d4 \in 0 .. (Digit - 1)
  BY <1>3, DigitsOfBytes
<1>5. /\ Encoded[4 * g + 1] = d1 /\ Encoded[4 * g + 2] = d2
      /\ Encoded[4 * g + 3] = IF 3 * g + 2 <= Len(b6Input) THEN d3 ELSE Pad
      /\ Encoded[4 * g + 4] = IF 3 * g + 3 <= Len(b6Input) THEN d4 ELSE Pad
  BY EncodedIs
<1>. HIDE DEF d1, d2, d3, d4
<1>. QED BY <1>1, <1>4, <1>5

\* The groups of the text are those of the input.
LEMMA RoundGroups ==
  ASSUME B6Types, NEW g \in 0 .. (Rounds - 1), NEW j \in 1 .. 12,
         3 * g + ((j + 3) \div 4) <= Len(b6Input)
  PROVE  ByteGroup(b6Input[3 * g + ((j + 3) \div 4)], ((j - 1) % 4) + 1)
         = DigitGroup(Encoded[4 * g + ((j + 2) \div 3)], ((j - 1) % 3) + 1)
<1>1. Rounds \in Nat /\ Len(b6Input) \in Nat
  BY LenProperties DEF Rounds, B6Types
<1>2. 3 * g + 1 \in Nat \ {0} /\ 3 * g + 2 \in Nat \ {0} /\ 3 * g + 3 \in Nat \ {0}
  BY <1>1
<1>. DEFINE a == ByteAt(3 * g + 1)
            b == ByteAt(3 * g + 2)
            c == ByteAt(3 * g + 3)
<1>3. a \in 0 .. (Octet - 1) /\ b \in 0 .. (Octet - 1) /\ c \in 0 .. (Octet - 1)
  BY <1>2, BytesAre
<1>. DEFINE d1 == First(a)
            d2 == Second(a, b)
            d3 == Third(b, c)
            d4 == Fourth(c)
<1>4. /\ ByteGroup(a, 1) = DigitGroup(d1, 1) /\ ByteGroup(a, 2) = DigitGroup(d1, 2)
      /\ ByteGroup(a, 3) = DigitGroup(d1, 3) /\ ByteGroup(a, 4) = DigitGroup(d2, 1)
      /\ ByteGroup(b, 1) = DigitGroup(d2, 2) /\ ByteGroup(b, 2) = DigitGroup(d2, 3)
      /\ ByteGroup(b, 3) = DigitGroup(d3, 1) /\ ByteGroup(b, 4) = DigitGroup(d3, 2)
      /\ ByteGroup(c, 1) = DigitGroup(d3, 3) /\ ByteGroup(c, 2) = DigitGroup(d4, 1)
      /\ ByteGroup(c, 3) = DigitGroup(d4, 2) /\ ByteGroup(c, 4) = DigitGroup(d4, 3)
  BY <1>3, DigitsOfBytes
<1>5. /\ Encoded[4 * g + 1] = d1 /\ Encoded[4 * g + 2] = d2
      /\ Encoded[4 * g + 3] = IF 3 * g + 2 <= Len(b6Input) THEN d3 ELSE Pad
      /\ Encoded[4 * g + 4] = IF 3 * g + 3 <= Len(b6Input) THEN d4 ELSE Pad
  BY EncodedIs
<1>6. \A n \in Nat : n <= Len(b6Input) => b6Input[n] = ByteAt(n)
  BY DEF ByteAt
<1>7. /\ 3 * g + 1 <= Len(b6Input) => b6Input[3 * g + 1] = a
      /\ 3 * g + 2 <= Len(b6Input) => b6Input[3 * g + 2] = b
      /\ 3 * g + 3 <= Len(b6Input) => b6Input[3 * g + 3] = c
  BY <1>2, <1>6
<1>. HIDE DEF a, b, c, d1, d2, d3, d4
<1>8. CASE j = 1
  <2>1. /\ (j + 3) \div 4 = 1 /\ ((j - 1) % 4) + 1 = 1 /\ 3 * g + 1 <= Len(b6Input)
        /\ (j + 2) \div 3 = 1 /\ ((j - 1) % 3) + 1 = 1
    BY <1>8
  <2>. QED BY <1>4, <1>5, <1>7, <2>1
<1>9. CASE j = 2
  <2>1. /\ (j + 3) \div 4 = 1 /\ ((j - 1) % 4) + 1 = 2 /\ 3 * g + 1 <= Len(b6Input)
        /\ (j + 2) \div 3 = 1 /\ ((j - 1) % 3) + 1 = 2
    BY <1>9
  <2>. QED BY <1>4, <1>5, <1>7, <2>1
<1>10. CASE j = 3
  <2>1. /\ (j + 3) \div 4 = 1 /\ ((j - 1) % 4) + 1 = 3 /\ 3 * g + 1 <= Len(b6Input)
        /\ (j + 2) \div 3 = 1 /\ ((j - 1) % 3) + 1 = 3
    BY <1>10
  <2>. QED BY <1>4, <1>5, <1>7, <2>1
<1>11. CASE j = 4
  <2>1. /\ (j + 3) \div 4 = 1 /\ ((j - 1) % 4) + 1 = 4 /\ 3 * g + 1 <= Len(b6Input)
        /\ (j + 2) \div 3 = 2 /\ ((j - 1) % 3) + 1 = 1
    BY <1>11
  <2>. QED BY <1>4, <1>5, <1>7, <2>1
<1>12. CASE j = 5
  <2>1. /\ (j + 3) \div 4 = 2 /\ ((j - 1) % 4) + 1 = 1 /\ 3 * g + 2 <= Len(b6Input)
        /\ (j + 2) \div 3 = 2 /\ ((j - 1) % 3) + 1 = 2
    BY <1>12
  <2>. QED BY <1>4, <1>5, <1>7, <2>1
<1>13. CASE j = 6
  <2>1. /\ (j + 3) \div 4 = 2 /\ ((j - 1) % 4) + 1 = 2 /\ 3 * g + 2 <= Len(b6Input)
        /\ (j + 2) \div 3 = 2 /\ ((j - 1) % 3) + 1 = 3
    BY <1>13
  <2>. QED BY <1>4, <1>5, <1>7, <2>1
<1>14. CASE j = 7
  <2>1. /\ (j + 3) \div 4 = 2 /\ ((j - 1) % 4) + 1 = 3 /\ 3 * g + 2 <= Len(b6Input)
        /\ (j + 2) \div 3 = 3 /\ ((j - 1) % 3) + 1 = 1
    BY <1>14
  <2>. QED BY <1>4, <1>5, <1>7, <2>1
<1>15. CASE j = 8
  <2>1. /\ (j + 3) \div 4 = 2 /\ ((j - 1) % 4) + 1 = 4 /\ 3 * g + 2 <= Len(b6Input)
        /\ (j + 2) \div 3 = 3 /\ ((j - 1) % 3) + 1 = 2
    BY <1>15
  <2>. QED BY <1>4, <1>5, <1>7, <2>1
<1>16. CASE j = 9
  <2>1. /\ (j + 3) \div 4 = 3 /\ ((j - 1) % 4) + 1 = 1 /\ 3 * g + 3 <= Len(b6Input)
        /\ (j + 2) \div 3 = 3 /\ ((j - 1) % 3) + 1 = 3
    BY <1>16
  <2>2. 3 * g + 2 <= Len(b6Input)
    BY <1>1, <2>1
  <2>. QED BY <1>4, <1>5, <1>7, <2>1, <2>2
<1>17. CASE j = 10
  <2>1. /\ (j + 3) \div 4 = 3 /\ ((j - 1) % 4) + 1 = 2 /\ 3 * g + 3 <= Len(b6Input)
        /\ (j + 2) \div 3 = 4 /\ ((j - 1) % 3) + 1 = 1
    BY <1>17
  <2>2. 3 * g + 2 <= Len(b6Input)
    BY <1>1, <2>1
  <2>. QED BY <1>4, <1>5, <1>7, <2>1, <2>2
<1>18. CASE j = 11
  <2>1. /\ (j + 3) \div 4 = 3 /\ ((j - 1) % 4) + 1 = 3 /\ 3 * g + 3 <= Len(b6Input)
        /\ (j + 2) \div 3 = 4 /\ ((j - 1) % 3) + 1 = 2
    BY <1>18
  <2>2. 3 * g + 2 <= Len(b6Input)
    BY <1>1, <2>1
  <2>. QED BY <1>4, <1>5, <1>7, <2>1, <2>2
<1>19. CASE j = 12
  <2>1. /\ (j + 3) \div 4 = 3 /\ ((j - 1) % 4) + 1 = 4 /\ 3 * g + 3 <= Len(b6Input)
        /\ (j + 2) \div 3 = 4 /\ ((j - 1) % 3) + 1 = 3
    BY <1>19
  <2>2. 3 * g + 2 <= Len(b6Input)
    BY <1>1, <2>1
  <2>. QED BY <1>4, <1>5, <1>7, <2>1, <2>2
<1>. QED BY <1>8, <1>9, <1>10, <1>11, <1>12, <1>13, <1>14, <1>15, <1>16, <1>17, <1>18, <1>19

LEMMA TextHasBits ==
  ASSUME B6Types, b6Text = Encoded, b6TextLen = ((Len(b6Input) + Missing) * 4) \div 3
  PROVE  EncodesBits
<1>1. PICK m \in Nat, r \in 0 .. 2 :
        /\ Len(b6Input) = 3 * m + r /\ Missing = (IF r = 0 THEN 0 ELSE 3 - r)
        /\ Rounds = (IF r = 0 THEN m ELSE m + 1)
  BY RoundsAre
<1>. DEFINE digits == (4 * Len(b6Input) + 2) \div 3
            n == Len(b6Input)
<1>2. b6TextLen = 4 * Rounds /\ Rounds \in Nat /\ n \in Nat
  BY <1>1
<1>3. Len(b6Text) = b6TextLen /\ b6TextLen % 4 = 0
  BY <1>2, EncodedIs
<1>4. digits = 4 * m + (IF r = 0 THEN 0 ELSE r + 1)
  <2>1. CASE r = 0
    BY <1>1, <2>1
  <2>2. CASE r = 1
    BY <1>1, <2>2
  <2>3. CASE r = 2
    BY <1>1, <2>3
  <2>. QED BY <2>1, <2>2, <2>3
<1>. HIDE DEF digits
<1>5. b6TextLen - digits \in 0 .. 2
  BY <1>1, <1>2, <1>4
<1>6. ASSUME NEW k \in 1 .. b6TextLen
      PROVE  IF k <= digits THEN b6Text[k] \in 0 .. (Digit - 1) ELSE b6Text[k] = Pad
  <2>. DEFINE g == (k - 1) \div 4
              j == ((k - 1) % 4) + 1
  <2>1. g \in 0 .. (Rounds - 1) /\ j \in 1 .. 4 /\ k = 4 * g + j
    BY <1>2
  <2>. HIDE DEF g, j
  <2>2. /\ 3 * g + 1 <= n
        /\ Encoded[4 * g + 1] \in 0 .. (Digit - 1) /\ Encoded[4 * g + 2] \in 0 .. (Digit - 1)
        /\ 3 * g + 2 <= n => Encoded[4 * g + 3] \in 0 .. (Digit - 1)
        /\ 3 * g + 3 <= n => Encoded[4 * g + 4] \in 0 .. (Digit - 1)
        /\ 3 * g + 2 > n => Encoded[4 * g + 3] = Pad
        /\ 3 * g + 3 > n => Encoded[4 * g + 4] = Pad
    BY <2>1, RoundIs
  <2>3. /\ j \in {1, 2} => k <= digits
        /\ j = 3 => (k <= digits <=> 3 * g + 2 <= n)
        /\ j = 4 => (k <= digits <=> 3 * g + 3 <= n)
    BY <1>1, <1>2, <1>4, <2>1
  <2>4. j = 1 \/ j = 2 \/ j = 3 \/ j = 4
    BY <2>1
  <2>5. /\ j = 3 /\ ~(k <= digits) => 3 * g + 2 > n
        /\ j = 4 /\ ~(k <= digits) => 3 * g + 3 > n
    BY <1>2, <2>1, <2>3
  <2>. HIDE DEF n
  <2>. QED BY <2>1, <2>2, <2>3, <2>4, <2>5
<1>7. ASSUME NEW k \in 1 .. Len(Groups(b6Input))
      PROVE  Groups(b6Input)[k] = (b6Text[(k + 2) \div 3]
                                     \div <<Half, Quarter, 1>>[((k - 1) % 3) + 1]) % Quarter
  <2>1. Len(Groups(b6Input)) = 4 * n /\ k \in 1 .. 4 * n
    BY <1>2 DEF Groups
  <2>2. Groups(b6Input)[k] = ByteGroup(b6Input[(k + 3) \div 4], ((k - 1) % 4) + 1)
    BY <2>1 DEF Groups, ByteGroup
  <2>. DEFINE g == (k - 1) \div 12
              j == ((k - 1) % 12) + 1
  <2>3. g \in Nat /\ j \in 1 .. 12 /\ k = 12 * g + j
    BY <2>1
  <2>. HIDE DEF g, j
  <2>4. /\ (k + 3) \div 4 = 3 * g + ((j + 3) \div 4) /\ (k - 1) % 4 = (j - 1) % 4
        /\ (k + 2) \div 3 = 4 * g + ((j + 2) \div 3) /\ (k - 1) % 3 = (j - 1) % 3
    BY <2>3
  <2>5. 3 * g + ((j + 3) \div 4) <= n
    BY <1>2, <2>1, <2>3
  <2>6. g \in 0 .. (Rounds - 1)
    BY <1>1, <1>2, <2>3, <2>5
  <2>7. ByteGroup(b6Input[3 * g + ((j + 3) \div 4)], ((j - 1) % 4) + 1)
        = DigitGroup(Encoded[4 * g + ((j + 2) \div 3)], ((j - 1) % 3) + 1)
    BY <2>3, <2>5, <2>6, RoundGroups
  <2>. QED BY <2>2, <2>4, <2>7 DEF DigitGroup
<1>. QED BY <1>3, <1>5, <1>6, <1>7 DEF EncodesBits, digits

\* The decoder finds the padding of the text.
LEMMA PaddingIs ==
  ASSUME B6Types
  PROVE  PaddingSeen(Encoded) = IF Missing = 0 THEN b6Padding ELSE Missing
<1>1. PICK m \in Nat, r \in 0 .. 2 :
        /\ Len(b6Input) = 3 * m + r /\ Missing = (IF r = 0 THEN 0 ELSE 3 - r)
        /\ Rounds = (IF r = 0 THEN m ELSE m + 1)
  BY RoundsAre
<1>. DEFINE pads == {k \in DOMAIN Encoded : Encoded[k] = Pad}
<1>2. DOMAIN Encoded = 1 .. 4 * Rounds /\ Rounds \in Nat /\ Pad \notin 0 .. (Digit - 1)
  BY <1>1, EncodedIs, Base64Assumption
<1>3. ASSUME NEW k \in 1 .. 4 * Rounds
      PROVE  k \in pads <=> k > 4 * Rounds - Missing
  <2>. DEFINE g == (k - 1) \div 4
              j == ((k - 1) % 4) + 1
  <2>1. g \in 0 .. (Rounds - 1) /\ j \in 1 .. 4 /\ k = 4 * g + j
    BY <1>2
  <2>. HIDE DEF g, j
  <2>2. /\ 3 * g + 1 <= Len(b6Input)
        /\ Encoded[4 * g + 1] # Pad /\ Encoded[4 * g + 2] # Pad
        /\ 3 * g + 2 <= Len(b6Input) => Encoded[4 * g + 3] # Pad
        /\ 3 * g + 3 <= Len(b6Input) => Encoded[4 * g + 4] # Pad
        /\ 3 * g + 2 > Len(b6Input) => Encoded[4 * g + 3] = Pad
        /\ 3 * g + 3 > Len(b6Input) => Encoded[4 * g + 4] = Pad
    BY <1>2, <2>1, RoundIs
  <2>3. /\ j \in {1, 2} => ~(k > 4 * Rounds - Missing)
        /\ j = 3 => (k > 4 * Rounds - Missing <=> 3 * g + 2 > Len(b6Input))
        /\ j = 4 => (k > 4 * Rounds - Missing <=> 3 * g + 3 > Len(b6Input))
    BY <1>1, <1>2, <2>1
  <2>4. j = 1 \/ j = 2 \/ j = 3 \/ j = 4
    BY <2>1
  <2>5. /\ 3 * g + 2 <= Len(b6Input) \/ 3 * g + 2 > Len(b6Input)
        /\ 3 * g + 3 <= Len(b6Input) \/ 3 * g + 3 > Len(b6Input)
    BY <1>1, <2>1
  <2>6. k \in pads <=> Encoded[k] = Pad
    BY <1>2
  <2>. HIDE DEF pads
  <2>. QED BY <2>1, <2>2, <2>3, <2>4, <2>5, <2>6
<1>4. pads \subseteq 1 .. 4 * Rounds
  BY <1>2
<1>5. PaddingSeen(Encoded) = IF pads = {} THEN b6Padding
                             ELSE IF \E k \in pads : k + 1 \in pads THEN 2 ELSE 1
  BY DEF PaddingSeen
<1>. HIDE DEF pads
<1>6. CASE r = 0
  <2>1. pads = {}
    BY <1>1, <1>2, <1>3, <1>4, <1>6
  <2>. QED BY <1>1, <1>5, <1>6, <2>1
<1>7. CASE r = 1
  <2>1. 4 * Rounds - 1 \in pads /\ 4 * Rounds \in pads /\ (4 * Rounds - 1) + 1 = 4 * Rounds
    BY <1>1, <1>2, <1>3, <1>7
  <2>2. pads # {} /\ \E k \in pads : k + 1 \in pads
    BY <2>1
  <2>3. PaddingSeen(Encoded) = 2
    BY <1>5, <2>2
  <2>. QED BY <1>1, <1>7, <2>3
<1>8. CASE r = 2
  <2>1. 4 * Rounds \in pads
    BY <1>1, <1>2, <1>3, <1>8
  <2>2. \A k \in pads : k + 1 \notin pads
    BY <1>1, <1>2, <1>3, <1>4, <1>8
  <2>. QED BY <1>1, <1>5, <1>8, <2>1, <2>2
<1>. QED BY <1>6, <1>7, <1>8

\* The bytes of a round come back, as far as the input goes.
LEMMA RoundDecoded ==
  ASSUME B6Types, NEW g \in 0 .. (Rounds - 1), NEW j \in 1 .. 3, 3 * g + j <= Len(b6Input)
  PROVE  DecodeGroup(Encoded, 4 * g)[j] = b6Input[3 * g + j]
<1>1. Rounds \in Nat /\ Len(b6Input) \in Nat
  BY LenProperties DEF Rounds, B6Types
<1>2. 3 * g + 1 \in Nat \ {0} /\ 3 * g + 2 \in Nat \ {0} /\ 3 * g + 3 \in Nat \ {0}
  BY <1>1
<1>. DEFINE a == ByteAt(3 * g + 1)
            b == ByteAt(3 * g + 2)
            c == ByteAt(3 * g + 3)
<1>3. a \in 0 .. (Octet - 1) /\ b \in 0 .. (Octet - 1) /\ c \in 0 .. (Octet - 1)
  BY <1>2, BytesAre
<1>. DEFINE d1 == First(a)
            d2 == Second(a, b)
            d3 == Third(b, c)
            d4 == Fourth(c)
<1>4. /\ d1 \in 0 .. (Digit - 1) /\ d2 \in 0 .. (Digit - 1) /\ d3 \in 0 .. (Digit - 1)
      /\ d4 \in 0 .. (Digit - 1)
      /\ d1 * Quarter + d2 \div Half = a
      /\ (d2 * Half + d3 \div Quarter) % Octet = b
      /\ (d3 * Digit + d4) % Octet = c
  BY <1>3, DigitsOfBytes
<1>5. /\ Encoded[4 * g + 1] = d1 /\ Encoded[4 * g + 2] = d2
      /\ Encoded[4 * g + 3] = IF 3 * g + 2 <= Len(b6Input) THEN d3 ELSE Pad
      /\ Encoded[4 * g + 4] = IF 3 * g + 3 <= Len(b6Input) THEN d4 ELSE Pad
  BY EncodedIs
<1>6. \A n \in Nat : n <= Len(b6Input) => b6Input[n] = ByteAt(n)
  BY DEF ByteAt
<1>7. /\ 3 * g + 1 <= Len(b6Input) => b6Input[3 * g + 1] = a
      /\ 3 * g + 2 <= Len(b6Input) => b6Input[3 * g + 2] = b
      /\ 3 * g + 3 <= Len(b6Input) => b6Input[3 * g + 3] = c
  BY <1>2, <1>6
<1>8. \A d \in 0 .. (Digit - 1) : Value(d) = d
  BY Base64Assumption DEF Value
<1>. HIDE DEF a, b, c, d1, d2, d3, d4
<1>9. Value(d1) = d1 /\ Value(d2) = d2 /\ Value(d3) = d3 /\ Value(d4) = d4
  BY <1>4, <1>8
<1>. DEFINE v(k) == Value(Encoded[4 * g + k])
<1>10. DecodeGroup(Encoded, 4 * g) =
         <<v(1) * Quarter + v(2) \div Half, (v(2) * Half + v(3) \div Quarter) % Octet,
           (v(3) * Digit + v(4)) % Octet>>
  BY DEF DecodeGroup
<1>11. v(1) = d1 /\ v(2) = d2
  BY <1>5, <1>9
<1>12. /\ 3 * g + 2 <= Len(b6Input) => v(3) = d3
       /\ 3 * g + 3 <= Len(b6Input) => v(4) = d4
  BY <1>5, <1>9
<1>. HIDE DEF v
<1>13. CASE j = 1
  BY <1>4, <1>7, <1>10, <1>11, <1>13
<1>14. CASE j = 2
  BY <1>4, <1>7, <1>10, <1>11, <1>12, <1>14
<1>15. CASE j = 3
  <2>1. 3 * g + 2 <= Len(b6Input) /\ 3 * g + 3 <= Len(b6Input)
    BY <1>1, <1>15
  <2>. QED BY <1>4, <1>7, <1>10, <1>11, <1>12, <1>15, <2>1
<1>16. j = 1 \/ j = 2 \/ j = 3
  OBVIOUS
<1>. QED BY <1>13, <1>14, <1>15, <1>16

LEMMA InputIsBack ==
  ASSUME B6Types, b6Output = Decoded(Encoded), b6OutputLen = (Len(Encoded) * 3) \div 4
  PROVE  DecodesBack /\ DecodedLength
<1>1. PICK m \in Nat, r \in 0 .. 2 :
        /\ Len(b6Input) = 3 * m + r /\ Missing = (IF r = 0 THEN 0 ELSE 3 - r)
        /\ Rounds = (IF r = 0 THEN m ELSE m + 1)
  BY RoundsAre
<1>. DEFINE n == Len(b6Input)
            dropped == IF Missing = 0 THEN b6Padding ELSE Missing
            written == IF Rounds = 0 THEN 0 ELSE 3 * Rounds - dropped
<1>2. Rounds \in Nat /\ n \in Nat /\ b6Padding \in 0 .. 2
  BY <1>1 DEF B6Types
<1>3. Len(Encoded) = 4 * Rounds /\ (Len(Encoded) + 3) \div 4 = Rounds
  BY <1>2, EncodedIs
<1>4. b6OutputLen = 3 * Rounds /\ 3 * Rounds = n + Missing
  BY <1>1, <1>2, <1>3
<1>5. PaddingSeen(Encoded) = dropped
  BY PaddingIs
<1>6. b6Output = [k \in 1 .. written |->
                    DecodeGroup(Encoded, 4 * ((k - 1) \div 3))[((k - 1) % 3) + 1]]
  BY <1>3, <1>5 DEF Decoded
<1>7. /\ Missing # 0 => written = n
      /\ Missing = 0 /\ n # 0 => written = n - b6Padding /\ n >= 3
      /\ n = 0 => written = 0 /\ Missing = 0
      /\ written \in 0 .. n
  BY <1>1, <1>2
<1>. HIDE DEF written, dropped
<1>8. ASSUME NEW k \in 1 .. written
      PROVE  b6Output[k] = b6Input[k]
  <2>. DEFINE g == (k - 1) \div 3
              j == ((k - 1) % 3) + 1
  <2>1. g \in Nat /\ j \in 1 .. 3 /\ k = 3 * g + j
    BY <1>7
  <2>2. b6Output[k] = DecodeGroup(Encoded, 4 * g)[j]
    BY <1>6
  <2>. HIDE DEF g, j
  <2>3. 3 * g + j <= n /\ g \in 0 .. (Rounds - 1)
    BY <1>1, <1>2, <1>7, <2>1
  <2>4. DecodeGroup(Encoded, 4 * g)[j] = b6Input[3 * g + j]
    BY <2>1, <2>3, RoundDecoded
  <2>. QED BY <2>1, <2>2, <2>4
<1>9. b6Output = [k \in 1 .. written |-> b6Input[k]]
  BY <1>6, <1>8
<1>10. Len(b6Output) = written
  BY <1>7, <1>9
<1>11. b6Input \in Seq(0 .. (Octet - 1)) /\ b6Input = [k \in 1 .. n |-> b6Input[k]]
  BY LenProperties DEF B6Types
<1>12. SubSeq(b6Input, 1, n - b6Padding) = [k \in 1 .. (n - b6Padding) |-> b6Input[k]]
  BY <1>2
<1>13. DecodesBack
  <2>1. CASE Missing # 0
    BY <1>7, <1>9, <1>11, <2>1 DEF DecodesBack
  <2>2. CASE Missing = 0 /\ n # 0
    <3>1. b6Padding = 0 => written = n
      BY <1>2, <1>7, <2>2
    <3>2. b6Output = SubSeq(b6Input, 1, n - b6Padding)
      BY <1>7, <1>9, <1>12, <2>2
    <3>. QED BY <1>9, <1>11, <2>2, <3>1, <3>2 DEF DecodesBack
  <2>3. CASE n = 0
    <3>1. 1 .. written = {} /\ 1 .. n = {} /\ 1 .. (n - b6Padding) = {}
      BY <1>2, <1>7, <2>3
    <3>2. b6Output = b6Input /\ b6Output = SubSeq(b6Input, 1, n - b6Padding)
      BY <1>9, <1>11, <1>12, <3>1
    <3>. QED BY <3>2 DEF DecodesBack
  <2>. QED BY <2>1, <2>2, <2>3
<1>14. DecodedLength
  BY <1>1, <1>2, <1>4, <1>7, <1>10 DEF DecodedLength
<1>. QED BY <1>13, <1>14

\* What each call has left.
B6Inv ==
  /\ B6Types /\ b6Pc \in {"encode", "decode", "failed", "done"}
  /\ b6Pc \in {"decode", "done"} =>
       b6Text = Encoded /\ b6TextLen = ((Len(b6Input) + Missing) * 4) \div 3
  /\ b6Pc = "done" =>
       b6Output = Decoded(Encoded) /\ b6OutputLen = (Len(Encoded) * 3) \div 4

LEMMA B6InvInit == B6Init => B6Inv
<1>. SUFFICES ASSUME B6Init PROVE B6Inv
  OBVIOUS
<1>1. 0 \in 0 .. (Octet - 1) /\ Octet - 1 \in 0 .. (Octet - 1)
  BY SizesAre
<1>2. b6Input \in Seq(0 .. (Octet - 1))
  BY Base64Assumption DEF B6Init
<1>. QED BY <1>1, <1>2 DEF B6Init, B6Inv, B6Types

LEMMA B6InvNext == B6Inv /\ [B6Next]_b6vars => B6Inv'
<1>. SUFFICES ASSUME B6Inv, [B6Next]_b6vars PROVE B6Inv'
  OBVIOUS
<1>1. ASSUME b6Input' = b6Input, b6Behind' = b6Behind, b6Padding' = b6Padding
      PROVE  /\ B6Types' /\ Encoded' = Encoded /\ Missing' = Missing
             /\ Decoded(Encoded)' = Decoded(Encoded)
  <2>1. B6Types' /\ Missing' = Missing
    BY <1>1 DEF B6Inv, B6Types, Missing
  <2>2. ASSUME NEW i PROVE EncodeGroup(i)' = EncodeGroup(i)
    BY <1>1, <2>1 DEF EncodeGroup
  <2>3. Encoded' = Encoded
    BY <1>1, <2>2 DEF Encoded
  <2>4. ASSUME NEW text, NEW i PROVE DecodeGroup(text, i)' = DecodeGroup(text, i)
    BY DEF DecodeGroup, Value
  <2>5. ASSUME NEW text PROVE PaddingSeen(text)' = PaddingSeen(text)
    BY <1>1 DEF PaddingSeen
  <2>6. Decoded(Encoded)' = Decoded(Encoded)
    BY <2>3, <2>4, <2>5 DEF Decoded
  <2>. QED BY <2>1, <2>3, <2>6
<1>2. CASE B6Encode
  BY <1>1, <1>2 DEF B6Inv, B6Encode
<1>3. CASE B6Decode
  BY <1>1, <1>3 DEF B6Inv, B6Decode
<1>4. CASE UNCHANGED b6vars
  BY <1>1, <1>4 DEF B6Inv, b6vars
<1>. QED BY <1>2, <1>3, <1>4 DEF B6Next

\* For groups of bits of any number of values and inputs of any length: the text
\* has the bits of the input and is filled up with "=", and it decodes to the
\* input within the buffer, whatever lies behind the input, but for the end that
\* the padding without a value takes from a text without "=".
THEOREM Base64IsExact == B6Spec => []Base64Exact
<1>1. B6Inv => Base64Exact
  <2>. SUFFICES ASSUME B6Inv PROVE Base64Exact
    OBVIOUS
  <2>1. EncodesBits
    <3>1. CASE b6Pc = "decode"
      BY <3>1, TextHasBits DEF B6Inv
    <3>2. CASE b6Pc # "decode"
      BY <3>2 DEF EncodesBits
    <3>. QED BY <3>1, <3>2
  <2>2. DecodesBack /\ DecodedLength
    <3>1. CASE b6Pc = "done"
      BY <3>1, InputIsBack DEF B6Inv
    <3>2. CASE b6Pc # "done"
      BY <3>2 DEF DecodesBack, DecodedLength
    <3>. QED BY <3>1, <3>2
  <2>. QED BY <2>1, <2>2 DEF Base64Exact
<1>. QED BY <1>1, B6InvInit, B6InvNext, PTL DEF B6Spec

=============================================================================
