--------------------------- MODULE JsonTextProofs ---------------------------
(***************************************************************************)
(* Proofs about JsonText: the memory of the JSON reader and of the writers *)
(* holds what they put in it, for any texts, flags, lengths of strings and *)
(* values.  The reader's part needs no structure of the values: only how   *)
(* many there are, and that no label lets more than one be added between   *)
(* two checks of the room.  The writer's part is a race of two cursors     *)
(* through one buffer: at each label so many bytes lie between them.       *)
(***************************************************************************)
EXTENDS JsonText, SequenceTheorems, NaturalRecursion

-----------------------------------------------------------------------------
(* Sequences of no matter what.                                            *)

IsSequence(s) == Len(s) \in Nat /\ s = [i \in 1..Len(s) |-> s[i]]

LEMMA SequenceOf ==
  ASSUME NEW s, IsSequence(s)
  PROVE  \E S : s \in Seq(S)
<1>. DEFINE S == {s[i] : i \in 1..Len(s)}
<1>1. PICK n \in Nat : n = Len(s)
  BY DEF IsSequence
<1>2. s \in [1..n -> S]
  BY <1>1 DEF IsSequence
<1>3. s \in Seq(S)
  <2>. HIDE DEF S
  <2>. QED BY <1>1, <1>2, SeqDef
<1>. QED BY <1>3

LEMMA IsOfSeq ==
  ASSUME NEW S, NEW s \in Seq(S)
  PROVE  IsSequence(s)
<1>1. Len(s) \in Nat /\ DOMAIN s = 1..Len(s) /\ s \in [1..Len(s) -> S]
  BY LenProperties
<1>. QED BY <1>1 DEF IsSequence

LEMMA EmptyIs == IsSequence(<< >>) /\ Len(<< >>) = 0
<1>1. << >> \in Seq({}) /\ Len(<< >>) = 0
  BY EmptySeq
<1>. QED BY <1>1, IsOfSeq

\* Its elements may be replaced, and one put behind it or before it.
LEMMA ReplacedIs ==
  ASSUME NEW s, IsSequence(s), NEW t, t = [i \in DOMAIN s |-> t[i]]
  PROVE  IsSequence(t) /\ Len(t) = Len(s)
<1>1. PICK n \in Nat : n = Len(s)
  BY DEF IsSequence
<1>2. DOMAIN s = 1..n
  BY <1>1 DEF IsSequence
<1>3. t = [i \in 1..n |-> t[i]]
  BY <1>2
<1>4. Len(t) = n
  <2>1. t \in [1..n -> {t[i] : i \in 1..n}]
    BY <1>3
  <2>2. t \in Seq({t[i] : i \in 1..n})
    BY <2>1, SeqDef
  <2>. QED BY <2>1, <2>2, LenProperties
<1>. QED BY <1>1, <1>3, <1>4 DEF IsSequence

LEMMA AppendedIs ==
  ASSUME NEW s, IsSequence(s), NEW e
  PROVE  IsSequence(Append(s, e)) /\ Len(Append(s, e)) = Len(s) + 1
<1>1. PICK S : s \in Seq(S)
  BY SequenceOf
<1>2. s \in Seq(S \cup {e})
  BY <1>1, SeqMonotonic
<1>3. Append(s, e) \in Seq(S \cup {e}) /\ Len(Append(s, e)) = Len(s) + 1
  BY <1>2, AppendProperties
<1>. QED BY <1>3, IsOfSeq

LEMMA PushedIs ==
  ASSUME NEW s, IsSequence(s), NEW e
  PROVE  IsSequence(<<e>> \o s) /\ Len(<<e>> \o s) = Len(s) + 1
<1>1. PICK S : s \in Seq(S)
  BY SequenceOf
<1>2. s \in Seq(S \cup {e}) /\ <<e>> \in Seq(S \cup {e}) /\ Len(<<e>>) = 1
  BY <1>1, SeqMonotonic
<1>3. <<e>> \o s \in Seq(S \cup {e}) /\ Len(<<e>> \o s) = 1 + Len(s) /\ Len(s) \in Nat
  BY <1>2, ConcatProperties
<1>. QED BY <1>3, IsOfSeq, 1 + Len(s) = Len(s) + 1

LEMMA TailIs ==
  ASSUME NEW s, IsSequence(s), s # << >>
  PROVE  IsSequence(Tail(s)) /\ Len(Tail(s)) = Len(s) - 1
<1>1. PICK S : s \in Seq(S)
  BY SequenceOf
<1>2. Tail(s) \in Seq(S) /\ Len(Tail(s)) = Len(s) - 1
  BY <1>1, HeadTailProperties
<1>. QED BY <1>2, IsOfSeq

LEMMA JoinedIs ==
  ASSUME NEW s, IsSequence(s), NEW t, IsSequence(t)
  PROVE  IsSequence(s \o t) /\ Len(s \o t) = Len(s) + Len(t)
<1>1. PICK S : s \in Seq(S)
  BY SequenceOf
<1>2. PICK T : t \in Seq(T)
  BY SequenceOf
<1>3. s \in Seq(S \cup T) /\ t \in Seq(S \cup T)
  BY <1>1, <1>2, SeqMonotonic
<1>4. s \o t \in Seq(S \cup T) /\ Len(s \o t) = Len(s) + Len(t)
  BY <1>3, ConcatProperties
<1>. QED BY <1>4, IsOfSeq

LEMMA CutIs ==
  ASSUME NEW s, IsSequence(s), NEW n \in 0..Len(s)
  PROVE  IsSequence(SubSeq(s, 1, n)) /\ Len(SubSeq(s, 1, n)) = n
<1>1. PICK S : s \in Seq(S)
  BY SequenceOf
<1>2. PICK k \in Nat : k = n /\ k <= Len(s) /\ Len(s) \in Nat
  BY DEF IsSequence
<1>3. SubSeq(s, 1, k) \in Seq(S) /\ Len(SubSeq(s, 1, k)) = k
  <2>1. CASE k = 0
    BY <1>1, <1>2, <2>1, SubSeqProperties
  <2>2. CASE k # 0
    BY <1>1, <1>2, <2>2, SubSeqProperties
  <2>. QED BY <2>1, <2>2
<1>. QED BY <1>2, <1>3, IsOfSeq

LEMMA OneIs == ASSUME NEW e PROVE IsSequence(<<e>>) /\ Len(<<e>>) = 1
<1>1. <<e>> \in Seq({e}) /\ Len(<<e>>) = 1
  OBVIOUS
<1>. QED BY <1>1, IsOfSeq

LEMMA TwoIs == ASSUME NEW e, NEW f PROVE IsSequence(<<e, f>>) /\ Len(<<e, f>>) = 2
<1>1. <<e, f>> \in Seq({e, f}) /\ Len(<<e, f>>) = 2
  OBVIOUS
<1>. QED BY <1>1, IsOfSeq

LEMMA NoneIsEmpty ==
  ASSUME NEW s, IsSequence(s)
  PROVE  s # << >> <=> Len(s) >= 1
<1>1. PICK S : s \in Seq(S)
  BY SequenceOf
<1>. QED BY <1>1, EmptySeq, LenProperties

-----------------------------------------------------------------------------
(* The text, and the loops over it, which go on and stop within it.        *)

IsText == IsSequence(text)

LEMMA EndIs ==
  ASSUME IsText
  PROVE  /\ Len(text) \in Nat /\ End \in Nat /\ End = Len(text) + 1
         /\ DOMAIN text = 1..Len(text)
         /\ At(End) = "0"
<1>1. Len(text) \in Nat /\ DOMAIN text = 1..Len(text)
  BY DEF IsText, IsSequence
<1>2. End \notin 1..Len(text)
  BY <1>1 DEF End
<1>. QED BY <1>1, <1>2 DEF End, At, Pad

\* What is not the padding lies in the text.
LEMMA InText ==
  ASSUME IsText, NEW c, At(c) # "0"
  PROVE  c \in 1..Len(text) /\ At(c) = text[c] /\ c \in Nat /\ c < End
BY EndIs DEF At, Pad

LEMMA NextInText ==
  ASSUME IsText, NEW c, At(c) # "0"
  PROVE  c + 1 \in 1..End
<1>1. PICK n \in Nat : n = Len(text) /\ End = n + 1
  BY EndIs
<1>2. c \in 1..n
  BY <1>1, InText
<1>. QED BY <1>1, <1>2

LEMMA PastSpacesIs ==
  ASSUME IsText, NEW c \in 1..End
  PROVE  PastSpaces(c) \in c..End
<1>. DEFINE T == {n \in Nat : n <= End - c /\ ~Space(At(c + n))}
<1>1. End \in Nat /\ c \in Nat /\ c <= End /\ ~Space(At(End))
  <2>1. End \in Nat /\ ~Space(At(End))
    BY EndIs DEF Space
  <2>. QED BY <2>1
<1>2. End - c \in T
  <2>1. c + (End - c) = End /\ End - c \in Nat
    BY <1>1
  <2>. QED BY <1>1, <2>1
<1>3. PICK n \in T : \A m \in T : n <= m
  BY <1>2, LeastNumber
<1>4. c + n \in c..End /\ ~Space(At(c + n))
  BY <1>1, <1>3
<1>5. \A j \in c..((c + n) - 1) : Space(At(j))
  <2>1. ASSUME NEW j \in c..((c + n) - 1) PROVE Space(At(j))
    <3>1. j - c \in Nat /\ j - c < n /\ j - c <= End - c /\ c + (j - c) = j
      BY <1>1, <1>4
    <3>2. j - c \notin T
      BY <1>1, <1>3, <3>1
    <3>. QED BY <3>1, <3>2
  <2>. QED BY <2>1
<1>6. \E i \in c..End : ~Space(At(i)) /\ \A j \in c..(i - 1) : Space(At(j))
  BY <1>4, <1>5
<1>. QED BY <1>6 DEF PastSpaces

LEMMA PastPairsIs ==
  ASSUME IsText, NEW c \in 1..End
  PROVE  PastPairs(c) \in c..End
<1>. DEFINE Blank2(i) == At(i) = " " /\ At(i + 1) = " "
            T == {n \in Nat : n % 2 = 0 /\ ~Blank2(c + n)}
<1>a. ~Blank2(End) /\ \A i : i + 1 = End => ~Blank2(i)
  BY EndIs
<1>b. End \in Nat
  BY EndIs
<1>. HIDE DEF Blank2
<1>1. c \in Nat /\ c <= End
  BY <1>b
<1>2. \E m \in T : m <= End - c
  <2>. DEFINE d == End - c
  <2>1. d \in Nat /\ c + d = End
    BY <1>b, <1>1
  <2>2. CASE d % 2 = 0
    <3>1. d \in T
      BY <1>a, <1>1, <2>1, <2>2
    <3>. QED BY <3>1, <2>1
  <2>3. CASE d % 2 # 0
    <3>1. d - 1 \in Nat /\ (d - 1) % 2 = 0 /\ (c + (d - 1)) + 1 = End
      BY <1>b, <1>1, <2>1, <2>3
    <3>2. d - 1 \in T
      BY <1>a, <1>1, <3>1
    <3>. QED BY <3>2, <2>1
  <2>. QED BY <2>2, <2>3
<1>3. PICK n \in T : \A m \in T : n <= m
  BY <1>2, LeastNumber
<1>4. n \in Nat /\ n <= End - c
  <2>1. PICK m \in T : m <= End - c
    BY <1>2
  <2>2. n <= m /\ n \in Nat /\ m \in Nat
    BY <1>3
  <2>. QED BY <1>b, <1>1, <2>1, <2>2
<1>5. c + n \in c..End
  BY <1>b, <1>1, <1>4
<1>6. \A j \in c..((c + n) - 1) : At(j) = " "
  <2>1. ASSUME NEW j \in c..((c + n) - 1) PROVE At(j) = " "
    <3>1. PICK d \in Nat : d = j - c /\ d < n /\ j = c + d
      <4>1. j - c \in Nat /\ j - c < n /\ j = c + (j - c)
        BY <1>b, <1>1, <1>4
      <4>. QED BY <4>1
    <3>2. CASE d % 2 = 0
      <4>1. d \notin T
        BY <1>3, <1>4, <3>1
      <4>2. Blank2(j)
        BY <3>1, <3>2, <4>1
      <4>. QED BY <4>2 DEF Blank2
    <3>3. CASE d % 2 # 0
      <4>1. d - 1 \in Nat /\ (d - 1) % 2 = 0 /\ d - 1 < n /\ (c + (d - 1)) + 1 = j
        BY <1>b, <1>1, <1>4, <3>1, <3>3
      <4>2. d - 1 \notin T
        BY <1>3, <1>4, <4>1
      <4>3. Blank2(c + (d - 1))
        BY <4>1, <4>2
      <4>. QED BY <4>1, <4>3 DEF Blank2
    <3>. QED BY <3>2, <3>3
  <2>. QED BY <2>1
<1>7. ((c + n) - c) % 2 = 0
  <2>1. (c + n) - c = n
    BY <1>b, <1>1, <1>4
  <2>. QED BY <1>3, <2>1
<1>8. \E i \in c..End : /\ (i - c) % 2 = 0
                        /\ \A j \in c..(i - 1) : At(j) = " "
                        /\ ~(At(i) = " " /\ At(i + 1) = " ")
  BY <1>3, <1>5, <1>6, <1>7 DEF Blank2
<1>. QED BY <1>8 DEF PastPairs

\* Where a blank, a line end or a comment that is closed leads to, in one step.
ClosedAt(c) == {i \in (c + 1)..(End - 1) :
                  At(i) = "*/" /\ \A j \in c..i : At(j) # Pad}
LineEndAt(c) == CHOOSE i \in c..End : LineEnd(At(i))
                                     /\ \A j \in c..(i - 1) : ~LineEnd(At(j))
FirstOf(T) == CHOOSE i \in T : \A j \in T : i <= j

Goes(c) ==
  \/ At(c) = "/*" /\ ClosedAt(c) # {}
  \/ At(c) = "//"
  \/ Space(At(c))
Lead(c) ==
  IF At(c) = "/*" THEN 1 + FirstOf(ClosedAt(c))
  ELSE IF At(c) = "//" THEN LineEndAt(c)
  ELSE c + 1

LEMMA LeadsOn ==
  ASSUME IsText, NEW c \in 1..End, Goes(c)
  PROVE  Lead(c) \in (c + 1)..End
<1>1. End \in Nat /\ c \in Nat /\ c <= End
  BY EndIs
<1>2. CASE At(c) = "/*"
  <2>1. ClosedAt(c) # {} /\ ClosedAt(c) \subseteq (c + 1)..(End - 1)
    BY <1>2 DEF Goes, ClosedAt, Space
  <2>2. ClosedAt(c) \subseteq Nat
    BY <1>1, <2>1
  <2>3. \E i \in ClosedAt(c) : \A j \in ClosedAt(c) : i <= j
    BY <2>1, <2>2, LeastNumber
  <2>4. FirstOf(ClosedAt(c)) \in ClosedAt(c)
    BY <2>3 DEF FirstOf
  <2>5. PICK i \in (c + 1)..(End - 1) : i = FirstOf(ClosedAt(c))
    BY <2>1, <2>4
  <2>6. Lead(c) = 1 + i
    BY <1>2, <2>5 DEF Lead
  <2>. QED BY <1>1, <2>5, <2>6
<1>3. CASE At(c) = "//"
  <2>. DEFINE T == {n \in Nat : n <= End - c /\ LineEnd(At(c + n))}
  <2>1. End - c \in T
    <3>1. c + (End - c) = End /\ End - c \in Nat
      BY <1>1
    <3>2. LineEnd(At(End))
      BY EndIs DEF LineEnd, Pad
    <3>. QED BY <1>1, <3>1, <3>2
  <2>2. PICK n \in T : \A m \in T : n <= m
    BY <2>1, LeastNumber
  <2>3. c + n \in c..End /\ LineEnd(At(c + n))
    BY <1>1, <2>2
  <2>4. \A j \in c..((c + n) - 1) : ~LineEnd(At(j))
    <3>1. ASSUME NEW j \in c..((c + n) - 1) PROVE ~LineEnd(At(j))
      <4>1. j - c \in Nat /\ j - c < n /\ j - c <= End - c /\ c + (j - c) = j
        BY <1>1, <2>3
      <4>2. j - c \notin T
        BY <1>1, <2>2, <4>1
      <4>. QED BY <4>1, <4>2
    <3>. QED BY <3>1
  <2>5. \E i \in c..End : LineEnd(At(i)) /\ \A j \in c..(i - 1) : ~LineEnd(At(j))
    BY <2>3, <2>4
  <2>6. LineEndAt(c) \in c..End /\ LineEnd(At(LineEndAt(c)))
    BY <2>5 DEF LineEndAt
  <2>7. ~LineEnd(At(c))
    BY <1>3 DEF LineEnd, Pad
  <2>8. PICK i \in c..End : i = LineEndAt(c) /\ i # c
    BY <2>6, <2>7
  <2>9. Lead(c) = i
    BY <1>3, <2>8 DEF Lead
  <2>. QED BY <1>1, <2>8, <2>9
<1>4. CASE At(c) # "/*" /\ At(c) # "//"
  <2>1. Space(At(c)) /\ Lead(c) = c + 1
    BY <1>4 DEF Goes, Lead
  <2>2. c # End
    BY <2>1, EndIs DEF Space
  <2>. QED BY <1>1, <2>1, <2>2
<1>. QED BY <1>2, <1>3, <1>4

Stays(c) == [cur |-> c, open |-> At(c) = "/*"]
Skipped(f, c) == IF Goes(c) THEN f[Lead(c)] ELSE Stays(c)

\* skip_spaces_and_comments goes on and stops within the text.
LEMMA SkipIs ==
  ASSUME IsText
  PROVE  \A c \in 1..End : Skip[c].cur \in c..End
<1>. DEFINE V == [cur : 1..End, open : BOOLEAN]
            Rec == {n \in 0..(End - 1) : Goes(End - n)}
            back == [n \in Rec |-> End - Lead(End - n)]
            base == [n \in Nat \ Rec |-> IF n < End THEN Stays(End - n) ELSE Stays(End)]
            step == [p \in Rec \X V |-> p[2]]
            Body(f, c) ==
              LET close == {i \in (c + 1)..(End - 1) :
                              At(i) = "*/" /\ \A j \in c..i : At(j) # Pad}
                  line  == CHOOSE i \in c..End : LineEnd(At(i))
                                                 /\ \A j \in c..(i - 1) : ~LineEnd(At(j))
              IN CASE At(c) = "/*" ->
                        IF close = {} THEN [cur |-> c, open |-> TRUE]
                        ELSE f[1 + CHOOSE i \in close : \A j \in close : i <= j]
                   [] At(c) = "//" -> f[line]
                   [] Space(At(c)) -> f[c + 1]
                   [] OTHER -> [cur |-> c, open |-> FALSE]
            Eq(f) == f = [c \in 1..End |-> Body(f, c)]
<1>. HIDE DEF Body
<1>1. End \in Nat /\ End >= 1
  BY EndIs
<1>2. \A f, c : Body(f, c) = Skipped(f, c)
  <2>1. SUFFICES ASSUME NEW f, NEW c PROVE Body(f, c) = Skipped(f, c)
    OBVIOUS
  <2>2. CASE At(c) = "/*"
    <3>1. Body(f, c) = IF ClosedAt(c) = {} THEN [cur |-> c, open |-> TRUE]
                       ELSE f[1 + FirstOf(ClosedAt(c))]
      <4>1. ~Space(At(c)) /\ At(c) # "//"
        BY <2>2 DEF Space
      <4>. QED BY <2>2, <4>1, Zenon DEF Body, ClosedAt, FirstOf
    <3>2. ~Space(At(c)) /\ (Goes(c) <=> ClosedAt(c) # {})
      BY <2>2 DEF Goes, Space
    <3>3. Lead(c) = 1 + FirstOf(ClosedAt(c)) /\ Stays(c) = [cur |-> c, open |-> TRUE]
      BY <2>2 DEF Lead, Stays
    <3>. QED BY <3>1, <3>2, <3>3 DEF Skipped
  <2>3. CASE At(c) = "//"
    BY <2>3 DEF Body, Skipped, Goes, Lead, LineEndAt, Space
  <2>4. CASE At(c) # "/*" /\ At(c) # "//"
    <3>1. CASE Space(At(c))
      BY <2>4, <3>1 DEF Body, Skipped, Goes, Lead
    <3>2. CASE ~Space(At(c))
      BY <2>4, <3>2 DEF Body, Skipped, Goes, Stays
    <3>. QED BY <3>1, <3>2
  <2>. QED BY <2>2, <2>3, <2>4
<1>3. \A n \in Rec : End - n \in 1..End /\ back[n] \in Nat /\ back[n] < n /\ Lead(End - n) = End - back[n]
  <2>1. SUFFICES ASSUME NEW n \in Rec
        PROVE  End - n \in 1..End /\ back[n] \in Nat /\ back[n] < n /\ Lead(End - n) = End - back[n]
    OBVIOUS
  <2>2. PICK c \in 1..End : c = End - n /\ Goes(c) /\ n = End - c
    BY <1>1
  <2>3. Lead(c) \in (c + 1)..End /\ back[n] = End - Lead(c)
    BY <2>2, LeadsOn
  <2>. QED BY <1>1, <2>2, <2>3
<1>4. PICK f \in [Nat -> V] : Recursive(f, Rec, back, base, step)
  <2>1. \A c \in 1..End : Stays(c) \in V
    BY DEF Stays
  <2>2. base \in [Nat \ Rec -> V]
    BY <1>1, <2>1
  <2>3. step \in [Rec \X V -> V]
    OBVIOUS
  <2>4. Rec \in SUBSET Nat /\ back \in [Rec -> Nat] /\ \A n \in Rec : back[n] < n
    BY <1>1, <1>3
  <2>. HIDE DEF V, Rec, back, base, step
  <2>. QED BY <2>2, <2>3, <2>4, RecursiveFunction
<1>. DEFINE g == [c \in 1..End |-> f[End - c]]
<1>5. ASSUME NEW c \in 1..End PROVE g[c] = Skipped(g, c)
  <2>1. PICK n \in Nat : n = End - c /\ c = End - n /\ n \in 0..(End - 1)
    BY <1>1
  <2>2. CASE Goes(c)
    <3>1. n \in Rec
      BY <2>1, <2>2
    <3>2. f[n] = step[<<n, f[back[n]]>>]
      <4>. HIDE DEF Rec, back, base, step
      <4>. QED BY <1>4, <2>1, <3>1 DEF Recursive, ValueAt
    <3>3. back[n] \in Nat /\ Lead(c) = End - back[n] /\ back[n] = End - Lead(c) /\ Lead(c) \in 1..End
      BY <1>1, <1>3, <2>1, <2>2, <3>1, LeadsOn
    <3>4. f[n] = f[back[n]]
      BY <3>1, <3>2, <3>3
    <3>5. g[c] = f[n] /\ g[Lead(c)] = f[back[n]]
      BY <2>1, <3>3
    <3>. QED BY <2>2, <3>4, <3>5 DEF Skipped
  <2>3. CASE ~Goes(c)
    <3>1. n \notin Rec /\ base[n] = Stays(c)
      BY <1>1, <2>1, <2>3
    <3>2. f[n] = base[n]
      <4>. HIDE DEF Rec, back, base, step
      <4>. QED BY <1>4, <2>1, <3>1 DEF Recursive, ValueAt
    <3>3. g[c] = f[n]
      BY <2>1
    <3>. QED BY <2>3, <3>1, <3>2, <3>3 DEF Skipped
  <2>. QED BY <2>2, <2>3
<1>6. Eq(g)
  <2>1. g = [c \in 1..End |-> g[c]]
    OBVIOUS
  <2>2. \A c \in 1..End : g[c] = Body(g, c)
    <3>. HIDE DEF g
    <3>. QED BY <1>2, <1>5
  <2>. HIDE DEF g
  <2>. QED BY <2>1, <2>2
<1>7. Eq(Skip)
  <2>1. Skip = CHOOSE h : Eq(h)
    BY DEF Skip, Body
  <2>. HIDE DEF Eq
  <2>. QED BY <1>6, <2>1
<1>8. \A c \in 1..End : Skip[c] = Skipped(Skip, c)
  BY <1>2, <1>7
<1>. DEFINE T == {n \in Nat : n < End /\ Skip[End - n].cur \notin (End - n)..End}
<1>9. T = {}
  <2>. SUFFICES ASSUME T # {} PROVE FALSE
    OBVIOUS
  <2>1. PICK n \in T : \A m \in T : n <= m
    BY LeastNumber
  <2>2. PICK c \in 1..End : c = End - n /\ n = End - c /\ Skip[c].cur \notin c..End
    BY <1>1, <2>1
  <2>3. CASE Goes(c)
    <3>1. PICK d \in (c + 1)..End : d = Lead(c)
      BY <2>2, <2>3, LeadsOn
    <3>2. PICK m \in Nat : m = End - d /\ d = End - m /\ m < n /\ m < End
      BY <1>1, <2>2, <3>1
    <3>3. m \notin T
      BY <1>1, <2>1, <2>2, <3>2, ~(n <= m)
    <3>4. Skip[d].cur \in d..End
      BY <3>2, <3>3
    <3>5. Skip[c] = Skip[d]
      BY <1>8, <2>3, <3>1 DEF Skipped
    <3>. QED BY <1>1, <2>2, <3>1, <3>4, <3>5
  <2>4. CASE ~Goes(c)
    <3>1. Skip[c].cur = c
      <4>1. Skip[c] = Stays(c)
        BY <1>8, <2>4 DEF Skipped
      <4>. QED BY <4>1 DEF Stays
    <3>. QED BY <1>1, <2>2, <3>1
  <2>. QED BY <2>3, <2>4
<1>10. ASSUME NEW c \in 1..End PROVE Skip[c].cur \in c..End
  <2>1. PICK n \in Nat : n = End - c /\ n < End /\ c = End - n
    BY <1>1
  <2>. QED BY <1>9, <2>1
<1>. QED BY <1>10

-----------------------------------------------------------------------------
(* The reader.                                                             *)

\* The labels inside a container, and those where a value is put without a
\* look at the room.
Inside == {"arr_begin", "arr_val_begin", "arr_val_end", "arr_end", "obj_begin",
           "obj_key_begin", "obj_key_end", "obj_val_begin", "obj_val_end", "obj_end"}
Labels == Inside \cup {"value", "doc_end"}
Early == {"start", "head", "setup"}
Unchecked == {"value", "obj_key_end", "obj_val_begin"}

Cursor ==
  /\ IsText /\ cur \in 1..End
  /\ pc = "setup" /\ style # "single" => At(cur) \in {"{", "["}

Room ==
  /\ IsSequence(vals) /\ alcLen \in Nat
  /\ pc \in Early => vals = <<>>
  /\ vals # <<>> => HdrLen + Len(vals) <= alcLen
  /\ pc \in Inside => alcLen >= 8 /\ HdrLen + Len(vals) <= alcLen
  /\ pc \in Unchecked => HdrLen + Len(vals) + 1 <= alcLen

\* What was allocated before the values.
Copied == IF Insitu THEN {} ELSE {"text"}

Held ==
  /\ pc \in Labels \cup Early \cup {"result", "done"}
  /\ pc \notin {"result", "done"} => err = NoError
  /\ pc = "start" => held = {}
  /\ pc \in {"head", "setup"} => held = Copied
  /\ pc \in Labels => held = {"vals"} \cup Copied
  /\ pc = "result" => held = IF err = NoError THEN {"vals"} \cup Copied ELSE Copied
  /\ pc = "done" => held = IF err # NoError THEN {} ELSE {"vals"} \cup Copied

\* Behind the first member of a container a comma was passed on the way to the
\* next one.
CommaBehind ==
  /\ pc \in {"arr_val_begin", "obj_key_begin"} /\ ctnLen # 0 =>
       \E i \in 1..(cur - 1) : text[i] = ","
  /\ CommaIsFound

RInv == Cursor /\ Room /\ Held /\ CommaBehind

\* return_err
LEMMA FailKeeps ==
  ASSUME RInv, pc \in Labels \cup {"setup"}, NEW code, code # "SUCCESS", NEW c,
         code = "JSON_STRUCTURE" => c \in DOMAIN text /\ text[c] = ",",
         Fail(code, c)
  PROVE  RInv'
<1>1. /\ pc' = "result" /\ vals' = <<>> /\ held' = held \ {"vals"}
      /\ text' = text /\ cur' = cur /\ alcLen' = alcLen /\ flg' = flg
  BY DEF Fail
<1>e. \/ err'.code = "UNEXPECTED_END"
      \/ err'.code = code /\ err'.pos = c
  BY DEF Fail
<1>2. Cursor'
  BY <1>1 DEF RInv, Cursor, IsText, End
<1>3. Room'
  BY <1>1, EmptyIs DEF RInv, Room, Early, Inside, Unchecked
<1>4. Held'
  <2>1. err' # NoError
    <3>1. err'.code # "SUCCESS" /\ NoError.code = "SUCCESS"
      BY <1>e DEF NoError
    <3>. QED BY <3>1
  <2>2. held' = Copied
    BY <1>1 DEF RInv, Held, Copied, Labels, Inside, Early
  <2>3. Copied' = Copied
    BY <1>1 DEF Copied, Insitu, Has
  <2>. QED BY <1>1, <2>1, <2>2, <2>3 DEF Held, Labels, Inside, Early
<1>5. CommaBehind'
  BY <1>1, <1>e DEF CommaBehind, CommaIsFound
<1>. QED BY <1>2, <1>3, <1>4, <1>5 DEF RInv

LEMMA GotoKeeps ==
  ASSUME RInv, NEW label, NEW c, Goto(label, c),
         pc \in Labels, label \in Labels, c \in 1..End,
         label \in Inside => pc \in Inside,
         label \in Unchecked => pc \in Unchecked,
         label \in {"arr_val_begin", "obj_key_begin"} /\ ctnLen # 0 =>
           \E i \in 1..(c - 1) : text[i] = ","
  PROVE  RInv'
<1>1. /\ pc' = label /\ cur' = c
      /\ text' = text /\ vals' = vals /\ held' = held /\ alcLen' = alcLen
      /\ flg' = flg /\ err' = err /\ ctnLen' = ctnLen
  BY DEF Goto
<1>2. Cursor'
  BY <1>1 DEF RInv, Cursor, IsText, End, Labels, Inside
<1>3. Room'
  BY <1>1 DEF RInv, Room, Labels, Inside, Early, HdrLen
<1>4. Held'
  <2>1. Copied' = Copied
    BY <1>1 DEF Copied, Insitu, Has
  <2>2. pc' \in Labels /\ pc' \notin {"result", "done", "start", "head", "setup"}
    BY <1>1 DEF Labels, Inside
  <2>3. err' = NoError /\ held' = {"vals"} \cup Copied
    BY <1>1 DEF RInv, Held, Labels, Inside
  <2>. QED BY <2>1, <2>2, <2>3 DEF Held, NoError
<1>5. CommaBehind'
  BY <1>1 DEF RInv, CommaBehind, CommaIsFound
<1>. QED BY <1>2, <1>3, <1>4, <1>5 DEF RInv

\* What the values become by a step that leaves what is allocated and reads on:
\* it has put the text, the values and their room right.
LEMMA GoesOn ==
  ASSUME RInv, pc \in Labels, pc' \in Labels, flg' = flg, held' = held, err' = err,
         Cursor', Room',
         pc' \in {"arr_val_begin", "obj_key_begin"} => ctnLen' = 0
  PROVE  RInv'
<1>1. Held'
  <2>1. Copied' = Copied
    BY DEF Copied, Insitu, Has
  <2>2. pc' \in Labels /\ pc' \notin {"result", "done", "start", "head", "setup"}
    BY DEF Labels, Inside
  <2>3. err' = NoError /\ held' = {"vals"} \cup Copied
    BY DEF RInv, Held, Labels, Inside
  <2>. QED BY <2>1, <2>2, <2>3 DEF Held, NoError
<1>2. CommaBehind'
  <2>1. err'.code # "JSON_STRUCTURE"
    BY DEF RInv, Held, Labels, Inside, NoError
  <2>. QED BY <2>1 DEF CommaBehind, CommaIsFound
<1>. QED BY <1>1, <1>2 DEF RInv

\* val_incr: with two slots in reserve there is room for the value, and for one
\* more behind it.
LEMMA GrownIs ==
  ASSUME RInv, pc \in Inside
  PROVE  /\ Grown \in Nat /\ Grown >= 8 /\ Len(vals) \in Nat
         /\ HdrLen + Len(vals) + 2 <= Grown
<1>1. PICK a, n \in Nat : a = alcLen /\ n = Len(vals) /\ a >= 8 /\ 4 + n <= a
  BY DEF RInv, Room, IsSequence, HdrLen
<1>2. Grown = IF 4 + n >= a - 2 THEN a + a \div 2 ELSE a
  BY <1>1 DEF Grown, Full, HdrLen
<1>3. a \div 2 \in Nat /\ a \div 2 >= 4
  BY <1>1
<1>4. CASE 4 + n >= a - 2
  BY <1>1, <1>2, <1>3, <1>4 DEF HdrLen
<1>5. CASE ~(4 + n >= a - 2)
  BY <1>1, <1>2, <1>5 DEF HdrLen
<1>. QED BY <1>4, <1>5

LEMMA CursorIs ==
  ASSUME RInv
  PROVE  IsText /\ End \in Nat /\ cur \in 1..End /\ cur \in Nat
<1>1. IsText /\ cur \in 1..End
  BY DEF RInv, Cursor
<1>. QED BY <1>1, EndIs

LEMMA AheadIs ==
  ASSUME RInv, NEW c \in cur..End
  PROVE  c \in 1..End /\ c \in Nat /\ cur <= c /\ c <= End
<1>1. PICK a, b \in Nat : a = cur /\ b = End /\ a >= 1
  BY CursorIs
<1>. QED BY <1>1

LEMMA HereIs == RInv => cur \in cur..End
BY CursorIs

LEMMA FartherIs ==
  ASSUME RInv, NEW d \in (cur + 1)..End
  PROVE  d \in 1..End /\ cur \in 1..(d - 1)
<1>1. PICK a, b \in Nat : a = cur /\ b = End /\ a >= 1
  BY CursorIs
<1>. QED BY <1>1

LEMMA ScalarInText ==
  ASSUME RInv, NEW c, At(c) \in DOMAIN Scalar
  PROVE  c \in 1..Len(text) /\ c + 1 \in 1..End
<1>1. At(c) # "0"
  BY DEF Scalar, Strings, Numbers
<1>2. IsText
  BY DEF RInv, Cursor
<1>. QED BY <1>1, <1>2, InText, EndIs

LEMMA ScalarKeeps ==
  ASSUME RInv, NEW c, NEW checked \in BOOLEAN, NEW label,
         ReadScalar(c, checked, label),
         IF checked THEN pc \in Inside ELSE pc \in Unchecked,
         label \in {"doc_end", "arr_val_end", "obj_key_end", "obj_val_end"},
         label = "doc_end" <=> pc \notin Inside,
         label = "obj_key_end" => checked
  PROVE  RInv'
<1>. HIDE DEF RInv
<1>0. pc \in Labels
  BY DEF Labels, Inside, Unchecked
<1>1. CASE checked /\ Full /\ Fail("MEMORY_ALLOCATION", c)
  BY <1>0, <1>1, FailKeeps
<1>2. CASE /\ vals' = Append(vals, Value(Scalar[At(c)]))
           /\ alcLen' = IF checked THEN Grown ELSE alcLen
           /\ cur' = c + 1
           /\ pc' = label
           /\ text' \in {text, [text EXCEPT ![pre] = Pad]}
           /\ UNCHANGED <<flg, held, err>>
  <2>1. IsText /\ IsSequence(vals) /\ alcLen \in Nat
    BY DEF RInv, Cursor, Room
  <2>2. Cursor'
    <3>1. IsSequence(text') /\ Len(text') = Len(text)
      <4>1. CASE text' = text
        BY <2>1, <4>1 DEF IsText
      <4>2. CASE text' = [text EXCEPT ![pre] = Pad]
        <5>1. text' = [i \in DOMAIN text |-> text'[i]]
          BY <4>2
        <5>. QED BY <2>1, <5>1, ReplacedIs DEF IsText
      <4>. QED BY <1>2, <4>1, <4>2
    <3>2. End' = End
      BY <3>1 DEF End
    <3>3. c + 1 \in 1..End
      BY <1>2, ScalarInText DEF ReadScalar
    <3>. QED BY <1>2, <3>1, <3>2, <3>3 DEF Cursor, IsText
  <2>3. Room'
    <3>1. IsSequence(vals') /\ Len(vals') = Len(vals) + 1
      BY <1>2, <2>1, AppendedIs
    <3>2. Len(vals) \in Nat
      BY <2>1 DEF IsSequence
    <3>3. CASE checked
      <4>1. alcLen' = Grown /\ pc \in Inside
        BY <1>2, <3>3
      <4>2. alcLen' \in Nat /\ alcLen' >= 8 /\ HdrLen + Len(vals') + 1 <= alcLen'
        BY <3>1, <3>2, <4>1, GrownIs DEF HdrLen
      <4>. QED BY <1>2, <3>1, <3>2, <4>2 DEF Room, Early, HdrLen
    <3>4. CASE ~checked
      <4>1. alcLen' = alcLen /\ HdrLen + Len(vals) + 1 <= alcLen
        BY <1>2, <3>4 DEF RInv, Room
      <4>2. HdrLen + Len(vals') <= alcLen'
        BY <3>1, <3>2, <4>1 DEF HdrLen
      <4>3. pc' \notin Unchecked /\ (pc' \in Inside => pc \in Inside)
        BY <1>2, <3>4 DEF Unchecked, Inside
      <4>4. pc \in Inside => alcLen >= 8
        BY DEF RInv, Room
      <4>. QED BY <1>2, <2>1, <3>1, <4>1, <4>2, <4>3, <4>4 DEF Room, Early
    <3>. QED BY <3>3, <3>4
  <2>4. pc' \in Labels /\ pc' \notin {"arr_val_begin", "obj_key_begin"}
    BY <1>2 DEF Labels, Inside
  <2>. QED BY <1>0, <1>2, <2>2, <2>3, <2>4, GoesOn
<1>. QED BY <1>1, <1>2 DEF ReadScalar

LEMMA MisreadsKeeps ==
  ASSUME RInv, pc \in Labels, NEW c, NEW checked, Misreads(c, checked)
  PROVE  RInv'
<1>1. PICK code : code # "SUCCESS" /\ code # "JSON_STRUCTURE" /\ Fail(code, c)
  <2>1. CASE Fail("MEMORY_ALLOCATION", c)
    BY <2>1
  <2>2. CASE At(c) \in DOMAIN Misread /\ Fail(Misread[At(c)], c)
    <3>1. Misread[At(c)] \in {"INVALID_STRING", "INVALID_NUMBER", "LITERAL"}
      <4>1. PICK e \in DOMAIN Misread : e = At(c)
        BY <2>2
      <4>2. Misread[e] = CASE e \in {"b", "u"} -> "INVALID_STRING"
                           [] e = "-" -> "INVALID_NUMBER"
                           [] OTHER -> "LITERAL"
        BY <4>1 DEF Misread
      <4>. QED BY <4>1, <4>2
    <3>. QED BY <2>2, <3>1
  <2>. QED BY <2>1, <2>2 DEF Misreads
<1>. QED BY <1>1, FailKeeps

\* A cursor that moves on to no value, at a place it may be at with its label.
LEMMA BlankKeeps ==
  ASSUME RInv, NEW c \in cur..End, NEW expected, Blank(pc, c, expected),
         pc \in Labels
  PROVE  RInv'
<1>1. IsText /\ c \in 1..End /\ End \in Nat /\ cur \in 1..End /\ c \in Nat /\ cur \in Nat /\ cur <= c
  BY CursorIs, AheadIs
<1>2. ASSUME NEW d \in c..End, Goto(pc, d) PROVE RInv'
  <2>1. d \in 1..End /\ cur <= d
    BY <1>1
  <2>2. pc \in {"arr_val_begin", "obj_key_begin"} /\ ctnLen # 0 =>
           \E i \in 1..(d - 1) : text[i] = ","
    <3>1. SUFFICES ASSUME NEW i \in 1..(cur - 1) PROVE i \in 1..(d - 1)
      BY DEF RInv, CommaBehind
    <3>. QED BY <1>1, <2>1, <3>1
  <2>. QED BY <1>2, <2>1, <2>2, GotoKeeps
<1>3. ASSUME NEW code \in {"UNEXPECTED_CHARACTER", "INVALID_COMMENT"}, NEW d, Fail(code, d)
      PROVE  RInv'
  BY <1>3, FailKeeps
<1>4. PastSpaces(c) \in c..End /\ Skip[c].cur \in c..End
  BY <1>1, PastSpacesIs, SkipIs
<1>. QED BY <1>2, <1>3, <1>4 DEF Blank

\* Going back to the comma: there is one, and it is found.
LEMMA BehindIs ==
  ASSUME RInv, NEW c \in cur..End, pc \in {"arr_val_begin", "obj_key_begin"},
         ctnLen # 0
  PROVE  Behind(c) \in DOMAIN text /\ text[Behind(c)] = ","
<1>1. IsText /\ c \in 1..End /\ End \in Nat /\ cur \in 1..End /\ c \in Nat /\ cur \in Nat /\ cur <= c
  BY CursorIs, AheadIs
<1>. DEFINE Comma(i) == At(i) = ","
            T == {n \in Nat : n < c /\ Comma(c - n)}
<1>2. \E i \in 1..(cur - 1) : Comma(i)
  <2>1. PICK i \in 1..(cur - 1) : text[i] = ","
    BY DEF RInv, CommaBehind
  <2>2. i \in 1..Len(text)
    <3>1. Len(text) \in Nat /\ End = Len(text) + 1
      BY <1>1, EndIs
    <3>. HIDE DEF Comma
    <3>. QED BY <1>1, <3>1
  <2>. QED BY <2>1, <2>2 DEF At
<1>. HIDE DEF Comma
<1>3. T # {}
  <2>1. PICK i \in 1..(cur - 1) : Comma(i)
    BY <1>2
  <2>2. c - i \in Nat /\ c - i < c /\ c - (c - i) = i
    BY <1>1
  <2>. QED BY <2>1, <2>2
<1>4. PICK n \in T : \A m \in T : n <= m
  BY <1>3, LeastNumber
<1>5. PICK i \in 1..c : i = c - n /\ n = c - i /\ Comma(i)
  BY <1>1, <1>4
<1>6. \A j \in (i + 1)..c : ~Comma(j)
  <2>1. ASSUME NEW j \in (i + 1)..c PROVE ~Comma(j)
    <3>1. c - j \in Nat /\ c - j < c /\ c - j < n /\ c - (c - j) = j
      BY <1>1, <1>5
    <3>2. c - j \notin T
      BY <1>4, <3>1, ~(n <= c - j)
    <3>. QED BY <3>1, <3>2
  <2>. QED BY <2>1
<1>7. At(Behind(c)) = ","
  BY <1>5, <1>6 DEF Behind, Comma
<1>8. Behind(c) \in 1..Len(text) /\ At(Behind(c)) = text[Behind(c)]
  BY <1>1, <1>7, InText
<1>. QED BY <1>1, <1>7, <1>8, EndIs

LEMMA CloseEarlyKeeps ==
  ASSUME RInv, NEW e, e # "0", NEW c \in cur..End, NEW label,
         CloseEarly(e, c, label),
         pc \in {"arr_val_begin", "obj_key_begin"}, label \in {"arr_end", "obj_end"}
  PROVE  RInv'
<1>1. IsText /\ c \in 1..End /\ At(c) = e
  BY CursorIs, AheadIs DEF CloseEarly
<1>2. c + 1 \in 1..End
  BY <1>1, InText, EndIs
<1>3. CASE Goto(label, c + 1)
  BY <1>2, <1>3, GotoKeeps DEF Labels, Inside, Unchecked
<1>4. CASE ctnLen # 0 /\ Fail("JSON_STRUCTURE", Behind(c))
  BY <1>4, BehindIs, FailKeeps DEF Labels, Inside
<1>. QED BY <1>3, <1>4 DEF CloseEarly

LEMMA OpeningKeeps ==
  ASSUME RInv, NEW c, Opening(c), pc \in Inside
  PROVE  RInv'
<1>1. PICK e \in {"{", "["}, label \in {"obj_begin", "arr_begin"} : On(e, c, label, c + 1)
  BY DEF Opening
<1>2. IsText /\ At(c) # "0"
  <2>1. At(c) = e /\ e # "0"
    BY <1>1 DEF On
  <2>. QED BY <2>1, CursorIs
<1>3. c + 1 \in 1..End
  BY <1>2, NextInText
<1>. QED BY <1>1, <1>3, GotoKeeps DEF On, Labels, Inside, Unchecked

LEMMA ArrValKeeps ==
  ASSUME RInv, pc = "arr_val_begin", NEW c \in cur..End, ArrVal(c)
  PROVE  RInv'
<1>0. pc \in Labels /\ pc \in Inside
  BY DEF Labels, Inside
<1>1. CASE Opening(c)
  BY <1>0, <1>1, OpeningKeeps
<1>2. CASE ReadScalar(c, TRUE, "arr_val_end")
  BY <1>0, <1>2, ScalarKeeps
<1>3. CASE Misreads(c, TRUE)
  BY <1>0, <1>3, MisreadsKeeps
<1>4. CASE CloseEarly("]", c, "arr_end")
  BY <1>4, CloseEarlyKeeps
<1>5. CASE Blank("arr_val_begin", c, ValueSet \cup {"]"})
  BY <1>0, <1>5, BlankKeeps
<1>. QED BY <1>1, <1>2, <1>3, <1>4, <1>5 DEF ArrVal

LEMMA ObjKeyKeeps ==
  ASSUME RInv, pc = "obj_key_begin", NEW c \in cur..End, ObjKey(c)
  PROVE  RInv'
<1>0. pc \in Labels /\ pc \in Inside
  BY DEF Labels, Inside
<1>1. CASE ReadScalar(c, TRUE, "obj_key_end")
  BY <1>0, <1>1, ScalarKeeps
<1>2. CASE Misreads(c, TRUE)
  BY <1>0, <1>2, MisreadsKeeps
<1>3. CASE CloseEarly("}", c, "obj_end")
  BY <1>3, CloseEarlyKeeps
<1>4. CASE Blank("obj_key_begin", c, {"s", "u", "b", "}"})
  BY <1>0, <1>4, BlankKeeps
<1>. QED BY <1>1, <1>2, <1>3, <1>4 DEF ObjKey

LEMMA ObjValKeeps ==
  ASSUME RInv, pc = "obj_val_begin", ObjVal
  PROVE  RInv'
<1>0. pc \in Labels /\ pc \in Inside /\ pc \in Unchecked
  BY DEF Labels, Inside, Unchecked
<1>1. CASE Opening(cur)
  BY <1>0, <1>1, OpeningKeeps
<1>2. CASE ReadScalar(cur, FALSE, "obj_val_end")
  BY <1>0, <1>2, ScalarKeeps
<1>3. CASE Misreads(cur, FALSE)
  BY <1>0, <1>3, MisreadsKeeps
<1>4. CASE Blank("obj_val_begin", cur, ValueSet)
  <2>1. cur \in cur..End
    BY CursorIs
  <2>. QED BY <1>0, <1>4, <2>1, BlankKeeps
<1>. QED BY <1>1, <1>2, <1>3, <1>4 DEF ObjVal

LEMMA BeginKeeps ==
  ASSUME RInv, pc \in {"arr_begin", "obj_begin"}, NEW t, NEW label, NEW c,
         label \in {"arr_val_begin", "obj_key_begin"}, c \in 1..End,
         Begin(t, label, c)
  PROVE  RInv'
<1>0. pc \in Labels /\ pc \in Inside
  BY DEF Labels, Inside
<1>1. CASE Full /\ Fail("MEMORY_ALLOCATION", cur)
  BY <1>0, <1>1, FailKeeps
<1>. DEFINE v == [vals EXCEPT ![ctn].len = ctnLen + 1]
            e == [t |-> t, len |-> 0, ofs |-> Len(vals) + 1 - ctn]
<1>2. CASE /\ vals' = Append(v, e)
           /\ alcLen' = Grown /\ ctnLen' = 0 /\ pc' = label /\ cur' = c
           /\ UNCHANGED <<flg, text, held, err>>
  <2>1. IsText /\ IsSequence(vals)
    BY DEF RInv, Cursor, Room
  <2>2. Cursor'
    <3>1. End' = End
      BY <1>2 DEF End
    <3>. QED BY <1>2, <2>1, <3>1 DEF Cursor, IsText
  <2>3. Room'
    <3>1. v = [i \in DOMAIN vals |-> v[i]]
      OBVIOUS
    <3>. HIDE DEF v, e
    <3>2. IsSequence(v) /\ Len(v) = Len(vals)
      BY <2>1, <3>1, ReplacedIs
    <3>3. IsSequence(vals') /\ Len(vals') = Len(vals) + 1
      BY <1>2, <3>2, AppendedIs
    <3>4. alcLen' \in Nat /\ alcLen' >= 8 /\ HdrLen + Len(vals') + 1 <= alcLen' /\ Len(vals) \in Nat
      BY <1>0, <1>2, <3>3, GrownIs DEF HdrLen
    <3>. QED BY <1>2, <3>3, <3>4 DEF Room, Early, HdrLen
  <2>4. pc' \in Labels
    BY <1>2 DEF Labels, Inside
  <2>. QED BY <1>0, <1>2, <2>2, <2>3, <2>4, GoesOn
<1>. QED BY <1>1, <1>2 DEF Begin

LEMMA FinishKeeps ==
  ASSUME RInv, pc \in {"arr_end", "obj_end"}, NEW t, NEW n, NEW c \in 1..End,
         Finish(t, n, c)
  PROVE  RInv'
<1>0. pc \in Labels /\ pc \in Inside
  BY DEF Labels, Inside
<1>1. /\ vals' = [vals EXCEPT ![ctn] = [t |-> t, len |-> n, ofs |-> Len(vals) - ctn + 1]]
      /\ pc' \in {"doc_end", "obj_val_end", "arr_val_end"} /\ cur' \in {cur, c}
      /\ UNCHANGED <<flg, text, alcLen, held, err>>
  BY DEF Finish
<1>2. Cursor'
  <2>1. End' = End
    BY <1>1 DEF End
  <2>. QED BY <1>1, <2>1, CursorIs DEF Cursor, IsText
<1>3. Room'
  <2>1. vals' = [i \in DOMAIN vals |-> vals'[i]]
    BY <1>1
  <2>2. IsSequence(vals') /\ Len(vals') = Len(vals)
    BY <2>1, ReplacedIs DEF RInv, Room
  <2>3. alcLen' = alcLen /\ alcLen \in Nat /\ alcLen >= 8 /\ HdrLen + Len(vals) <= alcLen
    BY <1>0, <1>1 DEF RInv, Room
  <2>4. pc' \notin Unchecked /\ pc' \notin Early
    BY <1>1 DEF Unchecked, Early
  <2>. QED BY <2>2, <2>3, <2>4 DEF Room
<1>4. pc' \in Labels /\ pc' \notin {"arr_val_begin", "obj_key_begin"}
  BY <1>1 DEF Labels, Inside
<1>. QED BY <1>0, <1>1, <1>2, <1>3, <1>4, GoesOn

LEMMA DocEndKeeps ==
  ASSUME RInv, pc = "doc_end", DocEnd
  PROVE  RInv'
<1>0. pc \in Labels
  BY DEF Labels
<1>. DEFINE s == Skip[cur]
            c == IF cur >= End \/ Has("STOP_WHEN_DONE") THEN cur
                 ELSE IF Has("ALLOW_COMMENTS") THEN s.cur ELSE PastSpaces(cur)
<1>1. CASE Fail(IF Has("ALLOW_COMMENTS") /\ s.open THEN "INVALID_COMMENT"
                ELSE "UNEXPECTED_CONTENT", c)
  <2>. HIDE DEF s, c
  <2>1. PICK code \in {"INVALID_COMMENT", "UNEXPECTED_CONTENT"} : Fail(code, c)
    BY <1>1
  <2>. QED BY <1>0, <2>1, FailKeeps
<1>2. CASE /\ cur' = c /\ pc' = "result"
           /\ text' \in {text, [text EXCEPT ![pre] = Pad]}
           /\ UNCHANGED <<flg, vals, alcLen, held, err>>
  <2>1. c \in 1..End
    <3>1. Skip[cur].cur \in 1..End /\ PastSpaces(cur) \in 1..End
      <4>1. PICK a, b \in Nat : a = cur /\ b = End /\ a >= 1 /\ a <= b
        BY CursorIs
      <4>2. Skip[cur].cur \in a..b /\ PastSpaces(cur) \in a..b
        BY <4>1, CursorIs, SkipIs, PastSpacesIs
      <4>. QED BY <4>1, <4>2
    <3>2. cur \in 1..End
      BY CursorIs
    <3>. QED BY <3>1, <3>2
  <2>. HIDE DEF c, s
  <2>2. Cursor'
    <3>1. IsSequence(text') /\ Len(text') = Len(text)
      <4>1. CASE text' = text
        BY CursorIs, <4>1 DEF IsText
      <4>2. CASE text' = [text EXCEPT ![pre] = Pad]
        <5>1. text' = [i \in DOMAIN text |-> text'[i]]
          BY <4>2
        <5>. QED BY <5>1, CursorIs, ReplacedIs DEF IsText
      <4>. QED BY <1>2, <4>1, <4>2
    <3>2. End' = End
      BY <3>1 DEF End
    <3>. QED BY <1>2, <2>1, <3>1, <3>2 DEF Cursor, IsText
  <2>3. Room'
    BY <1>2 DEF RInv, Room, Early, Inside, Unchecked
  <2>4. Held'
    <3>1. Copied' = Copied
      BY <1>2 DEF Copied, Insitu, Has
    <3>2. err = NoError /\ held = {"vals"} \cup Copied
      BY DEF RInv, Held, Labels
    <3>. QED BY <1>2, <3>1, <3>2 DEF Held, Labels, Inside, Early, NoError
  <2>5. CommaBehind'
    <3>1. err'.code # "JSON_STRUCTURE"
      BY <1>2 DEF RInv, Held, NoError
    <3>. QED BY <1>2, <3>1 DEF CommaBehind, CommaIsFound
  <2>. QED BY <2>2, <2>3, <2>4, <2>5 DEF RInv
<1>. QED BY <1>1, <1>2 DEF DocEnd

LEMMA SetupKeeps ==
  ASSUME RInv, pc = "setup", style # "single", NEW ratio \in {6, 16}, NEW skip,
         Setup(ratio, skip)
  PROVE  RInv'
<1>1. CASE Fail("MEMORY_ALLOCATION", cur)
  BY <1>1, FailKeeps
<1>. DEFINE datLen == IF Has("STOP_WHEN_DONE") THEN 256 ELSE End - cur
<1>2. CASE /\ held' = held \cup {"vals"}
           /\ alcLen' = HdrLen + datLen \div ratio + 4
           /\ \E e : vals' = <<e>>
           /\ ctnLen' = 0
           /\ cur' = IF skip /\ At(cur + 1) = "\n" THEN cur + 2 ELSE cur + 1
           /\ pc' \in {"obj_key_begin", "arr_val_begin"}
           /\ UNCHANGED <<flg, text, err>>
  <2>1. Cursor'
    <3>1. cur + 1 \in 1..End
      BY CursorIs, NextInText DEF RInv, Cursor
    <3>2. At(cur + 1) = "\n" => (cur + 1) + 1 \in 1..End
      BY CursorIs, NextInText
    <3>3. (cur + 1) + 1 = cur + 2
      BY CursorIs
    <3>4. cur' \in 1..End
      BY <1>2, <3>1, <3>2, <3>3
    <3>5. End' = End
      BY <1>2 DEF End
    <3>. QED BY <1>2, <3>4, <3>5, CursorIs DEF Cursor, IsText
  <2>2. Room'
    <3>1. PICK e : vals' = <<e>>
      BY <1>2
    <3>2. IsSequence(vals') /\ Len(vals') = 1
      <4>1. <<e>> \in Seq({e}) /\ Len(<<e>>) = 1
        OBVIOUS
      <4>. QED BY <3>1, <4>1, IsOfSeq
    <3>3. datLen \in Nat
      BY CursorIs
    <3>. HIDE DEF datLen
    <3>4. datLen \div ratio \in Nat
      BY <3>3
    <3>5. alcLen' \in Nat /\ alcLen' >= 8 /\ HdrLen = 4
      BY <1>2, <3>4 DEF HdrLen
    <3>. QED BY <1>2, <3>2, <3>5 DEF Room, Early, Unchecked
  <2>3. Held'
    <3>1. Copied' = Copied
      BY <1>2 DEF Copied, Insitu, Has
    <3>2. err = NoError /\ held = Copied
      BY DEF RInv, Held
    <3>3. held' = {"vals"} \cup Copied
      BY <1>2, <3>2
    <3>4. pc' \in Labels /\ pc' \notin {"result", "done", "start", "head", "setup"}
      BY <1>2 DEF Labels, Inside
    <3>. QED BY <1>2, <3>1, <3>2, <3>3, <3>4 DEF Held, NoError
  <2>4. CommaBehind'
    <3>1. err'.code # "JSON_STRUCTURE"
      BY <1>2 DEF RInv, Held, NoError
    <3>. QED BY <1>2, <3>1 DEF CommaBehind, CommaIsFound
  <2>. QED BY <2>1, <2>2, <2>3, <2>4 DEF RInv
<1>. QED BY <1>1, <1>2 DEF Setup

LEMMA PastLineIs ==
  ASSUME IsText, NEW c \in 1..End
  PROVE  PastLine(c) \in c..End
<1>1. CASE At(c) = "\n"
  <2>1. PastLine(c) = c + 1 /\ c + 1 \in 1..End
    BY <1>1, NextInText DEF PastLine
  <2>2. c \in Nat /\ End \in Nat
    BY EndIs
  <2>. QED BY <2>1, <2>2
<1>2. CASE At(c) # "\n"
  <2>1. PastLine(c) = c
    BY <1>2 DEF PastLine
  <2>2. c \in Nat /\ End \in Nat
    BY EndIs
  <2>. QED BY <2>1, <2>2
<1>. QED BY <1>1, <1>2

\* Past an element that is there, and past what a pretty printer puts there.
LEMMA PastOne ==
  ASSUME RInv, At(cur) # "0"
  PROVE  /\ cur + 1 \in (cur + 1)..End
         /\ PastLine(cur + 1) \in (cur + 1)..End
         /\ (IF At(cur + 1) = " " THEN cur + 2 ELSE cur + 1) \in (cur + 1)..End
<1>1. IsText /\ cur \in Nat /\ End \in Nat /\ cur + 1 \in 1..End
  BY CursorIs, NextInText
<1>2. PastLine(cur + 1) \in (cur + 1)..End
  BY <1>1, PastLineIs
<1>3. At(cur + 1) = " " => (cur + 1) + 1 \in 1..End
  BY <1>1, NextInText
<1>4. /\ (cur + 1) + 1 = cur + 2 /\ cur + 1 \in (cur + 1)..End
      /\ cur + 2 \in 1..End => cur + 2 \in (cur + 1)..End
  BY <1>1
<1>5. At(cur + 1) = " " => cur + 2 \in (cur + 1)..End
  BY <1>3, <1>4
<1>. QED BY <1>2, <1>4, <1>5

LEMMA OnKeeps ==
  ASSUME RInv, NEW e, e # "0", NEW label, NEW next, On(e, cur, label, next),
         pc \in Labels, label \in Labels,
         At(cur) # "0" => next \in (cur + 1)..End,
         label \in Inside => pc \in Inside,
         label \in Unchecked => pc \in Unchecked,
         label \in {"arr_val_begin", "obj_key_begin"} => e = ","
  PROVE  RInv'
<1>1. At(cur) = e /\ Goto(label, next)
  BY DEF On
<1>2. At(cur) # "0"
  BY <1>1
<1>3. next \in (cur + 1)..End
  BY <1>2
<1>4. next \in 1..End /\ cur \in 1..(next - 1)
  BY <1>3, FartherIs
<1>5. At(cur) = text[cur]
  BY <1>1, CursorIs, InText
<1>. QED BY <1>1, <1>4, <1>5, GotoKeeps

LEMMA ValEndKeeps ==
  ASSUME RInv, NEW next, At(cur) # "0" => next \in (cur + 1)..End,
         \/ /\ pc = "arr_val_end"
            /\ \/ On(",", cur, "arr_val_begin", next)
               \/ On("]", cur, "arr_end", cur + 1)
               \/ Blank("arr_val_end", cur, {",", "]"})
         \/ /\ pc = "obj_val_end"
            /\ \/ On(",", cur, "obj_key_begin", next)
               \/ On("}", cur, "obj_end", cur + 1)
               \/ Blank("obj_val_end", cur, {",", "}"})
         \/ /\ pc = "obj_key_end"
            /\ \/ On(":", cur, "obj_val_begin", next)
               \/ Blank("obj_key_end", cur, {":"})
  PROVE  RInv'
<1>1. pc \in Labels /\ pc \in Inside
  BY DEF Labels, Inside
<1>2. CASE \E expected : Blank(pc, cur, expected)
  <2>1. PICK expected : Blank(pc, cur, expected)
    BY <1>2
  <2>2. cur \in cur..End
    BY HereIs
  <2>. QED BY <1>1, <2>1, <2>2, BlankKeeps
<1>3. CASE \E e \in {"]", "}"}, label \in {"arr_end", "obj_end"} : On(e, cur, label, cur + 1)
  <2>1. PICK e \in {"]", "}"}, label \in {"arr_end", "obj_end"} : On(e, cur, label, cur + 1)
    BY <1>3
  <2>2. label \in Labels /\ label \in Inside /\ label \notin Unchecked
    BY DEF Labels, Inside, Unchecked
  <2>. QED BY <1>1, <2>1, <2>2, PastOne, OnKeeps
<1>4. CASE \E label \in {"arr_val_begin", "obj_key_begin"} : On(",", cur, label, next)
  <2>1. PICK label \in {"arr_val_begin", "obj_key_begin"} : On(",", cur, label, next)
    BY <1>4
  <2>2. label \in Labels /\ label \in Inside /\ label \notin Unchecked
    BY DEF Labels, Inside, Unchecked
  <2>. QED BY <1>1, <2>1, <2>2, OnKeeps
<1>5. CASE pc = "obj_key_end" /\ On(":", cur, "obj_val_begin", next)
  <2>1. "obj_val_begin" \in Labels /\ pc \in Unchecked
    BY <1>5 DEF Labels, Inside, Unchecked
  <2>. QED BY <1>1, <1>5, <2>1, OnKeeps
<1>. QED BY <1>2, <1>3, <1>4, <1>5

LEMMA StartKeeps == ASSUME RInv, Start PROVE RInv'
<1>1. /\ UNCHANGED <<flg, text, cur, vals, alcLen>>
      /\ pc = "start" /\ pc' \in {"head", "done"}
  BY DEF Start, Refuse
<1>2. Cursor'
  <2>1. End' = End
    BY <1>1 DEF End
  <2>. QED BY <1>1, <2>1, CursorIs DEF Cursor, IsText
<1>3. Room'
  BY <1>1 DEF RInv, Room, Early, Inside, Unchecked
<1>4. Copied' = Copied
  BY <1>1 DEF Copied, Insitu, Has
<1>5. CASE \E code \in {"INVALID_PARAMETER", "MEMORY_ALLOCATION"} : Refuse(code, 0)
  <2>1. pc' = "done" /\ held' = {} /\ err'.code \in {"INVALID_PARAMETER", "MEMORY_ALLOCATION"}
    BY <1>5 DEF Refuse
  <2>2. err' # NoError
    BY <2>1 DEF NoError
  <2>3. Held'
    BY <2>1, <2>2 DEF Held, Labels, Inside, Early
  <2>4. CommaBehind'
    BY <2>1 DEF CommaBehind, CommaIsFound
  <2>. QED BY <1>2, <1>3, <2>3, <2>4 DEF RInv
<1>6. CASE held' = Copied /\ pc' = "head" /\ err' = err
  <2>1. err = NoError
    BY <1>1 DEF RInv, Held
  <2>2. Held'
    BY <1>4, <1>6, <2>1 DEF Held, Labels, Inside, Early, NoError
  <2>3. CommaBehind'
    BY <1>6, <2>1 DEF CommaBehind, CommaIsFound, NoError
  <2>. QED BY <1>2, <1>3, <2>2, <2>3 DEF RInv
<1>. QED BY <1>5, <1>6 DEF Start, Copied

LEMMA LeadingKeeps == ASSUME RInv, Leading PROVE RInv'
<1>. DEFINE blank == Space(At(cur)) \/ At(cur) \in {"/*", "//"}
            c == IF ~blank THEN cur
                 ELSE IF Has("ALLOW_COMMENTS") THEN Skip[cur].cur ELSE PastSpaces(cur)
<1>1. /\ UNCHANGED <<flg, text, vals, alcLen>>
      /\ pc = "head" /\ pc' \in {"setup", "done"}
  BY DEF Leading, Refuse
<1>2. Room'
  BY <1>1 DEF RInv, Room, Early, Inside, Unchecked
<1>3. Copied' = Copied
  BY <1>1 DEF Copied, Insitu, Has
<1>4. End' = End
  BY <1>1 DEF End
<1>5. CASE \E code \in {"INVALID_COMMENT", "EMPTY_CONTENT"} : \E d : Refuse(code, d)
  <2>1. /\ pc' = "done" /\ held' = {} /\ cur' = cur
        /\ err'.code \in {"INVALID_COMMENT", "EMPTY_CONTENT"}
    BY <1>5 DEF Refuse
  <2>2. err' # NoError
    BY <2>1 DEF NoError
  <2>3. Held'
    BY <2>1, <2>2 DEF Held, Labels, Inside, Early
  <2>4. CommaBehind'
    BY <2>1 DEF CommaBehind, CommaIsFound
  <2>5. Cursor'
    BY <1>1, <1>4, <2>1, CursorIs DEF Cursor, IsText
  <2>. QED BY <1>2, <2>3, <2>4, <2>5 DEF RInv
<1>6. CASE /\ cur' = c /\ pc' = "setup" /\ held' = held /\ err' = err
           /\ style' # "single" => At(c) \in {"{", "["}
  <2>1. c \in 1..End
    <3>1. Skip[cur].cur \in 1..End /\ PastSpaces(cur) \in 1..End
      <4>1. PICK a, b \in Nat : a = cur /\ b = End /\ a >= 1 /\ a <= b
        BY CursorIs
      <4>2. Skip[cur].cur \in a..b /\ PastSpaces(cur) \in a..b
        BY <4>1, CursorIs, SkipIs, PastSpacesIs
      <4>. QED BY <4>1, <4>2
    <3>2. cur \in 1..End
      BY CursorIs
    <3>. QED BY <3>1, <3>2
  <2>. HIDE DEF c
  <2>2. Cursor'
    <3>1. At(cur)' = At(c)
      BY <1>1, <1>6 DEF At
    <3>. QED BY <1>1, <1>4, <1>6, <2>1, <3>1, CursorIs DEF Cursor, IsText
  <2>3. err = NoError /\ held = Copied
    BY <1>1 DEF RInv, Held
  <2>4. Held'
    BY <1>3, <1>6, <2>3 DEF Held, Labels, Inside, Early, NoError
  <2>5. CommaBehind'
    BY <1>6, <2>3 DEF CommaBehind, CommaIsFound, NoError
  <2>. QED BY <1>2, <2>2, <2>4, <2>5 DEF RInv
<1>. QED BY <1>5, <1>6 DEF Leading

LEMMA ResultKeeps == ASSUME RInv, Result PROVE RInv'
<1>1. /\ UNCHANGED <<flg, text, cur, vals, alcLen, err>>
      /\ pc = "result" /\ pc' = "done"
      /\ held' = IF err = NoError \/ Insitu THEN held ELSE held \ {"text"}
  BY DEF Result
<1>2. Cursor'
  <2>1. End' = End
    BY <1>1 DEF End
  <2>. QED BY <1>1, <2>1, CursorIs DEF Cursor, IsText
<1>3. Room'
  BY <1>1 DEF RInv, Room, Early, Inside, Unchecked
<1>4. Held'
  <2>1. Copied' = Copied
    BY <1>1 DEF Copied, Insitu, Has
  <2>2. held = IF err = NoError THEN {"vals"} \cup Copied ELSE Copied
    BY <1>1 DEF RInv, Held
  <2>3. held' = IF err # NoError THEN {} ELSE {"vals"} \cup Copied
    BY <1>1, <2>2 DEF Copied
  <2>. QED BY <1>1, <2>1, <2>3 DEF Held, Labels, Inside, Early, NoError
<1>5. CommaBehind'
  BY <1>1 DEF RInv, CommaBehind, CommaIsFound
<1>. QED BY <1>2, <1>3, <1>4, <1>5 DEF RInv

LEMMA SingleKeeps ==
  ASSUME RInv, SingleSetup \/ SingleValue \/ SingleDocEnd
  PROVE  RInv'
<1>1. CASE pc = "setup" /\ Fail("MEMORY_ALLOCATION", cur)
  BY <1>1, FailKeeps
<1>2. CASE /\ pc = "setup" /\ held' = held \cup {"vals"} /\ alcLen' = HdrLen + 1
           /\ pc' = "value" /\ UNCHANGED <<flg, text, cur, vals, err>>
  <2>1. Cursor'
    <3>1. End' = End
      BY <1>2 DEF End
    <3>. QED BY <1>2, <3>1, CursorIs DEF Cursor, IsText
  <2>2. Room'
    <3>1. vals = <<>> /\ IsSequence(vals)
      BY <1>2 DEF RInv, Room, Early
    <3>. QED BY <1>2, <3>1, EmptyIs DEF Room, Early, Inside, Unchecked, HdrLen
  <2>3. Held'
    <3>1. Copied' = Copied
      BY <1>2 DEF Copied, Insitu, Has
    <3>2. err = NoError /\ held = Copied
      BY <1>2 DEF RInv, Held
    <3>3. held' = {"vals"} \cup Copied
      BY <1>2, <3>2
    <3>. QED BY <1>2, <3>1, <3>2, <3>3 DEF Held, Labels, Inside, NoError
  <2>4. CommaBehind'
    <3>1. err'.code # "JSON_STRUCTURE"
      BY <1>2 DEF RInv, Held, NoError
    <3>. QED BY <1>2, <3>1 DEF CommaBehind, CommaIsFound
  <2>. QED BY <2>1, <2>2, <2>3, <2>4 DEF RInv
<1>3. CASE SingleValue
  <2>1. pc = "value" /\ pc \in Labels /\ pc \notin Inside /\ pc \in Unchecked
    BY <1>3 DEF SingleValue, At_, Labels, Inside, Unchecked
  <2>2. CASE ReadScalar(cur, FALSE, "doc_end")
    BY <2>1, <2>2, ScalarKeeps
  <2>3. CASE Misreads(cur, FALSE)
    BY <2>1, <2>3, MisreadsKeeps
  <2>4. CASE Fail("UNEXPECTED_CHARACTER", cur)
    BY <2>1, <2>4, FailKeeps
  <2>. QED BY <1>3, <2>2, <2>3, <2>4 DEF SingleValue
<1>4. CASE SingleDocEnd
  BY <1>4, DocEndKeeps DEF SingleDocEnd, At_
<1>. QED BY <1>1, <1>2, <1>3, <1>4 DEF SingleSetup, At_

LEMMA MinifyKeeps ==
  ASSUME RInv,
         \/ MinifySetup \/ MinifyArrBegin \/ MinifyArrVal \/ MinifyArrValEnd
         \/ MinifyArrEnd \/ MinifyObjBegin \/ MinifyObjKey \/ MinifyObjKeyEnd
         \/ MinifyObjVal \/ MinifyObjValEnd \/ MinifyObjEnd \/ MinifyDocEnd
  PROVE  RInv'
<1>0. cur \in 1..End /\ cur \in cur..End
  BY CursorIs
<1>1. CASE MinifySetup
  <2>1. pc = "setup" /\ style # "single" /\ Setup(6, FALSE)
    BY <1>1 DEF MinifySetup, At_, MinifyRatio
  <2>. QED BY <2>1, SetupKeeps
<1>2. CASE MinifyArrBegin \/ MinifyObjBegin
  BY <1>0, <1>2, BeginKeeps DEF MinifyArrBegin, MinifyObjBegin, At_
<1>3. CASE MinifyArrVal
  BY <1>0, <1>3, ArrValKeeps DEF MinifyArrVal, At_
<1>4. CASE MinifyArrValEnd \/ MinifyObjValEnd \/ MinifyObjKeyEnd
  <2>1. At(cur) # "0" => cur + 1 \in (cur + 1)..End
    BY PastOne
  <2>. QED BY <1>4, <2>1, ValEndKeeps DEF MinifyArrValEnd, MinifyObjValEnd, MinifyObjKeyEnd, At_
<1>5. CASE MinifyArrEnd \/ MinifyObjEnd
  BY <1>0, <1>5, FinishKeeps DEF MinifyArrEnd, MinifyObjEnd, At_
<1>6. CASE MinifyObjKey
  BY <1>0, <1>6, ObjKeyKeeps DEF MinifyObjKey, At_
<1>7. CASE MinifyObjVal
  BY <1>7, ObjValKeeps DEF MinifyObjVal, At_
<1>8. CASE MinifyDocEnd
  BY <1>8, DocEndKeeps DEF MinifyDocEnd, At_
<1>. QED BY <1>1, <1>2, <1>3, <1>4, <1>5, <1>6, <1>7, <1>8

LEMMA PrettyKeeps ==
  ASSUME RInv,
         \/ PrettySetup \/ PrettyArrBegin \/ PrettyArrVal \/ PrettyArrValEnd
         \/ PrettyArrEnd \/ PrettyObjBegin \/ PrettyObjKey \/ PrettyObjKeyEnd
         \/ PrettyObjVal \/ PrettyObjValEnd \/ PrettyObjEnd \/ PrettyDocEnd
  PROVE  RInv'
<1>0. /\ PastLine(cur) \in cur..End /\ PastPairs(cur) \in cur..End
      /\ PastLine(cur) \in 1..End
  <2>1. PastLine(cur) \in cur..End /\ PastPairs(cur) \in cur..End
    BY CursorIs, PastLineIs, PastPairsIs
  <2>. QED BY <2>1, AheadIs
<1>1. CASE PrettySetup
  <2>1. pc = "setup" /\ style # "single" /\ Setup(16, TRUE)
    BY <1>1 DEF PrettySetup, At_, PrettyRatio
  <2>. QED BY <2>1, SetupKeeps
<1>2. CASE PrettyArrBegin \/ PrettyObjBegin
  BY <1>0, <1>2, BeginKeeps DEF PrettyArrBegin, PrettyObjBegin, At_
<1>3. CASE PrettyArrVal
  BY <1>0, <1>3, ArrValKeeps DEF PrettyArrVal, At_
<1>4. CASE PrettyArrValEnd \/ PrettyObjValEnd
  <2>1. At(cur) # "0" => PastLine(cur + 1) \in (cur + 1)..End
    BY PastOne
  <2>. QED BY <1>4, <2>1, ValEndKeeps DEF PrettyArrValEnd, PrettyObjValEnd, At_
<1>5. CASE PrettyArrEnd \/ PrettyObjEnd
  BY <1>0, <1>5, FinishKeeps DEF PrettyArrEnd, PrettyObjEnd, At_
<1>6. CASE PrettyObjKey
  BY <1>0, <1>6, ObjKeyKeeps DEF PrettyObjKey, At_
<1>7. CASE PrettyObjVal
  BY <1>7, ObjValKeeps DEF PrettyObjVal, At_
<1>8. CASE PrettyDocEnd
  BY <1>8, DocEndKeeps DEF PrettyDocEnd, At_
<1>9. CASE PrettyObjKeyEnd
  <2>. DEFINE next == IF At(cur + 1) = " " THEN cur + 2 ELSE cur + 1
  <2>1. At(cur) # "0" => next \in (cur + 1)..End
    BY PastOne
  <2>2. /\ pc = "obj_key_end"
        /\ \/ On(":", cur, "obj_val_begin", next)
           \/ Blank("obj_key_end", cur, {":"})
    BY <1>9 DEF PrettyObjKeyEnd, At_
  <2>. HIDE DEF next
  <2>. QED BY <2>1, <2>2, ValEndKeeps
<1>. QED BY <1>1, <1>2, <1>3, <1>4, <1>5, <1>6, <1>7, <1>8, <1>9

LEMMA ReadKeeps == ASSUME RInv, Read PROVE RInv'
BY StartKeeps, LeadingKeeps, ResultKeeps, SingleKeeps, MinifyKeeps, PrettyKeeps
   DEF Read

LEMMA ReadStays == ASSUME RInv, UNCHANGED readVars PROVE RInv'
<1>1. End' = End /\ At(cur)' = At(cur) /\ Copied' = Copied
  BY DEF readVars, End, At, Copied, Insitu, Has
<1>2. Cursor' /\ Room'
  BY <1>1 DEF readVars, RInv, Cursor, Room, IsText
<1>3. Held'
  BY <1>1 DEF readVars, RInv, Held, NoError
<1>4. CommaBehind'
  BY DEF readVars, RInv, CommaBehind, CommaIsFound
<1>. QED BY <1>2, <1>3, <1>4 DEF RInv

\* A read begins: of a text the caller has, or of one that was written.
LEMMA ReadBegins ==
  ASSUME IsText, cur = 1, pc = "start", vals = <<>>, alcLen = 0, held = {},
         err = NoError
  PROVE  RInv
<1>1. Cursor
  BY EndIs DEF Cursor
<1>2. Room
  BY EmptyIs DEF Room, Early, Inside, Unchecked
<1>3. Held
  BY DEF Held, Labels, Inside, Early
<1>4. CommaBehind
  BY DEF CommaBehind, CommaIsFound, NoError
<1>. QED BY <1>1, <1>2, <1>3, <1>4 DEF RInv

-----------------------------------------------------------------------------
(* The writers.                                                            *)

Before == {"off", "start", "single", "doc_begin"}
Within == {"val_begin", "ctn_end"}

WTypes ==
  /\ strLen \in Nat /\ est \in Nat
  /\ IsSequence(out) /\ IsSequence(ctx)
  /\ wcur \in Int /\ wend \in Int /\ top \in Int /\ level \in Int

NotYet == ctx = <<>> /\ out = <<>> /\ wcur = 0 /\ top = 0 /\ level = 0

\* Between two values the text lies below the stack, and a container is as deep
\* as the stack is high.
Open ==
  /\ wend >= 64
  /\ Len(out) >= IF Pretty THEN 2 ELSE 1
  /\ Pretty => level = Len(ctx) + 1
  /\ wcur <= CtxPos /\ top <= CtxPos

\* With the last bracket there is room for the zero behind the text: in the
\* place of the last comma, when the text is minified.
Closed ==
  /\ wend >= 64
  /\ Len(out) >= 1 /\ ctx = <<>>
  /\ wcur <= wend /\ top <= wend
  /\ Pretty => wcur + 1 <= wend

WInv ==
  /\ WTypes
  /\ wpc \in Before => NotYet
  /\ wpc \in Before \ {"doc_begin"} => wheld = FALSE
  /\ wpc = "doc_begin" => wend >= 64
  /\ wpc \in Within => Open
  /\ wpc = "ctn_end" => wcur + 1 <= CtxPos
  /\ wpc = "doc_end" => Closed
  /\ TextBelowStack

LEMMA IntMinus == \A m, n \in Int : m - n \in Int
OBVIOUS

LEMMA SizesAre ==
  /\ CtxSize \in {8, 16} /\ Ratio \in {18, 32} /\ Spaces \in {2, 4}
  /\ \A n \in Nat : AlignUp(n) \in Nat /\ AlignUp(n) >= n
<1>1. CtxSize \in {8, 16} /\ Ratio \in {18, 32} /\ Spaces \in {2, 4}
  BY DEF CtxSize, Ratio, Spaces
<1>2. ASSUME NEW n \in Nat PROVE AlignUp(n) \in Nat /\ AlignUp(n) >= n
  <2>1. CASE CtxSize = 8
    BY <2>1 DEF AlignUp
  <2>2. CASE CtxSize = 16
    BY <2>2 DEF AlignUp
  <2>. QED BY <1>1, <2>1, <2>2
<1>. QED BY <1>1, <1>2

Stacked == CtxSize * Len(ctx)

LEMMA StackSize ==
  ASSUME NEW size \in {8, 16}, NEW c, IsSequence(c)
  PROVE  size * Len(c) \in Nat
<1>1. PICK n \in Nat : n = Len(c)
  BY DEF IsSequence
<1>2. CASE size = 8
  BY <1>1, <1>2
<1>3. CASE size = 16
  BY <1>1, <1>3
<1>. QED BY <1>2, <1>3

LEMMA StackIs ==
  ASSUME IsSequence(ctx), wend \in Int
  PROVE  /\ Stacked \in Nat /\ CtxPos = wend - Stacked /\ CtxPos \in Int
         /\ ctx = <<>> => Stacked = 0
<1>1. PICK n \in Nat : n = Len(ctx)
  BY DEF IsSequence
<1>2. CASE CtxSize = 8
  BY <1>1, <1>2, NoneIsEmpty DEF Stacked, CtxPos
<1>3. CASE CtxSize = 16
  BY <1>1, <1>3, NoneIsEmpty DEF Stacked, CtxPos
<1>. QED BY <1>2, <1>3, SizesAre

\* incr_len: behind it there is the room that was asked for.
LEMMA GrowIs ==
  ASSUME WInv, wend >= 64, NEW at \in Int, at <= CtxPos, NEW ext \in Nat
  PROVE  /\ Grow(at, ext) \in Int /\ Grow(at, ext) >= wend
         /\ at + ext <= Grow(at, ext) - Stacked
         /\ \/ at + ext < Grow(at, ext) - Stacked
            \/ CtxPos + 32 <= Grow(at, ext) - Stacked
<1>1. PICK w, k, p \in Int : w = wend /\ k = Stacked /\ p = CtxPos /\ p = w - k /\ w >= 64
  BY StackIs DEF WInv, WTypes
<1>2. PICK g \in Nat : g = Larger(w \div 2, ext) /\ g >= 32 /\ g >= ext
  <2>1. w \div 2 \in Nat /\ w \div 2 >= 32
    BY <1>1
  <2>. QED BY <2>1 DEF Larger
<1>3. PICK a \in Nat : a = AlignUp(g) /\ a >= g
  BY <1>2, SizesAre
<1>4. Grow(at, ext) = IF at + ext >= p THEN w + a ELSE w
  BY <1>1, <1>2, <1>3 DEF Grow, Short
<1>5. CASE at + ext >= p
  BY <1>1, <1>2, <1>3, <1>4, <1>5
<1>6. CASE ~(at + ext >= p)
  BY <1>1, <1>2, <1>3, <1>4, <1>6
<1>. QED BY <1>5, <1>6

LEMMA IndentIs ==
  ASSUME NEW n \in Nat
  PROVE  /\ n * Spaces \in Nat /\ n * Spaces <= 4 * n
         /\ IndentReach(n) \in Nat /\ IndentReach(n) <= 4 * n
         /\ IsSequence(Indent(n)) /\ Len(Indent(n)) = n * Spaces
<1>1. /\ n * Spaces \in Nat /\ n * Spaces <= 4 * n
      /\ IndentReach(n) \in Nat /\ IndentReach(n) <= 4 * n
  <2>1. CASE Spaces = 2
    BY <2>1 DEF IndentReach
  <2>2. CASE Spaces = 4
    BY <2>2 DEF IndentReach
  <2>. QED BY <2>1, <2>2, SizesAre
<1>2. PICK k \in Nat : k = n * Spaces
  BY <1>1
<1>3. Indent(n) = [i \in 1..k |-> " "]
  BY <1>2 DEF Indent
<1>4. Indent(n) \in Seq({" "}) /\ Len(Indent(n)) = k
  <2>1. Indent(n) \in [1..k -> {" "}]
    BY <1>3
  <2>2. Indent(n) \in Seq({" "})
    BY <2>1, SeqDef
  <2>3. DOMAIN Indent(n) = 1..k
    BY <2>1
  <2>4. PICK l \in Nat : l = Len(Indent(n)) /\ 1..l = 1..k
    BY <2>2, <2>3, LenProperties
  <2>5. l = k
    BY <2>4
  <2>. QED BY <2>2, <2>4, <2>5
<1>. QED BY <1>1, <1>2, <1>4, IsOfSeq

\* What is written behind `kept', and how far it reaches.
LEMMA PutIs ==
  ASSUME NEW kept, IsSequence(kept), NEW at \in Int, NEW n \in Nat,
         NEW es, IsSequence(es), NEW bytes \in Nat, NEW reach \in Nat,
         Put(kept, at, n, es, bytes, reach)
  PROVE  /\ IsSequence(out') /\ Len(out') >= Len(kept) + Len(es)
         /\ wcur' \in Int /\ wcur' <= at + 4 * n + bytes
         /\ top' \in Int /\ top' <= at + 4 * n + reach
<1>1. IsSequence(kept \o Indent(n)) /\ Len(kept \o Indent(n)) = Len(kept) + n * Spaces
  <2>1. IsSequence(Indent(n)) /\ Len(Indent(n)) = n * Spaces
    BY IndentIs
  <2>. QED BY <2>1, JoinedIs
<1>2. IsSequence(out') /\ Len(out') = (Len(kept) + n * Spaces) + Len(es)
  BY <1>1, JoinedIs DEF Put
<1>3. PICK s, r \in Nat : s = n * Spaces /\ r = IndentReach(n) /\ s <= 4 * n /\ r <= 4 * n
  BY IndentIs
<1>4. Len(kept) \in Nat /\ Len(es) \in Nat
  BY DEF IsSequence
<1>5. wcur' = at + s + bytes /\ top' = at + Larger(r, s + reach)
  BY <1>3 DEF Put
<1>6. PICK l \in Nat : l = Larger(r, s + reach) /\ l <= 4 * n + reach
  BY <1>3 DEF Larger
<1>7. wcur' = at + s + bytes /\ top' = at + l
  BY <1>5, <1>6
<1>8. /\ wcur' \in Int /\ wcur' <= at + 4 * n + bytes
      /\ top' \in Int /\ top' <= at + 4 * n + reach
  BY <1>3, <1>6, <1>7
<1>9. Len(out') >= Len(kept) + Len(es)
  BY <1>2, <1>3, <1>4
<1>. QED BY <1>2, <1>8, <1>9

LEMMA WFailKeeps == ASSUME WInv, NEW code, WFail(code) PROVE WInv'
<1>1. WTypes'
  BY EmptyIs DEF WFail, fixed, WInv, WTypes
<1>2. wpc' = "done" /\ wheld' = FALSE
  BY DEF WFail
<1>. QED BY <1>1, <1>2 DEF WInv, Before, Within, TextBelowStack

\* Where the next label is one between two values, or the end of a container.
LEMMA WithinIs ==
  ASSUME WInv, fixed' = fixed, wpc' \in Within,
         IsSequence(out'), Len(out') >= 2 \/ (~Pretty /\ Len(out') >= 1), IsSequence(ctx'),
         wcur' \in Int, wend' \in Int, top' \in Int, level' \in Int, wend' >= 64,
         Pretty => level' = Len(ctx') + 1,
         top' <= wend' - Stacked',
         wcur' + 1 <= wend' - Stacked' \/ (wpc' = "val_begin" /\ wcur' <= wend' - Stacked')
  PROVE  WInv'
<1>1. WTypes'
  BY DEF WInv, WTypes, fixed
<1>2. CtxPos' = wend' - Stacked'
  BY DEF CtxPos, Stacked
<1>3. Stacked' \in Int
  <2>1. CtxSize' \in {8, 16} /\ IsSequence(ctx')
    BY DEF CtxSize
  <2>. QED BY <2>1, StackSize DEF Stacked
<1>4. Pretty' = Pretty
  BY DEF Pretty, fixed
<1>i. CtxPos' \in Int
  BY <1>2, <1>3, IntMinus
<1>p. PICK p, c \in Int : p = CtxPos' /\ c = wcur' /\ p = wend' - Stacked'
  BY <1>2, <1>i, Zenon
<1>a. wcur' <= CtxPos' /\ top' <= CtxPos' /\ (wpc' = "ctn_end" => wcur' + 1 <= CtxPos')
  <2>1. CASE c + 1 <= p
    <3>1. c <= p
      BY <2>1
    <3>. QED BY <1>p, <2>1, <3>1
  <2>2. CASE wpc' = "val_begin" /\ c <= p
    BY <1>p, <2>2
  <2>. QED BY <1>p, <2>1, <2>2
<1>b. Len(out') >= IF Pretty THEN 2 ELSE 1
  BY DEF IsSequence
<1>5. Open'
  BY <1>a, <1>b, <1>4 DEF Open
<1>6. TextBelowStack'
  BY <1>a DEF TextBelowStack, Within
<1>. QED BY <1>1, <1>a, <1>5, <1>6 DEF WInv, Before, Within

LEMMA StackedNext ==
  ASSUME WInv, fixed' = fixed
  PROVE  /\ Stacked \in Nat /\ CtxPos = wend - Stacked /\ CtxPos \in Int
         /\ ctx' = ctx => Stacked' = Stacked
         /\ \A e : ctx' = <<e>> \o ctx => IsSequence(ctx') /\ Stacked' = Stacked + CtxSize
         /\ ctx # <<>> /\ ctx' = Tail(ctx) =>
              IsSequence(ctx') /\ Stacked' = Stacked - CtxSize /\ Len(ctx) >= 1
<1>1. CtxSize' = CtxSize
  BY DEF fixed, CtxSize
<1>2. IsSequence(ctx) /\ wend \in Int
  BY DEF WInv, WTypes
<1>3. PICK n \in Nat : n = Len(ctx)
  BY <1>2 DEF IsSequence
<1>4. CtxSize * (n + 1) = CtxSize * n + CtxSize /\ CtxSize * (n - 1) = CtxSize * n - CtxSize
  BY SizesAre
<1>5. ASSUME NEW e, ctx' = <<e>> \o ctx
      PROVE  IsSequence(ctx') /\ Stacked' = Stacked + CtxSize
  <2>1. IsSequence(ctx') /\ Len(ctx') = n + 1
    BY <1>2, <1>3, <1>5, PushedIs
  <2>. QED BY <1>1, <1>3, <1>4, <2>1 DEF Stacked
<1>6. ASSUME ctx # <<>>, ctx' = Tail(ctx)
      PROVE  IsSequence(ctx') /\ Stacked' = Stacked - CtxSize /\ Len(ctx) >= 1
  <2>1. IsSequence(ctx') /\ Len(ctx') = n - 1 /\ Len(ctx) >= 1
    BY <1>2, <1>3, <1>6, TailIs, NoneIsEmpty
  <2>. QED BY <1>1, <1>3, <1>4, <2>1 DEF Stacked
<1>7. ctx' = ctx => Stacked' = Stacked
  BY <1>1 DEF Stacked
<1>. QED BY <1>2, <1>5, <1>6, <1>7, StackIs

LEMMA IndentHereIs ==
  ASSUME WInv, wpc \in Within
  PROVE  IndentHere \in Nat /\ (~Pretty => IndentHere = 0)
<1>1. Pretty => level = Len(ctx) + 1 /\ Len(ctx) \in Nat
  BY DEF WInv, WTypes, Open, IsSequence
<1>2. Pretty => level \in Nat
  BY <1>1
<1>. QED BY <1>2 DEF IndentHere

\* Each value is given more room than it takes with what follows it.
LEMMA WidthIs ==
  ASSUME strLen \in Nat, NEW v, Written(v) # <<>>
  PROVE  /\ IsSequence(Written(v)) /\ Len(Written(v)) = 1
         /\ Width(v) \in Nat /\ Need(v) \in Nat /\ Need(v) >= 8
         /\ Width(v) + (IF Pretty THEN 3 ELSE 2) <= Need(v)
<1>1. CASE v.t = "STR"
  BY <1>1, OneIs DEF Written, Width, Need
<1>2. CASE v.t = "USTR"
  BY <1>2, OneIs DEF Written, Width, Need
<1>3. CASE v.t = "NUM"
  BY <1>3, OneIs DEF Written, Width, Need, NumWidth
<1>4. CASE v.t = "RAW"
  BY <1>4, OneIs DEF Written, Width, Need, NumWidth
<1>5. CASE v.t = "INF"
  BY <1>5, OneIs DEF Written, Width, Need, NumWidth
<1>6. CASE v.t = "TRUE"
  BY <1>6, OneIs DEF Written, Width, Need
<1>7. CASE v.t = "FALSE"
  BY <1>7, OneIs DEF Written, Width, Need
<1>8. CASE v.t = "NULL"
  BY <1>8, OneIs DEF Written, Width, Need
<1>. QED BY <1>1, <1>2, <1>3, <1>4, <1>5, <1>6, <1>7, <1>8 DEF Written

\* What the three kinds of value have in common: behind a check of the room
\* they write what fits there.
LEMMA ValueFits ==
  ASSUME WInv, wpc \in Within, NEW ext \in Nat, NEW n \in Nat, NEW bytes \in Nat,
         NEW es, IsSequence(es), Len(es) >= 2, NEW reach \in Nat,
         4 * n + bytes + 1 <= ext, 4 * n + reach <= ext,
         Put(out, wcur, n, es, bytes, reach), wend' = Grow(wcur, ext),
         wpc' \in Within, UNCHANGED <<fixed, ctx, level>>
  PROVE  WInv'
<1>1. /\ IsSequence(out) /\ IsSequence(ctx) /\ wcur \in Int /\ wend \in Int /\ level \in Int
      /\ wend >= 64 /\ wcur <= CtxPos /\ (Pretty => level = Len(ctx) + 1)
  BY DEF WInv, WTypes, Open
<1>2. /\ IsSequence(out') /\ Len(out') >= Len(out) + Len(es)
      /\ wcur' \in Int /\ wcur' <= wcur + 4 * n + bytes
      /\ top' \in Int /\ top' <= wcur + 4 * n + reach
  BY <1>1, PutIs
<1>3. /\ wend' \in Int /\ wend' >= wend /\ wcur + ext <= wend' - Stacked
  BY <1>1, GrowIs
<1>4. Stacked \in Nat /\ Stacked' = Stacked
  BY StackedNext
<1>5. /\ top' <= wend' - Stacked' /\ wcur' + 1 <= wend' - Stacked' /\ wend' >= 64
  <2>1. PICK c, c1, t1, w, w1, s \in Int :
           /\ c = wcur /\ c1 = wcur' /\ t1 = top' /\ w = wend /\ w1 = wend' /\ s = Stacked
    BY <1>1, <1>2, <1>3, <1>4
  <2>2. /\ c1 <= c + 4 * n + bytes /\ t1 <= c + 4 * n + reach
        /\ c + ext <= w1 - s /\ w1 >= w /\ w >= 64
    BY <1>1, <1>2, <1>3, <2>1
  <2>3. t1 <= w1 - s /\ c1 + 1 <= w1 - s /\ w1 >= 64
    BY <2>2
  <2>. QED BY <1>4, <2>1, <2>3
<1>6. Len(out') >= 2
  BY <1>1, <1>2 DEF IsSequence
<1>. QED BY <1>1, <1>2, <1>3, <1>5, <1>6, WithinIs

LEMMA EmptyNeeds ==
  ASSUME NEW v, IsCtn(v), v.len = 0
  PROVE  Need(v) = 16
<1>1. CASE v.t = "ARR"
  BY <1>1 DEF Need
<1>2. CASE v.t = "OBJ"
  BY <1>2 DEF Need
<1>. QED BY <1>1, <1>2 DEF IsCtn

LEMMA PushNeeds ==
  ASSUME NEW v, IsCtn(v), v.len > 0
  PROVE  Need(v) = IF Pretty THEN 32 ELSE 16
<1>1. CASE v.t = "ARR"
  BY <1>1 DEF Need
<1>2. CASE v.t = "OBJ"
  BY <1>2 DEF Need
<1>. QED BY <1>1, <1>2 DEF IsCtn

LEMMA BracketsAre ==
  ASSUME NEW b
  PROVE  /\ IsSequence(Brackets(b)) /\ Len(Brackets(b)) = 2
         /\ IsSequence(<<Brackets(b)[1]>>) /\ Len(<<Brackets(b)[1]>>) = 1
         /\ IsSequence(<<Brackets(b)[2]>>) /\ Len(<<Brackets(b)[2]>>) = 1
<1>1. Brackets(b) = <<"{", "}">> \/ Brackets(b) = <<"[", "]">>
  BY DEF Brackets
<1>2. IsSequence(Brackets(b)) /\ Len(Brackets(b)) = 2
  BY <1>1, TwoIs
<1>3. \A e : IsSequence(<<e>>) /\ Len(<<e>>) = 1
  BY OneIs
<1>. QED BY <1>2, <1>3

\* An element that is written only in a pretty text, alone and behind another.
LEMMA LastIs ==
  ASSUME NEW d, NEW e, NEW s, s = IF Pretty THEN <<e>> ELSE <<>>
  PROVE  /\ IsSequence(s) /\ Len(s) = IF Pretty THEN 1 ELSE 0
         /\ IsSequence(<<d>> \o s) /\ Len(<<d>> \o s) = IF Pretty THEN 2 ELSE 1
<1>1. CASE Pretty
  <2>1. s = <<e>>
    BY <1>1
  <2>2. IsSequence(s) /\ Len(s) = 1
    BY <2>1, OneIs
  <2>3. IsSequence(<<d>> \o s) /\ Len(<<d>> \o s) = Len(s) + 1
    BY <2>2, PushedIs
  <2>. QED BY <1>1, <2>2, <2>3
<1>2. CASE ~Pretty
  <2>1. s = <<>>
    BY <1>2
  <2>2. IsSequence(s) /\ Len(s) = 0
    BY <2>1, EmptyIs
  <2>3. IsSequence(<<d>> \o s) /\ Len(<<d>> \o s) = Len(s) + 1
    BY <2>2, PushedIs
  <2>. QED BY <1>2, <2>2, <2>3
<1>. QED BY <1>1, <1>2

LEMMA PutScalarKeeps ==
  ASSUME WInv, wpc \in Within, PutScalar
  PROVE  WInv'
<1>. DEFINE v    == Node(val)
            n    == IF v.t = "RAW" THEN 0 ELSE IndentHere
            sep  == IF IsKey THEN ":" ELSE ","
            last == IF ~Pretty THEN <<>> ELSE IF IsKey THEN <<" ">> ELSE <<"\n">>
            tail == <<sep>> \o last
            bytes == Width(v) + Len(tail)
            ext == Need(v) + 4 * n
<1>1. CASE \E code : WFail(code)
  BY <1>1, WFailKeeps
<1>2. CASE /\ Written(v) # <<>>
           /\ Put(out, wcur, n, Written(v) \o tail, bytes, Larger(bytes, 8))
           /\ wend' = Grow(wcur, ext)
           /\ ValEnd(v)
           /\ UNCHANGED <<fixed, ctx, level>>
  <2>1. strLen \in Nat
    BY DEF WInv, WTypes
  <2>2. IsSequence(tail) /\ Len(tail) = IF Pretty THEN 2 ELSE 1
    <3>1. PICK e : last = IF Pretty THEN <<e>> ELSE <<>>
      OBVIOUS
    <3>. HIDE DEF last, sep
    <3>. QED BY <3>1, LastIs
  <2>3. PICK i \in Nat : i = n
    BY IndentHereIs
  <2>8. wpc' \in Within
    BY <1>2 DEF ValEnd, Within
  <2>. HIDE DEF tail, v, n
  <2>4. /\ IsSequence(Written(v)) /\ Len(Written(v)) = 1
        /\ Width(v) \in Nat /\ Need(v) \in Nat /\ Need(v) >= 8
        /\ Width(v) + (IF Pretty THEN 3 ELSE 2) <= Need(v)
    BY <1>2, <2>1, WidthIs
  <2>5. PICK k, w, d \in Nat : /\ k = Len(tail) /\ w = Width(v) /\ d = Need(v)
                               /\ k >= 1 /\ d >= 8 /\ w + k + 1 <= d
    BY <2>2, <2>4
  <2>6. IsSequence(Written(v) \o tail) /\ Len(Written(v) \o tail) = 1 + k
    BY <2>2, <2>4, <2>5, JoinedIs
  <2>7. bytes = w + k /\ ext = d + 4 * i
    BY <2>3, <2>5
  <2>. HIDE DEF bytes, ext
  <2>9. bytes \in Nat /\ ext \in Nat /\ 4 * i + bytes + 1 <= ext
    <3>1. w + k + 1 <= d
      BY <2>5
    <3>2. w + k \in Nat /\ d + 4 * i \in Nat /\ 4 * i + (w + k) + 1 <= d + 4 * i
      BY <3>1
    <3>. QED BY <2>7, <3>2
  <2>10. Larger(bytes, 8) \in Nat /\ 4 * i + Larger(bytes, 8) <= ext
    <3>1. Larger(w + k, 8) \in Nat /\ 4 * i + Larger(w + k, 8) <= d + 4 * i
      BY <2>5 DEF Larger
    <3>. QED BY <2>7, <3>1
  <2>11. Len(Written(v) \o tail) >= 2
    BY <2>5, <2>6
  <2>12. Put(out, wcur, i, Written(v) \o tail, bytes, Larger(bytes, 8))
    BY <1>2, <2>3
  <2>. QED BY <1>2, <2>6, <2>8, <2>9, <2>10, <2>11, <2>12, ValueFits
<1>3. PutScalar =>
        \/ \E code : WFail(code)
        \/ /\ Written(v) # <<>>
           /\ Put(out, wcur, n, Written(v) \o tail, bytes, Larger(bytes, 8))
           /\ wend' = Grow(wcur, ext)
           /\ ValEnd(v)
           /\ UNCHANGED <<fixed, ctx, level>>
  BY DEF PutScalar
<1>. QED BY <1>1, <1>2, <1>3

LEMMA PutEmptyKeeps ==
  ASSUME WInv, wpc \in Within, PutEmpty
  PROVE  WInv'
<1>. DEFINE v    == Node(val)
            n    == IndentHere
            pair == Brackets(v.t = "OBJ")
            last == IF Pretty THEN <<"\n">> ELSE <<>>
            es   == pair \o <<",">> \o last
            ext == Need(v) + 4 * n
<1>1. CASE \E code : WFail(code)
  BY <1>1, WFailKeeps
<1>2. CASE /\ IsCtn(v) /\ v.len = 0
           /\ Put(out, wcur, n, es, Len(es), Len(es))
           /\ wend' = Grow(wcur, ext)
           /\ ValEnd(v)
           /\ UNCHANGED <<fixed, ctx, level>>
  <2>1. PICK k \in 3..4 : IsSequence(es) /\ Len(es) = k
    <3>1. IsSequence(last) /\ Len(last) \in 0..1
      BY LastIs
    <3>2. IsSequence(<<",">>) /\ Len(<<",">>) = 1
      BY OneIs
    <3>3. IsSequence(pair) /\ Len(pair) = 2
      BY BracketsAre
    <3>. HIDE DEF last, pair
    <3>4. IsSequence(pair \o <<",">>) /\ Len(pair \o <<",">>) = 2 + 1
      BY <3>2, <3>3, JoinedIs
    <3>5. IsSequence(es) /\ Len(es) = (2 + 1) + Len(last)
      BY <3>1, <3>4, JoinedIs
    <3>6. PICK l \in 0..1 : l = Len(last)
      BY <3>1
    <3>7. (2 + 1) + l \in 3..4
      OBVIOUS
    <3>. HIDE DEF es
    <3>. QED BY <3>5, <3>6, <3>7
  <2>2. PICK i \in Nat : i = n
    BY IndentHereIs
  <2>3. Need(v) = 16
    BY <1>2, EmptyNeeds
  <2>4. wpc' \in Within
    BY <1>2 DEF ValEnd, Within
  <2>. HIDE DEF es, n, v
  <2>5. PICK x \in Nat : x = ext /\ x = 16 + 4 * i
    BY <2>2, <2>3
  <2>6. /\ k \in Nat /\ k >= 2 /\ 4 * i + k + 1 <= x /\ 4 * i + k <= x
    BY <2>5
  <2>. HIDE DEF ext
  <2>7. Put(out, wcur, i, es, k, k) /\ wend' = Grow(wcur, x) /\ Len(es) >= 2
    BY <1>2, <2>1, <2>2, <2>5
  <2>. QED BY <1>2, <2>1, <2>4, <2>5, <2>6, <2>7, ValueFits
<1>3. PutEmpty =>
        \/ \E code : WFail(code)
        \/ /\ IsCtn(v) /\ v.len = 0
           /\ Put(out, wcur, n, es, Len(es), Len(es))
           /\ wend' = Grow(wcur, ext)
           /\ ValEnd(v)
           /\ UNCHANGED <<fixed, ctx, level>>
  BY DEF PutEmpty
<1>. QED BY <1>1, <1>2, <1>3

LEMMA PushKeeps ==
  ASSUME WInv, wpc \in Within, Push
  PROVE  WInv'
<1>. DEFINE v    == Node(val)
            n    == IndentHere
            br   == Brackets(v.t = "OBJ")[1]
            last == IF Pretty THEN <<"\n">> ELSE <<>>
            es   == <<br>> \o last
            ext == Need(v) + 4 * n
<1>1. CASE \E code : WFail(code)
  BY <1>1, WFailKeeps
<1>2. CASE /\ IsCtn(v) /\ v.len > 0
           /\ \E e : ctx' = <<e>> \o ctx
           /\ Put(out, wcur, n, es, Len(es), Len(es))
           /\ wend' = Grow(wcur, ext)
           /\ level' = level + 1 /\ wpc' = "val_begin"
           /\ UNCHANGED fixed
  <2>0. /\ IsSequence(out) /\ IsSequence(ctx) /\ wcur \in Int /\ wend \in Int /\ level \in Int
        /\ wend >= 64 /\ wcur <= CtxPos /\ (Pretty => level = Len(ctx) + 1)
        /\ Len(out) >= 1
    <3>1. Len(out) \in Nat /\ Len(out) >= IF Pretty THEN 2 ELSE 1
      BY DEF WInv, WTypes, Open, IsSequence
    <3>2. Len(out) >= 1
      BY <3>1
    <3>. QED BY <3>2 DEF WInv, WTypes, Open
  <2>1. IsSequence(es) /\ Len(es) = IF Pretty THEN 2 ELSE 1
    <3>. HIDE DEF br
    <3>. QED BY LastIs
  <2>2. PICK i \in Nat : i = n /\ (~Pretty => i = 0)
    BY IndentHereIs
  <2>3. Need(v) = IF Pretty THEN 32 ELSE 16
    BY <1>2, PushNeeds
  <2>4. wpc' \in Within /\ level' \in Int
    BY <1>2, <2>0 DEF Within
  <2>. HIDE DEF es, n, v
  <2>5. PICK d, k \in Nat : /\ d = Need(v) /\ k = Len(es)
                            /\ \/ d = 32 /\ k = 2
                               \/ d = 16 /\ k = 1 /\ i = 0
    BY <2>1, <2>2, <2>3
  <2>6. ext = d + 4 * i /\ ext \in Nat
    BY <2>2, <2>5
  <2>. HIDE DEF ext
  <2>7. Put(out, wcur, i, es, k, k) /\ wend' = Grow(wcur, d + 4 * i) /\ d + 4 * i \in Nat
    BY <1>2, <2>2, <2>5, <2>6
  <2>8. /\ IsSequence(out') /\ Len(out') >= Len(out) + Len(es)
        /\ wcur' \in Int /\ wcur' <= wcur + 4 * i + k
        /\ top' \in Int /\ top' <= wcur + 4 * i + k
    BY <2>0, <2>1, <2>5, <2>7, PutIs
  <2>9. /\ wend' \in Int /\ wend' >= wend /\ wcur + (d + 4 * i) <= wend' - Stacked
        /\ wcur + (d + 4 * i) < wend' - Stacked \/ CtxPos + 32 <= wend' - Stacked
    BY <2>0, <2>7, GrowIs
  <2>10. /\ Stacked \in Nat /\ CtxPos \in Int /\ CtxSize \in {8, 16}
         /\ IsSequence(ctx') /\ Stacked' = Stacked + CtxSize
    BY <1>2, StackedNext, SizesAre
  <2>11. wcur' <= wend' - (Stacked + CtxSize) /\ top' <= wend' - (Stacked + CtxSize)
    <3>1. PICK c, p, e, s, z, c1, t1 \in Int :
             /\ c = wcur /\ p = CtxPos /\ e = wend' /\ s = Stacked /\ z = CtxSize
             /\ c1 = wcur' /\ t1 = top'
             /\ c <= p /\ z <= 16
      BY <2>0, <2>8, <2>9, <2>10
    <3>2. /\ c + (d + 4 * i) <= e - s
          /\ c + (d + 4 * i) < e - s \/ p + 32 <= e - s
          /\ c1 <= c + 4 * i + k /\ t1 <= c + 4 * i + k
      BY <2>8, <2>9, <3>1
    <3>3. \/ d = 32 /\ k = 2
          \/ d = 16 /\ k = 1 /\ i = 0
      BY <2>5
    <3>4. c <= p /\ z <= 16
      BY <3>1
    <3>5. CASE d = 32 /\ k = 2
      <4>1. c + (32 + 4 * i) <= e - s
        BY <3>2, <3>5
      <4>2. c1 <= c + 4 * i + 2 /\ t1 <= c + 4 * i + 2
        BY <3>2, <3>5
      <4>3. c1 <= e - (s + z) /\ t1 <= e - (s + z)
        BY <3>4, <4>1, <4>2
      <4>. QED BY <3>1, <4>3
    <3>6. CASE d = 16 /\ k = 1 /\ i = 0
      <4>1. c + 17 <= e - s
        BY <3>2, <3>4, <3>6
      <4>2. c1 <= c + 1 /\ t1 <= c + 1
        BY <3>2, <3>6
      <4>3. c1 <= e - (s + z) /\ t1 <= e - (s + z)
        BY <3>4, <4>1, <4>2
      <4>. QED BY <3>1, <4>3
    <3>. QED BY <3>3, <3>5, <3>6
  <2>12. Len(out') >= 2 /\ wend' >= 64
    <3>1. k >= 1
      BY <2>5
    <3>2. PICK o, o1 \in Nat : o = Len(out) /\ o1 = Len(out')
      BY <2>0, <2>8 DEF IsSequence
    <3>3. o >= 1 /\ o1 >= o + k
      BY <2>0, <2>5, <2>8, <3>2
    <3>4. o1 >= 2
      BY <3>1, <3>3
    <3>. QED BY <2>0, <2>9, <3>2, <3>4
  <2>13. Pretty => level' = Len(ctx') + 1
    <3>1. PICK e : ctx' = <<e>> \o ctx
      BY <1>2
    <3>2. Len(ctx') = Len(ctx) + 1
      BY <2>0, <3>1, PushedIs
    <3>. QED BY <1>2, <2>0, <3>2
  <2>. QED BY <1>2, <2>4, <2>8, <2>9, <2>10, <2>11, <2>12, <2>13, WithinIs
<1>3. Push =>
        \/ \E code : WFail(code)
        \/ /\ IsCtn(v) /\ v.len > 0
           /\ \E e : ctx' = <<e>> \o ctx
           /\ Put(out, wcur, n, es, Len(es), Len(es))
           /\ wend' = Grow(wcur, ext)
           /\ level' = level + 1 /\ wpc' = "val_begin"
           /\ UNCHANGED fixed
  BY DEF Push
<1>. QED BY <1>1, <1>2, <1>3

LEMMA ValBeginKeeps == ASSUME WInv, ValBegin PROVE WInv'
<1>1. wpc \in Within
  BY DEF ValBegin, Within
<1>. QED BY <1>1, PutScalarKeeps, PutEmptyKeeps, PushKeeps DEF ValBegin

\* Where the next label is the end of the document.
LEMMA ClosedIs ==
  ASSUME WInv, fixed' = fixed, wpc' = "doc_end", ctx' = <<>>,
         IsSequence(out'), Len(out') >= 1,
         wcur' \in Int, wend' \in Int, top' \in Int, level' \in Int, wend' >= 64,
         wcur' <= wend', top' <= wend', Pretty => wcur' + 1 <= wend'
  PROVE  WInv'
<1>1. WTypes'
  BY EmptyIs DEF WInv, WTypes, fixed
<1>2. Pretty' = Pretty
  BY DEF Pretty, fixed
<1>3. Closed'
  BY <1>2 DEF Closed
<1>4. CtxPos' = wend'
  <2>1. PICK z, w \in Int : z = CtxSize' /\ w = wend'
    BY DEF CtxSize
  <2>2. CtxPos' = w - z * 0
    BY <2>1, EmptyIs DEF CtxPos
  <2>3. w - z * 0 = w
    OBVIOUS
  <2>. QED BY <2>1, <2>2, <2>3
<1>5. TextBelowStack'
  BY <1>4 DEF TextBelowStack
<1>. QED BY <1>1, <1>3, <1>5 DEF WInv, Before, Within

LEMMA PopIs ==
  ASSUME WInv, fixed' = fixed, Pop
  PROVE  \/ ctx = <<>> /\ ctx' = <<>> /\ wpc' = "doc_end"
         \/ /\ ctx # <<>> /\ wpc' \in Within /\ IsSequence(ctx')
            /\ Stacked' \in Nat /\ Stacked' <= Stacked - 8 /\ Len(ctx') + 1 = Len(ctx)
<1>1. CASE ctx = <<>>
  BY <1>1 DEF Pop
<1>2. CASE ctx # <<>>
  <2>1. ctx' = Tail(ctx) /\ wpc' \in Within
    BY <1>2 DEF Pop, Within
  <2>2. IsSequence(ctx') /\ Stacked' = Stacked - CtxSize /\ CtxSize \in {8, 16}
    BY <1>2, <2>1, StackedNext, SizesAre
  <2>3. Len(ctx') = Len(ctx) - 1 /\ Len(ctx) \in Nat
    BY <1>2, <2>1, TailIs DEF WInv, WTypes, IsSequence
  <2>4. Stacked' \in Nat
    <3>1. CtxSize' \in {8, 16}
      BY DEF CtxSize
    <3>. QED BY <2>2, <3>1, StackSize DEF Stacked
  <2>5. Stacked \in Nat
    BY StackedNext
  <2>6. Stacked' <= Stacked - 8 /\ Len(ctx') + 1 = Len(ctx)
    BY <2>2, <2>3, <2>5
  <2>. QED BY <1>2, <2>1, <2>2, <2>4, <2>6
<1>. QED BY <1>1, <1>2

\* The bracket takes the comma's place, and the comma behind it the byte that
\* the value before it has left.
LEMMA MinifyCtnEndKeeps ==
  ASSUME WInv, ~Pretty, MinifyCtnEnd
  PROVE  WInv'
<1>. DEFINE br == Brackets(isObj)[2]
            es == <<br, ",">>
<1>1. /\ wpc = "ctn_end" /\ Pop /\ fixed' = fixed
      /\ level' = level /\ wend' = wend
      /\ Put(Back(1), wcur - 1, 0, es, 2, 2)
  BY DEF MinifyCtnEnd
<1>2. /\ IsSequence(out) /\ IsSequence(ctx) /\ wcur \in Int /\ wend \in Int /\ level \in Int
      /\ wend >= 64 /\ wcur + 1 <= CtxPos
  BY <1>1 DEF WInv, WTypes, Open, Within
<1>3. Len(out) >= 1 /\ Len(out) \in Nat
  BY <1>1 DEF WInv, WTypes, Open, Within, IsSequence
<1>4. IsSequence(Back(1)) /\ Len(Back(1)) \in Nat
  <2>1. Len(out) - 1 \in 0..Len(out)
    BY <1>3
  <2>. QED BY <1>2, <2>1, CutIs DEF Back, IsSequence
<1>5. IsSequence(es) /\ Len(es) = 2
  <2>. HIDE DEF br
  <2>. QED BY TwoIs
<1>. HIDE DEF es
<1>6. PICK c \in Int : c = wcur /\ c - 1 = wcur - 1 /\ c - 1 \in Int
  BY <1>2
<1>7. /\ IsSequence(out') /\ Len(out') >= Len(Back(1)) + Len(es)
      /\ wcur' \in Int /\ wcur' <= (c - 1) + 4 * 0 + 2
      /\ top' \in Int /\ top' <= (c - 1) + 4 * 0 + 2
  <2>1. 0 \in Nat /\ 2 \in Nat
    OBVIOUS
  <2>2. Put(Back(1), c - 1, 0, es, 2, 2)
    BY <1>1, <1>6
  <2>. QED BY <1>4, <1>5, <1>6, <2>1, <2>2, PutIs
<1>8. wcur' <= c + 1 /\ top' <= c + 1
  BY <1>7
<1>9. PICK b, o1 \in Nat : b = Len(Back(1)) /\ o1 = Len(out') /\ o1 >= b + 2
  BY <1>4, <1>5, <1>7 DEF IsSequence
<1>10. Len(out') >= 2 /\ Len(out') >= 1
  BY <1>9
<1>11. PICK k, p, w \in Int : /\ k = Stacked /\ p = CtxPos /\ w = wend /\ k >= 0
                              /\ p = w - k /\ c + 1 <= p
  BY <1>1, <1>2, <1>6, StackedNext
<1>12. PICK c1, t1 \in Int : c1 = wcur' /\ t1 = top' /\ c1 <= c + 1 /\ t1 <= c + 1
  BY <1>7, <1>8
<1>13. CASE ctx = <<>> /\ ctx' = <<>> /\ wpc' = "doc_end"
  <2>1. c1 <= w /\ t1 <= w
    BY <1>11, <1>12
  <2>2. wcur' <= wend' /\ top' <= wend' /\ wend' \in Int /\ wend' >= 64 /\ level' \in Int
    BY <1>1, <1>2, <1>11, <1>12, <2>1
  <2>. QED BY <1>1, <1>7, <1>10, <1>13, <2>2, ClosedIs
<1>14. CASE /\ ctx # <<>> /\ wpc' \in Within /\ IsSequence(ctx')
            /\ Stacked' \in Nat /\ Stacked' <= Stacked - 8
  <2>1. PICK k1 \in Nat : k1 = Stacked' /\ k1 <= k - 8
    BY <1>11, <1>14
  <2>2. c1 + 1 <= w - k1 /\ t1 <= w - k1
    <3>1. k1 <= k - 8 /\ c + 1 <= w - k /\ c1 <= c + 1 /\ t1 <= c + 1
      BY <1>11, <1>12, <2>1
    <3>. QED BY <3>1
  <2>3. wcur' + 1 <= wend' - Stacked' /\ top' <= wend' - Stacked'
    BY <1>1, <1>11, <1>12, <2>1, <2>2
  <2>4. wend' \in Int /\ wend' >= 64 /\ level' \in Int
    BY <1>1, <1>2
  <2>. QED BY <1>1, <1>7, <1>10, <1>14, <2>3, <2>4, WithinIs
<1>. QED BY <1>1, <1>13, <1>14, PopIs

LEMMA PrettyCtnEndKeeps ==
  ASSUME WInv, Pretty, PrettyCtnEnd
  PROVE  WInv'
<1>. DEFINE br   == Brackets(isObj)[2]
            rest == IF ctx = <<>> THEN <<>> ELSE <<",", "\n">>
            es   == <<br>> \o rest
            kept == Append(Back(2), "\n")
<1>1. CASE \E code : WFail(code)
  BY <1>1, WFailKeeps
<1>2. CASE /\ wpc = "ctn_end" /\ Pop /\ fixed' = fixed
           /\ Put(kept, wcur - 1, level - 1, es, Len(es), Len(es))
           /\ wend' = Grow(wcur - 1, level * 4)
           /\ level' = level - 1
  <2>1. /\ IsSequence(out) /\ IsSequence(ctx) /\ wcur \in Int /\ wend \in Int /\ level \in Int
        /\ wend >= 64 /\ wcur + 1 <= CtxPos /\ level = Len(ctx) + 1 /\ Len(ctx) \in Nat
    BY <1>2 DEF WInv, WTypes, Open, Within, IsSequence
  <2>2. Len(out) >= 2 /\ Len(out) \in Nat
    BY <1>2 DEF WInv, WTypes, Open, Within, IsSequence
  <2>3. IsSequence(kept) /\ Len(kept) \in Nat /\ Len(kept) >= 1
    <3>1. Len(out) - 2 \in 0..Len(out)
      BY <2>2
    <3>2. IsSequence(Back(2)) /\ Len(Back(2)) \in Nat
      BY <2>1, <3>1, CutIs DEF Back, IsSequence
    <3>3. IsSequence(kept) /\ Len(kept) = Len(Back(2)) + 1
      BY <3>2, AppendedIs
    <3>. QED BY <3>2, <3>3
  <2>4. PICK k \in 1..3 : k = Len(es) /\ IsSequence(es)
    <3>1. CASE ctx = <<>>
      <4>1. IsSequence(rest) /\ Len(rest) = 0
        BY <3>1, EmptyIs
      <4>. HIDE DEF rest, br
      <4>a. IsSequence(es) /\ Len(es) = Len(rest) + 1
        BY <4>1, PushedIs
      <4>2. IsSequence(es) /\ Len(es) = 1
        BY <4>1, <4>a
      <4>. HIDE DEF es
      <4>. QED BY <4>2
    <3>2. CASE ctx # <<>>
      <4>1. rest = <<",", "\n">>
        BY <3>2
      <4>2. IsSequence(rest) /\ Len(rest) = 2
        BY <4>1, TwoIs
      <4>. HIDE DEF rest, br
      <4>a. IsSequence(es) /\ Len(es) = Len(rest) + 1
        BY <4>2, PushedIs
      <4>3. IsSequence(es) /\ Len(es) = 3
        BY <4>2, <4>a
      <4>. HIDE DEF es
      <4>. QED BY <4>3
    <3>. QED BY <3>1, <3>2
  <2>. HIDE DEF es, kept
  <2>5. PICK n \in Nat, c \in Int : /\ n = level - 1 /\ n = Len(ctx) /\ c = wcur - 1
                                  /\ level * 4 = 4 * n + 4 /\ 4 * n + 4 \in Nat
                                  /\ c <= CtxPos
    <3>1. level - 1 \in Nat /\ level - 1 = Len(ctx) /\ level * 4 = 4 * (level - 1) + 4
      BY <2>1
    <3>2. wcur - 1 \in Int /\ CtxPos \in Int
      BY <1>2, <2>1, StackedNext
    <3>3. wcur - 1 <= CtxPos
      BY <2>1, <3>2
    <3>. QED BY <3>1, <3>2, <3>3
  <2>6. /\ IsSequence(out') /\ Len(out') >= Len(kept) + Len(es)
        /\ wcur' \in Int /\ wcur' <= c + 4 * n + k
        /\ top' \in Int /\ top' <= c + 4 * n + k
    <3>1. Put(kept, c, n, es, k, k) /\ k \in Nat
      BY <1>2, <2>4, <2>5
    <3>. QED BY <2>3, <2>4, <2>5, <3>1, PutIs
  <2>7. wend' \in Int /\ wend' >= wend /\ c + (4 * n + 4) <= wend' - Stacked
    <3>1. wend' = Grow(c, 4 * n + 4)
      BY <1>2, <2>5
    <3>. QED BY <2>1, <2>5, <3>1, GrowIs
  <2>8. wend' >= 64
    BY <2>1, <2>7
  <2>9. PICK o, o1 \in Nat : o = Len(kept) /\ o1 = Len(out') /\ o1 >= o + k
    BY <2>3, <2>4, <2>6 DEF IsSequence
  <2>10. Len(out') >= 2 /\ Len(out') >= 1
    <3>1. o1 >= 2
      BY <2>3, <2>9
    <3>. QED BY <2>9, <3>1
  <2>11. PICK s, w1, c1, t1 \in Int : /\ s = Stacked /\ w1 = wend' /\ c1 = wcur' /\ t1 = top'
                                     /\ s >= 0 /\ (ctx = <<>> => s = 0)
    <3>1. Stacked \in Nat /\ (ctx = <<>> => Stacked = 0)
      BY <2>1, StackIs
    <3>. QED BY <2>6, <2>7, <3>1
  <2>12. c1 + 1 <= w1 - s /\ t1 <= w1 - s
    <3>1. c1 <= c + 4 * n + k /\ t1 <= c + 4 * n + k /\ c + (4 * n + 4) <= w1 - s
      BY <2>6, <2>7, <2>11
    <3>. QED BY <3>1
  <2>13. level' \in Int
    BY <1>2, <2>1
  <2>14. CASE ctx = <<>> /\ ctx' = <<>> /\ wpc' = "doc_end"
    <3>a. s = 0
      BY <2>11, <2>14
    <3>b. c1 + 1 <= w1 - s /\ t1 <= w1 - s
      BY <2>12
    <3>1. c1 + 1 <= w1 /\ c1 <= w1 /\ t1 <= w1
      BY <3>a, <3>b
    <3>2. wcur' + 1 <= wend' /\ wcur' <= wend' /\ top' <= wend'
      BY <2>11, <3>1
    <3>. QED BY <1>2, <2>6, <2>7, <2>8, <2>10, <2>13, <2>14, <3>2, ClosedIs
  <2>15. CASE /\ ctx # <<>> /\ wpc' \in Within /\ IsSequence(ctx')
              /\ Stacked' \in Nat /\ Stacked' <= Stacked - 8 /\ Len(ctx') + 1 = Len(ctx)
    <3>1. PICK s1 \in Nat : s1 = Stacked' /\ s1 <= s - 8
      BY <2>11, <2>15
    <3>2. c1 + 1 <= w1 - s1 /\ t1 <= w1 - s1
      <4>1. s1 <= s - 8
        BY <3>1
      <4>. QED BY <2>12, <4>1
    <3>3. wcur' + 1 <= wend' - Stacked' /\ top' <= wend' - Stacked'
      BY <2>11, <3>1, <3>2
    <3>4. level' = Len(ctx') + 1
      BY <1>2, <2>5, <2>15
    <3>. QED BY <1>2, <2>6, <2>7, <2>8, <2>10, <2>13, <2>15, <3>3, <3>4, WithinIs
  <2>. QED BY <1>2, <2>14, <2>15, PopIs
<1>3. PrettyCtnEnd =>
        \/ \E code : WFail(code)
        \/ /\ wpc = "ctn_end" /\ Pop /\ fixed' = fixed
           /\ Put(kept, wcur - 1, level - 1, es, Len(es), Len(es))
           /\ wend' = Grow(wcur - 1, level * 4)
           /\ level' = level - 1
  BY DEF PrettyCtnEnd
<1>. QED BY <1>1, <1>2, <1>3

\* A line end is written only where room for it was asked for.
LEMMA WDocEndKeeps ==
  ASSUME WInv,
         \/ ~Pretty /\ WDocEnd(Back(1), wcur - 1)
         \/ Pretty /\ WDocEnd(out, wcur)
  PROVE  WInv'
<1>. DEFINE line == IF WHas("NEWLINE_AT_END") THEN <<"\n">> ELSE <<>>
<1>1. CASE \E code : WFail(code)
  BY <1>1, WFailKeeps
<1>2. ASSUME wpc = "doc_end", wpc' = "done", UNCHANGED <<fixed, ctx, level>>,
             wend' = IF line # <<>> THEN Grow(wcur, 2) ELSE wend,
             NEW kept, NEW at,
             \/ ~Pretty /\ kept = Back(1) /\ at = wcur - 1
             \/ Pretty /\ kept = out /\ at = wcur,
             Put(kept, at, 0, line, Len(line), Len(line) + 1)
      PROVE  WInv'
  <2>1. /\ IsSequence(out) /\ IsSequence(ctx) /\ wcur \in Int /\ wend \in Int /\ level \in Int
        /\ Closed
    BY <1>2 DEF WInv, WTypes
  <2>2. /\ ctx = <<>> /\ wend >= 64 /\ Len(out) >= 1 /\ Len(out) \in Nat
        /\ wcur <= wend /\ (Pretty => wcur + 1 <= wend)
    BY <2>1 DEF Closed, IsSequence
  <2>3. PICK k \in 0..1 : /\ k = Len(line) /\ IsSequence(line) /\ (line # <<>> => k = 1)
                          /\ (line = <<>> => k = 0)
    <3>1. CASE WHas("NEWLINE_AT_END")
      <4>1. line = <<"\n">>
        BY <3>1
      <4>2. IsSequence(line) /\ Len(line) = 1
        BY <4>1, OneIs
      <4>. HIDE DEF line
      <4>3. line # <<>>
        BY <4>2, EmptyIs
      <4>. QED BY <4>2, <4>3
    <3>2. CASE ~WHas("NEWLINE_AT_END")
      <4>1. line = <<>>
        BY <3>2
      <4>. HIDE DEF line
      <4>. QED BY <4>1, EmptyIs
    <3>. QED BY <3>1, <3>2
  <2>. HIDE DEF line
  <2>4. PICK a, c, w \in Int : /\ a = at /\ c = wcur /\ w = wend /\ c <= w /\ a <= c
                             /\ a + 1 <= w
    <3>1. CASE ~Pretty
      BY <1>2, <2>1, <2>2, <3>1
    <3>2. CASE Pretty
      BY <1>2, <2>1, <2>2, <3>2
    <3>. QED BY <3>1, <3>2
  <2>5. IsSequence(kept)
    <3>1. CASE ~Pretty
      <4>1. Len(out) - 1 \in 0..Len(out)
        BY <2>2
      <4>. QED BY <1>2, <2>1, <3>1, <4>1, CutIs DEF Back
    <3>2. CASE Pretty
      BY <1>2, <2>1, <3>2
    <3>. QED BY <3>1, <3>2
  <2>6. IsSequence(out') /\ wcur' \in Int /\ top' \in Int /\ top' <= a + 4 * 0 + (k + 1)
    <3>1. Put(kept, a, 0, line, k, k + 1) /\ k \in Nat /\ k + 1 \in Nat /\ 0 \in Nat
      BY <1>2, <2>3, <2>4
    <3>. QED BY <2>3, <2>4, <2>5, <3>1, PutIs
  <2>7. Stacked = 0 /\ CtxPos = w
    BY <2>1, <2>2, <2>4, StackIs
  <2>8. wend' \in Int /\ a + (k + 1) <= wend'
    <3>1. CASE line = <<>>
      BY <1>2, <2>3, <2>4, <3>1
    <3>2. CASE line # <<>>
      <4>1. wend' = Grow(c, 2) /\ 2 \in Nat /\ c <= CtxPos
        BY <1>2, <2>4, <2>7, <3>2
      <4>2. Grow(c, 2) \in Int /\ c + 2 <= Grow(c, 2) - Stacked
        BY <2>2, <2>4, <4>1, GrowIs
      <4>3. PICK g \in Int : g = wend' /\ c + 2 <= g
        BY <2>7, <4>1, <4>2
      <4>4. a + (k + 1) <= g
        BY <2>3, <2>4, <4>3
      <4>. QED BY <4>3, <4>4
    <3>. QED BY <3>1, <3>2
  <2>9. top' <= wend'
    <3>1. PICK t, g \in Int : t = top' /\ g = wend' /\ t <= a + 4 * 0 + (k + 1) /\ a + (k + 1) <= g
      BY <2>6, <2>8
    <3>2. t <= g
      BY <2>4, <3>1
    <3>. QED BY <3>1, <3>2
  <2>10. WTypes'
    BY <1>2, <2>6, <2>8 DEF WInv, WTypes, fixed
  <2>11. TextBelowStack'
    BY <1>2, <2>9 DEF TextBelowStack
  <2>. QED BY <1>2, <2>10, <2>11 DEF WInv, Before, Within
<1>3. ASSUME NEW kept, NEW at, WDocEnd(kept, at),
             \/ ~Pretty /\ kept = Back(1) /\ at = wcur - 1
             \/ Pretty /\ kept = out /\ at = wcur
      PROVE  WInv'
  <2>1. \/ \E code : WFail(code)
        \/ /\ wpc = "doc_end" /\ wpc' = "done" /\ UNCHANGED <<fixed, ctx, level>>
           /\ wend' = IF line # <<>> THEN Grow(wcur, 2) ELSE wend
           /\ Put(kept, at, 0, line, Len(line), Len(line) + 1)
    BY <1>3 DEF WDocEnd
  <2>. HIDE DEF line
  <2>. QED BY <1>1, <1>2, <1>3, <2>1
<1>4. CASE ~Pretty /\ WDocEnd(Back(1), wcur - 1)
  BY <1>3, <1>4
<1>5. CASE Pretty /\ WDocEnd(out, wcur)
  BY <1>3, <1>5
<1>. QED BY <1>4, <1>5

LEMMA DocBeginKeeps == ASSUME WInv, DocBegin PROVE WInv'
<1>. DEFINE br   == Brackets(Node(1).t = "OBJ")[1]
            last == IF Pretty THEN <<"\n">> ELSE <<>>
            es   == <<br>> \o last
<1>1. /\ wpc = "doc_begin" /\ wpc' = "val_begin" /\ level' = 1 /\ fixed' = fixed
      /\ ctx' = ctx /\ wend' = wend /\ Put(<<>>, 0, 0, es, Len(es), Len(es))
  BY DEF DocBegin
<1>2. IsSequence(es) /\ Len(es) = IF Pretty THEN 2 ELSE 1
  <2>. HIDE DEF br
  <2>. QED BY LastIs
<1>. HIDE DEF es
<1>3. PICK k \in 1..2 : k = Len(es) /\ (Pretty => k = 2)
  BY <1>2
<1>4. wend >= 64 /\ wend \in Int /\ IsSequence(ctx) /\ ctx = <<>>
  BY <1>1 DEF WInv, WTypes, Before, NotYet
<1>5. /\ IsSequence(out') /\ Len(out') >= 0 + k
      /\ wcur' \in Int /\ wcur' <= 0 + 4 * 0 + k
      /\ top' \in Int /\ top' <= 0 + 4 * 0 + k
  <2>1. Put(<<>>, 0, 0, es, k, k) /\ k \in Nat /\ 0 \in Nat /\ 0 \in Int
    BY <1>1, <1>3
  <2>2. /\ IsSequence(out') /\ Len(out') >= Len(<<>>) + Len(es)
        /\ wcur' \in Int /\ wcur' <= 0 + 4 * 0 + k
        /\ top' \in Int /\ top' <= 0 + 4 * 0 + k
    BY <1>2, <2>1, EmptyIs, PutIs
  <2>. QED BY <1>3, <2>2, EmptyIs
<1>6. Stacked' = 0
  <2>1. ctx' = ctx => Stacked' = Stacked
    BY <1>1, StackedNext
  <2>. QED BY <1>1, <1>4, <2>1, StackIs
<1>7. PICK w, c1, t1 \in Int : w = wend' /\ c1 = wcur' /\ t1 = top' /\ w >= 64 /\ c1 <= 2 /\ t1 <= 2
  <2>1. wcur' <= 2 /\ top' <= 2
    BY <1>5
  <2>. QED BY <1>1, <1>4, <1>5, <2>1
<1>8. w = w - 0 /\ c1 + 1 <= w /\ t1 <= w
  <2>1. w >= 64 /\ c1 <= 2 /\ t1 <= 2
    BY <1>7
  <2>. QED BY <2>1
<1>9. wcur' + 1 <= wend' - Stacked' /\ top' <= wend' - Stacked' /\ wend' \in Int /\ wend' >= 64
  BY <1>6, <1>7, <1>8
<1>10. Len(out') >= 2 \/ (~Pretty /\ Len(out') >= 1)
  <2>1. PICK o \in Nat : o = Len(out') /\ o >= k
    BY <1>3, <1>5 DEF IsSequence
  <2>. QED BY <1>3, <2>1
<1>11. Pretty => level' = Len(ctx') + 1
  BY <1>1, <1>4, EmptyIs
<1>12. level' \in Int /\ wpc' \in Within
  BY <1>1 DEF Within
<1>. QED BY <1>1, <1>4, <1>5, <1>9, <1>10, <1>11, <1>12, WithinIs

LEMMA WriteStartKeeps == ASSUME WInv, WriteStart PROVE WInv'
<1>. DEFINE size == AlignUp(est * Ratio + 64)
<1>1. wpc = "start" /\ est \in Nat /\ NotYet /\ wheld = FALSE /\ IsSequence(ctx)
  BY DEF WriteStart, WInv, WTypes, Before
<1>2. CASE \E code : WFail(code)
  BY <1>2, WFailKeeps
<1>3. CASE /\ wpc' = "single"
           /\ UNCHANGED <<fixed, val, wctn, left, isObj, ctx, level, out,
                          wcur, wend, top, wheld, werr>>
  <2>1. WTypes'
    BY <1>3 DEF WInv, WTypes, fixed
  <2>2. NotYet' /\ wheld' = FALSE
    BY <1>1, <1>3 DEF NotYet
  <2>3. wpc' \notin Within /\ wpc' # "doc_end" /\ wpc' # "doc_begin" /\ wpc' # "ctn_end"
    BY <1>3 DEF Within
  <2>. QED BY <2>1, <2>2, <2>3 DEF WInv, TextBelowStack
<1>4. CASE /\ wheld' = TRUE /\ wend' = size /\ wpc' = "doc_begin"
           /\ UNCHANGED <<fixed, ctx, level, out, wcur, top>>
  <2>1. size \in Int /\ size >= 64
    <3>1. PICK n \in Nat : n = est * Ratio + 64 /\ n >= 64
      <4>1. CASE Ratio = 18
        BY <1>1, <4>1
      <4>2. CASE Ratio = 32
        BY <1>1, <4>2
      <4>. QED BY <4>1, <4>2, SizesAre
    <3>2. AlignUp(n) \in Nat /\ AlignUp(n) >= n
      BY <3>1, SizesAre
    <3>. QED BY <3>1, <3>2
  <2>. HIDE DEF size
  <2>2. WTypes'
    BY <1>4, <2>1 DEF WInv, WTypes, fixed
  <2>3. NotYet'
    BY <1>1, <1>4 DEF NotYet
  <2>4. CtxPos' = wend'
    <3>1. PICK z, w \in Int : z = CtxSize' /\ w = wend'
      BY <1>4, <2>1 DEF CtxSize
    <3>2. CtxPos' = w - z * 0
      BY <2>3, <3>1, EmptyIs DEF CtxPos, NotYet
    <3>3. w - z * 0 = w
      OBVIOUS
    <3>. QED BY <3>1, <3>2, <3>3
  <2>5. top' <= CtxPos' /\ wend' >= 64
    <3>1. 0 <= size
      BY <2>1
    <3>. QED BY <1>4, <2>1, <2>3, <2>4, <3>1 DEF NotYet
  <2>6. TextBelowStack'
    BY <1>4, <2>5 DEF TextBelowStack
  <2>. QED BY <1>4, <2>2, <2>3, <2>5, <2>6 DEF WInv, Before, Within
<1>. QED BY <1>2, <1>3, <1>4 DEF WriteStart

\* The buffer for one value takes what is written of it, a line end and a zero.
LEMMA SingleFits ==
  ASSUME strLen \in Nat, NEW v, IsCtn(v) \/ Written(v) # <<>>
  PROVE  \E w, z \in Nat :
           /\ w = IF IsCtn(v) THEN 2 ELSE Width(v)
           /\ z = CASE IsCtn(v) -> 2 + 2
                    [] v.t \in {"STR", "USTR"} -> 6 * strLen + 2 + 2
                    [] v.t = "RAW" -> NumWidth + 2
                    [] v.t \in {"NUM", "INF"} -> 32 + 2
                    [] OTHER -> 8
           /\ w + 2 <= z
<1>1. CASE IsCtn(v)
  <2>1. v.t \notin {"STR", "USTR", "RAW", "NUM", "INF"}
    BY <1>1 DEF IsCtn
  <2>. QED BY <1>1, <2>1
<1>2. CASE ~IsCtn(v)
  <2>1. CASE v.t \in {"STR", "USTR"}
    BY <1>2, <2>1 DEF Width
  <2>2. CASE v.t = "RAW"
    BY <1>2, <2>2 DEF Width, NumWidth
  <2>3. CASE v.t \in {"NUM", "INF"}
    BY <1>2, <2>3 DEF Width, NumWidth
  <2>4. CASE v.t = "FALSE"
    BY <1>2, <2>4 DEF Width
  <2>5. CASE v.t \in {"TRUE", "NULL"}
    BY <1>2, <2>5 DEF Width
  <2>. QED BY <1>2, <2>1, <2>2, <2>3, <2>4, <2>5 DEF Written
<1>. QED BY <1>1, <1>2

LEMMA WriteSingleKeeps == ASSUME WInv, WriteSingle PROVE WInv'
<1>. DEFINE root == Node(1)
            body == IF IsCtn(root) THEN Brackets(root.t = "OBJ") ELSE Written(root)
            size == CASE IsCtn(root) -> 2 + 2
                      [] root.t \in {"STR", "USTR"} -> 6 * strLen + 2 + 2
                      [] root.t = "RAW" -> NumWidth + 2
                      [] root.t \in {"NUM", "INF"} -> 32 + 2
                      [] OTHER -> 8
            width == IF IsCtn(root) THEN 2 ELSE Width(root)
            line == IF WHas("NEWLINE_AT_END") THEN <<"\n">> ELSE <<>>
<1>1. CASE \E code : WFail(code)
  BY <1>1, WFailKeeps
<1>2. CASE /\ body # <<>> /\ out' = body \o line /\ wcur' = width + Len(line)
           /\ top' = width + Len(line) + 1 /\ wend' = size /\ wpc' = "done"
           /\ UNCHANGED <<fixed, ctx, level>>
  <2>1. strLen \in Nat
    BY DEF WInv, WTypes
  <2>2. IsCtn(root) \/ Written(root) # <<>>
    BY <1>2
  <2>3. IsSequence(body)
    <3>1. CASE IsCtn(root)
      BY <3>1, BracketsAre
    <3>2. CASE ~IsCtn(root)
      BY <2>1, <2>2, <3>2, WidthIs
    <3>. QED BY <3>1, <3>2
  <2>4. IsSequence(line) /\ Len(line) \in 0..1
    <3>1. CASE WHas("NEWLINE_AT_END")
      BY <3>1, OneIs
    <3>2. CASE ~WHas("NEWLINE_AT_END")
      BY <3>2, EmptyIs
    <3>. QED BY <3>1, <3>2
  <2>5. PICK w, z \in Nat : w = width /\ z = size /\ w + 2 <= z
    BY <2>1, <2>2, SingleFits
  <2>. HIDE DEF root, body, size, width, line
  <2>6. PICK l \in 0..1 : l = Len(line)
    BY <2>4
  <2>7. IsSequence(out')
    BY <1>2, <2>3, <2>4, JoinedIs
  <2>8. wcur' = w + l /\ top' = w + l + 1 /\ wend' = z
    BY <1>2, <2>5, <2>6
  <2>9. w + l \in Int /\ w + l + 1 \in Int /\ w + l + 1 <= z
    BY <2>5
  <2>10. WTypes'
    BY <1>2, <2>7, <2>8, <2>9 DEF WInv, WTypes, fixed
  <2>11. TextBelowStack'
    BY <1>2, <2>8, <2>9 DEF TextBelowStack
  <2>. QED BY <1>2, <2>10, <2>11 DEF WInv, Before, Within
<1>3. WriteSingle =>
        \/ \E code : WFail(code)
        \/ /\ body # <<>> /\ out' = body \o line /\ wcur' = width + Len(line)
           /\ top' = width + Len(line) + 1 /\ wend' = size /\ wpc' = "done"
           /\ UNCHANGED <<fixed, ctx, level>>
  BY DEF WriteSingle
<1>. QED BY <1>1, <1>2, <1>3

LEMMA WriteKeeps == ASSUME WInv, Write PROVE WInv'
<1>1. CASE WriteStart \/ WriteSingle
  BY <1>1, WriteStartKeeps, WriteSingleKeeps
<1>2. CASE ImutMinifyBegin \/ ImutPrettyBegin \/ MutMinifyBegin \/ MutPrettyBegin
  BY <1>2, DocBeginKeeps
     DEF ImutMinifyBegin, ImutPrettyBegin, MutMinifyBegin, MutPrettyBegin
<1>3. CASE ImutMinifyValue \/ ImutPrettyValue \/ MutMinifyValue \/ MutPrettyValue
  BY <1>3, ValBeginKeeps
     DEF ImutMinifyValue, ImutPrettyValue, MutMinifyValue, MutPrettyValue
<1>4. CASE ImutMinifyCtnEnd \/ MutMinifyCtnEnd
  BY <1>4, MinifyCtnEndKeeps DEF ImutMinifyCtnEnd, MutMinifyCtnEnd, By
<1>5. CASE ImutPrettyCtnEnd \/ MutPrettyCtnEnd
  BY <1>5, PrettyCtnEndKeeps DEF ImutPrettyCtnEnd, MutPrettyCtnEnd, By
<1>6. CASE ImutMinifyDocEnd \/ MutMinifyDocEnd
  BY <1>6, WDocEndKeeps DEF ImutMinifyDocEnd, MutMinifyDocEnd, By
<1>7. CASE ImutPrettyDocEnd \/ MutPrettyDocEnd
  BY <1>7, WDocEndKeeps DEF ImutPrettyDocEnd, MutPrettyDocEnd, By
<1>. QED BY <1>1, <1>2, <1>3, <1>4, <1>5, <1>6, <1>7 DEF Write

LEMMA WriteStays == ASSUME WInv, UNCHANGED writeVars PROVE WInv'
<1>1. CtxPos' = CtxPos /\ Pretty' = Pretty
  BY DEF writeVars, fixed, CtxPos, CtxSize, Pretty
<1>2. WTypes' /\ TextBelowStack' /\ (NotYet <=> NotYet') /\ (Open <=> Open') /\ (Closed <=> Closed')
  BY <1>1 DEF writeVars, fixed, WInv, WTypes, TextBelowStack, NotYet, Open, Closed
<1>3. wpc' = wpc /\ wheld' = wheld /\ wend' = wend /\ wcur' = wcur
  BY DEF writeVars
<1>. QED BY <1>1, <1>2, <1>3 DEF WInv

-----------------------------------------------------------------------------
(* Reading, writing, and reading what was written.                         *)

TextIInv == RInv /\ WInv

LEMMA TextBegins == ASSUME TextInit PROVE TextIInv
<1>1. RInv
  <2>1. text \in Texts
    BY DEF TextInit, ReadInit
  <2>2. text \in Seq(STRING)
    BY <2>1, ReaderAssumption
  <2>3. IsText
    BY <2>2, IsOfSeq DEF IsText
  <2>. QED BY <2>3, ReadBegins DEF TextInit, ReadInit
<1>2. WInv
  <2>1. WTypes
    BY EmptyIs DEF TextInit, WriteInit, WTypes
  <2>2. NotYet /\ wheld = FALSE /\ wpc = "off"
    BY DEF TextInit, WriteInit, NotYet
  <2>. QED BY <2>1, <2>2 DEF WInv, Before, Within, TextBelowStack
<1>. QED BY <1>1, <1>2 DEF TextIInv

LEMMA WriteDocKeeps == ASSUME TextIInv, WriteDoc PROVE TextIInv'
<1>1. RInv'
  <2>1. UNCHANGED readVars
    BY DEF WriteDoc
  <2>. QED BY <2>1, ReadStays DEF TextIInv
<1>2. WInv'
  <2>1. strLen' \in Nat /\ est' \in Nat
    <3>1. Len(vals) \in Nat
      BY DEF TextIInv, RInv, Room, IsSequence
    <3>. QED BY <3>1, WriterAssumption DEF WriteDoc
  <2>2. NotYet /\ wheld = FALSE /\ WTypes
    BY DEF TextIInv, WInv, WriteDoc, Before
  <2>3. WTypes'
    BY <2>1, <2>2 DEF WriteDoc, WTypes
  <2>4. NotYet' /\ wheld' = FALSE /\ wpc' = "start"
    BY <2>2 DEF WriteDoc, NotYet
  <2>. QED BY <2>3, <2>4 DEF WInv, Before, Within, TextBelowStack
<1>. QED BY <1>1, <1>2 DEF TextIInv

LEMMA RereadKeeps == ASSUME TextIInv, Reread PROVE TextIInv'
<1>1. WInv'
  BY WriteStays DEF Reread, TextIInv
<1>2. RInv'
  <2>1. IsSequence(text')
    BY DEF Reread, TextIInv, WInv, WTypes
  <2>2. IsText'
    BY <2>1 DEF IsText
  <2>3. /\ cur' = 1 /\ pc' = "start" /\ vals' = <<>> /\ alcLen' = 0 /\ held' = {}
        /\ err' = NoError
    BY DEF Reread
  <2>4. (IsText /\ cur = 1 /\ pc = "start" /\ vals = <<>> /\ alcLen = 0 /\ held = {}
         /\ err = NoError => RInv)'
    BY ReadBegins, PTL
  <2>. QED BY <2>2, <2>3, <2>4 DEF NoError
<1>. QED BY <1>1, <1>2 DEF TextIInv

LEMMA TextKeeps == ASSUME TextIInv, [TextNext]_textVars PROVE TextIInv'
<1>1. CASE Reading
  BY <1>1, ReadKeeps, WriteStays DEF Reading, TextIInv
<1>2. CASE Writing
  BY <1>2, WriteKeeps, ReadStays DEF Writing, TextIInv
<1>3. CASE UNCHANGED textVars
  BY <1>3, ReadStays, WriteStays DEF textVars, TextIInv
<1>. QED BY <1>1, <1>2, <1>3, WriteDocKeeps, RereadKeeps DEF TextNext

LEMMA TextIsExact == ASSUME TextIInv PROVE MemoryExact
<1>1. ValuesFit
  BY DEF TextIInv, RInv, Room, ValuesFit
<1>2. OwnsWhatItReturns
  BY DEF TextIInv, RInv, Held, Copied, OwnsWhatItReturns
<1>3. CommaIsFound
  BY DEF TextIInv, RInv, CommaBehind
<1>. QED BY <1>1, <1>2, <1>3 DEF TextIInv, WInv, MemoryExact

\* Whatever is read, and written with whatever flags, and read again: the values
\* fit the memory allocated for them, the text being written stays below the
\* stack it shares the buffer with, what fails gives back what it took, and the
\* search for a trailing comma ends at one.
THEOREM MemoryIsExact == TextSpec => []MemoryExact
<1>1. TextInit => TextIInv
  BY TextBegins
<1>2. TextIInv /\ [TextNext]_textVars => TextIInv'
  BY TextKeeps
<1>3. TextIInv => MemoryExact
  BY TextIsExact
<1>. QED BY <1>1, <1>2, <1>3, PTL DEF TextSpec

=============================================================================
