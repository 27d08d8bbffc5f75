---------------------------- MODULE JsonGrammar ----------------------------
(***************************************************************************)
(* What JsonText should make of a JSON text, by the grammar of JSON and by *)
(* what was written; and what copies should be, by the functions of        *)
(* src/util/yyjson.c that go through a value depth first: the copies of    *)
(* mutable values and the comparisons of both kinds.                       *)
(***************************************************************************)
EXTENDS JsonText, FiniteSets

-----------------------------------------------------------------------------
(* Copies of mutable values, and comparisons.                              *)

\* The circular list of a container, from its first value (key) on.
Members(m, i) ==
  LET at[j \in 1..Size(m[i])] ==
        IF j > 1 THEN m[at[j - 1]].next
        ELSE IF m[i].t = "OBJ" THEN m[m[m[i].last].next].next
        ELSE m[m[i].last].next
  IN at

RECURSIVE Flat(_)
Flat(ss) == IF ss = <<>> THEN <<>> ELSE Head(ss) \o Flat(Tail(ss))

\* yyjson_imut_copy of the mutable value at i, depth first
RECURSIVE ImutCopy(_, _)
ImutCopy(m, i) ==
  LET inner == Flat([j \in 1..Size(m[i]) |-> ImutCopy(m, Members(m, i)[j])])
  IN IF ~Ctn(m[i]) THEN <<[t |-> m[i].t, len |-> 0, ofs |-> 0]>>
     ELSE <<[t |-> m[i].t, len |-> m[i].len, ofs |-> Len(inner) + 1]>> \o inner

\* yyjson_mut_stat: the number of values, from which the copy's room is taken.
\* The walk starts at the last value instead of the first.
RECURSIVE Stat(_, _)
Stat(m, i) ==
  LET kids == Members(m, i)
      sum[j \in 0..Size(m[i])] ==
        IF j = 0 THEN 0
        ELSE sum[j - 1] + IF Ctn(m[kids[j]]) THEN Stat(m, kids[j]) - 1 ELSE 0
  IN IF Ctn(m[i]) THEN 1 + Size(m[i]) + sum[Size(m[i])] ELSE 1

\* unsafe_yyjson_mut_val_mut_copy of the value at i into new values behind the
\* ones of m: the copy itself, then the last member, then the others in order.
RECURSIVE MutMutCopy(_, _)
MutMutCopy(m, i) ==
  LET n    == Size(m[i])
      kids == Members(m, i)
      tail == IF m[i].t = "OBJ" THEN n - 1 ELSE n
      order == [j \in 1..n |-> kids[1 + ((tail + j - 2) % n)]]
      self == Append(m, [m[i] EXCEPT !.next = 0, !.last = 0])
      grown[j \in 0..n] ==
        IF j = 0 THEN self ELSE MutMutCopy(grown[j - 1], order[j])
      at(j) == Len(grown[j - 1]) + 1
  IN IF ~Ctn(m[i]) \/ n = 0 THEN self
     ELSE [k \in DOMAIN grown[n] |->
             IF k = Len(self) THEN [grown[n][k] EXCEPT !.last = at(1)]
             ELSE IF \E j \in 1..n : k = at(j)
             THEN [grown[n][k] EXCEPT !.next =
                     LET j == CHOOSE j \in 1..n : k = at(j)
                     IN at(IF j = n THEN 1 ELSE j + 1)]
             ELSE grown[n][k]]

\* unsafe_yyjson_equals without the lookup by key: all keys are one string, and
\* a search that goes on where it left off finds the next of them.
RECURSIVE Equals(_, _, _, _)
Equals(lv, l, rv, r) ==
  /\ lv[l].t = rv[r].t
  /\ Ctn(lv[l]) =>
       /\ lv[l].len = rv[r].len
       /\ \A j \in 1..Size(lv[l]) :
            Equals(lv, Contents(lv, l)[j], rv, Contents(rv, r)[j])

\* unsafe_yyjson_mut_equals, on two mutable values
RECURSIVE MutEquals(_, _, _)
MutEquals(m, l, r) ==
  /\ m[l].t = m[r].t
  /\ Ctn(m[l]) =>
       /\ m[l].len = m[r].len
       /\ \A j \in 1..Size(m[l]) : MutEquals(m, Members(m, l)[j], Members(m, r)[j])

-----------------------------------------------------------------------------
(* What a JSON text is, by its grammar.                                    *)

\* The elements that count; an open comment is kept, as a thing no text has.
RECURSIVE Tokens(_, _)
Tokens(s, comments) ==
  IF s = <<>> THEN <<>>
  ELSE IF Space(s[1]) THEN Tokens(Tail(s), comments)
  ELSE IF comments /\ s[1] = "/*" /\ \E i \in DOMAIN s : s[i] = "*/"
  THEN LET i == CHOOSE i \in DOMAIN s :
                  s[i] = "*/" /\ \A j \in 1..(i - 1) : s[j] # "*/"
       IN IF \E j \in 1..i : s[j] = Pad THEN s
          ELSE Tokens(SubSeq(s, i + 1, Len(s)), comments)
  ELSE IF comments /\ s[1] = "//"
  THEN LET ends == {i \in DOMAIN s : LineEnd(s[i])}
       IN IF ends = {} THEN <<>>
          ELSE Tokens(SubSeq(s, CHOOSE i \in ends : \A j \in ends : i <= j,
                             Len(s)), comments)
  ELSE <<s[1]>> \o Tokens(Tail(s), comments)

\* The values a token sequence s may begin with: the array each is read into,
\* and the index behind it.  A list of members is read with the comma before
\* each but the first.
Behind1(s, i) == IF i \in DOMAIN s THEN s[i] ELSE Pad

RECURSIVE ValuesAt(_, _), ListsAt(_, _, _, _)
ValuesAt(s, i) ==
  LET e == Behind1(s, i)
      container(t, close) ==
        {[vals |-> <<[t |-> t, len |-> l.n, ofs |-> Len(l.vals) + 1]>> \o l.vals,
          next |-> l.next + 1] :
            l \in {l \in ListsAt(s, i + 1, t, 0) : Behind1(s, l.next) = close}}
  IN CASE e \in DOMAIN Scalar -> {[vals |-> <<Value(Scalar[e])>>, next |-> i + 1]}
       [] e = "[" -> container("ARR", "]")
       [] e = "{" -> container("OBJ", "}")
       [] OTHER -> {}

\* The lists of n members and more that begin at i
ListsAt(s, i, t, n) ==
  LET first == n = 0
      comma == Behind1(s, i) = ","
      j == IF first THEN i ELSE i + 1
      keyed == t = "OBJ"
      key == Behind1(s, j) \in Strings /\ Behind1(s, j + 1) = ":"
      heads == IF ~first /\ ~comma THEN {}
               ELSE IF ~keyed THEN ValuesAt(s, j)
               ELSE IF ~key THEN {}
               ELSE {[v EXCEPT !.vals = <<Value(Scalar[s[j]])>> \o @] :
                       v \in ValuesAt(s, j + 2)}
      more == UNION {{[l EXCEPT !.vals = h.vals \o @, !.n = @ + 1] :
                        l \in ListsAt(s, h.next, t, n + 1)} : h \in heads}
      here == {[vals |-> <<>>, next |-> i, n |-> 0]}
      trailing == IF ~first /\ comma /\ Has("ALLOW_TRAILING_COMMAS")
                  THEN {[vals |-> <<>>, next |-> i + 1, n |-> 0]} ELSE {}
  IN here \cup trailing \cup more

\* The arrays the text s may be read into: none when it is no JSON text.
Meaning(s) ==
  LET toks == Tokens(s, Has("ALLOW_COMMENTS"))
  IN {v.vals : v \in {v \in ValuesAt(toks, 1) :
                        v.next = Len(toks) + 1 \/ Has("STOP_WHEN_DONE")}}

-----------------------------------------------------------------------------
(* Properties.                                                             *)

Refused == pc = "done" /\ err # NoError

\* The reader accepts the texts of the grammar and no others, whichever of its
\* three functions it chose, and leaves the values of the text in an array in
\* which every container has the number of its members and the way past them;
\* only a lack of memory makes it refuse a JSON text.
ReadsTheGrammar ==
  pc = "done" =>
    IF err = NoError THEN vals \in Meaning(input)
    ELSE err.code = "MEMORY_ALLOCATION" \/ Meaning(input) = {}

\* A text that was cut off, between its elements or within a literal, is said
\* to end unexpectedly and never to have a wrong character; only where the cut
\* leaves a comment open, or nothing but blanks, the error says just that.
IsCutOf(s, w) ==
  \/ Len(s) < Len(w) /\ s = SubSeq(w, 1, Len(s))
  \/ /\ s # <<>> /\ Len(s) <= Len(w)
     /\ s[Len(s)] = "tr" /\ w[Len(s)] \in {"t", "f", "n"}
     /\ \A i \in 1..(Len(s) - 1) : s[i] = w[i]

ErrorsTell ==
  Refused /\ input # <<>> /\ ~Has("STOP_WHEN_DONE")
  /\ (\E w \in Rewritten : IsCutOf(input, w) /\ Meaning(w) # {})
    => \/ err.code \in {"UNEXPECTED_END", "MEMORY_ALLOCATION"}
       \/ err.code = "INVALID_COMMENT" /\ \E i \in DOMAIN input : input[i] = "/*"
       \/ err.code = "EMPTY_CONTENT" /\ Tokens(input, TRUE) = <<>>

\* What was written, in any style and from either kind of document, is read
\* again as the document it was written from; an infinite number may have been
\* written as null.
Rewrites(v) == IF v.t = "INF" /\ WHas("INF_AND_NAN_AS_NULL") THEN Value("NULL")
               ELSE v
RereadSame ==
  round = 2 /\ pc = "done" =>
    \/ err = NoError /\ vals = [i \in DOMAIN imut |-> Rewrites(imut[i])]
    \/ err.code = "MEMORY_ALLOCATION"

\* A mutable copy is the document: copied back it gives the same array, from
\* room that was counted in another order, and so does a copy of the copy.
CopiesAgree ==
  wpc = "start" /\ kind = "mut" =>
    /\ ImutCopy(mut, 1) = imut
    /\ Stat(mut, 1) = Len(imut)
    /\ LET two == MutMutCopy(mut, 1)
       IN /\ Equals(imut, 1, ImutCopy(two, Len(mut) + 1), 1)
          /\ MutEquals(two, 1, Len(mut) + 1)

=============================================================================
