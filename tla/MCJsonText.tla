----------------------------- MODULE MCJsonText -----------------------------
(***************************************************************************)
(* Instances for TLC of the readers, writers and copies of JSON texts, and *)
(* of JsonPointer.  A behaviour is of one of them.                         *)
(***************************************************************************)
EXTENDS JsonGrammar, JsonPointer

CONSTANT Parts   \* which of them: "text", "pointer"

Elements == {"{", "}", "[", "]", ",", ":", "s", "d", "t", "f", "n", "nan", "inf",
             "u", "b", "-", "w", "tr", "x", " ", "\n", "0", "/*", "*/", "//"}
Marks == {"{", "}", "[", "]", ",", ":", "s", "d", " ", "\n"}

UpTo(n, es) == UNION {[1..k -> es] : k \in 0..n}

\* Texts of the styles and shapes the code tells apart; their documents are
\* written as well.
Whole == {
  <<"s">>, <<"t">>, <<"\n", "d", "\n">>, <<"n">>, <<"inf">>, <<"u">>, <<"f">>,
  <<"[", "]">>, <<"{", "}">>,
  <<"[", "s", ",", "d", ",", "t", ",", "n", "]">>,
  <<"{", "s", ":", "d", ",", "s", ":", "[", "d", "]", "}">>,
  <<"{", "s", ":", "{", "s", ":", "{", "s", ":", "s", "}", "}", "}">>,
  <<"[", "[", "[", "[", "d", "]", "]", ",", "{", "}", "]", "]">>,
  <<"[", "d", ",", "d", ",", "d", ",", "d", ",", "d", ",", "d", ",", "d", ",",
    "d", "]">>,
  <<"[", "\n", " ", " ", "d", ",", "\n", " ", " ", "[", "\n", " ", " ", " ", " ",
    "s", "\n", " ", " ", "]", "\n", "]">>,
  <<"{", "\n", " ", " ", "s", ":", " ", "f", ",", "\n", " ", " ", "s", ":", " ",
    "{", "\n", "}", "\n", "}">>,
  <<" ", "[", "/*", "d", "*/", "d", "//", "d", "\n", ",", "inf", "]", "//", "x">>,
  <<"[", "u", ",", "inf", ",", "d", ",", "]">>,
  <<"{", "s", ":", "d", " ", ",", "}">> }

\* A comment is not opened in a comment, and a closing mark needs an opening one.
Plain(s) == \A i, j \in DOMAIN s :
              i < j /\ s[i] \in {"/*", "//"} /\ s[j] \in {"/*", "//"}
                => \E k \in i..j : s[k] \in {"*/", "\n"}

Replaced(w) == {[w EXCEPT ![i] = e] : i \in DOMAIN w, e \in Elements}
Removed(w) == {SubSeq(w, 1, i - 1) \o SubSeq(w, i + 1, Len(w)) : i \in DOMAIN w}
Cuts(w) == {SubSeq(w, 1, i) : i \in DOMAIN w}
CutShort(w) == {Append(SubSeq(w, 1, i), "tr") : i \in DOMAIN w}

MCTexts == {s \in UpTo(2, Elements) \cup UpTo(4, Marks)
                  \cup UNION {{w} \cup Replaced(w) \cup Removed(w) \cup Cuts(w)
                              \cup CutShort(w) : w \in Whole} : Plain(s)}

MCFlagSets == {{}, {"ALLOW_COMMENTS", "ALLOW_TRAILING_COMMAS"},
               {"INSITU", "NUMBER_AS_RAW"},
               {"ALLOW_INF_AND_NAN", "ALLOW_INVALID_UNICODE", "ALLOW_COMMENTS",
                "ALLOW_TRAILING_COMMAS"},
               {"STOP_WHEN_DONE", "NUMBER_AS_RAW"}}
MCWriteFlagSets == {{}, {"NEWLINE_AT_END", "ALLOW_INF_AND_NAN"}, {"PRETTY"},
                    {"PRETTY_TWO_SPACES", "NEWLINE_AT_END", "INF_AND_NAN_AS_NULL",
                     "ALLOW_INVALID_UNICODE"}}

-----------------------------------------------------------------------------
\* Documents and pointers such that a token is found first, last, behind the
\* last, or not, in arrays and objects of none, one and more members; with
\* escapes, good and bad, and a name that two members have.
One == LeafOf("1")
MCDocTrees ==
  {NoTree, One, ArrOf(<<>>), ArrOf(<<One, Null>>), ObjOf(<<>>, <<>>),
   ArrOf(<<ArrOf(<<One>>), Null, ObjOf(<<<<"a">>>>, <<One>>)>>),
   ObjOf(<<<<"a">>, <<"~", "/">>, <<>>>>,
         <<ArrOf(<<>>), One, ObjOf(<<<<"0">>>>, <<Null>>)>>),
   ObjOf(<<<<"a">>, <<"1">>, <<"a">>>>, <<One, ArrOf(<<Null, One>>), Null>>)}

MCPointers ==
  {<<>>, <<"a">>, <<"/">>, <<"/", "a">>, <<"/", "0">>, <<"/", "1">>, <<"/", "2">>,
   <<"/", "-">>, <<"/", "0", "1">>, <<"/", "1", "~", "0">>,
   <<"/", "~", "0", "~", "1">>, <<"/", "~">>, <<"/", "a", "/", "~">>,
   <<"/", "-", "/", "~">>, <<"/", "/", "0">>, <<"/", "a", "/", "-">>,
   <<"/", "a", "/", "0">>, <<"/", "2", "/", "a">>, <<"/", "0", "/", "0">>,
   <<"/", "1", "/", "1">>, <<"/", "-", "/", "a", "/", "~", "1">>,
   <<"/", "a", "/", "a", "/", "b">>, <<"/", "b", "/", "1", "/", "-">>}

MCNewTrees ==
  {One, Null, ObjOf(<<<<"a">>, <<"b">>>>, <<Null, ObjOf(<<<<"0">>>>, <<One>>)>>)}

Operation(op, path, from, value) ==
  [op |-> op, path |-> path, from |-> from, value |-> value]

MCPatches ==
  {<<Operation(op, path, from, value)>> :
     op \in PatchOps \cup {"other", "missing", "no string", "no object"},
     path \in {<<>>, <<"/", "a">>, <<"/", "0">>, <<"/", "1", "/", "-">>,
               <<"missing">>, <<"no string">>},
     from \in {<<>>, <<"/", "1">>, <<"/", "a">>, <<"missing">>, <<"no string">>},
     value \in {NoTree, One}}
  \cup
  {<<Operation("replace", <<"/", "0">>, <<>>,
               ObjOf(<<<<"b">>, <<"a">>>>, <<One, Null>>)),
     Operation("move", <<"/", "1">>, <<"/", "0">>, NoTree),
     Operation("test", <<"/", "1">>, <<>>,
               ObjOf(<<<<"a">>, <<"b">>>>, <<Null, One>>))>>}

-----------------------------------------------------------------------------
VARIABLE part

PointerOff == heap = <<>> /\ root = 0 /\ pctx = NoCtx /\ call = NoCall /\ was = NoTree

MCSpec ==
  /\ part \in Parts
  /\ \/ part = "text" /\ TextInit /\ PointerOff
     \/ /\ part = "pointer" /\ PtrInit
        /\ TextInit /\ input = <<>> /\ flg = {}
  /\ [][/\ \/ part = "text" /\ TextNext /\ UNCHANGED ptrVars
           \/ part = "pointer" /\ PtrNext /\ UNCHANGED textVars
        /\ UNCHANGED part]_<<textVars, ptrVars, part>>

=============================================================================
