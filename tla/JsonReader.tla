----------------------------- MODULE JsonReader -----------------------------
(***************************************************************************)
(* The JSON reader of src/util/yyjson.c: yyjson_read_opts and the three    *)
(* functions it chooses between, read_root_single, read_root_minify and    *)
(* read_root_pretty, one action per label of theirs.                       *)
(*                                                                         *)
(* A text is a sequence of lexical elements.  Punctuation, a blank, a line *)
(* end, a NUL and the marks of a comment are themselves; "s" is a string,  *)
(* "d" a number, "t" "f" "n" "nan" "inf" the literals; "u" a string that   *)
(* is no UTF-8, "b" one with a bad escape, "-" a number without digits,    *)
(* "w" a misspelt literal, "tr" the beginning of a literal, "x" any other  *)
(* character.  Behind the text lies the padding of zeros.  `vals' is the   *)
(* array of yyjson_val behind the document's header: vals[i] is            *)
(* val_hdr[hdr_len + i - 1], the reader's val is its last element, and     *)
(* offsets count values, not bytes.                                        *)
(***************************************************************************)
EXTENDS Naturals, Sequences

CONSTANTS Texts,      \* the texts that may be read
          FlagSets    \* the sets of yyjson_read_flag that may be given

ASSUME ReaderAssumption == Texts \subseteq Seq(STRING)

VARIABLES input,      \* dat, as the caller gave it
          flg,        \* flg
          text,       \* the bytes at hdr: a copy of dat, or dat itself
          cur,        \* cur - hdr + 1
          pc,         \* the label the reader is at
          style,      \* which of the three functions reads
          vals,       \* the values written so far
          ctn,        \* the current container, an index into vals
          ctnLen,     \* ctn_len
          alcLen,     \* alc_len
          pre,        \* raw_end - hdr + 1, 0 when it is NULL
          held,       \* what this read has allocated and not freed
          err         \* err->code and err->pos, and the code of a success

readVars == <<input, flg, text, cur, pc, style, vals, ctn, ctnLen, alcLen,
              pre, held, err>>

Pad == "0"
At(i) == IF i \in 1..Len(text) THEN text[i] ELSE Pad
End == Len(text) + 1

Has(flag) == flag \in flg
Insitu == Has("INSITU")

NoError == [code |-> "SUCCESS", pos |-> 0]

-----------------------------------------------------------------------------
(* The characters and the helpers of the reader.                           *)

Space(e) == e \in {" ", "\n"}

LineEnd(e) == e \in {"\n", Pad}

\* while (char_is_space(*cur)) cur++
PastSpaces(c) ==
  CHOOSE i \in c..End : ~Space(At(i)) /\ \A j \in c..(i - 1) : Space(At(j))

\* skip_spaces_and_comments: where it stops, and whether a comment is open
Skip[c \in 1..End] ==
  LET close == {i \in (c + 1)..(End - 1) :
                  At(i) = "*/" /\ \A j \in c..i : At(j) # Pad}
      line  == CHOOSE i \in c..End : LineEnd(At(i))
                                     /\ \A j \in c..(i - 1) : ~LineEnd(At(j))
  IN CASE At(c) = "/*" ->
            IF close = {} THEN [cur |-> c, open |-> TRUE]
            ELSE Skip[1 + CHOOSE i \in close : \A j \in close : i <= j]
       [] At(c) = "//" -> Skip[line]
       [] Space(At(c)) -> Skip[c + 1]
       [] OTHER -> [cur |-> c, open |-> FALSE]

\* What read_number, read_string, read_true, read_false, read_null, read_nan
\* and read_inf_or_nan make of an element.
Strings == IF Has("ALLOW_INVALID_UNICODE") THEN {"s", "u"} ELSE {"s"}
Numbers == IF Has("ALLOW_INF_AND_NAN") THEN {"d", "nan", "inf"} ELSE {"d"}
Scalar == [e \in Strings \cup Numbers \cup {"t", "f", "n"}
             |-> CASE e = "s" -> "STR"
                   [] e = "u" -> "USTR"
                   [] e = "t" -> "TRUE"
                   [] e = "f" -> "FALSE"
                   [] e = "n" -> "NULL"
                   [] Has("NUMBER_AS_RAW") -> "RAW"
                   [] e = "d" -> "NUM"
                   [] OTHER -> "INF"]
Misread == [e \in {"b", "u", "-", "w", "tr", "nan"} \ DOMAIN Scalar
              |-> CASE e \in {"b", "u"} -> "INVALID_STRING"
                    [] e = "-" -> "INVALID_NUMBER"
                    [] OTHER -> "LITERAL"]

\* A cut is only seen behind the padding.
TruncatedLate(c, code) == c > End

\* is_truncated_end
Truncated(c, code) ==
  \/ c >= End
  \/ code = "LITERAL" /\ At(c) = "tr" /\ c + 1 = End

-----------------------------------------------------------------------------
HdrLen == 4          \* sizeof(yyjson_doc) / sizeof(yyjson_val)
MinifyRatio == 6     \* YYJSON_READER_ESTIMATED_MINIFY_RATIO
PrettyRatio == 16    \* YYJSON_READER_ESTIMATED_PRETTY_RATIO

Value(t) == [t |-> t, len |-> 0, ofs |-> 0]

\* return_err of read_root_*: the values go back, yyjson_read_opts goes on
Fail(code, c) ==
  /\ pc' = "result"
  /\ err' = IF Truncated(c, code) THEN [code |-> "UNEXPECTED_END", pos |-> End]
            ELSE [code |-> code, pos |-> c]
  /\ held' = held \ {"vals"}
  /\ vals' = <<>>
  /\ UNCHANGED <<input, flg, text, cur, style, ctn, ctnLen, alcLen, pre>>

Goto(label, c) ==
  /\ pc' = label
  /\ cur' = c
  /\ UNCHANGED <<input, flg, text, style, vals, ctn, ctnLen, alcLen, pre, held,
                 err>>

\* Without the slots in reserve for a pair.
FullLate == HdrLen + Len(vals) >= alcLen

\* val_incr: the index of the new value against val_end
Full == HdrLen + Len(vals) >= alcLen - 2
Grown == IF Full THEN alcLen + alcLen \div 2 ELSE alcLen

\* Read the element at c into a new value: behind a check of the room, or
\* without one, where the value of a pair goes into the padding.
ReadScalar(c, checked, label) ==
  /\ At(c) \in DOMAIN Scalar
  /\ \/ /\ vals' = Append(vals, Value(Scalar[At(c)]))
        /\ alcLen' = IF checked THEN Grown ELSE alcLen
        /\ ctnLen' = ctnLen + 1
        /\ cur' = c + 1
        /\ pc' = label
        /\ IF Scalar[At(c)] = "RAW"
           THEN /\ pre' = c + 1
                /\ text' = IF pre \in 1..Len(text)
                           THEN [text EXCEPT ![pre] = Pad] ELSE text
           ELSE UNCHANGED <<pre, text>>
        /\ UNCHANGED <<input, flg, style, ctn, held, err>>
     \/ checked /\ Full /\ Fail("MEMORY_ALLOCATION", c)

Misreads(c, checked) ==
  /\ At(c) \in DOMAIN Misread
  /\ \/ Fail(Misread[At(c)], c)
     \/ checked /\ Full /\ Fail("MEMORY_ALLOCATION", c)

\* The tail of every label: blanks and comments lead back to it, and what
\* is left is an unexpected character.
Blank(label, c, expected) ==
  /\ At(c) \notin expected
  /\ \/ /\ Space(At(c))
        /\ Goto(label, PastSpaces(c))
     \/ /\ ~Space(At(c))
        /\ ~Has("ALLOW_COMMENTS")
        /\ Fail("UNEXPECTED_CHARACTER", c)
     \/ /\ ~Space(At(c))
        /\ Has("ALLOW_COMMENTS")
        /\ LET s == Skip[c]
           IN IF ~s.open /\ s.cur # c THEN Goto(label, s.cur)
              ELSE Fail(IF s.open THEN "INVALID_COMMENT"
                        ELSE "UNEXPECTED_CHARACTER", s.cur)

\* A closing bracket behind a comma: while (*cur != ',') cur--
Behind(c) == CHOOSE i \in 1..c :
               At(i) = "," /\ \A j \in (i + 1)..c : At(j) # ","

\* A comma before the bracket is not looked at.
CloseEarlyLoose(e, c, label) == At(c) = e /\ Goto(label, c + 1)

CloseEarly(e, c, label) ==
  /\ At(c) = e
  /\ IF ctnLen = 0 \/ Has("ALLOW_TRAILING_COMMAS") THEN Goto(label, c + 1)
     ELSE Fail("JSON_STRUCTURE", Behind(c))

On(e, c, label, next) == At(c) = e /\ Goto(label, next)

Opening(c) == On("{", c, "obj_begin", c + 1) \/ On("[", c, "arr_begin", c + 1)

\* What may stand where a value does.
ValueSet == DOMAIN Scalar \cup DOMAIN Misread \cup {"{", "["}

\* arr_begin, obj_begin: push a container, which keeps the way to its parent
Begin(t, label, c) ==
  \/ /\ vals' = Append([vals EXCEPT ![ctn].len = ctnLen + 1],
                       [t |-> t, len |-> 0, ofs |-> Len(vals) + 1 - ctn])
     /\ alcLen' = Grown
     /\ ctn' = Len(vals) + 1
     /\ ctnLen' = 0
     /\ pc' = label
     /\ cur' = c
     /\ UNCHANGED <<input, flg, text, style, pre, held, err>>
  \/ Full /\ Fail("MEMORY_ALLOCATION", cur)

\* arr_end, obj_end: pop it; its offset leads past its contents from now on
Finish(t, len, c) ==
  LET parent == ctn - vals[ctn].ofs
  IN /\ vals' = [vals EXCEPT ![ctn] = [t |-> t, len |-> len,
                                       ofs |-> Len(vals) - ctn + 1]]
     /\ IF ctn = parent
        THEN /\ pc' = "doc_end"
             /\ UNCHANGED <<ctn, ctnLen, cur>>
        ELSE /\ ctn' = parent
             /\ ctnLen' = vals[parent].len
             /\ pc' = IF vals[parent].t = "OBJ" THEN "obj_val_end"
                      ELSE "arr_val_end"
             /\ cur' = c
     /\ UNCHANGED <<input, flg, text, style, alcLen, pre, held, err>>

\* doc_end: what follows the document
DocEnd ==
  LET s == Skip[cur]
      c == IF cur >= End \/ Has("STOP_WHEN_DONE") THEN cur
           ELSE IF Has("ALLOW_COMMENTS") THEN s.cur ELSE PastSpaces(cur)
  IN IF c < End /\ ~Has("STOP_WHEN_DONE")
     THEN Fail(IF Has("ALLOW_COMMENTS") /\ s.open THEN "INVALID_COMMENT"
               ELSE "UNEXPECTED_CONTENT", c)
     ELSE /\ cur' = c
          /\ text' = IF pre \in 1..Len(text) THEN [text EXCEPT ![pre] = Pad]
                     ELSE text
          /\ pc' = "result"
          /\ UNCHANGED <<input, flg, style, vals, ctn, ctnLen, alcLen, pre,
                         held, err>>

At_(label, s) == pc = label /\ style = s

-----------------------------------------------------------------------------
(* read_root_single                                                        *)

SingleSetup ==
  /\ At_("setup", "single")
  /\ \/ /\ held' = held \cup {"vals"}
        /\ alcLen' = HdrLen + 1
        /\ pc' = "value"
        /\ UNCHANGED <<input, flg, text, cur, style, vals, ctn, ctnLen, pre, err>>
     \/ Fail("MEMORY_ALLOCATION", cur)

SingleValue ==
  /\ At_("value", "single")
  /\ \/ ReadScalar(cur, FALSE, "doc_end")
     \/ Misreads(cur, FALSE)
     \/ /\ At(cur) \notin DOMAIN Scalar \cup DOMAIN Misread
        /\ Fail("UNEXPECTED_CHARACTER", cur)

SingleDocEnd == At_("doc_end", "single") /\ DocEnd

-----------------------------------------------------------------------------
(* read_root_minify                                                        *)

Setup(ratio, skip) ==
  LET datLen == IF Has("STOP_WHEN_DONE") THEN 256 ELSE End - cur
      isObj  == At(cur) = "{"
  IN \/ /\ held' = held \cup {"vals"}
        /\ alcLen' = HdrLen + datLen \div ratio + 4
        /\ vals' = <<Value(IF isObj THEN "OBJ" ELSE "ARR")>>
        /\ ctn' = 1
        /\ ctnLen' = 0
        /\ cur' = IF skip /\ At(cur + 1) = "\n" THEN cur + 2 ELSE cur + 1
        /\ pc' = IF isObj THEN "obj_key_begin" ELSE "arr_val_begin"
        /\ UNCHANGED <<input, flg, text, style, pre, err>>
     \/ Fail("MEMORY_ALLOCATION", cur)

MinifySetup == At_("setup", "minify") /\ Setup(MinifyRatio, FALSE)

MinifyArrBegin == At_("arr_begin", "minify") /\ Begin("ARR", "arr_val_begin", cur)

ArrVal(c) ==
  \/ Opening(c)
  \/ ReadScalar(c, TRUE, "arr_val_end")
  \/ Misreads(c, TRUE)
  \/ CloseEarly("]", c, "arr_end")
  \/ Blank("arr_val_begin", c, ValueSet \cup {"]"})

MinifyArrVal == At_("arr_val_begin", "minify") /\ ArrVal(cur)

MinifyArrValEnd ==
  /\ At_("arr_val_end", "minify")
  /\ \/ On(",", cur, "arr_val_begin", cur + 1)
     \/ On("]", cur, "arr_end", cur + 1)
     \/ Blank("arr_val_end", cur, {",", "]"})

MinifyArrEnd == At_("arr_end", "minify") /\ Finish("ARR", ctnLen, cur)

MinifyObjBegin == At_("obj_begin", "minify") /\ Begin("OBJ", "obj_key_begin", cur)

ObjKey(c) ==
  \/ At(c) \in {"s", "u"} /\ ReadScalar(c, TRUE, "obj_key_end")
  \/ At(c) \in {"b", "u"} /\ Misreads(c, TRUE)
  \/ CloseEarly("}", c, "obj_end")
  \/ Blank("obj_key_begin", c, {"s", "u", "b", "}"})

MinifyObjKey == At_("obj_key_begin", "minify") /\ ObjKey(cur)

MinifyObjKeyEnd ==
  /\ At_("obj_key_end", "minify")
  /\ \/ On(":", cur, "obj_val_begin", cur + 1)
     \/ Blank("obj_key_end", cur, {":"})

ObjVal ==
  \/ Opening(cur)
  \/ ReadScalar(cur, FALSE, "obj_val_end")
  \/ Misreads(cur, FALSE)
  \/ Blank("obj_val_begin", cur, ValueSet)

MinifyObjVal == At_("obj_val_begin", "minify") /\ ObjVal

MinifyObjValEnd ==
  /\ At_("obj_val_end", "minify")
  /\ \/ On(",", cur, "obj_key_begin", cur + 1)
     \/ On("}", cur, "obj_end", cur + 1)
     \/ Blank("obj_val_end", cur, {",", "}"})

MinifyObjEnd == At_("obj_end", "minify") /\ Finish("OBJ", ctnLen \div 2, cur)

MinifyDocEnd == At_("doc_end", "minify") /\ DocEnd

-----------------------------------------------------------------------------
(* read_root_pretty: the same labels, which also skip what a pretty printer *)
(* writes there.                                                           *)

PastLine(c) == IF At(c) = "\n" THEN c + 1 ELSE c

PastPairs(c) ==
  CHOOSE i \in c..End :
    /\ (i - c) % 2 = 0
    /\ \A j \in c..(i - 1) : At(j) = " "
    /\ ~(At(i) = " " /\ At(i + 1) = " ")

PrettySetup == At_("setup", "pretty") /\ Setup(PrettyRatio, TRUE)

PrettyArrBegin ==
  At_("arr_begin", "pretty") /\ Begin("ARR", "arr_val_begin", PastLine(cur))

PrettyArrVal == At_("arr_val_begin", "pretty") /\ ArrVal(PastPairs(cur))

PrettyArrValEnd ==
  /\ At_("arr_val_end", "pretty")
  /\ \/ On(",", cur, "arr_val_begin", PastLine(cur + 1))
     \/ On("]", cur, "arr_end", cur + 1)
     \/ Blank("arr_val_end", cur, {",", "]"})

PrettyArrEnd == At_("arr_end", "pretty") /\ Finish("ARR", ctnLen, PastLine(cur))

PrettyObjBegin ==
  At_("obj_begin", "pretty") /\ Begin("OBJ", "obj_key_begin", PastLine(cur))

PrettyObjKey == At_("obj_key_begin", "pretty") /\ ObjKey(PastPairs(cur))

PrettyObjKeyEnd ==
  /\ At_("obj_key_end", "pretty")
  /\ \/ On(":", cur, "obj_val_begin", IF At(cur + 1) = " " THEN cur + 2
                                      ELSE cur + 1)
     \/ Blank("obj_key_end", cur, {":"})

PrettyObjVal == At_("obj_val_begin", "pretty") /\ ObjVal

PrettyObjValEnd ==
  /\ At_("obj_val_end", "pretty")
  /\ \/ On(",", cur, "obj_key_begin", PastLine(cur + 1))
     \/ On("}", cur, "obj_end", cur + 1)
     \/ Blank("obj_val_end", cur, {",", "}"})

PrettyObjEnd ==
  At_("obj_end", "pretty") /\ Finish("OBJ", ctnLen \div 2, PastLine(cur))

PrettyDocEnd == At_("doc_end", "pretty") /\ DocEnd

-----------------------------------------------------------------------------
(* yyjson_read_opts                                                        *)

\* return_err of yyjson_read_opts itself
Refuse(code, c) ==
  /\ pc' = "done"
  /\ err' = [code |-> code, pos |-> c]
  /\ held' = {}
  /\ UNCHANGED <<input, flg, text, cur, style, vals, ctn, ctnLen, alcLen, pre>>

Start ==
  /\ pc = "start"
  /\ \/ input = <<>> /\ Refuse("INVALID_PARAMETER", 0)
     \/ input # <<>> /\ ~Insitu /\ Refuse("MEMORY_ALLOCATION", 0)
     \/ /\ input # <<>>
        /\ held' = IF Insitu THEN {} ELSE {"text"}
        /\ pc' = "head"
        /\ UNCHANGED <<input, flg, text, cur, style, vals, ctn, ctnLen, alcLen,
                       pre, err>>

Leading ==
  LET blank  == Space(At(cur)) \/ At(cur) \in {"/*", "//"}
      s == Skip[cur]
      c == IF ~blank THEN cur
           ELSE IF Has("ALLOW_COMMENTS") THEN s.cur ELSE PastSpaces(cur)
  IN /\ pc = "head"
     /\ IF blank /\ Has("ALLOW_COMMENTS") /\ s.open
        THEN Refuse("INVALID_COMMENT", s.cur)
        ELSE IF blank /\ c >= End THEN Refuse("EMPTY_CONTENT", 0)
        ELSE /\ cur' = c
             /\ pc' = "setup"
             /\ style' = IF At(c) \notin {"{", "["} THEN "single"
                         ELSE IF Space(At(c + 1)) /\ Space(At(c + 2))
                         THEN "pretty" ELSE "minify"
             /\ UNCHANGED <<input, flg, text, vals, ctn, ctnLen, alcLen, pre,
                            held, err>>

\* The end of yyjson_read_opts: a read that failed gives up its copy.
Result ==
  /\ pc = "result"
  /\ pc' = "done"
  /\ held' = IF err = NoError \/ Insitu THEN held ELSE held \ {"text"}
  /\ UNCHANGED <<input, flg, text, cur, style, vals, ctn, ctnLen, alcLen, pre,
                 err>>

-----------------------------------------------------------------------------
ReadInit ==
  /\ input \in Texts
  /\ flg \in FlagSets
  /\ text = input
  /\ cur = 1
  /\ pc = "start"
  /\ style = "none"
  /\ vals = <<>>
  /\ ctn = 0
  /\ ctnLen = 0
  /\ alcLen = 0
  /\ pre = 0
  /\ held = {}
  /\ err = NoError

Read ==
  \/ Start \/ Leading \/ Result
  \/ SingleSetup \/ SingleValue \/ SingleDocEnd
  \/ MinifySetup \/ MinifyArrBegin \/ MinifyArrVal \/ MinifyArrValEnd
  \/ MinifyArrEnd \/ MinifyObjBegin \/ MinifyObjKey \/ MinifyObjKeyEnd
  \/ MinifyObjVal \/ MinifyObjValEnd \/ MinifyObjEnd \/ MinifyDocEnd
  \/ PrettySetup \/ PrettyArrBegin \/ PrettyArrVal \/ PrettyArrValEnd
  \/ PrettyArrEnd \/ PrettyObjBegin \/ PrettyObjKey \/ PrettyObjKeyEnd
  \/ PrettyObjVal \/ PrettyObjValEnd \/ PrettyObjEnd \/ PrettyDocEnd

=============================================================================
