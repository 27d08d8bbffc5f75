----------------------------- MODULE JsonWriter -----------------------------
(***************************************************************************)
(* The JSON writers of src/util/yyjson.c.  There are five: one for a single *)
(* value, and one for each pair of immutable or mutable values and minified *)
(* or pretty text.  Each fills a buffer from its front, while the stack of  *)
(* the open containers grows towards it from the buffer's end.              *)
(*                                                                         *)
(* The written text is a sequence of the elements of JsonReader; what is    *)
(* counted in bytes is what the room in the buffer depends on.  `imut' is   *)
(* an array of values as JsonReader leaves it.  `mut' holds mutable values: *)
(* a container's `last' is its uni.ptr, the last value (an object's last    *)
(* key) of a circular list linked by `next'.                                *)
(***************************************************************************)
EXTENDS Naturals, Sequences

CONSTANTS WriteFlagSets,   \* the sets of yyjson_write_flag that may be given
          StrLens          \* the lengths strings may have

ASSUME WriterAssumption == StrLens \subseteq Nat

VARIABLES imut,     \* the immutable values, the root first
          mut,      \* the mutable values, the root first
          kind,     \* which of the two is written: "imut", "mut"
          est,      \* the estimate of the number of values
          wflg,     \* flg
          strLen,   \* the length of every string, in bytes
          wpc,      \* the label the writer is at
          val,      \* val, an index
          wctn,     \* ctn of the mutable writers, an index
          left,     \* ctn_len
          isObj,    \* ctn_obj
          ctx,      \* the stack from ctx to end, its top first
          level,    \* level
          out,      \* the elements from hdr to cur
          wcur,     \* cur - hdr
          wend,     \* end - hdr: alc_len
          top,      \* one past the last byte the last step wrote
          wheld,    \* whether the buffer is allocated
          werr      \* err->code

writeVars == <<imut, mut, kind, est, wflg, strLen, wpc, val, wctn, left, isObj,
               ctx, level, out, wcur, wend, top, wheld, werr>>
fixed == <<imut, mut, kind, est, wflg, strLen>>

WHas(flag) == flag \in wflg
Pretty == wflg \cap {"PRETTY", "PRETTY_TWO_SPACES"} # {}

Node(i) == IF kind = "imut" THEN imut[i] ELSE mut[i]
IsCtn(v) == v.t \in {"ARR", "OBJ"}
Brackets(isO) == IF isO THEN <<"{", "}">> ELSE <<"[", "]">>

-----------------------------------------------------------------------------
(* Bytes.                                                                  *)

\* sizeof(yyjson_write_ctx), sizeof(yyjson_mut_write_ctx)
CtxSize == IF kind = "imut" THEN 8 ELSE 16
AlignUp(n) == ((n + CtxSize - 1) \div CtxSize) * CtxSize
CtxPos == wend - CtxSize * Len(ctx)
Larger(a, b) == IF a < b THEN b ELSE a

\* YYJSON_WRITER_ESTIMATED_MINIFY_RATIO and _PRETTY_RATIO
Ratio == IF Pretty THEN 32 ELSE 18

\* What write_string, write_number, write_raw, write_bool and write_null make
\* of a value, and the most bytes they write; a literal is copied as 8 bytes.
\* Without room for a NaN the two flags decide.
NumWidth == 24
Written(v) ==
  CASE v.t = "STR"   -> <<"s">>
    [] v.t = "USTR"  -> IF WHas("ALLOW_INVALID_UNICODE") THEN <<"u">> ELSE <<>>
    [] v.t \in {"NUM", "RAW"} -> <<"d">>
    [] v.t = "INF"   -> IF WHas("INF_AND_NAN_AS_NULL") THEN <<"n">>
                        ELSE IF WHas("ALLOW_INF_AND_NAN") THEN <<"inf">>
                        ELSE <<>>
    [] v.t = "TRUE"  -> <<"t">>
    [] v.t = "FALSE" -> <<"f">>
    [] v.t = "NULL"  -> <<"n">>
    [] OTHER -> <<>>

\* The error of a value that cannot be written
NotWritten(v) ==
  CASE v.t \in {"STR", "USTR"} -> "INVALID_STRING"
    [] v.t = "INF" -> "NAN_OR_INF"
    [] OTHER -> "INVALID_VALUE_TYPE"
Width(v) ==
  CASE v.t \in {"STR", "USTR"} -> 6 * strLen + 2
    [] v.t \in {"NUM", "RAW", "INF"} -> NumWidth
    [] v.t = "FALSE" -> 5
    [] OTHER -> 4

\* What incr_len asks for before a value, without the indent.
Need(v) ==
  CASE v.t \in {"STR", "USTR"} -> 6 * strLen + 16
    [] v.t \in {"NUM", "INF"} -> 32
    [] v.t = "RAW" -> NumWidth + IF Pretty THEN 3 ELSE 2
    [] v.t = "ARR" \/ v.t = "OBJ" -> IF Pretty /\ v.len > 0 THEN 32 ELSE 16
    [] OTHER -> 16

-----------------------------------------------------------------------------
\* return_err
WFail(code) ==
  /\ wpc' = "done"
  /\ werr' = code
  /\ wheld' = FALSE
  /\ out' = <<>>
  /\ UNCHANGED <<fixed, val, wctn, left, isObj, ctx, level, wcur, wend, top>>

\* incr_len, which moves the stack to the new end of the buffer
Short(at, ext) == at + ext >= CtxPos
Grow(at, ext) ==
  IF Short(at, ext) THEN wend + AlignUp(Larger(wend \div 2, ext)) ELSE wend

Spaces == IF WHas("PRETTY_TWO_SPACES") THEN 2 ELSE 4
Indent(n) == [i \in 1..(n * Spaces) |-> " "]
IndentReach(n) == IF n = 0 THEN 0 ELSE n * Spaces + (4 - Spaces)

\* Behind `kept' elements of the text that end at byte `at', indent by n and
\* write the elements es, of so many bytes; `reach' is what is copied of them.
Put(kept, at, n, es, bytes, reach) ==
  /\ out' = kept \o Indent(n) \o es
  /\ wcur' = at + n * Spaces + bytes
  /\ top' = at + Larger(IndentReach(n), n * Spaces + reach)

IsKey == isObj /\ left % 2 = 0
IndentHere == IF Pretty /\ ~(isObj /\ left % 2 = 1) THEN level ELSE 0

\* An object's last key taken for its last value.
FirstOff(i) == IF kind = "imut" THEN i + 1 ELSE mut[mut[i].last].next

\* The first value of a container: the next one, or the one behind the last.
First(i) ==
  IF kind = "imut" THEN i + 1
  ELSE IF mut[i].t = "OBJ" THEN mut[mut[mut[i].last].next].next
  ELSE mut[mut[i].last].next

Count(v) == IF v.t = "OBJ" THEN 2 * v.len ELSE v.len

-----------------------------------------------------------------------------
(* yyjson_val_write_opts, yyjson_mut_write_opts_impl: which writer          *)

WriteStart ==
  LET root == Node(1)
      size == AlignUp(est * Ratio + 64)
  IN /\ wpc = "start"
     /\ \/ WFail("MEMORY_ALLOCATION")
        \/ IF ~IsCtn(root) \/ root.len = 0
           THEN /\ wpc' = "single"
                /\ UNCHANGED <<fixed, val, wctn, left, isObj, ctx, level, out,
                               wcur, wend, top, wheld, werr>>
           ELSE /\ wheld' = TRUE
                /\ wend' = size
                /\ wpc' = "doc_begin"
                /\ UNCHANGED <<fixed, val, wctn, left, isObj, ctx, level, out,
                               wcur, top, werr>>

\* yyjson_write_single: a buffer for this one value
WriteSingle ==
  LET root == Node(1)
      body == IF IsCtn(root) THEN Brackets(root.t = "OBJ") ELSE Written(root)
      size == CASE IsCtn(root) -> 2 + 2
                [] root.t \in {"STR", "USTR"} -> 6 * strLen + 2 + 2
                [] root.t = "RAW" -> NumWidth + 2
                [] root.t \in {"NUM", "INF"} -> 32 + 2
                [] OTHER -> 8
      width == IF IsCtn(root) THEN 2 ELSE Width(root)
      line  == IF WHas("NEWLINE_AT_END") THEN <<"\n">> ELSE <<>>
  IN /\ wpc = "single"
     /\ \/ WFail("MEMORY_ALLOCATION")
        \/ body = <<>> /\ WFail(NotWritten(root))
        \/ /\ body # <<>>
           /\ out' = body \o line
           /\ wcur' = width + Len(line)
           /\ top' = width + Len(line) + 1
           /\ wend' = size
           /\ wheld' = TRUE
           /\ wpc' = "done"
           /\ UNCHANGED <<fixed, val, wctn, left, isObj, ctx, level, werr>>

-----------------------------------------------------------------------------
(* The labels of the four other writers.                                   *)

DocBegin ==
  LET root == Node(1)
      es == <<Brackets(root.t = "OBJ")[1]>> \o IF Pretty THEN <<"\n">> ELSE <<>>
  IN /\ wpc = "doc_begin"
     /\ isObj' = (root.t = "OBJ")
     /\ left' = Count(root)
     /\ Put(<<>>, 0, 0, es, Len(es), Len(es))
     /\ wctn' = 1
     /\ val' = First(1)
     /\ level' = 1
     /\ wpc' = "val_begin"
     /\ UNCHANGED <<fixed, ctx, wend, wheld, werr>>

\* val_end: on to the next value, or to the end of the container
ValEnd(v) ==
  /\ left' = left - 1
  /\ val' = IF kind = "imut" THEN val + 1
            ELSE IF left = 1 THEN val ELSE mut[val].next
  /\ wpc' = IF left = 1 THEN "ctn_end" ELSE "val_begin"

PutScalar ==
  LET v  == Node(val)
      n  == IF v.t = "RAW" THEN 0 ELSE IndentHere
      tail == <<IF IsKey THEN ":" ELSE ",">>
              \o IF ~Pretty THEN <<>> ELSE IF IsKey THEN <<" ">> ELSE <<"\n">>
      bytes == Width(v) + Len(tail)
      ext == Need(v) + 4 * n
  IN /\ ~IsCtn(v)
     /\ \/ Short(wcur, ext) /\ WFail("MEMORY_ALLOCATION")
        \/ Written(v) = <<>> /\ WFail(NotWritten(v))
        \/ /\ Written(v) # <<>>
           /\ Put(out, wcur, n, Written(v) \o tail, bytes, Larger(bytes, 8))
           /\ wend' = Grow(wcur, ext)
           /\ ValEnd(v)
           /\ UNCHANGED <<fixed, wctn, isObj, ctx, level, wheld, werr>>

PutEmpty ==
  LET v  == Node(val)
      es == Brackets(v.t = "OBJ") \o <<",">> \o IF Pretty THEN <<"\n">> ELSE <<>>
      ext == Need(v) + 4 * IndentHere
  IN /\ IsCtn(v) /\ v.len = 0
     /\ \/ Short(wcur, ext) /\ WFail("MEMORY_ALLOCATION")
        \/ /\ Put(out, wcur, IndentHere, es, Len(es), Len(es))
           /\ wend' = Grow(wcur, ext)
           /\ ValEnd(v)
           /\ UNCHANGED <<fixed, wctn, isObj, ctx, level, wheld, werr>>

\* Push the container that is open, and open this one.
Push ==
  LET v  == Node(val)
      es == <<Brackets(v.t = "OBJ")[1]>> \o IF Pretty THEN <<"\n">> ELSE <<>>
      ext == Need(v) + 4 * IndentHere
  IN /\ IsCtn(v) /\ v.len > 0
     /\ \/ Short(wcur, ext) /\ WFail("MEMORY_ALLOCATION")
        \/ /\ ctx' = <<[left |-> left, isObj |-> isObj, ctn |-> wctn]>> \o ctx
           /\ Put(out, wcur, IndentHere, es, Len(es), Len(es))
           /\ wend' = Grow(wcur, ext)
           /\ left' = Count(v)
           /\ isObj' = (v.t = "OBJ")
           /\ level' = level + 1
           /\ wctn' = val
           /\ val' = First(val)
           /\ wpc' = "val_begin"
           /\ UNCHANGED <<fixed, wheld, werr>>

ValBegin == wpc = "val_begin" /\ (PutScalar \/ PutEmpty \/ Push)

\* ctn_end: the last comma goes, the bracket comes, the stack is popped
Back(n) == SubSeq(out, 1, Len(out) - n)
Pop ==
  IF ctx = <<>>
  THEN /\ wpc' = "doc_end"
       /\ UNCHANGED <<ctx, left, isObj, wctn, val>>
  ELSE /\ ctx' = Tail(ctx)
       /\ left' = ctx[1].left - 1
       /\ isObj' = ctx[1].isObj
       /\ wctn' = ctx[1].ctn
       /\ val' = IF kind = "imut" THEN val ELSE mut[wctn].next
       /\ wpc' = IF ctx[1].left = 1 THEN "ctn_end" ELSE "val_begin"

\* In the minified text a bracket takes the comma's place and a comma follows
\* it; nothing asks for room.
MinifyCtnEnd ==
  /\ wpc = "ctn_end"
  /\ Put(Back(1), wcur - 1, 0, <<Brackets(isObj)[2], ",">>, 2, 2)
  /\ Pop
  /\ UNCHANGED <<fixed, level, wend, wheld, werr>>

PrettyCtnEnd ==
  LET es == <<Brackets(isObj)[2]>> \o IF ctx = <<>> THEN <<>> ELSE <<",", "\n">>
  IN /\ wpc = "ctn_end"
     /\ \/ Short(wcur - 1, level * 4) /\ WFail("MEMORY_ALLOCATION")
        \/ /\ Put(Append(Back(2), "\n"), wcur - 1, level - 1, es, Len(es), Len(es))
           /\ wend' = Grow(wcur - 1, level * 4)
           /\ level' = level - 1
           /\ Pop
           /\ UNCHANGED <<fixed, wheld, werr>>

\* doc_end: the text ends with a zero, behind a line end when that is asked for
WDocEnd(kept, at) ==
  LET line == IF WHas("NEWLINE_AT_END") THEN <<"\n">> ELSE <<>>
  IN /\ wpc = "doc_end"
     /\ \/ line # <<>> /\ Short(wcur, 2) /\ WFail("MEMORY_ALLOCATION")
        \/ /\ wend' = IF line # <<>> THEN Grow(wcur, 2) ELSE wend
           /\ Put(kept, at, 0, line, Len(line), Len(line) + 1)
           /\ wpc' = "done"
           /\ UNCHANGED <<fixed, val, wctn, left, isObj, ctx, level, wheld, werr>>

By(k, p) == kind = k /\ Pretty = p

-----------------------------------------------------------------------------
(* yyjson_write_minify                                                     *)
ImutMinifyBegin  == By("imut", FALSE) /\ DocBegin
ImutMinifyValue  == By("imut", FALSE) /\ ValBegin
ImutMinifyCtnEnd == By("imut", FALSE) /\ MinifyCtnEnd
ImutMinifyDocEnd == By("imut", FALSE) /\ WDocEnd(Back(1), wcur - 1)

(* yyjson_write_pretty                                                     *)
ImutPrettyBegin  == By("imut", TRUE) /\ DocBegin
ImutPrettyValue  == By("imut", TRUE) /\ ValBegin
ImutPrettyCtnEnd == By("imut", TRUE) /\ PrettyCtnEnd
ImutPrettyDocEnd == By("imut", TRUE) /\ WDocEnd(out, wcur)

(* yyjson_mut_write_minify                                                 *)
MutMinifyBegin  == By("mut", FALSE) /\ DocBegin
MutMinifyValue  == By("mut", FALSE) /\ ValBegin
MutMinifyCtnEnd == By("mut", FALSE) /\ MinifyCtnEnd
MutMinifyDocEnd == By("mut", FALSE) /\ WDocEnd(Back(1), wcur - 1)

(* yyjson_mut_write_pretty                                                 *)
MutPrettyBegin  == By("mut", TRUE) /\ DocBegin
MutPrettyValue  == By("mut", TRUE) /\ ValBegin
MutPrettyCtnEnd == By("mut", TRUE) /\ PrettyCtnEnd
MutPrettyDocEnd == By("mut", TRUE) /\ WDocEnd(out, wcur)

-----------------------------------------------------------------------------
WriteInit ==
  /\ imut = <<>>
  /\ mut = <<>>
  /\ kind = "imut"
  /\ est = 0
  /\ wflg = {}
  /\ strLen = 0
  /\ wpc = "off"
  /\ val = 0
  /\ wctn = 0
  /\ left = 0
  /\ isObj = FALSE
  /\ ctx = <<>>
  /\ level = 0
  /\ out = <<>>
  /\ wcur = 0
  /\ wend = 0
  /\ top = 0
  /\ wheld = FALSE
  /\ werr = "SUCCESS"

Write ==
  \/ WriteStart \/ WriteSingle
  \/ ImutMinifyBegin \/ ImutMinifyValue \/ ImutMinifyCtnEnd \/ ImutMinifyDocEnd
  \/ ImutPrettyBegin \/ ImutPrettyValue \/ ImutPrettyCtnEnd \/ ImutPrettyDocEnd
  \/ MutMinifyBegin \/ MutMinifyValue \/ MutMinifyCtnEnd \/ MutMinifyDocEnd
  \/ MutPrettyBegin \/ MutPrettyValue \/ MutPrettyCtnEnd \/ MutPrettyDocEnd

=============================================================================
