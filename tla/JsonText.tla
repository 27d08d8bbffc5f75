------------------------------ MODULE JsonText ------------------------------
(***************************************************************************)
(* A JSON text's way through src/util/yyjson.c: it is read (JsonReader),   *)
(* the document is written as it is or copied to a mutable one first       *)
(* (JsonCopy, JsonWriter), and what was written is read again.             *)
(***************************************************************************)
EXTENDS JsonReader, JsonWriter, JsonCopy

CONSTANT Rewritten    \* the texts whose documents are written

VARIABLE round        \* 1 in the first read and the writing, 2 in the second

textVars == <<readVars, writeVars, round>>

-----------------------------------------------------------------------------
TextInit == ReadInit /\ WriteInit /\ round = 1

Reading == Read /\ UNCHANGED <<writeVars, round>>

\* yyjson_write_opts with the document, or yyjson_doc_mut_copy and then
\* yyjson_mut_write_opts with the copy or yyjson_mut_val_write_opts with its
\* root, whose number of values nobody knows.
WriteDoc ==
  /\ pc = "done" /\ err = NoError
  /\ round = 1 /\ wpc = "off"
  /\ input \in Rewritten
  /\ imut' = vals
  /\ wflg' \in WriteFlagSets
  /\ strLen' \in StrLens
  /\ \/ kind' = "imut" /\ est' = Len(vals) /\ mut' = <<>>
     \/ kind' = "mut" /\ est' \in {0, Len(vals)} /\ mut' = MutCopy(vals)
  /\ wpc' = "start"
  /\ UNCHANGED <<readVars, val, wctn, left, isObj, ctx, level, out, wcur, wend,
                 top, wheld, werr, round>>

Writing == Write /\ UNCHANGED <<readVars, round>>

\* Read what was written, with the flags it takes to accept it.
Reread ==
  /\ wpc = "done" /\ werr = "SUCCESS" /\ round = 1
  /\ round' = 2
  /\ input' = out
  /\ text' = out
  /\ cur' = 1
  /\ pc' = "start"
  /\ style' = "none"
  /\ vals' = <<>> /\ ctn' = 0 /\ ctnLen' = 0 /\ alcLen' = 0 /\ pre' = 0
  /\ held' = {} /\ err' = NoError
  /\ UNCHANGED <<flg, writeVars>>

TextNext == Reading \/ WriteDoc \/ Writing \/ Reread

TextSpec == TextInit /\ [][TextNext]_textVars

-----------------------------------------------------------------------------
(* Properties.                                                             *)

\* No value lies behind the memory allocated for it, though the value of a pair
\* is written without a look at the room: val_incr keeps two slots in reserve.
ValuesFit == vals # <<>> => HdrLen + Len(vals) <= alcLen

\* A read that fails has freed what it allocated, and a document holds its
\* values and the text its strings point into, which is the caller's when it
\* was read in place.
OwnsWhatItReturns ==
  pc = "done" => held = IF err # NoError THEN {}
                        ELSE {"vals"} \cup IF Insitu THEN {} ELSE {"text"}

\* The text being written and the stack of open containers share one buffer
\* and never meet, though closing a container asks for no room.
TextBelowStack == wheld => top <= IF wpc = "done" THEN wend ELSE CtxPos

\* The comma that an error of a trailing one points at is looked for by going
\* back over a text that reading numbers as raw text writes zeros into, and
\* nothing but the comma ends that search: it is found, within the text.
CommaIsFound ==
  err.code = "JSON_STRUCTURE" => err.pos \in DOMAIN text /\ text[err.pos] = ","

\* The memory of a read and of a write holds what is put in it and looked for
\* there, and is given back.
MemoryExact == ValuesFit /\ OwnsWhatItReturns /\ TextBelowStack /\ CommaIsFound

=============================================================================
