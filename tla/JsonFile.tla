------------------------------ MODULE JsonFile ------------------------------
(***************************************************************************)
(* Documents in files, of src/util/yyjson.c.  A file is read at once when  *)
(* its size can be found, and otherwise in growing pieces, and may change  *)
(* while it is read; it is written by replacing what it held.  Only the    *)
(* numbers of bytes are told apart.                                        *)
(***************************************************************************)
EXTENDS Integers, FiniteSetsExt

CONSTANTS MostBytes,   \* bound: the sizes of files and texts
          Padding,     \* YYJSON_PADDING_SIZE
          ChunkMin, ChunkMax

ASSUME FileAssumption ==
  MostBytes \in Nat /\ Padding \in Nat /\ ChunkMin \in Nat /\ ChunkMax \in Nat

VARIABLES disk,        \* the bytes of the file
          changed,     \* whether others changed it since the call began
          fat,         \* where the call is
          ours,        \* whether the call opened the file
          open,        \* whether it is open
          fpos,        \* its position
          begun,       \* where the bytes that are read or written begin
          fileSize,    \* file_size
          short,       \* the bytes by which the file ended in front of the
                       \* position when its size was taken
          bufSize,     \* buf_size, 0 without a buffer
          chunkNow,    \* chunk_now
          written      \* the length of the text that is written, how much of it
                       \* the stream still has, and what the last call returned:
                       \* "none", "doc", "error", "true" or "false"

fileVars == <<disk, changed, fat, ours, open, fpos, begun, fileSize, short,
              bufSize, chunkNow, written>>

NoText == [length |-> 0, pending |-> 0, result |-> "none"]

Sizes0 == 0..MostBytes
Rest == IF fpos < disk THEN disk - fpos ELSE 0

Returned(r) == written' = [written EXCEPT !.result = r]

\* The call returns: the buffer is freed unless the document has it, and the
\* file is closed when the call opened it.
Return(r) ==
  /\ fat' = "idle"
  /\ bufSize' = IF r = "doc" THEN bufSize ELSE 0
  /\ open' = (open /\ ~ours)
  /\ Returned(r)

-----------------------------------------------------------------------------
\* Someone else changes the size of the file.
Others ==
  /\ fat # "idle"
  /\ disk' \in Sizes0
  /\ changed' = TRUE
  /\ UNCHANGED <<fat, ours, open, fpos, begun, fileSize, short, bufSize, chunkNow, written>>

\* The program puts a file of any size there, and frees the document it read.
Another ==
  /\ fat = "idle"
  /\ disk' \in Sizes0
  /\ open' = FALSE /\ bufSize' = 0
  /\ written' = NoText
  /\ UNCHANGED <<changed, fat, ours, fpos, begun, fileSize, short, chunkNow>>

\* yyjson_read_file opens the file; yyjson_read_fp is given one that is open, at
\* a position in it.
BeginRead ==
  /\ fat = "idle" /\ written.result = "none"
  /\ ours' \in BOOLEAN
  /\ fpos' \in 0..(IF ours' THEN 0 ELSE disk)
  /\ begun' = fpos'
  /\ open' = TRUE /\ changed' = FALSE /\ fat' = "measure"
  /\ UNCHANGED <<disk, fileSize, short, bufSize, chunkNow, written>>

OpenFails ==
  /\ fat = "idle" /\ written.result = "none"
  /\ \E r \in {"error", "false"} : Returned(r)
  /\ UNCHANGED <<disk, changed, fat, ours, open, fpos, begun, fileSize, short, bufSize, chunkNow>>

\* The size from the position to the end, which is negative when the file has
\* become shorter than that; 0 when it cannot be told, or when the position could
\* not be set back.
Measure ==
  /\ fat = "measure"
  /\ \/ disk > 0 /\ fileSize' = disk - fpos /\ UNCHANGED fpos
     \/ fileSize' = 0 /\ UNCHANGED fpos
     \/ fileSize' = 0 /\ fpos' = disk
  /\ begun' = fpos'
  /\ short' = IF fileSize' < 0 THEN 0 - fileSize' ELSE 0
  /\ fat' = IF fileSize' > 0 THEN "whole" ELSE "pieces"
  /\ chunkNow' = ChunkMin
  /\ UNCHANGED <<disk, changed, ours, open, bufSize, written>>

\* fread_safe: everything there is up to n bytes, or fewer when it fails
Fread(n) ==
  LET all == Min({n, Rest}) IN {all} \cup {0}

ReadWhole ==
  /\ fat = "whole"
  /\ \/ \E n \in Fread(fileSize) :
          /\ fpos' = fpos + n
          /\ IF n = fileSize
             THEN /\ bufSize' = fileSize + Padding /\ fat' = "parse"
                  /\ UNCHANGED <<open, written>>
             ELSE Return("error")
     \/ Return("error") /\ UNCHANGED fpos          \* no memory
  /\ UNCHANGED <<disk, changed, ours, begun, fileSize, short, chunkNow>>

\* The buffer has room for the piece, and none for the padding.
GrownBarely == bufSize + chunkNow
GrownBuf == (IF bufSize = 0 THEN Padding ELSE bufSize) + chunkNow

ReadPiece ==
  /\ fat = "pieces"
  /\ \/ \E n \in Fread(chunkNow) :
          /\ fpos' = fpos + n
          /\ bufSize' = GrownBuf
          /\ fileSize' = fileSize + n
          /\ IF n = chunkNow THEN chunkNow' = Min({2 * chunkNow, ChunkMax}) /\ UNCHANGED fat
             ELSE fat' = "parse" /\ UNCHANGED chunkNow
          /\ UNCHANGED <<open, written>>
     \/ Return("error") /\ UNCHANGED <<fpos, fileSize, chunkNow>>   \* no memory
  /\ UNCHANGED <<disk, changed, ours, begun, short>>

\* The padding is set behind the bytes, and they are read in place.
Parse ==
  /\ fat = "parse"
  /\ \/ fileSize > 0 /\ Return("doc")
     \/ Return("error")
  /\ UNCHANGED <<disk, changed, ours, fpos, begun, fileSize, short, chunkNow>>

-----------------------------------------------------------------------------
\* yyjson_val_write_file: the text is made, the file opened and emptied;
\* yyjson_val_write_fp writes at the end of the caller's file.
BeginWrite ==
  /\ fat = "idle" /\ written.result = "none"
  /\ \E n \in Sizes0 \ {0} :
       /\ written' = [NoText EXCEPT !.length = n]
       /\ bufSize' = n
  /\ ours' \in BOOLEAN
  /\ disk' = IF ours' THEN 0 ELSE disk
  /\ begun' = disk'
  /\ open' = TRUE /\ changed' = FALSE /\ fat' = "write"
  /\ UNCHANGED <<fpos, fileSize, short, chunkNow>>

\* yyjson_mut_val_write_file and yyjson_mut_val_write_fp do the same.
BeginMutWrite == BeginWrite

\* fwrite in write_dat_to_file and write_dat_to_fp: what it accepts may be on
\* the disk or still in the stream, and when it fails, some of the text is.
Fwrite ==
  /\ fat = "write"
  /\ \E n \in 0..written.length :
       /\ disk' = begun + n
       /\ \/ n < written.length /\ Return("false")
          \/ /\ ~ours /\ fat' = "idle" /\ bufSize' = 0
             /\ written' = [written EXCEPT !.pending = written.length - n,
                                           !.result = "true"]
             /\ UNCHANGED open
          \/ /\ ours /\ fat' = "close"
             /\ written' = [written EXCEPT !.pending = written.length - n]
             /\ UNCHANGED <<open, bufSize>>
  /\ UNCHANGED <<changed, ours, fpos, begun, fileSize, short, chunkNow>>

\* fclose in write_dat_to_file, which may fail to write the rest
Fclose ==
  /\ fat = "close"
  /\ \E n \in 0..written.pending :
       /\ disk' = disk + n
       /\ Return(IF n = written.pending THEN "true" ELSE "false")
  /\ UNCHANGED <<changed, ours, fpos, begun, fileSize, short, chunkNow>>

-----------------------------------------------------------------------------
FileInit ==
  /\ disk \in Sizes0
  /\ changed = FALSE /\ fat = "idle" /\ ours = FALSE /\ open = FALSE
  /\ fpos = 0 /\ begun = 0 /\ fileSize = 0 /\ short = 0 /\ bufSize = 0 /\ chunkNow = 0
  /\ written = NoText

FileNext ==
  \/ Others \/ Another
  \/ BeginRead \/ OpenFails \/ Measure \/ ReadWhole \/ ReadPiece \/ Parse
  \/ BeginWrite \/ BeginMutWrite \/ Fwrite \/ Fclose

FileSpec == FileInit /\ [][FileNext]_fileVars

-----------------------------------------------------------------------------
(* Properties.                                                             *)

\* The bytes that are parsed are those that were read, and they and their padding
\* are in the buffer; but not when the file has become shorter than the position
\* before its size was taken: then they are counted from as far below zero, and
\* the padding may be set in front of the buffer.  A buffer or a file that a call
\* opened does not outlive it, except in the document; and when a call says that
\* the text was written, it is in the file, or for a file of the caller partly in
\* its stream.
FilesWhole ==
  /\ fat = "parse" =>
       /\ fileSize + Padding <= bufSize
       /\ fileSize = fpos - begun - short
       /\ IF short = 0 THEN fileSize >= 0 ELSE short > 0 /\ changed
  /\ fat = "idle" /\ written.result # "doc" => bufSize = 0
  /\ fat = "idle" /\ ours => ~open
  /\ fat = "idle" /\ written.result = "true" /\ ~changed =>
       IF ours THEN disk = begun + written.length
       ELSE disk + written.pending = begun + written.length

\* What is said of the flag that the text is read with: it must be padded, and it
\* and its padding are in the buffer.
PaddedInput == fat = "parse" => 0 <= fileSize /\ fileSize + Padding <= bufSize

=============================================================================
