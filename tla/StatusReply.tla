------------------------------ MODULE StatusReply ------------------------------
(***************************************************************************)
(* The answer to a status request: config2json of util/config.c and the    *)
(* part of handle_client in main.c that turns its text into a packet and   *)
(* sends it.  Every malloc may fail: those of the values of the JSON       *)
(* document leave something out of the text, the others end the answer.    *)
(***************************************************************************)
EXTENDS Integers, Sequences, FiniteSets

CONSTANTS
  ChunkValues,   \* how many values the document's first chunk has room for
  TextSize,      \* sizeof json_response: its texts are this long at most
  Lengths        \* the lengths the text may have

\* The calls up to the sample's key take 15 values, which the first chunk has.
ASSUME StatusReplyAssumption ==
  /\ {ChunkValues, TextSize} \cup Lengths \subseteq Nat
  /\ ChunkValues >= 15

VARIABLES
  srSet,       \* which of "description" and "favicon" the config has
  srPc,        \* the next step of config2json or of handle_client
  srStep,      \* how many of the calls that fill the document have been made
  srRoom,      \* the values left in the current chunk
  srChunk,     \* how many values the next chunk has room for, 0 before the first
  srMade,      \* the objects and keys that were created, and are not NULL
  srMembers,   \* the members that were added to their objects
  srHeap,      \* what is allocated
  srLength,    \* the length of the text, and then of the packet's copy
  srPast,      \* how many bytes strcpy writes behind the array
  srSent       \* the members of the text that is sent to the client, if any

(* Auxiliary. *)
VARIABLE srRefused   \* a malloc for values has failed

srvars == <<srSet, srPc, srStep, srRoom, srChunk, srMade, srMembers, srHeap,
            srLength, srPast, srSent, srRefused>>

None == "none"

SrInit ==
  /\ srSet \in SUBSET {"description", "favicon"}
  /\ srPc = "favicon" /\ srStep = 1 /\ srRoom = 0 /\ srChunk = 0
  /\ srMade = {} /\ srMembers = {} /\ srHeap = {}
  /\ srLength = 0 /\ srPast = 0 /\ srSent = {} /\ srRefused = FALSE

-------------------------------------------------------------------------------
(* config2json. *)

\* The calls that fill the document: the name of what each creates, how many
\* values that takes, and the object it is added to at once, if any.
Call(name, values, object) == [name |-> name, values |-> values, object |-> object]

\* Mutation: the description comes before the players.
CallsReordered == <<
  Call("root", 1, None), Call("version", 1, None), Call("players", 1, None),
  Call("sample", 1, None), Call("versionKey", 1, None), Call("name", 2, "version"),
  Call("protocol", 2, "version"), Call("description", 2, "root"),
  Call("favicon", 2, "root"), Call("playersKey", 1, None),
  Call("max", 2, "players"), Call("online", 2, "players"), Call("sampleKey", 1, None)>>

Calls == <<
  Call("root", 1, None), Call("version", 1, None), Call("players", 1, None),
  Call("sample", 1, None), Call("versionKey", 1, None), Call("playersKey", 1, None),
  Call("name", 2, "version"), Call("protocol", 2, "version"),
  Call("max", 2, "players"), Call("online", 2, "players"), Call("sampleKey", 1, None),
  Call("description", 2, "root"), Call("favicon", 2, "root")>>

\* yyjson_mut_obj_add with a key of its own: nothing that is NULL is added.
AddedWithKey == [key \in {"versionKey", "playersKey", "sampleKey"} |->
  CASE key = "versionKey" -> [object |-> "root", member |-> "version"]
    [] key = "playersKey" -> [object |-> "root", member |-> "players"]
    [] key = "sampleKey"  -> [object |-> "players", member |-> "sample"]]

\* The buffer for the favicon's URI, when there is a favicon.  It is never
\* freed.
MallocFavicon ==
  /\ srPc = "favicon"
  /\ IF "favicon" \in srSet
       THEN \/ srPc' = "doc" /\ srHeap' = {"favicon"}
            \/ srPc' = "error" /\ UNCHANGED srHeap
       ELSE srPc' = "doc" /\ UNCHANGED srHeap
  /\ UNCHANGED <<srSet, srStep, srRoom, srChunk, srMade, srMembers, srLength,
                 srPast, srSent, srRefused>>

\* yyjson_mut_doc_new.  Without a document every call that follows does
\* nothing, and yyjson_mut_write returns NULL.
NewDoc ==
  /\ srPc = "doc"
  /\ \/ srPc' = "fill" /\ srHeap' = srHeap \cup {"doc"}
     \/ srPc' = "error" /\ UNCHANGED srHeap
  /\ UNCHANGED <<srSet, srStep, srRoom, srChunk, srMade, srMembers, srLength,
                 srPast, srSent, srRefused>>

\* Whether a call asks for values: not when its object is NULL, and not for a
\* field the config does not have.
Asks(call) ==
  /\ call.object = None \/ call.object \in srMade
  /\ call.name \in {"description", "favicon"} => call.name \in srSet

\* What the object has once the call has its values.
Members(call) ==
  IF call.object # None THEN srMembers \cup {call.name}
  ELSE IF call.name \in DOMAIN AddedWithKey
         /\ {AddedWithKey[call.name].object, AddedWithKey[call.name].member} \subseteq srMade
    THEN srMembers \cup {AddedWithKey[call.name].member}
    ELSE srMembers

\* Room for the next chunk: the first has ChunkValues and a header as large as
\* a value, and each is twice as large as the one before.
NextChunk == IF srChunk = 0 THEN ChunkValues ELSE srChunk

\* One call: unsafe_yyjson_mut_val takes values from the chunk, or grows the
\* pool.  When that fails the call returns NULL, or false.
Fill ==
  /\ srPc = "fill" /\ srStep <= Len(Calls)
  /\ srStep' = srStep + 1
  /\ LET call == Calls[srStep]
         taken(room) == /\ srRoom' = room - call.values
                        /\ srMade' = srMade \cup {call.name}
                        /\ srMembers' = Members(call)
     IN \/ /\ ~Asks(call)
           /\ UNCHANGED <<srRoom, srChunk, srMade, srMembers, srHeap, srRefused>>
        \/ /\ Asks(call) /\ srRoom >= call.values
           /\ taken(srRoom) /\ UNCHANGED <<srChunk, srHeap, srRefused>>
        \/ /\ Asks(call) /\ srRoom < call.values
           /\ taken(NextChunk) /\ srChunk' = 2 * NextChunk + 1
           /\ srHeap' = srHeap \cup {IF srChunk = 0 THEN "chunk" ELSE "secondChunk"}
           /\ UNCHANGED srRefused
        \/ /\ Asks(call) /\ srRoom < call.values
           /\ srRefused' = TRUE
           /\ UNCHANGED <<srRoom, srChunk, srMade, srMembers, srHeap>>
  /\ UNCHANGED <<srSet, srPc, srLength, srPast, srSent>>

\* The document and its chunks are freed, before config2json returns.
WithoutDoc == srHeap \ {"doc", "chunk", "secondChunk"}

\* yyjson_mut_write: it fails without a root, and when a malloc does.
Write ==
  /\ srPc = "fill" /\ srStep > Len(Calls)
  /\ \/ /\ "root" \in srMade
        /\ srPc' = "text" /\ srLength' \in Lengths
        /\ srHeap' = WithoutDoc \cup {"json"}
     \/ srPc' = "error" /\ srHeap' = WithoutDoc /\ UNCHANGED srLength
  /\ UNCHANGED <<srSet, srStep, srRoom, srChunk, srMade, srMembers, srPast,
                 srSent, srRefused>>

-------------------------------------------------------------------------------
(* handle_client, once it has the text. *)

TooLong == srLength > TextSize

\* The text is copied with the 0 at its end.
CopyText ==
  /\ srPc = "text"
  /\ IF TooLong
       THEN srPc' = "closed" /\ srHeap' = srHeap \ {"json"} /\ UNCHANGED srPast
       ELSE /\ srPc' = "scratch" /\ UNCHANGED srHeap
            /\ srPast' = IF srLength + 1 > TextSize THEN srLength + 1 - TextSize ELSE 0
  /\ UNCHANGED <<srSet, srStep, srRoom, srChunk, srMade, srMembers, srLength,
                 srSent, srRefused>>

\* status_response_packet_write gets a copy of the array, and takes the length
\* again: a text that fills the array has no end there, and any length.
MeasureText ==
  /\ srPc = "scratch"
  /\ \E length \in IF srLength = TextSize THEN {TextSize, TextSize + 1} ELSE {srLength} :
       \/ /\ length <= TextSize
          /\ srPc' = "packet" /\ srHeap' = srHeap \cup {"scratch"} /\ srLength' = length
       \/ /\ srPc' = "closed" /\ srHeap' = srHeap \ {"json"}   \* too long, or no memory
          /\ UNCHANGED srLength
  /\ UNCHANGED <<srSet, srStep, srRoom, srChunk, srMade, srMembers, srPast,
                 srSent, srRefused>>

\* Mutation: the text is kept.
TextKept == {"scratch", "packet"}

\* What is freed when status_response_packet_write and its caller fail.
FreedOnFailure == {"json", "scratch", "packet"}

\* The mallocs of the packet and of its data.
MallocReply ==
  /\ srPc \in {"packet", "data"}
  /\ \/ /\ srPc' = IF srPc = "packet" THEN "data" ELSE "send"
        /\ srHeap' = IF srPc = "packet" THEN srHeap \cup {"packet"}
                     ELSE (srHeap \ {"scratch"}) \cup {"data"}
     \/ srPc' = "closed" /\ srHeap' = srHeap \ FreedOnFailure
  /\ UNCHANGED <<srSet, srStep, srRoom, srChunk, srMade, srMembers, srLength,
                 srPast, srSent, srRefused>>

\* The members of the document, as far as they can be reached from its root.
Reached ==
  {member \in srMembers :
     CASE member \in {"name", "protocol"} -> "version" \in srMembers
       [] member \in {"max", "online", "sample"} -> "players" \in srMembers
       [] OTHER -> TRUE}

\* network_send, whole or failing; both ways free the text and the packet.
SendReply ==
  /\ srPc = "send"
  /\ \/ srPc' = "answered" /\ srSent' = Reached
     \/ srPc' = "closed" /\ UNCHANGED srSent
  /\ srHeap' = srHeap \ {"json", "packet", "data"}
  /\ UNCHANGED <<srSet, srStep, srRoom, srChunk, srMade, srMembers, srLength,
                 srPast, srRefused>>

\* config2json has failed: the connection is closed.
ReplyError ==
  /\ srPc = "error"
  /\ srPc' = "closed"
  /\ UNCHANGED <<srSet, srStep, srRoom, srChunk, srMade, srMembers, srHeap,
                 srLength, srPast, srSent, srRefused>>

SrNext ==
  \/ MallocFavicon \/ NewDoc \/ Fill \/ Write
  \/ CopyText \/ MeasureText \/ MallocReply \/ SendReply \/ ReplyError

SrSpec == SrInit /\ [][SrNext]_srvars

-------------------------------------------------------------------------------
(* Properties. *)

Wanted == {"version", "players", "name", "protocol", "max", "online", "sample"} \cup srSet

\* A client that is answered gets every member of the status, unless a malloc
\* for the document's second chunk has failed: then the last two may be
\* missing, and nothing else ever is.  strcpy writes at most one byte behind
\* the array, for a text as long as the array.
AnswerComplete ==
  /\ srPc = "answered" =>
       /\ srSent \subseteq Wanted
       /\ Wanted \ srSent \subseteq (IF srRefused THEN {"description", "favicon"} ELSE {})
  /\ srPast > 0 => srPast = 1 /\ srLength = TextSize

\* However an answer ends, all that it allocated is freed, but for the buffer
\* of the favicon: that one is lost with every answer.
OnlyFaviconLeaks ==
  srPc \in {"answered", "closed"} => srHeap \subseteq {"favicon"} \cap srSet

===============================================================================
