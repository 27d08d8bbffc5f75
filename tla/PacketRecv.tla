------------------------------ MODULE PacketRecv ------------------------------
(***************************************************************************)
(* network_recv of network/network.c, called again and again on one        *)
(* connection, as handle_client does until a call fails.  The client sends *)
(* packets, each its length as a varint and then its body; TCP delivers    *)
(* the bytes in any pieces.  A step is one call to recv with the local     *)
(* computation that follows it.                                            *)
(***************************************************************************)
EXTENDS Varint

CONSTANTS
  Bodies,      \* the bodies a client may send, as sequences of bytes
  MaxPackets   \* a bound on the packets it sends

ASSUME PacketRecvAssumption ==
  /\ Bodies \subseteq Seq(Bytes)
  /\ \A body \in Bodies : Len(body) <= IntMax
  /\ MaxPackets \in Nat

VARIABLES
  packets,   \* the bodies the client sends
  arrived,   \* how many bytes of its stream TCP has delivered
  ended      \* the client's end is closed and no more will arrive

VARIABLES
  pc,        \* "idle" (between calls, or waiting in the first recv), "parse",
             \* "read", or "failed"
  seen,      \* what the recv with MSG_PEEK has returned
  len,       \* (*pkt)->len
  taken,     \* how many bytes have been taken from the stream
  received   \* the packets returned, as the positions before and after each

(* Auxiliary. *)
VARIABLES
  whole,     \* the next packet had arrived when its call peeked
  cut,       \* a call has seen a part of a length prefix only
  cause      \* a call has failed for want of memory or for the timeout

client == <<packets, arrived, ended>>
recvVars == <<client, pc, seen, len, taken, received, whole, cut, cause>>

RecvInit ==
  /\ packets \in UNION {[1 .. n -> Bodies] : n \in 0 .. MaxPackets}
  /\ arrived = 0 /\ ended = FALSE
  /\ pc = "idle" /\ seen = 0 /\ len = 0 /\ taken = 0 /\ received = <<>>
  /\ whole = FALSE /\ cut = FALSE /\ cause = FALSE

-------------------------------------------------------------------------------
(* The client's stream. *)

Prefix(k) == Encode[Len(packets[k])]

\* The position before packet k, and behind the last one.
Start[k \in 1 .. (Len(packets) + 1)] ==
  IF k = 1 THEN 0
           ELSE Start[k - 1] + Len(Prefix(k - 1)) + Len(packets[k - 1])

Total == Start[Len(packets) + 1]

Byte(i) ==
  LET k == CHOOSE k \in 1 .. Len(packets) : Start[k] < i /\ i <= Start[k + 1]
  IN (Prefix(k) \o packets[k])[i - Start[k]]

Arrive ==
  /\ ~ended
  /\ arrived' \in (arrived + 1) .. Total
  /\ UNCHANGED <<packets, ended, pc, seen, len, taken, received, whole, cut, cause>>

End ==
  /\ ~ended
  /\ ended' = TRUE
  /\ UNCHANGED <<packets, arrived, pc, seen, len, taken, received, whole, cut, cause>>

-------------------------------------------------------------------------------
(* network_recv. *)

Waiting == arrived - taken

\* The smaller of what is asked for and what is there.
Some(n) == IF n <= Waiting THEN n ELSE Waiting

\* The number of the packet the next call is for, when none was cut.
CurrentPacket == Len(received) + 1

\* recv with MSG_PEEK returns some bytes, or nothing at the end of the stream.
\* (The bound on calls matters only to a caller that gets empty packets.)
Peek ==
  /\ pc = "idle" /\ Len(received) <= MaxPackets
  /\ Waiting > 0 \/ ended
  /\ seen' = Some(Digits)
  /\ whole' = (CurrentPacket <= Len(packets) /\ arrived >= Start[CurrentPacket + 1])
  /\ cut' = (cut \/ (seen' > 0 /\ seen' < Len(Prefix(CurrentPacket))))
  /\ pc' = "parse"
  /\ UNCHANGED <<client, len, taken, received, cause>>

\* The timeout, when nothing has arrived.
PeekTimeout ==
  /\ pc = "idle" /\ Waiting = 0
  /\ pc' = "failed" /\ whole' = FALSE /\ cause' = TRUE
  /\ UNCHANGED <<client, seen, len, taken, received, cut>>

\* malloc fails for the packet or for its data.
MallocFails ==
  /\ pc \in {"idle", "parse"}
  /\ pc' = "failed" /\ cause' = TRUE
  /\ UNCHANGED <<client, seen, len, taken, received, whole, cut>>

\* The buffer is zeroed before the peek.
Peeked == [k \in 1 .. Digits |-> IF k <= seen THEN Byte(taken + k) ELSE 0]

PacketLength == Wrap(Decode(Peeked) + BytesRead(Peeked))

\* malloc refuses a negative length, which it takes for a very large one.
Parse ==
  /\ pc = "parse"
  /\ IF Readable(Peeked) /\ PacketLength >= 0
       THEN len' = PacketLength /\ pc' = "read"
       ELSE pc' = "failed" /\ UNCHANGED len
  /\ UNCHANGED <<client, seen, taken, received, whole, cut, cause>>

\* Mutation: any bytes at all will do.
AnyBytes(n) == n > 0

\* The second recv must return as many bytes as the packet has.
Complete(n) == n = len

Read ==
  /\ pc = "read"
  /\ LET n == Some(len) IN
       /\ taken' = taken + n
       /\ IF Complete(n)
            THEN received' = Append(received, <<taken, taken + n>>) /\ pc' = "idle"
            ELSE pc' = "failed" /\ UNCHANGED received
  /\ UNCHANGED <<client, seen, len, whole, cut, cause>>

RecvNext ==
  \/ Arrive \/ End
  \/ Peek \/ PeekTimeout \/ MallocFails \/ Parse \/ Read

RecvSpec == RecvInit /\ [][RecvNext]_recvVars

-------------------------------------------------------------------------------
(* Properties. *)

\* Every variable has its type; len is an int.
RecvTypeOK ==
  /\ arrived \in 0 .. Total /\ ended \in BOOLEAN
  /\ pc \in {"idle", "parse", "read", "failed"}
  /\ seen \in 0 .. Digits /\ len \in Ints
  /\ taken \in 0 .. arrived
  /\ received \in Seq((0 .. Total) \X (0 .. Total))
  /\ whole \in BOOLEAN /\ cut \in BOOLEAN /\ cause \in BOOLEAN

\* The lengths the client sends: a varint is read as it was written, whatever
\* follows it in the buffer, and it takes as many bytes as varint_size says and
\* varint_read allows.
LengthsReadBack ==
  pc = "parse" =>
    \A n \in 0 .. IntMax :
      LET bytes == Encode[n] \o Peeked
      IN /\ Len(Encode[n]) = Size[n] /\ Size[n] <= Digits
         /\ Readable(bytes) /\ BytesRead(bytes) = Size[n] /\ Decode(bytes) = n

\* However the stream is delivered, network_recv returns the client's packets
\* whole, in order and one a call, unless it has once seen part of a prefix.
\* Until then a call that returns 0 leaves the stream at the next packet, and
\* a packet that has arrived when it is asked for is received.
PacketsWhole ==
  /\ LengthsReadBack
  /\ ~cut =>
       /\ Len(received) <= Len(packets)
       /\ \A k \in 1 .. Len(received) : received[k] = <<Start[k], Start[k + 1]>>
       /\ pc # "failed" => taken = Start[CurrentPacket]
       /\ pc = "failed" /\ whole => cause

===============================================================================
