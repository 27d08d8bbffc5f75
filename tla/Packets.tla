-------------------------------- MODULE Packets --------------------------------
(***************************************************************************)
(* util/packets.c, and the strings of util/types.c: one packet is written, *)
(* reaches the other side, perhaps with its end cut off, and is read there.*)
(* A malloc may fail.  The readers are given no length: what follows the   *)
(* packet in memory is any of Beyond.                                      *)
(***************************************************************************)
EXTENDS Varint, FiniteSets

CONSTANTS
  AddressSize,   \* sizeof server_address
  JsonSize,      \* sizeof json_response
  BufferSize,    \* sizeof the buffer a handshake is put together in
  PayloadSize,   \* sizeof(long)
  Texts,         \* the texts there are: sequences of bytes other than 0
  Handshakes,    \* the handshakes to write
  Beyond         \* what may lie behind a packet: bytes, again and again

\* The numbers a handshake holds as varints.
Numbers(hs) == {hs.protocol_version, hs.next_state}

\* Handshakes are those of the struct handshake_packet_t, the address with its
\* end.  In the code the sizes are 255, 32767, 273 and 8; the buffer has room
\* for an id, an address with its length, a port and two numbers, and the length
\* of a ping is one byte.
ASSUME PacketsAssumption ==
  /\ {AddressSize, JsonSize, BufferSize, PayloadSize} \subseteq Nat
  /\ Texts \subseteq Seq(Bytes \ {0})
  /\ Beyond \subseteq Seq(Bytes) \ {<<>>}
  /\ \A hs \in Handshakes :
       /\ hs = [protocol_version |-> hs.protocol_version, next_state |-> hs.next_state,
                server_address |-> hs.server_address, server_port |-> hs.server_port]
       /\ Numbers(hs) \subseteq Ints /\ hs.server_port \in 0 .. (4 * Base * Base - 1)
       /\ hs.server_address \in Seq(Bytes \ {0})
       /\ Len(hs.server_address) < AddressSize
  /\ AddressSize \in 1 .. JsonSize
  /\ 1 + Digits + Size[AddressSize - 1] + (AddressSize - 1) + 2 + Digits <= BufferSize
  /\ BufferSize <= IntMax /\ 1 + Digits + JsonSize <= IntMax
  /\ 1 + PayloadSize < Base /\ 1 + PayloadSize <= IntMax

VARIABLES
  pkKind,    \* what is written: "handshake", "request", "response", "ping"; or
             \* "asked", a status request that a client has written
  pkFields,  \* the handshake, the text or the payload that is written
  pkPc,      \* "fill", "version", "state", "packet", "data", "read", and at
             \* the end "failed", "overrun", "unread" or "done"
  pkBody,    \* the packet without its length
  pkRest,    \* what varint_write has still to write of a number
  pkHeap,    \* what is allocated: "scratch", "packet" (the struct), "data"
  pkWire,    \* the bytes of the finished packet
  pkCut,     \* how many of them are lost at the end
  pkRead,    \* what the reader gets
  pkUsed     \* up to which byte it has read

pkvars == <<pkKind, pkFields, pkPc, pkBody, pkRest, pkHeap, pkWire, pkCut, pkRead, pkUsed>>

Kinds == {"handshake", "request", "response", "ping", "asked"}

Payloads == [1 .. PayloadSize -> {0, 1, 2 * Base - 1}]

PkInit ==
  /\ \/ pkKind = "handshake" /\ pkFields \in Handshakes
     \/ pkKind = "request"   /\ pkFields = <<>>
     \/ pkKind = "response"  /\ pkFields \in Texts
     \/ pkKind = "ping"      /\ pkFields \in Payloads
     \/ pkKind = "asked"     /\ pkFields = <<>>
  /\ IF pkKind = "asked"
       THEN pkPc = "read" /\ pkBody = <<0>> /\ pkWire = Encode[1] \o <<0>>
       ELSE pkPc = "fill" /\ pkBody = <<>> /\ pkWire = <<>>
  /\ pkRest = 0 /\ pkHeap = {} /\ pkCut = 0 /\ pkRead = <<>> /\ pkUsed = 0

-------------------------------------------------------------------------------
(* Writing. *)

\* Mutation: the 0 at the end is written too.
StringAndEnd(text) == Encode[Len(text) + 1] \o text \o <<0>>

\* string_write.  (It is given the text's own length as the space there is.)
String(text) == Encode[Len(text)] \o text

\* Mutation: the port in the order of the machine.
PortAsIs(n) == <<n % (2 * Base), n \div (2 * Base)>>

\* htons, and ntohs back again.
PortOut(n) == <<n \div (2 * Base), n % (2 * Base)>>
PortIn(b) == b[1] * 2 * Base + b[2]

\* handshake_packet_write begins with the id; its numbers are written below.
HandshakeFill ==
  /\ pkPc = "fill" /\ pkKind = "handshake"
  /\ pkPc' = "version" /\ pkBody' = <<0>> /\ pkRest' = pkFields.protocol_version
  /\ UNCHANGED <<pkKind, pkFields, pkHeap, pkWire, pkCut, pkRead, pkUsed>>

\* Whether what is left of a number fits in the bits of one byte.
LastByte(n) == n \in 0 .. (Base - 1)

\* One round of varint_write.  The buffer ends somewhere, the loop may not:
\* the shift of a negative number is arithmetic.
NumberByte ==
  /\ pkPc \in {"version", "state"} /\ ~LastByte(pkRest)
  /\ IF Len(pkBody) < BufferSize
       THEN /\ pkBody' = Append(pkBody, (pkRest % Base) + Base)
            /\ pkRest' = pkRest \div Base /\ UNCHANGED pkPc
       ELSE pkPc' = "overrun" /\ UNCHANGED <<pkBody, pkRest>>
  /\ UNCHANGED <<pkKind, pkFields, pkHeap, pkWire, pkCut, pkRead, pkUsed>>

\* The last round for the version, and what follows it: string_write, which
\* refuses an empty address, and the port.
VersionEnds ==
  /\ pkPc = "version" /\ LastByte(pkRest)
  /\ IF pkFields.server_address = <<>>
       THEN pkPc' = "failed" /\ UNCHANGED <<pkBody, pkRest>>
       ELSE /\ pkPc' = "state" /\ pkRest' = pkFields.next_state
            /\ pkBody' = Append(pkBody, pkRest) \o String(pkFields.server_address)
                           \o PortOut(pkFields.server_port)
  /\ UNCHANGED <<pkKind, pkFields, pkHeap, pkWire, pkCut, pkRead, pkUsed>>

StateEnds ==
  /\ pkPc = "state" /\ LastByte(pkRest)
  /\ pkPc' = "packet" /\ pkBody' = Append(pkBody, pkRest)
  /\ UNCHANGED <<pkKind, pkFields, pkRest, pkHeap, pkWire, pkCut, pkRead, pkUsed>>

\* status_response_packet_write refuses a text that is too long, and fills a
\* buffer of its own.
ResponseFill ==
  /\ pkPc = "fill" /\ pkKind = "response"
  /\ IF Len(pkFields) > JsonSize
       THEN pkPc' = "failed" /\ UNCHANGED <<pkBody, pkHeap>>
       ELSE \/ /\ pkPc' = "packet" /\ pkHeap' = {"scratch"}
               /\ pkBody' = <<0>> \o Encode[Len(pkFields)] \o pkFields
            \/ /\ pkPc' = "failed" /\ UNCHANGED <<pkBody, pkHeap>>
  /\ UNCHANGED <<pkKind, pkFields, pkRest, pkWire, pkCut, pkRead, pkUsed>>

\* ping_request_packet_write; the length, 9 in the code, is written as a byte.
PingFill ==
  /\ pkPc = "fill" /\ pkKind = "ping"
  /\ pkPc' = "packet" /\ pkBody' = <<1>> \o pkFields
  /\ UNCHANGED <<pkKind, pkFields, pkRest, pkHeap, pkWire, pkCut, pkRead, pkUsed>>

\* status_request_packet_write has its two bytes ready, a length and an id.
RequestFill ==
  /\ pkPc = "fill" /\ pkKind = "request"
  /\ pkPc' = "packet" /\ pkBody' = <<0>>
  /\ UNCHANGED <<pkKind, pkFields, pkRest, pkHeap, pkWire, pkCut, pkRead, pkUsed>>

\* The length that is allocated and copied.  That of a request is written
\* "sizeof(char)-1" and not "sizeof(data)-1".
WireLength ==
  IF pkKind = "request" THEN 0 ELSE Len(Encode[Len(pkBody)]) + Len(pkBody)

\* The malloc of the struct.
MallocPacket ==
  /\ pkPc = "packet"
  /\ \/ pkPc' = "data" /\ pkHeap' = pkHeap \cup {"packet"}
     \/ pkPc' = "failed" /\ pkHeap' = pkHeap \ {"scratch"}
  /\ UNCHANGED <<pkKind, pkFields, pkRest, pkBody, pkWire, pkCut, pkRead, pkUsed>>

\* What is left when the malloc of the data fails: handshake_packet_write
\* keeps the struct.
LeftWithoutData == IF pkKind = "handshake" THEN pkHeap ELSE {}

MallocData ==
  /\ pkPc = "data"
  /\ \/ /\ pkPc' = "read" /\ pkHeap' = {"packet", "data"}
        /\ pkWire' = SubSeq(Encode[Len(pkBody)] \o pkBody, 1, WireLength)
     \/ /\ pkPc' = "failed" /\ pkHeap' = LeftWithoutData
        /\ UNCHANGED pkWire
  /\ UNCHANGED <<pkKind, pkFields, pkRest, pkBody, pkCut, pkRead, pkUsed>>

-------------------------------------------------------------------------------
(* Reading. *)

\* A packet in memory: its bytes and what lies behind them.
Memory(bytes, beyond) ==
  [k \in 1 .. (Len(bytes) + 2 * JsonSize + 6 * Digits) |->
     IF k <= Len(bytes) THEN bytes[k]
                        ELSE beyond[1 + ((k - Len(bytes)) % Len(beyond))]]

\* varint_read at position p: whether it succeeds, the int, the position after.
IntAt(memory, p) ==
  LET bytes == SubSeq(memory, p, p + Digits - 1)
  IN IF Readable(bytes)
       THEN [ok |-> TRUE, value |-> Decode(bytes), next |-> p + BytesRead(bytes)]
       ELSE [ok |-> FALSE, value |-> 0, next |-> p]

\* string_read at position p, with a buffer of the size given.  The length is
\* compared as an unsigned number: a negative one is too large.
StringAt(memory, p, size) ==
  LET n == IntAt(memory, p)
  IN IF n.ok /\ n.value >= 0 /\ n.value <= size
       THEN [ok |-> TRUE, value |-> SubSeq(memory, n.next, n.next + n.value - 1),
             next |-> n.next + n.value]
       ELSE [ok |-> FALSE, value |-> <<>>, next |-> n.next]

\* The length and the id every packet begins with; both kinds read have id 0.
HeadAt(memory) ==
  LET id == IntAt(memory, IntAt(memory, 1).next)
  IN [ok |-> IntAt(memory, 1).ok /\ id.ok /\ id.value = 0, next |-> id.next]

\* handshake_packet_read.
HandshakeRead(memory) ==
  LET version == IntAt(memory, HeadAt(memory).next)
      address == StringAt(memory, version.next, AddressSize)
      state == IntAt(memory, address.next + 2)
  IN [ok |-> HeadAt(memory).ok /\ version.ok /\ address.ok /\ state.ok,
      next |-> state.next,
      value |-> [protocol_version |-> version.value,
                 server_address |-> address.value,
                 server_port |-> PortIn(SubSeq(memory, address.next, address.next + 1)),
                 next_state |-> state.value]]

\* status_request_packet_check.
RequestCheck(memory) ==
  [ok |-> HeadAt(memory).ok, next |-> HeadAt(memory).next, value |-> <<>>]

\* status_response_packet_read.
ResponseRead(memory) ==
  LET text == StringAt(memory, HeadAt(memory).next, JsonSize)
  IN [ok |-> HeadAt(memory).ok /\ text.ok, next |-> text.next, value |-> text.value]

\* A ping is not read but sent back as it is.
Echo(bytes) ==
  [ok |-> TRUE, next |-> Len(bytes) + 1, value |-> SubSeq(bytes, 3, Len(bytes))]

\* The other side receives the packet, or what is left of it, and reads it.
\* (Of a request that is written here nothing arrives, and nothing is received.)
ReadPacket ==
  /\ pkPc = "read" /\ pkWire # <<>>
  /\ \E cut \in 0 .. (Len(pkWire) - 1), beyond \in Beyond :
       LET bytes == SubSeq(pkWire, 1, Len(pkWire) - cut)
           memory == Memory(bytes, beyond)
           result == CASE pkKind = "handshake" -> HandshakeRead(memory)
                       [] pkKind = "asked"     -> RequestCheck(memory)
                       [] pkKind = "response"  -> ResponseRead(memory)
                       [] pkKind = "ping"      -> Echo(bytes)
       IN /\ pkCut' = cut
          /\ pkPc' = IF result.ok THEN "done" ELSE "unread"
          /\ pkRead' = result.value /\ pkUsed' = result.next - 1
  /\ UNCHANGED <<pkKind, pkFields, pkRest, pkBody, pkHeap, pkWire>>

PkNext ==
  \/ HandshakeFill \/ NumberByte \/ VersionEnds \/ StateEnds
  \/ ResponseFill \/ PingFill \/ RequestFill
  \/ MallocPacket \/ MallocData
  \/ ReadPacket

PkSpec == PkInit /\ [][PkNext]_pkvars

-------------------------------------------------------------------------------
(* Properties. *)

\* A packet starts with the length of the rest, as network_recv expects.  Of a
\* status request that is written nothing is said: packets.h gives it an id, its
\* two bytes are ready (packets.c:122), and none of them is copied (129).
Framed ==
  pkPc \in {"read", "done", "unread"} /\ pkKind # "request" =>
    LET length == SubSeq(pkWire \o [k \in 1 .. Digits |-> 0], 1, Digits)
    IN Readable(length) /\ Decode(length) + BytesRead(length) = Len(pkWire)

\* Every packet but a status request written here is framed; one that arrives
\* whole is read back as it was written, to its last byte and no further, whatever
\* lies behind it.  The readers never notice a missing end: when one succeeds on a
\* packet that was cut, it has read behind it (a ping is only sent back).
PacketReadBack ==
  /\ Framed
  /\ pkPc \in {"done", "unread"} /\ pkCut = 0 =>
       pkPc = "done" /\ pkRead = pkFields /\ pkUsed = Len(pkWire)
  /\ pkPc = "done" /\ pkCut > 0 /\ pkKind # "ping" =>
       pkUsed > Len(pkWire) - pkCut

\* A handshake fits its buffer, with an address that has its end, and a length
\* its five bytes (Digits of them).  Only a negative number runs past the end.
\* A write that fails leaves nothing allocated, but that of a handshake may
\* leave the struct.
BuffersHold ==
  /\ pkPc = "overrun" => \E n \in Numbers(pkFields) : n < 0
  /\ pkPc = "packet" => /\ pkKind = "handshake" => Len(pkBody) <= BufferSize
                        /\ Len(Encode[Len(pkBody)]) <= Digits
  /\ pkPc = "failed" =>
       pkHeap \subseteq (IF pkKind = "handshake" THEN {"packet"} ELSE {})

===============================================================================
