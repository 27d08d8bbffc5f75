--------------------------------- MODULE Base64 ---------------------------------
(***************************************************************************)
(* util/base64.c: an input is encoded, and the text decoded again.  A byte *)
(* has four times and a digit three times as many bits as Quarter has      *)
(* values; Quarter is 4 in the code.  The variable padding of the decoder  *)
(* has no value until it finds a "=".                                      *)
(***************************************************************************)
EXTENDS Integers, Sequences

CONSTANTS
  Quarter,     \* how many values the smallest group of bits has
  Inputs,      \* the inputs, as sequences of bytes
  Pad          \* the character "="

\* The values of two groups of bits, of a digit and of a byte.
Half == Quarter * Quarter
Digit == Half * Quarter
Octet == Half * Half

ASSUME Base64Assumption ==
  /\ Quarter \in Nat \ {0, 1}
  /\ Inputs \subseteq Seq(0 .. (Octet - 1))
  /\ Pad \notin 0 .. (Digit - 1)

VARIABLES
  b6Input, b6Behind,  \* the input, and the byte that lies behind it
  b6Pc,               \* "encode", "decode", "failed" or "done"
  b6Text, b6TextLen,  \* the output of base64_encode and its *output_len
  b6Padding,          \* what the decoder's padding is at first
  b6Output,           \* the bytes base64_decode writes
  b6OutputLen         \* its *output_len

b6vars == <<b6Input, b6Behind, b6Pc, b6Text, b6TextLen, b6Padding, b6Output, b6OutputLen>>

B6Init ==
  /\ b6Input \in Inputs /\ b6Behind \in {0, Octet - 1}
  /\ b6Pc = "encode" /\ b6Text = <<>> /\ b6TextLen = 0
  /\ b6Padding \in 0 .. 2 /\ b6Output = <<>> /\ b6OutputLen = 0

-------------------------------------------------------------------------------
(* The four digits of three bytes. *)

First(a) == a \div Quarter
Second(a, b) == (a % Quarter) * Half + b \div Half
Third(b, c) == (b % Half) * Quarter + c \div Digit
Fourth(c) == c % Digit

\* The bytes missing in the last group.
Missing == IF Len(b6Input) % 3 = 0 THEN 0 ELSE 3 - (Len(b6Input) % 3)

\* One round of base64_encode, for the bytes behind i.  In the last round the
\* byte behind the input is read, and adds its high bits to the last digit.
EncodeGroup(i) ==
  LET at(k) == IF i + k <= Len(b6Input) THEN b6Input[i + k] ELSE b6Behind
      padding == IF i + 3 >= Len(b6Input) THEN Missing ELSE 0
  IN <<First(at(1)), Second(at(1), at(2)),
       IF padding = 2 THEN Pad ELSE Third(at(2), at(3)),
       IF padding # 0 THEN Pad ELSE Fourth(at(3))>>

\* Every round writes four characters.
Encoded ==
  [k \in 1 .. 4 * ((Len(b6Input) + 2) \div 3) |->
     EncodeGroup(3 * ((k - 1) \div 4))[((k - 1) % 4) + 1]]

B6Encode ==
  /\ b6Pc = "encode"
  /\ b6TextLen' = ((Len(b6Input) + Missing) * 4) \div 3
  /\ \/ b6Pc' = "decode" /\ b6Text' = Encoded
     \/ b6Pc' = "failed" /\ UNCHANGED b6Text   \* malloc returns NULL
  /\ UNCHANGED <<b6Input, b6Behind, b6Padding, b6Output, b6OutputLen>>

-------------------------------------------------------------------------------
\* The value of a character in __base64_decode_table, where "=" has 0.
Value(char) == IF char = Pad THEN 0 ELSE char

\* Mutation: a second "=" is not looked for.
PaddingOnce(text) ==
  IF \E k \in DOMAIN text : text[k] = Pad THEN 1 ELSE b6Padding

\* The padding that is found, the number of "=", or else what was there.
PaddingSeen(text) ==
  LET pads == {k \in DOMAIN text : text[k] = Pad}
  IN IF pads = {} THEN b6Padding
     ELSE IF \E k \in pads : k + 1 \in pads THEN 2 ELSE 1

\* The bytes of one round of base64_decode, for the characters behind i.
DecodeGroup(text, i) ==
  LET v(k) == Value(text[i + k])
  IN <<v(1) * Quarter + v(2) \div Half,
       (v(2) * Half + v(3) \div Quarter) % Octet,
       (v(3) * Digit + v(4)) % Octet>>

\* Every round writes three bytes, but the last one leaves out the padding.
Decoded(text) ==
  LET rounds == (Len(text) + 3) \div 4
      written == IF rounds = 0 THEN 0 ELSE 3 * rounds - PaddingSeen(text)
  IN [k \in 1 .. written |-> DecodeGroup(text, 4 * ((k - 1) \div 3))[((k - 1) % 3) + 1]]

B6Decode ==
  /\ b6Pc = "decode"
  /\ b6OutputLen' = (Len(b6Text) * 3) \div 4
  /\ \/ b6Pc' = "done" /\ b6Output' = Decoded(b6Text)
     \/ b6Pc' = "failed" /\ UNCHANGED b6Output   \* malloc returns NULL
  /\ UNCHANGED <<b6Input, b6Behind, b6Text, b6TextLen, b6Padding>>

B6Next == B6Encode \/ B6Decode

B6Spec == B6Init /\ [][B6Next]_b6vars

-------------------------------------------------------------------------------
(* Properties. *)

\* The bits of the input, most significant first, in groups of Quarter values.
Groups(bytes) ==
  [k \in 1 .. 4 * Len(bytes) |->
     (bytes[(k + 3) \div 4] \div <<Digit, Half, Quarter, 1>>[((k - 1) % 4) + 1]) % Quarter]

\* What base64 means: the digits are the bits of the input, three groups each,
\* as far as the input goes, "=" fills the last four characters, and the
\* length is that of the text.  The bits behind the input may be anything.
EncodesBits ==
  b6Pc = "decode" =>
    LET digits == (4 * Len(b6Input) + 2) \div 3
        bits == Groups(b6Input)
    IN /\ Len(b6Text) = b6TextLen /\ b6TextLen % 4 = 0 /\ b6TextLen - digits \in 0 .. 2
       /\ \A k \in 1 .. b6TextLen :
            IF k <= digits THEN b6Text[k] \in 0 .. (Digit - 1) ELSE b6Text[k] = Pad
       /\ \A k \in 1 .. Len(bits) :
            bits[k] = (b6Text[(k + 2) \div 3]
                         \div <<Half, Quarter, 1>>[((k - 1) % 3) + 1]) % Quarter

\* A text decodes to the input it was made from, when it has a "=" or the
\* padding that has no value happens to be 0.  Otherwise the end is missing.
DecodesBack ==
  b6Pc = "done" =>
    IF Missing # 0 \/ b6Padding = 0
      THEN b6Output = b6Input
      ELSE b6Output = SubSeq(b6Input, 1, Len(b6Input) - b6Padding)

\* The buffer has room for what is written and its 0.  The length that is
\* returned counts the padding too.
DecodedLength ==
  b6Pc = "done" =>
    Len(b6Output) <= b6OutputLen /\ b6OutputLen = Len(b6Input) + Missing

\* base64_encode writes what base64 means, and base64_decode, within its buffer,
\* makes the input of it again, but for a text without "=", which loses its last
\* one or two bytes when the padding without a value is not 0 (base64.c:70).
Base64Exact == EncodesBits /\ DecodesBack /\ DecodedLength

===============================================================================
