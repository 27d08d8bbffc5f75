-------------------------------- MODULE Varint --------------------------------
(***************************************************************************)
(* The variable-length ints of util/types.c, as pure functions.  A byte is *)
(* a digit below Base, plus Base when another byte follows (CONTINUE_BITS).*)
(* In the code Base is 128, Digits 5 and IntMax 2^31 - 1.                  *)
(***************************************************************************)
EXTENDS Integers, Sequences

CONSTANTS
  Base,     \* SEGMENT_BITS + 1
  Digits,   \* how many bytes varint_read takes at most
  IntMax    \* the largest int

\* What a digit counts after k others: 1 << position, where position is k times
\* the bits of a digit.
Weight[k \in Nat] == IF k = 0 THEN 1 ELSE Base * Weight[k - 1]

ASSUME VarintAssumption ==
  /\ Base \in Nat \ {0, 1} /\ IntMax \in Nat
  /\ Digits \in Nat \ {0}
  /\ Weight[Digits - 1] < 2 * (IntMax + 1)
  /\ 2 * (IntMax + 1) <= Weight[Digits]

Bytes == 0 .. (2 * Base - 1)
Ints == -(IntMax + 1) .. IntMax

\* What is left of a number in an int.
Wrap(n) ==
  LET u == n % (2 * (IntMax + 1))
  IN IF u > IntMax THEN u - 2 * (IntMax + 1) ELSE u

\* varint_write, for an int that is not negative.  Negative ones are shifted
\* arithmetically: the loop never ends.
Encode[n \in Nat] ==
  IF n < Base THEN <<n>> ELSE <<(n % Base) + Base>> \o Encode[n \div Base]

\* varint_size, likewise.
Size[n \in Nat] == IF n < Base THEN 1 ELSE 1 + Size[n \div Base]

\* varint_read: it fails when none of the first Digits bytes ends the varint.
Readable(bytes) == \E k \in 1 .. Digits : bytes[k] < Base

\* How many bytes it reads ...
BytesRead(bytes) ==
  CHOOSE k \in 1 .. Digits :
    bytes[k] < Base /\ \A i \in 1 .. (k - 1) : bytes[i] >= Base

\* ... and the int it puts together: bits shifted out are lost.
Decode(bytes) ==
  LET upTo[k \in 0 .. Digits] ==
        IF k = 0 THEN 0
                 ELSE upTo[k - 1] + (bytes[k] % Base) * Weight[k - 1]
  IN Wrap(upTo[BytesRead(bytes)])

===============================================================================
