------------------------------- MODULE UnityPrint -------------------------------
(***************************************************************************)
(* What Unity prints for characters, strings, integers and bit masks: a text *)
(* is the sequence of its character codes.  UNITY_INT and UNITY_UINT have 8 *)
(* bytes, int has 4; a byte has BYTE bits and a nibble half of them, so that *)
(* every number can be tried.                                               *)
(***************************************************************************)
EXTENDS Integers, SequencesExt

CONSTANT BYTE     \* 8 in the code

ASSUME ByteAssumption == BYTE \in {2, 4, 6, 8}

\* base^k.
Power(base, k) ==
  LET power[j \in 0..k] == IF j = 0 THEN 1 ELSE base * power[j - 1] IN power[k]

\* How many numbers of some bytes there are.
Width(bytes) == Power(2^BYTE, bytes)

Unsigned(x, bytes) == x % Width(bytes)
Signed(x, bytes)   ==
  LET u == Unsigned(x, bytes) IN IF 2 * u < Width(bytes) THEN u ELSE u - Width(bytes)

\* (UNITY_INT)x and (UNITY_UINT)x.
UNITY_INT(x)  == Signed(x, 8)
UNITY_UINT(x) == Unsigned(x, 8)

INT_BYTES == 4
NIBBLE    == 2^(BYTE \div 2)
UNITY_MAX_NIBBLES == 16

\* '0'..'9', 'A'..'Z'
Digit(d) == IF d <= 9 THEN 48 + d ELSE 55 + d

Bit(n, i) == (n \div Power(2, i)) % 2

\* The last n digits of a number.
Digits(number, n, radix) ==
  [i \in 1..n |-> Digit((number \div Power(radix, n - i)) % radix)]

--------------------------------------------------------------------------------
\* Mutation: a digit is taken off a two-digit quotient.
UnityPrintNumberUnsigned_Short(number) ==
  LET k == CHOOSE k \in 0..19 : /\ number \div Power(10, k) <= 10
                                /\ \A j \in 0..(k - 1) : number \div Power(10, j) > 10
  IN  Digits(number, k + 1, 10)

\* The divisor is 10^k.
UnityPrintNumberUnsigned(number) ==
  LET k == CHOOSE k \in 0..19 : /\ number \div Power(10, k) <= 9
                                /\ \A j \in 0..(k - 1) : number \div Power(10, j) > 9
  IN  Digits(number, k + 1, 10)

\* -number is taken of the unsigned number, which has room for the least number.
UnityPrintNumber(number) ==
  IF number < 0 THEN <<45>> \o UnityPrintNumberUnsigned(UNITY_UINT(-UNITY_UINT(number)))
  ELSE UnityPrintNumberUnsigned(number)

\* Mutation: a byte counts for one nibble.
UnityPrintNumberHex_Short(number, nibbles) == Digits(number, nibbles \div 2, NIBBLE)

UnityPrintNumberHex(number, nibbles) ==
  Digits(number, IF nibbles > UNITY_MAX_NIBBLES THEN UNITY_MAX_NIBBLES ELSE nibbles, NIBBLE)

\* Only the low UNITY_INT_WIDTH bits are shown.
UnityPrintMask(mask, number) ==
  LET bits == BYTE * INT_BYTES
  IN  [i \in 1..bits |-> IF Bit(mask, bits - i) = 0 THEN 88 ELSE Digit(Bit(number, bits - i))]

--------------------------------------------------------------------------------
\* Mutation: small codes are printed with one nibble.
Escaped_Short(c) ==
  IF c \in 32..126 THEN <<c>>
  ELSE IF c = 13 THEN <<92, 114>>
  ELSE IF c = 10 THEN <<92, 110>>
  ELSE <<92, 120>> \o Digits(c % 256, IF c \in 0..15 THEN 1 ELSE 2, 16)

\* A character, as UnityPrintChar, UnityPrintLen and UnityPrintIntNumberByStyle
\* print it; characters keep their eight bits.
Escaped(c) ==
  IF c \in 32..126 THEN <<c>>
  ELSE IF c = 13 THEN <<92, 114>>
  ELSE IF c = 10 THEN <<92, 110>>
  ELSE <<92, 120>> \o Digits(c % 256, 2, 16)

UnityPrintChar(c) == Escaped(c)

\* The characters of an array before the first 0; string is not NULL.
Terminated(string) ==
  LET zeros == {i \in DOMAIN string : string[i] = 0}
  IN  IF zeros = {} THEN string
      ELSE SubSeq(string, 1, (CHOOSE i \in zeros : \A j \in zeros : i <= j) - 1)

UnityPrint(string) == FlattenSeq([i \in DOMAIN Terminated(string) |-> UnityPrintChar(string[i])])

UnityPrintLen(string, length) == UnityPrint(SubSeq(string, 1, Min({length, Len(string)})))

--------------------------------------------------------------------------------
\* A display style: the bytes of the type and how it is shown.
Style(bytes, range) == [bytes |-> bytes, range |-> range]

UnityPrintUintNumberByStyle(number, style) ==
  IF style.range = "UINT" THEN UnityPrintNumberUnsigned(number)
  ELSE <<48, 120>> \o UnityPrintNumberHex(number, 2 * style.bytes)

UnityPrintIntNumberByStyle(number, style) ==
  CASE style.range = "CHAR" -> <<39>> \o Escaped(number) \o <<39>>
    [] style.range = "INT"  -> UnityPrintNumber(number)
    [] style.range \in {"UINT", "HEX"} -> UnityPrintUintNumberByStyle(UNITY_UINT(number), style)
================================================================================
