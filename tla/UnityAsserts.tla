------------------------------ MODULE UnityAsserts ------------------------------
(***************************************************************************)
(* Unity's assertions on integers, integer arrays, strings and memory.  An  *)
(* assertion is its outcome: whether it passes, and if not, the element it  *)
(* names and the two texts it shows.  mem holds the objects by name; an     *)
(* integer array is its bytes, lowest first.                                *)
(***************************************************************************)
EXTENDS UnityPrint, FiniteSetsExt

Pass == [ok |-> TRUE, element |-> 0, shown |-> <<>>]
Fail(element, shown) == [ok |-> FALSE, element |-> element, shown |-> shown]

NULL      == "NULL"
Pointless == Fail(0, <<>>)

OneArrayNull(expected, actual) == expected # actual /\ NULL \in {expected, actual}

\* UNITY_COMPARISON_T, the bits of each.
UNITY_EQUAL_TO         == {"EQUAL"}
UNITY_GREATER_THAN     == {"GREATER"}
UNITY_GREATER_OR_EQUAL == {"GREATER", "EQUAL"}
UNITY_SMALLER_THAN     == {"SMALLER"}
UNITY_SMALLER_OR_EQUAL == {"SMALLER", "EQUAL"}
UNITY_NOT_EQUAL        == {"NOT"}

UNITY_ARRAY_TO_VAL   == "TO_VAL"
UNITY_ARRAY_TO_ARRAY == "TO_ARRAY"

--------------------------------------------------------------------------------
(***************************************************************************)
(* Numbers.                                                                 *)
(***************************************************************************)
UnityAssertBits(mask, expected, actual) ==
  IF \A i \in 0..(8 * BYTE - 1) :
       Bit(UNITY_UINT(mask), i) = 1 =>
         Bit(UNITY_UINT(expected), i) = Bit(UNITY_UINT(actual), i)
  THEN Pass
  ELSE Fail(0, <<UnityPrintMask(UNITY_UINT(mask), UNITY_UINT(expected)),
                 UnityPrintMask(UNITY_UINT(mask), UNITY_UINT(actual))>>)

UnityAssertEqualIntNumber(expected, actual, style) ==
  IF expected = actual THEN Pass
  ELSE Fail(0, <<UnityPrintIntNumberByStyle(expected, style),
                 UnityPrintIntNumberByStyle(actual, style)>>)

UnityAssertEqualUintNumber(expected, actual, style) ==
  IF expected = actual THEN Pass
  ELSE Fail(0, <<UnityPrintUintNumberByStyle(expected, style),
                 UnityPrintUintNumberByStyle(actual, style)>>)

Compared(threshold, actual, compare) ==
  /\ threshold = actual => "EQUAL" \in compare
  /\ actual > threshold => "SMALLER" \notin compare
  /\ actual < threshold => "GREATER" \notin compare

UnityAssertIntGreaterOrLessOrEqualNumber(threshold, actual, compare, style) ==
  IF Compared(threshold, actual, compare) THEN Pass
  ELSE Fail(0, <<UnityPrintIntNumberByStyle(actual, style),
                 UnityPrintIntNumberByStyle(threshold, style)>>)

UnityAssertUintGreaterOrLessOrEqualNumber(threshold, actual, compare, style) ==
  IF Compared(threshold, actual, compare) THEN Pass
  ELSE Fail(0, <<UnityPrintUintNumberByStyle(actual, style),
                 UnityPrintUintNumberByStyle(threshold, style)>>)

\* Mutation: the difference is taken and compared as a signed number.
Apart_Signed(x, y, delta) == UNITY_INT(IF x > y THEN x - y ELSE y - x) > delta

\* x and y, both UNITY_INT or both UNITY_UINT, are more than delta apart.
Apart(x, y, delta) ==
  UNITY_UINT(IF x > y THEN UNITY_UINT(x) - UNITY_UINT(y)
             ELSE UNITY_UINT(y) - UNITY_UINT(x)) > delta

UnityAssertIntNumbersWithin(delta, expected, actual, style) ==
  IF ~Apart(actual, expected, delta) THEN Pass
  ELSE Fail(0, <<UnityPrintIntNumberByStyle(expected, style),
                 UnityPrintIntNumberByStyle(actual, style)>>)

UnityAssertUintNumbersWithin(delta, expected, actual, style) ==
  IF ~Apart(actual, expected, delta) THEN Pass
  ELSE Fail(0, <<UnityPrintUintNumberByStyle(expected, style),
                 UnityPrintUintNumberByStyle(actual, style)>>)

--------------------------------------------------------------------------------
(***************************************************************************)
(* The macros, for each kind of integer: its display style and the bytes    *)
(* that its arguments are cast to.  The plain INT and UINT show an int but  *)
(* cast a single argument to UNITY_INT or UNITY_UINT only.                  *)
(***************************************************************************)
Kinds ==
  {[style |-> Style(b, r), cast |-> b] : b \in {1, 2, 4, 8}, r \in {"INT", "UINT", "HEX"}}
  \cup {[style |-> Style(1, "CHAR"), cast |-> 1]}
  \cup {[style |-> Style(INT_BYTES, r), cast |-> 8] : r \in {"INT", "UINT"}}

IsInt(style) == style.range \in {"INT", "CHAR"}

Cast(kind, x) == IF IsInt(kind.style) THEN Signed(x, kind.cast) ELSE Unsigned(x, kind.cast)

\* The 64-bit UINT and HEX are compared as UNITY_INT.
EQUAL(kind, expected, actual) ==
  IF IsInt(kind.style) \/ kind.style.bytes = 8
  THEN UnityAssertEqualIntNumber(UNITY_INT(Cast(kind, expected)),
                                 UNITY_INT(Cast(kind, actual)), kind.style)
  ELSE UnityAssertEqualUintNumber(Cast(kind, expected), Cast(kind, actual), kind.style)

COMPARE(kind, compare, threshold, actual) ==
  IF IsInt(kind.style)
  THEN UnityAssertIntGreaterOrLessOrEqualNumber(
         Cast(kind, threshold), Cast(kind, actual), compare, kind.style)
  ELSE UnityAssertUintGreaterOrLessOrEqualNumber(
         Cast(kind, threshold), Cast(kind, actual), compare, kind.style)

WITHIN(kind, delta, expected, actual) ==
  IF IsInt(kind.style)
  THEN UnityAssertIntNumbersWithin(
         Unsigned(delta, kind.cast), Cast(kind, expected), Cast(kind, actual), kind.style)
  ELSE UnityAssertUintNumbersWithin(
         Unsigned(delta, kind.cast), Cast(kind, expected), Cast(kind, actual), kind.style)

--------------------------------------------------------------------------------
(***************************************************************************)
(* Integer arrays.                                                          *)
(***************************************************************************)
\* The integer of some bytes at an offset of an object.
Bytes(object, offset, bytes) ==
  LET low[b \in 0..8] == IF b = 0 THEN 0 ELSE low[b - 1] + object[offset + b] * Width(b - 1)
  IN  low[bytes]

\* Mutation: unsigned elements are not rid of their sign.
Load_Signed(object, offset, style) == Signed(Bytes(object, offset, style.bytes), style.bytes)

\* The UNITY_INT that an element is loaded into.
Load(object, offset, style) ==
  LET x == Bytes(object, offset, style.bytes)
  IN  IF IsInt(style) \/ style.bytes = 8 THEN Signed(x, style.bytes) ELSE x

\* Element k, from 0; with ARRAY_TO_VAL, expected has one element only.
Expected(mem, expected, k, style, flags) ==
  Load(mem[expected], IF flags = UNITY_ARRAY_TO_ARRAY THEN k * style.bytes ELSE 0, style)
Actual(mem, actual, k, style) == Load(mem[actual], k * style.bytes, style)

\* The first of the elements that fail, which are those that something is shown of.
FirstOf(shown) ==
  IF DOMAIN shown = {} THEN Pass
  ELSE LET k == Min(DOMAIN shown) IN Fail(k, shown[k])

UnityAssertEqualIntArray(mem, expected, actual, num_elements, style, flags) ==
  LET E(k) == Expected(mem, expected, k, style, flags)
      A(k) == Actual(mem, actual, k, style)
  IN  IF num_elements = 0 THEN Pointless
      ELSE IF expected = actual THEN Pass
      ELSE IF OneArrayNull(expected, actual) THEN Fail(0, <<>>)
      ELSE FirstOf([k \in {k \in 0..(num_elements - 1) : E(k) # A(k)}
                    |-> <<UnityPrintIntNumberByStyle(E(k), style),
                          UnityPrintIntNumberByStyle(A(k), style)>>])

\* Elements of an unsigned style are compared as UNITY_UINT.
UnityAssertNumbersArrayWithin(mem, delta, expected, actual, num_elements, style, flags) ==
  LET E(k)   == Expected(mem, expected, k, style, flags)
      A(k)   == Actual(mem, actual, k, style)
      Far(k) == IF IsInt(style) THEN Apart(A(k), E(k), delta)
                ELSE Apart(UNITY_UINT(A(k)), UNITY_UINT(E(k)), delta)
  IN  IF num_elements = 0 THEN Pointless
      ELSE IF expected = actual THEN Pass
      ELSE IF OneArrayNull(expected, actual) THEN Fail(0, <<>>)
      ELSE FirstOf([k \in {k \in 0..(num_elements - 1) : Far(k)}
                    |-> <<UnityPrintIntNumberByStyle(E(k), style),
                          UnityPrintIntNumberByStyle(A(k), style)>>])

\* UnityQuickCompare, written by UnityNumToPtr for the EACH macros.
UnityNumToPtr(num, size) == [b \in 1..size |-> (Unsigned(num, size) \div Width(b - 1)) % Width(1)]

EACH_EQUAL(mem, kind, expected, actual, num_elements) ==
  UnityAssertEqualIntArray(
    [mem EXCEPT !.UnityQuickCompare =
       UnityNumToPtr(UNITY_INT(Cast(kind, expected)), kind.style.bytes)],
    "UnityQuickCompare", actual, num_elements, kind.style, UNITY_ARRAY_TO_VAL)

--------------------------------------------------------------------------------
(***************************************************************************)
(* Strings and memory.  A string is an array of characters, usually with a  *)
(* 0, and known by its name in mem, or NULL.                                *)
(***************************************************************************)
\* What a read behind the end of an array yields.
OVER == -999
Char(string, i) == IF i < Len(string) THEN string[i + 1] ELSE OVER

\* Mutation: a 0 in both does not end the loop.
LoopEnds_RunsOn(expected, actual, length) ==
  Min({i \in 0..length : i = length \/ Char(expected, i) # Char(actual, i)})

\* Where the comparing loop stops.
LoopEnds(expected, actual, length) ==
  Min({i \in 0..length : \/ i = length
                         \/ Char(expected, i) = 0 /\ Char(actual, i) = 0
                         \/ Char(expected, i) # Char(actual, i)})

\* Mutation: the loop ends with the shorter string.
DifferLen_Prefix(mem, expected, actual, length) ==
  IF NULL \in {expected, actual} THEN expected # actual
  ELSE LET i == LoopEnds(mem[expected], mem[actual], length)
       IN  i < length /\ Cardinality({0, Char(mem[expected], i), Char(mem[actual], i)}) = 3

\* The loops of the string assertions, with a length, and without one.
DifferLen(mem, expected, actual, length) ==
  IF NULL \in {expected, actual} THEN expected # actual
  ELSE LET i == LoopEnds(mem[expected], mem[actual], length)
       IN  i < length /\ Char(mem[expected], i) # Char(mem[actual], i)

Endless(mem, expected, actual) ==
  IF NULL \in {expected, actual} THEN 0 ELSE Len(mem[expected]) + Len(mem[actual]) + 1

Differ(mem, expected, actual) ==
  DifferLen(mem, expected, actual, Endless(mem, expected, actual))

Quotes(text) == <<39>> \o text \o <<39>>
UnityStrNull == <<78, 85, 76, 76>>

UnityPrintExpectedAndActualStrings(mem, expected, actual) ==
  LET Show(s) == IF s = NULL THEN UnityStrNull ELSE Quotes(UnityPrint(mem[s]))
  IN  <<Show(expected), Show(actual)>>

UnityPrintExpectedAndActualStringsLen(mem, expected, actual, length) ==
  LET Show(s) == IF s = NULL THEN UnityStrNull ELSE Quotes(UnityPrintLen(mem[s], length))
  IN  <<Show(expected), Show(actual)>>

UnityAssertEqualString(mem, expected, actual) ==
  IF ~Differ(mem, expected, actual) THEN Pass
  ELSE Fail(0, UnityPrintExpectedAndActualStrings(mem, expected, actual))

UnityAssertEqualStringLen(mem, expected, actual, length) ==
  IF ~DifferLen(mem, expected, actual, length) THEN Pass
  ELSE Fail(0, UnityPrintExpectedAndActualStringsLen(mem, expected, actual, length))

\* The arguments are arrays of names, not NULL and not the same array; with
\* ARRAY_TO_VAL, expected is one name, and NULL fails as an array would.
UnityAssertEqualStringArray(mem, expected, actual, num_elements, flags) ==
  LET E(j) == IF flags = UNITY_ARRAY_TO_ARRAY THEN expected[j + 1] ELSE expected
      A(j) == actual[j + 1]
  IN  IF num_elements = 0 THEN Pointless
      ELSE IF flags = UNITY_ARRAY_TO_VAL /\ expected = NULL THEN Fail(0, <<>>)
      ELSE FirstOf([j \in {j \in 0..(num_elements - 1) : Differ(mem, E(j), A(j))}
                    |-> UnityPrintExpectedAndActualStrings(mem, E(j), A(j))])

\* Mutation: the one expected element is compared behind its end.
MemoryIndex_NoRewind(k, length, flags) == k

\* The expected byte that byte k of actual is compared with.
MemoryIndex(k, length, flags) == IF flags = UNITY_ARRAY_TO_VAL THEN k % length ELSE k

\* The element is that of the first byte that differs, two bytes are shown.
UnityAssertEqualMemory(mem, expected, actual, length, num_elements, flags) ==
  LET E(k) == Char(mem[expected], MemoryIndex(k, length, flags))
      A(k) == Char(mem[actual], k)
      bad  == {k \in 0..(length * num_elements - 1) : E(k) # A(k)}
      hex  == Style(1, "HEX")
  IN  IF num_elements = 0 \/ length = 0 THEN Pointless
      ELSE IF expected = actual THEN Pass
      ELSE IF OneArrayNull(expected, actual) THEN Fail(0, <<>>)
      ELSE IF bad = {} THEN Pass
      ELSE Fail(Min(bad) \div length, <<UnityPrintIntNumberByStyle(E(Min(bad)), hex),
                                        UnityPrintIntNumberByStyle(A(Min(bad)), hex)>>)
================================================================================
