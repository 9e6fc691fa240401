------------------------------ MODULE MCUnityPrint ------------------------------
(***************************************************************************)
(* Every number and many pairs of strings: what Unity shows of a value      *)
(* tells the value.                                                         *)
(***************************************************************************)
EXTENDS UnityPrint

CONSTANTS Codes,      \* the characters of the strings,
          MaxLength   \* and how long the strings are

\* Characters of eight bits, but neither the end of a string nor a backslash.
ASSUME CodesAssumption == Codes \subseteq ((-128)..127) \ {0, 92} /\ MaxLength \in Nat

CodeSet == {-128, -1, 1, 10, 13, 17, 49, 65, 110, 120, 126, 127}

VARIABLES number,     \* a UNITY_UINT
          strings     \* two strings

printVars == <<number, strings>>

Texts == UNION {[1..n -> Codes] : n \in 0..MaxLength}

PrintInit == number = 0 /\ strings = <<<<>>, <<>>>>

\* One more binary digit: in the end every number.
NextNumber ==
  /\ 2 * number < UNITY_UINT(-1) /\ strings = <<<<>>, <<>>>>
  /\ number' \in {2 * number, 2 * number + 1}
  /\ UNCHANGED strings

NextStrings ==
  /\ number = 0 /\ strings = <<<<>>, <<>>>>
  /\ strings' \in Texts \X Texts
  /\ UNCHANGED number

PrintNext == NextNumber \/ NextStrings

Worth(digit) == IF digit <= 57 THEN digit - 48 ELSE digit - 55

Numeral(digits, radix) ==
  LET value[i \in 0..Len(digits)] ==
        IF i = 0 THEN 0 ELSE value[i - 1] * radix + Worth(digits[i])
  IN  value[Len(digits)]

ReadDecimal(text) ==
  IF Head(text) = 45 THEN -Numeral(Tail(text), 10) ELSE Numeral(text, 10)

\* Reading the text gives the number back, in decimal also for the least number
\* and without leading zeros, in hexadecimal as many bytes as the type has
\* (unity.c:198-317).
NumbersReadBack ==
  /\ ReadDecimal(UnityPrintNumber(UNITY_INT(number))) = UNITY_INT(number)
  /\ LET text == UnityPrintUintNumberByStyle(number, Style(8, "UINT"))
     IN  ReadDecimal(text) = number /\ (text[1] = 48 => text = <<48>>)
  /\ \A bytes \in {1, 2, 4, 8} :
       LET text == UnityPrintUintNumberByStyle(number, Style(bytes, "HEX"))
       IN  Numeral(SubSeq(text, 3, Len(text)), NIBBLE) = Unsigned(number, bytes)

\* Two strings without a backslash that are shown the same are the same, control
\* and non-ASCII characters included; so Expected and Was differ on a failure
\* (unity.c:88-195).
TextTellsString ==
  UnityPrint(strings[1]) = UnityPrint(strings[2]) => strings[1] = strings[2]
================================================================================
