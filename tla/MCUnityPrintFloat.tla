--------------------------- MODULE MCUnityPrintFloat ---------------------------
(***************************************************************************)
(* Floats around every border of the scaling and of the layout: one float,  *)
(* mantissa * 10^power, changed one part at a time.                         *)
(***************************************************************************)
EXTENDS UnityPrintFloat

CONSTANTS MaxMantissa, Below, Above   \* power is in -Below..Above

\* What is scaled up or down is within reach of the loops' Turns, as every float of the
\* code is: written exactly, a float has up to 112 digits and a power from -149 to 0,
\* and Big * (SigDigits + Big) is 170.
ASSUME FloatRangeAssumption ==
  /\ MaxMantissa \in Nat /\ Below \in Nat /\ Above \in Nat
  /\ SigDigits + Below <= Big * (SigDigits + Big)
  /\ DigitsOf(MaxMantissa) + Above <= Big * (SigDigits + Big)

VARIABLES mantissa, power, negative, sort

printFloatVars == <<mantissa, power, negative, sort>>

PrintFloatInit == mantissa = 0 /\ power = 0 /\ negative = FALSE /\ sort = "FINITE"

NextMantissa ==
  /\ sort = "FINITE"
  /\ mantissa' = (mantissa + 1) % (MaxMantissa + 1)
  /\ UNCHANGED <<power, negative, sort>>
NextPower ==
  /\ sort = "FINITE"
  /\ power' = (IF power = Above THEN -Below ELSE power + 1)
  /\ UNCHANGED <<mantissa, negative, sort>>
Negate ==
  /\ negative' = ~negative
  /\ UNCHANGED <<mantissa, power, sort>>
ChangeSort ==
  /\ mantissa = 0 /\ power = 0
  /\ sort' \in {"FINITE", "INF", "NaN"}
  /\ UNCHANGED <<mantissa, power, negative>>

PrintFloatNext == NextMantissa \/ NextPower \/ Negate \/ ChangeSort

float  == Decimal(mantissa, power)
text   == UnityPrintFloat(Float(sort, negative, float))

--------------------------------------------------------------------------------
(***************************************************************************)
(* Reading a text: -, digits, point and digits, e with sign and digits.     *)
(***************************************************************************)
Integer(digits) ==
  LET value[i \in 0..Len(digits)] ==
        IF i = 0 THEN 0 ELSE 10 * value[i - 1] + (digits[i] - 48)
  IN  value[Len(digits)]

Where(c, s) == LET at == {i \in DOMAIN s : s[i] = c} IN IF at = {} THEN Len(s) + 1 ELSE Min(at)

Read(s) ==
  LET unsigned == IF s[1] = 45 THEN Tail(s) ELSE s
      ends     == Where(101, unsigned)
      body     == SubSeq(unsigned, 1, ends - 1)
      point    == Where(46, body)
      behind   == SubSeq(body, point + 1, Len(body))
      tens     == SubSeq(unsigned, ends + 2, Len(unsigned))
      sign     == IF ends < Len(unsigned) /\ unsigned[ends + 1] = 45 THEN -1 ELSE 1
  IN  Decimal(Integer(SubSeq(body, 1, point - 1) \o behind), sign * Integer(tens) - Len(behind))

\* The power of ten of the last significant digit of x, and x in units of 10^c.
Unit(x)     == DigitsOf(x.m) + x.e - SigDigits
Whole(x, c) == x.m * TenTo(x.e - c)
AbsDiff(a, b) == IF a > b THEN a - b ELSE b - a

\* What is printed of a float, read as a number, is the float within half a unit
\* of the last of SigDigits digits; so a number of no more digits is exact.  The
\* sign is shown, what is no number is not shown as one (unity.c:355-517).
FloatsReadBack ==
  CASE sort # "FINITE" -> \A i \in DOMAIN text : text[i] \notin 48..57
    [] mantissa = 0 /\ sort = "FINITE" -> text = <<48>>
    [] OTHER ->
         LET v == Read(text)
             c == Min({v.e, power, Unit(float)})
         IN  /\ 2 * AbsDiff(Whole(v, c), Whole(float, c)) <= TenTo(Unit(float) - c)
             /\ negative <=> text[1] = 45

\* No text has more digits than SigDigits significant ones, nor a zero at its end
\* behind the point; it has one digit in front of the point if it has an exponent
\* (unity.c:461-515).
TextsAreShort ==
  sort = "FINITE" /\ mantissa # 0 =>
    LET unsigned == IF negative THEN Tail(text) ELSE text
        ends     == Where(101, unsigned)
        point    == Where(46, unsigned)
    IN  /\ Read(text).m < max_scaled
        /\ point < ends => unsigned[ends - 1] # 48
        /\ ends < Len(unsigned) => Min({point, ends}) = 2
================================================================================
