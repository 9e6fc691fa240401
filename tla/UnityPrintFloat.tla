---------------------------- MODULE UnityPrintFloat ----------------------------
(***************************************************************************)
(* How Unity prints a float: scaled to SigDigits digits, rounded, laid out  *)
(* with a decimal point or an exponent.  The arithmetic is exact, where the *)
(* code's is single precision; the number of digits and the power of ten    *)
(* that the scaling starts with are parameters, 7 and 10 in the code.       *)
(***************************************************************************)
EXTENDS UnityPrint

CONSTANTS SigDigits,   \* sig_digits, min_scaled is 10^(SigDigits - 1)
          Big          \* 1e10f is 10^Big

ASSUME FloatPrintAssumption == SigDigits \in 2..7 /\ Big \in 1..10

TenTo(k)   == Power(10, k)
min_scaled == TenTo(SigDigits - 1)
max_scaled == TenTo(SigDigits)

(***************************************************************************)
(* A positive number is m * 10^e.                                           *)
(***************************************************************************)
Decimal(m, e) == [m |-> m, e |-> e]
Times10(x, k) == Decimal(x.m, x.e + k)

\* x < 10^k and x > 10^k, by the number of digits that m has.
DigitsOf(m)   == CHOOSE d \in 0..m : m < TenTo(d) /\ (d > 0 => TenTo(d - 1) <= m)
Less(x, k)    == DigitsOf(x.m) + x.e <= k
Greater(x, k) == ~Less(x, k) /\ ~(x.m = TenTo(DigitsOf(x.m) - 1) /\ DigitsOf(x.m) + x.e = k + 1)

Floor(m, e) == IF e >= 0 THEN m * TenTo(e) ELSE m \div TenTo(-e)
Fraction(x) == IF x.e >= 0 THEN Decimal(0, 0) ELSE Decimal(x.m % TenTo(-x.e), x.e)

\* How often a loop runs, which is no more than Turns: the least count at which its
\* condition fails, from the counts at which it holds.
Turns == 0..(SigDigits + Big)
Loop(holds) == Min(Turns \ holds)

--------------------------------------------------------------------------------
\* The number brought between min_scaled and max_scaled, as an integer part and
\* the rest, and the power of ten that this took.
Scaled(number) ==
  IF Less(number, 0) THEN
    LET a == Loop({n \in Turns : Less(Times10(number, n * Big), SigDigits - Big)})
        b == Loop({n \in Turns : Less(Times10(number, a * Big + n), SigDigits - 1)})
    IN  [n_int |-> 0, number |-> Times10(number, a * Big + b), exponent |-> -(a * Big + b)]
  ELSE IF Greater(number, SigDigits) THEN
    LET a == Loop({n \in Turns : Greater(Times10(number, -n * Big), SigDigits - 1 + Big)})
        b == Loop({n \in Turns : Greater(Times10(number, -(a * Big + n)), SigDigits)})
    IN  [n_int |-> 0, number |-> Times10(number, -(a * Big + b)), exponent |-> a * Big + b]
  ELSE
    LET n_int == Floor(number.m, number.e)
        b     == Loop({n \in Turns : n_int * TenTo(n) < min_scaled})
    IN  [n_int |-> n_int * TenTo(b), number |-> Times10(Fraction(number), b), exponent |-> -b]

\* Mutation: the number is truncated.
Rounded_Down(number) == Floor(number.m, number.e)

\* The nearest integer, from one halfway between two the even one.
Rounded(number) ==
  LET n     == (Floor(2 * number.m, number.e) + 1) \div 2
      isTie == number.e < 0 /\ 2 * (n * TenTo(-number.e) - number.m) = TenTo(-number.e)
  IN  IF n % 2 = 1 /\ isTie THEN n - 1 ELSE n

\* Mutation: a number rounded up to one more digit keeps it.
Significant_NoCarry(number) ==
  LET s == Scaled(number) IN [n |-> Rounded(s.number) + s.n_int, exponent |-> s.exponent]

\* The digits as one integer, and the exponent; 10.0 is 1.0e1.
Significant(number) ==
  LET s == Scaled(number)
      n == Rounded(s.number) + s.n_int
  IN  IF n >= max_scaled THEN [n |-> min_scaled, exponent |-> s.exponent + 1]
      ELSE [n |-> n, exponent |-> s.exponent]

\* The zeros to cut behind the decimal point.
Trimmed(n, decimals) == Loop({i \in Turns : decimals > i /\ n % TenTo(i + 1) = 0})

\* At least `atLeast` decimal digits of n.
DigitsOut(n, atLeast) ==
  Digits(n, IF DigitsOf(n) < atLeast THEN atLeast ELSE DigitsOf(n), 10)

Layout(significant) ==
  LET n        == significant.n
      exponent == significant.exponent
      fixed    == exponent <= 0 /\ exponent >= -(SigDigits + 3)
      decimals == IF fixed THEN -exponent ELSE SigDigits - 1
      cut      == Trimmed(n, decimals)
      behind   == decimals - cut
      digits   == DigitsOut(n \div TenTo(cut), behind + 1)
      left     == exponent + decimals
  IN  SubSeq(digits, 1, Len(digits) - behind)
      \o (IF behind > 0 THEN <<46>> \o SubSeq(digits, Len(digits) - behind + 1, Len(digits))
          ELSE <<>>)
      \o (IF left = 0 THEN <<>>
          ELSE <<101, IF left < 0 THEN 45 ELSE 43>>
               \o DigitsOut(IF left < 0 THEN -left ELSE left, 2))

UnityStrNaN    == <<78, 97, 78>>
UnityStrInf    == <<73, 110, 102, 105, 110, 105, 116, 121>>
UnityStrNegInf == <<78, 101, 103, 97, 116, 105, 118, 101, 32>> \o UnityStrInf

\* kind is "NaN", "INF" or "FINITE".
Float(kind, negative, number) == [kind |-> kind, negative |-> negative, number |-> number]

UnityPrintFloat(input) ==
  CASE input.kind = "NaN" -> UnityStrNaN
    [] input.kind = "INF" -> IF input.negative THEN UnityStrNegInf ELSE UnityStrInf
    [] input.kind = "FINITE" ->
         IF input.number.m = 0 THEN <<48>>
         ELSE (IF input.negative THEN <<45>> ELSE <<>>) \o Layout(Significant(input.number))
================================================================================
