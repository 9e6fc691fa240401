------------------------------ MODULE UnityFloats ------------------------------
(***************************************************************************)
(* Unity's assertions on floats.  A float is an integer from NEG_INF to INF *)
(* or NAN; an operation with an exact result beyond MAX gives an infinity.  *)
(* The relative precision is 1/PRECISION, exact for multiples of PRECISION, *)
(* which the floats under test are.                                         *)
(***************************************************************************)
EXTENDS UnityAsserts

CONSTANTS MAX,        \* the greatest finite float, FLT_MAX
          PRECISION   \* UNITY_FLOAT_PRECISION is 1/PRECISION, 100000 in the code

ASSUME FloatAssumption == MAX \in Nat \ {0} /\ PRECISION \in Nat \ {0}

INF     == MAX + 1
NEG_INF == -INF
NAN     == MAX + 2

UNITY_IS_NAN(x) == x = NAN
UNITY_IS_INF(x) == x \in {INF, NEG_INF}

\* Every comparison with NAN is false.
LT(x, y) == NAN \notin {x, y} /\ x < y

Overflown(x) == IF x > MAX THEN INF ELSE IF x < -MAX THEN NEG_INF ELSE x

Minus(x) == IF UNITY_IS_NAN(x) THEN NAN ELSE -x
Plus(x, y) ==
  IF NAN \in {x, y} \/ (UNITY_IS_INF(x) /\ y = -x) THEN NAN
  ELSE IF UNITY_IS_INF(x) THEN x
  ELSE IF UNITY_IS_INF(y) THEN y
  ELSE Overflown(x + y)

\* x * UNITY_FLOAT_PRECISION
Precision(x) ==
  IF UNITY_IS_NAN(x) \/ UNITY_IS_INF(x) THEN x
  ELSE IF x < 0 THEN -((-x) \div PRECISION) ELSE x \div PRECISION

\* x, or -x if that makes it positive.
Positive(x) == IF LT(x, 0) THEN Minus(x) ELSE x

--------------------------------------------------------------------------------
\* Mutation: what is infinite is not told apart.
UnityFloatsWithin_Diff(delta, expected, actual) ==
  \/ UNITY_IS_NAN(expected) /\ UNITY_IS_NAN(actual)
  \/ LET diff == Positive(Plus(actual, Minus(expected)))
     IN  ~UNITY_IS_NAN(diff) /\ ~LT(Positive(delta), diff)

UnityFloatsWithin(delta, expected, actual) ==
  \/ UNITY_IS_INF(expected) /\ UNITY_IS_INF(actual) /\ LT(expected, 0) = LT(actual, 0)
  \/ UNITY_IS_NAN(expected) /\ UNITY_IS_NAN(actual)
  \/ LET diff == Positive(Plus(actual, Minus(expected)))
     IN  ~UNITY_IS_NAN(diff) /\ ~UNITY_IS_INF(diff) /\ ~LT(Positive(delta), diff)

Verdict(good) == IF good THEN Pass ELSE Fail(0, <<>>)

UnityAssertFloatsWithin(delta, expected, actual) ==
  Verdict(UnityFloatsWithin(delta, expected, actual))

UnityAssertFloatsNotWithin(delta, expected, actual) ==
  Verdict(~UnityFloatsWithin(delta, expected, actual))

FLOAT_EQUAL(expected, actual) ==
  UnityAssertFloatsWithin(Precision(expected), expected, actual)

FLOAT_NOT_EQUAL(expected, actual) ==
  UnityAssertFloatsNotWithin(Precision(expected), expected, actual)

UnityAssertGreaterOrLessFloat(threshold, actual, compare) ==
  Verdict(\/ /\ "SMALLER" \in compare => LT(actual, threshold)
             /\ "GREATER" \in compare => LT(threshold, actual)
          \/ "EQUAL" \in compare /\ UnityFloatsWithin(Precision(threshold), threshold, actual))

--------------------------------------------------------------------------------
\* Mutation: the tolerance of the first element is used for all.
ElementDelta_First(delta, expected, k) == Plus(Positive(delta), Positive(Precision(expected[1])))

\* The tolerance of element k of the expected floats.
ElementDelta(delta, expected, k) == Plus(Positive(delta), Positive(Precision(expected[k])))

\* The arrays are not NULL nor the same.
UnityAssertWithinFloatArray(delta, expected, actual, num_elements, flags) ==
  LET E(k) == IF flags = UNITY_ARRAY_TO_ARRAY THEN k + 1 ELSE 1
  IN  IF num_elements = 0 THEN Pointless
      ELSE IF UNITY_IS_INF(delta) THEN Pass
      ELSE IF UNITY_IS_NAN(delta) THEN Pointless
      ELSE FirstOf([k \in {k \in 0..(num_elements - 1) :
                        ~UnityFloatsWithin(ElementDelta(delta, expected, E(k)),
                                           expected[E(k)], actual[k + 1])}
                    |-> <<>>])

FLOAT_ARRAY_EQUAL(expected, actual, num_elements) ==
  UnityAssertWithinFloatArray(0, expected, actual, num_elements, UNITY_ARRAY_TO_ARRAY)

UnityFloatToPtr(num) == <<num>>

FLOAT_EACH_EQUAL(expected, actual, num_elements) ==
  UnityAssertWithinFloatArray(0, UnityFloatToPtr(expected), actual, num_elements,
                              UNITY_ARRAY_TO_VAL)

--------------------------------------------------------------------------------
Traits == {"INF", "NEG_INF", "NAN", "DET"}

\* Mutation: any infinity has the trait INF.
IsTrait_AnyInf(actual, trait) ==
  CASE trait = "INF"     -> UNITY_IS_INF(actual)
    [] trait = "NEG_INF" -> UNITY_IS_INF(actual) /\ LT(actual, 0)
    [] trait = "NAN"     -> UNITY_IS_NAN(actual)
    [] trait = "DET"     -> ~UNITY_IS_INF(actual) /\ ~UNITY_IS_NAN(actual)

IsTrait(actual, trait) ==
  CASE trait = "INF"     -> UNITY_IS_INF(actual) /\ LT(0, actual)
    [] trait = "NEG_INF" -> UNITY_IS_INF(actual) /\ LT(actual, 0)
    [] trait = "NAN"     -> UNITY_IS_NAN(actual)
    [] trait = "DET"     -> ~UNITY_IS_INF(actual) /\ ~UNITY_IS_NAN(actual)

\* style is a trait and whether it should be there, the low bit in the code.
UnityAssertFloatSpecial(actual, trait, should_be_trait) ==
  Verdict(IsTrait(actual, trait) = should_be_trait)
================================================================================
