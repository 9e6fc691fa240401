----------------------------- MODULE MCUnityFloats -----------------------------
(***************************************************************************)
(* Unity's float assertions on infinities, NaN, 0 and numbers up to the     *)
(* greatest: two arrays of two floats, changed one float at a time.         *)
(***************************************************************************)
EXTENDS UnityFloats

VARIABLES expectedFloats, actualFloats, tolerance

floatsVars == <<expectedFloats, actualFloats, tolerance>>

\* Multiples of PRECISION, near 0 and one tolerance or more apart, and MAX.
Finites == {0, MAX, -MAX} \cup {k * PRECISION : k \in {-1, PRECISION - 1, PRECISION,
                                                     PRECISION + 2, -PRECISION, 1 - PRECISION}}
Floats == <<Finites \cup {INF, NEG_INF, NAN},
            {0, PRECISION * (PRECISION - 1), PRECISION * PRECISION, INF, NAN}>>
Tolerances == {0, PRECISION, -PRECISION, 3 * PRECISION - 1, MAX, INF, NAN}

\* FLT_MAX is far beyond the square of 100000.
ASSUME TestedAssumption == PRECISION * (PRECISION + 2) <= MAX

FloatsInit == expectedFloats = <<0, 0>> /\ actualFloats = <<0, 0>> /\ tolerance = 0

ChangeExpectedFloat ==
  /\ \E k \in 1..2 : \E x \in Floats[k] : expectedFloats' = [expectedFloats EXCEPT ![k] = x]
  /\ UNCHANGED <<actualFloats, tolerance>>
ChangeActualFloat ==
  /\ \E k \in 1..2 : \E x \in Floats[k] : actualFloats' = [actualFloats EXCEPT ![k] = x]
  /\ UNCHANGED <<expectedFloats, tolerance>>
ChangeTolerance == tolerance' \in Tolerances /\ UNCHANGED <<expectedFloats, actualFloats>>

FloatsNext == ChangeExpectedFloat \/ ChangeActualFloat \/ ChangeTolerance

ef == expectedFloats[1]
af == actualFloats[1]

Finite(x) == x \in (-MAX)..MAX
AbsVal(x) == IF x < 0 THEN -x ELSE x

\* x and y are the same, or finite and tolerance or less apart, with a difference
\* that is finite too.
Near(x, y, by) ==
  \/ x = y
  \/ Finite(x) /\ Finite(y) /\ AbsVal(x - y) <= MAX /\ AbsVal(x - y) <= by

\* A float is within a tolerance that is a number exactly when it is near, and equal
\* exactly when near by the precision; NaN is equal to NaN only, infinities to
\* themselves only, with any tolerance.  A strict comparison passes exactly when the
\* numbers compare so, never with a NaN; one that allows equality passes also when
\* near (unity.c:991-1003, 1106-1177).
FloatsAreExact ==
  LET Is(compare) == UnityAssertGreaterOrLessFloat(ef, af, compare).ok
      near        == Near(ef, af, AbsVal(ef) \div PRECISION)
      numbers     == NAN \notin {ef, af}
  IN  /\ tolerance # NAN =>
           UnityAssertFloatsWithin(tolerance, ef, af).ok = Near(ef, af, AbsVal(tolerance))
      /\ FLOAT_EQUAL(ef, af).ok = near
      /\ FLOAT_NOT_EQUAL(ef, af).ok # near
      /\ Is(UNITY_GREATER_THAN) = (numbers /\ af > ef)
      /\ Is(UNITY_SMALLER_THAN) = (numbers /\ af < ef)
      /\ Is(UNITY_GREATER_OR_EQUAL) = (near \/ (numbers /\ af > ef))
      /\ Is(UNITY_SMALLER_OR_EQUAL) = (near \/ (numbers /\ af < ef))

\* The arrays are equal exactly when their floats are, also to one float, and the
\* first that is not is named; with a finite tolerance an array passes where every
\* float is within it (unity.c:1026-1103).
ArraysAreFloats ==
  LET Outcome(good(_)) == FirstOf([k \in {k \in 0..1 : ~good(k)} |-> <<>>])
  IN  /\ FLOAT_ARRAY_EQUAL(expectedFloats, actualFloats, 2)
           = Outcome(LAMBDA k : FLOAT_EQUAL(expectedFloats[k + 1], actualFloats[k + 1]).ok)
      /\ FLOAT_EACH_EQUAL(ef, actualFloats, 2)
           = Outcome(LAMBDA k : FLOAT_EQUAL(ef, actualFloats[k + 1]).ok)
      /\ Finite(tolerance) =>
           \A k \in 1..2 :
             (\A j \in 1..k :
                UnityAssertFloatsWithin(tolerance, expectedFloats[j], actualFloats[j]).ok) =>
               LET r == UnityAssertWithinFloatArray(tolerance, expectedFloats, actualFloats,
                                                    2, UNITY_ARRAY_TO_ARRAY)
               IN  r.ok \/ r.element >= k

\* Each float has exactly one of the traits, floats that are equal have the same,
\* each one is equal to itself, and an assertion that it has not passes for the
\* other three (unity.c:991-1003, 1181-1243).
TraitsRespectEquality ==
  LET Has(x) == {trait \in Traits : UnityAssertFloatSpecial(x, trait, TRUE).ok}
  IN  /\ Cardinality(Has(af)) = 1
      /\ FLOAT_EQUAL(ef, af).ok => Has(ef) = Has(af)
      /\ FLOAT_EQUAL(af, af).ok
      /\ {trait \in Traits : UnityAssertFloatSpecial(af, trait, FALSE).ok} = Traits \ Has(af)
================================================================================
