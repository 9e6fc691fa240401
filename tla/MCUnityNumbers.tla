----------------------------- MODULE MCUnityNumbers -----------------------------
(***************************************************************************)
(* Unity's integer assertions on the edge values of every kind of integer:  *)
(* two arrays of two elements, changed one element at a time.               *)
(***************************************************************************)
EXTENDS UnityAsserts

VARIABLES kind, expected, actual, delta

numbersVars == <<kind, expected, actual, delta>>

Value(k, x) == IF IsInt(k.style) THEN Signed(x, k.style.bytes) ELSE Unsigned(x, k.style.bytes)

\* 0, 1, and on both sides of where the sign and the type end.
Edges(k) ==
  LET w == Width(k.style.bytes)
  IN  {Value(k, x) : x \in {0, 1, w \div 2 - 1, w \div 2, w - 1}}

Deltas(k) == LET w == Width(k.style.bytes) IN {0, 1, w \div 2, w - 1}

NoNumbers == expected = <<0, 0>> /\ actual = <<0, 0>> /\ delta = 0

NumbersInit == kind = (CHOOSE k \in Kinds : TRUE) /\ NoNumbers

ChangeKind ==
  /\ NoNumbers
  /\ kind' \in Kinds
  /\ UNCHANGED <<expected, actual, delta>>

ChangeExpected ==
  /\ \E k \in 1..2, v \in Edges(kind) : expected' = [expected EXCEPT ![k] = v]
  /\ UNCHANGED <<kind, actual, delta>>
ChangeActual ==
  /\ \E k \in 1..2, v \in Edges(kind) : actual' = [actual EXCEPT ![k] = v]
  /\ UNCHANGED <<kind, expected, delta>>
ChangeDelta ==
  /\ delta' \in Deltas(kind)
  /\ UNCHANGED <<kind, expected, actual>>

NumbersNext == ChangeKind \/ ChangeExpected \/ ChangeActual \/ ChangeDelta

InMemory(values) ==
  FlattenSeq([k \in DOMAIN values |-> UnityNumToPtr(values[k], kind.style.bytes)])
mem == [E |-> InMemory(expected), A |-> InMemory(actual), UnityQuickCompare |-> <<>>]

e == expected[1]
a == actual[1]

\* Each assertion passes exactly when the relation it is named for holds between
\* the numbers, taken as integers: no difference, cast or signedness makes
\* numbers far apart equal or within a delta (unity.c:765-864, 1477-1539,
\* unity_internals.h:983-1159).
ScalarsAreExact ==
  LET Is(compare) == COMPARE(kind, compare, e, a).ok
  IN  /\ EQUAL(kind, e, a).ok = (e = a)
      /\ Is(UNITY_NOT_EQUAL) = (a # e)
      /\ Is(UNITY_GREATER_THAN) = (a > e)
      /\ Is(UNITY_GREATER_OR_EQUAL) = (a >= e)
      /\ Is(UNITY_SMALLER_THAN) = (a < e)
      /\ Is(UNITY_SMALLER_OR_EQUAL) = (a <= e)
      /\ WITHIN(kind, delta, e, a).ok = (a - e \in (-delta)..delta)

\* An array assertion passes exactly when the assertion on single numbers does
\* for every element, for arrays and for one value; else it names the first
\* element that fails (unity.c:875-986, 1542-1703, 1954-1979).
ArraysAreScalars ==
  LET Outcome(good(_)) == FirstOf([k \in {k \in 0..1 : ~good(k)} |-> <<>>])
      Same(r, s) == r.ok = s.ok /\ r.element = s.element
  IN  /\ Same(UnityAssertEqualIntArray(mem, "E", "A", 2, kind.style, UNITY_ARRAY_TO_ARRAY),
              Outcome(LAMBDA k : EQUAL(kind, expected[k + 1], actual[k + 1]).ok))
      /\ Same(EACH_EQUAL(mem, kind, e, "A", 2),
              Outcome(LAMBDA k : EQUAL(kind, e, actual[k + 1]).ok))
      /\ \A flags \in {UNITY_ARRAY_TO_ARRAY, UNITY_ARRAY_TO_VAL} :
           Same(UnityAssertNumbersArrayWithin(mem, delta, "E", "A", 2, kind.style, flags),
                Outcome(LAMBDA k :
                  WITHIN(kind, delta, IF flags = UNITY_ARRAY_TO_VAL THEN e ELSE expected[k + 1],
                         actual[k + 1]).ok))

\* When an assertion of equality fails, what it shows as expected is not what it
\* shows as the actual value; for bits, if they differ among the low bits of
\* the mask, the others not being shown at all (unity.c:744-803, 962-978, 320-344).
DifferenceShows ==
  LET Shows(r) == r.ok \/ r.shown = <<>> \/ r.shown[1] # r.shown[2]
      low == Width(INT_BYTES) - 1
  IN  /\ Shows(EQUAL(kind, e, a))
      /\ Shows(UnityAssertEqualIntArray(mem, "E", "A", 2, kind.style, UNITY_ARRAY_TO_ARRAY))
      /\ Shows(UnityAssertNumbersArrayWithin(mem, delta, "E", "A", 2, kind.style,
                                             UNITY_ARRAY_TO_ARRAY))
      /\ Shows(UnityAssertBits(low, e, a))
================================================================================
