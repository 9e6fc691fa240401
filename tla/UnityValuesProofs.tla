--------------------------- MODULE UnityValuesProofs ----------------------------
(***************************************************************************)
(* Unity's assertions on any inputs: integers and floats, single and in    *)
(* arrays, strings and memory of any length, with any number of bits in a  *)
(* byte; what is printed of numbers, bits, strings and floats; and that    *)
(* the run tries nothing but such inputs.                                  *)
(***************************************************************************)
EXTENDS MCUnity, TLAPS, FiniteSetTheorems, WellFoundedInduction

--------------------------------------------------------------------------------
(***************************************************************************)
(* The first of some elements.                                              *)
(***************************************************************************)
\* A set of natural numbers has a least one, which is its Min.
LEMMA MinOfNaturals ==
  ASSUME NEW S, S \subseteq Nat, S # {}
  PROVE  Min(S) \in S /\ \A k \in S : Min(S) <= k
<1>1. PICK m \in S : TRUE
  OBVIOUS
<1> DEFINE Sets == {0..k : k \in S \cap (0..m)}
<1>2. IsWellFoundedOn(StrictSubsetOrdering(0..m), SUBSET (0..m))
  <2>1. IsFiniteSet(0..m)
    BY FS_Interval
  <2>2. PICK T : T = 0..m
    OBVIOUS
  <2>3. IsFiniteSet(T)
    BY <2>1, <2>2
  <2>4. IsWellFoundedOn(StrictSubsetOrdering(T), FiniteSubsetsOf(T))
    BY <2>3, FS_StrictSubsetOrderingWellFounded, Zenon
  <2>5. FiniteSubsetsOf(T) = SUBSET T
    BY <2>3, FS_FiniteSubsetsOfFinite, Zenon
  <2> QED
    BY <2>2, <2>4, <2>5, Zenon
<1>3. Sets \subseteq SUBSET (0..m) /\ Sets # {}
  BY <1>1
<1>4. PICK T \in Sets : \A U \in Sets : ~ (<<U, T>> \in StrictSubsetOrdering(0..m))
  <2> HIDE DEF Sets
  <2> QED
    BY <1>2, <1>3, WFMin, Zenon
<1>5. PICK n \in S \cap (0..m) : T = 0..n
  OBVIOUS
<1>6. ASSUME NEW k \in S PROVE n <= k
  <2>1. SUFFICES ASSUME k < n PROVE FALSE
    BY <1>5
  <2>2. 0..k \in Sets /\ 0..n \subseteq 0..m
    BY <1>1, <1>5, <2>1
  <2>3. 0..k \subseteq 0..n /\ n \in 0..n /\ n \notin 0..k
    BY <1>5, <2>1
  <2>4. <<0..k, T>> \in StrictSubsetOrdering(0..m)
    BY <1>5, <2>2, <2>3 DEF StrictSubsetOrdering
  <2> QED
    BY <1>4, <2>2, <2>4
<1> QED
  BY <1>5, <1>6 DEF Min

\* With nothing to show an assertion on elements passes, else it fails for the first.
LEMMA FirstOfShown ==
  ASSUME NEW shown, DOMAIN shown \subseteq Nat
  PROVE  /\ FirstOf(shown).ok \in BOOLEAN
         /\ FirstOf(shown).ok <=> DOMAIN shown = {}
         /\ ~FirstOf(shown).ok => /\ FirstOf(shown).element \in DOMAIN shown
                                  /\ \A k \in DOMAIN shown : FirstOf(shown).element <= k
<1>1. CASE DOMAIN shown = {}
  BY <1>1 DEF FirstOf, Pass
<1>2. CASE DOMAIN shown # {}
  <2>1. /\ FirstOf(shown).ok = FALSE
        /\ FirstOf(shown).element = Min(DOMAIN shown)
    BY <1>2 DEF FirstOf, Fail
  <2> QED
    BY <1>2, <2>1, MinOfNaturals
<1> QED
  BY <1>1, <1>2

--------------------------------------------------------------------------------
(***************************************************************************)
(* Floats.                                                                  *)
(***************************************************************************)
AllFloats == NEG_INF..NAN

\* The quotient of a natural number is a natural number and no larger.
LEMMA Quotient ==
  ASSUME NEW n \in Nat, NEW d \in Nat \ {0}
  PROVE  n \div d \in Nat /\ n \div d <= n
OBVIOUS

\* The relative tolerance of a finite float is finite, and as large as the exact one.
LEMMA PrecisionExact ==
  ASSUME NEW p \in AllFloats, Finite(p)
  PROVE  /\ Precision(p) \in AllFloats /\ Finite(Precision(p))
         /\ AbsVal(Precision(p)) = AbsVal(p) \div PRECISION
<1>1. MAX \in Nat \ {0} /\ PRECISION \in Nat \ {0} /\ p \in Int /\ p >= -MAX /\ p <= MAX
  BY FloatAssumption DEF Finite, AllFloats, NEG_INF, INF, NAN
<1>2. p # NAN /\ p # INF /\ p # NEG_INF
  BY <1>1 DEF NEG_INF, INF, NAN
<1>3. CASE p < 0
  <2>1. -p \in Nat /\ (-p) \div PRECISION \in Nat /\ (-p) \div PRECISION <= -p
    BY <1>1, <1>3, Quotient
  <2>2. Precision(p) = -((-p) \div PRECISION)
    BY <1>2, <1>3 DEF Precision, UNITY_IS_NAN, UNITY_IS_INF
  <2>3. AbsVal(p) = -p
    BY <1>3 DEF AbsVal
  <2>4. AbsVal(Precision(p)) = (-p) \div PRECISION
    BY <2>1, <2>2 DEF AbsVal
  <2> QED
    BY <1>1, <2>1, <2>2, <2>3, <2>4 DEF Finite, AllFloats, NEG_INF, INF, NAN
<1>4. CASE ~(p < 0)
  <2>1. p \in Nat /\ p \div PRECISION \in Nat /\ p \div PRECISION <= p
    BY <1>1, <1>4, Quotient
  <2>2. Precision(p) = p \div PRECISION
    BY <1>2, <1>4 DEF Precision, UNITY_IS_NAN, UNITY_IS_INF
  <2>3. AbsVal(p) = p /\ AbsVal(Precision(p)) = p \div PRECISION
    BY <1>4, <2>1, <2>2 DEF AbsVal
  <2> QED
    BY <1>1, <2>1, <2>2, <2>3 DEF Finite, AllFloats, NEG_INF, INF, NAN
<1> QED
  BY <1>3, <1>4

\* Floats are within a tolerance that is a number exactly when they are near.
LEMMA WithinIsNear ==
  ASSUME NEW t \in AllFloats, NEW p \in AllFloats, NEW q \in AllFloats, t # NAN
  PROVE  UnityFloatsWithin(t, p, q) <=> Near(p, q, AbsVal(t))
BY FloatAssumption
   DEF UnityFloatsWithin, Near, AbsVal, AllFloats, Finite, Positive, Plus, Minus, Overflown, LT,
       UNITY_IS_NAN, UNITY_IS_INF, NEG_INF, INF, NAN

\* The same with the tolerance that equality has.
LEMMA EqualIsNear ==
  ASSUME NEW p \in AllFloats, NEW q \in AllFloats
  PROVE  UnityFloatsWithin(Precision(p), p, q) <=> Near(p, q, AbsVal(p) \div PRECISION)
<1>1. CASE Finite(p)
  <2>1. Precision(p) # NAN
    BY <1>1, PrecisionExact, FloatAssumption DEF Finite, NAN
  <2> QED
    BY <1>1, <2>1, PrecisionExact, WithinIsNear
<1>2. CASE ~Finite(p)
  BY <1>2, FloatAssumption
  DEF UnityFloatsWithin, Near, AllFloats, Finite, Positive, Plus, Minus, Overflown, LT, Precision,
      UNITY_IS_NAN, UNITY_IS_INF, NEG_INF, INF, NAN
<1> QED
  BY <1>1, <1>2

\* A verdict is whether it is good.
LEMMA VerdictOk ==
  ASSUME NEW good \in BOOLEAN
  PROVE  Verdict(good).ok = good
BY DEF Verdict, Pass, Fail

\* The floats of a state, any floats at all.
FloatsTyped ==
  /\ expectedFloats \in [1..2 -> AllFloats]
  /\ actualFloats \in [1..2 -> AllFloats]
  /\ tolerance \in AllFloats

\* Whatever the floats, the assertions on single floats are exact.
LEMMA AnyFloatsExact == FloatsTyped => FloatsAreExact
<1> SUFFICES ASSUME FloatsTyped PROVE FloatsAreExact
  OBVIOUS
<1>1. ef \in AllFloats /\ af \in AllFloats /\ tolerance \in AllFloats
  BY DEF FloatsTyped, ef, af
<1> DEFINE near == Near(ef, af, AbsVal(ef) \div PRECISION)
           numbers == NAN \notin {ef, af}
           Is(compare) == UnityAssertGreaterOrLessFloat(ef, af, compare).ok
<1>2. near \in BOOLEAN /\ (UnityFloatsWithin(Precision(ef), ef, af) <=> near)
  BY <1>1, EqualIsNear DEF Near
<1>3. UnityFloatsWithin(Precision(ef), ef, af) \in BOOLEAN
  BY DEF UnityFloatsWithin
<1>4. tolerance # NAN =>
        UnityAssertFloatsWithin(tolerance, ef, af).ok = Near(ef, af, AbsVal(tolerance))
  <2>1. SUFFICES ASSUME tolerance # NAN
                 PROVE  UnityAssertFloatsWithin(tolerance, ef, af).ok
                          = Near(ef, af, AbsVal(tolerance))
    OBVIOUS
  <2>2. UnityFloatsWithin(tolerance, ef, af) <=> Near(ef, af, AbsVal(tolerance))
    BY <1>1, <2>1, WithinIsNear
  <2>3. /\ UnityFloatsWithin(tolerance, ef, af) \in BOOLEAN
        /\ Near(ef, af, AbsVal(tolerance)) \in BOOLEAN
    BY DEF UnityFloatsWithin, Near
  <2> QED
    BY <2>2, <2>3, VerdictOk DEF UnityAssertFloatsWithin
<1>5. FLOAT_EQUAL(ef, af).ok = near
  BY <1>2, <1>3, VerdictOk DEF FLOAT_EQUAL, UnityAssertFloatsWithin
<1>6. FLOAT_NOT_EQUAL(ef, af).ok # near
  BY <1>2, <1>3, VerdictOk DEF FLOAT_NOT_EQUAL, UnityAssertFloatsNotWithin
<1>7. /\ LT(ef, af) = (numbers /\ af > ef)
      /\ LT(af, ef) = (numbers /\ af < ef)
  BY <1>1, FloatAssumption DEF LT, AllFloats, NEG_INF, INF, NAN
<1>8. /\ UNITY_GREATER_THAN = {"GREATER"} /\ UNITY_SMALLER_THAN = {"SMALLER"}
      /\ UNITY_GREATER_OR_EQUAL = {"GREATER", "EQUAL"}
      /\ UNITY_SMALLER_OR_EQUAL = {"SMALLER", "EQUAL"}
  BY DEF UNITY_GREATER_THAN, UNITY_SMALLER_THAN, UNITY_GREATER_OR_EQUAL, UNITY_SMALLER_OR_EQUAL
<1>9. ASSUME NEW compare
      PROVE  Is(compare) =
               \/ /\ "SMALLER" \in compare => LT(af, ef)
                  /\ "GREATER" \in compare => LT(ef, af)
               \/ "EQUAL" \in compare /\ near
  BY <1>2, <1>3, VerdictOk DEF UnityAssertGreaterOrLessFloat
<1>11. Is(UNITY_GREATER_THAN) = (numbers /\ af > ef)
  <2>1. "SMALLER" \notin UNITY_GREATER_THAN /\ "GREATER" \in UNITY_GREATER_THAN /\ "EQUAL" \notin UNITY_GREATER_THAN
    BY <1>8
  <2> HIDE DEF near, numbers, Is
  <2> QED
    BY <1>2, <1>7, <1>9, <2>1, Zenon
<1>12. Is(UNITY_SMALLER_THAN) = (numbers /\ af < ef)
  <2>1. "SMALLER" \in UNITY_SMALLER_THAN /\ "GREATER" \notin UNITY_SMALLER_THAN /\ "EQUAL" \notin UNITY_SMALLER_THAN
    BY <1>8
  <2> HIDE DEF near, numbers, Is
  <2> QED
    BY <1>2, <1>7, <1>9, <2>1, Zenon
<1>13. Is(UNITY_GREATER_OR_EQUAL) = (near \/ (numbers /\ af > ef))
  <2>1. "SMALLER" \notin UNITY_GREATER_OR_EQUAL /\ "GREATER" \in UNITY_GREATER_OR_EQUAL /\ "EQUAL" \in UNITY_GREATER_OR_EQUAL
    BY <1>8
  <2> HIDE DEF near, numbers, Is
  <2> QED
    BY <1>2, <1>7, <1>9, <2>1, Zenon
<1>14. Is(UNITY_SMALLER_OR_EQUAL) = (near \/ (numbers /\ af < ef))
  <2>1. "SMALLER" \in UNITY_SMALLER_OR_EQUAL /\ "GREATER" \notin UNITY_SMALLER_OR_EQUAL /\ "EQUAL" \in UNITY_SMALLER_OR_EQUAL
    BY <1>8
  <2> HIDE DEF near, numbers, Is
  <2> QED
    BY <1>2, <1>7, <1>9, <2>1, Zenon
<1> QED
  BY <1>4, <1>5, <1>6, <1>11, <1>12, <1>13, <1>14 DEF FloatsAreExact

\* The tolerance that an array assertion adds for an element with 0 makes it equality.
LEMMA ElementEqual ==
  ASSUME NEW p \in AllFloats, NEW q \in AllFloats
  PROVE  UnityFloatsWithin(Plus(Positive(0), Positive(Precision(p))), p, q)
           <=> UnityFloatsWithin(Precision(p), p, q)
<1> DEFINE t == Precision(p)
<1>1. t \in AllFloats /\ 0 \in AllFloats
  <2>1. CASE Finite(p)
    BY <2>1, PrecisionExact, FloatAssumption DEF AllFloats, NEG_INF, INF, NAN
  <2>2. CASE ~Finite(p)
    BY <2>2, FloatAssumption
    DEF Finite, Precision, UNITY_IS_NAN, UNITY_IS_INF, AllFloats, NEG_INF, INF, NAN
  <2> QED
    BY <2>1, <2>2
<1>2. Positive(Plus(Positive(0), Positive(t))) = Positive(t)
  <2> HIDE DEF t
  <2> QED
    BY <1>1, FloatAssumption
    DEF AllFloats, Positive, Plus, Minus, Overflown, LT,
        UNITY_IS_NAN, UNITY_IS_INF, NEG_INF, INF, NAN
<1> QED
  BY <1>2 DEF UnityFloatsWithin

\* An array assertion is never stricter with an element than the assertion on one.
LEMMA ElementWider ==
  ASSUME NEW t \in AllFloats, NEW p \in AllFloats, NEW q \in AllFloats, Finite(t),
         UnityFloatsWithin(t, p, q)
  PROVE  UnityFloatsWithin(Plus(Positive(t), Positive(Precision(p))), p, q)
<1> DEFINE r == Precision(p)
           d == Plus(Positive(t), Positive(r))
<1>1. CASE Finite(p)
  <2>1. r \in AllFloats /\ Finite(r)
    BY <1>1, PrecisionExact
  <2>2. d \in AllFloats /\ d # NAN /\ AbsVal(t) <= AbsVal(d)
    <3> HIDE DEF r
    <3> QED
      BY <2>1, FloatAssumption
      DEF AllFloats, Finite, AbsVal, Positive, Plus, Minus, Overflown, LT,
          UNITY_IS_NAN, UNITY_IS_INF, NEG_INF, INF, NAN
  <2>3. t # NAN /\ Near(p, q, AbsVal(t))
    BY WithinIsNear, FloatAssumption DEF Finite, NAN
  <2>4. Near(p, q, AbsVal(d))
    <3>1. AbsVal(t) \in Int /\ AbsVal(d) \in Int
      BY <2>2, FloatAssumption DEF AbsVal, AllFloats, NEG_INF, NAN
    <3>2. Finite(p) /\ Finite(q) => AbsVal(p - q) \in Int
      BY FloatAssumption DEF AbsVal, Finite
    <3> HIDE DEF d
    <3> QED
      BY <2>2, <2>3, <3>1, <3>2 DEF Near
  <2> HIDE DEF d
  <2>5. UnityFloatsWithin(d, p, q)
    BY <2>2, <2>4, WithinIsNear
  <2> QED
    BY <2>5 DEF d
<1>2. CASE ~Finite(p)
  <2>1. t # NAN /\ Near(p, q, AbsVal(t))
    BY WithinIsNear, FloatAssumption DEF Finite, NAN
  <2>2. p = q
    BY <1>2, <2>1 DEF Near
  <2>3. p \in {INF, NEG_INF, NAN}
    BY <1>2, FloatAssumption DEF AllFloats, Finite, NEG_INF, INF, NAN
  <2> QED
    BY <2>2, <2>3 DEF UnityFloatsWithin, UNITY_IS_NAN, UNITY_IS_INF
<1> QED
  BY <1>1, <1>2

LEMMA AnyFloatArraysExact == FloatsTyped => ArraysAreFloats
<1> SUFFICES ASSUME FloatsTyped PROVE ArraysAreFloats
  OBVIOUS
<1> DEFINE Outcome(bad) == FirstOf([k \in bad |-> <<>>])
           unequal == {k \in 0..1 : ~FLOAT_EQUAL(expectedFloats[k + 1], actualFloats[k + 1]).ok}
           unlike  == {k \in 0..1 : ~FLOAT_EQUAL(ef, actualFloats[k + 1]).ok}
<1>1. ef \in AllFloats
  BY DEF FloatsTyped, ef
<1>2. \A k \in 0..1 : /\ expectedFloats[k + 1] \in AllFloats
                      /\ actualFloats[k + 1] \in AllFloats
  BY DEF FloatsTyped
<1>3. ~UNITY_IS_INF(0) /\ ~UNITY_IS_NAN(0)
  BY FloatAssumption DEF UNITY_IS_INF, UNITY_IS_NAN, NEG_INF, INF, NAN
<1>4. ASSUME NEW p \in AllFloats, NEW q \in AllFloats
      PROVE  UnityFloatsWithin(Plus(Positive(0), Positive(Precision(p))), p, q)
               <=> FLOAT_EQUAL(p, q).ok
  <2>1. UnityFloatsWithin(Precision(p), p, q) \in BOOLEAN
    BY DEF UnityFloatsWithin
  <2> QED
    BY <2>1, ElementEqual, VerdictOk DEF FLOAT_EQUAL, UnityAssertFloatsWithin
<1>5. FLOAT_ARRAY_EQUAL(expectedFloats, actualFloats, 2) = Outcome(unequal)
  <2>1. UNITY_ARRAY_TO_ARRAY = UNITY_ARRAY_TO_ARRAY /\ 2 # 0 /\ 2 - 1 = 1
    OBVIOUS
  <2>2. {k \in 0..1 : ~UnityFloatsWithin(ElementDelta(0, expectedFloats, k + 1),
                                         expectedFloats[k + 1], actualFloats[k + 1])}
          = unequal
    BY <1>2, <1>4 DEF ElementDelta
  <2> HIDE DEF unequal
  <2> QED
    BY <1>3, <2>1, <2>2 DEF FLOAT_ARRAY_EQUAL, UnityAssertWithinFloatArray
<1>6. FLOAT_EACH_EQUAL(ef, actualFloats, 2) = Outcome(unlike)
  <2>1. UNITY_ARRAY_TO_VAL # UNITY_ARRAY_TO_ARRAY /\ 2 # 0 /\ 2 - 1 = 1
        /\ UnityFloatToPtr(ef)[1] = ef
    BY DEF UNITY_ARRAY_TO_VAL, UNITY_ARRAY_TO_ARRAY, UnityFloatToPtr
  <2>2. {k \in 0..1 : ~UnityFloatsWithin(ElementDelta(0, UnityFloatToPtr(ef), 1),
                                         UnityFloatToPtr(ef)[1], actualFloats[k + 1])}
          = unlike
    BY <1>1, <1>2, <1>4, <2>1 DEF ElementDelta
  <2> HIDE DEF unlike
  <2> QED
    BY <1>3, <2>1, <2>2 DEF FLOAT_EACH_EQUAL, UnityAssertWithinFloatArray
<1>7. ASSUME Finite(tolerance), NEW n \in 1..2,
             \A j \in 1..n :
               UnityAssertFloatsWithin(tolerance, expectedFloats[j], actualFloats[j]).ok
      PROVE  LET r == UnityAssertWithinFloatArray(tolerance, expectedFloats, actualFloats,
                                                  2, UNITY_ARRAY_TO_ARRAY)
             IN  r.ok \/ r.element >= n
  <2> DEFINE far == {k \in 0..1 :
                       ~UnityFloatsWithin(ElementDelta(tolerance, expectedFloats, k + 1),
                                          expectedFloats[k + 1], actualFloats[k + 1])}
             r == Outcome(far)
  <2>1. ~UNITY_IS_INF(tolerance) /\ ~UNITY_IS_NAN(tolerance) /\ 2 # 0 /\ 2 - 1 = 1
    BY <1>7, FloatAssumption DEF Finite, UNITY_IS_INF, UNITY_IS_NAN, NEG_INF, INF, NAN
  <2>2. UnityAssertWithinFloatArray(tolerance, expectedFloats, actualFloats, 2,
                                    UNITY_ARRAY_TO_ARRAY) = r
    BY <2>1 DEF UnityAssertWithinFloatArray
  <2>3. ASSUME NEW k \in far PROVE k >= n
    <3>1. SUFFICES ASSUME k < n PROVE FALSE
      OBVIOUS
    <3>2. k \in 0..1 /\ k + 1 \in 1..n /\ k + 1 \in 1..2
      BY <3>1
    <3>3. UnityFloatsWithin(tolerance, expectedFloats[k + 1], actualFloats[k + 1])
      <4>1. UnityFloatsWithin(tolerance, expectedFloats[k + 1], actualFloats[k + 1]) \in BOOLEAN
        BY DEF UnityFloatsWithin
      <4> QED
        BY <1>7, <3>2, <4>1, VerdictOk DEF UnityAssertFloatsWithin
    <3>4. UnityFloatsWithin(ElementDelta(tolerance, expectedFloats, k + 1),
                            expectedFloats[k + 1], actualFloats[k + 1])
      BY <1>2, <1>7, <3>2, <3>3, ElementWider DEF ElementDelta, FloatsTyped
    <3> QED
      BY <3>4
  <2>4. r.ok \/ r.element \in far
    <3>1. DOMAIN [k \in far |-> <<>>] = far /\ far \subseteq Nat
      OBVIOUS
    <3> HIDE DEF far
    <3> QED
      BY <3>1, FirstOfShown
  <2> HIDE DEF far, r
  <2> QED
    BY <2>2, <2>3, <2>4
<1> QED
  BY <1>5, <1>6, <1>7 DEF ArraysAreFloats

--------------------------------------------------------------------------------
\* The trait that a float has.
TraitOf(p) ==
  IF p = INF THEN "INF" ELSE IF p = NEG_INF THEN "NEG_INF" ELSE IF p = NAN THEN "NAN" ELSE "DET"

LEMMA OneTrait ==
  ASSUME NEW p \in AllFloats, NEW trait \in Traits
  PROVE  IsTrait(p, trait) \in BOOLEAN /\ (IsTrait(p, trait) <=> trait = TraitOf(p))
<1>1. /\ UNITY_IS_INF(p) /\ LT(0, p) <=> p = INF
      /\ UNITY_IS_INF(p) /\ LT(p, 0) <=> p = NEG_INF
      /\ ~UNITY_IS_INF(p) /\ ~UNITY_IS_NAN(p) <=> p \notin {INF, NEG_INF, NAN}
  BY FloatAssumption DEF UNITY_IS_INF, UNITY_IS_NAN, LT, AllFloats, NEG_INF, INF, NAN
<1>2. INF # NEG_INF /\ INF # NAN /\ NEG_INF # NAN
  BY FloatAssumption DEF NEG_INF, INF, NAN
<1>3. CASE trait = "INF"
  <2>1. IsTrait(p, trait) = (UNITY_IS_INF(p) /\ LT(0, p))
    BY <1>3 DEF IsTrait
  <2> QED
    BY <1>1, <1>2, <1>3, <2>1 DEF TraitOf
<1>4. CASE trait = "NEG_INF"
  <2>1. IsTrait(p, trait) = (UNITY_IS_INF(p) /\ LT(p, 0))
    BY <1>4 DEF IsTrait
  <2> QED
    BY <1>1, <1>2, <1>4, <2>1 DEF TraitOf
<1>5. CASE trait = "NAN"
  <2>1. IsTrait(p, trait) = (p = NAN)
    BY <1>5 DEF IsTrait, UNITY_IS_NAN
  <2> QED
    BY <1>2, <1>5, <2>1 DEF TraitOf
<1>6. CASE trait = "DET"
  <2>1. IsTrait(p, trait) = (~UNITY_IS_INF(p) /\ ~UNITY_IS_NAN(p))
    BY <1>6 DEF IsTrait
  <2> QED
    BY <1>1, <1>2, <1>6, <2>1 DEF TraitOf
<1> QED
  BY <1>3, <1>4, <1>5, <1>6 DEF Traits

LEMMA AnyFloatHasTrait == FloatsTyped => TraitsRespectEquality
<1> SUFFICES ASSUME FloatsTyped PROVE TraitsRespectEquality
  OBVIOUS
<1> DEFINE Has(p) == {trait \in Traits : UnityAssertFloatSpecial(p, trait, TRUE).ok}
<1>1. ef \in AllFloats /\ af \in AllFloats
  BY DEF FloatsTyped, ef, af
<1>2. ASSUME NEW p \in AllFloats, NEW trait \in Traits, NEW b \in BOOLEAN
      PROVE  UnityAssertFloatSpecial(p, trait, b).ok <=> ((trait = TraitOf(p)) <=> b)
  BY OneTrait, VerdictOk DEF UnityAssertFloatSpecial
<1>3. ASSUME NEW p \in AllFloats PROVE Has(p) = {TraitOf(p)}
  <2>1. TraitOf(p) \in Traits
    BY DEF TraitOf, Traits
  <2> QED
    BY <1>2, <2>1
<1>4. Cardinality(Has(af)) = 1
  BY <1>1, <1>3, FS_Singleton
<1>5. ASSUME NEW p \in AllFloats, NEW q \in AllFloats
      PROVE  FLOAT_EQUAL(p, q).ok <=> Near(p, q, AbsVal(p) \div PRECISION)
  <2>1. UnityFloatsWithin(Precision(p), p, q) \in BOOLEAN
    BY DEF UnityFloatsWithin
  <2> QED
    BY <2>1, EqualIsNear, VerdictOk DEF FLOAT_EQUAL, UnityAssertFloatsWithin
<1>6. FLOAT_EQUAL(ef, af).ok => Has(ef) = Has(af)
  <2>1. SUFFICES ASSUME FLOAT_EQUAL(ef, af).ok PROVE TraitOf(ef) = TraitOf(af)
    BY <1>1, <1>3
  <2>2. ef = af \/ (Finite(ef) /\ Finite(af))
    BY <1>1, <1>5, <2>1 DEF Near
  <2> QED
    BY <2>2, FloatAssumption DEF TraitOf, Finite, NEG_INF, INF, NAN
<1>7. FLOAT_EQUAL(af, af).ok
  BY <1>1, <1>5 DEF Near
<1>8. {trait \in Traits : UnityAssertFloatSpecial(af, trait, FALSE).ok} = Traits \ Has(af)
  BY <1>1, <1>2
<1> QED
  BY <1>4, <1>6, <1>7, <1>8 DEF TraitsRespectEquality

--------------------------------------------------------------------------------
(***************************************************************************)
(* Strings and memory.                                                      *)
(***************************************************************************)
LEMMA MinOfTwo ==
  ASSUME NEW m \in Int, NEW n \in Int
  PROVE  Min({m, n}) \in {m, n} /\ Min({m, n}) <= m /\ Min({m, n}) <= n
<1>1. \E k \in {m, n} : \A j \in {m, n} : k <= j
  <2>1. CASE m <= n
    BY <2>1
  <2>2. CASE n <= m
    BY <2>2
  <2> QED
    BY <2>1, <2>2
<1> QED
  BY <1>1 DEF Min

\* u is the text of an array s, of n characters at most.
TextUpTo(s, n, u) ==
  /\ u \in Seq(Nat) /\ Len(u) <= n
  /\ \A i \in 1..Len(u) : u[i] # 0 /\ Char(s, i - 1) = u[i]
  /\ Len(u) < n => Char(s, Len(u)) = 0

LEMMA TerminatedText ==
  ASSUME NEW s \in Seq(Nat)
  PROVE  /\ Terminated(s) \in Seq(Nat) /\ Len(Terminated(s)) <= Len(s)
         /\ \A i \in 1..Len(Terminated(s)) : Terminated(s)[i] = s[i] /\ s[i] # 0
         /\ IsString(s) => /\ Len(Terminated(s)) < Len(s)
                           /\ s[Len(Terminated(s)) + 1] = 0
         /\ ~IsString(s) => Len(Terminated(s)) = Len(s)
<1> DEFINE zeros == {i \in DOMAIN s : s[i] = 0}
<1>1. DOMAIN s = 1..Len(s) /\ Len(s) \in Nat
  OBVIOUS
<1>2. IsString(s) <=> zeros # {}
  BY DEF IsString, ToSet
<1>3. CASE zeros = {}
  <2>1. Terminated(s) = s
    BY <1>3 DEF Terminated
  <2> QED
    BY <1>1, <1>2, <1>3, <2>1
<1>4. CASE zeros # {}
  <2> DEFINE k == CHOOSE i \in zeros : \A j \in zeros : i <= j
  <2>1. k \in zeros /\ \A j \in zeros : k <= j
    <3>1. zeros \subseteq Nat
      BY <1>1
    <3>2. Min(zeros) \in zeros /\ \A j \in zeros : Min(zeros) <= j
      <4> HIDE DEF zeros
      <4> QED
        BY <1>4, <3>1, MinOfNaturals
    <3> HIDE DEF zeros
    <3> QED
      BY <3>2
  <2>2. k \in 1..Len(s) /\ s[k] = 0 /\ \A i \in 1..(k - 1) : s[i] # 0
    <3> HIDE DEF k
    <3> QED
      BY <1>1, <2>1
  <2>3. Terminated(s) = SubSeq(s, 1, k - 1)
    BY <1>4 DEF Terminated
  <2> HIDE DEF k
  <2>4. /\ SubSeq(s, 1, k - 1) \in Seq(Nat) /\ Len(SubSeq(s, 1, k - 1)) = k - 1
        /\ \A i \in 1..(k - 1) : SubSeq(s, 1, k - 1)[i] = s[i]
    BY <2>2
  <2> QED
    BY <1>1, <1>2, <1>4, <2>2, <2>3, <2>4
<1> QED
  BY <1>3, <1>4

LEMMA WholeText ==
  ASSUME NEW s \in Seq(Nat), IsString(s), NEW n \in Nat, n > Len(s)
  PROVE  TextUpTo(s, n, Terminated(s))
<1>1. Len(s) \in Nat /\ Len(Terminated(s)) \in Nat
  BY TerminatedText
<1>2. ASSUME NEW i \in 1..Len(Terminated(s)) PROVE Char(s, i - 1) = Terminated(s)[i]
  <2>1. i - 1 < Len(s) /\ (i - 1) + 1 = i
    BY <1>1, TerminatedText
  <2> QED
    BY <2>1, TerminatedText DEF Char
<1> QED
  BY <1>1, <1>2, TerminatedText DEF TextUpTo, Char

LEMMA CutText ==
  ASSUME NEW s \in Seq(Nat), NEW n \in Nat, IsString(s) \/ n <= Len(s)
  PROVE  TextUpTo(s, n, Terminated(SubSeq(s, 1, Min({n, Len(s)}))))
<1> DEFINE m == Min({n, Len(s)})
           c == SubSeq(s, 1, m)
           u == Terminated(c)
<1>1. m \in Nat /\ m <= n /\ m <= Len(s) /\ m \in {n, Len(s)} /\ Len(s) \in Nat
  <2>1. Len(s) \in Nat
    OBVIOUS
  <2>2. n \in Int /\ Len(s) \in Int
    BY <2>1
  <2>3. m \in {n, Len(s)} /\ m <= n /\ m <= Len(s)
    BY <2>2, MinOfTwo, Zenon
  <2> HIDE DEF m
  <2> QED
    BY <2>1, <2>3
<1> HIDE DEF m
<1>2. c \in Seq(Nat) /\ Len(c) = m /\ \A i \in 1..m : c[i] = s[i]
  BY <1>1
<1>3. /\ u \in Seq(Nat) /\ Len(u) <= m /\ Len(u) \in Nat
      /\ \A i \in 1..Len(u) : u[i] = c[i] /\ c[i] # 0
      /\ IsString(c) => Len(u) < m /\ c[Len(u) + 1] = 0
      /\ ~IsString(c) => Len(u) = m
  <2> HIDE DEF c
  <2> QED
    BY <1>2, TerminatedText
<1> HIDE DEF c, u
<1>4. ASSUME NEW i \in 1..Len(u) PROVE u[i] # 0 /\ Char(s, i - 1) = u[i]
  <2>1. i \in 1..m /\ i - 1 < Len(s) /\ (i - 1) + 1 = i
    BY <1>1, <1>3
  <2> QED
    BY <1>2, <1>3, <2>1 DEF Char
<1>5. ASSUME Len(u) < n PROVE Char(s, Len(u)) = 0
  <2>1. CASE IsString(c)
    <3>1. Len(u) < Len(s) /\ Len(u) + 1 \in 1..m
      BY <1>1, <1>3, <2>1
    <3> QED
      BY <1>2, <1>3, <2>1, <3>1 DEF Char
  <2>2. CASE ~IsString(c)
    <3>1. m = Len(s) /\ m < n
      BY <1>1, <1>3, <1>5, <2>2
    <3>2. PICK i \in 1..Len(s) : s[i] = 0
      BY <1>1, <3>1 DEF IsString, ToSet
    <3>3. i \in DOMAIN c /\ c[i] = 0
      BY <1>2, <3>1, <3>2
    <3> QED
      BY <2>2, <3>3 DEF IsString, ToSet
  <2> QED
    BY <2>1, <2>2
<1>6. Len(u) <= n
  BY <1>1, <1>3
<1>7. TextUpTo(s, n, u)
  BY <1>3, <1>4, <1>5, <1>6 DEF TextUpTo
<1> QED
  BY <1>7 DEF u, c, m

\* The loop goes on over characters that are the same and not 0, and stops where
\* the texts end or differ.
LEMMA LoopStops ==
  ASSUME NEW s, NEW t, NEW n \in Nat
  PROVE  /\ LoopEnds(s, t, n) \in 0..n
         /\ \/ LoopEnds(s, t, n) = n
            \/ Char(s, LoopEnds(s, t, n)) = 0 /\ Char(t, LoopEnds(s, t, n)) = 0
            \/ Char(s, LoopEnds(s, t, n)) # Char(t, LoopEnds(s, t, n))
         /\ \A i \in 0..(LoopEnds(s, t, n) - 1) : Char(s, i) = Char(t, i) /\ Char(s, i) # 0
<1> DEFINE stops == {i \in 0..n : \/ i = n
                                  \/ Char(s, i) = 0 /\ Char(t, i) = 0
                                  \/ Char(s, i) # Char(t, i)}
           l == LoopEnds(s, t, n)
<1>1. n \in stops /\ stops \subseteq Nat
  OBVIOUS
<1>2. l = Min(stops)
  BY DEF LoopEnds
<1>3. l \in stops /\ \A i \in stops : l <= i
  <2> HIDE DEF stops, l
  <2> QED
    BY <1>1, <1>2, MinOfNaturals
<1> HIDE DEF l
<1>4. ASSUME NEW i \in 0..(l - 1) PROVE Char(s, i) = Char(t, i) /\ Char(s, i) # 0
  <2>1. i \in 0..n /\ ~(l <= i)
    BY <1>3
  <2>2. i \notin stops
    BY <1>3, <2>1
  <2> QED
    BY <2>1, <2>2
<1>5. l \in 0..n /\ (l = n \/ (Char(s, l) = 0 /\ Char(t, l) = 0) \/ Char(s, l) # Char(t, l))
  BY <1>3
<1> QED
  BY <1>4, <1>5 DEF l

\* The loop finds a difference exactly when there is one.
LEMMA LoopCompares ==
  ASSUME NEW s, NEW t, NEW n \in Nat, NEW u, NEW v, TextUpTo(s, n, u), TextUpTo(t, n, v)
  PROVE  (/\ LoopEnds(s, t, n) < n
          /\ Char(s, LoopEnds(s, t, n)) # Char(t, LoopEnds(s, t, n))) <=> u # v
<1> DEFINE l == LoopEnds(s, t, n)
<1>1. /\ l \in 0..n
      /\ l = n \/ (Char(s, l) = 0 /\ Char(t, l) = 0) \/ Char(s, l) # Char(t, l)
      /\ \A i \in 0..(l - 1) : Char(s, i) = Char(t, i) /\ Char(s, i) # 0
  BY LoopStops
<1> HIDE DEF l
<1>2. Len(u) \in 0..n /\ Len(v) \in 0..n /\ u \in Seq(Nat) /\ v \in Seq(Nat)
  BY DEF TextUpTo
<1>3. ASSUME NEW i \in 0..(Len(u) - 1) PROVE Char(s, i) = u[i + 1] /\ Char(s, i) # 0
  <2>1. i + 1 \in 1..Len(u) /\ (i + 1) - 1 = i
    BY <1>2
  <2> QED
    BY <2>1 DEF TextUpTo
<1>4. ASSUME NEW i \in 0..(Len(v) - 1) PROVE Char(t, i) = v[i + 1] /\ Char(t, i) # 0
  <2>1. i + 1 \in 1..Len(v) /\ (i + 1) - 1 = i
    BY <1>2
  <2> QED
    BY <2>1 DEF TextUpTo
<1>5. (Len(u) < n => Char(s, Len(u)) = 0) /\ (Len(v) < n => Char(t, Len(v)) = 0)
  BY DEF TextUpTo
<1>6. ASSUME l < n, Char(s, l) # Char(t, l), u = v PROVE FALSE
  <2>1. CASE l < Len(u)
    BY <1>1, <1>2, <1>3, <1>4, <1>6, <2>1
  <2>2. CASE l = Len(u)
    BY <1>5, <1>6, <2>2
  <2>3. CASE l > Len(u)
    <3>1. Len(u) \in 0..(l - 1) /\ Len(u) < n
      BY <1>1, <1>2, <2>3
    <3> QED
      BY <1>1, <1>5, <3>1
  <2> QED
    BY <1>1, <1>2, <2>1, <2>2, <2>3
<1>7. ASSUME l = n \/ Char(s, l) = Char(t, l) PROVE u = v
  <2>1. l = n \/ (Char(s, l) = 0 /\ Char(t, l) = 0)
    BY <1>1, <1>7
  <2>2. Len(u) = l /\ Len(v) = l
    <3>1. ~(Len(u) < l) /\ ~(Len(v) < l)
      <4>1. ASSUME Len(u) < l PROVE FALSE
        <5>1. Len(u) \in 0..(l - 1) /\ Len(u) < n
          BY <1>1, <1>2, <4>1
        <5> QED
          BY <1>1, <1>5, <5>1
      <4>2. ASSUME Len(v) < l PROVE FALSE
        <5>1. Len(v) \in 0..(l - 1) /\ Len(v) < n
          BY <1>1, <1>2, <4>2
        <5> QED
          BY <1>1, <1>5, <5>1
      <4> QED
        BY <4>1, <4>2
    <3>2. ~(Len(u) > l) /\ ~(Len(v) > l)
      BY <1>1, <1>2, <1>3, <1>4, <2>1
    <3> QED
      BY <1>1, <1>2, <3>1, <3>2
  <2>3. ASSUME NEW i \in 1..l PROVE u[i] = v[i]
    <3>1. i - 1 \in 0..(l - 1) /\ (i - 1) + 1 = i
      BY <1>1
    <3> QED
      BY <1>1, <1>3, <1>4, <2>2, <3>1
  <2> QED
    BY <1>2, <2>2, <2>3
<1>8. (l < n /\ Char(s, l) # Char(t, l)) <=> u # v
  BY <1>1, <1>6, <1>7
<1> QED
  BY <1>8 DEF l

\* The arrays of a state, any arrays at all.
StringsTyped == x \in Seq(Nat) /\ y \in Seq(Nat) /\ length \in Nat

LEMMA DifferIsExact ==
  ASSUME StringsTyped, AreStrings, NEW p \in Names, NEW q \in Names
  PROVE  Differ(arrays, p, q) \in BOOLEAN /\ (Differ(arrays, p, q) <=> Text(p) # Text(q))
<1>1. Text("X") = Terminated(x) /\ Text("Y") = Terminated(y) /\ Text(NULL) = <<-1>>
  BY DEF Text, arrays, NULL
<1>2. Terminated(x) \in Seq(Nat) /\ Terminated(y) \in Seq(Nat)
  BY TerminatedText DEF StringsTyped
<1>3. <<-1>> \notin Seq(Nat)
  <2>1. SUFFICES ASSUME NEW u \in Seq(Nat), u = <<-1>> PROVE FALSE
    OBVIOUS
  <2>2. Len(u) = 1 /\ u[1] = -1
    BY <2>1
  <2>3. u[1] \in Nat
    BY <2>2
  <2> QED
    BY <2>2, <2>3
<1>4. CASE NULL \in {p, q}
  <2>1. Differ(arrays, p, q) = (p # q)
    BY <1>4 DEF Differ, DifferLen
  <2>2. p # q => Text(p) # Text(q)
    BY <1>1, <1>2, <1>3, <1>4 DEF Names, NULL
  <2> QED
    BY <2>1, <2>2
<1>5. CASE NULL \notin {p, q}
  <2> DEFINE n == Endless(arrays, p, q)
  <2>1. ASSUME NEW r \in {"X", "Y"}
        PROVE  arrays[r] \in Seq(Nat) /\ IsString(arrays[r]) /\ Text(r) = Terminated(arrays[r])
    BY <1>1, <2>1 DEF StringsTyped, AreStrings, arrays
  <2>2. p \in {"X", "Y"} /\ q \in {"X", "Y"}
    BY <1>5 DEF Names
  <2>3. n = Len(arrays[p]) + Len(arrays[q]) + 1
    BY <1>5 DEF Endless
  <2>4. n \in Nat /\ n > Len(arrays[p]) /\ n > Len(arrays[q])
    <3>1. Len(arrays[p]) \in Nat /\ Len(arrays[q]) \in Nat
      BY <2>1, <2>2
    <3>2. \A j, k \in Nat : j + k + 1 \in Nat /\ j + k + 1 > j /\ j + k + 1 > k
      OBVIOUS
    <3> HIDE DEF n
    <3> QED
      BY <2>3, <3>1, <3>2, Zenon
  <2> HIDE DEF n
  <2>5. TextUpTo(arrays[p], n, Text(p)) /\ TextUpTo(arrays[q], n, Text(q))
    BY <2>1, <2>2, <2>4, WholeText
  <2>6. (/\ LoopEnds(arrays[p], arrays[q], n) < n
         /\ Char(arrays[p], LoopEnds(arrays[p], arrays[q], n))
              # Char(arrays[q], LoopEnds(arrays[p], arrays[q], n))) <=> Text(p) # Text(q)
    BY <2>4, <2>5, LoopCompares
  <2>7. Differ(arrays, p, q) = (/\ LoopEnds(arrays[p], arrays[q], n) < n
                                /\ Char(arrays[p], LoopEnds(arrays[p], arrays[q], n))
                                     # Char(arrays[q], LoopEnds(arrays[p], arrays[q], n)))
    BY <1>5 DEF Differ, DifferLen, n
  <2> QED
    BY <2>6, <2>7
<1> QED
  BY <1>4, <1>5

LEMMA AnyStringsExact == StringsTyped => StringsCompareExactly
<1> SUFFICES ASSUME StringsTyped PROVE StringsCompareExactly
  OBVIOUS
<1>1. ASSUME AreStrings, NEW p \in Names, NEW q \in Names
      PROVE  UnityAssertEqualString(arrays, p, q).ok = (Text(p) = Text(q))
  <2>1. UnityAssertEqualString(arrays, p, q).ok = ~Differ(arrays, p, q)
    BY <1>1, DifferIsExact DEF UnityAssertEqualString, Pass, Fail
  <2> QED
    BY <1>1, <2>1, DifferIsExact
<1>2. ASSUME AreStrings, NEW p \in Names \X Names, NEW q \in Names \X Names
      PROVE  UnityAssertEqualStringArray(arrays, p, q, 2, UNITY_ARRAY_TO_ARRAY)
               = FirstOf([j \in {j \in 0..1 : Text(p[j + 1]) # Text(q[j + 1])}
                          |-> UnityPrintExpectedAndActualStrings(arrays, p[j + 1], q[j + 1])])
  <2>1. \A j \in 0..1 : p[j + 1] \in Names /\ q[j + 1] \in Names
    BY <1>2
  <2>2. {j \in 0..1 : Differ(arrays, p[j + 1], q[j + 1])}
          = {j \in 0..1 : Text(p[j + 1]) # Text(q[j + 1])}
    BY <1>2, <2>1, DifferIsExact
  <2>3. UNITY_ARRAY_TO_ARRAY # UNITY_ARRAY_TO_VAL /\ 2 # 0 /\ 2 - 1 = 1
    BY DEF UNITY_ARRAY_TO_ARRAY, UNITY_ARRAY_TO_VAL
  <2>4. UnityAssertEqualStringArray(arrays, p, q, 2, UNITY_ARRAY_TO_ARRAY)
          = FirstOf([j \in {j \in 0..1 : Differ(arrays, p[j + 1], q[j + 1])}
                     |-> UnityPrintExpectedAndActualStrings(arrays, p[j + 1], q[j + 1])])
    BY <2>3 DEF UnityAssertEqualStringArray
  <2> QED
    BY <2>2, <2>4
<1>3. ASSUME AreStrings, NEW p \in {"X", "Y"}, NEW q \in Names \X Names
      PROVE  UnityAssertEqualStringArray(arrays, p, q, 2, UNITY_ARRAY_TO_VAL).ok
               = \A j \in 1..2 : Text(q[j]) = Text(p)
  <2> DEFINE bad == {j \in 0..1 : Differ(arrays, p, q[j + 1])}
             shown == [j \in bad |-> UnityPrintExpectedAndActualStrings(arrays, p, q[j + 1])]
  <2>1. p \in Names /\ p # NULL /\ q[1] \in Names /\ q[2] \in Names
    BY <1>3 DEF Names, NULL
  <2>2. UNITY_ARRAY_TO_ARRAY # UNITY_ARRAY_TO_VAL /\ 2 # 0 /\ 2 - 1 = 1
    BY DEF UNITY_ARRAY_TO_ARRAY, UNITY_ARRAY_TO_VAL
  <2>3. UnityAssertEqualStringArray(arrays, p, q, 2, UNITY_ARRAY_TO_VAL) = FirstOf(shown)
    BY <2>1, <2>2 DEF UnityAssertEqualStringArray
  <2>4. DOMAIN shown = bad /\ bad \subseteq Nat
    OBVIOUS
  <2>5. bad = {} <=> \A j \in 1..2 : Text(q[j]) = Text(p)
    <3>1. bad = {} <=> ~Differ(arrays, p, q[1]) /\ ~Differ(arrays, p, q[2])
      OBVIOUS
    <3>2. /\ Differ(arrays, p, q[1]) <=> Text(p) # Text(q[1])
          /\ Differ(arrays, p, q[2]) <=> Text(p) # Text(q[2])
      BY <1>3, <2>1, DifferIsExact
    <3>3. 1..2 = {1, 2}
      OBVIOUS
    <3> HIDE DEF bad
    <3> QED
      BY <3>1, <3>2, <3>3
  <2> HIDE DEF bad, shown
  <2>6. FirstOf(shown).ok \in BOOLEAN /\ (FirstOf(shown).ok <=> bad = {})
    BY <2>4, FirstOfShown
  <2> QED
    BY <2>3, <2>5, <2>6
<1>4. ASSUME \A b \in {x, y} : IsString(b) \/ length <= Len(b)
      PROVE  UnityAssertEqualStringLen(arrays, "X", "Y", length).ok
               = (Terminated(Cut(x)) = Terminated(Cut(y)))
  <2>1. x \in Seq(Nat) /\ y \in Seq(Nat) /\ length \in Nat
    BY DEF StringsTyped
  <2>2. TextUpTo(x, length, Terminated(Cut(x))) /\ TextUpTo(y, length, Terminated(Cut(y)))
    BY <1>4, <2>1, CutText DEF Cut
  <2>3. (/\ LoopEnds(x, y, length) < length
         /\ Char(x, LoopEnds(x, y, length)) # Char(y, LoopEnds(x, y, length)))
          <=> Terminated(Cut(x)) # Terminated(Cut(y))
    BY <2>1, <2>2, LoopCompares
  <2>4. DifferLen(arrays, "X", "Y", length)
          = (/\ LoopEnds(x, y, length) < length
             /\ Char(x, LoopEnds(x, y, length)) # Char(y, LoopEnds(x, y, length)))
    BY DEF DifferLen, arrays, NULL
  <2>5. UnityAssertEqualStringLen(arrays, "X", "Y", length).ok
          = ~DifferLen(arrays, "X", "Y", length)
    BY <2>4 DEF UnityAssertEqualStringLen, Pass, Fail
  <2> QED
    BY <2>3, <2>4, <2>5
<1> QED
  BY <1>1, <1>2, <1>3, <1>4 DEF StringsCompareExactly

\* No array is read behind its text.
LEMMA LoopStaysInText ==
  ASSUME NEW s \in Seq(Nat), NEW t, NEW n \in Nat, IsString(s),
         NEW i \in 0..LoopEnds(s, t, n)
  PROVE  i <= Len(Terminated(s))
<1> DEFINE m == Len(Terminated(s))
<1>1. m \in Nat /\ m < Len(s) /\ s[m + 1] = 0
  BY TerminatedText
<1> HIDE DEF m
<1>2. Char(s, m) = 0
  BY <1>1 DEF Char
<1>3. LoopEnds(s, t, n) \in 0..n /\ \A j \in 0..(LoopEnds(s, t, n) - 1) : Char(s, j) # 0
  BY LoopStops
<1>4. i <= m
  <2> DEFINE l == LoopEnds(s, t, n)
  <2>1. l \in Nat /\ i \in 0..l
    BY <1>3
  <2>2. m \notin 0..(l - 1)
    BY <1>2, <1>3
  <2> HIDE DEF l
  <2> QED
    BY <1>1, <2>1, <2>2
<1> QED
  BY <1>4 DEF m

LEMMA LoopIsSymmetric ==
  ASSUME NEW s, NEW t, NEW n \in Nat
  PROVE  LoopEnds(s, t, n) = LoopEnds(t, s, n)
<1>1. {i \in 0..n : \/ i = n
                    \/ Char(s, i) = 0 /\ Char(t, i) = 0
                    \/ Char(s, i) # Char(t, i)}
        = {i \in 0..n : \/ i = n
                        \/ Char(t, i) = 0 /\ Char(s, i) = 0
                        \/ Char(t, i) # Char(s, i)}
  OBVIOUS
<1> QED
  BY <1>1 DEF LoopEnds

LEMMA AnyStringsReadInside == StringsTyped => NoReadBeyond
<1> SUFFICES ASSUME StringsTyped PROVE NoReadBeyond
  OBVIOUS
<1> DEFINE Reads(bound) == {i \in 0..LoopEnds(x, y, bound) : i < bound}
           LastRead(s) == IF IsString(s) THEN Len(Terminated(s)) ELSE Len(s) - 1
           InBoth      == 0..Min({LastRead(x), LastRead(y)})
<1>1. x \in Seq(Nat) /\ y \in Seq(Nat) /\ length \in Nat
  BY DEF StringsTyped
<1>2. ASSUME NEW n \in Nat, NEW s \in Seq(Nat), NEW t, IsString(s) \/ n <= Len(s),
             NEW i \in 0..LoopEnds(s, t, n), i < n
      PROVE  i <= LastRead(s)
  <2>1. CASE IsString(s)
    BY <2>1, LoopStaysInText
  <2>2. CASE ~IsString(s)
    <3>1. i \in Int /\ Len(s) \in Int /\ n <= Len(s)
      BY <1>2, <2>2
    <3> QED
      BY <1>2, <2>2, <3>1
  <2> QED
    BY <2>1, <2>2
<1>3. ASSUME NEW n \in Nat, \A s \in {x, y} : IsString(s) \/ n <= Len(s)
      PROVE  Reads(n) \subseteq InBoth
  <2>1. SUFFICES ASSUME NEW i \in Reads(n) PROVE i \in InBoth
    BY Zenon
  <2>2. /\ i \in 0..LoopEnds(x, y, n) /\ i < n /\ i \in Nat
        /\ i \in 0..LoopEnds(y, x, n)
    BY <2>1, LoopIsSymmetric
  <2>3. i <= LastRead(x) /\ i <= LastRead(y)
    BY <1>1, <1>2, <1>3, <2>2
  <2>4. LastRead(x) \in Int /\ LastRead(y) \in Int
    BY <1>1, TerminatedText
  <2> HIDE DEF LastRead
  <2>5. Min({LastRead(x), LastRead(y)}) \in {LastRead(x), LastRead(y)}
    BY <2>4, MinOfTwo, Zenon
  <2> QED
    BY <2>2, <2>3, <2>4, <2>5
<1>4. AreStrings => Reads(Endless(arrays, "X", "Y")) \subseteq InBoth
  <2>1. Endless(arrays, "X", "Y") \in Nat
    <3>1. Endless(arrays, "X", "Y") = Len(x) + Len(y) + 1
      BY DEF Endless, arrays, NULL
    <3>2. Len(x) \in Nat /\ Len(y) \in Nat
      BY <1>1
    <3> QED
      BY <3>1, <3>2
  <2> HIDE DEF Reads, InBoth
  <2> QED
    BY <1>3, <2>1 DEF AreStrings
<1>5. (\A s \in {x, y} : IsString(s) \/ length <= Len(s)) => Reads(length) \subseteq InBoth
  <2> HIDE DEF Reads, InBoth
  <2> QED
    BY <1>1, <1>3
<1> QED
  BY <1>4, <1>5, Zenon DEF NoReadBeyond

\* Numbers below twice the divisor.
LEMMA ModUpToTwice ==
  ASSUME NEW n \in Nat \ {0}, NEW k \in 0..(2 * n - 1)
  PROVE  /\ k < n => k % n = k /\ k \div n = 0
         /\ k >= n => k % n = k - n /\ k \div n = 1
OBVIOUS

\* The bytes of t, from 0, in which it differs from the array s.
BadBytes(s, t, n, c, flags) ==
  {k \in 0..(n * c - 1) : Char(s, MemoryIndex(k, n, flags)) # Char(t, k)}

\* The memory assertion in terms of the two arrays.
LEMMA EqualMemory ==
  ASSUME NEW memory, NEW n \in Nat \ {0}, NEW c \in Nat \ {0}, NEW flags
  PROVE  /\ UnityAssertEqualMemory(memory, "X", "Y", n, c, flags).ok \in BOOLEAN
         /\ UnityAssertEqualMemory(memory, "X", "Y", n, c, flags).ok
              <=> BadBytes(memory["X"], memory["Y"], n, c, flags) = {}
         /\ BadBytes(memory["X"], memory["Y"], n, c, flags) # {} =>
              UnityAssertEqualMemory(memory, "X", "Y", n, c, flags).element
                = Min(BadBytes(memory["X"], memory["Y"], n, c, flags)) \div n
<1> DEFINE hex == Style(1, "HEX")
           bad == BadBytes(memory["X"], memory["Y"], n, c, flags)
           shown == <<UnityPrintIntNumberByStyle(
                        Char(memory["X"], MemoryIndex(Min(bad), n, flags)), hex),
                      UnityPrintIntNumberByStyle(Char(memory["Y"], Min(bad)), hex)>>
           outcome == UnityAssertEqualMemory(memory, "X", "Y", n, c, flags)
<1>1. ~OneArrayNull("X", "Y") /\ "X" # "Y" /\ ~(c = 0 \/ n = 0)
  BY DEF OneArrayNull, NULL
<1>2. outcome = IF bad = {} THEN Pass ELSE Fail(Min(bad) \div n, shown)
  BY <1>1, Zenon DEF UnityAssertEqualMemory, BadBytes
<1>3. Pass.ok = TRUE /\ Fail(Min(bad) \div n, shown).ok = FALSE
      /\ Fail(Min(bad) \div n, shown).element = Min(bad) \div n
  BY DEF Pass, Fail
<1> HIDE DEF shown, outcome, bad
<1>4. outcome.ok \in BOOLEAN /\ (outcome.ok <=> bad = {}) /\ (bad # {} => outcome.element = Min(bad) \div n)
  BY <1>2, <1>3, Zenon
<1> QED
  BY <1>4 DEF outcome, bad

LEMMA AnyMemoryExact == StringsTyped => MemoryIsExact
<1> SUFFICES ASSUME StringsTyped, length > 0, length <= Len(x) PROVE
      LET twice == [arrays EXCEPT !.Y = x \o y]
      IN  /\ length <= Len(y) =>
               UnityAssertEqualMemory(arrays, "X", "Y", length, 1, UNITY_ARRAY_TO_ARRAY).ok
                 = (Cut(x) = Cut(y))
          /\ Len(x) = length /\ Len(y) = length =>
               LET each == UnityAssertEqualMemory(twice, "X", "Y", length, 2,
                                                  UNITY_ARRAY_TO_VAL)
               IN  each.ok = (x = y) /\ (~each.ok => each.element = 1)
  BY DEF MemoryIsExact
<1>1. /\ x \in Seq(Nat) /\ y \in Seq(Nat) /\ length \in Nat \ {0}
      /\ Len(x) \in Nat /\ Len(y) \in Nat
  BY DEF StringsTyped
<1>2. UNITY_ARRAY_TO_ARRAY # UNITY_ARRAY_TO_VAL /\ ~OneArrayNull("X", "Y") /\ "X" # "Y"
  BY DEF UNITY_ARRAY_TO_ARRAY, UNITY_ARRAY_TO_VAL, OneArrayNull, NULL
<1>3. ASSUME length <= Len(y)
      PROVE  UnityAssertEqualMemory(arrays, "X", "Y", length, 1, UNITY_ARRAY_TO_ARRAY).ok
               = (Cut(x) = Cut(y))
  <2> DEFINE bad == BadBytes(x, y, length, 1, UNITY_ARRAY_TO_ARRAY)
  <2>1. UnityAssertEqualMemory(arrays, "X", "Y", length, 1, UNITY_ARRAY_TO_ARRAY).ok \in BOOLEAN
        /\ (UnityAssertEqualMemory(arrays, "X", "Y", length, 1, UNITY_ARRAY_TO_ARRAY).ok
              <=> bad = {})
    <3>1. arrays["X"] = x /\ arrays["Y"] = y
      BY DEF arrays
    <3>2. PICK m : m = arrays
      OBVIOUS
    <3>3. /\ UnityAssertEqualMemory(m, "X", "Y", length, 1, UNITY_ARRAY_TO_ARRAY).ok \in BOOLEAN
          /\ UnityAssertEqualMemory(m, "X", "Y", length, 1, UNITY_ARRAY_TO_ARRAY).ok
               <=> BadBytes(m["X"], m["Y"], length, 1, UNITY_ARRAY_TO_ARRAY) = {}
      <4>1. 1 \in Nat \ {0}
        OBVIOUS
      <4> QED
        BY <1>1, <4>1, EqualMemory
    <3> QED
      BY <3>1, <3>2, <3>3
  <2>2. bad = {} <=> \A i \in 1..length : x[i] = y[i]
    <3>1. ASSUME NEW k \in 0..(length - 1)
          PROVE  k \in bad <=> x[k + 1] # y[k + 1]
      BY <1>1, <1>2, <1>3, <3>1 DEF MemoryIndex, Char, BadBytes
    <3>2. bad \subseteq 0..(length - 1)
      BY <1>1 DEF BadBytes
    <3>3. \A i \in 1..length : i - 1 \in 0..(length - 1) /\ (i - 1) + 1 = i
      BY <1>1
    <3>4. \A k \in 0..(length - 1) : k + 1 \in 1..length
      BY <1>1
    <3> HIDE DEF bad
    <3> QED
      BY <3>1, <3>2, <3>3, <3>4
  <2>3. Min({length, Len(x)}) = length /\ Min({length, Len(y)}) = length
    <3>1. length \in Int /\ Len(x) \in Int /\ Len(y) \in Int
      BY <1>1
    <3>2. /\ Min({length, Len(x)}) \in {length, Len(x)} /\ Min({length, Len(x)}) <= length
          /\ Min({length, Len(y)}) \in {length, Len(y)} /\ Min({length, Len(y)}) <= length
      BY <3>1, MinOfTwo, Zenon
    <3> QED
      BY <1>3, <3>1, <3>2
  <2>4. (Cut(x) = Cut(y)) <=> \A i \in 1..length : x[i] = y[i]
    <3>1. /\ Cut(x) \in Seq(Nat) /\ Len(Cut(x)) = length
          /\ \A i \in 1..length : Cut(x)[i] = x[i]
      <4>1. Cut(x) = SubSeq(x, 1, length)
        BY <2>3 DEF Cut
      <4> QED
        BY <1>1, <4>1
    <3>2. /\ Cut(y) \in Seq(Nat) /\ Len(Cut(y)) = length
          /\ \A i \in 1..length : Cut(y)[i] = y[i]
      <4>1. Cut(y) = SubSeq(y, 1, length)
        BY <2>3 DEF Cut
      <4> QED
        BY <1>1, <1>3, <4>1
    <3>3. PICK u, v : u = Cut(x) /\ v = Cut(y)
      OBVIOUS
    <3>4. (u = v) <=> \A i \in 1..length : u[i] = v[i]
      BY <3>1, <3>2, <3>3
    <3> QED
      BY <3>1, <3>2, <3>3, <3>4
  <2> HIDE DEF bad
  <2> QED
    BY <2>1, <2>2, <2>4
<1>4. ASSUME Len(x) = length, Len(y) = length
      PROVE  LET twice == [arrays EXCEPT !.Y = x \o y]
                 each == UnityAssertEqualMemory(twice, "X", "Y", length, 2, UNITY_ARRAY_TO_VAL)
             IN  each.ok = (x = y) /\ (~each.ok => each.element = 1)
  <2> DEFINE twice == [arrays EXCEPT !.Y = x \o y]
             each == UnityAssertEqualMemory(twice, "X", "Y", length, 2, UNITY_ARRAY_TO_VAL)
             bad == BadBytes(x, x \o y, length, 2, UNITY_ARRAY_TO_VAL)
  <2>1. twice["X"] = x /\ twice["Y"] = x \o y
    BY DEF arrays
  <2>2. /\ each.ok \in BOOLEAN /\ (each.ok <=> bad = {})
        /\ bad # {} => each.element = Min(bad) \div length
    <3>1. PICK m : m = twice
      OBVIOUS
    <3>2. /\ UnityAssertEqualMemory(m, "X", "Y", length, 2, UNITY_ARRAY_TO_VAL).ok \in BOOLEAN
          /\ UnityAssertEqualMemory(m, "X", "Y", length, 2, UNITY_ARRAY_TO_VAL).ok
               <=> BadBytes(m["X"], m["Y"], length, 2, UNITY_ARRAY_TO_VAL) = {}
          /\ BadBytes(m["X"], m["Y"], length, 2, UNITY_ARRAY_TO_VAL) # {} =>
               UnityAssertEqualMemory(m, "X", "Y", length, 2, UNITY_ARRAY_TO_VAL).element
                 = Min(BadBytes(m["X"], m["Y"], length, 2, UNITY_ARRAY_TO_VAL)) \div length
      <4>1. 2 \in Nat \ {0}
        OBVIOUS
      <4> QED
        BY <1>1, <4>1, EqualMemory
    <3> HIDE DEF twice
    <3> QED
      BY <2>1, <3>1, <3>2
  <2>3. /\ x \o y \in Seq(Nat) /\ Len(x \o y) = 2 * length
        /\ \A i \in 1..length : (x \o y)[i] = x[i] /\ (x \o y)[length + i] = y[i]
    BY <1>1, <1>4
  <2>4. ASSUME NEW k \in 0..(length * 2 - 1)
        PROVE  k \in bad <=> k >= length /\ x[k - length + 1] # y[k - length + 1]
    <3> DEFINE m == k % length
    <3>1. /\ k < length => m = k
          /\ k >= length => m = k - length
      <4>1. length * 2 = 2 * length
        BY <1>1
      <4> QED
        BY <1>1, <4>1, ModUpToTwice
    <3>2. MemoryIndex(k, length, UNITY_ARRAY_TO_VAL) = m
      BY DEF MemoryIndex
    <3> HIDE DEF m
    <3>3. m \in 0..(length - 1) /\ k \in 0..(2 * length - 1)
      BY <1>1, <3>1
    <3>4. Char(x, m) = x[m + 1]
      BY <1>4, <3>3 DEF Char
    <3>5. Char(x \o y, k) = (x \o y)[k + 1]
      BY <1>1, <2>3, <3>3 DEF Char
    <3>6. CASE k < length
      BY <1>1, <2>3, <3>1, <3>2, <3>3, <3>4, <3>5, <3>6 DEF BadBytes
    <3>7. CASE k >= length
      <4>1. k - length + 1 \in 1..length /\ length + (k - length + 1) = k + 1
        BY <1>1, <3>3, <3>7
      <4>2. (x \o y)[k + 1] = y[k - length + 1]
        <5>1. PICK i : i = k - length + 1
          OBVIOUS
        <5>2. (x \o y)[length + i] = y[i]
          BY <2>3, <4>1, <5>1
        <5> QED
          BY <4>1, <5>1, <5>2
      <4> QED
        BY <3>1, <3>2, <3>4, <3>5, <3>7, <4>2 DEF BadBytes
    <3> QED
      BY <1>1, <3>3, <3>6, <3>7
  <2>5. bad \subseteq 0..(length * 2 - 1)
    BY DEF BadBytes
  <2> HIDE DEF twice, each, bad
  <2>6. bad = {} <=> x = y
    <3>1. ASSUME bad = {}, NEW i \in 1..length PROVE x[i] = y[i]
      <4>1. /\ length + i - 1 \in 0..(length * 2 - 1) /\ length + i - 1 >= length
            /\ (length + i - 1) - length + 1 = i
        BY <1>1
      <4> QED
        BY <2>4, <3>1, <4>1
    <3>2. bad = {} => x = y
      BY <1>1, <1>4, <3>1
    <3>3. x = y => bad = {}
      BY <2>4, <2>5
    <3> QED
      BY <3>2, <3>3
  <2>7. bad # {} => each.element = 1
    <3>1. SUFFICES ASSUME bad # {} PROVE each.element = 1
      OBVIOUS
    <3>2. bad \subseteq Nat
      BY <1>1, <2>5
    <3>3. Min(bad) \in bad
      BY <3>1, <3>2, MinOfNaturals
    <3>4. Min(bad) \in 0..(2 * length - 1) /\ Min(bad) >= length
      <4>1. Min(bad) \in 0..(length * 2 - 1)
        BY <2>5, <3>3
      <4>2. Min(bad) >= length
        BY <2>4, <3>3, <4>1
      <4> QED
        BY <1>1, <4>1, <4>2
    <3> QED
      BY <1>1, <2>2, <3>1, <3>4, ModUpToTwice
  <2>8. each.ok = (x = y) /\ (~each.ok => each.element = 1)
    BY <2>2, <2>6, <2>7
  <2> QED
    BY <2>8 DEF each, twice
<1> QED
  BY <1>3, <1>4

--------------------------------------------------------------------------------
(***************************************************************************)
(* Powers.                                                                  *)
(***************************************************************************)
\* A step that may be taken n times from base gives a sequence of values.
LEMMA StepsExist ==
  ASSUME NEW base \in Nat, NEW step \in [Nat -> Nat], NEW n \in Nat
  PROVE  \E f \in [0..n -> Nat] : f[0] = base /\ \A i \in 1..n : f[i] = step[f[i - 1]]
<1> DEFINE Is(f, m) == f \in [0..m -> Nat] /\ f[0] = base /\ \A i \in 1..m : f[i] = step[f[i - 1]]
           bad == {m \in Nat : ~\E f : Is(f, m)}
<1>1. SUFFICES ASSUME bad # {} PROVE FALSE
  BY DEF bad
<1>2. PICK m \in bad : \A k \in bad : m <= k
  <2>1. bad \subseteq Nat
    OBVIOUS
  <2> HIDE DEF bad
  <2> QED
    BY <1>1, <2>1, MinOfNaturals
<1>3. m # 0
  <2> DEFINE f == [i \in 0..0 |-> base]
  <2>1. Is(f, 0)
    OBVIOUS
  <2> QED
    BY <2>1
<1>4. m \in Nat /\ m - 1 \in Nat
  BY <1>2, <1>3
<1>5. PICK f : Is(f, m - 1)
  <2>1. m - 1 \notin bad
    <3> HIDE DEF bad
    <3> QED
      BY <1>2, <1>4
  <2> QED
    BY <1>4, <2>1
<1> DEFINE g == [i \in 0..m |-> IF i = m THEN step[f[m - 1]] ELSE f[i]]
<1>6. Is(g, m)
  <2>1. f[m - 1] \in Nat
    BY <1>4, <1>5
  <2>2. \A i \in 0..(m - 1) : f[i] \in Nat /\ i \in 0..m
    BY <1>4, <1>5
  <2>3. g \in [0..m -> Nat]
    BY <1>4, <2>1, <2>2
  <2>4. g[0] = base
    BY <1>3, <1>4, <1>5
  <2>5. ASSUME NEW i \in 1..m PROVE g[i] = step[g[i - 1]]
    <3>1. i \in 0..m /\ i - 1 \in 0..m /\ i - 1 # m
      BY <1>4
    <3>2. CASE i = m
      BY <3>1, <3>2
    <3>3. CASE i # m
      <4>1. i \in 1..(m - 1)
        BY <1>4, <3>3
      <4> QED
        BY <1>5, <3>1, <3>3, <4>1
    <3> QED
      BY <3>2, <3>3
  <2> QED
    BY <2>3, <2>4, <2>5
<1> QED
  BY <1>2, <1>6

\* The recursive function that Power is taken from.
IsPower(f, base, n) == f = [j \in 0..n |-> IF j = 0 THEN 1 ELSE base * f[j - 1]]

LEMMA PowerFunction ==
  ASSUME NEW base \in Nat, NEW n \in Nat
  PROVE  \E f \in [0..n -> Nat] :
            /\ Power(base, n) = f[n]
            /\ f[0] = 1 /\ \A i \in 1..n : f[i] = base * f[i - 1]
<1> DEFINE step == [p \in Nat |-> base * p]
           h == CHOOSE f : IsPower(f, base, n)
<1>1. PICK g \in [0..n -> Nat] : g[0] = 1 /\ \A i \in 1..n : g[i] = step[g[i - 1]]
  <2>1. step \in [Nat -> Nat]
    OBVIOUS
  <2>2. PICK one \in Nat : one = 1
    OBVIOUS
  <2> HIDE DEF step
  <2>3. \E g \in [0..n -> Nat] : g[0] = one /\ \A i \in 1..n : g[i] = step[g[i - 1]]
    BY <2>1, StepsExist, ZenonT(60)
  <2> QED
    BY <2>2, <2>3
<1>2. ASSUME NEW j \in 0..n
      PROVE  g[j] \in Nat /\ g[j] = IF j = 0 THEN 1 ELSE base * g[j - 1]
  <2>1. CASE j = 0
    BY <1>1, <2>1
  <2>2. CASE j # 0
    <3>1. j \in 1..n /\ j - 1 \in 0..n
      BY <2>2
    <3>2. g[j - 1] \in Nat
      BY <1>1, <3>1
    <3> QED
      BY <1>1, <2>2, <3>1, <3>2
  <2> QED
    BY <2>1, <2>2
<1>3. IsPower(g, base, n)
  BY <1>1, <1>2 DEF IsPower
<1>4. IsPower(h, base, n)
  BY <1>3, Zenon
<1>5. Power(base, n) = h[n]
  BY Zenon DEF Power, IsPower
<1> HIDE DEF h
<1>6. h = [j \in 0..n |-> IF j = 0 THEN 1 ELSE base * h[j - 1]]
  BY <1>4 DEF IsPower
<1>7. \A j \in 0..n : h[j] = IF j = 0 THEN 1 ELSE base * h[j - 1]
  BY <1>6
<1> DEFINE bad == {j \in 0..n : h[j] \notin Nat}
<1>8. bad = {}
  <2>1. SUFFICES ASSUME bad # {} PROVE FALSE
    OBVIOUS
  <2>2. PICK j \in bad : \A i \in bad : j <= i
    <3>1. bad \subseteq Nat
      OBVIOUS
    <3> HIDE DEF bad
    <3> QED
      BY <2>1, <3>1, MinOfNaturals
  <2>3. j # 0
    BY <1>7
  <2>4. j - 1 \in 0..n /\ j - 1 \notin bad
    BY <2>2, <2>3
  <2>5. h[j - 1] \in Nat
    BY <2>4
  <2>6. h[j] = base * h[j - 1]
    BY <1>7, <2>3
  <2> QED
    BY <2>5, <2>6
<1>9. \A j \in 0..n : h[j] \in Nat
  BY <1>8
<1>10. h \in [0..n -> Nat]
  <2>1. h = [j \in 0..n |-> h[j]]
    BY <1>6
  <2> QED
    BY <1>9, <2>1
<1>11. h[0] = 1 /\ \A i \in 1..n : h[i] = base * h[i - 1]
  BY <1>7
<1> QED
  BY <1>5, <1>10, <1>11

\* One factor more.
LEMMA PowerIs ==
  ASSUME NEW base \in Nat
  PROVE  /\ Power(base, 0) = 1
         /\ \A k \in Nat : Power(base, k) \in Nat
         /\ \A k \in Nat : Power(base, k + 1) = base * Power(base, k)
<1>1. Power(base, 0) = 1
  <2>1. 0 \in Nat
    OBVIOUS
  <2> QED
    BY <2>1, PowerFunction
<1>2. ASSUME NEW k \in Nat PROVE Power(base, k) \in Nat
  <2>1. PICK f \in [0..k -> Nat] : Power(base, k) = f[k]
    BY PowerFunction
  <2>2. k \in 0..k
    OBVIOUS
  <2> QED
    BY <2>1, <2>2
<1>3. ASSUME NEW k \in Nat PROVE Power(base, k + 1) = base * Power(base, k)
  <2>1. PICK f \in [0..k -> Nat] : /\ Power(base, k) = f[k]
                                   /\ f[0] = 1 /\ \A i \in 1..k : f[i] = base * f[i - 1]
    BY PowerFunction
  <2>2. PICK n \in Nat : n = k + 1
    OBVIOUS
  <2>3. PICK g \in [0..n -> Nat] : /\ Power(base, n) = g[n]
                                   /\ g[0] = 1 /\ \A i \in 1..n : g[i] = base * g[i - 1]
    BY PowerFunction
  <2> DEFINE bad == {j \in 0..k : f[j] # g[j]}
  <2>4. bad = {}
    <3>1. SUFFICES ASSUME bad # {} PROVE FALSE
      OBVIOUS
    <3>2. PICK j \in bad : \A i \in bad : j <= i
      <4>1. bad \subseteq Nat
        OBVIOUS
      <4> HIDE DEF bad
      <4> QED
        BY <3>1, <4>1, MinOfNaturals
    <3>3. j \in 0..k /\ j # 0
      BY <2>1, <2>3
    <3>4. j - 1 \in 0..k /\ j - 1 \notin bad /\ j \in 1..k /\ j \in 1..n
      BY <2>2, <3>2, <3>3
    <3>5. f[j - 1] = g[j - 1]
      BY <3>4
    <3>6. f[j] = base * f[j - 1] /\ g[j] = base * g[j - 1]
      BY <2>1, <2>3, <3>4
    <3> QED
      BY <3>5, <3>6
  <2>5. f[k] = g[k]
    BY <2>4
  <2>6. n \in 1..n /\ n - 1 = k
    BY <2>2
  <2>7. g[n] = base * g[k]
    BY <2>3, <2>6
  <2> QED
    BY <2>1, <2>2, <2>3, <2>5, <2>7
<1> QED
  BY <1>1, <1>2, <1>3

\* The same, for no more factors than a number has bits.
LEMMA PowerUnfold ==
  ASSUME NEW base \in Nat
  PROVE  /\ Power(base, 0) = 1
         /\ \A k \in 0..64 : Power(base, k) \in Nat
         /\ \A k \in 1..64 : Power(base, k) = base * Power(base, k - 1)
<1>1. \A k \in 1..64 : k - 1 \in Nat /\ (k - 1) + 1 = k
  OBVIOUS
<1>2. \A k \in 0..64 : k \in Nat
  OBVIOUS
<1> QED
  BY <1>1, <1>2, PowerIs

--------------------------------------------------------------------------------
(***************************************************************************)
(* Integers.                                                                *)
(***************************************************************************)
LEMMA ByteValues == 2^BYTE \in {4, 16, 64, 256}
<1>1. 2^2 = 4 /\ 2^4 = 16 /\ 2^6 = 64 /\ 2^8 = 256
  OBVIOUS
<1>2. CASE BYTE = 2
  BY <1>1, <1>2
<1>3. CASE BYTE = 4
  BY <1>1, <1>3
<1>4. CASE BYTE = 6
  BY <1>1, <1>4
<1>5. CASE BYTE = 8
  BY <1>1, <1>5
<1> QED
  BY <1>2, <1>3, <1>4, <1>5, ByteAssumption

\* Each byte makes a type wider by the same factor.
LEMMA WidthUnfold ==
  \A b \in 0..8 : Width(b) = IF b = 0 THEN 1 ELSE 2^BYTE * Width(b - 1)
<1>1. 2^BYTE \in Nat
  <2>2. PICK w : w = 2^BYTE
    OBVIOUS
  <2>3. w \in {4, 16, 64, 256}
    BY <2>2, ByteValues
  <2> QED
    BY <2>2, <2>3
<1>2. \A b \in 0..8 : b \in 0..64 /\ (b # 0 => b \in 1..64)
  OBVIOUS
<1> QED
  BY <1>1, <1>2, PowerUnfold DEF Width

\* A type is as wide as two of the type half its size.
LEMMA WidthTimes ==
  /\ 2^BYTE \in Nat /\ 2^BYTE >= 4 /\ 2^BYTE = 2 * (2^BYTE \div 2)
  /\ Width(1) = 2^BYTE
  /\ Width(2) = Width(1) * Width(1)
  /\ Width(4) = Width(2) * Width(2)
  /\ Width(8) = Width(4) * Width(4)
<1>1. 2^BYTE \in Nat /\ 2^BYTE >= 4 /\ 2^BYTE = 2 * (2^BYTE \div 2)
  <2>2. PICK w : w = 2^BYTE
    OBVIOUS
  <2>3. w \in {4, 16, 64, 256}
    BY <2>2, ByteValues
  <2>4. w \in Nat /\ w >= 4 /\ w = 2 * (w \div 2)
    BY <2>3
  <2> QED
    BY <2>2, <2>4
<1>2. PICK w \in Nat : w = 2^BYTE
  BY <1>1
<1> DEFINE f == [b \in 0..8 |-> Width(b)]
<1>3. \A b \in 0..8 : f[b] = IF b = 0 THEN 1 ELSE w * f[b - 1]
  BY <1>2, WidthUnfold
<1> HIDE DEF f
<1>4. /\ f[0] = 1 /\ f[1] = w * f[0] /\ f[2] = w * f[1] /\ f[3] = w * f[2]
      /\ f[4] = w * f[3] /\ f[5] = w * f[4] /\ f[6] = w * f[5] /\ f[7] = w * f[6]
      /\ f[8] = w * f[7]
  BY <1>3
<1>5. f[1] = w /\ f[2] = w * w /\ f[4] = (w * w) * (w * w)
  BY <1>2, <1>4
<1>6. f[8] = f[4] * f[4]
  <2>1. f[4] \in Nat
    BY <1>2, <1>5
  <2>2. f[8] = w * (w * (w * (w * f[4])))
    BY <1>4
  <2>3. \A n \in Nat : w * (w * (w * (w * n))) = ((w * w) * (w * w)) * n
    BY <1>2
  <2> QED
    BY <1>5, <2>1, <2>2, <2>3
<1>7. f[1] = Width(1) /\ f[2] = Width(2) /\ f[4] = Width(4) /\ f[8] = Width(8)
  BY DEF f
<1> QED
  BY <1>1, <1>2, <1>5, <1>6, <1>7

\* The square of a width.
LEMMA WidthSquared ==
  ASSUME NEW v \in Nat, v >= 4, v = 2 * (v \div 2)
  PROVE  /\ v * v \in Nat /\ v * v >= 4 * v /\ v * v >= 4
         /\ v * v = 2 * ((v * v) \div 2)
<1>1. PICK h \in Nat : v = 2 * h
  OBVIOUS
<1>2. v * v = 2 * (h * v) /\ h * v \in Nat
  BY <1>1
<1>4. PICK n \in Nat : n = v * v
  OBVIOUS
<1>5. n >= 4 * v
  BY <1>4
<1>6. n >= 4
  BY <1>5
<1>7. n = 2 * (n \div 2)
  <2>1. PICK m \in Nat : m = h * v
    BY <1>2
  <2>2. n = 2 * m
    BY <1>2, <1>4, <2>1
  <2> QED
    BY <2>2
<1> QED
  BY <1>4, <1>5, <1>6, <1>7

LEMMA Widths ==
  ASSUME NEW b \in {1, 2, 4, 8}
  PROVE  /\ Width(b) \in Nat \ {0} /\ Width(b) = 2 * (Width(b) \div 2)
         /\ Width(b) \div 2 \in Nat \ {0}
         /\ Width(b) <= Width(8) /\ (b # 8 => 2 * Width(b) <= Width(8))
<1> DEFINE Even(v) == v \in Nat /\ v >= 4 /\ v = 2 * (v \div 2)
<1>1. Even(Width(1))
  BY WidthTimes
<1>2. Even(Width(2)) /\ Width(2) >= 4 * Width(1)
  BY <1>1, WidthTimes, WidthSquared
<1>3. Even(Width(4)) /\ Width(4) >= 4 * Width(2)
  BY <1>2, WidthTimes, WidthSquared
<1>4. Even(Width(8)) /\ Width(8) >= 4 * Width(4)
  BY <1>3, WidthTimes, WidthSquared
<1> QED
  BY <1>1, <1>2, <1>3, <1>4

\* Numbers at most one width outside.
LEMMA WrapOnce ==
  ASSUME NEW w \in Nat \ {0}, NEW n \in (-w)..(w - 1)
  PROVE  n % w = IF n < 0 THEN n + w ELSE n
OBVIOUS

\* The numbers of a type.
Numbers(k) ==
  LET w == Width(k.style.bytes)
  IN  IF IsInt(k.style) THEN (-(w \div 2))..(w \div 2 - 1) ELSE 0..(w - 1)

LEMMA KindFields ==
  ASSUME NEW k \in Kinds
  PROVE  /\ k.style.bytes \in {1, 2, 4, 8} /\ k.cast \in {1, 2, 4, 8}
         /\ Width(k.style.bytes) <= Width(k.cast)
         /\ IsInt(k.style) \in BOOLEAN
<1>1. k.style.bytes \in {1, 2, 4, 8} /\ k.cast \in {1, 2, 4, 8}
      /\ (k.cast = k.style.bytes \/ k.cast = 8)
  BY DEF Kinds, Style, INT_BYTES
<1> QED
  BY <1>1, Widths DEF IsInt

\* Numbers of a type are the same as signed or unsigned numbers of a wider one.
LEMMA SignedSame ==
  ASSUME NEW b \in {1, 2, 4, 8}, NEW n \in Int,
         -(Width(b) \div 2) <= n, n < Width(b) \div 2
  PROVE  Signed(n, b) = n
<1>1. /\ Width(b) \in Nat \ {0} /\ Width(b) \div 2 \in Nat \ {0}
      /\ Width(b) = 2 * (Width(b) \div 2)
  BY Widths
<1> DEFINE w == Width(b)
           h == w \div 2
<1>2. w \in Nat \ {0} /\ h \in Nat \ {0} /\ w = 2 * h /\ -h <= n /\ n < h
  BY <1>1
<1>3. Signed(n, b) = IF 2 * (n % w) < w THEN n % w ELSE (n % w) - w
  BY DEF Signed, Unsigned
<1> HIDE DEF h, w
<1>4. n % w = IF n < 0 THEN n + w ELSE n
  <2>1. n \in (-w)..(w - 1)
    BY <1>2
  <2> QED
    BY <1>2, <2>1, WrapOnce
<1> QED
  BY <1>2, <1>3, <1>4

LEMMA UnsignedSame ==
  ASSUME NEW b \in {1, 2, 4, 8}, NEW n \in Nat, n < Width(b)
  PROVE  Unsigned(n, b) = n
<1>1. Width(b) \in Nat \ {0}
  BY Widths
<1> QED
  BY <1>1, WrapOnce DEF Unsigned

LEMMA CastSame ==
  ASSUME NEW k \in Kinds, NEW n \in Numbers(k)
  PROVE  /\ n \in Int /\ Cast(k, n) = n
         /\ IsInt(k.style) => UNITY_INT(n) = n
<1> DEFINE w == Width(k.style.bytes)
           h == w \div 2
<1>1. /\ k.style.bytes \in {1, 2, 4, 8} /\ k.cast \in {1, 2, 4, 8} /\ 8 \in {1, 2, 4, 8}
      /\ w <= Width(k.cast) /\ w <= Width(8)
  BY KindFields, Widths
<1>2. \A b \in {1, 2, 4, 8} : /\ Width(b) \in Nat \ {0} /\ Width(b) = 2 * (Width(b) \div 2)
                              /\ Width(b) \div 2 \in Nat \ {0}
  BY Widths
<1>3. CASE IsInt(k.style)
  <2>1. n \in (-h)..(h - 1)
    BY <1>3 DEF Numbers
  <2>2. ASSUME NEW b \in {1, 2, 4, 8}, w <= Width(b) PROVE Signed(n, b) = n
    <3>1. h <= Width(b) \div 2 /\ h \in Nat /\ Width(b) \div 2 \in Nat
      <4>1. w = 2 * h /\ h \in Nat
        BY <1>1, <1>2
      <4>2. Width(b) = 2 * (Width(b) \div 2) /\ Width(b) \div 2 \in Nat
        BY <1>2
      <4> HIDE DEF w, h
      <4> QED
        BY <2>2, <4>1, <4>2
    <3> HIDE DEF w, h
    <3>2. n \in Int /\ -(Width(b) \div 2) <= n /\ n < Width(b) \div 2
      BY <2>1, <3>1
    <3> QED
      BY <3>2, SignedSame
  <2>3. n \in Int
    BY <2>1
  <2> HIDE DEF w
  <2> QED
    BY <1>1, <1>3, <2>2, <2>3 DEF Cast, UNITY_INT
<1>4. CASE ~IsInt(k.style)
  <2>1. n \in 0..(w - 1) /\ w \in Nat
    BY <1>1, <1>2, <1>4 DEF Numbers
  <2>2. n \in Nat /\ n < Width(k.cast)
    BY <1>1, <1>2, <2>1
  <2> QED
    BY <1>1, <1>4, <2>2, UnsignedSame DEF Cast
<1> QED
  BY <1>3, <1>4

\* As UNITY_UINT, two numbers are as far apart as they are, for either kind.
LEMMA ApartIsDistance ==
  ASSUME NEW m \in Int, NEW n \in Int, NEW d \in Nat,
         \/ /\ -(Width(8) \div 2) <= m /\ m < Width(8) \div 2
            /\ -(Width(8) \div 2) <= n /\ n < Width(8) \div 2
         \/ 0 <= m /\ m < Width(8) /\ 0 <= n /\ n < Width(8)
  PROVE  Apart(m, n, d) \in BOOLEAN /\ (~Apart(m, n, d) <=> m - n \in (-d)..d)
<1> DEFINE w == Width(8)
           Distance(i, j) == UNITY_UINT(UNITY_UINT(i) - UNITY_UINT(j))
<1>1. w \in Nat \ {0} /\ w = 2 * (w \div 2) /\ w \div 2 \in Nat
  BY Widths
<1>2. \A i : UNITY_UINT(i) = i % w
  BY DEF UNITY_UINT, Unsigned
<1>3. Apart(m, n, d) <=> (IF m > n THEN Distance(m, n) ELSE Distance(n, m)) > d
  BY DEF Apart
<1>4. Apart(m, n, d) \in BOOLEAN
  BY DEF Apart
<1> HIDE DEF w
<1>5. ASSUME NEW i \in {m, n}, NEW j \in {m, n}, i >= j PROVE Distance(i, j) = i - j
  <2>1. /\ i \in (-w)..(w - 1) /\ j \in (-w)..(w - 1)
        /\ i - j < w /\ i - j >= 0
    BY <1>1, <1>5 DEF w
  <2>2. /\ i % w = IF i < 0 THEN i + w ELSE i
        /\ j % w = IF j < 0 THEN j + w ELSE j
    BY <1>1, <2>1, WrapOnce
  <2>3. (i % w) - (j % w) \in (-w)..(w - 1)
        /\ ((i % w) - (j % w) = i - j \/ (i % w) - (j % w) = i - j - w)
    BY <1>1, <1>5, <2>1, <2>2
  <2>4. ((i % w) - (j % w)) % w = i - j
    <3>1. PICK k \in (-w)..(w - 1) : k = (i % w) - (j % w)
      BY <2>3
    <3>2. k % w = IF k < 0 THEN k + w ELSE k
      BY <1>1, WrapOnce
    <3> QED
      BY <1>1, <2>1, <2>3, <3>1, <3>2
  <2> QED
    BY <1>2, <2>4
<1> HIDE DEF Distance
<1>6. CASE m > n
  <2>1. Distance(m, n) = m - n
    BY <1>5, <1>6
  <2>2. Apart(m, n, d) <=> m - n > d
    BY <1>3, <1>6, <2>1
  <2> QED
    BY <1>4, <1>6, <2>2
<1>7. CASE ~(m > n)
  <2>1. Distance(n, m) = n - m
    BY <1>5, <1>7
  <2>2. Apart(m, n, d) <=> n - m > d
    BY <1>3, <1>7, <2>1
  <2> QED
    BY <1>4, <1>7, <2>2
<1> QED
  BY <1>4, <1>6, <1>7

LEMMA ComparedIsOrder ==
  ASSUME NEW m \in Int, NEW n \in Int
  PROVE  /\ \A compare : Compared(m, n, compare) \in BOOLEAN
         /\ Compared(m, n, UNITY_NOT_EQUAL) <=> n # m
         /\ Compared(m, n, UNITY_GREATER_THAN) <=> n > m
         /\ Compared(m, n, UNITY_GREATER_OR_EQUAL) <=> n >= m
         /\ Compared(m, n, UNITY_SMALLER_THAN) <=> n < m
         /\ Compared(m, n, UNITY_SMALLER_OR_EQUAL) <=> n <= m
BY DEF Compared, UNITY_NOT_EQUAL, UNITY_GREATER_THAN, UNITY_GREATER_OR_EQUAL,
       UNITY_SMALLER_THAN, UNITY_SMALLER_OR_EQUAL

\* The numbers of a state, any of the kind.
NumbersTyped ==
  /\ kind \in Kinds
  /\ expected \in [1..2 -> Numbers(kind)] /\ actual \in [1..2 -> Numbers(kind)]
  /\ delta \in 0..(Width(kind.style.bytes) - 1)

\* UNITY_INT tells 64-bit numbers apart, signed or not.
LEMMA UnityIntInjective ==
  ASSUME NEW m \in 0..(Width(8) - 1), NEW n \in 0..(Width(8) - 1)
  PROVE  UNITY_INT(m) = UNITY_INT(n) <=> m = n
<1> DEFINE w == Width(8)
<1>1. w \in Nat \ {0}
  BY Widths
<1>2. UNITY_INT(m) = (IF 2 * m < w THEN m ELSE m - w)
      /\ UNITY_INT(n) = (IF 2 * n < w THEN n ELSE n - w)
  <2>1. m \in Nat /\ m < Width(8) /\ n \in Nat /\ n < Width(8)
    BY <1>1
  <2> QED
    BY <2>1, UnsignedSame DEF UNITY_INT, Signed
<1> HIDE DEF w
<1>3. m \in 0..(w - 1) /\ n \in 0..(w - 1)
  BY DEF w
<1> QED
  BY <1>1, <1>2, <1>3

LEMMA EqualIsExact ==
  ASSUME NEW k \in Kinds, NEW m \in Numbers(k), NEW n \in Numbers(k)
  PROVE  EQUAL(k, m, n).ok = (m = n)
<1>1. /\ Cast(k, m) = m /\ Cast(k, n) = n
      /\ IsInt(k.style) => UNITY_INT(m) = m /\ UNITY_INT(n) = n
  BY CastSame
<1>2. \A i, j, style : /\ UnityAssertEqualIntNumber(i, j, style).ok = (i = j)
                       /\ UnityAssertEqualUintNumber(i, j, style).ok = (i = j)
  BY DEF UnityAssertEqualIntNumber, UnityAssertEqualUintNumber, Pass, Fail
<1>3. CASE IsInt(k.style)
  BY <1>1, <1>2, <1>3 DEF EQUAL
<1>4. CASE ~IsInt(k.style) /\ k.style.bytes = 8
  <2>1. m \in 0..(Width(8) - 1) /\ n \in 0..(Width(8) - 1)
    BY <1>4 DEF Numbers
  <2> QED
    BY <1>1, <1>2, <1>4, <2>1, UnityIntInjective DEF EQUAL
<1>5. CASE ~IsInt(k.style) /\ k.style.bytes # 8
  BY <1>1, <1>2, <1>5 DEF EQUAL
<1> QED
  BY <1>3, <1>4, <1>5

\* Two numbers of a kind are apart exactly if more than delta lies between them.
LEMMA NumbersApart ==
  ASSUME NEW k \in Kinds, NEW m \in Numbers(k), NEW n \in Numbers(k), NEW d \in Nat
  PROVE  Apart(n, m, d) \in BOOLEAN /\ (~Apart(n, m, d) <=> n - m \in (-d)..d)
<1>1. m \in Int /\ n \in Int
  BY CastSame
<1>2. /\ Width(k.style.bytes) <= Width(8) /\ Width(8) \in Nat
      /\ Width(k.style.bytes) \in Nat
      /\ Width(8) = 2 * (Width(8) \div 2) /\ Width(8) \div 2 \in Nat
      /\ Width(k.style.bytes) = 2 * (Width(k.style.bytes) \div 2)
      /\ Width(k.style.bytes) \div 2 \in Nat
  BY KindFields, Widths
<1>3. \/ /\ -(Width(8) \div 2) <= n /\ n < Width(8) \div 2
         /\ -(Width(8) \div 2) <= m /\ m < Width(8) \div 2
      \/ 0 <= n /\ n < Width(8) /\ 0 <= m /\ m < Width(8)
  BY <1>1, <1>2 DEF Numbers
<1> QED
  BY <1>1, <1>3, ApartIsDistance

LEMMA WithinIsExact ==
  ASSUME NEW k \in Kinds, NEW m \in Numbers(k), NEW n \in Numbers(k),
         NEW d \in 0..(Width(k.style.bytes) - 1)
  PROVE  d \in Nat /\ WITHIN(k, d, m, n).ok = ~Apart(n, m, d)
<1>1. d \in Nat /\ Unsigned(d, k.cast) = d
  <2>1. /\ Width(k.style.bytes) \in Nat \ {0} /\ Width(k.cast) \in Nat
        /\ k.cast \in {1, 2, 4, 8} /\ Width(k.style.bytes) <= Width(k.cast)
    BY KindFields, Widths
  <2>2. d \in Nat /\ d < Width(k.cast)
    BY <2>1
  <2> QED
    BY <2>1, <2>2, UnsignedSame
<1>2. Apart(n, m, d) \in BOOLEAN
  BY <1>1, NumbersApart
<1>3. \A style :
        /\ UnityAssertIntNumbersWithin(d, m, n, style).ok = ~Apart(n, m, d)
        /\ UnityAssertUintNumbersWithin(d, m, n, style).ok = ~Apart(n, m, d)
  BY <1>2 DEF UnityAssertIntNumbersWithin, UnityAssertUintNumbersWithin, Pass, Fail
<1>4. Cast(k, m) = m /\ Cast(k, n) = n /\ IsInt(k.style) \in BOOLEAN
  BY CastSame, KindFields
<1> QED
  BY <1>1, <1>3, <1>4 DEF WITHIN

LEMMA AnyNumbersExact == NumbersTyped => ScalarsAreExact
<1> SUFFICES ASSUME NumbersTyped PROVE ScalarsAreExact
  OBVIOUS
<1> DEFINE Is(compare) == COMPARE(kind, compare, e, a).ok
<1>1. /\ kind \in Kinds /\ e \in Numbers(kind) /\ a \in Numbers(kind)
      /\ delta \in 0..(Width(kind.style.bytes) - 1)
  BY DEF NumbersTyped, e, a
<1>2. e \in Int /\ a \in Int /\ Cast(kind, e) = e /\ Cast(kind, a) = a
  BY <1>1, CastSame
<1>3. EQUAL(kind, e, a).ok = (e = a)
  BY <1>1, EqualIsExact
<1>4. ASSUME NEW compare PROVE Is(compare) = Compared(e, a, compare)
  <2>1. Compared(e, a, compare) \in BOOLEAN
    BY <1>2, ComparedIsOrder
  <2>2. \A style :
          /\ UnityAssertIntGreaterOrLessOrEqualNumber(e, a, compare, style).ok
               = Compared(e, a, compare)
          /\ UnityAssertUintGreaterOrLessOrEqualNumber(e, a, compare, style).ok
               = Compared(e, a, compare)
    BY <2>1 DEF UnityAssertIntGreaterOrLessOrEqualNumber,
                UnityAssertUintGreaterOrLessOrEqualNumber, Pass, Fail
  <2> QED
    BY <1>2, <2>2 DEF COMPARE
<1>5. /\ Is(UNITY_NOT_EQUAL) = (a # e)
      /\ Is(UNITY_GREATER_THAN) = (a > e)
      /\ Is(UNITY_GREATER_OR_EQUAL) = (a >= e)
      /\ Is(UNITY_SMALLER_THAN) = (a < e)
      /\ Is(UNITY_SMALLER_OR_EQUAL) = (a <= e)
  <2> HIDE DEF Is
  <2> QED
    BY <1>2, <1>4, ComparedIsOrder
<1>6. WITHIN(kind, delta, e, a).ok = (a - e \in (-delta)..delta)
  <2>1. delta \in Nat /\ WITHIN(kind, delta, e, a).ok = ~Apart(a, e, delta)
    BY <1>1, WithinIsExact
  <2>2. Apart(a, e, delta) \in BOOLEAN /\ (~Apart(a, e, delta) <=> a - e \in (-delta)..delta)
    BY <1>1, <2>1, NumbersApart
  <2> QED
    BY <2>1, <2>2
<1> QED
  BY <1>3, <1>5, <1>6 DEF ScalarsAreExact

--------------------------------------------------------------------------------
(***************************************************************************)
(* Integers in memory.                                                      *)
(***************************************************************************)
\* The quotient and the rest of a natural number, and that there is one such pair.
LEMMA Divided ==
  ASSUME NEW n \in Nat, NEW p \in Nat \ {0}
  PROVE  /\ n \div p \in Nat /\ n % p \in 0..(p - 1)
         /\ n = (n \div p) * p + (n % p)
<1>1. n \div p \in Int /\ n = (n \div p) * p + (n % p) /\ (n % p) \in 0..(p - 1)
  OBVIOUS
<1> QED
  BY <1>1, Quotient

LEMMA DividedOnce ==
  ASSUME NEW p \in Nat \ {0}, NEW m \in Nat, NEW k \in Nat,
         NEW r \in 0..(p - 1), NEW t \in 0..(p - 1), m * p + r = k * p + t
  PROVE  m = k /\ r = t
<1>1. \A i, j \in Nat : i < j => i * p + p <= j * p
  <2> SUFFICES ASSUME NEW i \in Nat, NEW j \in Nat, i < j PROVE i * p + p <= j * p
    OBVIOUS
  <2>1. PICK d \in Nat : j = i + 1 + d
    BY DEF Nat
  <2>2. j * p = i * p + p + d * p /\ d * p \in Nat /\ i * p \in Nat
    BY <2>1
  <2> QED
    BY <2>2
<1>2. m * p \in Nat /\ k * p \in Nat
  OBVIOUS
<1>3. ~(m < k) /\ ~(k < m)
  BY <1>1, <1>2
<1>4. m = k
  BY <1>3
<1> QED
  BY <1>2, <1>4

\* The rest of a number, digit by digit.
LEMMA DigitOnTop ==
  ASSUME NEW n \in Nat, NEW p \in Nat \ {0}, NEW q \in Nat \ {0}
  PROVE  n % (p * q) = (n % p) + ((n \div p) % q) * p
<1>1. PICK r \in 0..(p - 1), m \in Nat : n = m * p + r /\ r = n % p /\ m = n \div p
  BY Divided
<1>2. PICK d \in 0..(q - 1), k \in Nat : m = k * q + d /\ d = m % q
  BY Divided
<1>3. PICK v \in Nat \ {0} : v = p * q
  OBVIOUS
<1>4. PICK t \in Nat : t = d * p + r
  <2>1. d * p \in Nat
    BY <1>2
  <2> QED
    BY <1>1, <2>1
<1>5. t < v
  <2>1. d <= q - 1 /\ d \in Nat
    BY <1>2
  <2>2. d * p <= (q - 1) * p /\ (q - 1) * p = v - p
    BY <1>3, <2>1
  <2> QED
    BY <1>1, <1>4, <2>2
<1>6. n = k * v + t
  <2>1. m * p = (k * q) * p + d * p
    BY <1>2
  <2>2. (k * q) * p = k * v
    BY <1>3
  <2>3. k * v \in Nat /\ d * p \in Nat
    BY <1>2
  <2>4. PICK a1, a2, a3 : a1 = m * p /\ a2 = k * v /\ a3 = d * p
    OBVIOUS
  <2>5. n = a1 + r /\ a1 = a2 + a3 /\ t = a3 + r /\ a2 \in Nat /\ a3 \in Nat
    BY <1>1, <1>4, <2>1, <2>2, <2>3, <2>4, Zenon
  <2>6. n = a2 + t
    BY <2>5
  <2> QED
    BY <2>4, <2>6
<1>7. n % v = t
  <2>1. n = (n \div v) * v + (n % v) /\ n \div v \in Nat /\ n % v \in 0..(v - 1)
    BY <1>3, Divided
  <2>2. t \in 0..(v - 1)
    BY <1>5
  <2> QED
    BY <1>6, <2>1, <2>2, DividedOnce
<1>8. (n \div p) % q = d /\ n % p = r
  BY <1>1, <1>2, Zenon
<1>9. t = r + d * p
  <2>1. PICK u \in Nat : u = d * p
    BY <1>2
  <2>2. t = u + r /\ u + r = r + u
    BY <1>4, <2>1
  <2> QED
    BY <2>1, <2>2
<1> QED
  BY <1>3, <1>7, <1>8, <1>9, Zenon

\* The recursive function that Bytes is taken from.
IsLow(f, object, offset) ==
  f = [b \in 0..8 |-> IF b = 0 THEN 0 ELSE f[b - 1] + object[offset + b] * Width(b - 1)]

LEMMA LowExists ==
  ASSUME NEW object, NEW offset
  PROVE  \E f : IsLow(f, object, offset)
<1> DEFINE part(b) == object[offset + b] * Width(b - 1)
           s1 == 0  + part(1)
           s2 == s1 + part(2)
           s3 == s2 + part(3)
           s4 == s3 + part(4)
           s5 == s4 + part(5)
           s6 == s5 + part(6)
           s7 == s6 + part(7)
           s8 == s7 + part(8)
           f == [b \in 0..8 |-> IF b = 0 THEN 0 ELSE IF b = 1 THEN s1
                                ELSE IF b = 2 THEN s2 ELSE IF b = 3 THEN s3
                                ELSE IF b = 4 THEN s4 ELSE IF b = 5 THEN s5
                                ELSE IF b = 6 THEN s6 ELSE IF b = 7 THEN s7 ELSE s8]
<1> HIDE DEF part
<1>1. /\ s1 = 0 + part(1) /\ s2 = s1 + part(2) /\ s3 = s2 + part(3)
      /\ s4 = s3 + part(4) /\ s5 = s4 + part(5) /\ s6 = s5 + part(6)
      /\ s7 = s6 + part(7) /\ s8 = s7 + part(8)
  OBVIOUS
<1> HIDE DEF s1, s2, s3, s4, s5, s6, s7, s8
<1>2. /\ f[0] = 0 /\ f[1] = s1 /\ f[2] = s2 /\ f[3] = s3 /\ f[4] = s4
      /\ f[5] = s5 /\ f[6] = s6 /\ f[7] = s7 /\ f[8] = s8
  OBVIOUS
<1>3. f = [b \in 0..8 |-> f[b]]
  OBVIOUS
<1> HIDE DEF f
<1>4. /\ f[1] = f[0] + part(1) /\ f[2] = f[1] + part(2) /\ f[3] = f[2] + part(3)
      /\ f[4] = f[3] + part(4) /\ f[5] = f[4] + part(5) /\ f[6] = f[5] + part(6)
      /\ f[7] = f[6] + part(7) /\ f[8] = f[7] + part(8)
  BY <1>1, <1>2, Zenon
<1>5. ASSUME NEW b \in 0..8 PROVE f[b] = IF b = 0 THEN 0 ELSE f[b - 1] + part(b)
  <2>1. b \in {0, 1, 2, 3, 4, 5, 6, 7, 8}
    OBVIOUS
  <2> QED
    BY <1>2, <1>4, <2>1
<1>6. f = [b \in 0..8 |-> IF b = 0 THEN 0 ELSE f[b - 1] + part(b)]
  BY <1>3, <1>5
<1> QED
  BY <1>6 DEF IsLow, part

\* Each byte is worth its place.
LEMMA BytesUnfold ==
  ASSUME NEW object, NEW offset
  PROVE  /\ Bytes(object, offset, 0) = 0
         /\ \A b \in 1..8 : Bytes(object, offset, b)
              = Bytes(object, offset, b - 1) + object[offset + b] * Width(b - 1)
<1> DEFINE f == CHOOSE f : IsLow(f, object, offset)
<1>1. IsLow(f, object, offset)
  BY LowExists, Zenon
<1>2. \A b : Bytes(object, offset, b) = f[b]
  BY Zenon DEF Bytes, IsLow
<1> HIDE DEF f
<1>3. \A b \in 0..8 : f[b] = IF b = 0 THEN 0 ELSE f[b - 1] + object[offset + b] * Width(b - 1)
  BY <1>1 DEF IsLow
<1> QED
  BY <1>2, <1>3

LEMMA WidthIsPositive == \A b \in 0..8 : Width(b) \in Nat \ {0}
<1>1. PICK w \in Nat \ {0} : w = 2^BYTE
  BY WidthTimes
<1> DEFINE W(b) == Width(b) \in Nat \ {0}
<1>2. W(0)
  BY WidthUnfold
<1>3. ASSUME NEW b \in 1..8, W(b - 1) PROVE W(b)
  <2>1. PICK v \in Nat \ {0} : v = Width(b - 1)
    BY <1>3
  <2>2. Width(b) = w * v
    BY <1>1, <2>1, WidthUnfold
  <2>3. w * v \in Nat \ {0}
    OBVIOUS
  <2> QED
    BY <2>2, <2>3
<1>4. ASSUME NEW b \in 0..8 PROVE W(b)
  <2>1. b \in {0, 1, 2, 3, 4, 5, 6, 7, 8}
    OBVIOUS
  <2> HIDE DEF W
  <2> QED
    BY <1>2, <1>3, <2>1
<1> QED
  BY <1>4

\* The digits of a number to the base of a byte, read back.
LEMMA BytesOfDigits ==
  ASSUME NEW n \in Nat, NEW object, NEW offset, NEW size \in {1, 2, 4, 8},
         \A b \in 1..size : object[offset + b] = (n \div Width(b - 1)) % Width(1)
  PROVE  Bytes(object, offset, size) = n % Width(size)
<1> DEFINE P(b) == Bytes(object, offset, b) = n % Width(b)
<1>1. PICK w \in Nat \ {0} : w = 2^BYTE /\ w = Width(1)
  BY WidthTimes
<1>2. \A b \in 0..8 : Width(b) \in Nat \ {0}
  BY WidthIsPositive
<1>3. P(0)
  <2>1. Width(0) = 1 /\ n % 1 = 0
    BY WidthUnfold
  <2> QED
    BY <2>1, BytesUnfold
<1>4. ASSUME NEW b \in 1..size, P(b - 1) PROVE P(b)
  <2>1. b \in 1..8 /\ b - 1 \in 0..8
    OBVIOUS
  <2>2. PICK v \in Nat \ {0} : v = Width(b - 1)
    BY <1>2, <2>1
  <2>3. Width(b) = v * w
    <3>1. Width(b) = w * v
      BY <1>1, <2>1, <2>2, WidthUnfold
    <3>2. w * v = v * w
      OBVIOUS
    <3> QED
      BY <3>1, <3>2
  <2>4. Bytes(object, offset, b) = (n % v) + ((n \div v) % w) * v
    <3>1. object[offset + b] = (n \div v) % w
      BY <1>1, <2>2
    <3>2. Bytes(object, offset, b - 1) = n % v
      BY <1>4, <2>2
    <3>3. Bytes(object, offset, b)
            = Bytes(object, offset, b - 1) + object[offset + b] * Width(b - 1)
      BY <2>1, BytesUnfold
    <3> QED
      BY <2>2, <3>1, <3>2, <3>3, Zenon
  <2>5. n % (v * w) = (n % v) + ((n \div v) % w) * v
    BY DigitOnTop
  <2> QED
    BY <2>3, <2>4, <2>5
<1>5. size \in 1..8
  OBVIOUS
<1> HIDE DEF P
<1>6. P(1)
  BY <1>3, <1>4
<1>7. CASE size >= 2
  <2>1. P(2)
    BY <1>4, <1>6, <1>7
  <2>2. CASE size >= 4
    <3>1. P(3)
      BY <1>4, <2>1, <2>2
    <3>2. P(4)
      BY <1>4, <2>2, <3>1
    <3>3. CASE size = 8
      <4>1. P(5)
        BY <1>4, <3>2, <3>3
      <4>2. P(6)
        BY <1>4, <3>3, <4>1
      <4>3. P(7)
        BY <1>4, <3>3, <4>2
      <4>4. P(8)
        BY <1>4, <3>3, <4>3
      <4> QED
        BY <3>3, <4>4 DEF P
    <3>4. CASE size = 4
      BY <3>2, <3>4 DEF P
    <3> QED
      BY <2>2, <3>3, <3>4
  <2>3. CASE size = 2
    BY <2>1, <2>3 DEF P
  <2> QED
    BY <1>7, <2>2, <2>3
<1>8. CASE size = 1
  BY <1>6, <1>8 DEF P
<1> QED
  BY <1>7, <1>8

\* A sequence of two sequences, one behind the other.
LEMMA FlattenTwo ==
  ASSUME NEW S, NEW seqs \in [1..2 -> Seq(S)]
  PROVE  FlattenSeq(seqs) = seqs[1] \o seqs[2]
<1> DEFINE F(f) == f = [i \in 1..Len(seqs) |-> IF i = 1 THEN seqs[i] ELSE f[i - 1] \o seqs[i]]
           g == [i \in 1..2 |-> IF i = 1 THEN seqs[1] ELSE seqs[1] \o seqs[2]]
           h == CHOOSE f : F(f)
<1>1. Len(seqs) = 2
  OBVIOUS
<1>2. F(g)
  <2>1. \A i \in 1..2 : g[i] = IF i = 1 THEN seqs[i] ELSE g[i - 1] \o seqs[i]
    OBVIOUS
  <2>2. g = [i \in 1..2 |-> g[i]]
    OBVIOUS
  <2> HIDE DEF g
  <2> QED
    BY <1>1, <2>1, <2>2
<1>3. F(h)
  BY <1>2, Zenon
<1>4. h[2] = seqs[1] \o seqs[2]
  <2> HIDE DEF h
  <2>1. \A i \in 1..2 : h[i] = IF i = 1 THEN seqs[i] ELSE h[i - 1] \o seqs[i]
    BY <1>1, <1>3
  <2>2. 1 \in 1..2 /\ 2 \in 1..2 /\ 2 # 1 /\ 2 - 1 = 1
    OBVIOUS
  <2>3. h[1] = seqs[1] /\ h[2] = h[2 - 1] \o seqs[2]
    BY <2>1, <2>2, Zenon
  <2> QED
    BY <2>2, <2>3, Zenon
<1>5. FlattenSeq(seqs) = h[Len(seqs)]
  BY <1>1 DEF FlattenSeq
<1> QED
  BY <1>1, <1>4, <1>5

\* The bytes that UnityNumToPtr writes are the digits of the number.
LEMMA PtrDigits ==
  ASSUME NEW v \in Int, NEW size \in {1, 2, 4, 8}
  PROVE  /\ v % Width(size) \in Nat
         /\ UnityNumToPtr(v, size) \in Seq(Int) /\ Len(UnityNumToPtr(v, size)) = size
         /\ \A b \in 1..size :
              UnityNumToPtr(v, size)[b] = ((v % Width(size)) \div Width(b - 1)) % Width(1)
<1>1. Width(size) \in Nat \ {0}
  BY Widths
<1>2. PICK w \in Nat \ {0} : w = Width(size)
  BY <1>1
<1>3. v % Width(size) \in Nat
  BY <1>2
<1> DEFINE digit(b) == ((v % Width(size)) \div Width(b - 1)) % Width(1)
<1>4. UnityNumToPtr(v, size) = [b \in 1..size |-> digit(b)]
  BY DEF UnityNumToPtr, Unsigned
<1>5. \A b \in 1..size : digit(b) \in Int
  <2> TAKE b \in 1..size
  <2>1. b - 1 \in 0..8
    OBVIOUS
  <2>2. Width(b - 1) \in Nat \ {0} /\ Width(1) \in Nat \ {0}
    BY <2>1, WidthIsPositive, Widths
  <2>3. PICK u \in Nat, p \in Nat \ {0}, q \in Nat \ {0} :
          u = v % Width(size) /\ p = Width(b - 1) /\ q = Width(1)
    BY <1>3, <2>2
  <2>4. u \div p \in Nat
    BY Divided
  <2>5. PICK r \in Nat : r = u \div p
    BY <2>4
  <2>6. r % q \in Int
    OBVIOUS
  <2> QED
    BY <2>3, <2>5, <2>6
<1> HIDE DEF digit
<1>6. UnityNumToPtr(v, size) \in [1..size -> Int]
  BY <1>4, <1>5
<1>7. size \in Nat
  OBVIOUS
<1> QED
  BY <1>3, <1>4, <1>6, <1>7 DEF digit

\* Element k of an array of two numbers in memory is read back as its lowest bytes.
LEMMA ArrayReadsBack ==
  ASSUME kind \in Kinds, NEW values \in [1..2 -> Int], NEW k \in 0..1
  PROVE  Bytes(InMemory(values), k * kind.style.bytes, kind.style.bytes)
           = Unsigned(values[k + 1], kind.style.bytes)
<1> DEFINE size == kind.style.bytes
           pieces == [j \in 1..2 |-> UnityNumToPtr(values[j], size)]
<1>1. size \in {1, 2, 4, 8}
  BY KindFields
<1>2. \A j \in 1..2 : values[j] \in Int
  OBVIOUS
<1> HIDE DEF size
<1>3. pieces \in [1..2 -> Seq(Int)] /\ \A j \in 1..2 : Len(pieces[j]) = size
  BY <1>1, <1>2, PtrDigits
<1>4. InMemory(values) = FlattenSeq(pieces)
  BY DEF InMemory, size
<1>5. InMemory(values) = pieces[1] \o pieces[2]
  <2> HIDE DEF pieces
  <2> QED
    BY <1>3, <1>4, FlattenTwo
<1>6. \A b \in 1..size : InMemory(values)[k * size + b] = pieces[k + 1][b]
  <2> HIDE DEF pieces
  <2>1. PICK s1 \in Seq(Int), s2 \in Seq(Int) : s1 = pieces[1] /\ s2 = pieces[2]
    BY <1>3
  <2>2. Len(s1) = size /\ Len(s2) = size /\ size \in Nat
    BY <1>1, <1>3, <2>1
  <2>3. \A b \in 1..size : (s1 \o s2)[b] = s1[b] /\ (s1 \o s2)[size + b] = s2[b]
    BY <2>2
  <2>4. CASE k = 0
    <3>1. \A b \in 1..size : k * size + b = b /\ k + 1 = 1
      BY <2>2, <2>4
    <3> QED
      BY <1>5, <2>1, <2>3, <3>1
  <2>5. CASE k = 1
    <3>1. \A b \in 1..size : k * size + b = size + b /\ k + 1 = 2
      BY <2>2, <2>5
    <3> QED
      BY <1>5, <2>1, <2>3, <3>1
  <2> QED
    BY <2>4, <2>5
<1>7. PICK n \in Nat : n = values[k + 1] % Width(size)
  <2>1. k + 1 \in 1..2
    OBVIOUS
  <2> QED
    BY <1>1, <1>2, <2>1, PtrDigits
<1>8. \A b \in 1..size :
        InMemory(values)[k * size + b] = (n \div Width(b - 1)) % Width(1)
  <2> TAKE b \in 1..size
  <2>1. k + 1 \in 1..2
    OBVIOUS
  <2>2. pieces[k + 1] = UnityNumToPtr(values[k + 1], size)
    BY <2>1
  <2>3. UnityNumToPtr(values[k + 1], size)[b]
          = ((values[k + 1] % Width(size)) \div Width(b - 1)) % Width(1)
    BY <1>1, <1>2, <2>1, PtrDigits
  <2> HIDE DEF pieces
  <2> QED
    BY <1>6, <1>7, <2>2, <2>3
<1>9. Bytes(InMemory(values), k * size, size) = n % Width(size)
  BY <1>1, <1>8, BytesOfDigits
<1>10. n % Width(size) = n
  <2>1. Width(size) \in Nat \ {0}
    BY <1>1, Widths
  <2>2. PICK w \in Nat \ {0} : w = Width(size)
    BY <2>1
  <2>3. n \in 0..(w - 1)
    BY <1>1, <1>2, <1>7, <2>2
  <2>4. n % w = n
    BY <2>3
  <2> QED
    BY <2>2, <2>4
<1> QED
  BY <1>7, <1>9, <1>10 DEF Unsigned, size

\* A 64-bit number that is taken as signed and as unsigned again.
LEMMA UintOfInt ==
  ASSUME NEW n \in 0..(Width(8) - 1)
  PROVE  UNITY_INT(n) \in Int /\ UNITY_UINT(UNITY_INT(n)) = n
<1>1. 8 \in {1, 2, 4, 8}
  OBVIOUS
<1>2. PICK w \in Nat \ {0} : w = Width(8)
  BY <1>1, Widths
<1>3. n \in Nat /\ n < w
  BY <1>2
<1>4. Unsigned(n, 8) = n
  BY <1>1, <1>2, <1>3, UnsignedSame
<1>5. UNITY_INT(n) = IF 2 * n < w THEN n ELSE n - w
  BY <1>2, <1>4 DEF UNITY_INT, Signed
<1>6. PICK i \in (-w)..(w - 1) : i = UNITY_INT(n)
  BY <1>3, <1>5
<1>7. i % w = IF i < 0 THEN i + w ELSE i
  BY WrapOnce
<1>8. i % w = n
  BY <1>3, <1>5, <1>6, <1>7
<1> QED
  BY <1>2, <1>6, <1>8 DEF UNITY_UINT, Unsigned

\* What a number of kind k is once it is loaded: a 64-bit unsigned one is taken as signed.
Loaded(k, n) == IF ~IsInt(k.style) /\ k.style.bytes = 8 THEN UNITY_INT(n) ELSE n

LEMMA LoadIs ==
  ASSUME NEW k \in Kinds, NEW n \in Numbers(k), NEW object, NEW offset,
         Bytes(object, offset, k.style.bytes) = Unsigned(n, k.style.bytes)
  PROVE  Load(object, offset, k.style) = Loaded(k, n)
<1> DEFINE size == k.style.bytes
           u == Unsigned(n, size)
<1>1. size \in {1, 2, 4, 8} /\ IsInt(k.style) \in BOOLEAN /\ n \in Int
  BY KindFields, CastSame
<1>2. PICK w \in Nat \ {0} : w = Width(size) /\ w = 2 * (w \div 2) /\ w \div 2 \in Nat
  BY <1>1, Widths
<1>3. Unsigned(u, size) = u
  <2>1. n % w \in 0..(w - 1)
    BY <1>1, <1>2
  <2>2. PICK r \in 0..(w - 1) : r = n % w
    BY <2>1
  <2>3. r % w = r
    OBVIOUS
  <2> QED
    BY <1>2, <2>2, <2>3 DEF Unsigned
<1>4. Signed(u, size) = Signed(n, size)
  BY <1>3 DEF Signed
<1>5. Load(object, offset, k.style)
        = IF IsInt(k.style) \/ size = 8 THEN Signed(n, size) ELSE u
  BY <1>4 DEF Load
<1>6. CASE IsInt(k.style)
  <2>1. -(Width(size) \div 2) <= n /\ n < Width(size) \div 2
    BY <1>2, <1>6 DEF Numbers
  <2>2. Signed(n, size) = n
    BY <1>1, <2>1, SignedSame
  <2> QED
    BY <1>5, <1>6, <2>2 DEF Loaded
<1>7. CASE ~IsInt(k.style) /\ size = 8
  BY <1>5, <1>7 DEF Loaded, UNITY_INT
<1>8. CASE ~IsInt(k.style) /\ size # 8
  <2>1. n \in Nat /\ n < Width(size)
    BY <1>2, <1>8 DEF Numbers
  <2>2. u = n
    BY <1>1, <2>1, UnsignedSame
  <2> QED
    BY <1>5, <1>8, <2>2 DEF Loaded
<1> QED
  BY <1>1, <1>6, <1>7, <1>8

\* Loading tells numbers apart, and UNITY_UINT gives an unsigned one back.
LEMMA LoadedNumbers ==
  ASSUME NEW k \in Kinds, NEW m \in Numbers(k), NEW n \in Numbers(k)
  PROVE  /\ Loaded(k, m) = Loaded(k, n) <=> m = n
         /\ ~IsInt(k.style) => UNITY_UINT(Loaded(k, m)) = m
<1>1. IsInt(k.style) \in BOOLEAN /\ k.style.bytes \in {1, 2, 4, 8} /\ 8 \in {1, 2, 4, 8}
  BY KindFields
<1>2. CASE ~IsInt(k.style) /\ k.style.bytes = 8
  <2>1. m \in 0..(Width(8) - 1) /\ n \in 0..(Width(8) - 1)
    BY <1>2 DEF Numbers
  <2>2. UNITY_INT(m) = UNITY_INT(n) <=> m = n
    BY <2>1, UnityIntInjective
  <2>3. UNITY_UINT(UNITY_INT(m)) = m
    BY <2>1, UintOfInt
  <2> QED
    BY <1>2, <2>2, <2>3 DEF Loaded
<1>3. CASE ~IsInt(k.style) /\ k.style.bytes # 8
  <2>1. m \in Nat /\ m < Width(8)
    <3>1. /\ Width(k.style.bytes) \in Nat /\ Width(8) \in Nat
          /\ Width(k.style.bytes) <= Width(8)
      BY <1>1, Widths
    <3>2. m \in 0..(Width(k.style.bytes) - 1)
      BY <1>3 DEF Numbers
    <3> QED
      BY <3>1, <3>2
  <2>2. UNITY_UINT(m) = m
    BY <1>1, <2>1, UnsignedSame DEF UNITY_UINT
  <2> QED
    BY <1>3, <2>2 DEF Loaded
<1>4. CASE IsInt(k.style)
  BY <1>4 DEF Loaded
<1> QED
  BY <1>1, <1>2, <1>3, <1>4

\* Cast to UNITY_INT a number has the same lowest bytes.
LEMMA SameLowBytes ==
  ASSUME NEW k \in Kinds, NEW n \in Numbers(k)
  PROVE  /\ UNITY_INT(n) \in Int
         /\ Unsigned(UNITY_INT(n), k.style.bytes) = Unsigned(n, k.style.bytes)
<1>1. /\ IsInt(k.style) \in BOOLEAN /\ k.style.bytes \in {1, 2, 4, 8}
      /\ 8 \in {1, 2, 4, 8} /\ n \in Int
  BY KindFields, CastSame
<1>2. CASE IsInt(k.style)
  BY <1>1, <1>2, CastSame
<1>3. CASE ~IsInt(k.style) /\ k.style.bytes = 8
  <2>1. n \in 0..(Width(8) - 1)
    BY <1>3 DEF Numbers
  <2>2. UNITY_INT(n) \in Int /\ Unsigned(UNITY_INT(n), 8) = n
    BY <2>1, UintOfInt DEF UNITY_UINT
  <2>3. Unsigned(n, 8) = n
    <3>1. Width(8) \in Nat
      BY <1>1, Widths
    <3>2. n \in Nat /\ n < Width(8)
      BY <2>1, <3>1
    <3> QED
      BY <1>1, <3>2, UnsignedSame
  <2> QED
    BY <1>3, <2>2, <2>3
<1>4. CASE ~IsInt(k.style) /\ k.style.bytes # 8
  <2>1. PICK w \in Nat, v \in Nat, h \in Nat :
          w = Width(k.style.bytes) /\ v = Width(8) /\ 2 * w <= v /\ v = 2 * h /\ h = v \div 2
    BY <1>1, <1>4, Widths
  <2>2. n \in 0..(w - 1)
    BY <1>4, <2>1 DEF Numbers
  <2>3. -h <= n /\ n < h
    BY <2>1, <2>2
  <2>4. UNITY_INT(n) = n
    BY <1>1, <2>1, <2>3, SignedSame DEF UNITY_INT
  <2> QED
    BY <1>1, <2>4
<1> QED
  BY <1>1, <1>2, <1>3, <1>4

\* Of two assertions on elements that fail for the same ones, both name the first.
LEMMA SameFirst ==
  ASSUME NEW r, NEW s, DOMAIN r = DOMAIN s
  PROVE  FirstOf(r).ok = FirstOf(s).ok /\ FirstOf(r).element = FirstOf(s).element
BY DEF FirstOf, Pass, Fail

LEMMA EqualAsLoaded ==
  ASSUME NEW k \in Kinds, NEW m \in Numbers(k), NEW n \in Numbers(k)
  PROVE  EQUAL(k, m, n).ok <=> Loaded(k, m) = Loaded(k, n)
<1>1. EQUAL(k, m, n).ok = (m = n)
  BY EqualIsExact
<1>2. Loaded(k, m) = Loaded(k, n) <=> m = n
  BY LoadedNumbers
<1> QED
  BY <1>1, <1>2, Zenon

LEMMA AnyNumberArraysExact == NumbersTyped => ArraysAreScalars
<1> SUFFICES ASSUME NumbersTyped PROVE ArraysAreScalars
  OBVIOUS
<1> DEFINE size == kind.style.bytes
           Outcome(bad) == FirstOf([k \in bad |-> <<>>])
           Same(r, s) == r.ok = s.ok /\ r.element = s.element
           Against(flags, k) == IF flags = UNITY_ARRAY_TO_VAL THEN e ELSE expected[k + 1]
           unequal == {k \in 0..1 : ~EQUAL(kind, expected[k + 1], actual[k + 1]).ok}
           unlike  == {k \in 0..1 : ~EQUAL(kind, e, actual[k + 1]).ok}
           far(flags) == {k \in 0..1 :
                            ~WITHIN(kind, delta, Against(flags, k), actual[k + 1]).ok}
           Modes == {UNITY_ARRAY_TO_ARRAY, UNITY_ARRAY_TO_VAL}
<1>1. kind \in Kinds /\ size \in {1, 2, 4, 8} /\ IsInt(kind.style) \in BOOLEAN
  BY KindFields DEF NumbersTyped
<1>2. /\ \A k \in 0..1 : expected[k + 1] \in Numbers(kind) /\ actual[k + 1] \in Numbers(kind)
      /\ e \in Numbers(kind) /\ delta \in 0..(Width(kind.style.bytes) - 1)
  BY DEF NumbersTyped, e
<1>3. expected \in [1..2 -> Int] /\ actual \in [1..2 -> Int]
  BY <1>1, CastSame DEF NumbersTyped
<1>4. /\ mem["E"] = InMemory(expected) /\ mem["A"] = InMemory(actual)
      /\ "E" # "A" /\ ~OneArrayNull("E", "A") /\ 2 # 0 /\ 2 - 1 = 1
      /\ UNITY_ARRAY_TO_ARRAY # UNITY_ARRAY_TO_VAL
  BY DEF mem, OneArrayNull, NULL, UNITY_ARRAY_TO_ARRAY, UNITY_ARRAY_TO_VAL
<1>5. ASSUME NEW k \in 0..1
      PROVE  Actual(mem, "A", k, kind.style) = Loaded(kind, actual[k + 1])
  BY <1>1, <1>2, <1>3, <1>4, ArrayReadsBack, LoadIs DEF Actual
<1>6. ASSUME NEW k \in 0..1, NEW flags \in Modes
      PROVE  Expected(mem, "E", k, kind.style, flags) = Loaded(kind, Against(flags, k))
  <2>1. CASE flags = UNITY_ARRAY_TO_ARRAY
    BY <1>1, <1>2, <1>3, <1>4, <2>1, ArrayReadsBack, LoadIs DEF Expected
  <2>2. CASE flags = UNITY_ARRAY_TO_VAL
    <3>1. 0 \in 0..1 /\ 0 * size = 0 /\ e = expected[0 + 1]
      BY <1>1 DEF e
    <3>2. Bytes(InMemory(expected), 0, size) = Unsigned(e, size)
      BY <1>1, <1>3, <3>1, ArrayReadsBack
    <3> QED
      BY <1>1, <1>2, <1>4, <2>2, <3>2, LoadIs DEF Expected
  <2> QED
    BY <2>1, <2>2
<1>7. Same(UnityAssertEqualIntArray(mem, "E", "A", 2, kind.style, UNITY_ARRAY_TO_ARRAY),
           Outcome(unequal))
  <2>1. unequal = {k \in 0..1 : Expected(mem, "E", k, kind.style, UNITY_ARRAY_TO_ARRAY)
                                  # Actual(mem, "A", k, kind.style)}
    <3>1. \A k \in 0..1 : Against(UNITY_ARRAY_TO_ARRAY, k) = expected[k + 1]
      BY <1>4
    <3>2. ASSUME NEW k \in 0..1
          PROVE  EQUAL(kind, expected[k + 1], actual[k + 1]).ok
                   <=> Expected(mem, "E", k, kind.style, UNITY_ARRAY_TO_ARRAY)
                         = Actual(mem, "A", k, kind.style)
      <4>1. /\ Expected(mem, "E", k, kind.style, UNITY_ARRAY_TO_ARRAY)
                  = Loaded(kind, expected[k + 1])
            /\ Actual(mem, "A", k, kind.style) = Loaded(kind, actual[k + 1])
        BY <1>5, <1>6, <3>1
      <4> QED
        BY <1>1, <1>2, <4>1, EqualAsLoaded
    <3> QED
      BY <3>2
  <2> HIDE DEF unequal
  <2> QED
    BY <1>4, <2>1, SameFirst DEF UnityAssertEqualIntArray
<1>8. Same(EACH_EQUAL(mem, kind, e, "A", 2), Outcome(unlike))
  <2> DEFINE ptr == UnityNumToPtr(UNITY_INT(Cast(kind, e)), size)
             mem2 == [mem EXCEPT !.UnityQuickCompare = ptr]
  <2>1. /\ mem2["A"] = mem["A"] /\ mem2["UnityQuickCompare"] = ptr
        /\ "UnityQuickCompare" # "A" /\ ~OneArrayNull("UnityQuickCompare", "A")
    BY DEF mem, OneArrayNull, NULL
  <2>2. ptr = UnityNumToPtr(UNITY_INT(e), size)
    BY <1>1, <1>2, CastSame
  <2>3. Bytes(ptr, 0, size) = Unsigned(e, size)
    <3>1. UNITY_INT(e) \in Int /\ Unsigned(UNITY_INT(e), size) = Unsigned(e, size)
      BY <1>1, <1>2, SameLowBytes
    <3> HIDE DEF size
    <3>2. PICK n \in Nat : n = UNITY_INT(e) % Width(size)
      BY <1>1, <3>1, PtrDigits
    <3>3. \A b \in 1..size : ptr[0 + b] = (n \div Width(b - 1)) % Width(1)
      <4> TAKE b \in 1..size
      <4>1. 0 + b = b
        BY <1>1
      <4> HIDE DEF ptr
      <4> QED
        BY <1>1, <2>2, <3>1, <3>2, <4>1, PtrDigits
    <3>4. Bytes(ptr, 0, size) = n % Width(size)
      <4> HIDE DEF ptr
      <4>1. 0 \in Nat
        OBVIOUS
      <4> QED
        BY <1>1, <3>3, BytesOfDigits
    <3>5. n % Width(size) = n
      <4>1. PICK w \in Nat \ {0} : w = Width(size)
        BY <1>1, Widths
      <4>2. n \in 0..(w - 1)
        BY <3>1, <3>2, <4>1
      <4> QED
        BY <4>1, <4>2
    <3> HIDE DEF ptr
    <3> QED
      BY <3>1, <3>2, <3>4, <3>5 DEF Unsigned
  <2>4. ASSUME NEW k \in 0..1
        PROVE  /\ Expected(mem2, "UnityQuickCompare", k, kind.style, UNITY_ARRAY_TO_VAL)
                    = Loaded(kind, e)
               /\ Actual(mem2, "A", k, kind.style) = Loaded(kind, actual[k + 1])
    <3>1. Actual(mem2, "A", k, kind.style) = Actual(mem, "A", k, kind.style)
      BY <2>1 DEF Actual
    <3>2. Expected(mem2, "UnityQuickCompare", k, kind.style, UNITY_ARRAY_TO_VAL)
            = Load(ptr, 0, kind.style)
      BY <1>4, <2>1 DEF Expected
    <3>3. Load(ptr, 0, kind.style) = Loaded(kind, e)
      <4> HIDE DEF ptr
      <4> QED
        BY <1>1, <1>2, <2>3, LoadIs
    <3> QED
      BY <1>5, <3>1, <3>2, <3>3
  <2>5. unlike = {k \in 0..1 :
                    Expected(mem2, "UnityQuickCompare", k, kind.style, UNITY_ARRAY_TO_VAL)
                      # Actual(mem2, "A", k, kind.style)}
    <3> HIDE DEF mem2
    <3>1. ASSUME NEW k \in 0..1
          PROVE  EQUAL(kind, e, actual[k + 1]).ok
                   <=> Expected(mem2, "UnityQuickCompare", k, kind.style, UNITY_ARRAY_TO_VAL)
                         = Actual(mem2, "A", k, kind.style)
      BY <1>1, <1>2, <2>4, EqualAsLoaded
    <3> QED
      BY <3>1
  <2>6. EACH_EQUAL(mem, kind, e, "A", 2)
          = UnityAssertEqualIntArray(mem2, "UnityQuickCompare", "A", 2, kind.style,
                                     UNITY_ARRAY_TO_VAL)
    BY DEF EACH_EQUAL
  <2> HIDE DEF unlike, mem2
  <2> QED
    BY <1>4, <2>1, <2>5, <2>6, SameFirst DEF UnityAssertEqualIntArray
<1>9. ASSUME NEW flags \in Modes
      PROVE  Same(UnityAssertNumbersArrayWithin(mem, delta, "E", "A", 2, kind.style, flags),
                  Outcome(far(flags)))
  <2> DEFINE E(k)   == Expected(mem, "E", k, kind.style, flags)
             A(k)   == Actual(mem, "A", k, kind.style)
             Far(k) == IF IsInt(kind.style) THEN Apart(A(k), E(k), delta)
                       ELSE Apart(UNITY_UINT(A(k)), UNITY_UINT(E(k)), delta)
  <2>1. \A k \in 0..1 : Against(flags, k) \in Numbers(kind)
    BY <1>2
  <2>2. ASSUME NEW k \in 0..1
        PROVE  ~WITHIN(kind, delta, Against(flags, k), actual[k + 1]).ok <=> Far(k)
    <3> DEFINE m == Against(flags, k)
               n == actual[k + 1]
    <3>1. m \in Numbers(kind) /\ n \in Numbers(kind) /\ E(k) = Loaded(kind, m)
          /\ A(k) = Loaded(kind, n)
      BY <1>2, <1>5, <1>6, <2>1
    <3> HIDE DEF m, n, E, A, Against
    <3>2. Far(k) = Apart(n, m, delta)
      <4>1. CASE IsInt(kind.style)
        BY <3>1, <4>1 DEF Loaded
      <4>2. CASE ~IsInt(kind.style)
        <5>1. UNITY_UINT(A(k)) = n /\ UNITY_UINT(E(k)) = m
          BY <1>1, <3>1, <4>2, LoadedNumbers
        <5> QED
          BY <4>2, <5>1
      <4> QED
        BY <1>1, <4>1, <4>2
    <3>3. delta \in Nat /\ WITHIN(kind, delta, m, n).ok = ~Apart(n, m, delta)
      BY <1>1, <1>2, <3>1, WithinIsExact
    <3>4. Apart(n, m, delta) \in BOOLEAN
      BY <1>1, <3>1, <3>3, NumbersApart
    <3> HIDE DEF Far
    <3> QED
      BY <3>2, <3>3, <3>4 DEF m, n
  <2>3. far(flags) = {k \in 0..1 : Far(k)}
    <3> HIDE DEF Far
    <3> QED
      BY <2>2
  <2>4. UnityAssertNumbersArrayWithin(mem, delta, "E", "A", 2, kind.style, flags)
          = FirstOf([k \in {k \in 0..1 : Far(k)}
                     |-> <<UnityPrintIntNumberByStyle(E(k), kind.style),
                           UnityPrintIntNumberByStyle(A(k), kind.style)>>])
    BY <1>4 DEF UnityAssertNumbersArrayWithin
  <2> HIDE DEF far, Far, E, A
  <2> QED
    BY <2>3, <2>4, SameFirst
<1> QED
  BY <1>7, <1>8, <1>9 DEF ArraysAreScalars

--------------------------------------------------------------------------------
(***************************************************************************)
(* Printed numbers.                                                         *)
(***************************************************************************)
\* What a printed text is worth is what a left-to-right evaluation arrives at.
LEMMA NumeralIs ==
  ASSUME NEW digits \in Seq(Int), NEW radix \in Int, NEW v \in [0..Len(digits) -> Int],
         v[0] = 0,
         \A i \in 1..Len(digits) : v[i] = v[i - 1] * radix + Worth(digits[i])
  PROVE  Numeral(digits, radix) = v[Len(digits)]
<1> DEFINE n == Len(digits)
           Is(f) == f = [i \in 0..n |-> IF i = 0 THEN 0
                                        ELSE f[i - 1] * radix + Worth(digits[i])]
           h == CHOOSE f : Is(f)
<1>1. n \in Nat
  OBVIOUS
<1>2. Is(v)
  <2>1. \A i \in 0..n : v[i] = IF i = 0 THEN 0 ELSE v[i - 1] * radix + Worth(digits[i])
    BY <1>1
  <2>2. v = [i \in 0..n |-> v[i]]
    OBVIOUS
  <2> HIDE DEF n
  <2> QED
    BY <2>1, <2>2
<1>3. Is(h)
  BY <1>2, Zenon
<1>4. Numeral(digits, radix) = h[n]
  BY Zenon DEF Numeral
<1> HIDE DEF h
<1>5. \A i \in 0..n : h[i] = IF i = 0 THEN 0 ELSE h[i - 1] * radix + Worth(digits[i])
  BY <1>3
<1> HIDE DEF n
<1> DEFINE bad == {i \in 0..n : h[i] # v[i]}
<1>6. SUFFICES ASSUME bad # {} PROVE FALSE
  BY <1>1, <1>4 DEF n
<1>7. PICK i \in bad : \A j \in bad : i <= j
  <2>1. bad \subseteq Nat
    OBVIOUS
  <2> HIDE DEF bad
  <2> QED
    BY <1>6, <2>1, MinOfNaturals
<1>8. i \in 0..n /\ h[i] # v[i]
  BY <1>7
<1>9. i # 0
  BY <1>5, <1>8
<1>10. i - 1 \in 0..n /\ i \in 1..n
  BY <1>1, <1>8, <1>9
<1>11. h[i - 1] = v[i - 1]
  <2>1. i - 1 \notin bad
    <3> HIDE DEF bad
    <3> QED
      BY <1>7, <1>10
  <2> QED
    BY <1>10, <2>1
<1>12. h[i] = h[i - 1] * radix + Worth(digits[i]) /\ v[i] = v[i - 1] * radix + Worth(digits[i])
  BY <1>5, <1>8, <1>9, <1>10 DEF n
<1> QED
  BY <1>8, <1>11, <1>12

\* To divide twice is to divide by the product.
LEMMA DividedTwice ==
  ASSUME NEW n \in Nat, NEW p \in Nat \ {0}, NEW q \in Nat \ {0}
  PROVE  (n \div p) \div q = n \div (p * q)
<1>1. PICK m \in Nat, r \in 0..(p - 1) : n = m * p + r /\ m = n \div p
  BY Divided
<1>2. PICK k \in Nat, s \in 0..(q - 1) : m = k * q + s /\ k = m \div q
  BY Divided
<1>3. PICK v \in Nat \ {0} : v = p * q
  OBVIOUS
<1>4. PICK t \in Nat : t = s * p + r
  <2>1. s * p \in Nat
    BY <1>2
  <2> QED
    BY <1>1, <2>1
<1>5. n = k * v + t
  <2>1. m * p = (k * q) * p + s * p
    BY <1>2
  <2>2. (k * q) * p = k * v
    BY <1>3
  <2>3. PICK a1, a2, a3 : a1 = m * p /\ a2 = k * v /\ a3 = s * p
    OBVIOUS
  <2>4. k * v \in Nat /\ s * p \in Nat
    BY <1>2, <1>3
  <2>5. n = a1 + r /\ a1 = a2 + a3 /\ t = a3 + r /\ a2 \in Nat /\ a3 \in Nat
    BY <1>1, <1>4, <2>1, <2>2, <2>3, <2>4, Zenon
  <2>6. n = a2 + t
    BY <2>5
  <2> QED
    BY <2>3, <2>6
<1>6. t \in 0..(v - 1)
  <2>1. s * p <= (q - 1) * p /\ (q - 1) * p = v - p /\ s * p \in Nat
    BY <1>2, <1>3
  <2> QED
    BY <1>1, <1>4, <2>1
<1>7. n \div v = k
  <2>1. n = (n \div v) * v + (n % v) /\ n \div v \in Nat /\ n % v \in 0..(v - 1)
    BY <1>3, Divided
  <2> QED
    BY <1>5, <1>6, <2>1, DividedOnce
<1> QED
  BY <1>1, <1>2, <1>3, <1>7

LEMMA PowerIsPositive ==
  ASSUME NEW base \in Nat \ {0}
  PROVE  \A k \in Nat : Power(base, k) \in Nat \ {0}
<1> DEFINE bad == {k \in Nat : Power(base, k) = 0}
<1>1. \A k \in Nat : Power(base, k) \in Nat
  BY PowerIs
<1>2. SUFFICES ASSUME bad # {} PROVE FALSE
  BY <1>1
<1>3. PICK k \in bad : \A j \in bad : k <= j
  <2>1. bad \subseteq Nat
    OBVIOUS
  <2> HIDE DEF bad
  <2> QED
    BY <1>2, <2>1, MinOfNaturals
<1>4. k \in Nat /\ Power(base, k) = 0
  BY <1>3
<1>5. k # 0
  BY <1>4, PowerIs
<1>6. k - 1 \in Nat /\ (k - 1) + 1 = k
  BY <1>4, <1>5
<1>7. Power(base, k) = base * Power(base, k - 1)
  BY <1>6, PowerIs
<1>8. Power(base, k - 1) \in Nat \ {0}
  <2>1. k - 1 \notin bad
    <3> HIDE DEF bad
    <3> QED
      BY <1>3, <1>6
  <2> QED
    BY <1>1, <1>6, <2>1
<1>9. PICK p \in Nat \ {0} : p = Power(base, k - 1)
  BY <1>8
<1>10. base * p # 0
  OBVIOUS
<1> QED
  BY <1>4, <1>7, <1>9, <1>10

\* A digit shown is worth that digit.
LEMMA DigitsWorth ==
  ASSUME NEW d \in 0..15
  PROVE  Digit(d) \in Nat /\ Digit(d) >= 48 /\ Worth(Digit(d)) = d /\ (Digit(d) = 48 => d = 0)
BY DEF Digit, Worth

\* Read digit by digit, the last n digits of a number are worth the number modulo radix^n.
LEMMA DigitSteps ==
  ASSUME NEW m \in Nat, NEW n \in Nat, NEW radix \in 2..16
  PROVE  /\ Digits(m, n, radix) \in Seq(Int) /\ Len(Digits(m, n, radix)) = n
         /\ \A i \in 1..n : Digits(m, n, radix)[i] >= 48
         /\ \E v \in [0..n -> Int] :
              /\ v[0] = 0 /\ v[n] = m % Power(radix, n)
              /\ \A i \in 1..n : v[i] = v[i - 1] * radix + Worth(Digits(m, n, radix)[i])
<1> DEFINE P(k) == Power(radix, k)
           digits == Digits(m, n, radix)
           v == [i \in 0..n |-> (m \div P(n - i)) % P(i)]
<1>1. radix \in Nat \ {0} /\ radix \in Nat
  OBVIOUS
<1>2. \A k \in Nat : P(k) \in Nat \ {0}
  BY <1>1, PowerIsPositive
<1>3. P(0) = 1 /\ \A k \in Nat : P(k + 1) = radix * P(k)
  BY <1>1, PowerIs
<1> HIDE DEF P
<1>4. \A k \in Nat : m \div P(k) \in Nat
  BY <1>2, Divided
<1>5. ASSUME NEW i \in 1..n
      PROVE  /\ (m \div P(n - i)) % radix \in 0..15
             /\ digits[i] = Digit((m \div P(n - i)) % radix)
  <2>1. n - i \in Nat
    OBVIOUS
  <2>2. PICK u \in Nat : u = m \div P(n - i)
    BY <1>4, <2>1
  <2>3. u % radix \in 0..15
    OBVIOUS
  <2> QED
    BY <2>2, <2>3 DEF Digits, P
<1>6. digits \in Seq(Int) /\ Len(digits) = n
  <2>1. digits = [i \in 1..n |-> digits[i]]
    BY DEF Digits
  <2>2. \A i \in 1..n : digits[i] \in Int
    BY <1>5, DigitsWorth
  <2> HIDE DEF digits
  <2>3. digits \in [1..n -> Int]
    BY <2>1, <2>2
  <2>4. n \in Nat
    OBVIOUS
  <2> QED
    BY <2>3, <2>4
<1>7. \A i \in 1..n : digits[i] >= 48
  <2> HIDE DEF digits
  <2> QED
    BY <1>5, DigitsWorth
<1>8. \A i \in 0..n : (m \div P(n - i)) % P(i) \in Int
  <2> TAKE i \in 0..n
  <2>1. n - i \in Nat /\ i \in Nat
    OBVIOUS
  <2>2. PICK u \in Nat, p \in Nat \ {0} : u = m \div P(n - i) /\ p = P(i)
    BY <1>2, <1>4, <2>1
  <2>3. u % p \in Int
    OBVIOUS
  <2> QED
    BY <2>2, <2>3
<1>9. v \in [0..n -> Int]
  BY <1>8
<1>10. v[0] = 0
  <2>1. n - 0 \in Nat /\ 0 \in 0..n
    OBVIOUS
  <2>2. PICK u \in Nat : u = m \div P(n - 0)
    BY <1>4, <2>1
  <2>3. v[0] = u % 1
    BY <1>3, <2>1, <2>2
  <2> QED
    BY <2>3
<1>11. ASSUME NEW i \in 1..n
       PROVE  v[i] = v[i - 1] * radix + Worth(digits[i])
  <2>1. n - i \in Nat /\ i - 1 \in Nat /\ (i - 1) + 1 = i
        /\ (n - i) + 1 = n - (i - 1) /\ i \in 0..n /\ i - 1 \in 0..n
    OBVIOUS
  <2>2. PICK u \in Nat, p \in Nat \ {0}, q \in Nat \ {0} :
          u = m \div P(n - i) /\ p = P(i - 1) /\ q = P(n - i)
    BY <1>2, <1>4, <2>1
  <2>3. P(i) = radix * p /\ P(n - (i - 1)) = radix * q
    BY <1>3, <2>1, <2>2
  <2>4. u \div radix = m \div P(n - (i - 1))
    <3>1. u \div radix = m \div (q * radix)
      BY <1>1, <2>2, DividedTwice
    <3>2. q * radix = radix * q
      OBVIOUS
    <3> QED
      BY <2>3, <3>1, <3>2
  <2>5. v[i] = u % (radix * p) /\ v[i - 1] = (u \div radix) % p
    BY <2>1, <2>2, <2>3, <2>4
  <2>6. u % (radix * p) = (u % radix) + ((u \div radix) % p) * radix
    BY <1>1, DigitOnTop
  <2>7. Worth(digits[i]) = u % radix
    <3> HIDE DEF digits
    <3> QED
      BY <1>5, <2>2, DigitsWorth
  <2>8. PICK a1 \in Int, a2 \in Int : a1 = u % radix /\ a2 = (u \div radix) % p
    <3>1. u \div radix \in Nat
      BY <1>1, Divided
    <3>2. PICK t \in Nat : t = u \div radix
      BY <3>1
    <3>3. t % p \in Int /\ u % radix \in Int
      BY <1>1
    <3> QED
      BY <3>2, <3>3
  <2>9. v[i] = a1 + a2 * radix /\ v[i - 1] = a2 /\ Worth(digits[i]) = a1
    BY <2>5, <2>6, <2>7, <2>8, Zenon
  <2>10. a1 + a2 * radix = a2 * radix + a1
    OBVIOUS
  <2> HIDE DEF v, digits
  <2> QED
    BY <2>9, <2>10
<1>12. v[n] = m % P(n)
  <2>1. n - n = 0 /\ n \in 0..n /\ m \div 1 = m
    OBVIOUS
  <2> QED
    BY <1>3, <2>1
<1> QED
  <2>1. /\ v[0] = 0 /\ v[n] = m % Power(radix, n)
        /\ \A i \in 1..n : v[i] = v[i - 1] * radix + Worth(digits[i])
    BY <1>10, <1>11, <1>12 DEF P
  <2> HIDE DEF v
  <2>2. \E f \in [0..n -> Int] :
           /\ f[0] = 0 /\ f[n] = m % Power(radix, n)
           /\ \A i \in 1..n : f[i] = f[i - 1] * radix + Worth(digits[i])
    BY <1>9, <2>1
  <2> QED
    BY <1>6, <1>7, <2>2

\* So they are as a numeral.
LEMMA PlaceValue ==
  ASSUME NEW m \in Nat, NEW n \in Nat, NEW radix \in 2..16
  PROVE  /\ Digits(m, n, radix) \in Seq(Int) /\ Len(Digits(m, n, radix)) = n
         /\ \A i \in 1..n : Digits(m, n, radix)[i] >= 48
         /\ Numeral(Digits(m, n, radix), radix) = m % Power(radix, n)
<1> DEFINE digits == Digits(m, n, radix)
<1>1. digits \in Seq(Int) /\ Len(digits) = n /\ \A i \in 1..n : digits[i] >= 48
  BY DigitSteps
<1>2. PICK v \in [0..n -> Int] :
        /\ v[0] = 0 /\ v[n] = m % Power(radix, n)
        /\ \A i \in 1..n : v[i] = v[i - 1] * radix + Worth(digits[i])
  BY DigitSteps
<1>3. radix \in Int
  OBVIOUS
<1> HIDE DEF digits
<1>4. v \in [0..Len(digits) -> Int]
      /\ \A i \in 1..Len(digits) : v[i] = v[i - 1] * radix + Worth(digits[i])
  BY <1>1, <1>2
<1>5. Numeral(digits, radix) = v[Len(digits)]
  BY <1>1, <1>2, <1>3, <1>4, NumeralIs
<1>6. Numeral(digits, radix) = m % Power(radix, n)
  BY <1>1, <1>2, <1>5
<1> QED
  BY <1>1, <1>6 DEF digits

\* A number of 8 bytes has at most 20 decimal digits.
LEMMA TwentyDigits == Width(8) <= 10 * Power(10, 19)
<1>1. PICK t \in Nat : t = 100000
  OBVIOUS
<1>2. PICK p \in [0..64 -> Nat] :
        /\ \A k \in 0..64 : p[k] = Power(10, k)
        /\ p[0] = 1
        /\ \A k \in 1..64 : p[k] = 10 * p[k - 1]
  <2> DEFINE q == [k \in 0..64 |-> Power(10, k)]
  <2>1. 10 \in Nat
    OBVIOUS
  <2>2. /\ Power(10, 0) = 1
        /\ \A k \in 0..64 : Power(10, k) \in Nat
        /\ \A k \in 1..64 : Power(10, k) = 10 * Power(10, k - 1)
    BY <2>1, PowerUnfold
  <2>3. q \in [0..64 -> Nat]
    BY <2>2
  <2>4. \A k \in 0..64 : q[k] = Power(10, k)
    OBVIOUS
  <2>5. q[0] = 1 /\ \A k \in 1..64 : q[k] = 10 * q[k - 1]
    <3>1. \A k \in 1..64 : k \in 0..64 /\ k - 1 \in 0..64
      OBVIOUS
    <3> QED
      BY <2>2, <2>4, <3>1
  <2> HIDE DEF q
  <2> QED
    BY <2>3, <2>4, <2>5
<1>3. \A k \in 0..59 : p[k + 5] = t * p[k]
  <2> TAKE k \in 0..59
  <2>1. /\ k + 1 \in 1..64 /\ k + 2 \in 1..64 /\ k + 3 \in 1..64 /\ k + 4 \in 1..64
        /\ k + 5 \in 1..64
        /\ (k + 1) - 1 = k /\ (k + 2) - 1 = k + 1 /\ (k + 3) - 1 = k + 2
        /\ (k + 4) - 1 = k + 3 /\ (k + 5) - 1 = k + 4
    OBVIOUS
  <2>2. /\ p[k + 1] = 10 * p[k] /\ p[k + 2] = 10 * p[k + 1] /\ p[k + 3] = 10 * p[k + 2]
        /\ p[k + 4] = 10 * p[k + 3] /\ p[k + 5] = 10 * p[k + 4]
    BY <1>2, <2>1
  <2>3. PICK b \in Nat : b = p[k]
    BY <1>2
  <2>4. p[k + 5] = 100000 * b
    BY <2>2, <2>3
  <2> QED
    BY <1>1, <2>3, <2>4
<1>4. /\ p[5] = t * p[0] /\ p[10] = t * p[5] /\ p[15] = t * p[10] /\ p[20] = t * p[15]
  <2>1. /\ 0 \in 0..59 /\ 5 \in 0..59 /\ 10 \in 0..59 /\ 15 \in 0..59
        /\ 0 + 5 = 5 /\ 5 + 5 = 10 /\ 10 + 5 = 15 /\ 15 + 5 = 20
    OBVIOUS
  <2> QED
    BY <1>3, <2>1
<1>5. p[20] = (t * t) * (t * t)
  <2>1. t * (t * (t * (t * 1))) = (t * t) * (t * t)
    BY <1>1
  <2> QED
    BY <1>2, <1>4, <2>1
<1>6. Width(1) \in Nat /\ Width(1) <= 256
  <2>2. PICK w : w = 2^BYTE
    OBVIOUS
  <2>3. w \in {4, 16, 64, 256}
    BY <2>2, ByteValues
  <2> QED
    BY <2>2, <2>3, WidthTimes
<1>7. \A m, n \in Nat : m <= n => m * m \in Nat /\ n * n \in Nat /\ m * m <= n * n
  OBVIOUS
<1>8. Width(2) \in Nat /\ Width(2) <= t
  <2>1. 256 \in Nat /\ 256 * 256 = 65536
    OBVIOUS
  <2>2. Width(1) * Width(1) \in Nat /\ Width(1) * Width(1) <= 65536
    <3>1. Width(1) * Width(1) <= 256 * 256
      BY <1>6, <1>7, <2>1
    <3> QED
      BY <1>6, <2>1, <3>1
  <2> QED
    BY <1>1, <2>2, WidthTimes
<1>9. Width(4) \in Nat /\ Width(4) <= t * t
  BY <1>7, <1>8, WidthTimes
<1>10. PICK s \in Nat : s = t * t
  OBVIOUS
<1>11. Width(8) <= s * s
  BY <1>7, <1>9, <1>10, WidthTimes
<1>12. p[20] = 10 * p[19] /\ p[19] = Power(10, 19)
  <2>1. 20 \in 1..64 /\ 20 - 1 = 19 /\ 19 \in 0..64
    OBVIOUS
  <2> QED
    BY <1>2, <2>1
<1> QED
  BY <1>5, <1>10, <1>11, <1>12

\* How many decimal digits are shown: as many as the number has.
LEMMA DecimalDigits ==
  ASSUME NEW m \in 0..(Width(8) - 1)
  PROVE  \E k \in 0..19 : /\ UnityPrintNumberUnsigned(m) = Digits(m, k + 1, 10)
                          /\ m \div Power(10, k) \in 0..9
                          /\ m < Power(10, k + 1)
                          /\ k # 0 => m \div Power(10, k) # 0
<1>1. \A k \in 0..64 : Power(10, k) \in Nat \ {0}
  <2>1. 10 \in Nat \ {0}
    OBVIOUS
  <2> QED
    BY <2>1, PowerIsPositive
<1>2. \A k \in 0..63 : Power(10, k + 1) = 10 * Power(10, k)
  <2>1. 10 \in Nat
    OBVIOUS
  <2>2. \A k \in 0..63 : k + 1 \in 1..64 /\ (k + 1) - 1 = k
    OBVIOUS
  <2>3. \A k \in 1..64 : Power(10, k) = 10 * Power(10, k - 1)
    BY <2>1, PowerUnfold
  <2> QED
    BY <2>2, <2>3
<1>3. m \in Nat /\ m < 10 * Power(10, 19)
  <2>1. 8 \in {1, 2, 4, 8} /\ 19 \in 0..64
    OBVIOUS
  <2>2. Width(8) \in Nat /\ Power(10, 19) \in Nat
    BY <1>1, <2>1, Widths
  <2> QED
    BY <2>2, TwentyDigits
<1>4. ASSUME NEW p \in Nat \ {0}
      PROVE  /\ m \div p \in Nat
             /\ m \div p <= 9 <=> m < 10 * p
  <2>1. PICK q \in Nat, r \in 0..(p - 1) : m = q * p + r /\ q = m \div p
    BY <1>3, Divided
  <2>2. q <= 9 => q * p <= 9 * p
    BY <2>1
  <2>3. q > 9 => q * p >= 10 * p
    BY <2>1
  <2>4. PICK b \in Nat : b = q * p
    BY <2>1
  <2> QED
    BY <2>1, <2>2, <2>3, <2>4
<1> DEFINE good == {k \in 0..19 : m \div Power(10, k) <= 9}
           Shown(k) == /\ m \div Power(10, k) <= 9
                       /\ \A j \in 0..(k - 1) : m \div Power(10, j) > 9
<1>5. 19 \in good
  <2>1. 19 \in 0..64 /\ 19 \in 0..19
    OBVIOUS
  <2>2. Power(10, 19) \in Nat \ {0}
    BY <1>1, <2>1
  <2> QED
    BY <1>3, <1>4, <2>1, <2>2
<1>6. PICK k \in good : \A j \in good : k <= j
  <2>1. good \subseteq Nat
    OBVIOUS
  <2> HIDE DEF good
  <2> QED
    BY <1>5, <2>1, MinOfNaturals
<1>7. \A j \in 0..19 : j \in 0..64 /\ m \div Power(10, j) \in Nat
  BY <1>1, <1>4
<1>8. Shown(k)
  <2>1. ASSUME NEW j \in 0..(k - 1) PROVE m \div Power(10, j) > 9
    <3>1. j \in 0..19 /\ j < k
      BY <1>6
    <3>2. j \notin good
      <4> HIDE DEF good
      <4>1. k \in Int
        BY <1>6 DEF good
      <4> QED
        BY <1>6, <3>1, <4>1
    <3> QED
      BY <1>7, <3>1, <3>2
  <2> QED
    BY <1>6, <2>1
<1>9. \A i \in 0..19 : Shown(i) => i = k
  <2> SUFFICES ASSUME NEW i \in 0..19, Shown(i) PROVE i = k
    OBVIOUS
  <2>1. k \in 0..19 /\ m \div Power(10, k) <= 9 /\ m \div Power(10, k) \in Nat
    BY <1>6, <1>7
  <2>2. k <= i
    BY <1>6
  <2>3. ~(k < i)
    BY <2>1
  <2> QED
    BY <2>1, <2>2, <2>3
<1>10. k = CHOOSE i \in 0..19 : Shown(i)
  <2> HIDE DEF Shown
  <2> QED
    BY <1>6, <1>8, <1>9
<1>11. UnityPrintNumberUnsigned(m) = Digits(m, k + 1, 10)
  BY <1>10, Zenon DEF UnityPrintNumberUnsigned
<1>12. k \in 0..19 /\ k \in 0..63 /\ m \div Power(10, k) \in 0..9 /\ Power(10, k) \in Nat \ {0}
  BY <1>1, <1>6, <1>7
<1>13. m < Power(10, k + 1)
  BY <1>2, <1>4, <1>12
<1>14. k # 0 => m \div Power(10, k) # 0
  <2> SUFFICES ASSUME k # 0 PROVE m \div Power(10, k) # 0
    OBVIOUS
  <2>1. k - 1 \in 0..(k - 1) /\ k - 1 \in 0..63 /\ (k - 1) + 1 = k
    BY <1>12
  <2>2. m \div Power(10, k - 1) > 9
    BY <1>8, <2>1
  <2>3. PICK p \in Nat \ {0} : p = Power(10, k - 1)
    BY <1>1, <2>1
  <2>4. m >= 10 * p
    BY <1>3, <1>4, <2>2, <2>3
  <2>5. m >= Power(10, k)
    BY <1>2, <2>1, <2>3, <2>4
  <2>6. PICK q \in Nat, r \in 0..(Power(10, k) - 1) : m = q * Power(10, k) + r /\ q = m \div Power(10, k)
    BY <1>3, <1>12, Divided
  <2> QED
    BY <1>12, <2>5, <2>6
<1> QED
  BY <1>11, <1>12, <1>13, <1>14
\* The decimal text of an unsigned number is worth the number, starts with a digit and
\* with 0 only when that is all of it.
LEMMA DecimalReadsBack ==
  ASSUME NEW m \in 0..(Width(8) - 1)
  PROVE  /\ UnityPrintNumberUnsigned(m) \in Seq(Int) \ {<<>>}
         /\ Head(UnityPrintNumberUnsigned(m)) # 45
         /\ UnityPrintNumberUnsigned(m)[1] = 48 => UnityPrintNumberUnsigned(m) = <<48>>
         /\ Numeral(UnityPrintNumberUnsigned(m), 10) = m
         /\ ReadDecimal(UnityPrintNumberUnsigned(m)) = m
<1>1. PICK k \in 0..19 : /\ UnityPrintNumberUnsigned(m) = Digits(m, k + 1, 10)
                         /\ m \div Power(10, k) \in 0..9
                         /\ m < Power(10, k + 1)
                         /\ k # 0 => m \div Power(10, k) # 0
  BY DecimalDigits
<1>2. PICK n \in 1..20, radix \in 2..16 : n = k + 1 /\ radix = 10
  OBVIOUS
<1>3. m \in Nat
  <2>1. 8 \in {1, 2, 4, 8}
    OBVIOUS
  <2>2. Width(8) \in Nat
    BY <2>1, Widths
  <2> QED
    BY <2>2
<1>4. PICK decimal : decimal = UnityPrintNumberUnsigned(m)
  OBVIOUS
<1>5. /\ decimal \in Seq(Int) /\ Len(decimal) = n
      /\ \A i \in 1..n : decimal[i] >= 48
      /\ Numeral(decimal, 10) = m % Power(10, n)
  <2>1. decimal = Digits(m, n, radix) /\ n \in 0..64 /\ n \in Nat
    BY <1>1, <1>2, <1>4
  <2> QED
    BY <1>2, <1>3, <2>1, PlaceValue
<1>6. decimal # <<>> /\ Head(decimal) = decimal[1] /\ decimal[1] >= 48
  BY <1>5
<1>7. Numeral(decimal, 10) = m
  <2>1. PICK p : p = Power(10, n)
    OBVIOUS
  <2>2. p \in Nat
    <3>1. 10 \in Nat /\ n \in 0..64
      OBVIOUS
    <3> QED
      BY <2>1, <3>1, PowerUnfold
  <2>3. m < p
    BY <1>1, <1>2, <2>1
  <2>4. m % p = m
    BY <1>3, <2>2, <2>3
  <2> QED
    BY <1>5, <2>1, <2>4
<1>8. decimal[1] = Digit(m \div Power(10, k))
  <2>1. decimal[1] = Digit((m \div Power(10, n - 1)) % 10)
    BY <1>1, <1>2, <1>4 DEF Digits
  <2>2. PICK q \in 0..9 : q = m \div Power(10, k)
    BY <1>1
  <2>3. q % 10 = q /\ n - 1 = k
    BY <1>2
  <2> QED
    BY <2>1, <2>2, <2>3
<1>9. decimal[1] = 48 => decimal = <<48>>
  <2> SUFFICES ASSUME decimal[1] = 48 PROVE decimal = <<48>>
    OBVIOUS
  <2>1. PICK q \in 0..9 : q = m \div Power(10, k)
    BY <1>1
  <2>2. q = 0
    BY <1>8, <2>1 DEF Digit
  <2>3. n = 1
    BY <1>1, <1>2, <2>1, <2>2
  <2> QED
    BY <1>5, <2>3
<1>10. ReadDecimal(decimal) = m
  BY <1>6, <1>7 DEF ReadDecimal
<1> QED
  BY <1>4, <1>5, <1>6, <1>7, <1>9, <1>10

\* Two nibbles make a byte.
LEMMA Nibbles ==
  ASSUME NEW bytes \in 0..8
  PROVE  NIBBLE \in 2..16 /\ Power(NIBBLE, 2 * bytes) = Width(bytes)
<1>1. NIBBLE \in 2..16 /\ NIBBLE * NIBBLE = 2^BYTE
  <2>1. /\ 2 \div 2 = 1 /\ 4 \div 2 = 2 /\ 6 \div 2 = 3 /\ 8 \div 2 = 4
        /\ 2^1 = 2 /\ 2^2 = 4 /\ 2^3 = 8 /\ 2^4 = 16 /\ 2^6 = 64 /\ 2^8 = 256
    OBVIOUS
  <2>2. PICK b : b = BYTE
    OBVIOUS
  <2>3. CASE BYTE = 2
    BY <2>1, <2>3 DEF NIBBLE
  <2>4. CASE BYTE = 4
    BY <2>1, <2>4 DEF NIBBLE
  <2>5. CASE BYTE = 6
    BY <2>1, <2>5 DEF NIBBLE
  <2>6. CASE BYTE = 8
    BY <2>1, <2>6 DEF NIBBLE
  <2> QED
    BY <2>3, <2>4, <2>5, <2>6, ByteAssumption
<1>2. PICK nibble \in Nat : nibble = NIBBLE
  BY <1>1
<1>3. /\ Power(nibble, 0) = 1
      /\ \A k \in 0..64 : Power(nibble, k) \in Nat
      /\ \A k \in 1..64 : Power(nibble, k) = nibble * Power(nibble, k - 1)
  BY PowerUnfold
<1> DEFINE bad == {b \in 0..8 : Power(nibble, 2 * b) # Width(b)}
<1>4. SUFFICES ASSUME bad # {} PROVE FALSE
  BY <1>1, <1>2
<1>5. PICK b \in bad : \A i \in bad : b <= i
  <2>1. bad \subseteq Nat
    OBVIOUS
  <2> HIDE DEF bad
  <2> QED
    BY <1>4, <2>1, MinOfNaturals
<1>6. b \in 0..8 /\ Power(nibble, 2 * b) # Width(b)
  BY <1>5
<1>7. b # 0
  <2>1. Width(0) = 1 /\ 2 * 0 = 0
    BY WidthUnfold
  <2> QED
    BY <1>3, <1>6, <2>1
<1>8. b - 1 \in 0..8 /\ 2 * b \in 1..64 /\ 2 * b - 1 \in 1..64 /\ (2 * b - 1) - 1 = 2 * (b - 1)
      /\ 2 * (b - 1) \in 0..64
  BY <1>6, <1>7
<1>9. Power(nibble, 2 * (b - 1)) = Width(b - 1)
  <2>1. b - 1 \notin bad
    <3> HIDE DEF bad
    <3> QED
      BY <1>5, <1>6, <1>8
  <2> QED
    BY <1>8, <2>1
<1>10. PICK u \in Nat : u = Power(nibble, 2 * (b - 1))
  BY <1>3, <1>8
<1>11. Power(nibble, 2 * b) = nibble * (nibble * u)
  BY <1>3, <1>8, <1>10
<1>12. Width(b) = 2^BYTE * u
  BY <1>6, <1>7, <1>9, <1>10, WidthUnfold
<1>13. nibble * (nibble * u) = (nibble * nibble) * u
  OBVIOUS
<1> QED
  BY <1>1, <1>2, <1>6, <1>11, <1>12, <1>13

\* The hexadecimal text of a number is worth its lowest bytes.
LEMMA HexReadsBack ==
  ASSUME NEW m \in Nat, NEW bytes \in {1, 2, 4, 8}
  PROVE  /\ UnityPrintNumberHex(m, 2 * bytes) \in Seq(Int)
         /\ Numeral(UnityPrintNumberHex(m, 2 * bytes), NIBBLE) = Unsigned(m, bytes)
<1>1. PICK n \in 0..64 : n = 2 * bytes /\ n <= 16 /\ n \in Nat
  OBVIOUS
<1>2. UnityPrintNumberHex(m, 2 * bytes) = Digits(m, n, NIBBLE)
  BY <1>1 DEF UnityPrintNumberHex, UNITY_MAX_NIBBLES
<1>3. bytes \in 0..8
  OBVIOUS
<1>4. NIBBLE \in 2..16 /\ Power(NIBBLE, n) = Width(bytes)
  BY <1>1, <1>3, Nibbles
<1>5. PICK nibble \in 2..16 : nibble = NIBBLE
  BY <1>4
<1>6. /\ Digits(m, n, nibble) \in Seq(Int)
      /\ Numeral(Digits(m, n, nibble), nibble) = m % Power(nibble, n)
  BY <1>1, PlaceValue
<1> QED
  BY <1>2, <1>4, <1>5, <1>6 DEF Unsigned

\* The decimal text of a signed number is worth the number, also the least one.
LEMMA SignedReadsBack ==
  ASSUME NEW n \in Int, -(Width(8) \div 2) <= n, n < Width(8) \div 2
  PROVE  ReadDecimal(UnityPrintNumber(n)) = n
<1>1. 8 \in {1, 2, 4, 8}
  OBVIOUS
<1>2. PICK w \in Nat \ {0}, h \in Nat : w = Width(8) /\ w = 2 * h /\ h = w \div 2
  BY <1>1, Widths
<1>3. CASE n >= 0
  <2>1. UnityPrintNumber(n) = UnityPrintNumberUnsigned(n)
    BY <1>3 DEF UnityPrintNumber
  <2>2. n \in 0..(Width(8) - 1)
    BY <1>2, <1>3
  <2> QED
    BY <2>1, <2>2, DecimalReadsBack
<1>4. CASE n < 0
  <2>1. PICK m \in 0..(Width(8) - 1) : m = -n /\ m \in 1..h
    BY <1>2, <1>4
  <2>2. UNITY_UINT(-UNITY_UINT(n)) = m
    <3>1. n \in (-w)..(w - 1) /\ n < 0
      BY <1>2, <1>4
    <3>2. n % w = w - m
      <4>1. n % w = IF n < 0 THEN n + w ELSE n
        BY <3>1, WrapOnce
      <4> QED
        BY <2>1, <3>1, <4>1
    <3>3. UNITY_UINT(n) = w - m
      BY <1>2, <3>2 DEF UNITY_UINT, Unsigned
    <3>4. m - w \in (-w)..(w - 1) /\ m - w < 0 /\ -(w - m) = m - w
      BY <1>2, <2>1
    <3>5. (m - w) % w = m
      <4>1. PICK i \in (-w)..(w - 1) : i = m - w /\ i < 0 /\ i + w = m
        <5>1. m \in Nat /\ (m - w) + w = m
          BY <1>2, <2>1
        <5> QED
          BY <3>4, <5>1
      <4>2. i % w = IF i < 0 THEN i + w ELSE i
        BY WrapOnce
      <4> QED
        BY <4>1, <4>2
    <3> QED
      BY <1>2, <3>3, <3>4, <3>5 DEF UNITY_UINT, Unsigned
  <2>3. PICK digits : digits = UnityPrintNumberUnsigned(m)
    OBVIOUS
  <2>4. digits \in Seq(Int) /\ Numeral(digits, 10) = m
    BY <2>3, DecimalReadsBack
  <2>5. UnityPrintNumber(n) = <<45>> \o digits
    BY <1>4, <2>2, <2>3 DEF UnityPrintNumber
  <2>6. Head(<<45>> \o digits) = 45 /\ Tail(<<45>> \o digits) = digits
    BY <2>4
  <2>7. ReadDecimal(<<45>> \o digits) = -Numeral(digits, 10)
    BY <2>6 DEF ReadDecimal
  <2> QED
    BY <2>1, <2>4, <2>5, <2>7
<1> QED
  BY <1>3, <1>4

\* Any number is told by what is printed for it.
LEMMA AnyNumberReadsBack == number \in 0..(Width(8) - 1) => NumbersReadBack
<1> SUFFICES ASSUME number \in 0..(Width(8) - 1) PROVE NumbersReadBack
  OBVIOUS
<1>1. 8 \in {1, 2, 4, 8}
  OBVIOUS
<1>2. PICK w \in Nat \ {0} : w = Width(8) /\ w = 2 * (w \div 2)
  BY <1>1, Widths
<1>3. number \in Nat /\ number < w
  BY <1>2
<1>4. UNITY_INT(number) = IF 2 * number < w THEN number ELSE number - w
  <2>1. Unsigned(number, 8) = number
    BY <1>1, <1>2, <1>3, UnsignedSame
  <2> QED
    BY <1>2, <2>1 DEF UNITY_INT, Signed
<1>5. ReadDecimal(UnityPrintNumber(UNITY_INT(number))) = UNITY_INT(number)
  <2>1. /\ UNITY_INT(number) \in Int
        /\ -(Width(8) \div 2) <= UNITY_INT(number) /\ UNITY_INT(number) < Width(8) \div 2
    BY <1>2, <1>3, <1>4
  <2> QED
    BY <2>1, SignedReadsBack
<1>6. LET decimal == UnityPrintUintNumberByStyle(number, Style(8, "UINT"))
      IN  ReadDecimal(decimal) = number /\ (decimal[1] = 48 => decimal = <<48>>)
  <2>1. UnityPrintUintNumberByStyle(number, Style(8, "UINT")) = UnityPrintNumberUnsigned(number)
    BY DEF UnityPrintUintNumberByStyle, Style
  <2> QED
    BY <2>1, DecimalReadsBack
<1>7. ASSUME NEW bytes \in {1, 2, 4, 8}
      PROVE  LET hex == UnityPrintUintNumberByStyle(number, Style(bytes, "HEX"))
             IN  Numeral(SubSeq(hex, 3, Len(hex)), NIBBLE) = Unsigned(number, bytes)
  <2>1. PICK digits : digits = UnityPrintNumberHex(number, 2 * bytes)
    OBVIOUS
  <2>2. UnityPrintUintNumberByStyle(number, Style(bytes, "HEX")) = <<48, 120>> \o digits
    BY <2>1 DEF UnityPrintUintNumberByStyle, Style
  <2>3. digits \in Seq(Int) /\ Numeral(digits, NIBBLE) = Unsigned(number, bytes)
    BY <1>3, <2>1, HexReadsBack
  <2>4. SubSeq(<<48, 120>> \o digits, 3, Len(<<48, 120>> \o digits)) = digits
    BY <2>3
  <2> QED
    BY <2>2, <2>3, <2>4
<1> QED
  BY <1>5, <1>6, <1>7 DEF NumbersReadBack

--------------------------------------------------------------------------------
(***************************************************************************)
(* Printed characters.                                                      *)
(***************************************************************************)
\* Two characters before a text.
LEMMA PairThen ==
  ASSUME NEW p \in Int, NEW q \in Int, NEW s \in Seq(Int)
  PROVE  /\ <<p, q>> \o s \in Seq(Int) /\ Len(<<p, q>> \o s) = Len(s) + 2
         /\ (<<p, q>> \o s)[1] = p /\ (<<p, q>> \o s)[2] = q
         /\ \A i \in 1..Len(s) : (<<p, q>> \o s)[i + 2] = s[i]
<1> DEFINE two == <<p, q>>
<1>1. two \in Seq(Int) /\ Len(two) = 2 /\ two[1] = p /\ two[2] = q
  OBVIOUS
<1> HIDE DEF two
<1>2. PICK r \in Seq(Int) : r = two /\ Len(r) = 2 /\ r[1] = p /\ r[2] = q
  BY <1>1
<1>3. r \o s \in Seq(Int) /\ Len(r \o s) = Len(r) + Len(s)
  OBVIOUS
<1>4. \A i \in 1..Len(r) : (r \o s)[i] = r[i]
  OBVIOUS
<1>5. \A i \in 1..Len(s) : (r \o s)[Len(r) + i] = s[i]
  OBVIOUS
<1>6. 1 \in 1..Len(r) /\ 2 \in 1..Len(r) /\ Len(s) \in Nat
  BY <1>2
<1>7. \A i \in 1..Len(s) : Len(r) + i = i + 2
  BY <1>2, <1>6
<1> QED
  BY <1>2, <1>3, <1>4, <1>5, <1>6, <1>7 DEF two

\* The text t starts like what is shown for the character c of eight bits: c itself, \r or
\* \n, or \x and two digits that are worth it.
AsShown(t, c) ==
  /\ c \in 32..126 => t[1] = c
  /\ c = 13 => t[1] = 92 /\ t[2] = 114
  /\ c = 10 => t[1] = 92 /\ t[2] = 110
  /\ c \notin 32..126 /\ c # 13 /\ c # 10 =>
       /\ t[1] = 92 /\ t[2] = 120
       /\ Numeral(<<t[3], t[4]>>, 16) = IF c < 0 THEN c + 256 ELSE c

LengthShown(c) == IF c \in 32..126 THEN 1 ELSE IF c \in {10, 13} THEN 2 ELSE 4

LEMMA EscapedForm ==
  ASSUME NEW c \in (-128)..127
  PROVE  /\ Escaped(c) \in Seq(Int) /\ Len(Escaped(c)) = LengthShown(c)
         /\ AsShown(Escaped(c), c)
<1>1. c % 256 = IF c < 0 THEN c + 256 ELSE c
  OBVIOUS
<1>2. PICK m \in Nat, n \in Nat, radix \in 2..16 :
        m = c % 256 /\ n = 2 /\ radix = 16 /\ m < 256
  BY <1>1
<1>3. /\ Digits(m, n, radix) \in Seq(Int) /\ Len(Digits(m, n, radix)) = n
      /\ Numeral(Digits(m, n, radix), radix) = m % Power(radix, n)
  BY PlaceValue
<1>4. Power(radix, n) = 256
  <2>1. radix \in Nat /\ n \in 1..64 /\ n - 1 \in 1..64 /\ (n - 1) - 1 = 0
    BY <1>2
  <2>2. /\ Power(radix, 0) = 1 /\ Power(radix, n) = radix * Power(radix, n - 1)
        /\ Power(radix, n - 1) = radix * Power(radix, (n - 1) - 1)
    BY <2>1, PowerUnfold
  <2> QED
    BY <1>2, <2>1, <2>2
<1>5. m % 256 = m
  BY <1>2
<1>6. PICK s \in Seq(Int) : /\ s = Digits(c % 256, 2, 16) /\ Len(s) = 2
                            /\ Numeral(s, 16) = c % 256
  BY <1>2, <1>3, <1>4, <1>5
<1>7. PICK t : t = Escaped(c)
  OBVIOUS
<1>8. CASE c \in 32..126
  <2>1. t = <<c>>
    BY <1>7, <1>8, Zenon DEF Escaped
  <2>2. t \in Seq(Int) /\ Len(t) = 1 /\ t[1] = c
    BY <2>1
  <2>3. c # 13 /\ c # 10
    BY <1>8
  <2>4. AsShown(t, c)
    BY <1>8, <2>2, <2>3 DEF AsShown
  <2>5. LengthShown(c) = 1
    BY <1>8 DEF LengthShown
  <2> QED
    BY <1>7, <2>2, <2>4, <2>5
<1>9. CASE c = 13
  <2>1. t = <<92, 114>>
    BY <1>7, <1>9 DEF Escaped
  <2>2. t \in Seq(Int) /\ Len(t) = 2 /\ t[1] = 92 /\ t[2] = 114
    BY <2>1
  <2>3. c \notin 32..126 /\ c # 10
    BY <1>9
  <2>4. AsShown(t, c)
    BY <1>9, <2>2, <2>3 DEF AsShown
  <2>5. LengthShown(c) = 2
    BY <1>9 DEF LengthShown
  <2> QED
    BY <1>7, <2>2, <2>4, <2>5
<1>10. CASE c = 10
  <2>1. t = <<92, 110>>
    BY <1>7, <1>10 DEF Escaped
  <2>2. t \in Seq(Int) /\ Len(t) = 2 /\ t[1] = 92 /\ t[2] = 110
    BY <2>1
  <2>3. c \notin 32..126 /\ c # 13
    BY <1>10
  <2>4. AsShown(t, c)
    BY <1>10, <2>2, <2>3 DEF AsShown
  <2>5. LengthShown(c) = 2
    BY <1>10 DEF LengthShown
  <2> QED
    BY <1>7, <2>2, <2>4, <2>5
<1>11. CASE c \notin 32..126 /\ c # 13 /\ c # 10
  <2>1. t = <<92, 120>> \o s
    BY <1>6, <1>7, <1>11, Zenon DEF Escaped
  <2>2. LengthShown(c) = 4
    BY <1>11, Zenon DEF LengthShown
  <2>3. PICK p \in Int, q \in Int : p = 92 /\ q = 120
    OBVIOUS
  <2>4. t = <<p, q>> \o s
    BY <2>1, <2>3
  <2>5. /\ t \in Seq(Int) /\ Len(t) = Len(s) + 2 /\ t[1] = p /\ t[2] = q
        /\ \A i \in 1..Len(s) : t[i + 2] = s[i]
    BY <2>4, PairThen
  <2>6. Len(s) = 2 /\ s = <<s[1], s[2]>>
    BY <1>6
  <2>7. Len(t) = 4 /\ t[3] = s[1] /\ t[4] = s[2]
    <3>1. PICK len : len = Len(s)
      OBVIOUS
    <3>2. Len(t) = len + 2 /\ len = 2 /\ \A i \in 1..len : t[i + 2] = s[i]
      BY <2>5, <2>6, <3>1
    <3> QED
      BY <3>2
  <2>8. Numeral(<<t[3], t[4]>>, 16) = IF c < 0 THEN c + 256 ELSE c
    BY <1>1, <1>6, <2>6, <2>7
  <2>9. AsShown(t, c)
    BY <1>11, <2>3, <2>5, <2>8 DEF AsShown
  <2> QED
    BY <1>7, <2>2, <2>5, <2>7, <2>9
<1> QED
  BY <1>8, <1>9, <1>10, <1>11

\* That tells the character, unless it is a backslash.
LEMMA ShownTells ==
  ASSUME NEW c \in (-128)..127, NEW d \in (-128)..127, NEW t, AsShown(t, c), AsShown(t, d),
         (c # 92 /\ d # 92) \/ LengthShown(c) = LengthShown(d)
  PROVE  c = d
<1>1. PICK t1, t2, n : t1 = t[1] /\ t2 = t[2] /\ n = Numeral(<<t[3], t[4]>>, 16)
  OBVIOUS
<1> DEFINE Told(b) ==
             /\ b \in 32..126 => t1 = b
             /\ b = 13 => t1 = 92 /\ t2 = 114
             /\ b = 10 => t1 = 92 /\ t2 = 110
             /\ b \notin 32..126 /\ b # 13 /\ b # 10 =>
                  /\ t1 = 92 /\ t2 = 120
                  /\ n = IF b < 0 THEN b + 256 ELSE b
<1>2. Told(c) /\ Told(d)
  BY <1>1, ZenonT(60) DEF AsShown
<1>3. c # 92 /\ d # 92 => c = d
  BY <1>2
<1>4. LengthShown(c) = LengthShown(d) => c = d
  BY <1>2 DEF LengthShown
<1> QED
  BY <1>3, <1>4

\* What is printed for a character of eight bits tells it.
LEMMA CharacterTold ==
  ASSUME NEW c \in (-128)..127, NEW d \in (-128)..127, Escaped(c) = Escaped(d)
  PROVE  c = d
<1>1. /\ Len(Escaped(c)) = LengthShown(c) /\ AsShown(Escaped(c), c)
      /\ Len(Escaped(d)) = LengthShown(d) /\ AsShown(Escaped(d), d)
  BY EscapedForm
<1>2. LengthShown(c) = LengthShown(d) /\ AsShown(Escaped(c), d)
  BY <1>1
<1> QED
  BY <1>1, <1>2, ShownTells, Zenon

\* Different numbers of a kind are shown differently.
LEMMA NumbersTold ==
  ASSUME NEW k \in Kinds, NEW m \in Numbers(k), NEW n \in Numbers(k), m # n
  PROVE  /\ UnityPrintIntNumberByStyle(Loaded(k, m), k.style)
              # UnityPrintIntNumberByStyle(Loaded(k, n), k.style)
         /\ ~IsInt(k.style) => UnityPrintUintNumberByStyle(m, k.style)
                                 # UnityPrintUintNumberByStyle(n, k.style)
<1>1. /\ k.style.bytes \in {1, 2, 4, 8} /\ IsInt(k.style) \in BOOLEAN
      /\ k.style.range \in {"CHAR", "INT", "UINT", "HEX"}
      /\ k.style.range = "CHAR" => k.style.bytes = 1
  BY KindFields DEF Kinds, Style, INT_BYTES
<1>2. /\ Width(k.style.bytes) \in Nat \ {0} /\ Width(8) \in Nat \ {0}
      /\ Width(k.style.bytes) <= Width(8)
      /\ Width(k.style.bytes) = 2 * (Width(k.style.bytes) \div 2)
      /\ Width(k.style.bytes) \div 2 \in Nat
      /\ Width(8) = 2 * (Width(8) \div 2) /\ Width(8) \div 2 \in Nat
  <2>1. 8 \in {1, 2, 4, 8}
    OBVIOUS
  <2> QED
    BY <1>1, <2>1, Widths
<1>3. ~IsInt(k.style) => UNITY_UINT(Loaded(k, m)) = m /\ UNITY_UINT(Loaded(k, n)) = n
  BY LoadedNumbers
<1>4. IsInt(k.style) => Loaded(k, m) = m /\ Loaded(k, n) = n
  BY DEF Loaded
<1>5. CASE k.style.range = "CHAR"
  <2>1. IsInt(k.style)
    BY <1>5 DEF IsInt
  <2>2. Width(1) <= 256
    <3>2. PICK w : w = 2^BYTE
      OBVIOUS
    <3>3. w \in {4, 16, 64, 256}
      BY <3>2, ByteValues
    <3> QED
      BY <3>2, <3>3, WidthTimes
  <2>3. m \in (-128)..127 /\ n \in (-128)..127
    BY <1>1, <1>2, <1>5, <2>1, <2>2 DEF Numbers
  <2>4. Escaped(m) # Escaped(n)
    BY <2>3, CharacterTold, Zenon
  <2>5. \A i : UnityPrintIntNumberByStyle(i, k.style) = <<39>> \o Escaped(i) \o <<39>>
    BY <1>5 DEF UnityPrintIntNumberByStyle
  <2>6. Escaped(m) \in Seq(Int) /\ Escaped(n) \in Seq(Int)
    BY <2>3, EscapedForm
  <2>7. \A s, t \in Seq(Int) : <<39>> \o s \o <<39>> = <<39>> \o t \o <<39>> => s = t
    <3> TAKE s \in Seq(Int), t \in Seq(Int)
    <3> HAVE <<39>> \o s \o <<39>> = <<39>> \o t \o <<39>>
    <3>1. \A r \in Seq(Int) : /\ Len(<<39>> \o r \o <<39>>) = Len(r) + 2
                              /\ SubSeq(<<39>> \o r \o <<39>>, 2, Len(r) + 1) = r
      OBVIOUS
    <3>2. Len(s) = Len(t)
      BY <3>1
    <3> QED
      BY <3>1, <3>2
  <2> QED
    BY <1>4, <2>1, <2>4, <2>5, <2>6, <2>7
<1>6. CASE k.style.range = "INT"
  <2>1. IsInt(k.style)
    BY <1>6 DEF IsInt
  <2>2. /\ m \in Int /\ -(Width(8) \div 2) <= m /\ m < Width(8) \div 2
        /\ n \in Int /\ -(Width(8) \div 2) <= n /\ n < Width(8) \div 2
    BY <1>2, <2>1 DEF Numbers
  <2>3. UnityPrintNumber(m) # UnityPrintNumber(n)
    BY <2>2, SignedReadsBack
  <2>4. \A i : UnityPrintIntNumberByStyle(i, k.style) = UnityPrintNumber(i)
    BY <1>6 DEF UnityPrintIntNumberByStyle
  <2> QED
    BY <1>4, <2>1, <2>3, <2>4
<1>7. CASE k.style.range \in {"UINT", "HEX"}
  <2>1. ~IsInt(k.style)
    BY <1>7 DEF IsInt
  <2>2. /\ m \in 0..(Width(k.style.bytes) - 1) /\ n \in 0..(Width(k.style.bytes) - 1)
        /\ m \in 0..(Width(8) - 1) /\ n \in 0..(Width(8) - 1)
    BY <1>2, <2>1 DEF Numbers
  <2>3. UnityPrintUintNumberByStyle(m, k.style) # UnityPrintUintNumberByStyle(n, k.style)
    <3>1. CASE k.style.range = "UINT"
      <4>1. \A i : UnityPrintUintNumberByStyle(i, k.style) = UnityPrintNumberUnsigned(i)
        BY <3>1 DEF UnityPrintUintNumberByStyle
      <4> QED
        BY <2>2, <4>1, DecimalReadsBack
    <3>2. CASE k.style.range = "HEX"
      <4>1. \A i : UnityPrintUintNumberByStyle(i, k.style)
                     = <<48, 120>> \o UnityPrintNumberHex(i, 2 * k.style.bytes)
        BY <3>2 DEF UnityPrintUintNumberByStyle
      <4>2. ASSUME NEW i \in 0..(Width(k.style.bytes) - 1)
            PROVE  /\ UnityPrintNumberHex(i, 2 * k.style.bytes) \in Seq(Int)
                   /\ Numeral(UnityPrintNumberHex(i, 2 * k.style.bytes), NIBBLE) = i
        <5>1. i \in Nat /\ i < Width(k.style.bytes)
          BY <1>2
        <5>2. Unsigned(i, k.style.bytes) = i
          BY <1>1, <5>1, UnsignedSame
        <5> QED
          BY <1>1, <5>1, <5>2, HexReadsBack
      <4>3. \A s \in Seq(Int) : SubSeq(<<48, 120>> \o s, 3, Len(<<48, 120>> \o s)) = s
        OBVIOUS
      <4>4. PICK s \in Seq(Int), t \in Seq(Int) :
              /\ s = UnityPrintNumberHex(m, 2 * k.style.bytes)
              /\ t = UnityPrintNumberHex(n, 2 * k.style.bytes)
              /\ s # t
        BY <2>2, <4>2
      <4>5. <<48, 120>> \o s # <<48, 120>> \o t
        BY <4>3, <4>4
      <4> QED
        BY <4>1, <4>4, <4>5
    <3> QED
      BY <1>7, <3>1, <3>2
  <2>4. \A i : UnityPrintIntNumberByStyle(i, k.style)
                 = UnityPrintUintNumberByStyle(UNITY_UINT(i), k.style)
    BY <1>7 DEF UnityPrintIntNumberByStyle
  <2> QED
    BY <1>3, <2>1, <2>3, <2>4
<1> QED
  BY <1>1, <1>5, <1>6, <1>7

--------------------------------------------------------------------------------
(***************************************************************************)
(* Differences shown.                                                       *)
(***************************************************************************)
\* The low bits of the mask that are set are those of an int.
LEMMA LowBits ==
  /\ Width(4) - 1 \in Nat
  /\ \A i \in 0..(8 * BYTE - 1) : Bit(Width(4) - 1, i) = 1 => i < 4 * BYTE
<1>1. PICK p \in [0..64 -> Nat \ {0}] :
        /\ \A k \in 0..64 : p[k] = Power(2, k)
        /\ p[0] = 1
        /\ \A k \in 1..64 : p[k] = 2 * p[k - 1]
  <2> DEFINE q == [k \in 0..64 |-> Power(2, k)]
  <2>1. 2 \in Nat \ {0} /\ 2 \in Nat
    OBVIOUS
  <2>2. Power(2, 0) = 1 /\ \A k \in 1..64 : Power(2, k) = 2 * Power(2, k - 1)
    BY <2>1, PowerUnfold
  <2>3. \A k \in 0..64 : Power(2, k) \in Nat \ {0}
    BY <2>1, PowerIsPositive
  <2>4. q \in [0..64 -> Nat \ {0}]
    BY <2>3
  <2>5. \A k \in 0..64 : q[k] = Power(2, k)
    OBVIOUS
  <2>6. q[0] = 1 /\ \A k \in 1..64 : q[k] = 2 * q[k - 1]
    <3>1. \A k \in 1..64 : k \in 0..64 /\ k - 1 \in 0..64
      OBVIOUS
    <3> QED
      BY <2>2, <2>5, <3>1
  <2> HIDE DEF q
  <2> QED
    BY <2>4, <2>5, <2>6
<1>2. PICK w \in Nat : w = 2^BYTE
  BY WidthTimes
<1>3. \A k \in 0..56 : p[k + BYTE] = w * p[k]
  <2> TAKE k \in 0..56
  <2>1. PICK n \in Nat : n = p[k]
    BY <1>1
  <2>2. /\ k + 1 \in 1..64 /\ k + 2 \in 1..64 /\ k + 3 \in 1..64 /\ k + 4 \in 1..64
        /\ k + 5 \in 1..64 /\ k + 6 \in 1..64 /\ k + 7 \in 1..64 /\ k + 8 \in 1..64
        /\ (k + 1) - 1 = k /\ (k + 2) - 1 = k + 1 /\ (k + 3) - 1 = k + 2
        /\ (k + 4) - 1 = k + 3 /\ (k + 5) - 1 = k + 4 /\ (k + 6) - 1 = k + 5
        /\ (k + 7) - 1 = k + 6 /\ (k + 8) - 1 = k + 7
    OBVIOUS
  <2>3. /\ p[k + 1] = 2 * n /\ p[k + 2] = 2 * p[k + 1] /\ p[k + 3] = 2 * p[k + 2]
        /\ p[k + 4] = 2 * p[k + 3] /\ p[k + 5] = 2 * p[k + 4] /\ p[k + 6] = 2 * p[k + 5]
        /\ p[k + 7] = 2 * p[k + 6] /\ p[k + 8] = 2 * p[k + 7]
    BY <1>1, <2>1, <2>2
  <2>4. p[k + 2] = 4 * n /\ p[k + 4] = 16 * n /\ p[k + 6] = 64 * n /\ p[k + 8] = 256 * n
    BY <2>3
  <2>5. 2^2 = 4 /\ 2^4 = 16 /\ 2^6 = 64 /\ 2^8 = 256
    OBVIOUS
  <2>6. CASE BYTE = 2
    BY <1>2, <2>1, <2>4, <2>5, <2>6
  <2>7. CASE BYTE = 4
    BY <1>2, <2>1, <2>4, <2>5, <2>7
  <2>8. CASE BYTE = 6
    BY <1>2, <2>1, <2>4, <2>5, <2>8
  <2>9. CASE BYTE = 8
    BY <1>2, <2>1, <2>4, <2>5, <2>9
  <2> QED
    BY <2>6, <2>7, <2>8, <2>9, ByteAssumption
<1>4. PICK b \in 2..8 : b = BYTE
  BY ByteAssumption
<1>5. p[4 * b] = (w * w) * (w * w)
  <2>1. /\ 0 \in 0..56 /\ b \in 0..56 /\ 2 * b \in 0..56 /\ 3 * b \in 0..56
        /\ 0 + b = b /\ b + b = 2 * b /\ 2 * b + b = 3 * b /\ 3 * b + b = 4 * b
    OBVIOUS
  <2>2. p[b] = w * p[0] /\ p[2 * b] = w * p[b] /\ p[3 * b] = w * p[2 * b]
        /\ p[4 * b] = w * p[3 * b]
    BY <1>3, <1>4, <2>1
  <2>3. w * (w * (w * (w * 1))) = (w * w) * (w * w)
    OBVIOUS
  <2> QED
    BY <1>1, <2>2, <2>3
<1>6. Width(4) = p[4 * b] /\ 4 * b \in 0..64
  BY <1>2, <1>5, WidthTimes
<1>7. PICK low \in Nat : low = Width(4) - 1 /\ low < p[4 * b]
  <2>1. p[4 * b] \in Nat \ {0}
    BY <1>1, <1>6
  <2> QED
    BY <1>6, <2>1
<1> DEFINE bad == {i \in (4 * b)..64 : p[i] < p[4 * b]}
<1>8. bad = {}
  <2>1. SUFFICES ASSUME bad # {} PROVE FALSE
    OBVIOUS
  <2>2. PICK i \in bad : \A j \in bad : i <= j
    <3>1. bad \subseteq Nat
      OBVIOUS
    <3> HIDE DEF bad
    <3> QED
      BY <2>1, <3>1, MinOfNaturals
  <2>3. i \in (4 * b)..64 /\ p[i] < p[4 * b]
    OBVIOUS
  <2>4. i # 4 * b
    <3>1. p[4 * b] \in Nat
      BY <1>1, <1>6
    <3> QED
      BY <2>3, <3>1
  <2>5. i - 1 \in (4 * b)..64 /\ i \in 1..64 /\ i - 1 \in 0..64 /\ i - 1 < i
    BY <2>3, <2>4
  <2>6. i - 1 \notin bad
    <3> HIDE DEF bad
    <3> QED
      BY <2>2, <2>5
  <2>7. ~(p[i - 1] < p[4 * b])
    BY <2>5, <2>6
  <2>8. p[i] = 2 * p[i - 1] /\ p[i - 1] \in Nat /\ p[4 * b] \in Nat
    BY <1>1, <1>6, <2>5
  <2> QED
    BY <2>3, <2>7, <2>8
<1>9. ASSUME NEW i \in 0..(8 * BYTE - 1), ~(i < 4 * BYTE) PROVE Bit(Width(4) - 1, i) # 1
  <2>1. i \in (4 * b)..64 /\ i \in 0..64
    BY <1>4, <1>9
  <2>2. p[i] \in Nat \ {0} /\ low < p[i]
    <3>1. ~(p[i] < p[4 * b])
      BY <1>8, <2>1
    <3>2. p[i] \in Nat \ {0} /\ p[4 * b] \in Nat
      BY <1>1, <1>6, <2>1
    <3> QED
      BY <1>7, <3>1, <3>2
  <2>3. PICK q \in Nat \ {0} : q = p[i] /\ low < q
    BY <2>2
  <2>4. low \div q = 0
    <3>1. low = (low \div q) * q + (low % q) /\ low \div q \in Nat /\ low % q \in 0..(q - 1)
      BY <2>3, Divided
    <3>2. low = 0 * q + low /\ low \in 0..(q - 1)
      BY <2>3
    <3> QED
      BY <3>1, <3>2, DividedOnce
  <2>5. Bit(low, i) = (low \div q) % 2
    BY <1>1, <2>1, <2>3 DEF Bit
  <2> QED
    BY <1>7, <2>4, <2>5
<1> QED
  BY <1>7, <1>9

\* A bit of a natural number.
LEMMA BitIsDigit ==
  ASSUME NEW n \in Nat, NEW i \in 0..64
  PROVE  Bit(n, i) \in 0..1
<1>1. 2 \in Nat \ {0}
  OBVIOUS
<1>2. PICK p \in Nat \ {0} : p = Power(2, i)
  BY <1>1, PowerIsPositive
<1>3. PICK q \in Nat : q = n \div p
  BY Divided
<1>4. q % 2 \in 0..1
  OBVIOUS
<1> QED
  BY <1>2, <1>3, <1>4 DEF Bit

\* Where numbers differ in the low bits, what is shown of the bits differs.
LEMMA BitsTold ==
  ASSUME NEW m \in Int, NEW n \in Int,
         ~UnityAssertBits(Width(4) - 1, m, n).ok
  PROVE  UnityAssertBits(Width(4) - 1, m, n).shown[1]
           # UnityAssertBits(Width(4) - 1, m, n).shown[2]
<1>1. PICK low \in Nat : low = Width(4) - 1 /\ UNITY_UINT(low) = low
  <2>1. 4 \in {1, 2, 4, 8} /\ 8 \in {1, 2, 4, 8}
    OBVIOUS
  <2>2. Width(4) \in Nat \ {0} /\ Width(4) <= Width(8) /\ Width(8) \in Nat
    BY <2>1, Widths
  <2>3. PICK i \in Nat : i = Width(4) - 1 /\ i < Width(8)
    BY <2>2
  <2> QED
    BY <2>1, <2>3, UnsignedSame DEF UNITY_UINT
<1>2. PICK u \in Nat, v \in Nat : u = UNITY_UINT(m) /\ v = UNITY_UINT(n)
  <2>1. 8 \in {1, 2, 4, 8}
    OBVIOUS
  <2>2. PICK w \in Nat \ {0} : w = Width(8)
    BY <2>1, Widths
  <2>3. m % w \in Nat /\ n % w \in Nat
    OBVIOUS
  <2> QED
    BY <2>2, <2>3 DEF UNITY_UINT, Unsigned
<1> DEFINE Same == \A i \in 0..(8 * BYTE - 1) : Bit(low, i) = 1 => Bit(u, i) = Bit(v, i)
<1>3. UnityAssertBits(low, m, n)
        = IF Same THEN Pass ELSE Fail(0, <<UnityPrintMask(low, u), UnityPrintMask(low, v)>>)
  BY <1>1, <1>2 DEF UnityAssertBits
<1> HIDE DEF Same
<1>4. /\ ~Same
      /\ UnityAssertBits(low, m, n).shown[1] = UnityPrintMask(low, u)
      /\ UnityAssertBits(low, m, n).shown[2] = UnityPrintMask(low, v)
  BY <1>1, <1>3 DEF Pass, Fail
<1>5. PICK i \in 0..(8 * BYTE - 1) : Bit(low, i) = 1 /\ Bit(u, i) # Bit(v, i)
  BY <1>4 DEF Same
<1>6. PICK bits \in Nat : bits = BYTE * INT_BYTES /\ i < bits /\ bits - (bits - i) = i
                          /\ bits - i \in 1..bits /\ i \in 0..64
  <2>1. PICK b \in 2..8 : b = BYTE
    BY ByteAssumption
  <2>2. i < 4 * b
    BY <1>1, <1>5, <2>1, LowBits
  <2>3. i \in 0..64 /\ 4 * b \in Nat /\ b * 4 = 4 * b
    BY <2>1
  <2> QED
    BY <2>1, <2>2, <2>3 DEF INT_BYTES
<1>7. \A j : UnityPrintMask(low, j)[bits - i] = Digit(Bit(j, i))
  <2>1. \A j : UnityPrintMask(low, j)[bits - i]
                 = IF Bit(low, bits - (bits - i)) = 0 THEN 88 ELSE Digit(Bit(j, bits - (bits - i)))
    BY <1>6 DEF UnityPrintMask
  <2> QED
    BY <1>5, <1>6, <2>1
<1>8. Digit(Bit(u, i)) # Digit(Bit(v, i))
  <2>1. PICK c \in 0..15, d \in 0..15 : c = Bit(u, i) /\ d = Bit(v, i)
    <3>1. Bit(u, i) \in 0..1 /\ Bit(v, i) \in 0..1
      BY <1>6, BitIsDigit
    <3> QED
      BY <3>1
  <2> QED
    BY <1>5, <2>1, DigitsWorth
<1> QED
  BY <1>1, <1>4, <1>7, <1>8

\* An assertion on elements that fails shows something of one of them.
LEMMA FirstIsShown ==
  ASSUME NEW shown, DOMAIN shown \subseteq Nat, ~FirstOf(shown).ok
  PROVE  \E k \in DOMAIN shown : FirstOf(shown).shown = shown[k]
<1>1. DOMAIN shown # {}
  BY DEF FirstOf, Pass
<1>2. FirstOf(shown).shown = shown[Min(DOMAIN shown)]
  BY <1>1 DEF FirstOf, Fail
<1>3. Min(DOMAIN shown) \in DOMAIN shown
  BY <1>1, MinOfNaturals
<1> QED
  BY <1>2, <1>3

\* The elements of the two arrays as they are loaded.
LEMMA ElementsLoaded ==
  ASSUME NumbersTyped, NEW k \in 0..1
  PROVE  /\ expected[k + 1] \in Numbers(kind) /\ actual[k + 1] \in Numbers(kind)
         /\ Expected(mem, "E", k, kind.style, UNITY_ARRAY_TO_ARRAY)
              = Loaded(kind, expected[k + 1])
         /\ Actual(mem, "A", k, kind.style) = Loaded(kind, actual[k + 1])
<1>1. kind \in Kinds /\ expected[k + 1] \in Numbers(kind) /\ actual[k + 1] \in Numbers(kind)
  BY DEF NumbersTyped
<1>2. expected \in [1..2 -> Int] /\ actual \in [1..2 -> Int]
  BY <1>1, CastSame DEF NumbersTyped
<1>3. mem["E"] = InMemory(expected) /\ mem["A"] = InMemory(actual)
  BY DEF mem
<1>4. Actual(mem, "A", k, kind.style) = Loaded(kind, actual[k + 1])
  BY <1>1, <1>2, <1>3, ArrayReadsBack, LoadIs DEF Actual
<1>5. Expected(mem, "E", k, kind.style, UNITY_ARRAY_TO_ARRAY) = Loaded(kind, expected[k + 1])
  BY <1>1, <1>2, <1>3, ArrayReadsBack, LoadIs DEF Expected
<1> QED
  BY <1>1, <1>4, <1>5

LEMMA AnyDifferenceShows == NumbersTyped => DifferenceShows
<1> SUFFICES ASSUME NumbersTyped PROVE DifferenceShows
  OBVIOUS
<1> DEFINE E(k) == Expected(mem, "E", k, kind.style, UNITY_ARRAY_TO_ARRAY)
           A(k) == Actual(mem, "A", k, kind.style)
           Shown(k) == <<UnityPrintIntNumberByStyle(E(k), kind.style),
                         UnityPrintIntNumberByStyle(A(k), kind.style)>>
           Shows(r) == r.ok \/ r.shown = <<>> \/ r.shown[1] # r.shown[2]
<1>1. /\ kind \in Kinds /\ e \in Numbers(kind) /\ a \in Numbers(kind)
      /\ delta \in Nat
  BY KindFields, Widths DEF NumbersTyped, e, a
<1>2. ASSUME NEW k \in 0..1, E(k) # A(k) PROVE Shown(k)[1] # Shown(k)[2]
  <2>1. PICK m \in Numbers(kind), n \in Numbers(kind) :
          E(k) = Loaded(kind, m) /\ A(k) = Loaded(kind, n)
    BY ElementsLoaded
  <2>2. m # n
    BY <1>2, <2>1
  <2>3. UnityPrintIntNumberByStyle(E(k), kind.style)
          # UnityPrintIntNumberByStyle(A(k), kind.style)
    BY <1>1, <2>1, <2>2, NumbersTold
  <2> QED
    BY <2>3
<1>3. ASSUME NEW bad \in SUBSET (0..1), \A k \in bad : E(k) # A(k)
      PROVE  Shows(FirstOf([k \in bad |-> Shown(k)]))
  <2> DEFINE f == [k \in bad |-> Shown(k)]
  <2>1. DOMAIN f \subseteq Nat /\ \A k \in DOMAIN f : f[k][1] # f[k][2]
    <3>1. \A k \in bad : k \in 0..1 /\ Shown(k)[1] # Shown(k)[2]
      BY <1>2, <1>3
    <3> HIDE DEF Shown
    <3> QED
      BY <3>1
  <2> HIDE DEF f
  <2> QED
    BY <2>1, FirstIsShown DEF f
<1>4. Shows(EQUAL(kind, e, a))
  <2>1. SUFFICES ASSUME ~EQUAL(kind, e, a).ok
                 PROVE  EQUAL(kind, e, a).shown[1] # EQUAL(kind, e, a).shown[2]
    OBVIOUS
  <2>2. e # a
    BY <1>1, <2>1, EqualIsExact
  <2>3. /\ Cast(kind, e) = e /\ Cast(kind, a) = a
        /\ IsInt(kind.style) => UNITY_INT(e) = e /\ UNITY_INT(a) = a
    BY <1>1, CastSame
  <2>4. CASE IsInt(kind.style) \/ kind.style.bytes = 8
    <3>1. UNITY_INT(e) = Loaded(kind, e) /\ UNITY_INT(a) = Loaded(kind, a)
      BY <2>3, <2>4 DEF Loaded
    <3>2. EQUAL(kind, e, a)
            = UnityAssertEqualIntNumber(Loaded(kind, e), Loaded(kind, a), kind.style)
      BY <2>3, <2>4, <3>1 DEF EQUAL
    <3>3. Loaded(kind, e) # Loaded(kind, a)
      BY <1>1, <2>2, LoadedNumbers
    <3>4. EQUAL(kind, e, a).shown = <<UnityPrintIntNumberByStyle(Loaded(kind, e), kind.style),
                                      UnityPrintIntNumberByStyle(Loaded(kind, a), kind.style)>>
      BY <3>2, <3>3 DEF UnityAssertEqualIntNumber, Fail
    <3> QED
      BY <1>1, <2>2, <3>4, NumbersTold
  <2>5. CASE ~(IsInt(kind.style) \/ kind.style.bytes = 8)
    <3>1. EQUAL(kind, e, a) = UnityAssertEqualUintNumber(e, a, kind.style)
      BY <2>3, <2>5 DEF EQUAL
    <3>2. EQUAL(kind, e, a).shown = <<UnityPrintUintNumberByStyle(e, kind.style),
                                      UnityPrintUintNumberByStyle(a, kind.style)>>
      BY <2>2, <3>1 DEF UnityAssertEqualUintNumber, Fail
    <3> QED
      BY <1>1, <2>2, <2>5, <3>2, NumbersTold
  <2> QED
    BY <2>4, <2>5
<1>5. /\ "E" # "A" /\ ~OneArrayNull("E", "A") /\ 2 # 0 /\ 2 - 1 = 1
  BY DEF OneArrayNull, NULL
<1>6. Shows(UnityAssertEqualIntArray(mem, "E", "A", 2, kind.style, UNITY_ARRAY_TO_ARRAY))
  <2>1. UnityAssertEqualIntArray(mem, "E", "A", 2, kind.style, UNITY_ARRAY_TO_ARRAY)
          = FirstOf([k \in {k \in 0..1 : E(k) # A(k)} |-> Shown(k)])
    BY <1>5 DEF UnityAssertEqualIntArray
  <2> HIDE DEF E, A, Shown, Shows
  <2> QED
    BY <1>3, <2>1
<1>7. Shows(UnityAssertNumbersArrayWithin(mem, delta, "E", "A", 2, kind.style,
                                          UNITY_ARRAY_TO_ARRAY))
  <2> DEFINE Far(k) == IF IsInt(kind.style) THEN Apart(A(k), E(k), delta)
                       ELSE Apart(UNITY_UINT(A(k)), UNITY_UINT(E(k)), delta)
  <2>1. ASSUME NEW k \in 0..1, Far(k) PROVE E(k) # A(k)
    <3>1. SUFFICES ASSUME E(k) = A(k) PROVE FALSE
      OBVIOUS
    <3>2. PICK m \in Numbers(kind) : E(k) = Loaded(kind, m) /\ A(k) = Loaded(kind, m)
      BY <3>1, ElementsLoaded
    <3>3. Apart(m, m, delta)
      <4>1. CASE IsInt(kind.style)
        BY <2>1, <3>2, <4>1 DEF Loaded
      <4>2. CASE ~IsInt(kind.style)
        <5>1. UNITY_UINT(Loaded(kind, m)) = m
          BY <1>1, <4>2, LoadedNumbers
        <5> QED
          BY <2>1, <3>2, <4>2, <5>1
      <4> QED
        BY <4>1, <4>2
    <3>4. ~Apart(m, m, delta) <=> m - m \in (-delta)..delta
      BY <1>1, NumbersApart
    <3>5. m \in Int
      BY <1>1, CastSame
    <3>6. m - m \in (-delta)..delta
      BY <1>1, <3>5
    <3> QED
      BY <3>3, <3>4, <3>6
  <2>2. UnityAssertNumbersArrayWithin(mem, delta, "E", "A", 2, kind.style, UNITY_ARRAY_TO_ARRAY)
          = FirstOf([k \in {k \in 0..1 : Far(k)} |-> Shown(k)])
    BY <1>5 DEF UnityAssertNumbersArrayWithin
  <2> HIDE DEF E, A, Shown, Shows, Far
  <2> QED
    BY <1>3, <2>1, <2>2
<1>8. Shows(UnityAssertBits(Width(INT_BYTES) - 1, e, a))
  <2>1. e \in Int /\ a \in Int
    BY <1>1, CastSame
  <2>2. INT_BYTES = 4
    BY DEF INT_BYTES
  <2> QED
    BY <2>1, <2>2, BitsTold
<1> HIDE DEF Shows
<1> QED
  BY <1>4, <1>6, <1>7, <1>8 DEF DifferenceShows, Shows

--------------------------------------------------------------------------------
(***************************************************************************)
(* Printed strings.                                                         *)
(***************************************************************************)
\* Sequences one behind the other, step by step.
Grows(g, seqs) ==
  /\ g \in [0..Len(seqs) -> Seq(Int)]
  /\ g[0] = <<>>
  /\ \A i \in 1..Len(seqs) : g[i] = g[i - 1] \o seqs[i]

LEMMA GrowthExists ==
  ASSUME NEW seqs \in Seq(Seq(Int))
  PROVE  \E g : Grows(g, seqs)
<1> DEFINE n == Len(seqs)
           Is(g, m) == /\ g \in [0..m -> Seq(Int)] /\ g[0] = <<>>
                       /\ \A i \in 1..m : g[i] = g[i - 1] \o seqs[i]
           bad == {m \in 0..n : ~\E g : Is(g, m)}
<1>1. n \in Nat /\ \A i \in 1..n : seqs[i] \in Seq(Int)
  OBVIOUS
<1>2. SUFFICES ASSUME bad # {} PROVE FALSE
  <2>1. n \in 0..n
    BY <1>1
  <2>2. \A g : Is(g, n) => Grows(g, seqs)
    BY DEF Grows
  <2> HIDE DEF Is, n
  <2> QED
    BY <2>1, <2>2
<1> HIDE DEF n
<1>3. PICK m \in bad : \A k \in bad : m <= k
  <2>1. bad \subseteq Nat
    <3> HIDE DEF Is
    <3> QED
      BY <1>1
  <2> HIDE DEF bad
  <2> QED
    BY <1>2, <2>1, MinOfNaturals
<1>4. m # 0
  <2> DEFINE g == [i \in 0..0 |-> <<>>]
  <2>1. <<>> \in Seq(Int)
    OBVIOUS
  <2>2. Is(g, 0)
    BY <2>1
  <2> QED
    BY <2>2
<1>5. m \in 1..n /\ m - 1 \in 0..n /\ m - 1 \in Nat /\ m \in Nat
  BY <1>1, <1>3, <1>4
<1>6. PICK g : Is(g, m - 1)
  <2>1. m - 1 \notin bad
    <3> HIDE DEF bad
    <3> QED
      BY <1>3, <1>5
  <2> QED
    BY <1>5, <2>1
<1> DEFINE h == [i \in 0..m |-> IF i = m THEN g[m - 1] \o seqs[m] ELSE g[i]]
<1>7. Is(h, m)
  <2>1. PICK r \in Seq(Int), s \in Seq(Int) : r = g[m - 1] /\ s = seqs[m]
    BY <1>1, <1>5, <1>6
  <2>2. g[m - 1] \o seqs[m] \in Seq(Int)
    BY <2>1
  <2>3. \A i \in 0..(m - 1) : g[i] \in Seq(Int) /\ i \in 0..m /\ i # m
    BY <1>5, <1>6
  <2>4. h \in [0..m -> Seq(Int)]
    <3>1. \A i \in 0..m : i = m \/ i \in 0..(m - 1)
      BY <1>5
    <3> QED
      BY <2>2, <2>3, <3>1
  <2>5. h[0] = <<>>
    BY <1>4, <1>5, <1>6
  <2>6. ASSUME NEW i \in 1..m PROVE h[i] = h[i - 1] \o seqs[i]
    <3>1. i \in 0..m /\ i - 1 \in 0..m /\ i - 1 # m
      BY <1>5
    <3>2. CASE i = m
      BY <3>1, <3>2
    <3>3. CASE i # m
      <4>1. i \in 1..(m - 1)
        BY <1>5, <3>3
      <4> QED
        BY <1>6, <3>1, <3>3, <4>1
    <3> QED
      BY <3>2, <3>3
  <2> QED
    BY <2>4, <2>5, <2>6
<1> QED
  BY <1>3, <1>7

LEMMA FlattenGrows ==
  ASSUME NEW seqs \in Seq(Seq(Int)), NEW g, Grows(g, seqs)
  PROVE  FlattenSeq(seqs) = g[Len(seqs)]
<1> DEFINE n == Len(seqs)
           F(f) == f = [i \in 1..Len(seqs) |-> IF i = 1 THEN seqs[i] ELSE f[i - 1] \o seqs[i]]
           h == CHOOSE f : F(f)
           k == [i \in 1..n |-> g[i]]
<1>1. n \in Nat /\ \A i \in 1..n : seqs[i] \in Seq(Int)
  OBVIOUS
<1>2. /\ g \in [0..n -> Seq(Int)] /\ g[0] = <<>>
      /\ \A i \in 1..n : g[i] = g[i - 1] \o seqs[i]
  BY DEF Grows
<1>3. CASE n = 0
  <2>1. FlattenSeq(seqs) = seqs
    BY <1>3 DEF FlattenSeq
  <2>2. seqs = <<>>
    BY <1>3
  <2> QED
    BY <1>2, <1>3, <2>1, <2>2
<1>4. CASE n # 0
  <2>1. F(k)
    <3>1. \A i \in 1..n : k[i] = IF i = 1 THEN seqs[i] ELSE k[i - 1] \o seqs[i]
      <4> TAKE i \in 1..n
      <4>1. k[i] = g[i - 1] \o seqs[i]
        BY <1>2
      <4>2. CASE i = 1
        <5>1. PICK s \in Seq(Int) : s = seqs[i]
          BY <1>1
        <5>2. <<>> \o s = s
          OBVIOUS
        <5>3. g[i - 1] = <<>>
          BY <1>2, <4>2
        <5> QED
          BY <4>1, <4>2, <5>1, <5>2, <5>3
      <4>3. CASE i # 1
        <5>1. i - 1 \in 1..n
          BY <1>1, <4>3
        <5> QED
          BY <4>1, <4>3, <5>1
      <4> QED
        BY <4>2, <4>3
    <3>2. k = [i \in 1..n |-> k[i]]
      OBVIOUS
    <3> HIDE DEF k
    <3> QED
      BY <3>1, <3>2
  <2>2. F(h)
    BY <2>1, Zenon
  <2>3. FlattenSeq(seqs) = h[n]
    BY <1>4 DEF FlattenSeq
  <2> HIDE DEF h, n
  <2>4. \A i \in 1..n : h[i] = IF i = 1 THEN seqs[i] ELSE h[i - 1] \o seqs[i]
    BY <2>2 DEF n
  <2>5. \A i \in 1..n : k[i] = IF i = 1 THEN seqs[i] ELSE k[i - 1] \o seqs[i]
    BY <2>1 DEF n
  <2> DEFINE bad == {i \in 1..n : h[i] # k[i]}
  <2>6. bad = {}
    <3>1. SUFFICES ASSUME bad # {} PROVE FALSE
      OBVIOUS
    <3>2. PICK i \in bad : \A j \in bad : i <= j
      <4>1. bad \subseteq Nat
        BY <1>1
      <4> HIDE DEF bad
      <4> QED
        BY <3>1, <4>1, MinOfNaturals
    <3> HIDE DEF k
    <3>3. i \in 1..n /\ h[i] # k[i]
      OBVIOUS
    <3>4. i # 1
      BY <2>4, <2>5, <3>3
    <3>5. i - 1 \in 1..n /\ i - 1 < i
      BY <1>1, <3>3, <3>4
    <3>6. i - 1 \notin bad
      <4> HIDE DEF bad
      <4> QED
        BY <1>1, <3>2, <3>3, <3>5
    <3>7. h[i - 1] = k[i - 1]
      BY <3>5, <3>6
    <3> QED
      BY <2>4, <2>5, <3>3, <3>4, <3>7
  <2>7. n \in 1..n
    BY <1>1, <1>4
  <2>8. h[n] = k[n]
    BY <2>6, <2>7
  <2> QED
    BY <2>3, <2>7, <2>8 DEF n
<1> QED
  BY <1>3, <1>4

\* What is there stays at the start.
LEMMA GrowthKeeps ==
  ASSUME NEW seqs \in Seq(Seq(Int)), NEW g, Grows(g, seqs)
  PROVE  \A i \in 0..Len(seqs) :
           /\ Len(g[i]) <= Len(g[Len(seqs)])
           /\ \A p \in 1..Len(g[i]) : g[Len(seqs)][p] = g[i][p]
<1> DEFINE n == Len(seqs)
           Start(i) == /\ Len(g[i]) <= Len(g[n])
                       /\ \A p \in 1..Len(g[i]) : g[n][p] = g[i][p]
           bad == {d \in 0..n : ~Start(n - d)}
<1>1. n \in Nat /\ \A i \in 1..n : seqs[i] \in Seq(Int)
  OBVIOUS
<1>2. /\ \A i \in 0..n : g[i] \in Seq(Int)
      /\ \A i \in 1..n : g[i] = g[i - 1] \o seqs[i]
  BY DEF Grows
<1> HIDE DEF n
<1>3. bad = {}
  <2>1. SUFFICES ASSUME bad # {} PROVE FALSE
    OBVIOUS
  <2>2. PICK d \in bad : \A j \in bad : d <= j
    <3>1. bad \subseteq Nat
      BY <1>1
    <3> HIDE DEF bad
    <3> QED
      BY <2>1, <3>1, MinOfNaturals
  <2>3. d \in 0..n /\ ~Start(n - d)
    OBVIOUS
  <2>4. d # 0
    <3>1. SUFFICES ASSUME d = 0 PROVE FALSE
      OBVIOUS
    <3>2. n - d = n /\ n \in 0..n
      BY <1>1, <3>1
    <3>3. Len(g[n]) \in Nat
      BY <1>2, <3>2
    <3>4. Start(n)
      BY <3>3
    <3> HIDE DEF Start
    <3> QED
      BY <2>3, <3>2, <3>4
  <2>5. PICK i \in 1..n : i = n - (d - 1) /\ i - 1 = n - d /\ i - 1 \in 0..n /\ i \in 0..n
    BY <1>1, <2>3, <2>4
  <2>6. Start(i)
    <3>1. d - 1 \in 0..n /\ d - 1 < d /\ d \in Int
      BY <1>1, <2>3, <2>4
    <3>2. d - 1 \notin bad
      <4> HIDE DEF bad
      <4> QED
        BY <2>2, <3>1
    <3> HIDE DEF Start
    <3> QED
      BY <2>5, <3>1, <3>2
  <2>7. PICK r \in Seq(Int), s \in Seq(Int), t \in Seq(Int) :
          r = g[i - 1] /\ s = seqs[i] /\ t = g[n]
    <3>1. n \in 0..n
      BY <1>1
    <3> QED
      BY <1>1, <1>2, <2>5, <3>1
  <2>8. g[i] = r \o s
    BY <1>2, <2>7
  <2>9. Len(r \o s) = Len(r) + Len(s) /\ Len(r) \in Nat /\ Len(s) \in Nat /\ Len(t) \in Nat
    OBVIOUS
  <2>10. \A p \in 1..Len(r) : (r \o s)[p] = r[p]
    OBVIOUS
  <2>11. Len(r \o s) <= Len(t) /\ \A p \in 1..Len(r \o s) : t[p] = (r \o s)[p]
    BY <2>6, <2>7, <2>8
  <2>12. Len(r) <= Len(t) /\ \A p \in 1..Len(r) : t[p] = r[p]
    <3>1. Len(r) <= Len(t) /\ \A p \in 1..Len(r) : p \in 1..Len(r \o s)
      BY <2>9, <2>11
    <3> QED
      BY <2>10, <2>11, <3>1
  <2>13. Start(i - 1)
    BY <2>7, <2>12
  <2> HIDE DEF Start
  <2> QED
    BY <2>3, <2>5, <2>13
<1>4. ASSUME NEW i \in 0..n PROVE Start(i)
  <2>1. n - i \in 0..n /\ n - (n - i) = i
    BY <1>1
  <2> HIDE DEF Start
  <2> QED
    BY <1>3, <2>1
<1> QED
  BY <1>4 DEF n

\* What a text shows is seen from its start.
LEMMA ShownAtStart ==
  ASSUME NEW c \in (-128)..127, NEW u, NEW v, AsShown(u, c),
         \A p \in 1..LengthShown(c) : v[p] = u[p]
  PROVE  AsShown(v, c)
<1>1. CASE c \in 32..126
  <2>1. LengthShown(c) = 1 /\ c # 13 /\ c # 10
    BY <1>1 DEF LengthShown
  <2>2. v[1] = u[1]
    BY <2>1
  <2> QED
    BY <1>1, <2>1, <2>2 DEF AsShown
<1>2. CASE c \in {10, 13}
  <2>1. LengthShown(c) = 2 /\ c \notin 32..126
    BY <1>2 DEF LengthShown
  <2>2. v[1] = u[1] /\ v[2] = u[2]
    BY <2>1
  <2> QED
    BY <1>2, <2>1, <2>2 DEF AsShown
<1>3. CASE c \notin 32..126 /\ c \notin {10, 13}
  <2>1. LengthShown(c) = 4
    BY <1>3, Zenon DEF LengthShown
  <2>2. v[1] = u[1] /\ v[2] = u[2] /\ v[3] = u[3] /\ v[4] = u[4]
    BY <2>1
  <2> QED
    BY <1>3, <2>2 DEF AsShown
<1> QED
  BY <1>1, <1>2, <1>3

\* What is printed for a string, without a 0: its characters, one behind the other.
LEMMA PrintedText ==
  ASSUME NEW s \in Seq(Codes)
  PROVE  LET seqs == [i \in 1..Len(s) |-> Escaped(s[i])]
         IN  /\ UnityPrint(s) = FlattenSeq(seqs)
             /\ seqs \in Seq(Seq(Int)) /\ Len(seqs) = Len(s)
             /\ \A i \in 1..Len(s) : /\ s[i] \in (-128)..127 /\ s[i] # 92
                                     /\ Len(Escaped(s[i])) = LengthShown(s[i])
                                     /\ AsShown(Escaped(s[i]), s[i])
                                     /\ Escaped(s[i]) \in Seq(Int)
                                     /\ LengthShown(s[i]) \in 1..4
<1> DEFINE n == Len(s)
           seqs == [i \in 1..n |-> Escaped(s[i])]
<1>1. n \in Nat /\ DOMAIN s = 1..n /\ \A i \in 1..n : s[i] \in (-128)..127 /\ s[i] # 0 /\ s[i] # 92
  <2>1. n \in Nat /\ DOMAIN s = 1..n /\ \A i \in 1..n : s[i] \in Codes
    OBVIOUS
  <2>2. \A c \in Codes : c \in (-128)..127 /\ c # 0 /\ c # 92
    BY CodesAssumption
  <2> HIDE DEF n
  <2> QED
    BY <2>1, <2>2
<1>2. \A i \in 1..n : /\ Len(Escaped(s[i])) = LengthShown(s[i])
                      /\ AsShown(Escaped(s[i]), s[i])
                      /\ Escaped(s[i]) \in Seq(Int)
                      /\ LengthShown(s[i]) \in 1..4
  <2> TAKE i \in 1..n
  <2>1. LengthShown(s[i]) \in 1..4
    BY DEF LengthShown
  <2> QED
    BY <1>1, <2>1, EscapedForm
<1>3. Terminated(s) = s
  <2>1. {i \in DOMAIN s : s[i] = 0} = {}
    BY <1>1
  <2> QED
    BY <2>1 DEF Terminated
<1>4. UnityPrint(s) = FlattenSeq(seqs)
  BY <1>1, <1>3 DEF UnityPrint, UnityPrintChar
<1> HIDE DEF n
<1>5. seqs \in [1..n -> Seq(Int)]
  BY <1>2
<1>6. seqs \in Seq(Seq(Int)) /\ Len(seqs) = n
  <2> HIDE DEF seqs
  <2> QED
    BY <1>1, <1>5
<1> QED
  BY <1>1, <1>2, <1>4, <1>6 DEF n

\* Two strings that are printed the same are the same: the first character in which they
\* differ, or the first that only one of them has, shows.
LEMMA TextTold ==
  ASSUME NEW s \in Seq(Codes), NEW t \in Seq(Codes), Len(s) <= Len(t),
         UnityPrint(s) = UnityPrint(t)
  PROVE  s = t
<1> DEFINE m == Len(s)
           n == Len(t)
           S == [i \in 1..m |-> Escaped(s[i])]
           T == [i \in 1..n |-> Escaped(t[i])]
           Good(r, i) == /\ r[i] \in (-128)..127 /\ r[i] # 92
                         /\ Len(Escaped(r[i])) = LengthShown(r[i])
                         /\ AsShown(Escaped(r[i]), r[i])
                         /\ Escaped(r[i]) \in Seq(Int)
                         /\ LengthShown(r[i]) \in 1..4
<1>1. /\ UnityPrint(s) = FlattenSeq(S) /\ S \in Seq(Seq(Int)) /\ Len(S) = m
      /\ \A i \in 1..m : Good(s, i)
  BY PrintedText
<1>2. /\ UnityPrint(t) = FlattenSeq(T) /\ T \in Seq(Seq(Int)) /\ Len(T) = n
      /\ \A i \in 1..n : Good(t, i)
  BY PrintedText
<1>3. m \in Nat /\ n \in Nat /\ m <= n
  OBVIOUS
<1>4. (\A i \in 1..m : S[i] = Escaped(s[i])) /\ \A i \in 1..n : T[i] = Escaped(t[i])
  OBVIOUS
<1>5. (n = m /\ \A i \in 1..m : s[i] = t[i]) => s = t
  BY <1>3
<1> HIDE DEF S, T, m, n, Good
<1>6. PICK g : Grows(g, S)
  BY <1>1, GrowthExists
<1>7. PICK h : Grows(h, T)
  BY <1>2, GrowthExists
<1>8. PICK text0 \in Seq(Int) : text0 = g[m] /\ text0 = h[n]
  <2>1. g[m] \in Seq(Int)
    <3>1. m \in 0..m
      BY <1>3
    <3> QED
      BY <1>1, <1>6, <3>1 DEF Grows
  <2>2. FlattenSeq(S) = g[m] /\ FlattenSeq(T) = h[n]
    BY <1>1, <1>2, <1>6, <1>7, FlattenGrows
  <2> QED
    BY <1>1, <1>2, <2>1, <2>2
<1>9. /\ g[0] = <<>> /\ \A i \in 0..m : g[i] \in Seq(Int)
      /\ \A i \in 1..m : g[i] = g[i - 1] \o Escaped(s[i])
      /\ h[0] = <<>> /\ \A i \in 0..n : h[i] \in Seq(Int)
      /\ \A i \in 1..n : h[i] = h[i - 1] \o Escaped(t[i])
  BY <1>1, <1>2, <1>4, <1>6, <1>7 DEF Grows
<1>10. /\ \A i \in 0..m : /\ Len(g[i]) <= Len(text0)
                          /\ \A p \in 1..Len(g[i]) : text0[p] = g[i][p]
       /\ \A i \in 0..n : /\ Len(h[i]) <= Len(text0)
                          /\ \A p \in 1..Len(h[i]) : text0[p] = h[i][p]
  <2>1. \A i \in 0..m : /\ Len(g[i]) <= Len(g[m])
                        /\ \A p \in 1..Len(g[i]) : g[m][p] = g[i][p]
    BY <1>1, <1>6, GrowthKeeps
  <2>2. \A i \in 0..n : /\ Len(h[i]) <= Len(h[n])
                        /\ \A p \in 1..Len(h[i]) : h[n][p] = h[i][p]
    BY <1>2, <1>7, GrowthKeeps
  <2> QED
    BY <1>8, <2>1, <2>2
\* What follows a start of the text shows the next character.
<1>11. ASSUME NEW q \in Seq(Int), NEW c \in (-128)..127, NEW esc \in Seq(Int),
              esc = Escaped(c), AsShown(esc, c), Len(esc) = LengthShown(c),
              \A p \in 1..Len(q \o esc) : text0[p] = (q \o esc)[p]
       PROVE  AsShown([p \in 1..4 |-> text0[Len(q) + p]], c)
  <2>1. Len(q \o esc) = Len(q) + Len(esc) /\ Len(q) \in Nat /\ Len(esc) \in Nat
    OBVIOUS
  <2>2. \A p \in 1..Len(esc) : (q \o esc)[Len(q) + p] = esc[p]
    OBVIOUS
  <2>3. \A p \in 1..Len(esc) : Len(q) + p \in 1..Len(q \o esc)
    BY <2>1
  <2>4. LengthShown(c) \in 1..4
    BY DEF LengthShown
  <2>5. \A p \in 1..LengthShown(c) : [j \in 1..4 |-> text0[Len(q) + j]][p] = esc[p]
    <3> TAKE p \in 1..LengthShown(c)
    <3>1. Len(esc) = LengthShown(c)
      BY <1>11
    <3>2. p \in 1..4 /\ p \in 1..Len(esc)
      BY <2>4, <3>1
    <3>3. text0[Len(q) + p] = esc[p]
      BY <1>11, <2>2, <2>3, <3>2
    <3> QED
      BY <3>2, <3>3
  <2>6. PICK v : v = [p \in 1..4 |-> text0[Len(q) + p]]
    OBVIOUS
  <2>7. \A p \in 1..LengthShown(c) : v[p] = esc[p]
    BY <2>5, <2>6
  <2>8. AsShown(esc, c)
    BY <1>11
  <2>9. AsShown(v, c)
    BY <2>7, <2>8, ShownAtStart
  <2> QED
    BY <2>6, <2>9
<1> DEFINE bad == {i \in 0..m : ~(g[i] = h[i] /\ (i # 0 => s[i] = t[i]))}
<1>12. bad = {}
  <2>1. SUFFICES ASSUME bad # {} PROVE FALSE
    OBVIOUS
  <2>2. PICK i \in bad : \A j \in bad : i <= j
    <3>1. bad \subseteq Nat
      BY <1>3
    <3> HIDE DEF bad
    <3> QED
      BY <2>1, <3>1, MinOfNaturals
  <2>3. i \in 0..m /\ ~(g[i] = h[i] /\ (i # 0 => s[i] = t[i]))
    OBVIOUS
  <2>4. i # 0
    BY <1>9, <2>3
  <2>5. /\ i \in 1..m /\ i \in 1..n /\ i - 1 \in 0..m /\ i - 1 \in 0..n
        /\ i \in 0..n /\ i - 1 < i
    BY <1>3, <2>3, <2>4
  <2>6. i - 1 \notin bad
    <3> HIDE DEF bad
    <3> QED
      BY <1>3, <2>2, <2>3, <2>5
  <2>7. g[i - 1] = h[i - 1]
    BY <2>5, <2>6
  <2>8. PICK q \in Seq(Int) : q = g[i - 1] /\ q = h[i - 1]
    BY <1>9, <2>5, <2>7
  <2>9. Good(s, i) /\ Good(t, i)
    BY <1>1, <1>2, <2>5, Zenon
  <2>10. PICK c, d : /\ c = s[i] /\ d = t[i] /\ c # 92 /\ d # 92
                     /\ c \in (-128)..127 /\ d \in (-128)..127
    <3>1. s[i] \in (-128)..127 /\ s[i] # 92
      BY <2>9, Zenon DEF Good
    <3>2. t[i] \in (-128)..127 /\ t[i] # 92
      BY <2>9, Zenon DEF Good
    <3> QED
      BY <3>1, <3>2, Zenon
  <2>11. PICK esc \in Seq(Int), esd \in Seq(Int) :
           /\ esc = Escaped(c) /\ AsShown(esc, c) /\ Len(esc) = LengthShown(c)
           /\ esd = Escaped(d) /\ AsShown(esd, d) /\ Len(esd) = LengthShown(d)
    BY <2>9, <2>10 DEF Good
  <2>12. g[i] = q \o esc /\ h[i] = q \o esd
    BY <1>9, <2>5, <2>8, <2>10, <2>11
  <2>13. AsShown([p \in 1..4 |-> text0[Len(q) + p]], c)
    <3>1. \A p \in 1..Len(q \o esc) : text0[p] = (q \o esc)[p]
      BY <1>10, <2>3, <2>12, ZenonT(60)
    <3> QED
      BY <1>11, <2>10, <2>11, <3>1
  <2>14. AsShown([p \in 1..4 |-> text0[Len(q) + p]], d)
    <3>1. \A p \in 1..Len(q \o esd) : text0[p] = (q \o esd)[p]
      BY <1>10, <2>5, <2>12, ZenonT(60)
    <3> QED
      BY <1>11, <2>10, <2>11, <3>1
  <2>15. c = d
    BY <2>10, <2>13, <2>14, ShownTells, Zenon
  <2> QED
    BY <2>3, <2>10, <2>11, <2>12, <2>15
<1>13. n = m
  <2>1. SUFFICES ASSUME m < n PROVE FALSE
    BY <1>3
  <2>2. m + 1 \in 1..n /\ (m + 1) - 1 = m /\ m \in 0..m /\ m + 1 \in 0..n
    BY <1>3, <2>1
  <2>3. h[m] = text0
    BY <1>8, <1>12, <2>2
  <2>4. PICK esd \in Seq(Int) : esd = Escaped(t[m + 1]) /\ Len(esd) \in 1..4
    BY <1>2, <2>2 DEF Good
  <2>5. h[m + 1] = text0 \o esd
    BY <1>9, <2>2, <2>3, <2>4
  <2>6. Len(text0 \o esd) = Len(text0) + Len(esd) /\ Len(text0) \in Nat
    OBVIOUS
  <2>7. Len(text0 \o esd) <= Len(text0)
    BY <1>10, <2>2, <2>5
  <2>8. PICK j \in Nat, k \in 1..4 : j = Len(text0) /\ k = Len(esd)
    BY <2>4, <2>6
  <2>9. j + k <= j
    BY <2>6, <2>7, <2>8
  <2> QED
    BY <2>9
<1>14. \A i \in 1..m : s[i] = t[i]
  <2> TAKE i \in 1..m
  <2>1. i \in 0..m /\ i # 0 /\ i \notin bad
    BY <1>3, <1>12
  <2> QED
    BY <2>1
<1> QED
  BY <1>5, <1>13, <1>14

\* What is typed of the printing: a number of 8 bytes and two strings.
PrintTyped ==
  /\ number \in 0..(Width(8) - 1)
  /\ strings \in Seq(Codes) \X Seq(Codes)

LEMMA AnyTextTellsString == PrintTyped => TextTellsString
<1> SUFFICES ASSUME PrintTyped, UnityPrint(strings[1]) = UnityPrint(strings[2])
             PROVE  strings[1] = strings[2]
  BY DEF TextTellsString
<1>1. PICK s \in Seq(Codes), t \in Seq(Codes) : s = strings[1] /\ t = strings[2]
  BY DEF PrintTyped
<1>2. UnityPrint(s) = UnityPrint(t)
  BY <1>1
<1>3. Len(s) <= Len(t) \/ Len(t) <= Len(s)
  OBVIOUS
<1>4. s = t
  BY <1>2, <1>3, TextTold
<1> QED
  BY <1>1, <1>4

\* The printing tries numbers and strings only.
LEMMA PrintStaysTyped == PrintTyped /\ (PrintNext \/ UNCHANGED printVars) => PrintTyped'
<1> SUFFICES ASSUME PrintTyped, PrintNext \/ UNCHANGED printVars PROVE PrintTyped'
  OBVIOUS
<1>1. PICK w \in Nat \ {0} : w = Width(8) /\ w = 2 * (w \div 2)
  <2>1. 8 \in {1, 2, 4, 8}
    OBVIOUS
  <2> QED
    BY <2>1, Widths
<1>2. Width(8)' = Width(8)
  BY DEF Width, Power
<1>3. CASE NextNumber
  <2>1. UNITY_UINT(-1) = w - 1
    <3>1. -1 \in (-w)..(w - 1) /\ -1 < 0
      OBVIOUS
    <3>2. (-1) % w = w - 1
      BY <3>1, WrapOnce
    <3> QED
      BY <1>1, <3>2 DEF UNITY_UINT, Unsigned
  <2>2. 2 * number < w - 1 /\ number' \in {2 * number, 2 * number + 1} /\ number \in Nat
        /\ strings' = strings
    BY <1>1, <1>3, <2>1 DEF NextNumber, PrintTyped
  <2>3. number' \in 0..(w - 1)
    BY <2>2
  <2> QED
    BY <1>1, <1>2, <2>2, <2>3 DEF PrintTyped
<1>4. CASE NextStrings
  <2>1. Texts \subseteq Seq(Codes)
    <3>1. SUFFICES ASSUME NEW n \in 0..MaxLength, NEW s \in [1..n -> Codes]
                   PROVE  s \in Seq(Codes)
      BY DEF Texts
    <3>2. n \in Nat
      BY CodesAssumption
    <3> QED
      BY <3>2
  <2>2. strings' \in Texts \X Texts /\ number' = number
    BY <1>4 DEF NextStrings
  <2> QED
    BY <1>2, <2>1, <2>2 DEF PrintTyped
<1>5. CASE UNCHANGED printVars
  BY <1>2, <1>5 DEF printVars, PrintTyped
<1> QED
  BY <1>3, <1>4, <1>5 DEF PrintNext

--------------------------------------------------------------------------------
(***************************************************************************)
(* Powers of ten.                                                           *)
(***************************************************************************)
LEMMA TenToIs ==
  /\ TenTo(0) = 1 /\ TenTo(1) = 10
  /\ \A k \in Nat : TenTo(k) \in Nat \ {0}
  /\ \A k \in Nat : TenTo(k + 1) = 10 * TenTo(k)
<1>1. 10 \in Nat \ {0}
  OBVIOUS
<1>2. /\ TenTo(0) = 1
      /\ \A k \in Nat : TenTo(k) \in Nat \ {0}
      /\ \A k \in Nat : TenTo(k + 1) = 10 * TenTo(k)
  BY <1>1, PowerIs, PowerIsPositive DEF TenTo
<1>3. TenTo(0 + 1) = 10 * TenTo(0) /\ 0 + 1 = 1
  BY <1>2
<1> QED
  BY <1>2, <1>3

\* Powers are multiplied by adding their exponents.
LEMMA TenToAdds ==
  ASSUME NEW i \in Nat, NEW j \in Nat
  PROVE  TenTo(i + j) = TenTo(i) * TenTo(j)
<1> DEFINE bad == {k \in Nat : TenTo(i + k) # TenTo(i) * TenTo(k)}
<1>1. SUFFICES ASSUME bad # {} PROVE FALSE
  OBVIOUS
<1>2. PICK k \in bad : \A n \in bad : k <= n
  <2>1. bad \subseteq Nat
    OBVIOUS
  <2> HIDE DEF bad
  <2> QED
    BY <1>1, <2>1, MinOfNaturals
<1>3. k \in Nat /\ TenTo(i + k) # TenTo(i) * TenTo(k)
  BY <1>2
<1>4. PICK p \in Nat \ {0} : p = TenTo(i)
  BY TenToIs
<1>5. k # 0
  <2>1. i + 0 = i /\ p * 1 = p
    OBVIOUS
  <2> QED
    BY <1>3, <1>4, <2>1, TenToIs
<1>6. PICK n \in Nat : k = n + 1
  <2>1. k - 1 \in Nat /\ k = (k - 1) + 1
    BY <1>3, <1>5
  <2> QED
    BY <2>1
<1>7. TenTo(i + n) = TenTo(i) * TenTo(n)
  <2>1. n \notin bad
    <3> HIDE DEF bad
    <3>1. n < k
      BY <1>6
    <3> QED
      BY <1>2, <1>3, <3>1
  <2> QED
    BY <2>1
<1>8. TenTo(k) = 10 * TenTo(n) /\ TenTo(i + k) = 10 * TenTo(i + n)
  <2>1. i + n \in Nat /\ i + k = (i + n) + 1
    BY <1>6
  <2> QED
    BY <1>6, <2>1, TenToIs
<1>9. PICK q \in Nat : q = TenTo(n)
  BY TenToIs
<1>10. 10 * (p * q) = p * (10 * q)
  OBVIOUS
<1> QED
  BY <1>3, <1>4, <1>7, <1>8, <1>9, <1>10

\* They grow with their exponents, and faster.
LEMMA TenToGrows ==
  ASSUME NEW i \in Nat, NEW j \in Nat
  PROVE  /\ i <= j => TenTo(i) <= TenTo(j)
         /\ i < j => TenTo(i) < TenTo(j)
<1>1. CASE i > j
  BY <1>1
<1>2. CASE i <= j
  <2>1. PICK k \in Nat : j = i + k
    <3>1. j - i \in Nat /\ j = i + (j - i)
      BY <1>2
    <3> QED
      BY <3>1
  <2>2. TenTo(j) = TenTo(i) * TenTo(k)
    BY <2>1, TenToAdds
  <2>3. PICK p \in Nat \ {0}, q \in Nat \ {0} : p = TenTo(i) /\ q = TenTo(k)
    BY TenToIs
  <2>4. p <= p * q
    <3>1. \A m \in Nat : p * (m + 1) = p * m + p /\ p * m \in Nat
      OBVIOUS
    <3>2. q - 1 \in Nat /\ (q - 1) + 1 = q
      OBVIOUS
    <3>3. PICK m \in Nat : m + 1 = q
      BY <3>2
    <3> QED
      BY <3>1, <3>3
  <2>5. CASE k = 0
    BY <2>1, <2>5, <2>2, <2>3, <2>4
  <2>6. CASE k # 0
    <3>1. k - 1 \in Nat /\ (k - 1) + 1 = k
      BY <2>6
    <3>2. PICK r \in Nat \ {0} : r = TenTo(k - 1) /\ q = 10 * r
      BY <2>3, <3>1, TenToIs
    <3>3. p * q = 10 * (p * r)
      BY <3>2
    <3>4. PICK t \in Nat : t = p * r
      OBVIOUS
    <3>5. t # 0
      BY <3>4
    <3>6. p <= t
      <4>1. r - 1 \in Nat /\ (r - 1) + 1 = r
        OBVIOUS
      <4>2. PICK m \in Nat : m + 1 = r
        BY <4>1
      <4>3. p * (m + 1) = p * m + p /\ p * m \in Nat
        OBVIOUS
      <4> QED
        BY <3>4, <4>2, <4>3
    <3>7. p < p * q
      BY <3>3, <3>4, <3>5, <3>6
    <3> QED
      BY <2>2, <2>3, <3>7
  <2> QED
    BY <2>5, <2>6
<1> QED
  BY <1>1, <1>2

LEMMA TenToExceeds ==
  ASSUME NEW k \in Nat
  PROVE  k < TenTo(k)
<1> DEFINE bad == {n \in Nat : ~(n < TenTo(n))}
<1>1. SUFFICES ASSUME bad # {} PROVE FALSE
  OBVIOUS
<1>2. PICK n \in bad : \A i \in bad : n <= i
  <2>1. bad \subseteq Nat
    OBVIOUS
  <2> HIDE DEF bad
  <2> QED
    BY <1>1, <2>1, MinOfNaturals
<1>3. n \in Nat /\ ~(n < TenTo(n))
  BY <1>2
<1>4. n # 0
  BY <1>3, TenToIs
<1>5. n - 1 \in Nat /\ (n - 1) + 1 = n
  BY <1>3, <1>4
<1>6. n - 1 < TenTo(n - 1)
  <2>1. n - 1 \notin bad
    <3> HIDE DEF bad
    <3> QED
      BY <1>2, <1>3, <1>5
  <2> QED
    BY <1>5, <2>1
<1>7. PICK p \in Nat : p = TenTo(n - 1)
  BY <1>5, TenToIs
<1>8. TenTo(n) = 10 * p
  BY <1>3, <1>5, <1>7, TenToIs
<1>9. n - 1 < p /\ ~(n < 10 * p)
  BY <1>3, <1>6, <1>7, <1>8
<1> QED
  BY <1>3, <1>4, <1>9

\* The number of digits of a number.
LEMMA DigitsOfIs ==
  ASSUME NEW m \in Nat
  PROVE  /\ DigitsOf(m) \in 0..m
         /\ m < TenTo(DigitsOf(m))
         /\ m # 0 => DigitsOf(m) # 0 /\ TenTo(DigitsOf(m) - 1) <= m
<1> DEFINE above == {d \in Nat : m < TenTo(d)}
           Is(d) == m < TenTo(d) /\ (d > 0 => TenTo(d - 1) <= m)
<1>1. above \subseteq Nat /\ above # {}
  BY TenToExceeds
<1>2. PICK d \in above : \A k \in above : d <= k
  <2> HIDE DEF above
  <2> QED
    BY <1>1, MinOfNaturals
<1>3. d \in Nat /\ m < TenTo(d)
  BY <1>2
<1>4. d > 0 => TenTo(d - 1) <= m
  <2> SUFFICES ASSUME d > 0 PROVE TenTo(d - 1) <= m
    OBVIOUS
  <2>1. d - 1 \in Nat /\ d - 1 \notin above
    <3>1. d - 1 \in Nat /\ d - 1 < d
      BY <1>3
    <3> HIDE DEF above
    <3> QED
      BY <1>2, <1>3, <3>1
  <2>2. TenTo(d - 1) \in Nat
    BY <2>1, TenToIs
  <2> QED
    BY <2>1, <2>2
<1>5. d \in 0..m
  <2>1. CASE d = 0
    BY <2>1
  <2>2. CASE d > 0
    <3>1. d - 1 \in Nat /\ TenTo(d - 1) \in Nat
      BY <1>3, <2>2, TenToIs
    <3>2. d - 1 < TenTo(d - 1)
      BY <3>1, TenToExceeds
    <3> QED
      BY <1>3, <1>4, <2>2, <3>1, <3>2
  <2> QED
    BY <1>3, <2>1, <2>2
<1>6. Is(d)
  BY <1>3, <1>4
<1>7. DigitsOf(m) = CHOOSE i \in 0..m : Is(i)
  BY DEF DigitsOf
<1> HIDE DEF Is
<1>8. DigitsOf(m) \in 0..m /\ Is(DigitsOf(m))
  BY <1>5, <1>6, <1>7
<1> USE DEF Is
<1>9. m # 0 => DigitsOf(m) # 0
  BY <1>8, TenToIs
<1> QED
  BY <1>8, <1>9

LEMMA DigitsOfOnly ==
  ASSUME NEW m \in Nat, NEW d \in Nat \ {0}, TenTo(d - 1) <= m, m < TenTo(d)
  PROVE  DigitsOf(m) = d
<1>1. d - 1 \in Nat
  OBVIOUS
<1>2. PICK q \in Nat \ {0} : q = TenTo(d - 1)
  BY <1>1, TenToIs
<1>3. m # 0
  BY <1>2
<1>4. PICK k \in Nat \ {0} : k = DigitsOf(m)
  BY <1>3, DigitsOfIs
<1>5. TenTo(k - 1) <= m /\ m < TenTo(k) /\ k - 1 \in Nat
  BY <1>3, <1>4, DigitsOfIs
<1>6. ~(k < d)
  <2> SUFFICES ASSUME k <= d - 1 PROVE FALSE
    BY <1>1
  <2>1. TenTo(k) <= TenTo(d - 1)
    BY <1>1, TenToGrows
  <2>2. TenTo(k) \in Nat
    BY TenToIs
  <2> QED
    BY <1>2, <1>5, <2>1, <2>2
<1>7. ~(d < k)
  <2> SUFFICES ASSUME d <= k - 1 PROVE FALSE
    BY <1>5
  <2>1. TenTo(d) <= TenTo(k - 1)
    BY <1>5, TenToGrows
  <2>2. TenTo(d) \in Nat /\ TenTo(k - 1) \in Nat
    BY <1>5, TenToIs
  <2> QED
    BY <1>5, <2>1, <2>2
<1> QED
  BY <1>4, <1>6, <1>7

--------------------------------------------------------------------------------
(***************************************************************************)
(* Scaling a float.                                                         *)
(***************************************************************************)
LEMMA TimesGrows ==
  ASSUME NEW i \in Int, NEW j \in Int, NEW k \in Nat
  PROVE  /\ i <= j => i * k <= j * k
         /\ i < j /\ k # 0 => i * k < j * k
<1>1. CASE i > j
  BY <1>1
<1>2. CASE i <= j
  <2>1. j - i \in Nat /\ j = i + (j - i)
    BY <1>2
  <2>2. PICK n \in Nat : n = j - i /\ j = i + n
    BY <2>1
  <2>3. j * k = i * k + n * k /\ n * k \in Nat /\ i * k \in Int
    BY <2>2
  <2>4. n # 0 /\ k # 0 => n * k # 0
    OBVIOUS
  <2> QED
    BY <2>2, <2>3, <2>4
<1> QED
  BY <1>1, <1>2

LEMMA TurnsAre ==
  /\ SigDigits \in 2..7 /\ Big \in 1..10
  /\ SigDigits \in Nat /\ Big \in Nat /\ SigDigits - 1 \in Nat
  /\ \A n : n \in Turns <=> n \in Nat /\ n <= SigDigits + Big
BY FloatPrintAssumption DEF Turns

\* A loop that stops within its turns stops at the first at which its condition fails.
LEMMA LoopIs ==
  ASSUME NEW holds, NEW k \in Turns, k \notin holds
  PROVE  /\ Loop(holds) \in Nat /\ Loop(holds) <= k /\ Loop(holds) \in Turns
         /\ Loop(holds) \notin holds
         /\ \A i \in Nat : i < Loop(holds) => i \in holds
<1> DEFINE stops == Turns \ holds
<1>1. stops \subseteq Nat /\ stops # {}
  BY TurnsAre
<1>2. Loop(holds) = Min(stops)
  BY DEF Loop
<1>3. Loop(holds) \in stops /\ \A i \in stops : Loop(holds) <= i
  <2> HIDE DEF stops
  <2> QED
    BY <1>1, <1>2, MinOfNaturals
<1>4. PICK n \in Nat : n = Loop(holds) /\ n \in Turns /\ n \notin holds
  BY <1>1, <1>3
<1>5. ASSUME NEW i \in Nat, i < n PROVE i \in holds
  <2>1. i \in Turns
    BY <1>4, <1>5, TurnsAre
  <2>2. i \notin stops
    <3> HIDE DEF stops
    <3> QED
      BY <1>3, <1>4, <1>5
  <2> QED
    BY <2>1, <2>2
<1>6. n <= k
  BY <1>3, <1>4
<1> QED
  BY <1>4, <1>5, <1>6

\* The integer part of a number not below 1 has the digits in front of its point.
LEMMA FloorSize ==
  ASSUME NEW m \in Nat \ {0}, NEW p \in Int, DigitsOf(m) + p >= 1
  PROVE  /\ Floor(m, p) \in Nat
         /\ TenTo(DigitsOf(m) + p - 1) <= Floor(m, p)
         /\ Floor(m, p) < TenTo(DigitsOf(m) + p)
<1>1. PICK d \in Nat \ {0} : d = DigitsOf(m)
  BY DigitsOfIs
<1>2. d - 1 \in Nat /\ TenTo(d - 1) <= m /\ m < TenTo(d)
  BY <1>1, DigitsOfIs
<1>3. d + p - 1 \in Nat /\ d + p \in Nat
  BY <1>1
<1>4. PICK lo \in Nat, hi \in Nat, lo1 \in Nat, hi1 \in Nat :
        /\ lo = TenTo(d - 1) /\ hi = TenTo(d) /\ lo1 = TenTo(d + p - 1) /\ hi1 = TenTo(d + p)
  BY <1>2, <1>3, TenToIs
<1>5. CASE p >= 0
  <2>1. PICK t \in Nat \ {0} : t = TenTo(p)
    BY <1>5, TenToIs
  <2>2. lo1 = lo * t /\ hi1 = hi * t
    <3>1. p \in Nat /\ d + p - 1 = (d - 1) + p
      BY <1>5
    <3> QED
      BY <1>2, <1>4, <2>1, <3>1, TenToAdds
  <2>3. lo * t <= m * t /\ m * t < hi * t
    BY <1>2, <1>4, TimesGrows
  <2>4. Floor(m, p) = m * t
    BY <1>5, <2>1 DEF Floor
  <2>5. m * t \in Nat
    OBVIOUS
  <2> QED
    BY <1>1, <1>4, <2>2, <2>3, <2>4, <2>5
<1>6. CASE p < 0
  <2>1. -p \in Nat
    BY <1>6
  <2>2. PICK t \in Nat \ {0} : t = TenTo(-p)
    BY <2>1, TenToIs
  <2>3. lo = lo1 * t /\ hi = hi1 * t
    <3>1. d - 1 = (d + p - 1) + (-p) /\ d = (d + p) + (-p)
      OBVIOUS
    <3> QED
      BY <1>3, <1>4, <2>1, <2>2, <3>1, TenToAdds
  <2>4. Floor(m, p) = m \div t
    BY <1>6, <2>2 DEF Floor
  <2>5. PICK q \in Nat, r \in 0..(t - 1) : q = m \div t /\ m = q * t + r
    BY Divided
  <2>6. (q + 1) * t = q * t + t
    OBVIOUS
  <2>7. q < hi1
    <3> SUFFICES ASSUME hi1 <= q PROVE FALSE
      OBVIOUS
    <3>1. hi1 * t <= q * t /\ q * t \in Nat
      BY TimesGrows
    <3> QED
      BY <1>2, <1>4, <2>3, <2>5, <3>1
  <2>8. lo1 <= q
    <3> SUFFICES ASSUME q + 1 <= lo1 PROVE FALSE
      OBVIOUS
    <3>1. (q + 1) * t <= lo1 * t /\ q * t \in Nat
      BY TimesGrows
    <3> QED
      BY <1>2, <1>4, <2>3, <2>5, <2>6, <3>1
  <2> QED
    BY <1>1, <1>4, <2>4, <2>5, <2>7, <2>8
<1> QED
  BY <1>5, <1>6

\* Within reach of the loops.
InReach(m, p) ==
  /\ SigDigits - Big < DigitsOf(m) + p + Big * (SigDigits + Big)
  /\ DigitsOf(m) + p <= Big * (SigDigits + Big)

LEMMA ScaledUp ==
  ASSUME NEW m \in Nat \ {0}, NEW p \in Int, InReach(m, p), DigitsOf(m) + p <= 0
  PROVE  \E u \in Nat :
           /\ Scaled(Decimal(m, p)) = [n_int |-> 0, number |-> Decimal(m, p + u), exponent |-> -u]
           /\ DigitsOf(m) + p + u = SigDigits
<1>1. PICK d \in Nat : d = DigitsOf(m)
  BY DigitsOfIs
<1>2. PICK s \in 2..7, g \in 1..10 : s = SigDigits /\ g = Big
  BY TurnsAre
<1> DEFINE h1 == {n \in Turns : Less(Times10(Decimal(m, p), n * Big), SigDigits - Big)}
           k1 == Loop(h1)
           h2 == {n \in Turns : Less(Times10(Decimal(m, p), k1 * Big + n), SigDigits - 1)}
           k2 == Loop(h2)
<1>3. \A n \in Turns : n \in h1 <=> d + (p + n * g) <= s - g
  BY <1>1, <1>2 DEF Less, Times10, Decimal
<1>4. s + g \in Turns /\ s + g \notin h1
  <2>1. s + g \in Turns
    BY <1>2, TurnsAre
  <2>2. ~(d + (p + (s + g) * g) <= s - g)
    BY <1>1, <1>2 DEF InReach
  <2> HIDE DEF h1
  <2> QED
    BY <1>3, <2>1, <2>2
<1>5. PICK n \in Nat : n = k1 /\ n \in Turns /\ n \notin h1 /\ \A i \in Nat : i < n => i \in h1
  <2> HIDE DEF h1
  <2> QED
    BY <1>4, LoopIs
<1>6. \A i \in h1 : i \in Turns
  OBVIOUS
<1> HIDE DEF h1, k1
<1>7. PICK w \in Nat : w = n * g
  OBVIOUS
<1>8. d + p + w > s - g
  BY <1>3, <1>5, <1>7
<1>9. d + p + w <= s
  <2>1. CASE n = 0
    BY <1>1, <1>7, <2>1
  <2>2. CASE n # 0
    <3>1. n - 1 \in Nat /\ n - 1 < n
      BY <2>2
    <3>2. n - 1 \in h1 /\ n - 1 \in Turns
      BY <1>5, <1>6, <3>1
    <3>3. d + (p + (n - 1) * g) <= s - g
      BY <1>3, <3>2
    <3>4. (n - 1) * g = w - g
      BY <1>7
    <3> QED
      BY <3>3, <3>4
  <2> QED
    BY <2>1, <2>2
<1>10. \A i \in Turns : i \in h2 <=> d + (p + (w + i)) <= s - 1
  BY <1>1, <1>2, <1>5, <1>7 DEF Less, Times10, Decimal
<1>11. PICK i \in Nat : d + p + w + i = s /\ i \in Turns
  <2>1. s - (d + p + w) \in Nat /\ s - (d + p + w) <= s + g
    BY <1>8, <1>9
  <2>2. s - (d + p + w) \in Turns
    BY <1>2, <2>1, TurnsAre
  <2> QED
    BY <2>1, <2>2
<1>12. i \notin h2
  BY <1>10, <1>11
<1>13. PICK j \in Nat : j = k2 /\ j <= i /\ j \in Turns /\ j \notin h2
  <2> HIDE DEF h2
  <2> QED
    BY <1>11, <1>12, LoopIs
<1>14. d + p + (w + j) = s
  BY <1>10, <1>11, <1>13
<1>15. Less(Decimal(m, p), 0)
  BY <1>1 DEF Less, Decimal
<1>16. Scaled(Decimal(m, p)) = [n_int |-> 0, number |-> Times10(Decimal(m, p), k1 * Big + k2),
                                exponent |-> -(k1 * Big + k2)]
  BY <1>15 DEF Scaled, h1, k1, h2, k2
<1>17. k1 * Big + k2 = w + j
  BY <1>2, <1>5, <1>7, <1>13
<1>18. Times10(Decimal(m, p), w + j) = Decimal(m, p + (w + j))
  BY DEF Times10, Decimal
<1>19. w + j \in Nat
  OBVIOUS
<1> HIDE DEF k2
<1> QED
  BY <1>1, <1>2, <1>14, <1>16, <1>17, <1>18, <1>19

\* A power of ten may stay one digit longer.
LEMMA ScaledDown ==
  ASSUME NEW m \in Nat \ {0}, NEW p \in Int, InReach(m, p), Greater(Decimal(m, p), SigDigits)
  PROVE  \E u \in Nat :
           /\ Scaled(Decimal(m, p)) = [n_int |-> 0, number |-> Decimal(m, p + (-u)), exponent |-> u]
           /\ \/ DigitsOf(m) + p - u = SigDigits
              \/ DigitsOf(m) + p - u = SigDigits + 1 /\ m = TenTo(DigitsOf(m) - 1)
<1>1. PICK d \in Nat : d = DigitsOf(m)
  BY DigitsOfIs
<1>2. PICK s \in 2..7, g \in 1..10 : s = SigDigits /\ g = Big
  BY TurnsAre
<1>3. PICK z \in 0..1 : (z = 1) <=> m = TenTo(d - 1)
  <2>1. CASE m = TenTo(d - 1)
    BY <2>1
  <2>2. CASE m # TenTo(d - 1)
    BY <2>2
  <2> QED
    BY <2>1, <2>2
<1>4. \A v \in Int, k \in Int : Greater(Times10(Decimal(m, p), v), k) <=> d + (p + v) > k + z
  <2> TAKE v \in Int, k \in Int
  <2>1. Greater(Times10(Decimal(m, p), v), k)
          <=> ~(d + (p + v) <= k) /\ ~(m = TenTo(d - 1) /\ d + (p + v) = k + 1)
    BY <1>1 DEF Greater, Less, Times10, Decimal
  <2> QED
    BY <1>3, <2>1
<1> DEFINE h1 == {n \in Turns : Greater(Times10(Decimal(m, p), -n * Big), SigDigits - 1 + Big)}
           k1 == Loop(h1)
           h2 == {n \in Turns : Greater(Times10(Decimal(m, p), -(k1 * Big + n)), SigDigits)}
           k2 == Loop(h2)
<1>5. \A n \in Turns : n \in Nat
  BY TurnsAre
<1>6. \A n \in Turns : n \in h1 <=> d + (p + (-n * g)) > s - 1 + g + z
  BY <1>2, <1>4, <1>5
<1>7. s + g \in Turns /\ s + g \notin h1
  <2>1. s + g \in Turns
    BY <1>2, TurnsAre
  <2>2. ~(d + (p + (-(s + g) * g)) > s - 1 + g + z)
    BY <1>1, <1>2 DEF InReach
  <2> HIDE DEF h1
  <2> QED
    BY <1>6, <2>1, <2>2
<1>8. PICK n \in Nat : n = k1 /\ n \in Turns /\ n \notin h1 /\ \A i \in Nat : i < n => i \in h1
  <2> HIDE DEF h1
  <2> QED
    BY <1>7, LoopIs
<1>9. \A i \in h1 : i \in Turns
  OBVIOUS
<1> HIDE DEF h1, k1
<1>10. PICK w \in Nat : w = n * g
  OBVIOUS
<1>11. d + p - w <= s - 1 + g + z
  BY <1>6, <1>8, <1>10
<1>12. d + p - w >= s + z
  <2>1. CASE n = 0
    <3>1. Decimal(m, p) = Times10(Decimal(m, p), 0)
      BY DEF Times10, Decimal
    <3>2. d + (p + 0) > s + z
      BY <1>2, <1>4, <3>1
    <3> QED
      BY <1>10, <2>1, <3>2
  <2>2. CASE n # 0
    <3>1. n - 1 \in Nat /\ n - 1 < n
      BY <2>2
    <3>2. n - 1 \in h1 /\ n - 1 \in Turns
      BY <1>8, <1>9, <3>1
    <3>3. d + (p + (-(n - 1) * g)) > s - 1 + g + z
      BY <1>6, <3>2
    <3>4. -(n - 1) * g = g - w
      BY <1>10
    <3> QED
      BY <3>3, <3>4
  <2> QED
    BY <2>1, <2>2
<1>13. \A i \in Turns : i \in h2 <=> d + (p + (-(w + i))) > s + z
  <2>1. \A i \in Turns : -(w + i) \in Int /\ k1 * Big + i = w + i
    BY <1>2, <1>5, <1>8, <1>10
  <2> QED
    BY <1>2, <1>4, <2>1
<1>14. PICK i \in Nat : d + p - w - i = s + z /\ i \in Turns
  <2>1. d + p - w - s - z \in Nat /\ d + p - w - s - z <= s + g
    BY <1>11, <1>12
  <2>2. d + p - w - s - z \in Turns
    BY <1>2, <2>1, TurnsAre
  <2> QED
    BY <2>1, <2>2
<1>15. i \notin h2
  BY <1>13, <1>14
<1>16. PICK j \in Nat : j = k2 /\ j <= i /\ j \in Turns /\ j \notin h2
  <2> HIDE DEF h2
  <2> QED
    BY <1>14, <1>15, LoopIs
<1>17. d + p - (w + j) = s + z
  BY <1>13, <1>14, <1>16
<1>18. ~Less(Decimal(m, p), 0)
  <2>1. Greater(Decimal(m, p), SigDigits) => ~Less(Decimal(m, p), SigDigits)
    BY DEF Greater
  <2> QED
    BY <1>1, <1>2, <2>1 DEF Less, Decimal
<1>19. Scaled(Decimal(m, p)) = [n_int |-> 0, number |-> Times10(Decimal(m, p), -(k1 * Big + k2)),
                                exponent |-> k1 * Big + k2]
  BY <1>18 DEF Scaled, h1, k1, h2, k2
<1>20. k1 * Big + k2 = w + j
  BY <1>2, <1>8, <1>10, <1>16
<1>21. Times10(Decimal(m, p), -(w + j)) = Decimal(m, p + (-(w + j)))
  BY DEF Times10, Decimal
<1>22. w + j \in Nat
  OBVIOUS
<1> HIDE DEF k2
<1>23. Scaled(Decimal(m, p)) = [n_int |-> 0, number |-> Decimal(m, p + (-(w + j))), exponent |-> w + j]
  BY <1>19, <1>20, <1>21
<1>24. \/ d + p - (w + j) = s
       \/ d + p - (w + j) = s + 1 /\ m = TenTo(d - 1)
  BY <1>3, <1>17
<1> QED
  BY <1>1, <1>2, <1>22, <1>23, <1>24

LEMMA ScaledInside ==
  ASSUME NEW m \in Nat \ {0}, NEW p \in Int,
         DigitsOf(m) + p > 0, ~Greater(Decimal(m, p), SigDigits)
  PROVE  \E u \in Nat :
           /\ Scaled(Decimal(m, p)) = [n_int |-> Floor(m, p) * TenTo(u),
                                       number |-> Times10(Fraction(Decimal(m, p)), u),
                                       exponent |-> -u]
           /\ \/ DigitsOf(m) + p + u = SigDigits
              \/ DigitsOf(m) + p + u = SigDigits + 1 /\ m = TenTo(DigitsOf(m) - 1)
<1>1. PICK d \in Nat : d = DigitsOf(m)
  BY DigitsOfIs
<1>2. PICK s \in 2..7, g \in 1..10 : s = SigDigits /\ g = Big
  BY TurnsAre
<1>3. d + p <= s \/ (d + p = s + 1 /\ m = TenTo(d - 1))
  BY <1>1, <1>2 DEF Greater, Less, Decimal
<1>4. PICK q \in Nat : /\ q = Floor(m, p)
                       /\ TenTo(d + p - 1) <= q /\ q < TenTo(d + p)
  <2>1. d + p >= 1
    BY <1>1
  <2> QED
    BY <1>1, <2>1, FloorSize
<1> DEFINE h == {n \in Turns : q * TenTo(n) < min_scaled}
           k == Loop(h)
<1>5. s - 1 \in Nat /\ min_scaled = TenTo(s - 1) /\ TenTo(s - 1) \in Nat
  BY <1>2, TenToIs DEF min_scaled
<1>6. ~Less(Decimal(m, p), 0)
  BY <1>1 DEF Less, Decimal
<1>7. Scaled(Decimal(m, p)) = [n_int |-> q * TenTo(k),
                               number |-> Times10(Fraction(Decimal(m, p)), k), exponent |-> -k]
  BY <1>4, <1>6 DEF Scaled, Decimal
<1>8. ASSUME d + p = s + 1 PROVE k = 0
  <2>1. s - 1 \in Nat /\ s \in Nat /\ TenTo(s - 1) <= TenTo(s) /\ TenTo(s) \in Nat
    <3>1. s - 1 \in Nat /\ s \in Nat /\ s - 1 <= s
      BY <1>2
    <3> QED
      BY <3>1, TenToGrows, TenToIs
  <2>2. TenTo(s) <= q
    <3>1. d + p - 1 = s
      BY <1>8
    <3> QED
      BY <1>4, <3>1
  <2>3. q * TenTo(0) = q
    BY TenToIs
  <2>4. 0 \in Turns /\ 0 \notin h
    BY <1>5, <2>1, <2>2, <2>3, TurnsAre
  <2>5. k \in Nat /\ k <= 0
    <3> HIDE DEF h
    <3> QED
      BY <2>4, LoopIs
  <2> QED
    BY <2>5
<1>9. ASSUME d + p <= s PROVE k \in Nat /\ d + p + k = s
  <2>1. PICK i \in Nat : d + p + i = s /\ i \in Turns
    <3>1. s - (d + p) \in Nat /\ s - (d + p) <= s + g
      BY <1>1, <1>9
    <3>2. s - (d + p) \in Turns
      BY <1>2, <3>1, TurnsAre
    <3> QED
      BY <3>1, <3>2
  <2>2. d + p - 1 \in Nat /\ d + p \in Nat
    BY <1>1
  <2>3. PICK t \in Nat, lo \in Nat : t = TenTo(i) /\ lo = TenTo(d + p - 1)
    BY <2>2, TenToIs
  <2>4. lo * t = TenTo(s - 1)
    <3>1. s - 1 = (d + p - 1) + i
      BY <2>1
    <3> QED
      BY <2>2, <2>3, <3>1, TenToAdds
  <2>5. lo * t <= q * t
    BY <1>4, <2>3, TimesGrows
  <2>6. i \notin h
    BY <1>5, <2>3, <2>4, <2>5
  <2>7. PICK n \in Nat : n = k /\ n <= i /\ n \in Turns /\ n \notin h
    <3> HIDE DEF h
    <3> QED
      BY <2>1, <2>6, LoopIs
  <2>8. ~(n < i)
    <3> SUFFICES ASSUME n < i PROVE FALSE
      OBVIOUS
    <3>1. PICK v \in Nat \ {0}, hi \in Nat : v = TenTo(n) /\ hi = TenTo(d + p)
      BY <2>2, TenToIs
    <3>2. q * v < hi * v
      BY <1>4, <3>1, TimesGrows
    <3>3. hi * v = TenTo(d + p + n) /\ d + p + n \in Nat
      BY <2>2, <3>1, TenToAdds
    <3>4. TenTo(d + p + n) <= TenTo(s - 1) /\ TenTo(d + p + n) \in Nat
      <4>1. d + p + n <= s - 1
        BY <2>1
      <4> QED
        BY <1>5, <3>3, <4>1, TenToGrows, TenToIs
    <3>5. q * v \in Nat
      OBVIOUS
    <3>6. q * v < TenTo(s - 1)
      BY <1>5, <3>2, <3>3, <3>4, <3>5
    <3> QED
      BY <1>5, <2>7, <3>1, <3>6
  <2> QED
    BY <2>1, <2>7, <2>8
<1> HIDE DEF k
<1>10. k \in Nat
  BY <1>3, <1>8, <1>9
<1>11. d + p + k = s \/ (d + p + k = s + 1 /\ m = TenTo(d - 1))
  BY <1>3, <1>8, <1>9
<1> QED
  BY <1>1, <1>2, <1>4, <1>7, <1>10, <1>11

--------------------------------------------------------------------------------
(***************************************************************************)
(* Rounding a float.                                                        *)
(***************************************************************************)
\* n is the number m * 10^p in units of 10^u, or within half of one of it.
NearTo(n, u, m, p) ==
  /\ p >= u => n = m * TenTo(p - u)
  /\ p < u => /\ 2 * (n * TenTo(u - p) - m) <= TenTo(u - p)
              /\ 2 * (m - n * TenTo(u - p)) <= TenTo(u - p)

\* Rounding takes the nearest integer.
LEMMA RoundedIs ==
  ASSUME NEW m \in Nat, NEW p \in Int
  PROVE  Rounded(Decimal(m, p)) \in Nat /\ NearTo(Rounded(Decimal(m, p)), 0, m, p)
<1> DEFINE f == Floor(2 * m, p)
           n == (f + 1) \div 2
           isTie == p < 0 /\ 2 * (n * TenTo(-p) - m) = TenTo(-p)
<1>1. Rounded(Decimal(m, p)) = IF n % 2 = 1 /\ isTie THEN n - 1 ELSE n
  BY DEF Rounded, Decimal
<1>2. CASE p >= 0
  <2>1. PICK t \in Nat : t = TenTo(p)
    BY <1>2, TenToIs
  <2>2. f = 2 * (m * t)
    BY <1>2, <2>1 DEF Floor
  <2>3. PICK v \in Nat : v = m * t
    OBVIOUS
  <2>4. n = v
    BY <2>2, <2>3
  <2>5. p - 0 = p
    OBVIOUS
  <2> QED
    BY <1>1, <1>2, <2>1, <2>3, <2>4, <2>5 DEF NearTo
<1>3. CASE p < 0
  <2>1. -p \in Nat /\ 0 - p = -p
    BY <1>3
  <2>2. PICK t \in Nat \ {0} : t = TenTo(-p)
    BY <2>1, TenToIs
  <2>3. PICK q \in Nat, r \in 0..(t - 1) : q = f /\ 2 * m = q * t + r
    <3>1. f = (2 * m) \div t
      BY <1>3, <2>2 DEF Floor
    <3>2. 2 * m \in Nat
      OBVIOUS
    <3> QED
      BY <3>1, <3>2, Divided
  <2>4. PICK k \in Nat : k = n /\ (q + 1 = 2 * k \/ q = 2 * k)
    <3>1. (q + 1) \div 2 \in Nat /\ (q + 1 = 2 * ((q + 1) \div 2) \/ q + 1 = 2 * ((q + 1) \div 2) + 1)
      OBVIOUS
    <3> QED
      BY <2>3, <3>1
  <2>5. PICK w \in Nat : w = k * t
    OBVIOUS
  <2>6. q * t = 2 * w \/ q * t = 2 * w - t
    <3>1. (2 * k) * t = 2 * (k * t) /\ (2 * k - 1) * t = 2 * (k * t) - t
      OBVIOUS
    <3>2. q = 2 * k \/ q = 2 * k - 1
      BY <2>4
    <3> QED
      BY <2>5, <3>1, <3>2
  <2>7. PICK v \in Int : v = q * t
    BY <2>3
  <2>8. 2 * (w - m) <= t /\ 2 * (m - w) <= t
    BY <2>3, <2>6, <2>7
  <2>9. CASE k % 2 = 1 /\ 2 * (w - m) = t
    <3>1. isTie
      BY <1>3, <2>2, <2>4, <2>5, <2>9
    <3>2. Rounded(Decimal(m, p)) = k - 1
      BY <1>1, <2>4, <2>9, <3>1
    <3>3. k - 1 \in Nat /\ (k - 1) * t = w - t
      BY <2>5, <2>9
    <3>4. 2 * ((w - t) - m) <= t /\ 2 * (m - (w - t)) <= t
      BY <2>9
    <3> QED
      BY <1>3, <2>1, <2>2, <3>2, <3>3, <3>4 DEF NearTo
  <2>10. CASE ~(k % 2 = 1 /\ 2 * (w - m) = t)
    <3>1. ~(n % 2 = 1 /\ isTie)
      BY <2>2, <2>4, <2>5, <2>10
    <3>2. Rounded(Decimal(m, p)) = k
      BY <1>1, <2>4, <3>1
    <3> QED
      BY <1>3, <2>1, <2>2, <2>5, <2>8, <3>2 DEF NearTo
  <2> QED
    BY <2>9, <2>10
<1> QED
  BY <1>2, <1>3

\* Rounding the number in other units.
LEMMA RoundedInUnits ==
  ASSUME NEW m \in Nat, NEW p \in Int, NEW u \in Int
  PROVE  /\ Rounded(Decimal(m, p + (-u))) \in Nat
         /\ NearTo(Rounded(Decimal(m, p + (-u))), u, m, p)
<1>1. p + (-u) \in Int
  OBVIOUS
<1>2. Rounded(Decimal(m, p + (-u))) \in Nat /\ NearTo(Rounded(Decimal(m, p + (-u))), 0, m, p + (-u))
  BY <1>1, RoundedIs
<1>3. (p + (-u)) - 0 = p - u /\ 0 - (p + (-u)) = u - p /\ (p + (-u) >= 0 <=> p >= u)
      /\ (p + (-u) < 0 <=> p < u)
  OBVIOUS
<1> QED
  BY <1>2, <1>3 DEF NearTo

\* The same when the integer part is split off before.
LEMMA RoundedInParts ==
  ASSUME NEW m \in Nat, NEW p \in Int, NEW u \in Nat
  PROVE  LET n == Rounded(Times10(Fraction(Decimal(m, p)), u)) + Floor(m, p) * TenTo(u)
         IN  n \in Nat /\ NearTo(n, -u, m, p)
<1> DEFINE n == Rounded(Times10(Fraction(Decimal(m, p)), u)) + Floor(m, p) * TenTo(u)
<1>1. PICK t \in Nat \ {0} : t = TenTo(u)
  BY TenToIs
<1>2. -u \in Int /\ p - (-u) = p + u /\ -u - p = -(p + u)
  OBVIOUS
<1>3. CASE p >= 0
  <2>1. Times10(Fraction(Decimal(m, p)), u) = Decimal(0, 0 + u)
    BY <1>3 DEF Times10, Fraction, Decimal
  <2>2. 0 + u \in Int /\ 0 + u >= 0 /\ (0 + u) - 0 = u
    OBVIOUS
  <2>3. Rounded(Decimal(0, 0 + u)) = 0 * TenTo(u)
    BY <2>2, RoundedIs DEF NearTo
  <2>4. PICK r \in Nat : r = TenTo(p)
    BY <1>3, TenToIs
  <2>5. Floor(m, p) = m * r
    BY <1>3, <2>4 DEF Floor
  <2>6. n = m * r * t
    BY <1>1, <2>1, <2>3, <2>5
  <2>7. TenTo(p + u) = r * t
    BY <1>1, <1>3, <2>4, TenToAdds
  <2>8. m * r * t = m * (r * t) /\ m * r * t \in Nat
    OBVIOUS
  <2>9. p >= -u
    BY <1>3
  <2> HIDE DEF n
  <2>10. n \in Nat /\ n = m * TenTo(p - (-u))
    BY <1>2, <2>6, <2>7, <2>8
  <2>11. NearTo(n, -u, m, p)
    BY <2>9, <2>10 DEF NearTo
  <2> QED
    BY <2>10, <2>11 DEF n
<1>4. CASE p < 0
  <2>1. -p \in Nat
    BY <1>4
  <2>2. PICK r \in Nat \ {0} : r = TenTo(-p)
    BY <2>1, TenToIs
  <2>3. PICK q \in Nat, f \in 0..(r - 1) : q = m \div r /\ f = m % r /\ m = q * r + f
    BY Divided
  <2>4. Floor(m, p) = q
    BY <1>4, <2>2, <2>3 DEF Floor
  <2>5. Times10(Fraction(Decimal(m, p)), u) = Decimal(f, p + u)
    BY <1>4, <2>2, <2>3 DEF Times10, Fraction, Decimal
  <2>6. PICK k \in Nat : k = Rounded(Decimal(f, p + u)) /\ NearTo(k, 0, f, p + u)
    <3>1. f \in Nat /\ p + u \in Int
      OBVIOUS
    <3> QED
      BY <3>1, RoundedIs
  <2>7. n = k + q * t
    BY <1>1, <2>4, <2>5, <2>6
  <2>8. k + q * t \in Nat
    OBVIOUS
  <2>9. NearTo(k + q * t, -u, m, p)
    <3>1. CASE p + u >= 0
      <4>1. PICK v \in Nat : v = TenTo(p + u)
        BY <3>1, TenToIs
      <4>2. (p + u) - 0 = p + u
        OBVIOUS
      <4>3. k = f * v
        BY <2>6, <3>1, <4>1, <4>2 DEF NearTo
      <4>4. t = r * v
        <5>1. u = (-p) + (p + u) /\ p + u \in Nat
          BY <3>1
        <5> QED
          BY <1>1, <2>1, <2>2, <4>1, <5>1, TenToAdds
      <4>5. f * v + q * (r * v) = (q * r + f) * v
        <5>1. f \in Nat
          OBVIOUS
        <5>2. f * v + q * (r * v) = (q * r) * v + f * v /\ (q * r) * v + f * v = (q * r + f) * v
          BY <5>1
        <5> QED
          BY <5>2
      <4>6. p >= -u /\ ~(p < -u)
        BY <3>1
      <4>7. k + q * t = m * TenTo(p - (-u))
        BY <1>2, <2>3, <4>1, <4>3, <4>4, <4>5
      <4> QED
        BY <4>6, <4>7 DEF NearTo
    <3>2. CASE p + u < 0
      <4>1. PICK v \in Nat : v = TenTo(-(p + u))
        <5>1. -(p + u) \in Nat
          BY <3>2
        <5> QED
          BY <5>1, TenToIs
      <4>2. 0 - (p + u) = -(p + u)
        OBVIOUS
      <4>3. 2 * (k * v - f) <= v /\ 2 * (f - k * v) <= v
        BY <2>6, <3>2, <4>1, <4>2 DEF NearTo
      <4>4. r = t * v
        <5>1. -p = u + (-(p + u)) /\ -(p + u) \in Nat
          BY <3>2
        <5> QED
          BY <1>1, <2>1, <2>2, <4>1, <5>1, TenToAdds
      <4>5. (k + q * t) * v = k * v + q * r
        <5>1. (k + q * t) * v = k * v + q * (t * v)
          OBVIOUS
        <5> QED
          BY <4>4, <5>1
      <4>6. PICK i \in Nat, j \in Nat, l \in Nat : i = k * v /\ j = q * r /\ l = (k + q * t) * v
        OBVIOUS
      <4>7. l - m = i - f /\ m - l = f - i
        <5>1. l = i + j /\ m = j + f
          BY <2>3, <4>5, <4>6
        <5>2. f \in Nat
          OBVIOUS
        <5> QED
          BY <5>1, <5>2
      <4>8. 2 * (l - m) <= v /\ 2 * (m - l) <= v
        BY <4>3, <4>6, <4>7
      <4>9. p < -u /\ ~(p >= -u)
        BY <3>2
      <4> QED
        BY <1>2, <4>1, <4>6, <4>8, <4>9 DEF NearTo
    <3> QED
      BY <3>1, <3>2
  <2> QED
    BY <2>7, <2>8, <2>9
<1> QED
  BY <1>3, <1>4

\* A number of k digits, rounded to k digits, has k digits or is 10^k; a power of ten is
\* exact.
LEMMA NearSize ==
  ASSUME NEW m \in Nat \ {0}, NEW p \in Int, NEW u \in Int, NEW n \in Nat, NEW k \in Nat,
         NearTo(n, u, m, p)
  PROVE  /\ k # 0 /\ DigitsOf(m) + p - u = k => TenTo(k - 1) <= n /\ n <= TenTo(k)
         /\ DigitsOf(m) + p - u = k + 1 /\ m = TenTo(DigitsOf(m) - 1) => n = TenTo(k)
<1>1. PICK d \in Nat \ {0} : d = DigitsOf(m)
  BY DigitsOfIs
<1>2. d - 1 \in Nat /\ TenTo(d - 1) <= m /\ m < TenTo(d)
  BY <1>1, DigitsOfIs
<1>3. PICK lo \in Nat, hi \in Nat : lo = TenTo(d - 1) /\ hi = TenTo(d)
  BY <1>2, TenToIs
<1>4. CASE p >= u
  <2>1. p - u \in Nat
    BY <1>4
  <2>2. PICK t \in Nat : t = TenTo(p - u)
    BY <2>1, TenToIs
  <2>3. n = m * t
    BY <1>4, <2>2 DEF NearTo
  <2>4. TenTo((d - 1) + (p - u)) = lo * t /\ TenTo(d + (p - u)) = hi * t
    BY <1>2, <1>3, <2>1, <2>2, TenToAdds
  <2>5. lo * t <= m * t /\ m * t <= hi * t
    BY <1>2, <1>3, TimesGrows
  <2>6. ASSUME d + p - u = k PROVE (d - 1) + (p - u) = k - 1 /\ d + (p - u) = k
    BY <2>6
  <2>7. ASSUME d + p - u = k + 1 PROVE (d - 1) + (p - u) = k
    BY <2>7
  <2>8. d + p - u = k => TenTo(k - 1) <= n /\ n <= TenTo(k)
    BY <2>3, <2>4, <2>5, <2>6
  <2>9. d + p - u = k + 1 /\ m = lo => n = TenTo(k)
    BY <2>3, <2>4, <2>7
  <2> QED
    BY <1>1, <1>3, <2>8, <2>9
<1>5. CASE p < u
  <2>1. u - p \in Nat
    BY <1>5
  <2>2. PICK t \in Nat \ {0} : t = TenTo(u - p)
    BY <2>1, TenToIs
  <2>3. PICK v \in Nat : v = n * t
    OBVIOUS
  <2>4. 2 * (v - m) <= t /\ 2 * (m - v) <= t
    BY <1>5, <2>2, <2>3 DEF NearTo
  <2>5. ASSUME d + p - u = k, k # 0 PROVE TenTo(k - 1) <= n /\ n <= TenTo(k)
    <3>1. k - 1 \in Nat /\ d - 1 = (k - 1) + (u - p) /\ d = k + (u - p)
      BY <2>5
    <3>2. PICK lo1 \in Nat, hi1 \in Nat : lo1 = TenTo(k - 1) /\ hi1 = TenTo(k)
      BY <3>1, TenToIs
    <3>3. lo = lo1 * t /\ hi = hi1 * t
      BY <1>3, <2>1, <2>2, <3>1, <3>2, TenToAdds
    <3>4. lo1 <= n
      <4> SUFFICES ASSUME n + 1 <= lo1 PROVE FALSE
        OBVIOUS
      <4>1. (n + 1) * t <= lo1 * t /\ (n + 1) * t = n * t + t
        BY TimesGrows
      <4>2. v + t <= lo
        BY <2>3, <3>3, <4>1
      <4> QED
        BY <1>2, <1>3, <2>4, <4>2
    <3>5. n <= hi1
      <4> SUFFICES ASSUME hi1 + 1 <= n PROVE FALSE
        OBVIOUS
      <4>1. (hi1 + 1) * t <= n * t /\ (hi1 + 1) * t = hi1 * t + t
        BY TimesGrows
      <4>2. hi + t <= v
        BY <2>3, <3>3, <4>1
      <4> QED
        BY <1>2, <1>3, <2>4, <4>2
    <3> QED
      BY <3>2, <3>4, <3>5
  <2>6. ASSUME d + p - u = k + 1, m = lo PROVE n = TenTo(k)
    <3>1. d - 1 = k + (u - p)
      BY <2>6
    <3>2. PICK h \in Nat : h = TenTo(k)
      BY TenToIs
    <3>3. m = h * t
      BY <1>3, <2>1, <2>2, <2>6, <3>1, <3>2, TenToAdds
    <3>4. ~(n < h)
      <4> SUFFICES ASSUME n + 1 <= h PROVE FALSE
        OBVIOUS
      <4>1. (n + 1) * t <= h * t /\ (n + 1) * t = n * t + t
        BY TimesGrows
      <4>2. v + t <= m
        BY <2>3, <3>3, <4>1
      <4> QED
        BY <2>4, <4>2
    <3>5. ~(h < n)
      <4> SUFFICES ASSUME h + 1 <= n PROVE FALSE
        OBVIOUS
      <4>1. (h + 1) * t <= n * t /\ (h + 1) * t = h * t + t
        BY TimesGrows
      <4>2. m + t <= v
        BY <2>3, <3>3, <4>1
      <4> QED
        BY <2>4, <4>2
    <3> QED
      BY <3>2, <3>4, <3>5
  <2> QED
    BY <1>1, <1>3, <2>5, <2>6
<1> QED
  BY <1>4, <1>5

\* The scaled float, rounded.
LEMMA ScaledIs ==
  ASSUME NEW m \in Nat \ {0}, NEW p \in Int, InReach(m, p)
  PROVE  \E n \in Nat, u \in Int :
           /\ Scaled(Decimal(m, p)).exponent = u
           /\ Rounded(Scaled(Decimal(m, p)).number) + Scaled(Decimal(m, p)).n_int = n
           /\ NearTo(n, u, m, p)
           /\ \/ DigitsOf(m) + p - u = SigDigits
              \/ DigitsOf(m) + p - u = SigDigits + 1 /\ m = TenTo(DigitsOf(m) - 1)
<1> DEFINE Is(n, u) ==
      /\ Scaled(Decimal(m, p)).exponent = u
      /\ Rounded(Scaled(Decimal(m, p)).number) + Scaled(Decimal(m, p)).n_int = n
      /\ NearTo(n, u, m, p)
      /\ \/ DigitsOf(m) + p - u = SigDigits
         \/ DigitsOf(m) + p - u = SigDigits + 1 /\ m = TenTo(DigitsOf(m) - 1)
<1>1. DigitsOf(m) \in Nat
  BY DigitsOfIs
<1>2. \A n : n \in Nat => n + 0 = n
  OBVIOUS
<1>3. CASE DigitsOf(m) + p <= 0
  <2>1. PICK u \in Nat :
           /\ Scaled(Decimal(m, p)) = [n_int |-> 0, number |-> Decimal(m, p + u), exponent |-> -u]
           /\ DigitsOf(m) + p + u = SigDigits
    BY <1>3, ScaledUp
  <2>2. -u \in Int /\ p + (-(-u)) = p + u /\ DigitsOf(m) + p - (-u) = DigitsOf(m) + p + u
    BY <1>1
  <2>3. PICK n \in Nat : n = Rounded(Decimal(m, p + u)) /\ NearTo(n, -u, m, p)
    BY <2>2, RoundedInUnits
  <2>4. Is(n, -u)
    BY <1>2, <2>1, <2>2, <2>3
  <2> QED
    BY <2>2, <2>4
<1>4. CASE Greater(Decimal(m, p), SigDigits)
  <2>1. PICK u \in Nat :
           /\ Scaled(Decimal(m, p)) = [n_int |-> 0, number |-> Decimal(m, p + (-u)), exponent |-> u]
           /\ \/ DigitsOf(m) + p - u = SigDigits
              \/ DigitsOf(m) + p - u = SigDigits + 1 /\ m = TenTo(DigitsOf(m) - 1)
    BY <1>4, ScaledDown
  <2>2. u \in Int
    OBVIOUS
  <2>3. PICK n \in Nat : n = Rounded(Decimal(m, p + (-u))) /\ NearTo(n, u, m, p)
    BY <2>2, RoundedInUnits
  <2>4. Is(n, u)
    BY <1>2, <2>1, <2>3
  <2> QED
    BY <2>2, <2>4
<1>5. CASE DigitsOf(m) + p > 0 /\ ~Greater(Decimal(m, p), SigDigits)
  <2>1. PICK u \in Nat :
           /\ Scaled(Decimal(m, p)) = [n_int |-> Floor(m, p) * TenTo(u),
                                       number |-> Times10(Fraction(Decimal(m, p)), u),
                                       exponent |-> -u]
           /\ \/ DigitsOf(m) + p + u = SigDigits
              \/ DigitsOf(m) + p + u = SigDigits + 1 /\ m = TenTo(DigitsOf(m) - 1)
    BY <1>5, ScaledInside
  <2>2. -u \in Int /\ DigitsOf(m) + p - (-u) = DigitsOf(m) + p + u
    BY <1>1
  <2>3. PICK n \in Nat : /\ n = Rounded(Times10(Fraction(Decimal(m, p)), u)) + Floor(m, p) * TenTo(u)
                         /\ NearTo(n, -u, m, p)
    BY RoundedInParts
  <2>4. Is(n, -u)
    BY <2>1, <2>2, <2>3
  <2> QED
    BY <2>2, <2>4
<1> QED
  BY <1>1, <1>3, <1>4, <1>5

\* The power of ten of the last digit that counts.
UnitOf(m, p) == DigitsOf(m) + p - SigDigits

\* The integer printed has SigDigits digits and is within half a unit of the float.
LEMMA SignificantIs ==
  ASSUME NEW m \in Nat \ {0}, NEW p \in Int, InReach(m, p)
  PROVE  \E n \in Nat, c \in 0..1 :
           /\ Significant(Decimal(m, p)) = [n |-> n, exponent |-> UnitOf(m, p) + c]
           /\ min_scaled <= n /\ n < max_scaled
           /\ NearTo(n * TenTo(c), UnitOf(m, p), m, p)
<1>1. PICK n0 \in Nat, u \in Int :
           /\ Scaled(Decimal(m, p)).exponent = u
           /\ Rounded(Scaled(Decimal(m, p)).number) + Scaled(Decimal(m, p)).n_int = n0
           /\ NearTo(n0, u, m, p)
           /\ \/ DigitsOf(m) + p - u = SigDigits
              \/ DigitsOf(m) + p - u = SigDigits + 1 /\ m = TenTo(DigitsOf(m) - 1)
  BY ScaledIs
<1>2. Significant(Decimal(m, p)) = IF n0 >= max_scaled THEN [n |-> min_scaled, exponent |-> u + 1]
                                   ELSE [n |-> n0, exponent |-> u]
  BY <1>1 DEF Significant
<1>3. PICK s \in Nat \ {0} : s = SigDigits /\ s - 1 \in Nat /\ (s - 1) + 1 = s
  BY TurnsAre
<1>4. PICK lo \in Nat \ {0} : lo = min_scaled /\ lo = TenTo(s - 1)
  BY <1>3, TenToIs DEF min_scaled
<1>5. max_scaled = TenTo(s) /\ TenTo(s) = 10 * lo
  BY <1>3, <1>4, TenToIs DEF max_scaled
<1>6. TenTo(0) = 1 /\ TenTo(1) = 10 /\ lo < 10 * lo /\ n0 * 1 = n0 /\ lo * 1 = lo /\ lo * 10 = 10 * lo
  BY TenToIs
<1>7. PICK d \in Nat \ {0} : d = DigitsOf(m) /\ d - 1 \in Nat
  <2>1. DigitsOf(m) \in Nat \ {0} /\ DigitsOf(m) - 1 \in Nat
    BY DigitsOfIs
  <2> QED
    BY <2>1
<1>8. CASE d + p - u = s
  <2>1. UnitOf(m, p) = u
    BY <1>3, <1>7, <1>8 DEF UnitOf
  <2>2. lo <= n0 /\ n0 <= 10 * lo
    <3>1. TenTo(s - 1) <= n0 /\ n0 <= TenTo(s)
      BY <1>1, <1>7, <1>8, NearSize
    <3> QED
      BY <1>4, <1>5, <3>1
  <2>3. CASE n0 < 10 * lo
    <3>1. Significant(Decimal(m, p)) = [n |-> n0, exponent |-> UnitOf(m, p) + 0]
      BY <1>2, <1>5, <2>1, <2>3
    <3>2. NearTo(n0 * TenTo(0), UnitOf(m, p), m, p)
      BY <1>1, <1>6, <2>1
    <3>3. 0 \in 0..1 /\ min_scaled <= n0 /\ n0 < max_scaled
      BY <1>4, <1>5, <2>2, <2>3
    <3> QED
      BY <3>1, <3>2, <3>3
  <2>4. CASE n0 = 10 * lo
    <3>1. Significant(Decimal(m, p)) = [n |-> lo, exponent |-> UnitOf(m, p) + 1]
      BY <1>2, <1>4, <1>5, <2>1, <2>4
    <3>2. NearTo(lo * TenTo(1), UnitOf(m, p), m, p)
      BY <1>1, <1>6, <2>1, <2>4
    <3>3. 1 \in 0..1 /\ min_scaled <= lo /\ lo < max_scaled
      BY <1>4, <1>5, <1>6
    <3> QED
      BY <3>1, <3>2, <3>3
  <2> QED
    BY <2>2, <2>3, <2>4
<1>9. CASE d + p - u = s + 1 /\ m = TenTo(d - 1)
  <2>1. PICK v \in Int : v = UnitOf(m, p) /\ v = u + 1 /\ d + p - v = s
    BY <1>3, <1>7, <1>9 DEF UnitOf
  <2>2. n0 = 10 * lo
    <3>1. DigitsOf(m) + p - u = s + 1 /\ m = TenTo(DigitsOf(m) - 1) /\ s \in Nat
      BY <1>7, <1>9
    <3>2. NearTo(n0, u, m, p)
      BY <1>1
    <3>3. n0 = TenTo(s)
      BY <3>1, <3>2, NearSize
    <3> QED
      BY <1>5, <3>3
  <2>3. Significant(Decimal(m, p)) = [n |-> lo, exponent |-> UnitOf(m, p) + 0]
    BY <1>2, <1>4, <1>5, <2>1, <2>2
  <2>4. NearTo(lo, v, m, p)
    <3>1. CASE p >= v
      <4>1. p - v \in Nat /\ (d - 1) + (p - v) = s - 1
        BY <2>1, <3>1
      <4>2. TenTo(s - 1) = TenTo(d - 1) * TenTo(p - v)
        BY <1>7, <4>1, TenToAdds
      <4>3. ~(p < v)
        BY <3>1
      <4> QED
        BY <1>4, <1>9, <4>2, <4>3 DEF NearTo
    <3>2. CASE p < v
      <4>1. v - p \in Nat /\ (s - 1) + (v - p) = d - 1
        BY <2>1, <3>2
      <4>2. TenTo(d - 1) = TenTo(s - 1) * TenTo(v - p)
        BY <1>3, <4>1, TenToAdds
      <4>3. PICK t \in Nat : t = TenTo(v - p)
        BY <4>1, TenToIs
      <4>4. m = lo * t
        BY <1>4, <1>9, <4>2, <4>3
      <4>5. 2 * (lo * t - m) <= t /\ 2 * (m - lo * t) <= t
        <5>1. lo * t - m = 0 /\ m - lo * t = 0
          BY <4>4
        <5> QED
          BY <5>1
      <4>6. ~(p >= v)
        BY <3>2
      <4> QED
        BY <4>3, <4>5, <4>6 DEF NearTo
    <3> QED
      BY <3>1, <3>2
  <2>5. NearTo(lo * TenTo(0), UnitOf(m, p), m, p)
    BY <1>6, <2>1, <2>4
  <2>6. 0 \in 0..1 /\ min_scaled <= lo /\ lo < max_scaled
    BY <1>4, <1>5, <1>6
  <2> QED
    BY <2>3, <2>5, <2>6
<1> QED
  BY <1>1, <1>3, <1>7, <1>8, <1>9

--------------------------------------------------------------------------------
(***************************************************************************)
(* The digits of a float.                                                   *)
(***************************************************************************)
\* The zeros cut off are all there are, or as many as may be.
LEMMA TrimmedIs ==
  ASSUME NEW n \in Nat \ {0}, n < max_scaled, NEW decimals \in Nat
  PROVE  \E cut \in Nat, q \in Nat \ {0} :
           /\ cut = Trimmed(n, decimals) /\ cut <= decimals /\ cut <= SigDigits - 1
           /\ q = n \div TenTo(cut) /\ n = q * TenTo(cut)
           /\ cut < decimals => q % 10 # 0
<1> DEFINE h == {i \in Turns : decimals > i /\ n % TenTo(i + 1) = 0}
<1>1. PICK s \in Nat : s = SigDigits - 1 /\ s + 1 = SigDigits /\ s \in Turns
  <2>1. SigDigits - 1 \in Nat /\ (SigDigits - 1) + 1 = SigDigits /\ SigDigits - 1 \in Turns
    BY TurnsAre
  <2> QED
    BY <2>1
<1>2. s \notin h
  <2>1. PICK t \in Nat \ {0} : t = TenTo(SigDigits)
    BY TurnsAre, TenToIs
  <2>2. n < t
    BY <2>1 DEF max_scaled
  <2>3. n % t = n
    <3>1. n = (n \div t) * t + (n % t) /\ n \div t \in Nat /\ n % t \in 0..(t - 1)
      BY Divided
    <3>2. PICK i \in Nat, r \in 0..(t - 1) : i = n \div t /\ r = n % t /\ i * t + r = n
      BY <3>1
    <3>3. 0 * t + n = n /\ n \in 0..(t - 1) /\ 0 \in Nat
      BY <2>2
    <3>4. i * t + r = 0 * t + n
      BY <3>2, <3>3
    <3>5. r = n
      BY <3>3, <3>4, DividedOnce
    <3> QED
      BY <3>2, <3>5
  <2> QED
    BY <1>1, <2>1, <2>3
<1>3. PICK cut \in Nat : /\ cut = Loop(h) /\ cut <= s /\ cut \in Turns /\ cut \notin h
                         /\ \A i \in Nat : i < cut => i \in h
  <2> HIDE DEF h
  <2> QED
    BY <1>1, <1>2, LoopIs
<1>4. cut = Trimmed(n, decimals)
  BY <1>3 DEF Trimmed
<1>5. cut <= decimals
  <2>1. decimals < cut => decimals \in h
    <3> HIDE DEF h
    <3> QED
      BY <1>3
  <2> QED
    BY <2>1
<1>6. PICK t \in Nat \ {0} : t = TenTo(cut)
  BY TenToIs
<1>7. PICK q \in Nat, r \in 0..(t - 1) : q = n \div t /\ r = n % t /\ n = q * t + r
  BY Divided
<1>8. r = 0
  <2>1. CASE cut = 0
    <3>1. t = 1
      BY <1>6, <2>1, TenToIs
    <3> QED
      BY <1>7, <3>1
  <2>2. CASE cut # 0
    <3>1. cut - 1 \in Nat /\ cut - 1 < cut /\ (cut - 1) + 1 = cut
      BY <2>2
    <3>2. cut - 1 \in h
      <4> HIDE DEF h
      <4> QED
        BY <1>3, <3>1
    <3>3. n % TenTo((cut - 1) + 1) = 0
      BY <3>2
    <3> QED
      BY <1>6, <1>7, <3>1, <3>3
  <2> QED
    BY <2>1, <2>2
<1>9. n = q * t
  BY <1>7, <1>8
<1>10. q # 0
  BY <1>9
<1>11. ASSUME cut < decimals PROVE q % 10 # 0
  <2> SUFFICES ASSUME q % 10 = 0 PROVE FALSE
    OBVIOUS
  <2>1. n % TenTo(cut + 1) # 0
    BY <1>3, <1>11
  <2>2. TenTo(cut + 1) = 10 * t
    BY <1>6, TenToIs
  <2>3. PICK i \in Nat : q = 10 * i
    <3>1. q = 10 * (q \div 10) /\ q \div 10 \in Nat
      OBVIOUS
    <3> QED
      BY <3>1
  <2>4. PICK k \in Nat \ {0} : k = 10 * t
    OBVIOUS
  <2>5. n = i * k + 0
    <3>1. (10 * i) * t = i * (10 * t)
      OBVIOUS
    <3>2. n = i * k
      BY <1>9, <2>3, <2>4, <3>1
    <3>3. i * k \in Nat
      OBVIOUS
    <3> QED
      BY <3>2, <3>3
  <2>6. n \div k \in Nat /\ n % k \in 0..(k - 1) /\ n = (n \div k) * k + (n % k)
    BY Divided
  <2>7. PICK j \in Nat, l \in 0..(k - 1) : j = n \div k /\ l = n % k /\ n = j * k + l
    BY <2>6
  <2>8. j * k + l = i * k + 0 /\ 0 \in 0..(k - 1)
    BY <2>5, <2>7
  <2>9. l = 0
    BY <2>8, DividedOnce
  <2> QED
    BY <2>1, <2>2, <2>4, <2>7, <2>9
<1>12. cut <= SigDigits - 1
  BY <1>1, <1>3
<1> QED
  BY <1>4, <1>5, <1>6, <1>7, <1>9, <1>10, <1>11, <1>12

\* What digits are worth is what a left-to-right evaluation arrives at.
LEMMA IntegerIs ==
  ASSUME NEW digits \in Seq(Int), NEW v \in [0..Len(digits) -> Int],
         v[0] = 0,
         \A i \in 1..Len(digits) : v[i] = 10 * v[i - 1] + (digits[i] - 48)
  PROVE  Integer(digits) = v[Len(digits)]
<1> DEFINE n == Len(digits)
           Is(f) == f = [i \in 0..n |-> IF i = 0 THEN 0
                                        ELSE 10 * f[i - 1] + (digits[i] - 48)]
           h == CHOOSE f : Is(f)
<1>1. n \in Nat
  OBVIOUS
<1>2. Is(v)
  <2>1. \A i \in 0..n : v[i] = IF i = 0 THEN 0 ELSE 10 * v[i - 1] + (digits[i] - 48)
    BY <1>1
  <2>2. v = [i \in 0..n |-> v[i]]
    OBVIOUS
  <2> HIDE DEF n
  <2> QED
    BY <2>1, <2>2
<1>3. Is(h)
  BY <1>2, Zenon
<1>4. Integer(digits) = h[n]
  BY Zenon DEF Integer
<1> HIDE DEF h
<1>5. \A i \in 0..n : h[i] = IF i = 0 THEN 0 ELSE 10 * h[i - 1] + (digits[i] - 48)
  BY <1>3
<1> HIDE DEF n
<1> DEFINE bad == {i \in 0..n : h[i] # v[i]}
<1>6. SUFFICES ASSUME bad # {} PROVE FALSE
  BY <1>1, <1>4 DEF n
<1>7. PICK i \in bad : \A j \in bad : i <= j
  <2>1. bad \subseteq Nat
    OBVIOUS
  <2> HIDE DEF bad
  <2> QED
    BY <1>6, <2>1, MinOfNaturals
<1>8. i \in 0..n /\ h[i] # v[i]
  BY <1>7
<1>9. i # 0
  BY <1>5, <1>8
<1>10. i - 1 \in 0..n /\ i \in 1..n
  BY <1>1, <1>8, <1>9
<1>11. h[i - 1] = v[i - 1]
  <2>1. i - 1 \notin bad
    <3> HIDE DEF bad
    <3> QED
      BY <1>7, <1>10
  <2> QED
    BY <1>10, <2>1
<1>12. h[i] = 10 * h[i - 1] + (digits[i] - 48) /\ v[i] = 10 * v[i - 1] + (digits[i] - 48)
  BY <1>5, <1>8, <1>9, <1>10 DEF n
<1> QED
  BY <1>8, <1>11, <1>12

LEMMA NoDigits == Integer(<<>>) = 0
<1>1. PICK s \in Seq(Int) : s = <<>> /\ Len(s) = 0
  <2>1. <<>> \in Seq(Int) /\ Len(<<>>) = 0
    OBVIOUS
  <2> QED
    BY <2>1
<1>2. PICK v \in [0..Len(s) -> Int] : v[0] = 0
  <2>1. [i \in 0..Len(s) |-> 0] \in [0..Len(s) -> Int] /\ 0 \in 0..Len(s)
    BY <1>1
  <2> QED
    BY <2>1
<1>3. \A i \in 1..Len(s) : v[i] = 10 * v[i - 1] + (s[i] - 48)
  BY <1>1
<1>4. Integer(s) = v[Len(s)]
  BY <1>2, <1>3, IntegerIs
<1> QED
  BY <1>1, <1>2, <1>4

\* A text of decimal digits.
IsDigits(s) == s \in Seq(Int) /\ \A i \in 1..Len(s) : s[i] \in 48..57

\* The digits of a number, with zeros in front if more are asked for.
LEMMA DigitsOutIs ==
  ASSUME NEW n \in Nat, NEW k \in Nat \ {0}
  PROVE  LET ds == DigitsOut(n, k)
         IN  /\ IsDigits(ds)
             /\ Len(ds) = IF DigitsOf(n) < k THEN k ELSE DigitsOf(n)
             /\ Integer(ds) = n
             /\ ds[Len(ds)] = 48 + (n % 10)
<1> DEFINE w == IF DigitsOf(n) < k THEN k ELSE DigitsOf(n)
           ds == Digits(n, w, 10)
<1>1. DigitsOut(n, k) = ds
  BY DEF DigitsOut
<1>2. DigitsOf(n) \in Nat /\ n < TenTo(DigitsOf(n))
  BY DigitsOfIs
<1>3. w \in Nat \ {0} /\ DigitsOf(n) <= w
  BY <1>2
<1> HIDE DEF w
<1>4. 10 \in 2..16
  OBVIOUS
<1>5. ds \in Seq(Int) /\ Len(ds) = w
  BY <1>3, <1>4, DigitSteps
<1>6. PICK v \in [0..w -> Int] :
        /\ v[0] = 0 /\ v[w] = n % Power(10, w)
        /\ \A i \in 1..w : v[i] = v[i - 1] * 10 + Worth(ds[i])
  BY <1>3, <1>4, DigitSteps
<1>7. ASSUME NEW i \in 1..w
      PROVE  /\ ds[i] \in 48..57 /\ Worth(ds[i]) = ds[i] - 48
             /\ i = w => ds[i] = 48 + (n % 10)
  <2>1. w - i \in Nat /\ (i = w => w - i = 0)
    BY <1>3
  <2>2. PICK t \in Nat \ {0} : t = TenTo(w - i)
    BY <2>1, TenToIs
  <2>3. PICK c \in Nat : c = n \div t
    BY Divided
  <2>4. ds[i] = Digit(c % 10)
    BY <2>2, <2>3 DEF Digits, TenTo
  <2>5. c % 10 \in 0..9
    OBVIOUS
  <2>6. ds[i] = 48 + (c % 10)
    BY <2>4, <2>5 DEF Digit
  <2>7. i = w => c = n
    <3>1. i = w => t = 1
      BY <2>1, <2>2, TenToIs
    <3>2. n \div 1 = n
      OBVIOUS
    <3> QED
      BY <2>3, <3>1, <3>2
  <2> QED
    BY <2>5, <2>6, <2>7 DEF Worth
<1> HIDE DEF ds
<1>8. IsDigits(ds)
  BY <1>5, <1>7 DEF IsDigits
<1>9. ds[Len(ds)] = 48 + (n % 10)
  <2>1. w \in 1..w
    BY <1>3
  <2> QED
    BY <1>5, <1>7, <2>1
<1>10. Integer(ds) = v[w]
  <2>1. \A i \in 1..w : v[i] = 10 * v[i - 1] + (ds[i] - 48)
    <3> TAKE i \in 1..w
    <3>1. v[i] = v[i - 1] * 10 + (ds[i] - 48)
      BY <1>6, <1>7
    <3>2. i - 1 \in 0..w
      BY <1>3
    <3>3. PICK z \in Int : z = v[i - 1]
      BY <1>6, <3>2
    <3>4. z * 10 = 10 * z
      OBVIOUS
    <3> QED
      BY <3>1, <3>3, <3>4
  <2>2. Integer(ds) = v[Len(ds)]
    BY <1>5, <1>6, <2>1, IntegerIs
  <2> QED
    BY <1>5, <2>2
<1>11. v[w] = n
  <2>1. TenTo(DigitsOf(n)) <= TenTo(w)
    BY <1>2, <1>3, TenToGrows
  <2>2. PICK t \in Nat \ {0} : t = TenTo(w)
    BY <1>3, TenToIs
  <2>3. n < t
    <3>1. PICK u \in Nat : u = TenTo(DigitsOf(n))
      BY <1>2, TenToIs
    <3> QED
      BY <1>2, <2>1, <2>2, <3>1
  <2>4. PICK i \in Nat, r \in 0..(t - 1) : i = n \div t /\ r = n % t /\ n = i * t + r
    BY Divided
  <2>5. i * t + r = 0 * t + n /\ n \in 0..(t - 1) /\ 0 \in Nat
    BY <2>3, <2>4
  <2>6. r = n
    BY <2>5, DividedOnce
  <2> QED
    BY <1>6, <2>2, <2>4, <2>6 DEF TenTo
<1> QED
  BY <1>1, <1>5, <1>8, <1>9, <1>10, <1>11 DEF w

--------------------------------------------------------------------------------
(***************************************************************************)
(* The text of a float.                                                     *)
(***************************************************************************)
LEMMA CatIs ==
  ASSUME NEW s \in Seq(Int), NEW t \in Seq(Int)
  PROVE  /\ s \o t \in Seq(Int) /\ Len(s \o t) = Len(s) + Len(t)
         /\ \A i \in 1..Len(s) : (s \o t)[i] = s[i]
         /\ \A i \in 1..Len(t) : (s \o t)[Len(s) + i] = t[i]
<1>1. s \o t \in Seq(Int) /\ Len(s \o t) = Len(s) + Len(t)
  OBVIOUS
<1>2. \A i \in 1..Len(s) : (s \o t)[i] = s[i]
  OBVIOUS
<1>3. \A i \in 1..Len(t) : (s \o t)[Len(s) + i] = t[i]
  OBVIOUS
<1> QED
  BY <1>1, <1>2, <1>3

LEMMA PartIs ==
  ASSUME NEW s \in Seq(Int), NEW i \in Nat \ {0}, NEW n \in Nat, i + n <= Len(s) + 1
  PROVE  /\ SubSeq(s, i, i + n - 1) \in Seq(Int) /\ Len(SubSeq(s, i, i + n - 1)) = n
         /\ \A k \in 1..n : SubSeq(s, i, i + n - 1)[k] = s[i + k - 1]
<1>1. SubSeq(s, i, i + n - 1) = [k \in 1..n |-> s[i + k - 1]]
  OBVIOUS
<1>2. \A k \in 1..n : s[i + k - 1] \in Int
  OBVIOUS
<1>3. [k \in 1..n |-> s[i + k - 1]] \in Seq(Int) /\ Len([k \in 1..n |-> s[i + k - 1]]) = n
  BY <1>2
<1> QED
  BY <1>1, <1>3

LEMMA SameText ==
  ASSUME NEW s \in Seq(Int), NEW t \in Seq(Int), Len(s) = Len(t),
         \A i \in 1..Len(s) : s[i] = t[i]
  PROVE  s = t
OBVIOUS

\* Where a character stands.
LEMMA WhereIs ==
  ASSUME NEW s \in Seq(Int), NEW c \in Int, NEW k \in 1..(Len(s) + 1),
         k <= Len(s) => s[k] = c, \A i \in 1..(k - 1) : s[i] # c
  PROVE  Where(c, s) = k
<1> DEFINE at == {i \in DOMAIN s : s[i] = c}
<1>1. at \subseteq Nat /\ \A i \in at : i \in 1..Len(s) /\ s[i] = c
  OBVIOUS
<1>2. \A i \in at : k <= i
  <2> HIDE DEF at
  <2> TAKE i \in at
  <2>1. i \in 1..Len(s) /\ s[i] = c
    BY <1>1
  <2> QED
    BY <2>1
<1>3. Where(c, s) = IF at = {} THEN Len(s) + 1 ELSE Min(at)
  BY DEF Where
<1>4. CASE k = Len(s) + 1
  <2>1. at = {}
    <3> HIDE DEF at
    <3> QED
      BY <1>1, <1>2, <1>4
  <2> QED
    BY <1>3, <1>4, <2>1
<1>5. CASE k # Len(s) + 1
  <2>1. k \in 1..Len(s)
    BY <1>5
  <2>2. k \in at
    BY <2>1
  <2> HIDE DEF at
  <2>3. Min(at) \in at /\ \A i \in at : Min(at) <= i
    BY <1>1, <2>2, MinOfNaturals
  <2>4. Min(at) <= k /\ k <= Min(at) /\ Min(at) \in Nat
    BY <1>1, <1>2, <2>2, <2>3
  <2> QED
    BY <1>3, <2>2, <2>4
<1> QED
  BY <1>4, <1>5

FirstAt(c, s, k) ==
  /\ s \in Seq(Int) /\ c \in Int /\ k \in 1..(Len(s) + 1)
  /\ k <= Len(s) => s[k] = c
  /\ \A i \in 1..(k - 1) : s[i] # c

LEMMA WhereFirst ==
  ASSUME NEW c, NEW s, NEW k, FirstAt(c, s, k)
  PROVE  Where(c, s) = k
BY WhereIs DEF FirstAt

\* Digits with a point before the last b of them.
Pointed(ds, b) ==
  SubSeq(ds, 1, Len(ds) - b)
  \o (IF b > 0 THEN <<46>> \o SubSeq(ds, Len(ds) - b + 1, Len(ds)) ELSE <<>>)

LEMMA PointedIs ==
  ASSUME NEW ds, IsDigits(ds), NEW b \in 0..(Len(ds) - 1)
  PROVE  LET s == Pointed(ds, b)
             l == Len(ds)
         IN  /\ s \in Seq(Int) /\ Len(s) = IF b > 0 THEN l + 1 ELSE l
             /\ \A i \in 1..(l - b) : s[i] = ds[i]
             /\ b > 0 => s[l - b + 1] = 46
             /\ b > 0 => \A i \in 1..b : s[l - b + 1 + i] = ds[l - b + i]
<1>1. ds \in Seq(Int)
  BY DEF IsDigits
<1>2. PICK l \in Nat \ {0} : l = Len(ds)
  <2>1. Len(ds) \in Nat /\ 0 <= Len(ds) - 1
    BY <1>1
  <2> QED
    BY <2>1
<1>3. PICK n \in Nat : n = l - b
  <2>1. l - b \in Nat
    BY <1>2
  <2> QED
    BY <2>1
<1>4. PICK s1 \in Seq(Int) : /\ s1 = SubSeq(ds, 1, l - b) /\ Len(s1) = n
                             /\ \A i \in 1..n : s1[i] = ds[i]
  <2>1. 1 + n <= Len(ds) + 1 /\ 1 + n - 1 = l - b /\ 1 \in Nat \ {0}
    BY <1>2, <1>3
  <2>2. /\ SubSeq(ds, 1, l - b) \in Seq(Int) /\ Len(SubSeq(ds, 1, l - b)) = n
        /\ \A k \in 1..n : SubSeq(ds, 1, l - b)[k] = ds[1 + k - 1]
    BY <1>1, <2>1, PartIs
  <2>3. \A k \in 1..n : 1 + k - 1 = k
    OBVIOUS
  <2> QED
    BY <2>2, <2>3
<1>5. CASE b = 0
  <2>1. Pointed(ds, b) = s1 \o <<>>
    BY <1>2, <1>4, <1>5 DEF Pointed
  <2>2. s1 \o <<>> = s1
    OBVIOUS
  <2>3. n = l
    BY <1>3, <1>5
  <2>4. ~(b > 0)
    BY <1>5
  <2> QED
    BY <1>2, <1>3, <1>4, <2>1, <2>2, <2>3, <2>4
<1>6. CASE b > 0
  <2>0. b \in Nat /\ b + 1 \in Nat
    BY <1>2
  <2>1. PICK s2 \in Seq(Int) : /\ s2 = SubSeq(ds, l - b + 1, l) /\ Len(s2) = b
                               /\ \A i \in 1..b : s2[i] = ds[l - b + i]
    <3>1. PICK j \in Nat \ {0}, k \in Nat : j = l - b + 1 /\ k = b /\ j + k - 1 = l
      BY <1>3, <2>0
    <3>2. j + k <= Len(ds) + 1
      BY <1>2, <3>1
    <3>3. /\ SubSeq(ds, j, j + k - 1) \in Seq(Int) /\ Len(SubSeq(ds, j, j + k - 1)) = k
          /\ \A i \in 1..k : SubSeq(ds, j, j + k - 1)[i] = ds[j + i - 1]
      BY <1>1, <3>2, PartIs
    <3>4. \A i \in 1..k : j + i - 1 = l - b + i
      BY <1>2, <2>0, <3>1
    <3>5. \A i \in 1..k : SubSeq(ds, j, j + k - 1)[i] = ds[l - b + i]
      BY <3>3, <3>4
    <3> QED
      BY <3>1, <3>3, <3>5
  <2>2. PICK s3 \in Seq(Int) : s3 = <<46>> /\ Len(s3) = 1 /\ s3[1] = 46
    <3>1. <<46>> \in Seq(Int) /\ Len(<<46>>) = 1 /\ <<46>>[1] = 46
      OBVIOUS
    <3> QED
      BY <3>1
  <2>3. PICK s4 \in Seq(Int) : /\ s4 = s3 \o s2 /\ Len(s4) = b + 1 /\ s4[1] = 46
                               /\ \A i \in 1..b : s4[1 + i] = ds[l - b + i]
    <3>1. /\ s3 \o s2 \in Seq(Int) /\ Len(s3 \o s2) = Len(s3) + Len(s2)
          /\ \A i \in 1..Len(s3) : (s3 \o s2)[i] = s3[i]
          /\ \A i \in 1..Len(s2) : (s3 \o s2)[Len(s3) + i] = s2[i]
      BY CatIs
    <3>2. 1 + b = b + 1 /\ 1 \in 1..1
      BY <2>0
    <3>3. Len(s3 \o s2) = b + 1 /\ (s3 \o s2)[1] = 46
      BY <2>1, <2>2, <3>1, <3>2
    <3>4. \A i \in 1..b : (s3 \o s2)[1 + i] = ds[l - b + i]
      BY <2>1, <2>2, <3>1
    <3> QED
      BY <3>1, <3>3, <3>4
  <2>4. Pointed(ds, b) = s1 \o s4
    BY <1>2, <1>4, <1>6, <2>1, <2>2, <2>3 DEF Pointed
  <2>5. /\ s1 \o s4 \in Seq(Int) /\ Len(s1 \o s4) = n + (b + 1)
        /\ \A i \in 1..n : (s1 \o s4)[i] = ds[i]
        /\ \A i \in 1..(b + 1) : (s1 \o s4)[n + i] = s4[i]
    <3>1. /\ s1 \o s4 \in Seq(Int) /\ Len(s1 \o s4) = Len(s1) + Len(s4)
          /\ \A i \in 1..Len(s1) : (s1 \o s4)[i] = s1[i]
          /\ \A i \in 1..Len(s4) : (s1 \o s4)[Len(s1) + i] = s4[i]
      BY CatIs
    <3> QED
      BY <1>4, <2>3, <3>1
  <2>6. (s1 \o s4)[n + 1] = 46
    <3>1. 1 \in 1..(b + 1)
      OBVIOUS
    <3> QED
      BY <2>3, <2>5, <3>1
  <2>7. ASSUME NEW i \in 1..b PROVE (s1 \o s4)[n + 1 + i] = ds[l - b + i]
    <3>1. 1 + i \in 1..(b + 1) /\ n + (1 + i) = n + 1 + i
      OBVIOUS
    <3>2. (s1 \o s4)[n + (1 + i)] = s4[1 + i]
      BY <2>5, <3>1
    <3> QED
      BY <2>3, <3>1, <3>2
  <2>8. n + (b + 1) = l + 1
    BY <1>3
  <2>9. \A i \in 1..b : (s1 \o s4)[l - b + 1 + i] = ds[l - b + i]
    BY <1>3, <2>7
  <2>10. (s1 \o s4)[l - b + 1] = 46
    BY <1>3, <2>6
  <2> QED
    BY <1>2, <1>3, <1>6, <2>4, <2>5, <2>8, <2>9, <2>10
<1> QED
  BY <1>5, <1>6

\* Behind the digits comes an e with a sign and digits, or nothing.
IsTens(tl, sg, ts) ==
  \/ tl = <<>> /\ sg = 43 /\ ts = <<>>
  \/ tl = <<101, sg>> \o ts /\ sg \in {43, 45} /\ IsDigits(ts) /\ Len(ts) > 0

LEMMA TensAre ==
  ASSUME NEW tl, NEW sg, NEW ts, IsTens(tl, sg, ts)
  PROVE  /\ tl \in Seq(Int) /\ ts \in Seq(Int) /\ sg \in {43, 45}
         /\ \A i \in 1..Len(tl) : tl[i] # 46
         /\ \/ tl = <<>> /\ Len(tl) = 0 /\ sg = 43 /\ ts = <<>>
            \/ /\ Len(tl) = 2 + Len(ts) /\ Len(tl) > 2 /\ tl[1] = 101 /\ tl[2] = sg
               /\ \A i \in 1..Len(ts) : tl[2 + i] = ts[i]
<1>1. CASE tl = <<>> /\ sg = 43 /\ ts = <<>>
  <2>1. <<>> \in Seq(Int) /\ Len(<<>>) = 0
    OBVIOUS
  <2>2. \A i \in 1..Len(tl) : tl[i] # 46
    BY <1>1, <2>1
  <2> QED
    BY <1>1, <2>1, <2>2
<1>2. CASE tl = <<101, sg>> \o ts /\ sg \in {43, 45} /\ IsDigits(ts) /\ Len(ts) > 0
  <2>1. PICK s \in Seq(Int) : s = <<101, sg>> /\ Len(s) = 2 /\ s[1] = 101 /\ s[2] = sg
    <3>1. <<101, sg>> \in Seq(Int) /\ Len(<<101, sg>>) = 2 /\ <<101, sg>>[1] = 101
          /\ <<101, sg>>[2] = sg
      BY <1>2
    <3> QED
      BY <3>1
  <2>2. ts \in Seq(Int) /\ \A i \in 1..Len(ts) : ts[i] \in 48..57
    BY <1>2 DEF IsDigits
  <2>3. tl = s \o ts
    BY <1>2, <2>1
  <2>4. /\ s \o ts \in Seq(Int) /\ Len(s \o ts) = Len(s) + Len(ts)
        /\ \A i \in 1..Len(s) : (s \o ts)[i] = s[i]
        /\ \A i \in 1..Len(ts) : (s \o ts)[Len(s) + i] = ts[i]
    BY <2>2, CatIs
  <2>5. /\ tl \in Seq(Int) /\ Len(tl) = 2 + Len(ts) /\ Len(tl) > 2
        /\ \A i \in 1..Len(ts) : tl[2 + i] = ts[i]
    BY <1>2, <2>1, <2>2, <2>3, <2>4
  <2>6. tl[1] = 101 /\ tl[2] = sg
    <3>1. 1 \in 1..2 /\ 2 \in 1..2
      OBVIOUS
    <3> QED
      BY <2>1, <2>3, <2>4, <3>1
  <2>7. ASSUME NEW i \in 1..Len(tl) PROVE tl[i] # 46
    <3>1. CASE i = 1
      BY <2>6, <3>1
    <3>2. CASE i = 2
      BY <1>2, <2>6, <3>2
    <3>3. CASE i > 2
      <4>1. PICK k \in Nat : k = Len(ts)
        BY <2>2
      <4>2. i - 2 \in 1..k /\ 2 + (i - 2) = i
        BY <2>5, <3>3, <4>1
      <4>3. tl[2 + (i - 2)] = ts[i - 2]
        BY <2>5, <4>1, <4>2
      <4>4. tl[i] = ts[i - 2] /\ ts[i - 2] \in 48..57
        BY <2>2, <4>1, <4>2, <4>3
      <4> QED
        BY <4>4
    <3> QED
      BY <2>5, <3>1, <3>2, <3>3
  <2> QED
    BY <1>2, <2>2, <2>5, <2>6, <2>7
<1> QED
  BY <1>1, <1>2 DEF IsTens

\* Where things stand in the text of a number without sign.
LEMMA TextIs ==
  ASSUME NEW ds, IsDigits(ds), NEW b \in 0..(Len(ds) - 1), NEW tl, NEW sg, NEW ts,
         IsTens(tl, sg, ts)
  PROVE  LET s == Pointed(ds, b)
             t == s \o tl
         IN  /\ t \in Seq(Int) /\ Len(t) = Len(s) + Len(tl)
             /\ \A i \in 1..Len(s) : t[i] = s[i]
             /\ \A i \in 1..Len(tl) : t[Len(s) + i] = tl[i]
             /\ t[1] \in 48..57
             /\ Where(101, t) = Len(s) + 1
             /\ Where(46, s) = Len(ds) - b + 1
             /\ Where(46, t) = IF b > 0 THEN Len(ds) - b + 1 ELSE Len(t) + 1
             /\ SubSeq(t, 1, Len(s)) = s
<1>1. PICK l \in Nat \ {0} : l = Len(ds)
  <2>1. Len(ds) \in Nat /\ 0 <= Len(ds) - 1
    BY DEF IsDigits
  <2> QED
    BY <2>1
<1>2. b \in Nat /\ l - b \in Nat \ {0} /\ b <= l
  BY <1>1
<1>3. \A i \in 1..l : ds[i] \in 48..57
  BY <1>1 DEF IsDigits
<1>4. PICK s \in Seq(Int) :
        /\ s = Pointed(ds, b) /\ Len(s) = IF b > 0 THEN l + 1 ELSE l
        /\ \A i \in 1..(l - b) : s[i] = ds[i]
        /\ b > 0 => s[l - b + 1] = 46
        /\ b > 0 => \A i \in 1..b : s[l - b + 1 + i] = ds[l - b + i]
  BY <1>1, PointedIs
<1>5. /\ tl \in Seq(Int)
      /\ \A i \in 1..Len(tl) : tl[i] # 46
      /\ \/ tl = <<>> /\ Len(tl) = 0
         \/ Len(tl) > 2 /\ tl[1] = 101
  BY TensAre
<1>6. PICK t \in Seq(Int) :
        /\ t = s \o tl /\ Len(t) = Len(s) + Len(tl)
        /\ \A i \in 1..Len(s) : t[i] = s[i]
        /\ \A i \in 1..Len(tl) : t[Len(s) + i] = tl[i]
  <2>1. /\ s \o tl \in Seq(Int) /\ Len(s \o tl) = Len(s) + Len(tl)
        /\ \A i \in 1..Len(s) : (s \o tl)[i] = s[i]
        /\ \A i \in 1..Len(tl) : (s \o tl)[Len(s) + i] = tl[i]
    BY <1>5, CatIs
  <2> QED
    BY <2>1
<1>20. t \in Seq(Int)
  BY <1>6
<1>7. PICK k \in Nat, n \in Nat : k = Len(s) /\ n = Len(tl) /\ (k = l \/ k = l + 1) /\ Len(t) = k + n
  <2>1. Len(s) \in Nat /\ Len(tl) \in Nat
    BY <1>5
  <2> QED
    BY <1>4, <1>6, <2>1
<1>8. ASSUME NEW i \in 1..k
      PROVE  /\ s[i] # 101
             /\ i # l - b + 1 => s[i] \in 48..57
             /\ i = l - b + 1 => s[i] = 46 /\ b > 0
  <2>1. CASE i <= l - b
    <3>1. i \in 1..(l - b) /\ i \in 1..l
      BY <1>2, <2>1
    <3>2. s[i] \in 48..57
      BY <1>3, <1>4, <3>1
    <3> QED
      BY <2>1, <3>2
  <2>2. CASE i = l - b + 1
    <3>1. b > 0
      BY <1>2, <1>4, <1>7, <2>2
    <3> QED
      BY <1>4, <2>2, <3>1
  <2>3. CASE i > l - b + 1
    <3>1. b > 0 /\ i <= l + 1
      BY <1>2, <1>4, <1>7, <2>3
    <3>2. PICK j \in 1..b : i = l - b + 1 + j
      <4>1. i - (l - b + 1) \in 1..b /\ i = l - b + 1 + (i - (l - b + 1))
        BY <1>2, <2>3, <3>1
      <4> QED
        BY <4>1
    <3>3. s[i] = ds[l - b + j]
      BY <1>4, <3>1, <3>2
    <3>4. l - b + j \in 1..l
      BY <1>2
    <3>5. s[i] \in 48..57
      BY <1>3, <3>3, <3>4
    <3> QED
      BY <2>3, <3>5
  <2> QED
    BY <1>2, <2>1, <2>2, <2>3
<1>9. \A i \in 1..k : t[i] = s[i]
  BY <1>6, <1>7
<1>10. t[1] \in 48..57
  <2>1. PICK i \in 1..k : i = 1 /\ i # l - b + 1
    <3>1. 1 \in 1..k /\ 1 # l - b + 1
      BY <1>1, <1>2, <1>7
    <3> QED
      BY <3>1
  <2>2. s[i] \in 48..57 /\ t[i] = s[i]
    BY <1>8, <1>9, <2>1
  <2> QED
    BY <2>1, <2>2
<1>11. Where(101, t) = k + 1
  <2>1. PICK j \in Nat \ {0} : j = k + 1 /\ j \in 1..(Len(t) + 1)
    <3>1. k + 1 \in Nat \ {0} /\ k + 1 \in 1..(Len(t) + 1)
      BY <1>7
    <3> QED
      BY <3>1
  <2>2. j <= Len(t) => t[j] = 101
    <3>1. k + 1 <= Len(t) => n > 0
      BY <1>7
    <3>2. n > 0 => tl[1] = 101 /\ 1 \in 1..n
      BY <1>5, <1>7
    <3>3. n > 0 => t[k + 1] = tl[1]
      BY <1>6, <1>7, <3>2
    <3> QED
      BY <2>1, <3>1, <3>2, <3>3
  <2>3. \A i \in 1..(j - 1) : t[i] # 101
    <3> TAKE i \in 1..(j - 1)
    <3>1. i \in 1..k
      BY <2>1
    <3>2. s[i] # 101 /\ t[i] = s[i]
      BY <1>8, <1>9, <3>1
    <3> QED
      BY <3>2
  <2>4. FirstAt(101, t, j)
    BY <1>20, <2>1, <2>2, <2>3 DEF FirstAt
  <2>5. Where(101, t) = j
    BY <2>4, WhereFirst
  <2> QED
    BY <2>1, <2>5
<1>12. Where(46, s) = l - b + 1
  <2>1. PICK j \in Nat \ {0} : j = l - b + 1 /\ j <= k + 1 /\ j \in 1..(Len(s) + 1)
    <3>1. l - b + 1 \in Nat \ {0} /\ l - b + 1 <= k + 1
      BY <1>2, <1>4, <1>7
    <3> QED
      BY <1>7, <3>1
  <2>2. j <= Len(s) => s[j] = 46
    <3>1. j <= Len(s) => j \in 1..k
      BY <1>7
    <3> QED
      BY <1>8, <2>1, <3>1
  <2>3. \A i \in 1..(j - 1) : s[i] # 46
    <3> TAKE i \in 1..(j - 1)
    <3>1. i \in 1..k /\ i # l - b + 1
      BY <2>1
    <3>2. s[i] \in 48..57
      BY <1>8, <3>1
    <3> QED
      BY <3>2
  <2>4. Where(46, s) = j
    <3>1. FirstAt(46, s, j)
      BY <1>4, <2>1, <2>2, <2>3 DEF FirstAt
    <3> QED
      BY <3>1, WhereFirst
  <2> QED
    BY <2>1, <2>4
<1>13. Where(46, t) = IF b > 0 THEN l - b + 1 ELSE Len(t) + 1
  <2>1. CASE b > 0
    <3>1. PICK j \in Nat \ {0} : j = l - b + 1 /\ j \in 1..k /\ j \in 1..(Len(t) + 1)
      <4>1. l - b + 1 \in 1..k /\ l - b + 1 \in Nat \ {0}
        BY <1>2, <1>4, <1>7, <2>1
      <4> QED
        BY <1>7, <4>1
    <3>2. j <= Len(t) => t[j] = 46
      BY <1>8, <1>9, <3>1
    <3>3. \A i \in 1..(j - 1) : t[i] # 46
      <4> TAKE i \in 1..(j - 1)
      <4>1. i \in 1..k /\ i # l - b + 1
        BY <3>1
      <4>2. t[i] \in 48..57
        BY <1>8, <1>9, <4>1
      <4> QED
        BY <4>2
    <3>4. Where(46, t) = j
      <4>1. FirstAt(46, t, j)
        BY <1>20, <3>1, <3>2, <3>3 DEF FirstAt
      <4> QED
        BY <4>1, WhereFirst
    <3> QED
      BY <2>1, <3>1, <3>4
  <2>2. CASE b = 0
    <3>1. PICK j \in Nat \ {0} : j = Len(t) + 1 /\ j = k + n + 1 /\ j \in 1..(Len(t) + 1)
      <4>1. Len(t) + 1 \in Nat \ {0} /\ Len(t) + 1 \in 1..(Len(t) + 1) /\ Len(t) + 1 = k + n + 1
        BY <1>7
      <4> QED
        BY <4>1
    <3>2. ~(j <= Len(t))
      BY <3>1
    <3>3. \A i \in 1..(j - 1) : t[i] # 46
      <4> TAKE i \in 1..(j - 1)
      <4>1. CASE i <= k
        <5>1. i \in 1..k /\ i # l - b + 1
          BY <1>4, <1>7, <2>2, <4>1
        <5>2. t[i] \in 48..57
          BY <1>8, <1>9, <5>1
        <5> QED
          BY <5>2
      <4>2. CASE i > k
        <5>1. i - k \in 1..n /\ k + (i - k) = i
          BY <3>1, <4>2
        <5>2. t[k + (i - k)] = tl[i - k]
          BY <1>6, <1>7, <5>1
        <5>3. tl[i - k] # 46
          BY <1>5, <1>7, <5>1
        <5> QED
          BY <5>1, <5>2, <5>3
      <4> QED
        BY <1>7, <4>1, <4>2
    <3>4. Where(46, t) = j
      <4>1. FirstAt(46, t, j)
        BY <1>20, <3>1, <3>2, <3>3 DEF FirstAt
      <4> QED
        BY <4>1, WhereFirst
    <3>5. ~(b > 0)
      BY <2>2
    <3> QED
      BY <3>1, <3>4, <3>5
  <2> QED
    BY <1>2, <2>1, <2>2
<1>14. SubSeq(t, 1, k) = s
  <2>1. 1 + k <= Len(t) + 1 /\ 1 + k - 1 = k /\ 1 \in Nat \ {0}
    BY <1>7
  <2>2. /\ SubSeq(t, 1, 1 + k - 1) \in Seq(Int) /\ Len(SubSeq(t, 1, 1 + k - 1)) = k
        /\ \A i \in 1..k : SubSeq(t, 1, 1 + k - 1)[i] = t[1 + i - 1]
    BY <2>1, PartIs
  <2>3. \A i \in 1..k : 1 + i - 1 = i
    OBVIOUS
  <2>4. PICK v \in Seq(Int) : v = SubSeq(t, 1, k) /\ Len(v) = k /\ \A i \in 1..k : v[i] = t[i]
    BY <2>1, <2>2, <2>3
  <2>5. v = s
    BY <1>7, <1>9, <2>4, SameText
  <2> QED
    BY <2>4, <2>5
<1> QED
  BY <1>1, <1>4, <1>6, <1>7, <1>10, <1>11, <1>12, <1>13, <1>14

LEMMA NoPart ==
  ASSUME NEW s \in Seq(Int), NEW i \in Nat \ {0}, NEW j \in Nat, i > j
  PROVE  SubSeq(s, i, j) = <<>>
OBVIOUS

LEMMA SignIs ==
  ASSUME NEW t \in Seq(Int), Len(t) > 0, t[1] \in 48..57, NEW neg \in BOOLEAN
  PROVE  LET s == (IF neg THEN <<45>> ELSE <<>>) \o t
         IN  /\ (IF neg THEN Tail(s) ELSE s) = t
             /\ neg <=> s[1] = 45
<1>1. CASE neg
  <2>1. PICK u \in Seq(Int) : u = <<45>> /\ Len(u) = 1 /\ u[1] = 45
    <3>1. <<45>> \in Seq(Int) /\ Len(<<45>>) = 1 /\ <<45>>[1] = 45
      OBVIOUS
    <3> QED
      BY <3>1
  <2>2. /\ u \o t \in Seq(Int) /\ Len(u \o t) = Len(u) + Len(t)
        /\ \A i \in 1..Len(u) : (u \o t)[i] = u[i]
        /\ \A i \in 1..Len(t) : (u \o t)[Len(u) + i] = t[i]
    BY CatIs
  <2>3. (u \o t)[1] = 45
    <3>1. 1 \in 1..1
      OBVIOUS
    <3> QED
      BY <2>1, <2>2, <3>1
  <2>4. PICK w \in Seq(Int) : w = u \o t /\ Len(w) = 1 + Len(t)
                              /\ \A i \in 1..Len(t) : w[1 + i] = t[i]
    BY <2>1, <2>2
  <2>5. PICK v \in Seq(Int) : v = Tail(w) /\ Len(v) = Len(t) /\ \A i \in 1..Len(t) : v[i] = w[i + 1]
    <3>1. w # <<>>
      BY <2>4
    <3>2. Tail(w) \in Seq(Int) /\ Len(Tail(w)) = Len(w) - 1
          /\ \A i \in 1..(Len(w) - 1) : Tail(w)[i] = w[i + 1]
      BY <3>1
    <3>3. Len(w) - 1 = Len(t)
      BY <2>4
    <3> QED
      BY <3>2, <3>3
  <2>6. \A i \in 1..Len(v) : v[i] = t[i]
    <3> TAKE i \in 1..Len(v)
    <3>1. i \in 1..Len(t) /\ i + 1 = 1 + i
      BY <2>5
    <3> QED
      BY <2>4, <2>5, <3>1
  <2>7. v = t
    BY <2>5, <2>6, SameText
  <2>8. (IF neg THEN <<45>> ELSE <<>>) \o t = w
    BY <1>1, <2>1, <2>4
  <2> QED
    BY <1>1, <2>3, <2>4, <2>5, <2>7, <2>8
<1>2. CASE ~neg
  <2>1. <<>> \o t = t
    OBVIOUS
  <2>2. (IF neg THEN <<45>> ELSE <<>>) \o t = t
    BY <1>2, <2>1
  <2>3. t[1] # 45
    OBVIOUS
  <2> QED
    BY <1>2, <2>2, <2>3
<1> QED
  BY <1>1, <1>2

\* What is written is read.
LEMMA ReadIs ==
  ASSUME NEW ds, IsDigits(ds), NEW b \in 0..(Len(ds) - 1), NEW tl, NEW sg, NEW ts,
         IsTens(tl, sg, ts), NEW neg \in BOOLEAN
  PROVE  Read((IF neg THEN <<45>> ELSE <<>>) \o (Pointed(ds, b) \o tl))
           = Decimal(Integer(ds), (IF sg = 45 THEN -1 ELSE 1) * Integer(ts) - b)
<1>1. PICK l \in Nat \ {0} : l = Len(ds)
  <2>1. Len(ds) \in Nat /\ 0 <= Len(ds) - 1
    BY DEF IsDigits
  <2> QED
    BY <2>1
<1>2. b \in Nat /\ l - b \in Nat \ {0} /\ b <= l /\ ds \in Seq(Int)
  BY <1>1 DEF IsDigits
<1>3. PICK s \in Seq(Int) :
        /\ s = Pointed(ds, b) /\ Len(s) = IF b > 0 THEN l + 1 ELSE l
        /\ \A i \in 1..(l - b) : s[i] = ds[i]
        /\ b > 0 => \A i \in 1..b : s[l - b + 1 + i] = ds[l - b + i]
  BY <1>1, PointedIs
<1>4. PICK t \in Seq(Int) :
        /\ t = Pointed(ds, b) \o tl
        /\ Len(t) = Len(s) + Len(tl)
        /\ \A i \in 1..Len(tl) : t[Len(s) + i] = tl[i]
        /\ t[1] \in 48..57
        /\ Where(101, t) = Len(s) + 1
        /\ Where(46, s) = l - b + 1
        /\ SubSeq(t, 1, Len(s)) = s
  <2>1. LET v == Pointed(ds, b)
            u == v \o tl
        IN  /\ u \in Seq(Int) /\ Len(u) = Len(v) + Len(tl)
            /\ \A i \in 1..Len(v) : u[i] = v[i]
            /\ \A i \in 1..Len(tl) : u[Len(v) + i] = tl[i]
            /\ u[1] \in 48..57
            /\ Where(101, u) = Len(v) + 1
            /\ Where(46, v) = Len(ds) - b + 1
            /\ Where(46, u) = IF b > 0 THEN Len(ds) - b + 1 ELSE Len(u) + 1
            /\ SubSeq(u, 1, Len(v)) = v
    BY TextIs
  <2>2. PICK u : u = Pointed(ds, b) \o tl
    OBVIOUS
  <2>3. /\ u \in Seq(Int) /\ Len(u) = Len(s) + Len(tl)
        /\ \A i \in 1..Len(tl) : u[Len(s) + i] = tl[i]
        /\ u[1] \in 48..57
        /\ Where(101, u) = Len(s) + 1
        /\ Where(46, s) = l - b + 1
        /\ SubSeq(u, 1, Len(s)) = s
    BY <1>1, <1>3, <2>1, <2>2, Zenon
  <2> QED
    BY <2>2, <2>3
<1>40. /\ t \in Seq(Int) /\ t[1] \in 48..57
       /\ Where(101, t) = Len(s) + 1 /\ SubSeq(t, 1, Len(s)) = s
  BY <1>4, Zenon
<1>41. \A i \in 1..Len(tl) : t[Len(s) + i] = tl[i]
  BY <1>4, Zenon
<1>42. t \in Seq(Int)
  BY <1>40
<1>5. /\ tl \in Seq(Int) /\ ts \in Seq(Int) /\ sg \in {43, 45}
      /\ \/ tl = <<>> /\ Len(tl) = 0 /\ sg = 43 /\ ts = <<>>
         \/ /\ Len(tl) = 2 + Len(ts) /\ Len(tl) > 2 /\ tl[1] = 101 /\ tl[2] = sg
            /\ \A i \in 1..Len(ts) : tl[2 + i] = ts[i]
  BY TensAre
<1>6. PICK k \in Nat \ {0}, n \in Nat : k = Len(s) /\ n = Len(tl) /\ (k = l \/ k = l + 1)
                                        /\ Len(t) = k + n
  <2>1. Len(s) \in Nat \ {0} /\ Len(tl) \in Nat
    BY <1>3, <1>5
  <2> QED
    BY <1>3, <1>4, <2>1
<1>7. PICK w : w = (IF neg THEN <<45>> ELSE <<>>) \o t
  OBVIOUS
<1>8. (IF w[1] = 45 THEN Tail(w) ELSE w) = t
  <2>1. t \in Seq(Int) /\ t[1] \in 48..57
    BY <1>40
  <2>0. Len(t) > 0
    BY <1>6
  <2>2. /\ (IF neg THEN Tail(w) ELSE w) = t
        /\ neg <=> w[1] = 45
    BY <1>7, <2>0, <2>1, SignIs
  <2> QED
    BY <2>2, Zenon
<1>9. Where(101, t) = k + 1 /\ (k + 1) - 1 = k /\ (k + 1) + 2 = k + 3 /\ (k + 1) + 1 = k + 2
  <2>1. Where(101, t) = k + 1
    BY <1>6, <1>40
  <2>2. (k + 1) - 1 = k /\ (k + 1) + 2 = k + 3 /\ (k + 1) + 1 = k + 2
    OBVIOUS
  <2> QED
    BY <2>1, <2>2
<1>10. SubSeq(t, 1, k) = s
  BY <1>6, <1>40
<1>11. PICK p \in Nat \ {0} : p = l - b + 1 /\ p = Where(46, s) /\ p - 1 = l - b
  <2>1. l - b + 1 \in Nat \ {0} /\ (l - b + 1) - 1 = l - b
    BY <1>2
  <2> QED
    BY <1>4, <2>1
<1>12. PICK behind \in Seq(Int) : /\ behind = SubSeq(s, p + 1, Len(s)) /\ Len(behind) = b
                                  /\ \A i \in 1..b : behind[i] = ds[l - b + i]
  <2>1. CASE b = 0
    <3>1. p + 1 \in Nat \ {0} /\ k \in Nat /\ p + 1 > k
      BY <1>3, <1>6, <1>11, <2>1
    <3>2. SubSeq(s, p + 1, k) = <<>>
      BY <1>3, <3>1, NoPart
    <3>3. <<>> \in Seq(Int) /\ Len(<<>>) = 0 /\ 1..b = {}
      BY <2>1
    <3> QED
      BY <1>6, <2>1, <3>2, <3>3
  <2>2. CASE b > 0
    <3>1. PICK j \in Nat \ {0}, d \in Nat : j = p + 1 /\ d = b /\ j + d - 1 = Len(s)
                                            /\ j + d <= Len(s) + 1
      <4>1. p + 1 \in Nat \ {0} /\ p + 1 + b - 1 = l + 1 /\ p + 1 + b <= l + 1 + 1
        BY <1>2, <1>11
      <4>2. Len(s) = l + 1
        BY <1>3, <2>2
      <4> QED
        BY <1>2, <4>1, <4>2
    <3>2. /\ SubSeq(s, j, j + d - 1) \in Seq(Int) /\ Len(SubSeq(s, j, j + d - 1)) = d
          /\ \A i \in 1..d : SubSeq(s, j, j + d - 1)[i] = s[j + i - 1]
      BY <1>3, <3>1, PartIs
    <3>3. \A i \in 1..b : j + i - 1 = l - b + 1 + i
      <4> TAKE i \in 1..b
      <4>1. j = p + 1 /\ p = l - b + 1
        BY <1>11, <3>1
      <4>2. b \in Nat /\ l \in Nat
        BY <1>1, <1>2
      <4>3. i \in Nat
        BY <4>2
      <4> QED
        BY <4>1, <4>2, <4>3
    <3>4. \A i \in 1..b : s[l - b + 1 + i] = ds[l - b + i]
      BY <1>3, <2>2
    <3>5. \A i \in 1..b : SubSeq(s, j, j + d - 1)[i] = ds[l - b + i]
      BY <3>1, <3>2, <3>3, <3>4
    <3>6. SubSeq(s, j, j + d - 1) = SubSeq(s, p + 1, Len(s))
      BY <3>1
    <3>7. SubSeq(s, p + 1, Len(s)) \in Seq(Int) /\ Len(SubSeq(s, p + 1, Len(s))) = b
          /\ \A i \in 1..b : SubSeq(s, p + 1, Len(s))[i] = ds[l - b + i]
      BY <3>1, <3>2, <3>5, <3>6
    <3> QED
      BY <3>7
  <2>3. b = 0 \/ b > 0
    BY <1>2
  <2> QED
    BY <2>1, <2>2, <2>3, Zenon
<1>13. PICK front \in Seq(Int) : /\ front = SubSeq(s, 1, p - 1) /\ Len(front) = l - b
                                 /\ \A i \in 1..(l - b) : front[i] = ds[i]
  <2>1. PICK d \in Nat : d = l - b /\ 1 + d - 1 = p - 1 /\ 1 + d <= Len(s) + 1 /\ 1 \in Nat \ {0}
    BY <1>2, <1>3, <1>6, <1>11
  <2>2. /\ SubSeq(s, 1, 1 + d - 1) \in Seq(Int) /\ Len(SubSeq(s, 1, 1 + d - 1)) = d
        /\ \A i \in 1..d : SubSeq(s, 1, 1 + d - 1)[i] = s[1 + i - 1]
    BY <2>1, PartIs
  <2>3. \A i \in 1..d : 1 + i - 1 = i
    OBVIOUS
  <2>4. SubSeq(s, 1, 1 + d - 1) = SubSeq(s, 1, p - 1)
    BY <2>1
  <2>5. \A i \in 1..d : SubSeq(s, 1, p - 1)[i] = ds[i]
    BY <1>3, <2>1, <2>2, <2>3, <2>4
  <2>6. SubSeq(s, 1, p - 1) \in Seq(Int) /\ Len(SubSeq(s, 1, p - 1)) = l - b
        /\ \A i \in 1..(l - b) : SubSeq(s, 1, p - 1)[i] = ds[i]
    BY <2>1, <2>2, <2>4, <2>5
  <2> QED
    BY <2>6
<1>14. front \o behind = ds
  <2>1. PICK u \in Seq(Int) :
          /\ u = front \o behind /\ Len(u) = Len(front) + Len(behind)
          /\ \A i \in 1..Len(front) : u[i] = front[i]
          /\ \A i \in 1..Len(behind) : u[Len(front) + i] = behind[i]
    <3>1. /\ front \o behind \in Seq(Int) /\ Len(front \o behind) = Len(front) + Len(behind)
          /\ \A i \in 1..Len(front) : (front \o behind)[i] = front[i]
          /\ \A i \in 1..Len(behind) : (front \o behind)[Len(front) + i] = behind[i]
      BY CatIs
    <3> QED
      BY <3>1
  <2>2. Len(u) = l
    <3>1. Len(u) = (l - b) + b
      BY <1>12, <1>13, <2>1
    <3>2. (l - b) + b = l
      BY <1>2
    <3> QED
      BY <3>1, <3>2
  <2>3. ASSUME NEW i \in 1..l PROVE u[i] = ds[i]
    <3>1. CASE i <= l - b
      <4>1. i \in 1..(l - b)
        BY <1>2, <3>1
      <4> QED
        BY <1>13, <2>1, <4>1
    <3>2. CASE i > l - b
      <4>1. PICK j \in 1..b : i = l - b + j
        <5>1. i - (l - b) \in 1..b /\ i = l - b + (i - (l - b))
          BY <1>1, <1>2, <3>2
        <5> QED
          BY <5>1
      <4>2. u[Len(front) + j] = behind[j]
        BY <1>12, <2>1, <4>1
      <4> QED
        BY <1>12, <1>13, <4>1, <4>2
    <3> QED
      BY <1>2, <3>1, <3>2
  <2>4. u = ds
    BY <1>1, <1>2, <2>2, <2>3, SameText
  <2> QED
    BY <2>1, <2>4
<1>15. SubSeq(t, k + 3, Len(t)) = ts
  <2>1. CASE tl = <<>> /\ Len(tl) = 0 /\ ts = <<>>
    <3>1. k + 3 \in Nat \ {0} /\ k + n \in Nat /\ k + 3 > k + n
      BY <1>6, <2>1
    <3>2. SubSeq(t, k + 3, k + n) = <<>>
      BY <1>4, <3>1, NoPart
    <3> QED
      BY <1>6, <2>1, <3>2
  <2>2. CASE /\ Len(tl) = 2 + Len(ts) /\ Len(tl) > 2
             /\ \A i \in 1..Len(ts) : tl[2 + i] = ts[i]
    <3>1. PICK j \in Nat \ {0}, d \in Nat : j = k + 3 /\ d = Len(ts) /\ j + d - 1 = Len(t)
                                            /\ j + d <= Len(t) + 1
      <4>1. k + 3 \in Nat \ {0} /\ Len(ts) \in Nat
        BY <1>5, <1>6
      <4>2. k + 3 + Len(ts) - 1 = k + n /\ k + 3 + Len(ts) <= k + n + 1
        BY <1>6, <2>2, <4>1
      <4> QED
        BY <1>6, <4>1, <4>2
    <3>2. /\ SubSeq(t, j, j + d - 1) \in Seq(Int) /\ Len(SubSeq(t, j, j + d - 1)) = d
          /\ \A i \in 1..d : SubSeq(t, j, j + d - 1)[i] = t[j + i - 1]
      BY <1>42, <3>1, PartIs
    <3>3. PICK u \in Seq(Int) : u = SubSeq(t, k + 3, Len(t)) /\ Len(u) = d
                                /\ \A i \in 1..d : u[i] = t[j + i - 1]
      BY <3>1, <3>2
    <3>4. ASSUME NEW i \in 1..Len(u) PROVE u[i] = ts[i]
      <4>0. d = Len(u) /\ n = 2 + d /\ j = k + 3
        BY <1>6, <2>2, <3>1, <3>3
      <4>1. i \in 1..d /\ 2 + i \in 1..n /\ j + i - 1 = k + (2 + i)
        BY <4>0
      <4>2. t[k + (2 + i)] = tl[2 + i]
        BY <1>6, <1>41, <4>1
      <4>3. tl[2 + i] = ts[i]
        BY <2>2, <3>1, <4>1
      <4> QED
        BY <3>3, <4>1, <4>2, <4>3
    <3>5. u = ts
      <4>1. ts \in Seq(Int) /\ u \in Seq(Int) /\ Len(u) = Len(ts) /\ \A i \in 1..Len(u) : u[i] = ts[i]
        BY <1>5, <3>1, <3>3, <3>4
      <4> QED
        BY <4>1, SameText
    <3> QED
      BY <3>3, <3>5
  <2> QED
    BY <1>5, <2>1, <2>2
<1>16. (IF k + 1 < Len(t) /\ t[k + 2] = 45 THEN -1 ELSE 1) = IF sg = 45 THEN -1 ELSE 1
  <2>1. CASE Len(tl) = 0 /\ sg = 43
    BY <1>6, <2>1
  <2>2. CASE Len(tl) > 2 /\ tl[2] = sg
    <3>0. n > 2 /\ Len(t) = k + n
      BY <1>6, <2>2
    <3>1. k + 1 < Len(t) /\ 2 \in 1..n
      BY <3>0
    <3>2. t[k + 2] = sg
      BY <1>6, <1>41, <2>2, <3>1
    <3> QED
      BY <3>1, <3>2
  <2> QED
    BY <1>5, <2>1, <2>2
<1>17. Read(w) = Decimal(Integer(front \o behind),
                         (IF k + 1 < Len(t) /\ t[k + 2] = 45 THEN -1 ELSE 1)
                           * Integer(SubSeq(t, k + 3, Len(t))) - Len(behind))
  <2> DEFINE unsigned == IF w[1] = 45 THEN Tail(w) ELSE w
             ends     == Where(101, unsigned)
             body     == SubSeq(unsigned, 1, ends - 1)
             point    == Where(46, body)
             back     == SubSeq(body, point + 1, Len(body))
             tens     == SubSeq(unsigned, ends + 2, Len(unsigned))
             sign     == IF ends < Len(unsigned) /\ unsigned[ends + 1] = 45 THEN -1 ELSE 1
  <2>1. Read(w) = Decimal(Integer(SubSeq(body, 1, point - 1) \o back),
                          sign * Integer(tens) - Len(back))
    BY DEF Read
  <2>2. unsigned = t
    BY <1>8
  <2> HIDE DEF unsigned
  <2>3. ends = k + 1
    BY <1>9, <2>2
  <2> HIDE DEF ends
  <2>4. body = s
    BY <1>9, <1>10, <2>2, <2>3
  <2> HIDE DEF body
  <2>5. point = p
    BY <1>11, <2>4
  <2> HIDE DEF point
  <2>6. back = behind /\ SubSeq(body, 1, point - 1) = front
    BY <1>12, <1>13, <2>4, <2>5
  <2> HIDE DEF back
  <2>7. tens = SubSeq(t, k + 3, Len(t))
    BY <1>9, <2>2, <2>3
  <2> HIDE DEF tens
  <2>8. sign = IF k + 1 < Len(t) /\ t[k + 2] = 45 THEN -1 ELSE 1
    BY <1>9, <2>2, <2>3
  <2> HIDE DEF sign
  <2> QED
    BY <2>1, <2>6, <2>7, <2>8
<1>18. Read(w) = Decimal(Integer(ds), (IF sg = 45 THEN -1 ELSE 1) * Integer(ts) - b)
  BY <1>12, <1>14, <1>15, <1>16, <1>17
<1> QED
  BY <1>4, <1>7, <1>18

\* Without its last zeros a number has so many digits less.
LEMMA CutDigits ==
  ASSUME NEW n \in Nat, min_scaled <= n, n < max_scaled, NEW q \in Nat, NEW cut \in Nat,
         cut <= SigDigits - 1, n = q * TenTo(cut)
  PROVE  DigitsOf(q) = SigDigits - cut
<1>1. PICK d \in Nat \ {0} : d = SigDigits - cut /\ d - 1 \in Nat
                             /\ d + cut = SigDigits /\ (d - 1) + cut = SigDigits - 1
  <2>1. SigDigits - cut \in Nat \ {0} /\ (SigDigits - cut) - 1 \in Nat
        /\ (SigDigits - cut) + cut = SigDigits /\ ((SigDigits - cut) - 1) + cut = SigDigits - 1
    BY TurnsAre
  <2> QED
    BY <2>1
<1>2. PICK t \in Nat \ {0}, lo \in Nat, hi \in Nat :
        t = TenTo(cut) /\ lo = TenTo(d - 1) /\ hi = TenTo(d)
  BY <1>1, TenToIs
<1>3. min_scaled = lo * t /\ max_scaled = hi * t
  <2>1. TenTo((d - 1) + cut) = TenTo(d - 1) * TenTo(cut) /\ TenTo(d + cut) = TenTo(d) * TenTo(cut)
    BY <1>1, TenToAdds
  <2> QED
    BY <1>1, <1>2, <2>1 DEF min_scaled, max_scaled
<1>4. lo * t <= q * t /\ q * t < hi * t
  BY <1>2, <1>3
<1>5. lo <= q
  <2>1. ~(q < lo)
    <3>1. q < lo => q * t < lo * t
      BY TimesGrows
    <3>2. q * t \in Nat /\ lo * t \in Nat
      OBVIOUS
    <3> QED
      BY <1>4, <3>1, <3>2
  <2> QED
    BY <2>1
<1>6. q < hi
  <2>1. ~(hi <= q)
    <3>1. hi <= q => hi * t <= q * t
      BY TimesGrows
    <3>2. q * t \in Nat /\ hi * t \in Nat
      OBVIOUS
    <3> QED
      BY <1>4, <3>1, <3>2
  <2> QED
    BY <2>1
<1> QED
  BY <1>1, <1>2, <1>5, <1>6, DigitsOfOnly

\* The power of ten behind the digits.
LEMMA TensOf ==
  ASSUME NEW left \in Int
  PROVE  \E tl, sg, ts :
           /\ IsTens(tl, sg, ts)
           /\ (IF left = 0 THEN <<>>
               ELSE <<101, IF left < 0 THEN 45 ELSE 43>>
                    \o DigitsOut(IF left < 0 THEN -left ELSE left, 2)) = tl
           /\ (IF sg = 45 THEN -1 ELSE 1) * Integer(ts) = left
           /\ left = 0 => tl = <<>>
<1>1. CASE left = 0
  <2>1. PICK tl, sg, ts : tl = <<>> /\ sg = 43 /\ ts = <<>>
    OBVIOUS
  <2>2. IsTens(tl, sg, ts)
    BY <2>1 DEF IsTens
  <2>3. Integer(ts) = 0
    BY <2>1, NoDigits
  <2>4. (IF sg = 45 THEN -1 ELSE 1) * Integer(ts) = left
    BY <1>1, <2>1, <2>3
  <2>5. (IF left = 0 THEN <<>>
         ELSE <<101, IF left < 0 THEN 45 ELSE 43>>
              \o DigitsOut(IF left < 0 THEN -left ELSE left, 2)) = tl
    BY <1>1, <2>1
  <2> QED
    BY <2>1, <2>2, <2>4, <2>5
<1>2. CASE left # 0
  <2>1. PICK v \in Nat : v = IF left < 0 THEN -left ELSE left
    <3>1. (IF left < 0 THEN -left ELSE left) \in Nat
      OBVIOUS
    <3> QED
      BY <3>1
  <2>2. PICK sg \in {43, 45} : sg = IF left < 0 THEN 45 ELSE 43
    OBVIOUS
  <2>3. PICK ts : ts = DigitsOut(v, 2)
    OBVIOUS
  <2>4. /\ IsDigits(ts)
        /\ Len(ts) = IF DigitsOf(v) < 2 THEN 2 ELSE DigitsOf(v)
        /\ Integer(ts) = v
    <3>1. 2 \in Nat \ {0}
      OBVIOUS
    <3> QED
      BY <2>3, <3>1, DigitsOutIs
  <2>5. Len(ts) > 0
    <3>1. DigitsOf(v) \in Nat
      BY DigitsOfIs
    <3> QED
      BY <2>4, <3>1
  <2>6. PICK tl : tl = <<101, sg>> \o ts
    OBVIOUS
  <2>7. IsTens(tl, sg, ts)
    BY <2>4, <2>5, <2>6 DEF IsTens
  <2>8. (IF sg = 45 THEN -1 ELSE 1) * v = left
    <3>1. CASE left < 0
      <4>1. sg = 45 /\ v = -left
        BY <2>1, <2>2, <3>1
      <4>2. (-1) * (-left) = left
        OBVIOUS
      <4> QED
        BY <4>1, <4>2
    <3>2. CASE left > 0
      <4>1. sg = 43 /\ v = left
        BY <2>1, <2>2, <3>2
      <4>2. 1 * left = left
        OBVIOUS
      <4> QED
        BY <4>1, <4>2
    <3> QED
      BY <1>2, <3>1, <3>2
  <2>9. (IF left = 0 THEN <<>>
         ELSE <<101, IF left < 0 THEN 45 ELSE 43>>
              \o DigitsOut(IF left < 0 THEN -left ELSE left, 2)) = tl
    BY <1>2, <2>1, <2>2, <2>3, <2>6
  <2> QED
    BY <1>2, <2>4, <2>7, <2>8, <2>9
<1> QED
  BY <1>1, <1>2

\* The layout of SigDigits digits n and the power of ten x.
LEMMA LayoutIs ==
  ASSUME NEW n \in Nat, min_scaled <= n, n < max_scaled, NEW x0 \in Int
  PROVE  \E ds, b, tl, sg, ts : \E cut \in Nat, q \in Nat :
           /\ IsDigits(ds) /\ b \in 0..(Len(ds) - 1) /\ IsTens(tl, sg, ts)
           /\ Layout([n |-> n, exponent |-> x0]) = Pointed(ds, b) \o tl
           /\ Integer(ds) = q /\ q < max_scaled /\ q * TenTo(cut) = n
           /\ (IF sg = 45 THEN -1 ELSE 1) * Integer(ts) - b = x0 + cut
           /\ b > 0 => ds[Len(ds)] # 48
           /\ tl # <<>> => Len(ds) = b + 1
<1>0. PICK r : r = [n |-> n, exponent |-> x0] /\ r.n = n /\ r.exponent = x0
  <2>1. [n |-> n, exponent |-> x0].n = n /\ [n |-> n, exponent |-> x0].exponent = x0
    OBVIOUS
  <2> QED
    BY <2>1, Zenon
<1> DEFINE fixed  == r.exponent <= 0 /\ r.exponent >= -(SigDigits + 3)
           dec    == IF fixed THEN -r.exponent ELSE SigDigits - 1
           cut0   == Trimmed(r.n, dec)
           behind == dec - cut0
           digits == DigitsOut(r.n \div TenTo(cut0), behind + 1)
           left0  == r.exponent + dec
<1>1. dec \in Nat
  BY <1>0, TurnsAre
<1>2. ~fixed => dec = SigDigits - 1
  OBVIOUS
<1>3. fixed => x0 + dec = 0
  BY <1>0
<1>4. n \in Nat \ {0}
  <2>1. TenTo(SigDigits - 1) \in Nat \ {0}
    BY TurnsAre, TenToIs
  <2> QED
    BY <2>1 DEF min_scaled
<1>5. Layout(r) = SubSeq(digits, 1, Len(digits) - behind)
                    \o (IF behind > 0
                        THEN <<46>> \o SubSeq(digits, Len(digits) - behind + 1, Len(digits))
                        ELSE <<>>)
                    \o (IF left0 = 0 THEN <<>>
                        ELSE <<101, IF left0 < 0 THEN 45 ELSE 43>>
                             \o DigitsOut(IF left0 < 0 THEN -left0 ELSE left0, 2))
  BY DEF Layout
<1> HIDE DEF dec, fixed
<1>6. PICK cut \in Nat, q \in Nat \ {0} :
        /\ cut = Trimmed(n, dec) /\ cut <= dec /\ cut <= SigDigits - 1
        /\ q = n \div TenTo(cut) /\ n = q * TenTo(cut)
        /\ cut < dec => q % 10 # 0
  BY <1>1, <1>4, TrimmedIs
<1>7. PICK b \in Nat, k \in Nat \ {0} : b = dec - cut /\ k = b + 1 /\ b = dec - Trimmed(n, dec)
  <2>1. dec - cut \in Nat /\ dec - cut + 1 \in Nat \ {0}
    BY <1>1, <1>6
  <2> QED
    BY <1>6, <2>1
<1>8. PICK ds : ds = DigitsOut(q, k)
  OBVIOUS
<1>9. /\ IsDigits(ds)
      /\ Len(ds) = IF DigitsOf(q) < k THEN k ELSE DigitsOf(q)
      /\ Integer(ds) = q
      /\ ds[Len(ds)] = 48 + (q % 10)
  BY <1>8, DigitsOutIs
<1>10. b \in 0..(Len(ds) - 1)
  <2>1. DigitsOf(q) \in Nat
    BY DigitsOfIs
  <2>2. Len(ds) >= k /\ Len(ds) \in Nat
    BY <1>9, <2>1
  <2> QED
    BY <1>7, <2>2
<1>11. PICK left \in Int : left = x0 + dec
  BY <1>1
<1>12. PICK tl, sg, ts :
         /\ IsTens(tl, sg, ts)
         /\ (IF left = 0 THEN <<>>
             ELSE <<101, IF left < 0 THEN 45 ELSE 43>>
                  \o DigitsOut(IF left < 0 THEN -left ELSE left, 2)) = tl
         /\ (IF sg = 45 THEN -1 ELSE 1) * Integer(ts) = left
         /\ left = 0 => tl = <<>>
  BY TensOf
<1>13. Layout([n |-> n, exponent |-> x0]) = Pointed(ds, b) \o tl
  <2>1. digits = ds /\ behind = b /\ left0 = left
    BY <1>0, <1>6, <1>7, <1>8, <1>11
  <2> HIDE DEF digits, behind, left0
  <2>2. Layout(r)
          = (SubSeq(ds, 1, Len(ds) - b)
             \o (IF b > 0 THEN <<46>> \o SubSeq(ds, Len(ds) - b + 1, Len(ds)) ELSE <<>>)) \o tl
    BY <1>5, <1>12, <2>1, Zenon
  <2> QED
    BY <1>0, <2>2 DEF Pointed
<1>14. q < max_scaled /\ q * TenTo(cut) = n
  <2>1. PICK t \in Nat \ {0} : t = TenTo(cut)
    BY TenToIs
  <2>2. q <= q * t
    <3>1. 1 <= t => 1 * q <= t * q
      BY TimesGrows
    <3>2. 1 * q = q /\ t * q = q * t
      OBVIOUS
    <3> QED
      BY <3>1, <3>2
  <2>3. q * t = n
    BY <1>6, <2>1
  <2>4. max_scaled \in Nat
    BY TurnsAre, TenToIs DEF max_scaled
  <2> QED
    BY <2>1, <2>2, <2>3, <2>4
<1>15. (IF sg = 45 THEN -1 ELSE 1) * Integer(ts) - b = x0 + cut
  <2>1. left - b = x0 + cut
    BY <1>1, <1>7, <1>11
  <2> QED
    BY <1>12, <2>1
<1>16. b > 0 => ds[Len(ds)] # 48
  <2>1. b > 0 => q % 10 # 0
    <3>1. b > 0 => cut < dec
      BY <1>1, <1>7
    <3> QED
      BY <1>6, <3>1
  <2>2. q % 10 \in 0..9
    OBVIOUS
  <2> QED
    BY <1>9, <2>1, <2>2
<1>17. tl # <<>> => Len(ds) = b + 1
  <2>1. ASSUME tl # <<>> PROVE Len(ds) = b + 1
    <3>1. dec = SigDigits - 1
      BY <1>2, <1>3, <1>11, <1>12, <2>1
    <3>2. DigitsOf(q) = SigDigits - cut
      BY <1>6, CutDigits
    <3>3. SigDigits - cut = k
      <4>1. b = SigDigits - 1 - cut /\ k = b + 1
        BY <1>7, <3>1
      <4>2. SigDigits \in Nat /\ cut \in Nat
        BY TurnsAre
      <4> QED
        BY <4>1, <4>2
    <3> QED
      BY <1>7, <1>9, <3>2, <3>3
  <2> QED
    BY <2>1
<1> QED
  BY <1>9, <1>10, <1>12, <1>13, <1>14, <1>15, <1>16, <1>17, ZenonT(60)

--------------------------------------------------------------------------------
(***************************************************************************)
(* What is printed of a float.                                              *)
(***************************************************************************)
LEMMA MinOfIntegers ==
  ASSUME NEW S, S \subseteq Int, NEW k \in S, \A j \in S : k <= j
  PROVE  Min(S) = k
<1>1. ASSUME NEW i \in S, \A j \in S : i <= j PROVE i = k
  <2>1. i \in Int /\ k \in Int /\ i <= k /\ k <= i
    BY <1>1
  <2> QED
    BY <2>1
<1>2. k \in S /\ \A j \in S : k <= j
  OBVIOUS
<1>3. (CHOOSE i \in S : \A j \in S : i <= j) = k
  BY <1>1, <1>2
<1> QED
  BY <1>3 DEF Min

LEMMA DigitsGrow ==
  ASSUME NEW m \in Nat \ {0}, NEW n \in Nat, m <= n
  PROVE  DigitsOf(m) <= DigitsOf(n)
<1>1. PICK d \in Nat \ {0}, k \in Nat : d = DigitsOf(m) /\ k = DigitsOf(n)
  BY DigitsOfIs
<1>2. PICK i \in Nat : i = d - 1
  BY <1>1
<1>3. PICK lo \in Nat, hi \in Nat : lo = TenTo(i) /\ hi = TenTo(k)
  BY TenToIs
<1>4. lo <= m /\ n < hi
  BY <1>1, <1>2, <1>3, DigitsOfIs
<1>5. ~(k <= i)
  <2>1. k <= i => hi <= lo
    BY <1>3, TenToGrows
  <2> QED
    BY <1>4, <2>1
<1> QED
  BY <1>1, <1>2, <1>5

\* What is printed without the sign is digits q < max_scaled times 10^(the unit + z).
LEMMA PrintedFloat ==
  ASSUME NEW m \in Nat \ {0}, NEW p \in Int, InReach(m, p)
  PROVE  \E ds, b, tl, sg, ts : \E z \in Nat, q \in Nat :
           /\ IsDigits(ds) /\ b \in 0..(Len(ds) - 1) /\ IsTens(tl, sg, ts)
           /\ Layout(Significant(Decimal(m, p))) = Pointed(ds, b) \o tl
           /\ Integer(ds) = q /\ q < max_scaled
           /\ (IF sg = 45 THEN -1 ELSE 1) * Integer(ts) - b = UnitOf(m, p) + z
           /\ NearTo(q * TenTo(z), UnitOf(m, p), m, p)
           /\ b > 0 => ds[Len(ds)] # 48
           /\ tl # <<>> => Len(ds) = b + 1
<1>1. PICK n \in Nat, c \in 0..1 :
        /\ Significant(Decimal(m, p)) = [n |-> n, exponent |-> UnitOf(m, p) + c]
        /\ min_scaled <= n /\ n < max_scaled
        /\ NearTo(n * TenTo(c), UnitOf(m, p), m, p)
  BY SignificantIs
<1>2. PICK u \in Int : u = UnitOf(m, p)
  <2>1. DigitsOf(m) \in Int /\ SigDigits \in Int
    BY DigitsOfIs, TurnsAre
  <2> QED
    BY <2>1 DEF UnitOf
<1>3. PICK x0 \in Int : x0 = u + c
  OBVIOUS
<1>4. PICK ds, b, tl, sg, ts : \E cut \in Nat, q \in Nat :
        /\ IsDigits(ds) /\ b \in 0..(Len(ds) - 1) /\ IsTens(tl, sg, ts)
        /\ Layout([n |-> n, exponent |-> x0]) = Pointed(ds, b) \o tl
        /\ Integer(ds) = q /\ q < max_scaled /\ q * TenTo(cut) = n
        /\ (IF sg = 45 THEN -1 ELSE 1) * Integer(ts) - b = x0 + cut
        /\ b > 0 => ds[Len(ds)] # 48
        /\ tl # <<>> => Len(ds) = b + 1
  BY <1>1, LayoutIs
<1>5. PICK cut \in Nat, q \in Nat :
        /\ IsDigits(ds) /\ b \in 0..(Len(ds) - 1) /\ IsTens(tl, sg, ts)
        /\ Layout([n |-> n, exponent |-> x0]) = Pointed(ds, b) \o tl
        /\ Integer(ds) = q /\ q < max_scaled /\ q * TenTo(cut) = n
        /\ (IF sg = 45 THEN -1 ELSE 1) * Integer(ts) - b = x0 + cut
        /\ b > 0 => ds[Len(ds)] # 48
        /\ tl # <<>> => Len(ds) = b + 1
  BY <1>4
<1>6. PICK z \in Nat : z = cut + c /\ x0 + cut = u + z
  <2>1. cut + c \in Nat /\ x0 + cut = u + (cut + c)
    BY <1>3
  <2> QED
    BY <2>1
<1>7. q * TenTo(z) = n * TenTo(c)
  <2>1. c \in Nat
    OBVIOUS
  <2>2. PICK t \in Nat, r \in Nat : t = TenTo(cut) /\ r = TenTo(c)
    BY <2>1, TenToIs
  <2>3. TenTo(z) = t * r
    BY <1>6, <2>1, <2>2, TenToAdds
  <2>4. q * (t * r) = (q * t) * r
    OBVIOUS
  <2> QED
    BY <1>5, <2>2, <2>3, <2>4
<1>8. Layout(Significant(Decimal(m, p))) = Pointed(ds, b) \o tl
  BY <1>1, <1>2, <1>3, <1>5
<1>9. NearTo(q * TenTo(z), UnitOf(m, p), m, p)
  BY <1>1, <1>7
<1>10. (IF sg = 45 THEN -1 ELSE 1) * Integer(ts) - b = UnitOf(m, p) + z
  BY <1>2, <1>5, <1>6
<1> QED
  BY <1>5, <1>8, <1>9, <1>10

\* Two numbers, one near the other, in the units that FloatsReadBack takes.
LEMMA NearIsWithin ==
  ASSUME NEW m \in Nat \ {0}, NEW p \in Int, NEW u \in Int, NEW q \in Nat, NEW z \in Nat,
         NearTo(q * TenTo(z), u, m, p)
  PROVE  LET c == Min({u + z, p, u})
         IN  2 * AbsDiff(Whole(Decimal(q, u + z), c), Whole(Decimal(m, p), c)) <= TenTo(u - c)
<1>1. PICK t \in Nat, qt \in Nat : t = TenTo(z) /\ qt = q * t
  <2>1. TenTo(z) \in Nat /\ q * TenTo(z) \in Nat
    BY TenToIs
  <2> QED
    BY <2>1
<1>2. ASSUME NEW c
      PROVE  /\ Whole(Decimal(q, u + z), c) = q * TenTo((u + z) - c)
             /\ Whole(Decimal(m, p), c) = m * TenTo(p - c)
  <2>1. PICK x1 : x1 = Decimal(q, u + z) /\ x1.m = q /\ x1.e = u + z
    <3>1. Decimal(q, u + z).m = q /\ Decimal(q, u + z).e = u + z
      BY DEF Decimal
    <3> QED
      BY <3>1, Zenon
  <2>2. PICK x2 : x2 = Decimal(m, p) /\ x2.m = m /\ x2.e = p
    <3>1. Decimal(m, p).m = m /\ Decimal(m, p).e = p
      BY DEF Decimal
    <3> QED
      BY <3>1, Zenon
  <2>3. Whole(x1, c) = q * TenTo((u + z) - c)
    BY <2>1 DEF Whole
  <2>4. Whole(x2, c) = m * TenTo(p - c)
    BY <2>2 DEF Whole
  <2> QED
    BY <2>1, <2>2, <2>3, <2>4, Zenon
<1>3. PICK w \in Int : w = u + z /\ u <= w
  OBVIOUS
<1>4. PICK S : S = {u + z, p, u} /\ S \subseteq Int
  <2>1. {u + z, p, u} \subseteq Int
    OBVIOUS
  <2> QED
    BY <2>1
<1>5. CASE p >= u
  <2>1. u \in S /\ \A j \in S : u <= j
    BY <1>3, <1>4, <1>5
  <2>0. S \subseteq Int
    BY <1>4
  <2>2. Min(S) = u
    BY <2>0, <2>1, MinOfIntegers
  <2>3. (u + z) - u = z /\ u - u = 0
    OBVIOUS
  <2>4. Whole(Decimal(q, u + z), u) = qt /\ Whole(Decimal(m, p), u) = qt
    BY <1>1, <1>2, <1>5, <2>3 DEF NearTo
  <2>5. AbsDiff(qt, qt) = 0 /\ TenTo(0) = 1
    BY TenToIs DEF AbsDiff
  <2> QED
    BY <1>4, <2>2, <2>3, <2>4, <2>5
<1>6. CASE p < u
  <2>1. p \in S /\ \A j \in S : p <= j
    BY <1>3, <1>4, <1>6
  <2>0. S \subseteq Int
    BY <1>4
  <2>2. Min(S) = p
    BY <2>0, <2>1, MinOfIntegers
  <2>3. PICK i \in Nat : i = u - p /\ (u + z) - p = z + i
    <3>1. u - p \in Nat /\ (u + z) - p = z + (u - p)
      BY <1>6
    <3> QED
      BY <3>1
  <2>4. PICK r \in Nat : r = TenTo(i) /\ r = TenTo(u - p)
    BY <2>3, TenToIs
  <2>5. Whole(Decimal(q, u + z), p) = qt * r
    <3>1. TenTo(z + i) = TenTo(z) * TenTo(i)
      BY TenToAdds
    <3>2. q * (t * r) = (q * t) * r
      OBVIOUS
    <3> QED
      BY <1>1, <1>2, <2>3, <2>4, <3>1, <3>2
  <2>6. Whole(Decimal(m, p), p) = m
    <3>1. p - p = 0 /\ m * 1 = m
      OBVIOUS
    <3> QED
      BY <1>2, <3>1, TenToIs
  <2>7. 2 * (qt * r - m) <= r /\ 2 * (m - qt * r) <= r
    BY <1>1, <1>6, <2>4 DEF NearTo
  <2>8. PICK k \in Nat : k = qt * r
    OBVIOUS
  <2>9. 2 * AbsDiff(k, m) <= r
    BY <2>7, <2>8 DEF AbsDiff
  <2> QED
    BY <1>4, <2>2, <2>4, <2>5, <2>6, <2>8, <2>9
<1> QED
  BY <1>5, <1>6

\* The parts of a text, in one.
IsFloatText(ds, b, tl, sg, ts) ==
  IsDigits(ds) /\ b \in 0..(Len(ds) - 1) /\ IsTens(tl, sg, ts)

TextPlaces(ds, b, tl) ==
  LET s == Pointed(ds, b)
      t == s \o tl
  IN  /\ t \in Seq(Int) /\ Len(t) = Len(s) + Len(tl)
      /\ \A i \in 1..Len(s) : t[i] = s[i]
      /\ \A i \in 1..Len(tl) : t[Len(s) + i] = tl[i]
      /\ t[1] \in 48..57
      /\ Where(101, t) = Len(s) + 1
      /\ Where(46, s) = Len(ds) - b + 1
      /\ Where(46, t) = IF b > 0 THEN Len(ds) - b + 1 ELSE Len(t) + 1
      /\ SubSeq(t, 1, Len(s)) = s

PointedPlaces(ds, b) ==
  LET s == Pointed(ds, b)
      l == Len(ds)
  IN  /\ s \in Seq(Int) /\ Len(s) = IF b > 0 THEN l + 1 ELSE l
      /\ \A i \in 1..(l - b) : s[i] = ds[i]
      /\ b > 0 => s[l - b + 1] = 46
      /\ b > 0 => \A i \in 1..b : s[l - b + 1 + i] = ds[l - b + i]

\* Digits without a zero at the end behind the point, one in front of an exponent.
IsShort(t) ==
  LET ends  == Where(101, t)
      point == Where(46, t)
  IN  /\ point < ends => t[ends - 1] # 48
      /\ ends < Len(t) => Min({point, ends}) = 2

LEMMA TextPlacesAre ==
  ASSUME NEW ds, NEW b, NEW tl, NEW sg, NEW ts, IsFloatText(ds, b, tl, sg, ts)
  PROVE  TextPlaces(ds, b, tl) /\ PointedPlaces(ds, b)
<1>1. IsDigits(ds) /\ b \in 0..(Len(ds) - 1) /\ IsTens(tl, sg, ts)
  BY DEF IsFloatText
<1>2. TextPlaces(ds, b, tl)
  BY <1>1, TextIs DEF TextPlaces
<1>3. PointedPlaces(ds, b)
  BY <1>1, PointedIs DEF PointedPlaces
<1> QED
  BY <1>2, <1>3

LEMMA FloatTextReads ==
  ASSUME NEW ds, NEW b, NEW tl, NEW sg, NEW ts, IsFloatText(ds, b, tl, sg, ts),
         NEW neg \in BOOLEAN
  PROVE  Read((IF neg THEN <<45>> ELSE <<>>) \o (Pointed(ds, b) \o tl))
           = Decimal(Integer(ds), (IF sg = 45 THEN -1 ELSE 1) * Integer(ts) - b)
<1>1. IsDigits(ds) /\ b \in 0..(Len(ds) - 1) /\ IsTens(tl, sg, ts)
  BY DEF IsFloatText
<1> QED
  BY <1>1, ReadIs

LEMMA ShortIs ==
  ASSUME NEW ds, NEW b, NEW tl, NEW sg, NEW ts, IsFloatText(ds, b, tl, sg, ts),
         b > 0 => ds[Len(ds)] # 48, tl # <<>> => Len(ds) = b + 1
  PROVE  IsShort(Pointed(ds, b) \o tl)
<1>0. IsDigits(ds) /\ b \in 0..(Len(ds) - 1) /\ IsTens(tl, sg, ts)
  BY DEF IsFloatText
<1>1. PICK l \in Nat \ {0} : l = Len(ds)
  <2>1. Len(ds) \in Nat /\ 0 <= Len(ds) - 1
    BY <1>0 DEF IsDigits
  <2> QED
    BY <2>1
<1>2. b \in Nat /\ b <= l
  BY <1>0, <1>1
<1>3. PICK s \in Seq(Int) :
        /\ s = Pointed(ds, b) /\ Len(s) = IF b > 0 THEN l + 1 ELSE l
        /\ b > 0 => \A i \in 1..b : s[l - b + 1 + i] = ds[l - b + i]
  <2>1. PointedPlaces(ds, b)
    BY TextPlacesAre
  <2> QED
    BY <1>1, <2>1, Zenon DEF PointedPlaces
<1>4. PICK t : t = Pointed(ds, b) \o tl
  OBVIOUS
<1>5. /\ t \in Seq(Int) /\ Len(t) = Len(s) + Len(tl)
      /\ \A i \in 1..Len(s) : t[i] = s[i]
      /\ Where(101, t) = Len(s) + 1
      /\ Where(46, t) = IF b > 0 THEN l - b + 1 ELSE Len(t) + 1
  <2>1. TextPlaces(ds, b, tl)
    BY TextPlacesAre
  <2>2. /\ t \in Seq(Int) /\ Len(t) = Len(Pointed(ds, b)) + Len(tl)
        /\ \A i \in 1..Len(Pointed(ds, b)) : t[i] = Pointed(ds, b)[i]
        /\ Where(101, t) = Len(Pointed(ds, b)) + 1
        /\ Where(46, t) = IF b > 0 THEN Len(ds) - b + 1 ELSE Len(t) + 1
    BY <1>4, <2>1, Zenon DEF TextPlaces
  <2> QED
    BY <1>1, <1>3, <2>2, Zenon
<1>6. tl \in Seq(Int) /\ (tl = <<>> => Len(tl) = 0)
  BY <1>0, TensAre
<1>7. PICK k \in Nat \ {0}, n \in Nat : k = Len(s) /\ n = Len(tl) /\ Len(t) = k + n
                                        /\ k = IF b > 0 THEN l + 1 ELSE l
  <2>1. Len(s) \in Nat \ {0} /\ Len(tl) \in Nat
    BY <1>3, <1>6
  <2> QED
    BY <1>3, <1>5, <2>1
<1>8. PICK ends \in Nat, point \in Nat :
        /\ ends = Where(101, t) /\ point = Where(46, t) /\ ends = k + 1 /\ ends - 1 = k
        /\ b > 0 => point = l - b + 1
        /\ b = 0 => point = k + n + 1
  <2>1. k + 1 \in Nat /\ (k + 1) - 1 = k /\ (IF b > 0 THEN l - b + 1 ELSE k + n + 1) \in Nat
    BY <1>2
  <2>2. Where(101, t) = k + 1 /\ Where(46, t) = IF b > 0 THEN l - b + 1 ELSE k + n + 1
    BY <1>5, <1>7
  <2>3. b = 0 => ~(b > 0)
    OBVIOUS
  <2> QED
    BY <2>1, <2>2, <2>3
<1>9. point < ends => t[ends - 1] # 48
  <2>1. ASSUME point < ends PROVE t[k] # 48
    <3>1. b > 0
      BY <1>2, <1>8, <2>1
    <3>2. b \in 1..b /\ l - b + 1 + b = l + 1 /\ l - b + b = l
      BY <1>2, <3>1
    <3>3. s[l - b + 1 + b] = ds[l - b + b]
      BY <1>3, <3>1, <3>2
    <3>4. s[k] = ds[l] /\ k \in 1..k
      BY <1>7, <3>1, <3>2, <3>3
    <3>5. t[k] = s[k]
      BY <1>5, <1>7, <3>4
    <3> QED
      BY <1>1, <3>1, <3>4, <3>5
  <2> QED
    BY <1>8, <2>1
<1>10. ends < Len(t) => Min({point, ends}) = 2
  <2>1. ASSUME ends < Len(t) PROVE Min({point, ends}) = 2
    <3>1. tl # <<>>
      BY <1>6, <1>7, <1>8, <2>1
    <3>2. l = b + 1
      BY <1>1, <3>1
    <3>3. PICK S : S = {point, ends} /\ S \subseteq Int
      <4>1. {point, ends} \subseteq Int
        OBVIOUS
      <4> QED
        BY <4>1
    <3>4. 2 \in S /\ \A j \in S : 2 <= j
      <4>1. CASE b > 0
        <5>1. point = 2 /\ ends >= 2
          BY <1>2, <1>7, <1>8, <3>2, <4>1
        <5> QED
          BY <3>3, <5>1
      <4>2. CASE b = 0
        <5>1. ends = 2 /\ point >= 2
          BY <1>2, <1>7, <1>8, <3>2, <4>2
        <5> QED
          BY <3>3, <5>1
      <4> QED
        BY <1>2, <4>1, <4>2
    <3>5. S \subseteq Int
      BY <3>3
    <3>6. Min(S) = 2
      BY <3>4, <3>5, MinOfIntegers
    <3> QED
      BY <3>3, <3>6
  <2> QED
    BY <2>1
<1> QED
  BY <1>4, <1>8, <1>9, <1>10, Zenon DEF IsShort

\* The text s is that of the float m * 10^p.
IsPrinted(s, m, p, neg) ==
  LET v == Read(s)
      c == Min({v.e, p, UnitOf(m, p)})
  IN  /\ 2 * AbsDiff(Whole(v, c), Whole(Decimal(m, p), c)) <= TenTo(UnitOf(m, p) - c)
      /\ neg <=> s[1] = 45
      /\ v.m < max_scaled
      /\ IsShort(IF neg THEN Tail(s) ELSE s)

LEMMA FloatPrinted ==
  ASSUME NEW m \in Nat \ {0}, NEW p \in Int, InReach(m, p), NEW neg \in BOOLEAN
  PROVE  IsPrinted((IF neg THEN <<45>> ELSE <<>>) \o Layout(Significant(Decimal(m, p))), m, p, neg)
<1>1. PICK ds, b, tl, sg, ts : \E z \in Nat, q \in Nat :
        /\ IsDigits(ds) /\ b \in 0..(Len(ds) - 1) /\ IsTens(tl, sg, ts)
        /\ Layout(Significant(Decimal(m, p))) = Pointed(ds, b) \o tl
        /\ Integer(ds) = q /\ q < max_scaled
        /\ (IF sg = 45 THEN -1 ELSE 1) * Integer(ts) - b = UnitOf(m, p) + z
        /\ NearTo(q * TenTo(z), UnitOf(m, p), m, p)
        /\ b > 0 => ds[Len(ds)] # 48
        /\ tl # <<>> => Len(ds) = b + 1
  BY PrintedFloat
<1>2. PICK z \in Nat, q \in Nat :
        /\ IsDigits(ds) /\ b \in 0..(Len(ds) - 1) /\ IsTens(tl, sg, ts)
        /\ Layout(Significant(Decimal(m, p))) = Pointed(ds, b) \o tl
        /\ Integer(ds) = q /\ q < max_scaled
        /\ (IF sg = 45 THEN -1 ELSE 1) * Integer(ts) - b = UnitOf(m, p) + z
        /\ NearTo(q * TenTo(z), UnitOf(m, p), m, p)
        /\ b > 0 => ds[Len(ds)] # 48
        /\ tl # <<>> => Len(ds) = b + 1
  BY <1>1
<1>3. PICK u \in Int : u = UnitOf(m, p)
  <2>1. DigitsOf(m) \in Int /\ SigDigits \in Int
    BY DigitsOfIs, TurnsAre
  <2> QED
    BY <2>1 DEF UnitOf
<1>4. PICK t : t = Pointed(ds, b) \o tl
  OBVIOUS
<1>5. PICK w : w = (IF neg THEN <<45>> ELSE <<>>) \o t
               /\ w = (IF neg THEN <<45>> ELSE <<>>) \o Layout(Significant(Decimal(m, p)))
  BY <1>2, <1>4
<1>6. IsDigits(ds) /\ b \in 0..(Len(ds) - 1) /\ IsTens(tl, sg, ts)
      /\ IsFloatText(ds, b, tl, sg, ts)
  BY <1>2 DEF IsFloatText
<1>7. Read(w) = Decimal(q, u + z)
  <2>1. Read(w) = Decimal(Integer(ds), (IF sg = 45 THEN -1 ELSE 1) * Integer(ts) - b)
    BY <1>4, <1>5, <1>6, FloatTextReads
  <2> QED
    BY <1>2, <1>3, <2>1, Zenon
<1>8. (IF neg THEN Tail(w) ELSE w) = t /\ (neg <=> w[1] = 45)
  <2>0. TextPlaces(ds, b, tl)
    BY <1>6, TextPlacesAre
  <2>1. t \in Seq(Int) /\ t[1] \in 48..57 /\ Len(t) = Len(Pointed(ds, b)) + Len(tl)
    BY <1>4, <2>0, Zenon DEF TextPlaces
  <2>2. Len(t) > 0
    <3>1. tl \in Seq(Int) /\ Len(tl) \in Nat
      BY <1>6, TensAre
    <3>2. Len(ds) \in Nat \ {0}
      <4>1. Len(ds) \in Nat
        BY <1>6 DEF IsDigits
      <4> QED
        BY <1>6, <4>1
    <3>3. Len(Pointed(ds, b)) = IF b > 0 THEN Len(ds) + 1 ELSE Len(ds)
      BY <1>6, PointedIs
    <3> QED
      BY <2>1, <3>1, <3>2, <3>3
  <2>3. t \in Seq(Int) /\ t[1] \in 48..57
    BY <2>1
  <2>4. LET s == (IF neg THEN <<45>> ELSE <<>>) \o t
        IN  (IF neg THEN Tail(s) ELSE s) = t /\ (neg <=> s[1] = 45)
    BY <2>2, <2>3, SignIs
  <2> QED
    BY <1>5, <2>4, Zenon
<1>9. PICK v : v = Read(w) /\ v = Decimal(q, u + z) /\ v.m = q /\ v.e = u + z
  <2>1. Decimal(q, u + z).m = q /\ Decimal(q, u + z).e = u + z
    BY DEF Decimal
  <2> QED
    BY <1>7, <2>1, Zenon
<1>10. LET c == Min({v.e, p, u})
       IN  2 * AbsDiff(Whole(v, c), Whole(Decimal(m, p), c)) <= TenTo(u - c)
  <2>1. NearTo(q * TenTo(z), u, m, p)
    BY <1>2, <1>3
  <2>2. LET c == Min({u + z, p, u})
        IN  2 * AbsDiff(Whole(Decimal(q, u + z), c), Whole(Decimal(m, p), c)) <= TenTo(u - c)
    BY <2>1, NearIsWithin
  <2> QED
    BY <1>9, <2>2, Zenon
<1>11. IsShort(t)
  <2>1. b > 0 => ds[Len(ds)] # 48
    BY <1>2
  <2>2. tl # <<>> => Len(ds) = b + 1
    BY <1>2
  <2>3. IsShort(Pointed(ds, b) \o tl)
    BY <1>6, <2>1, <2>2, ShortIs
  <2> QED
    BY <1>4, <2>3
<1>12. v.m < max_scaled
  BY <1>2, <1>9
<1>13. IsPrinted(w, m, p, neg)
  BY <1>3, <1>8, <1>9, <1>10, <1>11, <1>12, Zenon DEF IsPrinted
<1> QED
  BY <1>5, <1>13

--------------------------------------------------------------------------------
(***************************************************************************)
(* Any float of the run's range.                                            *)
(***************************************************************************)
PrintFloatTyped ==
  /\ mantissa \in 0..MaxMantissa /\ power \in (-Below)..Above
  /\ negative \in BOOLEAN /\ sort \in {"FINITE", "INF", "NaN"}

\* The loops' turns are enough for every float of the range.
LEMMA FloatInReach ==
  ASSUME NEW m \in 0..MaxMantissa, m # 0, NEW p \in (-Below)..Above
  PROVE  m \in Nat \ {0} /\ p \in Int /\ InReach(m, p)
<1>1. MaxMantissa \in Nat /\ Below \in Nat /\ Above \in Nat
  BY FloatRangeAssumption
<1>2. m \in Nat \ {0} /\ m <= MaxMantissa /\ p \in Int /\ -Below <= p /\ p <= Above
  BY <1>1
<1>3. PICK d \in Nat \ {0} : d = DigitsOf(m)
  BY <1>2, DigitsOfIs
<1>4. PICK k \in Nat : k = DigitsOf(MaxMantissa)
  BY <1>1, DigitsOfIs
<1>5. d <= k
  BY <1>1, <1>2, <1>3, <1>4, DigitsGrow
<1>6. PICK s \in Nat, g \in Nat : s = SigDigits /\ g = Big
  BY TurnsAre
<1>7. PICK r \in Nat : r = g * (s + g)
  OBVIOUS
<1>8. s + Below <= r /\ k + Above <= r
  BY <1>4, <1>6, <1>7, FloatRangeAssumption
<1>9. s - g < d + p + r /\ d + p <= r
  BY <1>1, <1>2, <1>5, <1>8
<1> QED
  BY <1>2, <1>3, <1>6, <1>7, <1>9 DEF InReach

\* What is no number has no digit in its text.
LEMMA NoNumberTexts ==
  /\ UnityStrNaN \in Seq(Int) /\ UnityStrInf \in Seq(Int) /\ UnityStrNegInf \in Seq(Int)
  /\ \A i \in DOMAIN UnityStrNaN : UnityStrNaN[i] \notin 48..57
  /\ \A i \in DOMAIN UnityStrInf : UnityStrInf[i] \notin 48..57
  /\ \A i \in DOMAIN UnityStrNegInf : UnityStrNegInf[i] \notin 48..57
<1>1. UnityStrNaN \in Seq(Int) /\ \A i \in DOMAIN UnityStrNaN : UnityStrNaN[i] \notin 48..57
  BY DEF UnityStrNaN
<1>2. UnityStrInf \in Seq(Int) /\ \A i \in 1..Len(UnityStrInf) : UnityStrInf[i] \notin 48..57
  BY DEF UnityStrInf
<1>3. PICK s \in Seq(Int) : /\ s = <<78, 101, 103, 97, 116, 105, 118, 101, 32>>
                            /\ \A i \in 1..Len(s) : s[i] \notin 48..57
  <2> DEFINE c == <<78, 101, 103, 97, 116, 105, 118, 101, 32>>
  <2>1. c \in Seq(Int) /\ \A i \in 1..Len(c) : c[i] \notin 48..57
    OBVIOUS
  <2> QED
    BY <2>1, Zenon
<1>4. PICK t \in Seq(Int) : t = UnityStrInf /\ \A i \in 1..Len(t) : t[i] \notin 48..57
  BY <1>2
<1>5. UnityStrNegInf = s \o t
  BY <1>3, <1>4 DEF UnityStrNegInf
<1>6. /\ s \o t \in Seq(Int) /\ Len(s \o t) = Len(s) + Len(t)
      /\ \A i \in 1..Len(s) : (s \o t)[i] = s[i]
      /\ \A i \in 1..Len(t) : (s \o t)[Len(s) + i] = t[i]
  BY CatIs
<1>7. ASSUME NEW i \in 1..Len(s \o t) PROVE (s \o t)[i] \notin 48..57
  <2>1. PICK k \in Nat, n \in Nat : k = Len(s) /\ n = Len(t)
    OBVIOUS
  <2>2. CASE i <= k
    <3>1. i \in 1..Len(s)
      BY <2>1, <2>2
    <3>2. \A j \in 1..Len(s) : s[j] \notin 48..57
      BY <1>3
    <3>3. \A j \in 1..Len(s) : (s \o t)[j] = s[j]
      BY <1>6
    <3>4. s[i] \notin 48..57 /\ (s \o t)[i] = s[i]
      BY <3>1, <3>2, <3>3, Zenon
    <3> QED
      BY <3>4
  <2>3. CASE i > k
    <3>1. PICK j \in 1..n : i = k + j
      <4>1. i - k \in 1..n /\ i = k + (i - k)
        BY <1>6, <2>1, <2>3
      <4> QED
        BY <4>1
    <3> QED
      BY <1>4, <1>6, <2>1, <3>1
  <2>4. i \in Nat
    BY <1>6
  <2>5. i <= k \/ i > k
    BY <2>1, <2>4
  <2> QED
    BY <2>2, <2>3, <2>5, Zenon
<1>8. \A i \in DOMAIN UnityStrInf : UnityStrInf[i] \notin 48..57
  <2>1. DOMAIN UnityStrInf = 1..Len(UnityStrInf)
    BY <1>2
  <2> QED
    BY <1>2, <2>1
<1>9. UnityStrNegInf \in Seq(Int) /\ \A i \in DOMAIN UnityStrNegInf : UnityStrNegInf[i] \notin 48..57
  <2>1. PICK r \in Seq(Int) : r = UnityStrNegInf /\ \A i \in 1..Len(r) : r[i] \notin 48..57
    BY <1>5, <1>6, <1>7
  <2> QED
    BY <2>1
<1> QED
  BY <1>1, <1>2, <1>8, <1>9

LEMMA TextOfFloat ==
  ASSUME NEW k, NEW neg, NEW m, NEW p
  PROVE  LET t == UnityPrintFloat(Float(k, neg, Decimal(m, p)))
         IN  /\ k = "NaN" => t = UnityStrNaN
             /\ k = "INF" => t = IF neg THEN UnityStrNegInf ELSE UnityStrInf
             /\ k = "FINITE" /\ m = 0 => t = <<48>>
             /\ k = "FINITE" /\ m # 0 =>
                  t = (IF neg THEN <<45>> ELSE <<>>) \o Layout(Significant(Decimal(m, p)))
<1>1. PICK f : f = Float(k, neg, Decimal(m, p))
  OBVIOUS
<1>2. /\ f.kind = k /\ f.negative = neg /\ f.number = Decimal(m, p) /\ f.number.m = m
  BY <1>1 DEF Float, Decimal
<1>3. CASE k = "NaN"
  BY <1>1, <1>2, <1>3 DEF UnityPrintFloat
<1>4. CASE k = "INF"
  BY <1>1, <1>2, <1>4 DEF UnityPrintFloat
<1>5. CASE k = "FINITE" /\ m = 0
  BY <1>1, <1>2, <1>5 DEF UnityPrintFloat
<1>6. CASE k = "FINITE" /\ m # 0
  BY <1>1, <1>2, <1>6 DEF UnityPrintFloat
<1> QED
  BY <1>3, <1>4, <1>5, <1>6

LEMMA TextOfFinite ==
  ASSUME NEW neg, NEW m, NEW p, m # 0
  PROVE  UnityPrintFloat(Float("FINITE", neg, Decimal(m, p)))
           = (IF neg THEN <<45>> ELSE <<>>) \o Layout(Significant(Decimal(m, p)))
<1>1. PICK k : k = "FINITE"
  OBVIOUS
<1>2. k = "FINITE" /\ m # 0 =>
        UnityPrintFloat(Float(k, neg, Decimal(m, p)))
          = (IF neg THEN <<45>> ELSE <<>>) \o Layout(Significant(Decimal(m, p)))
  BY TextOfFloat
<1> QED
  BY <1>1, <1>2

LEMMA AnyFloatReadsBack == PrintFloatTyped => FloatsReadBack
<1> SUFFICES ASSUME PrintFloatTyped PROVE FloatsReadBack
  OBVIOUS
<1>1. PICK m \in 0..MaxMantissa, p \in (-Below)..Above, neg \in BOOLEAN :
        m = mantissa /\ p = power /\ neg = negative
  BY DEF PrintFloatTyped
<1>2. PICK k \in {"FINITE", "INF", "NaN"} : k = sort
  BY DEF PrintFloatTyped
<1>3. PICK t : t = text /\ t = UnityPrintFloat(Float(k, neg, Decimal(m, p)))
  BY <1>1, <1>2 DEF text, float
<1>4. /\ k = "NaN" => t = UnityStrNaN
      /\ k = "INF" => t = IF neg THEN UnityStrNegInf ELSE UnityStrInf
      /\ k = "FINITE" /\ m = 0 => t = <<48>>
      /\ k = "FINITE" /\ m # 0 =>
           t = (IF neg THEN <<45>> ELSE <<>>) \o Layout(Significant(Decimal(m, p)))
  <2>1. LET t0 == UnityPrintFloat(Float(k, neg, Decimal(m, p)))
        IN  /\ k = "NaN" => t0 = UnityStrNaN
            /\ k = "INF" => t0 = IF neg THEN UnityStrNegInf ELSE UnityStrInf
            /\ k = "FINITE" /\ m = 0 => t0 = <<48>>
            /\ k = "FINITE" /\ m # 0 =>
                 t0 = (IF neg THEN <<45>> ELSE <<>>) \o Layout(Significant(Decimal(m, p)))
    BY TextOfFloat, Zenon
  <2> QED
    BY <1>3, <2>1, Zenon
<1>5. CASE k # "FINITE"
  <2>1. \A i \in DOMAIN t : t[i] \notin 48..57
    BY <1>4, <1>5, NoNumberTexts
  <2> QED
    BY <1>2, <1>3, <1>5, <2>1 DEF FloatsReadBack
<1>6. CASE k = "FINITE" /\ m = 0
  BY <1>1, <1>2, <1>3, <1>4, <1>6 DEF FloatsReadBack
<1>7. CASE k = "FINITE" /\ m # 0
  <2>1. m \in Nat \ {0} /\ p \in Int /\ InReach(m, p)
    BY <1>7, FloatInReach
  <2>2. t = (IF neg THEN <<45>> ELSE <<>>) \o Layout(Significant(Decimal(m, p)))
    BY <1>4, <1>7
  <2>3. /\ 2 * AbsDiff(Whole(Read(t), Min({Read(t).e, p, UnitOf(m, p)})),
                       Whole(Decimal(m, p), Min({Read(t).e, p, UnitOf(m, p)})))
             <= TenTo(UnitOf(m, p) - Min({Read(t).e, p, UnitOf(m, p)}))
        /\ neg <=> t[1] = 45
    <3>1. IsPrinted((IF neg THEN <<45>> ELSE <<>>) \o Layout(Significant(Decimal(m, p))),
                    m, p, neg)
      BY <2>1, FloatPrinted
    <3>2. IsPrinted(t, m, p, neg)
      BY <2>2, <3>1
    <3> QED
      BY <3>2, Zenon DEF IsPrinted
  <2>4. Unit(Decimal(m, p)) = UnitOf(m, p)
    BY DEF Unit, UnitOf, Decimal
  <2>5. float = Decimal(m, p)
    BY <1>1 DEF float
  <2>6. LET c == Min({Read(t).e, p, Unit(float)})
        IN  2 * AbsDiff(Whole(Read(t), c), Whole(float, c)) <= TenTo(Unit(float) - c)
    BY <2>3, <2>4, <2>5, Zenon
  <2>7. sort = "FINITE" /\ mantissa # 0
    BY <1>1, <1>2, <1>7
  <2>8. FloatsReadBack = (LET c == Min({Read(text).e, power, Unit(float)})
                          IN  /\ 2 * AbsDiff(Whole(Read(text), c), Whole(float, c))
                                   <= TenTo(Unit(float) - c)
                              /\ negative <=> text[1] = 45)
    BY <2>7 DEF FloatsReadBack
  <2> QED
    BY <1>1, <1>3, <2>3, <2>6, <2>8, Zenon
<1> QED
  BY <1>2, <1>5, <1>6, <1>7

LEMMA AnyTextIsShort == PrintFloatTyped => TextsAreShort
<1> SUFFICES ASSUME PrintFloatTyped, sort = "FINITE", mantissa # 0 PROVE TextsAreShort
  BY DEF TextsAreShort
<1>1. PICK m \in 0..MaxMantissa, p \in (-Below)..Above, neg \in BOOLEAN :
        m = mantissa /\ p = power /\ neg = negative
  BY DEF PrintFloatTyped
<1>2. PICK t : t = text /\ t = UnityPrintFloat(Float("FINITE", neg, Decimal(m, p)))
  BY <1>1 DEF text, float
<1>3. m \in Nat \ {0} /\ p \in Int /\ InReach(m, p)
  BY <1>1, FloatInReach
<1>4. t = (IF neg THEN <<45>> ELSE <<>>) \o Layout(Significant(Decimal(m, p)))
  <2>1. m # 0
    BY <1>1
  <2>2. UnityPrintFloat(Float("FINITE", neg, Decimal(m, p)))
          = (IF neg THEN <<45>> ELSE <<>>) \o Layout(Significant(Decimal(m, p)))
    BY <2>1, TextOfFinite
  <2> QED
    BY <1>2, <2>2
<1>5. IsPrinted((IF neg THEN <<45>> ELSE <<>>) \o Layout(Significant(Decimal(m, p))), m, p, neg)
  BY <1>3, FloatPrinted
<1>6. IsPrinted(t, m, p, neg)
  BY <1>4, <1>5
<1>7. t = text /\ neg = negative
  BY <1>1, <1>2
<1>8. Read(text).m < max_scaled /\ IsShort(IF negative THEN Tail(text) ELSE text)
  BY <1>6, <1>7, Zenon DEF IsPrinted
<1> QED
  BY <1>8, Zenon DEF TextsAreShort, IsShort

LEMMA PrintFloatStaysTyped ==
  PrintFloatTyped /\ (PrintFloatNext \/ UNCHANGED printFloatVars) => PrintFloatTyped'
<1> SUFFICES ASSUME PrintFloatTyped, PrintFloatNext \/ UNCHANGED printFloatVars
             PROVE  PrintFloatTyped'
  OBVIOUS
<1>1. MaxMantissa \in Nat /\ Below \in Nat /\ Above \in Nat
  BY FloatRangeAssumption
<1>2. CASE NextMantissa
  <2>1. mantissa' \in 0..MaxMantissa
    <3>1. PICK m \in Nat, k \in Nat \ {0} : m = mantissa + 1 /\ k = MaxMantissa + 1
      BY <1>1 DEF PrintFloatTyped
    <3>2. m % k \in 0..(k - 1) /\ k - 1 = MaxMantissa
      BY <1>1, <3>1
    <3> QED
      BY <1>2, <3>1, <3>2 DEF NextMantissa
  <2> QED
    BY <1>2, <2>1 DEF NextMantissa, PrintFloatTyped
<1>3. CASE NextPower
  BY <1>1, <1>3 DEF NextPower, PrintFloatTyped
<1>4. CASE Negate
  BY <1>4 DEF Negate, PrintFloatTyped
<1>5. CASE ChangeSort
  BY <1>5 DEF ChangeSort, PrintFloatTyped
<1>6. CASE UNCHANGED printFloatVars
  BY <1>6 DEF printFloatVars, PrintFloatTyped
<1> QED
  BY <1>2, <1>3, <1>4, <1>5, <1>6 DEF PrintFloatNext

--------------------------------------------------------------------------------
(***************************************************************************)
(* Whatever is tried is of its type.                                        *)
(***************************************************************************)
ValuesTyped == PrintTyped /\ PrintFloatTyped /\ FloatsTyped /\ StringsTyped /\ NumbersTyped

LEMMA TriedFloats ==
  /\ \A k \in 1..2 : Floats[k] \subseteq AllFloats
  /\ Tolerances \subseteq AllFloats
<1>1. MAX \in Nat \ {0} /\ PRECISION \in Nat \ {0} /\ PRECISION * (PRECISION + 2) <= MAX
  BY FloatAssumption, TestedAssumption
<1> DEFINE p == PRECISION
<1>2. /\ (-1) * p \in (-MAX)..MAX /\ (p - 1) * p \in (-MAX)..MAX /\ p * p \in (-MAX)..MAX
      /\ (p + 2) * p \in (-MAX)..MAX /\ (-p) * p \in (-MAX)..MAX /\ (1 - p) * p \in (-MAX)..MAX
      /\ p * (p - 1) \in (-MAX)..MAX /\ p \in (-MAX)..MAX /\ -p \in (-MAX)..MAX
      /\ 3 * p - 1 \in (-MAX)..MAX
  <2>1. PICK q \in Nat : q = p * p
    BY <1>1
  <2>2. /\ (p + 2) * p = q + 2 * p /\ p * (p + 2) = q + 2 * p
        /\ (p - 1) * p = q - p /\ p * (p - 1) = q - p
        /\ (-p) * p = -q /\ (1 - p) * p = p - q /\ (-1) * p = -p
        /\ q >= p
    BY <1>1, <2>1
  <2> QED
    BY <1>1, <2>1, <2>2
<1>3. (-MAX)..MAX \subseteq AllFloats /\ {0, MAX, -MAX, INF, NEG_INF, NAN} \subseteq AllFloats
  BY <1>1 DEF AllFloats, NEG_INF, INF, NAN
<1>4. Finites \subseteq AllFloats
  BY <1>2, <1>3 DEF Finites
<1>5. /\ Floats[1] = Finites \cup {INF, NEG_INF, NAN}
      /\ Floats[2] = {0, p * (p - 1), p * p, INF, NAN}
  BY DEF Floats
<1>6. Floats[1] \subseteq AllFloats /\ Floats[2] \subseteq AllFloats
  BY <1>2, <1>3, <1>4, <1>5
<1>7. Tolerances \subseteq AllFloats
  BY <1>2, <1>3 DEF Tolerances
<1> QED
  BY <1>6, <1>7

LEMMA FloatsStayTyped == FloatsTyped /\ (FloatsNext \/ UNCHANGED floatsVars) => FloatsTyped'
<1> SUFFICES ASSUME FloatsTyped, FloatsNext \/ UNCHANGED floatsVars PROVE FloatsTyped'
  OBVIOUS
<1>1. CASE ChangeExpectedFloat
  BY <1>1, TriedFloats DEF ChangeExpectedFloat, FloatsTyped
<1>2. CASE ChangeActualFloat
  BY <1>2, TriedFloats DEF ChangeActualFloat, FloatsTyped
<1>3. CASE ChangeTolerance
  BY <1>3, TriedFloats DEF ChangeTolerance, FloatsTyped
<1>4. CASE UNCHANGED floatsVars
  BY <1>4 DEF floatsVars, FloatsTyped
<1> QED
  BY <1>1, <1>2, <1>3, <1>4 DEF FloatsNext

LEMMA StringsStayTyped == StringsTyped /\ (StringsNext \/ UNCHANGED stringsVars) => StringsTyped'
<1> SUFFICES ASSUME StringsTyped, StringsNext \/ UNCHANGED stringsVars PROVE StringsTyped'
  OBVIOUS
<1>1. Arrays \subseteq Seq(Nat)
  <2>1. SUFFICES ASSUME NEW n \in 0..MaxArray, NEW s \in [1..n -> Chars] PROVE s \in Seq(Nat)
    BY DEF Arrays
  <2>2. n \in Nat
    BY CharsAssumption
  <2>3. \A i \in 1..n : s[i] \in Nat
    BY CharsAssumption
  <2>4. s \in [1..n -> Nat]
    BY <2>3
  <2> QED
    BY <2>2, <2>4
<1>2. CASE ChangeX \/ ChangeY
  BY <1>1, <1>2 DEF ChangeX, ChangeY, StringsTyped
<1>3. CASE ChangeLength
  BY <1>3, CharsAssumption DEF ChangeLength, StringsTyped
<1>4. CASE UNCHANGED stringsVars
  BY <1>4 DEF stringsVars, StringsTyped
<1> QED
  BY <1>2, <1>3, <1>4 DEF StringsNext

LEMMA ZeroIsNumber ==
  ASSUME NEW k \in Kinds
  PROVE  0 \in Numbers(k) /\ 0 \in 0..(Width(k.style.bytes) - 1)
<1>1. /\ Width(k.style.bytes) \in Nat \ {0} /\ Width(k.style.bytes) \div 2 \in Nat \ {0}
  BY KindFields, Widths
<1> QED
  BY <1>1 DEF Numbers

\* The edges of a kind are numbers of its type.
LEMMA TriedNumbers ==
  ASSUME NEW k \in Kinds
  PROVE  Edges(k) \subseteq Numbers(k) /\ Deltas(k) \subseteq 0..(Width(k.style.bytes) - 1)
<1> DEFINE w == Width(k.style.bytes)
           h == w \div 2
<1>1. k.style.bytes \in {1, 2, 4, 8} /\ w \in Nat \ {0} /\ w = 2 * h /\ h \in Nat \ {0}
  BY KindFields, Widths
<1>2. ASSUME NEW n \in 0..(w - 1) PROVE Value(k, n) \in Numbers(k)
  <2>1. n \in Nat /\ n < w
    BY <1>1
  <2>2. Unsigned(n, k.style.bytes) = n
    BY <1>1, <2>1, UnsignedSame
  <2>3. CASE IsInt(k.style)
    <3>1. Value(k, n) = IF 2 * n < w THEN n ELSE n - w
      BY <2>2, <2>3 DEF Value, Signed
    <3>2. Numbers(k) = (-h)..(h - 1)
      BY <2>3 DEF Numbers
    <3> HIDE DEF w, h
    <3> QED
      BY <1>1, <2>1, <3>1, <3>2
  <2>4. CASE ~IsInt(k.style)
    BY <2>2, <2>4 DEF Value, Numbers
  <2> QED
    BY <2>3, <2>4
<1>3. 0 \in 0..(w - 1) /\ 1 \in 0..(w - 1) /\ h - 1 \in 0..(w - 1) /\ h \in 0..(w - 1)
      /\ w - 1 \in 0..(w - 1)
  <2> HIDE DEF w, h
  <2> QED
    BY <1>1
<1>4. Edges(k) = {Value(k, n) : n \in {0, 1, h - 1, h, w - 1}} /\ Deltas(k) = {0, 1, h, w - 1}
  BY DEF Edges, Deltas
<1> HIDE DEF w, h
<1>5. Edges(k) \subseteq Numbers(k) /\ Deltas(k) \subseteq 0..(w - 1)
  BY <1>2, <1>3, <1>4
<1> QED
  BY <1>5 DEF w

LEMMA NumbersStayTyped == NumbersTyped /\ (NumbersNext \/ UNCHANGED numbersVars) => NumbersTyped'
<1> SUFFICES ASSUME NumbersTyped, NumbersNext \/ UNCHANGED numbersVars PROVE NumbersTyped'
  OBVIOUS
<1>1. CASE ChangeKind
  <2>1. /\ kind' \in Kinds /\ expected' = <<0, 0>> /\ actual' = <<0, 0>> /\ delta' = 0
    BY <1>1 DEF ChangeKind, NoNumbers
  <2>2. 0 \in Numbers(kind') /\ 0 \in 0..(Width(kind'.style.bytes) - 1)
    BY <2>1, ZeroIsNumber
  <2>3. <<0, 0>> \in [1..2 -> Numbers(kind')]
    BY <2>2
  <2>4. Numbers(kind)' = Numbers(kind') /\ Width(kind.style.bytes)' = Width(kind'.style.bytes)
    BY DEF Numbers, IsInt, Width
  <2> QED
    BY <2>1, <2>2, <2>3, <2>4 DEF NumbersTyped
<1>2. CASE ChangeExpected
  BY <1>2, TriedNumbers DEF ChangeExpected, NumbersTyped
<1>3. CASE ChangeActual
  BY <1>3, TriedNumbers DEF ChangeActual, NumbersTyped
<1>4. CASE ChangeDelta
  BY <1>4, TriedNumbers DEF ChangeDelta, NumbersTyped
<1>5. CASE UNCHANGED numbersVars
  BY <1>5 DEF numbersVars, NumbersTyped
<1> QED
  BY <1>1, <1>2, <1>3, <1>4, <1>5 DEF NumbersNext

\* The values tried are numbers of 8 bytes, strings and floats of the range to print, and
\* floats, arrays of characters and numbers of their kind to assert on.
THEOREM ValuesTheorem == Spec => []ValuesTyped
<1>1. Init => ValuesTyped
  <2> SUFFICES ASSUME Init PROVE ValuesTyped
    OBVIOUS
  <2>1. FloatsTyped
    <3>1. 0 \in AllFloats
      BY FloatAssumption DEF AllFloats, NEG_INF, INF, NAN
    <3> QED
      BY <3>1 DEF Init, FloatsInit, FloatsTyped
  <2>2. StringsTyped
    BY CharsAssumption DEF Init, StringsInit, StringsTyped
  <2>3. NumbersTyped
    <3>1. \E k : k \in Kinds
      <4>1. [style |-> Style(1, "CHAR"), cast |-> 1] \in Kinds
        BY DEF Kinds
      <4> QED
        BY <4>1
    <3>2. kind \in Kinds
      BY <3>1 DEF Init, NumbersInit
    <3>3. 0 \in Numbers(kind) /\ 0 \in 0..(Width(kind.style.bytes) - 1)
      BY <3>2, ZeroIsNumber
    <3> QED
      BY <3>2, <3>3 DEF Init, NumbersInit, NoNumbers, NumbersTyped
  <2>4. PrintTyped
    <3>1. Width(8) \in Nat \ {0} /\ <<>> \in Seq(Codes)
      <4>1. 8 \in {1, 2, 4, 8}
        OBVIOUS
      <4> QED
        BY <4>1, Widths
    <3>2. number = 0 /\ strings = <<<<>>, <<>>>>
      BY DEF Init, PrintInit
    <3>3. 0 \in 0..(Width(8) - 1)
      BY <3>1
    <3>4. PICK none \in Seq(Codes) : none = <<>>
      BY <3>1
    <3>5. <<none, none>> \in Seq(Codes) \X Seq(Codes)
      OBVIOUS
    <3> QED
      BY <3>2, <3>3, <3>4, <3>5 DEF PrintTyped
  <2>5. PrintFloatTyped
    <3>1. MaxMantissa \in Nat /\ Below \in Nat /\ Above \in Nat
      BY FloatRangeAssumption
    <3>2. 0 \in 0..MaxMantissa /\ 0 \in (-Below)..Above
      BY <3>1
    <3> QED
      BY <3>2 DEF Init, PrintFloatInit, PrintFloatTyped
  <2> QED
    BY <2>1, <2>2, <2>3, <2>4, <2>5 DEF ValuesTyped
<1>2. ValuesTyped
        /\ [Next]_<<printVars, printFloatVars, numbersVars, stringsVars, floatsVars>>
        => ValuesTyped'
  <2> SUFFICES ASSUME ValuesTyped,
                      [Next]_<<printVars, printFloatVars, numbersVars, stringsVars, floatsVars>>
               PROVE  ValuesTyped'
    OBVIOUS
  <2>1. /\ PrintNext \/ UNCHANGED printVars
        /\ PrintFloatNext \/ UNCHANGED printFloatVars
        /\ FloatsNext \/ UNCHANGED floatsVars
        /\ StringsNext \/ UNCHANGED stringsVars
        /\ NumbersNext \/ UNCHANGED numbersVars
    BY DEF Next
  <2> QED
    BY <2>1, PrintStaysTyped, PrintFloatStaysTyped, FloatsStayTyped, StringsStayTyped,
       NumbersStayTyped DEF ValuesTyped
<1> QED
  BY <1>1, <1>2, PTL DEF Spec

\* What is printed for a number is worth the number (unity.c:198-317): for any number of 8
\* bytes, whatever the bits of a byte.
THEOREM NumbersReadBackTheorem ==
  /\ number \in 0..(Width(8) - 1) => NumbersReadBack
  /\ Spec => []NumbersReadBack
<1>1. ValuesTyped => NumbersReadBack
  BY AnyNumberReadsBack DEF ValuesTyped, PrintTyped
<1>2. Spec => []NumbersReadBack
  BY <1>1, ValuesTheorem, PTL
<1> QED
  BY <1>2, AnyNumberReadsBack

\* What is printed for a string without a backslash tells the string (unity.c:88-195): for
\* any such strings, of any length.
THEOREM TextTellsStringTheorem ==
  /\ PrintTyped => TextTellsString
  /\ Spec => []TextTellsString
<1>1. ValuesTyped => TextTellsString
  BY AnyTextTellsString DEF ValuesTyped
<1>2. Spec => []TextTellsString
  BY <1>1, ValuesTheorem, PTL
<1> QED
  BY <1>2, AnyTextTellsString

\* What is printed of a float is the float within half a unit of its last significant
\* digit, with its sign, and no number where there is none (unity.c:355-517): for any
\* mantissa and any power of ten that the scaling's loops reach, as all floats are, with
\* any number of significant digits from 2 to 7.
THEOREM FloatsReadBackTheorem ==
  /\ PrintFloatTyped => FloatsReadBack
  /\ Spec => []FloatsReadBack
<1>1. ValuesTyped => FloatsReadBack
  BY AnyFloatReadsBack DEF ValuesTyped
<1>2. Spec => []FloatsReadBack
  BY <1>1, ValuesTheorem, PTL
<1> QED
  BY <1>2, AnyFloatReadsBack

\* What is printed of a float has no more digits than the significant ones, no zero at its
\* end behind the point, and one digit in front of it if an exponent follows
\* (unity.c:461-515): for the same floats.
THEOREM TextsAreShortTheorem ==
  /\ PrintFloatTyped => TextsAreShort
  /\ Spec => []TextsAreShort
<1>1. ValuesTyped => TextsAreShort
  BY AnyTextIsShort DEF ValuesTyped
<1>2. Spec => []TextsAreShort
  BY <1>1, ValuesTheorem, PTL
<1> QED
  BY <1>2, AnyTextIsShort

\* A failed assertion of equality shows two different texts (unity.c:744-803, 962-978,
\* 320-344): for any numbers of any kind.
THEOREM DifferenceShowsTheorem ==
  /\ NumbersTyped => DifferenceShows
  /\ Spec => []DifferenceShows
<1>1. ValuesTyped => DifferenceShows
  BY AnyDifferenceShows DEF ValuesTyped
<1>2. Spec => []DifferenceShows
  BY <1>1, ValuesTheorem, PTL
<1> QED
  BY <1>2, AnyDifferenceShows

\* Assertions on single integers are exact (unity.c:765-864, 1477-1539,
\* unity_internals.h:983-1159): for any numbers of any kind, and so wherever the run goes.
THEOREM ScalarsAreExactTheorem ==
  /\ NumbersTyped => ScalarsAreExact
  /\ Spec => []ScalarsAreExact
<1>1. ValuesTyped => ScalarsAreExact
  BY AnyNumbersExact DEF ValuesTyped
<1>2. Spec => []ScalarsAreExact
  BY <1>1, ValuesTheorem, PTL
<1> QED
  BY <1>2, AnyNumbersExact

\* Assertions on arrays of integers, which are compared as they are read back from their
\* bytes, pass exactly when those on single ones do for each element, and else name the
\* first that fails (unity.c:875-986, 1542-1703, 1954-1979).
THEOREM ArraysAreScalarsTheorem ==
  /\ NumbersTyped => ArraysAreScalars
  /\ Spec => []ArraysAreScalars
<1>1. ValuesTyped => ArraysAreScalars
  BY AnyNumberArraysExact DEF ValuesTyped
<1>2. Spec => []ArraysAreScalars
  BY <1>1, ValuesTheorem, PTL
<1> QED
  BY <1>2, AnyNumberArraysExact

\* Assertions on single floats are exact (unity.c:991-1003, 1106-1177): for any floats,
\* infinite ones and NaN included, whatever the greatest float and the precision.
THEOREM FloatsAreExactTheorem ==
  /\ FloatsTyped => FloatsAreExact
  /\ Spec => []FloatsAreExact
<1>1. ValuesTyped => FloatsAreExact
  BY AnyFloatsExact DEF ValuesTyped
<1>2. Spec => []FloatsAreExact
  BY <1>1, ValuesTheorem, PTL
<1> QED
  BY <1>2, AnyFloatsExact

\* Assertions on arrays of floats agree with those on single floats (unity.c:1026-1103).
THEOREM ArraysAreFloatsTheorem ==
  /\ FloatsTyped => ArraysAreFloats
  /\ Spec => []ArraysAreFloats
<1>1. ValuesTyped => ArraysAreFloats
  BY AnyFloatArraysExact DEF ValuesTyped
<1>2. Spec => []ArraysAreFloats
  BY <1>1, ValuesTheorem, PTL
<1> QED
  BY <1>2, AnyFloatArraysExact

\* Each float has one trait, the same as the floats equal to it (unity.c:991-1003,
\* 1181-1243).
THEOREM TraitsRespectEqualityTheorem ==
  /\ FloatsTyped => TraitsRespectEquality
  /\ Spec => []TraitsRespectEquality
<1>1. ValuesTyped => TraitsRespectEquality
  BY AnyFloatHasTrait DEF ValuesTyped
<1>2. Spec => []TraitsRespectEquality
  BY <1>1, ValuesTheorem, PTL
<1> QED
  BY <1>2, AnyFloatHasTrait

\* String assertions compare the texts (unity.c:1706-1865): for any arrays of characters,
\* of any length.
THEOREM StringsCompareExactlyTheorem ==
  /\ StringsTyped => StringsCompareExactly
  /\ Spec => []StringsCompareExactly
<1>1. ValuesTyped => StringsCompareExactly
  BY AnyStringsExact DEF ValuesTyped
<1>2. Spec => []StringsCompareExactly
  BY <1>1, ValuesTheorem, PTL
<1> QED
  BY <1>2, AnyStringsExact

\* No comparison of strings reads behind the end of a text (unity.c:1718, 1758, 1835).
THEOREM NoReadBeyondTheorem ==
  /\ StringsTyped => NoReadBeyond
  /\ Spec => []NoReadBeyond
<1>1. ValuesTyped => NoReadBeyond
  BY AnyStringsReadInside DEF ValuesTyped
<1>2. Spec => []NoReadBeyond
  BY <1>1, ValuesTheorem, PTL
<1> QED
  BY <1>2, AnyStringsReadInside

\* Memory assertions compare every byte of every element (unity.c:1868-1937).
THEOREM MemoryIsExactTheorem ==
  /\ StringsTyped => MemoryIsExact
  /\ Spec => []MemoryIsExact
<1>1. ValuesTyped => MemoryIsExact
  BY AnyMemoryExact DEF ValuesTyped
<1>2. Spec => []MemoryIsExact
  BY <1>1, ValuesTheorem, PTL
<1> QED
  BY <1>2, AnyMemoryExact
================================================================================
