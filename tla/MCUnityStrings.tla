----------------------------- MODULE MCUnityStrings -----------------------------
(***************************************************************************)
(* Unity's assertions on strings and memory, on every pair of short arrays, *)
(* with their 0 and without: two arrays, changed one at a time.             *)
(***************************************************************************)
EXTENDS UnityAsserts

CONSTANTS Chars,      \* the characters of the arrays, 0 among them,
          MaxArray    \* and how long the arrays are

ASSUME CharsAssumption == Chars \subseteq Nat /\ 0 \in Chars /\ MaxArray \in Nat

VARIABLES x, y, length

stringsVars == <<x, y, length>>

Arrays == UNION {[1..n -> Chars] : n \in 0..MaxArray}

StringsInit == x = <<0>> /\ y = <<0>> /\ length = MaxArray

ChangeX == x' \in Arrays /\ UNCHANGED <<y, length>>
ChangeY == y' \in Arrays /\ UNCHANGED <<x, length>>
ChangeLength == length' \in 0..(MaxArray + 1) /\ UNCHANGED <<x, y>>

StringsNext == ChangeX \/ ChangeY \/ ChangeLength

arrays == [X |-> x, Y |-> y]
Names  == {"X", "Y", NULL}

IsString(array) == 0 \in ToSet(array)
AreStrings      == IsString(x) /\ IsString(y)

Cut(array) == SubSeq(array, 1, Min({length, Len(array)}))

\* The text that a name stands for; NULL has none, which is no text of Chars.
Text(name) == IF name = NULL THEN <<-1>> ELSE Terminated(arrays[name])

\* A string assertion passes exactly when the texts are the same, up to the
\* length if there is one, where neither needs a 0, and NULL equals NULL only;
\* one on arrays passes exactly when each element is the same text, or names
\* the first that is not (unity.c:1706-1865).  What takes no length is tried at one.
StringsCompareExactly ==
  /\ AreStrings /\ length = 0 =>
       /\ \A e, a \in Names :
            UnityAssertEqualString(arrays, e, a).ok = (Text(e) = Text(a))
       /\ \A e, a \in Names \X Names :
            UnityAssertEqualStringArray(arrays, e, a, 2, UNITY_ARRAY_TO_ARRAY)
              = FirstOf([j \in {j \in 0..1 : Text(e[j + 1]) # Text(a[j + 1])}
                         |-> UnityPrintExpectedAndActualStrings(arrays, e[j + 1], a[j + 1])])
       /\ \A e \in {"X", "Y"}, a \in Names \X Names :
            UnityAssertEqualStringArray(arrays, e, a, 2, UNITY_ARRAY_TO_VAL).ok
              = \A j \in 1..2 : Text(a[j]) = Text(e)
  /\ (\A a \in {x, y} : IsString(a) \/ length <= Len(a)) =>
       UnityAssertEqualStringLen(arrays, "X", "Y", length).ok
         = (Terminated(Cut(x)) = Terminated(Cut(y)))

\* A comparison reads no character behind the 0 of either string, and without a
\* 0 none behind the length, also where only one has a 0 (unity.c:1718, 1758, 1835).
NoReadBeyond ==
  LET Read(bound) == {i \in 0..LoopEnds(x, y, bound) : i < bound}
      LastRead(a) == IF IsString(a) THEN Len(Terminated(a)) ELSE Len(a) - 1
      InBoth      == 0..Min({LastRead(x), LastRead(y)})
  IN  /\ AreStrings => Read(Endless(arrays, "X", "Y")) \subseteq InBoth
      /\ (\A a \in {x, y} : IsString(a) \/ length <= Len(a)) => Read(length) \subseteq InBoth

\* The memory assertion passes exactly when all bytes are the same, in every
\* element, and else names the element of the first that is not (unity.c:1868-1937).
MemoryIsExact ==
  LET twice == [arrays EXCEPT !.Y = x \o y]
  IN  length > 0 /\ length <= Len(x) =>
        /\ length <= Len(y) =>
             UnityAssertEqualMemory(arrays, "X", "Y", length, 1, UNITY_ARRAY_TO_ARRAY).ok
               = (Cut(x) = Cut(y))
        /\ Len(x) = length /\ Len(y) = length =>
             LET each == UnityAssertEqualMemory(twice, "X", "Y", length, 2, UNITY_ARRAY_TO_VAL)
             IN  each.ok = (x = y) /\ (~each.ok => each.element = 1)
================================================================================
