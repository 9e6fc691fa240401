--------------------------- MODULE UnityRunnerProofs ---------------------------
(***************************************************************************)
(* What Unity's runner keeps, whatever the tests of a suite do and however *)
(* many there are.                                                         *)
(***************************************************************************)
EXTENDS UnityRunner, TLAPS, FiniteSetTheorems

Verdicts == {"PASS", "FAIL", "IGNORE"}
Reports  == [test : Nat, tag : Verdicts \cup {"INFO"}, details : SUBSET Nat]
Running  == {"setUp", "func", "second_protect", "tearDown", "conclude"}

Storage ==
  [AbortFrame : {"none", "second_protect", "conclude"},
   NumberOfTests : Nat, TestFailures : Nat, TestIgnores : Nat, CurrentTestName : Nat,
   CurrentTestFailed : BOOLEAN, CurrentTestIgnored : BOOLEAN,
   CurrentDetail1 : Nat, CurrentDetail2 : Nat]

RunTypeOK ==
  /\ Unity \in Storage
  /\ pc \in Running \cup {"start", "main", "ended"}
  /\ line \in Seq(Reports)
  /\ lines \in Seq(Seq(Reports))
  /\ said \in Verdicts
  /\ outcomes \in Seq(Verdicts)
  /\ tearDowns \in {0, 1}

\* Where an abort goes on, and whether it leads to tearDown.
FlowInv ==
  /\ pc \in {"setUp", "func"} => Unity.AbortFrame = "second_protect"
  /\ pc = "tearDown" => Unity.AbortFrame = "conclude"
  /\ pc \in {"setUp", "func", "second_protect"} => tearDowns = 0
  /\ pc \in {"tearDown", "conclude"} => tearDowns = 1

\* The flags say what the test said first.
FlagsInv ==
  /\ pc \in Running => /\ Unity.CurrentTestFailed = (said = "FAIL")
                       /\ Unity.CurrentTestIgnored = (said = "IGNORE")
                       /\ Unity.CurrentTestName = Len(outcomes) + 1
                       /\ Unity.NumberOfTests = Len(outcomes) + 1
  /\ pc \notin Running => ~Decided /\ Unity.NumberOfTests = Len(outcomes)

CountsInv ==
  /\ Unity.TestFailures = Count("FAIL")
  /\ Unity.TestIgnores = Count("IGNORE")
  /\ pc = "ended" => summary = [tests |-> Len(outcomes), failures |-> Count("FAIL"),
                                ignored |-> Count("IGNORE"), ok |-> Count("FAIL") = 0]

DetailsInv ==
  /\ pc \in Running => {Unity.CurrentDetail1, Unity.CurrentDetail2}
                         \subseteq {NoDetail, Unity.CurrentTestName}
  /\ \A i \in DOMAIN line : line[i].details \subseteq {line[i].test}
  /\ DetailsAreOwn

\* The verdicts on the lines before this one: a decided test whose verdict's line a
\* message has ended is already among them.
Told == IF Decided /\ line = <<>> THEN Append(outcomes, said) ELSE outcomes

LinesInv ==
  /\ line # <<>> => /\ Decided /\ Len(line) = 1
                    /\ line[1].test = Unity.CurrentTestName /\ line[1].tag = said
  /\ \A k \in DOMAIN lines : \A i \in DOMAIN lines[k] :
       /\ lines[k][i].test = lines[k][1].test
       /\ lines[k][i].tag = "INFO" \/ i = 1
  /\ Cardinality(VerdictLines) = Len(Told)
  /\ \A k \in VerdictLines : /\ lines[k][1].test = Place(k)
                             /\ lines[k][1].tag = Told[Place(k)]

RunInv == RunTypeOK /\ FlowInv /\ FlagsInv /\ CountsInv /\ DetailsInv /\ LinesInv

--------------------------------------------------------------------------------
(***************************************************************************)
(* Counting.                                                               *)
(***************************************************************************)

CountIn(s, v) == Cardinality({k \in DOMAIN s : s[k] = v})

\* One more test with a verdict counts for that verdict and no other.
LEMMA CountAppend ==
  ASSUME NEW s \in Seq(Verdicts), NEW x \in Verdicts, NEW v
  PROVE  /\ CountIn(s, v) \in Nat
         /\ CountIn(Append(s, x), v) = IF x = v THEN CountIn(s, v) + 1 ELSE CountIn(s, v)
<1> DEFINE A == {k \in DOMAIN s : s[k] = v}
           B == {k \in DOMAIN Append(s, x) : Append(s, x)[k] = v}
<1>1. /\ Len(s) \in Nat /\ DOMAIN s = 1..Len(s) /\ DOMAIN Append(s, x) = 1..(Len(s) + 1)
      /\ \A k \in 1..Len(s) : Append(s, x)[k] = s[k]
      /\ Append(s, x)[Len(s) + 1] = x
  OBVIOUS
<1>2. IsFiniteSet(A) /\ Cardinality(A) \in Nat
  <2>1. IsFiniteSet(1..Len(s)) /\ A \subseteq 1..Len(s)
    BY <1>1, FS_Interval
  <2>2. IsFiniteSet(A)
    BY <2>1, FS_Subset
  <2> QED
    BY <2>2, FS_CardinalityType
<1>3. B = IF x = v THEN A \cup {Len(s) + 1} ELSE A
  BY <1>1
<1>4. Len(s) + 1 \notin A
  BY <1>1
<1> HIDE DEF A, B
<1>5. Cardinality(A \cup {Len(s) + 1}) = Cardinality(A) + 1
  BY <1>2, <1>4, FS_AddElement
<1>6. Cardinality(B) = IF x = v THEN Cardinality(A) + 1 ELSE Cardinality(A)
  BY <1>3, <1>5
<1> QED
  BY <1>2, <1>6 DEF A, B, CountIn

\* The verdict lines and their places.
LEMMA Places ==
  ASSUME RunTypeOK
  PROVE  /\ IsFiniteSet(VerdictLines) /\ VerdictLines \subseteq 1..Len(lines)
         /\ Cardinality(VerdictLines) \in Nat
         /\ \A k \in VerdictLines : Place(k) \in 1..Cardinality(VerdictLines)
<1>1. Len(lines) \in Nat /\ DOMAIN lines = 1..Len(lines)
  BY DEF RunTypeOK
<1>2. VerdictLines \subseteq 1..Len(lines)
  BY <1>1 DEF VerdictLines
<1>3. IsFiniteSet(VerdictLines) /\ Cardinality(VerdictLines) \in Nat
  <2>1. IsFiniteSet(1..Len(lines))
    BY <1>1, FS_Interval
  <2>2. IsFiniteSet(VerdictLines)
    BY <1>2, <2>1, FS_Subset
  <2> QED
    BY <2>2, FS_CardinalityType
<1>4. ASSUME NEW k \in VerdictLines PROVE Place(k) \in 1..Cardinality(VerdictLines)
  <2> DEFINE P == {j \in VerdictLines : j <= k}
  <2>1. P \subseteq VerdictLines /\ k \in P
    BY <1>1, <1>2
  <2> HIDE DEF P
  <2>2. IsFiniteSet(P) /\ Cardinality(P) <= Cardinality(VerdictLines)
    BY <1>3, <2>1, FS_Subset
  <2>3. Cardinality(P) \in Nat /\ Cardinality(P) # 0
    BY <2>1, <2>2, FS_CardinalityType, FS_EmptySet
  <2>4. Cardinality(P) \in 1..Cardinality(VerdictLines)
    BY <1>3, <2>2, <2>3
  <2> QED
    BY <2>4 DEF Place, P
<1> QED
  BY <1>2, <1>3, <1>4

\* A line more, and what is told with it.
LEMMA LineEnds ==
  ASSUME RunTypeOK, NEW text \in Seq(Reports), lines' = Append(lines, text),
         NEW n, n = Len(lines) + 1
  PROVE  LET tells == text # <<>> /\ text[1].tag # "INFO"
         IN  /\ \A k \in DOMAIN lines' : lines'[k] = IF k = n THEN text ELSE lines[k]
             /\ DOMAIN lines' = DOMAIN lines \cup {n}
             /\ n \notin VerdictLines
             /\ VerdictLines' = IF tells THEN VerdictLines \cup {n} ELSE VerdictLines
             /\ \A k \in VerdictLines : Place(k)' = Place(k)
             /\ tells => /\ Cardinality(VerdictLines)' = Cardinality(VerdictLines) + 1
                         /\ Place(n)' = Cardinality(VerdictLines) + 1
<1> DEFINE tells == text # <<>> /\ text[1].tag # "INFO"
<1>1. /\ Len(lines) \in Nat /\ DOMAIN lines = 1..Len(lines) /\ DOMAIN lines' = 1..n
      /\ \A k \in DOMAIN lines' : lines'[k] = IF k = n THEN text ELSE lines[k]
  BY DEF RunTypeOK
<1>2. DOMAIN lines' = DOMAIN lines \cup {n} /\ n \notin DOMAIN lines
  BY <1>1
<1>3. VerdictLines \subseteq 1..Len(lines) /\ IsFiniteSet(VerdictLines)
  BY Places
<1>4. \A k \in VerdictLines : k \in Nat /\ k < n
  BY <1>1, <1>3
<1>5. VerdictLines' = IF tells THEN VerdictLines \cup {n} ELSE VerdictLines
  <2>1. VerdictLines' = {k \in DOMAIN lines' : lines'[k] # <<>> /\ lines'[k][1].tag # "INFO"}
    BY DEF VerdictLines
  <2>2. \A k \in DOMAIN lines : lines'[k] = lines[k]
    BY <1>1, <1>2
  <2>3. lines'[n] = text /\ n \in DOMAIN lines'
    BY <1>1, <1>2
  <2> QED
    BY <1>2, <2>1, <2>2, <2>3 DEF VerdictLines
<1>6. ASSUME NEW k \in VerdictLines PROVE Place(k)' = Place(k)
  <2>1. {j \in VerdictLines' : j <= k} = {j \in VerdictLines : j <= k}
    BY <1>1, <1>4, <1>5
  <2> QED
    BY <2>1 DEF Place
<1>7. ASSUME tells
      PROVE  /\ Cardinality(VerdictLines)' = Cardinality(VerdictLines) + 1
             /\ Place(n)' = Cardinality(VerdictLines) + 1
  <2>1. VerdictLines' = VerdictLines \cup {n} /\ n \notin VerdictLines
    BY <1>4, <1>5, <1>7
  <2>2. Cardinality(VerdictLines \cup {n}) = Cardinality(VerdictLines) + 1
    BY <1>3, <2>1, FS_AddElement
  <2>3. {j \in VerdictLines' : j <= n} = VerdictLines'
    BY <1>1, <1>4, <2>1
  <2> QED
    BY <2>1, <2>2, <2>3 DEF Place
<1> QED
  BY <1>1, <1>2, <1>4, <1>5, <1>6, <1>7

--------------------------------------------------------------------------------
(***************************************************************************)
(* The lines, when one ends.                                               *)
(***************************************************************************)
OneTest(text) == \A i \in DOMAIN text : /\ text[i].test = text[1].test
                                        /\ text[i].tag = "INFO" \/ i = 1

LEMMA TellsNoMore ==
  ASSUME RunTypeOK, LinesInv, NEW text \in Seq(Reports), OneTest(text),
         text = <<>> \/ text[1].tag = "INFO",
         lines' = Append(lines, text), line' = <<>>, Told' = Told
  PROVE  LinesInv'
<1> PICK n : n = Len(lines) + 1
  OBVIOUS
<1>1. /\ \A k \in DOMAIN lines' : lines'[k] = text \/ (k \in DOMAIN lines /\ lines'[k] = lines[k])
      /\ VerdictLines' = VerdictLines
      /\ \A k \in VerdictLines : Place(k)' = Place(k)
      /\ \A k \in VerdictLines : lines'[k] = lines[k]
  <2>1. VerdictLines \subseteq DOMAIN lines
    BY DEF VerdictLines
  <2> QED
    BY <2>1, LineEnds
<1>2. ASSUME NEW k \in DOMAIN lines', NEW i \in DOMAIN lines'[k]
      PROVE  /\ lines'[k][i].test = lines'[k][1].test
             /\ lines'[k][i].tag = "INFO" \/ i = 1
  BY <1>1, <1>2 DEF LinesInv, OneTest
<1>3. Cardinality(VerdictLines)' = Len(Told')
  BY <1>1 DEF LinesInv
<1>4. \A k \in VerdictLines' : /\ lines'[k][1].test = Place(k)'
                               /\ lines'[k][1].tag = Told'[Place(k)']
  BY <1>1 DEF LinesInv
<1> QED
  BY <1>2, <1>3, <1>4 DEF LinesInv

LEMMA TellsOneMore ==
  ASSUME RunTypeOK, LinesInv, NEW text \in Seq(Reports), OneTest(text), text # <<>>,
         text[1].tag = said, text[1].test = Len(outcomes) + 1, Told = outcomes,
         lines' = Append(lines, text), line' = <<>>, Told' = Append(outcomes, said)
  PROVE  LinesInv'
<1> PICK n : n = Len(lines) + 1
  OBVIOUS
<1> DEFINE V == VerdictLines
<1>1. said # "INFO" /\ said \in Verdicts /\ outcomes \in Seq(Verdicts) /\ Len(outcomes) \in Nat
  BY DEF RunTypeOK, Verdicts
<1>2. /\ \A k \in DOMAIN lines' : lines'[k] = text \/ (k \in DOMAIN lines /\ lines'[k] = lines[k])
      /\ VerdictLines' = V \cup {n} /\ lines'[n] = text
      /\ \A k \in V : Place(k)' = Place(k)
      /\ \A k \in V : lines'[k] = lines[k]
      /\ Cardinality(VerdictLines)' = Cardinality(V) + 1
      /\ Place(n)' = Cardinality(V) + 1
  <2>1. VerdictLines \subseteq DOMAIN lines
    BY DEF VerdictLines
  <2> QED
    BY <1>1, <2>1, LineEnds
<1>3. Cardinality(V) = Len(outcomes) /\ \A k \in V : Place(k) \in 1..Len(outcomes)
  BY Places DEF LinesInv
<1>4. /\ Len(Told') = Len(outcomes) + 1 /\ Told'[Len(outcomes) + 1] = said
      /\ \A j \in 1..Len(outcomes) : Told'[j] = outcomes[j]
  BY <1>1
<1>5. ASSUME NEW k \in DOMAIN lines', NEW i \in DOMAIN lines'[k]
      PROVE  /\ lines'[k][i].test = lines'[k][1].test
             /\ lines'[k][i].tag = "INFO" \/ i = 1
  BY <1>2, <1>5 DEF LinesInv, OneTest
<1>6. Cardinality(VerdictLines)' = Len(Told')
  BY <1>2, <1>3, <1>4
<1>7. ASSUME NEW k \in VerdictLines'
      PROVE  lines'[k][1].test = Place(k)' /\ lines'[k][1].tag = Told'[Place(k)']
  <2>1. CASE k = n
    <3>1. Place(k)' = Len(outcomes) + 1
      BY <1>2, <1>3, <2>1 DEF Place
    <3>2. lines'[k] = text
      BY <1>2, <2>1
    <3> QED
      BY <1>4, <3>1, <3>2
  <2>2. CASE k \in V
    <3>1. Place(k)' = Place(k) /\ Place(k) \in 1..Len(outcomes)
      BY <1>2, <1>3, <2>2
    <3>2. lines'[k] = lines[k]
      BY <1>2, <2>2
    <3>3. lines[k][1].test = Place(k) /\ lines[k][1].tag = outcomes[Place(k)]
      BY <2>2 DEF LinesInv
    <3> QED
      BY <1>4, <3>1, <3>2, <3>3
  <2> QED
    BY <1>2, <2>1, <2>2
<1> QED
  BY <1>5, <1>6, <1>7 DEF LinesInv

--------------------------------------------------------------------------------
(***************************************************************************)
(* What a test does.                                                       *)
(***************************************************************************)

\* A step within a test that only moves on.
LEMMA MovesOn ==
  ASSUME RunInv, pc \in Running, pc' \in Running, FlowInv',
         UNCHANGED <<Unity, line, lines, said, outcomes, tearDowns>>
  PROVE  RunInv'
<1>1. RunTypeOK'
  BY DEF RunInv, RunTypeOK
<1>2. Decided' = Decided /\ Told' = Told /\ VerdictLines' = VerdictLines
  BY DEF Decided, Told, VerdictLines
<1>3. FlagsInv'
  BY DEF RunInv, FlagsInv
<1>4. CountsInv'
  BY DEF RunInv, CountsInv, Running, Count
<1>5. DetailsInv'
  BY DEF RunInv, DetailsInv, DetailsAreOwn
<1>6. LinesInv'
  <2>1. ASSUME NEW k \in VerdictLines PROVE Place(k)' = Place(k)
    BY <1>2 DEF Place
  <2> QED
    BY <1>2, <2>1 DEF RunInv, LinesInv
<1> QED
  BY <1>1, <1>3, <1>4, <1>5, <1>6 DEF RunInv

\* An abort goes on behind the TEST_PROTECT it came from.
LEMMA AbortFlows ==
  ASSUME RunInv, InTest, TEST_ABORT, tearDowns' = tearDowns
  PROVE  pc' \in {"second_protect", "conclude"} /\ FlowInv'
  BY DEF RunInv, FlowInv, InTest, TEST_ABORT

LEMMA AbortMovesOn ==
  ASSUME RunInv, InTest, TEST_ABORT, UNCHANGED <<Unity, line, lines, said, outcomes, tearDowns>>
  PROVE  RunInv'
<1>1. pc \in Running
  BY DEF InTest, Running
<1>2. pc' \in Running /\ FlowInv'
  BY AbortFlows DEF Running
<1> QED
  BY <1>1, <1>2, MovesOn

\* Whoever has a verdict has said something.
LEMMA DecidedSaid ==
  ASSUME RunInv, pc \in Running
  PROVE  Decided <=> said # "PASS"
  BY DEF RunInv, FlagsInv, Decided, RunTypeOK, Verdicts

LEMMA PhaseReturnsRun ==
  ASSUME RunInv, PhaseReturns
  PROVE  RunInv'
<1>1. pc \in Running /\ UNCHANGED <<Unity, line, lines, said, outcomes, tearDowns>>
  BY DEF PhaseReturns, InTest, Running, history
<1>2. pc' \in Running /\ FlowInv'
  BY DEF PhaseReturns, InTest, Running, history, RunInv, FlowInv
<1> QED
  BY <1>1, <1>2, MovesOn

\* The first verdict of a test.
LEMMA VerdictRun ==
  ASSUME RunInv, InTest, ~Decided, TEST_ABORT, NEW verdict \in {"FAIL", "IGNORE"},
         NEW d, d \subseteq {Unity.CurrentTestName},
         line' = Append(line, Report(verdict, d)),
         Unity' = IF verdict = "FAIL" THEN [Unity EXCEPT !.CurrentTestFailed = TRUE]
                                      ELSE [Unity EXCEPT !.CurrentTestIgnored = TRUE],
         said' = verdict,
         UNCHANGED <<lines, outcomes, tearDowns>>
  PROVE  RunInv'
<1>1. pc \in Running /\ said = "PASS" /\ line = <<>> /\ pc # "ended"
  BY DecidedSaid DEF InTest, Running, RunInv, LinesInv
<1>2. /\ Unity \in Storage /\ Unity.CurrentTestName \in Nat
      /\ lines \in Seq(Seq(Reports)) /\ outcomes \in Seq(Verdicts) /\ tearDowns \in {0, 1}
  BY DEF RunInv, RunTypeOK, Storage
<1>3. /\ Report(verdict, d) \in Reports
      /\ Report(verdict, d).test = Unity.CurrentTestName
      /\ Report(verdict, d).tag = verdict
      /\ Report(verdict, d).details = d
  BY <1>2 DEF Report, Reports, Verdicts
<1>4. /\ line' \in Seq(Reports) /\ Len(line') = 1 /\ line' # <<>> /\ DOMAIN line' = {1}
      /\ line'[1] = Report(verdict, d)
  BY <1>1, <1>3
<1>5. /\ Unity' \in Storage
      /\ Unity'.CurrentTestFailed = (verdict = "FAIL")
      /\ Unity'.CurrentTestIgnored = (verdict = "IGNORE")
      /\ Unity'.AbortFrame = Unity.AbortFrame
      /\ Unity'.NumberOfTests = Unity.NumberOfTests
      /\ Unity'.TestFailures = Unity.TestFailures /\ Unity'.TestIgnores = Unity.TestIgnores
      /\ Unity'.CurrentTestName = Unity.CurrentTestName
      /\ Unity'.CurrentDetail1 = Unity.CurrentDetail1
      /\ Unity'.CurrentDetail2 = Unity.CurrentDetail2
  BY <1>2 DEF Decided, Storage
<1>6. pc' \in {"second_protect", "conclude"} /\ FlowInv'
  BY AbortFlows
<1>7. RunTypeOK'
  BY <1>2, <1>4, <1>5, <1>6 DEF RunTypeOK, Verdicts, Running
<1>8. FlagsInv'
  BY <1>1, <1>5, <1>6 DEF RunInv, FlagsInv, Running
<1>9. CountsInv'
  BY <1>5, <1>6 DEF RunInv, CountsInv, Count
<1>10. DetailsInv'
  BY <1>1, <1>3, <1>4, <1>5 DEF RunInv, DetailsInv, DetailsAreOwn
<1>11. LinesInv'
  <2>1. Decided' /\ Told' = outcomes /\ Told = outcomes
    BY <1>4, <1>5 DEF Decided, Told
  <2>2. VerdictLines' = VerdictLines
    BY DEF VerdictLines
  <2>3. ASSUME NEW k \in VerdictLines PROVE Place(k)' = Place(k)
    BY <2>2 DEF Place
  <2> QED
    BY <1>3, <1>4, <1>5, <2>1, <2>2, <2>3 DEF RunInv, LinesInv
<1> QED
  BY <1>6, <1>7, <1>8, <1>9, <1>10, <1>11 DEF RunInv

LEMMA UnityFailRun ==
  ASSUME RunInv, UnityFail
  PROVE  RunInv'
<1>1. UNCHANGED <<lines, outcomes, tearDowns>> /\ InTest /\ TEST_ABORT /\ pc \in Running
  BY DEF UnityFail, RETURN_IF_FAIL_OR_IGNORE, InTest, Running
<1>2. CASE Decided
  <2>1. said' = said
    BY <1>1, <1>2, DecidedSaid DEF UnityFail, Says
  <2> QED
    BY <1>1, <1>2, <2>1, AbortMovesOn DEF UnityFail, RETURN_IF_FAIL_OR_IGNORE
<1>3. CASE ~Decided
  <2>1. /\ line' = Append(line, Report("FAIL", Details))
        /\ Unity' = [Unity EXCEPT !.CurrentTestFailed = TRUE]
    BY <1>3 DEF UnityFail, RETURN_IF_FAIL_OR_IGNORE
  <2>2. Details \subseteq {Unity.CurrentTestName}
    BY <1>1 DEF Details, RunInv, DetailsInv
  <2>3. said' = "FAIL"
    BY <1>1, <1>3, DecidedSaid DEF UnityFail, Says
  <2> QED
    BY <1>1, <1>3, <2>1, <2>2, <2>3, VerdictRun
<1> QED
  BY <1>2, <1>3

LEMMA UnityIgnoreRun ==
  ASSUME RunInv, UnityIgnore
  PROVE  RunInv'
<1>1. UNCHANGED <<lines, outcomes, tearDowns>> /\ InTest /\ TEST_ABORT /\ pc \in Running
  BY DEF UnityIgnore, RETURN_IF_FAIL_OR_IGNORE, InTest, Running
<1>2. CASE Decided
  <2>1. said' = said
    BY <1>1, <1>2, DecidedSaid DEF UnityIgnore, Says
  <2> QED
    BY <1>1, <1>2, <2>1, AbortMovesOn DEF UnityIgnore, RETURN_IF_FAIL_OR_IGNORE
<1>3. CASE ~Decided
  <2>1. /\ line' = Append(line, Report("IGNORE", {}))
        /\ Unity' = [Unity EXCEPT !.CurrentTestIgnored = TRUE]
    BY <1>3 DEF UnityIgnore, RETURN_IF_FAIL_OR_IGNORE
  <2>2. said' = "IGNORE"
    BY <1>1, <1>3, DecidedSaid DEF UnityIgnore, Says
  <2> QED
    BY <1>1, <1>3, <2>1, <2>2, VerdictRun
<1> QED
  BY <1>2, <1>3

LEMMA UNITY_SET_DETAILSRun ==
  ASSUME RunInv, UNITY_SET_DETAILS
  PROVE  RunInv'
<1>1. PICK d2 \in {NoDetail, Unity.CurrentTestName} :
        Unity' = [Unity EXCEPT !.CurrentDetail1 = Unity.CurrentTestName, !.CurrentDetail2 = d2]
  BY DEF UNITY_SET_DETAILS
<1>2. /\ pc \in Running /\ pc # "ended"
      /\ UNCHANGED <<pc, line, lines, said, outcomes, tearDowns>>
  BY DEF UNITY_SET_DETAILS, InTest, Running, history
<1>3. Unity \in Storage /\ Unity.CurrentTestName \in Nat /\ d2 \in Nat
  BY DEF RunInv, RunTypeOK, Storage, NoDetail
<1>4. /\ Unity' \in Storage
      /\ Unity'.AbortFrame = Unity.AbortFrame
      /\ Unity'.NumberOfTests = Unity.NumberOfTests
      /\ Unity'.TestFailures = Unity.TestFailures /\ Unity'.TestIgnores = Unity.TestIgnores
      /\ Unity'.CurrentTestName = Unity.CurrentTestName
      /\ Unity'.CurrentTestFailed = Unity.CurrentTestFailed
      /\ Unity'.CurrentTestIgnored = Unity.CurrentTestIgnored
      /\ Unity'.CurrentDetail1 = Unity.CurrentTestName /\ Unity'.CurrentDetail2 = d2
  BY <1>1, <1>3 DEF Storage
<1>5. RunTypeOK'
  BY <1>2, <1>4 DEF RunInv, RunTypeOK
<1>6. FlowInv'
  BY <1>2, <1>4 DEF RunInv, FlowInv
<1>7. Decided' = Decided /\ Told' = Told
  BY <1>2, <1>4 DEF Decided, Told
<1>8. FlagsInv'
  BY <1>2, <1>4, <1>7 DEF RunInv, FlagsInv
<1>9. CountsInv'
  BY <1>2, <1>4 DEF RunInv, CountsInv, Count
<1>10. DetailsInv'
  BY <1>2, <1>4 DEF RunInv, DetailsInv, DetailsAreOwn
<1>11. LinesInv'
  <2>1. VerdictLines' = VerdictLines
    BY <1>2 DEF VerdictLines
  <2>2. ASSUME NEW k \in VerdictLines PROVE Place(k)' = Place(k)
    BY <2>1 DEF Place
  <2> QED
    BY <1>2, <1>4, <1>7, <2>1, <2>2 DEF RunInv, LinesInv
<1> QED
  BY <1>5, <1>6, <1>8, <1>9, <1>10, <1>11 DEF RunInv

LEMMA UnityMessageRun ==
  ASSUME RunInv, UnityMessage
  PROVE  RunInv'
<1> DEFINE info == Report("INFO", {})
           text == Append(line, info)
<1>1. /\ lines' = Append(lines, text) /\ line' = <<>>
      /\ pc \in Running /\ pc # "ended"
      /\ UNCHANGED <<Unity, pc, said, outcomes, tearDowns>>
  BY DEF UnityMessage, UNITY_PRINT_EOL, InTest, Running, history
<1>2. /\ line \in Seq(Reports) /\ lines \in Seq(Seq(Reports)) /\ Unity.CurrentTestName \in Nat
      /\ said \in Verdicts
  BY DEF RunInv, RunTypeOK, Storage
<1>3. /\ info \in Reports /\ info.test = Unity.CurrentTestName /\ info.tag = "INFO"
      /\ info.details = {}
  BY <1>2 DEF Report, Reports
<1> HIDE DEF info
<1>4. /\ text \in Seq(Reports) /\ text # <<>>
      /\ line = <<>> => (Len(text) = 1 /\ text[1] = info)
      /\ Len(line) = 1 => (Len(text) = 2 /\ text[1] = line[1] /\ text[2] = info)
      /\ \A i \in DOMAIN text : (i \in DOMAIN line /\ text[i] = line[i]) \/ text[i] = info
      /\ DOMAIN text = 1..Len(text)
  <2>1. /\ text \in Seq(Reports) /\ Len(text) = Len(line) + 1 /\ DOMAIN text = 1..Len(text)
        /\ DOMAIN line = 1..Len(line) /\ Len(line) \in Nat
        /\ \A i \in 1..Len(line) : text[i] = line[i]
        /\ text[Len(line) + 1] = info
    BY <1>2, <1>3
  <2> HIDE DEF text
  <2>2. line = <<>> => Len(line) = 0
    OBVIOUS
  <2>3. text # <<>>
    BY <2>1
  <2>4. \A i \in DOMAIN text : (i \in DOMAIN line /\ text[i] = line[i]) \/ text[i] = info
    BY <2>1
  <2> QED
    BY <2>1, <2>2, <2>3, <2>4
<1> HIDE DEF text
<1>5. OneTest(text)
  <2>1. CASE line = <<>>
    BY <1>3, <1>4, <2>1 DEF OneTest
  <2>2. CASE line # <<>>
    BY <1>3, <1>4, <2>2 DEF OneTest, RunInv, LinesInv
  <2> QED
    BY <2>1, <2>2
<1>6. RunTypeOK'
  <2>1. lines' \in Seq(Seq(Reports)) /\ line' \in Seq(Reports)
    BY <1>1, <1>2, <1>4
  <2> QED
    BY <1>1, <2>1 DEF RunInv, RunTypeOK
<1>7. FlowInv' /\ FlagsInv' /\ CountsInv'
  BY <1>1 DEF RunInv, FlowInv, FlagsInv, CountsInv, Decided, Count
<1>8. DetailsInv'
  <2>1. ASSUME NEW k \in DOMAIN lines', NEW i \in DOMAIN lines'[k]
        PROVE  lines'[k][i].details \subseteq {lines'[k][i].test}
    <3>1. lines'[k] = text \/ (k \in DOMAIN lines /\ lines'[k] = lines[k])
      BY <1>1, <1>2, <1>4
    <3> QED
      BY <1>3, <1>4, <2>1, <3>1 DEF RunInv, DetailsInv, DetailsAreOwn
  <2> QED
    BY <1>1, <2>1 DEF RunInv, DetailsInv, DetailsAreOwn
<1>9. LinesInv'
  <2>1. Decided' = Decided
    BY <1>1 DEF Decided
  <2>2. CASE line = <<>>
    <3>1. Told' = Told
      BY <1>1, <2>1, <2>2 DEF Told
    <3> QED
      BY <1>1, <1>3, <1>4, <1>5, <2>2, <3>1, TellsNoMore DEF RunInv
  <2>3. CASE line # <<>>
    <3>1. Decided /\ text[1].tag = said /\ text[1].test = Len(outcomes) + 1
      BY <1>1, <1>4, <2>3 DEF RunInv, LinesInv, FlagsInv
    <3>2. Told = outcomes /\ Told' = Append(outcomes, said)
      BY <1>1, <2>1, <2>3, <3>1 DEF Told
    <3> QED
      BY <1>1, <1>4, <1>5, <3>1, <3>2, TellsOneMore DEF RunInv
  <2> QED
    BY <2>2, <2>3
<1> QED
  BY <1>6, <1>7, <1>8, <1>9 DEF RunInv

LEMMA InTestStepRun ==
  ASSUME RunInv, InTestStep
  PROVE  RunInv'
<1>1. AssertionPasses \/ TEST_PASS => RunInv'
  BY AbortMovesOn DEF AssertionPasses, TEST_PASS, RETURN_IF_FAIL_OR_IGNORE, history
<1> QED
  BY <1>1, PhaseReturnsRun, UnityFailRun, UnityIgnoreRun, UnityMessageRun,
     UNITY_SET_DETAILSRun DEF InTestStep

--------------------------------------------------------------------------------
(***************************************************************************)
(* What the runner does.                                                   *)
(***************************************************************************)

\* The state a suite starts from.
Fresh(frame) ==
  /\ Unity = Cleared(frame)
  /\ pc \in {"start", "main"}
  /\ line = <<>> /\ lines = <<>> /\ said = "PASS" /\ outcomes = <<>> /\ tearDowns = 0

LEMMA FreshRun ==
  ASSUME NEW frame \in {"none", "second_protect", "conclude"}
  PROVE  Fresh(frame) => RunInv
<1> SUFFICES ASSUME Fresh(frame) PROVE RunInv
  OBVIOUS
<1> USE DEF Fresh
<1>1. /\ Unity \in Storage /\ ~Unity.CurrentTestFailed /\ ~Unity.CurrentTestIgnored
      /\ Unity.NumberOfTests = 0 /\ Unity.TestFailures = 0 /\ Unity.TestIgnores = 0
  BY DEF Cleared, Storage, NoDetail
<1>2. RunTypeOK
  BY <1>1 DEF RunTypeOK, Running, Verdicts
<1>3. FlowInv /\ FlagsInv
  BY <1>1 DEF FlowInv, FlagsInv, Running, Decided
<1>4. CountsInv
  <2>1. ASSUME NEW v PROVE Count(v) = 0
    <3>1. {k \in DOMAIN outcomes : outcomes[k] = v} = {}
      OBVIOUS
    <3> QED
      BY <3>1, FS_EmptySet DEF Count
  <2> QED
    BY <1>1, <2>1 DEF CountsInv
<1>5. DetailsInv
  BY DEF DetailsInv, Running, DetailsAreOwn
<1>6. LinesInv
  <2>1. VerdictLines = {}
    BY DEF VerdictLines
  <2>2. Told = <<>> /\ Cardinality(VerdictLines) = 0
    BY <1>1, <2>1, FS_EmptySet DEF Told, Decided
  <2> QED
    BY <2>1, <2>2 DEF LinesInv
<1> QED
  BY <1>2, <1>3, <1>4, <1>5, <1>6 DEF RunInv

LEMMA FreshRunNext ==
  ASSUME NEW frame \in {"none", "second_protect", "conclude"}
  PROVE  Fresh(frame)' => RunInv'
<1>1. Fresh(frame) => RunInv
  BY FreshRun
<1> QED
  BY <1>1, PTL

LEMMA UnityBeginRun ==
  ASSUME RunInv, UnityBegin
  PROVE  RunInv'
<1>1. PICK frame : frame = Unity.AbortFrame
  OBVIOUS
<1>2. frame \in {"none", "second_protect", "conclude"}
  BY <1>1 DEF RunInv, RunTypeOK, Storage
<1>3. Fresh(frame)'
  BY <1>1 DEF UnityBegin, Fresh, Cleared
<1> QED
  BY <1>2, <1>3, FreshRunNext

LEMMA RUN_TESTRun ==
  ASSUME RunInv, RUN_TEST
  PROVE  RunInv'
<1>1. /\ pc = "main" /\ pc' = "setUp" /\ said' = "PASS" /\ tearDowns' = 0
      /\ UNCHANGED <<line, lines, outcomes>>
  BY DEF RUN_TEST
<1>2. /\ Unity \in Storage /\ Unity.NumberOfTests = Len(outcomes) /\ ~Decided
      /\ outcomes \in Seq(Verdicts) /\ Len(outcomes) \in Nat
  BY <1>1 DEF RunInv, RunTypeOK, FlagsInv, Running
<1> DEFINE u == Started(Unity)
           n == Unity.NumberOfTests + 1
<1>11. n = Len(outcomes) + 1 /\ n \in Nat
  BY <1>2
<1>12. u = [Unity EXCEPT !.CurrentTestName = n, !.NumberOfTests = n,
                        !.AbortFrame = "second_protect"]
  BY <1>2 DEF Started, Storage
<1> HIDE DEF n, u
<1>13. /\ u \in Storage
      /\ u.AbortFrame = "second_protect"
      /\ u.NumberOfTests = Len(outcomes) + 1
      /\ u.TestFailures = Unity.TestFailures /\ u.TestIgnores = Unity.TestIgnores
      /\ u.CurrentTestName = Len(outcomes) + 1
      /\ u.CurrentTestFailed = Unity.CurrentTestFailed
      /\ u.CurrentTestIgnored = Unity.CurrentTestIgnored
  BY <1>2, <1>11, <1>12 DEF Storage
<1>14. Unity' = [u EXCEPT !.CurrentDetail1 = NoDetail, !.CurrentDetail2 = NoDetail]
  BY DEF RUN_TEST, u
<1>3. /\ Unity' \in Storage
      /\ Unity'.AbortFrame = "second_protect"
      /\ Unity'.NumberOfTests = Len(outcomes) + 1
      /\ Unity'.TestFailures = Unity.TestFailures /\ Unity'.TestIgnores = Unity.TestIgnores
      /\ Unity'.CurrentTestName = Len(outcomes) + 1
      /\ Unity'.CurrentTestFailed = Unity.CurrentTestFailed
      /\ Unity'.CurrentTestIgnored = Unity.CurrentTestIgnored
      /\ Unity'.CurrentDetail1 = NoDetail /\ Unity'.CurrentDetail2 = NoDetail
  BY <1>13, <1>14 DEF Storage, NoDetail
<1>4. ~Unity.CurrentTestFailed /\ ~Unity.CurrentTestIgnored /\ line = <<>>
  BY <1>2 DEF Decided, RunInv, LinesInv
<1>5. RunTypeOK'
  BY <1>1, <1>3 DEF RunInv, RunTypeOK, Running, Verdicts
<1>6. FlowInv'
  BY <1>1, <1>3 DEF FlowInv
<1>7. FlagsInv'
  BY <1>1, <1>3, <1>4 DEF FlagsInv, Running, Storage
<1>8. CountsInv'
  BY <1>1, <1>3 DEF RunInv, CountsInv, Count
<1>9. DetailsInv'
  BY <1>1, <1>3 DEF RunInv, DetailsInv, DetailsAreOwn
<1>10. LinesInv'
  <2>1. ~Decided' /\ Told' = Told
    BY <1>1, <1>2, <1>3, <1>4 DEF Decided, Told
  <2>2. VerdictLines' = VerdictLines
    BY <1>1 DEF VerdictLines
  <2>3. ASSUME NEW k \in VerdictLines PROVE Place(k)' = Place(k)
    BY <2>2 DEF Place
  <2> QED
    BY <1>1, <1>4, <2>1, <2>2, <2>3 DEF RunInv, LinesInv
<1> QED
  BY <1>5, <1>6, <1>7, <1>8, <1>9, <1>10 DEF RunInv

LEMMA TearDownRun ==
  ASSUME RunInv, TearDown
  PROVE  RunInv'
<1>1. /\ pc = "second_protect" /\ pc' = "tearDown"
      /\ UNCHANGED <<line, lines, said, outcomes>>
  BY DEF TearDown
<1>2. tearDowns = 0 /\ Unity \in Storage
  BY <1>1 DEF RunInv, FlowInv, RunTypeOK
<1>3. tearDowns' = 1
  <2>1. Min({1, 2}) = 1
    BY DEF Min
  <2>2. tearDowns' = Min({tearDowns + 1, 2}) /\ tearDowns + 1 = 1
    BY <1>2 DEF TearDown, CountTearDown
  <2> QED
    BY <2>1, <2>2
<1>4. /\ Unity' \in Storage
      /\ Unity'.AbortFrame = "conclude"
      /\ Unity'.NumberOfTests = Unity.NumberOfTests
      /\ Unity'.TestFailures = Unity.TestFailures /\ Unity'.TestIgnores = Unity.TestIgnores
      /\ Unity'.CurrentTestName = Unity.CurrentTestName
      /\ Unity'.CurrentTestFailed = Unity.CurrentTestFailed
      /\ Unity'.CurrentTestIgnored = Unity.CurrentTestIgnored
      /\ Unity'.CurrentDetail1 = Unity.CurrentDetail1
      /\ Unity'.CurrentDetail2 = Unity.CurrentDetail2
  BY <1>2 DEF TearDown, Storage
<1>5. RunTypeOK' /\ FlowInv'
  BY <1>1, <1>3, <1>4 DEF RunInv, RunTypeOK, FlowInv, Running
<1>6. Decided' = Decided /\ Told' = Told /\ VerdictLines' = VerdictLines
  BY <1>1, <1>4 DEF Decided, Told, VerdictLines
<1>7. FlagsInv' /\ CountsInv' /\ DetailsInv'
  BY <1>1, <1>4, <1>6 DEF RunInv, FlagsInv, CountsInv, Count, DetailsInv, DetailsAreOwn, Running
<1>8. LinesInv'
  <2>1. ASSUME NEW k \in VerdictLines PROVE Place(k)' = Place(k)
    BY <1>6 DEF Place
  <2> QED
    BY <1>1, <1>4, <1>6, <2>1 DEF RunInv, LinesInv
<1> QED
  BY <1>5, <1>7, <1>8 DEF RunInv

LEMMA UnityConcludeTestRun ==
  ASSUME RunInv, UnityConcludeTest
  PROVE  RunInv'
<1> DEFINE pass == Report("PASS", {})
           text == IF Decided THEN line ELSE Append(line, pass)
<1>1. /\ pc = "conclude" /\ pc' = "main" /\ lines' = Append(lines, text) /\ line' = <<>>
      /\ outcomes' = Append(outcomes, said) /\ UNCHANGED <<said, tearDowns>>
  BY DEF UnityConcludeTest, UNITY_PRINT_EOL
<1>2. /\ line \in Seq(Reports) /\ lines \in Seq(Seq(Reports))
      /\ Unity \in Storage /\ Unity.CurrentTestName \in Nat
      /\ said \in Verdicts /\ outcomes \in Seq(Verdicts) /\ Len(outcomes) \in Nat
  BY DEF RunInv, RunTypeOK, Storage
<1>3. /\ Unity.CurrentTestFailed = (said = "FAIL")
      /\ Unity.CurrentTestIgnored = (said = "IGNORE")
      /\ Unity.CurrentTestName = Len(outcomes) + 1
      /\ Unity.NumberOfTests = Len(outcomes) + 1
      /\ Decided <=> said # "PASS"
  BY <1>1, DecidedSaid DEF RunInv, FlagsInv, Running
<1>4. /\ pass \in Reports /\ pass.test = Unity.CurrentTestName /\ pass.tag = "PASS"
      /\ pass.details = {}
  BY <1>2 DEF Report, Reports, Verdicts
<1>5. ~Decided => line = <<>>
  BY DEF RunInv, LinesInv
<1> HIDE DEF pass
<1>6. /\ text \in Seq(Reports)
      /\ Decided => text = line
      /\ ~Decided => (Len(text) = 1 /\ DOMAIN text = {1} /\ text[1] = pass /\ text # <<>>)
  <2>1. Decided => text = line
    OBVIOUS
  <2>2. ~Decided => text = Append(line, pass)
    OBVIOUS
  <2> HIDE DEF text
  <2>3. ~Decided => (/\ text \in Seq(Reports) /\ Len(text) = 1
                     /\ DOMAIN text = {1} /\ text[1] = pass /\ text # <<>>)
    <3> SUFFICES ASSUME ~Decided PROVE /\ text \in Seq(Reports) /\ Len(text) = 1
                                       /\ DOMAIN text = {1} /\ text[1] = pass /\ text # <<>>
      OBVIOUS
    <3>1. text = Append(<<>>, pass)
      BY <1>5, <2>2
    <3>2. text = <<pass>>
      BY <3>1
    <3> HIDE DEF pass
    <3> QED
      BY <1>4, <3>2
  <2> QED
    BY <1>2, <2>1, <2>3
<1> HIDE DEF text
<1>7. /\ OneTest(text) /\ \A i \in DOMAIN text : text[i].details \subseteq {text[i].test}
      /\ text # <<>> => text[1].tag = said /\ text[1].test = Len(outcomes) + 1
  <2>1. CASE Decided
    <3>1. line # <<>> => (DOMAIN line = {1} /\ line[1].tag = said /\ line[1].test = Len(outcomes) + 1)
      BY <1>2, <1>3 DEF RunInv, LinesInv
    <3>2. line = <<>> => DOMAIN line = {}
      OBVIOUS
    <3>3. \A i \in DOMAIN line : line[i].details \subseteq {line[i].test}
      BY DEF RunInv, DetailsInv
    <3> QED
      BY <1>6, <2>1, <3>1, <3>2, <3>3 DEF OneTest
  <2>2. CASE ~Decided
    BY <1>3, <1>4, <1>6, <2>2 DEF OneTest
  <2> QED
    BY <2>1, <2>2
<1> DEFINE u == Concluded
<1>8. /\ u \in Storage
      /\ u.NumberOfTests = Unity.NumberOfTests
      /\ u.TestIgnores = IF said = "IGNORE" THEN Unity.TestIgnores + 1 ELSE Unity.TestIgnores
      /\ u.TestFailures = IF said = "FAIL" THEN Unity.TestFailures + 1 ELSE Unity.TestFailures
  <2> DEFINE a == IF said = "IGNORE" THEN Unity.TestIgnores + 1 ELSE Unity.TestIgnores
             b == IF said = "FAIL" THEN Unity.TestFailures + 1 ELSE Unity.TestFailures
  <2>1. a \in Nat /\ b \in Nat
    BY <1>2 DEF Storage
  <2>2. u = [Unity EXCEPT !.TestIgnores = a, !.TestFailures = b]
    <3>1. /\ a = IF Unity.CurrentTestIgnored THEN Unity.TestIgnores + 1 ELSE Unity.TestIgnores
          /\ b = IF ~Unity.CurrentTestIgnored /\ Unity.CurrentTestFailed
                 THEN Unity.TestFailures + 1 ELSE Unity.TestFailures
      BY <1>3
    <3> HIDE DEF a, b
    <3> QED
      BY <1>2, <3>1 DEF Concluded, Storage
  <2>3. a = (IF said = "IGNORE" THEN Unity.TestIgnores + 1 ELSE Unity.TestIgnores)
    OBVIOUS
  <2>4. b = (IF said = "FAIL" THEN Unity.TestFailures + 1 ELSE Unity.TestFailures)
    OBVIOUS
  <2> HIDE DEF a, b, u
  <2> QED
    BY <1>2, <2>1, <2>2, <2>3, <2>4 DEF Storage
<1>9. Unity' = [u EXCEPT !.CurrentTestFailed = FALSE, !.CurrentTestIgnored = FALSE]
  BY DEF UnityConcludeTest
<1> HIDE DEF u
<1>10. /\ Unity' \in Storage
       /\ ~Unity'.CurrentTestFailed /\ ~Unity'.CurrentTestIgnored
       /\ Unity'.NumberOfTests = Len(outcomes) + 1
       /\ Unity'.TestIgnores = u.TestIgnores /\ Unity'.TestFailures = u.TestFailures
  BY <1>3, <1>8, <1>9 DEF Storage
<1>11. RunTypeOK'
  <2>1. lines' \in Seq(Seq(Reports)) /\ outcomes' \in Seq(Verdicts) /\ line' \in Seq(Reports)
    BY <1>1, <1>2, <1>6
  <2> QED
    BY <1>1, <1>10, <2>1 DEF RunInv, RunTypeOK, Running
<1>12. FlowInv' /\ FlagsInv'
  <2>1. Len(outcomes') = Len(outcomes) + 1
    BY <1>1, <1>2
  <2> QED
    BY <1>1, <1>10, <2>1 DEF FlowInv, FlagsInv, Running, Decided
<1>13. CountsInv'
  <2>1. ASSUME NEW v
        PROVE  Count(v)' = IF said = v THEN Count(v) + 1 ELSE Count(v)
    <3>1. Count(v) = CountIn(outcomes, v) /\ Count(v)' = CountIn(outcomes', v)
      BY DEF Count, CountIn
    <3>2. CountIn(outcomes', v) = IF said = v THEN CountIn(outcomes, v) + 1
                                             ELSE CountIn(outcomes, v)
      BY <1>1, <1>2, CountAppend
    <3> QED
      BY <3>1, <3>2
  <2>2. Count("FAIL")' = Unity'.TestFailures /\ Count("IGNORE")' = Unity'.TestIgnores
    BY <1>8, <1>10, <2>1 DEF RunInv, CountsInv
  <2> QED
    BY <1>1, <2>2 DEF CountsInv
<1>14. DetailsInv'
  <2>1. ASSUME NEW k \in DOMAIN lines', NEW i \in DOMAIN lines'[k]
        PROVE  lines'[k][i].details \subseteq {lines'[k][i].test}
    <3>1. lines'[k] = text \/ (k \in DOMAIN lines /\ lines'[k] = lines[k])
      BY <1>1, <1>2, <1>6
    <3> QED
      BY <1>7, <2>1, <3>1 DEF RunInv, DetailsInv, DetailsAreOwn
  <2> QED
    BY <1>1, <2>1 DEF DetailsInv, DetailsAreOwn, Running
<1>15. LinesInv'
  <2>1. Told' = Append(outcomes, said)
    BY <1>1, <1>10 DEF Told, Decided
  <2>2. CASE text = <<>>
    <3>1. Decided /\ line = <<>>
      BY <1>6, <2>2
    <3>2. Told' = Told
      BY <2>1, <3>1 DEF Told
    <3> QED
      BY <1>1, <1>6, <1>7, <2>2, <3>2, TellsNoMore DEF RunInv
  <2>3. CASE text # <<>>
    <3>1. Told = outcomes
      BY <1>6, <2>3 DEF Told
    <3> QED
      BY <1>1, <1>6, <1>7, <2>1, <2>3, <3>1, TellsOneMore DEF RunInv
  <2> QED
    BY <2>2, <2>3
<1> QED
  BY <1>11, <1>12, <1>13, <1>14, <1>15 DEF RunInv

LEMMA UnityEndRun ==
  ASSUME RunInv, UnityEnd
  PROVE  RunInv'
<1>1. /\ pc = "main" /\ pc' = "ended" /\ lines' = Append(lines, line) /\ line' = <<>>
      /\ UNCHANGED <<Unity, said, outcomes, tearDowns>>
      /\ summary' = [tests    |-> Unity.NumberOfTests,
                     failures |-> Unity.TestFailures,
                     ignored  |-> Unity.TestIgnores,
                     ok       |-> Unity.TestFailures = 0]
  BY DEF UnityEnd, UNITY_PRINT_EOL, history
<1>2. /\ ~Decided /\ line = <<>> /\ Unity.NumberOfTests = Len(outcomes)
      /\ line \in Seq(Reports) /\ lines \in Seq(Seq(Reports))
  BY <1>1 DEF RunInv, RunTypeOK, FlagsInv, LinesInv, Running
<1>3. RunTypeOK'
  <2>1. lines' \in Seq(Seq(Reports))
    BY <1>1, <1>2
  <2> QED
    BY <1>1, <1>2, <2>1 DEF RunInv, RunTypeOK
<1>4. FlowInv' /\ FlagsInv'
  BY <1>1, <1>2 DEF FlowInv, FlagsInv, Running, Decided
<1>5. CountsInv'
  BY <1>1, <1>2 DEF RunInv, CountsInv, Count
<1>6. DetailsInv'
  <2>1. ASSUME NEW k \in DOMAIN lines', NEW i \in DOMAIN lines'[k]
        PROVE  lines'[k][i].details \subseteq {lines'[k][i].test}
    <3>1. lines'[k] = <<>> \/ (k \in DOMAIN lines /\ lines'[k] = lines[k])
      BY <1>1, <1>2
    <3> QED
      BY <2>1, <3>1 DEF RunInv, DetailsInv, DetailsAreOwn
  <2> QED
    BY <1>1, <2>1 DEF DetailsInv, DetailsAreOwn, Running
<1>7. LinesInv'
  <2>1. Told' = Told
    BY <1>1, <1>2 DEF Told, Decided
  <2>2. OneTest(line)
    BY <1>2 DEF OneTest
  <2> QED
    BY <1>1, <1>2, <2>1, <2>2, TellsNoMore DEF RunInv
<1> QED
  BY <1>3, <1>4, <1>5, <1>6, <1>7 DEF RunInv

LEMMA RunStutter ==
  ASSUME RunInv, UNCHANGED runVars
  PROVE  RunInv'
<1> USE DEF runVars, RunInv
<1>1. RunTypeOK' /\ FlowInv'
  BY DEF RunTypeOK, FlowInv
<1>2. FlagsInv' /\ CountsInv' /\ DetailsInv'
  BY DEF FlagsInv, CountsInv, Count, DetailsInv, DetailsAreOwn, Decided
<1>3. LinesInv'
  <2>1. Told' = Told /\ VerdictLines' = VerdictLines
    BY DEF Told, Decided, VerdictLines
  <2>2. ASSUME NEW k \in VerdictLines PROVE Place(k)' = Place(k)
    BY <2>1 DEF Place
  <2>3. UNCHANGED <<Unity, line, lines, said>> /\ Decided' = Decided
    BY DEF Decided
  <2> QED
    BY ONLY RunInv, <2>1, <2>2, <2>3 DEF RunInv, LinesInv
<1> QED
  BY <1>1, <1>2, <1>3

--------------------------------------------------------------------------------
\* What the runner relies on from step to step: where an abort goes on, what the
\* flags, counters and details say of the current test, and what has been put out
\* (unity.c:572-593, 2239-2360).
THEOREM RunTheorem == RunSpec => []RunInv
<1>1. RunInit => RunInv
  <2>1. RunInit => Fresh("none")
    BY DEF RunInit, Fresh
  <2> QED
    BY <2>1, FreshRun
<1>2. RunInv /\ [RunNext]_runVars => RunInv'
  BY UnityBeginRun, RUN_TESTRun, TearDownRun, UnityConcludeTestRun, UnityEndRun,
     InTestStepRun, RunStutter DEF RunNext
<1> QED
  BY <1>1, <1>2, PTL DEF RunSpec

\* Whatever the tests do, and however many there are, tearDown is called once for
\* each and never again after an abort out of it (unity.c:2296-2304).
THEOREM TearDownOnceTheorem == RunSpec => []TearDownOnce
<1>1. RunInv => TearDownOnce
  BY DEF RunInv, RunTypeOK, FlowInv, TearDownOnce
<1> QED
  BY <1>1, RunTheorem, PTL

\* The counters are those of the first verdicts, and UnityEnd tells them, for any
\* number of tests (unity.c:20-22, 572-593, 2333-2360).
THEOREM FirstVerdictCountsTheorem == RunSpec => []FirstVerdictCounts
<1>1. RunInv => FirstVerdictCounts
  BY DEF RunInv, FlagsInv, CountsInv, FirstVerdictCounts, Running
<1> QED
  BY <1>1, RunTheorem, PTL

\* The lines put out tell the verdict of every test concluded, in order and under
\* its name (unity.c:572-593, 2239-2278).
THEOREM OutputTellsVerdictsTheorem == RunSpec => []OutputTellsVerdicts
<1>1. RunInv => OutputTellsVerdicts
  <2>1. RunInv /\ pc = "main" => Told = outcomes
    BY DEF RunInv, FlagsInv, Running, Told
  <2> QED
    BY <2>1 DEF RunInv, LinesInv, OutputTellsVerdicts
<1> QED
  BY <1>1, RunTheorem, PTL

\* A failure's line shows no detail of an earlier test (unity.c:629-639, 2288-2294).
THEOREM DetailsAreOwnTheorem == RunSpec => []DetailsAreOwn
<1>1. RunInv => DetailsAreOwn
  BY DEF RunInv, DetailsInv
<1> QED
  BY <1>1, RunTheorem, PTL
================================================================================
