------------------------------ MODULE UnityRunner -------------------------------
(***************************************************************************)
(* How Unity runs a suite: RUN_TEST puts setUp and the test behind one      *)
(* setjmp and tearDown behind a second, assertions report and longjmp out,  *)
(* and the verdict is taken from two flags when all is done.  A test is its *)
(* number; what it does is any series of assertions that pass or fail, of   *)
(* ignores, messages and details.                                           *)
(***************************************************************************)
EXTENDS Integers, SequencesExt

CONSTANTS MaxTests, MaxMessages   \* per suite

ASSUME BoundsAssumption == MaxTests \in Nat /\ MaxMessages \in Nat

VARIABLES
  Unity,      \* struct UNITY_STORAGE_T, flags and counters
  pc,         \* where the one thread is in main, UnityDefaultTestRun or a test
  line,       \* what has been put out since the last line end
  lines,      \* the lines before that
  summary,    \* what UnityEnd has put out and returned
  said,       \* history: what the current test said first, "PASS" for nothing,
  outcomes,   \* the same of each test concluded,
  tearDowns   \* and how often the current test's tearDown was called, up to 2

runVars == <<Unity, pc, line, lines, summary, said, outcomes, tearDowns>>
history == <<said, outcomes, tearDowns>>

\* AbortFrame is where a longjmp goes on: behind the if of the last TEST_PROTECT.
NoDetail == 0
Cleared(frame) ==
  [AbortFrame |-> frame,
   NumberOfTests |-> 0, TestFailures |-> 0, TestIgnores |-> 0, CurrentTestName |-> 0,
   CurrentTestFailed |-> FALSE, CurrentTestIgnored |-> FALSE,
   CurrentDetail1 |-> NoDetail, CurrentDetail2 |-> NoDetail]

NoSummary == [tests |-> 0, failures |-> 0, ignored |-> 0, ok |-> TRUE]

RunInit ==
  /\ Unity = Cleared("none")
  /\ pc = "start"
  /\ line = <<>> /\ lines = <<>> /\ summary = NoSummary
  /\ said = "PASS" /\ outcomes = <<>> /\ tearDowns = 0

Says(verdict) == said' = IF said = "PASS" THEN verdict ELSE said
CountTearDown == tearDowns' = Min({tearDowns + 1, 2})

InTest  == pc \in {"setUp", "func", "tearDown"}
Decided == Unity.CurrentTestFailed \/ Unity.CurrentTestIgnored

\* UnityTestResultsBegin and what follows it on the line.
Report(tag, details) == [test |-> Unity.CurrentTestName, tag |-> tag, details |-> details]

UNITY_PRINT_EOL(text) == lines' = Append(lines, text) /\ line' = <<>>

TEST_ABORT == pc' = Unity.AbortFrame

--------------------------------------------------------------------------------
(***************************************************************************)
(* The runner.                                                              *)
(***************************************************************************)
UnityBegin ==
  /\ pc \in {"start", "ended"}
  /\ pc' = "main"
  /\ Unity' = Cleared(Unity.AbortFrame)
  /\ line' = <<>> /\ lines' = <<>> /\ summary' = NoSummary
  /\ said' = "PASS" /\ outcomes' = <<>> /\ tearDowns' = 0

\* UnityDefaultTestRun down to setUp.
Started(u) ==
  [u EXCEPT !.CurrentTestName = u.NumberOfTests + 1, !.NumberOfTests = @ + 1,
            !.AbortFrame = "second_protect"]

\* Mutation: the details of the test before stay.
RUN_TEST_KeepsDetails ==
  /\ pc = "main" /\ Unity.NumberOfTests < MaxTests
  /\ pc' = "setUp"
  /\ Unity' = Started(Unity)
  /\ said' = "PASS" /\ tearDowns' = 0
  /\ UNCHANGED <<line, lines, summary, outcomes>>

RUN_TEST ==
  /\ pc = "main" /\ Unity.NumberOfTests < MaxTests
  /\ pc' = "setUp"
  /\ Unity' = [Started(Unity) EXCEPT !.CurrentDetail1 = NoDetail, !.CurrentDetail2 = NoDetail]
  /\ said' = "PASS" /\ tearDowns' = 0
  /\ UNCHANGED <<line, lines, summary, outcomes>>

\* setUp, the test or tearDown returns.
PhaseReturns ==
  /\ InTest
  /\ pc' = CASE pc = "setUp" -> "func" [] pc = "func" -> "second_protect"
             [] pc = "tearDown" -> "conclude"
  /\ UNCHANGED <<Unity, line, lines, summary, history>>

\* Mutation: no TEST_PROTECT around tearDown.
TearDown_Unprotected ==
  /\ pc = "second_protect"
  /\ pc' = "tearDown"
  /\ CountTearDown
  /\ UNCHANGED <<Unity, line, lines, summary, said, outcomes>>

TearDown ==
  /\ pc = "second_protect"
  /\ pc' = "tearDown"
  /\ Unity' = [Unity EXCEPT !.AbortFrame = "conclude"]
  /\ CountTearDown
  /\ UNCHANGED <<line, lines, summary, said, outcomes>>

Concluded ==
  [Unity EXCEPT !.TestIgnores  = IF Unity.CurrentTestIgnored THEN @ + 1 ELSE @,
                !.TestFailures = IF ~Unity.CurrentTestIgnored /\ Unity.CurrentTestFailed
                                 THEN @ + 1 ELSE @]

\* Mutation: a flag survives into the next test.
UnityConcludeTest_KeepsFailed ==
  /\ pc = "conclude"
  /\ pc' = "main"
  /\ Unity' = [Concluded EXCEPT !.CurrentTestIgnored = FALSE]
  /\ UNITY_PRINT_EOL(IF Decided THEN line ELSE Append(line, Report("PASS", {})))
  /\ outcomes' = Append(outcomes, said)
  /\ UNCHANGED <<summary, said, tearDowns>>

UnityConcludeTest ==
  /\ pc = "conclude"
  /\ pc' = "main"
  /\ Unity' = [Concluded EXCEPT !.CurrentTestFailed = FALSE, !.CurrentTestIgnored = FALSE]
  /\ UNITY_PRINT_EOL(IF Decided THEN line ELSE Append(line, Report("PASS", {})))
  /\ outcomes' = Append(outcomes, said)
  /\ UNCHANGED <<summary, said, tearDowns>>

UnityEnd ==
  /\ pc = "main"
  /\ pc' = "ended"
  /\ UNITY_PRINT_EOL(line)
  /\ summary' = [tests    |-> Unity.NumberOfTests,
                 failures |-> Unity.TestFailures,
                 ignored  |-> Unity.TestIgnores,
                 ok       |-> Unity.TestFailures = 0]
  /\ UNCHANGED <<Unity, history>>

--------------------------------------------------------------------------------
(***************************************************************************)
(* What a test can do.  A condition of UNITY_TEST_ASSERT that holds does    *)
(* nothing; every other assertion first gives up if there is a verdict.     *)
(***************************************************************************)
RETURN_IF_FAIL_OR_IGNORE ==
  /\ InTest /\ Decided
  /\ TEST_ABORT
  /\ UNCHANGED <<Unity, line, lines, summary>>

AssertionPasses ==
  /\ RETURN_IF_FAIL_OR_IGNORE
  /\ UNCHANGED history

Details ==
  IF Unity.CurrentDetail1 = NoDetail THEN {}
  ELSE {Unity.CurrentDetail1, Unity.CurrentDetail2} \ {NoDetail}

\* A failing assertion, or TEST_FAIL.
UnityFail ==
  /\ \/ RETURN_IF_FAIL_OR_IGNORE
     \/ /\ InTest /\ ~Decided
        /\ line' = Append(line, Report("FAIL", Details))
        /\ Unity' = [Unity EXCEPT !.CurrentTestFailed = TRUE]
        /\ TEST_ABORT
        /\ UNCHANGED <<lines, summary>>
  /\ Says("FAIL")
  /\ UNCHANGED <<outcomes, tearDowns>>

\* Mutation: an ignore counts whatever was said before.
UnityIgnore_Unguarded ==
  /\ InTest
  /\ line' = Append(line, Report("IGNORE", {}))
  /\ Unity' = [Unity EXCEPT !.CurrentTestIgnored = TRUE]
  /\ TEST_ABORT
  /\ Says("IGNORE")
  /\ UNCHANGED <<lines, summary, outcomes, tearDowns>>

UnityIgnore ==
  /\ \/ RETURN_IF_FAIL_OR_IGNORE
     \/ /\ InTest /\ ~Decided
        /\ line' = Append(line, Report("IGNORE", {}))
        /\ Unity' = [Unity EXCEPT !.CurrentTestIgnored = TRUE]
        /\ TEST_ABORT
        /\ UNCHANGED <<lines, summary>>
  /\ Says("IGNORE")
  /\ UNCHANGED <<outcomes, tearDowns>>

TEST_PASS ==
  /\ InTest
  /\ TEST_ABORT
  /\ UNCHANGED <<Unity, line, lines, summary, history>>

Messages == {k \in DOMAIN lines : lines[k] # <<>> /\ Last(lines[k]).tag = "INFO"}

UnityMessage ==
  /\ InTest /\ Cardinality(Messages) < MaxMessages
  /\ UNITY_PRINT_EOL(Append(line, Report("INFO", {})))
  /\ UNCHANGED <<Unity, pc, summary, history>>

\* UNITY_SET_DETAIL, UNITY_SET_DETAILS; a detail is the test that gave it.
UNITY_SET_DETAILS ==
  /\ InTest
  /\ \E d2 \in {NoDetail, Unity.CurrentTestName} :
       Unity' = [Unity EXCEPT !.CurrentDetail1 = Unity.CurrentTestName, !.CurrentDetail2 = d2]
  /\ UNCHANGED <<pc, line, lines, summary, history>>

InTestStep ==
  \/ PhaseReturns \/ AssertionPasses \/ UnityFail \/ UnityIgnore \/ TEST_PASS
  \/ UnityMessage \/ UNITY_SET_DETAILS

RunNext == UnityBegin \/ RUN_TEST \/ TearDown \/ UnityConcludeTest \/ UnityEnd \/ InTestStep

\* A test function does return or abort: all it does besides is bounded.
Leaves == PhaseReturns \/ AssertionPasses \/ UnityFail \/ UnityIgnore \/ TEST_PASS

RunSpec ==
  /\ RunInit /\ [][RunNext]_runVars
  /\ WF_runVars(Leaves) /\ WF_runVars(TearDown) /\ WF_runVars(UnityConcludeTest)

--------------------------------------------------------------------------------
Count(verdict) == Cardinality({k \in DOMAIN outcomes : outcomes[k] = verdict})

\* Between tests the counters are those of the tests run: each counts once, by
\* the first thing it or its setUp or tearDown said, whatever it said after
\* that; and UnityEnd returns and prints these numbers, OK only if nothing
\* failed (unity.c:20-22, 572-593, 2333-2360).
FirstVerdictCounts ==
  /\ pc \in {"main", "ended"} =>
       /\ Unity.NumberOfTests = Len(outcomes)
       /\ Unity.TestFailures = Count("FAIL")
       /\ Unity.TestIgnores = Count("IGNORE")
  /\ pc = "ended" => summary = [tests |-> Len(outcomes), failures |-> Count("FAIL"),
                                ignored |-> Count("IGNORE"), ok |-> Count("FAIL") = 0]

\* The lines that start with a verdict, and the place of one among them.
VerdictLines == {k \in DOMAIN lines : lines[k] # <<>> /\ lines[k][1].tag # "INFO"}
Place(k)     == Cardinality({j \in VerdictLines : j <= k})

\* The output says the same: each line has at most one verdict, at its start, and
\* from line to line the verdicts are those of the tests concluded, in order and
\* under their names; a message of a tearDown may share the line of its own
\* test's verdict, never another's (unity.c:572-593, 2239-2278).
OutputTellsVerdicts ==
  /\ \A k \in DOMAIN lines : \A i \in DOMAIN lines[k] :
       /\ lines[k][i].test = lines[k][1].test
       /\ lines[k][i].tag = "INFO" \/ i = 1
  /\ pc = "main" => /\ Cardinality(VerdictLines) = Len(outcomes)
                    /\ \A k \in VerdictLines : /\ lines[k][1].test = Place(k)
                                               /\ lines[k][1].tag = outcomes[Place(k)]

\* The details on a failure's line were set by the test that failed
\* (unity.c:629-639, 2288-2294).
DetailsAreOwn ==
  \A k \in DOMAIN lines : \A i \in DOMAIN lines[k] :
    lines[k][i].details \subseteq {lines[k][i].test}

\* However setUp and the test end, tearDown is called, and once only: an abort
\* out of tearDown does not come back to it (unity.c:2296-2304).
TearDownOnce ==
  /\ tearDowns <= 1
  /\ pc = "conclude" => tearDowns = 1

\* Every test that is started is concluded and the next can run, even if each
\* assertion in it fails (unity.c:2283-2307).
EveryTestConcludes == InTest ~> pc = "main"
================================================================================
