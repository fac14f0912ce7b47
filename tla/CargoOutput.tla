----------------------------- MODULE CargoOutput -----------------------------
(***************************************************************************)
(* The two readers of cargo's output in scripts/run_rust_tests.py:        *)
(* parse_test_output (ProcessResultParser) and analyze_failure             *)
(* (FailureClassifier), with the TestResult record they produce.           *)
(*                                                                         *)
(* A line of stdout is abstracted to what the result-line regex            *)
(*     ^test\s+(.+?)\s+\.\.\.(\w+)(?:\s+(.+))?$                            *)
(* tells apart: whether the stripped line has the form "test NAME ..."    *)
(* (form "result") or not ("other"), the number of blanks between "..."   *)
(* and the status token, the token, and whether trailing detail follows.  *)
(* stderr is abstracted to the set of failure signatures it contains,     *)
(* case-insensitively, as indices into the patterns of analyze_failure.   *)
(***************************************************************************)
EXTENDS Integers, Sequences, SeqFilter

CONSTANT TestNames   \* the test names that occur in output and on the command line

\* class TestStatus
Statuses == {"PASSED", "FAILED", "IGNORED", "TIMEOUT"}

\* Status tokens a result line may carry; "should panic" has a blank in it.
Tokens == {"ok", "FAILED", "ignored", "should panic", "bench"}

OutLine ==
  [form: {"result", "other"}, name: TestNames, gap: {0, 1}, token: Tokens,
   detail: BOOLEAN]

(***************************************************************************)
(* The patterns of analyze_failure in declaration order: 1 "assertion     *)
(* failed", 2 "panicked at", 3 "attempt to add with overflow", 4 "borrow   *)
(* checker", 5 "type mismatch", 6 "no such file or directory", 7           *)
(* "connection refused", 8 "timeout".  Diagnosis 0 is the default         *)
(* "unknown error"; NoDiagnosis is the empty error_type of a result that   *)
(* was not analysed.                                                       *)
(***************************************************************************)
Signatures == 1..8
Fixable == <<FALSE, FALSE, TRUE, FALSE, TRUE, TRUE, FALSE, FALSE>>
NoDiagnosis == -1
Diagnoses == {NoDiagnosis} \cup 0..8

\* The error_type index and fixable flag of a diagnosis.
Diagnosis(d) == [errorType |-> d, fixable |-> IF d \in Signatures THEN Fixable[d] ELSE FALSE]

\* class TestResult; error_message is abstracted to the signatures it holds.
TestResult ==
  [name: TestNames, status: Statuses, error: SUBSET Signatures,
   errorType: Diagnoses, fixable: BOOLEAN]

-----------------------------------------------------------------------------
(***************************************************************************)
(* parse_test_output                                                       *)
(***************************************************************************)

\* test_pattern.match: "..." must be followed at once by a word (\w+); the
\* word is the token up to its first blank.
Matches(l) == l.form = "result" /\ l.gap = 0

StatusWord(l) == IF l.token = "should panic" THEN "should" ELSE l.token

\* Mutant of StatusOf: the unrecognised token is kept as the status.
StatusOfRaw(w) ==
  CASE w = "ok" -> "PASSED"
    [] w = "FAILED" -> "FAILED"
    [] w \in {"ignored", "should panic"} -> "IGNORED"
    [] OTHER -> w

\* The status mapping of parse_test_output: any other token is FAILED.
StatusOf(w) ==
  CASE w = "ok" -> "PASSED"
    [] w = "FAILED" -> "FAILED"
    [] w \in {"ignored", "should panic"} -> "IGNORED"
    [] OTHER -> "FAILED"

\* The lines test_pattern.match accepts.
ResultLines == {l \in OutLine : Matches(l)}

\* One TestResult per matching line; error_message is the rest of a FAILED
\* line, whose content is not a failure signature.
ParseTestOutput(out) ==
  LET m == Keep(out, ResultLines)
  IN  [i \in 1..Len(m) |->
         [name |-> m[i].name, status |-> StatusOf(StatusWord(m[i])),
          error |-> {}, errorType |-> NoDiagnosis, fixable |-> FALSE]]

-----------------------------------------------------------------------------
(***************************************************************************)
(* analyze_failure                                                         *)
(***************************************************************************)

\* Mutant of AnalyzeFailure: the loop has no break, so the last matching
\* pattern overwrites the earlier ones.
AnalyzeFailureNoBreak(err) ==
  LET last[i \in 0..8] ==
        IF i = 0 THEN 0 ELSE IF i \in err THEN i ELSE last[i - 1]
  IN  Diagnosis(last[8])

\* The loop over the patterns in declaration order with break: the first
\* pattern found in stderr gives the diagnosis; none gives "unknown".
AnalyzeFailure(err) ==
  LET first[i \in 1..9] ==
        IF i = 9 THEN 0 ELSE IF i \in err THEN i ELSE first[i + 1]
  IN  Diagnosis(first[1])

=============================================================================
