------------------------------ MODULE TestReport ------------------------------
(***************************************************************************)
(* The test wrapper's report builder: format_test_report of               *)
(* scripts/run_rust_tests.py.  The rendered report is abstracted to the   *)
(* numbers it prints, the failed results it details (each with its        *)
(* error type, suggestion and fixable mark, a function of the result) and *)
(* the names of the passed tests it lists, with the "... K more" line as  *)
(* a sequence of zero or one count.                                        *)
(***************************************************************************)
EXTENDS Naturals, Sequences, CargoOutput

\* The number of passed tests the report lists by name (passed[:10]).
DisplayCap == 10

\* [r for r in results if r.status == s]
WithStatus(results, s) == Keep(results, {r \in TestResult : r.status = s})

\* Mutant of FormatTestReport: the elision line is printed from 10 on.
FormatTestReportAtCap(results) ==
  LET passed == WithStatus(results, "PASSED")
      shown  == IF Len(passed) < DisplayCap THEN Len(passed) ELSE DisplayCap
  IN  [total    |-> Len(results),
       passed   |-> Len(passed),
       failed   |-> Len(WithStatus(results, "FAILED")),
       ignored  |-> Len(WithStatus(results, "IGNORED")),
       failures |-> WithStatus(results, "FAILED"),
       listed   |-> [i \in 1..shown |-> passed[i].name],
       more     |-> IF Len(passed) >= DisplayCap
                      THEN <<Len(passed) - DisplayCap>> ELSE <<>>]

\* format_test_report: the counts, every FAILED result, then the names of
\* the first DisplayCap passed tests and how many more there are.
FormatTestReport(results) ==
  LET passed == WithStatus(results, "PASSED")
      shown  == IF Len(passed) < DisplayCap THEN Len(passed) ELSE DisplayCap
  IN  [total    |-> Len(results),
       passed   |-> Len(passed),
       failed   |-> Len(WithStatus(results, "FAILED")),
       ignored  |-> Len(WithStatus(results, "IGNORED")),
       failures |-> WithStatus(results, "FAILED"),
       listed   |-> [i \in 1..shown |-> passed[i].name],
       more     |-> IF Len(passed) > DisplayCap
                      THEN <<Len(passed) - DisplayCap>> ELSE <<>>]

=============================================================================
