---------------------------- MODULE RustTestRunner ----------------------------
(***************************************************************************)
(* The test wrapper, scripts/run_rust_tests.py: main's search for the     *)
(* workspace root, then either run_single_test (a test name was given) or *)
(* the run of all tests with parse_test_output, the report and the exit   *)
(* status.  run_command is modelled by what it returns for each way the   *)
(* cargo process can end: it exits with a code, it is killed at the      *)
(* timeout, or it cannot be started.                                       *)
(*                                                                         *)
(* The directory tree is the chain of ancestors of the --workspace        *)
(* directory, numbered by depth (0 is the file-system root).  A path      *)
(* object is an absolute path (the default Path.cwd()) or a relative one; *)
(* its number of components is what .parent removes one at a time, and    *)
(* the parent of "/" and of "." is the path itself.                        *)
(***************************************************************************)
EXTENDS Integers, Sequences, CargoOutput, TestReport

CONSTANTS
  MaxDepth,       \* depth of the deepest directory considered
  CwdDepth,       \* depth of the process's working directory
  StdoutChoices,  \* the stdouts cargo may print (sequences of OutLine)
  StderrChoices,  \* the stderrs cargo may print (sets of signatures)
  NoFilter        \* no test_name argument

ASSUME MaxDepthAssumption == MaxDepth \in Nat
ASSUME CwdDepthAssumption == CwdDepth \in 0..MaxDepth
ASSUME StdoutAssumption == StdoutChoices \subseteq Seq(OutLine)
ASSUME StderrAssumption == StderrChoices \subseteq SUBSET Signatures
ASSUME NoFilterAssumption == NoFilter \notin TestNames

\* The ways a cargo run can end, as run_command sees them.  The message of
\* an OSError raised by subprocess.run is str(e): "[Errno 2] No such file or
\* directory: 'cargo'" when cargo is not installed, or another errno text.
ExitCodes == {0, 101}
SpawnMessages == {{6}, {}}
Outcomes ==
  [kind: {"exit"}, rc: ExitCodes, stdout: StdoutChoices, stderr: StderrChoices]
  \cup [kind: {"timeout"}, rc: {0}, stdout: {<<>>}, stderr: {{}}]
  \cup [kind: {"spawnerror"}, rc: {0}, stdout: {<<>>}, stderr: SpawnMessages]
NoRun == [kind |-> "none", rc |-> 0, stdout |-> <<>>, stderr |-> {}]

\* f"Command timed out after {timeout} seconds": "timed out" is not "timeout".
TimeoutMessage == {}

\* run_command: (returncode, stdout, stderr), or -1 with an empty stdout
\* and the message of the exception.
RunCommand(o) ==
  CASE o.kind = "exit"    -> [rc |-> o.rc, stdout |-> o.stdout, stderr |-> o.stderr]
    [] o.kind = "timeout" -> [rc |-> -1, stdout |-> <<>>, stderr |-> TimeoutMessage]
    [] OTHER              -> [rc |-> -1, stdout |-> <<>>, stderr |-> o.stderr]

\* run_single_test: PASSED on exit code 0, otherwise FAILED with the
\* diagnosis of analyze_failure and stderr[:500] as error_message.
RunSingleTest(name, o) ==
  LET r == RunCommand(o)
      d == AnalyzeFailure(r.stderr)
  IN  IF r.rc = 0
        THEN [name |-> name, status |-> "PASSED", error |-> {},
              errorType |-> NoDiagnosis, fixable |-> FALSE]
        ELSE [name |-> name, status |-> "FAILED", error |-> r.stderr,
              errorType |-> d.errorType, fixable |-> d.fixable]

VARIABLES
  absolute,   \* the --workspace path is absolute
  startLen,   \* its number of components
  manifests,  \* depths of the directories that hold a Cargo.toml
  filter,     \* args.test_name, or NoFilter
  phase,      \* "root" (the search loop), "run" or "done"
  dir,        \* number of components of workspace_root
  harness,    \* how the cargo run ended (NoRun before it)
  results,    \* the TestResults the report is built from
  reported,   \* the report was printed
  exitCode    \* the exit status once phase = "done"

args == <<absolute, startLen, manifests, filter>>
vars == <<absolute, startLen, manifests, filter, phase, dir, harness, results,
          reported, exitCode>>

\* The depth of the directory "." stands for.
Base == IF absolute THEN 0 ELSE CwdDepth

\* The directory workspace_root names.
Depth == Base + dir

TypeOK ==
  /\ absolute \in BOOLEAN
  /\ startLen \in 0..MaxDepth
  /\ manifests \subseteq 0..MaxDepth
  /\ filter \in TestNames \cup {NoFilter}
  /\ phase \in {"root", "run", "done"}
  /\ dir \in 0..startLen
  /\ harness \in Outcomes \cup {NoRun}
  /\ results \in Seq(TestResult)
  /\ reported \in BOOLEAN
  /\ exitCode \in {0, 1}

Init ==
  /\ absolute \in BOOLEAN
  /\ startLen \in 0..(MaxDepth - Base)
  /\ manifests \in SUBSET (0..MaxDepth)
  /\ filter \in TestNames \cup {NoFilter}
  /\ phase = "root"
  /\ dir = startLen
  /\ harness = NoRun
  /\ results = <<>>
  /\ reported = FALSE
  /\ exitCode = 0

\* The loop condition: workspace_root / "Cargo.toml" exists.
FoundManifest ==
  /\ phase = "root"
  /\ Depth \in manifests
  /\ phase' = "run"
  /\ UNCHANGED <<args, dir, harness, results, reported, exitCode>>

\* No Cargo.toml here: go to the parent.
WalkUp ==
  /\ phase = "root"
  /\ Depth \notin manifests
  /\ dir > 0
  /\ dir' = dir - 1
  /\ UNCHANGED <<args, phase, harness, results, reported, exitCode>>

\* Mutant of NoManifest: without the parent == workspace_root test the loop
\* sets workspace_root to its own parent, "/" (or "."), for ever.
NoManifestLoops ==
  /\ phase = "root"
  /\ Depth \notin manifests
  /\ dir = 0
  /\ UNCHANGED vars

\* Mutant of NoManifest: the parent == workspace_root test comes before the
\* look for Cargo.toml, so a manifest at "/" (or ".") is never seen.
NoManifestFirst ==
  /\ phase = "root"
  /\ dir = 0
  /\ phase' = "done"
  /\ exitCode' = 1
  /\ UNCHANGED <<args, dir, harness, results, reported>>

\* The parent is the path itself: "Cargo.toml not found", exit 1.
NoManifest ==
  /\ phase = "root"
  /\ Depth \notin manifests
  /\ dir = 0
  /\ phase' = "done"
  /\ exitCode' = 1
  /\ UNCHANGED <<args, dir, harness, results, reported>>

\* main with a test name: run_single_test, report, exit 1 if FAILED.
RunSingle ==
  /\ phase = "run"
  /\ filter # NoFilter
  /\ \E o \in Outcomes :
       /\ harness' = o
       /\ results' = <<RunSingleTest(filter, o)>>
       /\ exitCode' = IF RunSingleTest(filter, o).status = "FAILED" THEN 1 ELSE 0
  /\ phase' = "done"
  /\ reported' = TRUE
  /\ UNCHANGED <<args, dir>>

\* Mutant of RunAll: the exit status follows the parsed outcomes, as the
\* spec's wording suggests, instead of cargo's exit code.
RunAllByOutcomes ==
  /\ phase = "run"
  /\ filter = NoFilter
  /\ \E o \in Outcomes :
       LET parsed == ParseTestOutput(RunCommand(o).stdout) IN
       /\ harness' = o
       /\ results' = parsed
       /\ exitCode' = IF \E i \in DOMAIN parsed : parsed[i].status = "FAILED"
                        THEN 1 ELSE 0
  /\ phase' = "done"
  /\ reported' = TRUE
  /\ UNCHANGED <<args, dir>>

\* main without a test name: run every test, parse stdout, report, and
\* exit 1 if cargo's exit code is not 0.
RunAll ==
  /\ phase = "run"
  /\ filter = NoFilter
  /\ \E o \in Outcomes :
       /\ harness' = o
       /\ results' = ParseTestOutput(RunCommand(o).stdout)
       /\ exitCode' = IF RunCommand(o).rc # 0 THEN 1 ELSE 0
  /\ phase' = "done"
  /\ reported' = TRUE
  /\ UNCHANGED <<args, dir>>

\* The process has exited.
Terminated ==
  /\ phase = "done"
  /\ UNCHANGED vars

Next ==
  \/ FoundManifest \/ WalkUp \/ NoManifest
  \/ RunSingle \/ RunAll
  \/ Terminated

Spec == Init /\ [][Next]_vars

\* The script is one sequential process and run_command's wait is bounded by
\* its timeout, so the process keeps taking steps until it exits.
FairSpec == Spec /\ WF_vars(Next)

-----------------------------------------------------------------------------
(***************************************************************************)
(* Properties.                                                             *)
(***************************************************************************)

\* The search for the workspace root has ended with a directory.
RootFound == phase # "root" /\ reported

\* The directories the path object reaches through .parent, deepest first.
LexicalChain == Base..(Base + startLen)

\* The deepest directory of a set, the one nearest to the start.
Deepest(S) == CHOOSE d \in S : \A e \in S : e <= d

(***************************************************************************)
(* main's search loop stops at the nearest directory of the path's own     *)
(* parent chain that holds a Cargo.toml, and fails with exit 1 only when   *)
(* none of them does.                                                      *)
(***************************************************************************)
WalkFindsLexicalManifest ==
  phase = "done" =>
    IF manifests \cap LexicalChain # {}
      THEN RootFound /\ Depth = Deepest(manifests \cap LexicalChain)
      ELSE ~reported /\ exitCode = 1

(***************************************************************************)
(* Spec 6: the tool walks upward from the root it is given until it finds *)
(* a Cargo.toml, failing only when none is found before the file-system    *)
(* root.  For a relative --workspace path, pathlib's .parent stops at ".", *)
(* so the directories above the working directory are never looked at.    *)
(***************************************************************************)
WalkFindsAncestorManifest ==
  LET ancestors == 0..(Base + startLen) IN
  phase = "done" /\ manifests \cap ancestors # {} =>
    RootFound /\ Depth = Deepest(manifests \cap ancestors)

\* Every run of the wrapper ends: the search loop, cargo's run (bounded by
\* the timeout) and the report all finish.
Terminates == <>(phase = "done")

\* The earliest-declared pattern of analyze_failure that stderr contains.
EarliestSignature(err) ==
  IF err = {} THEN 0 ELSE CHOOSE i \in err : \A j \in err : i <= j

(***************************************************************************)
(* Spec 4.4 and 8: a failed single test is diagnosed by the earliest       *)
(* declared signature found in its stderr, whatever later ones it also     *)
(* contains, with that signature's fixable flag; no signature gives the   *)
(* unknown diagnosis, not fixable.                                         *)
(***************************************************************************)
FirstMatchWins ==
  \A i \in DOMAIN results :
    results[i].status = "FAILED" /\ filter # NoFilter =>
      /\ results[i].errorType = EarliestSignature(results[i].error)
      /\ results[i].fixable = Diagnosis(EarliestSignature(results[i].error)).fixable

(***************************************************************************)
(* A failed cargo run is never reported as a success: once the report is  *)
(* printed, the exit status is 1 exactly when cargo did not exit with 0,  *)
(* whether it failed, was killed at the timeout or could not be started.  *)
(***************************************************************************)
FailureNeverMasked ==
  reported => (exitCode = 1 <=> RunCommand(harness).rc # 0)

(***************************************************************************)
(* The report accounts for every passed test: it lists the first ones by  *)
(* name and counts the rest on a "... K more" line that is printed only   *)
(* when K > 0.                                                             *)
(***************************************************************************)
PassedListingComplete ==
  reported =>
    LET rep == FormatTestReport(results)
        more == IF rep.more = <<>> THEN 0 ELSE rep.more[1]
    IN  /\ Len(rep.listed) + more = rep.passed
        /\ \A k \in DOMAIN rep.more : rep.more[k] > 0

(***************************************************************************)
(* The wrapper implements WrapperSpec: the search loop and the two modes  *)
(* of main, seen from outside, are one step that either fails to find a   *)
(* Cargo.toml on the path's chain or runs cargo from the nearest one and  *)
(* exits 1 exactly when run_command's code is not 0.  Until main exits    *)
(* the abstract wrapper is still searching; the root it found is          *)
(* workspace_root once the report is printed.                              *)
(***************************************************************************)
Wrapper == INSTANCE WrapperSpec WITH
  Runs <- Outcomes,
  Failing <- {o \in Outcomes : RunCommand(o).rc # 0},
  NotRun <- NoRun,
  phase <- IF phase = "done" THEN "done" ELSE "search",
  root <- IF phase = "done" /\ reported THEN Depth ELSE -1,
  run <- harness

ImplementsWrapperSpec == Wrapper!Spec

(***************************************************************************)
(* Spec 4.3 and 8: every cargo result line "test NAME ... STATUS" gives an *)
(* Outcome.  The pattern wants the status word right after "...", and     *)
(* cargo prints a blank there.                                             *)
(***************************************************************************)
ResultLinesParsed ==
  reported /\ filter = NoFilter =>
    Len(results) = Len(Keep(RunCommand(harness).stdout,
                            {l \in OutLine : l.form = "result"}))

(***************************************************************************)
(* Spec 5 and 8: a cargo run that exceeds the timeout yields a Timeout     *)
(* outcome.  run_command turns the timeout into exit code -1, and the     *)
(* result is FAILED (or, for all tests, there is none).                   *)
(***************************************************************************)
TimeoutYieldsTimeout ==
  reported /\ harness.kind = "timeout" =>
    \E i \in DOMAIN results : results[i].status = "TIMEOUT"

(***************************************************************************)
(* Spec 8, scenario 3: stderr with "attempt to add with overflow" is       *)
(* diagnosed as arithmetic overflow, fixable.  Rust reports an overflow    *)
(* through its panic handler, so such stderr also holds "panicked at",    *)
(* which is declared earlier.                                             *)
(***************************************************************************)
OverflowDiagnosed ==
  \A i \in DOMAIN results :
    results[i].status = "FAILED" /\ 3 \in results[i].error =>
      results[i].errorType = 3

(***************************************************************************)
(* Spec 6 (test-wrapper CLI): the exit code propagates the harness's      *)
(* failure signal, or is non-zero if any Failed outcome is present.  The  *)
(* all-tests branch of main exits on cargo's exit code alone, and          *)
(* parse_test_output makes a Failed outcome of every unknown token.        *)
(***************************************************************************)
ExitSignalsFailedOutcome ==
  reported /\ (\E i \in DOMAIN results : results[i].status = "FAILED") =>
    exitCode = 1

=============================================================================
