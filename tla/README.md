# TLA+ verification of the sol-trade-sdk quality scripts

This directory holds TLA+ models of the two Python programs under
`src/scripts/`, the TLC configurations that model-check them, and the TLAPS
proofs about them.

- `check_error_tolerance.py` is the **error-tolerance auditor**. It scans the
  `.rs` files of a tree for error-handling anti-patterns, prints a report
  grouped by severity, and exits 1 when a HIGH finding exists.
- `run_rust_tests.py` is the **test wrapper**. It finds the Cargo workspace
  root and runs `cargo test`, either for one named test or for all tests. It
  parses and diagnoses the results, prints a report, and exits 1 on failure.

The two programs do not call each other. Each is a single sequential process
that interacts with its environment:

- the auditor with the file system;
- the wrapper with the file system (the `Cargo.toml` search) and with one
  `cargo` subprocess, which is bounded by a timeout.

The models therefore have no concurrent actors. What is hard is the
environment: which files exist and can be read, the order the directory
walk yields them in, what cargo prints, and how its run ends (an exit code, a
timeout, or a failure to start).

## Inventory

| Part | Source | Module | Status |
|---|---|---|---|
| Severity, Issue, CHECK_PATTERNS catalog | check_error_tolerance.py 35-232 | `AuditReport`, `ErrorToleranceAudit` | modelled (a rule is its index and severity) |
| find_rust_files / should_skip_file | 235-297 | `ErrorToleranceAudit` (`RustFiles`, `Orderings`, `FindRustFiles`) | modelled |
| check_rust_file (read, line loop, exclusions, rule loop) | 248-286 | `ErrorToleranceAudit` (`ReadFails`, `ReadFile`, `SkipLine`, `CheckRule`, `NextLine`, `EndFile`) | modelled |
| format_report | 300-367 | `AuditReport` (`FormatReport`) | partly: order and grouping, not the text |
| auditor main and exit status | 370-417 | `ErrorToleranceAudit` (`RootMissing`, `NoRustFiles`, `Report`) | modelled |
| what the auditor promises | whole auditor | `AuditSpec` (abstract) | refined by `ErrorToleranceAudit` |
| TestStatus, TestResult | run_rust_tests.py 36-52 | `CargoOutput` | modelled |
| run_command | 55-78 | `RustTestRunner` (`RunCommand`, `Outcomes`) | modelled |
| parse_test_output | 81-118 | `CargoOutput` (`ParseTestOutput`) | modelled |
| analyze_failure | 121-191 | `CargoOutput` (`AnalyzeFailure`) | modelled |
| run_single_test | 194-240 | `RustTestRunner` (`RunSingleTest`) | modelled |
| format_test_report | 243-286 | `TestReport` | partly: counts, failures, the 10-name cap |
| wrapper main: root search, modes, exit | 289-361 | `RustTestRunner` | modelled |
| what the wrapper promises | whole wrapper | `WrapperSpec` (abstract) | refined by `RustTestRunner` |
| argparse, cargo argument vectors | both files | none | not modelled: data layout only |

## How the models correspond to the code

### ErrorToleranceAudit with AuditReport

**Environment.** The variables `rootExists`, `inTarget`, `text` and `readable` are the
file system. They are chosen in `Init` and never change.

- A path is a number, its rank in lexicographic order, because that rank is
  all `sorted()` looks at.
- `inTarget` is the set of paths that have a `target` component.
- A line is a record `[kind, hits]`:
  - `kind` is one of `comment` (starts with `//`), `testattr` (`#[test]`),
    `testbody`, `blockcomment` (a line of a `/* ... */` comment) or `code`.
  - `hits` is the set of catalog rules whose regex matches the line.
- The catalog `RuleSev` is the sequence of rule severities in declaration
  order.

**Control.** The program has three nested loops: files, lines and rules. The
model steps them one iteration at a time. The cursors are `fi`, `ln` and `ri`.

- `FindRustFiles` picks any injective ordering of the candidate files,
  because `rglob` gives no order guarantee.
- `ReadFails` models an `open` or decoding error. The program prints a warning
  and continues with the next file.
- `SkipLine` models the two `continue`s: comment lines and test-attribute
  lines.
- `CheckRule` evaluates one rule and appends an Issue on a match. There is no
  `break`.
- `NextLine` and `EndFile` advance the line and file cursors.
- `Report` prints the report and exits 1 iff a HIGH issue exists.
- `RootMissing` and `NoRustFiles` are the two early exits of `main`.

**Report.** `FormatReport(iss, n)` follows `format_report`'s two groupings.

- `BySeverity(iss, s)` is `issues_by_severity[s]`: the issues of severity `s`
  in found order.
- `ByFile(iss, s, p)` is `issues_by_file[p]` of that severity: the issues of
  file `p`, again in found order.
- `Section(iss, s, n)` is the loop over `sorted(issues_by_file.items())`. It
  appends the groups of files `1..n` in path order. A file without issues
  adds nothing, as it is absent from the dict.
- `FormatReport` concatenates the sections of HIGH, MEDIUM and LOW.

Both groupings are the list filter `Keep` of `SeqFilter.tla`: a loop that
appends the accepted items, written as a recursive function over prefixes.
The standard `SelectSeq` computes the same thing, but the prover cannot
unfold it, so no theorem could be stated about it.

**Abstract auditor.** `AuditSpec` states what the auditor promises, without
its loops. Over the same file system, `Discover` adds one promised finding
at a time, in any order. A promised finding is a match of a rule on a line
that is neither `comment` nor `testattr`, in a readable candidate file.
`Finish` reports only once every promised finding is found, and exits 1 iff
one of them is HIGH. `Missing` and `Empty` are the two early exits.
`ErrorToleranceAudit` instantiates it with `found <- SeqRange(issues)`.
`ImplementsAuditSpec` is the abstract `Spec`, checked by TLC as a PROPERTY
and proved by TLAPS (below).

Under this mapping:

- a `CheckRule` step that appends an issue is a `Discover` step;
- every other step of the three loops is a stutter;
- `FindRustFiles` is `Start`, and `Report` is `Finish`.

### RustTestRunner with CargoOutput and TestReport

**Directory tree.** The tree is the ancestor chain of the workspace
directory. A directory is identified by its depth, where 0 is `/`.

- A path object is absolute, or relative to a working directory at depth
  `CwdDepth`. It has `startLen` components.
- `.parent` removes one component. The parent of `/` and of `.` is the path
  itself.
- The actions `FoundManifest`, `WalkUp` and `NoManifest` are the three
  outcomes of one iteration of the `while` loop at lines 317-322.

**Cargo run.** `RunSingle` and `RunAll` are the two branches of `main`.

- Each picks an outcome of the cargo run from `Outcomes`:
  - an exit code (0 or 101), with a stdout from `StdoutChoices` and a stderr
    from `StderrChoices`;
  - a timeout;
  - a spawn error.
- `RunCommand` maps an outcome to what `run_command` returns, including `-1`
  and the exception message.
- A stdout line is the record `OutLine`. It keeps what the result regex
  distinguishes: the `test NAME ...` form, the blanks after `...`, the status
  token, and whether trailing text follows.
- stderr is the set of `analyze_failure` signatures it contains.
- `ParseTestOutput` keeps the stdout lines that match the result regex
  (`Keep(out, ResultLines)`) and turns each into a `TestResult`.
- `AnalyzeFailure` is the ordered loop with `break`, written as a recursive
  function.
- `FormatTestReport` returns the counts, the failed results, the listed
  passed names (at most 10) and the `... K more` line.

**Abstract wrapper.** `WrapperSpec` states what the wrapper promises in one
step from the path it is given:

- `NotFound`: no directory of the path's parent chain holds a `Cargo.toml`;
  exit 1, no report.
- `Found`: cargo runs from the nearest such directory, the report is printed,
  and the exit status is 1 exactly when the run is in `Failing`.

`RustTestRunner` instantiates it as `Wrapper`:

- `Runs <- Outcomes`;
- `Failing <-` the outcomes whose `run_command` code is not 0;
- `phase <-` `"done"` once main has exited, `"search"` before;
- `root <-` `workspace_root`'s depth once the report is printed, -1 before;
- `run <- harness`.

`ImplementsWrapperSpec` is the abstract `Spec`, checked by TLC and proved by
TLAPS.

- The steps of the search loop are stutters.
- `NoManifest` is `NotFound`.
- `RunSingle` and `RunAll` are each a `Found` step.

## Runs

| Run | cfg | Expect | What it shows |
|---|---|---|---|
| audit_scan | `MCErrorToleranceAudit.cfg` | pass | `FindingsExact`, `ExitStatusCorrect` and `ReportCanonical` hold for every file order, every readable/unreadable split and every content choice, and the scanner refines `AuditSpec` (`ImplementsAuditSpec`). |
| audit_test_context | `MCErrorToleranceAudit_TestContextSilent.cfg` | violation | Lines in the body of a `#[test]` function are scanned. Only the attribute line is skipped. |
| audit_block_comment | `MCErrorToleranceAudit_PureCommentSilent.cfg` | violation | A line of a `/* ... */` comment is scanned and yields findings. Only `//` lines are skipped (`check_error_tolerance.py:263`), but spec 4.2 and 8 say a pure-comment line never yields a finding. |
| audit_exit_spec | `MCErrorToleranceAudit_ExitIffHigh.cfg` | violation | A missing root exits 1 with no finding at all. |
| runner_main | `MCRustTestRunner.cfg` | pass | The root search and its termination, first-match diagnosis, failures never masked, the passed listing count, and the refinement of `WrapperSpec` (`ImplementsWrapperSpec`). |
| runner_result_lines | `MCRustTestRunner_ResultLinesParsed.cfg` | violation | cargo's `test x ... ok` does not match the result regex. |
| runner_timeout | `MCRustTestRunner_TimeoutYieldsTimeout.cfg` | violation | A timeout is reported as FAILED, never TIMEOUT. |
| runner_overflow | `MCRustTestRunner_OverflowDiagnosed.cfg` | violation | An overflow panic is diagnosed as a generic panic. |
| runner_relative_workspace | `MCRustTestRunner_WalkFindsAncestorManifest.cfg` | violation | With `-w .`, a `Cargo.toml` in a parent directory is not found. |
| runner_exit_outcomes | `MCRustTestRunner_ExitSignalsFailedOutcome.cfg` | violation | In all-tests mode, a FAILED outcome with cargo exit code 0 gives exit 0. Spec 6 says exit non-zero if any Failed outcome is present (`run_rust_tests.py:357`). |

### The properties

- **FindingsExact.** The issues found so far are exactly the (file, line,
  rule) matches already scanned.
  - Each match appears once.
  - The order is file, then line, then rule.
  - This catches a `break` in the rule loop, an off-by-one in it, a lost
    issue on an unreadable file, and a stop of the scan.
- **ExitStatusCorrect.** The exit status is 1 iff the root is missing or some
  file of the whole tree has a HIGH finding.
  - A report printed before the last file is checked breaks it.
- **ImplementsAuditSpec.** Every behaviour of the scanner is a behaviour of
  `AuditSpec`. Each issue is a new promised finding. The report comes only
  after all of them are found.
  - A file cursor that keeps its line index into the next file breaks it.
- **ReportCanonical.** The printed report is a permutation of the issues,
  ordered by severity, path, line and rule.
  - So the report is the same for every order `rglob` yields.
- **WalkFindsLexicalManifest.** The search ends at the nearest manifest on the
  path's own parent chain, and fails only when that chain has none.
- **ImplementsWrapperSpec.** Every behaviour of the wrapper is one of
  `WrapperSpec`: it finds the nearest manifest or exits 1 without a report,
  and its exit status reflects the cargo run.
- **Terminates.** The program always exits. This is checked under `FairSpec`.
- **FirstMatchWins.** A failed single test is diagnosed by the
  earliest-declared signature in its stderr.
- **FailureNeverMasked.** After the report, the exit status is 1 exactly when
  `run_command` returned a nonzero code, and timeouts and spawn errors count.
- **PassedListingComplete.** The listed names plus the `K more` count equal
  the number of passed tests, and `K > 0` whenever the line is printed.

Every property of a passing run has a mutant in `PROJECT.json`. A mutant is a
plausible bug in the code, and TLC detects each one:

- a `break` in the rule loop, or a rule loop that runs one index too far;
- a report printed before the last file is checked;
- a line cursor not reset at the end of a file;
- report groups that are not sorted by file;
- no `break` in `analyze_failure`;
- an exit status taken from the parsed outcomes instead of cargo's exit code;
- the elision line printed at `>= 10`;
- a search loop that never stops at `/`;
- the stop test placed before the manifest check;
- an unknown status token kept as the status.

### Bounds and why they suffice

**Auditor.** The bounds are 3 paths, any subset of them under `target`, and a
catalog of 5 HIGH, 5 MEDIUM and 1 LOW rules, following the code's
`CHECK_PATTERNS` severities. The file contents are 5 choices, which include:

- an empty file;
- a line that matches three rules at once;
- a comment line with a match;
- a line of a `/* ... */` comment with a match;
- a `#[test]` line with a match;
- a test-body line with a match;
- a line that matches only a MEDIUM rule.

With these bounds TLC covers:

- every file order;
- an unreadable file between readable ones;
- several issues on one line;
- all three severities;
- a tree with no HIGH finding (exit 0), which matters for `ExitStatusCorrect`.

The run reaches 348,700 distinct states.

**Wrapper.** The bounds are:

- directory depth up to 2, with the working directory at depth 1, so that a
  relative path has a parent chain shorter than the absolute one;
- two test names;
- stdouts that include the cargo format, the gap-0 variants, `should panic`,
  `bench`, and 10 and 11 passing tests (the cap boundary);
- every stderr of at most three signatures in which "attempt to add with
  overflow" comes with "panicked at", as it does in real Rust output.

The run reaches 69,537 distinct states.

### Fairness

`FairSpec` adds `WF_vars(Next)`. The justification is:

- Each script is one sequential process.
- `subprocess.run` is bounded by its `timeout` argument.
- No step waits on anything else.

Only `Terminates` uses fairness.

## What is proved (TLAPS)

`ErrorToleranceAuditProofs.tla` proves
`THEOREM TypeCorrect == Spec => []TypeOK` for every number of paths, every
catalog and every content set. It rests on the named assumptions of
`ErrorToleranceAudit`:

- `NumPaths \in Nat`;
- `RuleSev \in Seq(Severities)`;
- `Contents \subseteq Seq(Line)`.

TypeOK is inductive as it stands. The proof has one step per action. The
supporting lemmas are:

- `RustFilesFinite`: the candidate set is finite;
- `OrderingsAreSeqs`: each ordering is a sequence of candidates;
- `FindingType`: a finding has the type of an Issue.

`RustTestRunnerProofs.tla` proves
`THEOREM NeverMasked == Spec => []FailureNeverMasked` for every depth, working
directory and set of cargo outputs.

- `FailureNeverMasked` alone is not inductive. `NoManifest` sets the exit
  status to 1 without running cargo, and that would break the property in a
  state where a report had already been printed.
- The strengthening `IInv` adds `phase # "done" => ~reported`. The report is
  printed only in the step that ends the run.
- Lemma `SingleFailsIffNonzero` states that `run_single_test` reports FAILED
  exactly when `run_command`'s code is nonzero.
- The all-tests branch takes its status from that code directly.

`ErrorToleranceAuditProofs.tla` also proves, for every instance:

- `THEOREM Refinement == Spec => ImplementsAuditSpec`;
- `THEOREM ExitCorrect == Spec => []ExitStatusCorrect`.

Both rest on the inductive invariant `IInv` and on the lemma `NextIInv`
(`IInv /\ [Next]_vars => IInv'`). `IInv` states:

- before the scan, nothing is found and the cursors are at their start;
- once the files are listed, the root exists, and `files` is an ordering of
  the candidates, each listed once;
- the rule cursor is 1 between lines and at the end of a file;
- the file under the cursor is readable while its lines are scanned;
- the report is printed only after the last file;
- the key conjunct: `SeqRange(issues)` is exactly the set of promised
  findings strictly before the cursor (`FoundSoFar`, with `Before(f)` the
  scan-order comparison of `f` and the cursor).

The key conjunct is what makes the refinement hold.

- Lemma `CheckRuleHit` shows that a matching `CheckRule` appends a promised
  finding that was not found before. That is a `Discover` step.
- Lemma `ReportComplete` shows that at `Report` every promised finding is
  before the cursor, so `found = Promised` and `Report` is `Finish`.
- `HighPromised` relates `HighInTree` to the promised HIGH findings. With
  `ReportComplete`, it gives `ExitCorrect`.
- The invariant is needed because `ExitStatusCorrect` alone says nothing
  about `issues` while the scan runs.

`IInv` was first checked with TLC as an invariant of `audit_scan`'s
instance, and then proved.

`ErrorToleranceAuditProofs.tla` proves `FindingsExact` in full:

- `THEOREM FindingsExactness == Spec => []FindingsExact`.

It strengthens `IInv` to `EInv == IInv /\ Quiet /\ Ordered`:

- `Quiet`: before the listing and after an early exit, `files` and `issues`
  are empty.
- `Ordered`: the order conjunct of `FindingsExact`.
- Lemma `BeforeCursor`: every finding before the cursor is, in scan order,
  before the finding at the cursor. So the finding a `CheckRule` appends
  keeps `issues` ordered.
- Lemma `OwedIsFoundSoFar`: once the files are listed, `Owed` (written over
  positions in `rust_files`) equals `FoundSoFar` (written over promised
  findings). This turns `IInv`'s key conjunct into the set half of
  `FindingsExact`.
- `EInv` was checked with TLC on `audit_scan`'s instance before it was proved.

`RustTestRunnerProofs.tla` proves three more theorems.

- `THEOREM NearestManifest == Spec => []WalkFindsLexicalManifest`.
  - The loop invariant `RootInv` states that no directory strictly between
    `workspace_root` and the start of the path holds a `Cargo.toml`.
  - The loop leaves only at a manifest, or at the top of the chain
    (`dir = 0`) with exit 1.
  - The report is printed only after a manifest was found.
  - Lemma `DeepestIs` then identifies `workspace_root` as the deepest
    manifest of the chain.
  - Assumptions used: `MaxDepth \in Nat` and `CwdDepth \in 0..MaxDepth`.
- `THEOREM FirstMatch == Spec => []FirstMatchWins`.
  - `AnalyzeFailure`'s loop is the recursive function `first` over `1..9`.
    On a fixed finite domain no induction is needed.
  - `Unrolled` spells out the nine values, and lemma `UnrolledSolves` shows
    they satisfy `first`'s defining equation.
  - Lemma `UnrolledUnique` shows every solution equals them, computed from
    index 9 down. So `AnalyzeFailure(err) = Diagnosis(Unrolled(err)[1])`
    (lemma `AnalyzeUnrolled`).
  - Lemma `UnrolledEarliest` shows, by one case per first signature, that
    this value is the earliest declared signature in `err`.
  - `FirstMatchWins` is then inductive as it stands, using
    `StderrAssumption` (every stderr is a set of signatures).
- `THEOREM WrapperRefinement == Spec => ImplementsWrapperSpec`.
  - The invariant `WInv` is `RootInv` plus: before main exits, cargo has not
    run and the exit status is 0.
  - Lemma `StopsAtNearest` shows that where the loop stops is the nearest
    manifest, which gives `Found`'s root.
  - `SingleFailsIffNonzero` gives `Found`'s exit status for the single-test
    mode.

Three more theorems cover the invariants that rest on list filtering.

- `SeqFilterTheorems.tla` proves what `Keep` computes, for lists of any
  length.
  - Induction over the list uses a least-number principle, lemma
    `LeastNatural`. It is derived from `WFMin` and `NatLessThanWellFounded`
    of `WellFoundedInduction`. A failing prefix would have a least failing
    length, and the step from the prefix before it gives a contradiction.
    The library's induction theorems take an operator parameter, and the
    installed provers cannot instantiate one.
  - `KeepSolvable` and `KeepIsTable` show that the table of prefixes exists,
    so `Keep` is its last entry.
  - `KeepType`: the result holds only accepted items and is no longer than
    the list.
  - `KeepEmbeds`: the result is the list's accepted items, every one of them,
    in their order. It is stated as a strictly increasing index map.
- `THEOREM RunnerTypeCorrect == Spec => []TypeOK` in
  `RustTestRunnerProofs.tla`. It uses `KeepType` for `ParseTestOutput`'s
  results and for the status lists of `format_test_report`. `TypeOK` is
  inductive as it stands. The proof has one step per action.
- `THEOREM ListingComplete == Spec => []PassedListingComplete` follows from
  `RunnerTypeCorrect` and lemma `ListingAddsUp`. That lemma covers every
  list of results: the names listed (at most 10) plus the `K more` count
  equal the number of passed tests, and `K > 0` when the line is printed.
- `THEOREM ReportCanonicity == Spec => []ReportCanonical` in
  `ErrorToleranceAuditProofs.tla`. The argument follows the code and is kept
  in `AuditReportTheorems.tla`, for any list of issues whose issues of each
  file come in line and rule order (`FileOrdered`):
  - `ByFileFacts`: a file's group of a severity holds exactly that file's
    issues of the severity, in line and rule order. It composes the two
    `KeepEmbeds` maps.
  - `SectionTable`, by least-number induction over the sorted files: after
    `q` files the section holds the issues of files `1..q`, in report order.
    `ConcatRange` and `ConcatOrdered` handle the appends.
  - `FormatReportFacts`: the three sections together hold every issue, in
    report order. HIGH < MEDIUM < LOW by `SevRank`.
  - `ReportIsCanonical`: the report has as many entries as the list. Both are
    injective: the report because its order is strict, and the list because
    its per-file order is strict. `InjectiveLen` (via `FS_Bijection`) then
    equates each length with the cardinality of the same set.
  - In the auditor, `FileOrdered(issues)` comes from the `Ordered` conjunct
    of `EInv` (lemma `IssuesFileOrdered`). Once `issues` holds only promised
    findings, `Pos` is an index of `files`, so two issues of one file are
    compared by line and rule.

**What is only model-checked.**

- Liveness (`Terminates`) and anything involving ENABLED are out of the
  prover's reach.
- Every safety invariant of a passing run has a TLAPS theorem.

## Not modelled

- **Text.** The regexes themselves are not modelled. A line is given by the
  set of rules that match it. Message wording, the Markdown layout and the
  excerpt truncation (`[:500]`, `[:300]`) are left out too.
- **Command lines.** argparse and the argument vectors passed to cargo are not
  modelled. In all-tests mode `--package` and `--features` are placed after
  `--`, and `--format-terse` is passed through to the test binary. This is
  listed as a hazard at `run_rust_tests.py:344`.
- **Which paths are build artifacts.** `should_skip_file` matches `target`
  against every path component, the root's own included. The model takes the
  set `inTarget` as input.
- **cargo's test filtering.** A filter that matches no test makes cargo exit 0.
  The model takes the exit code as given.

## Plan for later work

1. **Termination.** `Terminates` stays with TLC. A proof would need
   ENABLED and fairness reasoning, which the installed provers do not do.
2. **Unmatched filters.** A single-test filter that matches no test is
   reported as PASSED (`run_rust_tests.py:222`). A model of cargo's test
   selection would be needed to state this as a property.
