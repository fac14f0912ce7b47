------------------------- MODULE ErrorToleranceAudit -------------------------
(***************************************************************************)
(* The error-tolerance auditor, scripts/check_error_tolerance.py: main,    *)
(* find_rust_files with should_skip_file, check_rust_file and the exit    *)
(* status, with the report of module AuditReport.                         *)
(*                                                                         *)
(* The file system is the environment: whether the root exists, the .rs   *)
(* files under it, which of them can be read (open or UTF-8 decoding may   *)
(* fail) and their lines.  A line is abstracted to its kind, which decides *)
(* the exclusions of check_rust_file, and to the set of rules whose        *)
(* pattern re.search finds in it.  The three nested loops of the program   *)
(* (files, lines, rules) are stepped one iteration at a time.              *)
(***************************************************************************)
EXTENDS Naturals, Sequences, FiniteSets, AuditReport

CONSTANTS
  NumPaths,     \* the .rs files under the root are 1..NumPaths, in path order
  RuleSev,      \* CHECK_PATTERNS in declaration order: rule -> severity
  Contents      \* the line sequences a file may hold

Paths == 1..NumPaths
Rules == 1..Len(RuleSev)

(***************************************************************************)
(* Line kinds: "comment" (the stripped line starts with //), "testattr"   *)
(* (the line contains #[test] or #test), "testbody" (a line of the body of *)
(* a #[test] function, which has no marker of its own), "blockcomment" (a *)
(* line of a /* ... */ comment: it starts with /* or *, not with //) and  *)
(* "code".                                                                 *)
(***************************************************************************)
LineKinds == {"code", "comment", "testattr", "testbody", "blockcomment"}
Line == [kind: LineKinds, hits: SUBSET Rules]

ASSUME NumPathsAssumption == NumPaths \in Nat
ASSUME RuleSevAssumption == RuleSev \in Seq(Severities)
ASSUME ContentsAssumption == Contents \subseteq Seq(Line)

VARIABLES
  rootExists,  \* check_path.exists()
  inTarget,    \* the paths with a "target" component
  text,        \* path -> its lines
  readable,    \* path -> whether open() and readlines() succeed
  phase,       \* "start", "scan" (the loop over rust_files) or "done"
  files,       \* rust_files, in the order rglob yields them
  fi,          \* index in files of the file being checked
  ln,          \* line_num in that file; 0 before the file is read
  ri,          \* index of the rule the inner loop evaluates next
  issues,      \* all_issues, extended file by file
  reported,    \* the report was printed
  exitCode     \* the argument of sys.exit once phase = "done"

env  == <<rootExists, inTarget, text, readable>>
vars == <<rootExists, inTarget, text, readable, phase, files, fi, ln, ri, issues,
          reported, exitCode>>

Issue == IssueType(Paths, Rules)

\* should_skip_file: a path with a "target" component is not a candidate.
RustFiles == Paths \ inTarget

\* The orders rglob may list a set of files in: each file once, all of them.
Orderings(S) ==
  {s \in [1..Cardinality(S) -> S] :
     /\ \A i, j \in DOMAIN s : i # j => s[i] # s[j]
     /\ SeqRange(s) = S}

\* The two `continue`s of check_rust_file's line loop.
Excluded(line) == line.kind \in {"comment", "testattr"}

Finding(p, n, r) == [file |-> p, line |-> n, rule |-> r, severity |-> RuleSev[r]]

HasHigh(iss) == \E i \in DOMAIN iss : iss[i].severity = "HIGH"

TypeOK ==
  /\ rootExists \in BOOLEAN
  /\ inTarget \in SUBSET Paths
  /\ text \in [Paths -> Contents]
  /\ readable \in [Paths -> BOOLEAN]
  /\ phase \in {"start", "scan", "done"}
  /\ files \in Seq(RustFiles)
  /\ fi \in 1..Len(files) + 1
  /\ ln \in Nat
  /\ ri \in 1..Len(RuleSev) + 1
  /\ issues \in Seq(Issue)
  /\ reported \in BOOLEAN
  /\ exitCode \in {0, 1}

Init ==
  /\ rootExists \in BOOLEAN
  /\ inTarget \in SUBSET Paths
  /\ text \in [Paths -> Contents]
  /\ readable \in [Paths -> BOOLEAN]
  /\ phase = "start"
  /\ files = <<>>
  /\ fi = 1
  /\ ln = 0
  /\ ri = 1
  /\ issues = <<>>
  /\ reported = FALSE
  /\ exitCode = 0

\* main: a root that does not exist is an error exit before any scan.
RootMissing ==
  /\ phase = "start"
  /\ ~rootExists
  /\ phase' = "done"
  /\ exitCode' = 1
  /\ UNCHANGED <<env, files, fi, ln, ri, issues, reported>>

\* main: no candidate .rs file, exit 0 without a report.
NoRustFiles ==
  /\ phase = "start"
  /\ rootExists
  /\ RustFiles = {}
  /\ phase' = "done"
  /\ exitCode' = 0
  /\ UNCHANGED <<env, files, fi, ln, ri, issues, reported>>

\* find_rust_files, then the start of main's loop over the files.
FindRustFiles ==
  /\ phase = "start"
  /\ rootExists
  /\ RustFiles # {}
  /\ \E order \in Orderings(RustFiles) : files' = order
  /\ phase' = "scan"
  /\ fi' = 1
  /\ UNCHANGED <<env, ln, ri, issues, reported, exitCode>>

\* check_rust_file: open and readlines fail; warn and return no issue.
ReadFails ==
  /\ phase = "scan"
  /\ fi <= Len(files)
  /\ ln = 0
  /\ ~readable[files[fi]]
  /\ fi' = fi + 1
  /\ UNCHANGED <<env, phase, files, ln, ri, issues, reported, exitCode>>

\* check_rust_file: the file is read; the line loop starts at line 1.
ReadFile ==
  /\ phase = "scan"
  /\ fi <= Len(files)
  /\ ln = 0
  /\ readable[files[fi]]
  /\ ln' = 1
  /\ UNCHANGED <<env, phase, files, fi, ri, issues, reported, exitCode>>

\* The line being checked, when the line loop is inside the file.
InLine ==
  /\ phase = "scan"
  /\ fi <= Len(files)
  /\ ln >= 1
  /\ ln <= Len(text[files[fi]])

CurLine == text[files[fi]][ln]

\* A comment line or a test-attribute line is skipped before any rule.
SkipLine ==
  /\ InLine
  /\ ri = 1
  /\ Excluded(CurLine)
  /\ ln' = ln + 1
  /\ UNCHANGED <<env, phase, files, fi, ri, issues, reported, exitCode>>

\* Mutant of CheckRule: the rule loop runs one index past the catalog.
CheckRuleOffByOne ==
  /\ InLine
  /\ ~Excluded(CurLine)
  /\ ri <= Len(RuleSev) + 1
  /\ issues' = IF ri \in CurLine.hits
                 THEN Append(issues, Finding(files[fi], ln, ri))
                 ELSE issues
  /\ ri' = ri + 1
  /\ UNCHANGED <<env, phase, files, fi, ln, reported, exitCode>>

\* Mutant of CheckRule: the first matching rule ends the rule loop (break).
CheckRuleFirstMatch ==
  /\ InLine
  /\ ~Excluded(CurLine)
  /\ ri <= Len(RuleSev)
  /\ IF ri \in CurLine.hits
       THEN /\ issues' = Append(issues, Finding(files[fi], ln, ri))
            /\ ri' = Len(RuleSev) + 1
       ELSE /\ issues' = issues
            /\ ri' = ri + 1
  /\ UNCHANGED <<env, phase, files, fi, ln, reported, exitCode>>

\* One iteration of the loop over CHECK_PATTERNS: every rule is evaluated,
\* and each one whose pattern matches adds an Issue.
CheckRule ==
  /\ InLine
  /\ ~Excluded(CurLine)
  /\ ri <= Len(RuleSev)
  /\ issues' = IF ri \in CurLine.hits
                 THEN Append(issues, Finding(files[fi], ln, ri))
                 ELSE issues
  /\ ri' = ri + 1
  /\ UNCHANGED <<env, phase, files, fi, ln, reported, exitCode>>

\* All rules evaluated: on to the next line.
NextLine ==
  /\ InLine
  /\ ~Excluded(CurLine)
  /\ ri = Len(RuleSev) + 1
  /\ ln' = ln + 1
  /\ ri' = 1
  /\ UNCHANGED <<env, phase, files, fi, issues, reported, exitCode>>

\* Mutant of EndFile: the line counter is not reset for the next file, so
\* its read is skipped.
EndFileKeepsLine ==
  /\ phase = "scan"
  /\ fi <= Len(files)
  /\ ln >= 1
  /\ ln > Len(text[files[fi]])
  /\ fi' = fi + 1
  /\ ln' = 1
  /\ UNCHANGED <<env, phase, files, ri, issues, reported, exitCode>>

\* check_rust_file returns; main extends all_issues and takes the next file.
EndFile ==
  /\ phase = "scan"
  /\ fi <= Len(files)
  /\ ln >= 1
  /\ ln > Len(text[files[fi]])
  /\ fi' = fi + 1
  /\ ln' = 0
  /\ UNCHANGED <<env, phase, files, ri, issues, reported, exitCode>>

\* Mutant of Report: the report is printed once the last file is reached,
\* before it is checked.
ReportEarly ==
  /\ phase = "scan"
  /\ fi >= Len(files)
  /\ phase' = "done"
  /\ reported' = TRUE
  /\ exitCode' = IF HasHigh(issues) THEN 1 ELSE 0
  /\ UNCHANGED <<env, files, fi, ln, ri, issues>>

\* main: print format_report(all_issues); exit 1 iff a HIGH issue exists.
Report ==
  /\ phase = "scan"
  /\ fi > Len(files)
  /\ phase' = "done"
  /\ reported' = TRUE
  /\ exitCode' = IF HasHigh(issues) THEN 1 ELSE 0
  /\ UNCHANGED <<env, files, fi, ln, ri, issues>>

\* The process has exited.
Terminated ==
  /\ phase = "done"
  /\ UNCHANGED vars

Next ==
  \/ RootMissing \/ NoRustFiles \/ FindRustFiles
  \/ ReadFails \/ ReadFile
  \/ SkipLine \/ CheckRule \/ NextLine \/ EndFile
  \/ Report
  \/ Terminated

Spec == Init /\ [][Next]_vars

-----------------------------------------------------------------------------
(***************************************************************************)
(* Properties.                                                             *)
(***************************************************************************)

\* Rule r of line n of the k-th file of rust_files has been evaluated.
Evaluated(k, n, r) ==
  \/ k < fi
  \/ k = fi /\ ln >= 1 /\ (n < ln \/ (n = ln /\ r < ri))

\* (index in rust_files, line, rule) for every line of every listed file.
Positions ==
  UNION {{k} \X (1..Len(text[files[k]])) \X Rules : k \in 1..Len(files)}

\* The findings check_rust_file owes for what has been scanned so far.
Owed ==
  {Finding(files[t[1]], t[2], t[3]) :
     t \in {t \in Positions :
              /\ readable[files[t[1]]]
              /\ ~Excluded(text[files[t[1]]][t[2]])
              /\ t[3] \in text[files[t[1]]][t[2]].hits
              /\ Evaluated(t[1], t[2], t[3])}}

Pos(p) == CHOOSE k \in 1..Len(files) : files[k] = p

\* Scan order: file in rust_files order, then line, then rule.
ScanBefore(a, b) ==
  \/ Pos(a.file) < Pos(b.file)
  \/ a.file = b.file /\ a.line < b.line
  \/ a.file = b.file /\ a.line = b.line /\ a.rule < b.rule

(***************************************************************************)
(* check_rust_file evaluates every rule on every line that is not a        *)
(* comment or a test attribute, of every readable candidate file: the     *)
(* issues found so far are exactly the (file, line, rule) matches already *)
(* scanned, each once, in file, line and rule-declaration order.  A line   *)
(* matching K rules gives K issues; an unreadable file gives none and does *)
(* not stop the scan.                                                      *)
(***************************************************************************)
FindingsExact ==
  /\ SeqRange(issues) = Owed
  /\ \A i, j \in 1..Len(issues) : i < j => ScanBefore(issues[i], issues[j])

\* A HIGH match on a scanned line of a readable candidate file.
HighInTree ==
  \E p \in RustFiles :
    /\ readable[p]
    /\ \E n \in 1..Len(text[p]) :
         /\ ~Excluded(text[p][n])
         /\ \E r \in text[p][n].hits : RuleSev[r] = "HIGH"

(***************************************************************************)
(* main's exit status: 1 exactly when the root is missing or some file of *)
(* the whole tree has a HIGH finding; a file the loop never reached cannot *)
(* be the reason for a 0.                                                  *)
(***************************************************************************)
ExitStatusCorrect ==
  phase = "done" => (exitCode = 1 <=> (~rootExists \/ HighInTree))

(***************************************************************************)
(* The printed report holds every issue once, ordered by severity (HIGH,   *)
(* MEDIUM, LOW), then path, then line, then rule: it is the same text     *)
(* whatever order rglob listed the files in.                              *)
(***************************************************************************)
ReportCanonical ==
  reported =>
    LET rep == FormatReport(issues, NumPaths) IN
    /\ Len(rep) = Len(issues)
    /\ SeqRange(rep) = SeqRange(issues)
    /\ \A i, j \in 1..Len(rep) : i < j => ReportBefore(rep[i], rep[j])

(***************************************************************************)
(* The scanner implements AuditSpec: with all_issues read as the set of    *)
(* findings discovered, every step of the three loops either discovers a  *)
(* finding not found before and owed by the tree, or changes nothing the  *)
(* abstract specification sees, and the report is printed only when all   *)
(* owed findings are found.                                                *)
(***************************************************************************)
Abstract == INSTANCE AuditSpec WITH found <- SeqRange(issues)

ImplementsAuditSpec == Abstract!Spec

(***************************************************************************)
(* Spec 4.2 and 8: a line inside a test-only annotation context never     *)
(* yields a finding.  check_rust_file skips only the line carrying the    *)
(* #[test] marker.                                                         *)
(***************************************************************************)
TestContextSilent ==
  \A i \in 1..Len(issues) : text[issues[i].file][issues[i].line].kind # "testbody"

(***************************************************************************)
(* Spec 4.2 and 8: a pure-comment line, one that starts with a comment     *)
(* marker, never yields a finding.  check_rust_file recognises only the   *)
(* // marker, so the lines of a /* ... */ comment are scanned.            *)
(***************************************************************************)
PureCommentSilent ==
  \A i \in 1..Len(issues) :
    text[issues[i].file][issues[i].line].kind \notin {"comment", "blockcomment"}

(***************************************************************************)
(* Spec 6 and 8: the auditor exits 1 if and only if a HIGH finding exists. *)
(* main also exits 1 when the root path does not exist.                    *)
(***************************************************************************)
ExitIffHigh ==
  phase = "done" => (exitCode = 1 <=> HasHigh(issues))

=============================================================================
