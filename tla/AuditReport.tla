----------------------------- MODULE AuditReport -----------------------------
(***************************************************************************)
(* The auditor's report builder: format_report of                         *)
(* scripts/check_error_tolerance.py.                                       *)
(*                                                                         *)
(* An Issue keeps what tells findings apart: the file (a path is a number, *)
(* its rank in the lexicographic order of paths, which is all sorted()     *)
(* looks at), the 1-based line, the rule of CHECK_PATTERNS that matched    *)
(* (by declaration index) and its severity.  The category, risk,          *)
(* suggestion and example texts are functions of the rule and are left    *)
(* out, as are the headings, the Markdown layout and the summary table.    *)
(* The rendered report is the sequence of Issues in the order their        *)
(* entries are printed.                                                    *)
(***************************************************************************)
EXTENDS Naturals, Sequences, SeqFilter

\* The closed set of severities of class Severity.
Severities == {"HIGH", "MEDIUM", "LOW"}

\* The order of format_report's loop over severities: HIGH, MEDIUM, LOW.
SeverityOrder == <<"HIGH", "MEDIUM", "LOW">>

SevRank(s) == CASE s = "HIGH" -> 1 [] s = "MEDIUM" -> 2 [] s = "LOW" -> 3

IssueType(paths, rules) ==
  [file: paths, line: Nat \ {0}, rule: rules, severity: Severities]

SeqRange(s) == {s[i] : i \in DOMAIN s}

(***************************************************************************)
(* format_report groups the issues twice: issues_by_severity[s] keeps the  *)
(* issues of severity s in the order they were found, and issues_by_file  *)
(* keeps, for each file, that file's issues of the severity in the same   *)
(* order.  Both are appends in a loop over a list, the filter Keep.       *)
(***************************************************************************)
BySeverity(iss, s) == Keep(iss, {i \in SeqRange(iss) : i.severity = s})

ByFile(iss, s, p) == Keep(BySeverity(iss, s), {i \in SeqRange(iss) : i.file = p})

\* Mutant of FormatReport: the issues of a severity printed as found,
\* without the grouping by file and the sorted() over paths.
FormatReportUngrouped(iss, numPaths) ==
  BySeverity(iss, SeverityOrder[1]) \o BySeverity(iss, SeverityOrder[2])
    \o BySeverity(iss, SeverityOrder[3])

\* The entries under the heading of severity s: the files in path order
\* (sorted(issues_by_file.items())), each with its issues; a file with no
\* issue of the severity is not in issues_by_file and prints nothing.
Section(iss, s, numPaths) ==
  LET acc[p \in 0..numPaths] ==
        IF p = 0 THEN <<>> ELSE acc[p - 1] \o ByFile(iss, s, p)
  IN  acc[numPaths]

(***************************************************************************)
(* format_report: the sections of the severities in the fixed order HIGH, *)
(* MEDIUM, LOW; a severity with no issue prints nothing, and an empty      *)
(* issue list prints the "no issues" line, the empty sequence of entries.  *)
(***************************************************************************)
FormatReport(iss, numPaths) ==
  Section(iss, SeverityOrder[1], numPaths) \o Section(iss, SeverityOrder[2], numPaths)
    \o Section(iss, SeverityOrder[3], numPaths)

\* The order the spec gives the report: severity, then path, then line, and
\* within a line the rules in declaration order.
ReportBefore(a, b) ==
  \/ SevRank(a.severity) < SevRank(b.severity)
  \/ /\ a.severity = b.severity
     /\ \/ a.file < b.file
        \/ a.file = b.file /\ a.line < b.line
        \/ a.file = b.file /\ a.line = b.line /\ a.rule < b.rule

=============================================================================
