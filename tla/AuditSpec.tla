------------------------------ MODULE AuditSpec ------------------------------
(***************************************************************************)
(* What the error-tolerance auditor promises, without its loops: over a   *)
(* fixed file system it discovers the findings one at a time, each one a  *)
(* match of a catalog rule on a line that is neither a comment nor a test *)
(* attribute, in a readable .rs file outside any target directory; it     *)
(* reports only once every such finding is found, and exits 1 exactly     *)
(* when one of them is HIGH.  A missing root is an error exit, and a tree *)
(* with no candidate file exits 0 without a report.  The order of the     *)
(* discoveries is left open.                                               *)
(***************************************************************************)
EXTENDS Naturals, Sequences, AuditReport

CONSTANTS NumPaths, RuleSev, Contents

VARIABLES
  rootExists, inTarget, text, readable,  \* the file system, fixed
  phase,                                 \* "start", "scan" or "done"
  found,                                 \* the set of findings discovered
  reported,                              \* the report was printed
  exitCode                               \* the exit status once done

avars == <<rootExists, inTarget, text, readable, phase, found, reported, exitCode>>

Paths == 1..NumPaths
Candidates == Paths \ inTarget

\* The lines of file p the rules are evaluated on.
Scanned(p) ==
  {n \in 1..Len(text[p]) : text[p][n].kind \notin {"comment", "testattr"}}

\* Every finding the catalog owes the tree.
Promised ==
  UNION {UNION {{[file |-> p, line |-> n, rule |-> r, severity |-> RuleSev[r]] :
                   r \in text[p][n].hits} :
                n \in Scanned(p)} :
         p \in {q \in Candidates : readable[q]}}

Init ==
  /\ rootExists \in BOOLEAN
  /\ inTarget \in SUBSET Paths
  /\ text \in [Paths -> Contents]
  /\ readable \in [Paths -> BOOLEAN]
  /\ phase = "start"
  /\ found = {}
  /\ reported = FALSE
  /\ exitCode = 0

Missing ==
  /\ phase = "start" /\ ~rootExists
  /\ phase' = "done" /\ exitCode' = 1
  /\ UNCHANGED <<rootExists, inTarget, text, readable, found, reported>>

Empty ==
  /\ phase = "start" /\ rootExists /\ Candidates = {}
  /\ phase' = "done" /\ exitCode' = 0
  /\ UNCHANGED <<rootExists, inTarget, text, readable, found, reported>>

Start ==
  /\ phase = "start" /\ rootExists /\ Candidates # {}
  /\ phase' = "scan"
  /\ UNCHANGED <<rootExists, inTarget, text, readable, found, reported, exitCode>>

Discover ==
  /\ phase = "scan"
  /\ \E f \in Promised \ found : found' = found \cup {f}
  /\ UNCHANGED <<rootExists, inTarget, text, readable, phase, reported, exitCode>>

Finish ==
  /\ phase = "scan"
  /\ found = Promised
  /\ phase' = "done"
  /\ reported' = TRUE
  /\ exitCode' = IF \E f \in found : f.severity = "HIGH" THEN 1 ELSE 0
  /\ UNCHANGED <<rootExists, inTarget, text, readable, found>>

Next == Missing \/ Empty \/ Start \/ Discover \/ Finish

Spec == Init /\ [][Next]_avars

=============================================================================
