----------------------------- MODULE WrapperSpec -----------------------------
(***************************************************************************)
(* What the test wrapper promises, without its search loop or its two     *)
(* modes: from the directory it is given, it either finds no Cargo.toml   *)
(* on that path's chain of parents and exits 1 without a report, or it    *)
(* runs cargo in the nearest directory of the chain that holds one,       *)
(* prints its report, and exits 1 exactly when the run failed.  Which     *)
(* runs fail is the constant Failing.                                      *)
(***************************************************************************)
EXTENDS Integers

CONSTANTS
  MaxDepth,    \* depth of the deepest directory considered
  CwdDepth,    \* depth of the working directory
  Runs,        \* the ways a cargo run can end
  Failing,     \* those that are a failure
  NotRun       \* no cargo run yet

VARIABLES
  absolute, startLen, manifests,  \* the path given and the tree, fixed
  phase,                          \* "search" or "done"
  root,                           \* the workspace root found, or -1
  run,                            \* how the cargo run ended, or NotRun
  reported,                       \* the report was printed
  exitCode                        \* the exit status once done

avars == <<absolute, startLen, manifests, phase, root, run, reported, exitCode>>

\* The depth "." stands for, and the directories of the path's chain.
Base == IF absolute THEN 0 ELSE CwdDepth
Chain == Base..(Base + startLen)

\* The deepest directory of a set: the nearest to where the search starts.
Nearest(S) == CHOOSE d \in S : \A e \in S : e <= d

Init ==
  /\ absolute \in BOOLEAN
  /\ startLen \in 0..(MaxDepth - Base)
  /\ manifests \in SUBSET (0..MaxDepth)
  /\ phase = "search"
  /\ root = -1
  /\ run = NotRun
  /\ reported = FALSE
  /\ exitCode = 0

NotFound ==
  /\ phase = "search"
  /\ manifests \cap Chain = {}
  /\ phase' = "done"
  /\ exitCode' = 1
  /\ UNCHANGED <<absolute, startLen, manifests, root, run, reported>>

Found ==
  /\ phase = "search"
  /\ manifests \cap Chain # {}
  /\ root' = Nearest(manifests \cap Chain)
  /\ \E o \in Runs : run' = o /\ exitCode' = IF o \in Failing THEN 1 ELSE 0
  /\ reported' = TRUE
  /\ phase' = "done"
  /\ UNCHANGED <<absolute, startLen, manifests>>

Next == NotFound \/ Found

Spec == Init /\ [][Next]_avars

=============================================================================
