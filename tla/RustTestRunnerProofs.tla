------------------------ MODULE RustTestRunnerProofs ------------------------
(***************************************************************************)
(* Proofs about the test-wrapper model RustTestRunner, for every depth of *)
(* the tree, every working directory and every output cargo may print.    *)
(***************************************************************************)
EXTENDS RustTestRunner, SeqFilterTheorems, TLAPS

\* run_single_test reports FAILED exactly when run_command's code is not 0.
LEMMA SingleFailsIffNonzero ==
  ASSUME NEW name, NEW o
  PROVE  RunSingleTest(name, o).status = "FAILED" <=> RunCommand(o).rc # 0
BY DEF RunSingleTest

(***************************************************************************)
(* The strengthening of FailureNeverMasked: main prints its report only in *)
(* the step that ends the run, so while the search loop or the cargo run  *)
(* is still ahead nothing has been reported.                               *)
(***************************************************************************)
IInv ==
  /\ FailureNeverMasked
  /\ phase # "done" => ~reported

\* The strengthening holds initially.
LEMMA InitIInv == Init => IInv
BY DEF Init, IInv, FailureNeverMasked

\* Every step of main preserves the strengthening.
LEMMA NextIInv == IInv /\ [Next]_vars => IInv'
<1> SUFFICES ASSUME IInv, [Next]_vars PROVE IInv'
  OBVIOUS
<1>1. CASE FoundManifest \/ WalkUp
  BY <1>1 DEF FoundManifest, WalkUp, IInv, FailureNeverMasked
<1>2. CASE NoManifest
  BY <1>2 DEF NoManifest, IInv, FailureNeverMasked
<1>3. CASE RunSingle
  <2>1. PICK o \in Outcomes :
          /\ harness' = o
          /\ exitCode' = IF RunSingleTest(filter, o).status = "FAILED" THEN 1 ELSE 0
    BY <1>3 DEF RunSingle
  <2>2. RunSingleTest(filter, o).status = "FAILED" <=> RunCommand(o).rc # 0
    BY SingleFailsIffNonzero
  <2>. QED
    BY <1>3, <2>1, <2>2 DEF RunSingle, IInv, FailureNeverMasked
<1>4. CASE RunAll
  <2>1. PICK o \in Outcomes :
          /\ harness' = o
          /\ exitCode' = IF RunCommand(o).rc # 0 THEN 1 ELSE 0
    BY <1>4 DEF RunAll
  <2>. QED
    BY <1>4, <2>1 DEF RunAll, IInv, FailureNeverMasked
<1>5. CASE Terminated \/ UNCHANGED vars
  BY <1>5 DEF Terminated, vars, IInv, FailureNeverMasked
<1>. QED
  BY <1>1, <1>2, <1>3, <1>4, <1>5 DEF Next

(***************************************************************************)
(* A failed cargo run is never reported as a success: in every reachable  *)
(* state where main has printed its report, the exit status is 1 exactly   *)
(* when run_command returned a nonzero code, in both branches of main and  *)
(* for a timeout or a spawn error as well as a failing test.               *)
(***************************************************************************)
THEOREM NeverMasked == Spec => []FailureNeverMasked
<1>1. IInv => FailureNeverMasked
  BY DEF IInv
<1>. QED
  BY InitIInv, NextIInv, <1>1, PTL DEF Spec

-----------------------------------------------------------------------------
(***************************************************************************)
(* The search for the workspace root.  The loop of main looks for         *)
(* Cargo.toml from the directory it was given upward, one .parent at a    *)
(* time; RootInv is what the loop has learnt so far: no directory below   *)
(* workspace_root on the path's chain holds a manifest, the loop left      *)
(* only at a manifest or, with exit 1, at the top of the chain, and the    *)
(* report is printed only after a manifest was found.                      *)
(***************************************************************************)
RootInv ==
  /\ absolute \in BOOLEAN
  /\ startLen \in Nat
  /\ dir \in 0..startLen
  /\ phase \in {"root", "run", "done"}
  /\ \A d \in (Depth + 1)..(Base + startLen) : d \notin manifests
  /\ phase \in {"root", "run"} => ~reported
  /\ phase = "run" => Depth \in manifests
  /\ (phase = "done" /\ reported) => Depth \in manifests
  /\ (phase = "done" /\ ~reported) => exitCode = 1 /\ dir = 0 /\ Depth \notin manifests

\* The directory "." stands for is a depth.
LEMMA BaseNat == absolute \in BOOLEAN => Base \in Nat
BY MaxDepthAssumption, CwdDepthAssumption DEF Base

\* The deepest member of a set of integers is the one no member exceeds.
LEMMA DeepestIs ==
  ASSUME NEW S \in SUBSET Int, NEW d \in S, \A e \in S : e <= d
  PROVE  Deepest(S) = d
<1>1. \E c \in S : \A e \in S : e <= c
  OBVIOUS
<1>2. Deepest(S) \in S /\ \A e \in S : e <= Deepest(S)
  BY <1>1 DEF Deepest
<1>3. Deepest(S) \in Int /\ Deepest(S) <= d /\ d <= Deepest(S)
  BY <1>2
<1>. QED
  BY <1>3

\* The search starts with nothing learnt.
LEMMA InitRootInv == Init => RootInv
<1> SUFFICES ASSUME Init PROVE RootInv
  OBVIOUS
<1>1. Base \in Nat /\ startLen \in Nat /\ dir = startLen
  BY BaseNat, MaxDepthAssumption DEF Init
<1>. QED
  BY <1>1 DEF Init, RootInv, Depth

\* Every step of main keeps what the search has learnt.
LEMMA NextRootInv == RootInv /\ [Next]_vars => RootInv'
<1> SUFFICES ASSUME RootInv, [Next]_vars PROVE RootInv'
  OBVIOUS
<1>0. Base \in Nat
  BY BaseNat DEF RootInv
<1>1. CASE FoundManifest
  BY <1>1 DEF FoundManifest, args, RootInv, Depth, Base
<1>2. CASE WalkUp
  <2>1. Base' = Base /\ startLen' = startLen /\ manifests' = manifests
        /\ dir' = dir - 1 /\ phase' = "root" /\ phase = "root"
        /\ reported' = reported
    BY <1>2 DEF WalkUp, args, Base
  <2>2. Depth \notin manifests /\ dir \in 1..startLen
    BY <1>2 DEF WalkUp, RootInv
  <2>3. \A d \in (Depth' + 1)..(Base' + startLen') : d \notin manifests'
    BY <1>0, <2>1, <2>2 DEF RootInv, Depth
  <2>4. dir' \in 0..startLen' /\ startLen' \in Nat /\ absolute' \in BOOLEAN
    BY <1>2, <2>1, <2>2 DEF WalkUp, args, RootInv
  <2>. QED
    BY <2>1, <2>3, <2>4 DEF RootInv
<1>3. CASE NoManifest
  BY <1>3 DEF NoManifest, args, RootInv, Depth, Base
<1>4. CASE RunSingle \/ RunAll
  BY <1>4 DEF RunSingle, RunAll, args, RootInv, Depth, Base
<1>5. CASE Terminated \/ UNCHANGED vars
  BY <1>5 DEF Terminated, vars, RootInv, Depth, Base
<1>. QED
  BY <1>1, <1>2, <1>3, <1>4, <1>5 DEF Next

(***************************************************************************)
(* main's search for the workspace root stops at the nearest directory of  *)
(* the path's own parent chain that holds a Cargo.toml, and fails with     *)
(* exit 1 and no report only when none of them does, for every depth of   *)
(* the tree, every working directory, absolute or relative path and every *)
(* set of manifests.                                                       *)
(***************************************************************************)
THEOREM NearestManifest == Spec => []WalkFindsLexicalManifest
<1>1. RootInv => WalkFindsLexicalManifest
  <2> SUFFICES ASSUME RootInv, phase = "done"
               PROVE  IF manifests \cap LexicalChain # {}
                        THEN RootFound /\ Depth = Deepest(manifests \cap LexicalChain)
                        ELSE ~reported /\ exitCode = 1
    BY DEF WalkFindsLexicalManifest
  <2>0. Base \in Nat /\ startLen \in Nat /\ dir \in 0..startLen
    BY BaseNat DEF RootInv
  <2>1. CASE reported
    <3>1. Depth \in manifests \cap LexicalChain
      BY <2>0, <2>1 DEF RootInv, LexicalChain, Depth
    <3>2. \A e \in manifests \cap LexicalChain : e <= Depth
      BY <2>0 DEF RootInv, LexicalChain, Depth
    <3>3. Deepest(manifests \cap LexicalChain) = Depth
      BY <2>0, <3>1, <3>2, DeepestIs DEF LexicalChain
    <3>. QED
      BY <2>1, <3>1, <3>3 DEF RootFound
  <2>2. CASE ~reported
    <3>1. manifests \cap LexicalChain = {}
      BY <2>0, <2>2 DEF RootInv, LexicalChain, Depth
    <3>. QED
      BY <2>2, <3>1 DEF RootInv
  <2>. QED
    BY <2>1, <2>2
<1>. QED
  BY <1>1, InitRootInv, NextRootInv, PTL DEF Spec

-----------------------------------------------------------------------------
(***************************************************************************)
(* The refinement of WrapperSpec.  Besides what the search has learnt,    *)
(* it needs that nothing is run and no exit status is set before main     *)
(* leaves the search loop and one of its two modes.                       *)
(***************************************************************************)
WInv ==
  /\ RootInv
  /\ phase # "done" => harness = NoRun /\ exitCode = 0

\* When the loop stops at a manifest, it is the nearest one on the chain.
LEMMA StopsAtNearest ==
  ASSUME RootInv, Depth \in manifests
  PROVE  /\ manifests \cap LexicalChain # {}
         /\ Depth = Deepest(manifests \cap LexicalChain)
<1>0. Base \in Nat /\ startLen \in Nat /\ dir \in 0..startLen
  BY BaseNat DEF RootInv
<1>1. Depth \in manifests \cap LexicalChain
  BY <1>0 DEF LexicalChain, Depth
<1>2. \A e \in manifests \cap LexicalChain : e <= Depth
  BY <1>0 DEF RootInv, LexicalChain, Depth
<1>3. manifests \cap LexicalChain \subseteq Int
  BY <1>0 DEF LexicalChain
<1>. QED
  BY <1>1, <1>2, <1>3, DeepestIs

\* The strengthening holds initially.
LEMMA InitWInv == Init => WInv
BY InitRootInv DEF Init, WInv

\* Every step of main keeps it.
LEMMA NextWInv == WInv /\ [Next]_vars => WInv'
<1> SUFFICES ASSUME WInv, [Next]_vars PROVE WInv'
  OBVIOUS
<1>1. RootInv'
  BY NextRootInv DEF WInv
<1>2. CASE FoundManifest \/ WalkUp
  BY <1>1, <1>2 DEF FoundManifest, WalkUp, WInv
<1>3. CASE NoManifest \/ RunSingle \/ RunAll
  BY <1>1, <1>3 DEF NoManifest, RunSingle, RunAll, WInv
<1>4. CASE Terminated \/ UNCHANGED vars
  BY <1>1, <1>4 DEF Terminated, vars, WInv
<1>. QED
  BY <1>2, <1>3, <1>4 DEF Next

(***************************************************************************)
(* The wrapper implements WrapperSpec for every depth of the tree, every  *)
(* working directory, absolute or relative path and every way cargo can   *)
(* end: the steps of the search loop are stutters, the exit for a missing *)
(* Cargo.toml is NotFound, and each of the two modes of main is Found,    *)
(* from the nearest manifest and with exit 1 exactly for a failed run.    *)
(***************************************************************************)
THEOREM WrapperRefinement == Spec => ImplementsWrapperSpec
<1>1. Init => Wrapper!Init
  BY DEF Init, Wrapper!Init, Wrapper!Base, Base
<1>2. WInv /\ [Next]_vars => [Wrapper!Next]_Wrapper!avars
  <2> SUFFICES ASSUME WInv, [Next]_vars PROVE [Wrapper!Next]_Wrapper!avars
    OBVIOUS
  <2>0. Wrapper!Chain = LexicalChain
    BY DEF Wrapper!Chain, Wrapper!Base, LexicalChain, Base
  <2>1. CASE FoundManifest \/ WalkUp
    BY <2>1 DEF FoundManifest, WalkUp, args, Wrapper!avars
  <2>2. CASE NoManifest
    <3>1. manifests \cap LexicalChain = {}
      <4>1. Base \in Nat /\ startLen \in Nat /\ dir = 0 /\ Depth \notin manifests
        BY <2>2, BaseNat DEF NoManifest, WInv, RootInv
      <4>. QED
        BY <4>1 DEF WInv, RootInv, LexicalChain, Depth
    <3>2. ~reported /\ ~reported'
      BY <2>2 DEF NoManifest, WInv, RootInv
    <3>. QED
      BY <2>2, <2>0, <3>1, <3>2 DEF NoManifest, args, Wrapper!Next, Wrapper!NotFound
  <2>3. CASE RunSingle \/ RunAll
    <3>1. phase = "run" /\ Depth \in manifests /\ RootInv
      BY <2>3 DEF RunSingle, RunAll, WInv, RootInv
    <3>2. manifests \cap LexicalChain # {}
          /\ Depth = Deepest(manifests \cap LexicalChain)
      BY <3>1, StopsAtNearest
    <3>3. Depth' = Depth
      BY <2>3 DEF RunSingle, RunAll, args, Depth, Base
    <3>4. Wrapper!Nearest(manifests \cap LexicalChain) = Deepest(manifests \cap LexicalChain)
      BY DEF Wrapper!Nearest, Deepest
    <3>5. \E o \in Outcomes :
            /\ harness' = o
            /\ exitCode' = IF o \in {q \in Outcomes : RunCommand(q).rc # 0} THEN 1 ELSE 0
      <4>1. CASE RunSingle
        <5>1. PICK o \in Outcomes :
                /\ harness' = o
                /\ exitCode' = IF RunSingleTest(filter, o).status = "FAILED" THEN 1 ELSE 0
          BY <4>1 DEF RunSingle
        <5>. QED
          BY <5>1, SingleFailsIffNonzero
      <4>2. CASE RunAll
        BY <4>2 DEF RunAll
      <4>. QED
        BY <2>3, <4>1, <4>2
    <3>6. phase' = "done" /\ reported' /\ UNCHANGED args
      BY <2>3 DEF RunSingle, RunAll
    <3>. QED
      BY <2>0, <3>1, <3>2, <3>3, <3>4, <3>5, <3>6
      DEF args, Wrapper!Next, Wrapper!Found
  <2>4. CASE Terminated \/ UNCHANGED vars
    BY <2>4 DEF Terminated, vars, Wrapper!avars, Depth, Base
  <2>. QED
    BY <2>1, <2>2, <2>3, <2>4 DEF Next
<1>3. Spec => []WInv
  BY InitWInv, NextWInv, PTL DEF Spec
<1>. QED
  BY <1>1, <1>2, <1>3, PTL DEF Spec, ImplementsWrapperSpec, Wrapper!Spec

-----------------------------------------------------------------------------
(***************************************************************************)
(* analyze_failure.  Its loop with break is the recursive function first  *)
(* over the nine indices 1..9 of AnalyzeFailure.  On so small a domain no *)
(* induction is needed: Unrolled spells out the nine values, it solves    *)
(* first's defining equation, and every solution equals it.               *)
(***************************************************************************)
Unrolled(err) ==
  LET v8 == IF 8 \in err THEN 8 ELSE 0
      v7 == IF 7 \in err THEN 7 ELSE v8
      v6 == IF 6 \in err THEN 6 ELSE v7
      v5 == IF 5 \in err THEN 5 ELSE v6
      v4 == IF 4 \in err THEN 4 ELSE v5
      v3 == IF 3 \in err THEN 3 ELSE v4
      v2 == IF 2 \in err THEN 2 ELSE v3
      v1 == IF 1 \in err THEN 1 ELSE v2
  IN  <<v1, v2, v3, v4, v5, v6, v7, v8, 0>>

\* The equation that defines first in AnalyzeFailure.
FirstEq(err, f) ==
  f = [i \in 1..9 |-> IF i = 9 THEN 0 ELSE IF i \in err THEN i ELSE f[i + 1]]

\* The nine values solve the equation.
LEMMA UnrolledSolves == ASSUME NEW err PROVE FirstEq(err, Unrolled(err))
BY DEF FirstEq, Unrolled

\* Any solution is the nine values, computed from index 9 down.
LEMMA UnrolledUnique ==
  ASSUME NEW err, NEW f, FirstEq(err, f) PROVE f = Unrolled(err)
<1> DEFINE u == Unrolled(err)
<1>1. f[9] = u[9] BY DEF FirstEq, Unrolled
<1>2. f[8] = u[8] BY <1>1 DEF FirstEq, Unrolled
<1>3. f[7] = u[7] BY <1>2 DEF FirstEq, Unrolled
<1>4. f[6] = u[6] BY <1>3 DEF FirstEq, Unrolled
<1>5. f[5] = u[5] BY <1>4 DEF FirstEq, Unrolled
<1>6. f[4] = u[4] BY <1>5 DEF FirstEq, Unrolled
<1>7. f[3] = u[3] BY <1>6 DEF FirstEq, Unrolled
<1>8. f[2] = u[2] BY <1>7 DEF FirstEq, Unrolled
<1>9. f[1] = u[1] BY <1>8 DEF FirstEq, Unrolled
<1>. QED BY <1>1, <1>2, <1>3, <1>4, <1>5, <1>6, <1>7, <1>8, <1>9 DEF FirstEq, Unrolled

\* So analyze_failure diagnoses by the first of the nine values.
LEMMA AnalyzeUnrolled ==
  ASSUME NEW err PROVE AnalyzeFailure(err) = Diagnosis(Unrolled(err)[1])
<1> DEFINE first == CHOOSE f : FirstEq(err, f)
<1>1. FirstEq(err, first)
  BY UnrolledSolves
<1>2. first = Unrolled(err)
  BY <1>1, UnrolledUnique
<1>. QED BY <1>2 DEF AnalyzeFailure, FirstEq

\* The first value is the earliest declared signature stderr contains.
LEMMA UnrolledEarliest ==
  ASSUME NEW err \in SUBSET Signatures PROVE Unrolled(err)[1] = EarliestSignature(err)
<1>1. CASE err = {}
  BY <1>1 DEF Unrolled, EarliestSignature
<1>2. CASE err # {}
  <2>1. Unrolled(err)[1] \in err /\ \A j \in err : Unrolled(err)[1] <= j
    <3>1. CASE 1 \in err
      <4>1. Unrolled(err)[1] = 1
        BY <3>1 DEF Unrolled
      <4>2. \A j \in err : 1 <= j
        BY <3>1 DEF Signatures
      <4>. QED
        BY <3>1, <4>1, <4>2
    <3>2. CASE 1 \notin err /\ 2 \in err
      <4>1. Unrolled(err)[1] = 2
        BY <3>2 DEF Unrolled
      <4>2. \A j \in err : 2 <= j
        BY <3>2 DEF Signatures
      <4>. QED
        BY <3>2, <4>1, <4>2
    <3>3. CASE 1 \notin err /\ 2 \notin err /\ 3 \in err
      <4>1. Unrolled(err)[1] = 3
        BY <3>3 DEF Unrolled
      <4>2. \A j \in err : 3 <= j
        BY <3>3 DEF Signatures
      <4>. QED
        BY <3>3, <4>1, <4>2
    <3>4. CASE 1 \notin err /\ 2 \notin err /\ 3 \notin err /\ 4 \in err
      <4>1. Unrolled(err)[1] = 4
        BY <3>4 DEF Unrolled
      <4>2. \A j \in err : 4 <= j
        BY <3>4 DEF Signatures
      <4>. QED
        BY <3>4, <4>1, <4>2
    <3>5. CASE 1 \notin err /\ 2 \notin err /\ 3 \notin err /\ 4 \notin err /\ 5 \in err
      <4>1. Unrolled(err)[1] = 5
        BY <3>5 DEF Unrolled
      <4>2. \A j \in err : 5 <= j
        BY <3>5 DEF Signatures
      <4>. QED
        BY <3>5, <4>1, <4>2
    <3>6. CASE 1 \notin err /\ 2 \notin err /\ 3 \notin err /\ 4 \notin err /\ 5 \notin err /\ 6 \in err
      <4>1. Unrolled(err)[1] = 6
        BY <3>6 DEF Unrolled
      <4>2. \A j \in err : 6 <= j
        BY <3>6 DEF Signatures
      <4>. QED
        BY <3>6, <4>1, <4>2
    <3>7. CASE 1 \notin err /\ 2 \notin err /\ 3 \notin err /\ 4 \notin err /\ 5 \notin err /\ 6 \notin err /\ 7 \in err
      <4>1. Unrolled(err)[1] = 7
        BY <3>7 DEF Unrolled
      <4>2. \A j \in err : 7 <= j
        BY <3>7 DEF Signatures
      <4>. QED
        BY <3>7, <4>1, <4>2
    <3>8. CASE 1 \notin err /\ 2 \notin err /\ 3 \notin err /\ 4 \notin err /\ 5 \notin err /\ 6 \notin err /\ 7 \notin err /\ 8 \in err
      <4>1. Unrolled(err)[1] = 8
        BY <3>8 DEF Unrolled
      <4>2. \A j \in err : 8 <= j
        BY <3>8 DEF Signatures
      <4>. QED
        BY <3>8, <4>1, <4>2
    <3>9. CASE 1 \notin err /\ 2 \notin err /\ 3 \notin err /\ 4 \notin err /\ 5 \notin err /\ 6 \notin err /\ 7 \notin err /\ 8 \notin err
      <4>1. PICK x \in err : TRUE
        BY <1>2
      <4>2. x = 1 \/ x = 2 \/ x = 3 \/ x = 4 \/ x = 5 \/ x = 6 \/ x = 7 \/ x = 8
        BY <4>1 DEF Signatures
      <4>. QED
        BY <3>9, <4>1, <4>2
    <3>. QED
      BY <3>1, <3>2, <3>3, <3>4, <3>5, <3>6, <3>7, <3>8, <3>9
  <2>2. EarliestSignature(err) \in err /\ \A j \in err : EarliestSignature(err) <= j
    BY <1>2, <2>1 DEF EarliestSignature
  <2>3. Unrolled(err)[1] \in Int /\ EarliestSignature(err) \in Int
    <3>1. err \subseteq Int
      BY DEF Signatures
    <3>. QED
      BY <2>1, <2>2, <3>1
  <2>4. Unrolled(err)[1] <= EarliestSignature(err) /\ EarliestSignature(err) <= Unrolled(err)[1]
    BY <2>1, <2>2
  <2>. QED
    BY <2>3, <2>4
<1>. QED
  BY <1>1, <1>2

\* run_command's stderr is always a set of failure signatures.
LEMMA StderrSignatures ==
  ASSUME NEW o \in Outcomes PROVE RunCommand(o).stderr \in SUBSET Signatures
BY StderrAssumption DEF Outcomes, RunCommand, TimeoutMessage, SpawnMessages, Signatures

(***************************************************************************)
(* analyze_failure is first-match-wins for every stderr: a failed single  *)
(* test is diagnosed by the earliest declared signature in its stderr,    *)
(* with that signature's fixable flag, whatever later signatures it also  *)
(* contains, and with "unknown" when it contains none.                     *)
(***************************************************************************)
THEOREM FirstMatch == Spec => []FirstMatchWins
<1>1. Init => FirstMatchWins
  BY DEF Init, FirstMatchWins
<1>2. FirstMatchWins /\ [Next]_vars => FirstMatchWins'
  <2> SUFFICES ASSUME FirstMatchWins, [Next]_vars PROVE FirstMatchWins'
    OBVIOUS
  <2>1. CASE RunSingle
    <3>1. PICK o \in Outcomes : /\ results' = <<RunSingleTest(filter, o)>>
                                /\ filter' = filter
      BY <2>1 DEF RunSingle, args
    <3> DEFINE err == RunCommand(o).stderr
    <3>2. err \in SUBSET Signatures
      BY StderrSignatures
    <3>3. AnalyzeFailure(err) = Diagnosis(EarliestSignature(err))
      BY <3>2, AnalyzeUnrolled, UnrolledEarliest
    <3>4. RunSingleTest(filter, o).status = "FAILED" =>
            /\ RunSingleTest(filter, o).error = err
            /\ RunSingleTest(filter, o).errorType = EarliestSignature(err)
            /\ RunSingleTest(filter, o).fixable = Diagnosis(EarliestSignature(err)).fixable
      <4>1. RunSingleTest(filter, o).status = "FAILED" =>
              /\ RunSingleTest(filter, o).error = err
              /\ RunSingleTest(filter, o).errorType = AnalyzeFailure(err).errorType
              /\ RunSingleTest(filter, o).fixable = AnalyzeFailure(err).fixable
        BY DEF RunSingleTest
      <4>2. AnalyzeFailure(err).errorType = EarliestSignature(err)
            /\ AnalyzeFailure(err).fixable = Diagnosis(EarliestSignature(err)).fixable
        BY <3>3 DEF Diagnosis
      <4>. QED
        BY <4>1, <4>2
    <3>. QED
      BY <3>1, <3>4 DEF FirstMatchWins
  <2>2. CASE RunAll
    BY <2>2 DEF RunAll, args, FirstMatchWins
  <2>3. CASE FoundManifest \/ WalkUp \/ NoManifest \/ Terminated \/ UNCHANGED vars
    BY <2>3 DEF FoundManifest, WalkUp, NoManifest, Terminated, vars, args, FirstMatchWins
  <2>. QED
    BY <2>1, <2>2, <2>3 DEF Next
<1>. QED
  BY <1>1, <1>2, PTL DEF Spec

-----------------------------------------------------------------------------
(***************************************************************************)
(* Types.  parse_test_output builds its list with the filter Keep, whose  *)
(* facts SeqFilterTheorems proves for every list, so the wrapper's results *)
(* are a list of TestResults for every stdout cargo may print.             *)
(***************************************************************************)

\* analyze_failure returns one of the diagnoses.
LEMMA AnalyzeType ==
  ASSUME NEW err \in SUBSET Signatures
  PROVE  /\ AnalyzeFailure(err).errorType \in Diagnoses
         /\ AnalyzeFailure(err).fixable \in BOOLEAN
<1>1. Unrolled(err)[1] \in 0..8
  BY DEF Unrolled, Signatures
<1>2. \A d \in 0..8 : Diagnosis(d).errorType \in Diagnoses /\ Diagnosis(d).fixable \in BOOLEAN
  <2>1. \A d \in Signatures : Fixable[d] \in BOOLEAN
    <3>1. Signatures = {1, 2, 3, 4, 5, 6, 7, 8}
      BY DEF Signatures
    <3>2. /\ Fixable[1] \in BOOLEAN /\ Fixable[2] \in BOOLEAN
          /\ Fixable[3] \in BOOLEAN /\ Fixable[4] \in BOOLEAN
          /\ Fixable[5] \in BOOLEAN /\ Fixable[6] \in BOOLEAN
          /\ Fixable[7] \in BOOLEAN /\ Fixable[8] \in BOOLEAN
      BY DEF Fixable
    <3>. QED
      BY <3>1, <3>2
  <2>. QED
    BY <2>1 DEF Diagnosis, Diagnoses
<1>. QED
  BY <1>1, <1>2, AnalyzeUnrolled

\* run_single_test returns a TestResult.
LEMMA SingleResultType ==
  ASSUME NEW name \in TestNames, NEW o \in Outcomes
  PROVE  RunSingleTest(name, o) \in TestResult
<1>1. RunCommand(o).stderr \in SUBSET Signatures
  BY StderrSignatures
<1>2. /\ AnalyzeFailure(RunCommand(o).stderr).errorType \in Diagnoses
      /\ AnalyzeFailure(RunCommand(o).stderr).fixable \in BOOLEAN
  BY <1>1, AnalyzeType
<1>. QED
  BY <1>1, <1>2 DEF RunSingleTest, TestResult, Statuses, Diagnoses, NoDiagnosis

\* run_command's stdout is one cargo may print.
LEMMA StdoutLines ==
  ASSUME NEW o \in Outcomes PROVE RunCommand(o).stdout \in Seq(OutLine)
BY StdoutAssumption DEF Outcomes, RunCommand

\* parse_test_output returns a list of TestResults for every stdout.
LEMMA ParseType ==
  ASSUME NEW out \in Seq(OutLine) PROVE ParseTestOutput(out) \in Seq(TestResult)
<1> DEFINE m == Keep(out, ResultLines)
<1> DEFINE R(i) == [name |-> m[i].name, status |-> StatusOf(StatusWord(m[i])),
                    error |-> {}, errorType |-> NoDiagnosis, fixable |-> FALSE]
<1>1. m \in Seq(OutLine \cap ResultLines)
  BY KeepType
<1>2. \A i \in 1..Len(m) : R(i) \in TestResult
  BY <1>1 DEF TestResult, StatusOf, StatusWord, Statuses, Diagnoses, NoDiagnosis, OutLine
<1>3. ParseTestOutput(out) = [i \in 1..Len(m) |-> R(i)]
  BY DEF ParseTestOutput
<1>4. Len(m) \in Nat
  BY <1>1
<1>5. [i \in 1..Len(m) |-> R(i)] \in [1..Len(m) -> TestResult]
  BY <1>2
<1>6. \A n \in Nat : [1..n -> TestResult] \subseteq Seq(TestResult)
  OBVIOUS
<1> HIDE DEF m, R
<1>. QED
  BY <1>3, <1>4, <1>5, <1>6

\* The types hold initially.
LEMMA InitTypeOK == Init => TypeOK
<1> SUFFICES ASSUME Init PROVE TypeOK
  OBVIOUS
<1>1. Base \in Nat
  BY BaseNat DEF Init
<1>2. startLen \in 0..MaxDepth /\ dir \in 0..startLen
  BY <1>1, MaxDepthAssumption DEF Init
<1>3. harness \in Outcomes \cup {NoRun} /\ results \in Seq(TestResult)
  BY DEF Init
<1>. QED
  BY <1>2, <1>3 DEF Init, TypeOK

\* Every step of main preserves the types.
LEMMA NextTypeOK == TypeOK /\ [Next]_vars => TypeOK'
<1> SUFFICES ASSUME TypeOK, [Next]_vars PROVE TypeOK'
  OBVIOUS
<1>1. CASE FoundManifest \/ WalkUp \/ NoManifest
  <2>1. CASE FoundManifest
    BY <2>1 DEF FoundManifest, args, TypeOK
  <2>2. CASE WalkUp
    BY <2>2 DEF WalkUp, args, TypeOK
  <2>3. CASE NoManifest
    BY <2>3 DEF NoManifest, args, TypeOK
  <2>. QED
    BY <1>1, <2>1, <2>2, <2>3
<1>2. CASE RunSingle
  <2>1. PICK o \in Outcomes :
          /\ harness' = o
          /\ results' = <<RunSingleTest(filter, o)>>
          /\ exitCode' = IF RunSingleTest(filter, o).status = "FAILED" THEN 1 ELSE 0
    BY <1>2 DEF RunSingle
  <2>2. filter \in TestNames
    BY <1>2 DEF RunSingle, TypeOK
  <2>3. RunSingleTest(filter, o) \in TestResult
    BY <2>2, SingleResultType
  <2>. QED
    BY <1>2, <2>1, <2>3 DEF RunSingle, args, TypeOK
<1>3. CASE RunAll
  <2>1. PICK o \in Outcomes :
          /\ harness' = o
          /\ results' = ParseTestOutput(RunCommand(o).stdout)
          /\ exitCode' = IF RunCommand(o).rc # 0 THEN 1 ELSE 0
    BY <1>3 DEF RunAll
  <2>2. ParseTestOutput(RunCommand(o).stdout) \in Seq(TestResult)
    BY StdoutLines, ParseType
  <2>. QED
    BY <1>3, <2>1, <2>2 DEF RunAll, args, TypeOK
<1>4. CASE Terminated \/ UNCHANGED vars
  BY <1>4 DEF Terminated, vars, TypeOK
<1>. QED
  BY <1>1, <1>2, <1>3, <1>4 DEF Next

(***************************************************************************)
(* Every state the wrapper reaches is well typed: in particular, its      *)
(* results are a list of TestResults whatever cargo prints, and the exit  *)
(* status is 0 or 1.                                                       *)
(***************************************************************************)
THEOREM RunnerTypeCorrect == Spec => []TypeOK
BY InitTypeOK, NextTypeOK, PTL DEF Spec

\* format_test_report over any list of results: the names listed and the
\* "... K more" count add up to the passed tests, and K is positive.
LEMMA ListingAddsUp ==
  ASSUME NEW rs \in Seq(TestResult)
  PROVE  LET rep == FormatTestReport(rs)
             more == IF rep.more = <<>> THEN 0 ELSE rep.more[1]
         IN  /\ Len(rep.listed) + more = rep.passed
             /\ \A k \in DOMAIN rep.more : rep.more[k] > 0
<1> DEFINE p == WithStatus(rs, "PASSED")
<1> DEFINE shown == IF Len(p) < DisplayCap THEN Len(p) ELSE DisplayCap
<1>1. Len(p) \in Nat
  <2>1. p \in Seq(TestResult \cap {r \in TestResult : r.status = "PASSED"})
    BY KeepType DEF WithStatus
  <2>. QED
    BY <2>1
<1>2. /\ FormatTestReport(rs).passed = Len(p)
      /\ FormatTestReport(rs).listed = [i \in 1..shown |-> p[i].name]
      /\ FormatTestReport(rs).more = IF Len(p) > DisplayCap
                                       THEN <<Len(p) - DisplayCap>> ELSE <<>>
  BY DEF FormatTestReport
<1> HIDE DEF p
<1>3. shown \in Nat /\ Len([i \in 1..shown |-> p[i].name]) = shown
  BY <1>1 DEF DisplayCap
<1>4. CASE Len(p) > DisplayCap
  BY <1>1, <1>2, <1>3, <1>4 DEF DisplayCap
<1>5. CASE ~(Len(p) > DisplayCap)
  <2>1. FormatTestReport(rs).more = <<>> /\ DOMAIN FormatTestReport(rs).more = {}
    BY <1>2, <1>5
  <2>2. shown = Len(p)
    <3>1. \A n \in Nat : ~(n > DisplayCap) => (IF n < DisplayCap THEN n ELSE DisplayCap) = n
      BY DEF DisplayCap
    <3>. QED
      BY <3>1, <1>1, <1>5
  <2>. QED
    BY <1>2, <1>3, <2>1, <2>2
<1>. QED
  BY <1>4, <1>5

(***************************************************************************)
(* The wrapper's report accounts for every passed test: the names it lists *)
(* and the count on its "... K more" line add up to the passed tests, and *)
(* the line is printed only when K > 0, whatever cargo printed.            *)
(***************************************************************************)
THEOREM ListingComplete == Spec => []PassedListingComplete
<1>1. TypeOK => PassedListingComplete
  BY ListingAddsUp DEF PassedListingComplete, TypeOK
<1>. QED
  BY RunnerTypeCorrect, <1>1, PTL

=============================================================================
