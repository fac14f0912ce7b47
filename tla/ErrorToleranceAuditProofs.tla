---------------------- MODULE ErrorToleranceAuditProofs ----------------------
(***************************************************************************)
(* Proofs about the auditor model ErrorToleranceAudit, for every number of *)
(* files, every catalog and every file content.                           *)
(***************************************************************************)
EXTENDS ErrorToleranceAudit, AuditReportTheorems, FiniteSetTheorems, TLAPS

\* env only names the variables of the file system.
USE DEF env

\* The candidate files are a finite set, so rglob lists them in a sequence.
LEMMA RustFilesFinite == IsFiniteSet(RustFiles) /\ Cardinality(RustFiles) \in Nat
<1>1. IsFiniteSet(Paths)
  BY NumPathsAssumption, FS_Interval DEF Paths
<1>2. RustFiles \in SUBSET Paths
  BY DEF RustFiles
<1>. QED
  BY <1>1, <1>2, FS_Subset, FS_CardinalityType

\* Every order rglob may produce of a finite set is a sequence of its members.
LEMMA OrderingsAreSeqs ==
  ASSUME NEW S, IsFiniteSet(S)
  PROVE  Orderings(S) \subseteq Seq(S)
BY FS_CardinalityType DEF Orderings

\* A finding of a file in rust_files, at a line being scanned, has the type
\* of an Issue.
LEMMA FindingType ==
  ASSUME NEW p \in Paths, NEW n \in Nat \ {0}, NEW r \in Rules
  PROVE  Finding(p, n, r) \in Issue
BY RuleSevAssumption DEF Finding, Issue, IssueType, Rules

\* Init gives every variable its type.
LEMMA TypeInit == Init => TypeOK
<1> SUFFICES ASSUME Init PROVE TypeOK
  OBVIOUS
<1>1. files \in Seq(RustFiles) /\ fi \in 1..Len(files) + 1
  BY DEF Init
<1>2. ri \in 1..Len(RuleSev) + 1
  BY RuleSevAssumption DEF Init
<1>3. issues \in Seq(Issue)
  BY DEF Init
<1>. QED
  BY <1>1, <1>2, <1>3 DEF Init, TypeOK

\* Every step keeps every variable in its type.
LEMMA TypeNext == TypeOK /\ [Next]_vars => TypeOK'
<1> SUFFICES ASSUME TypeOK, [Next]_vars PROVE TypeOK'
  OBVIOUS
<1>0. RustFiles' = RustFiles
  <2>1. inTarget' = inTarget
    BY DEF Next, vars, RootMissing, NoRustFiles, FindRustFiles, ReadFails,
           ReadFile, SkipLine, CheckRule, NextLine, EndFile, Report, Terminated
  <2>. QED
    BY <2>1 DEF RustFiles
<1>1. CASE RootMissing
  BY <1>1, <1>0 DEF RootMissing, TypeOK
<1>2. CASE NoRustFiles
  BY <1>2, <1>0 DEF NoRustFiles, TypeOK
<1>3. CASE FindRustFiles
  BY <1>0, <1>3, RustFilesFinite, OrderingsAreSeqs DEF FindRustFiles, TypeOK
<1>4. CASE ReadFails
  BY <1>4, <1>0 DEF ReadFails, TypeOK
<1>5. CASE ReadFile
  BY <1>5, <1>0 DEF ReadFile, TypeOK
<1>6. CASE SkipLine
  BY <1>6, <1>0 DEF SkipLine, InLine, TypeOK
<1>7. CASE CheckRule
  <2>1. files[fi] \in Paths /\ ln \in Nat \ {0} /\ ri \in Rules
    BY <1>7 DEF CheckRule, InLine, TypeOK, RustFiles, Paths, Rules
  <2>2. Finding(files[fi], ln, ri) \in Issue
    BY <2>1, FindingType
  <2>. QED
    BY <1>0, <1>7, <2>2 DEF CheckRule, TypeOK
<1>8. CASE NextLine
  BY <1>8, <1>0 DEF NextLine, InLine, TypeOK
<1>9. CASE EndFile
  BY <1>9, <1>0 DEF EndFile, TypeOK
<1>10. CASE Report
  BY <1>10, <1>0 DEF Report, TypeOK
<1>11. CASE Terminated \/ UNCHANGED vars
  BY <1>11, <1>0 DEF Terminated, TypeOK, vars
<1>. QED
  BY <1>1, <1>2, <1>3, <1>4, <1>5, <1>6, <1>7, <1>8, <1>9, <1>10, <1>11
     DEF Next

(***************************************************************************)
(* Type correctness: every reachable state has the types of TypeOK.       *)
(***************************************************************************)
THEOREM TypeCorrect == Spec => []TypeOK
BY TypeInit, TypeNext, PTL DEF Spec

(***************************************************************************)
(* The scanner implements AuditSpec.                                       *)
(***************************************************************************)

\* An ordering of a finite set is a sequence of its members, of length its
\* cardinality, each member once.
LEMMA OrderingFacts ==
  ASSUME NEW S, IsFiniteSet(S), NEW s \in Orderings(S)
  PROVE  /\ s \in Seq(S)
         /\ Len(s) = Cardinality(S)
         /\ DOMAIN s = 1..Len(s)
         /\ \A i, j \in 1..Len(s) : s[i] = s[j] => i = j
         /\ \A p \in S : \E k \in 1..Len(s) : s[k] = p
<1>1. Cardinality(S) \in Nat
  BY FS_CardinalityType
<1>2. s \in [1..Cardinality(S) -> S]
  BY DEF Orderings
<1>3. s \in Seq(S) /\ Len(s) = Cardinality(S)
  BY <1>1, <1>2
<1>4. SeqRange(s) = S
  BY DEF Orderings
<1>. QED
  BY <1>2, <1>3, <1>4 DEF Orderings, SeqRange

\* Pos over a given sequence s of files, a constant-level operator.
PosIn(s, p) == CHOOSE k \in 1..Len(s) : s[k] = p

\* In an ordering, PosIn finds the index of each listed file.
LEMMA PosOfListed ==
  ASSUME NEW S, IsFiniteSet(S), NEW s \in Orderings(S)
  PROVE  /\ \A k \in 1..Len(s) : PosIn(s, s[k]) = k
         /\ \A p \in S : PosIn(s, p) \in 1..Len(s) /\ s[PosIn(s, p)] = p
<1>1. \A i, j \in 1..Len(s) : s[i] = s[j] => i = j
  BY OrderingFacts
<1>2. \A p \in S : \E k \in 1..Len(s) : s[k] = p
  BY OrderingFacts
<1>3. ASSUME NEW k \in 1..Len(s) PROVE PosIn(s, s[k]) = k
  BY <1>1 DEF PosIn
<1>4. ASSUME NEW p \in S PROVE PosIn(s, p) \in 1..Len(s) /\ s[PosIn(s, p)] = p
  BY <1>2 DEF PosIn
<1>. QED
  BY <1>3, <1>4

\* A promised finding is the match of one of its line's rules, on a line
\* that is not excluded, of a readable candidate file.
LEMMA PromisedMember ==
  ASSUME NEW f
  PROVE  f \in Abstract!Promised <=>
           \E p \in RustFiles : \E n \in 1..Len(text[p]) : \E r \in text[p][n].hits :
             /\ readable[p]
             /\ ~Excluded(text[p][n])
             /\ f = Finding(p, n, r)
BY DEF Abstract!Promised, Abstract!Scanned, Abstract!Candidates, Abstract!Paths,
       RustFiles, Paths, Excluded, Finding

\* What a promised finding tells of its position.
LEMMA PromisedShape ==
  ASSUME TypeOK, NEW f \in Abstract!Promised
  PROVE  /\ f.file \in RustFiles
         /\ readable[f.file]
         /\ f.line \in 1..Len(text[f.file])
         /\ ~Excluded(text[f.file][f.line])
         /\ f.rule \in text[f.file][f.line].hits
         /\ f.rule \in Rules
         /\ f = Finding(f.file, f.line, f.rule)
<1>1. PICK p \in RustFiles : \E n \in 1..Len(text[p]) : \E r \in text[p][n].hits :
             /\ readable[p]
             /\ ~Excluded(text[p][n])
             /\ f = Finding(p, n, r)
  BY PromisedMember
<1>2. PICK n \in 1..Len(text[p]) : \E r \in text[p][n].hits :
             /\ readable[p]
             /\ ~Excluded(text[p][n])
             /\ f = Finding(p, n, r)
  BY <1>1
<1>3. PICK r \in text[p][n].hits :
             /\ readable[p]
             /\ ~Excluded(text[p][n])
             /\ f = Finding(p, n, r)
  BY <1>2
<1>4. f.file = p /\ f.line = n /\ f.rule = r
  BY <1>3 DEF Finding
<1>5. text[p] \in Seq(Line)
  BY ContentsAssumption DEF TypeOK, RustFiles
<1>6. r \in Rules
  <2>1. text[p][n] \in Line
    BY <1>5
  <2>. QED
    BY <2>1 DEF Line
<1>. QED
  BY <1>3, <1>4, <1>6

\* Finding f lies at a position the loops have already passed.
Before(f) == Evaluated(Pos(f.file), f.line, f.rule)

\* The promised findings the loops have already passed.
FoundSoFar == {f \in Abstract!Promised : Before(f)}

(***************************************************************************)
(* The inductive invariant behind the refinement.  Once the files are      *)
(* listed, they are an ordering of the candidates, the read of the file   *)
(* under the cursor has succeeded if the line loop is inside it, the rule  *)
(* loop starts afresh on each file and each line, and all_issues holds exactly the       *)
(* promised findings at positions before the cursor (file, line, rule).    *)
(***************************************************************************)
IInv ==
  /\ TypeOK
  /\ phase = "start" => issues = <<>> /\ ln = 0 /\ ri = 1 /\ ~reported
  /\ (phase = "scan" \/ reported) => rootExists /\ files \in Orderings(RustFiles)
  /\ (phase = "scan" /\ ln = 0) => ri = 1
  /\ (phase = "scan" /\ fi <= Len(files) /\ ln > Len(text[files[fi]])) => ri = 1
  /\ (phase = "scan" /\ fi <= Len(files) /\ ln >= 1) => readable[files[fi]]
  /\ reported => phase = "done" /\ fi > Len(files)
  /\ (phase = "scan" \/ reported) => SeqRange(issues) = FoundSoFar

LEMMA InitIInv == Init => IInv
<1> SUFFICES ASSUME Init PROVE IInv
  OBVIOUS
<1>1. TypeOK
  BY TypeInit
<1>. QED
  BY <1>1 DEF Init, IInv

\* The file system never changes, and with it the promised findings.
LEMMA EnvFixed ==
  [Next]_vars => /\ UNCHANGED env
                 /\ RustFiles' = RustFiles
                 /\ Abstract!Promised' = Abstract!Promised
<1>1. [Next]_vars => UNCHANGED env
  BY DEF Next, vars, RootMissing, NoRustFiles, FindRustFiles, ReadFails,
         ReadFile, SkipLine, CheckRule, NextLine, EndFile, Report, Terminated
<1>. QED
  BY <1>1 DEF RustFiles, Abstract!Promised, Abstract!Scanned,
              Abstract!Candidates, Abstract!Paths

\* Once the files are listed, every promised finding's file is listed once.
LEMMA PosOfPromised ==
  ASSUME TypeOK, files \in Orderings(RustFiles), NEW f \in Abstract!Promised
  PROVE  Pos(f.file) \in 1..Len(files) /\ files[Pos(f.file)] = f.file
<1>1. f.file \in RustFiles
  BY PromisedShape
<1>. QED
  BY <1>1, RustFilesFinite, PosOfListed DEF Pos, PosIn

\* A step that leaves all_issues alone and passes no promised finding
\* keeps the invariant's account of the findings.
LEMMA SameFound ==
  ASSUME SeqRange(issues) = FoundSoFar, issues' = issues,
         Abstract!Promised' = Abstract!Promised,
         \A f \in Abstract!Promised : Before(f)' <=> Before(f)
  PROVE  SeqRange(issues') = FoundSoFar'
BY DEF FoundSoFar

\* Appending to a sequence adds one element to its range.
LEMMA SeqRangeAppend ==
  ASSUME NEW S, NEW s \in Seq(S), NEW e \in S
  PROVE  SeqRange(Append(s, e)) = SeqRange(s) \cup {e}
<1>1. DOMAIN Append(s, e) = 1..Len(s) + 1 /\ Append(s, e)[Len(s) + 1] = e
  OBVIOUS
<1>2. \A i \in 1..Len(s) : Append(s, e)[i] = s[i]
  OBVIOUS
<1>. QED
  BY <1>1, <1>2 DEF SeqRange

\* A rule that matches the line under the cursor gives a promised finding
\* that all_issues did not hold yet, and all_issues gains exactly that one.
LEMMA CheckRuleHit ==
  ASSUME IInv, CheckRule, ri \in CurLine.hits
  PROVE  /\ Finding(files[fi], ln, ri) \in Abstract!Promised
         /\ ~Before(Finding(files[fi], ln, ri))
         /\ Finding(files[fi], ln, ri) \notin SeqRange(issues)
         /\ SeqRange(issues') = SeqRange(issues) \cup {Finding(files[fi], ln, ri)}
<1> DEFINE new == Finding(files[fi], ln, ri)
<1>1. TypeOK /\ phase = "scan" /\ files \in Orderings(RustFiles) /\ fi \in 1..Len(files)
  BY DEF CheckRule, InLine, IInv, TypeOK
<1>2. Pos(files[fi]) = fi
  BY <1>1, RustFilesFinite, PosOfListed DEF Pos, PosIn
<1>3. new \in Abstract!Promised
  <2>1. files[fi] \in RustFiles /\ ln \in 1..Len(text[files[fi]])
    BY <1>1 DEF CheckRule, InLine, TypeOK
  <2>2. readable[files[fi]] /\ ~Excluded(text[files[fi]][ln])
    BY DEF CheckRule, InLine, IInv, CurLine
  <2>. QED
    BY <2>1, <2>2, PromisedMember DEF CurLine
<1>4. ~Before(new)
  BY <1>1, <1>2 DEF CheckRule, InLine, TypeOK, Before, Evaluated, Finding
<1>5. new \notin SeqRange(issues)
  BY <1>1, <1>4 DEF IInv, FoundSoFar
<1>6. SeqRange(issues') = SeqRange(issues) \cup {new}
  <2>1. issues' = Append(issues, new)
    BY DEF CheckRule
  <2>2. new \in Issue
    <3>1. files[fi] \in Paths /\ ln \in Nat \ {0} /\ ri \in Rules
      BY <1>1 DEF CheckRule, InLine, TypeOK, RustFiles, Paths, Rules
    <3>. QED
      BY <3>1, FindingType
  <2>3. issues \in Seq(Issue)
    BY <1>1 DEF TypeOK
  <2>. QED
    BY <2>1, <2>2, <2>3, SeqRangeAppend
<1>. QED
  BY <1>3, <1>4, <1>5, <1>6

\* Every step of the scanner preserves the inductive invariant.
LEMMA NextIInv == IInv /\ [Next]_vars => IInv'
<1> SUFFICES ASSUME IInv, [Next]_vars PROVE IInv'
  OBVIOUS
<1>0. TypeOK /\ TypeOK'
  BY TypeNext DEF IInv
<1>1. UNCHANGED env /\ RustFiles' = RustFiles /\ Abstract!Promised' = Abstract!Promised
  BY EnvFixed
<1>2. CASE RootMissing \/ NoRustFiles
  BY <1>0, <1>2 DEF RootMissing, NoRustFiles, IInv
<1>3. CASE FindRustFiles
  <2>1. files' \in Orderings(RustFiles)
    BY <1>1, <1>3 DEF FindRustFiles
  <2>2. ASSUME NEW f \in Abstract!Promised PROVE ~Before(f)'
    <3>1. Pos(f.file)' \in 1..Len(files')
      BY <1>0, <1>1, <2>1, RustFilesFinite, PosOfListed, PromisedShape DEF Pos, PosIn
    <3>. QED
      BY <1>3, <3>1 DEF FindRustFiles, IInv, Before, Evaluated
  <2>3. SeqRange(issues') = FoundSoFar'
    BY <1>1, <1>3, <2>2 DEF FindRustFiles, IInv, FoundSoFar, SeqRange
  <2>. QED
    BY <1>0, <1>1, <1>3, <2>1, <2>3 DEF FindRustFiles, IInv
<1>4. CASE ReadFails
  <2>1. ASSUME NEW f \in Abstract!Promised PROVE Before(f)' <=> Before(f)
    <3>1. Pos(f.file) \in 1..Len(files) /\ files[Pos(f.file)] = f.file
      BY <1>0, <1>4, PosOfPromised DEF ReadFails, IInv
    <3>2. Pos(f.file)' = Pos(f.file)
      BY <1>4 DEF ReadFails, Pos
    <3>3. Pos(f.file) # fi
      BY <1>0, <1>4, <3>1, PromisedShape DEF ReadFails
    <3>. QED
      BY <1>0, <1>4, <3>1, <3>2, <3>3 DEF ReadFails, IInv, TypeOK, Before, Evaluated
  <2>. QED
    BY <1>0, <1>1, <1>4, <2>1, SameFound DEF ReadFails, IInv
<1>5. CASE ReadFile
  <2>1. ASSUME NEW f \in Abstract!Promised PROVE Before(f)' <=> Before(f)
    <3>1. Pos(f.file)' = Pos(f.file)
      BY <1>5 DEF ReadFile, Pos
    <3>2. f.line \in Nat \ {0} /\ f.rule \in Nat \ {0}
      BY <1>0, PromisedShape DEF Rules
    <3>. QED
      BY <1>0, <1>5, <3>1, <3>2 DEF ReadFile, IInv, TypeOK, Before, Evaluated
  <2>. QED
    BY <1>0, <1>1, <1>5, <2>1, SameFound DEF ReadFile, IInv
<1>6. CASE SkipLine
  <2>1. ASSUME NEW f \in Abstract!Promised PROVE Before(f)' <=> Before(f)
    <3>1. Pos(f.file) \in 1..Len(files) /\ files[Pos(f.file)] = f.file
      BY <1>0, <1>6, PosOfPromised DEF SkipLine, InLine, IInv
    <3>2. Pos(f.file)' = Pos(f.file)
      BY <1>6 DEF SkipLine, Pos
    <3>3. ~(Pos(f.file) = fi /\ f.line = ln)
      BY <1>0, <1>6, <3>1, PromisedShape DEF SkipLine, CurLine
    <3>4. f.line \in Nat \ {0} /\ f.rule \in Nat \ {0}
      BY <1>0, PromisedShape DEF Rules
    <3>. QED
      BY <1>0, <1>6, <3>1, <3>2, <3>3, <3>4
         DEF SkipLine, InLine, IInv, TypeOK, Before, Evaluated
  <2>. QED
    BY <1>0, <1>1, <1>6, <2>1, SameFound DEF SkipLine, InLine, IInv
<1>7. CASE CheckRule
  <2> DEFINE new == Finding(files[fi], ln, ri)
  <2>0. /\ TypeOK'
        /\ phase' = "start" => issues' = <<>> /\ ln' = 0 /\ ri' = 1 /\ ~reported'
        /\ (phase' = "scan" \/ reported') => files' \in Orderings(RustFiles')
        /\ (phase' = "scan" /\ ln' = 0) => ri' = 1
        /\ (phase' = "scan" /\ fi' <= Len(files') /\ ln' > Len(text'[files'[fi']])) => ri' = 1
        /\ (phase' = "scan" /\ fi' <= Len(files') /\ ln' >= 1) => readable'[files'[fi']]
        /\ reported' => phase' = "done" /\ fi' > Len(files')
    <3>1. /\ phase' = phase /\ files' = files /\ fi' = fi /\ ln' = ln
          /\ reported' = reported /\ ri' = ri + 1
      BY <1>7 DEF CheckRule
    <3>2. phase = "scan" /\ fi <= Len(files) /\ ln >= 1 /\ ln <= Len(text[files[fi]])
      BY <1>7 DEF CheckRule, InLine
    <3>3. files \in Orderings(RustFiles) /\ readable[files[fi]] /\ ~reported
      BY <3>2 DEF IInv
    <3>4. text' = text /\ readable' = readable /\ RustFiles' = RustFiles
      BY <1>1
    <3>5. ln \in Nat /\ Len(text[files[fi]]) \in Nat
      BY <1>0, <3>2, <3>3, ContentsAssumption DEF TypeOK, RustFiles
    <3>. QED
      BY <1>0, <3>1, <3>2, <3>3, <3>4, <3>5
  <2>1. files \in Orderings(RustFiles) /\ fi \in 1..Len(files)
    BY <1>7 DEF CheckRule, InLine, IInv, TypeOK
  <2>2. Pos(files[fi]) = fi
    BY <2>1, RustFilesFinite, PosOfListed DEF Pos, PosIn
  <2>3. ASSUME NEW f \in Abstract!Promised
        PROVE  Before(f)' <=> Before(f) \/ f = new
    <3>1. Pos(f.file) \in 1..Len(files) /\ files[Pos(f.file)] = f.file
      BY <1>0, <2>1, PosOfPromised
    <3>2. Pos(f.file)' = Pos(f.file)
      BY <1>7 DEF CheckRule, Pos
    <3>3. f = Finding(f.file, f.line, f.rule) /\ f.line \in Nat /\ f.rule \in Nat
      BY <1>0, PromisedShape DEF Rules
    <3>4. (Pos(f.file) = fi /\ f.line = ln /\ f.rule = ri) <=> f = new
      BY <2>2, <3>1, <3>3 DEF Finding
    <3>. QED
      BY <1>0, <1>7, <3>1, <3>2, <3>4, <3>3
         DEF CheckRule, InLine, IInv, TypeOK, Before, Evaluated
  <2>4. CASE ri \in CurLine.hits
    <3>1. new \in Abstract!Promised /\ ~Before(new)
      BY <1>7, <2>4, CheckRuleHit
    <3>4. SeqRange(issues') = SeqRange(issues) \cup {new}
      BY <1>7, <2>4, CheckRuleHit
    <3>5. FoundSoFar' = FoundSoFar \cup {new}
      BY <1>1, <2>3, <3>1 DEF FoundSoFar
    <3>. QED
      BY <1>7, <2>0, <3>4, <3>5 DEF CheckRule, IInv
  <2>5. CASE ri \notin CurLine.hits
    <3>1. new \notin Abstract!Promised
      <4>1. SUFFICES ASSUME new \in Abstract!Promised PROVE FALSE
        OBVIOUS
      <4>2. new.rule \in text[new.file][new.line].hits
        BY <1>0, <4>1, PromisedShape
      <4>. QED
        BY <2>5, <4>2 DEF CurLine, Finding
    <3>2. issues' = issues
      BY <2>5, <1>7 DEF CheckRule
    <3>3. SeqRange(issues') = FoundSoFar'
      BY <1>0, <1>1, <1>7, <2>3, <3>1, <3>2, SameFound DEF CheckRule, InLine, IInv
    <3>. QED
      BY <1>7, <2>0, <3>3 DEF CheckRule, IInv
  <2>. QED
    BY <2>4, <2>5
<1>8. CASE NextLine
  <2>1. ASSUME NEW f \in Abstract!Promised PROVE Before(f)' <=> Before(f)
    <3>1. Pos(f.file)' = Pos(f.file)
      BY <1>8 DEF NextLine, Pos
    <3>2. f.line \in Nat /\ f.rule \in 1..Len(RuleSev)
      BY <1>0, PromisedShape DEF Rules
    <3>. QED
      BY <1>0, <1>8, <3>1, <3>2, RuleSevAssumption
         DEF NextLine, InLine, IInv, TypeOK, Before, Evaluated
  <2>. QED
    BY <1>0, <1>1, <1>8, <2>1, SameFound DEF NextLine, InLine, IInv
<1>9. CASE EndFile
  <2>1. ASSUME NEW f \in Abstract!Promised PROVE Before(f)' <=> Before(f)
    <3>1. Pos(f.file) \in 1..Len(files) /\ files[Pos(f.file)] = f.file
      BY <1>0, <1>9, PosOfPromised DEF EndFile, IInv
    <3>2. Pos(f.file)' = Pos(f.file)
      BY <1>9 DEF EndFile, Pos
    <3>3. f.line \in 1..Len(text[f.file])
      BY <1>0, PromisedShape
    <3>4. Pos(f.file) = fi => f.line < ln
      BY <1>0, <1>9, <3>1, <3>3 DEF EndFile, TypeOK
    <3>. QED
      BY <1>0, <1>9, <3>1, <3>2, <3>4 DEF EndFile, IInv, TypeOK, Before, Evaluated
  <2>. QED
    BY <1>0, <1>1, <1>9, <2>1, SameFound DEF EndFile, IInv
<1>10. CASE Report
  <2>1. ASSUME NEW f \in Abstract!Promised PROVE Before(f)' <=> Before(f)
    BY <1>10 DEF Report, Before, Evaluated, Pos
  <2>. QED
    BY <1>0, <1>1, <1>10, <2>1, SameFound DEF Report, IInv
<1>11. CASE Terminated \/ UNCHANGED vars
  <2>1. UNCHANGED vars
    BY <1>11 DEF Terminated
  <2>2. ASSUME NEW f \in Abstract!Promised PROVE Before(f)' <=> Before(f)
    BY <2>1 DEF vars, Before, Evaluated, Pos
  <2>. QED
    BY <1>0, <1>1, <2>1, <2>2, SameFound DEF vars, IInv
<1>. QED
  BY <1>2, <1>3, <1>4, <1>5, <1>6, <1>7, <1>8, <1>9, <1>10, <1>11 DEF Next

\* The scanner's loops keep the invariant in every reachable state.
LEMMA AlwaysIInv == Spec => []IInv
BY InitIInv, NextIInv, PTL DEF Spec

\* When main prints the report, every promised finding is in all_issues.
LEMMA ReportComplete ==
  ASSUME IInv, Report
  PROVE  SeqRange(issues) = Abstract!Promised
<1>1. TypeOK /\ files \in Orderings(RustFiles) /\ fi > Len(files)
  BY DEF Report, IInv
<1>2. ASSUME NEW f \in Abstract!Promised PROVE Before(f)
  <2>1. Pos(f.file) \in 1..Len(files)
    BY <1>1, PosOfPromised
  <2>. QED
    BY <1>1, <2>1 DEF TypeOK, Before, Evaluated
<1>. QED
  BY <1>2 DEF Report, IInv, FoundSoFar

(***************************************************************************)
(* The scanner implements AuditSpec: every behaviour of the three nested  *)
(* loops of check_error_tolerance.py, with all_issues read as the set of  *)
(* findings, is a behaviour of the abstract auditor.  Each CheckRule that *)
(* appends an Issue discovers a promised finding not found before, every  *)
(* other step of the loops changes nothing the abstract auditor sees, and *)
(* main prints the report and picks the exit status only once all_issues  *)
(* holds every promised finding.  The argument rests on IInv: once the    *)
(* files are listed they are an ordering of the candidates, and           *)
(* all_issues holds exactly the promised findings before the cursor.      *)
(***************************************************************************)
THEOREM Refinement == Spec => ImplementsAuditSpec
<1>1. Init => Abstract!Init
  BY DEF Init, Abstract!Init, Abstract!Paths, Paths, SeqRange
<1>2. IInv /\ [Next]_vars => [Abstract!Next]_Abstract!avars
  <2> SUFFICES ASSUME IInv, [Next]_vars PROVE [Abstract!Next]_Abstract!avars
    OBVIOUS
  <2>0. UNCHANGED env
    BY EnvFixed
  <2>1. CASE RootMissing
    BY <2>0, <2>1 DEF RootMissing, Abstract!Next, Abstract!Missing
  <2>2. CASE NoRustFiles
    BY <2>0, <2>2 DEF NoRustFiles, Abstract!Next, Abstract!Empty,
                      Abstract!Candidates, Abstract!Paths, RustFiles, Paths
  <2>3. CASE FindRustFiles
    BY <2>0, <2>3 DEF FindRustFiles, Abstract!Next, Abstract!Start,
                      Abstract!Candidates, Abstract!Paths, RustFiles, Paths
  <2>4. CASE ReadFails \/ ReadFile \/ SkipLine \/ NextLine \/ EndFile
    BY <2>0, <2>4 DEF ReadFails, ReadFile, SkipLine, NextLine, EndFile,
                      Abstract!avars
  <2>5. CASE CheckRule
    <3>1. CASE ri \in CurLine.hits
      <4> DEFINE new == Finding(files[fi], ln, ri)
      <4>1. new \in Abstract!Promised \ SeqRange(issues)
        BY <2>5, <3>1, CheckRuleHit
      <4>2. SeqRange(issues') = SeqRange(issues) \cup {new}
        BY <2>5, <3>1, CheckRuleHit
      <4>3. phase = "scan"
        BY <2>5 DEF CheckRule, InLine
      <4>. QED
        BY <2>0, <2>5, <4>1, <4>2, <4>3 DEF CheckRule, Abstract!Next, Abstract!Discover
    <3>2. CASE ri \notin CurLine.hits
      BY <2>0, <2>5, <3>2 DEF CheckRule, Abstract!avars
    <3>. QED
      BY <3>1, <3>2
  <2>6. CASE Report
    <3>1. SeqRange(issues) = Abstract!Promised
      BY <2>6, ReportComplete
    <3>2. HasHigh(issues) <=> \E f \in SeqRange(issues) : f.severity = "HIGH"
      BY DEF HasHigh, SeqRange
    <3>. QED
      BY <2>0, <2>6, <3>1, <3>2 DEF Report, Abstract!Next, Abstract!Finish
  <2>7. CASE Terminated \/ UNCHANGED vars
    BY <2>7 DEF Terminated, vars, Abstract!avars
  <2>. QED
    BY <2>1, <2>2, <2>3, <2>4, <2>5, <2>6, <2>7 DEF Next
<1>. QED
  BY <1>1, <1>2, AlwaysIInv, PTL DEF Spec, ImplementsAuditSpec, Abstract!Spec

\* A HIGH match in the tree is exactly a HIGH finding AuditSpec promises.
LEMMA HighPromised ==
  HighInTree <=> \E f \in Abstract!Promised : f.severity = "HIGH"
<1>1. ASSUME HighInTree PROVE \E f \in Abstract!Promised : f.severity = "HIGH"
  <2>1. PICK p \in RustFiles : /\ readable[p]
                              /\ \E n \in 1..Len(text[p]) :
                                   /\ ~Excluded(text[p][n])
                                   /\ \E r \in text[p][n].hits : RuleSev[r] = "HIGH"
    BY <1>1 DEF HighInTree
  <2>2. PICK n \in 1..Len(text[p]) :
          /\ ~Excluded(text[p][n])
          /\ \E r \in text[p][n].hits : RuleSev[r] = "HIGH"
    BY <2>1
  <2>3. PICK r \in text[p][n].hits : RuleSev[r] = "HIGH"
    BY <2>2
  <2>4. [file |-> p, line |-> n, rule |-> r, severity |-> RuleSev[r]]
         \in Abstract!Promised
    BY <2>1, <2>2, <2>3 DEF Abstract!Promised, Abstract!Scanned,
       Abstract!Candidates, Abstract!Paths, Excluded, RustFiles, Paths
  <2>. QED
    BY <2>3, <2>4
<1>2. ASSUME NEW f \in Abstract!Promised, f.severity = "HIGH" PROVE HighInTree
  BY <1>2 DEF HighInTree, Abstract!Promised, Abstract!Scanned,
     Abstract!Candidates, Abstract!Paths, Excluded, RustFiles, Paths
<1>. QED
  BY <1>1, <1>2

(***************************************************************************)
(* main's exit status is right in every run: once the auditor is done it  *)
(* exits 1 exactly when the root is missing or a readable candidate file  *)
(* has a HIGH match on a scanned line, whatever order rglob listed the    *)
(* files in.  The report step reads HIGH off all_issues, which by IInv    *)
(* then holds every promised finding.                                     *)
(***************************************************************************)
THEOREM ExitCorrect == Spec => []ExitStatusCorrect
<1>1. Init => ExitStatusCorrect
  BY DEF Init, ExitStatusCorrect
<1>2. IInv /\ ExitStatusCorrect /\ [Next]_vars => ExitStatusCorrect'
  <2> SUFFICES ASSUME IInv, ExitStatusCorrect, [Next]_vars
               PROVE  ExitStatusCorrect'
    OBVIOUS
  <2>0. UNCHANGED env /\ RustFiles' = RustFiles
    BY EnvFixed
  <2>h. HighInTree' = HighInTree
    BY <2>0 DEF HighInTree, Excluded
  <2>1. CASE RootMissing
    BY <2>0, <2>1 DEF RootMissing, ExitStatusCorrect
  <2>2. CASE NoRustFiles
    BY <2>0, <2>h, <2>2 DEF NoRustFiles, ExitStatusCorrect, HighInTree
  <2>3. CASE Report
    <3>1. SeqRange(issues) = Abstract!Promised
      BY <2>3, ReportComplete
    <3>2. HasHigh(issues) <=> \E f \in SeqRange(issues) : f.severity = "HIGH"
      BY DEF HasHigh, SeqRange
    <3>3. rootExists
      BY <2>3 DEF Report, IInv, TypeOK
    <3>. QED
      BY <2>0, <2>h, <2>3, <3>1, <3>2, <3>3, HighPromised DEF Report, ExitStatusCorrect
  <2>4. CASE FindRustFiles \/ ReadFails \/ ReadFile \/ SkipLine \/ CheckRule
             \/ NextLine \/ EndFile
    BY <2>4 DEF FindRustFiles, ReadFails, ReadFile, SkipLine, CheckRule, InLine,
                NextLine, EndFile, ExitStatusCorrect
  <2>5. CASE Terminated \/ UNCHANGED vars
    BY <2>h, <2>5 DEF Terminated, vars, ExitStatusCorrect
  <2>. QED
    BY <2>1, <2>2, <2>3, <2>4, <2>5 DEF Next
<1>. QED
  BY <1>1, <1>2, InitIInv, NextIInv, PTL DEF Spec

-----------------------------------------------------------------------------
(***************************************************************************)
(* FindingsExact.  Its first half restates the FoundSoFar conjunct of     *)
(* IInv over the positions of rust_files; its second half, the order of   *)
(* all_issues, needs one more conjunct, and the early exits need that     *)
(* nothing was listed or found before them.                                *)
(***************************************************************************)

\* Before the listing, and after an early exit, nothing is listed or found.
Quiet == ~(phase = "scan" \/ reported) => files = <<>> /\ issues = <<>>

\* all_issues is in scan order: the second conjunct of FindingsExact.
Ordered ==
  \A i, j \in 1..Len(issues) : i < j => ScanBefore(issues[i], issues[j])

EInv == IInv /\ Quiet /\ Ordered

\* Every finding the loops have passed comes, in scan order, before the
\* finding at the cursor.
LEMMA BeforeCursor ==
  ASSUME TypeOK, files \in Orderings(RustFiles), fi \in 1..Len(files), ln >= 1,
         NEW a \in Abstract!Promised, Before(a)
  PROVE  ScanBefore(a, Finding(files[fi], ln, ri))
<1> DEFINE new == Finding(files[fi], ln, ri)
<1>1. Pos(a.file) \in 1..Len(files) /\ files[Pos(a.file)] = a.file
  BY PosOfPromised
<1>2. Pos(new.file) = fi /\ new.line = ln /\ new.rule = ri
  BY RustFilesFinite, PosOfListed DEF Finding, Pos, PosIn
<1>3. CASE Pos(a.file) < fi
  BY <1>2, <1>3 DEF ScanBefore
<1>4. CASE Pos(a.file) = fi
  <2>1. a.file = new.file
    BY <1>1, <1>4 DEF Finding
  <2>2. a.line < ln \/ (a.line = ln /\ a.rule < ri)
    BY <1>4 DEF Before, Evaluated
  <2>. QED
    BY <1>2, <2>1, <2>2 DEF ScanBefore
<1>. QED
  BY <1>1, <1>3, <1>4 DEF Before, Evaluated

\* Once the files are listed, the findings owed for the positions scanned
\* are the promised findings before the cursor.
LEMMA OwedIsFoundSoFar ==
  ASSUME TypeOK, files \in Orderings(RustFiles)
  PROVE  Owed = FoundSoFar
<1>1. files \in Seq(RustFiles)
  BY RustFilesFinite, OrderingFacts
<1>2. ASSUME NEW f \in Owed PROVE f \in FoundSoFar
  <2>1. PICK t \in Positions :
          /\ readable[files[t[1]]]
          /\ ~Excluded(text[files[t[1]]][t[2]])
          /\ t[3] \in text[files[t[1]]][t[2]].hits
          /\ Evaluated(t[1], t[2], t[3])
          /\ f = Finding(files[t[1]], t[2], t[3])
    BY DEF Owed
  <2>2. PICK k \in 1..Len(files) : t \in {k} \X (1..Len(text[files[k]])) \X Rules
    BY DEF Positions
  <2>3. files[k] \in RustFiles
    BY <1>1
  <2>4. f \in Abstract!Promised
    BY <2>1, <2>2, <2>3, PromisedMember
  <2>5. Pos(files[k]) = k
    BY RustFilesFinite, PosOfListed DEF Pos, PosIn
  <2>6. Before(f)
    BY <2>1, <2>2, <2>5 DEF Before, Finding
  <2>. QED
    BY <2>4, <2>6 DEF FoundSoFar
<1>3. ASSUME NEW f \in FoundSoFar PROVE f \in Owed
  <2>1. f \in Abstract!Promised /\ Before(f)
    BY DEF FoundSoFar
  <2>2. /\ readable[f.file]
        /\ f.line \in 1..Len(text[f.file])
        /\ ~Excluded(text[f.file][f.line])
        /\ f.rule \in text[f.file][f.line].hits
        /\ f.rule \in Rules
        /\ f = Finding(f.file, f.line, f.rule)
    BY <2>1, PromisedShape
  <2>3. Pos(f.file) \in 1..Len(files) /\ files[Pos(f.file)] = f.file
    BY <2>1, PosOfPromised
  <2> DEFINE t == <<Pos(f.file), f.line, f.rule>>
  <2>4. t \in Positions
    BY <2>2, <2>3 DEF Positions
  <2>. QED
    BY <2>1, <2>2, <2>3, <2>4 DEF Owed, Before
<1>. QED
  BY <1>2, <1>3

\* The strengthening holds initially.
LEMMA InitEInv == Init => EInv
BY InitIInv DEF Init, EInv, Quiet, Ordered

\* Every step of the auditor keeps the strengthening.
LEMMA NextEInv == EInv /\ [Next]_vars => EInv'
<1> SUFFICES ASSUME EInv, [Next]_vars PROVE EInv'
  OBVIOUS
<1>1. IInv'
  BY NextIInv DEF EInv
<1>2. Quiet'
  <2>1. CASE RootMissing \/ NoRustFiles
    BY <2>1 DEF RootMissing, NoRustFiles, EInv, IInv, Quiet
  <2>2. CASE FindRustFiles \/ ReadFails \/ ReadFile \/ SkipLine \/ CheckRule
             \/ NextLine \/ EndFile \/ Report
    BY <2>2 DEF FindRustFiles, ReadFails, ReadFile, SkipLine, CheckRule, InLine,
                NextLine, EndFile, Report, Quiet
  <2>3. CASE Terminated \/ UNCHANGED vars
    BY <2>3 DEF Terminated, vars, EInv, Quiet
  <2>. QED
    BY <2>1, <2>2, <2>3 DEF Next
<1>3. Ordered'
  <2>1. CASE issues' = issues /\ files' = files
    BY <2>1 DEF EInv, Ordered, ScanBefore, Pos
  <2>2. CASE FindRustFiles
    <3>1. issues' = <<>>
      BY <2>2 DEF FindRustFiles, EInv, IInv
    <3>. QED
      BY <3>1 DEF Ordered
  <2>3. CASE CheckRule /\ ri \in CurLine.hits
    <3> DEFINE new == Finding(files[fi], ln, ri)
    <3>1. /\ TypeOK
          /\ files \in Orderings(RustFiles)
          /\ fi \in 1..Len(files) /\ ln >= 1
          /\ SeqRange(issues) = FoundSoFar
          /\ issues \in Seq(Issue)
      BY <2>3 DEF CheckRule, InLine, EInv, IInv, TypeOK
    <3>2. issues' = Append(issues, new) /\ files' = files
      BY <2>3 DEF CheckRule
    <3>3. ASSUME NEW i \in 1..Len(issues) PROVE ScanBefore(issues[i], new)
      <4>1. issues[i] \in FoundSoFar
        BY <3>1 DEF SeqRange
      <4>. QED
        BY <3>1, <4>1, BeforeCursor DEF FoundSoFar
    <3>4. ASSUME NEW i \in 1..Len(issues'), NEW j \in 1..Len(issues'), i < j
          PROVE  ScanBefore(issues'[i], issues'[j])
      <4>1. Len(issues') = Len(issues) + 1 /\ i \in 1..Len(issues)
            /\ issues'[i] = issues[i]
        BY <3>1, <3>2, <3>4
      <4>2. CASE j = Len(issues) + 1
        <5>1. issues'[j] = new
          BY <3>1, <3>2, <4>2
        <5>. QED
          BY <3>3, <4>1, <5>1
      <4>3. CASE j \in 1..Len(issues)
        <5>1. issues'[j] = issues[j]
          BY <3>1, <3>2, <4>3
        <5>. QED
          BY <3>4, <4>1, <4>3, <5>1 DEF EInv, Ordered
      <4>. QED
        BY <3>1, <4>1, <4>2, <4>3
    <3>5. Ordered' <=> \A i, j \in 1..Len(issues') :
                          i < j => ScanBefore(issues'[i], issues'[j])
      BY <3>2 DEF Ordered, ScanBefore, Pos
    <3>. QED
      BY <3>4, <3>5
  <2>4. CASE CheckRule /\ ri \notin CurLine.hits
    BY <2>1, <2>4 DEF CheckRule
  <2>5. CASE RootMissing \/ NoRustFiles \/ ReadFails \/ ReadFile \/ SkipLine
             \/ NextLine \/ EndFile \/ Report \/ Terminated \/ UNCHANGED vars
    BY <2>1, <2>5 DEF RootMissing, NoRustFiles, ReadFails, ReadFile, SkipLine,
                      NextLine, EndFile, Report, Terminated, vars
  <2>. QED
    BY <2>2, <2>3, <2>4, <2>5 DEF Next
<1>. QED
  BY <1>1, <1>2, <1>3 DEF EInv

(***************************************************************************)
(* check_rust_file evaluates every rule on every scanned line of every     *)
(* readable candidate file, and main extends all_issues file after file:   *)
(* in every reachable state all_issues holds exactly the matches at the    *)
(* positions already scanned, each once, in file, line and rule order,     *)
(* for every number of files, catalog and file content.                    *)
(***************************************************************************)
THEOREM FindingsExactness == Spec => []FindingsExact
<1>1. EInv => FindingsExact
  <2> SUFFICES ASSUME EInv PROVE FindingsExact
    OBVIOUS
  <2>1. CASE phase = "scan" \/ reported
    BY <2>1, OwedIsFoundSoFar DEF EInv, IInv, Ordered, FindingsExact
  <2>2. CASE ~(phase = "scan" \/ reported)
    <3>1. files = <<>> /\ issues = <<>>
      BY <2>2 DEF EInv, Quiet
    <3>2. Owed = {} /\ SeqRange(issues) = {}
      BY <3>1 DEF Owed, Positions, SeqRange
    <3>. QED
      BY <3>1, <3>2 DEF FindingsExact
  <2>. QED
    BY <2>1, <2>2
<1>. QED
  BY <1>1, InitEInv, NextEInv, PTL DEF Spec

-----------------------------------------------------------------------------
(***************************************************************************)
(* ReportCanonical.  all_issues is in scan order (Ordered), so the issues *)
(* of one file come in line and rule order, and format_report of such a   *)
(* list prints each issue once in report order (AuditReportTheorems).     *)
(***************************************************************************)

\* all_issues lists the issues of each file in line and rule order.
LEMMA IssuesFileOrdered ==
  ASSUME EInv, reported
  PROVE  FileOrdered(issues)
<1> SUFFICES ASSUME NEW i \in 1..Len(issues), NEW j \in 1..Len(issues), i < j,
                    issues[i].file = issues[j].file
             PROVE  LineRuleBefore(issues[i], issues[j])
  BY DEF FileOrdered
<1>1. ScanBefore(issues[i], issues[j])
  BY DEF EInv, Ordered
<1>2. issues[i] \in Abstract!Promised
  <2>1. issues[i] \in SeqRange(issues)
    BY DEF SeqRange
  <2>. QED
    BY <2>1 DEF EInv, IInv, FoundSoFar
<1>3. Pos(issues[i].file) \in 1..Len(files)
  BY <1>2, PosOfPromised DEF EInv, IInv
<1>. QED
  BY <1>1, <1>3 DEF ScanBefore, LineRuleBefore

(***************************************************************************)
(* format_report prints, once the scan is over, every issue of all_issues *)
(* exactly once, sorted by severity, then path, then line, then rule,      *)
(* whatever order rglob listed the files in: for every number of files,    *)
(* catalog and file content.                                               *)
(***************************************************************************)
THEOREM ReportCanonicity == Spec => []ReportCanonical
<1>1. EInv => ReportCanonical
  <2> SUFFICES ASSUME EInv, reported
               PROVE  LET rep == FormatReport(issues, NumPaths) IN
                      /\ Len(rep) = Len(issues)
                      /\ SeqRange(rep) = SeqRange(issues)
                      /\ \A i, j \in 1..Len(rep) : i < j => ReportBefore(rep[i], rep[j])
    BY DEF ReportCanonical
  <2>1. issues \in Seq(IssueType(1..NumPaths, Rules))
    BY DEF EInv, IInv, TypeOK, Issue, Paths
  <2>2. Rules \in SUBSET Int
    BY DEF Rules
  <2>3. FileOrdered(issues)
    BY IssuesFileOrdered
  <2>. QED
    BY <2>1, <2>2, <2>3, NumPathsAssumption, ReportIsCanonical
<1>. QED
  BY <1>1, InitEInv, NextEInv, PTL DEF Spec

=============================================================================
