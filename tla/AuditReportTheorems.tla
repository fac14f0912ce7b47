-------------------------- MODULE AuditReportTheorems --------------------------
(***************************************************************************)
(* format_report prints every issue once, in the order the spec gives the *)
(* report (severity, then path, then line, then rule), for every list of  *)
(* issues in which the issues of one file come in line and rule order.   *)
(* The argument follows the code: issues_by_severity and issues_by_file   *)
(* are filters that keep the order of the list (SeqFilterTheorems), the   *)
(* loop over the sorted files appends one file's issues after those of    *)
(* the files before it, and the loop over the severities appends the      *)
(* sections in the order HIGH, MEDIUM, LOW.                               *)
(***************************************************************************)
EXTENDS AuditReport, SeqFilterTheorems, FiniteSetTheorems, TLAPS

\* Of two issues of one file, a is on an earlier line, or on the same line
\* of an earlier rule.
LineRuleBefore(a, b) ==
  a.line < b.line \/ (a.line = b.line /\ a.rule < b.rule)

\* The issues of each file come in line and rule order.
FileOrdered(iss) ==
  \A i, j \in 1..Len(iss) :
    i < j /\ iss[i].file = iss[j].file => LineRuleBefore(iss[i], iss[j])

\* f is the table of the loop over the sorted files of a section.
ConcatEq(G, n, f) ==
  f = [p \in 0..n |-> IF p = 0 THEN <<>> ELSE f[p - 1] \o G[p]]

\* The table of the loop over the files exists.
LEMMA ConcatSolvable ==
  ASSUME NEW G, NEW n \in Nat
  PROVE  \E f : ConcatEq(G, n, f)
<1> DEFINE Ok(m, g) == g = [p \in 0..m |-> IF p = 0 THEN <<>> ELSE g[p - 1] \o G[p]]
<1> DEFINE T == {m \in 0..n : ~\E g : Ok(m, g)}
<1>1. T = {}
  <2> SUFFICES ASSUME T # {} PROVE FALSE
    OBVIOUS
  <2>0. T \in SUBSET Nat
    <3>1. 0..n \subseteq Nat
      OBVIOUS
    <3> HIDE DEF Ok
    <3>. QED
      BY <3>1
  <2>1. PICK x \in T : \A y \in T : x <= y
    BY <2>0, LeastNatural
  <2>2. CASE x = 0
    <3>1. Ok(0, [p \in 0..0 |-> <<>>])
      OBVIOUS
    <3>. QED
      BY <2>1, <2>2, <3>1
  <2>3. CASE x # 0
    <3>0. x \in 1..n
      BY <2>1, <2>3
    <3>1. x - 1 \in 0..n /\ x - 1 \notin T
      <4>1. x - 1 \in 0..n /\ ~(x <= x - 1)
        BY <3>0
      <4>. QED
        BY <4>1, <2>1
    <3>2. PICK g : Ok(x - 1, g)
      BY <3>1
    <3> DEFINE h == [p \in 0..x |-> IF p = x THEN g[x - 1] \o G[x] ELSE g[p]]
    <3>3. \A p \in 0..x : h[p] = IF p = 0 THEN <<>> ELSE h[p - 1] \o G[p]
      <4> TAKE p \in 0..x
      <4>1. CASE p = x
        <5>1. x - 1 \in 0..x /\ x - 1 # x /\ x # 0
          BY <3>0
        <5>2. h[x - 1] = g[x - 1]
          BY <5>1
        <5>. QED
          BY <4>1, <5>1, <5>2
      <4>2. CASE p # x
        <5>0. p \in 0..(x - 1)
          BY <4>2, <3>0
        <5>1. g[p] = IF p = 0 THEN <<>> ELSE g[p - 1] \o G[p]
          BY <5>0, <3>2
        <5>2. p # 0 => h[p - 1] = g[p - 1]
          BY <5>0, <3>0
        <5>. QED
          BY <5>0, <5>1, <5>2, <3>0
      <4>. QED
        BY <4>1, <4>2
    <3>4. Ok(x, h)
      BY <3>3
    <3>. QED
      BY <2>1, <3>4
  <2>. QED
    BY <2>2, <2>3
<1>2. n \in 0..n
  OBVIOUS
<1>3. PICK g : Ok(n, g)
  BY <1>1, <1>2
<1>. QED
  BY <1>3 DEF ConcatEq

(***************************************************************************)
(* issues_by_file of a severity s, for a file p: the issues of severity s *)
(* in file p, every one of them, in line and rule order.                   *)
(***************************************************************************)
LEMMA ByFileFacts ==
  ASSUME NEW N \in Nat, NEW R, NEW iss \in Seq(IssueType(1..N, R)), FileOrdered(iss),
         NEW s, NEW p
  PROVE  /\ ByFile(iss, s, p) \in Seq(IssueType(1..N, R))
         /\ SeqRange(ByFile(iss, s, p)) =
              {x \in SeqRange(iss) : x.severity = s /\ x.file = p}
         /\ \A a, c \in 1..Len(ByFile(iss, s, p)) :
              a < c => LineRuleBefore(ByFile(iss, s, p)[a], ByFile(iss, s, p)[c])
<1> DEFINE I == IssueType(1..N, R)
<1> DEFINE Ks == {i \in SeqRange(iss) : i.severity = s}
<1> DEFINE Kp == {i \in SeqRange(iss) : i.file = p}
<1> DEFINE v == Keep(iss, Ks)
<1> DEFINE b == Keep(v, Kp)
<1>1. b = ByFile(iss, s, p)
  BY DEF ByFile, BySeverity
<1>2. v \in Seq(I \cap Ks)
  BY KeepType
<1>3. b \in Seq((I \cap Ks) \cap Kp)
  BY <1>2, KeepType
<1>4. PICK e1 : Embeds(v, iss, Ks, e1, Len(iss))
  BY KeepEmbeds
<1>5. PICK e2 : Embeds(b, v, Kp, e2, Len(v))
  BY <1>2, KeepEmbeds
<1>6. b \in Seq(I)
  BY <1>3
<1>7. SeqRange(b) \subseteq {x \in SeqRange(iss) : x.severity = s /\ x.file = p}
  BY <1>3 DEF SeqRange
<1>8. {x \in SeqRange(iss) : x.severity = s /\ x.file = p} \subseteq SeqRange(b)
  <2> SUFFICES ASSUME NEW x \in SeqRange(iss), x.severity = s, x.file = p
               PROVE  x \in SeqRange(b)
    OBVIOUS
  <2>0. PICK j \in 1..Len(iss) : iss[j] = x
    BY DEF SeqRange
  <2>1. iss[j] \in Ks
    BY <2>0
  <2>2. PICK a1 \in 1..Len(v) : e1[a1] = j
    BY <2>1, <1>4 DEF Embeds
  <2>3. v[a1] = iss[j]
    BY <2>2, <1>4 DEF Embeds
  <2>4. v[a1] \in Kp
    BY <2>0, <2>3
  <2>5. PICK a2 \in 1..Len(b) : e2[a2] = a1
    BY <2>4, <1>5 DEF Embeds
  <2>6. b[a2] = iss[j]
    BY <2>5, <2>3, <1>5 DEF Embeds
  <2>. QED
    <3>1. a2 \in DOMAIN b
      BY <2>5, <1>6
    <3>. QED
      BY <3>1, <2>0, <2>6 DEF SeqRange
<1>9. \A a, c \in 1..Len(b) : a < c => LineRuleBefore(b[a], b[c])
  <2> SUFFICES ASSUME NEW a \in 1..Len(b), NEW c \in 1..Len(b), a < c
               PROVE  LineRuleBefore(b[a], b[c])
    OBVIOUS
  <2>1. e2[a] \in 1..Len(v) /\ e2[c] \in 1..Len(v) /\ e2[a] < e2[c]
    BY <1>5 DEF Embeds
  <2>2. e1[e2[a]] \in 1..Len(iss) /\ e1[e2[c]] \in 1..Len(iss) /\ e1[e2[a]] < e1[e2[c]]
    BY <2>1, <1>4 DEF Embeds
  <2>3. b[a] = iss[e1[e2[a]]] /\ b[c] = iss[e1[e2[c]]]
    BY <2>1, <1>4, <1>5 DEF Embeds
  <2>4. b[a].file = p /\ b[c].file = p
    BY <1>3
  <2>. QED
    BY <2>2, <2>3, <2>4 DEF FileOrdered
<1>. QED
  BY <1>1, <1>6, <1>7, <1>8, <1>9

\* The items of a concatenation are those of its two parts.
LEMMA ConcatRange ==
  ASSUME NEW S, NEW u \in Seq(S), NEW w \in Seq(S)
  PROVE  SeqRange(u \o w) = SeqRange(u) \cup SeqRange(w)
<1>1. SeqRange(u \o w) \subseteq SeqRange(u) \cup SeqRange(w)
  <2> SUFFICES ASSUME NEW k \in 1..Len(u \o w)
               PROVE  (u \o w)[k] \in SeqRange(u) \cup SeqRange(w)
    BY DEF SeqRange
  <2>1. CASE k <= Len(u)
    BY <2>1 DEF SeqRange
  <2>2. CASE k > Len(u)
    <3>1. k - Len(u) \in 1..Len(w) /\ (u \o w)[k] = w[k - Len(u)]
      BY <2>2
    <3>. QED
      BY <3>1 DEF SeqRange
  <2>. QED
    BY <2>1, <2>2
<1>2. SeqRange(u) \subseteq SeqRange(u \o w)
  <2> SUFFICES ASSUME NEW k \in 1..Len(u) PROVE u[k] \in SeqRange(u \o w)
    BY DEF SeqRange
  <2>1. k \in 1..Len(u \o w) /\ (u \o w)[k] = u[k]
    OBVIOUS
  <2>. QED
    BY <2>1 DEF SeqRange
<1>3. SeqRange(w) \subseteq SeqRange(u \o w)
  <2> SUFFICES ASSUME NEW k \in 1..Len(w) PROVE w[k] \in SeqRange(u \o w)
    BY DEF SeqRange
  <2>1. Len(u) + k \in 1..Len(u \o w) /\ (u \o w)[Len(u) + k] = w[k]
    OBVIOUS
  <2>. QED
    BY <2>1 DEF SeqRange
<1>. QED
  BY <1>1, <1>2, <1>3

\* A list is in the order Rel (a set of pairs) when each item is related
\* to every item after it.
OrderedBy(t, Rel) == \A a, c \in 1..Len(t) : a < c => <<t[a], t[c]>> \in Rel

\* Appending a list in order Rel, whose items all come after those of a
\* list in order Rel, gives a list in order Rel.
LEMMA ConcatOrdered ==
  ASSUME NEW S, NEW u \in Seq(S), NEW w \in Seq(S), NEW Rel,
         OrderedBy(u, Rel), OrderedBy(w, Rel),
         \A x \in SeqRange(u), y \in SeqRange(w) : <<x, y>> \in Rel
  PROVE  OrderedBy(u \o w, Rel)
<1> SUFFICES ASSUME NEW a \in 1..Len(u \o w), NEW c \in 1..Len(u \o w), a < c
             PROVE  <<(u \o w)[a], (u \o w)[c]>> \in Rel
  BY DEF OrderedBy
<1>1. CASE c <= Len(u)
  <2>1. a \in 1..Len(u) /\ c \in 1..Len(u) /\ (u \o w)[a] = u[a] /\ (u \o w)[c] = u[c]
    BY <1>1
  <2>. QED
    BY <2>1 DEF OrderedBy
<1>2. CASE a > Len(u)
  <2>1. /\ a - Len(u) \in 1..Len(w) /\ c - Len(u) \in 1..Len(w)
        /\ a - Len(u) < c - Len(u)
        /\ (u \o w)[a] = w[a - Len(u)] /\ (u \o w)[c] = w[c - Len(u)]
    BY <1>2
  <2>. QED
    BY <2>1 DEF OrderedBy
<1>3. CASE a <= Len(u) /\ c > Len(u)
  <2>1. /\ a \in 1..Len(u) /\ c - Len(u) \in 1..Len(w)
        /\ (u \o w)[a] = u[a] /\ (u \o w)[c] = w[c - Len(u)]
    BY <1>3
  <2>2. u[a] \in SeqRange(u) /\ w[c - Len(u)] \in SeqRange(w)
    BY <2>1 DEF SeqRange
  <2>. QED
    BY <2>1, <2>2
<1>4. c <= Len(u) \/ a > Len(u) \/ (a <= Len(u) /\ c > Len(u))
  OBVIOUS
<1>. QED
  BY <1>1, <1>2, <1>3, <1>4

\* The report order on issues of a type I, as a set of pairs.
RepRel(I) == {pr \in I \X I : ReportBefore(pr[1], pr[2])}

\* f is the table of the loop over the sorted files of section s.
SectionEq(iss, s, n, f) ==
  f = [p \in 0..n |-> IF p = 0 THEN <<>> ELSE f[p - 1] \o ByFile(iss, s, p)]

\* The section of s is the last entry of its table.
LEMMA SectionIsTable ==
  ASSUME NEW iss, NEW s, NEW n \in Nat
  PROVE  \E f : SectionEq(iss, s, n, f) /\ Section(iss, s, n) = f[n]
<1> DEFINE G == [p \in 1..n |-> ByFile(iss, s, p)]
<1>1. PICK g : ConcatEq(G, n, g)
  BY ConcatSolvable
<1>2. SectionEq(iss, s, n, g)
  <2>1. [p \in 0..n |-> IF p = 0 THEN <<>> ELSE g[p - 1] \o G[p]]
          = [p \in 0..n |-> IF p = 0 THEN <<>> ELSE g[p - 1] \o ByFile(iss, s, p)]
    OBVIOUS
  <2>. QED
    BY <1>1, <2>1 DEF ConcatEq, SectionEq
<1> DEFINE f == CHOOSE f : SectionEq(iss, s, n, f)
<1>3. SectionEq(iss, s, n, f)
  BY <1>2
<1>4. Section(iss, s, n) = f[n]
  BY DEF Section, SectionEq
<1>. QED
  BY <1>3, <1>4

(***************************************************************************)
(* After the first q files the section of s holds exactly the issues of   *)
(* severity s in those files, in report order.                             *)
(***************************************************************************)
LEMMA SectionTable ==
  ASSUME NEW N \in Nat, NEW R, NEW iss \in Seq(IssueType(1..N, R)), FileOrdered(iss),
         NEW s, NEW f, SectionEq(iss, s, N, f)
  PROVE  \A q \in 0..N :
           /\ f[q] \in Seq(IssueType(1..N, R))
           /\ SeqRange(f[q]) = {x \in SeqRange(iss) : x.severity = s /\ x.file \in 1..q}
           /\ OrderedBy(f[q], RepRel(IssueType(1..N, R)))
<1> DEFINE I == IssueType(1..N, R)
<1> DEFINE Ok(q) == /\ f[q] \in Seq(I)
                    /\ SeqRange(f[q]) = {x \in SeqRange(iss) : x.severity = s /\ x.file \in 1..q}
                    /\ OrderedBy(f[q], RepRel(I))
<1> DEFINE T == {q \in 0..N : ~Ok(q)}
<1>1. T = {}
  <2> SUFFICES ASSUME T # {} PROVE FALSE
    OBVIOUS
  <2>0. T \in SUBSET Nat
    <3>1. 0..N \subseteq Nat
      OBVIOUS
    <3> HIDE DEF Ok
    <3>. QED
      BY <3>1
  <2>1. PICK x \in T : \A y \in T : x <= y
    BY <2>0, LeastNatural
  <2>2. CASE x = 0
    <3>1. f[0] = <<>>
      BY <2>1, <2>2 DEF SectionEq
    <3>2. Ok(0)
      BY <3>1 DEF SeqRange, OrderedBy
    <3>. QED
      BY <2>1, <2>2, <3>2
  <2>3. CASE x # 0
    <3>0. x \in 1..N
      BY <2>1, <2>3
    <3>1. x - 1 \in 0..N /\ x - 1 \notin T
      <4>1. x - 1 \in 0..N /\ ~(x <= x - 1)
        BY <3>0
      <4>. QED
        BY <4>1, <2>1
    <3>2. Ok(x - 1)
      BY <3>1
    <3> DEFINE u == f[x - 1]
    <3> DEFINE B == ByFile(iss, s, x)
    <3>3. f[x] = u \o B
      <4>1. x \in 0..N /\ x # 0
        BY <3>0
      <4>. QED
        BY <4>1 DEF SectionEq
    <3>4. /\ B \in Seq(I)
          /\ SeqRange(B) = {y \in SeqRange(iss) : y.severity = s /\ y.file = x}
          /\ \A a, c \in 1..Len(B) : a < c => LineRuleBefore(B[a], B[c])
      BY ByFileFacts
    <3>5. u \in Seq(I)
      BY <3>2
    <3>6. SeqRange(f[x]) = {y \in SeqRange(iss) : y.severity = s /\ y.file \in 1..x}
      <4>1. SeqRange(f[x]) = SeqRange(u) \cup SeqRange(B)
        BY <3>3, <3>4, <3>5, ConcatRange
      <4>2. SeqRange(u) = {y \in SeqRange(iss) : y.severity = s /\ y.file \in 1..(x - 1)}
        BY <3>2
      <4>3. \A y \in SeqRange(iss) : y.file \in 1..x <=> y.file \in 1..(x - 1) \/ y.file = x
        <5>1. \A y \in SeqRange(iss) : y.file \in 1..N
          <6> SUFFICES ASSUME NEW y \in SeqRange(iss) PROVE y.file \in 1..N
            OBVIOUS
          <6>1. PICK k \in 1..Len(iss) : iss[k] = y
            BY DEF SeqRange
          <6>2. iss[k] \in I
            OBVIOUS
          <6>. QED
            BY <6>1, <6>2 DEF IssueType
        <5>. QED
          BY <5>1, <3>0
      <4>. QED
        BY <4>1, <4>2, <4>3, <3>4
    <3>7. OrderedBy(B, RepRel(I))
      <4> SUFFICES ASSUME NEW a \in 1..Len(B), NEW c \in 1..Len(B), a < c
                   PROVE  <<B[a], B[c]>> \in RepRel(I)
        BY DEF OrderedBy
      <4>1. B[a] \in SeqRange(B) /\ B[c] \in SeqRange(B)
        BY <3>4 DEF SeqRange
      <4>2. B[a].severity = s /\ B[c].severity = s /\ B[a].file = x /\ B[c].file = x
        BY <4>1, <3>4
      <4>3. LineRuleBefore(B[a], B[c]) /\ B[a] \in I /\ B[c] \in I
        BY <3>4
      <4>. QED
        BY <4>2, <4>3 DEF RepRel, ReportBefore, LineRuleBefore
    <3>8. \A y \in SeqRange(u), z \in SeqRange(B) : <<y, z>> \in RepRel(I)
      <4> SUFFICES ASSUME NEW y \in SeqRange(u), NEW z \in SeqRange(B)
                   PROVE  <<y, z>> \in RepRel(I)
        OBVIOUS
      <4>1. y.severity = s /\ y.file \in 1..(x - 1) /\ z.severity = s /\ z.file = x
        BY <3>2, <3>4
      <4>2. y \in I /\ z \in I
        BY <3>4, <3>5 DEF SeqRange
      <4>3. y.file < z.file
        BY <4>1, <3>0
      <4>. QED
        BY <4>1, <4>2, <4>3 DEF RepRel, ReportBefore
    <3>9. OrderedBy(f[x], RepRel(I))
      BY <3>2, <3>3, <3>4, <3>5, <3>7, <3>8, ConcatOrdered
    <3>10. f[x] \in Seq(I)
      BY <3>3, <3>4, <3>5
    <3>. QED
      BY <2>1, <3>6, <3>9, <3>10
  <2>. QED
    BY <2>2, <2>3
<1>. QED
  BY <1>1

\* The items of a list of S are in S.
LEMMA RangeType ==
  ASSUME NEW S, NEW t \in Seq(S)
  PROVE  SeqRange(t) \subseteq S
BY DEF SeqRange

\* A list that holds no item twice has as many items as it has entries.
LEMMA InjectiveLen ==
  ASSUME NEW S, NEW t \in Seq(S), IsInjective(t)
  PROVE  IsFiniteSet(SeqRange(t)) /\ Cardinality(SeqRange(t)) = Len(t)
<1>1. t \in Bijection(1..Len(t), SeqRange(t))
  BY DEF Bijection, Injection, Surjection, IsInjective, SeqRange
<1>2. IsFiniteSet(1..Len(t)) /\ Cardinality(1..Len(t)) = Len(t)
  <2>1. Len(t) \in Nat
    OBVIOUS
  <2>2. IsFiniteSet(1..Len(t)) /\ Cardinality(1..Len(t)) = IF 1 > Len(t) THEN 0 ELSE Len(t) - 1 + 1
    BY <2>1, FS_Interval
  <2>. QED
    BY <2>1, <2>2
<1>. QED
  BY <1>1, <1>2, FS_Bijection DEF ExistsBijection

\* The section of s: every issue of severity s, in report order.
LEMMA SectionFacts ==
  ASSUME NEW N \in Nat, NEW R, NEW iss \in Seq(IssueType(1..N, R)), FileOrdered(iss),
         NEW s
  PROVE  /\ Section(iss, s, N) \in Seq(IssueType(1..N, R))
         /\ SeqRange(Section(iss, s, N)) = {x \in SeqRange(iss) : x.severity = s}
         /\ OrderedBy(Section(iss, s, N), RepRel(IssueType(1..N, R)))
<1>1. PICK f : SectionEq(iss, s, N, f) /\ Section(iss, s, N) = f[N]
  BY SectionIsTable
<1>2. /\ f[N] \in Seq(IssueType(1..N, R))
      /\ SeqRange(f[N]) = {x \in SeqRange(iss) : x.severity = s /\ x.file \in 1..N}
      /\ OrderedBy(f[N], RepRel(IssueType(1..N, R)))
  <2>1. N \in 0..N
    OBVIOUS
  <2>. QED
    BY <1>1, <2>1, SectionTable
<1>3. \A x \in SeqRange(iss) : x.file \in 1..N
  BY RangeType DEF IssueType
<1>. QED
  BY <1>1, <1>2, <1>3

(***************************************************************************)
(* format_report prints every issue of the list, and in report order.     *)
(***************************************************************************)
LEMMA FormatReportFacts ==
  ASSUME NEW N \in Nat, NEW R, NEW iss \in Seq(IssueType(1..N, R)), FileOrdered(iss)
  PROVE  /\ FormatReport(iss, N) \in Seq(IssueType(1..N, R))
         /\ SeqRange(FormatReport(iss, N)) = SeqRange(iss)
         /\ OrderedBy(FormatReport(iss, N), RepRel(IssueType(1..N, R)))
<1> DEFINE I == IssueType(1..N, R)
<1> DEFINE H == Section(iss, "HIGH", N)
<1> DEFINE M == Section(iss, "MEDIUM", N)
<1> DEFINE L == Section(iss, "LOW", N)
<1>1. FormatReport(iss, N) = (H \o M) \o L
  BY DEF FormatReport, SeverityOrder
<1>2. /\ H \in Seq(I) /\ M \in Seq(I) /\ L \in Seq(I)
      /\ SeqRange(H) = {x \in SeqRange(iss) : x.severity = "HIGH"}
      /\ SeqRange(M) = {x \in SeqRange(iss) : x.severity = "MEDIUM"}
      /\ SeqRange(L) = {x \in SeqRange(iss) : x.severity = "LOW"}
      /\ OrderedBy(H, RepRel(I)) /\ OrderedBy(M, RepRel(I)) /\ OrderedBy(L, RepRel(I))
  BY SectionFacts
<1>3. \A x \in SeqRange(iss) : x \in I
  BY RangeType
<1>4. H \o M \in Seq(I) /\ SeqRange(H \o M) = SeqRange(H) \cup SeqRange(M)
  BY <1>2, ConcatRange
<1>5. SeqRange((H \o M) \o L) = SeqRange(iss)
  <2>0. SeqRange((H \o M) \o L) = SeqRange(H \o M) \cup SeqRange(L)
    <3>1. \A u, w \in Seq(I) : SeqRange(u \o w) = SeqRange(u) \cup SeqRange(w)
      BY ConcatRange
    <3> HIDE DEF H, M, L, I
    <3>. QED
      BY <3>1, <1>2, <1>4
  <2>1. SeqRange((H \o M) \o L) = (SeqRange(H) \cup SeqRange(M)) \cup SeqRange(L)
    BY <2>0, <1>4
  <2>2. \A x \in SeqRange(iss) : x.severity \in {"HIGH", "MEDIUM", "LOW"}
    BY <1>3 DEF IssueType, Severities
  <2>. QED
    BY <2>1, <2>2, <1>2
<1>6. OrderedBy(H \o M, RepRel(I))
  <2>1. \A x \in SeqRange(H), y \in SeqRange(M) : <<x, y>> \in RepRel(I)
    <3> SUFFICES ASSUME NEW x \in SeqRange(H), NEW y \in SeqRange(M)
                 PROVE  <<x, y>> \in RepRel(I)
      OBVIOUS
    <3>1. x.severity = "HIGH" /\ y.severity = "MEDIUM" /\ x \in I /\ y \in I
      BY <1>2, <1>3
    <3>. QED
      BY <3>1 DEF RepRel, ReportBefore, SevRank
  <2>. QED
    BY <1>2, <2>1, ConcatOrdered
<1>7. OrderedBy((H \o M) \o L, RepRel(I))
  <2>1. \A x \in SeqRange(H \o M), y \in SeqRange(L) : <<x, y>> \in RepRel(I)
    <3> SUFFICES ASSUME NEW x \in SeqRange(H \o M), NEW y \in SeqRange(L)
                 PROVE  <<x, y>> \in RepRel(I)
      OBVIOUS
    <3>1. x.severity \in {"HIGH", "MEDIUM"} /\ y.severity = "LOW" /\ x \in I /\ y \in I
      BY <1>2, <1>3, <1>4
    <3>. QED
      BY <3>1 DEF RepRel, ReportBefore, SevRank
  <2>. QED
    BY <1>2, <1>4, <1>6, <2>1, ConcatOrdered
<1>. QED
  BY <1>1, <1>2, <1>4, <1>5, <1>7

(***************************************************************************)
(* format_report, for a list of issues whose issues of each file come in  *)
(* line and rule order: the report prints each issue exactly once (as many *)
(* entries as issues, the same issues) and in report order.  No issue is  *)
(* printed twice because the report order is strict, and none is dropped *)
(* because the list holds no issue twice (its file order is strict).     *)
(***************************************************************************)
LEMMA ReportIsCanonical ==
  ASSUME NEW N \in Nat, NEW R \in SUBSET Int, NEW iss \in Seq(IssueType(1..N, R)),
         FileOrdered(iss)
  PROVE  LET rep == FormatReport(iss, N) IN
         /\ Len(rep) = Len(iss)
         /\ SeqRange(rep) = SeqRange(iss)
         /\ \A i, j \in 1..Len(rep) : i < j => ReportBefore(rep[i], rep[j])
<1> DEFINE I == IssueType(1..N, R)
<1> DEFINE rep == FormatReport(iss, N)
<1>1. /\ rep \in Seq(I)
      /\ SeqRange(rep) = SeqRange(iss)
      /\ OrderedBy(rep, RepRel(I))
  BY FormatReportFacts
<1>2. \A i, j \in 1..Len(rep) : i < j => ReportBefore(rep[i], rep[j])
  BY <1>1 DEF OrderedBy, RepRel
<1>3. \A x \in I : ~ReportBefore(x, x)
  <2> SUFFICES ASSUME NEW x \in I PROVE ~ReportBefore(x, x)
    OBVIOUS
  <2>0. x.severity \in Severities /\ x.file \in 1..N /\ x.line \in Nat \ {0} /\ x.rule \in R
    BY DEF IssueType
  <2>1. x.severity \in {"HIGH", "MEDIUM", "LOW"} /\ x.file \in Int /\ x.line \in Int
        /\ x.rule \in Int
    <3>1. x.rule \in Int
      BY <2>0, Zenon
    <3>. QED
      BY <2>0, <3>1 DEF Severities
  <2>2. SevRank(x.severity) \in Int
    BY <2>1 DEF SevRank
  <2>. QED
    BY <2>1, <2>2 DEF ReportBefore
<1>4. IsInjective(rep)
  <2> SUFFICES ASSUME NEW a \in 1..Len(rep), NEW c \in 1..Len(rep), rep[a] = rep[c]
               PROVE  a = c
    BY <1>1 DEF IsInjective
  <2>1. rep[a] \in I
    BY <1>1
  <2>2. ~(a < c) /\ ~(c < a)
    BY <1>2, <1>3, <2>1
  <2>. QED
    BY <2>2
<1>5. IsInjective(iss)
  <2> SUFFICES ASSUME NEW a \in 1..Len(iss), NEW c \in 1..Len(iss), iss[a] = iss[c]
               PROVE  a = c
    BY DEF IsInjective
  <2>0. iss[a] \in I
    OBVIOUS
  <2>1. iss[a].line \in Int /\ iss[a].rule \in Int
    <3>1. iss[a].line \in Nat \ {0} /\ iss[a].rule \in R
      BY <2>0 DEF IssueType
    <3>2. iss[a].rule \in Int
      BY <3>1, Zenon
    <3>. QED
      BY <3>1, <3>2
  <2>2. ~LineRuleBefore(iss[a], iss[a])
    BY <2>1 DEF LineRuleBefore
  <2>3. ~(a < c) /\ ~(c < a)
    BY <2>2 DEF FileOrdered
  <2>. QED
    BY <2>3
<1>6. Len(rep) = Len(iss)
  <2>1. Cardinality(SeqRange(rep)) = Len(rep)
    BY <1>1, <1>4, InjectiveLen
  <2>2. Cardinality(SeqRange(iss)) = Len(iss)
    BY <1>5, InjectiveLen
  <2>. QED
    BY <1>1, <2>1, <2>2
<1>. QED
  BY <1>1, <1>2, <1>6

=============================================================================
