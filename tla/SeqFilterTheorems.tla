--------------------------- MODULE SeqFilterTheorems ---------------------------
(***************************************************************************)
(* Facts about the list filter Keep, for every list and every test.  The   *)
(* induction over the length of the list is done with the least-number     *)
(* principle on a set of naturals (WFMin on the less-than relation of      *)
(* Nat), which the provers instantiate, rather than with an induction     *)
(* rule over a predicate operator, which they cannot.                     *)
(***************************************************************************)
EXTENDS SeqFilter, WellFoundedInduction, TLAPS

\* f is the table of prefixes Keep(s, K) computes.
KeepEq(s, K, f) ==
  f = [i \in 0..Len(s) |->
         IF i = 0 THEN <<>>
         ELSE IF s[i] \in K THEN Append(f[i - 1], s[i]) ELSE f[i - 1]]

\* Every non-empty set of naturals has a least element.
LEMMA LeastNatural ==
  ASSUME NEW T \in SUBSET Nat, T # {}
  PROVE  \E x \in T : \A y \in T : x <= y
<1>1. \E x \in T : \A y \in T : ~(<<y, x>> \in OpToRel(<, Nat))
  BY NatLessThanWellFounded, WFMin
<1>2. PICK x \in T : \A y \in T : ~(<<y, x>> \in OpToRel(<, Nat))
  BY <1>1
<1>3. \A y \in T : x <= y
  <2> TAKE y \in T
  <2>1. ~(<<y, x>> \in OpToRel(<, Nat))
    BY <1>2
  <2>2. <<y, x>> \in Nat \X Nat
    OBVIOUS
  <2>. QED
    BY <2>1, <2>2 DEF OpToRel
<1>. QED
  BY <1>3

\* The table of prefixes exists: it is built one item at a time.
LEMMA KeepSolvable ==
  ASSUME NEW S, NEW s \in Seq(S), NEW K
  PROVE  \E f : KeepEq(s, K, f)
<1> DEFINE n == Len(s)
<1> DEFINE Step(g, i) == IF s[i] \in K THEN Append(g[i - 1], s[i]) ELSE g[i - 1]
<1> DEFINE Ok(m, g) == g = [i \in 0..m |-> IF i = 0 THEN <<>> ELSE Step(g, i)]
<1> DEFINE T == {m \in 0..n : ~\E g : Ok(m, g)}
<1>1. n \in Nat
  OBVIOUS
<1>2. T = {}
  <2> SUFFICES ASSUME T # {} PROVE FALSE
    OBVIOUS
  <2>0. T \in SUBSET Nat
    BY <1>1
  <2>1. PICK x \in T : \A y \in T : x <= y
    BY <2>0, LeastNatural
  <2>2. CASE x = 0
    <3>1. Ok(0, [i \in 0..0 |-> <<>>])
      OBVIOUS
    <3>. QED
      BY <2>1, <2>2, <3>1
  <2>3. CASE x # 0
    <3>0. x \in 1..n
      BY <2>1, <2>3, <1>1
    <3>1. x - 1 \in 0..n /\ x - 1 \notin T
      <4>1. x - 1 \in 0..n /\ ~(x <= x - 1)
        BY <3>0, <1>1
      <4>. QED
        BY <4>1, <2>1
    <3>2. PICK g : Ok(x - 1, g)
      BY <3>1
    <3> DEFINE h == [i \in 0..x |-> IF i = x THEN Step(g, x) ELSE g[i]]
    <3>3. x \in Nat /\ x > 0
      BY <2>1, <2>3
    <3>4. \A i \in 0..x : h[i] = IF i = 0 THEN <<>> ELSE Step(h, i)
      <4> TAKE i \in 0..x
      <4>1. i # 0 => h[i - 1] = g[i - 1]
        BY <3>3
      <4>2. i # 0 => Step(h, i) = Step(g, i)
        BY <4>1
      <4>3. CASE i = x
        BY <3>3, <4>2, <4>3
      <4>4. CASE i # x
        <5>1. h[i] = g[i]
          BY <4>4, <3>3
        <5>0. i \in 0..(x - 1)
          BY <4>4, <3>3
        <5>2. g[i] = IF i = 0 THEN <<>> ELSE Step(g, i)
          BY <3>2, <5>0
        <5>. QED
          BY <5>1, <5>2, <4>2
      <4>. QED
        BY <4>3, <4>4
    <3>5. Ok(x, h)
      BY <3>4
    <3>. QED
      BY <2>1, <3>5
  <2>. QED
    BY <2>2, <2>3
<1>3. n \in 0..n
  BY <1>1
<1>4. PICK g : Ok(n, g)
  BY <1>2, <1>3
<1>. QED
  BY <1>4 DEF KeepEq

\* Keep is the last entry of any table of prefixes.
LEMMA KeepIsTable ==
  ASSUME NEW S, NEW s \in Seq(S), NEW K
  PROVE  \E f : KeepEq(s, K, f) /\ Keep(s, K) = f[Len(s)]
<1> DEFINE f == CHOOSE f : KeepEq(s, K, f)
<1>1. KeepEq(s, K, f)
  BY KeepSolvable
<1>2. Keep(s, K) = f[Len(s)]
  BY DEF Keep, KeepEq
<1>. QED
  BY <1>1, <1>2

\* Every prefix kept is a list of accepted items no longer than the prefix.
LEMMA KeepTableType ==
  ASSUME NEW S, NEW s \in Seq(S), NEW K, NEW f, KeepEq(s, K, f)
  PROVE  \A i \in 0..Len(s) : f[i] \in Seq(S \cap K) /\ Len(f[i]) <= i
<1> DEFINE T == {i \in 0..Len(s) : ~(f[i] \in Seq(S \cap K) /\ Len(f[i]) <= i)}
<1>1. T = {}
  <2> SUFFICES ASSUME T # {} PROVE FALSE
    OBVIOUS
  <2>0. T \in SUBSET Nat
    OBVIOUS
  <2>1. PICK x \in T : \A y \in T : x <= y
    BY <2>0, LeastNatural
  <2>2. CASE x = 0
    BY <2>1, <2>2 DEF KeepEq
  <2>3. CASE x # 0
    <3>1. x - 1 \in 0..Len(s) /\ x - 1 \notin T
      BY <2>1, <2>3
    <3>2. f[x - 1] \in Seq(S \cap K) /\ Len(f[x - 1]) <= x - 1
      BY <3>1
    <3>3. f[x] = IF s[x] \in K THEN Append(f[x - 1], s[x]) ELSE f[x - 1]
      BY <2>1, <2>3 DEF KeepEq
    <3>4. s[x] \in S
      BY <2>1, <2>3
    <3>5. f[x] \in Seq(S \cap K) /\ Len(f[x]) <= x
      <4>1. CASE s[x] \in K
        BY <3>2, <3>3, <3>4, <4>1
      <4>2. CASE s[x] \notin K
        BY <3>2, <3>3, <4>2
      <4>. QED
        BY <4>1, <4>2
    <3>. QED
      BY <2>1, <3>5
  <2>. QED
    BY <2>2, <2>3
<1>. QED
  BY <1>1

\* The filter keeps accepted items only, and no more items than the list has.
LEMMA KeepType ==
  ASSUME NEW S, NEW s \in Seq(S), NEW K
  PROVE  Keep(s, K) \in Seq(S \cap K) /\ Len(Keep(s, K)) <= Len(s)
<1>1. PICK f : KeepEq(s, K, f) /\ Keep(s, K) = f[Len(s)]
  BY KeepIsTable
<1>2. Len(s) \in 0..Len(s)
  OBVIOUS
<1>3. f[Len(s)] \in Seq(S \cap K) /\ Len(f[Len(s)]) <= Len(s)
  BY <1>1, <1>2, KeepTableType
<1>. QED
  BY <1>1, <1>3

(***************************************************************************)
(* The filter keeps the order of the list and drops only rejected items:   *)
(* idx maps each position of t to the position of s it came from,          *)
(* strictly increasing, and every accepted item of s is reached.           *)
(***************************************************************************)
Embeds(t, s, K, idx, n) ==
  /\ idx \in [1..Len(t) -> 1..n]
  /\ \A a, b \in 1..Len(t) : a < b => idx[a] < idx[b]
  /\ \A a \in 1..Len(t) : t[a] = s[idx[a]]
  /\ \A j \in 1..n : s[j] \in K => \E a \in 1..Len(t) : idx[a] = j

\* One step of the table: the item is appended when it is accepted.
LEMMA KeepStep ==
  ASSUME NEW S, NEW s \in Seq(S), NEW K, NEW f, KeepEq(s, K, f), NEW k \in 1..Len(s)
  PROVE  f[k] = IF s[k] \in K THEN Append(f[k - 1], s[k]) ELSE f[k - 1]
<1>1. k \in 0..Len(s) /\ k # 0
  OBVIOUS
<1>. QED
  BY <1>1 DEF KeepEq

\* Each prefix kept embeds into the prefix of the list it was built from.
LEMMA KeepTableEmbeds ==
  ASSUME NEW S, NEW s \in Seq(S), NEW K, NEW f, KeepEq(s, K, f)
  PROVE  \A i \in 0..Len(s) : \E idx : Embeds(f[i], s, K, idx, i)
<1> DEFINE T == {i \in 0..Len(s) : ~\E idx : Embeds(f[i], s, K, idx, i)}
<1>0. \A i \in 0..Len(s) : f[i] \in Seq(S \cap K) /\ Len(f[i]) <= i
  BY KeepTableType
<1>1. T = {}
  <2> SUFFICES ASSUME T # {} PROVE FALSE
    OBVIOUS
  <2>0. T \in SUBSET Nat
    OBVIOUS
  <2>1. PICK x \in T : \A y \in T : x <= y
    BY <2>0, LeastNatural
  <2>2. CASE x = 0
    <3>1. f[0] = <<>>
      BY DEF KeepEq
    <3>2. Embeds(f[0], s, K, <<>>, 0)
      BY <3>1 DEF Embeds
    <3>. QED
      BY <2>1, <2>2, <3>2
  <2>3. CASE x # 0
    <3>0. x \in 1..Len(s)
      BY <2>1, <2>3
    <3>1. x - 1 \in 0..Len(s) /\ x - 1 \notin T
      <4>1. x - 1 \in 0..Len(s) /\ ~(x <= x - 1)
        BY <3>0
      <4>. QED
        BY <4>1, <2>1
    <3>2. PICK idx : Embeds(f[x - 1], s, K, idx, x - 1)
      BY <3>1
    <3> DEFINE L == Len(f[x - 1])
    <3>3. f[x - 1] \in Seq(S \cap K) /\ L \in Nat /\ s[x] \in S
      BY <1>0, <3>1, <3>0
    <3>4. f[x] = IF s[x] \in K THEN Append(f[x - 1], s[x]) ELSE f[x - 1]
      BY <3>0, KeepStep
    <3>5. CASE s[x] \in K
      <4> DEFINE jdx == [a \in 1..L + 1 |-> IF a = L + 1 THEN x ELSE idx[a]]
      <4>1. f[x] = Append(f[x - 1], s[x]) /\ Len(f[x]) = L + 1
        BY <3>3, <3>4, <3>5
      <4>2. jdx \in [1..L + 1 -> 1..x]
        BY <3>0, <3>2, <3>3 DEF Embeds
      <4>3. \A a, b \in 1..L + 1 : a < b => jdx[a] < jdx[b]
        <5> SUFFICES ASSUME NEW a \in 1..L + 1, NEW b \in 1..L + 1, a < b
                     PROVE  jdx[a] < jdx[b]
          OBVIOUS
        <5>1. CASE b = L + 1
          <6>0. a \in 1..L
            BY <5>1, <3>3
          <6>1. idx[a] \in 1..(x - 1)
            BY <6>0, <3>2 DEF Embeds
          <6>. QED
            BY <5>1, <6>0, <6>1, <3>3
        <5>2. CASE b # L + 1
          <6>0. L \in Nat
            BY <3>3
          <6>1. a \in 1..L /\ b \in 1..L
            BY <5>2, <6>0
          <6>. QED
            BY <6>1, <3>2 DEF Embeds
        <5>. QED
          BY <5>1, <5>2
      <4>4. \A a \in 1..L + 1 : f[x][a] = s[jdx[a]]
        BY <4>1, <3>2, <3>3 DEF Embeds
      <4>5. \A j \in 1..x : s[j] \in K => \E a \in 1..L + 1 : jdx[a] = j
        <5> TAKE j \in 1..x
        <5>1. CASE j = x
          <6>1. L + 1 \in 1..L + 1 /\ jdx[L + 1] = x
            BY <3>3
          <6>. QED
            BY <5>1, <6>1
        <5>2. CASE j # x
          <6>1. j \in 1..(x - 1)
            BY <5>2, <3>0
          <6>2. s[j] \in K => \E a \in 1..L : idx[a] = j
            BY <6>1, <3>2 DEF Embeds
          <6>3. \A a \in 1..L : a \in 1..L + 1 /\ jdx[a] = idx[a]
            BY <3>3
          <6>. QED
            BY <6>2, <6>3
        <5>. QED
          BY <5>1, <5>2
      <4>6. Embeds(f[x], s, K, jdx, x)
        BY <4>1, <4>2, <4>3, <4>4, <4>5 DEF Embeds
      <4>. QED
        BY <4>6, <2>1
    <3>6. CASE s[x] \notin K
      <4>1. f[x] = f[x - 1]
        BY <3>4, <3>6
      <4>2. idx \in [1..L -> 1..x]
        BY <3>0, <3>2 DEF Embeds
      <4>3. \A j \in 1..x : s[j] \in K => \E a \in 1..L : idx[a] = j
        <5> TAKE j \in 1..x
        <5>1. CASE j = x
          BY <5>1, <3>6
        <5>2. CASE j # x
          <6>1. j \in 1..(x - 1)
            BY <5>2, <3>0
          <6>. QED
            BY <6>1, <3>2 DEF Embeds
        <5>. QED
          BY <5>1, <5>2
      <4>4. Embeds(f[x], s, K, idx, x)
        BY <4>1, <4>2, <4>3, <3>2 DEF Embeds
      <4>. QED
        BY <4>4, <2>1
    <3>. QED
      BY <3>5, <3>6
  <2>. QED
    BY <2>2, <2>3
<1>. QED
  BY <1>1

\* The filter embeds into the whole list.
LEMMA KeepEmbeds ==
  ASSUME NEW S, NEW s \in Seq(S), NEW K
  PROVE  \E idx : Embeds(Keep(s, K), s, K, idx, Len(s))
<1>1. PICK f : KeepEq(s, K, f) /\ Keep(s, K) = f[Len(s)]
  BY KeepIsTable
<1>2. Len(s) \in 0..Len(s)
  OBVIOUS
<1>3. \E idx : Embeds(f[Len(s)], s, K, idx, Len(s))
  BY <1>1, <1>2, KeepTableEmbeds
<1>. QED
  BY <1>1, <1>3

=============================================================================
