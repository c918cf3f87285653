------------------------ MODULE PipelineTestsProofs -------------------------
(***************************************************************************)
(* That the exit code of the test runner is earned and that it runs every  *)
(* case once, for any repository of packages, any suites and any number of *)
(* commands that fail.                                                     *)
(***************************************************************************)
EXTENDS PipelineTests, FiniteSetTheorems, SequenceTheorems, WellFoundedInduction, TLAPS

InCase == {"melange", "step", "virtual"}
InSuite == {"case"} \cup InCase

(* What the history and the directory of configs are made of. *)
Records == [suite : STRING, case : TestCase, faulty : BOOLEAN,
            result : {"accepted", "rejected", "generated"}, env : SUBSET DOMAIN DB]
Paths == {Path(r.suite, r.case) : r \in Records}

TypeInv ==
  /\ TypeOK
  /\ suites \in Seq(SuiteFile) /\ log \in Seq(Records) /\ failures \in Seq(Paths)
  /\ passed \in Nat /\ failed \in Nat /\ i >= 1 /\ step >= 1 /\ vp >= 1

(* Where the runner is in its suites, and that melange reads the config of *)
(* the case at hand.                                                       *)
PlaceInv ==
  /\ pc = "start" => suites = <<>> /\ s = 1 /\ log = <<>>
  /\ pc \in InSuite => s <= Len(suites) /\ i <= Len(Ordered(suites[s])) + 1
  /\ pc \in InCase => /\ i <= Len(Ordered(suites[s])) /\ ~generateOnly
                      /\ Slot \in DOMAIN out /\ Config = Case

(* The cases of the log are those of the suites so far, in their order. *)
Orders == [k \in DOMAIN suites |-> Ordered(suites[k])]
Run0(k) == FlattenSeq(SubSeq(Orders, 1, k))
Logged == [k \in DOMAIN log |-> log[k].case]
OrderInv ==
  /\ pc = "load" => Logged = Run0(s - 1)
  /\ pc \in InSuite => Logged = Run0(s - 1) \o SubSeq(Ordered(suites[s]), 1, i - 1)
  /\ exit = 0 => Logged = FlattenSeq(Orders)

(* What the totals and the exit code say of the log. *)
Fit(r) == r.result = IF r.case.expect THEN "accepted" ELSE "rejected"
TotalInv ==
  /\ ~generateOnly => \A k \in DOMAIN log : log[k].faulty \/ Right(log[k])
  /\ ~generateOnly /\ failed = 0 => \A k \in DOMAIN log : Fit(log[k])
  /\ exit = 0 => generateOnly \/ failed = 0
  /\ exit = 1 => \/ failed > 0 \/ faults > 0
                 \/ suites = <<>> \/ \E g \in ToSet(suites) : ~Loads(g)

(* The environment holds the package, if there is one of that name, and    *)
(* what was asked for; unless a failure was passed over, whatever else a   *)
(* check has added has no files.                                           *)
Expected(n, c) == DB[n].files = {} \/ \E k \in Asked(c) : n \in Candidates(k)
EnvInv ==
  pc \in {"step", "virtual"} /\ Case.package \in DOMAIN DB =>
    /\ Case.package \in env
    /\ blurred \/ \A n \in env : Expected(n, Case)

(* A step that is behind was met, whatever the environment becomes. *)
Met(st, c, e) == Holds(st, c, {}) \/ FoundElsewhere(st, c, e)
StepInv ==
  pc \in {"step", "virtual"} /\ ~blurred =>
    \A j \in 1 .. step - 1 : j <= Len(Case.steps) => Met(Case.steps[j], Case, env)

(* During a virtual check no name that was added has brought files.        *)
VirtualInv ==
  pc = "virtual" =>
    /\ step <= Len(Case.steps) /\ Case.steps[step].check = "virtual"
    /\ Case.package \in env /\ Case.steps[step].names # <<>>
    /\ ToSet(Case.steps[step].names) \subseteq DB[Case.package].provides
    /\ blurred \/ count = TotalApkCount(env)

RunnerInv == TypeInv /\ PlaceInv /\ OrderInv /\ TotalInv
MelangeInv == EnvInv /\ StepInv /\ VirtualInv
IInv == RunnerInv /\ MelangeInv
-----------------------------------------------------------------------------
(* Sequences and sets.                                                     *)

(* Induction, for a set of numbers. *)
LEMMA SetInduction ==
  ASSUME NEW A, 0 \in A, \A n \in Nat : n \in A => n + 1 \in A
  PROVE  Nat \subseteq A
<1> SUFFICES ASSUME Nat \ A # {} PROVE FALSE
  OBVIOUS
<1> DEFINE T == Nat \ A
<1>1. T \subseteq Nat /\ T # {}
  OBVIOUS
<1>2. PICK x \in T : \A y \in T : ~(<<y, x>> \in OpToRel(<, Nat))
  <2> HIDE DEF T
  <2> QED BY <1>1, NatLessThanWellFounded, WFMin
<1>3. x \in Nat /\ x # 0 /\ x - 1 \in Nat /\ x - 1 < x
  OBVIOUS
<1>4. x - 1 \in A
  BY <1>2, <1>3 DEF OpToRel
<1>5. x - 1 + 1 \in A
  BY <1>3, <1>4
<1> QED BY <1>3, <1>5

(* A function may be defined by recursion on a number. *)
IsRecursion(f, n, T, base, g) ==
  /\ f \in [0 .. n -> T]
  /\ f[0] = base /\ \A k \in 1 .. n : f[k] = g[<<k, f[k - 1]>>]

LEMMA RecursionExists ==
  ASSUME NEW T, NEW base, base \in T, NEW n, n \in Nat,
         NEW g, g \in [(1 .. n) \X T -> T]
  PROVE  \E f : IsRecursion(f, n, T, base, g)
<1> DEFINE Upto(f, m) == f[0] = base /\ \A k \in 1 .. m : f[k] = g[<<k, f[k - 1]>>]
           A == {m \in Nat : m <= n => \E f \in [0 .. m -> T] : Upto(f, m)}
<1>1. 0 \in A
  <2> DEFINE h == [k \in 0 .. 0 |-> base]
  <2>1. h \in [0 .. 0 -> T] /\ h[0] = base /\ 1 .. 0 = {}
    OBVIOUS
  <2> HIDE DEF h
  <2>2. Upto(h, 0)
    BY <2>1
  <2>3. \E f \in [0 .. 0 -> T] : Upto(f, 0)
    BY <2>1, <2>2
  <2> HIDE DEF Upto
  <2> QED BY <2>3
<1>2. ASSUME NEW m \in Nat, m \in A PROVE m + 1 \in A
  <2> SUFFICES ASSUME m + 1 <= n PROVE \E f \in [0 .. m + 1 -> T] : Upto(f, m + 1)
    OBVIOUS
  <2>1. PICK f \in [0 .. m -> T] : Upto(f, m)
    BY <1>2
  <2> DEFINE last == g[<<m + 1, f[m]>>]
             h == [k \in 0 .. m + 1 |-> IF k = m + 1 THEN last ELSE f[k]]
  <2>2. <<m + 1, f[m]>> \in (1 .. n) \X T
    OBVIOUS
  <2>3. last \in T
    BY <2>2
  <2>4. h \in [0 .. m + 1 -> T]
    BY <2>3
  <2>5. h[0] = base
    BY <2>1
  <2>6. ASSUME NEW k \in 1 .. m + 1 PROVE h[k] = g[<<k, h[k - 1]>>]
    <3>1. h[k - 1] = f[k - 1]
      OBVIOUS
    <3>2. CASE k = m + 1
      <4>1. k - 1 = m /\ h[k] = last
        BY <3>2
      <4> HIDE DEF h
      <4> QED BY <3>1, <3>2, <4>1
    <3>3. CASE k # m + 1
      <4>1. k \in 1 .. m /\ h[k] = f[k]
        BY <3>3
      <4>2. f[k] = g[<<k, f[k - 1]>>]
        BY <2>1, <4>1
      <4> HIDE DEF h
      <4> QED BY <3>1, <4>1, <4>2
    <3> QED BY <3>2, <3>3
  <2> QED BY <2>4, <2>5, <2>6
<1>3. n \in A
  <2> HIDE DEF A
  <2> QED BY <1>1, <1>2, SetInduction
<1> QED BY <1>3 DEF IsRecursion

(* Picking from a sequence, one place after the other. *)
IsPicking(f, S, q, I) ==
  /\ f \in [0 .. Len(q) -> Seq(S)]
  /\ f[0] = <<>> /\ At(q, I) = f[Len(q)]
  /\ \A k \in 1 .. Len(q) : f[k] = IF k \in I THEN Append(f[k - 1], q[k]) ELSE f[k - 1]

LEMMA AtSteps ==
  ASSUME NEW S, NEW q \in Seq(S), NEW I
  PROVE  \E f : IsPicking(f, S, q, I)
<1> DEFINE n == Len(q)
           g == [x \in (1 .. n) \X Seq(S) |->
                   IF x[1] \in I THEN Append(x[2], q[x[1]]) ELSE x[2]]
           Body(f, k) == IF k = 0 THEN <<>>
                         ELSE IF k \in I THEN Append(f[k - 1], q[k]) ELSE f[k - 1]
           Is(f) == f = [k \in 0 .. n |-> Body(f, k)]
<1>1. n \in Nat /\ g \in [(1 .. n) \X Seq(S) -> Seq(S)] /\ <<>> \in Seq(S)
  OBVIOUS
<1>2. PICK e \in [0 .. n -> Seq(S)] :
        e[0] = <<>> /\ \A k \in 1 .. n : e[k] = g[<<k, e[k - 1]>>]
  <2> DEFINE T == Seq(S)
             base == <<>>
  <2>1. base \in T /\ n \in Nat /\ g \in [(1 .. n) \X T -> T]
    BY <1>1
  <2> HIDE DEF g, n, T, base
  <2>2. \E e : IsRecursion(e, n, T, base, g)
    BY <2>1, RecursionExists
  <2> QED BY <2>2 DEF T, base, IsRecursion
<1>3. Is(e)
  <2>1. ASSUME NEW k \in 0 .. n PROVE e[k] = Body(e, k)
    <3>1. CASE k = 0
      BY <1>2, <3>1
    <3>2. CASE k # 0
      <4>1. k \in 1 .. n /\ k - 1 \in 0 .. n /\ <<k, e[k - 1]>> \in (1 .. n) \X Seq(S)
        BY <1>2, <3>2
      <4>2. e[k] = g[<<k, e[k - 1]>>]
        BY <1>2, <4>1
      <4> QED BY <3>2, <4>1, <4>2
    <3> QED BY <3>1, <3>2
  <2>2. e = [k \in 0 .. n |-> e[k]]
    BY <1>2
  <2> HIDE DEF Body
  <2>3. [k \in 0 .. n |-> e[k]] = [k \in 0 .. n |-> Body(e, k)]
    BY <2>1
  <2> QED BY <2>2, <2>3
<1> DEFINE F == CHOOSE f : Is(f)
           A == {m \in Nat : m <= n => F[m] \in Seq(S)}
<1>4. Is(F)
  <2> HIDE DEF Is
  <2> QED BY <1>3
<1>5. \A k \in 0 .. n : F[k] = Body(F, k)
  <2> HIDE DEF F, Body
  <2> QED BY <1>4
<1>6. F[0] = <<>> /\ 0 \in A
  <2>1. F[0] = <<>>
    <3> HIDE DEF F
    <3> QED BY <1>1, <1>5
  <2> HIDE DEF F
  <2> QED BY <1>1, <2>1
<1>7. ASSUME NEW m \in Nat, m \in A PROVE m + 1 \in A
  <2> HIDE DEF F
  <2> SUFFICES ASSUME m + 1 <= n PROVE F[m + 1] \in Seq(S)
    OBVIOUS
  <2>1. F[m] \in Seq(S) /\ q[m + 1] \in S
    BY <1>7
  <2>2. F[m + 1] = IF m + 1 \in I THEN Append(F[m], q[m + 1]) ELSE F[m]
    BY <1>5
  <2> QED BY <2>1, <2>2
<1>8. \A m \in Nat : m \in A
  <2> HIDE DEF A
  <2> QED BY <1>1, <1>6, <1>7, SetInduction
<1>9. At(q, I) = F[n]
  BY DEF At
<1>10. F \in [0 .. n -> Seq(S)]
  <2>1. ASSUME NEW k \in 0 .. n PROVE F[k] \in Seq(S)
    <3>1. k \in A
      <4> HIDE DEF A
      <4> QED BY <1>1, <1>8
    <3> HIDE DEF F
    <3> QED BY <1>1, <3>1
  <2> HIDE DEF F, Body
  <2> QED BY <1>4, <2>1
<1>11. \A k \in 1 .. n : F[k] = IF k \in I THEN Append(F[k - 1], q[k]) ELSE F[k - 1]
  <2> HIDE DEF F
  <2> QED BY <1>1, <1>5
<1> HIDE DEF F
<1>12. IsPicking(F, S, q, I)
  BY <1>6, <1>9, <1>10, <1>11 DEF IsPicking
<1> QED BY <1>12

LEMMA AtType ==
  ASSUME NEW S, NEW q \in Seq(S), NEW I
  PROVE  At(q, I) \in Seq(S)
<1>1. Len(q) \in 0 .. Len(q)
  OBVIOUS
<1>2. PICK f : IsPicking(f, S, q, I)
  BY AtSteps
<1> QED BY <1>1, <1>2 DEF IsPicking

LEMMA RangeAppend ==
  ASSUME NEW S, NEW q \in Seq(S), NEW x \in S
  PROVE  ToSet(Append(q, x)) = ToSet(q) \cup {x}
<1>1. /\ DOMAIN Append(q, x) = 1 .. Len(q) + 1 /\ DOMAIN q = 1 .. Len(q) /\ Len(q) \in Nat
      /\ \A k \in 1 .. Len(q) : Append(q, x)[k] = q[k]
      /\ Append(q, x)[Len(q) + 1] = x
  OBVIOUS
<1> DEFINE p == Append(q, x)
<1> HIDE DEF p
<1>2. \A y : y \in ToSet(p) <=> \E k \in 1 .. Len(q) + 1 : y = p[k]
  BY <1>1 DEF ToSet, p
<1>3. \A y : y \in ToSet(q) <=> \E k \in 1 .. Len(q) : y = q[k]
  BY <1>1 DEF ToSet
<1>4. ToSet(p) = ToSet(q) \cup {x}
  <2>1. /\ \A k \in 1 .. Len(q) : p[k] = q[k]
        /\ p[Len(q) + 1] = x /\ Len(q) \in Nat
    BY <1>1 DEF p
  <2>2. ASSUME NEW y \in ToSet(p) PROVE y \in ToSet(q) \cup {x}
    BY <1>2, <1>3, <2>1
  <2>3. ASSUME NEW y \in ToSet(q) PROVE y \in ToSet(p)
    <3>1. PICK k \in 1 .. Len(q) : y = q[k]
      BY <1>3
    <3>2. k \in 1 .. Len(q) + 1 /\ y = p[k]
      BY <2>1, <3>1
    <3> QED BY <1>2, <3>2
  <2>4. x \in ToSet(p)
    <3>1. Len(q) + 1 \in 1 .. Len(q) + 1
      BY <2>1
    <3> QED BY <1>2, <2>1, <3>1
  <2> QED BY <2>2, <2>3, <2>4
<1> QED BY <1>4 DEF p

(* What is picked are the elements at the places, and what is not picked   *)
(* there is picked elsewhere.                                              *)
LEMMA AtElements ==
  ASSUME NEW S, NEW q \in Seq(S), NEW I
  PROVE  /\ ToSet(At(q, I)) = {q[k] : k \in I \cap (1 .. Len(q))}
         /\ Len(At(q, I)) + Len(At(q, DOMAIN q \ I)) = Len(q)
<1> DEFINE n == Len(q)
<1>1. n \in Nat /\ DOMAIN q = 1 .. n
  OBVIOUS
<1>2. PICK f : IsPicking(f, S, q, I)
  BY AtSteps
<1>3. PICK h : IsPicking(h, S, q, DOMAIN q \ I)
  BY AtSteps
<1>4. /\ f \in [0 .. n -> Seq(S)] /\ f[0] = <<>> /\ At(q, I) = f[n]
      /\ \A k \in 1 .. n : f[k] = IF k \in I THEN Append(f[k - 1], q[k]) ELSE f[k - 1]
  BY <1>2 DEF IsPicking
<1>5. /\ h \in [0 .. n -> Seq(S)] /\ h[0] = <<>> /\ At(q, DOMAIN q \ I) = h[n]
      /\ \A k \in 1 .. n :
           h[k] = IF k \in DOMAIN q \ I THEN Append(h[k - 1], q[k]) ELSE h[k - 1]
  BY <1>3 DEF IsPicking
<1> DEFINE P(m) == /\ ToSet(f[m]) = {q[k] : k \in I \cap (1 .. m)}
                   /\ Len(f[m]) + Len(h[m]) = m
           A == {m \in Nat : m <= n => P(m)}
<1>6. 0 \in A
  <2>1. ToSet(f[0]) = {} /\ I \cap (1 .. 0) = {} /\ Len(<<>>) = 0
    BY <1>4 DEF ToSet
  <2>2. P(0)
    BY <1>4, <1>5, <2>1
  <2> HIDE DEF P
  <2> QED BY <2>2
<1>7. ASSUME NEW m \in Nat, m \in A PROVE m + 1 \in A
  <2> DEFINE j == m + 1
  <2> SUFFICES ASSUME j <= n PROVE P(j)
    <3> HIDE DEF P
    <3> QED OBVIOUS
  <2>1. P(m)
    <3> HIDE DEF P
    <3> QED BY <1>1, <1>7
  <2>2. /\ j \in 1 .. n /\ j - 1 = m /\ j \in DOMAIN q /\ 1 .. j = (1 .. m) \cup {j}
        /\ m \in 0 .. n /\ q[j] \in S /\ j = m + 1
    BY <1>1
  <2> HIDE DEF j
  <2>3. f[m] \in Seq(S) /\ h[m] \in Seq(S) /\ Len(f[m]) \in Nat /\ Len(h[m]) \in Nat
    <3>1. f[m] \in Seq(S) /\ h[m] \in Seq(S)
      BY <1>4, <1>5, <2>2
    <3> QED BY <3>1
  <2>4. Len(f[m]) + Len(h[m]) = m
    BY <2>1
  <2>5. Len(f[m]) \in Nat /\ Len(h[m]) \in Nat
    BY <2>3
  <2>6. /\ (Len(f[m]) + 1) + Len(h[m]) = j
        /\ Len(f[m]) + (Len(h[m]) + 1) = j
    <3>1. \A a, b, c \in Nat : a + b = c => (a + 1) + b = c + 1 /\ a + (b + 1) = c + 1
      OBVIOUS
    <3>2. j = m + 1
      BY <2>2
    <3> DEFINE a == Len(f[m])
               b == Len(h[m])
    <3>3. a \in Nat /\ b \in Nat /\ a + b = m
      BY <2>4, <2>5
    <3>4. (a + 1) + b = m + 1 /\ a + (b + 1) = m + 1
      <4> HIDE DEF a, b
      <4> QED BY <3>1, <3>3
    <3> QED BY <3>2, <3>4
  <2>7. CASE j \in I
    <3>1. f[j] = Append(f[m], q[j]) /\ h[j] = h[m]
      BY <1>4, <1>5, <2>2, <2>7
    <3>2. ToSet(f[j]) = ToSet(f[m]) \cup {q[j]}
      BY <2>2, <2>3, <3>1, RangeAppend
    <3>3. Len(f[j]) = Len(f[m]) + 1
      BY <2>2, <2>3, <3>1
    <3>4. I \cap (1 .. j) = (I \cap (1 .. m)) \cup {j}
      BY <2>2, <2>7
    <3>5. Len(f[j]) + Len(h[j]) = j
      <4>1. Len(h[j]) = Len(h[m])
        BY <3>1
      <4> QED BY <2>6, <3>3, <4>1
    <3> QED BY <2>1, <3>2, <3>4, <3>5
  <2>8. CASE j \notin I
    <3>1. f[j] = f[m] /\ h[j] = Append(h[m], q[j])
      BY <1>4, <1>5, <2>2, <2>8
    <3>2. Len(h[j]) = Len(h[m]) + 1
      BY <2>2, <2>3, <3>1
    <3>3. I \cap (1 .. j) = I \cap (1 .. m)
      BY <2>2, <2>8
    <3>4. Len(f[j]) + Len(h[j]) = j
      <4>1. Len(f[j]) = Len(f[m])
        BY <3>1
      <4> QED BY <2>6, <3>2, <4>1
    <3> QED BY <2>1, <3>1, <3>3, <3>4
  <2> QED BY <2>7, <2>8
<1>8. n \in A
  <2> HIDE DEF A
  <2> QED BY <1>1, <1>6, <1>7, SetInduction
<1> QED BY <1>4, <1>5, <1>8

(* Sequences that are joined are joined one after the other. *)
LEMMA FlattenSteps ==
  ASSUME NEW S, NEW ss \in Seq(Seq(S))
  PROVE  /\ FlattenSeq(SubSeq(ss, 1, 0)) = <<>>
         /\ \A k \in 1 .. Len(ss) : /\ FlattenSeq(SubSeq(ss, 1, k - 1)) \in Seq(S)
                                    /\ FlattenSeq(SubSeq(ss, 1, k)) =
                                         FlattenSeq(SubSeq(ss, 1, k - 1)) \o ss[k]
<1> DEFINE n == Len(ss)
           T == Seq(S)
           base == <<>>
           g == [x \in (1 .. n) \X T |-> x[2] \o ss[x[1]]]
<1>1. n \in Nat /\ base \in T /\ g \in [(1 .. n) \X T -> T]
  <2>1. \A x \in (1 .. n) \X T : x[2] \in Seq(S) /\ ss[x[1]] \in Seq(S)
    OBVIOUS
  <2>2. \A x \in (1 .. n) \X T : x[2] \o ss[x[1]] \in T
    BY <2>1
  <2> QED BY <2>2
<1>2. PICK f : IsRecursion(f, n, T, base, g)
  <2> HIDE DEF n, T, base, g
  <2> QED BY <1>1, RecursionExists
<1>3. /\ f \in [0 .. n -> T] /\ f[0] = <<>>
      /\ \A k \in 1 .. n : f[k] = f[k - 1] \o ss[k]
  <2>1. f \in [0 .. n -> T] /\ f[0] = <<>>
    BY <1>2 DEF IsRecursion
  <2>2. ASSUME NEW k \in 1 .. n PROVE f[k] = f[k - 1] \o ss[k]
    <3>0. k - 1 \in 0 .. n
      BY <1>1
    <3>1. <<k, f[k - 1]>> \in (1 .. n) \X T
      <4> HIDE DEF n
      <4> QED BY <2>1, <3>0
    <3>2. f[k] = g[<<k, f[k - 1]>>]
      BY <1>2 DEF IsRecursion
    <3> QED BY <3>1, <3>2
  <2> QED BY <2>1, <2>2
<1>4. FlattenSeq(SubSeq(ss, 1, 0)) = f[0]
  <2>1. SubSeq(ss, 1, 0) = <<>> /\ Len(<<>>) = 0
    OBVIOUS
  <2>2. FlattenSeq(<<>>) = <<>>
    BY <2>1 DEF FlattenSeq
  <2> QED BY <1>3, <2>1, <2>2
<1>5. ASSUME NEW k \in 1 .. n PROVE FlattenSeq(SubSeq(ss, 1, k)) = f[k]
  <2> DEFINE tt == SubSeq(ss, 1, k)
             Body(h, j) == IF j = 1 THEN tt[j] ELSE h[j - 1] \o tt[j]
             Is(h) == h = [j \in 1 .. Len(tt) |-> Body(h, j)]
             F == CHOOSE h : Is(h)
             A == {m \in Nat : m + 1 <= k => F[m + 1] = f[m + 1]}
             e == [j \in 1 .. Len(tt) |-> f[j]]
  <2>1. Len(tt) = k /\ k \in Nat /\ k <= n /\ \A j \in 1 .. k : tt[j] = ss[j] /\ ss[j] \in Seq(S)
    OBVIOUS
  <2>0. f[1] = ss[1]
    <3>1. 1 \in 1 .. n /\ 1 \in 1 .. k /\ 1 - 1 = 0
      BY <2>1
    <3>2. f[1] = f[1 - 1] \o ss[1]
      BY <1>3, <3>1
    <3>3. ss[1] \in Seq(S)
      BY <2>1, <3>1
    <3>4. <<>> \o ss[1] = ss[1]
      BY <3>3
    <3> QED BY <1>3, <3>1, <3>2, <3>4
  <2>2. Is(e)
    <3> HIDE DEF tt
    <3>1. ASSUME NEW j \in 1 .. k PROVE e[j] = Body(e, j)
      <4>1. CASE j = 1
        BY <2>1, <2>0, <4>1
      <4>2. CASE j # 1
        <5>1. j - 1 \in 1 .. k /\ j \in 1 .. n
          BY <2>1, <4>2
        <5>2. e[j - 1] = f[j - 1] /\ e[j] = f[j] /\ tt[j] = ss[j]
          BY <2>1, <5>1
        <5>3. f[j] = f[j - 1] \o ss[j]
          BY <1>3, <5>1
        <5> HIDE DEF e
        <5> QED BY <4>2, <5>2, <5>3
      <4> QED BY <4>1, <4>2
    <3> HIDE DEF Body
    <3>2. [j \in 1 .. k |-> e[j]] = [j \in 1 .. k |-> Body(e, j)]
      BY <3>1
    <3>3. e = [j \in 1 .. k |-> e[j]]
      BY <2>1
    <3> QED BY <2>1, <3>2, <3>3
  <2>3. Is(F)
    <3> HIDE DEF Is
    <3> QED BY <2>2
  <2>4. \A j \in 1 .. k : F[j] = Body(F, j)
    <3> HIDE DEF F, Body, tt
    <3> QED BY <2>1, <2>3
  <2>5. F[1] = f[1]
    <3>1. F[1] = ss[1]
      <4> HIDE DEF F
      <4> QED BY <2>1, <2>4
    <3> QED BY <2>0, <3>1
  <2>6. 0 \in A
    <3> HIDE DEF F
    <3> QED BY <2>5
  <2>7. ASSUME NEW m \in Nat, m \in A PROVE m + 1 \in A
    <3> HIDE DEF F, tt
    <3> SUFFICES ASSUME m + 2 <= k PROVE F[m + 2] = f[m + 2]
      OBVIOUS
    <3>1. F[m + 1] = f[m + 1]
      BY <2>7
    <3> DEFINE j == m + 2
    <3>2. j \in 1 .. k /\ j \in 1 .. n /\ j - 1 = m + 1 /\ j # 1
      BY <2>1
    <3> HIDE DEF j
    <3>3. F[j] = F[j - 1] \o ss[j]
      <4>1. F[j] = Body(F, j)
        <5> HIDE DEF Body
        <5> QED BY <2>4, <3>2
      <4> QED BY <2>1, <3>2, <4>1
    <3>4. f[j] = f[j - 1] \o ss[j]
      BY <1>3, <3>2
    <3> QED BY <3>1, <3>2, <3>3, <3>4 DEF j
  <2>8. k - 1 \in A
    <3>1. k - 1 \in Nat
      OBVIOUS
    <3> HIDE DEF A
    <3> QED BY <2>6, <2>7, <3>1, SetInduction
  <2>9. F[k] = f[k]
    <3> HIDE DEF F
    <3> QED BY <2>8
  <2>10. FlattenSeq(tt) = F[k]
    <3>1. FlattenSeq(tt) = F[Len(tt)]
      <4>1. Len(tt) # 0
        BY <2>1
      <4> HIDE DEF tt
      <4> QED BY <4>1 DEF FlattenSeq
    <3> HIDE DEF tt, F
    <3> QED BY <2>1, <3>1
  <2> QED BY <2>9, <2>10
<1>6. ASSUME NEW k \in 0 .. n PROVE FlattenSeq(SubSeq(ss, 1, k)) = f[k]
  BY <1>4, <1>5
<1>7. ASSUME NEW k \in 1 .. n
      PROVE  /\ FlattenSeq(SubSeq(ss, 1, k - 1)) \in Seq(S)
             /\ FlattenSeq(SubSeq(ss, 1, k)) = FlattenSeq(SubSeq(ss, 1, k - 1)) \o ss[k]
  <2>1. k \in 0 .. n /\ k - 1 \in 0 .. n
    OBVIOUS
  <2>2. FlattenSeq(SubSeq(ss, 1, k - 1)) = f[k - 1] /\ FlattenSeq(SubSeq(ss, 1, k)) = f[k]
    BY <1>6, <2>1
  <2>3. f[k - 1] \in Seq(S)
    BY <1>3, <2>1
  <2> QED BY <1>3, <2>2, <2>3
<1> QED BY <1>3, <1>4, <1>7

(* The suites hold test cases, positive ones first. *)
LEMMA OrderedType ==
  ASSUME NEW f \in SuiteFile
  PROVE  Ordered(f) \in Seq(TestCase)
<1> DEFINE pos == {k \in DOMAIN f.cases : f.cases[k].expect}
<1>1. f.cases \in Seq(TestCase)
  BY DEF SuiteFile
<1>2. At(f.cases, pos) \in Seq(TestCase) /\ At(f.cases, DOMAIN f.cases \ pos) \in Seq(TestCase)
  <2> HIDE DEF pos
  <2> QED BY <1>1, AtType
<1>3. Ordered(f) = At(f.cases, pos) \o At(f.cases, DOMAIN f.cases \ pos)
  BY DEF Ordered
<1> HIDE DEF pos
<1> QED BY <1>2, <1>3

LEMMA DBType ==
  /\ IsFiniteSet(DOMAIN DB) /\ Base \in DOMAIN DB /\ Extra \subseteq DOMAIN DB
  /\ \A n \in DOMAIN DB : DB[n].files \subseteq FileKinds
<1>1. IsFiniteSet(DOMAIN DB) /\ Base \in DOMAIN DB /\ Extra \subseteq DOMAIN DB
  BY PipelineAssumption
<1>2. ASSUME NEW n \in DOMAIN DB PROVE DB[n].files \subseteq FileKinds
  <2>1. DB[n] \in Package
    BY PipelineAssumption
  <2> QED BY <2>1 DEF Package
<1> QED BY <1>1, <1>2

LEMMA FileKindsFinite == IsFiniteSet(FileKinds)
<1> DEFINE q == <<"man", "info", "doc", "badman", "mandb", "sbom", "spdx",
                  "static", "header", "debug", "tool", "other">>
<1>1. q \in [1 .. 12 -> FileKinds]
  BY DEF FileKinds
<1>2. /\ q[1] = "man" /\ q[2] = "info" /\ q[3] = "doc" /\ q[4] = "badman"
      /\ q[5] = "mandb" /\ q[6] = "sbom" /\ q[7] = "spdx" /\ q[8] = "static"
      /\ q[9] = "header" /\ q[10] = "debug" /\ q[11] = "tool" /\ q[12] = "other"
  OBVIOUS
<1>3. \A t \in FileKinds : \E k \in 1 .. 12 : q[k] = t
  <2> HIDE DEF q
  <2> QED BY <1>2 DEF FileKinds
<1>4. ExistsSurjection(1 .. 12, FileKinds)
  <2> HIDE DEF q
  <2> QED BY <1>1, <1>3 DEF ExistsSurjection, Surjection
<1> QED BY <1>4, FS_NatSurjection

(* What counting the installed files tells: a package that is added brings *)
(* none exactly if the number stays.                                       *)
LEMMA CountTells ==
  ASSUME NEW e \in SUBSET DOMAIN DB, NEW m \in DOMAIN DB
  PROVE  /\ TotalApkCount(e) \in Nat /\ TotalApkCount(e \cup {m}) \in Nat
         /\ TotalApkCount(e) <= TotalApkCount(e \cup {m})
         /\ TotalApkCount(e) = TotalApkCount(e \cup {m}) => m \in e \/ DB[m].files = {}
<1> DEFINE Lines(d) == {line \in d \X FileKinds : line[2] \in DB[line[1]].files}
           names == DOMAIN DB
           all == names \X FileKinds
<1>0. e \subseteq names /\ m \in names
  OBVIOUS
<1> HIDE DEF names
<1>1. IsFiniteSet(all)
  <2>1. IsFiniteSet(DOMAIN DB) /\ IsFiniteSet(FileKinds)
    BY DBType, FileKindsFinite
  <2>2. IsFiniteSet(names)
    BY <2>1 DEF names
  <2> QED BY <2>1, <2>2, FS_Product
<1>2. /\ Lines(e) \in SUBSET Lines(e \cup {m})
      /\ Lines(e) \in SUBSET all /\ Lines(e \cup {m}) \in SUBSET all
  <2>1. /\ \A line \in e \X FileKinds : line \in (e \cup {m}) \X FileKinds
        /\ \A line \in (e \cup {m}) \X FileKinds : line \in all
    BY <1>0
  <2>2. \A d : Lines(d) \subseteq d \X FileKinds
    BY Zenon
  <2>3. \A d, line : line \in Lines(d) <=> line \in d \X FileKinds /\ line[2] \in DB[line[1]].files
    BY Zenon
  <2> HIDE DEF Lines, all
  <2> QED BY <2>1, <2>2, <2>3
<1>3. Lines(e) = Lines(e \cup {m}) => m \in e \/ DB[m].files = {}
  <2> SUFFICES ASSUME Lines(e) = Lines(e \cup {m}), NEW f \in DB[m].files PROVE m \in e
    OBVIOUS
  <2>1. <<m, f>> \in (e \cup {m}) \X FileKinds
    BY DBType
  <2>2. <<m, f>> \in Lines(e \cup {m})
    BY <2>1
  <2> QED BY <2>2
<1>4. TotalApkCount(e) = Cardinality(Lines(e))
      /\ TotalApkCount(e \cup {m}) = Cardinality(Lines(e \cup {m}))
  BY DEF TotalApkCount
<1> HIDE DEF Lines, all
<1>5. IsFiniteSet(Lines(e)) /\ IsFiniteSet(Lines(e \cup {m}))
  BY <1>1, <1>2, FS_Subset
<1>6. /\ Cardinality(Lines(e)) \in Nat /\ Cardinality(Lines(e \cup {m})) \in Nat
      /\ Cardinality(Lines(e)) <= Cardinality(Lines(e \cup {m}))
      /\ Cardinality(Lines(e)) = Cardinality(Lines(e \cup {m})) => Lines(e) = Lines(e \cup {m})
  BY <1>2, <1>5, FS_Subset, FS_CardinalityType
<1> QED BY <1>3, <1>4, <1>6
-----------------------------------------------------------------------------
(* A step of melange leaves the runner where it is, or ends with a verdict. *)

LEMMA HereFacts ==
  ASSUME TypeInv, PlaceInv, pc \in InSuite
  PROVE  /\ s \in 1 .. Len(suites) /\ suites[s] \in SuiteFile /\ suites[s].name \in STRING
         /\ Ordered(suites[s]) \in Seq(TestCase)
         /\ i <= Len(Ordered(suites[s])) => Case \in TestCase
<1>1. suites \in Seq(SuiteFile) /\ s \in 1 .. Len(suites) + 1 /\ s <= Len(suites) /\ i \in Nat /\ i >= 1
  BY DEF TypeInv, TypeOK, PlaceInv
<1>2. s \in 1 .. Len(suites) /\ suites[s] \in SuiteFile
  BY <1>1
<1>3. Ordered(suites[s]) \in Seq(TestCase)
  BY <1>2, OrderedType
<1>4. i <= Len(Ordered(suites[s])) => Case \in TestCase
  BY <1>1, <1>3 DEF Case
<1>5. suites[s].name \in STRING
  BY <1>2 DEF SuiteFile
<1> QED BY <1>2, <1>3, <1>4, <1>5

LEMMA CaseFacts ==
  ASSUME TypeInv, PlaceInv, pc \in InCase
  PROVE  /\ Case \in TestCase /\ Config = Case /\ ~generateOnly
         /\ Case.expect \in BOOLEAN /\ Case.steps \in Seq(CheckStep) /\ Case.package \in STRING
         /\ env \subseteq DOMAIN DB /\ step \in Nat /\ step >= 1 /\ count \in Nat
         /\ vp \in Nat /\ vp >= 1 /\ blurred \in BOOLEAN /\ faults \in 0 .. MaxFaults
<1>1. pc \in InSuite
  BY DEF InSuite
<1>2. i <= Len(Ordered(suites[s])) /\ Config = Case /\ ~generateOnly
  BY DEF PlaceInv
<1>3. Case \in TestCase
  BY <1>1, <1>2, HereFacts
<1>4. Case.expect \in BOOLEAN /\ Case.steps \in Seq(CheckStep) /\ Case.package \in STRING
  BY <1>3 DEF TestCase
<1> QED BY <1>2, <1>3, <1>4 DEF TypeInv, TypeOK

LEMMA FaultType ==
  ASSUME faults \in 0 .. MaxFaults, Fault
  PROVE  faults' \in 0 .. MaxFaults /\ faults' > 0
BY PipelineAssumption DEF Fault

LEMMA AddedType ==
  ASSUME NEW e \in SUBSET DOMAIN DB, NEW n, NEW d \in Added(e, n)
  PROVE  /\ d \subseteq DOMAIN DB /\ e \subseteq d
         /\ d = e \/ \E m \in Candidates(n) : d = e \cup {m}
BY DEF Added, Candidates

LEMMA EnvironmentsType ==
  ASSUME NEW c, NEW e \in Environments(c)
  PROVE  /\ e \subseteq DOMAIN DB /\ \A n \in e : \E k \in Asked(c) : n \in Candidates(k)
         /\ c.package \in DOMAIN DB => c.package \in e
<1>1. PICK f \in [Asked(c) -> DOMAIN DB] :
        (\A n \in Asked(c) : f[n] \in Candidates(n)) /\ e = Range(f)
  BY DEF Environments
<1>2. c.package \in Asked(c)
  BY DEF Asked
<1>3. e = {f[k] : k \in Asked(c)}
  BY <1>1 DEF Range
<1>4. c.package \in DOMAIN DB => f[c.package] = c.package
  BY <1>1, <1>2 DEF Candidates
<1> QED BY <1>1, <1>2, <1>3, <1>4

Quiet == pc' \in {"step", "virtual"} /\ UNCHANGED <<input, suites, s, i, out, totals, exit>>

MelangeTypes ==
  /\ env' \subseteq DOMAIN DB /\ step' \in Nat /\ step' >= 1 /\ count' \in Nat
  /\ vp' \in Nat /\ vp' >= 1 /\ blurred' \in BOOLEAN /\ faults' \in 0 .. MaxFaults

LEMMA ProceedForms ==
  ASSUME NEW ok \in BOOLEAN, Proceed(ok), step \in Nat, step >= 1, blurred' \in BOOLEAN
  PROVE  step' \in Nat /\ step' >= 1 /\ (Quiet \/ \E a, f \in BOOLEAN : Judge(a, f))
<1>1. CASE ok
  BY <1>1 DEF Proceed, Quiet
<1>2. CASE ~ok
  <2>1. Judge(FALSE, blurred') /\ step' = step
    BY <1>2 DEF Proceed
  <2> QED BY <2>1, Zenon
<1> QED BY <1>1, <1>2

LEMMA CountIsNat ==
  ASSUME NEW e \in SUBSET DOMAIN DB
  PROVE  TotalApkCount(e) \in Nat
BY DBType, CountTells


LEMMA MelangeForm ==
  ASSUME TypeInv, PlaceInv, Melange
  PROVE  /\ pc \in InCase /\ MelangeTypes
         /\ Quiet \/ \E a, f \in BOOLEAN : Judge(a, f)
<1>1. pc \in InCase
  BY DEF Melange, InCase, BuildEnvironment, MelangeFails, StepsDone, CheckType, CheckContains,
         CommandFails, CheckByProduct, CheckVirtual, TestVirtual, VirtualDone, AtStep
<1>2. /\ Config = Case /\ env \subseteq DOMAIN DB /\ step \in Nat /\ step >= 1
      /\ count \in Nat /\ vp \in Nat /\ vp >= 1 /\ blurred \in BOOLEAN /\ faults \in 0 .. MaxFaults
  BY <1>1, CaseFacts
<1>3. CASE BuildEnvironment
  <2>1. env' \in Environments(Config)
    BY <1>3 DEF BuildEnvironment
  <2>2. env' \subseteq DOMAIN DB
    BY <2>1, EnvironmentsType
  <2>3. MelangeTypes
    <3>1. step' = 1 /\ blurred' = FALSE /\ UNCHANGED <<count, vp, faults>>
      BY <1>3 DEF BuildEnvironment
    <3>2. blurred' \in BOOLEAN
      BY <3>1
    <3>3. step' \in Nat /\ step' >= 1
      BY <3>1
    <3>4. count' \in Nat /\ vp' \in Nat /\ vp' >= 1 /\ faults' \in 0 .. MaxFaults
      BY <1>2, <3>1
    <3> QED BY <2>2, <3>2, <3>3, <3>4 DEF MelangeTypes
  <2>4. Quiet
    BY <1>3 DEF BuildEnvironment, Quiet
  <2> QED BY <1>1, <2>3, <2>4
<1>4. CASE MelangeFails
  <2>1. UNCHANGED melange /\ faults' \in 0 .. MaxFaults
    BY <1>2, <1>4, FaultType DEF MelangeFails
  <2>2. \E a, f \in BOOLEAN : Judge(a, f)
    BY <1>4 DEF MelangeFails
  <2> QED BY <1>1, <1>2, <2>1, <2>2 DEF MelangeTypes, melange
<1>5. CASE StepsDone
  <2>1. UNCHANGED <<melange, faults>> /\ Judge(TRUE, blurred)
    BY <1>5 DEF StepsDone
  <2> QED BY <1>1, <1>2, <2>1 DEF MelangeTypes, melange
<1>6. CASE CheckType
  <2>1. PICK ok \in BOOLEAN : Proceed(ok)
    BY <1>6 DEF CheckType
  <2>2. UNCHANGED <<env, count, vp, blurred, faults>>
    BY <1>6 DEF CheckType
  <2> QED BY <1>1, <1>2, <2>1, <2>2, ProceedForms DEF MelangeTypes
<1>7. CASE CheckContains
  <2>1. PICK ok \in BOOLEAN : Proceed(ok)
    BY <1>7 DEF CheckContains, ContainsFiles
  <2>2. UNCHANGED <<env, count, vp, blurred, faults>>
    BY <1>7 DEF CheckContains
  <2> QED BY <1>1, <1>2, <2>1, <2>2, ProceedForms DEF MelangeTypes
<1>8. CASE CommandFails
  <2>1. UNCHANGED melange /\ faults' \in 0 .. MaxFaults /\ Judge(FALSE, TRUE)
    BY <1>2, <1>8, FaultType DEF CommandFails
  <2> QED BY <1>1, <1>2, <2>1 DEF MelangeTypes, melange
<1>9. CASE CheckByProduct
  <2>1. UNCHANGED <<count, vp>>
    BY <1>9 DEF CheckByProduct
  <2>2. CASE /\ env' \in Added(env, Config.package) /\ UNCHANGED <<blurred, faults>>
             /\ Proceed(~Listed(env', Config.package))
    <3>1. env' \subseteq DOMAIN DB
      BY <1>2, <2>2, AddedType
    <3>2. PICK ok \in BOOLEAN : Proceed(ok)
      BY <2>2
    <3> QED BY <1>1, <1>2, <2>1, <2>2, <3>1, <3>2, ProceedForms DEF MelangeTypes
  <2>3. CASE Fault /\ blurred' = TRUE /\ UNCHANGED env /\ Proceed(TRUE)
    BY <1>1, <1>2, <2>1, <2>3, FaultType, ProceedForms DEF MelangeTypes
  <2> QED BY <1>9, <2>2, <2>3 DEF CheckByProduct
<1>10. CASE CheckVirtual
  <2>1. CASE Provides(Current.names)
    <3>1. PICK n \in {0, TotalApkCount(env)} : Counted(env, n) /\ count' = n
      BY <1>10, <2>1 DEF CheckVirtual
    <3>2. /\ vp' = 1 /\ pc' = "virtual"
          /\ UNCHANGED <<input, suites, s, i, out, env, step, totals, exit>>
      BY <1>10, <2>1 DEF CheckVirtual
    <3>3. n \in Nat
      BY <1>2, CountIsNat
    <3>4. blurred' \in BOOLEAN /\ faults' \in 0 .. MaxFaults
      BY <1>2, <3>1, FaultType DEF Counted
    <3> QED BY <1>1, <1>2, <3>1, <3>2, <3>3, <3>4 DEF MelangeTypes, Quiet
  <2>2. CASE ~Provides(Current.names)
    <3>1. Proceed(FALSE) /\ UNCHANGED <<env, count, vp, blurred, faults>>
      BY <1>10, <2>2 DEF CheckVirtual
    <3> QED BY <1>1, <1>2, <3>1, ProceedForms DEF MelangeTypes
  <2> QED BY <2>1, <2>2
<1>11. CASE TestVirtual
  <2>1. PICK n \in {0, TotalApkCount(env')} :
          /\ Counted(env', n)
          /\ IF n > count THEN Judge(FALSE, blurred') /\ UNCHANGED vp
             ELSE vp' = vp + 1 /\ UNCHANGED <<input, pc, suites, s, i, out, totals, exit>>
    BY <1>11 DEF TestVirtual
  <2>2. env' \in Added(env, Current.names[vp]) /\ UNCHANGED <<step, count>> /\ pc = "virtual"
    BY <1>11 DEF TestVirtual
  <2>3. env' \subseteq DOMAIN DB
    BY <1>2, <2>2, AddedType
  <2>4. blurred' \in BOOLEAN /\ faults' \in 0 .. MaxFaults
    BY <1>2, <2>1, FaultType DEF Counted
  <2>5. CASE n > count
    <3>1. Judge(FALSE, blurred') /\ vp' = vp
      BY <2>1, <2>5
    <3>2. \E a, f \in BOOLEAN : Judge(a, f)
      BY <2>4, <3>1, Zenon
    <3> QED BY <1>1, <1>2, <2>2, <2>3, <2>4, <3>1, <3>2 DEF MelangeTypes
  <2>6. CASE ~(n > count)
    BY <1>1, <1>2, <2>1, <2>2, <2>3, <2>4, <2>6 DEF MelangeTypes, Quiet
  <2> QED BY <2>5, <2>6
<1>12. CASE VirtualDone
  <2>1. Proceed(TRUE) /\ UNCHANGED <<env, count, vp, blurred, faults>>
    BY <1>12 DEF VirtualDone
  <2> QED BY <1>1, <1>2, <2>1, ProceedForms DEF MelangeTypes
<1> QED BY <1>3, <1>4, <1>5, <1>6, <1>7, <1>8, <1>9, <1>10, <1>11, <1>12 DEF Melange
-----------------------------------------------------------------------------
(* What a check says is right, if the environment is as it should be and   *)
(* no command failed.                                                      *)

LEMMA CurrentFacts ==
  ASSUME TypeInv, PlaceInv, pc \in InCase, step <= Len(Config.steps)
  PROVE  /\ Current = Case.steps[step] /\ Current \in CheckStep
         /\ Current \in ToSet(Case.steps)
<1>1. Config = Case /\ Case.steps \in Seq(CheckStep) /\ step \in Nat /\ step >= 1
  BY CaseFacts
<1>2. step \in DOMAIN Case.steps
  BY <1>1
<1> QED BY <1>1, <1>2 DEF Current, ToSet

(* Whether a package is of a type. *)
LEMMA TypeTells ==
  ASSUME TypeInv, PlaceInv, EnvInv, AtStep(Types)
  PROVE  IF Config.package \in env /\ HasType(Current.check, Config.package)
         THEN Met(Current, Case, env) ELSE ~Holds(Current, Case, env)
<1>1. pc \in InCase /\ pc = "step" /\ step <= Len(Config.steps) /\ Current.check \in Types
  BY DEF AtStep, InCase
<1>2. Config = Case /\ env \subseteq DOMAIN DB
  BY <1>1, CaseFacts
<1>3. Case.package \in DOMAIN DB => Case.package \in env
  BY <1>1 DEF EnvInv
<1>4. Current.check # "byproduct" /\ Current.check # "virtual" /\ Current.check # "contains"
  BY <1>1 DEF Types
<1>5. \A e : Holds(Current, Case, e) <=>
               Case.package \in DOMAIN DB /\ HasType(Current.check, Case.package)
  BY <1>4 DEF Holds
<1> QED BY <1>2, <1>3, <1>5 DEF Met

(* Whether the environment has the files. *)
LEMMA ContainsTells ==
  ASSUME TypeInv, PlaceInv, EnvInv, AtStep({"contains"})
  PROVE  IF ContainsFiles(Current.files)
         THEN Met(Current, Case, env) ELSE ~Holds(Current, Case, env)
<1>1. pc \in InCase /\ pc = "step" /\ step <= Len(Config.steps) /\ Current.check = "contains"
  BY DEF AtStep, InCase
<1>2. Config = Case /\ env \subseteq DOMAIN DB /\ Current \in CheckStep
  BY <1>1, CaseFacts, CurrentFacts
<1>3. Case.package \in DOMAIN DB => Case.package \in env
  BY <1>1 DEF EnvInv
<1>4. \A e : Holds(Current, Case, e) <=>
               Case.package \in DOMAIN DB /\ Current.files \subseteq DB[Case.package].files
  BY <1>1 DEF Holds
<1>5. Current.files # {}
  BY <1>1, <1>2 DEF CheckStep
<1>6. ASSUME ContainsFiles(Current.files), ~Holds(Current, Case, {})
      PROVE  FoundElsewhere(Current, Case, env)
  <2>1. PICK x \in Current.files :
          Case.package \in DOMAIN DB => x \notin DB[Case.package].files
    BY <1>4, <1>5, <1>6
  <2>2. PICK n \in env : x \in DB[n].files
    BY <1>6, <2>1 DEF ContainsFiles
  <2>3. n # Case.package
    BY <1>2, <2>1, <2>2
  <2> QED BY <1>1, <2>1, <2>2, <2>3 DEF FoundElsewhere
<1>7. ASSUME Holds(Current, Case, env) PROVE ContainsFiles(Current.files)
  BY <1>3, <1>4, <1>7 DEF ContainsFiles
<1> QED BY <1>6, <1>7 DEF Met

(* Whether nothing bears the name, after it was asked for. *)
LEMMA ByProductTells ==
  ASSUME TypeInv, PlaceInv, EnvInv, AtStep({"byproduct"}), NEW d \in Added(env, Config.package)
  PROVE  /\ d \subseteq DOMAIN DB /\ env \subseteq d
         /\ Case.package \in DOMAIN DB => d = env
         /\ IF Listed(d, Config.package)
            THEN ~Holds(Current, Case, env) \/ Suspected(Current, Case)
            ELSE \A e : Met(Current, Case, e)
<1>1. pc \in InCase /\ pc = "step" /\ step <= Len(Config.steps) /\ Current.check = "byproduct"
  BY DEF AtStep, InCase
<1>2. Config = Case /\ env \subseteq DOMAIN DB
  BY <1>1, CaseFacts
<1>3. Case.package \in DOMAIN DB => Case.package \in env
  BY <1>1 DEF EnvInv
<1>4. /\ d \subseteq DOMAIN DB /\ env \subseteq d
      /\ d = env \/ \E m \in Candidates(Case.package) : d = env \cup {m}
  BY <1>2, AddedType
<1>5. Case.package \in DOMAIN DB => d = env
  BY <1>3, <1>4 DEF Candidates
<1>6. \A e : Holds(Current, Case, e) <=> Case.package \notin DOMAIN DB
  BY <1>1 DEF Holds
<1>7. Case.package \in DOMAIN DB => Listed(d, Config.package)
  BY <1>2, <1>3, <1>5 DEF Listed
<1>8. ASSUME Listed(d, Config.package), Case.package \notin DOMAIN DB
      PROVE  Suspected(Current, Case)
  <2>1. PICK m \in d : m = Case.package \/ <<Case.package, m>> \in Beside
    BY <1>2, <1>8 DEF Listed
  <2> QED BY <1>1, <1>4, <1>8, <2>1 DEF Suspected
<1> QED BY <1>4, <1>5, <1>6, <1>7, <1>8 DEF Met

(* Whether a package provides the names: apk adds nothing new for them. *)
LEMMA VirtualTells ==
  ASSUME TypeInv, PlaceInv, EnvInv, VirtualInv, pc = "virtual", ~blurred,
         NEW d, vp <= Len(Current.names), d \in Added(env, Current.names[vp])
  PROVE  /\ d \subseteq DOMAIN DB /\ env \subseteq d
         /\ IF TotalApkCount(d) > count THEN Suspected(Current, Case)
            ELSE /\ TotalApkCount(d) = count
                 /\ \A m \in d : m \in env \/ DB[m].files = {}
<1>1. pc \in InCase
  BY DEF InCase
<1>2. Config = Case /\ env \subseteq DOMAIN DB /\ step \in Nat /\ vp \in Nat
  BY <1>1, CaseFacts
<1>3. /\ step <= Len(Case.steps) /\ Case.steps[step].check = "virtual"
      /\ Case.package \in env
      /\ ToSet(Case.steps[step].names) \subseteq DB[Case.package].provides
      /\ count = TotalApkCount(env)
  BY DEF VirtualInv
<1>4. Current = Case.steps[step] /\ Current \in CheckStep
  BY <1>1, <1>2, <1>3, CurrentFacts
<1> DEFINE n == Current.names[vp]
<1>5. n \in ToSet(Current.names)
  <2>1. Current.names \in Seq(STRING) /\ vp >= 1
    BY <1>4 DEF CheckStep, TypeInv
  <2> QED BY <1>2, <2>1 DEF ToSet
<1>6. /\ d \subseteq DOMAIN DB /\ env \subseteq d
      /\ d = env \/ \E m \in Candidates(n) : d = env \cup {m}
  BY <1>2, AddedType
<1>7. Candidates(n) \subseteq DOMAIN DB
  BY DEF Candidates
<1>8. n \notin DOMAIN DB => d = env
  BY <1>3, <1>4, <1>5 DEF Added, Satisfied
<1>9. CASE d = env
  <2>1. TotalApkCount(d) = count /\ TotalApkCount(d) \in Nat
    BY <1>2, <1>3, <1>9, CountIsNat
  <2> QED BY <1>6, <1>9, <2>1
<1>10. CASE d # env
  <2>1. PICK m \in DOMAIN DB : d = env \cup {m}
    BY <1>6, <1>7, <1>10
  <2>2. Suspected(Current, Case)
    BY <1>3, <1>4, <1>5, <1>8, <1>10 DEF Suspected
  <2>3. /\ count \in Nat /\ TotalApkCount(d) \in Nat /\ count <= TotalApkCount(d)
        /\ TotalApkCount(d) = count => m \in env \/ DB[m].files = {}
    BY <1>2, <1>3, <2>1, CountTells
  <2> QED BY <1>6, <2>1, <2>2, <2>3
<1> QED BY <1>9, <1>10

LEMMA MetGrows ==
  ASSUME NEW st, NEW c, NEW e, NEW d, e \subseteq d, Met(st, c, e)
  PROVE  Met(st, c, d)
BY DEF Met, FoundElsewhere

Verdict(a, f) == Entry(IF a THEN "accepted" ELSE "rejected", f)
Good == \E a, f \in BOOLEAN : Judge(a, f) /\ (f \/ Right(Verdict(a, f)))

LEMMA RejectedRight ==
  ASSUME NEW st \in ToSet(Case.steps), ~Holds(st, Case, env) \/ Suspected(st, Case)
  PROVE  Right(Verdict(FALSE, FALSE))
<1>1. /\ Verdict(FALSE, FALSE).result = "rejected" /\ Verdict(FALSE, FALSE).case = Case
      /\ Verdict(FALSE, FALSE).env = env
  BY DEF Verdict, Entry
<1> QED BY <1>1 DEF Right

LEMMA SameCase ==
  ASSUME Quiet
  PROVE  Case' = Case
BY DEF Quiet, Case, Ordered, At

(* A check is over. *)
LEMMA ProceedTells ==
  ASSUME TypeInv, PlaceInv, EnvInv, StepInv, pc \in {"step", "virtual"},
         step <= Len(Config.steps), env \subseteq env', blurred' \in BOOLEAN, blurred => blurred',
         Case.package \in DOMAIN DB =>
           Case.package \in env' /\ (blurred' \/ \A n \in env' : Expected(n, Case)),
         NEW ok \in BOOLEAN, Proceed(ok),
         blurred' \/ IF ok THEN Met(Current, Case, env')
                     ELSE ~Holds(Current, Case, env) \/ Suspected(Current, Case)
  PROVE  (Quiet /\ MelangeInv') \/ Good
<1>1. pc \in InCase /\ Current = Case.steps[step] /\ Current \in ToSet(Case.steps)
  BY CurrentFacts DEF InCase
<1>2. step \in Nat
  BY <1>1, CaseFacts
<1>3. CASE ok
  <2>1. pc' = "step" /\ step' = step + 1 /\ Quiet
    BY <1>3 DEF Proceed, Quiet
  <2>2. Case' = Case
    BY <2>1, SameCase
  <2>3. EnvInv'
    BY <2>2 DEF EnvInv, Expected
  <2>4. StepInv'
    <3> SUFFICES ASSUME ~blurred', NEW j \in 1 .. step, j <= Len(Case.steps)
                 PROVE  Met(Case.steps[j], Case, env')
      BY <1>2, <2>1, <2>2 DEF StepInv, Met, FoundElsewhere
    <3>1. CASE j = step
      BY <1>1, <1>3, <3>1
    <3>2. CASE j # step
      <4>1. j \in 1 .. step - 1
        BY <1>2, <3>2
      <4>2. Met(Case.steps[j], Case, env)
        BY <4>1 DEF StepInv
      <4> QED BY <4>2, MetGrows
    <3> QED BY <3>1, <3>2
  <2>5. VirtualInv'
    BY <2>1 DEF VirtualInv
  <2> QED BY <2>1, <2>3, <2>4, <2>5 DEF MelangeInv
<1>4. CASE ~ok
  <2>1. Judge(FALSE, blurred')
    BY <1>4 DEF Proceed
  <2>2. blurred' \/ Right(Verdict(FALSE, FALSE))
    BY <1>1, <1>4, RejectedRight
  <2>3. blurred' \/ Right(Verdict(FALSE, blurred'))
    <3>1. CASE blurred'
      BY <3>1
    <3>2. CASE ~blurred'
      <4>1. blurred' = FALSE
        BY <3>2
      <4> QED BY <2>2, <3>2, <4>1
    <3> QED BY <3>1, <3>2
  <2>4. FALSE \in BOOLEAN
    OBVIOUS
  <2> QED BY <2>1, <2>3, <2>4, Zenon DEF Good
<1> QED BY <1>3, <1>4

LEMMA HoldsThen ==
  ASSUME NEW st, NEW c, NEW e, Holds(st, c, {}),
         c.package \in DOMAIN DB => \A n \in e : Expected(n, c)
  PROVE  Holds(st, c, e)
BY DEF Holds, Expected

LEMMA AcceptedRight ==
  ASSUME TypeInv, PlaceInv, EnvInv, StepInv, pc = "step", step > Len(Config.steps)
  PROVE  blurred \/ Right(Verdict(TRUE, blurred))
<1> SUFFICES ASSUME ~blurred PROVE Right(Verdict(TRUE, blurred))
  OBVIOUS
<1>1. Config = Case /\ Case.steps \in Seq(CheckStep) /\ step \in Nat
  BY CaseFacts DEF InCase
<1>2. ASSUME NEW st \in ToSet(Case.steps)
      PROVE  Holds(st, Case, env) \/ FoundElsewhere(st, Case, env)
  <2>1. PICK j \in 1 .. Len(Case.steps) : st = Case.steps[j]
    BY <1>1 DEF ToSet
  <2>2. j \in 1 .. step - 1 /\ j <= Len(Case.steps)
    BY <1>1
  <2>3. Met(st, Case, env)
    BY <2>1, <2>2 DEF StepInv
  <2>4. Case.package \in DOMAIN DB => \A n \in env : Expected(n, Case)
    BY DEF EnvInv
  <2> QED BY <2>3, <2>4, HoldsThen DEF Met
<1>3. /\ Verdict(TRUE, blurred).result = "accepted" /\ Verdict(TRUE, blurred).case = Case
      /\ Verdict(TRUE, blurred).env = env
  BY DEF Verdict, Entry
<1> QED BY <1>2, <1>3 DEF Right

(* The packages that are asked whether they provide names. *)
LEMMA CheckVirtualTells ==
  ASSUME TypeInv, PlaceInv, EnvInv, StepInv, CheckVirtual, blurred' \in BOOLEAN
  PROVE  (Quiet /\ MelangeInv') \/ Good
<1>1. /\ pc \in {"step", "virtual"} /\ pc \in InCase /\ pc = "step"
      /\ step <= Len(Config.steps) /\ Current.check = "virtual"
  BY DEF CheckVirtual, AtStep, InCase
<1>2. /\ Config = Case /\ step \in Nat /\ env \subseteq DOMAIN DB
      /\ Current = Case.steps[step] /\ blurred \in BOOLEAN
  BY <1>1, CaseFacts, CurrentFacts
<1>3. Case.package \in DOMAIN DB =>
        Case.package \in env /\ (blurred \/ \A n \in env : Expected(n, Case))
  BY <1>1 DEF EnvInv
<1>4. CASE Provides(Current.names)
  <2>1. PICK n \in {0, TotalApkCount(env)} : Counted(env, n) /\ count' = n
    BY <1>4 DEF CheckVirtual
  <2>2. pc' = "virtual" /\ UNCHANGED <<env, step>> /\ Quiet
    BY <1>4 DEF CheckVirtual, Quiet
  <2>3. /\ blurred => blurred'
        /\ blurred' \/ count' = TotalApkCount(env)
    BY <1>2, <2>1 DEF Counted
  <2>4. Case' = Case
    BY <2>2, SameCase
  <2>5. EnvInv'
    BY <1>3, <2>2, <2>3, <2>4 DEF EnvInv, Expected
  <2>6. StepInv'
    BY <1>1, <2>2, <2>3, <2>4 DEF StepInv, Met, FoundElsewhere
  <2>7. /\ Case.package \in env /\ Current.names # <<>>
        /\ ToSet(Current.names) \subseteq DB[Case.package].provides
    BY <1>2, <1>4 DEF Provides
  <2>8. TotalApkCount(env') = TotalApkCount(env)
    BY <2>2
  <2>9. VirtualInv'
    BY <1>1, <1>2, <2>2, <2>3, <2>4, <2>7, <2>8 DEF VirtualInv
  <2> QED BY <2>2, <2>5, <2>6, <2>9 DEF MelangeInv
<1>5. CASE ~Provides(Current.names)
  <2>1. Proceed(FALSE) /\ UNCHANGED <<env, blurred>>
    BY <1>5 DEF CheckVirtual
  <2>2. ~Holds(Current, Case, env)
    BY <1>1, <1>2, <1>3, <1>5 DEF Holds, Provides
  <2> QED BY <1>1, <1>3, <2>1, <2>2, ProceedTells
<1> QED BY <1>4, <1>5

LEMMA TestVirtualTells ==
  ASSUME TypeInv, PlaceInv, EnvInv, StepInv, VirtualInv, TestVirtual, blurred' \in BOOLEAN
  PROVE  (Quiet /\ MelangeInv') \/ Good
<1>1. /\ pc \in {"step", "virtual"} /\ pc \in InCase /\ pc = "virtual"
      /\ vp <= Len(Current.names) /\ env' \in Added(env, Current.names[vp])
      /\ UNCHANGED <<step, count>>
  BY DEF TestVirtual, InCase
<1>2. PICK n \in {0, TotalApkCount(env')} :
        /\ Counted(env', n)
        /\ IF n > count THEN Judge(FALSE, blurred') /\ UNCHANGED vp
           ELSE vp' = vp + 1 /\ UNCHANGED <<input, pc, suites, s, i, out, totals, exit>>
  BY DEF TestVirtual
<1>3. /\ Config = Case /\ step \in Nat /\ count \in Nat /\ env \subseteq DOMAIN DB
      /\ blurred \in BOOLEAN
  BY <1>1, CaseFacts
<1>4. /\ step <= Len(Case.steps) /\ Case.package \in env
      /\ Current = Case.steps[step] /\ Current \in ToSet(Case.steps)
  BY <1>1, <1>3, CurrentFacts DEF VirtualInv
<1>5. /\ blurred => blurred'
      /\ blurred' \/ n = TotalApkCount(env')
  BY <1>3, <1>2 DEF Counted
<1>6. env \subseteq env'
  BY <1>1, <1>3, AddedType
<1>7. ~blurred' => IF n > count THEN Suspected(Current, Case)
                   ELSE /\ TotalApkCount(env') = count
                        /\ \A m \in env' : m \in env \/ DB[m].files = {}
  <2> DEFINE d == env'
  <2>1. d \in Added(env, Current.names[vp])
    BY <1>1
  <2> HIDE DEF d
  <2>2. ~blurred => IF TotalApkCount(d) > count THEN Suspected(Current, Case)
                    ELSE /\ TotalApkCount(d) = count
                         /\ \A m \in d : m \in env \/ DB[m].files = {}
    BY <1>1, <2>1, VirtualTells
  <2> QED BY <1>5, <2>2 DEF d
<1>8. CASE n > count
  <2>1. Judge(FALSE, blurred')
    BY <1>2, <1>8
  <2>2. blurred' \/ Right(Verdict(FALSE, FALSE))
    BY <1>4, <1>7, <1>8, RejectedRight
  <2>3. blurred' \/ Right(Verdict(FALSE, blurred'))
    <3>1. CASE ~blurred'
      <4>1. blurred' = FALSE
        BY <3>1
      <4> QED BY <2>2, <3>1, <4>1
    <3> QED BY <3>1
  <2>4. FALSE \in BOOLEAN
    OBVIOUS
  <2> QED BY <2>1, <2>3, <2>4, Zenon DEF Good
<1>9. CASE ~(n > count)
  <2>1. pc' = "virtual" /\ Quiet
    BY <1>1, <1>2, <1>9 DEF Quiet
  <2>2. Case' = Case
    BY <2>1, SameCase
  <2>3. EnvInv'
    <3>1. Case.package \in env'
      BY <1>4, <1>6
    <3>2. blurred' \/ \A m \in env' : Expected(m, Case)
      BY <1>1, <1>3, <1>4, <1>5, <1>7, <1>9 DEF EnvInv, Expected
    <3> QED BY <2>2, <3>1, <3>2 DEF EnvInv, Expected
  <2>4. StepInv'
    <3> SUFFICES ASSUME ~blurred', NEW j \in 1 .. step - 1, j <= Len(Case.steps)
                 PROVE  Met(Case.steps[j], Case, env')
      BY <1>1, <2>2 DEF StepInv, Met, FoundElsewhere
    <3>1. Met(Case.steps[j], Case, env)
      BY <1>1, <1>5 DEF StepInv
    <3> QED BY <1>6, <3>1, MetGrows
  <2>5. VirtualInv'
    <3>1. /\ step <= Len(Case.steps) /\ Case.steps[step].check = "virtual"
          /\ Case.package \in env' /\ Case.steps[step].names # <<>>
          /\ ToSet(Case.steps[step].names) \subseteq DB[Case.package].provides
      BY <1>1, <1>6 DEF VirtualInv
    <3>2. blurred' \/ count' = TotalApkCount(env')
      BY <1>1, <1>7, <1>9
    <3> QED BY <1>1, <2>2, <3>1, <3>2 DEF VirtualInv
  <2> QED BY <2>1, <2>3, <2>4, <2>5 DEF MelangeInv
<1> QED BY <1>8, <1>9

LEMMA MelangeTells ==
  ASSUME TypeInv, PlaceInv, MelangeInv, Melange
  PROVE  (Quiet /\ MelangeInv') \/ Good
<1>1. pc \in InCase /\ blurred' \in BOOLEAN
  BY MelangeForm DEF MelangeTypes
<1>2. EnvInv /\ StepInv /\ VirtualInv
  BY DEF MelangeInv
<1>3. Config = Case /\ step \in Nat /\ env \subseteq DOMAIN DB /\ blurred \in BOOLEAN
  BY <1>1, CaseFacts
<1>4. CASE BuildEnvironment
  <2>1. /\ env' \in Environments(Case) /\ step' = 1 /\ pc' = "step"
    BY <1>3, <1>4 DEF BuildEnvironment
  <2>2. Quiet
    BY <1>4 DEF BuildEnvironment, Quiet
  <2>3. Case' = Case
    BY <2>2, SameCase
  <2>4. /\ \A n \in env' : Expected(n, Case)
        /\ Case.package \in DOMAIN DB => Case.package \in env'
    BY <2>1, EnvironmentsType DEF Expected
  <2>5. EnvInv'
    BY <2>3, <2>4 DEF EnvInv, Expected
  <2>6. StepInv' /\ VirtualInv'
    BY <2>1 DEF StepInv, VirtualInv
  <2> QED BY <2>2, <2>5, <2>6 DEF MelangeInv
<1>5. CASE MelangeFails
  <2>1. CASE Environments(Config) = {} /\ Judge(FALSE, FALSE)
    <3>1. /\ Verdict(FALSE, FALSE).result = "rejected" /\ Verdict(FALSE, FALSE).case = Case
      BY DEF Verdict, Entry
    <3>2. Right(Verdict(FALSE, FALSE))
      BY <1>3, <2>1, <3>1 DEF Right
    <3>3. FALSE \in BOOLEAN
      OBVIOUS
    <3> QED BY <2>1, <3>2, <3>3, Zenon DEF Good
  <2>2. CASE Judge(FALSE, TRUE)
    BY <2>2 DEF Good
  <2> QED BY <1>5, <2>1, <2>2 DEF MelangeFails
<1>6. CASE StepsDone
  <2>1. Judge(TRUE, blurred) /\ pc = "step" /\ step > Len(Config.steps)
    BY <1>6 DEF StepsDone
  <2>2. blurred \/ Right(Verdict(TRUE, blurred))
    BY <1>2, <2>1, AcceptedRight
  <2>3. TRUE \in BOOLEAN
    OBVIOUS
  <2> QED BY <1>3, <2>1, <2>2, <2>3, Zenon DEF Good
<1>7. ASSUME AtStep(Types \cup {"contains"}), UNCHANGED <<env, blurred>>,
             NEW ok \in BOOLEAN, Proceed(ok),
             IF ok THEN Met(Current, Case, env) ELSE ~Holds(Current, Case, env)
      PROVE  (Quiet /\ MelangeInv') \/ Good
  <2>1. pc \in {"step", "virtual"} /\ pc = "step" /\ step <= Len(Config.steps)
    BY <1>7 DEF AtStep
  <2>2. env \subseteq env' /\ (blurred => blurred')
    BY <1>7
  <2>3. Case.package \in DOMAIN DB =>
          Case.package \in env' /\ (blurred' \/ \A n \in env' : Expected(n, Case))
    BY <1>2, <1>7, <2>1 DEF EnvInv
  <2>4. IF ok THEN Met(Current, Case, env') ELSE ~Holds(Current, Case, env)
    BY <1>7
  <2> QED BY <1>1, <1>2, <1>7, <2>1, <2>2, <2>3, <2>4, ProceedTells
<1>8. CASE CheckType
  <2> DEFINE ok == Config.package \in env /\ HasType(Current.check, Config.package)
  <2>1. AtStep(Types) /\ UNCHANGED <<env, blurred>> /\ Proceed(ok)
    BY <1>8 DEF CheckType
  <2>2. IF ok THEN Met(Current, Case, env) ELSE ~Holds(Current, Case, env)
    BY <1>2, <2>1, TypeTells
  <2>3. AtStep(Types \cup {"contains"})
    BY <2>1 DEF AtStep
  <2>4. CASE ok
    <3>1. Proceed(TRUE) /\ Met(Current, Case, env)
      BY <2>1, <2>2, <2>4
    <3> QED BY <1>7, <2>1, <2>3, <3>1
  <2>5. CASE ~ok
    <3>1. Proceed(FALSE) /\ ~Holds(Current, Case, env)
      BY <2>1, <2>2, <2>5
    <3> QED BY <1>7, <2>1, <2>3, <3>1
  <2> QED BY <2>4, <2>5
<1>9. CASE CheckContains
  <2> DEFINE ok == ContainsFiles(Current.files)
  <2>1. AtStep({"contains"}) /\ UNCHANGED <<env, blurred>> /\ Proceed(ok)
    BY <1>9 DEF CheckContains
  <2>2. IF ok THEN Met(Current, Case, env) ELSE ~Holds(Current, Case, env)
    BY <1>2, <2>1, ContainsTells
  <2>3. AtStep(Types \cup {"contains"})
    BY <2>1 DEF AtStep
  <2>4. ok \in BOOLEAN
    BY DEF ContainsFiles
  <2> HIDE DEF ok
  <2> QED BY <1>7, <2>1, <2>2, <2>3, <2>4
<1>10. CASE CommandFails
  <2>1. Judge(FALSE, TRUE)
    BY <1>10 DEF CommandFails
  <2> QED BY <2>1 DEF Good
<1>11. CASE CheckByProduct
  <2>1. /\ AtStep({"byproduct"}) /\ pc \in {"step", "virtual"} /\ pc = "step"
        /\ step <= Len(Config.steps)
    BY <1>11 DEF CheckByProduct, AtStep
  <2>2. Case.package \in DOMAIN DB =>
          Case.package \in env /\ (blurred \/ \A n \in env : Expected(n, Case))
    BY <1>2, <2>1 DEF EnvInv
  <2>3. CASE /\ env' \in Added(env, Config.package) /\ UNCHANGED <<blurred, faults>>
             /\ Proceed(~Listed(env', Config.package))
    <3> DEFINE ok == ~Listed(env', Config.package)
               d == env'
    <3>1. d \in Added(env, Config.package) /\ Proceed(ok) /\ blurred' = blurred
      BY <2>3
    <3>2. /\ env \subseteq d /\ (Case.package \in DOMAIN DB => d = env)
          /\ IF Listed(d, Config.package)
             THEN ~Holds(Current, Case, env) \/ Suspected(Current, Case)
             ELSE \A e : Met(Current, Case, e)
      <4> HIDE DEF d
      <4> QED BY <1>2, <2>1, <3>1, ByProductTells
    <3>3. IF ok THEN Met(Current, Case, env')
          ELSE ~Holds(Current, Case, env) \/ Suspected(Current, Case)
      BY <3>2
    <3>4. Case.package \in DOMAIN DB =>
            Case.package \in env' /\ (blurred' \/ \A n \in env' : Expected(n, Case))
      BY <2>2, <3>1, <3>2
    <3>5. env \subseteq env' /\ (blurred => blurred')
      BY <3>1, <3>2
    <3>6. ok \in BOOLEAN
      BY DEF Listed
    <3> HIDE DEF ok
    <3> QED BY <1>1, <1>2, <2>1, <3>1, <3>3, <3>4, <3>5, <3>6, ProceedTells
  <2>4. CASE blurred' = TRUE /\ UNCHANGED env /\ Proceed(TRUE)
    BY <1>1, <1>2, <2>1, <2>2, <2>4, ProceedTells
  <2> QED BY <1>11, <2>3, <2>4 DEF CheckByProduct
<1>12. CASE CheckVirtual
  BY <1>1, <1>2, <1>12, CheckVirtualTells
<1>13. CASE TestVirtual
  BY <1>1, <1>2, <1>13, TestVirtualTells
<1>14. CASE VirtualDone
  <2>1. pc \in {"step", "virtual"} /\ pc = "virtual" /\ Proceed(TRUE) /\ UNCHANGED <<env, blurred>>
    BY <1>14 DEF VirtualDone
  <2>2. step <= Len(Config.steps) /\ Current = Case.steps[step]
    BY <1>1, <1>2, <1>3, <2>1, CurrentFacts DEF VirtualInv
  <2>3. Case.package \in DOMAIN DB =>
          Case.package \in env' /\ (blurred' \/ \A n \in env' : Expected(n, Case))
    BY <1>2, <2>1 DEF EnvInv
  <2>4. Met(Current, Case, env')
    BY <1>2, <1>3, <2>1, <2>2 DEF VirtualInv, Met, Holds
  <2> QED BY <1>1, <1>2, <2>1, <2>2, <2>3, <2>4, ProceedTells
<1> QED BY <1>4, <1>5, <1>6, <1>8, <1>9, <1>10, <1>11, <1>12, <1>13, <1>14 DEF Melange
-----------------------------------------------------------------------------
(* Type correctness.                                                       *)

LEMMA EntryType ==
  ASSUME TypeInv, PlaceInv, pc \in InSuite, i <= Len(Ordered(suites[s])),
         NEW r \in {"accepted", "rejected", "generated"}, NEW f \in BOOLEAN
  PROVE  /\ Entry(r, f) \in Records /\ Entry(r, f).result = r /\ Entry(r, f).faulty = f
         /\ Entry(r, f).case = Case /\ Entry(r, f).suite = suites[s].name
         /\ Case \in TestCase /\ Slot \in Paths
<1>1. Case \in TestCase /\ suites[s].name \in STRING /\ env \in SUBSET DOMAIN DB
  BY HereFacts DEF TypeInv, TypeOK
<1>2. /\ Entry(r, f) \in Records /\ Entry(r, f).result = r /\ Entry(r, f).faulty = f
      /\ Entry(r, f).case = Case /\ Entry(r, f).suite = suites[s].name
  BY <1>1 DEF Entry, Records
<1>3. Path(Entry(r, f).suite, Entry(r, f).case) \in Paths
  BY <1>2, Zenon DEF Paths
<1> QED BY <1>1, <1>2, <1>3 DEF Slot

LEMMA JudgeFacts ==
  ASSUME TypeInv, PlaceInv, pc \in InCase, NEW a \in BOOLEAN, NEW f \in BOOLEAN, Judge(a, f)
  PROVE  /\ log' = Append(log, Verdict(a, f)) /\ Verdict(a, f) \in Records
         /\ Verdict(a, f).result = IF a THEN "accepted" ELSE "rejected"
         /\ Verdict(a, f).faulty = f
         /\ Verdict(a, f).case = Case /\ Verdict(a, f).suite = suites[s].name
         /\ IF a = Case.expect
            THEN passed' = passed + 1 /\ UNCHANGED <<failed, failures>>
            ELSE /\ failed' = failed + 1 /\ UNCHANGED passed
                 /\ failures' = Append(failures, Slot)
         /\ Slot \in Paths
         /\ pc' = "case" /\ i' = i + 1 /\ UNCHANGED <<input, suites, s, out, exit>>
         /\ ~generateOnly /\ i <= Len(Ordered(suites[s]))
         /\ Case.expect \in BOOLEAN
<1>1. pc \in InSuite /\ i <= Len(Ordered(suites[s])) /\ ~generateOnly /\ Case.expect \in BOOLEAN
  BY CaseFacts DEF InSuite, PlaceInv
<1> DEFINE r == IF a THEN "accepted" ELSE "rejected"
<1>2. r \in {"accepted", "rejected", "generated"} /\ Verdict(a, f) = Entry(r, f)
  BY DEF Verdict
<1> HIDE DEF r
<1>3. /\ Verdict(a, f) \in Records /\ Verdict(a, f).result = r /\ Verdict(a, f).faulty = f
      /\ Verdict(a, f).case = Case /\ Verdict(a, f).suite = suites[s].name
      /\ Slot \in Paths
  BY <1>1, <1>2, EntryType
<1>4. /\ log' = Append(log, Verdict(a, f)) /\ pc' = "case" /\ i' = i + 1
      /\ UNCHANGED <<input, suites, s, out, exit>>
  BY DEF Judge, Verdict
<1>5. IF a = Case.expect
      THEN passed' = passed + 1 /\ UNCHANGED <<failed, failures>>
      ELSE /\ failed' = failed + 1 /\ UNCHANGED passed
           /\ failures' = Append(failures, Slot)
  BY DEF Judge, TestPassed, Failures
<1> QED BY <1>1, <1>3, <1>4, <1>5 DEF r

LEMMA TypeInit == Init => TypeInv
<1> SUFFICES ASSUME Init PROVE TypeInv
  OBVIOUS
<1>1. dir \in Seq(SuiteFile)
  BY PipelineAssumption DEF Init
<1>2. ToSet(suites) = {} /\ Len(<<>>) = 0
  BY DEF Init, ToSet
<1>3. 0 \in 0 .. MaxFaults
  BY PipelineAssumption
<1>4. blurred \in BOOLEAN /\ env \subseteq DOMAIN DB
  BY DEF Init
<1>5. suites = <<>> /\ log = <<>> /\ failures = <<>>
  BY DEF Init
<1>6. suites \in Seq(SuiteFile) /\ log \in Seq(Records) /\ failures \in Seq(Paths)
  BY <1>5
<1>7. /\ dir \in Suites /\ only \in -1 .. Len(dir) /\ generateOnly \in BOOLEAN
      /\ pc = "start" /\ s = 1 /\ i = 1 /\ step = 1 /\ count = 0 /\ vp = 1
      /\ passed = 0 /\ failed = 0 /\ exit = -1 /\ faults = 0
  BY DEF Init
<1>8. s \in 1 .. Len(suites) + 1 /\ passed + failed = Len(log) /\ Len(failures) = failed
  BY <1>2, <1>5, <1>7
<1>9. TypeOK
  BY <1>2, <1>3, <1>4, <1>7, <1>8 DEF TypeOK
<1> QED BY <1>6, <1>7, <1>9 DEF TypeInv

LEMMA TypeDiscover ==
  ASSUME TypeInv, PlaceInv, Discover
  PROVE  TypeInv'
<1>1. pc = "start" /\ suites = <<>> /\ s = 1
  BY DEF Discover, PlaceInv
<1>2. dir \in Seq(SuiteFile) /\ only \in -1 .. Len(dir)
  BY PipelineAssumption DEF TypeInv, TypeOK
<1>3. dir \in Seq(ToSet(dir)) /\ ToSet(dir) \subseteq SuiteFile
  BY <1>2 DEF ToSet
<1>4. suites' \in Seq(ToSet(dir))
  <2>1. CASE only = 0
    <3>1. suites' = At(dir, {k \in DOMAIN dir : HoldsCases(dir[k])})
      BY <2>1 DEF Discover
    <3> QED BY <1>3, <3>1, AtType
  <2>2. CASE only > 0
    <3>1. suites' = <<dir[only]>> /\ dir[only] \in ToSet(dir)
      BY <1>2, <2>2 DEF Discover, ToSet
    <3> QED BY <3>1
  <2>3. CASE ~(only = 0) /\ ~(only > 0)
    <3>1. suites' = <<>>
      BY <2>3 DEF Discover
    <3> QED BY <3>1
  <2> QED BY <2>1, <2>2, <2>3
<1>5. suites' \in Seq(SuiteFile) /\ ToSet(suites') \subseteq ToSet(dir)
  BY <1>3, <1>4 DEF ToSet
<1>6. /\ pc' \in {"load", "ended"} /\ exit' \in {-1, 0, 1} /\ (pc' = "ended" <=> exit' # -1)
      /\ UNCHANGED <<input, s, i, out, melange, totals, faults>>
  BY <1>1 DEF Discover, Return, TypeInv, TypeOK
<1>7. 1 \in 1 .. Len(suites') + 1
  BY <1>5
<1>8. ToSet(dir') = ToSet(dir) /\ ToSet(suites)' = ToSet(suites')
  BY <1>6 DEF input, ToSet
<1> QED BY <1>1, <1>5, <1>6, <1>7, <1>8 DEF TypeInv, TypeOK, input, melange, totals

LEMMA TypeMaintained ==
  ASSUME TypeInv, UNCHANGED <<input, suites>>, MelangeTypes,
         pc' \in {"start", "load", "case", "melange", "step", "virtual", "ended"},
         s' \in 1 .. Len(suites) + 1, i' \in Nat, i' >= 1,
         log' \in Seq(Records), failures' \in Seq(Paths), passed' \in Nat, failed' \in Nat,
         passed' + failed' = Len(log'), Len(failures') = failed',
         exit' \in {-1, 0, 1}, pc' = "ended" <=> exit' # -1
  PROVE  TypeInv'
<1>1. UNCHANGED <<dir, only, generateOnly, suites>>
  BY DEF input
<1>2. ToSet(suites)' = ToSet(suites) /\ ToSet(dir)' = ToSet(dir)
  BY <1>1 DEF ToSet
<1>3. TypeOK'
  BY <1>1, <1>2 DEF TypeInv, TypeOK, MelangeTypes
<1> QED BY <1>1, <1>3 DEF TypeInv, MelangeTypes

LEMMA TypeJudge ==
  ASSUME TypeInv, PlaceInv, pc \in InCase, MelangeTypes,
         NEW a \in BOOLEAN, NEW f \in BOOLEAN, Judge(a, f)
  PROVE  TypeInv'
<1>1. /\ log \in Seq(Records) /\ failures \in Seq(Paths) /\ passed \in Nat /\ failed \in Nat
      /\ passed + failed = Len(log) /\ Len(failures) = failed
      /\ s \in 1 .. Len(suites) + 1 /\ i \in Nat
      /\ exit = -1
  BY DEF TypeInv, TypeOK, InCase
<1>2. log' = Append(log, Verdict(a, f)) /\ Verdict(a, f) \in Records
  BY JudgeFacts
<1>3. log' \in Seq(Records) /\ Len(log') = Len(log) + 1
  BY <1>1, <1>2
<1>4. /\ passed' \in Nat /\ failed' \in Nat /\ passed' + failed' = Len(log')
      /\ failures' \in Seq(Paths) /\ Len(failures') = failed'
  <2>1. Slot \in Paths
    BY JudgeFacts
  <2>2. CASE a = Case.expect
    <3>1. passed' = passed + 1 /\ failed' = failed /\ failures' = failures
      BY <2>2, JudgeFacts
    <3> QED BY <1>1, <1>3, <3>1
  <2>3. CASE a # Case.expect
    <3>1. /\ failed' = failed + 1 /\ passed' = passed
          /\ failures' = Append(failures, Slot)
      BY <2>3, JudgeFacts
    <3>2. failures' \in Seq(Paths) /\ Len(failures') = Len(failures) + 1
      <4> DEFINE p == Slot
      <4>1. p \in Paths /\ failures' = Append(failures, p)
        BY <2>1, <3>1
      <4> HIDE DEF p
      <4> QED BY <1>1, <4>1
    <3> QED BY <1>1, <1>3, <3>1, <3>2
  <2> QED BY <2>2, <2>3
<1>5. pc' = "case" /\ i' = i + 1 /\ UNCHANGED <<input, suites, s, exit>>
  BY JudgeFacts
<1> QED BY <1>1, <1>3, <1>4, <1>5, TypeMaintained

LEMMA TypeRun ==
  ASSUME TypeInv, PlaceInv, Run
  PROVE  TypeInv'
<1>1. /\ log \in Seq(Records) /\ failures \in Seq(Paths) /\ passed \in Nat /\ failed \in Nat
      /\ passed + failed = Len(log) /\ Len(failures) = failed
      /\ s \in 1 .. Len(suites) + 1 /\ i \in Nat /\ i >= 1
      /\ exit \in {-1, 0, 1} /\ (pc = "ended" <=> exit # -1) /\ faults \in 0 .. MaxFaults
  BY DEF TypeInv, TypeOK
<1>2. UNCHANGED <<melange, faults>> => MelangeTypes
  BY DEF melange, MelangeTypes, TypeInv, TypeOK
<1>3. CASE Discover
  BY <1>3, TypeDiscover
<1>4. CASE LoadTestSuite
  <2>1. /\ UNCHANGED <<input, suites, s, out, melange, totals, faults>> /\ i' = 1
        /\ pc' \in {"case", "ended"} /\ exit' \in {-1, 0, 1} /\ (pc' = "ended" <=> exit' # -1)
    BY <1>1, <1>4 DEF LoadTestSuite, Return
  <2> QED BY <1>1, <1>2, <2>1, TypeMaintained DEF totals
<1>5. CASE WriteFails
  <2>1. /\ UNCHANGED <<input, suites, s, i, melange, totals>>
        /\ pc' = "ended" /\ exit' = 1 /\ faults' \in 0 .. MaxFaults
    BY <1>1, <1>5, FaultType DEF WriteFails, Return
  <2>2. MelangeTypes
    BY <2>1 DEF melange, MelangeTypes, TypeInv, TypeOK
  <2> QED BY <1>1, <2>1, <2>2, TypeMaintained DEF totals
<1>6. CASE Generate
  <2>1. /\ UNCHANGED <<input, suites, s, melange, failed, failures, exit, faults>>
        /\ pc = "case" /\ i <= Len(Ordered(suites[s])) /\ pc \in InSuite
    BY <1>6 DEF Generate, InSuite
  <2>2. CASE generateOnly
    <3>1. /\ passed' = passed + 1 /\ i' = i + 1 /\ pc' = pc
          /\ log' = Append(log, Entry("generated", FALSE))
      BY <1>6, <2>2 DEF Generate
    <3>2. Entry("generated", FALSE) \in Records
      BY <2>1, EntryType
    <3> DEFINE e == Entry("generated", FALSE)
    <3>3. log' \in Seq(Records) /\ Len(log') = Len(log) + 1
      <4>1. e \in Records /\ log' = Append(log, e)
        BY <3>1, <3>2
      <4> HIDE DEF e
      <4> QED BY <1>1, <4>1
    <3> QED BY <1>1, <1>2, <2>1, <3>1, <3>3, TypeMaintained
  <2>3. CASE ~generateOnly
    <3>1. pc' = "melange" /\ UNCHANGED <<i, passed, log>>
      BY <1>6, <2>3 DEF Generate
    <3> QED BY <1>1, <1>2, <2>1, <3>1, TypeMaintained
  <2> QED BY <2>2, <2>3
<1>7. CASE NextSuite
  <2>1. /\ UNCHANGED <<input, suites, i, out, melange, totals, exit, faults>>
        /\ s' = s + 1 /\ pc' = "load" /\ pc = "case"
    BY <1>7 DEF NextSuite
  <2>2. s <= Len(suites)
    BY <2>1 DEF PlaceInv, InSuite
  <2>3. s' \in 1 .. Len(suites) + 1
    BY <1>1, <2>1, <2>2 DEF TypeInv
  <2> QED BY <1>1, <1>2, <2>1, <2>3, TypeMaintained DEF totals
<1>8. CASE Results
  <2>1. /\ UNCHANGED <<input, suites, s, i, out, melange, totals, faults>>
        /\ pc' = "ended" /\ exit' \in {0, 1}
    BY <1>8 DEF Results, Return
  <2> QED BY <1>1, <1>2, <2>1, TypeMaintained DEF totals
<1> QED BY <1>3, <1>4, <1>5, <1>6, <1>7, <1>8 DEF Run

LEMMA TypeQuiet ==
  ASSUME TypeInv, MelangeTypes, Quiet, pc \in InCase
  PROVE  TypeInv'
<1>1. /\ log \in Seq(Records) /\ failures \in Seq(Paths) /\ passed \in Nat /\ failed \in Nat
      /\ passed + failed = Len(log) /\ Len(failures) = failed
      /\ s \in 1 .. Len(suites) + 1 /\ i \in Nat /\ i >= 1 /\ exit = -1
  BY DEF TypeInv, TypeOK, InCase
<1>2. UNCHANGED <<input, suites, s, i, passed, failed, failures, log, exit>>
  BY DEF Quiet, totals
<1>3. pc' \in {"step", "virtual"}
  BY DEF Quiet
<1> QED BY <1>1, <1>2, <1>3, TypeMaintained
-----------------------------------------------------------------------------
(* The place in the suites, and the order of the cases.                    *)

(* What is ordered is the same while the suites are. *)
LEMMA OrdersSame ==
  ASSUME UNCHANGED suites
  PROVE  Orders' = Orders
BY SMTT(30) DEF Orders, Ordered, At

LEMMA SuitesSame ==
  ASSUME UNCHANGED <<suites, s>>
  PROVE  /\ Ordered(suites[s])' = Ordered(suites[s])
         /\ Orders' = Orders
         /\ Run0(s - 1)' = Run0(s - 1)
<1>1. Ordered(suites[s])' = Ordered(suites[s])
  BY SMTT(30) DEF Ordered, At
<1>2. Orders' = Orders
  BY OrdersSame
<1>3. Run0(s - 1)' = Run0(s - 1)
  BY SMTT(30), <1>2 DEF Run0, FlattenSeq
<1> QED BY <1>1, <1>2, <1>3

LEMMA PlaceKept ==
  ASSUME TypeInv, PlaceInv
  PROVE  /\ Run => PlaceInv'
         /\ \A a, f \in BOOLEAN : pc \in InCase /\ Judge(a, f) => PlaceInv'
         /\ pc \in InCase /\ Quiet => PlaceInv'
<1>1. ASSUME Discover PROVE PlaceInv'
  BY <1>1 DEF Discover, Return, PlaceInv, InSuite, InCase
<1>2. ASSUME LoadTestSuite PROVE PlaceInv'
  <2>1. /\ s <= Len(suites) /\ UNCHANGED <<suites, s>> /\ i' = 1
        /\ pc' \in {"case", "ended"}
    BY <1>2 DEF LoadTestSuite, Return
  <2>2. suites[s] \in SuiteFile
    BY <2>1 DEF TypeInv, TypeOK
  <2>3. Len(Ordered(suites[s])) \in Nat
    BY <2>2, OrderedType
  <2>4. Ordered(suites[s])' = Ordered(suites[s])
    BY <2>1, SuitesSame
  <2> QED BY <2>1, <2>3, <2>4 DEF PlaceInv, InSuite, InCase
<1>3. ASSUME WriteFails PROVE PlaceInv'
  BY <1>3 DEF WriteFails, Return, PlaceInv, InSuite, InCase
<1>4. ASSUME Generate PROVE PlaceInv'
  <2>1. /\ pc \in InSuite /\ i <= Len(Ordered(suites[s])) /\ UNCHANGED <<suites, s, input>>
    BY <1>4 DEF Generate, InSuite
  <2>2. s <= Len(suites) /\ i \in Nat /\ Len(Ordered(suites[s])) \in Nat
    BY <2>1, HereFacts DEF PlaceInv, TypeInv, TypeOK
  <2>3. Ordered(suites[s])' = Ordered(suites[s])
    BY <2>1, SuitesSame
  <2>4. CASE generateOnly
    <3>1. pc' = "case" /\ i' = i + 1
      BY <1>4, <2>4 DEF Generate
    <3> QED BY <2>1, <2>2, <2>3, <3>1 DEF PlaceInv, InCase
  <2>5. CASE ~generateOnly
    <3>1. pc' = "melange" /\ i' = i
      BY <1>4, <2>5 DEF Generate
    <3>2. Case' = Case
      BY <2>1, <2>3, <3>1 DEF Case
    <3>3. Slot \in DOMAIN out' /\ out'[Slot] = <<Case>>
      BY <1>4 DEF Generate, Written
    <3>4. Slot' = Slot
      BY <2>1, <3>2 DEF Slot, Path, Dir
    <3>5. Config' = out'[Slot][1]
      BY <3>4 DEF Config
    <3>6. ~generateOnly'
      BY <2>1, <2>5 DEF input
    <3> QED BY <2>1, <2>2, <2>3, <3>1, <3>2, <3>3, <3>4, <3>5, <3>6 DEF PlaceInv
  <2> QED BY <2>4, <2>5
<1>5. ASSUME NextSuite PROVE PlaceInv'
  BY <1>5 DEF NextSuite, PlaceInv, InSuite, InCase
<1>6. ASSUME Results PROVE PlaceInv'
  BY <1>6 DEF Results, Return, PlaceInv, InSuite, InCase
<1>7. ASSUME NEW a \in BOOLEAN, NEW f \in BOOLEAN, pc \in InCase, Judge(a, f) PROVE PlaceInv'
  <2>1. /\ pc' = "case" /\ i' = i + 1 /\ UNCHANGED <<suites, s>>
        /\ i <= Len(Ordered(suites[s]))
    BY <1>7, JudgeFacts
  <2>2. pc \in InSuite
    BY <1>7 DEF InSuite
  <2>3. s <= Len(suites) /\ i \in Nat /\ Len(Ordered(suites[s])) \in Nat
    BY <2>2, HereFacts DEF PlaceInv, TypeInv, TypeOK
  <2>4. Ordered(suites[s])' = Ordered(suites[s])
    BY <2>1, SuitesSame
  <2> QED BY <2>1, <2>3, <2>4 DEF PlaceInv, InCase
<1>8. ASSUME pc \in InCase, Quiet PROVE PlaceInv'
  <2>1. /\ pc' \in {"step", "virtual"} /\ UNCHANGED <<suites, s, i, out, generateOnly>>
    BY <1>8 DEF Quiet, input
  <2>2. Ordered(suites[s])' = Ordered(suites[s]) /\ Case' = Case
    BY <1>8, <2>1, SameCase, SuitesSame
  <2>3. Slot' = Slot
    BY <2>1, <2>2 DEF Slot, Path, Dir
  <2>4. Config' = Config
    BY <2>1, <2>3 DEF Config
  <2>5. pc \in InSuite
    BY <1>8 DEF InSuite
  <2> QED BY <1>8, <2>1, <2>2, <2>3, <2>4, <2>5 DEF PlaceInv
<1> QED BY <1>1, <1>2, <1>3, <1>4, <1>5, <1>6, <1>7, <1>8 DEF Run

LEMMA OrdersType ==
  ASSUME suites \in Seq(SuiteFile)
  PROVE  /\ Orders \in Seq(Seq(TestCase)) /\ Len(Orders) = Len(suites)
         /\ \A k \in 1 .. Len(suites) : Orders[k] = Ordered(suites[k])
<1>1. DOMAIN suites = 1 .. Len(suites) /\ \A k \in DOMAIN suites : suites[k] \in SuiteFile
  OBVIOUS
<1>2. \A k \in DOMAIN suites : Ordered(suites[k]) \in Seq(TestCase)
  BY <1>1, OrderedType
<1> QED BY <1>1, <1>2 DEF Orders

LEMMA RunFacts ==
  ASSUME suites \in Seq(SuiteFile)
  PROVE  /\ Run0(0) = <<>> /\ Run0(Len(suites)) = FlattenSeq(Orders)
         /\ \A k \in 1 .. Len(suites) : /\ Run0(k - 1) \in Seq(TestCase)
                                        /\ Run0(k) = Run0(k - 1) \o Ordered(suites[k])
<1>1. /\ Orders \in Seq(Seq(TestCase)) /\ Len(Orders) = Len(suites)
      /\ \A k \in 1 .. Len(suites) : Orders[k] = Ordered(suites[k])
  BY OrdersType
<1>2. SubSeq(Orders, 1, Len(suites)) = Orders
  <2> HIDE DEF Orders
  <2> QED BY <1>1
<1>3. Run0(Len(suites)) = FlattenSeq(Orders)
  BY <1>2 DEF Run0
<1> QED BY <1>1, <1>3, FlattenSteps DEF Run0

LEMMA MapAppend ==
  ASSUME NEW q \in Seq(Records), NEW e \in Records
  PROVE  [k \in DOMAIN Append(q, e) |-> Append(q, e)[k].case] =
           Append([k \in DOMAIN q |-> q[k].case], e.case)
<1> DEFINE cases == [k \in 1 .. Len(q) |-> q[k].case]
<1>1. \A k \in 1 .. Len(q) : q[k].case \in TestCase
  <2>1. \A k \in 1 .. Len(q) : q[k] \in Records
    OBVIOUS
  <2> QED BY <2>1 DEF Records
<1>2. cases \in Seq(TestCase) /\ Len(cases) = Len(q) /\ e.case \in TestCase
  BY <1>1 DEF Records
<1>3. \A k \in 1 .. Len(q) : cases[k] = q[k].case
  OBVIOUS
<1>4. DOMAIN q = 1 .. Len(q) /\ DOMAIN Append(q, e) = 1 .. Len(q) + 1
  OBVIOUS
<1>5. \A k \in 1 .. Len(q) + 1 : Append(q, e)[k] = IF k = Len(q) + 1 THEN e ELSE q[k]
  OBVIOUS
<1> HIDE DEF cases
<1> DEFINE all == [k \in 1 .. Len(q) + 1 |-> Append(q, e)[k].case]
           x == e.case
<1>6. \A k \in 1 .. Len(q) + 1 : all[k] = IF k = Len(q) + 1 THEN x ELSE cases[k]
  BY <1>3, <1>5
<1>7. x \in TestCase /\ \A k \in 1 .. Len(q) : cases[k] \in TestCase
  BY <1>1, <1>2, <1>3
<1>8. all = Append(cases, x)
  <2>1. all \in Seq(TestCase) /\ Len(all) = Len(q) + 1
    <3>1. \A k \in 1 .. Len(q) + 1 : Append(q, e)[k].case \in TestCase
      BY <1>6, <1>7
    <3> QED BY <3>1
  <2> HIDE DEF all, x
  <2>2. /\ Append(cases, x) \in Seq(TestCase) /\ Len(Append(cases, x)) = Len(q) + 1
        /\ \A k \in 1 .. Len(q) : Append(cases, x)[k] = cases[k]
        /\ Append(cases, x)[Len(q) + 1] = x
    BY <1>2, <1>7, AppendProperties
  <2>3. \A k \in 1 .. Len(q) + 1 : all[k] = Append(cases, x)[k]
    BY <1>6, <2>2
  <2> QED BY <2>1, <2>2, <2>3, SeqEqual
<1> QED BY <1>4, <1>8 DEF cases

LEMMA JoinNext ==
  ASSUME NEW T, NEW r \in Seq(T), NEW o \in Seq(T), NEW n \in 1 .. Len(o)
  PROVE  r \o SubSeq(o, 1, n) = Append(r \o SubSeq(o, 1, n - 1), o[n])
<1>1. /\ SubSeq(o, 1, n - 1) \in Seq(T) /\ o[n] \in T
      /\ SubSeq(o, 1, n) = Append(SubSeq(o, 1, n - 1), o[n])
  OBVIOUS
<1> DEFINE before == SubSeq(o, 1, n - 1)
           x == o[n]
<1> HIDE DEF before, x
<1>2. before \in Seq(T) /\ x \in T
  BY <1>1 DEF before, x
<1>3. r \o Append(before, x) = Append(r \o before, x)
  BY <1>2
<1> QED BY <1>1, <1>3 DEF before, x

(* One more case of the suite is in the log. *)
LEMMA CaseLogged ==
  ASSUME TypeInv, PlaceInv, OrderInv, pc \in InSuite, i <= Len(Ordered(suites[s])),
         NEW e \in Records, e.case = Case, log' = Append(log, e), i' = i + 1,
         UNCHANGED <<suites, s>>
  PROVE  Logged' = Run0(s - 1) \o SubSeq(Ordered(suites[s]), 1, i' - 1)
<1> DEFINE o == Ordered(suites[s])
           r == Run0(s - 1)
<1>1. log \in Seq(Records) /\ i \in Nat /\ i >= 1 /\ suites \in Seq(SuiteFile)
  BY DEF TypeInv, TypeOK
<1>2. /\ s \in 1 .. Len(suites) /\ o \in Seq(TestCase) /\ Case = o[i] /\ Case \in TestCase
  BY HereFacts DEF Case
<1>3. r \in Seq(TestCase)
  BY <1>1, <1>2, RunFacts
<1>4. Logged = r \o SubSeq(o, 1, i - 1)
  BY DEF OrderInv
<1>5. Logged' = Append(Logged, Case)
  <2>1. Logged' = [k \in DOMAIN Append(log, e) |-> Append(log, e)[k].case]
    BY DEF Logged
  <2> QED BY <1>1, <2>1, MapAppend DEF Logged
<1>6. r \o SubSeq(o, 1, i) = Append(r \o SubSeq(o, 1, i - 1), o[i])
  <2>1. i \in 1 .. Len(o)
    BY <1>1, <1>2
  <2> HIDE DEF o, r
  <2> QED BY <1>2, <1>3, <2>1, JoinNext
<1>8. i' - 1 = i
  BY <1>1
<1> HIDE DEF o, r
<1>9. Logged' = r \o SubSeq(o, 1, i' - 1)
  BY <1>2, <1>4, <1>5, <1>6, <1>8
<1> QED BY <1>9 DEF o, r

LEMMA OrderKept ==
  ASSUME TypeInv, PlaceInv, OrderInv
  PROVE  /\ Run => OrderInv'
         /\ \A a, f \in BOOLEAN : pc \in InCase /\ Judge(a, f) => OrderInv'
         /\ pc \in InCase /\ Quiet => OrderInv'
<1>1. /\ suites \in Seq(SuiteFile) /\ s \in 1 .. Len(suites) + 1 /\ i \in Nat /\ i >= 1
      /\ (pc = "ended" <=> exit # -1)
  BY DEF TypeInv, TypeOK
<1>2. ASSUME Discover PROVE OrderInv'
  <2>1. /\ pc = "start" /\ log = <<>> /\ s = 1 /\ UNCHANGED <<s, log>> /\ exit' \in {-1, 1}
        /\ pc' \in {"load", "ended"}
    BY <1>1, <1>2 DEF Discover, Return, PlaceInv, totals
  <2>2. Logged' = <<>>
    BY <2>1 DEF Logged
  <2>3. suites' \in Seq(SuiteFile)
    BY <1>2, TypeDiscover DEF TypeInv
  <2>4. Run0(0)' = <<>>
    <3>1. Orders' \in Seq(Seq(TestCase))
      <4>1. /\ DOMAIN suites' = 1 .. Len(suites') /\ \A k \in DOMAIN suites' : suites'[k] \in SuiteFile
        BY <2>3
      <4>2. \A k \in DOMAIN suites' : Ordered(suites'[k]) \in Seq(TestCase)
        BY <4>1, OrderedType
      <4>3. Orders' = [k \in 1 .. Len(suites') |-> Ordered(suites'[k])]
        BY <4>1 DEF Orders
      <4> QED BY <2>3, <4>1, <4>2, <4>3
    <3> DEFINE q == Orders'
    <3>2. FlattenSeq(SubSeq(q, 1, 0)) = <<>>
      <4> HIDE DEF q
      <4> QED BY <3>1, FlattenSteps DEF q
    <3> QED BY <3>2 DEF Run0
  <2>5. s' - 1 = 0
    BY <2>1
  <2>6. Run0(s - 1)' = <<>>
    BY <2>4, <2>5 DEF Run0
  <2> QED BY <2>1, <2>2, <2>6 DEF OrderInv, InSuite, InCase
<1>3. ASSUME UNCHANGED <<suites, log>> PROVE Logged' = Logged /\ \A k : Run0(k)' = Run0(k)
  <2>1. Orders' = Orders
    BY <1>3, OrdersSame
  <2>2. \A k : Run0(k)' = Run0(k)
    BY <2>1 DEF Run0, FlattenSeq
  <2> QED BY <1>3, <2>2 DEF Logged
<1>4. ASSUME LoadTestSuite PROVE OrderInv'
  <2>1. /\ pc = "load" /\ s <= Len(suites) /\ UNCHANGED <<suites, s, log>> /\ i' = 1
        /\ pc' \in {"case", "ended"} /\ exit' \in {-1, 1}
    BY <1>1, <1>4 DEF LoadTestSuite, Return, totals
  <2>2. Logged' = Run0(s - 1) /\ Run0(s - 1)' = Run0(s - 1)
    BY <1>3, <2>1 DEF OrderInv
  <2>3. Run0(s - 1) \in Seq(TestCase) /\ Ordered(suites[s]) \in Seq(TestCase)
    <3>1. s \in 1 .. Len(suites) /\ suites[s] \in SuiteFile
      BY <1>1, <2>1
    <3> QED BY <1>1, <3>1, RunFacts, OrderedType
  <2>4. Run0(s - 1) \o SubSeq(Ordered(suites[s]), 1, 0) = Run0(s - 1)
    <3> DEFINE r == Run0(s - 1)
               o == Ordered(suites[s])
    <3>1. r \in Seq(TestCase) /\ o \in Seq(TestCase)
      BY <2>3
    <3> HIDE DEF r, o
    <3>2. r \o SubSeq(o, 1, 0) = r
      BY <3>1
    <3> QED BY <3>2 DEF r, o
  <2>5. Ordered(suites[s])' = Ordered(suites[s]) /\ i' - 1 = 0
    BY <2>1, SuitesSame
  <2> QED BY <2>1, <2>2, <2>4, <2>5 DEF OrderInv
<1>5. ASSUME WriteFails PROVE OrderInv'
  BY <1>5 DEF WriteFails, Return, OrderInv, InSuite, InCase
<1>6. ASSUME Generate PROVE OrderInv'
  <2>1. /\ pc = "case" /\ pc \in InSuite /\ i <= Len(Ordered(suites[s]))
        /\ UNCHANGED <<suites, s, exit>>
    BY <1>6 DEF Generate, InSuite
  <2>2. exit' = -1 /\ Ordered(suites[s])' = Ordered(suites[s])
    BY <1>1, <2>1, SuitesSame
  <2>3. CASE generateOnly
    <3>1. /\ pc' = "case" /\ i' = i + 1 /\ log' = Append(log, Entry("generated", FALSE))
      BY <1>6, <2>1, <2>3 DEF Generate
    <3>2. Entry("generated", FALSE) \in Records /\ Entry("generated", FALSE).case = Case
      BY <2>1, EntryType
    <3>3. Logged' = Run0(s - 1) \o SubSeq(Ordered(suites[s]), 1, i' - 1)
      BY <2>1, <3>1, <3>2, CaseLogged
    <3>4. Run0(s - 1)' = Run0(s - 1)
      BY <2>1, SuitesSame
    <3> QED BY <2>2, <3>1, <3>3, <3>4 DEF OrderInv
  <2>4. CASE ~generateOnly
    <3>1. pc' = "melange" /\ UNCHANGED <<i, log>>
      BY <1>6, <2>4 DEF Generate
    <3>2. Logged' = Logged /\ Run0(s - 1)' = Run0(s - 1)
      BY <1>3, <2>1, <3>1
    <3>3. Logged = Run0(s - 1) \o SubSeq(Ordered(suites[s]), 1, i - 1)
      BY <2>1 DEF OrderInv
    <3>4. Logged' = Run0(s - 1)' \o SubSeq(Ordered(suites[s])', 1, i' - 1)
      BY <2>2, <3>1, <3>2, <3>3
    <3> QED BY <2>2, <3>1, <3>4 DEF OrderInv
  <2> QED BY <2>3, <2>4
<1>7. ASSUME NextSuite PROVE OrderInv'
  <2>1. /\ pc = "case" /\ pc \in InSuite /\ i > Len(Ordered(suites[s]))
        /\ UNCHANGED <<suites, i, log, exit>> /\ s' = s + 1 /\ pc' = "load"
    BY <1>7 DEF NextSuite, InSuite, totals
  <2>2. /\ Ordered(suites[s]) \in Seq(TestCase) /\ s \in 1 .. Len(suites)
        /\ i <= Len(Ordered(suites[s])) + 1
    BY <2>1, HereFacts DEF PlaceInv
  <2>3. SubSeq(Ordered(suites[s]), 1, i - 1) = Ordered(suites[s])
    <3> DEFINE o == Ordered(suites[s])
    <3>1. o \in Seq(TestCase) /\ i - 1 = Len(o)
      BY <1>1, <2>1, <2>2
    <3> HIDE DEF o
    <3>2. SubSeq(o, 1, i - 1) = o
      BY <3>1
    <3> QED BY <3>2 DEF o
  <2>4. Logged = Run0(s)
    BY <1>1, <2>1, <2>2, <2>3, RunFacts DEF OrderInv
  <2>5. s' - 1 = s /\ Logged' = Logged /\ Run0(s)' = Run0(s')
    <3>1. s' - 1 = s
      BY <1>1, <2>1
    <3> QED BY <1>3, <2>1, <3>1 DEF Run0
  <2>6. Logged' = Run0(s - 1)'
    <3>1. Run0(s - 1)' = FlattenSeq(SubSeq(Orders, 1, s))
      <4>1. Orders' = Orders
        BY <2>1, OrdersSame
      <4> QED BY <2>5, <4>1 DEF Run0
    <3> QED BY <2>4, <2>5, <3>1 DEF Run0
  <2>7. exit' = -1
    BY <1>1, <2>1
  <2> QED BY <2>1, <2>6, <2>7 DEF OrderInv, InSuite, InCase
<1>8. ASSUME Results PROVE OrderInv'
  <2>1. /\ pc = "load" /\ s > Len(suites) /\ UNCHANGED <<suites, log>> /\ pc' = "ended"
    BY <1>8 DEF Results, Return, totals
  <2>2. s - 1 = Len(suites)
    BY <1>1, <2>1
  <2>3. Logged = FlattenSeq(Orders)
    BY <1>1, <2>1, <2>2, RunFacts DEF OrderInv
  <2>4. Logged' = Logged /\ FlattenSeq(Orders)' = FlattenSeq(Orders)
    BY <1>3, <2>1, OrdersSame DEF FlattenSeq
  <2> QED BY <2>1, <2>3, <2>4 DEF OrderInv, InSuite, InCase
<1>9. ASSUME NEW a \in BOOLEAN, NEW f \in BOOLEAN, pc \in InCase, Judge(a, f) PROVE OrderInv'
  <2>1. /\ log' = Append(log, Verdict(a, f)) /\ Verdict(a, f) \in Records
        /\ Verdict(a, f).case = Case /\ pc' = "case" /\ i' = i + 1
        /\ UNCHANGED <<suites, s, exit>> /\ i <= Len(Ordered(suites[s]))
    BY <1>9, JudgeFacts
  <2>2. pc \in InSuite
    BY <1>9 DEF InSuite
  <2>3. Logged' = Run0(s - 1) \o SubSeq(Ordered(suites[s]), 1, i' - 1)
    BY <2>1, <2>2, CaseLogged
  <2>4. Run0(s - 1)' = Run0(s - 1) /\ Ordered(suites[s])' = Ordered(suites[s])
    BY <2>1, SuitesSame
  <2>5. exit' = -1
    BY <1>1, <1>9, <2>1 DEF InCase
  <2>6. Logged' = Run0(s - 1)' \o SubSeq(Ordered(suites[s])', 1, i' - 1)
    BY <2>3, <2>4
  <2>7. pc' # "load" /\ exit' # 0
    BY <2>1, <2>5
  <2> QED BY <2>6, <2>7 DEF OrderInv
<1>10. ASSUME pc \in InCase, Quiet PROVE OrderInv'
  <2>1. UNCHANGED <<suites, s, i, log, exit>> /\ pc' \in {"step", "virtual"}
    BY <1>10 DEF Quiet, totals
  <2>2. /\ Logged' = Logged /\ Run0(s - 1)' = Run0(s - 1)
        /\ Ordered(suites[s])' = Ordered(suites[s])
    BY <1>3, <2>1, SuitesSame
  <2>3. exit' = -1
    BY <1>1, <1>10, <2>1 DEF InCase
  <2>4. Logged = Run0(s - 1) \o SubSeq(Ordered(suites[s]), 1, i - 1)
    BY <1>10 DEF InSuite, OrderInv
  <2>5. Logged' = Run0(s - 1)' \o SubSeq(Ordered(suites[s])', 1, i' - 1)
    BY <2>1, <2>2, <2>4
  <2> QED BY <2>1, <2>3, <2>5 DEF OrderInv
<1> QED BY <1>2, <1>4, <1>5, <1>6, <1>7, <1>8, <1>9, <1>10 DEF Run
-----------------------------------------------------------------------------
(* What the totals and the exit code say of the log.                       *)

LEMMA AppendFacts ==
  ASSUME NEW q \in Seq(Records), NEW e \in Records
  PROVE  /\ DOMAIN Append(q, e) = 1 .. Len(q) + 1 /\ DOMAIN q = 1 .. Len(q)
         /\ Len(Append(q, e)) = Len(q) + 1 /\ Len(q) \in Nat
         /\ \A k \in 1 .. Len(q) : Append(q, e)[k] = q[k]
         /\ Append(q, e)[Len(q) + 1] = e
OBVIOUS

Passable(r) == r.faulty \/ Right(r)

LEMMA TotalSame ==
  ASSUME TotalInv, UNCHANGED <<generateOnly, failed, log>>,
         exit' = 0 => generateOnly \/ failed = 0,
         exit' = 1 => \/ failed > 0 \/ faults' > 0
                      \/ suites' = <<>> \/ \E g \in ToSet(suites') : ~Loads(g)
  PROVE  TotalInv'
<1>1. /\ generateOnly' = generateOnly /\ failed' = failed /\ log' = log
      /\ exit' = 0 => generateOnly' \/ failed' = 0
  OBVIOUS
<1>2. (\A k \in DOMAIN log : log[k].faulty \/ Right(log[k]))' <=>
        (\A k \in DOMAIN log : log[k].faulty \/ Right(log[k]))
  BY <1>1
<1>3. (\A k \in DOMAIN log : Fit(log[k]))' <=> (\A k \in DOMAIN log : Fit(log[k]))
  BY <1>1
<1>4. exit' = 1 => \/ failed' > 0 \/ faults' > 0
                   \/ suites' = <<>> \/ (\E g \in ToSet(suites) : ~Loads(g))'
  BY DEF ToSet
<1> QED BY <1>1, <1>2, <1>3, <1>4 DEF TotalInv

LEMMA TotalKept ==
  ASSUME TypeInv, PlaceInv, TotalInv
  PROVE  /\ Run => TotalInv'
         /\ \A a, f \in BOOLEAN :
              pc \in InCase /\ Judge(a, f) /\ (f \/ Right(Verdict(a, f))) => TotalInv'
         /\ pc \in InCase /\ Quiet => TotalInv'
<1>1. /\ log \in Seq(Records) /\ failed \in Nat /\ suites \in Seq(SuiteFile)
      /\ s \in 1 .. Len(suites) + 1 /\ (pc = "ended" <=> exit # -1)
      /\ faults \in 0 .. MaxFaults
  BY DEF TypeInv, TypeOK
<1>2. /\ ~generateOnly => \A k \in DOMAIN log : Passable(log[k])
      /\ ~generateOnly /\ failed = 0 => \A k \in DOMAIN log : Fit(log[k])
  BY DEF TotalInv, Passable
<1>4. ASSUME Discover PROVE TotalInv'
  BY <1>1, TotalSame, <1>4 DEF Discover, Return, totals, input
<1>5. ASSUME LoadTestSuite PROVE TotalInv'
  <2>1. /\ UNCHANGED <<generateOnly, failed, log, suites>> /\ exit' \in {-1, 1}
        /\ s <= Len(suites) /\ (exit' = 1 => ~Loads(suites[s]))
    BY <1>1, <1>5 DEF LoadTestSuite, Return, totals, input
  <2>2. suites[s] \in ToSet(suites)
    BY <1>1, <2>1 DEF ToSet
  <2> QED BY TotalSame, <2>1, <2>2
<1>6. ASSUME WriteFails PROVE TotalInv'
  <2>1. UNCHANGED <<generateOnly, failed, log>> /\ exit' = 1 /\ faults' > 0
    BY <1>1, <1>6, FaultType DEF WriteFails, Return, totals, input
  <2> QED BY TotalSame, <2>1
<1>7. ASSUME Generate PROVE TotalInv'
  <2>1. UNCHANGED <<generateOnly, failed, exit>> /\ exit' = -1
    BY <1>1, <1>7 DEF Generate, input
  <2>2. CASE generateOnly
    BY <2>1, <2>2 DEF TotalInv
  <2>3. CASE ~generateOnly
    <3>1. log' = log
      BY <1>7, <2>3 DEF Generate
    <3> QED BY TotalSame, <2>1, <3>1
  <2> QED BY <2>2, <2>3
<1>8. ASSUME NextSuite PROVE TotalInv'
  BY <1>1, TotalSame, <1>8 DEF NextSuite, totals, input
<1>9. ASSUME Results PROVE TotalInv'
  <2>1. /\ UNCHANGED <<generateOnly, failed, log>>
        /\ exit' = IF ~generateOnly /\ failed > 0 THEN 1 ELSE 0
    BY <1>9 DEF Results, Return, totals, input
  <2> QED BY <1>1, TotalSame, <2>1
<1>10. ASSUME NEW a \in BOOLEAN, NEW f \in BOOLEAN, pc \in InCase, Judge(a, f),
              f \/ Right(Verdict(a, f))
       PROVE  TotalInv'
  <2> DEFINE e == Verdict(a, f)
  <2>1. /\ log' = Append(log, e) /\ e \in Records /\ e.faulty = f /\ e.case = Case
        /\ e.result = IF a THEN "accepted" ELSE "rejected"
        /\ UNCHANGED <<generateOnly, exit>> /\ ~generateOnly /\ Case.expect \in BOOLEAN
    BY <1>10, JudgeFacts DEF input
  <2>2. IF a = Case.expect THEN failed' = failed ELSE failed' = failed + 1
    BY <1>10, JudgeFacts
  <2>3. Passable(e)
    BY <1>10, <2>1 DEF Passable
  <2>4. failed' = 0 => failed = 0 /\ Fit(e)
    BY <1>1, <2>1, <2>2 DEF Fit
  <2>5. exit' = -1
    BY <1>1, <1>10, <2>1 DEF InCase
  <2> HIDE DEF e
  <2>6. /\ DOMAIN log' = 1 .. Len(log) + 1 /\ DOMAIN log = 1 .. Len(log)
        /\ \A k \in 1 .. Len(log) : log'[k] = log[k]
        /\ log'[Len(log) + 1] = e
    BY <1>1, <2>1, AppendFacts
  <2>7. /\ \A k \in DOMAIN log' : Passable(log'[k])
        /\ failed' = 0 => \A k \in DOMAIN log' : Fit(log'[k])
    <3> SUFFICES ASSUME NEW k \in 1 .. Len(log) + 1
                 PROVE  Passable(log'[k]) /\ (failed' = 0 => Fit(log'[k]))
      BY <2>6
    <3>1. CASE k = Len(log) + 1
      BY <2>3, <2>4, <2>6, <3>1
    <3>2. CASE k # Len(log) + 1
      <4>1. k \in DOMAIN log /\ log'[k] = log[k]
        BY <1>1, <2>6, <3>2
      <4> QED BY <1>2, <2>1, <2>4, <4>1
    <3> QED BY <3>1, <3>2
  <2>8. /\ (\A k \in DOMAIN log : log[k].faulty \/ Right(log[k]))'
        /\ failed' = 0 => (\A k \in DOMAIN log : Fit(log[k]))'
    BY <2>7 DEF Passable
  <2>9. exit' # 0 /\ exit' # 1
    BY <2>5
  <2> QED BY <2>8, <2>9 DEF TotalInv
<1>11. ASSUME pc \in InCase, Quiet PROVE TotalInv'
  <2>1. UNCHANGED <<generateOnly, failed, log, exit>> /\ exit' = -1
    BY <1>1, <1>11 DEF Quiet, totals, input, InCase
  <2> QED BY TotalSame, <2>1
<1> QED BY <1>4, <1>5, <1>6, <1>7, <1>8, <1>9, <1>10, <1>11 DEF Run
-----------------------------------------------------------------------------
(* The theorems.                                                           *)

LEMMA Initially == Init => IInv
<1> SUFFICES ASSUME Init PROVE IInv
  OBVIOUS
<1>1. TypeInv
  BY TypeInit
<1>2. pc = "start" /\ suites = <<>> /\ s = 1 /\ log = <<>> /\ exit = -1
  BY DEF Init
<1>3. PlaceInv /\ OrderInv
  BY <1>2 DEF PlaceInv, OrderInv, InSuite, InCase
<1>4. DOMAIN log = {}
  BY <1>2
<1>5. TotalInv
  BY <1>2, <1>4 DEF TotalInv
<1>6. MelangeInv
  BY <1>2 DEF MelangeInv, EnvInv, StepInv, VirtualInv
<1> QED BY <1>1, <1>3, <1>5, <1>6 DEF IInv, RunnerInv

LEMMA Step == IInv /\ [Next]_vars => IInv'
<1> SUFFICES ASSUME IInv, [Next]_vars PROVE IInv'
  OBVIOUS
<1>1. TypeInv /\ PlaceInv /\ OrderInv /\ TotalInv /\ MelangeInv
  BY DEF IInv, RunnerInv
<1>2. CASE Run
  <2>1. TypeInv' /\ PlaceInv' /\ OrderInv' /\ TotalInv'
    BY <1>1, <1>2, TypeRun, PlaceKept, OrderKept, TotalKept
  <2>2. MelangeInv'
    <3>1. pc' \notin {"step", "virtual"}
      BY <1>2 DEF Run, Discover, LoadTestSuite, WriteFails, Generate, NextSuite, Results, Return
    <3> QED BY <3>1 DEF MelangeInv, EnvInv, StepInv, VirtualInv
  <2> QED BY <2>1, <2>2 DEF IInv, RunnerInv
<1>3. CASE Melange
  <2>1. pc \in InCase /\ MelangeTypes
    BY <1>1, <1>3, MelangeForm
  <2>2. CASE Quiet /\ MelangeInv'
    <3>1. TypeInv' /\ PlaceInv' /\ OrderInv' /\ TotalInv'
      BY <1>1, <2>1, <2>2, TypeQuiet, PlaceKept, OrderKept, TotalKept
    <3> QED BY <2>2, <3>1 DEF IInv, RunnerInv
  <2>3. CASE Good
    <3>1. PICK a \in BOOLEAN, f \in BOOLEAN : Judge(a, f) /\ (f \/ Right(Verdict(a, f)))
      BY <2>3 DEF Good
    <3>2. TypeInv' /\ PlaceInv' /\ OrderInv' /\ TotalInv'
      BY <1>1, <2>1, <3>1, TypeJudge, PlaceKept, OrderKept, TotalKept
    <3>3. pc' = "case"
      BY <3>1 DEF Judge
    <3>4. MelangeInv'
      BY <3>3 DEF MelangeInv, EnvInv, StepInv, VirtualInv
    <3> QED BY <3>2, <3>4 DEF IInv, RunnerInv
  <2> QED BY <1>1, <1>3, <2>2, <2>3, MelangeTells
<1>4. CASE UNCHANGED vars
  <2>1. /\ UNCHANGED <<dir, only, generateOnly, pc, suites, s, i, out>>
        /\ UNCHANGED <<env, step, count, vp, blurred>>
        /\ UNCHANGED <<passed, failed, failures, log, exit, faults>>
    BY <1>4 DEF vars, input, melange, totals
  <2>2. TypeInv'
    BY <1>1, <2>1 DEF TypeInv, TypeOK, ToSet
  <2>3. Case' = Case /\ Ordered(suites[s])' = Ordered(suites[s])
    BY <2>1, SuitesSame DEF Case
  <2>4. PlaceInv'
    BY <1>1, <2>1, <2>3 DEF PlaceInv, Config, Slot, Path, Dir
  <2>5. OrderInv'
    <3>1. Logged' = Logged /\ Run0(s - 1)' = Run0(s - 1) /\ FlattenSeq(Orders)' = FlattenSeq(Orders)
      BY <2>1, SuitesSame DEF Logged, FlattenSeq
    <3> QED BY <1>1, <2>1, <2>3, <3>1 DEF OrderInv
  <2>6. TotalInv'
    <3>1. /\ exit' = 0 => generateOnly \/ failed = 0
          /\ exit' = 1 => \/ failed > 0 \/ faults' > 0
                          \/ suites' = <<>> \/ \E g \in ToSet(suites') : ~Loads(g)
      BY <1>1, <2>1 DEF TotalInv
    <3> QED BY <1>1, <2>1, <3>1, TotalSame
  <2>7. MelangeInv'
    <3>1. EnvInv'
      BY <1>1, <2>1, <2>3 DEF MelangeInv, EnvInv, Expected
    <3>2. StepInv'
      BY <1>1, <2>1, <2>3 DEF MelangeInv, StepInv, Met, FoundElsewhere
    <3>3. VirtualInv'
      <4>1. TotalApkCount(env') = TotalApkCount(env)
        BY <2>1
      <4> QED BY <1>1, <2>1, <2>3, <4>1 DEF MelangeInv, VirtualInv
    <3> QED BY <3>1, <3>2, <3>3 DEF MelangeInv
  <2> QED BY <2>2, <2>4, <2>5, <2>6, <2>7 DEF IInv, RunnerInv
<1> QED BY <1>2, <1>3, <1>4 DEF Next

LEMMA Always == Spec => []IInv
BY Initially, Step, PTL DEF Spec

(* Every variable keeps its type, and the totals count each case once.     *)
THEOREM TypeCorrect == Spec => []TypeOK
<1>1. IInv => TypeOK
  BY DEF IInv, RunnerInv, TypeInv
<1> QED BY <1>1, Always, PTL

(* What is said of all tests passing, or of a failure, is so: the cases    *)
(* that have run are those of the suites in their order, and unless a      *)
(* command failed the verdict on each is right.                            *)
THEOREM ExitIsEarned == Spec => []ExitEarned
<1>1. IInv => ExitEarned
  <2> SUFFICES ASSUME IInv PROVE ExitEarned
    OBVIOUS
  <2>1. /\ exit = 0 => Logged = FlattenSeq(Orders)
        /\ TotalInv
    BY DEF IInv, RunnerInv, OrderInv
  <2>2. exit = 0 => generateOnly \/ \A k \in DOMAIN log :
           /\ log[k].result = IF log[k].case.expect THEN "accepted" ELSE "rejected"
           /\ log[k].faulty \/ Right(log[k])
    BY <2>1 DEF TotalInv, Fit
  <2> QED BY <2>1, <2>2 DEF ExitEarned, Logged, Orders, TotalInv
<1> QED BY <1>1, Always, PTL

(* The runner puts positive cases first, and loses none: what it runs of a *)
(* suite are the cases of its file, each as often as it stands there.      *)
THEOREM NoCaseIsLost ==
  ASSUME NEW f \in SuiteFile
  PROVE  /\ Len(Ordered(f)) = Len(f.cases) /\ ToSet(Ordered(f)) = ToSet(f.cases)
         /\ \A j, k \in 1 .. Len(Ordered(f)) :
              j < k /\ Ordered(f)[k].expect => Ordered(f)[j].expect
<1> DEFINE q == f.cases
           pos == {k \in DOMAIN q : q[k].expect}
           a == At(q, pos)
           b == At(q, DOMAIN q \ pos)
<1>1. q \in Seq(TestCase) /\ DOMAIN q = 1 .. Len(q)
  <2>1. q \in Seq(TestCase)
    BY DEF SuiteFile
  <2> QED BY <2>1
<1>2. Ordered(f) = a \o b
  BY DEF Ordered
<1>3. a \in Seq(TestCase) /\ b \in Seq(TestCase)
  BY <1>1, AtType
<1>4. /\ ToSet(a) = {q[k] : k \in pos \cap (1 .. Len(q))}
      /\ ToSet(b) = {q[k] : k \in (DOMAIN q \ pos) \cap (1 .. Len(q))}
      /\ Len(a) + Len(b) = Len(q)
  <2> HIDE DEF q, pos
  <2> QED BY <1>1, AtElements
<1>5. ToSet(q) = {q[k] : k \in 1 .. Len(q)}
  BY <1>1 DEF ToSet
<1>6. /\ \A x \in ToSet(a) : x.expect
      /\ \A x \in ToSet(b) : ~x.expect
      /\ ToSet(a) \cup ToSet(b) = ToSet(q)
  <2> HIDE DEF a, b, q
  <2> QED BY <1>1, <1>4, <1>5
<1>7. /\ Len(a \o b) = Len(a) + Len(b) /\ Len(a) \in Nat /\ Len(b) \in Nat
      /\ \A k \in 1 .. Len(a) : (a \o b)[k] = a[k]
      /\ \A k \in 1 .. Len(b) : (a \o b)[Len(a) + k] = b[k]
      /\ DOMAIN (a \o b) = 1 .. Len(a) + Len(b)
  <2> HIDE DEF a, b
  <2> QED BY <1>3
<1> DEFINE o == a \o b
<1> HIDE DEF o
<1>8. ASSUME NEW k \in 1 .. Len(a) + Len(b)
      PROVE  IF k <= Len(a) THEN o[k] = a[k] /\ o[k] \in ToSet(a)
             ELSE o[k] = b[k - Len(a)] /\ o[k] \in ToSet(b)
  <2> HIDE DEF a, b
  <2>1. CASE k <= Len(a)
    <3>1. k \in 1 .. Len(a) /\ k \in DOMAIN a
      BY <1>3, <1>7, <2>1
    <3> QED BY <1>7, <2>1, <3>1 DEF o, ToSet
  <2>2. CASE ~(k <= Len(a))
    <3> DEFINE l == k - Len(a)
    <3>1. l \in 1 .. Len(b) /\ l \in DOMAIN b /\ Len(a) + l = k
      BY <1>3, <1>7, <2>2
    <3> HIDE DEF l
    <3>2. o[k] = b[l] /\ o[k] \in ToSet(b)
      BY <1>7, <3>1 DEF o, ToSet
    <3> QED BY <2>2, <3>2 DEF l
  <2> QED BY <2>1, <2>2
<1>9. ToSet(o) = ToSet(a) \cup ToSet(b)
  <2> HIDE DEF a, b
  <2>1. ASSUME NEW x \in ToSet(o) PROVE x \in ToSet(a) \cup ToSet(b)
    <3>1. PICK k \in 1 .. Len(a) + Len(b) : x = o[k]
      BY <1>7 DEF ToSet, o
    <3> QED BY <1>8, <3>1
  <2>2. ASSUME NEW x \in ToSet(a) PROVE x \in ToSet(o)
    <3>1. PICK k \in 1 .. Len(a) : x = a[k]
      BY <1>3 DEF ToSet
    <3>2. k \in DOMAIN o /\ o[k] = x
      BY <1>7, <3>1 DEF o
    <3> QED BY <3>2 DEF ToSet
  <2>3. ASSUME NEW x \in ToSet(b) PROVE x \in ToSet(o)
    <3>1. PICK k \in 1 .. Len(b) : x = b[k]
      BY <1>3 DEF ToSet
    <3>2. Len(a) + k \in DOMAIN o /\ o[Len(a) + k] = x
      BY <1>7, <3>1 DEF o
    <3> QED BY <3>2 DEF ToSet
  <2> QED BY <2>1, <2>2, <2>3
<1>10. ASSUME NEW j \in 1 .. Len(o), NEW k \in 1 .. Len(o), j < k, o[k].expect
       PROVE  o[j].expect
  <2> HIDE DEF a, b
  <2>1. j \in 1 .. Len(a) + Len(b) /\ k \in 1 .. Len(a) + Len(b)
    BY <1>7 DEF o
  <2>2. k <= Len(a)
    BY <1>6, <1>8, <1>10, <2>1
  <2>3. j <= Len(a)
    BY <1>7, <1>10, <2>1, <2>2
  <2> QED BY <1>6, <1>8, <2>1, <2>3
<1> HIDE DEF a, b, q
<1>11. Ordered(f) = o
  BY <1>2 DEF o
<1>12. Len(o) = Len(q)
  BY <1>4, <1>7 DEF o
<1> QED BY <1>6, <1>9, <1>10, <1>11, <1>12 DEF q
=============================================================================
