--------------------------- MODULE OptimizerProofs ---------------------------
(***************************************************************************)
(* Verified bytecode stays inside its registers, and the optimizer makes   *)
(* verified bytecode of verified bytecode, for every module, every         *)
(* argument, every option and every constant.                              *)
(*                                                                         *)
(* The interpreter: every instruction that the verifier accepts keeps      *)
(* Sound, by cases over the handlers; a run is a course of such steps.     *)
(* The optimizer: what the verifier asks is split into Fits, which is      *)
(* about one instruction at one place.  Each pass is shown to put only     *)
(* instructions in place that fit, the passes that move code (cleanup and  *)
(* inline_small) by following each jump to the place its target gets.      *)
(*                                                                         *)
(* The passes that rewrite instructions in place (peephole, const_fold,    *)
(* copy_prop and dce) keep what every function does.  Such a pass works    *)
(* from facts: for each instruction, the registers that can be there       *)
(* before it.  Facts that go on to hold from instruction to instruction    *)
(* hold in every run, of activations that wait for a call too; where they  *)
(* hold, the new instruction does what the old one did (Alike); so the     *)
(* two modules run in lockstep, step for step.                             *)
(***************************************************************************)
EXTENDS Optimizer, SequenceTheorems, FiniteSetTheorems, WellFoundedInduction, TLAPS

-----------------------------------------------------------------------------
(* Sequences, folds and counting                                           *)

\* A sequence over some set: which one does not matter here.
IsSequence(s) == \E S : s \in Seq(S)

\* A function with domain D: what TLA+ says of it without a range.
OnDomain(D, f) == f = [r \in D |-> f[r]]

\* A sequence is a function on 1..Len(s).
LEMMA SequenceDomain ==
    ASSUME NEW s, IsSequence(s)
    PROVE  DOMAIN s = 1..Len(s) /\ Len(s) \in Nat /\ (s # <<>> <=> Len(s) # 0) /\ OnDomain(1..Len(s), s)
<1>1. PICK S : s \in Seq(S)
  BY DEF IsSequence
<1> QED
  BY <1>1 DEF OnDomain

\* A function on 1..n is a sequence of length n.
LEMMA DomainSequence ==
    ASSUME NEW s, NEW n \in Nat, OnDomain(1..n, s)
    PROVE  IsSequence(s) /\ Len(s) = n /\ DOMAIN s = 1..n
<1> DEFINE T == {s[k] : k \in 1..n}
<1>1. s \in [1..n -> T]
  BY DEF OnDomain
<1>2. s \in Seq(T)
  BY <1>1
<1> HIDE DEF T
<1>3. Len(s) = n
  BY <1>1, <1>2
<1> QED
  BY <1>1, <1>2, <1>3 DEF IsSequence

\* Appending to a sequence of any elements.
LEMMA AppendIsSequence ==
    ASSUME NEW s, NEW x, IsSequence(s)
    PROVE  /\ IsSequence(Append(s, x))
           /\ Len(Append(s, x)) = Len(s) + 1 /\ Len(s) \in Nat
           /\ DOMAIN Append(s, x) = 1..Len(s) + 1 /\ DOMAIN s = 1..Len(s)
           /\ \A k \in DOMAIN s : Append(s, x)[k] = s[k]
           /\ Append(s, x)[Len(s) + 1] = x
<1>1. PICK S : s \in Seq(S)
  BY DEF IsSequence
<1>2. s \in Seq(S \cup {x}) /\ x \in S \cup {x}
  BY <1>1
<1> DEFINE T == S \cup {x}
<1> HIDE DEF T
<1>3. s \in Seq(T) /\ x \in T
  BY <1>2 DEF T
<1>4. Append(s, x) \in Seq(T) /\ Len(Append(s, x)) = Len(s) + 1
  BY <1>3
<1>5. /\ Len(s) \in Nat /\ DOMAIN s = 1..Len(s) /\ DOMAIN Append(s, x) = 1..Len(s) + 1
      /\ \A k \in DOMAIN s : Append(s, x)[k] = s[k]
      /\ Append(s, x)[Len(s) + 1] = x
  BY <1>3
<1> QED
  BY <1>4, <1>5 DEF IsSequence

\* A prefix of a sequence of any elements.
LEMMA PrefixIsSequence ==
    ASSUME NEW s, IsSequence(s), NEW n \in 0..Len(s)
    PROVE  /\ IsSequence(SubSeq(s, 1, n)) /\ Len(SubSeq(s, 1, n)) = n
           /\ \A k \in 1..n : SubSeq(s, 1, n)[k] = s[k]
<1>1. PICK S : s \in Seq(S)
  BY DEF IsSequence
<1>2. SubSeq(s, 1, n) \in Seq(S) /\ Len(SubSeq(s, 1, n)) = n /\ \A k \in 1..n : SubSeq(s, 1, n)[k] = s[k]
  BY <1>1
<1> QED
  BY <1>2 DEF IsSequence

\* Concatenating sequences of any elements.
LEMMA ConcatIsSequence ==
    ASSUME NEW s, NEW t, IsSequence(s), IsSequence(t)
    PROVE  /\ IsSequence(s \o t) /\ Len(s) \in Nat /\ Len(t) \in Nat
           /\ Len(s \o t) = Len(s) + Len(t)
           /\ \A k \in 1..Len(s) : (s \o t)[k] = s[k]
           /\ \A k \in 1..Len(t) : (s \o t)[Len(s) + k] = t[k]
<1>1. PICK S : s \in Seq(S)
  BY DEF IsSequence
<1>2. PICK T : t \in Seq(T)
  BY DEF IsSequence
<1> DEFINE U == S \cup T
<1>3. s \in Seq(U) /\ t \in Seq(U)
  <2>1. \A x \in S : x \in U
    OBVIOUS
  <2>2. \A x \in T : x \in U
    OBVIOUS
  <2> HIDE DEF U
  <2> QED
    BY <1>1, <1>2, <2>1, <2>2
<1> HIDE DEF U
<1>4. /\ s \o t \in Seq(U) /\ Len(s \o t) = Len(s) + Len(t)
      /\ \A i \in 1..Len(s) + Len(t) : (s \o t)[i] = IF i <= Len(s) THEN s[i] ELSE t[i - Len(s)]
  BY <1>3, ConcatProperties
<1>5. Len(s) \in Nat /\ Len(t) \in Nat
  BY <1>3
<1> DEFINE a == Len(s)
           b == Len(t)
           r == s \o t
<1>6. a \in Nat /\ b \in Nat /\ \A i \in 1..a + b : r[i] = IF i <= a THEN s[i] ELSE t[i - a]
  BY <1>4, <1>5
<1> HIDE DEF a, b, r
<1>7. \A k \in 1..a : r[k] = s[k]
  BY <1>6
<1>8. ASSUME NEW k \in 1..b PROVE r[a + k] = t[k]
  <2>1. a + k \in 1..a + b /\ ~(a + k <= a) /\ (a + k) - a = k
    BY <1>6
  <2> QED
    BY <1>6, <2>1
<1> QED
  BY <1>4, <1>5, <1>7, <1>8 DEF IsSequence, a, b, r

\* Sequences over one set.
Lettered(n, parts) == \E T : parts \in [1..n -> Seq(T)]

\* Finitely many sequences are sequences over one set.
LEMMA CommonAlphabet ==
    ASSUME NEW n \in Nat, NEW parts, OnDomain(1..n, parts), \A k \in 1..n : IsSequence(parts[k])
    PROVE  Lettered(n, parts)
<1> DEFINE T == UNION {{parts[k][j] : j \in DOMAIN parts[k]} : k \in 1..n}
<1>1. ASSUME NEW k \in 1..n PROVE parts[k] \in Seq(T)
  <2>1. PICK S : parts[k] \in Seq(S)
    BY DEF IsSequence
  <2>2. \A j \in 1..Len(parts[k]) : parts[k][j] \in T
    BY <2>1
  <2> HIDE DEF T
  <2> QED
    BY <2>1, <2>2
<1> HIDE DEF T
<1>2. parts \in [1..n -> Seq(T)]
  BY <1>1 DEF OnDomain
<1> QED
  BY <1>2 DEF Lettered

\* Max of a set of small numbers is its largest element.
LEMMA MaxIn ==
    ASSUME NEW S, NEW n \in Nat, S \subseteq 1..n, S # {}
    PROVE  Max(S) \in S /\ \A x \in S : x <= Max(S)
<1> DEFINE R == {n - x : x \in S}
<1>1. R \in SUBSET Nat /\ R # {}
  <2>1. \A x \in S : n - x \in Nat
    OBVIOUS
  <2> QED
    BY <2>1
<1> HIDE DEF R
<1>2. PICK y \in R : \A z \in R : ~(z < y)
  <2>1. \E x \in R : \A z \in R : <<z, x>> \notin OpToRel(<, Nat)
    BY <1>1, NatLessThanWellFounded, WFMin
  <2> QED
    BY <1>1, <2>1 DEF OpToRel
<1>3. PICK x \in S : y = n - x
  BY DEF R
<1>4. \A z \in S : z <= x
  <2>1. TAKE z \in S
  <2>2. n - z \in R
    BY DEF R
  <2>3. ~(n - z < n - x)
    BY <1>2, <1>3, <2>2
  <2> QED
    BY <2>3
<1>5. \E z \in S : \A w \in S : w <= z
  BY <1>4
<1> QED
  BY <1>5 DEF Max

\* Every nonempty set of numbers has a least element.
LEMMA LeastNumber ==
    ASSUME NEW S \in SUBSET Nat, S # {}
    PROVE  \E x \in S : \A y \in S : x <= y
<1> DEFINE R == OpToRel(<, Nat)
<1>1. \E x \in S : \A y \in S : <<y, x>> \notin R
  BY NatLessThanWellFounded, WFMin
<1>2. \A x, y \in Nat : <<y, x>> \notin R => x <= y
  BY DEF OpToRel
<1> QED
  BY <1>1, <1>2

\* Induction over numbers, for membership in a set.
LEMMA CountingInduction ==
    ASSUME NEW T, 0 \in T, \A n \in Nat : n \in T => n + 1 \in T
    PROVE  Nat \subseteq T
<1> SUFFICES ASSUME Nat \ T # {} PROVE FALSE
  OBVIOUS
<1>1. PICK x \in Nat \ T : \A y \in Nat \ T : x <= y
  BY LeastNumber
<1>2. x # 0 /\ x - 1 \in Nat /\ x - 1 \notin Nat \ T
  BY <1>1
<1> QED
  BY <1>2

\* Finitely many numbers have a bound.
LEMMA BoundExists ==
    ASSUME NEW n \in Nat, NEW h \in [1..n -> Nat]
    PROVE  \E b \in Nat : \A k \in 1..n : h[k] <= b
<1> DEFINE Bounded(m) == \E b \in Nat : \A k \in 1..n : k <= m => h[k] <= b
           U == {m \in Nat : Bounded(m)}
<1>1. Bounded(0)
  OBVIOUS
<1>2. ASSUME NEW m \in Nat, Bounded(m) PROVE Bounded(m + 1)
  <2>1. PICK b \in Nat : \A k \in 1..n : k <= m => h[k] <= b
    BY <1>2
  <2>2. CASE m + 1 \in 1..n
    <3> DEFINE c == b + h[m + 1]
    <3>1. c \in Nat /\ h[m + 1] \in Nat
      BY <2>2
    <3>2. ASSUME NEW k \in 1..n, k <= m + 1 PROVE h[k] <= c
      <4>1. CASE k = m + 1
        BY <3>1, <4>1
      <4>2. CASE k # m + 1
        <5>1. k <= m /\ h[k] <= b /\ h[k] \in Nat
          BY <2>1, <3>2, <4>2
        <5> QED
          BY <3>1, <5>1
      <4> QED
        BY <4>1, <4>2
    <3> HIDE DEF c
    <3> QED
      BY <3>1, <3>2
  <2>3. CASE m + 1 \notin 1..n
    <3>1. \A k \in 1..n : k <= m + 1 => k <= m
      BY <2>3
    <3> QED
      BY <2>1, <3>1
  <2> QED
    BY <2>2, <2>3
<1> HIDE DEF Bounded
<1>3. Nat \subseteq U
  <2>1. 0 \in U /\ \A k \in Nat : k \in U => k + 1 \in U
    BY <1>1, <1>2
  <2> HIDE DEF U
  <2> QED
    BY <2>1, CountingInduction
<1>4. Bounded(n)
  BY <1>3
<1> QED
  BY <1>4 DEF Bounded

\* g follows the step from its first value, n times.
Along(n, first, step, g) ==
    \A k \in 1..n : g[k] = IF k = 1 THEN first ELSE step[k][g[k - 1]]

\* A function on 1..n defined along its domain exists.
LEMMA SequenceRecursion ==
    ASSUME NEW V, NEW n \in Nat, NEW first \in V, NEW step \in [1..n -> [V -> V]]
    PROVE  \E g \in [1..n -> V] : Along(n, first, step, g)
<1> DEFINE Upto(p, g) == Along(p, first, step, g)
           Reaches(p) == \E g \in [1..p -> V] : Upto(p, g)
           T == {p \in Nat : p <= n => Reaches(p)}
<1>1. 0 \in T
  <2>1. [k \in 1..0 |-> first] \in [1..0 -> V] /\ Upto(0, [k \in 1..0 |-> first])
    BY DEF Along
  <2>2. Reaches(0)
    BY <2>1
  <2> HIDE DEF Reaches
  <2> QED
    BY <2>2
<1>2. ASSUME NEW p \in Nat, p \in T PROVE p + 1 \in T
  <2>1. SUFFICES ASSUME p + 1 <= n PROVE Reaches(p + 1)
    <3> HIDE DEF Reaches
    <3> QED
      OBVIOUS
  <2>0. Reaches(p)
    <3> HIDE DEF Reaches
    <3> QED
      BY <1>2, <2>1
  <2>2. PICK g \in [1..p -> V] : Upto(p, g)
    BY <2>0
  <2> DEFINE new == IF p = 0 THEN first ELSE step[p + 1][g[p]]
             h == [k \in 1..p + 1 |-> IF k = p + 1 THEN new ELSE g[k]]
  <2>3. new \in V
    <3>1. p # 0 => g[p] \in V /\ step[p + 1] \in [V -> V]
      BY <2>1
    <3> QED
      BY <3>1
  <2>4. h \in [1..p + 1 -> V]
    BY <2>3
  <2>5. (\A k \in 1..p : h[k] = g[k]) /\ h[p + 1] = new
    OBVIOUS
  <2> HIDE DEF h
  <2>6. ASSUME NEW k \in 1..p + 1 PROVE h[k] = IF k = 1 THEN first ELSE step[k][h[k - 1]]
    <3>1. CASE k = p + 1
      <4>1. p # 0 => p \in 1..p
        OBVIOUS
      <4> QED
        BY <2>5, <3>1, <4>1
    <3>2. CASE k # p + 1
      <4>1. k \in 1..p /\ (k # 1 => k - 1 \in 1..p)
        BY <3>2
      <4> QED
        BY <2>2, <2>5, <4>1 DEF Along
    <3> QED
      BY <3>1, <3>2
  <2> QED
    BY <2>4, <2>6 DEF Along
<1>3. Nat \subseteq T
  <2> HIDE DEF T
  <2> QED
    BY <1>1, <1>2, CountingInduction
<1>4. Reaches(n)
  <2> HIDE DEF Reaches
  <2> QED
    BY <1>3
<1> QED
  BY <1>4

\* How many elements of a set of numbers are at most n.
UpTo(S, n) == Cardinality({k \in S : k <= n})

\* The elements of S up to each number are as many as counting them gives.
Counts(S, L) ==
    /\ Cardinality(S) \in Nat /\ UpTo(S, 0) = 0 /\ UpTo(S, L) = Cardinality(S)
    /\ \A n \in Nat : UpTo(S, n) \in 0..Cardinality(S)
    /\ \A n \in Nat : UpTo(S, n + 1) = IF n + 1 \in S THEN UpTo(S, n) + 1 ELSE UpTo(S, n)
    /\ \A n \in S : UpTo(S, n) # 0

\* UpTo counts: it rises by one at each element of the set.
LEMMA CountedUpTo ==
    ASSUME NEW L \in Nat, NEW S, S \subseteq 1..L
    PROVE  Counts(S, L)
<1> DEFINE low(n) == {k \in S : k <= n}
<1>0. \A k \in S : k \in Nat /\ 1 <= k /\ k <= L
  OBVIOUS
<1>1. IsFiniteSet(S) /\ Cardinality(S) \in Nat
  <2>1. IsFiniteSet(1..L)
    BY FS_Interval
  <2> QED
    BY <2>1, FS_Subset, FS_CardinalityType
<1>2. low(0) = {} /\ low(L) = S
  <2>0. \A k \in S : ~(k <= 0) /\ k <= L
    BY <1>0
  <2>1. \A k : k \notin low(0) /\ (k \in low(L) <=> k \in S)
    BY <2>0, Zenon
  <2> HIDE DEF low
  <2> QED
    BY <2>1
<1>3. \A n \in Nat : IsFiniteSet(low(n)) /\ Cardinality(low(n)) \in Nat /\ Cardinality(low(n)) <= Cardinality(S)
  <2> TAKE n \in Nat
  <2>1. low(n) \in SUBSET S
    OBVIOUS
  <2> HIDE DEF low
  <2> QED
    BY <1>1, <2>1, FS_Subset, FS_CardinalityType
<1>4. ASSUME NEW n \in Nat
      PROVE  Cardinality(low(n + 1)) = IF n + 1 \in S THEN Cardinality(low(n)) + 1 ELSE Cardinality(low(n))
  <2>1. n + 1 \in S => low(n + 1) = low(n) \cup {n + 1}
    <3>0. (\A k \in S : k <= n + 1 <=> k <= n \/ k = n + 1) /\ n + 1 <= n + 1
      BY <1>0
    <3>1. n + 1 \in S => \A k : k \in low(n + 1) <=> k \in low(n) \/ k = n + 1
      BY <3>0, Zenon
    <3> HIDE DEF low
    <3> QED
      BY <3>1
  <2>2. n + 1 \notin S => low(n + 1) = low(n)
    <3>0. n + 1 \notin S => \A k \in S : k <= n + 1 <=> k <= n
      BY <1>0
    <3>1. n + 1 \notin S => \A k : k \in low(n + 1) <=> k \in low(n)
      BY <3>0, Zenon
    <3> HIDE DEF low
    <3> QED
      BY <3>1
  <2>3. n + 1 \notin low(n)
    OBVIOUS
  <2> HIDE DEF low
  <2> QED
    BY <1>3, <2>1, <2>2, <2>3, FS_AddElement
<1>5. \A n \in S : low(n) # {}
  OBVIOUS
<1>6. \A n : UpTo(S, n) = Cardinality(low(n))
  BY DEF UpTo
<1> HIDE DEF low
<1>7. \A n \in S : n \in Nat
  OBVIOUS
<1> QED
  BY <1>1, <1>2, <1>3, <1>4, <1>5, <1>6, <1>7, FS_EmptySet DEF Counts

\* Some element of S is its m-th.
RankIsTaken(S, m) == \E k \in S : UpTo(S, k) = m

\* Every rank up to the size of the set is that of one of its elements.
LEMMA RankTaken ==
    ASSUME NEW L \in Nat, NEW S, S \subseteq 1..L, NEW m \in 1..Cardinality(S)
    PROVE  RankIsTaken(S, m)
<1> DEFINE T == {n \in Nat : UpTo(S, n) >= m}
<1>1. /\ Cardinality(S) \in Nat /\ UpTo(S, 0) = 0 /\ UpTo(S, L) = Cardinality(S)
      /\ \A n \in Nat : UpTo(S, n) \in 0..Cardinality(S)
      /\ \A n \in Nat : UpTo(S, n + 1) = IF n + 1 \in S THEN UpTo(S, n) + 1 ELSE UpTo(S, n)
  <2>1. Counts(S, L)
    BY CountedUpTo
  <2> QED
    BY <2>1 DEF Counts
<1>2. T \in SUBSET Nat /\ L \in T
  BY <1>1
<1>3. PICK n \in T : \A y \in T : n <= y
  <2> HIDE DEF T
  <2> QED
    BY <1>2, LeastNumber
<1>4. n # 0 /\ n - 1 \in Nat /\ n - 1 \notin T
  BY <1>1, <1>2, <1>3
<1>5. UpTo(S, n - 1) < m /\ UpTo(S, n - 1) \in Nat /\ UpTo(S, n) >= m
  BY <1>1, <1>3, <1>4
<1>6. UpTo(S, n) = IF n \in S THEN UpTo(S, n - 1) + 1 ELSE UpTo(S, n - 1)
  <2>1. n - 1 + 1 = n
    BY <1>4
  <2> QED
    BY <1>1, <1>4, <2>1
<1>7. n \in S /\ UpTo(S, n) = m
  BY <1>5, <1>6
<1> QED
  BY <1>7 DEF RankIsTaken

\* FlattenSeq, one piece after the other: g[m] is the first m pieces.
Prefix(parts, m) == [k \in 1..m |-> parts[k]]

\* g[m] is the concatenation of the first m parts.
Flattens(n, parts, g) ==
    /\ g[0] = <<>>
    /\ \A m \in 1..n : g[m] = g[m - 1] \o parts[m]
    /\ \A m \in 0..n : FlattenSeq(Prefix(parts, m)) = g[m]

\* FlattenSeq concatenates its pieces in order.
LEMMA FlattenIs ==
    ASSUME NEW T, NEW n \in Nat, NEW parts \in [1..n -> Seq(T)]
    PROVE  \E g \in [0..n -> Seq(T)] : Flattens(n, parts, g)
<1>1. CASE n = 0
  <2> DEFINE g == [m \in 0..n |-> <<>>]
  <2>1. g \in [0..n -> Seq(T)] /\ g[0] = <<>> /\ 1..n = {} /\ 0..n = {0}
    BY <1>1
  <2>2. FlattenSeq(Prefix(parts, 0)) = <<>>
    <3>1. Prefix(parts, 0) = <<>>
      BY DEF Prefix
    <3> QED
      BY <3>1 DEF FlattenSeq
  <2> HIDE DEF g
  <2> QED
    BY <2>1, <2>2 DEF Flattens
<1>2. CASE n # 0
  <2> DEFINE V == Seq(T)
             step == [k \in 1..n |-> [s \in V |-> s \o parts[k]]]
  <2>1. parts[1] \in V /\ step \in [1..n -> [V -> V]]
    <3>1. \A k \in 1..n : \A s \in V : s \o parts[k] \in V
      OBVIOUS
    <3>2. 1 \in 1..n
      BY <1>2
    <3> HIDE DEF V
    <3> QED
      BY <3>1, <3>2 DEF V
  <2>2. PICK h \in [1..n -> V] : Along(n, parts[1], step, h)
    <3> HIDE DEF V, step
    <3> QED
      BY <2>1, SequenceRecursion
  <2>3. ASSUME NEW k \in 1..n
        PROVE  h[k] = IF k = 1 THEN parts[1] ELSE h[k - 1] \o parts[k]
    <3>1. h[k] = IF k = 1 THEN parts[1] ELSE step[k][h[k - 1]]
      BY <2>2 DEF Along
    <3>2. k # 1 => h[k - 1] \in V
      <4>1. k # 1 => k - 1 \in 1..n
        OBVIOUS
      <4> HIDE DEF V
      <4> QED
        BY <2>2, <4>1
    <3>3. k # 1 => step[k][h[k - 1]] = h[k - 1] \o parts[k]
      <4> HIDE DEF V
      <4> QED
        BY <3>2
    <3> QED
      BY <3>1, <3>3
  <2> DEFINE g == [m \in 0..n |-> IF m = 0 THEN <<>> ELSE h[m]]
  <2>4. g \in [0..n -> Seq(T)] /\ g[0] = <<>>
    <3>1. \A m \in 0..n : m # 0 => h[m] \in Seq(T)
      BY <2>2
    <3> QED
      BY <3>1
  <2>5. ASSUME NEW m \in 1..n PROVE g[m] = g[m - 1] \o parts[m]
    <3>1. CASE m = 1
      <4>1. parts[1] \in Seq(T) /\ g[m] = h[1] /\ g[m - 1] = <<>>
        BY <2>1, <3>1
      <4>2. <<>> \o parts[1] = parts[1]
        BY <4>1, ConcatEmptySeq
      <4> QED
        BY <2>3, <3>1, <4>1, <4>2
    <3>2. CASE m # 1
      <4>1. g[m] = h[m] /\ g[m - 1] = h[m - 1]
        BY <3>2
      <4> QED
        BY <2>3, <3>2, <4>1
    <3> QED
      BY <3>1, <3>2
  <2>6. ASSUME NEW m \in 0..n PROVE FlattenSeq(Prefix(parts, m)) = g[m]
    <3>1. CASE m = 0
      <4>1. Prefix(parts, 0) = <<>>
        BY DEF Prefix
      <4> QED
        BY <3>1, <4>1 DEF FlattenSeq
    <3>2. CASE m # 0
      <4> DEFINE seqs == Prefix(parts, m)
                 Body(f, i) == IF i = 1 THEN seqs[i] ELSE f[i - 1] \o seqs[i]
                 flatten == CHOOSE f : f = [i \in 1..m |-> Body(f, i)]
      <4>1. Len(seqs) = m /\ \A k \in 1..m : seqs[k] = parts[k]
        <5>1. OnDomain(1..m, seqs)
          BY DEF Prefix, OnDomain
        <5>2. \A k \in 1..m : seqs[k] = parts[k]
          BY DEF Prefix
        <5> HIDE DEF seqs
        <5> QED
          BY <5>1, <5>2, DomainSequence
      <4> HIDE DEF seqs
      <4>2. FlattenSeq(seqs) = flatten[m]
        BY <3>2, <4>1 DEF FlattenSeq
      <4>3. [i \in 1..m |-> h[i]] = [i \in 1..m |-> Body([j \in 1..m |-> h[j]], i)]
        <5> DEFINE f == [j \in 1..m |-> h[j]]
        <5>1. ASSUME NEW i \in 1..m PROVE h[i] = Body(f, i)
          <6>1. i \in 1..n /\ seqs[i] = parts[i] /\ (i # 1 => i - 1 \in 1..m)
            BY <4>1
          <6>2. i # 1 => f[i - 1] = h[i - 1]
            BY <6>1
          <6> HIDE DEF f
          <6> QED
            BY <2>3, <6>1, <6>2
        <5> HIDE DEF Body
        <5> QED
          BY <5>1
      <4>4. flatten = [i \in 1..m |-> Body(flatten, i)]
        <5> HIDE DEF Body
        <5> QED
          BY <4>3
      <4> HIDE DEF flatten
      <4>5. \A k \in 1..m : flatten[k] = h[k]
        <5> DEFINE Agree(k) == \A i \in 1..m : i <= k => flatten[i] = h[i]
                   U == {k \in Nat : Agree(k)}
        <5>1. Agree(0)
          OBVIOUS
        <5>2. ASSUME NEW k \in Nat, Agree(k) PROVE Agree(k + 1)
          <6>1. SUFFICES ASSUME NEW i \in 1..m, i <= k + 1 PROVE flatten[i] = h[i]
            OBVIOUS
          <6>2. flatten[i] = Body(flatten, i)
            <7> HIDE DEF Body
            <7> QED
              BY <4>4
          <6>3. i \in 1..n /\ seqs[i] = parts[i]
            BY <4>1
          <6>4. CASE i = 1
            BY <2>3, <6>2, <6>3, <6>4
          <6>5. CASE i # 1
            <7>1. i - 1 \in 1..m /\ i - 1 <= k
              BY <6>1, <6>5
            <7>2. flatten[i - 1] = h[i - 1]
              BY <5>2, <7>1
            <7>3. h[i] = h[i - 1] \o parts[i]
              BY <2>3, <6>3, <6>5
            <7> QED
              BY <6>2, <6>3, <6>5, <7>2, <7>3
          <6> QED
            BY <6>4, <6>5
        <5> HIDE DEF Agree
        <5>3. Nat \subseteq U
          <6>1. 0 \in U /\ \A k \in Nat : k \in U => k + 1 \in U
            BY <5>1, <5>2
          <6> HIDE DEF U
          <6> QED
            BY <6>1, CountingInduction
        <5>4. Agree(m)
          BY <5>3
        <5> QED
          BY <5>4 DEF Agree
      <4>6. flatten[m] = g[m]
        <5>1. m \in 1..m /\ g[m] = h[m]
          BY <3>2
        <5> QED
          BY <4>5, <5>1
      <4> QED
        BY <4>2, <4>6 DEF seqs
    <3> QED
      BY <3>1, <3>2
  <2> HIDE DEF g
  <2>7. Flattens(n, parts, g)
    BY <2>4, <2>5, <2>6 DEF Flattens
  <2> QED
    BY <2>4, <2>7
<1> QED
  BY <1>1, <1>2

\* Each place of the result is one of a piece, behind those of the pieces before.
Pieced(n, parts, g) ==
    \A m \in 0..n :
        /\ Len(g[m]) \in Nat
        /\ \A k \in 1..m : Len(g[k - 1]) \in Nat /\ Len(g[k - 1]) + Len(parts[k]) <= Len(g[m])
        /\ \A p \in 1..Len(g[m]) : \E k \in 1..m : \E j \in 1..Len(parts[k]) :
              p = Len(g[k - 1]) + j /\ g[m][p] = parts[k][j]

\* Each place of a flattened sequence is a place of one of its pieces.
LEMMA FlattenPlaces ==
    ASSUME NEW T, NEW n \in Nat, NEW parts \in [1..n -> Seq(T)], NEW g \in [0..n -> Seq(T)],
           Flattens(n, parts, g)
    PROVE  Pieced(n, parts, g)
<1> DEFINE Holds(m) ==
              /\ Len(g[m]) \in Nat
              /\ \A k \in 1..m : Len(g[k - 1]) \in Nat /\ Len(g[k - 1]) + Len(parts[k]) <= Len(g[m])
              /\ \A p \in 1..Len(g[m]) : \E k \in 1..m : \E j \in 1..Len(parts[k]) :
                    p = Len(g[k - 1]) + j /\ g[m][p] = parts[k][j]
           U == {m \in Nat : \A i \in 0..n : i <= m => Holds(i)}
<1>1. Holds(0)
  <2>1. g[0] = <<>> /\ Len(<<>>) = 0
    BY DEF Flattens
  <2> QED
    BY <2>1
<1>2. ASSUME NEW m \in 1..n, Holds(m - 1) PROVE Holds(m)
  <2>1. m - 1 \in 0..n
    OBVIOUS
  <2>2. g[m - 1] \in Seq(T) /\ parts[m] \in Seq(T)
    BY <2>1
  <2>3. g[m] = g[m - 1] \o parts[m]
    BY DEF Flattens
  <2> DEFINE s == g[m - 1]
             t == parts[m]
             a == Len(s)
             b == Len(t)
  <2> HIDE DEF s, t
  <2>4. s \in Seq(T) /\ t \in Seq(T) /\ g[m] = s \o t /\ g[m - 1] = s /\ parts[m] = t
    BY <2>2, <2>3 DEF s, t
  <2>5. /\ a \in Nat /\ b \in Nat /\ Len(g[m]) = a + b
        /\ \A i \in 1..a + b : g[m][i] = IF i <= a THEN s[i] ELSE t[i - a]
    BY <2>4, ConcatProperties, LenProperties
  <2> HIDE DEF a, b
  <2>6. Len(g[m - 1]) = a /\ Len(parts[m]) = b /\ g[m - 1] = s /\ parts[m] = t
    BY <2>4 DEF a, b
  <2>0. a \in Nat /\ b \in Nat /\ Len(g[m]) = a + b
    BY <2>5
  <2>7. \A k \in 1..m : Len(g[k - 1]) \in Nat /\ Len(g[k - 1]) + Len(parts[k]) <= Len(g[m])
    <3> TAKE k \in 1..m
    <3>1. CASE k = m
      <4>1. Len(g[m - 1]) \in Nat /\ Len(g[m - 1]) + Len(parts[m]) <= Len(g[m])
        BY <2>0, <2>6
      <4> QED
        BY <3>1, <4>1
    <3>2. CASE k # m
      <4>1. k \in 1..m - 1 /\ k \in 1..n
        BY <1>2, <3>2
      <4>2. Len(parts[k]) \in Nat
        BY <4>1
      <4>3. Len(g[k - 1]) \in Nat /\ Len(g[k - 1]) + Len(parts[k]) <= a
        BY <1>2, <2>6, <4>1
      <4> QED
        <5>1. \A x, y \in Nat : x + y <= a => x + y <= Len(g[m])
          BY <2>0
        <5> QED
          BY <4>2, <4>3, <5>1
    <3> QED
      BY <3>1, <3>2
  <2>8. ASSUME NEW p \in 1..a + b
        PROVE  \E k \in 1..m : \E j \in 1..Len(parts[k]) :
                    p = Len(g[k - 1]) + j /\ g[m][p] = parts[k][j]
    <3>1. CASE p <= a
      <4>1. p \in 1..a /\ g[m][p] = s[p]
        BY <2>5, <3>1
      <4>2. PICK k \in 1..m - 1 : \E j \in 1..Len(parts[k]) : p = Len(g[k - 1]) + j /\ s[p] = parts[k][j]
        BY <1>2, <2>6, <4>1
      <4>3. k \in 1..m
        OBVIOUS
      <4> QED
        BY <4>1, <4>2, <4>3
    <3>2. CASE p > a
      <4> DEFINE j == p - a
      <4>1. j \in 1..b /\ p = a + j
        BY <2>5, <3>2
      <4>2. g[m][p] = t[j]
        BY <2>5, <3>2
      <4>3. m \in 1..m 
        OBVIOUS
      <4> HIDE DEF j
      <4>4. p = Len(g[m - 1]) + j /\ g[m][p] = parts[m][j] /\ j \in 1..Len(parts[m])
        BY <2>6, <4>1, <4>2, <4>3
      <4> QED
        BY <4>3, <4>4
    <3> QED
      BY <2>5, <3>1, <3>2
  <2>9. Len(g[m]) \in Nat /\ Len(g[m]) = a + b
    BY <2>5
  <2> QED
    BY <2>7, <2>8, <2>9
<1> HIDE DEF Holds
<1>3. 0 \in U
  BY <1>1
<1>4. ASSUME NEW m \in Nat, m \in U PROVE m + 1 \in U
  <2>1. SUFFICES ASSUME NEW i \in 0..n, i <= m + 1 PROVE Holds(i)
    OBVIOUS
  <2>2. i # 0 => i \in 1..n /\ i - 1 \in 0..n /\ i - 1 <= m
    BY <2>1
  <2>3. i # 0 => Holds(i - 1)
    BY <1>4, <2>2
  <2> QED
    BY <1>1, <1>2, <2>2, <2>3
<1>5. Nat \subseteq U
  <2> HIDE DEF U
  <2> QED
    BY <1>3, <1>4, CountingInduction
<1>6. \A m \in 0..n : Holds(m)
  <2>0. \A m \in 0..n : m \in Nat /\ m <= m
    OBVIOUS
  <2>1. \A m \in 0..n : m \in U /\ m <= m
    <3> HIDE DEF U
    <3> QED
      BY <1>5, <2>0
  <2> QED
    BY <2>1
<1> QED
  BY <1>6 DEF Pieced, Holds

\* Two families of sequences with the same lengths.
SameLengths(D, p, q) == \A k \in D : Len(p[k]) = Len(q[k])

\* Pieces of the same lengths start at the same places.
LEMMA SameOffsets ==
    ASSUME NEW n \in Nat, NEW T, NEW U, NEW p \in [1..n -> Seq(T)], NEW q \in [1..n -> Seq(U)],
           SameLengths(1..n, p, q),
           NEW g \in [0..n -> Seq(T)], NEW h \in [0..n -> Seq(U)], Flattens(n, p, g), Flattens(n, q, h)
    PROVE  SameLengths(0..n, g, h)
<1> DEFINE Agree(k) == \A m \in 0..n : m <= k => Len(g[m]) = Len(h[m])
           V == {k \in Nat : Agree(k)}
<1>1. Agree(0)
  BY DEF Flattens
<1>2. ASSUME NEW k \in Nat, Agree(k) PROVE Agree(k + 1)
  <2>1. SUFFICES ASSUME NEW m \in 0..n, m <= k + 1, m # 0 PROVE Len(g[m]) = Len(h[m])
    BY <1>2
  <2>2. m \in 1..n /\ m - 1 \in 0..n /\ m - 1 <= k
    BY <2>1
  <2>3. g[m] = g[m - 1] \o p[m] /\ h[m] = h[m - 1] \o q[m]
    BY <2>2 DEF Flattens
  <2>4. /\ g[m - 1] \in Seq(T) /\ p[m] \in Seq(T) /\ h[m - 1] \in Seq(U) /\ q[m] \in Seq(U)
    BY <2>2
  <2>5. Len(g[m]) = Len(g[m - 1]) + Len(p[m]) /\ Len(h[m]) = Len(h[m - 1]) + Len(q[m])
    BY <2>3, <2>4, ConcatProperties
  <2>6. Len(g[m - 1]) = Len(h[m - 1])
    BY <1>2, <2>2
  <2>7. Len(p[m]) = Len(q[m])
    BY <2>2 DEF SameLengths
  <2> QED
    BY <2>5, <2>6, <2>7
<1> HIDE DEF Agree
<1>3. Nat \subseteq V
  <2>1. 0 \in V /\ \A k \in Nat : k \in V => k + 1 \in V
    BY <1>1, <1>2
  <2> HIDE DEF V
  <2> QED
    BY <2>1, CountingInduction
<1>4. Agree(n)
  BY <1>3
<1> QED
  BY <1>4 DEF Agree, SameLengths

-----------------------------------------------------------------------------
(* What instructions, functions and modules look like                      *)

\* The operands that instruction i has as the decoder makes them: registers and windows
\* are unsigned, distances are integers.
Operands(i) ==
    /\ \A field \in RegisterFields(i.op) : i[field] \in Nat
    /\ i.op \in Relative => Delta(i) \in Int
    /\ i.op \in Calls \union ClosureCalls \union {"ffi_call", "vararg"} => i.a \in Nat /\ i.c \in Nat
    /\ i.op = "closure" => i.c \in Nat /\ i.flags \in Nat
    /\ i.op \in Upvalues => i.b \in Nat
    /\ i.op \in FusedImm \union {"loadk"} => i.b \in Int
    /\ i.op \in Immediate => i.c \in Int

IsInst(i) ==
    /\ i \in [op : {i.op}, flags : {i.flags}, a : {i.a}, b : {i.b}, c : {i.c}]
    /\ Operands(i)

IsFunction(f) ==
    /\ f \in [params : {f.params}, regs : {f.regs}, code : {f.code}, returns : {f.returns},
              exported : {f.exported}, name : {f.name}, vararg : {f.vararg},
              upvalues : {f.upvalues}]
    /\ f.regs \in Nat /\ Len(f.params) \in Nat
    /\ IsSequence(f.code)
    /\ \A pc \in DOMAIN f.code : IsInst(f.code[pc])

IsModule(M) == IsSequence(M) /\ \A n \in DOMAIN M : IsFunction(M[n])

\* What the decoder makes are instructions.
LEMMA InstructionsAre ==
    ASSUME NEW i \in Instructions
    PROVE  IsInst(i)
<1>1. /\ i \in [op : STRING, flags : Nat, a : Int, b : Int, c : Int]
      /\ \A field \in {"a", "b", "c"} \ SignedFields(i.op) : i[field] \in Nat
  BY DEF Instructions
<1>2. \A field \in {"a", "b", "c"} : i[field] \in Int
  BY <1>1
<1>3. i.op \in Relative => Delta(i) \in Int
  BY <1>2 DEF Delta, DeltaField
<1>4. ASSUME NEW field \in RegisterFields(i.op) PROVE i[field] \in Nat
  <2>1. field \in {"a", "b", "c"} /\ field \notin SignedFields(i.op)
    BY <1>4 DEF RegisterFields, SignedFields, DeltaField, Relative, Binary, Immediate, Step1,
                Conditional, FusedImm, Upvalues, ClosureCalls
  <2> QED
    BY <1>1, <2>1
<1>5. /\ i.op \in Calls \union ClosureCalls \union {"ffi_call", "vararg"} => i.a \in Nat /\ i.c \in Nat
      /\ i.op = "closure" => i.c \in Nat /\ i.flags \in Nat
      /\ i.op \in Upvalues => i.b \in Nat
  <2>1. i.op \in Calls \union ClosureCalls \union Upvalues \union {"ffi_call", "vararg", "closure"}
          => SignedFields(i.op) = {}
    BY DEF SignedFields, DeltaField, Relative, Immediate, Conditional, FusedImm, Calls, ClosureCalls,
           Upvalues
  <2> QED
    BY <1>1, <2>1
<1> QED
  BY <1>1, <1>2, <1>3, <1>4, <1>5 DEF IsInst, Operands

\* What the decoder makes are modules.
LEMMA ModulesAre ==
    ASSUME NEW M \in Modules
    PROVE  IsModule(M)
<1>1. IsSequence(M) /\ \A n \in DOMAIN M : M[n] \in Functions
  BY DEF Modules, IsSequence
<1>2. ASSUME NEW f \in Functions PROVE IsFunction(f)
  <2>1. /\ f.code \in Seq(Instructions) /\ f.regs \in Nat /\ f.params \in Seq(STRING)
        /\ f \in [params : {f.params}, regs : {f.regs}, code : {f.code}, returns : {f.returns},
                  exported : {f.exported}, name : {f.name}, vararg : {f.vararg},
                  upvalues : {f.upvalues}]
    BY <1>2 DEF Functions
  <2>2. \A pc \in DOMAIN f.code : f.code[pc] \in Instructions
    BY <2>1
  <2>3. \A pc \in DOMAIN f.code : IsInst(f.code[pc])
    BY <2>2, InstructionsAre
  <2>4. IsSequence(f.code) /\ Len(f.params) \in Nat
    BY <2>1 DEF IsSequence
  <2> QED
    BY <2>1, <2>3, <2>4 DEF IsFunction
<1> QED
  BY <1>1, <1>2 DEF IsModule

\* Which fields of an instruction name registers.
LEMMA FieldNames ==
    ASSUME NEW op
    PROVE  /\ RegisterFields(op) \subseteq {"a", "b", "c"}
           /\ op \in Binary \union {"cmp_eq"} => RegisterFields(op) = {"a", "b", "c"}
           /\ op \in Immediate \union {"mov", "add_dec_jnz"} => RegisterFields(op) = {"a", "b"}
           /\ op \in Step1 \union Conditional \union FusedImm \union {"loadk", "dec_jnz", "ret", "throw"}
                => RegisterFields(op) = {"a"}
           /\ op \in ClosureCalls => RegisterFields(op) = {"b"}
           /\ op \in Upvalues => RegisterFields(op) = {"a"}
BY DEF RegisterFields, Relative, Calls, ClosureCalls, Upvalues, Conditional, FusedImm, Binary, Immediate, Step1

-----------------------------------------------------------------------------
(* The machine stays inside the registers of the functions it runs         *)

\* The state of the interpreter, whatever its fields hold.
MachineRecord(m) ==
    m \in [how : {m.how}, value : {m.value}, calls : {m.calls}, closures : {m.closures},
           mixed : {m.mixed}, stack : {m.stack}]

\* An activation has the registers that its function declares.
FitsFunction(M, a) ==
    /\ a.function \in DOMAIN M
    /\ a \in [function : {a.function}, pc : {a.pc}, tries : {a.tries}, closure : {a.closure},
              regs : {a.regs}, rest : {a.rest}]
    /\ a.regs = [r \in 0..M[a.function].regs - 1 |-> a.regs[r]]

\* A machine without undefined behaviour, each activation of which fits its function.
Inside(M, m) ==
    /\ MachineRecord(m)
    /\ m.how # "undefined"
    /\ IsSequence(m.stack)
    /\ \A k \in DOMAIN m.stack : FitsFunction(M, m.stack[k])

\* An execution that goes on has an activation.
Sound(M, m) == Inside(M, m) /\ (m.how = "runs" => m.stack # <<>>)

\* Everything above depth n is replaced by one activation.
LEMMA StackReplaced ==
    ASSUME NEW M, NEW m, Inside(M, m), NEW n \in 0..Len(m.stack), NEW a, FitsFunction(M, a)
    PROVE  Sound(M, [m EXCEPT !.stack = Append(SubSeq(m.stack, 1, n), a)])
<1> DEFINE below == SubSeq(m.stack, 1, n)
           s == Append(below, a)
           m2 == [m EXCEPT !.stack = s]
<1>1. IsSequence(m.stack) /\ DOMAIN m.stack = 1..Len(m.stack) /\ Len(m.stack) \in Nat
  BY AppendIsSequence DEF Inside
<1>2. IsSequence(below) /\ Len(below) = n /\ \A k \in 1..n : below[k] = m.stack[k]
  BY <1>1, PrefixIsSequence
<1>3. /\ IsSequence(s) /\ DOMAIN s = 1..n + 1 /\ DOMAIN below = 1..n
      /\ \A k \in 1..n : s[k] = below[k]
      /\ s[n + 1] = a
  <2> HIDE DEF below
  <2> QED
    BY <1>2, AppendIsSequence
<1> HIDE DEF below, s
<1>4. /\ m2.stack = s /\ m2.how = m.how
      /\ MachineRecord(m2)
  BY DEF Inside, MachineRecord
<1>5. \A k \in 1..n + 1 : FitsFunction(M, s[k])
  <2>1. TAKE k \in 1..n + 1
  <2>2. CASE k = n + 1
    BY <1>3, <2>2
  <2>3. CASE k # n + 1
    <3>1. k \in 1..n
      BY <2>3
    <3>2. s[k] = m.stack[k] /\ k \in DOMAIN m.stack
      BY <1>1, <1>2, <1>3, <3>1
    <3> QED
      BY <3>2 DEF Inside
  <2> QED
    BY <2>2, <2>3
<1>6. s # <<>>
  BY <1>3
<1>7. Sound(M, m2)
  <2> HIDE DEF m2
  <2> QED
    BY <1>3, <1>4, <1>5, <1>6 DEF Inside, Sound
<1> QED
  BY <1>7 DEF m2, s, below

\* An activation more.
LEMMA StackPushed ==
    ASSUME NEW M, NEW m, Inside(M, m), NEW a, FitsFunction(M, a)
    PROVE  Sound(M, [m EXCEPT !.stack = Append(@, a)])
<1>1. IsSequence(m.stack) /\ Len(m.stack) \in Nat
  BY AppendIsSequence DEF Inside
<1>2. SubSeq(m.stack, 1, Len(m.stack)) = m.stack
  <2>1. PICK S : m.stack \in Seq(S)
    BY <1>1 DEF IsSequence
  <2> QED
    BY <2>1
<1> QED
  BY <1>1, <1>2, StackReplaced

\* What runs is an activation of a function of the module.
LEMMA RunningTop ==
    ASSUME NEW M, NEW m, Sound(M, m), m.how = "runs"
    PROVE  /\ Len(m.stack) \in Nat \ {0} /\ DOMAIN m.stack = 1..Len(m.stack)
           /\ FitsFunction(M, Last(m.stack))
<1>1. /\ IsSequence(m.stack) /\ DOMAIN m.stack = 1..Len(m.stack) /\ Len(m.stack) \in Nat
      /\ m.stack # <<>>
  BY AppendIsSequence DEF Inside, Sound
<1>2. Len(m.stack) # 0
  <2>1. PICK S : m.stack \in Seq(S)
    BY <1>1 DEF IsSequence
  <2> QED
    BY <1>1, <2>1
<1> QED
  BY <1>1, <1>2 DEF Inside, Sound, Last

\* The running activation changes.
LEMMA NowInside ==
    ASSUME NEW M, NEW m, Sound(M, m), m.how = "runs", NEW a, FitsFunction(M, a)
    PROVE  Sound(M, Now(m, a))
<1>1. Len(m.stack) - 1 \in 0..Len(m.stack)
  BY RunningTop
<1>2. Sound(M, [m EXCEPT !.stack = Append(SubSeq(m.stack, 1, Len(m.stack) - 1), a)])
  BY <1>1, StackReplaced DEF Sound
<1> QED
  BY <1>2 DEF Now, Front

\* An execution ends, with anything but undefined behaviour.
LEMMA StoppedInside ==
    ASSUME NEW M, NEW m, Inside(M, m), NEW how \in {"value", "throw", "status"}, NEW value
    PROVE  Sound(M, Stopped(m, how, value))
<1> DEFINE m2 == Stopped(m, how, value)
<1>1. m2.stack = m.stack /\ m2.how = how /\ MachineRecord(m2)
  BY DEF Inside, Stopped, MachineRecord
<1> HIDE DEF m2
<1>2. Sound(M, m2)
  BY <1>1 DEF Inside, Sound
<1> QED
  BY <1>2 DEF m2

\* A call makes a registers file of the size that the callee declares, or fails.
LEMMA CalledInside ==
    ASSUME NEW M, NEW m, Inside(M, m), NEW n, NEW args, NEW closure
    PROVE  Sound(M, Called(M, m, n, args, closure))
<1> DEFINE f == M[n]
           a == [function |-> n, pc |-> 1, tries |-> <<>>, closure |-> closure,
                 regs |-> [r \in 0..f.regs - 1 |-> IF r < Len(args) THEN args[r + 1] ELSE Null],
                 rest |-> SubSeq(args, Len(f.params) + 1, Len(args))]
           fits == /\ n \in DOMAIN M
                   /\ TakesArguments(f, Len(args))
                   /\ \A k \in DOMAIN f.params : Matches(args[k], f.params[k])
<1>1. CASE fits
  <2>1. FitsFunction(M, a)
    BY <1>1 DEF FitsFunction
  <2>2. Called(M, m, n, args, closure) = [m EXCEPT !.stack = Append(@, a)]
    BY <1>1 DEF Called
  <2> HIDE DEF a
  <2> QED
    BY <2>1, <2>2, StackPushed
<1>2. CASE ~fits
  <2>1. Called(M, m, n, args, closure) = Stopped(m, "status", Null)
    BY <1>2 DEF Called
  <2> QED
    BY <2>1, StoppedInside
<1> QED
  BY <1>1, <1>2

\* A handler or a finally block goes on in the same function.
LEMMA HandledInside ==
    ASSUME NEW M, NEW a, FitsFunction(M, a), NEW value
    PROVE  FitsFunction(M, Handled(a, value)) /\ FitsFunction(M, Completed(a))
BY DEF FitsFunction, Handled, Completed

\* A return, also through a finally block.
LEMMA ReturnedInside ==
    ASSUME NEW M, NEW m, Sound(M, m), m.how = "runs", NEW value
    PROVE  Sound(M, Returned(M, m, value))
<1> DEFINE waiting == {k \in 1..Len(m.stack) - 1 :
                         InstOf(M, m.stack[k]).op \in {"call", "call_closure"}}
           n == Max(waiting)
           i == InstOf(M, m.stack[n])
           a == [m.stack[n] EXCEPT !.pc = @ + 1, !.regs[i.a] = value]
<1>1. CASE ~Matches(value, M[Last(m.stack).function].returns)
  BY <1>1, StoppedInside DEF Returned, Sound
<1>2. CASE Matches(value, M[Last(m.stack).function].returns) /\ waiting = {}
  BY <1>2, StoppedInside DEF Returned, Sound
<1>3. CASE Matches(value, M[Last(m.stack).function].returns) /\ waiting # {}
  <2>1. Len(m.stack) \in Nat \ {0} /\ DOMAIN m.stack = 1..Len(m.stack)
    BY RunningTop
  <2>2. n \in waiting
    <3>1. Len(m.stack) - 1 \in Nat /\ waiting \subseteq 1..Len(m.stack) - 1
      BY <2>1
    <3> HIDE DEF waiting
    <3> QED
      BY <1>3, <3>1, MaxIn
  <2>3. n \in 1..Len(m.stack) /\ n - 1 \in 0..Len(m.stack)
    BY <2>1, <2>2
  <2> HIDE DEF n
  <2>4. FitsFunction(M, m.stack[n])
    BY <2>1, <2>3 DEF Sound, Inside
  <2>5. FitsFunction(M, a)
    BY <2>4 DEF FitsFunction
  <2>6. Returned(M, m, value) = [m EXCEPT !.stack = Append(SubSeq(m.stack, 1, n - 1), a)]
    BY <1>3 DEF Returned, n
  <2> HIDE DEF a
  <2>7. Sound(M, [m EXCEPT !.stack = Append(SubSeq(m.stack, 1, n - 1), a)])
    BY <2>3, <2>5, StackReplaced DEF Sound
  <2> QED
    BY <2>6, <2>7
<1> QED
  BY <1>1, <1>2, <1>3

\* A throw, to a handler of any activation or out of the module.
LEMMA ThrownInside ==
    ASSUME NEW M, NEW m, Sound(M, m), m.how = "runs", NEW value
    PROVE  Sound(M, Thrown(m, value))
<1> DEFINE handling == {k \in DOMAIN m.stack :
                          \E t \in DOMAIN m.stack[k].tries : Handles(m.stack[k].tries[t])}
           n == Max(handling)
<1>1. CASE handling = {}
  BY <1>1, StoppedInside DEF Thrown, Sound
<1>2. CASE handling # {}
  <2>1. Len(m.stack) \in Nat \ {0} /\ DOMAIN m.stack = 1..Len(m.stack)
    BY RunningTop
  <2>2. n \in handling
    <3>1. handling \subseteq 1..Len(m.stack)
      BY <2>1
    <3> HIDE DEF handling
    <3> QED
      BY <1>2, <2>1, <3>1, MaxIn
  <2>3. n \in 1..Len(m.stack) /\ n - 1 \in 0..Len(m.stack)
    BY <2>1, <2>2
  <2> HIDE DEF n
  <2>4. FitsFunction(M, Handled(m.stack[n], value))
    BY <2>1, <2>3, HandledInside DEF Sound, Inside
  <2>5. Thrown(m, value)
          = [m EXCEPT !.stack = Append(SubSeq(m.stack, 1, n - 1), Handled(m.stack[n], value))]
    BY <1>2 DEF Thrown, n
  <2>6. Sound(M, [m EXCEPT !.stack = Append(SubSeq(m.stack, 1, n - 1), Handled(m.stack[n], value))])
    BY <2>3, <2>4, StackReplaced DEF Sound
  <2> QED
    BY <2>5, <2>6
<1> QED
  BY <1>1, <1>2

\* Computing writes registers and adds none.
LEMMA ComputedInside ==
    ASSUME NEW D, NEW i, NEW regs, OnDomain(D, regs)
    PROVE  OnDomain(D, Computed(i, regs))
<1>1. \A x, v : OnDomain(D, [regs EXCEPT ![x] = v])
  BY DEF OnDomain
<1>2. \A x, v, y, w : OnDomain(D, [[regs EXCEPT ![x] = v] EXCEPT ![y] = w])
  BY DEF OnDomain
<1>3. CASE i.op = "add_dec_jnz"
  BY <1>2, <1>3 DEF Computed, Binary
<1>4. CASE i.op # "add_dec_jnz"
  BY <1>1, <1>4 DEF Computed
<1> QED
  BY <1>3, <1>4

\* Calls, closures and mixed arithmetic are observed beside the stack.
LEMMA AsideInside ==
    ASSUME NEW M, NEW m, Sound(M, m), NEW calls, NEW closures, NEW mixed
    PROVE  /\ Sound(M, [m EXCEPT !.calls = calls])
           /\ Sound(M, [m EXCEPT !.closures = closures])
           /\ Sound(M, [m EXCEPT !.mixed = mixed])
           /\ [m EXCEPT !.calls = calls].how = m.how
           /\ [m EXCEPT !.closures = closures].how = m.how
           /\ [m EXCEPT !.mixed = mixed].how = m.how
BY DEF Sound, Inside, MachineRecord

\* An instruction whose registers exist does not leave the machine undefined.
LEMMA DoesInside ==
    ASSUME NEW M, NEW m, Sound(M, m), m.how = "runs", NEW a, FitsFunction(M, a), NEW i
    PROVE  Sound(M, Does(M, m, a, i))
<1> DEFINE arguments == [k \in 1..i.c |-> a.regs[i.a + k]]
           next == [a EXCEPT !.pc = @ + 1]
<1>1. /\ Sound(M, Returned(M, m, a.regs[i.a])) /\ Sound(M, Returned(M, m, Null))
      /\ Sound(M, Thrown(m, a.regs[i.a])) /\ Sound(M, Thrown(m, Null))
  BY ReturnedInside, ThrownInside
<1>2. FitsFunction(M, next) /\ \A v : FitsFunction(M, [next EXCEPT !.regs[i.a] = v])
  BY DEF FitsFunction
<1>3. \A v : Sound(M, Now(m, [next EXCEPT !.regs[i.a] = v]))
  BY <1>2, NowInside
<1>4. \A c, v : Sound(M, Now([m EXCEPT !.calls = c], [next EXCEPT !.regs[i.a] = v]))
  BY <1>2, NowInside, AsideInside
<1>5. \A c, v : Sound(M, Now([m EXCEPT !.closures = c], [next EXCEPT !.regs[i.a] = v]))
  BY <1>2, NowInside, AsideInside
<1>6. \A c : Sound(M, Now([m EXCEPT !.closures = c], next))
  BY <1>2, NowInside, AsideInside
<1>7. \A n, c : Sound(M, Called(M, m, n, arguments, c))
  BY CalledInside DEF Sound
<1> DEFINE varargs == [r \in DOMAIN a.regs |->
                         IF r \in i.a..i.a + i.c - 1
                         THEN LET k == i.b + r - i.a + 1
                              IN  IF k \in DOMAIN a.rest THEN a.rest[k] ELSE Null
                         ELSE a.regs[r]]
<1>8. Sound(M, Now(m, [next EXCEPT !.regs = varargs]))
  <2>1. FitsFunction(M, [next EXCEPT !.regs = varargs])
    BY DEF FitsFunction
  <2> HIDE DEF next, varargs
  <2> QED
    BY <2>1, NowInside
<1>9. \A t : Sound(M, Now(m, [next EXCEPT !.tries = t]))
  <2>1. \A t : FitsFunction(M, [next EXCEPT !.tries = t])
    BY DEF FitsFunction
  <2> HIDE DEF next
  <2> QED
    BY <2>1, NowInside
<1>10. Sound(M, Now(m, Completed(a)))
  BY HandledInside, NowInside
<1>11. \A t : FitsFunction(M, [a EXCEPT !.tries = t])
  BY DEF FitsFunction
<1> DEFINE left == [a EXCEPT !.tries = Front(@)]
<1>12. \A v : Sound(M, Thrown(Now(m, left), v))
  <2>1. Sound(M, Now(m, left)) /\ Now(m, left).how = "runs"
    <3>1. Sound(M, Now(m, left))
      BY <1>11, NowInside
    <3>2. Now(m, left).how = "runs"
      BY DEF Now, Sound, Inside, MachineRecord
    <3> QED
      BY <3>1, <3>2
  <2> HIDE DEF left
  <2> QED
    BY <2>1, ThrownInside
<1>13. \A p : Sound(M, Now(m, [left EXCEPT !.pc = p]))
  <2>1. \A p : FitsFunction(M, [left EXCEPT !.pc = p])
    BY DEF FitsFunction
  <2> HIDE DEF left
  <2> QED
    BY <2>1, NowInside
<1> DEFINE regs == Computed(i, a.regs)
<1>14. \A p : Sound(M, Now(m, [a EXCEPT !.regs = regs, !.pc = p]))
  <2>1. OnDomain(0..M[a.function].regs - 1, regs)
    <3>1. OnDomain(0..M[a.function].regs - 1, a.regs)
      BY DEF FitsFunction, OnDomain
    <3> QED
      BY <3>1, ComputedInside
  <2> HIDE DEF regs
  <2>2. \A p : FitsFunction(M, [a EXCEPT !.regs = regs, !.pc = p])
    BY <2>1 DEF FitsFunction, OnDomain
  <2> QED
    BY <2>2, NowInside
<1> QED
  BY <1>1, <1>3, <1>4, <1>5, <1>6, <1>7, <1>8, <1>9, <1>10, <1>12, <1>13, <1>14 DEF Does

\* What the verifier checks of an instruction is what the handlers do not check.
LEMMA VerifiedInBounds ==
    ASSUME NEW M, NEW f, IsFunction(f), f.regs > 0, NEW pc \in DOMAIN f.code, VerifiesInst(M, f, pc),
           NEW regs, DOMAIN regs = 0..f.regs - 1
    PROVE  ~OutOfBounds(f.code[pc], regs)
<1> DEFINE i == f.code[pc]
<1>1. IsInst(i) /\ f.regs \in Nat
  BY DEF IsFunction
<1>2. (\A field \in RegisterFields(i.op) : i[field] < f.regs) /\ WindowEnd(i) < f.regs
  BY DEF VerifiesInst, WindowFits
<1>3. WindowEnd(i) \in Nat
  <2> HIDE DEF i
  <2> QED
    BY <1>1 DEF WindowEnd, IsInst, Operands
<1>4. \A field \in RegisterFields(i.op) : i[field] \in Nat
  BY <1>1 DEF IsInst, Operands
<1> HIDE DEF i
<1>5. ~OutOfBounds(i, regs)
  BY <1>1, <1>2, <1>3, <1>4 DEF OutOfBounds
<1> QED
  BY <1>5 DEF i

\* One step of a verified module keeps the machine inside.
LEMMA StepInside ==
    ASSUME NEW M, IsModule(M), Verifies(M), NEW m, Sound(M, m), m.how = "runs"
    PROVE  Sound(M, Step(M, m))
<1> DEFINE a == Last(m.stack)
           f == M[a.function]
           i == InstOf(M, a)
           mixes == \E r \in IntegerReads(i) : a.regs[r].type # "int64"
<1>1. FitsFunction(M, a)
  BY RunningTop
<1>2. a.function \in DOMAIN M /\ DOMAIN a.regs = 0..f.regs - 1
  BY <1>1 DEF FitsFunction
<1>3. CASE a.pc \notin DOMAIN f.code
  <2>1. Step(M, m) = Stopped(m, "status", Null)
    BY <1>3 DEF Step
  <2> QED
    BY <2>1, StoppedInside DEF Sound
<1>4. CASE a.pc \in DOMAIN f.code
  <2>1. VerifiesInst(M, f, a.pc) /\ f.regs > 0 /\ IsFunction(f)
    BY <1>2, <1>4 DEF Verifies, IsModule
  <2>2. ~OutOfBounds(i, a.regs)
    <3> HIDE DEF a
    <3> QED
      BY <1>2, <1>4, <2>1, VerifiedInBounds DEF InstOf
  <2>3. Step(M, m) = Does(M, [m EXCEPT !.mixed = @ \/ mixes], a, i)
    BY <1>4, <2>2 DEF Step
  <2> DEFINE m2 == [m EXCEPT !.mixed = m.mixed \/ mixes]
  <2>4. Sound(M, m2) /\ m2.how = "runs"
    BY AsideInside
  <2> HIDE DEF a, i, m2
  <2>5. Sound(M, Does(M, m2, a, i))
    BY <1>1, <2>4, DoesInside
  <2> QED
    BY <2>3, <2>5 DEF m2
<1> QED
  BY <1>3, <1>4

\* c is a course up to n: each state is a step from the one before, and the last one stays.
Follows(M, c, n) ==
    \A k \in 1..n : c[k] = IF c[k - 1].how = "runs" THEN Step(M, c[k - 1]) ELSE c[k - 1]

\* The recursive function Course exists: it is what its definition says.
LEMMA CourseExists ==
    ASSUME NEW M, NEW start
    PROVE  Course(M, start)[0] = start /\ \A n \in Nat : Follows(M, Course(M, start), n)
<1> DEFINE next(m) == IF m.how = "runs" THEN Step(M, m) ELSE m
           Upto(n, g) == g[0] = start /\ \A k \in 1..n : g[k] = next(g[k - 1])
           T == {n \in Nat : \E g : Upto(n, g)}
<1> HIDE DEF next
<1>1. 0 \in T
  <2>1. Upto(0, [k \in {0} |-> start])
    OBVIOUS
  <2> QED
    BY <2>1
<1>2. ASSUME NEW n \in Nat, n \in T PROVE n + 1 \in T
  <2>1. PICK g : Upto(n, g)
    BY <1>2
  <2> DEFINE h == [k \in 0..n + 1 |-> IF k = n + 1 THEN next(g[n]) ELSE g[k]]
  <2>2. \A k \in 0..n : h[k] = g[k]
    OBVIOUS
  <2>3. h[n + 1] = next(g[n])
    OBVIOUS
  <2> HIDE DEF h
  <2>4. Upto(n + 1, h)
    BY <2>1, <2>2, <2>3
  <2> QED
    BY <2>4
<1>3. \A n \in Nat : \E g : Upto(n, g)
  <2>1. Nat \subseteq T
    <3> HIDE DEF T
    <3> QED
      BY <1>1, <1>2, CountingInduction
  <2> QED
    BY <2>1
<1>4. ASSUME NEW g, NEW h, NEW n \in Nat, Upto(n, g), NEW p \in Nat, Upto(p, h), n <= p
      PROVE  g[n] = h[n]
  <2> DEFINE U == {k \in Nat : k <= n => g[k] = h[k]}
  <2>1. 0 \in U
    BY <1>4
  <2>2. ASSUME NEW k \in Nat, k \in U PROVE k + 1 \in U
    <3>1. SUFFICES ASSUME k + 1 <= n PROVE g[k + 1] = h[k + 1]
      OBVIOUS
    <3>2. k + 1 \in 1..n /\ k + 1 \in 1..p /\ k + 1 - 1 = k /\ k <= n
      BY <1>4, <3>1
    <3>3. g[k] = h[k]
      BY <2>2, <3>2
    <3> QED
      BY <1>4, <3>2, <3>3
  <2>3. Nat \subseteq U
    <3> HIDE DEF U
    <3> QED
      BY <2>1, <2>2, CountingInduction
  <2> QED
    BY <2>3
<1> DEFINE part(n) == CHOOSE g : Upto(n, g)
           f == [n \in Nat |-> part(n)[n]]
<1>5. \A n \in Nat : Upto(n, part(n))
  <2> TAKE n \in Nat
  <2>1. \E g : Upto(n, g)
    BY <1>3
  <2> QED
    BY <2>1
<1> HIDE DEF part
<1>6. f[0] = start
  BY <1>5
<1>7. ASSUME NEW k \in Nat, k # 0 PROVE f[k] = next(f[k - 1])
  <2>1. k - 1 \in Nat /\ k \in 1..k /\ k - 1 <= k
    BY <1>7
  <2>2. part(k - 1)[k - 1] = part(k)[k - 1]
    <3> HIDE DEF Upto
    <3> QED
      BY <1>4, <1>5, <2>1
  <2>3. part(k)[k] = next(part(k)[k - 1])
    BY <1>5, <2>1
  <2>4. f[k] = part(k)[k] /\ f[k - 1] = part(k - 1)[k - 1]
    BY <2>1
  <2> QED
    BY <2>2, <2>3, <2>4
<1>8. f = [k \in Nat |-> IF k = 0 THEN start ELSE next(f[k - 1])]
  <2>1. \A k \in Nat : f[k] = IF k = 0 THEN start ELSE next(f[k - 1])
    BY <1>6, <1>7
  <2>2. f = [k \in Nat |-> f[k]]
    OBVIOUS
  <2> HIDE DEF f
  <2> QED
    BY <2>1, <2>2
<1> DEFINE c == CHOOSE g : g = [k \in Nat |-> IF k = 0 THEN start ELSE next(g[k - 1])]
<1>9. c = [k \in Nat |-> IF k = 0 THEN start ELSE next(c[k - 1])]
  <2> HIDE DEF f
  <2> QED
    BY <1>8
<1>10. Course(M, start) = c
  BY DEF Course, next
<1> HIDE DEF c
<1>11. c[0] = start /\ \A n \in Nat : \A k \in 1..n : c[k] = next(c[k - 1])
  BY <1>9
<1> QED
  BY <1>10, <1>11 DEF Follows, next

\* No state of a course is outside.
LEMMA CourseInside ==
    ASSUME NEW M, IsModule(M), Verifies(M), NEW start, Sound(M, start), NEW n \in Nat
    PROVE  Sound(M, Course(M, start)[n])
<1> DEFINE c == Course(M, start)
           T == {k \in Nat : Sound(M, c[k])}
<1>1. c[0] = start /\ \A k \in Nat : Follows(M, c, k)
  BY CourseExists
<1> HIDE DEF c
<1>2. 0 \in T
  BY <1>1
<1>3. ASSUME NEW k \in Nat, k \in T PROVE k + 1 \in T
  <2>1. Follows(M, c, k + 1) /\ k + 1 \in 1..k + 1 /\ k + 1 - 1 = k
    BY <1>1
  <2>2. c[k + 1] = IF c[k].how = "runs" THEN Step(M, c[k]) ELSE c[k]
    BY <2>1 DEF Follows
  <2>3. Sound(M, c[k])
    BY <1>3
  <2>4. Sound(M, c[k + 1])
    BY <2>2, <2>3, StepInside
  <2> QED
    BY <2>4
<1>4. Nat \subseteq T
  <2> HIDE DEF T
  <2> QED
    BY <1>2, <1>3, CountingInduction
<1> QED
  BY <1>4 DEF c

\* Running any function of a verified module, with any arguments, for any number of
\* steps, never reads or writes outside the registers: the outcome "undefined" of the
\* machine.  Arithmetic wraps in it; what C++ leaves undefined of that is not covered.
LEMMA ExecuteInside ==
    ASSUME NEW M, IsModule(M), Verifies(M), NEW n, NEW args, NEW fuel \in Nat
    PROVE  Execute(M, n, args, fuel).how # "undefined"
<1> DEFINE begin == [how |-> "runs", value |-> Null, calls |-> <<>>, closures |-> <<>>,
                     mixed |-> FALSE, stack |-> <<>>]
           start == Called(M, begin, n, args, NoClosure)
           end == Course(M, start)[fuel]
<1>1. Inside(M, begin)
  <2>1. IsSequence(<<>>) /\ DOMAIN <<>> = {}
    BY DEF IsSequence
  <2> QED
    BY <2>1 DEF Inside, MachineRecord
<1>2. Sound(M, start)
  <2> HIDE DEF begin
  <2> QED
    BY <1>1, CalledInside
<1>3. Sound(M, end)
  <2> HIDE DEF start
  <2> QED
    BY <1>2, CourseInside
<1>4. Execute(M, n, args, fuel).how = IF end.how = "runs" THEN "diverges" ELSE end.how
  BY DEF Execute
<1> HIDE DEF end
<1> QED
  BY <1>3, <1>4 DEF Sound, Inside

-----------------------------------------------------------------------------
(* What the verifier accepts, instruction by instruction                   *)

\* Instruction i can stand at pc in code of that size of function f: what the verifier
\* asks, without the code around it, so that a pass can be judged by what it puts in place.
Fits(M, f, size, pc, i) ==
    /\ IsInst(i)
    /\ \A field \in RegisterFields(i.op) : i[field] < f.regs
    /\ WindowEnd(i) < f.regs
    /\ i.op \in Relative => pc + Delta(i) \in 1..size
    /\ i.op \in Calls => i.b \in DOMAIN M /\ TakesArguments(M[i.b], i.c)
    /\ i.op = "closure" => i.b \in DOMAIN M /\ M[i.b].upvalues = i.flags
    /\ i.op \in Upvalues => i.b < f.upvalues
    /\ i.op = "vararg" => f.vararg
    /\ i.op = "try_begin" =>
          /\ TryTargets(i) \subseteq 1..size \union {NoTarget}
          /\ i.a # NoTarget \/ i.b # NoTarget
          /\ i.c # NoTarget

\* Code that the verifier accepts as that of f.
AcceptsCode(M, f, code) ==
    /\ IsSequence(code) /\ code # <<>>
    /\ \A pc \in 1..Len(code) : Fits(M, f, Len(code), pc, code[pc])

FunctionRecord(f) ==
    /\ f \in [params : {f.params}, regs : {f.regs}, code : {f.code}, returns : {f.returns},
              exported : {f.exported}, name : {f.name}, vararg : {f.vararg},
              upvalues : {f.upvalues}]
    /\ f.regs \in Nat \ {0} /\ Len(f.params) \in Nat /\ Len(f.params) <= f.regs

Accepted(M, f) == FunctionRecord(f) /\ AcceptsCode(M, f, f.code)

\* Functions of a verified module are accepted.
LEMMA VerifiedIsAccepted ==
    ASSUME NEW M, IsModule(M), Verifies(M), NEW n \in DOMAIN M
    PROVE  Accepted(M, M[n])
<1> DEFINE f == M[n]
<1>1. IsFunction(f) /\ f.regs > 0 /\ Len(f.params) <= f.regs /\ f.code # <<>>
  BY DEF IsModule, Verifies
<1>2. \A pc \in DOMAIN f.code : VerifiesInst(M, f, pc) /\ IsInst(f.code[pc])
  BY <1>1 DEF Verifies, IsFunction
<1>3. DOMAIN f.code = 1..Len(f.code) /\ IsSequence(f.code)
  BY <1>1, SequenceDomain DEF IsFunction
<1>4. FunctionRecord(f)
  BY <1>1 DEF IsFunction, FunctionRecord
<1> HIDE DEF f
<1>5. ASSUME NEW pc \in 1..Len(f.code) PROVE Fits(M, f, Len(f.code), pc, f.code[pc])
  <2>1. VerifiesInst(M, f, pc) /\ IsInst(f.code[pc])
    BY <1>2, <1>3
  <2> QED
    BY <1>3, <2>1 DEF Fits, VerifiesInst, WindowFits
<1>6. Accepted(M, f)
  BY <1>1, <1>3, <1>4, <1>5 DEF Accepted, AcceptsCode
<1> QED
  BY <1>6 DEF f

\* A module of accepted functions is verified.
LEMMA AcceptedIsVerified ==
    ASSUME NEW M, IsSequence(M), M # <<>>, \A n \in DOMAIN M : Accepted(M, M[n])
    PROVE  IsModule(M) /\ Verifies(M)
<1>1. ASSUME NEW f, Accepted(M, f)
      PROVE  /\ IsFunction(f) /\ f.regs > 0 /\ Len(f.params) <= f.regs /\ f.code # <<>>
             /\ \A pc \in DOMAIN f.code : VerifiesInst(M, f, pc)
  <2>1. FunctionRecord(f) /\ AcceptsCode(M, f, f.code)
    BY <1>1 DEF Accepted
  <2>2. DOMAIN f.code = 1..Len(f.code) /\ IsSequence(f.code) /\ f.code # <<>>
    BY <2>1, SequenceDomain DEF AcceptsCode
  <2>3. ASSUME NEW pc \in DOMAIN f.code PROVE IsInst(f.code[pc]) /\ VerifiesInst(M, f, pc)
    <3>1. Fits(M, f, Len(f.code), pc, f.code[pc])
      BY <2>1, <2>2 DEF AcceptsCode
    <3> QED
      BY <2>2, <3>1 DEF Fits, VerifiesInst, WindowFits
  <2>4. f.regs > 0
    BY <2>1 DEF FunctionRecord
  <2> QED
    BY <2>1, <2>2, <2>3, <2>4 DEF FunctionRecord, IsFunction
<1>2. \A n \in DOMAIN M : IsFunction(M[n])
  BY <1>1
<1>3. Verifies(M)
  BY <1>1 DEF Verifies
<1> QED
  BY <1>2, <1>3 DEF IsModule

\* The code of an accepted function can be exchanged for accepted code.
LEMMA CodeReplaced ==
    ASSUME NEW M, NEW f, Accepted(M, f), NEW code, AcceptsCode(M, f, code)
    PROVE  Accepted(M, [f EXCEPT !.code = code])
<1> DEFINE g == [f EXCEPT !.code = code]
<1>1. /\ FunctionRecord(g) /\ g.code = code /\ g.regs = f.regs /\ g.vararg = f.vararg
      /\ g.upvalues = f.upvalues
  BY DEF Accepted, FunctionRecord
<1> HIDE DEF g
<1>2. Accepted(M, g)
  BY <1>1 DEF Accepted, AcceptsCode, Fits
<1> QED
  BY <1>2 DEF g

\* Code stays accepted when fitting instructions take the place of others.
LEMMA Rewritten ==
    ASSUME NEW M, NEW f, NEW code, AcceptsCode(M, f, code), NEW new, OnDomain(DOMAIN code, new),
           \A pc \in 1..Len(code) : Fits(M, f, Len(code), pc, new[pc])
    PROVE  AcceptsCode(M, f, new)
<1>1. DOMAIN code = 1..Len(code) /\ Len(code) \in Nat /\ Len(code) # 0
  BY SequenceDomain DEF AcceptsCode
<1>2. IsSequence(new) /\ Len(new) = Len(code)
  BY <1>1, DomainSequence
<1>3. new # <<>>
  BY <1>1, <1>2, SequenceDomain
<1> QED
  BY <1>2, <1>3 DEF AcceptsCode

\* The instructions of accepted code fit.
LEMMA CodeFits ==
    ASSUME NEW M, NEW f, NEW code, AcceptsCode(M, f, code), NEW pc \in DOMAIN code
    PROVE  Fits(M, f, Len(code), pc, code[pc]) /\ pc \in 1..Len(code)
BY SequenceDomain DEF AcceptsCode

\* A function has registers.
Sized(f) == f.regs \in Nat \ {0}

\* The instructions that the passes make fit anywhere, given registers and targets that exist.
LEMMA NewFits ==
    ASSUME NEW M, NEW f, Sized(f), NEW size, NEW pc
    PROVE  /\ Fits(M, f, size, pc, Nop)
           /\ \A a \in 0..f.regs - 1 : \A v \in Int : Fits(M, f, size, pc, Inst("loadk", a, v, 0))
           /\ \A a, b \in 0..f.regs - 1 : Fits(M, f, size, pc, Inst("mov", a, b, 0))
           /\ \A a, b, c \in 0..f.regs - 1 : Fits(M, f, size, pc, Inst("add", a, b, c))
           /\ \A d \in Int : pc + d \in 1..size => Fits(M, f, size, pc, Inst("jmp", d, 0, 0))
<1> USE DEF Fits, IsInst, Operands, Inst, WindowEnd, RegisterFields, Delta, DeltaField, Sized
<1>1. Fits(M, f, size, pc, Nop)
  BY DEF Nop, Relative, Calls, ClosureCalls, Upvalues, Conditional, FusedImm, Binary, Immediate, Step1
<1>2. \A a \in 0..f.regs - 1 : \A v \in Int : Fits(M, f, size, pc, Inst("loadk", a, v, 0))
  BY DEF Relative, Calls, ClosureCalls, Upvalues, Conditional, FusedImm, Binary, Immediate, Step1
<1>3. \A a, b \in 0..f.regs - 1 : Fits(M, f, size, pc, Inst("mov", a, b, 0))
  BY DEF Relative, Calls, ClosureCalls, Upvalues, Conditional, FusedImm, Binary, Immediate, Step1
<1>4. \A a, b, c \in 0..f.regs - 1 : Fits(M, f, size, pc, Inst("add", a, b, c))
  BY DEF Relative, Calls, ClosureCalls, Upvalues, Conditional, FusedImm, Binary, Immediate, Step1
<1>5. \A d \in Int : pc + d \in 1..size => Fits(M, f, size, pc, Inst("jmp", d, 0, 0))
  BY DEF Relative, Calls, ClosureCalls, Upvalues, Conditional, FusedImm, Binary, Immediate, Step1
<1> QED
  BY <1>1, <1>2, <1>3, <1>4, <1>5

\* Registers named by an instruction that fits are registers of the function.
LEMMA NamedRegisters ==
    ASSUME NEW M, NEW f, Sized(f), NEW size, NEW pc, NEW i, Fits(M, f, size, pc, i)
    PROVE  \A field \in RegisterFields(i.op) : i[field] \in 0..f.regs - 1
BY DEF Fits, IsInst, Operands, Sized

\* An instruction that is no jump fits at any other place, and in any function with the
\* same closures that has the registers.
LEMMA FitsElsewhere ==
    ASSUME NEW M, NEW f, NEW size, NEW pc, NEW i, Fits(M, f, size, pc, i), Sized(f),
           i.op \notin Relative \union {"try_begin"},
           NEW g, g.regs \in Nat, g.regs >= f.regs, g.vararg = f.vararg, g.upvalues = f.upvalues,
           NEW room, NEW place
    PROVE  Fits(M, g, room, place, i)
<1>1. WindowEnd(i) \in Nat
  BY DEF Fits, IsInst, Operands, WindowEnd
<1>2. \A field \in RegisterFields(i.op) : i[field] \in Nat
  BY DEF Fits, IsInst, Operands
<1> QED
  BY <1>1, <1>2 DEF Fits, Sized

\* A jump that leads elsewhere.
Redirected(i, d) == [i EXCEPT ![DeltaField(i.op)] = d]

\* A jump fits at any place from which its new distance stays in the code.
LEMMA RedirectedFits ==
    ASSUME NEW M, NEW f, Sized(f), NEW size, NEW pc, NEW i, Fits(M, f, size, pc, i), i.op \in Relative,
           NEW room, NEW place, NEW d \in Int, place + d \in 1..room
    PROVE  Fits(M, f, room, place, Redirected(i, d))
<1> USE DEF RegisterFields, Relative, Calls, ClosureCalls, Upvalues,
            Conditional, FusedImm, Binary, Immediate, Step1
<1>1. i \in [op : {i.op}, flags : {i.flags}, a : {i.a}, b : {i.b}, c : {i.c}]
  BY DEF Fits, IsInst
<1>2. \A field \in RegisterFields(i.op) : i[field] \in 0..f.regs - 1
  BY NamedRegisters
<1>3. CASE i.op = "jmp"
  <2>1. Redirected(i, d) = [i EXCEPT !.a = d]
    BY <1>3 DEF Redirected, DeltaField
  <2>2. Fits(M, f, room, place, [i EXCEPT !.a = d])
    BY <1>1, <1>3 DEF Fits, IsInst, Operands, WindowEnd, Delta, DeltaField, Sized
  <2> QED
    BY <2>1, <2>2
<1>4. CASE i.op \in Conditional \union {"dec_jnz"}
  <2>1. Redirected(i, d) = [i EXCEPT !.b = d]
    BY <1>4 DEF Redirected, DeltaField
  <2>2. i.a \in 0..f.regs - 1
    BY <1>2, <1>4
  <2>3. Fits(M, f, room, place, [i EXCEPT !.b = d])
    BY <1>1, <1>4, <2>2 DEF Fits, IsInst, Operands, WindowEnd, Delta, DeltaField, Sized
  <2> QED
    BY <2>1, <2>3
<1>5. CASE i.op \in {"add_dec_jnz"} \union FusedImm
  <2>1. Redirected(i, d) = [i EXCEPT !.c = d]
    BY <1>5 DEF Redirected, DeltaField
  <2>2. i.a \in 0..f.regs - 1 /\ (i.op = "add_dec_jnz" => i.b \in 0..f.regs - 1)
    BY <1>2, <1>5
  <2>3. Fits(M, f, room, place, [i EXCEPT !.c = d])
    BY <1>1, <1>5, <2>2 DEF Fits, IsInst, Operands, WindowEnd, Delta, DeltaField, Sized
  <2> QED
    BY <2>1, <2>3
<1> QED
  BY <1>3, <1>4, <1>5

\* What other functions see of the functions of a module.
SameSignatures(M, N) ==
    /\ IsSequence(N) /\ DOMAIN N = DOMAIN M
    /\ \A n \in DOMAIN M :
          N[n].params = M[n].params /\ N[n].vararg = M[n].vararg /\ N[n].upvalues = M[n].upvalues

\* Accepted code depends on the other functions only by their signatures.
LEMMA SignaturesSuffice ==
    ASSUME NEW M, NEW N, SameSignatures(M, N), NEW f, Accepted(M, f)
    PROVE  Accepted(N, f)
BY DEF SameSignatures, Accepted, AcceptsCode, Fits, TakesArguments

-----------------------------------------------------------------------------
(* The passes on the code of one function                                  *)

\* What peephole makes of an instruction fits in its place.
LEMMA PeepholeFits ==
    ASSUME NEW M, NEW f, Sized(f), NEW size, NEW pc, NEW i, Fits(M, f, size, pc, i)
    PROVE  Fits(M, f, size, pc, PeepholeInst(i))
<1>1. \A field \in RegisterFields(i.op) : i[field] \in 0..f.regs - 1
  BY NamedRegisters
<1>2. i.op \in Immediate => i.a \in 0..f.regs - 1 /\ i.b \in 0..f.regs - 1
  BY <1>1 DEF RegisterFields, Relative, Calls, ClosureCalls, Upvalues, Conditional, FusedImm, Binary,
            Immediate, Step1
<1>3. Fits(M, f, size, pc, Nop)
  BY NewFits
<1>4. i.op \in Immediate => Fits(M, f, size, pc, Inst("mov", i.a, i.b, 0))
  BY <1>2, NewFits
<1> QED
  BY <1>3, <1>4 DEF PeepholeInst

\* Peephole keeps code accepted.
LEMMA PeepholeKeeps ==
    ASSUME NEW M, NEW f, Sized(f), NEW code, AcceptsCode(M, f, code)
    PROVE  AcceptsCode(M, f, Peephole(code))
<1>1. OnDomain(DOMAIN code, Peephole(code))
  BY DEF OnDomain, Peephole
<1>2. ASSUME NEW pc \in 1..Len(code) PROVE Fits(M, f, Len(code), pc, Peephole(code)[pc])
  <2>1. pc \in DOMAIN code /\ Fits(M, f, Len(code), pc, code[pc])
    BY SequenceDomain DEF AcceptsCode
  <2>2. Fits(M, f, Len(code), pc, PeepholeInst(code[pc]))
    BY <2>1, PeepholeFits
  <2> QED
    BY <2>1, <2>2 DEF Peephole
<1> QED
  BY <1>1, <1>2, Rewritten

\* A call that has become a tail call.
TailInst(i) == [i EXCEPT !.op = IF @ = "call" THEN "tail_call" ELSE "tail_call_closure"]

\* A tail call fits where the call was.
LEMMA TailFits ==
    ASSUME NEW M, NEW f, Sized(f), NEW size, NEW pc, NEW i, Fits(M, f, size, pc, i),
           i.op \in {"call", "call_closure"}
    PROVE  Fits(M, f, size, pc, TailInst(i))
<1> DEFINE j == TailInst(i)
<1>1. /\ j \in [op : {j.op}, flags : {j.flags}, a : {j.a}, b : {j.b}, c : {j.c}]
      /\ j.a = i.a /\ j.b = i.b /\ j.c = i.c
      /\ j.op = IF i.op = "call" THEN "tail_call" ELSE "tail_call_closure"
  BY DEF TailInst, Fits, IsInst
<1> HIDE DEF j
<1>2. /\ RegisterFields(j.op) = RegisterFields(i.op) /\ WindowEnd(j) = WindowEnd(i)
      /\ j.op \in Calls \union ClosureCalls
      /\ j.op \in Calls <=> i.op \in Calls
      /\ i.op \in Calls \union ClosureCalls
  BY <1>1 DEF WindowEnd, RegisterFields, Relative, Calls, ClosureCalls, Upvalues,
              Conditional, FusedImm, Binary, Immediate, Step1
<1>3. j.op \notin Relative \union Upvalues \union Immediate \union {"loadk", "closure", "vararg", "try_begin"}
  BY <1>2 DEF Relative, Calls, ClosureCalls, Upvalues, Conditional, FusedImm, Immediate
<1>5. \A field \in RegisterFields(i.op) : field \in {"a", "b", "c"}
  BY DEF RegisterFields
<1>6. \A field \in RegisterFields(j.op) : j[field] = i[field]
  BY <1>1, <1>2, <1>5
<1>4. Fits(M, f, size, pc, j)
  BY <1>1, <1>2, <1>3, <1>6 DEF Fits, IsInst, Operands, Relative
<1> QED
  BY <1>4 DEF j

\* The tail call pass keeps code accepted.
LEMMA TailcallKeeps ==
    ASSUME NEW M, NEW f, Sized(f), NEW code, AcceptsCode(M, f, code)
    PROVE  AcceptsCode(M, f, Tailcall(code))
<1> DEFINE new == Tailcall(code)
           first(pc) == pc \in DOMAIN code /\ pc + 1 \in DOMAIN code
                          /\ BeforeRet(code[pc], code[pc + 1])
<1>1. new = [pc \in DOMAIN code |->
              CASE first(pc) -> TailInst(code[pc]) [] first(pc - 1) -> Nop [] OTHER -> code[pc]]
  BY DEF Tailcall, Paired, TailInst
<1> HIDE DEF new
<1>2. OnDomain(DOMAIN code, new)
  BY <1>1 DEF OnDomain
<1>3. ASSUME NEW pc \in 1..Len(code) PROVE Fits(M, f, Len(code), pc, new[pc])
  <2>1. pc \in DOMAIN code /\ Fits(M, f, Len(code), pc, code[pc])
    BY SequenceDomain DEF AcceptsCode
  <2>2. Fits(M, f, Len(code), pc, Nop)
    BY NewFits
  <2>3. first(pc) => Fits(M, f, Len(code), pc, TailInst(code[pc]))
    BY <2>1, TailFits DEF BeforeRet
  <2> HIDE DEF first
  <2> QED
    BY <1>1, <2>1, <2>2, <2>3
<1>4. AcceptsCode(M, f, new)
  BY <1>2, <1>3, Rewritten
<1> QED
  BY <1>4 DEF new

\* A fused counter or comparison fits where the first of the two was.
LEMMA FusedFits ==
    ASSUME NEW M, NEW f, Sized(f), NEW size, NEW pc \in Nat, NEW i, NEW j,
           Fits(M, f, size, pc, i), Fits(M, f, size, pc + 1, j), Fusible(i, j)
    PROVE  Fits(M, f, size, pc, Fused(i, j))
<1> USE DEF RegisterFields, Relative, Calls, ClosureCalls, Upvalues,
            Conditional, FusedImm, Binary, Immediate, Step1
<1>1. /\ \A field \in RegisterFields(i.op) : i[field] \in 0..f.regs - 1
      /\ j.op \in {"dec_jnz", "jmp_if_not_zero"} => j.b \in Int /\ pc + 1 + j.b \in 1..size
  BY NamedRegisters DEF Fits, IsInst, Operands, Delta, DeltaField
<1>2. CASE i.op = "add"
  <2>1. /\ i.a \in 0..f.regs - 1 /\ i.c \in 0..f.regs - 1
        /\ j.b + 1 \in Int /\ pc + (j.b + 1) \in 1..size
    BY <1>1, <1>2 DEF Fusible
  <2>2. Fused(i, j) = Inst("add_dec_jnz", i.a, i.c, j.b + 1)
    BY <1>2 DEF Fused
  <2>3. Fits(M, f, size, pc, Inst("add_dec_jnz", i.a, i.c, j.b + 1))
    BY <2>1 DEF Fits, IsInst, Operands, Inst, WindowEnd, Delta, DeltaField, Sized
  <2> QED
    BY <2>2, <2>3
<1>3. CASE i.op \in Immediate
  <2>0. i.c \in Int
    BY <1>3 DEF Fits, IsInst, Operands
  <2>1. /\ i.a \in 0..f.regs - 1 /\ i.c \in Int
        /\ j.b + 1 \in Int /\ pc + (j.b + 1) \in 1..size
    BY <1>1, <1>3, <2>0 DEF Fusible
  <2>2. \A op \in FusedImm : Fits(M, f, size, pc, Inst(op, i.a, i.c, j.b + 1))
    BY <2>1 DEF Fits, IsInst, Operands, Inst, WindowEnd, Delta, DeltaField, Sized
  <2>3. Fused(i, j) \in {Inst("sub_imm_jnz", i.a, i.c, j.b + 1), Inst("add_imm_jnz", i.a, i.c, j.b + 1)}
    BY <1>3 DEF Fused
  <2> QED
    BY <2>2, <2>3
<1> QED
  BY <1>2, <1>3 DEF Fusible

\* Loop fusion keeps code accepted.
LEMMA LoopFusionKeeps ==
    ASSUME NEW M, NEW f, Sized(f), NEW code, AcceptsCode(M, f, code)
    PROVE  AcceptsCode(M, f, LoopFusion(code))
<1> DEFINE new == LoopFusion(code)
           first(pc) == pc \in DOMAIN code /\ pc + 1 \in DOMAIN code
                          /\ Fusible(code[pc], code[pc + 1])
<1>1. new = [pc \in DOMAIN code |->
              CASE first(pc) -> Fused(code[pc], code[pc + 1]) [] first(pc - 1) -> Nop [] OTHER -> code[pc]]
  BY DEF LoopFusion, Paired
<1> HIDE DEF new
<1>2. OnDomain(DOMAIN code, new)
  BY <1>1 DEF OnDomain
<1>3. ASSUME NEW pc \in 1..Len(code) PROVE Fits(M, f, Len(code), pc, new[pc])
  <2>1. pc \in DOMAIN code /\ Fits(M, f, Len(code), pc, code[pc]) /\ pc \in Nat
    BY SequenceDomain DEF AcceptsCode
  <2>2. Fits(M, f, Len(code), pc, Nop)
    BY NewFits
  <2>3. first(pc) => Fits(M, f, Len(code), pc, Fused(code[pc], code[pc + 1]))
    <3>1. pc + 1 \in DOMAIN code => Fits(M, f, Len(code), pc + 1, code[pc + 1])
      BY CodeFits
    <3> QED
      BY <2>1, <3>1, FusedFits
  <2> HIDE DEF first
  <2> QED
    BY <1>1, <2>1, <2>2, <2>3
<1>4. AcceptsCode(M, f, new)
  BY <1>2, <1>3, Rewritten
<1> QED
  BY <1>4 DEF new

\* Hoisting the loads at the head of a loop, by jumping past them, keeps code accepted.
LEMMA LicmKeeps ==
    ASSUME NEW M, NEW f, Sized(f), NEW code, AcceptsCode(M, f, code)
    PROVE  AcceptsCode(M, f, Licm(code))
<1> DEFINE new == Licm(code)
<1>1. OnDomain(DOMAIN code, new)
  BY DEF OnDomain, Licm
<1>2. ASSUME NEW pc \in 1..Len(code) PROVE Fits(M, f, Len(code), pc, new[pc])
  <2>1. pc \in DOMAIN code /\ Fits(M, f, Len(code), pc, code[pc])
    BY SequenceDomain DEF AcceptsCode
  <2>2. CASE SkipsHeader(code, pc)
    <3>1. new[pc] = Redirected(code[pc], Delta(code[pc]) + 1)
      BY <2>1, <2>2 DEF Licm, Redirected, Delta
    <3>2. code[pc].op \in Relative /\ pc + Delta(code[pc]) < pc
      BY <2>2 DEF SkipsHeader, JumpTarget
    <3>3. Delta(code[pc]) \in Int /\ pc + Delta(code[pc]) \in 1..Len(code)
      BY <2>1, <3>2 DEF Fits, IsInst, Operands
    <3>4. Delta(code[pc]) + 1 \in Int /\ pc + (Delta(code[pc]) + 1) \in 1..Len(code)
      BY <3>2, <3>3
    <3>5. Fits(M, f, Len(code), pc, Redirected(code[pc], Delta(code[pc]) + 1))
      BY <2>1, <3>2, <3>4, RedirectedFits
    <3> QED
      BY <3>1, <3>5
  <2>3. CASE ~SkipsHeader(code, pc)
    BY <2>1, <2>3 DEF Licm
  <2> QED
    BY <2>2, <2>3
<1> HIDE DEF new
<1>3. AcceptsCode(M, f, new)
  BY <1>1, <1>2, Rewritten
<1> QED
  BY <1>3 DEF new

\* Removing dead code, which leaves nops, keeps code accepted.
LEMMA DceKeeps ==
    ASSUME NEW M, NEW f, Sized(f), NEW code, AcceptsCode(M, f, code)
    PROVE  AcceptsCode(M, f, Dce(code))
<1>1. CASE HasTry(code)
  BY <1>1 DEF Dce
<1>2. CASE ~HasTry(code)
  <2>1. OnDomain(DOMAIN code, Dce(code))
    BY <1>2 DEF OnDomain, Dce
  <2>2. ASSUME NEW pc \in 1..Len(code) PROVE Fits(M, f, Len(code), pc, Dce(code)[pc])
    <3>1. pc \in DOMAIN code /\ Fits(M, f, Len(code), pc, code[pc])
      BY SequenceDomain DEF AcceptsCode
    <3>2. Fits(M, f, Len(code), pc, Nop)
      BY NewFits
    <3> QED
      BY <1>2, <3>1, <3>2 DEF Dce
  <2> QED
    BY <2>1, <2>2, Rewritten
<1> QED
  BY <1>1, <1>2

\* A number modulo the size of a word.
LEMMA ModuloRange ==
    ASSUME NEW x \in Int, NEW w \in Nat, w > 0
    PROVE  x % w \in 0..w - 1
OBVIOUS

\* A number that fits is its own remainder.
LEMMA ModuloSmall ==
    ASSUME NEW x \in Int, NEW w \in Nat, 0 <= x, x < w
    PROVE  x % w = x
OBVIOUS

\* Wrapping gives a number, which wrapping leaves alone.
LEMMA WrapWraps ==
    ASSUME NEW n \in Int
    PROVE  Wrap(n) \in Int /\ Wrap(Wrap(n)) = Wrap(n)
<1> DEFINE h == WordSize \div 2
           x == (n + h) % WordSize
<1>1. h \in Int
  BY WordSizeAssumption
<1>2. x \in 0..WordSize - 1
  <2> HIDE DEF h
  <2>1. n + h \in Int
    BY <1>1
  <2> QED
    BY <2>1, WordSizeAssumption, ModuloRange
<1>3. Wrap(n) = x - h
  BY DEF Wrap
<1> HIDE DEF h, x
<1>4. (x - h) + h = x /\ x \in Int /\ x - h \in Int
  BY <1>1, <1>2, WordSizeAssumption
<1>5. ((x - h) + h) % WordSize = x
  BY <1>2, <1>4, WordSizeAssumption, ModuloSmall
<1>6. Wrap(x - h) = x - h
  BY <1>5 DEF Wrap, h
<1> QED
  BY <1>3, <1>4, <1>6

\* What the fields of a value are.
LEMMA ValueIs ==
    ASSUME NEW v, v \in [type : Types, bits : Int], v.type = "int64" => v.bits = Wrap(v.bits)
    PROVE  v \in Values
BY DEF Values

\* The values that the interpreter makes are values.
LEMMA ValuesMade ==
    /\ Null \in Values
    /\ \A n \in Int : Int64(n) \in Values
    /\ \A b : Bool(b) \in Values
    /\ \A n \in Nat : Handle(n) \in Values
<1>1. Null \in Values
  <2>1. Null \in [type : Types, bits : Int] /\ Null.type = "null"
    BY DEF Null, Types
  <2> QED
    BY <2>1, ValueIs
<1>2. ASSUME NEW n \in Int PROVE Int64(n) \in Values
  <2>1. Wrap(n) \in Int /\ Wrap(Wrap(n)) = Wrap(n)
    BY WrapWraps
  <2>2. Int64(n) \in [type : Types, bits : Int] /\ Int64(n).bits = Wrap(n)
    BY <2>1 DEF Int64, Types
  <2> QED
    BY <2>1, <2>2, ValueIs
<1>3. ASSUME NEW p PROVE Bool(p) \in Values
  <2>1. Bool(p) \in [type : Types, bits : Int] /\ Bool(p).type = "bool"
    BY DEF Bool, Types
  <2> QED
    BY <2>1, ValueIs
<1>4. ASSUME NEW n \in Nat PROVE Handle(n) \in Values
  <2>1. Handle(n) \in [type : Types, bits : Int] /\ Handle(n).type = "closure"
    BY DEF Handle, Types
  <2> QED
    BY <2>1, ValueIs
<1> QED
  BY <1>1, <1>2, <1>3, <1>4

\* An int64 is what its bits make.
LEMMA Int64Is ==
    ASSUME NEW v \in Values, v.type = "int64"
    PROVE  v.bits \in Int /\ Int64(v.bits) = v
BY DEF Values, Int64

\* The quotient of two numbers is a number.
LEMMA QuotientIsInt ==
    ASSUME NEW x \in Int, NEW y \in Int, y # 0
    PROVE  Quotient(x, y) \in Int
<1> DEFINE abs(n) == IF n < 0 THEN -n ELSE n
<1>1. abs(x) \in Nat /\ abs(y) \in Nat \ {0}
  OBVIOUS
<1>2. \A p \in Nat : \A q \in Nat \ {0} : p \div q \in Int
  OBVIOUS
<1>3. abs(x) \div abs(y) \in Int
  <2> HIDE DEF abs
  <2> QED
    BY <1>1, <1>2
<1>4. Quotient(x, y) = IF (x < 0) = (y < 0) THEN abs(x) \div abs(y) ELSE -(abs(x) \div abs(y))
  BY DEF Quotient
<1> HIDE DEF abs
<1> QED
  BY <1>3, <1>4

\* What const_fold computes of two numbers is a number.
LEMMA ArithmeticIsInt ==
    ASSUME NEW op \in Binary, NEW x \in Int, NEW y \in Int, op = "div" => y # 0
    PROVE  Arithmetic(op, x, y) \in Int
<1>1. x + y \in Int /\ x - y \in Int /\ x * y \in Int
  OBVIOUS
<1>2. y # 0 => Quotient(x, y) \in Int
  BY QuotientIsInt
<1> QED
  BY <1>1, <1>2 DEF Arithmetic, Binary


\* What the optimizer can know of a register.
KnownValues == [kind : {"unknown", "int64", "bool"}, value : Int]
Knowns(f) == [Registers(f) -> KnownValues]

\* What the optimizer can know of a register.
LEMMA KnownIs ==
    /\ Unknown \in KnownValues /\ ~IsKnownInt(Unknown)
    /\ \A n \in Int : KnownInt(n) \in KnownValues
    /\ \A b : KnownBool(b) \in KnownValues
<1>1. Unknown \in KnownValues /\ ~IsKnownInt(Unknown)
  BY DEF Unknown, KnownValues, IsKnownInt
<1>2. \A n \in Int : KnownInt(n) \in KnownValues
  BY WrapWraps DEF KnownInt, KnownValues
<1>3. \A b : KnownBool(b) \in KnownValues
  BY DEF KnownBool, KnownValues
<1> QED
  BY <1>1, <1>2, <1>3

\* To know nothing is to know something of each register.
LEMMA NothingIsKnown ==
    ASSUME NEW f
    PROVE  NothingKnown(f) \in Knowns(f)
BY KnownIs DEF NothingKnown, Knowns

\* Learning of one register keeps that.
LEMMA SetIsKnown ==
    ASSUME NEW f, NEW known \in Knowns(f), NEW value \in KnownValues, NEW regs
    PROVE  SetKnown(known, regs, value) \in Knowns(f)
BY DEF SetKnown, Knowns

\* So does what is known of a result.
LEMMA ResultIsKnown ==
    ASSUME NEW M, NEW f, Sized(f), NEW size, NEW pc, NEW i, Fits(M, f, size, pc, i),
           NEW known \in Knowns(f)
    PROVE  Result(known, i) \in KnownValues
<1>1. \A field \in RegisterFields(i.op) : i[field] \in Registers(f)
  BY NamedRegisters DEF Registers
<1>2. \A r \in Registers(f) : known[r] \in KnownValues /\ known[r].value \in Int
  BY DEF Knowns, KnownValues
<1>3. i.op \in FusedImm \union {"loadk"} => i.b \in Int
  BY DEF Fits, IsInst, Operands
<1>4. i.op \in Immediate => i.c \in Int
  BY DEF Fits, IsInst, Operands
<1>5. Unknown \in KnownValues
  BY KnownIs
<1>6. \A regs, n : n \in Int => ResultIf(known, regs, n) \in KnownValues
  BY KnownIs DEF ResultIf
<1>7. CASE i.op = "loadk"
  <2>1. Result(known, i) = KnownInt(i.b)
    BY <1>7 DEF Result, IsKnownInt, Binary
  <2> QED
    BY <1>3, <1>7, <2>1, KnownIs
<1>8. CASE i.op = "mov"
  BY <1>1, <1>2, <1>8, FieldNames DEF Result
<1>9. CASE i.op \in Binary
  <2>1. i.b \in Registers(f) /\ i.c \in Registers(f)
    BY <1>1, <1>9, FieldNames
  <2>2. CASE i.op = "div" /\ known[i.c].value = 0
    <3>1. Result(known, i) = Unknown
      BY <2>2 DEF Result, IsKnownInt, Binary
    <3> QED
      BY <1>5, <3>1
  <2>3. CASE ~(i.op = "div" /\ known[i.c].value = 0)
    <3>1. Arithmetic(i.op, known[i.b].value, known[i.c].value) \in Int
      BY <1>2, <1>9, <2>1, <2>3, ArithmeticIsInt
    <3>2. Result(known, i) = ResultIf(known, {i.b, i.c}, Arithmetic(i.op, known[i.b].value, known[i.c].value))
      BY <1>9, <2>3 DEF Result, Binary
    <3> QED
      BY <1>6, <3>1, <3>2
  <2> QED
    BY <2>2, <2>3
<1>10. CASE i.op \in Immediate
  <2>1. i.b \in Registers(f)
    BY <1>1, <1>10, FieldNames
  <2>2. known[i.b].value + i.c \in Int /\ known[i.b].value - i.c \in Int
    BY <1>2, <1>4, <1>10, <2>1
  <2> QED
    BY <1>6, <1>10, <2>2 DEF Result, Immediate, Binary
<1>11. CASE i.op \in Step1
  <2>1. i.a \in Registers(f)
    BY <1>1, <1>11, FieldNames
  <2>2. known[i.a].value + 1 \in Int /\ known[i.a].value - 1 \in Int
    BY <1>2, <2>1
  <2> QED
    BY <1>6, <1>11, <2>2 DEF Result, Step1, Binary
<1>12. CASE i.op \notin {"loadk", "mov"} \union Binary \union Immediate \union Step1
  BY <1>5, <1>12, KnownIs DEF Result, Binary, Immediate, Step1
<1> QED
  BY <1>7, <1>8, <1>9, <1>10, <1>11, <1>12

\* What is known after one more instruction, for constant folding.
FoldStep(f, before, old) ==
    LET i == FoldInst(before, old)
    IN  IF i.op \in Relative \union Terminators THEN NothingKnown(f) ELSE After(before, i)

\* So does what is known after an instruction.
LEMMA AfterIsKnown ==
    ASSUME NEW M, NEW f, Sized(f), NEW size, NEW pc, NEW i, Fits(M, f, size, pc, i),
           NEW known \in Knowns(f)
    PROVE  After(known, i) \in Knowns(f)
<1>1. (IF i.op \in Relative \union {"mul"} THEN Unknown ELSE Result(known, i)) \in KnownValues
  BY KnownIs, ResultIsKnown
<1> QED
  BY <1>1, SetIsKnown DEF After

\* Each element comes from the one before it.
Counted(first, step, g) ==
    g[0] = first /\ \A n \in Nat : g[n + 1] = step[g[n]]

\* A function on numbers defined by its first value and a step exists.
LEMMA CountedRecursion ==
    ASSUME NEW V, NEW first \in V, NEW step \in [V -> V]
    PROVE  \E g \in [Nat -> V] : Counted(first, step, g)
<1> DEFINE Upto(n, g) == g[0] = first /\ \A k \in 1..n : g[k] = step[g[k - 1]]
           T == {n \in Nat : \E g : Upto(n, g)}
<1>1. 0 \in T
  <2>1. Upto(0, [k \in {0} |-> first])
    OBVIOUS
  <2> QED
    BY <2>1
<1>2. ASSUME NEW n \in Nat, n \in T PROVE n + 1 \in T
  <2>1. PICK g : Upto(n, g)
    BY <1>2
  <2> DEFINE h == [k \in 0..n + 1 |-> IF k = n + 1 THEN step[g[n]] ELSE g[k]]
  <2>2. \A k \in 0..n : h[k] = g[k]
    OBVIOUS
  <2>3. h[n + 1] = step[g[n]]
    OBVIOUS
  <2> HIDE DEF h
  <2>4. Upto(n + 1, h)
    BY <2>1, <2>2, <2>3
  <2> QED
    BY <2>4
<1>3. \A n \in Nat : \E g : Upto(n, g)
  <2>1. Nat \subseteq T
    <3> HIDE DEF T
    <3> QED
      BY <1>1, <1>2, CountingInduction
  <2> QED
    BY <2>1
<1>4. ASSUME NEW g, NEW h, NEW n \in Nat, Upto(n, g), NEW p \in Nat, Upto(p, h), n <= p
      PROVE  g[n] = h[n]
  <2> DEFINE U == {k \in Nat : k <= n => g[k] = h[k]}
  <2>1. 0 \in U
    BY <1>4
  <2>2. ASSUME NEW k \in Nat, k \in U PROVE k + 1 \in U
    <3>1. SUFFICES ASSUME k + 1 <= n PROVE g[k + 1] = h[k + 1]
      OBVIOUS
    <3>2. k + 1 \in 1..n /\ k + 1 \in 1..p /\ k + 1 - 1 = k /\ k <= n
      BY <1>4, <3>1
    <3>3. g[k] = h[k]
      BY <2>2, <3>2
    <3> QED
      BY <1>4, <3>2, <3>3
  <2>3. Nat \subseteq U
    <3> HIDE DEF U
    <3> QED
      BY <2>1, <2>2, CountingInduction
  <2> QED
    BY <2>3
<1> DEFINE part(n) == CHOOSE g : Upto(n, g)
           f == [n \in Nat |-> part(n)[n]]
<1>5. \A n \in Nat : Upto(n, part(n))
  <2> TAKE n \in Nat
  <2>1. \E g : Upto(n, g)
    BY <1>3
  <2> QED
    BY <2>1
<1> HIDE DEF part
<1>6. f[0] = first
  BY <1>5
<1>7. ASSUME NEW k \in Nat PROVE f[k + 1] = step[f[k]]
  <2>1. k + 1 \in Nat /\ k + 1 \in 1..k + 1 /\ k <= k + 1 /\ k + 1 - 1 = k
    BY <1>7
  <2>2. part(k)[k] = part(k + 1)[k]
    <3> HIDE DEF Upto
    <3> QED
      BY <1>4, <1>5, <2>1
  <2>3. part(k + 1)[k + 1] = step[part(k + 1)[k]]
    BY <1>5, <2>1
  <2>4. f[k + 1] = part(k + 1)[k + 1] /\ f[k] = part(k)[k]
    BY <2>1
  <2> QED
    BY <2>2, <2>3, <2>4
<1>8. Counted(first, step, f)
  BY <1>6, <1>7 DEF Counted
<1>9. f \in [Nat -> V]
  <2> DEFINE U == {k \in Nat : f[k] \in V}
  <2> HIDE DEF f
  <2>1. 0 \in U /\ \A k \in Nat : k \in U => k + 1 \in U
    BY <1>6, <1>7
  <2>2. Nat \subseteq U
    <3> HIDE DEF U
    <3> QED
      BY <2>1, CountingInduction
  <2>3. \A k \in Nat : f[k] \in V
    BY <2>2
  <2>4. f = [k \in Nat |-> f[k]]
    BY DEF f
  <2> QED
    BY <2>3, <2>4
<1> HIDE DEF f
<1> QED
  BY <1>8, <1>9

\* The registers of an activation of f.
Files(f) == [Registers(f) -> Values]

\* What an instruction computes of values are values.
LEMMA ComputedValues ==
    ASSUME NEW M, NEW f, Sized(f), NEW size, NEW pc, NEW i, Fits(M, f, size, pc, i),
           NEW regs \in Files(f), i.op = "div" => regs[i.c].bits # 0
    PROVE  Computed(i, regs) \in Files(f)
<1>1. \A field \in RegisterFields(i.op) : i[field] \in Registers(f)
  BY NamedRegisters DEF Registers
<1>2. \A r \in Registers(f) : regs[r] \in Values /\ regs[r].bits \in Int
  BY DEF Files, Values
<1>3. (i.op \in FusedImm \union {"loadk"} => i.b \in Int) /\ (i.op \in Immediate => i.c \in Int)
  BY DEF Fits, IsInst, Operands
<1>4. \A r : \A v \in Values : [regs EXCEPT ![r] = v] \in Files(f)
  BY DEF Files
<1>5. \A r, s : \A v, w \in Values : [[regs EXCEPT ![r] = v] EXCEPT ![s] = w] \in Files(f)
  BY DEF Files
<1>6. CASE i.op \in Binary
  <2>1. i.b \in Registers(f) /\ i.c \in Registers(f)
    BY <1>1, <1>6, FieldNames
  <2>2. regs[i.b].bits \in Int /\ regs[i.c].bits \in Int
    BY <1>2, <2>1
  <2>3. Arithmetic(i.op, regs[i.b].bits, regs[i.c].bits) \in Int
    BY <1>6, <2>2, ArithmeticIsInt
  <2>4. Int64(Arithmetic(i.op, regs[i.b].bits, regs[i.c].bits)) \in Values
    BY <2>3, ValuesMade
  <2> DEFINE v == Int64(Arithmetic(i.op, regs[i.b].bits, regs[i.c].bits))
  <2>5. Computed(i, regs) = [regs EXCEPT ![i.a] = v]
    BY <1>6 DEF Computed, Binary
  <2>6. v \in Values
    BY <2>4
  <2>7. [regs EXCEPT ![i.a] = v] \in Files(f)
    <3> HIDE DEF v
    <3> QED
      BY <1>4, <2>6
  <2> QED
    BY <2>5, <2>7
<1>7. CASE i.op = "mov"
  <2>1. regs[i.b] \in Values
    BY <1>1, <1>2, <1>7, FieldNames
  <2> QED
    BY <1>4, <1>7, <2>1 DEF Computed, Binary
<1>8. CASE i.op = "loadk"
  <2>1. Int64(i.b) \in Values
    BY <1>3, <1>8, ValuesMade
  <2> QED
    BY <1>4, <1>8, <2>1 DEF Computed, Binary
<1>9. CASE i.op = "cmp_eq"
  <2>1. Bool(regs[i.b] = regs[i.c]) \in Values
    BY ValuesMade
  <2> QED
    BY <1>4, <1>9, <2>1 DEF Computed, Binary
<1>10. CASE i.op \in Immediate
  <2>1. regs[i.b].bits \in Int
    BY <1>1, <1>2, <1>10, FieldNames
  <2>2. regs[i.b].bits + i.c \in Int /\ regs[i.b].bits - i.c \in Int
    BY <1>3, <1>10, <2>1
  <2>3. Int64(regs[i.b].bits + i.c) \in Values /\ Int64(regs[i.b].bits - i.c) \in Values
    BY <2>2, ValuesMade
  <2> QED
    BY <1>4, <1>10, <2>3 DEF Computed, Binary, Immediate
<1>11. CASE i.op \in Step1 \union FusedImm \union {"dec_jnz"}
  <2>1. regs[i.a].bits \in Int
    BY <1>1, <1>2, <1>11, FieldNames
  <2>2. /\ regs[i.a].bits + 1 \in Int /\ regs[i.a].bits - 1 \in Int
        /\ i.op \in FusedImm => regs[i.a].bits + i.b \in Int /\ regs[i.a].bits - i.b \in Int
    BY <1>3, <2>1
  <2>3. /\ Int64(regs[i.a].bits + 1) \in Values /\ Int64(regs[i.a].bits - 1) \in Values
        /\ i.op \in FusedImm => /\ Int64(regs[i.a].bits + i.b) \in Values
                                /\ Int64(regs[i.a].bits - i.b) \in Values
    BY <2>2, ValuesMade
  <2> QED
    BY <1>4, <1>11, <2>3 DEF Computed, Binary, Step1, FusedImm
<1>12. CASE i.op = "add_dec_jnz"
  <2>1. regs[i.a].bits \in Int /\ regs[i.b].bits \in Int
    BY <1>1, <1>2, <1>12, FieldNames
  <2>2. regs[i.a].bits + regs[i.b].bits \in Int /\ regs[i.b].bits - 1 \in Int
    BY <2>1
  <2>3. Int64(regs[i.a].bits + regs[i.b].bits) \in Values /\ Int64(regs[i.b].bits - 1) \in Values
    BY <2>2, ValuesMade
  <2> QED
    BY <1>5, <1>12, <2>3 DEF Computed, Binary
<1>13. CASE i.op \notin Binary \union Immediate \union Step1 \union FusedImm
                         \union {"mov", "loadk", "cmp_eq", "dec_jnz", "add_dec_jnz"}
  BY <1>13 DEF Computed, Immediate, Step1, FusedImm
<1> QED
  BY <1>6, <1>7, <1>8, <1>9, <1>10, <1>11, <1>12, <1>13

\* What is known after an instruction, for sparse propagation.
LEMMA TransferIsKnown ==
    ASSUME NEW M, NEW f, Sized(f), NEW size, NEW pc, NEW i, Fits(M, f, size, pc, i),
           NEW known \in Knowns(f)
    PROVE  Transfer(known, i) \in Knowns(f)
<1> DEFINE counts == i.op \in Counting /\ \A r \in Counters(i) : IsKnownInt(known[r])
           regs == [r \in DOMAIN known |-> Int64(known[r].value)]
<1>1. \A r \in Registers(f) : known[r].value \in Int /\ known[r] \in KnownValues
  BY DEF Knowns, KnownValues
<1>2. DOMAIN known = Registers(f)
  BY DEF Knowns
<1>3. CASE counts
  <2>1. regs \in Files(f)
    BY <1>1, <1>2, ValuesMade DEF Files
  <2>2. i.op # "div"
    BY <1>3 DEF Counting, FusedImm
  <2> HIDE DEF regs
  <2>3. Computed(i, regs) \in Files(f)
    BY <2>1, <2>2, ComputedValues
  <2>4. \A r \in Registers(f) : Computed(i, regs)[r].bits \in Int
    BY <2>3 DEF Files, Values
  <2>5. Transfer(known, i) = [r \in Registers(f) |->
          IF r \in Counters(i) THEN KnownInt(Computed(i, regs)[r].bits) ELSE known[r]]
    BY <1>2, <1>3 DEF Transfer, regs
  <2>6. \A r \in Registers(f) : KnownInt(Computed(i, regs)[r].bits) \in KnownValues
    BY <2>4, KnownIs
  <2> QED
    BY <1>1, <2>5, <2>6 DEF Knowns
<1>4. CASE ~counts
  <2>1. (IF i.op \in Relative THEN Unknown ELSE Result(known, i)) \in KnownValues
    BY KnownIs, ResultIsKnown
  <2>2. Transfer(known, i) = SetKnown(known, Written(i), IF i.op \in Relative THEN Unknown ELSE Result(known, i))
    BY <1>4 DEF Transfer
  <2> QED
    BY <2>1, <2>2, SetIsKnown
<1> QED
  BY <1>3, <1>4

\* The states of the work list: what it waits for was reached.
WorkLists(f) ==
    {s \in [in : UNION {[D -> Knowns(f)] : D \in SUBSET DOMAIN f.code}, work : Seq(DOMAIN f.code)] :
        \A k \in DOMAIN s.work : s.work[k] \in DOMAIN s.in}

\* So does what is known where two ways meet.
LEMMA MergedIsKnown ==
    ASSUME NEW f, NEW known \in Knowns(f), NEW out \in Knowns(f)
    PROVE  [r \in DOMAIN out |-> Merged(known[r], out[r])] \in Knowns(f)
BY KnownIs DEF Knowns, Merged

\* A place is added at most once.
LEMMA OnlyIs ==
    ASSUME NEW places, NEW S, places \subseteq S, NEW k
    PROVE  Only(places, k) \in Seq(S) /\ \A n \in DOMAIN Only(places, k) : Only(places, k)[n] \in places
BY DEF Only

\* A concatenation of sequences over a set.
LEMMA ConcatIn ==
    ASSUME NEW S, NEW T, NEW s \in Seq(S), NEW t \in Seq(S),
           \A k \in DOMAIN s : s[k] \in T, \A k \in DOMAIN t : t[k] \in T
    PROVE  s \o t \in Seq(S) /\ \A k \in DOMAIN (s \o t) : (s \o t)[k] \in T
<1>1. s \o t \in Seq(S) /\ Len(s \o t) = Len(s) + Len(t) /\ Len(s) \in Nat /\ Len(t) \in Nat
  OBVIOUS
<1>2. ASSUME NEW k \in 1..Len(s) + Len(t) PROVE (s \o t)[k] \in T
  <2>1. CASE k <= Len(s)
    BY <1>1, <2>1
  <2>2. CASE k > Len(s)
    <3>1. k - Len(s) \in DOMAIN t /\ (s \o t)[k] = t[k - Len(s)]
      BY <1>1, <2>2
    <3> QED
      BY <3>1
  <2> QED
    BY <1>1, <2>1, <2>2
<1>3. DOMAIN (s \o t) = 1..Len(s) + Len(t)
  BY <1>1
<1> QED
  BY <1>1, <1>2, <1>3

\* One instruction of the work list keeps it so.
LEMMA WorkedKnown ==
    ASSUME NEW M, NEW f, Sized(f), AcceptsCode(M, f, f.code), NEW s \in WorkLists(f), s.work # <<>>
    PROVE  Worked(f.code, s) \in WorkLists(f)
<1> DEFINE pc == Last(s.work)
           out == Transfer(s.in[pc], f.code[pc])
           at2(k) == IF k \in DOMAIN s.in
                     THEN [r \in DOMAIN out |-> Merged(s.in[k][r], out[r])]
                     ELSE out
           changed == {k \in Flow(f.code, pc, s.in[pc]) : k \notin DOMAIN s.in \/ at2(k) # s.in[k]}
           in == [k \in DOMAIN s.in \union changed |-> IF k \in changed THEN at2(k) ELSE s.in[k]]
           work == Front(s.work) \o Only(changed \ {pc + 1}, JumpTarget(f.code, pc))
                     \o Only(changed, pc + 1)
<1>1. /\ s.work \in Seq(DOMAIN f.code) /\ DOMAIN s.in \subseteq DOMAIN f.code
      /\ \A k \in DOMAIN s.in : s.in[k] \in Knowns(f)
      /\ \A k \in DOMAIN s.work : s.work[k] \in DOMAIN s.in
      /\ s \in [in : {s.in}, work : {s.work}]
  BY DEF WorkLists
<1>2. pc \in DOMAIN s.in /\ pc \in DOMAIN f.code
  <2>1. Len(s.work) \in DOMAIN s.work
    BY <1>1
  <2> QED
    BY <1>1, <2>1 DEF Last
<1> HIDE DEF pc
<1>3. out \in Knowns(f)
  <2>1. Fits(M, f, Len(f.code), pc, f.code[pc])
    BY <1>2, CodeFits
  <2> QED
    BY <1>1, <1>2, <2>1, TransferIsKnown
<1> HIDE DEF out
<1>4. \A k : at2(k) \in Knowns(f)
  BY <1>1, <1>3, MergedIsKnown
<1> HIDE DEF at2
<1>5. changed \subseteq DOMAIN f.code
  BY DEF Flow
<1> HIDE DEF changed
<1>6. in \in [DOMAIN s.in \union changed -> Knowns(f)] /\ DOMAIN s.in \union changed \subseteq DOMAIN f.code
  BY <1>1, <1>4, <1>5
<1>7. DOMAIN in = DOMAIN s.in \union changed
  OBVIOUS
<1> HIDE DEF in
<1> DEFINE D == DOMAIN in
<1>8. Front(s.work) \in Seq(DOMAIN f.code) /\ \A k \in DOMAIN Front(s.work) : Front(s.work)[k] \in D
  <2>1. Len(s.work) \in Nat \ {0}
    BY <1>1
  <2>2. Front(s.work) \in Seq(DOMAIN f.code)
    <3>1. \A k \in 1..Len(s.work) - 1 : k \in 1..Len(s.work) /\ s.work[k] \in DOMAIN f.code
      BY <1>1, <2>1
    <3>2. Front(s.work) = [k \in 1..Len(s.work) - 1 |-> s.work[k]]
      BY <1>1, <2>1 DEF Front
    <3>3. Len(s.work) - 1 \in Nat
      BY <2>1
    <3> DEFINE l == Len(s.work) - 1
    <3> HIDE DEF l
    <3>4. [k \in 1..l |-> s.work[k]] \in Seq(DOMAIN f.code)
      BY <3>1, <3>3 DEF l
    <3> QED
      BY <3>2, <3>4 DEF l
  <2>3. \A k \in DOMAIN Front(s.work) : k \in DOMAIN s.work /\ Front(s.work)[k] = s.work[k]
    BY <1>1, <2>1 DEF Front
  <2> QED
    BY <1>1, <1>7, <2>2, <2>3
<1> DEFINE jump == Only(changed \ {pc + 1}, JumpTarget(f.code, pc))
           fall == Only(changed, pc + 1)
<1>9. /\ jump \in Seq(DOMAIN f.code) /\ \A k \in DOMAIN jump : jump[k] \in D
      /\ fall \in Seq(DOMAIN f.code) /\ \A k \in DOMAIN fall : fall[k] \in D
  <2>1. /\ jump \in Seq(DOMAIN f.code) /\ \A k \in DOMAIN jump : jump[k] \in changed
        /\ fall \in Seq(DOMAIN f.code) /\ \A k \in DOMAIN fall : fall[k] \in changed
    <3>1. changed \ {pc + 1} \subseteq DOMAIN f.code
      BY <1>5
    <3>2. jump \in Seq(DOMAIN f.code) /\ \A k \in DOMAIN jump : jump[k] \in changed \ {pc + 1}
      BY <3>1, OnlyIs
    <3>3. fall \in Seq(DOMAIN f.code) /\ \A k \in DOMAIN fall : fall[k] \in changed
      BY <1>5, OnlyIs
    <3> QED
      BY <3>2, <3>3
  <2> QED
    BY <1>7, <2>1
<1> HIDE DEF jump, fall, D
<1>10. /\ Front(s.work) \o jump \in Seq(DOMAIN f.code)
       /\ \A k \in DOMAIN (Front(s.work) \o jump) : (Front(s.work) \o jump)[k] \in D
  BY <1>8, <1>9, ConcatIn
<1>11. /\ Front(s.work) \o jump \o fall \in Seq(DOMAIN f.code)
       /\ \A k \in DOMAIN (Front(s.work) \o jump \o fall) : (Front(s.work) \o jump \o fall)[k] \in D
  BY <1>9, <1>10, ConcatIn
<1>12. work \in Seq(DOMAIN f.code) /\ \A k \in DOMAIN work : work[k] \in DOMAIN in
  BY <1>11 DEF jump, fall, D
<1>13. Worked(f.code, s) = [in |-> in, work |-> work]
  BY DEF Worked, pc, out, at2, changed, in
<1> HIDE DEF work
<1>14. [in |-> in, work |-> work] \in WorkLists(f)
  <2>1. in \in UNION {[D2 -> Knowns(f)] : D2 \in SUBSET DOMAIN f.code}
    BY <1>6
  <2> QED
    BY <1>12, <2>1 DEF WorkLists
<1> QED
  BY <1>13, <1>14

\* What sparse propagation finds is about registers of the function.
LEMMA SolvedKnown ==
    ASSUME NEW M, NEW f, Sized(f), AcceptsCode(M, f, f.code)
    PROVE  \A pc \in DOMAIN Solved(f) : Solved(f)[pc] \in Knowns(f)
<1> DEFINE V == WorkLists(f)
           first == [in |-> [pc \in {1} |-> NothingKnown(f)], work |-> <<1>>]
           next(s) == IF s.work = <<>> THEN s ELSE Worked(f.code, s)
           step == [s \in V |-> next(s)]
           c == CHOOSE g : g = [n \in Nat |-> IF n = 0 THEN first ELSE next(g[n - 1])]
<1>1. first \in V
  <2>1. 1 \in DOMAIN f.code
    BY SequenceDomain DEF AcceptsCode
  <2>2. [pc \in {1} |-> NothingKnown(f)] \in [{1} -> Knowns(f)] /\ {1} \in SUBSET DOMAIN f.code
    BY <2>1, NothingIsKnown
  <2>3. <<1>> \in Seq(DOMAIN f.code) /\ \A k \in DOMAIN <<1>> : <<1>>[k] = 1
    <3>0. \A S : 1 \in S => <<1>> \in Seq(S)
      OBVIOUS
    <3>1. <<1>> \in Seq(DOMAIN f.code)
      BY <2>1, <3>0
    <3>2. DOMAIN <<1>> = {1} /\ <<1>>[1] = 1
      OBVIOUS
    <3> QED
      BY <3>1, <3>2
  <2>4. first.in \in [{1} -> Knowns(f)] /\ first.work = <<1>>
    BY <2>2
  <2>5. first.in \in UNION {[D -> Knowns(f)] : D \in SUBSET DOMAIN f.code}
    BY <2>2, <2>4
  <2> QED
    BY <2>3, <2>4, <2>5 DEF WorkLists
<1>2. \A s \in V : next(s) \in V
  BY WorkedKnown
<1>3. step \in [V -> V]
  <2> HIDE DEF V, next
  <2> QED
    BY <1>2
<1>4. PICK g \in [Nat -> V] : Counted(first, step, g)
  <2> HIDE DEF V, step, first
  <2> QED
    BY <1>1, <1>3, CountedRecursion
<1> HIDE DEF V, next, first
<1>5. c = [n \in Nat |-> IF n = 0 THEN first ELSE next(c[n - 1])]
  <2>1. \A n \in Nat : g[n] = IF n = 0 THEN first ELSE next(g[n - 1])
    <3> TAKE n \in Nat
    <3>1. n # 0 => n - 1 \in Nat /\ n - 1 + 1 = n
      OBVIOUS
    <3>2. n # 0 => g[n - 1] \in V /\ g[n] = step[g[n - 1]]
      BY <1>4, <3>1 DEF Counted
    <3> QED
      BY <1>4, <3>2 DEF Counted
  <2>2. g = [n \in Nat |-> IF n = 0 THEN first ELSE next(g[n - 1])]
    <3>1. g = [n \in Nat |-> g[n]]
      OBVIOUS
    <3> QED
      BY <2>1, <3>1
  <2> QED
    BY <2>2
<1> HIDE DEF c
<1>6. \A n \in Nat : c[n] \in V
  <2> DEFINE U == {k \in Nat : c[k] \in V}
  <2>1. 0 \in U /\ \A k \in Nat : k \in U => k + 1 \in U
    BY <1>1, <1>2, <1>5
  <2>2. Nat \subseteq U
    <3> HIDE DEF U
    <3> QED
      BY <2>1, CountingInduction
  <2> QED
    BY <2>2
<1>7. Len(f.code) * (f.regs + 1) + 1 \in Nat
  BY SequenceDomain DEF AcceptsCode, Sized
<1>8. Solved(f) = c[Len(f.code) * (f.regs + 1) + 1].in
  BY DEF Solved, c, next, first
<1>9. \A s \in V : \A pc \in DOMAIN s.in : s.in[pc] \in Knowns(f)
  BY DEF V, WorkLists
<1> QED
  BY <1>6, <1>7, <1>8, <1>9

\* What running the code at compile time finds is about registers of the function.
LEMMA ExecutedKnown ==
    ASSUME NEW M, NEW f, Sized(f), AcceptsCode(M, f, f.code)
    PROVE  Executed(f) \in KnownValues
<1> DEFINE V == [pc : Int, known : Knowns(f)]
           first == [pc |-> 1, known |-> NothingKnown(f)]
           next(s) == Advanced(f.code, s)
           step == [s \in V |-> next(s)]
           c == CHOOSE g : g = [n \in Nat |-> IF n = 0 THEN first ELSE next(g[n - 1])]
<1>1. first \in V
  BY NothingIsKnown
<1>2. ASSUME NEW s \in V PROVE next(s) \in V
  <2>1. CASE s.pc \notin DOMAIN f.code
    BY <1>2, <2>1 DEF Advanced
  <2>2. CASE s.pc \in DOMAIN f.code
    <3>1. Fits(M, f, Len(f.code), s.pc, f.code[s.pc])
      BY <2>2, CodeFits
    <3>2. Transfer(s.known, f.code[s.pc]) \in Knowns(f)
      BY <1>2, <3>1, TransferIsKnown
    <3>3. s.pc + 1 \in Int
      BY <1>2
    <3>4. f.code[s.pc].op \in Relative => JumpTarget(f.code, s.pc) \in Int
      BY <1>2, <3>1 DEF JumpTarget, Fits, IsInst, Operands
    <3>5. f.code[s.pc].op = "jmp" \/ Taken(s.known, f.code[s.pc]) = 1 => f.code[s.pc].op \in Relative
      BY DEF Taken, Decision, Undecided, Counting, Relative, Conditional, FusedImm
    <3> QED
      BY <1>2, <3>2, <3>3, <3>4, <3>5 DEF Advanced
  <2> QED
    BY <2>1, <2>2
<1>3. step \in [V -> V]
  <2> HIDE DEF V, next
  <2> QED
    BY <1>2
<1>4. PICK g \in [Nat -> V] : Counted(first, step, g)
  <2> HIDE DEF V, step, first
  <2> QED
    BY <1>1, <1>3, CountedRecursion
<1> HIDE DEF V, next, first
<1>5. c = [n \in Nat |-> IF n = 0 THEN first ELSE next(c[n - 1])]
  <2>1. \A n \in Nat : g[n] = IF n = 0 THEN first ELSE next(g[n - 1])
    <3> TAKE n \in Nat
    <3>1. n # 0 => n - 1 \in Nat /\ n - 1 + 1 = n
      OBVIOUS
    <3>2. n # 0 => g[n - 1] \in V /\ g[n] = step[g[n - 1]]
      BY <1>4, <3>1 DEF Counted
    <3> QED
      BY <1>4, <3>2 DEF Counted
  <2>2. g = [n \in Nat |-> IF n = 0 THEN first ELSE next(g[n - 1])]
    <3>1. g = [n \in Nat |-> g[n]]
      OBVIOUS
    <3> QED
      BY <2>1, <3>1
  <2> QED
    BY <2>2
<1> HIDE DEF c
<1>6. \A n \in Nat : c[n] \in V
  <2> DEFINE U == {k \in Nat : c[k] \in V}
  <2>1. 0 \in U /\ \A k \in Nat : k \in U => k + 1 \in U
    BY <1>1, <1>2, <1>5
  <2>2. Nat \subseteq U
    <3> HIDE DEF U
    <3> QED
      BY <2>1, CountingInduction
  <2> QED
    BY <2>2
<1> DEFINE end == c[ConstExecMaxSteps - 1]
           i == f.code[end.pc]
           found == end.pc \in DOMAIN f.code /\ i.op = "ret" /\ IsKnownInt(end.known[i.a])
<1>7. end \in V
  BY <1>6, OptimizerAssumption
<1>8. Executed(f) = IF found THEN end.known[i.a] ELSE Unknown
  BY DEF Executed, c, next, first
<1> HIDE DEF end
<1>9. CASE found
  <2>1. Fits(M, f, Len(f.code), end.pc, i)
    BY <1>9, CodeFits
  <2>2. i.a \in Registers(f)
    <3>1. "a" \in RegisterFields(i.op)
      BY <1>9, FieldNames
    <3> HIDE DEF i
    <3> QED
      BY <2>1, <3>1, NamedRegisters DEF Registers
  <2> QED
    BY <1>7, <1>8, <1>9, <2>2 DEF V, Knowns
<1>10. CASE ~found
  BY <1>8, <1>10, KnownIs
<1> QED
  BY <1>9, <1>10

\* What strength reduction makes of an instruction fits in its place.
LEMMA StrengthFits ==
    ASSUME NEW M, NEW f, Sized(f), NEW size, NEW pc, NEW i, Fits(M, f, size, pc, i), NEW known
    PROVE  Fits(M, f, size, pc, StrengthInst(known, i))
<1>1. CASE i.op = "mul"
  <2>1. i.a \in 0..f.regs - 1 /\ i.b \in 0..f.regs - 1 /\ i.c \in 0..f.regs - 1
    BY <1>1, FieldNames, NamedRegisters DEF Binary
  <2>2. \A k : \A x \in 0..f.regs - 1 : Fits(M, f, size, pc, Multiplied(i, k, x))
    <3> TAKE k
    <3> TAKE x \in 0..f.regs - 1
    <3>0. \A v \in Int : Fits(M, f, size, pc, Inst("loadk", i.a, v, 0))
      BY <2>1, NewFits
    <3>1. /\ Fits(M, f, size, pc, Inst("loadk", i.a, 0, 0)) /\ Fits(M, f, size, pc, Inst("mov", i.a, x, 0))
          /\ Fits(M, f, size, pc, Inst("add", i.a, x, x))
      BY <2>1, <3>0, NewFits
    <3> QED
      BY <3>1 DEF Multiplied
  <2> QED
    BY <2>1, <2>2 DEF StrengthInst
<1>2. CASE i.op # "mul"
  BY <1>2 DEF StrengthInst
<1> QED
  BY <1>1, <1>2

\* A constant in place of an instruction that computes it fits.
LEMMA ConstantsFit ==
    ASSUME NEW M, NEW f, Sized(f), NEW size, NEW pc, NEW i, Fits(M, f, size, pc, i),
           NEW known \in Knowns(f),
           NEW ops, ops \subseteq Binary \union Immediate \union Step1 \union {"mov"}
    PROVE  Fits(M, f, size, pc, Constants(known, i, ops))
<1>1. CASE i.op \in Conditional
  <2>1. i.b \in Int /\ pc + i.b \in 1..size
    BY <1>1 DEF Fits, IsInst, Operands, Delta, DeltaField, Relative, Conditional
  <2>2. Fits(M, f, size, pc, Inst("jmp", i.b, 0, 0)) /\ Fits(M, f, size, pc, Nop)
    BY <2>1, NewFits
  <2>3. Fits(M, f, size, pc, Decided(known, i))
    BY <2>2 DEF Decided
  <2> QED
    BY <1>1, <2>3 DEF Constants
<1>2. CASE i.op \notin Conditional
  <2>1. i.op \in ops => i.a \in 0..f.regs - 1
    BY FieldNames, NamedRegisters
  <2>2. i.op \in ops => \A v \in Int : Fits(M, f, size, pc, Inst("loadk", i.a, v, 0))
    BY <2>1, NewFits
  <2>3. Result(known, i).value \in Int
    BY ResultIsKnown DEF KnownValues
  <2> QED
    BY <1>2, <2>2, <2>3 DEF Constants
<1> QED
  BY <1>1, <1>2

\* Strength reduction keeps code accepted, whatever is known of the registers.
LEMMA StrengthReductionKeeps ==
    ASSUME NEW M, NEW f, Sized(f), AcceptsCode(M, f, f.code)
    PROVE  AcceptsCode(M, f, StrengthReduction(f))
<1> DEFINE known == KnownBefore(f, StrengthInst)
           new == [pc \in DOMAIN f.code |-> StrengthInst(known[pc], f.code[pc])]
<1>1. StrengthReduction(f) = new
  BY DEF StrengthReduction, Forward
<1> HIDE DEF known
<1>2. \A pc \in 1..Len(f.code) : Fits(M, f, Len(f.code), pc, new[pc])
  BY CodeFits, StrengthFits, SequenceDomain DEF AcceptsCode
<1>3. OnDomain(DOMAIN f.code, new)
  BY DEF OnDomain
<1> HIDE DEF new
<1>4. AcceptsCode(M, f, new)
  BY <1>2, <1>3, Rewritten
<1> QED
  BY <1>1, <1>4

\* Every instruction that constant folding makes fits.
LEMMA FoldFits ==
    ASSUME NEW M, NEW f, Sized(f), NEW size, NEW pc, NEW i, Fits(M, f, size, pc, i),
           NEW known \in Knowns(f)
    PROVE  Fits(M, f, size, pc, FoldInst(known, i)) /\ Fits(M, f, size, pc, SccpInst(known, i))
BY ConstantsFit DEF FoldInst, SccpInst

\* What is known before each instruction, as constant folding goes through the code.
LEMMA FoldKnowledge ==
    ASSUME NEW M, NEW f, Sized(f), AcceptsCode(M, f, f.code)
    PROVE  \A pc \in DOMAIN f.code :
             /\ KnownBefore(f, FoldInst)[pc] \in Knowns(f)
             /\ KnownBefore(f, FoldInst)[pc] =
                  IF pc = 1 \/ pc \in Labels(f.code) THEN NothingKnown(f)
                  ELSE FoldStep(f, KnownBefore(f, FoldInst)[pc - 1], f.code[pc - 1])
<1> DEFINE V == Knowns(f)
           n == Len(f.code)
           next(k, known) == IF k \in Labels(f.code) \/ k = 1 THEN NothingKnown(f)
                             ELSE FoldStep(f, known, f.code[k - 1])
           step == [k \in 1..n |-> [known \in V |-> next(k, known)]]
<1>1. n \in Nat /\ DOMAIN f.code = 1..n
  BY SequenceDomain DEF AcceptsCode
<1>2. NothingKnown(f) \in V
  BY NothingIsKnown
<1>0. ASSUME NEW pc \in DOMAIN f.code, NEW known \in V
      PROVE  FoldStep(f, known, f.code[pc]) \in V
  <2>1. Fits(M, f, n, pc, f.code[pc])
    BY <1>0, CodeFits
  <2>2. Fits(M, f, n, pc, FoldInst(known, f.code[pc]))
    BY <2>1, FoldFits
  <2>3. After(known, FoldInst(known, f.code[pc])) \in V
    BY <2>2, AfterIsKnown
  <2> HIDE DEF V
  <2> QED
    BY <1>2, <2>3 DEF FoldStep
<1>3. step \in [1..n -> [V -> V]]
  <2>1. ASSUME NEW k \in 1..n, NEW known \in V PROVE next(k, known) \in V
    <3>1. k # 1 => k - 1 \in DOMAIN f.code
      BY <1>1
    <3> HIDE DEF V, n
    <3> QED
      BY <1>0, <1>2, <3>1
  <2> HIDE DEF V, n, next
  <2> QED
    BY <2>1
<1>4. PICK g \in [1..n -> V] : Along(n, NothingKnown(f), step, g)
  <2> HIDE DEF V, step, n
  <2> QED
    BY <1>1, <1>2, <1>3, SequenceRecursion
<1> DEFINE Body(h, pc) == IF pc = 1 \/ pc \in Labels(f.code) THEN NothingKnown(f)
                          ELSE FoldStep(f, h[pc - 1], f.code[pc - 1])
<1>5. \A k \in 1..n : g[k] = Body(g, k)
  <2> TAKE k \in 1..n
  <2>1. g[k] = IF k = 1 THEN NothingKnown(f) ELSE step[k][g[k - 1]]
    BY <1>4 DEF Along
  <2>2. k # 1 => g[k - 1] \in V
    <3> HIDE DEF V, n
    <3>1. k # 1 => k - 1 \in 1..n
      BY <1>1
    <3> QED
      BY <1>4, <3>1
  <2>3. k # 1 => step[k][g[k - 1]] = next(k, g[k - 1])
    <3> HIDE DEF V, n, next
    <3> QED
      BY <2>2
  <2> QED
    BY <2>1, <2>3
<1> DEFINE chosen == CHOOSE h : h = [pc \in DOMAIN f.code |-> Body(h, pc)]
<1>6. KnownBefore(f, FoldInst) = chosen
  BY DEF KnownBefore, FoldStep
<1>7. chosen = [pc \in 1..n |-> Body(chosen, pc)]
  <2>1. g = [pc \in 1..n |-> Body(g, pc)]
    <3>1. g = [pc \in 1..n |-> g[pc]]
      OBVIOUS
    <3> HIDE DEF Body
    <3> QED
      BY <1>5, <3>1
  <2>2. \E h : h = [pc \in 1..n |-> Body(h, pc)]
    BY <2>1
  <2> HIDE DEF Body
  <2> QED
    BY <1>1, <2>2
<1> HIDE DEF chosen
<1>8. \A pc \in 1..n : chosen[pc] \in V
  <2> DEFINE T == {k \in Nat : k + 1 \in 1..n => chosen[k + 1] \in V}
  <2>1. 0 \in T
    BY <1>2, <1>7
  <2>2. ASSUME NEW k \in Nat, k \in T PROVE k + 1 \in T
    <3>1. SUFFICES ASSUME k + 2 \in 1..n PROVE chosen[k + 2] \in V
      OBVIOUS
    <3>2. k + 1 \in 1..n /\ k + 2 # 1 /\ k + 2 - 1 = k + 1
      BY <1>1, <3>1
    <3>3. chosen[k + 1] \in V
      BY <2>2, <3>2
    <3>4. FoldStep(f, chosen[k + 1], f.code[k + 1]) \in V
      BY <1>0, <1>1, <3>2, <3>3
    <3> HIDE DEF V
    <3> QED
      BY <1>2, <1>7, <3>1, <3>2, <3>4
  <2>3. Nat \subseteq T
    <3> HIDE DEF T
    <3> QED
      BY <2>1, <2>2, CountingInduction
  <2>4. ASSUME NEW pc \in 1..n PROVE chosen[pc] \in V
    <3>1. pc - 1 \in Nat /\ pc - 1 + 1 = pc
      BY <1>1
    <3> HIDE DEF V
    <3> QED
      BY <2>3, <3>1
  <2> QED
    BY <2>4
<1>9. \A pc \in DOMAIN f.code : chosen[pc] \in Knowns(f) /\ chosen[pc] = Body(chosen, pc)
  <2> HIDE DEF Body
  <2> QED
    BY <1>1, <1>7, <1>8
<1> QED
  BY <1>6, <1>9

\* Constant folding keeps code accepted.
LEMMA ConstFoldKeeps ==
    ASSUME NEW M, NEW f, Sized(f), AcceptsCode(M, f, f.code)
    PROVE  AcceptsCode(M, f, ConstFold(f))
<1> DEFINE known == KnownBefore(f, FoldInst)
           new == [pc \in DOMAIN f.code |-> FoldInst(known[pc], f.code[pc])]
<1>1. ConstFold(f) = new
  BY DEF ConstFold, Forward
<1>0. \A pc \in DOMAIN f.code : known[pc] \in Knowns(f)
  BY FoldKnowledge
<1> HIDE DEF known
<1>2. \A pc \in 1..Len(f.code) : Fits(M, f, Len(f.code), pc, new[pc])
  BY <1>0, FoldFits, CodeFits, SequenceDomain DEF AcceptsCode
<1>3. OnDomain(DOMAIN f.code, new)
  BY DEF OnDomain
<1> HIDE DEF new
<1>4. AcceptsCode(M, f, new)
  BY <1>2, <1>3, Rewritten
<1> QED
  BY <1>1, <1>4

\* Sparse constant propagation keeps code accepted: a decided branch becomes a jump to
\* the same place or a nop.
LEMMA SccpKeeps ==
    ASSUME NEW M, NEW f, Sized(f), AcceptsCode(M, f, f.code)
    PROVE  AcceptsCode(M, f, Sccp(f))
<1> DEFINE in == Solved(f)
           new == [pc \in DOMAIN f.code |->
                     IF pc \in DOMAIN in THEN SccpInst(in[pc], f.code[pc]) ELSE Nop]
<1>1. Sccp(f) = new
  BY DEF Sccp
<1>0. \A pc \in DOMAIN in : in[pc] \in Knowns(f)
  BY SolvedKnown
<1> HIDE DEF in
<1>2. \A pc \in 1..Len(f.code) : Fits(M, f, Len(f.code), pc, new[pc])
  <2>1. \A k \in Knowns(f) : \A i, pc : Fits(M, f, Len(f.code), pc, i) => Fits(M, f, Len(f.code), pc, SccpInst(k, i))
    BY FoldFits
  <2>2. \A pc : Fits(M, f, Len(f.code), pc, Nop)
    BY NewFits
  <2> QED
    BY <1>0, <2>1, <2>2, CodeFits, SequenceDomain DEF AcceptsCode
<1>3. OnDomain(DOMAIN f.code, new)
  BY DEF OnDomain
<1> HIDE DEF new
<1>4. AcceptsCode(M, f, new)
  BY <1>2, <1>3, Rewritten
<1> QED
  BY <1>1, <1>4

\* A function that was executed at compile time becomes a load and a return, which fit.
LEMMA ConstExecKeeps ==
    ASSUME NEW M, NEW f, Sized(f), AcceptsCode(M, f, f.code)
    PROVE  AcceptsCode(M, f, ConstExec(f))
<1>1. ASSUME NEW v \in Int PROVE AcceptsCode(M, f, <<Inst("loadk", 0, v, 0), Inst("ret", 0, 0, 0)>>)
  <2> DEFINE code == <<Inst("loadk", 0, v, 0), Inst("ret", 0, 0, 0)>>
  <2>1. Fits(M, f, 2, 1, Inst("loadk", 0, v, 0))
    <3>1. 0 \in 0..f.regs - 1
      BY DEF Sized
    <3> QED
      BY <3>1, NewFits
  <2>2. Fits(M, f, 2, 2, Inst("ret", 0, 0, 0))
    BY DEF Fits, IsInst, Operands, Inst, WindowEnd, Sized, RegisterFields, Relative, Calls,
           ClosureCalls, Upvalues, Conditional, FusedImm, Binary, Immediate, Step1
  <2>3. code[1] = Inst("loadk", 0, v, 0) /\ code[2] = Inst("ret", 0, 0, 0) /\ Len(code) = 2
    OBVIOUS
  <2>4. OnDomain(1..2, code)
    BY DEF OnDomain
  <2> HIDE DEF code
  <2>5. IsSequence(code) /\ code # <<>>
    BY <2>3, <2>4, DomainSequence, SequenceDomain
  <2>6. \A pc \in 1..Len(code) : Fits(M, f, Len(code), pc, code[pc])
    BY <2>1, <2>2, <2>3
  <2>7. AcceptsCode(M, f, code)
    BY <2>5, <2>6 DEF AcceptsCode
  <2> QED
    BY <2>7 DEF code
<1>2. Executed(f).value \in Int
  BY ExecutedKnown DEF KnownValues
<1> QED
  BY <1>1, <1>2 DEF ConstExec

(* copy_prop                                                               *)

\* An alias map that leads from registers of the function to registers of the function.
Renames(f, alias) == alias \in [Registers(f) -> Registers(f)]

\* Renaming the registers an instruction reads keeps it fitting.
LEMMA RenamedFits ==
    ASSUME NEW M, NEW f, Sized(f), NEW size, NEW pc, NEW i, Fits(M, f, size, pc, i),
           NEW alias, Renames(f, alias)
    PROVE  Fits(M, f, size, pc, RenamedInst(alias, i))
<1> DEFINE j == [field \in DOMAIN i |->
                   IF field \in CopySources(i.op) THEN alias[i[field]] ELSE i[field]]
<1>1. i \in [op : {i.op}, flags : {i.flags}, a : {i.a}, b : {i.b}, c : {i.c}]
  BY DEF Fits, IsInst
<1>2. DOMAIN i = {"op", "flags", "a", "b", "c"}
  BY <1>1
<1>3. CopySources(i.op) \subseteq RegisterFields(i.op)
  BY DEF CopySources, RegisterFields, Relative, Calls, ClosureCalls, Upvalues, Conditional, FusedImm,
         Binary, Immediate, Step1
<1>4. RegisterFields(i.op) \subseteq {"a", "b", "c"}
  BY FieldNames
<1>5. \A field \in RegisterFields(i.op) : i[field] \in Registers(f)
  BY NamedRegisters DEF Registers
<1>6. /\ j \in [op : {j.op}, flags : {j.flags}, a : {j.a}, b : {j.b}, c : {j.c}]
      /\ j.op = i.op /\ j.flags = i.flags
      /\ \A field \in {"a", "b", "c"} \ CopySources(i.op) : j[field] = i[field]
      /\ \A field \in CopySources(i.op) : j[field] = alias[i[field]]
  BY <1>2, <1>3, <1>4
<1> HIDE DEF j
<1>7. \A field \in RegisterFields(i.op) : j[field] \in Registers(f)
  BY <1>3, <1>4, <1>5, <1>6 DEF Renames
<1>8. Fits(M, f, size, pc, j)
  <2>1. \A field \in RegisterFields(j.op) : j[field] \in Nat /\ j[field] < f.regs
    BY <1>6, <1>7 DEF Registers, Sized
  <2>2. /\ i.op \in Relative => DeltaField(i.op) \notin CopySources(i.op) /\ DeltaField(i.op) \in {"a", "b", "c"}
        /\ i.op \in Calls \union {"ffi_call", "vararg", "closure", "try_begin", "get_upval"} => CopySources(i.op) = {}
        /\ i.op \in ClosureCalls => CopySources(i.op) = {"b"}
        /\ i.op = "set_upval" => CopySources(i.op) = {"a"}
    BY DEF CopySources, DeltaField, Relative, Calls, ClosureCalls, Upvalues, Conditional, FusedImm,
           Binary, Immediate, Step1
  <2>3. i.op \in Relative => Delta(j) = Delta(i)
    BY <1>6, <2>2 DEF Delta
  <2>4. i.op \in Calls \union ClosureCalls \union {"ffi_call", "vararg", "closure", "try_begin"}
          => j.a = i.a /\ j.c = i.c
    BY <1>6, <2>2
  <2>5. i.op \in Calls \union Upvalues \union {"closure", "try_begin"} => j.b = i.b
    BY <1>6, <2>2 DEF Upvalues
  <2>6. WindowEnd(j) = WindowEnd(i)
    BY <1>6, <2>4 DEF WindowEnd
  <2>8. (i.op \in FusedImm \union {"loadk"} => j.b = i.b) /\ (i.op \in Immediate => j.c = i.c)
    <3>1. /\ i.op \in FusedImm \union {"loadk"} => "b" \notin CopySources(i.op)
          /\ i.op \in Immediate => "c" \notin CopySources(i.op)
      BY DEF CopySources, ClosureCalls, Conditional, FusedImm, Binary, Immediate, Step1
    <3> QED
      BY <1>6, <3>1
  <2>7. IsInst(j)
    BY <1>6, <2>1, <2>3, <2>4, <2>5, <2>8 DEF IsInst, Operands, Fits
  <2> QED
    BY <1>6, <2>1, <2>3, <2>4, <2>5, <2>6, <2>7 DEF Fits, TryTargets
<1>9. Fits(M, f, size, pc, Nop)
  BY NewFits
<1> QED
  BY <1>8, <1>9 DEF RenamedInst, j

\* The alias map after one instruction.
AliasStep(f, before, old) ==
    LET i == RenamedInst(before, old)
        kept1 == Killed(before, IF old.op = "mov" THEN {old.a} ELSE Forgets(i))
    IN  IF i.op \in Relative \union Terminators THEN NoAlias(f)
        ELSE IF i.op = "mov" THEN [kept1 EXCEPT ![i.a] = i.b]
        ELSE kept1

\* An instruction that fits adds only aliases between registers of the function.
LEMMA AliasStepRenames ==
    ASSUME NEW M, NEW f, Sized(f), NEW size, NEW pc, NEW i, Fits(M, f, size, pc, i),
           NEW alias, Renames(f, alias)
    PROVE  Renames(f, AliasStep(f, alias, i))
<1> DEFINE j == RenamedInst(alias, i)
           regs == IF i.op = "mov" THEN {i.a} ELSE Forgets(j)
           rest == Killed(alias, regs)
<1>1. Fits(M, f, size, pc, j)
  BY RenamedFits
<1>2. rest \in [Registers(f) -> Registers(f)]
  <2> HIDE DEF regs
  <2> QED
    BY DEF Renames, Killed
<1>3. j.op = "mov" => j.b \in Registers(f)
  <2> HIDE DEF j
  <2> QED
    BY <1>1, NamedRegisters, FieldNames DEF Registers
<1>4. NoAlias(f) \in [Registers(f) -> Registers(f)]
  BY DEF NoAlias
<1>5. j.op = "mov" => [rest EXCEPT ![j.a] = j.b] \in [Registers(f) -> Registers(f)]
  BY <1>2, <1>3
<1> HIDE DEF j, regs, rest
<1>6. AliasStep(f, alias, i) \in [Registers(f) -> Registers(f)]
  BY <1>2, <1>4, <1>5 DEF AliasStep, j, regs, rest
<1> QED
  BY <1>6 DEF Renames

\* The alias map before each instruction renames within the function.
LEMMA AliasesRename ==
    ASSUME NEW M, NEW f, Sized(f), AcceptsCode(M, f, f.code)
    PROVE  \A pc \in DOMAIN f.code :
             /\ Renames(f, Aliases(f)[pc])
             /\ Aliases(f)[pc] = IF pc = 1 \/ pc \in Labels(f.code) THEN NoAlias(f)
                                ELSE AliasStep(f, Aliases(f)[pc - 1], f.code[pc - 1])
<1> DEFINE V == [Registers(f) -> Registers(f)]
           n == Len(f.code)
           next(k, alias) == IF k \in Labels(f.code) \/ k = 1 THEN NoAlias(f)
                             ELSE AliasStep(f, alias, f.code[k - 1])
           step == [k \in 1..n |-> [alias \in V |-> next(k, alias)]]
<1>1. n \in Nat /\ DOMAIN f.code = 1..n
  BY SequenceDomain DEF AcceptsCode
<1>2. NoAlias(f) \in V
  BY DEF NoAlias
<1>3. step \in [1..n -> [V -> V]]
  <2>1. ASSUME NEW k \in 1..n, NEW alias \in V PROVE next(k, alias) \in V
    <3>1. k # 1 => k - 1 \in DOMAIN f.code
      BY <1>1
    <3>2. k # 1 => Fits(M, f, n, k - 1, f.code[k - 1])
      BY <3>1, CodeFits
    <3>3. Renames(f, alias)
      BY <2>1 DEF Renames
    <3>4. k # 1 => Renames(f, AliasStep(f, alias, f.code[k - 1]))
      BY <3>2, <3>3, AliasStepRenames
    <3> QED
      BY <1>2, <3>4 DEF Renames
  <2> HIDE DEF V, n, next
  <2> QED
    BY <2>1
<1>4. PICK g \in [1..n -> V] : Along(n, NoAlias(f), step, g)
  <2> HIDE DEF V, step, n
  <2> QED
    BY <1>1, <1>2, <1>3, SequenceRecursion
<1> DEFINE Body(h, pc) == IF pc = 1 \/ pc \in Labels(f.code) THEN NoAlias(f)
                          ELSE AliasStep(f, h[pc - 1], f.code[pc - 1])
<1>5. \A k \in 1..n : g[k] = Body(g, k)
  <2> TAKE k \in 1..n
  <2>1. g[k] = IF k = 1 THEN NoAlias(f) ELSE step[k][g[k - 1]]
    BY <1>4 DEF Along
  <2>2. k # 1 => g[k - 1] \in V
    <3> HIDE DEF V, n
    <3>1. k # 1 => k - 1 \in 1..n
      BY <1>1
    <3> QED
      BY <1>4, <3>1
  <2>3. k # 1 => step[k][g[k - 1]] = next(k, g[k - 1])
    <3> HIDE DEF V, n, next
    <3> QED
      BY <2>2
  <2> QED
    BY <2>1, <2>3
<1> DEFINE chosen == CHOOSE h : h = [pc \in DOMAIN f.code |-> Body(h, pc)]
<1>6. Aliases(f) = chosen
  BY DEF Aliases, AliasStep
<1>7. chosen = [pc \in 1..n |-> Body(chosen, pc)]
  <2>1. g = [pc \in 1..n |-> Body(g, pc)]
    <3>1. g = [pc \in 1..n |-> g[pc]]
      OBVIOUS
    <3> HIDE DEF Body
    <3> QED
      BY <1>5, <3>1
  <2>2. \E h : h = [pc \in 1..n |-> Body(h, pc)]
    BY <2>1
  <2> HIDE DEF Body
  <2> QED
    BY <1>1, <2>2
<1> HIDE DEF chosen
<1>8. \A pc \in 1..n : Renames(f, chosen[pc])
  <2> DEFINE T == {k \in Nat : k + 1 \in 1..n => Renames(f, chosen[k + 1])}
  <2>1. 0 \in T
    BY <1>2, <1>7 DEF Renames
  <2>2. ASSUME NEW k \in Nat, k \in T PROVE k + 1 \in T
    <3>1. SUFFICES ASSUME k + 2 \in 1..n PROVE Renames(f, chosen[k + 2])
      OBVIOUS
    <3>2. k + 1 \in 1..n /\ k + 2 # 1 /\ k + 2 - 1 = k + 1
      BY <1>1, <3>1
    <3>3. Renames(f, chosen[k + 1])
      BY <2>2, <3>2
    <3>4. Fits(M, f, n, k + 1, f.code[k + 1])
      BY <1>1, <3>2, CodeFits
    <3>5. Renames(f, AliasStep(f, chosen[k + 1], f.code[k + 1])) /\ Renames(f, NoAlias(f))
      BY <1>2, <3>3, <3>4, AliasStepRenames DEF Renames
    <3> QED
      BY <1>7, <3>1, <3>2, <3>5
  <2>3. Nat \subseteq T
    <3> HIDE DEF T
    <3> QED
      BY <2>1, <2>2, CountingInduction
  <2>4. ASSUME NEW pc \in 1..n PROVE Renames(f, chosen[pc])
    <3>1. pc - 1 \in Nat /\ pc - 1 + 1 = pc
      BY <1>1
    <3> QED
      BY <2>3, <3>1
  <2> QED
    BY <2>4
<1>9. \A pc \in DOMAIN f.code : Renames(f, chosen[pc]) /\ chosen[pc] = Body(chosen, pc)
  <2> HIDE DEF Body
  <2> QED
    BY <1>1, <1>7, <1>8
<1> QED
  BY <1>6, <1>9

\* Copy propagation keeps code accepted.
LEMMA CopyPropKeeps ==
    ASSUME NEW M, NEW f, Sized(f), AcceptsCode(M, f, f.code)
    PROVE  AcceptsCode(M, f, CopyProp(f))
<1> DEFINE alias == Aliases(f)
           new == [pc \in DOMAIN f.code |-> RenamedInst(alias[pc], f.code[pc])]
<1>1. CopyProp(f) = new
  BY DEF CopyProp
<1>2. \A pc \in DOMAIN f.code : Renames(f, alias[pc])
  BY AliasesRename
<1> HIDE DEF alias
<1>3. \A pc \in 1..Len(f.code) : Fits(M, f, Len(f.code), pc, new[pc])
  BY <1>2, RenamedFits, CodeFits, SequenceDomain DEF AcceptsCode
<1>4. OnDomain(DOMAIN f.code, new)
  BY DEF OnDomain
<1> HIDE DEF new
<1>5. AcceptsCode(M, f, new)
  BY <1>3, <1>4, Rewritten
<1> QED
  BY <1>1, <1>5

\* The new place of an instruction that stays, and of a target that does not.
LEMMA PlaceStays ==
    ASSUME NEW code, IsSequence(code), Staying(code) # {}, NEW pc
    PROVE  /\ Staying(code) \subseteq 1..Len(code) /\ Len(code) \in Nat
           /\ NewPlace(code, pc) \in 1..Cardinality(Staying(code))
           /\ Cardinality(Staying(code)) \in Nat
           /\ pc \in Staying(code) => NewPlace(code, pc) = UpTo(Staying(code), pc)
<1> DEFINE S == Staying(code)
           places == {k \in S : k >= pc}
           old == IF places # {} THEN Min(places) ELSE Max(S)
<1>1. S \subseteq 1..Len(code) /\ Len(code) \in Nat
  BY SequenceDomain DEF Staying
<1>10. \A k \in S : k \in Nat
  BY <1>1
<1> HIDE DEF S
<1>2. S # {}
  BY DEF S
<1>3. places # {} => Min(places) \in places /\ \A k \in places : Min(places) <= k
  <2>1. places \in SUBSET Nat
    BY <1>10
  <2> HIDE DEF places
  <2>2. places # {} => \E x \in places : \A y \in places : x =< y
    BY <2>1, LeastNumber
  <2> QED
    BY <2>2 DEF Min
<1>4. Max(S) \in S
  BY <1>1, <1>2, MaxIn
<1>5. old \in S
  BY <1>3, <1>4
<1>6. NewPlace(code, pc) = UpTo(S, old)
  BY DEF NewPlace, UpTo, S
<1>7. pc \in S => old = pc
  <2>1. pc \in S => pc \in places /\ pc \in Nat
    BY <1>1
  <2>2. \A k \in places : k \in Nat /\ k >= pc
    BY <1>1
  <2> HIDE DEF places
  <2> QED
    BY <1>3, <2>1, <2>2
<1> HIDE DEF old
<1>8. UpTo(S, old) \in 1..Cardinality(S) /\ Cardinality(S) \in Nat
  <2>1. old \in Nat
    BY <1>1, <1>5
  <2>2. UpTo(S, old) \in 1..Cardinality(S) /\ Cardinality(S) \in Nat
    <3>1. Counts(S, Len(code))
      BY <1>1, CountedUpTo
    <3>2. UpTo(S, old) \in 0..Cardinality(S) /\ Cardinality(S) \in Nat /\ UpTo(S, old) # 0
      BY <1>5, <2>1, <3>1 DEF Counts
    <3> QED
      BY <3>2
  <2> QED
    BY <2>2
<1>9. /\ S \subseteq 1..Len(code) /\ Len(code) \in Nat /\ Cardinality(S) \in Nat
      /\ NewPlace(code, pc) \in 1..Cardinality(S)
      /\ pc \in S => NewPlace(code, pc) = UpTo(S, pc)
  BY <1>1, <1>6, <1>7, <1>8
<1> QED
  BY <1>9 DEF S

\* Cleanup removes nops and adjusts every jump to the code that is left: the code stays
\* accepted.
LEMMA CleanupKeeps ==
    ASSUME NEW M, NEW f, Sized(f), NEW code, AcceptsCode(M, f, code)
    PROVE  AcceptsCode(M, f, Cleanup(code))
<1> DEFINE S == Staying(code)
           n == Cardinality(S)
           moved(pc) == NewPlace(code, JumpTarget(code, pc)) - NewPlace(code, pc)
           from(k) == CHOOSE pc \in S : NewPlace(code, pc) = k
           inst(pc) == IF code[pc].op \in Relative THEN Redirected(code[pc], moved(pc)) ELSE code[pc]
           new == [k \in 1..n |-> inst(from(k))]
<1>1. CASE HasTry(code) \/ S \in {{}, DOMAIN code}
  BY <1>1 DEF Cleanup
<1>2. CASE ~(HasTry(code) \/ S \in {{}, DOMAIN code})
  <2>1. /\ IsSequence(code) /\ S # {} /\ S \subseteq 1..Len(code) /\ Len(code) \in Nat /\ n \in Nat
        /\ \A pc : NewPlace(code, pc) \in 1..n
        /\ \A pc \in S : NewPlace(code, pc) = UpTo(S, pc)
    BY <1>2, PlaceStays DEF AcceptsCode
  <2>2. Cleanup(code) = new
    BY <1>2 DEF Cleanup, Redirected
  <2>3. ASSUME NEW k \in 1..n PROVE from(k) \in S /\ NewPlace(code, from(k)) = k
    <3>1. k \in 1..Cardinality(S)
      OBVIOUS
    <3>2. RankIsTaken(S, k)
      <4> HIDE DEF S
      <4> QED
        BY <2>1, <3>1, RankTaken
    <3>3. \E pc \in S : NewPlace(code, pc) = k
      <4> HIDE DEF S
      <4> QED
        BY <2>1, <3>2 DEF RankIsTaken
    <3> QED
      BY <3>3
  <2>4. ASSUME NEW pc \in S, NEW k \in 1..n, NewPlace(code, pc) = k PROVE Fits(M, f, n, k, inst(pc))
    <3>1. pc \in DOMAIN code /\ Fits(M, f, Len(code), pc, code[pc])
      BY <2>1, SequenceDomain DEF AcceptsCode
    <3>2. CASE code[pc].op \in Relative
      <4>1. moved(pc) \in Int /\ k + moved(pc) \in 1..n
        BY <2>1, <2>4
      <4> QED
        BY <3>1, <3>2, <4>1, RedirectedFits
    <3>3. CASE code[pc].op \notin Relative
      <4>1. code[pc].op # "try_begin"
        BY <1>2, <3>1 DEF HasTry, Tries
      <4>2. Fits(M, f, n, k, code[pc])
        BY <3>1, <3>3, <4>1, FitsElsewhere DEF Sized
      <4> QED
        BY <3>3, <4>2
    <3> QED
      BY <3>2, <3>3
  <2>5. OnDomain(1..n, new)
    BY DEF OnDomain
  <2>6. n # 0
    BY <2>1
  <2> HIDE DEF n, from, inst
  <2>7. \A k \in 1..n : Fits(M, f, n, k, new[k])
    BY <2>3, <2>4
  <2> HIDE DEF new
  <2>8. IsSequence(new) /\ Len(new) = n /\ new # <<>>
    BY <2>1, <2>5, <2>6, DomainSequence, SequenceDomain
  <2>9. AcceptsCode(M, f, new)
    BY <2>7, <2>8 DEF AcceptsCode
  <2> QED
    BY <2>2, <2>9
<1> QED
  BY <1>1, <1>2

-----------------------------------------------------------------------------
(* Inlining                                                                *)

\* A call that goes to the native function behind a forwarder fits in its place.
LEMMA BypassFits ==
    ASSUME NEW M, NEW f, Sized(f), NEW size, NEW pc, NEW i, Fits(M, f, size, pc, i)
    PROVE  Fits(M, f, size, pc, BypassInst(M, i))
<1>1. ASSUME i.op = "call", NEW b PROVE Fits(M, f, size, pc, Inst("ffi_call", i.a, b, i.c))
  <2>1. i.a \in Nat /\ i.c \in Nat /\ i.a + i.c < f.regs
    BY <1>1 DEF Fits, IsInst, Operands, Calls, WindowEnd
  <2> QED
    BY <2>1 DEF Fits, IsInst, Operands, Inst, WindowEnd, RegisterFields, Relative, Calls, ClosureCalls,
                Upvalues, Conditional, FusedImm, Binary, Immediate, Step1
<1> QED
  BY <1>1 DEF BypassInst

\* Bypassing forwarders keeps every function accepted and its signature.
LEMMA BypassKeeps ==
    ASSUME NEW M, IsSequence(M), \A n \in DOMAIN M : Accepted(M, M[n])
    PROVE  SameSignatures(M, Bypass(M)) /\ \A n \in DOMAIN M : Accepted(Bypass(M), Bypass(M)[n])
<1> DEFINE N == Bypass(M)
           code(n) == [pc \in DOMAIN M[n].code |-> BypassInst(M, M[n].code[pc])]
<1>1. \A n \in DOMAIN M : N[n] = [M[n] EXCEPT !.code = code(n)]
  BY DEF Bypass
<1>2. OnDomain(DOMAIN M, N)
  BY DEF Bypass, OnDomain
<1> HIDE DEF N
<1>3. IsSequence(N) /\ DOMAIN N = DOMAIN M
  BY <1>2, SequenceDomain, DomainSequence
<1>4. SameSignatures(M, N)
  <2>1. ASSUME NEW n \in DOMAIN M
        PROVE  N[n].params = M[n].params /\ N[n].vararg = M[n].vararg /\ N[n].upvalues = M[n].upvalues
    BY <1>1 DEF Accepted, FunctionRecord
  <2> QED
    BY <1>3, <2>1 DEF SameSignatures
<1>5. ASSUME NEW n \in DOMAIN M PROVE Accepted(N, N[n])
  <2> DEFINE f == M[n]
             new == code(n)
  <2>1. Sized(f) /\ AcceptsCode(M, f, f.code) /\ Accepted(M, f)
    BY DEF Accepted, FunctionRecord, Sized
  <2>2. OnDomain(DOMAIN f.code, new) /\ \A pc \in DOMAIN f.code : new[pc] = BypassInst(M, f.code[pc])
    BY DEF OnDomain
  <2>3. N[n] = [f EXCEPT !.code = new]
    BY <1>1
  <2> HIDE DEF f, new
  <2>4. \A pc \in 1..Len(f.code) : Fits(M, f, Len(f.code), pc, new[pc])
    BY <2>1, <2>2, BypassFits, SequenceDomain DEF AcceptsCode
  <2>5. AcceptsCode(M, f, new)
    BY <2>1, <2>2, <2>4, Rewritten
  <2>6. Accepted(M, [f EXCEPT !.code = new])
    BY <2>1, <2>5, CodeReplaced
  <2> QED
    BY <1>4, <2>3, <2>6, SignaturesSuffice
<1> QED
  BY <1>4, <1>5 DEF N

\* The caller gets registers for the largest of its callees behind its own.
LEMMA RegistersSuffice ==
    ASSUME NEW M, \A n \in DOMAIN M : Accepted(M, M[n]), NEW f, Accepted(M, f),
           NEW calls, calls \subseteq DOMAIN f.code, calls # {},
           \A pc \in calls : f.code[pc].b \in DOMAIN M
    PROVE  /\ RegistersFor(f, {M[f.code[pc].b] : pc \in calls}) \in Nat
           /\ \A pc \in calls : RegistersFor(f, {M[f.code[k].b] : k \in calls}) >= f.regs + M[f.code[pc].b].regs
<1> DEFINE callees == {M[f.code[pc].b] : pc \in calls}
           needs(pc) == M[f.code[pc].b].regs
           R == {g.regs : g \in callees}
           n == Len(f.code)
           h == [pc \in 1..n |-> IF pc \in calls THEN needs(pc) ELSE 1]
<1>1. n \in Nat /\ DOMAIN f.code = 1..n
  BY SequenceDomain DEF Accepted, AcceptsCode
<1>2. \A pc \in calls : needs(pc) \in Nat \ {0}
  BY DEF Accepted, FunctionRecord
<1> HIDE DEF needs, n
<1>3. h \in [1..n -> Nat]
  BY <1>1, <1>2
<1>4. PICK b \in Nat : \A pc \in 1..n : h[pc] <= b
  <2> HIDE DEF h
  <2> QED
    BY <1>1, <1>3, BoundExists
<1>5. \A pc \in calls : needs(pc) \in 1..b
  <2>1. \A pc \in calls : pc \in 1..n /\ h[pc] = needs(pc)
    BY <1>1
  <2> HIDE DEF h
  <2> QED
    BY <1>2, <1>4, <2>1
<1>6. R = {needs(pc) : pc \in calls}
  BY DEF needs
<1>7. R \subseteq 1..b /\ R # {} /\ \A pc \in calls : needs(pc) \in R
  BY <1>5, <1>6
<1> HIDE DEF R
<1>8. Max(R) \in R /\ \A x \in R : x <= Max(R)
  BY <1>7, MaxIn
<1>9. f.regs \in Nat
  BY DEF Accepted, FunctionRecord
<1>10. RegistersFor(f, callees) = f.regs + Max(R)
  BY DEF RegistersFor, R
<1>11. Max(R) \in Nat /\ \A pc \in calls : needs(pc) \in Nat /\ needs(pc) <= Max(R)
  BY <1>2, <1>7, <1>8
<1>12. /\ RegistersFor(f, callees) \in Nat
       /\ \A pc \in calls : RegistersFor(f, callees) >= f.regs + needs(pc)
  BY <1>9, <1>10, <1>11
<1> QED
  BY <1>12 DEF needs

\* An instruction of the callee fits in the caller, its registers behind those of the caller.
LEMMA MovedFits ==
    ASSUME NEW M, NEW g, Sized(g), NEW size, NEW pc \in Int, NEW i, Fits(M, g, size, pc, i),
           i.op \in Executable, NEW base \in Nat, NEW h, h.regs \in Nat, h.regs >= base + g.regs,
           NEW room, NEW shift \in Int, \A t \in 1..size : t + shift \in 1..room
    PROVE  Fits(M, h, room, pc + shift, Moved(i, base))
<1> DEFINE j == Moved(i, base)
<1>1. i \in [op : {i.op}, flags : {i.flags}, a : {i.a}, b : {i.b}, c : {i.c}]
  BY DEF Fits, IsInst
<1>2. DOMAIN i = {"op", "flags", "a", "b", "c"}
  BY <1>1
<1>3. RegisterFields(i.op) \subseteq {"a", "b", "c"}
  BY FieldNames
<1>4. \A field \in RegisterFields(i.op) : i[field] \in Nat /\ i[field] < g.regs
  BY DEF Fits, IsInst, Operands
<1>5. /\ j \in [op : {j.op}, flags : {j.flags}, a : {j.a}, b : {j.b}, c : {j.c}]
      /\ j.op = i.op
      /\ \A field \in {"a", "b", "c"} \ RegisterFields(i.op) : j[field] = i[field]
      /\ \A field \in RegisterFields(i.op) : j[field] = i[field] + base
  BY <1>2, <1>3 DEF Moved
<1> HIDE DEF j
<1>6. \A field \in RegisterFields(j.op) : j[field] \in Nat /\ j[field] < h.regs
  <2>1. \A x \in Nat : x < g.regs => x + base \in Nat /\ x + base < h.regs
    BY DEF Sized
  <2> QED
    BY <1>4, <1>5, <2>1
<1>7. /\ i.op \in Relative => DeltaField(i.op) \in {"a", "b", "c"} \ RegisterFields(i.op)
      /\ i.op \notin Calls \union ClosureCalls \union Upvalues
                       \union {"ffi_call", "vararg", "closure", "try_begin"}
  BY DEF Executable, DeltaField, RegisterFields, Relative, Calls, ClosureCalls, Upvalues, Conditional,
         FusedImm, Binary, Immediate, Step1
<1>8. WindowEnd(j) = 0 /\ 0 < h.regs
  <2>1. 0 < h.regs
    BY DEF Sized
  <2> QED
    BY <1>5, <1>7, <2>1 DEF WindowEnd
<1>9. i.op \in Relative => Delta(j) \in Int /\ (pc + shift) + Delta(j) \in 1..room
  <2>1. i.op \in Relative => Delta(j) = Delta(i)
    BY <1>5, <1>7 DEF Delta
  <2>2. i.op \in Relative => Delta(i) \in Int /\ (pc + Delta(i)) + shift \in 1..room
    BY DEF Fits, IsInst, Operands
  <2> QED
    BY <2>1, <2>2
<1>10. Fits(M, h, room, pc + shift, j)
  BY <1>5, <1>6, <1>7, <1>8, <1>9 DEF Fits, IsInst, Operands
<1> QED
  BY <1>10 DEF j

\* The code of a candidate: only the last instruction returns.
Safe(g) ==
    \A pc \in 1..Len(g.code) :
        g.code[pc].op \in InlineSafe /\ (g.code[pc].op = "ret" <=> pc = Len(g.code))

\* The n instructions of s fit behind the place start.
FitsFrom(M, h, room, start, s, n) ==
    IsSequence(s) /\ Len(s) = n /\ \A j \in 1..n : Fits(M, h, room, start + j, s[j])

\* Code that fits, followed by code that fits behind it.
LEMMA FitsConcat ==
    ASSUME NEW M, NEW h, NEW room, NEW start \in Int, NEW s, NEW t, NEW a \in Nat, NEW b \in Nat,
           FitsFrom(M, h, room, start, s, a), FitsFrom(M, h, room, start + a, t, b)
    PROVE  FitsFrom(M, h, room, start, s \o t, a + b)
<1>1. IsSequence(s) /\ IsSequence(t) /\ Len(s) = a /\ Len(t) = b
  BY DEF FitsFrom
<1>2. /\ IsSequence(s \o t) /\ Len(s \o t) = Len(s) + Len(t)
      /\ \A k \in 1..Len(s) : (s \o t)[k] = s[k]
      /\ \A k \in 1..Len(t) : (s \o t)[Len(s) + k] = t[k]
  BY <1>1, ConcatIsSequence
<1> DEFINE r == s \o t
<1>3. /\ IsSequence(r) /\ Len(r) = a + b
      /\ \A k \in 1..a : r[k] = s[k]
      /\ \A k \in 1..b : r[a + k] = t[k]
  BY <1>1, <1>2
<1> HIDE DEF r
<1>4. /\ \A j \in 1..a : Fits(M, h, room, start + j, s[j])
      /\ \A j \in 1..b : Fits(M, h, room, (start + a) + j, t[j])
  BY DEF FitsFrom
<1>5. ASSUME NEW j \in 1..a + b PROVE Fits(M, h, room, start + j, r[j])
  <2>1. CASE j <= a
    <3>1. j \in 1..a
      BY <2>1
    <3> QED
      BY <1>3, <1>4, <3>1
  <2>2. CASE j > a
    <3> DEFINE k == j - a
    <3>1. k \in 1..b /\ a + k = j /\ (start + a) + k = start + j
      BY <2>2
    <3> HIDE DEF k
    <3>2. Fits(M, h, room, (start + a) + k, t[k]) /\ r[a + k] = t[k]
      BY <1>3, <1>4, <3>1
    <3> QED
      BY <3>1, <3>2
  <2> QED
    BY <2>1, <2>2
<1>6. FitsFrom(M, h, room, start, r, a + b)
  BY <1>3, <1>5 DEF FitsFrom
<1> QED
  BY <1>6 DEF r

\* A sequence fits when each of its instructions does.
LEMMA FitsSequence ==
    ASSUME NEW M, NEW h, NEW room, NEW start \in Int, NEW n \in Nat, NEW s, OnDomain(1..n, s),
           \A j \in 1..n : Fits(M, h, room, start + j, s[j])
    PROVE  FitsFrom(M, h, room, start, s, n)
BY DomainSequence DEF FitsFrom

\* The code that takes the place of a call fits where the call was.
LEMMA InlinedCallFits ==
    ASSUME NEW M, NEW g, Accepted(M, g), Safe(g), NEW f, Sized(f),
           NEW size, NEW pc, NEW i, Fits(M, f, size, pc, i), i.op = "call", Len(g.params) = i.c,
           NEW h, h.regs \in Nat, h.regs >= f.regs + g.regs,
           NEW room \in Nat, NEW start \in Nat, start + i.c + Len(g.code) <= room
    PROVE  FitsFrom(M, h, room, start, InlinedCall(g, i, f.regs), i.c + Len(g.code))
<1> DEFINE size1 == Len(g.code)
           base == f.regs
           n == i.c
           a == i.a
           m == size1 - 1
           r == g.regs
           R == h.regs
           final == Last(g.code).a
<1>1. /\ AcceptsCode(M, g, g.code) /\ r \in Nat \ {0} /\ Sized(g) /\ n <= r
      /\ size1 \in Nat \ {0} /\ DOMAIN g.code = 1..size1
      /\ base \in Nat \ {0} /\ R \in Nat /\ R >= base + r
  BY SequenceDomain DEF Accepted, AcceptsCode, FunctionRecord, Sized
<1>2. n \in Nat /\ a \in Nat /\ a + n < base /\ start + n + size1 <= room
  BY DEF Fits, IsInst, Operands, Calls, WindowEnd
<1>3. Last(g.code) = g.code[size1] /\ size1 \in 1..size1
  BY <1>1 DEF Last
<1>4. g.code[size1].op = "ret" /\ Fits(M, g, size1, size1, g.code[size1])
  BY <1>1, <1>3, CodeFits DEF Safe
<1>5. final \in 0..r - 1
  <2> HIDE DEF size1
  <2>1. "a" \in RegisterFields(g.code[size1].op)
    BY <1>4, FieldNames
  <2> QED
    BY <1>1, <1>3, <1>4, <2>1, NamedRegisters
<1> DEFINE A == [k \in 1..n |-> Inst("mov", base + k - 1, a + k, 0)]
           B == [k \in 1..m |-> Moved(g.code[k], base)]
           last == Inst("mov", a, base + final, 0)
           C == <<last>>
<1>6. InlinedCall(g, i, f.regs) = (A \o B) \o C
  BY DEF InlinedCall
<1>7. Sized(h)
  BY <1>1 DEF Sized
<1>8. OnDomain(1..n, A) /\ OnDomain(1..m, B) /\ OnDomain(1..1, C) /\ C[1] = last
  BY DEF OnDomain
<1>9. m \in Nat /\ m = size1 - 1
  BY <1>1
<1> HIDE DEF size1, base, n, a, m, r, R, final
<1>10. FitsFrom(M, h, room, start, A, n)
  <2>1. ASSUME NEW k \in 1..n PROVE Fits(M, h, room, start + k, A[k])
    <3>1. base + k - 1 \in 0..R - 1 /\ a + k \in 0..R - 1
      BY <1>1, <1>2
    <3>2. Fits(M, h, room, start + k, Inst("mov", base + k - 1, a + k, 0))
      BY <1>7, <3>1, NewFits DEF R
    <3> QED
      BY <3>2
  <2> HIDE DEF A
  <2> QED
    BY <1>2, <1>8, <2>1, FitsSequence
<1>11. FitsFrom(M, h, room, start + n, B, m)
  <2>1. ASSUME NEW k \in 1..m PROVE Fits(M, h, room, (start + n) + k, B[k])
    <3>1. k \in 1..size1 /\ k # size1 /\ k \in Int
      BY <1>1, <1>9
    <3>2. Fits(M, g, size1, k, g.code[k])
      BY <1>1, <3>1, CodeFits DEF size1
    <3>3. g.code[k].op \in Executable
      BY <3>1 DEF Safe, InlineSafe, size1
    <3>4. start + n \in Int /\ (\A t \in 1..size1 : t + (start + n) \in 1..room)
      <4>1. /\ n \in Nat /\ start \in Nat /\ size1 \in Nat /\ room \in Nat
            /\ start + n + size1 <= room
        BY <1>1, <1>2
      <4> QED
        BY <4>1
    <3>5. Fits(M, h, room, k + (start + n), Moved(g.code[k], base))
      <4>1. h.regs \in Nat /\ h.regs >= base + g.regs
        BY <1>1 DEF R, r
      <4> QED
        BY <1>1, <3>1, <3>2, <3>3, <3>4, <4>1, MovedFits
    <3>6. k + (start + n) = (start + n) + k
      BY <1>2, <3>1
    <3> QED
      BY <3>5, <3>6
  <2>2. start + n \in Int
    BY <1>2
  <2> HIDE DEF B
  <2> QED
    BY <1>8, <1>9, <2>1, <2>2, FitsSequence
<1>12. FitsFrom(M, h, room, start + (n + m), C, 1)
  <2>1. base + final \in 0..R - 1 /\ a \in 0..R - 1 /\ start + (n + m) \in Int
    <3>1. base \in Nat /\ r \in Nat /\ R \in Nat /\ R >= base + r /\ final \in 0..r - 1
      BY <1>1, <1>5
    <3>2. n \in Nat /\ m \in Nat /\ a + n < base /\ start \in Nat
      BY <1>2, <1>9
    <3>3. base + final \in 0..R - 1
      BY <3>1
    <3>4. a \in Nat
      BY <1>2
    <3>5. a \in 0..R - 1
      BY <3>1, <3>2, <3>4
    <3> QED
      BY <3>2, <3>3, <3>5
  <2>2. \A p : Fits(M, h, room, p, last)
    BY <1>7, <2>1, NewFits DEF R
  <2> HIDE DEF C, last
  <2>3. \A j \in 1..1 : Fits(M, h, room, start + (n + m) + j, C[j])
    BY <1>8, <2>2
  <2> QED
    BY <1>8, <2>1, <2>3, FitsSequence
<1> HIDE DEF A, B, C, last
<1>13. FitsFrom(M, h, room, start, A \o B, n + m)
  BY <1>2, <1>9, <1>10, <1>11, FitsConcat
<1>14. FitsFrom(M, h, room, start, (A \o B) \o C, (n + m) + 1)
  <2>1. n + m \in Nat
    BY <1>2, <1>9
  <2> DEFINE AB == A \o B
  <2>2. FitsFrom(M, h, room, start, AB, n + m)
    BY <1>13
  <2> HIDE DEF AB
  <2>3. FitsFrom(M, h, room, start, AB \o C, (n + m) + 1)
    BY <1>12, <2>1, <2>2, FitsConcat
  <2> QED
    BY <2>3 DEF AB
<1>15. (n + m) + 1 = n + size1
  BY <1>1, <1>2, <1>9
<1> QED
  BY <1>6, <1>14, <1>15 DEF n, size1

\* Inlining keeps a function accepted and changes only its code and its register count.
LEMMA InlinedKeeps ==
    ASSUME NEW M, \A n \in DOMAIN M : Accepted(M, M[n]), NEW f, Accepted(M, f),
           NEW candidates, candidates \subseteq DOMAIN M, \A n \in candidates : Safe(M[n])
    PROVE  /\ Accepted(M, Inlined(M, candidates, f))
           /\ Inlined(M, candidates, f).params = f.params
           /\ Inlined(M, candidates, f).vararg = f.vararg
           /\ Inlined(M, candidates, f).upvalues = f.upvalues
<1> DEFINE calls == {pc \in DOMAIN f.code : Inlines(M, candidates, f.code[pc])}
           part(pc) == IF pc \in calls
                       THEN InlinedCall(M[f.code[pc].b], f.code[pc], f.regs)
                       ELSE <<f.code[pc]>>
           start(pc) == Len(FlattenSeq([k \in 1..pc - 1 |-> part(k)])) + 1
           moved(pc) == Redirected(f.code[pc], start(JumpTarget(f.code, pc)) - start(pc))
           adjusted(pc) == IF f.code[pc].op \in Relative THEN <<moved(pc)>> ELSE part(pc)
           n == Len(f.code)
           P == [pc \in 1..n |-> part(pc)]
           A == [pc \in 1..n |-> adjusted(pc)]
           code == FlattenSeq([pc \in DOMAIN f.code |-> adjusted(pc)])
           regs == RegistersFor(f, {M[f.code[pc].b] : pc \in calls})
           h == [f EXCEPT !.code = code, !.regs = regs]
<1>1. CASE calls = {} \/ HasTry(f.code)
  <2>1. Inlined(M, candidates, f) = f
    BY <1>1 DEF Inlined
  <2> QED
    BY <2>1
<1>2. CASE ~(calls = {} \/ HasTry(f.code))
  <2>1. Inlined(M, candidates, f) = h
    BY <1>2 DEF Inlined, Redirected
  <2>2. /\ DOMAIN f.code = 1..n /\ n \in Nat \ {0} /\ Sized(f) /\ f.regs \in Nat \ {0}
        /\ AcceptsCode(M, f, f.code)
    BY SequenceDomain DEF Accepted, AcceptsCode, FunctionRecord, Sized
  <2>3. \A pc \in 1..n : Fits(M, f, n, pc, f.code[pc])
    BY <2>2, CodeFits
  <2>4. ASSUME NEW pc \in calls
        PROVE  /\ pc \in 1..n /\ f.code[pc].op = "call" /\ f.code[pc].b \in candidates
               /\ Len(M[f.code[pc].b].params) = f.code[pc].c
               /\ Accepted(M, M[f.code[pc].b]) /\ Safe(M[f.code[pc].b])
               /\ f.code[pc].c \in Nat /\ Len(M[f.code[pc].b].code) \in Nat \ {0}
    <3>1. /\ pc \in 1..n /\ f.code[pc].op = "call" /\ f.code[pc].b \in candidates
          /\ Len(M[f.code[pc].b].params) = f.code[pc].c
      BY <2>2, <2>4 DEF Inlines
    <3>2. Accepted(M, M[f.code[pc].b]) /\ Safe(M[f.code[pc].b])
      BY <3>1
    <3> QED
      BY <3>1, <3>2, SequenceDomain DEF Accepted, AcceptsCode, FunctionRecord
  <2>5. regs \in Nat /\ \A pc \in calls : regs >= f.regs + M[f.code[pc].b].regs
    <3>1. calls \subseteq DOMAIN f.code /\ calls # {} /\ \A pc \in calls : f.code[pc].b \in DOMAIN M
      BY <1>2, <2>4
    <3> HIDE DEF calls
    <3> QED
      BY <3>1, RegistersSuffice
  <2>6. regs >= f.regs /\ regs # 0
    <3>1. PICK pc \in calls : TRUE
      BY <1>2
    <3>2. M[f.code[pc].b].regs \in Nat
      BY <2>4 DEF Accepted, FunctionRecord
    <3> HIDE DEF calls, regs
    <3> QED
      BY <2>2, <2>5, <3>1, <3>2
  <2>7. /\ h.code = code /\ h.regs = regs /\ h.params = f.params /\ h.vararg = f.vararg
        /\ h.upvalues = f.upvalues /\ FunctionRecord(h)
    <3> HIDE DEF code, regs
    <3>1. /\ f \in [params : {f.params}, regs : {f.regs}, code : {f.code}, returns : {f.returns},
                     exported : {f.exported}, name : {f.name}, vararg : {f.vararg},
                     upvalues : {f.upvalues}]
          /\ f.regs \in Nat \ {0} /\ Len(f.params) \in Nat /\ Len(f.params) <= f.regs
      BY DEF Accepted, FunctionRecord
    <3>2. /\ h \in [params : {f.params}, regs : {regs}, code : {code}, returns : {f.returns},
                     exported : {f.exported}, name : {f.name}, vararg : {f.vararg},
                     upvalues : {f.upvalues}]
      BY <3>1
    <3> HIDE DEF h
    <3>3. /\ h.code = code /\ h.regs = regs /\ h.params = f.params /\ h.vararg = f.vararg
          /\ h.upvalues = f.upvalues /\ h.returns = f.returns /\ h.name = f.name
          /\ h.exported = f.exported
      BY <3>2
    <3>4. regs \in Nat \ {0} /\ Len(f.params) <= regs
      BY <2>5, <2>6, <3>1
    <3> QED
      BY <3>1, <3>2, <3>3, <3>4 DEF FunctionRecord
  <2> HIDE DEF regs
  <2> HIDE DEF h
  \* The pieces, before and after the jumps are adjusted, have the same lengths.
  <2>8. ASSUME NEW pc \in 1..n
        PROVE  /\ IsSequence(part(pc)) /\ IsSequence(adjusted(pc))
               /\ Len(part(pc)) = Len(adjusted(pc)) /\ Len(part(pc)) \in Nat \ {0}
    <3>0. \A x : IsSequence(<<x>>) /\ Len(<<x>>) = 1
      <4> TAKE x
      <4>1. <<x>> \in Seq({x})
        OBVIOUS
      <4> QED
        BY <4>1 DEF IsSequence
    <3>1. CASE pc \in calls
      <4> DEFINE i == f.code[pc]
                 g == M[i.b]
                 room == i.c + Len(g.code)
      <4>1. room \in Nat /\ 0 + i.c + Len(g.code) <= room /\ room # 0
        BY <2>4, <3>1
      <4>2. FitsFrom(M, h, room, 0, InlinedCall(g, i, f.regs), i.c + Len(g.code))
        <5>1. /\ Accepted(M, g) /\ Safe(g) /\ i.op = "call" /\ Len(g.params) = i.c
              /\ Fits(M, f, n, pc, i) /\ h.regs \in Nat /\ h.regs >= f.regs + g.regs
          BY <2>3, <2>4, <2>5, <2>7, <3>1
        <5> HIDE DEF i, g, room, n
        <5> QED
          BY <2>2, <4>1, <5>1, InlinedCallFits
      <4>3. adjusted(pc) = part(pc) /\ part(pc) = InlinedCall(g, i, f.regs)
        BY <2>4, <3>1 DEF Relative, Conditional, FusedImm
      <4> HIDE DEF room
      <4> QED
        BY <4>1, <4>2, <4>3 DEF FitsFrom, room
    <3>2. CASE pc \notin calls
      <4>1. part(pc) = <<f.code[pc]>> /\ adjusted(pc) \in {<<moved(pc)>>, <<f.code[pc]>>}
        BY <3>2
      <4> HIDE DEF part, adjusted, moved
      <4> QED
        BY <3>0, <4>1
    <3> QED
      BY <3>1, <3>2
  <2> HIDE DEF start, moved
  <2>9. OnDomain(1..n, P) /\ OnDomain(1..n, A)
    BY DEF OnDomain
  <2>10. \A pc \in 1..n : P[pc] = part(pc) /\ A[pc] = adjusted(pc)
    OBVIOUS
  <2> HIDE DEF P, A, n, part, adjusted
  <2>11. PICK T : P \in [1..n -> Seq(T)]
    <3>1. Lettered(n, P)
      BY <2>2, <2>8, <2>9, <2>10, CommonAlphabet
    <3> QED
      BY <3>1 DEF Lettered
  <2>12. PICK U : A \in [1..n -> Seq(U)]
    <3>1. Lettered(n, A)
      BY <2>2, <2>8, <2>9, <2>10, CommonAlphabet
    <3> QED
      BY <3>1 DEF Lettered
  <2>13. PICK g \in [0..n -> Seq(U)] : Flattens(n, A, g)
    BY <2>2, <2>12, FlattenIs
  <2>14. PICK e \in [0..n -> Seq(T)] : Flattens(n, P, e)
    BY <2>2, <2>11, FlattenIs
  <2>15. \A m \in 0..n : Len(g[m]) = Len(e[m])
    <3>1. SameLengths(1..n, A, P)
      BY <2>8, <2>10 DEF SameLengths
    <3>2. SameLengths(0..n, g, e)
      BY <2>2, <2>11, <2>12, <2>13, <2>14, <3>1, SameOffsets
    <3> QED
      BY <3>2 DEF SameLengths
  <2>16. Pieced(n, A, g)
    BY <2>2, <2>12, <2>13, FlattenPlaces
  <2> DEFINE room == Len(g[n])
             offset(k) == Len(g[k - 1])
  <2>17. /\ room \in Nat
         /\ \A k \in 1..n : offset(k) \in Nat /\ offset(k) + Len(A[k]) <= room
         /\ \A p \in 1..room : \E k \in 1..n : \E j \in 1..Len(A[k]) :
               p = offset(k) + j /\ g[n][p] = A[k][j]
    <3>1. n \in 0..n
      BY <2>2
    <3> QED
      BY <2>16, <3>1 DEF Pieced
  <2>18. ASSUME NEW k \in 1..n PROVE start(k) = offset(k) + 1
    <3>1. k - 1 \in 0..n
      BY <2>2
    <3>2. FlattenSeq(Prefix(P, k - 1)) = e[k - 1]
      BY <2>14, <3>1 DEF Flattens
    <3>3. [m \in 1..k - 1 |-> part(m)] = Prefix(P, k - 1)
      <4>1. \A m \in 1..k - 1 : m \in 1..n
        BY <2>2
      <4>2. \A m \in 1..k - 1 : part(m) = P[m]
        BY <2>10, <4>1
      <4> QED
        BY <4>2 DEF Prefix
    <3>4. start(k) = Len(e[k - 1]) + 1
      BY <3>2, <3>3 DEF start
    <3> QED
      BY <2>15, <3>1, <3>4
  <2>19. code = g[n]
    <3>1. FlattenSeq(Prefix(A, n)) = g[n]
      <4>1. n \in 0..n
        BY <2>2
      <4> QED
        BY <2>13, <4>1 DEF Flattens
    <3>2. [pc \in 1..n |-> adjusted(pc)] = Prefix(A, n)
      BY <2>10 DEF Prefix
    <3> QED
      BY <2>2, <3>1, <3>2
  <2> HIDE DEF room, offset, code
  <2>20. \A k \in 1..n : offset(k) \in Nat /\ offset(k) + 1 \in 1..room
    <3> TAKE k \in 1..n
    <3>1. /\ Len(A[k]) \in Nat \ {0} /\ offset(k) \in Nat /\ offset(k) + Len(A[k]) <= room
          /\ room \in Nat
      BY <2>8, <2>10, <2>17
    <3> QED
      BY <3>1
  <2>21. ASSUME NEW k \in 1..n, NEW j \in 1..Len(A[k])
         PROVE  Fits(M, h, room, offset(k) + j, A[k][j])
    <3> DEFINE i == f.code[k]
    <3>1. Fits(M, f, n, k, i) /\ A[k] = adjusted(k) /\ offset(k) \in Nat /\ room \in Nat
      BY <2>3, <2>10, <2>17
    <3>2. Sized(h) /\ h.regs \in Nat /\ h.regs >= f.regs
      BY <2>5, <2>6, <2>7 DEF Sized
    <3>3. CASE k \in calls
      <4> DEFINE c == M[i.b]
      <4>1. /\ Accepted(M, c) /\ Safe(c) /\ i.op = "call" /\ Len(c.params) = i.c
            /\ h.regs >= f.regs + c.regs
        BY <2>4, <2>5, <2>7, <3>3
      <4>2. A[k] = InlinedCall(c, i, f.regs)
        BY <3>1, <3>3, <4>1 DEF adjusted, part, Relative, Conditional, FusedImm
      <4>3. Len(InlinedCall(c, i, f.regs)) = i.c + Len(c.code)
        <5>1. /\ i.c + Len(c.code) \in Nat /\ 0 + i.c + Len(c.code) <= i.c + Len(c.code)
          BY <2>4, <3>3
        <5> HIDE DEF i, c
        <5>2. FitsFrom(M, h, i.c + Len(c.code), 0, InlinedCall(c, i, f.regs), i.c + Len(c.code))
          BY <2>2, <3>1, <3>2, <4>1, <5>1, InlinedCallFits
        <5> QED
          BY <5>2 DEF FitsFrom
      <4>4. offset(k) + i.c + Len(c.code) <= room
        <5>1. offset(k) + Len(A[k]) <= room /\ Len(A[k]) = i.c + Len(c.code)
          BY <2>17, <4>2, <4>3
        <5>2. i.c \in Nat /\ Len(c.code) \in Nat
          BY <2>4, <3>3
        <5> HIDE DEF i, c
        <5> QED
          BY <3>1, <5>1, <5>2
      <4> HIDE DEF i, c
      <4>5. FitsFrom(M, h, room, offset(k), InlinedCall(c, i, f.regs), i.c + Len(c.code))
        BY <2>2, <3>1, <3>2, <4>1, <4>4, InlinedCallFits
      <4> QED
        BY <4>2, <4>5 DEF FitsFrom
    <3>4. CASE k \notin calls /\ i.op \in Relative
      <4>1. A[k] = <<moved(k)>> /\ moved(k) = Redirected(i, start(JumpTarget(f.code, k)) - start(k))
        BY <3>1, <3>4 DEF adjusted, moved
      <4>2. JumpTarget(f.code, k) \in 1..n
        BY <3>1, <3>4 DEF Fits, JumpTarget
      <4> DEFINE t == JumpTarget(f.code, k)
                 d == start(t) - start(k)
      <4>3. d \in Int /\ (offset(k) + 1) + d \in 1..room
        <5>1. start(t) = offset(t) + 1 /\ start(k) = offset(k) + 1
          BY <2>18, <4>2
        <5>2. offset(t) \in Nat /\ offset(t) + 1 \in 1..room /\ offset(k) \in Nat
          BY <2>20, <4>2
        <5> HIDE DEF t
        <5> QED
          BY <5>1, <5>2
      <4>4. Fits(M, f, room, offset(k) + 1, Redirected(i, d))
        <5> HIDE DEF d, i
        <5> QED
          BY <2>2, <3>1, <3>4, <4>3, RedirectedFits
      <4>5. Redirected(i, d).op = i.op
        BY <3>1, <3>4 DEF Redirected, Fits, IsInst, DeltaField
      <4>6. Fits(M, h, room, offset(k) + 1, Redirected(i, d))
        <5>1. Redirected(i, d).op \in Relative
          BY <3>4, <4>5
        <5> DEFINE r == Redirected(i, d)
        <5> HIDE DEF r, d, i
        <5>2. Fits(M, f, room, offset(k) + 1, r) /\ r.op \in Relative
          BY <4>4, <5>1 DEF r
        <5>3. /\ WindowEnd(r) \in Nat /\ \A field \in RegisterFields(r.op) : r[field] \in Nat
              /\ f.regs \in Nat
          BY <2>2, <5>2 DEF Fits, IsInst, Operands, WindowEnd
        <5>4. Fits(M, h, room, offset(k) + 1, r)
          BY <2>7, <3>2, <5>2, <5>3 DEF Fits
        <5> QED
          BY <5>4 DEF r
      <4>7. j = 1 /\ A[k][j] = Redirected(i, d)
        <5>1. Len(A[k]) = 1
          BY <4>1
        <5>2. j = 1
          BY <5>1
        <5> QED
          BY <4>1, <5>2
      <4> QED
        BY <4>6, <4>7
    <3>5. CASE k \notin calls /\ i.op \notin Relative
      <4>1. A[k] = <<i>>
        BY <3>1, <3>5 DEF adjusted, part
      <4>2. j = 1 /\ A[k][j] = i
        <5>1. Len(A[k]) = 1
          BY <4>1
        <5>2. j = 1
          BY <5>1
        <5> QED
          BY <4>1, <5>2
      <4>3. i.op # "try_begin"
        BY <1>2, <2>2 DEF HasTry, Tries
      <4> HIDE DEF i
      <4>4. Fits(M, h, room, offset(k) + j, i)
        BY <2>2, <2>7, <3>1, <3>2, <3>5, <4>3, FitsElsewhere
      <4> QED
        BY <4>2, <4>4
    <3> QED
      BY <3>3, <3>4, <3>5
  <2>22. AcceptsCode(M, h, code)
    <3>1. IsSequence(code) /\ Len(code) = room
      <4>1. g[n] \in Seq(U)
        BY <2>2
      <4> QED
        BY <2>19, <4>1 DEF IsSequence, room
    <3>2. ASSUME NEW p \in 1..room PROVE Fits(M, h, room, p, code[p])
      <4>1. PICK k \in 1..n : \E j \in 1..Len(A[k]) : p = offset(k) + j /\ g[n][p] = A[k][j]
        BY <2>17
      <4>2. PICK j \in 1..Len(A[k]) : p = offset(k) + j /\ g[n][p] = A[k][j]
        BY <4>1
      <4>3. Fits(M, h, room, offset(k) + j, A[k][j])
        BY <2>21
      <4> QED
        BY <2>19, <4>2, <4>3
    <3>3. code # <<>>
      <4>1. 1 \in 1..n
        BY <2>2
      <4>2. room # 0
        BY <2>17, <2>20, <4>1
      <4> QED
        BY <3>1, <4>2, SequenceDomain
    <3> QED
      BY <3>1, <3>2, <3>3 DEF AcceptsCode
  <2> QED
    BY <2>1, <2>7, <2>22 DEF Accepted
<1> QED
  BY <1>1, <1>2

\* Inlining keeps a module verified.
LEMMA InlineSmallKeeps ==
    ASSUME NEW M, IsModule(M), Verifies(M)
    PROVE  IsModule(InlineSmall(M)) /\ Verifies(InlineSmall(M)) /\ DOMAIN InlineSmall(M) = DOMAIN M
<1> DEFINE B == Bypass(M)
           candidates == {n \in DOMAIN B : Candidate(B, n)}
           N == InlineSmall(M)
<1>1. IsSequence(M) /\ M # <<>> /\ \A n \in DOMAIN M : Accepted(M, M[n])
  BY VerifiedIsAccepted DEF IsModule, Verifies
<1>2. SameSignatures(M, B) /\ \A n \in DOMAIN M : Accepted(B, B[n])
  <2>1. SameSignatures(M, Bypass(M)) /\ \A n \in DOMAIN M : Accepted(Bypass(M), Bypass(M)[n])
    BY <1>1, BypassKeeps
  <2> QED
    BY <2>1
<1>3. OnDomain(DOMAIN M, N) /\ \A n \in DOMAIN M : N[n] = Inlined(B, candidates, B[n])
  BY DEF InlineSmall, OnDomain
<1>4. candidates \subseteq DOMAIN B /\ \A n \in candidates : Safe(B[n])
  BY DEF Candidate, Safe
<1> HIDE DEF B, candidates, N
<1>5. DOMAIN B = DOMAIN M
  BY <1>2 DEF SameSignatures
<1>6. ASSUME NEW n \in DOMAIN M
      PROVE  /\ Accepted(B, N[n]) /\ N[n].params = B[n].params /\ N[n].vararg = B[n].vararg
             /\ N[n].upvalues = B[n].upvalues
  <2>1. Accepted(B, B[n])
    BY <1>2
  <2>2. \A k \in DOMAIN B : Accepted(B, B[k])
    BY <1>2, <1>5
  <2> DEFINE f == B[n]
             h == Inlined(B, candidates, f)
  <2>3. Accepted(B, f)
    BY <2>1
  <2> HIDE DEF f
  <2>4. Accepted(B, h) /\ h.params = f.params /\ h.vararg = f.vararg /\ h.upvalues = f.upvalues
    BY <1>4, <2>2, <2>3, InlinedKeeps
  <2> QED
    BY <1>3, <2>4 DEF f
<1>7. DOMAIN M = 1..Len(M) /\ Len(M) \in Nat \ {0}
  BY <1>1, SequenceDomain
<1>8. IsSequence(N) /\ DOMAIN N = DOMAIN M /\ N # <<>>
  <2>1. OnDomain(1..Len(M), N)
    BY <1>3, <1>7
  <2>2. IsSequence(N) /\ Len(N) = Len(M) /\ DOMAIN N = 1..Len(M)
    BY <1>7, <2>1, DomainSequence
  <2> QED
    BY <1>7, <2>2, SequenceDomain
<1>9. SameSignatures(B, N)
  BY <1>5, <1>6, <1>8 DEF SameSignatures
<1>10. \A n \in DOMAIN N : Accepted(N, N[n])
  BY <1>6, <1>8, <1>9, SignaturesSuffice
<1>11. IsModule(N) /\ Verifies(N)
  BY <1>8, <1>10, AcceptedIsVerified
<1> QED
  BY <1>8, <1>11 DEF N

-----------------------------------------------------------------------------
(* One function is replaced                                                *)

\* A module stays verified when one function gets accepted code.
LEMMA ReplacedKeeps ==
    ASSUME NEW M, IsModule(M), Verifies(M), NEW k \in DOMAIN M, NEW code, AcceptsCode(M, M[k], code)
    PROVE  LET N == [M EXCEPT ![k].code = code]
           IN  IsModule(N) /\ Verifies(N) /\ DOMAIN N = DOMAIN M
<1> DEFINE g == [M[k] EXCEPT !.code = code]
           N == [M EXCEPT ![k] = g]
<1>1. IsSequence(M) /\ M # <<>> /\ \A n \in DOMAIN M : Accepted(M, M[n])
  BY VerifiedIsAccepted DEF IsModule, Verifies
<1>2. Accepted(M, g)
  <2> DEFINE f == M[k]
  <2>1. Accepted(M, f) /\ AcceptsCode(M, f, code)
    BY <1>1
  <2> HIDE DEF f
  <2>2. Accepted(M, [f EXCEPT !.code = code])
    BY <2>1, CodeReplaced
  <2> QED
    BY <2>2 DEF f
<1>3. g.params = M[k].params /\ g.vararg = M[k].vararg /\ g.upvalues = M[k].upvalues
  <2>1. FunctionRecord(M[k])
    BY <1>1 DEF Accepted
  <2> DEFINE f == M[k]
  <2>2. FunctionRecord(f)
    BY <2>1
  <2> HIDE DEF f
  <2>3. /\ [f EXCEPT !.code = code].params = f.params /\ [f EXCEPT !.code = code].vararg = f.vararg
        /\ [f EXCEPT !.code = code].upvalues = f.upvalues
    BY <2>2 DEF FunctionRecord
  <2> QED
    BY <2>3 DEF f
<1> HIDE DEF g
<1>4. OnDomain(DOMAIN M, N) /\ \A n \in DOMAIN M : N[n] = IF n = k THEN g ELSE M[n]
  BY DEF OnDomain
<1>5. DOMAIN M = 1..Len(M) /\ Len(M) \in Nat \ {0}
  BY <1>1, SequenceDomain
<1> HIDE DEF N
<1>6. IsSequence(N) /\ DOMAIN N = DOMAIN M /\ N # <<>>
  <2>1. OnDomain(1..Len(M), N)
    BY <1>4, <1>5
  <2>2. IsSequence(N) /\ Len(N) = Len(M) /\ DOMAIN N = 1..Len(M)
    BY <1>5, <2>1, DomainSequence
  <2> QED
    BY <1>5, <2>2, SequenceDomain
<1>7. SameSignatures(M, N)
  BY <1>3, <1>4, <1>6 DEF SameSignatures
<1>8. \A n \in DOMAIN N : Accepted(N, N[n])
  <2>1. \A n \in DOMAIN N : Accepted(M, N[n])
    BY <1>1, <1>2, <1>4, <1>6
  <2> QED
    BY <1>7, <2>1, SignaturesSuffice
<1>9. IsModule(N) /\ Verifies(N)
  BY <1>6, <1>8, AcceptedIsVerified
<1>10. [M EXCEPT ![k].code = code] = N
  BY DEF N, g
<1> QED
  BY <1>6, <1>9, <1>10

-----------------------------------------------------------------------------
(* What is in the registers: facts[n][pc] is a set of register files of    *)
(* function n that holds what can be there before instruction pc           *)

\* The instructions that do more than compute registers and jump.
Controls ==
    {"ret", "halt", "throw", "ffi_call", "closure", "vararg"}
      \union Tries \union Calls \union ClosureCalls \union Upvalues

\* An int64 is read where there is none.
Mixes(i, regs) == \E r \in IntegerReads(i) : regs[r].type # "int64"

\* How far ahead an instruction leads.
Ahead(i, regs) == IF Jumps(i, Computed(i, regs)) THEN Delta(i) ELSE 1

\* From pc control gets to next, with these registers after it.
Goes(f, pc, regs, next, after) ==
    LET i == f.code[pc]
    IN  /\ after \in Files(f)
        /\ ~Mixes(i, regs)
        /\ \/ /\ i.op \notin Controls
              /\ i.op = "div" => regs[i.c].bits # 0
              /\ after = Computed(i, regs)
              /\ next = pc + Ahead(i, regs)
           \/ /\ i.op \in Controls \ Terminators
              /\ \A r \in Registers(f) \ Written(i) : after[r] = regs[r]
              /\ next = pc + 1

\* The places where anything can be in the registers.
FreePlaces(f, facts) == {x \in Nat : x \in DOMAIN f.code => facts[x] = Files(f)}

\* The facts hold where a call or a handler begins, and from instruction to instruction.
Holds(f, facts) ==
    /\ \A pc \in DOMAIN f.code : facts[pc] \subseteq Files(f)
    /\ 1 \in FreePlaces(f, facts)
    /\ \A pc \in DOMAIN f.code :
          f.code[pc].op = "try_begin" => TryTargets(f.code[pc]) \subseteq FreePlaces(f, facts)
    /\ \A pc \in DOMAIN f.code : \A regs \in facts[pc] : \A next \in DOMAIN f.code : \A after :
          Goes(f, pc, regs, next, after) => after \in facts[next]

\* The facts of every function of a module hold.
FactsHold(M, facts) == \A n \in DOMAIN M : Holds(M[n], facts[n])

\* The try frames of an activation of f.
Frames(f, facts) ==
    [catch : FreePlaces(f, facts), finally : FreePlaces(f, facts), end : FreePlaces(f, facts),
     in_catch : BOOLEAN, in_finally : BOOLEAN, rethrow : BOOLEAN, pending : Values]

\* An activation of which the facts hold, when there are so many closures.
Good(M, facts, closures, a) ==
    /\ FitsFunction(M, a)
    /\ a.regs \in Files(M[a.function])
    /\ a.pc \in DOMAIN M[a.function].code => a.regs \in facts[a.function][a.pc]
    /\ a.tries \in Seq(Frames(M[a.function], facts[a.function]))
    /\ a.closure \in 0..closures
    /\ a.rest \in Seq(Values)

\* Closures, and what holds of every activation of a machine.
ClosureRecords == [function : Nat, upvalues : Seq(Values)]
AllGood(M, facts, m) ==
    /\ IsSequence(m.calls)
    /\ m.closures \in Seq(ClosureRecords)
    /\ \A k \in DOMAIN m.stack : Good(M, facts, Len(m.closures), m.stack[k])
    /\ \A k \in 1..Len(m.stack) - 1 :
          m.stack[k].pc \in DOMAIN M[m.stack[k].function].code

\* A machine of which the facts hold.
Tracked(M, facts, m) == Sound(M, m) /\ (m.how = "runs" => AllGood(M, facts, m))

\* A part of a sequence is a sequence of the same elements.
LEMMA SubSeqIn ==
    ASSUME NEW S, NEW s \in Seq(S), NEW m \in Nat \ {0}, NEW n \in Int, n <= Len(s)
    PROVE  SubSeq(s, m, n) \in Seq(S)
<1>1. CASE n < m
  BY <1>1
<1>2. CASE m <= n
  <2> DEFINE l == n - m + 1
             t == [k \in 1..l |-> s[m + k - 1]]
  <2>1. \A k \in 1..l : m + k - 1 \in 1..Len(s)
    BY <1>2
  <2>2. l \in Nat
    BY <1>2
  <2>3. SubSeq(s, m, n) = t
    BY <1>2
  <2>4. \A k \in 1..l : s[m + k - 1] \in S
    BY <2>1
  <2> HIDE DEF l
  <2>5. t \in Seq(S)
    BY <2>2, <2>4
  <2> QED
    BY <2>3, <2>5
<1> QED
  BY <1>1, <1>2

\* Everything above depth n is replaced by one activation; those below it wait.
LEMMA TrackedReplaced ==
    ASSUME NEW M, NEW facts, NEW m, Inside(M, m), AllGood(M, facts, m),
           NEW n \in 0..Len(m.stack),
           \A k \in 1..n : m.stack[k].pc \in DOMAIN M[m.stack[k].function].code,
           NEW a, Good(M, facts, Len(m.closures), a)
    PROVE  Tracked(M, facts, [m EXCEPT !.stack = Append(SubSeq(m.stack, 1, n), a)])
<1> DEFINE below == SubSeq(m.stack, 1, n)
           s == Append(below, a)
           m2 == [m EXCEPT !.stack = s]
<1>0. Sound(M, m2)
  BY StackReplaced DEF Good, Sound
<1>1. IsSequence(m.stack) /\ DOMAIN m.stack = 1..Len(m.stack) /\ Len(m.stack) \in Nat
  BY AppendIsSequence DEF Inside, Sound
<1>2. IsSequence(below) /\ Len(below) = n /\ \A k \in 1..n : below[k] = m.stack[k]
  BY <1>1, PrefixIsSequence
<1>3. /\ IsSequence(s) /\ DOMAIN s = 1..n + 1 /\ DOMAIN below = 1..n /\ Len(s) = n + 1
      /\ \A k \in 1..n : s[k] = below[k]
      /\ s[n + 1] = a
  <2> HIDE DEF below
  <2> QED
    BY <1>2, AppendIsSequence
<1> HIDE DEF below, s
<1>4. m2.stack = s /\ m2.calls = m.calls /\ m2.closures = m.closures
  BY DEF Inside, Sound, MachineRecord
<1>5. \A k \in 1..n + 1 : Good(M, facts, Len(m.closures), s[k])
  <2>1. TAKE k \in 1..n + 1
  <2>2. CASE k = n + 1
    BY <1>3, <2>2
  <2>3. CASE k # n + 1
    <3>1. k \in 1..n
      BY <2>3
    <3>2. s[k] = m.stack[k] /\ k \in DOMAIN m.stack
      BY <1>1, <1>2, <1>3, <3>1
    <3> QED
      BY <3>2 DEF AllGood
  <2> QED
    BY <2>2, <2>3
<1>6. \A k \in 1..n : s[k].pc \in DOMAIN M[s[k].function].code
  BY <1>2, <1>3
<1>7. AllGood(M, facts, m2)
  <2>1. Len(m2.stack) - 1 = n
    BY <1>3, <1>4
  <2> HIDE DEF m2
  <2> QED
    BY <1>3, <1>4, <1>5, <1>6, <2>1 DEF AllGood
<1>8. Tracked(M, facts, m2)
  BY <1>0, <1>7 DEF Tracked
<1> QED
  BY <1>8 DEF m2, s, below

\* The running activation changes.
LEMMA NowTracked ==
    ASSUME NEW M, NEW facts, NEW m, Sound(M, m), AllGood(M, facts, m), m.how = "runs",
           NEW a, Good(M, facts, Len(m.closures), a)
    PROVE  Tracked(M, facts, Now(m, a))
<1> DEFINE n == Len(m.stack) - 1
<1>1. n \in 0..Len(m.stack)
  BY RunningTop
<1>2. \A k \in 1..n : m.stack[k].pc \in DOMAIN M[m.stack[k].function].code
  BY DEF AllGood
<1> HIDE DEF n
<1>3. Tracked(M, facts, [m EXCEPT !.stack = Append(SubSeq(m.stack, 1, n), a)])
  BY <1>1, <1>2, TrackedReplaced DEF Sound
<1> QED
  BY <1>3 DEF Now, Front, n

\* An execution ends.
LEMMA StoppedTracked ==
    ASSUME NEW M, NEW facts, NEW m, Inside(M, m), NEW how \in {"value", "throw", "status"}, NEW value
    PROVE  Tracked(M, facts, Stopped(m, how, value))
<1>1. Sound(M, Stopped(m, how, value))
  BY StoppedInside DEF Sound
<1>2. Stopped(m, how, value).how = how
  BY DEF Stopped, Sound, Inside, MachineRecord
<1> QED
  BY <1>1, <1>2 DEF Tracked

\* A call with values as arguments, from activations that wait.
LEMMA CalledTracked ==
    ASSUME NEW M, NEW facts, FactsHold(M, facts), NEW m, Inside(M, m), AllGood(M, facts, m),
           \A n \in DOMAIN M : IsFunction(M[n]),
           \A k \in DOMAIN m.stack : m.stack[k].pc \in DOMAIN M[m.stack[k].function].code,
           NEW n, NEW args \in Seq(Values), NEW closure \in 0..Len(m.closures)
    PROVE  Tracked(M, facts, Called(M, m, n, args, closure))
<1> DEFINE f == M[n]
           regs == [r \in 0..f.regs - 1 |-> IF r < Len(args) THEN args[r + 1] ELSE Null]
           rest == SubSeq(args, Len(f.params) + 1, Len(args))
           a == [function |-> n, pc |-> 1, tries |-> <<>>, closure |-> closure,
                 regs |-> regs, rest |-> rest]
           fits == /\ n \in DOMAIN M
                   /\ TakesArguments(f, Len(args))
                   /\ \A k \in DOMAIN f.params : Matches(args[k], f.params[k])
<1>1. CASE fits
  <2>1. f.regs \in Nat /\ Len(f.params) \in Nat
    BY <1>1 DEF IsFunction
  <2>2. regs \in Files(f)
    <3>1. \A r \in 0..f.regs - 1 : r < Len(args) => r + 1 \in 1..Len(args)
      BY <2>1
    <3>2. \A k \in 1..Len(args) : args[k] \in Values
      OBVIOUS
    <3> QED
      BY <3>1, <3>2, ValuesMade DEF Files, Registers
  <2>3. rest \in Seq(Values)
    <3>1. Len(f.params) + 1 \in Nat \ {0}
      BY <2>1
    <3> QED
      BY <3>1, SubSeqIn
  <2>4. regs = [r \in 0..f.regs - 1 |-> regs[r]]
    OBVIOUS
  <2>5. 1 \in DOMAIN f.code => regs \in facts[n][1]
    BY <1>1, <2>2 DEF FactsHold, Holds, FreePlaces
  <2> HIDE DEF regs, rest, f
  <2>6. FitsFunction(M, a)
    BY <1>1, <2>4 DEF FitsFunction, f
  <2>7. Good(M, facts, Len(m.closures), a)
    BY <2>2, <2>3, <2>5, <2>6 DEF Good, f
  <2>8. Called(M, m, n, args, closure) = [m EXCEPT !.stack = Append(m.stack, a)]
    BY <1>1 DEF Called, f, regs, rest
  <2>9. SubSeq(m.stack, 1, Len(m.stack)) = m.stack /\ Len(m.stack) \in Nat
        /\ DOMAIN m.stack = 1..Len(m.stack)
    <3>1. PICK S : m.stack \in Seq(S)
      BY DEF IsSequence, Sound, Inside
    <3> QED
      BY <3>1
  <2> HIDE DEF a
  <2>10. Tracked(M, facts, [m EXCEPT !.stack = Append(SubSeq(m.stack, 1, Len(m.stack)), a)])
    <3>1. Len(m.stack) \in 0..Len(m.stack)
      BY <2>9
    <3> QED
      BY <2>7, <2>9, <3>1, TrackedReplaced
  <2> QED
    BY <2>8, <2>9, <2>10
<1>2. CASE ~fits
  <2>1. Called(M, m, n, args, closure) = Stopped(m, "status", Null)
    BY <1>2 DEF Called
  <2> QED
    BY <2>1, StoppedTracked
<1> QED
  BY <1>1, <1>2

\* An activation goes on at a place where anything can be in its registers.
LEMMA GoodElsewhere ==
    ASSUME NEW M, NEW facts, NEW c, NEW a, Good(M, facts, c, a),
           NEW pc \in FreePlaces(M[a.function], facts[a.function]),
           NEW tries \in Seq(Frames(M[a.function], facts[a.function]))
    PROVE  Good(M, facts, c, [a EXCEPT !.pc = pc, !.tries = tries])
<1>1. pc \in DOMAIN M[a.function].code => a.regs \in facts[a.function][pc]
  BY DEF Good, FreePlaces
<1> QED
  BY <1>1 DEF Good, FitsFunction

\* An exception is handled by an activation that has a handler.
LEMMA HandledGood ==
    ASSUME NEW M, NEW facts, NEW c, NEW a, Good(M, facts, c, a), NEW value \in Values,
           \E k \in DOMAIN a.tries : Handles(a.tries[k])
    PROVE  Good(M, facts, c, Handled(a, value))
<1> DEFINE S == Frames(M[a.function], facts[a.function])
           F == FreePlaces(M[a.function], facts[a.function])
           handling == {k \in DOMAIN a.tries : Handles(a.tries[k])}
           n == Max(handling)
           t == a.tries[n]
           outer == SubSeq(a.tries, 1, n - 1)
           caught == [t EXCEPT !.in_catch = TRUE, !.rethrow = FALSE, !.pending = value]
           passed == [t EXCEPT !.in_catch = FALSE, !.in_finally = TRUE, !.rethrow = TRUE,
                               !.pending = value]
           catches == ~t.in_catch /\ t.catch # NoTarget
<1>1. a.tries \in Seq(S) /\ Len(a.tries) \in Nat /\ DOMAIN a.tries = 1..Len(a.tries)
  <2>1. a.tries \in Seq(S)
    BY DEF Good
  <2> HIDE DEF S
  <2> QED
    BY <2>1
<1>2. n \in handling
  <2>1. handling \subseteq 1..Len(a.tries) /\ handling # {}
    BY <1>1
  <2> HIDE DEF handling
  <2> QED
    BY <1>1, <2>1, MaxIn
<1>3. n \in 1..Len(a.tries)
  BY <1>1, <1>2
<1> HIDE DEF n, S
<1>4. t \in S
  BY <1>1, <1>3
<1> HIDE DEF t
<1>5. caught \in S /\ passed \in S /\ t.catch \in F /\ t.finally \in F
  BY <1>4 DEF S, Frames
<1>6. outer \in Seq(S)
  <2>1. n - 1 \in Int /\ n - 1 <= Len(a.tries) /\ 1 \in Nat \ {0}
    BY <1>1, <1>3
  <2> QED
    BY <1>1, <2>1, SubSeqIn
<1> HIDE DEF outer, caught, passed, F
<1>7. Append(outer, caught) \in Seq(S) /\ Append(outer, passed) \in Seq(S)
  BY <1>5, <1>6
<1>8. /\ Good(M, facts, c, [a EXCEPT !.pc = t.catch, !.tries = Append(outer, caught)])
      /\ Good(M, facts, c, [a EXCEPT !.pc = t.finally, !.tries = Append(outer, passed)])
  BY <1>5, <1>7, GoodElsewhere DEF S, F
<1>9. Handled(a, value) = IF catches THEN [a EXCEPT !.pc = t.catch, !.tries = Append(outer, caught)]
                                     ELSE [a EXCEPT !.pc = t.finally, !.tries = Append(outer, passed)]
  BY DEF Handled, n, t, outer, caught, passed
<1> QED
  BY <1>8, <1>9

\* A try statement's body or catch block ends.
LEMMA CompletedGood ==
    ASSUME NEW M, NEW facts, NEW c, NEW a, Good(M, facts, c, a), a.tries # <<>>
    PROVE  Good(M, facts, c, Completed(a))
<1> DEFINE S == Frames(M[a.function], facts[a.function])
           F == FreePlaces(M[a.function], facts[a.function])
           t == Last(a.tries)
           outer == Front(a.tries)
           ended == [t EXCEPT !.in_catch = FALSE, !.in_finally = TRUE, !.rethrow = FALSE]
<1>1. a.tries \in Seq(S)
  BY DEF Good
<1> HIDE DEF S
<1>2. Len(a.tries) \in Nat \ {0} /\ DOMAIN a.tries = 1..Len(a.tries)
  BY <1>1
<1>3. t \in S
  BY <1>1, <1>2 DEF Last
<1> HIDE DEF t
<1>4. ended \in S /\ t.finally \in F /\ t.end \in F
  BY <1>3 DEF S, Frames
<1>5. outer \in Seq(S)
  <2>1. Len(a.tries) - 1 \in Int /\ Len(a.tries) - 1 <= Len(a.tries) /\ 1 \in Nat \ {0}
    BY <1>2
  <2> QED
    BY <1>1, <2>1, SubSeqIn DEF Front
<1> HIDE DEF outer, ended, F
<1>6. Append(outer, ended) \in Seq(S)
  BY <1>4, <1>5
<1>7. /\ Good(M, facts, c, [a EXCEPT !.pc = t.finally, !.tries = Append(outer, ended)])
      /\ Good(M, facts, c, [a EXCEPT !.pc = t.end, !.tries = outer])
  BY <1>4, <1>5, <1>6, GoodElsewhere DEF S, F
<1>8. Completed(a) = IF t.finally # NoTarget
                     THEN [a EXCEPT !.pc = t.finally, !.tries = Append(outer, ended)]
                     ELSE [a EXCEPT !.pc = t.end, !.tries = outer]
  BY DEF Completed, t, outer, ended
<1> QED
  BY <1>7, <1>8

\* Control gets from one instruction to another.
LEMMA GoodGoes ==
    ASSUME NEW M, NEW facts, FactsHold(M, facts), NEW c, NEW a, Good(M, facts, c, a),
           a.pc \in DOMAIN M[a.function].code,
           NEW next, NEW after, Goes(M[a.function], a.pc, a.regs, next, after)
    PROVE  Good(M, facts, c, [a EXCEPT !.regs = after, !.pc = next])
<1> DEFINE f == M[a.function]
<1>1. a.function \in DOMAIN M /\ a.regs \in facts[a.function][a.pc]
  BY DEF Good, FitsFunction
<1>2. after \in Files(f)
  BY DEF Goes
<1>3. next \in DOMAIN f.code => after \in facts[a.function][next]
  BY <1>1 DEF FactsHold, Holds
<1>4. after = [r \in 0..f.regs - 1 |-> after[r]]
  BY <1>2 DEF Files, Registers
<1> QED
  BY <1>2, <1>3, <1>4 DEF Good, FitsFunction

\* A return to an activation that waits for a call.
LEMMA ReturnedTracked ==
    ASSUME NEW M, NEW facts, FactsHold(M, facts), NEW m, Sound(M, m), AllGood(M, facts, m),
           m.how = "runs", NEW value \in Values
    PROVE  Tracked(M, facts, Returned(M, m, value))
<1> DEFINE waiting == {k \in 1..Len(m.stack) - 1 :
                         InstOf(M, m.stack[k]).op \in {"call", "call_closure"}}
           n == Max(waiting)
           b == m.stack[n]
           i == InstOf(M, b)
           after == [b.regs EXCEPT ![i.a] = value]
           a == [b EXCEPT !.pc = @ + 1, !.regs[i.a] = value]
<1>1. CASE ~Matches(value, M[Last(m.stack).function].returns)
  BY <1>1, StoppedTracked DEF Returned, Sound
<1>2. CASE Matches(value, M[Last(m.stack).function].returns) /\ waiting = {}
  BY <1>2, StoppedTracked DEF Returned, Sound
<1>3. CASE Matches(value, M[Last(m.stack).function].returns) /\ waiting # {}
  <2>1. Len(m.stack) \in Nat \ {0} /\ DOMAIN m.stack = 1..Len(m.stack)
    BY RunningTop
  <2>2. n \in waiting
    <3>1. Len(m.stack) - 1 \in Nat /\ waiting \subseteq 1..Len(m.stack) - 1
      BY <2>1
    <3> HIDE DEF waiting
    <3> QED
      BY <1>3, <3>1, MaxIn
  <2>3. n \in 1..Len(m.stack) - 1 /\ n \in 1..Len(m.stack) /\ n - 1 \in 0..Len(m.stack)
    BY <2>1, <2>2
  <2>4. i.op \in {"call", "call_closure"}
    BY <2>2
  <2> HIDE DEF n, waiting
  <2>5. Good(M, facts, Len(m.closures), b) /\ b.pc \in DOMAIN M[b.function].code
    BY <2>1, <2>3 DEF AllGood
  <2> HIDE DEF b
  <2>6. after \in Files(M[b.function])
    BY <2>5 DEF Good, Files
  <2>7. i = M[b.function].code[b.pc]
    BY DEF InstOf
  <2>8. Goes(M[b.function], b.pc, b.regs, b.pc + 1, after)
    <3>1. i.op \in Controls \ Terminators /\ Written(i) = {i.a} /\ IntegerReads(i) = {}
      <4> HIDE DEF i
      <4> QED
        BY <2>4 DEF Controls, Terminators, Calls, ClosureCalls, Tries, Upvalues, Written, IntegerReads,
                    Binary, Immediate, Step1, FusedImm
    <3>2. \A r \in Registers(M[b.function]) \ {i.a} : after[r] = b.regs[r]
      BY <2>5 DEF Good, Files
    <3> HIDE DEF i, after
    <3> QED
      BY <2>6, <2>7, <3>1, <3>2 DEF Goes, Mixes
  <2> HIDE DEF after
  <2>9. Good(M, facts, Len(m.closures), [b EXCEPT !.regs = after, !.pc = b.pc + 1])
    BY <2>5, <2>8, GoodGoes
  <2>10. a = [b EXCEPT !.regs = after, !.pc = b.pc + 1]
    <3> HIDE DEF i
    <3> QED
      BY <2>5 DEF Good, FitsFunction, after
  <2> HIDE DEF a
  <2>11. Tracked(M, facts, [m EXCEPT !.stack = Append(SubSeq(m.stack, 1, n - 1), a)])
    <3>1. \A k \in 1..n - 1 : m.stack[k].pc \in DOMAIN M[m.stack[k].function].code
      BY <2>1, <2>3 DEF AllGood
    <3> QED
      BY <2>3, <2>9, <2>10, <3>1, TrackedReplaced DEF Sound
  <2>12. Returned(M, m, value) = [m EXCEPT !.stack = Append(SubSeq(m.stack, 1, n - 1), a)]
    BY <1>3 DEF Returned, n, a, i, b, waiting
  <2> QED
    BY <2>11, <2>12
<1> QED
  BY <1>1, <1>2, <1>3

\* A throw.
LEMMA ThrownTracked ==
    ASSUME NEW M, NEW facts, NEW m, Sound(M, m), AllGood(M, facts, m), m.how = "runs",
           NEW value \in Values
    PROVE  Tracked(M, facts, Thrown(m, value))
<1> DEFINE handling == {k \in DOMAIN m.stack :
                          \E t \in DOMAIN m.stack[k].tries : Handles(m.stack[k].tries[t])}
           n == Max(handling)
<1>1. CASE handling = {}
  BY <1>1, StoppedTracked DEF Thrown, Sound
<1>2. CASE handling # {}
  <2>1. Len(m.stack) \in Nat \ {0} /\ DOMAIN m.stack = 1..Len(m.stack)
    BY RunningTop
  <2>2. n \in handling
    <3>1. handling \subseteq 1..Len(m.stack)
      BY <2>1
    <3> HIDE DEF handling
    <3> QED
      BY <1>2, <2>1, <3>1, MaxIn
  <2>3. n \in 1..Len(m.stack) /\ n - 1 \in 0..Len(m.stack)
    BY <2>1, <2>2
  <2> HIDE DEF n
  <2>4. Good(M, facts, Len(m.closures), Handled(m.stack[n], value))
    BY <2>1, <2>2, <2>3, HandledGood DEF AllGood
  <2>5. Thrown(m, value)
          = [m EXCEPT !.stack = Append(SubSeq(m.stack, 1, n - 1), Handled(m.stack[n], value))]
    BY <1>2 DEF Thrown, n
  <2>6. \A k \in 1..n - 1 : m.stack[k].pc \in DOMAIN M[m.stack[k].function].code
    <3>1. \A k \in 1..n - 1 : k \in 1..Len(m.stack) - 1
      BY <2>1, <2>3
    <3> QED
      BY <3>1 DEF AllGood
  <2>7. Tracked(M, facts, [m EXCEPT !.stack = Append(SubSeq(m.stack, 1, n - 1), Handled(m.stack[n], value))])
    BY <2>3, <2>4, <2>6, TrackedReplaced DEF Sound
  <2> QED
    BY <2>5, <2>7
<1> QED
  BY <1>1, <1>2

\* More closures do no harm.
LEMMA GoodMore ==
    ASSUME NEW M, NEW facts, NEW c \in Nat, NEW d \in Nat, c <= d, NEW a, Good(M, facts, c, a)
    PROVE  Good(M, facts, d, a)
BY DEF Good

\* A machine with more calls, other closures of the same kind, or a mixed one.
LEMMA AsideGood ==
    ASSUME NEW M, NEW facts, NEW m, Sound(M, m), AllGood(M, facts, m)
    PROVE  /\ \A calls : IsSequence(calls) => AllGood(M, facts, [m EXCEPT !.calls = calls])
           /\ \A closures \in Seq(ClosureRecords) : Len(closures) >= Len(m.closures) =>
                AllGood(M, facts, [m EXCEPT !.closures = closures])
           /\ \A mixed : AllGood(M, facts, [m EXCEPT !.mixed = mixed])
<1>1. MachineRecord(m) /\ Len(m.closures) \in Nat
  BY DEF Sound, Inside, AllGood
<1>2. ASSUME NEW calls, IsSequence(calls) PROVE AllGood(M, facts, [m EXCEPT !.calls = calls])
  BY <1>1, <1>2 DEF AllGood, MachineRecord
<1>3. ASSUME NEW mixed PROVE AllGood(M, facts, [m EXCEPT !.mixed = mixed])
  BY <1>1 DEF AllGood, MachineRecord
<1>4. ASSUME NEW closures \in Seq(ClosureRecords), Len(closures) >= Len(m.closures)
      PROVE  AllGood(M, facts, [m EXCEPT !.closures = closures])
  <2> DEFINE m2 == [m EXCEPT !.closures = closures]
  <2>1. m2.stack = m.stack /\ m2.calls = m.calls /\ m2.closures = closures
    BY <1>1 DEF MachineRecord
  <2>2. \A k \in DOMAIN m.stack : Good(M, facts, Len(closures), m.stack[k])
    <3>1. Len(closures) \in Nat
      OBVIOUS
    <3> QED
      BY <1>1, <1>4, <3>1, GoodMore DEF AllGood
  <2> HIDE DEF m2
  <2>3. AllGood(M, facts, m2)
    BY <2>1, <2>2 DEF AllGood
  <2> QED
    BY <2>3 DEF m2
<1> QED
  BY <1>2, <1>3, <1>4

\* An instruction that leaves its result in a register, or none, goes on.
LEMMA ResultGood ==
    ASSUME NEW M, NEW facts, FactsHold(M, facts), NEW c, NEW a, Good(M, facts, c, a),
           a.pc \in DOMAIN M[a.function].code,
           NEW i, i = M[a.function].code[a.pc], ~Mixes(i, a.regs), i.op \in Controls \ Terminators
    PROVE  /\ Good(M, facts, c, [a EXCEPT !.pc = @ + 1])
           /\ i.a \in Written(i) => \A v \in Values :
                Good(M, facts, c, [[a EXCEPT !.pc = @ + 1] EXCEPT !.regs[i.a] = v])
<1>1. a.regs \in Files(M[a.function])
  BY DEF Good
<1>2. ASSUME NEW after \in Files(M[a.function]),
             \A r \in Registers(M[a.function]) \ Written(i) : after[r] = a.regs[r]
      PROVE  Good(M, facts, c, [a EXCEPT !.regs = after, !.pc = a.pc + 1])
  <2>1. Goes(M[a.function], a.pc, a.regs, a.pc + 1, after)
    BY <1>2 DEF Goes
  <2> QED
    BY <2>1, GoodGoes
<1>3. Good(M, facts, c, [a EXCEPT !.pc = @ + 1])
  <2>1. Good(M, facts, c, [a EXCEPT !.regs = a.regs, !.pc = a.pc + 1])
    BY <1>1, <1>2
  <2>2. [a EXCEPT !.regs = a.regs, !.pc = a.pc + 1] = [a EXCEPT !.pc = @ + 1]
    BY DEF Good, FitsFunction
  <2> QED
    BY <2>1, <2>2
<1>4. ASSUME i.a \in Written(i), NEW v \in Values
      PROVE  Good(M, facts, c, [[a EXCEPT !.pc = @ + 1] EXCEPT !.regs[i.a] = v])
  <2> DEFINE after == [a.regs EXCEPT ![i.a] = v]
  <2>1. after \in Files(M[a.function])
    BY <1>1 DEF Files
  <2>2. \A r \in Registers(M[a.function]) \ Written(i) : after[r] = a.regs[r]
    BY <1>1, <1>4 DEF Files
  <2>3. [[a EXCEPT !.pc = @ + 1] EXCEPT !.regs[i.a] = v] = [a EXCEPT !.regs = after, !.pc = a.pc + 1]
    BY DEF Good, FitsFunction
  <2> HIDE DEF after
  <2> QED
    BY <1>2, <2>1, <2>2, <2>3
<1> QED
  BY <1>3, <1>4

\* What a call, a native call or a closure takes from the registers are values.
LEMMA WindowValues ==
    ASSUME NEW M, IsSequence(M), NEW f, Sized(f), NEW size, NEW pc, NEW i, Fits(M, f, size, pc, i),
           NEW regs \in Files(f)
    PROVE  /\ i.op \in Calls \union ClosureCalls \union {"ffi_call"} =>
                [k \in 1..i.c |-> regs[i.a + k]] \in Seq(Values)
           /\ i.op = "closure" => Captured(i, regs) \in ClosureRecords
<1>1. \A r \in 0..f.regs - 1 : regs[r] \in Values
  BY DEF Files, Registers
<1>2. CASE i.op \in Calls \union ClosureCalls \union {"ffi_call"}
  <2>1. WindowEnd(i) = i.a + i.c /\ i.a \in Nat /\ i.c \in Nat
    BY <1>2 DEF Fits, IsInst, Operands, WindowEnd, Calls, ClosureCalls
  <2>2. i.a + i.c < f.regs /\ f.regs \in Nat
    BY <2>1 DEF Fits, Sized
  <2>3. \A k \in 1..i.c : i.a + k \in 0..f.regs - 1
    BY <2>1, <2>2
  <2>4. \A k \in 1..i.c : regs[i.a + k] \in Values
    BY <1>1, <2>3
  <2>5. [k \in 1..i.c |-> regs[i.a + k]] \in Seq(Values)
    BY <2>1, <2>4
  <2>6. i.op # "closure"
    BY <1>2 DEF Calls, ClosureCalls
  <2> QED
    BY <2>5, <2>6
<1>3. CASE i.op = "closure"
  <2>1. i.c \in Nat /\ i.flags \in Nat /\ i.b \in DOMAIN M /\ i.b \in Nat
    BY <1>3, SequenceDomain DEF Fits, IsInst, Operands
  <2>2. i.flags > 0 => i.c + i.flags - 1 < f.regs
    BY <1>3 DEF Fits, WindowEnd, Calls, ClosureCalls
  <2>3. \A k \in 1..i.flags : i.c + k - 1 \in 0..f.regs - 1
    BY <2>1, <2>2 DEF Sized
  <2>4. \A k \in 1..i.flags : regs[i.c + k - 1] \in Values
    BY <1>1, <2>3
  <2>5. [k \in 1..i.flags |-> regs[i.c + k - 1]] \in Seq(Values)
    BY <2>1, <2>4
  <2>6. i.op \notin Calls \union ClosureCalls \union {"ffi_call"}
    BY <1>3 DEF Calls, ClosureCalls
  <2> QED
    BY <2>1, <2>5, <2>6 DEF Captured, ClosureRecords
<1> QED
  BY <1>2, <1>3

\* The running activation of a machine of which the facts hold, at an instruction.
RunsAt(M, facts, m, a, i) ==
    /\ IsModule(M) /\ Verifies(M) /\ FactsHold(M, facts)
    /\ Sound(M, m) /\ AllGood(M, facts, m) /\ m.how = "runs"
    /\ a = Last(m.stack)
    /\ a.pc \in DOMAIN M[a.function].code
    /\ i = M[a.function].code[a.pc]
    /\ ~Mixes(i, a.regs)

\* What the verifier and the facts say of the instruction at which a machine is.
LEMMA RunsIs ==
    ASSUME NEW M, NEW facts, NEW m, NEW a, NEW i, RunsAt(M, facts, m, a, i)
    PROVE  /\ Good(M, facts, Len(m.closures), a)
           /\ Sized(M[a.function])
           /\ Fits(M, M[a.function], Len(M[a.function].code), a.pc, i)
           /\ \A field \in RegisterFields(i.op) : a.regs[i[field]] \in Values
           /\ \A k \in DOMAIN m.stack : m.stack[k].pc \in DOMAIN M[m.stack[k].function].code
           /\ Len(m.closures) \in Nat
<1>1. Len(m.stack) \in Nat \ {0} /\ DOMAIN m.stack = 1..Len(m.stack)
  BY RunningTop DEF RunsAt
<1>2. Good(M, facts, Len(m.closures), a) /\ a = m.stack[Len(m.stack)]
  BY <1>1 DEF RunsAt, AllGood, Last
<1>3. a.function \in DOMAIN M /\ a.regs \in Files(M[a.function])
  BY <1>2 DEF Good, FitsFunction
<1>4. Accepted(M, M[a.function])
  BY <1>3, VerifiedIsAccepted DEF RunsAt
<1>5. Sized(M[a.function])
  BY <1>4 DEF Accepted, FunctionRecord, Sized
<1>6. Fits(M, M[a.function], Len(M[a.function].code), a.pc, i)
  BY <1>4, CodeFits DEF RunsAt, Accepted
<1>7. \A field \in RegisterFields(i.op) : i[field] \in Registers(M[a.function])
  BY <1>5, <1>6, NamedRegisters DEF Registers
<1>8. \A field \in RegisterFields(i.op) : a.regs[i[field]] \in Values
  BY <1>3, <1>7 DEF Files
<1>9. \A k \in DOMAIN m.stack : m.stack[k].pc \in DOMAIN M[m.stack[k].function].code
  <2> TAKE k \in DOMAIN m.stack
  <2>1. CASE k = Len(m.stack)
    BY <1>2, <2>1 DEF RunsAt
  <2>2. CASE k # Len(m.stack)
    <3>1. k \in 1..Len(m.stack) - 1
      BY <1>1, <2>2
    <3> QED
      BY <3>1 DEF RunsAt, AllGood
  <2> QED
    BY <2>1, <2>2
<1>10. Len(m.closures) \in Nat
  BY DEF RunsAt, AllGood
<1> QED
  BY <1>2, <1>5, <1>6, <1>8, <1>9, <1>10

\* An upvalue of the closure that runs.
LEMMA UpvalueIs ==
    ASSUME NEW M, NEW facts, NEW c, NEW a, Good(M, facts, c, a), NEW m, c = Len(m.closures),
           m.closures \in Seq(ClosureRecords), NEW b \in Nat, HasUpvalue(m, a, b)
    PROVE  /\ m.closures[a.closure].upvalues[b + 1] \in Values
           /\ \A v \in Values : [m.closures EXCEPT ![a.closure].upvalues[b + 1] = v] \in Seq(ClosureRecords)
           /\ \A v : Len([m.closures EXCEPT ![a.closure].upvalues[b + 1] = v]) = Len(m.closures)
<1>1. a.closure \in 1..Len(m.closures)
  BY DEF Good, HasUpvalue, NoClosure
<1> DEFINE r == m.closures[a.closure]
<1>2. r \in ClosureRecords
  BY <1>1
<1>3. r.upvalues \in Seq(Values) /\ r.function \in Nat
  BY <1>2 DEF ClosureRecords
<1>4. b + 1 \in 1..Len(r.upvalues)
  BY <1>3 DEF HasUpvalue
<1>5. r.upvalues[b + 1] \in Values
  BY <1>3, <1>4
<1>6. ASSUME NEW v
      PROVE  /\ Len([m.closures EXCEPT ![a.closure].upvalues[b + 1] = v]) = Len(m.closures)
             /\ v \in Values => [m.closures EXCEPT ![a.closure].upvalues[b + 1] = v] \in Seq(ClosureRecords)
  <2> DEFINE ups == [r.upvalues EXCEPT ![b + 1] = v]
             s == [r EXCEPT !.upvalues = ups]
  <2>1. [m.closures EXCEPT ![a.closure].upvalues[b + 1] = v] = [m.closures EXCEPT ![a.closure] = s]
    BY <1>1, <1>2 DEF ClosureRecords
  <2>2. v \in Values => ups \in Seq(Values)
    BY <1>3, <1>4
  <2> HIDE DEF ups
  <2>3. v \in Values => s \in ClosureRecords
    BY <1>2, <2>2 DEF ClosureRecords
  <2> HIDE DEF s, r
  <2>4. v \in Values => [m.closures EXCEPT ![a.closure] = s] \in Seq(ClosureRecords)
    BY <1>1, <2>3
  <2>5. Len([m.closures EXCEPT ![a.closure] = s]) = Len(m.closures)
    OBVIOUS
  <2> QED
    BY <2>1, <2>4, <2>5
<1> QED
  BY <1>5, <1>6

\* A machine that runs on with other calls or closures.
LEMMA NowAside ==
    ASSUME NEW M, NEW facts, NEW m, Sound(M, m), AllGood(M, facts, m), m.how = "runs", NEW a
    PROVE  /\ Good(M, facts, Len(m.closures), a) => Tracked(M, facts, Now(m, a))
           /\ \A calls : IsSequence(calls) /\ Good(M, facts, Len(m.closures), a) =>
                Tracked(M, facts, Now([m EXCEPT !.calls = calls], a))
           /\ \A closures \in Seq(ClosureRecords) :
                Len(closures) >= Len(m.closures) /\ Good(M, facts, Len(m.closures), a) =>
                  Tracked(M, facts, Now([m EXCEPT !.closures = closures], a))
<1>1. MachineRecord(m) /\ Len(m.closures) \in Nat
  BY DEF Sound, Inside, AllGood
<1>2. ASSUME NEW calls, IsSequence(calls), Good(M, facts, Len(m.closures), a)
      PROVE  Tracked(M, facts, Now([m EXCEPT !.calls = calls], a))
  <2> DEFINE m2 == [m EXCEPT !.calls = calls]
  <2>1. Sound(M, m2) /\ AllGood(M, facts, m2) /\ m2.how = "runs"
    BY <1>2, AsideGood, AsideInside
  <2>2. m2.closures = m.closures
    BY <1>1 DEF MachineRecord
  <2> HIDE DEF m2
  <2>3. Tracked(M, facts, Now(m2, a))
    BY <1>2, <2>1, <2>2, NowTracked
  <2> QED
    BY <2>3 DEF m2
<1>3. ASSUME NEW closures \in Seq(ClosureRecords), Len(closures) >= Len(m.closures),
             Good(M, facts, Len(m.closures), a)
      PROVE  Tracked(M, facts, Now([m EXCEPT !.closures = closures], a))
  <2> DEFINE m2 == [m EXCEPT !.closures = closures]
  <2>1. Sound(M, m2) /\ AllGood(M, facts, m2) /\ m2.how = "runs"
    BY <1>3, AsideGood, AsideInside
  <2>2. m2.closures = closures
    BY <1>1 DEF MachineRecord
  <2> HIDE DEF m2
  <2>3. Good(M, facts, Len(closures), a)
    <3>1. Len(closures) \in Nat
      OBVIOUS
    <3> QED
      BY <1>1, <1>3, <3>1, GoodMore
  <2>4. Tracked(M, facts, Now(m2, a))
    BY <2>1, <2>2, <2>3, NowTracked
  <2> QED
    BY <2>4 DEF m2
<1> QED
  BY <1>2, <1>3, NowTracked

\* One instruction, of which the facts go on to hold.
LEMMA DoesTracked ==
    ASSUME NEW M, NEW facts, NEW m, NEW a, NEW i, RunsAt(M, facts, m, a, i)
    PROVE  Tracked(M, facts, Does(M, m, a, i))
<1> DEFINE f == M[a.function]
           c == Len(m.closures)
           arguments == [k \in 1..i.c |-> a.regs[i.a + k]]
           next == [a EXCEPT !.pc = @ + 1]
<1>1. /\ Good(M, facts, c, a) /\ Sized(f) /\ Fits(M, f, Len(f.code), a.pc, i)
      /\ \A field \in RegisterFields(i.op) : a.regs[i[field]] \in Values
      /\ \A k \in DOMAIN m.stack : m.stack[k].pc \in DOMAIN M[m.stack[k].function].code
      /\ c \in Nat
  BY RunsIs
<1>2. /\ IsModule(M) /\ Verifies(M) /\ FactsHold(M, facts)
      /\ Sound(M, m) /\ AllGood(M, facts, m) /\ m.how = "runs"
      /\ a.pc \in DOMAIN f.code /\ i = f.code[a.pc] /\ ~Mixes(i, a.regs)
  BY DEF RunsAt
<1>3. /\ IsSequence(m.calls) /\ m.closures \in Seq(ClosureRecords)
      /\ a.regs \in Files(f) /\ a.closure \in 0..c /\ a.rest \in Seq(Values)
  BY <1>1, <1>2 DEF AllGood, Good
<1>4. /\ i.op \in Controls \ Terminators => Good(M, facts, c, next)
      /\ i.op \in Controls \ Terminators /\ i.a \in Written(i) =>
           \A v \in Values : Good(M, facts, c, [next EXCEPT !.regs[i.a] = v])
  BY <1>1, <1>2, ResultGood
<1>5. \A b : Good(M, facts, c, b) => Tracked(M, facts, Now(m, b))
  BY <1>2, NowAside
<1>6. \A v \in Values : Tracked(M, facts, Thrown(m, v)) /\ Tracked(M, facts, Returned(M, m, v))
  BY <1>2, ThrownTracked, ReturnedTracked
<1>7. Null \in Values
  BY ValuesMade
<1> HIDE DEF next
<1>8. CASE Faults(M, m, a, i)
  <2>1. Does(M, m, a, i) = Thrown(m, Null)
    BY <1>8 DEF Does
  <2> QED
    BY <1>6, <1>7, <2>1
<1> USE DEF Controls, Terminators, Tries, Calls, ClosureCalls, Upvalues, Written
<1>9. CASE ~Faults(M, m, a, i) /\ i.op \in {"ret", "throw"}
  <2>1. a.regs[i.a] \in Values
    BY <1>1, <1>9, FieldNames
  <2>2. Does(M, m, a, i) = IF i.op = "ret" THEN Returned(M, m, a.regs[i.a]) ELSE Thrown(m, a.regs[i.a])
    BY <1>9 DEF Does
  <2> QED
    BY <1>6, <2>1, <2>2
<1>10. CASE ~Faults(M, m, a, i) /\ i.op = "halt"
  <2>1. Does(M, m, a, i) = Returned(M, m, Null)
    BY <1>10 DEF Does
  <2> QED
    BY <1>6, <1>7, <2>1
<1>11. CASE ~Faults(M, m, a, i) /\ i.op = "ffi_call"
  <2> DEFINE calls == Append(m.calls, [symbol |-> i.b, args |-> arguments])
             b == [next EXCEPT !.regs[i.a] = Int64(Len(calls))]
  <2>1. IsSequence(calls) /\ Len(calls) \in Int
    BY <1>3, AppendIsSequence
  <2>2. Int64(Len(calls)) \in Values
    BY <2>1, ValuesMade
  <2>3. Good(M, facts, c, b)
    BY <1>4, <1>11, <2>2
  <2>4. Does(M, m, a, i) = Now([m EXCEPT !.calls = calls], b)
    BY <1>11 DEF Does, next
  <2> HIDE DEF calls, b
  <2>5. Tracked(M, facts, Now([m EXCEPT !.calls = calls], b))
    BY <1>2, <2>1, <2>3, NowAside
  <2> QED
    BY <2>4, <2>5
<1>12. CASE ~Faults(M, m, a, i) /\ i.op = "closure"
  <2> DEFINE closures == Append(m.closures, Captured(i, a.regs))
             b == [next EXCEPT !.regs[i.a] = Handle(Len(m.closures) + 1)]
  <2>1. Captured(i, a.regs) \in ClosureRecords
    BY <1>1, <1>2, <1>3, <1>12, WindowValues DEF IsModule
  <2>2. closures \in Seq(ClosureRecords) /\ Len(closures) >= Len(m.closures)
    BY <1>3, <2>1
  <2>3. Handle(Len(m.closures) + 1) \in Values
    BY <1>1, ValuesMade
  <2>4. Good(M, facts, c, b)
    BY <1>4, <1>12, <2>3
  <2>5. Does(M, m, a, i) = Now([m EXCEPT !.closures = closures], b)
    BY <1>12 DEF Does, next
  <2> HIDE DEF closures, b
  <2>6. Tracked(M, facts, Now([m EXCEPT !.closures = closures], b))
    BY <1>2, <2>2, <2>4, NowAside
  <2> QED
    BY <2>5, <2>6
<1>13. CASE ~Faults(M, m, a, i) /\ i.op = "get_upval"
  <2> DEFINE v == m.closures[a.closure].upvalues[i.b + 1]
             b == [next EXCEPT !.regs[i.a] = v]
  <2>1. HasUpvalue(m, a, i.b) /\ i.b \in Nat
    BY <1>1, <1>13 DEF Faults, Fits, IsInst, Operands
  <2>2. v \in Values
    BY <1>1, <1>3, <2>1, UpvalueIs
  <2>3. Good(M, facts, c, b)
    BY <1>4, <1>13, <2>2
  <2>4. Does(M, m, a, i) = Now(m, b)
    BY <1>13 DEF Does, next
  <2> HIDE DEF b
  <2> QED
    BY <1>5, <2>3, <2>4
<1>14. CASE ~Faults(M, m, a, i) /\ i.op = "set_upval"
  <2> DEFINE closures == [m.closures EXCEPT ![a.closure].upvalues[i.b + 1] = a.regs[i.a]]
  <2>1. HasUpvalue(m, a, i.b) /\ i.b \in Nat
    BY <1>1, <1>14 DEF Faults, Fits, IsInst, Operands
  <2>2. a.regs[i.a] \in Values
    BY <1>1, <1>14, FieldNames
  <2>3. closures \in Seq(ClosureRecords) /\ Len(closures) = Len(m.closures)
    <3>1. /\ \A v \in Values : [m.closures EXCEPT ![a.closure].upvalues[i.b + 1] = v] \in Seq(ClosureRecords)
          /\ \A v : Len([m.closures EXCEPT ![a.closure].upvalues[i.b + 1] = v]) = Len(m.closures)
      BY <1>1, <1>3, <2>1, UpvalueIs
    <3> DEFINE v == a.regs[i.a]
    <3>2. v \in Values
      BY <2>2
    <3> HIDE DEF v
    <3>3. [m.closures EXCEPT ![a.closure].upvalues[i.b + 1] = v] \in Seq(ClosureRecords)
          /\ Len([m.closures EXCEPT ![a.closure].upvalues[i.b + 1] = v]) = Len(m.closures)
      BY <3>1, <3>2
    <3> QED
      BY <3>3 DEF v
  <2>4. Good(M, facts, c, next)
    BY <1>4, <1>14
  <2>5. Does(M, m, a, i) = Now([m EXCEPT !.closures = closures], next)
    BY <1>14 DEF Does, next
  <2>6. Len(closures) >= Len(m.closures)
    <3> HIDE DEF closures
    <3> QED
      BY <1>1, <2>3
  <2> HIDE DEF closures
  <2>7. Tracked(M, facts, Now([m EXCEPT !.closures = closures], next))
    BY <1>2, <2>3, <2>4, <2>6, NowAside
  <2> QED
    BY <2>5, <2>7
<1>15. CASE ~Faults(M, m, a, i) /\ i.op \in Calls \union ClosureCalls
  <2>1. arguments \in Seq(Values)
    <3>1. IsSequence(M) /\ i.op \in Calls \union ClosureCalls \union {"ffi_call"}
      BY <1>2, <1>15 DEF IsModule
    <3> HIDE DEF f
    <3>2. [k \in 1..i.c |-> a.regs[i.a + k]] \in Seq(Values)
      BY <1>1, <1>3, <3>1, WindowValues
    <3> QED
      BY <3>2
  <2> HIDE DEF arguments
  <2>2. \A n : \A closure \in 0..c : Tracked(M, facts, Called(M, m, n, arguments, closure))
    BY <1>1, <1>2, <2>1, CalledTracked DEF IsModule, Sound
  <2>3. i.op \in ClosureCalls => a.regs[i.b].bits \in 0..c
    BY <1>1, <1>3, <1>15 DEF Faults, Resolves
  <2>4. NoClosure \in 0..c
    BY <1>1 DEF NoClosure
  <2>5. Does(M, m, a, i) =
          IF i.op \in Calls THEN Called(M, m, i.b, arguments, NoClosure)
          ELSE Called(M, m, m.closures[a.regs[i.b].bits].function, arguments, a.regs[i.b].bits)
    BY <1>15 DEF Does, arguments
  <2> QED
    BY <1>15, <2>2, <2>3, <2>4, <2>5
<1>16. CASE ~Faults(M, m, a, i) /\ i.op = "vararg"
  <2> DEFINE place(r) == i.b + r - i.a + 1
             after == [r \in DOMAIN a.regs |->
                         IF r \in i.a..i.a + i.c - 1
                         THEN IF place(r) \in DOMAIN a.rest THEN a.rest[place(r)] ELSE Null
                         ELSE a.regs[r]]
  <2>1. after \in Files(f)
    <3>1. \A k : k \in DOMAIN a.rest => a.rest[k] \in Values
      BY <1>3
    <3>2. DOMAIN a.regs = Registers(f) /\ \A r \in Registers(f) : a.regs[r] \in Values
      BY <1>3 DEF Files
    <3> HIDE DEF place
    <3> QED
      BY <1>7, <3>1, <3>2 DEF Files
  <2>2. \A r \in Registers(f) \ Written(i) : after[r] = a.regs[r]
    <3>1. DOMAIN a.regs = Registers(f) /\ Written(i) = i.a..i.a + i.c - 1
      BY <1>3, <1>16 DEF Files, Binary, Immediate, Step1, FusedImm
    <3> QED
      BY <3>1
  <2>3. Does(M, m, a, i) = Now(m, [a EXCEPT !.regs = after, !.pc = a.pc + 1])
    <3>1. Does(M, m, a, i) = Now(m, [next EXCEPT !.regs = after])
      BY <1>16 DEF Does, next
    <3> HIDE DEF after
    <3>2. [next EXCEPT !.regs = after] = [a EXCEPT !.regs = after, !.pc = a.pc + 1]
      BY <1>1 DEF next, Good, FitsFunction
    <3> QED
      BY <3>1, <3>2
  <2> HIDE DEF after
  <2>4. Goes(f, a.pc, a.regs, a.pc + 1, after)
    BY <1>2, <1>16, <2>1, <2>2 DEF Goes
  <2>5. Good(M, facts, c, [a EXCEPT !.regs = after, !.pc = a.pc + 1])
    BY <1>1, <1>2, <2>4, GoodGoes
  <2> QED
    BY <1>5, <2>3, <2>5
<1>17. CASE ~Faults(M, m, a, i) /\ i.op = "try_begin"
  <2> DEFINE S == Frames(f, facts[a.function])
             t == [catch |-> i.a, finally |-> i.b, end |-> i.c,
                   in_catch |-> FALSE, in_finally |-> FALSE, rethrow |-> FALSE, pending |-> Null]
             b == [next EXCEPT !.tries = Append(a.tries, t)]
  <2>1. a.function \in DOMAIN M
    BY <1>1 DEF Good, FitsFunction
  <2>2. {i.a, i.b, i.c} \subseteq FreePlaces(f, facts[a.function])
    BY <1>2, <1>17, <2>1 DEF FactsHold, Holds, TryTargets
  <2>3. t \in S
    BY <1>7, <2>2 DEF Frames
  <2> HIDE DEF t, S
  <2>4. Append(a.tries, t) \in Seq(S)
    BY <1>1, <2>3 DEF Good, S
  <2>5. Good(M, facts, c, b)
    <3>1. Good(M, facts, c, next)
      BY <1>4, <1>17
    <3>2. next.function = a.function
      BY <1>1 DEF next, Good, FitsFunction
    <3> DEFINE l == Append(a.tries, t)
    <3> HIDE DEF l, next
    <3>3. l \in Seq(Frames(M[next.function], facts[next.function]))
      BY <2>4, <3>2 DEF l, S
    <3>4. Good(M, facts, c, [next EXCEPT !.tries = l])
      BY <3>1, <3>3 DEF Good, FitsFunction
    <3> QED
      BY <3>4 DEF l
  <2>6. Does(M, m, a, i) = Now(m, b)
    <3>1. next.tries = a.tries
      BY <1>1 DEF next, Good, FitsFunction
    <3>2. Does(M, m, a, i) = Now(m, [next EXCEPT !.tries = Append(@, t)])
      BY <1>17 DEF Does, next, t
    <3> QED
      BY <3>1, <3>2
  <2> HIDE DEF b
  <2> QED
    BY <1>5, <2>5, <2>6
<1>18. CASE ~Faults(M, m, a, i) /\ i.op \in {"try_end", "end_catch"}
  <2>1. a.tries # <<>>
    BY <1>18 DEF Faults
  <2>2. Good(M, facts, c, Completed(a))
    BY <1>1, <2>1, CompletedGood
  <2>3. Does(M, m, a, i) = Now(m, Completed(a))
    BY <1>18 DEF Does
  <2> QED
    BY <1>5, <2>2, <2>3
<1>19. CASE ~Faults(M, m, a, i) /\ i.op = "end_finally"
  <2> DEFINE S == Frames(f, facts[a.function])
             t == Last(a.tries)
             outer == Front(a.tries)
             left == [a EXCEPT !.tries = outer]
  <2>1. a.tries # <<>> /\ a.tries \in Seq(S)
    BY <1>1, <1>19 DEF Faults, Good
  <2> HIDE DEF S
  <2>2. Len(a.tries) \in Nat \ {0}
    BY <2>1
  <2>3. t \in S
    BY <2>1, <2>2 DEF Last
  <2>4. outer \in Seq(S)
    <3>1. Len(a.tries) - 1 \in Int /\ Len(a.tries) - 1 <= Len(a.tries) /\ 1 \in Nat \ {0}
      BY <2>2
    <3> QED
      BY <2>1, <3>1, SubSeqIn DEF Front
  <2> HIDE DEF t, outer
  <2>5. t.end \in FreePlaces(f, facts[a.function]) /\ t.pending \in Values
    BY <2>3 DEF S, Frames
  <2>6. Good(M, facts, c, left)
    BY <1>1, <2>4 DEF Good, FitsFunction, S
  <2>7. Good(M, facts, c, [left EXCEPT !.pc = t.end])
    <3>1. Good(M, facts, c, [a EXCEPT !.pc = t.end, !.tries = outer])
      BY <1>1, <2>4, <2>5, GoodElsewhere DEF S
    <3>2. [a EXCEPT !.pc = t.end, !.tries = outer] = [left EXCEPT !.pc = t.end]
      BY <1>1 DEF Good, FitsFunction
    <3> QED
      BY <3>1, <3>2
  <2>8. Does(M, m, a, i) = IF t.rethrow THEN Thrown(Now(m, left), t.pending)
                                        ELSE Now(m, [left EXCEPT !.pc = t.end])
    BY <1>19 DEF Does, t, outer
  <2> HIDE DEF left
  <2>9. Tracked(M, facts, Now(m, left))
    BY <1>5, <2>6
  <2>10. Now(m, left).how = "runs"
    BY <1>2 DEF Now, Sound, Inside, MachineRecord
  <2>11. Tracked(M, facts, Thrown(Now(m, left), t.pending))
    BY <2>5, <2>9, <2>10, ThrownTracked DEF Tracked
  <2> QED
    BY <1>5, <2>7, <2>8, <2>11
<1>20. CASE ~Faults(M, m, a, i) /\ i.op \notin Controls
  <2> DEFINE after == Computed(i, a.regs)
             pc == a.pc + Ahead(i, a.regs)
  <2>1. i.op = "div" => a.regs[i.c].bits # 0
    BY <1>20 DEF Faults
  <2>2. after \in Files(f)
    BY <1>1, <1>3, <2>1, ComputedValues
  <2>3. Goes(f, a.pc, a.regs, pc, after)
    BY <1>2, <1>20, <2>1, <2>2 DEF Goes
  <2>4. Does(M, m, a, i) = Now(m, [a EXCEPT !.regs = after, !.pc = pc])
    <3>1. Does(M, m, a, i) = Now(m, [a EXCEPT !.regs = after, !.pc = IF Jumps(i, after) THEN @ + Delta(i) ELSE @ + 1])
      BY <1>20 DEF Does
    <3>2. pc = IF Jumps(i, after) THEN a.pc + Delta(i) ELSE a.pc + 1
      BY DEF Ahead
    <3> HIDE DEF after, pc
    <3>3. [a EXCEPT !.regs = after, !.pc = IF Jumps(i, after) THEN @ + Delta(i) ELSE @ + 1]
            = [a EXCEPT !.regs = after, !.pc = pc]
      BY <1>1, <3>2 DEF Good, FitsFunction
    <3> QED
      BY <3>1, <3>3
  <2> HIDE DEF after, pc
  <2>5. Good(M, facts, c, [a EXCEPT !.regs = after, !.pc = pc])
    BY <1>1, <1>2, <2>3, GoodGoes
  <2> QED
    BY <1>5, <2>4, <2>5
<1> QED
  BY <1>8, <1>9, <1>10, <1>11, <1>12, <1>13, <1>14, <1>15, <1>16, <1>17, <1>18, <1>19, <1>20

-----------------------------------------------------------------------------
(* Two modules that run alike                                              *)

\* The instructions behind which an activation waits for a call.
Waits == {"call", "call_closure"}

\* Instruction j can stand for i where these are the registers, unless i reads an int64 where
\* there is none.
Alike(i, j, regs) ==
    /\ i.op \in Waits <=> j.op \in Waits
    /\ i.op \in Waits => j.a = i.a
    /\ Mixes(j, regs) => Mixes(i, regs)
    /\ ~Mixes(i, regs) => \A M, m, a : a.regs = regs => Does(M, m, a, j) = Does(M, m, a, i)

\* The same functions, but for what code they have.
SameShape(M, N) ==
    /\ DOMAIN N = DOMAIN M
    /\ \A n \in DOMAIN M :
          /\ N[n].params = M[n].params /\ N[n].vararg = M[n].vararg
          /\ N[n].regs = M[n].regs /\ N[n].returns = M[n].returns
          /\ DOMAIN N[n].code = DOMAIN M[n].code

\* Every instruction of N can stand for the one of M at the same place.
Lockstep(M, N, facts) ==
    /\ SameShape(M, N)
    /\ \A n \in DOMAIN M : \A pc \in DOMAIN M[n].code : \A regs \in facts[n][pc] :
          Alike(M[n].code[pc], N[n].code[pc], regs)

\* Whether integers were mixed is not changed by an instruction.
LEMMA DoesMixed ==
    ASSUME NEW M, NEW m, MachineRecord(m), NEW a, NEW i
    PROVE  Does(M, m, a, i).mixed = m.mixed
<1>1. \A s : [m EXCEPT !.stack = s].mixed = m.mixed
  BY DEF MachineRecord
<1>2. \A how, v : Stopped(m, how, v).mixed = m.mixed
  BY DEF MachineRecord, Stopped
<1>3. \A b : Now(m, b).mixed = m.mixed /\ MachineRecord(Now(m, b))
  BY DEF MachineRecord, Now
<1>4. \A n, args, closure : Called(M, m, n, args, closure).mixed = m.mixed
  BY <1>1, <1>2 DEF Called
<1>5. \A v : Returned(M, m, v).mixed = m.mixed
  BY <1>1, <1>2 DEF Returned
<1>6. \A v : Thrown(m, v).mixed = m.mixed
  BY <1>1, <1>2 DEF Thrown
<1>7. ASSUME NEW b, NEW v PROVE Thrown(Now(m, b), v).mixed = m.mixed
  <2> DEFINE p == Now(m, b)
  <2>1. MachineRecord(p) /\ p.mixed = m.mixed
    BY <1>3
  <2> HIDE DEF p
  <2>2. \A s : [p EXCEPT !.stack = s].mixed = p.mixed
    BY <2>1 DEF MachineRecord
  <2>3. \A how, w : Stopped(p, how, w).mixed = p.mixed
    BY <2>1 DEF MachineRecord, Stopped
  <2>4. Thrown(p, v).mixed = p.mixed
    BY <2>2, <2>3 DEF Thrown
  <2> QED
    BY <2>1, <2>4 DEF p
<1>8. \A c, b : Now([m EXCEPT !.calls = c], b).mixed = m.mixed
  BY DEF MachineRecord, Now
<1>9. \A c, b : Now([m EXCEPT !.closures = c], b).mixed = m.mixed
  BY DEF MachineRecord, Now
<1>10. CASE Faults(M, m, a, i)
  BY <1>6, <1>10 DEF Does
<1> DEFINE arguments == [k \in 1..i.c |-> a.regs[i.a + k]]
           next == [a EXCEPT !.pc = @ + 1]
<1>11. CASE ~Faults(M, m, a, i) /\ i.op = "ffi_call"
  <2> DEFINE calls == Append(m.calls, [symbol |-> i.b, args |-> arguments])
             b == [next EXCEPT !.regs[i.a] = Int64(Len(calls))]
  <2>1. Does(M, m, a, i) = Now([m EXCEPT !.calls = calls], b)
    BY <1>11 DEF Does, Calls, ClosureCalls
  <2> HIDE DEF calls, b
  <2> QED
    BY <1>8, <2>1
<1>12. CASE ~Faults(M, m, a, i) /\ i.op \in {"closure", "set_upval"}
  <2> DEFINE made == Append(m.closures, Captured(i, a.regs))
             b == [next EXCEPT !.regs[i.a] = Handle(Len(m.closures) + 1)]
             changed == [m.closures EXCEPT ![a.closure].upvalues[i.b + 1] = a.regs[i.a]]
  <2>1. i.op = "closure" => Does(M, m, a, i) = Now([m EXCEPT !.closures = made], b)
    BY <1>12 DEF Does, Calls, ClosureCalls
  <2>2. i.op = "set_upval" => Does(M, m, a, i) = Now([m EXCEPT !.closures = changed], next)
    BY <1>12 DEF Does, Calls, ClosureCalls
  <2> HIDE DEF made, b, changed, next
  <2> QED
    BY <1>9, <1>12, <2>1, <2>2
<1>13. CASE ~Faults(M, m, a, i) /\ i.op = "end_finally"
  BY <1>3, <1>7, <1>13 DEF Does
<1>14. CASE ~Faults(M, m, a, i) /\ i.op \in {"ret", "halt", "throw"} \union Calls \union ClosureCalls
  <2>1. i.op \in Calls => Does(M, m, a, i) = Called(M, m, i.b, arguments, NoClosure)
    BY <1>14 DEF Does, Calls, ClosureCalls
  <2>2. i.op \in ClosureCalls => Does(M, m, a, i) =
          Called(M, m, m.closures[a.regs[i.b].bits].function, arguments, a.regs[i.b].bits)
    BY <1>14 DEF Does, Calls, ClosureCalls
  <2>3. /\ i.op = "ret" => Does(M, m, a, i) = Returned(M, m, a.regs[i.a])
        /\ i.op = "halt" => Does(M, m, a, i) = Returned(M, m, Null)
        /\ i.op = "throw" => Does(M, m, a, i) = Thrown(m, a.regs[i.a])
    BY <1>14 DEF Does, Calls, ClosureCalls
  <2> HIDE DEF arguments
  <2> QED
    BY <1>4, <1>5, <1>6, <1>14, <2>1, <2>2, <2>3
<1>15. CASE ~Faults(M, m, a, i) /\ i.op \notin {"ret", "halt", "throw", "ffi_call", "closure", "set_upval",
                                            "end_finally"} \union Calls \union ClosureCalls
  BY <1>3, <1>15 DEF Does
<1> QED
  BY <1>10, <1>11, <1>12, <1>13, <1>14, <1>15

\* What an instruction does depends on the other functions by their shape.
LEMMA SameDoes ==
    ASSUME NEW M, NEW N, SameShape(M, N), NEW m,
           \A k \in DOMAIN m.stack : m.stack[k].function \in DOMAIN M,
           m.stack # <<>>, IsSequence(m.stack),
           \A k \in 1..Len(m.stack) - 1 :
             LET i == InstOf(M, m.stack[k])
                 j == InstOf(N, m.stack[k])
             IN  (i.op \in Waits <=> j.op \in Waits) /\ (i.op \in Waits => j.a = i.a),
           NEW a, NEW i
    PROVE  Does(N, m, a, i) = Does(M, m, a, i)
<1>1. DOMAIN N = DOMAIN M
  BY DEF SameShape
<1>2. \A n, args, closure : Called(N, m, n, args, closure) = Called(M, m, n, args, closure)
  BY DEF SameShape, Called, TakesArguments
<1>3. ASSUME NEW value PROVE Returned(N, m, value) = Returned(M, m, value)
  <2> DEFINE waiting(K) == {k \in 1..Len(m.stack) - 1 :
                              InstOf(K, m.stack[k]).op \in {"call", "call_closure"}}
             returned(K, W, n, r) ==
               IF ~Matches(value, K[Last(m.stack).function].returns) THEN Stopped(m, "status", Null)
               ELSE IF W = {} THEN Stopped(m, "value", value)
               ELSE [m EXCEPT !.stack = Append(SubSeq(m.stack, 1, n - 1),
                       [m.stack[n] EXCEPT !.pc = @ + 1, !.regs[r] = value])]
             n == Max(waiting(M))
             b == m.stack[n]
  <2>1. waiting(N) = waiting(M)
    BY DEF Waits
  <2>2. Len(m.stack) \in Nat \ {0} /\ DOMAIN m.stack = 1..Len(m.stack)
    BY SequenceDomain
  <2>3. N[Last(m.stack).function].returns = M[Last(m.stack).function].returns
    BY <2>2 DEF Last, SameShape
  <2>4. ASSUME NEW K
        PROVE  Returned(K, m, value)
                 = returned(K, waiting(K), Max(waiting(K)), InstOf(K, m.stack[Max(waiting(K))]).a)
    BY DEF Returned
  <2>5. waiting(M) # {} => InstOf(N, b).a = InstOf(M, b).a
    <3>1. SUFFICES ASSUME waiting(M) # {} PROVE InstOf(N, b).a = InstOf(M, b).a
      OBVIOUS
    <3>2. n \in waiting(M)
      <4>1. waiting(M) \subseteq 1..Len(m.stack) - 1 /\ Len(m.stack) - 1 \in Nat
        BY <2>2
      <4> HIDE DEF waiting
      <4> QED
        BY <3>1, <4>1, MaxIn
    <3> HIDE DEF n
    <3> QED
      BY <3>2 DEF Waits
  <2> HIDE DEF waiting, returned
  <2>6. /\ Returned(M, m, value) = returned(M, waiting(M), n, InstOf(M, b).a)
        /\ Returned(N, m, value) = returned(N, waiting(M), n, InstOf(N, b).a)
    BY <2>1, <2>4
  <2> HIDE DEF n, b
  <2>7. returned(N, waiting(M), n, InstOf(N, b).a) = returned(M, waiting(M), n, InstOf(M, b).a)
    <3> DEFINE W == waiting(M)
               x == InstOf(M, b).a
               y == InstOf(N, b).a
    <3>1. W # {} => y = x
      BY <2>5
    <3> HIDE DEF W, x, y
    <3>2. returned(N, W, n, y) = returned(M, W, n, y)
      BY <2>3 DEF returned
    <3>3. returned(M, W, n, y) = returned(M, W, n, x)
      <4>1. CASE W = {}
        BY <4>1 DEF returned
      <4>2. CASE W # {}
        BY <3>1, <4>2
      <4> QED
        BY <4>1, <4>2
    <3> QED
      BY <3>2, <3>3 DEF W, x, y
  <2> QED
    BY <2>6, <2>7
<1>4. Faults(N, m, a, i) <=> Faults(M, m, a, i)
  BY <1>1 DEF Faults
<1> QED
  BY <1>2, <1>3, <1>4 DEF Does

\* One step of both is the same, or mixes.
LEMMA StepAlike ==
    ASSUME NEW M, IsModule(M), Verifies(M), NEW N, IsModule(N), Verifies(N),
           NEW facts, FactsHold(M, facts), Lockstep(M, N, facts),
           NEW m, Tracked(M, facts, m), m.how = "runs"
    PROVE  \/ Step(M, m).mixed
           \/ Step(N, m) = Step(M, m) /\ Tracked(M, facts, Step(M, m))
<1> DEFINE a == Last(m.stack)
           f == M[a.function]
           i == InstOf(M, a)
           j == InstOf(N, a)
<1>1. Sound(M, m) /\ AllGood(M, facts, m)
  BY DEF Tracked
<1>2. /\ Len(m.stack) \in Nat \ {0} /\ DOMAIN m.stack = 1..Len(m.stack)
      /\ FitsFunction(M, a) /\ MachineRecord(m) /\ IsSequence(m.stack) /\ m.stack # <<>>
  BY <1>1, RunningTop DEF Sound, Inside
<1>3. Good(M, facts, Len(m.closures), a)
  BY <1>1, <1>2 DEF AllGood, Last
<1>4. a.function \in DOMAIN M /\ DOMAIN a.regs = 0..f.regs - 1
  BY <1>2 DEF FitsFunction
<1>5. SameShape(M, N) /\ N[a.function].regs = f.regs /\ DOMAIN N[a.function].code = DOMAIN f.code
  BY <1>4 DEF Lockstep, SameShape
<1>6. CASE a.pc \notin DOMAIN f.code
  <2>1. Step(M, m) = Stopped(m, "status", Null) /\ Step(N, m) = Stopped(m, "status", Null)
    BY <1>5, <1>6 DEF Step
  <2> QED
    BY <1>1, <2>1, StoppedTracked DEF Sound
<1>7. CASE a.pc \in DOMAIN f.code
  <2> DEFINE marked(p) == [m EXCEPT !.mixed = m.mixed \/ p]
  <2>1. ~OutOfBounds(i, a.regs) /\ ~OutOfBounds(j, a.regs)
    <3>1. VerifiesInst(M, f, a.pc) /\ f.regs > 0 /\ IsFunction(f)
      BY <1>4, <1>7 DEF Verifies, IsModule
    <3>2. /\ VerifiesInst(N, N[a.function], a.pc) /\ N[a.function].regs > 0
          /\ IsFunction(N[a.function])
      BY <1>4, <1>5, <1>7 DEF Verifies, IsModule, SameShape
    <3> HIDE DEF a
    <3> QED
      BY <1>4, <1>5, <1>7, <3>1, <3>2, VerifiedInBounds DEF InstOf
  <2>2. Alike(i, j, a.regs)
    BY <1>3, <1>4, <1>7 DEF Lockstep, Good, InstOf
  <2>3. Step(M, m) = Does(M, marked(Mixes(i, a.regs)), a, i)
    BY <1>7, <2>1 DEF Step, Mixes
  <2>4. Step(N, m) = Does(N, marked(Mixes(j, a.regs)), a, j)
    BY <1>5, <1>7, <2>1 DEF Step, Mixes
  <2>5. CASE Mixes(i, a.regs)
    <3>1. marked(Mixes(i, a.regs)).mixed /\ MachineRecord(marked(Mixes(i, a.regs)))
      BY <1>2, <2>5 DEF MachineRecord
    <3> DEFINE m2 == marked(Mixes(i, a.regs))
    <3> HIDE DEF m2
    <3>2. Step(M, m).mixed = m2.mixed
      <4>1. MachineRecord(m2) /\ Step(M, m) = Does(M, m2, a, i)
        BY <2>3, <3>1 DEF m2
      <4> HIDE DEF a, i
      <4> QED
        BY <4>1, DoesMixed
    <3>3. m2.mixed
      BY <3>1 DEF m2
    <3> QED
      BY <3>2, <3>3
  <2>6. CASE ~Mixes(i, a.regs)
    <3>1. ~Mixes(j, a.regs)
      BY <2>2, <2>6 DEF Alike
    <3> DEFINE m2 == marked(FALSE)
    <3>2. marked(Mixes(i, a.regs)) = m2 /\ marked(Mixes(j, a.regs)) = m2
      BY <2>6, <3>1
    <3>3. Sound(M, m2) /\ m2.how = "runs" /\ AllGood(M, facts, m2) /\ m2.stack = m.stack
      BY <1>1, <1>2, AsideInside, AsideGood DEF MachineRecord
    <3> HIDE DEF m2, marked
    <3>4. RunsAt(M, facts, m2, a, i)
      BY <1>7, <2>6, <3>3 DEF RunsAt, InstOf
    <3> HIDE DEF a, i, j
    <3>5. Tracked(M, facts, Does(M, m2, a, i))
      BY <3>4, DoesTracked
    <3>6. Does(M, m2, a, j) = Does(M, m2, a, i)
      BY <2>2, <2>6 DEF Alike
    <3>7. ASSUME NEW k \in 1..Len(m2.stack) - 1
          PROVE  LET x == InstOf(M, m2.stack[k])
                     y == InstOf(N, m2.stack[k])
                 IN  (x.op \in Waits <=> y.op \in Waits) /\ (x.op \in Waits => y.a = x.a)
      <4> DEFINE b == m2.stack[k]
      <4>1. Good(M, facts, Len(m2.closures), b) /\ b.pc \in DOMAIN M[b.function].code
        BY <1>2, <3>3 DEF AllGood
      <4> HIDE DEF b
      <4>2. b.function \in DOMAIN M /\ b.regs \in facts[b.function][b.pc]
        BY <4>1 DEF Good, FitsFunction
      <4>3. Alike(InstOf(M, b), InstOf(N, b), b.regs)
        BY <4>1, <4>2 DEF Lockstep, InstOf
      <4> QED
        BY <4>3 DEF Alike, b
    <3>8. \A k \in DOMAIN m2.stack : m2.stack[k].function \in DOMAIN M
      BY <3>3 DEF AllGood, Good, FitsFunction
    <3>9. Does(N, m2, a, j) = Does(M, m2, a, j)
      BY <1>2, <1>5, <3>3, <3>7, <3>8, SameDoes
    <3> QED
      BY <2>3, <2>4, <3>2, <3>5, <3>6, <3>9
  <2> QED
    BY <2>5, <2>6
<1> QED
  BY <1>6, <1>7

-----------------------------------------------------------------------------
(* Courses in lockstep                                                     *)

\* Whether integers were mixed stays so.
LEMMA StepMixed ==
    ASSUME NEW M, NEW m, MachineRecord(m), m.mixed
    PROVE  Step(M, m).mixed
<1> DEFINE a == Last(m.stack)
           i == InstOf(M, a)
           mixes == \E r \in IntegerReads(i) : a.regs[r].type # "int64"
           m2 == [m EXCEPT !.mixed = m.mixed \/ mixes]
<1>1. \A how, v : Stopped(m, how, v).mixed
  BY DEF MachineRecord, Stopped
<1>2. m2.mixed
  BY DEF MachineRecord
<1>3. MachineRecord(m2)
  BY DEF MachineRecord
<1>4. \/ Step(M, m) = Stopped(m, "status", Null)
      \/ Step(M, m) = Stopped(m, "undefined", Null)
      \/ Step(M, m) = Does(M, m2, a, i)
  BY DEF Step
<1> HIDE DEF a, i, m2
<1>5. Does(M, m2, a, i).mixed = m2.mixed
  BY <1>3, DoesMixed
<1> QED
  BY <1>1, <1>2, <1>4, <1>5

\* Modules that run alike from a machine have the same course from it, until integers are mixed.
LEMMA CoursesAlike ==
    ASSUME NEW M, IsModule(M), Verifies(M), NEW N, IsModule(N), Verifies(N),
           NEW facts, FactsHold(M, facts), Lockstep(M, N, facts),
           NEW start, Tracked(M, facts, start), NEW n \in Nat
    PROVE  Course(M, start)[n].mixed \/ Course(N, start)[n] = Course(M, start)[n]
<1> DEFINE c == Course(M, start)
           d == Course(N, start)
           T == {k \in Nat : Sound(M, c[k]) /\ (c[k].mixed \/ (d[k] = c[k] /\ Tracked(M, facts, c[k])))}
<1>1. c[0] = start /\ \A k \in Nat : Follows(M, c, k)
  BY CourseExists
<1>2. d[0] = start /\ \A k \in Nat : Follows(N, d, k)
  BY CourseExists
<1>3. \A k \in Nat : Sound(M, c[k])
  BY CourseInside DEF Tracked
<1> HIDE DEF c, d
<1>4. 0 \in T
  BY <1>1, <1>2, <1>3
<1>5. ASSUME NEW k \in Nat, k \in T PROVE k + 1 \in T
  <2>1. Follows(M, c, k + 1) /\ Follows(N, d, k + 1) /\ k + 1 \in 1..k + 1 /\ k + 1 - 1 = k
    BY <1>1, <1>2
  <2>2. /\ c[k + 1] = IF c[k].how = "runs" THEN Step(M, c[k]) ELSE c[k]
        /\ d[k + 1] = IF d[k].how = "runs" THEN Step(N, d[k]) ELSE d[k]
    BY <2>1 DEF Follows
  <2>3. CASE c[k].mixed
    <3>1. MachineRecord(c[k])
      BY <1>3 DEF Sound, Inside
    <3>2. c[k + 1].mixed
      BY <2>2, <2>3, <3>1, StepMixed
    <3> QED
      BY <1>3, <3>2
  <2>4. CASE ~c[k].mixed
    <3>1. d[k] = c[k] /\ Tracked(M, facts, c[k])
      BY <1>5, <2>4
    <3>2. CASE c[k].how = "runs"
      <4>1. Step(M, c[k]).mixed \/ (Step(N, c[k]) = Step(M, c[k]) /\ Tracked(M, facts, Step(M, c[k])))
        BY <3>1, <3>2, StepAlike
      <4>2. c[k + 1] = Step(M, c[k]) /\ d[k + 1] = Step(N, c[k])
        BY <2>2, <3>1, <3>2
      <4> QED
        BY <1>3, <4>1, <4>2
    <3>3. CASE c[k].how # "runs"
      BY <1>3, <2>2, <3>1, <3>3
    <3> QED
      BY <3>2, <3>3
  <2> QED
    BY <2>3, <2>4
<1>6. Nat \subseteq T
  <2> HIDE DEF T
  <2> QED
    BY <1>4, <1>5, CountingInduction
<1> QED
  BY <1>6 DEF c, d

\* Modules that run alike do the same when they are called.
LEMMA RunsAlike ==
    ASSUME NEW M, IsModule(M), Verifies(M), NEW N, IsModule(N), Verifies(N),
           NEW facts, FactsHold(M, facts), Lockstep(M, N, facts),
           NEW n, NEW args \in Seq(Values), NEW fuel \in Nat
    PROVE  Execute(M, n, args, fuel).mixed \/ Execute(N, n, args, fuel) = Execute(M, n, args, fuel)
<1> DEFINE begin == [how |-> "runs", value |-> Null, calls |-> <<>>, closures |-> <<>>,
                     mixed |-> FALSE, stack |-> <<>>]
           start == Called(M, begin, n, args, NoClosure)
           c == Course(M, start)[fuel]
           d == Course(N, start)[fuel]
           result(end) == [how |-> IF end.how = "runs" THEN "diverges" ELSE end.how,
                           value |-> end.value, calls |-> end.calls, mixed |-> end.mixed]
<1>1. IsSequence(<<>>) /\ DOMAIN <<>> = {} /\ Len(<<>>) = 0
  BY DEF IsSequence
<1>2. Inside(M, begin)
  BY <1>1 DEF Inside, MachineRecord
<1>3. AllGood(M, facts, begin)
  BY <1>1 DEF AllGood
<1>4. begin.stack = <<>> /\ begin.closures = <<>>
  OBVIOUS
<1>5. Tracked(M, facts, start)
  <2>1. NoClosure \in 0..Len(begin.closures)
    BY <1>1, <1>4 DEF NoClosure
  <2> HIDE DEF begin
  <2>2. \A k \in DOMAIN begin.stack : begin.stack[k].pc \in DOMAIN M[begin.stack[k].function].code
    BY <1>1, <1>4
  <2> QED
    BY <1>2, <1>3, <2>1, <2>2, CalledTracked DEF IsModule
<1>6. Called(N, begin, n, args, NoClosure) = start
  <2> HIDE DEF begin
  <2> QED
    BY DEF Lockstep, SameShape, Called, TakesArguments
<1>7. Execute(M, n, args, fuel) = result(c)
  BY DEF Execute
<1>8. Execute(N, n, args, fuel) = result(d)
  <2>1. Execute(N, n, args, fuel) = result(Course(N, Called(N, begin, n, args, NoClosure))[fuel])
    BY DEF Execute
  <2> HIDE DEF begin
  <2> QED
    BY <1>6, <2>1
<1> HIDE DEF start
<1>9. c.mixed \/ d = c
  BY <1>5, CoursesAlike
<1> HIDE DEF c, d
<1> QED
  BY <1>7, <1>8, <1>9

-----------------------------------------------------------------------------
(* When an instruction can stand for another                               *)

\* An instruction that computes and jumps divides by zero, or does nothing else.
Computes(m, a, i) ==
    LET after == Computed(i, a.regs)
    IN  Now(m, [a EXCEPT !.regs = after, !.pc = @ + Ahead(i, a.regs)])
DividesByZero(i, regs) == i.op = "div" /\ regs[i.c].bits = 0

\* So the interpreter takes such an instruction.
LEMMA DoesComputes ==
    ASSUME NEW M, NEW m, NEW a, NEW i, i.op \notin Controls
    PROVE  Does(M, m, a, i) = IF DividesByZero(i, a.regs) THEN Thrown(m, Null) ELSE Computes(m, a, i)
<1> USE DEF Controls, Tries, Calls, ClosureCalls, Upvalues
<1>1. Faults(M, m, a, i) <=> DividesByZero(i, a.regs)
  BY DEF Faults, DividesByZero
<1>2. ~Faults(M, m, a, i) =>
        Does(M, m, a, i) = Now(m, [a EXCEPT !.regs = Computed(i, a.regs),
            !.pc = IF Jumps(i, Computed(i, a.regs)) THEN @ + Delta(i) ELSE @ + 1])
  BY DEF Does
<1>3. Faults(M, m, a, i) => Does(M, m, a, i) = Thrown(m, Null)
  BY DEF Does
<1>4. CASE Jumps(i, Computed(i, a.regs))
  BY <1>1, <1>2, <1>3, <1>4 DEF Computes, Ahead
<1>5. CASE ~Jumps(i, Computed(i, a.regs))
  BY <1>1, <1>2, <1>3, <1>5 DEF Computes, Ahead
<1> QED
  BY <1>4, <1>5

\* It is enough that it computes the same registers and leads to the same place.
LEMMA AlikeComputing ==
    ASSUME NEW i, NEW j, NEW regs, i.op \notin Controls, j.op \notin Controls,
           Mixes(j, regs) => Mixes(i, regs),
           ~Mixes(i, regs) =>
             /\ DividesByZero(j, regs) <=> DividesByZero(i, regs)
             /\ ~DividesByZero(i, regs) =>
                  Computed(j, regs) = Computed(i, regs) /\ Ahead(j, regs) = Ahead(i, regs)
    PROVE  Alike(i, j, regs)
<1>1. i.op \notin Waits /\ j.op \notin Waits
  BY DEF Waits, Controls, Calls, ClosureCalls
<1>2. ASSUME ~Mixes(i, regs), NEW M, NEW m, NEW a, a.regs = regs
      PROVE  Does(M, m, a, j) = Does(M, m, a, i)
  <2>1. /\ Does(M, m, a, i) = IF DividesByZero(i, regs) THEN Thrown(m, Null) ELSE Computes(m, a, i)
        /\ Does(M, m, a, j) = IF DividesByZero(j, regs) THEN Thrown(m, Null) ELSE Computes(m, a, j)
    BY <1>2, DoesComputes
  <2>2. ~DividesByZero(i, regs) => Computes(m, a, j) = Computes(m, a, i)
    BY <1>2 DEF Computes
  <2> QED
    BY <1>2, <2>1, <2>2
<1> QED
  BY <1>1, <1>2 DEF Alike

\* An instruction can stand for itself.
LEMMA AlikeItself ==
    ASSUME NEW i, NEW regs
    PROVE  Alike(i, i, regs)
BY DEF Alike

-----------------------------------------------------------------------------
(* Facts about one function                                                *)

\* Anything can be in the registers.
Anything(f) == [pc \in DOMAIN f.code |-> Files(f)]

\* The places that a try statement names are numbers.
LEMMA TargetsAre ==
    ASSUME NEW M, NEW f, Sized(f), AcceptsCode(M, f, f.code),
           NEW pc \in DOMAIN f.code, f.code[pc].op = "try_begin"
    PROVE  TryTargets(f.code[pc]) \subseteq Nat
<1>1. Fits(M, f, Len(f.code), pc, f.code[pc]) /\ Len(f.code) \in Nat
  BY CodeFits, SequenceDomain DEF AcceptsCode
<1> QED
  BY <1>1 DEF Fits, NoTarget

\* That anything can be in the registers is a fact that holds.
LEMMA AnythingHolds ==
    ASSUME NEW M, NEW f, Sized(f), AcceptsCode(M, f, f.code)
    PROVE  Holds(f, Anything(f))
<1>1. FreePlaces(f, Anything(f)) = Nat
  BY DEF FreePlaces, Anything
<1>2. \A pc \in DOMAIN f.code : f.code[pc].op = "try_begin" => TryTargets(f.code[pc]) \subseteq Nat
  BY TargetsAre
<1>3. \A pc \in DOMAIN f.code : Anything(f)[pc] = Files(f)
  BY DEF Anything
<1> QED
  BY <1>1, <1>2, <1>3 DEF Holds, Goes

\* Control gets to a label or to the next instruction.
LEMMA GoesOn ==
    ASSUME NEW f, NEW pc \in DOMAIN f.code, NEW regs, NEW next \in DOMAIN f.code, NEW after,
           Goes(f, pc, regs, next, after)
    PROVE  /\ next \in Successors(f.code, pc)
           /\ next \in Labels(f.code) \/ (next = pc + 1 /\ f.code[pc].op \notin Terminators \union {"jmp"})
           /\ next = pc + 1 /\ next \notin Labels(f.code) /\ f.code[pc].op \notin Controls =>
                ~Jumps(f.code[pc], Computed(f.code[pc], regs))
<1> DEFINE i == f.code[pc]
<1>1. CASE i.op \notin Controls
  <2>1. i.op \notin Terminators
    BY <1>1 DEF Controls, Terminators, Calls, ClosureCalls
  <2>2. CASE Jumps(i, Computed(i, regs))
    <3>1. i.op \in Relative
      <4> HIDE DEF i
      <4> QED
        BY <2>2 DEF Jumps, Relative, FusedImm, Conditional
    <3>2. next = JumpTarget(f.code, pc)
      BY <1>1, <2>2 DEF Goes, Ahead, JumpTarget
    <3> QED
      BY <1>1, <2>2, <3>1, <3>2 DEF Labels, Successors
  <2>3. CASE ~Jumps(i, Computed(i, regs))
    <3>1. next = pc + 1
      BY <1>1, <2>3 DEF Goes, Ahead
    <3>2. i.op # "jmp"
      <4> HIDE DEF i
      <4> QED
        BY <2>3 DEF Jumps, FusedImm
    <3> QED
      BY <1>1, <2>1, <2>3, <3>1, <3>2 DEF Successors
  <2> QED
    BY <2>2, <2>3
<1>2. CASE i.op \in Controls
  <2>1. i.op \in Controls \ Terminators /\ next = pc + 1
    BY <1>2 DEF Goes
  <2>2. i.op # "jmp"
    <3> HIDE DEF i
    <3> QED
      BY <2>1 DEF Controls, Tries, Calls, ClosureCalls, Upvalues
  <2> QED
    BY <1>2, <2>1, <2>2 DEF Successors
<1> QED
  BY <1>1, <1>2

\* Facts that claim nothing at the beginning and at labels hold if they go on to hold from one
\* instruction to the next.
LEMMA HoldsInOrder ==
    ASSUME NEW M, NEW f, Sized(f), AcceptsCode(M, f, f.code), NEW facts,
           \A pc \in DOMAIN f.code : facts[pc] \subseteq Files(f),
           \A pc \in DOMAIN f.code : pc = 1 \/ pc \in Labels(f.code) => facts[pc] = Files(f),
           \A pc \in DOMAIN f.code : \A regs \in facts[pc] : \A after :
             /\ pc + 1 \in DOMAIN f.code \ Labels(f.code)
             /\ f.code[pc].op \notin Terminators \union {"jmp"}
             /\ Goes(f, pc, regs, pc + 1, after)
             => after \in facts[pc + 1]
    PROVE  Holds(f, facts)
<1>1. 1 \in FreePlaces(f, facts)
  BY DEF FreePlaces
<1>2. ASSUME NEW pc \in DOMAIN f.code, f.code[pc].op = "try_begin"
      PROVE  TryTargets(f.code[pc]) \subseteq FreePlaces(f, facts)
  <2>1. TryTargets(f.code[pc]) \subseteq Nat
    BY <1>2, TargetsAre
  <2>2. \A x \in TryTargets(f.code[pc]) : x \in DOMAIN f.code => x \in Labels(f.code)
    BY <1>2 DEF Labels
  <2> QED
    BY <2>1, <2>2 DEF FreePlaces
<1>3. ASSUME NEW pc \in DOMAIN f.code, NEW regs \in facts[pc], NEW next \in DOMAIN f.code, NEW after,
             Goes(f, pc, regs, next, after)
      PROVE  after \in facts[next]
  <2>1. next \in Labels(f.code) \/ (next = pc + 1 /\ f.code[pc].op \notin Terminators \union {"jmp"})
    BY <1>3, GoesOn
  <2>2. after \in Files(f)
    BY <1>3 DEF Goes
  <2> QED
    BY <1>3, <2>1, <2>2
<1> QED
  BY <1>1, <1>2, <1>3 DEF Holds

-----------------------------------------------------------------------------
(* A function is rewritten                                                 *)

\* Code in which every instruction can stand for the one it replaces.
Rewrites(f, facts, code) ==
    /\ Holds(f, facts)
    /\ DOMAIN code = DOMAIN f.code
    /\ \A pc \in DOMAIN f.code : \A regs \in facts[pc] : Alike(f.code[pc], code[pc], regs)

\* Runs of a module and of another are the same, or mix integers with other values.
SameRuns(M, N) ==
    \A n, fuel : \A args \in Seq(Values) : fuel \in Nat =>
      Execute(M, n, args, fuel).mixed \/ Execute(N, n, args, fuel) = Execute(M, n, args, fuel)

\* A function whose instructions are replaced by such as can stand for them: runs are the same.
LEMMA RewrittenRuns ==
    ASSUME NEW M, IsModule(M), Verifies(M), NEW n \in DOMAIN M, NEW code,
           AcceptsCode(M, M[n], code), NEW facts, Rewrites(M[n], facts, code)
    PROVE  SameRuns(M, [M EXCEPT ![n].code = code])
<1> DEFINE N == [M EXCEPT ![n].code = code]
           all == [k \in DOMAIN M |-> IF k = n THEN facts ELSE Anything(M[k])]
<1>1. IsModule(N) /\ Verifies(N) /\ DOMAIN N = DOMAIN M
  BY ReplacedKeeps
<1>2. \A k \in DOMAIN M : Sized(M[k]) /\ AcceptsCode(M, M[k], M[k].code)
  BY VerifiedIsAccepted DEF Accepted, FunctionRecord, Sized
<1>3. FactsHold(M, all)
  BY <1>2, AnythingHolds DEF FactsHold, Rewrites
<1>4. /\ \A k \in DOMAIN M \ {n} : N[k] = M[k]
      /\ N[n] = [M[n] EXCEPT !.code = code]
  BY DEF IsModule
<1>5. M[n] \in [params : {M[n].params}, regs : {M[n].regs}, code : {M[n].code}, returns : {M[n].returns},
                exported : {M[n].exported}, name : {M[n].name}, vararg : {M[n].vararg},
                upvalues : {M[n].upvalues}]
  <2>1. Accepted(M, M[n])
    BY VerifiedIsAccepted
  <2> QED
    BY <2>1 DEF Accepted, FunctionRecord
<1>6. /\ N[n].params = M[n].params /\ N[n].vararg = M[n].vararg /\ N[n].regs = M[n].regs
      /\ N[n].returns = M[n].returns /\ N[n].code = code
  BY <1>4, <1>5
<1> HIDE DEF N
<1>7. SameShape(M, N)
  BY <1>1, <1>4, <1>6 DEF SameShape, Rewrites
<1>8. ASSUME NEW k \in DOMAIN M, NEW pc \in DOMAIN M[k].code, NEW regs \in all[k][pc]
      PROVE  Alike(M[k].code[pc], N[k].code[pc], regs)
  <2>1. CASE k = n
    BY <1>6, <1>8, <2>1 DEF Rewrites
  <2>2. CASE k # n
    BY <1>4, <2>2, AlikeItself
  <2> QED
    BY <2>1, <2>2
<1> HIDE DEF all
<1>9. Lockstep(M, N, all)
  BY <1>7, <1>8 DEF Lockstep
<1>10. SameRuns(M, N)
  BY <1>1, <1>3, <1>9, RunsAlike DEF SameRuns
<1> QED
  BY <1>10 DEF N

-----------------------------------------------------------------------------
(* peephole                                                                *)

\* What peephole puts in the place of an instruction can stand for it.
LEMMA PeepholeAlike ==
    ASSUME NEW M, NEW f, Sized(f), NEW size, NEW pc, NEW i, Fits(M, f, size, pc, i), NEW regs \in Files(f)
    PROVE  Alike(i, PeepholeInst(i), regs)
<1> DEFINE j == PeepholeInst(i)
<1>1. \A x : [regs EXCEPT ![x] = regs[x]] = regs
  BY DEF Files
<1>2. Nop.op = "nop" /\ Nop.op \notin Controls /\ ~Mixes(Nop, regs) /\ ~DividesByZero(Nop, regs)
      /\ Computed(Nop, regs) = regs /\ Ahead(Nop, regs) = 1
  BY DEF Nop, Inst, Controls, Tries, Calls, ClosureCalls, Upvalues, Mixes, IntegerReads, DividesByZero,
         Computed, Ahead, Jumps, Binary, Immediate, Step1, FusedImm
<1>3. CASE i.op = "mov" /\ i.a = i.b
  <2>1. i.op \notin Controls /\ ~DividesByZero(i, regs) /\ Computed(i, regs) = regs /\ Ahead(i, regs) = 1
    BY <1>1, <1>3 DEF Controls, Tries, Calls, ClosureCalls, Upvalues, DividesByZero,
         Computed, Ahead, Jumps, Binary, Immediate, Step1, FusedImm
  <2>2. j = Nop
    BY <1>3 DEF PeepholeInst, Conditional, Immediate
  <2> QED
    BY <1>2, <2>1, <2>2, AlikeComputing
<1>4. CASE i.op \in {"jmp"} \union Conditional /\ Delta(i) = 1
  <2>1. i.op \notin Controls /\ ~DividesByZero(i, regs) /\ Computed(i, regs) = regs /\ Ahead(i, regs) = 1
    BY <1>4 DEF Controls, Tries, Calls, ClosureCalls, Upvalues, DividesByZero, Conditional,
         Computed, Ahead, Binary, Immediate, Step1, FusedImm
  <2>2. j = Nop
    BY <1>4 DEF PeepholeInst, Conditional, Immediate
  <2> QED
    BY <1>2, <2>1, <2>2, AlikeComputing
<1>5. CASE i.op \in Immediate /\ i.c = 0
  <2>1. i.a \in Registers(f) /\ i.b \in Registers(f)
    BY <1>5, FieldNames, NamedRegisters DEF Registers, Immediate
  <2>2. i.op \notin Controls /\ ~DividesByZero(i, regs) /\ Ahead(i, regs) = 1
    BY <1>5 DEF Controls, Tries, Calls, ClosureCalls, Upvalues, DividesByZero,
         Ahead, Jumps, Binary, Immediate, Step1, FusedImm
  <2>3. ~Mixes(i, regs) => Computed(i, regs) = [regs EXCEPT ![i.a] = regs[i.b]]
    <3>1. SUFFICES ASSUME ~Mixes(i, regs) PROVE Computed(i, regs) = [regs EXCEPT ![i.a] = regs[i.b]]
      OBVIOUS
    <3>2. regs[i.b] \in Values /\ regs[i.b].type = "int64"
      BY <1>5, <2>1, <3>1 DEF Files, Mixes, IntegerReads, Immediate, Binary, Step1, FusedImm
    <3>3. Int64(regs[i.b].bits) = regs[i.b] /\ regs[i.b].bits \in Int
      BY <3>2, Int64Is
    <3>4. regs[i.b].bits + i.c = regs[i.b].bits /\ regs[i.b].bits - i.c = regs[i.b].bits
      BY <1>5, <3>3
    <3>5. \/ Computed(i, regs) = [regs EXCEPT ![i.a] = Int64(regs[i.b].bits + i.c)]
          \/ Computed(i, regs) = [regs EXCEPT ![i.a] = Int64(regs[i.b].bits - i.c)]
      BY <1>5 DEF Computed, Immediate, Binary
    <3> QED
      BY <3>3, <3>4, <3>5
  <2>4. CASE i.a = i.b
    <3>1. j = Nop
      BY <1>5, <2>4 DEF PeepholeInst, Conditional, Immediate
    <3> QED
      BY <1>1, <1>2, <2>2, <2>3, <2>4, <3>1, AlikeComputing
  <2>5. CASE i.a # i.b
    <3> DEFINE mov == Inst("mov", i.a, i.b, 0)
    <3>1. j = mov
      BY <1>5, <2>5 DEF PeepholeInst, Conditional, Immediate
    <3>2. mov.op = "mov" /\ mov.a = i.a /\ mov.b = i.b
      BY DEF Inst
    <3> HIDE DEF mov
    <3>3. mov.op \notin Controls /\ ~Mixes(mov, regs) /\ ~DividesByZero(mov, regs) /\ Ahead(mov, regs) = 1
          /\ Computed(mov, regs) = [regs EXCEPT ![i.a] = regs[i.b]]
      BY <3>2 DEF Controls, Tries, Calls, ClosureCalls, Upvalues, Mixes, IntegerReads, DividesByZero,
         Computed, Ahead, Jumps, Binary, Immediate, Step1, FusedImm
    <3> QED
      BY <2>2, <2>3, <3>1, <3>3, AlikeComputing
  <2> QED
    BY <2>4, <2>5
<1>6. CASE /\ ~(i.op = "mov" /\ i.a = i.b)
           /\ ~(i.op \in {"jmp"} \union Conditional /\ Delta(i) = 1)
           /\ ~(i.op \in Immediate /\ i.c = 0)
  <2>1. j = i
    BY <1>6 DEF PeepholeInst
  <2> QED
    BY <2>1, AlikeItself
<1> QED
  BY <1>3, <1>4, <1>5, <1>6

\* peephole keeps what every function does.
LEMMA PeepholeRuns ==
    ASSUME NEW M, IsModule(M), Verifies(M), NEW n \in DOMAIN M
    PROVE  SameRuns(M, [M EXCEPT ![n].code = Peephole(M[n].code)])
<1> DEFINE f == M[n]
           code == Peephole(f.code)
<1>1. Accepted(M, f)
  BY VerifiedIsAccepted
<1>2. Sized(f) /\ AcceptsCode(M, f, f.code)
  BY <1>1 DEF Accepted, FunctionRecord, Sized
<1> HIDE DEF f
<1>3. AcceptsCode(M, f, code)
  BY <1>2, PeepholeKeeps
<1>4. \A pc \in DOMAIN f.code : Fits(M, f, Len(f.code), pc, f.code[pc])
  BY <1>2, CodeFits
<1>5. \A pc \in DOMAIN f.code : \A regs \in Files(f) : Alike(f.code[pc], PeepholeInst(f.code[pc]), regs)
  BY <1>2, <1>4, PeepholeAlike
<1>6. Rewrites(f, Anything(f), code)
  BY <1>2, <1>5, AnythingHolds DEF Rewrites, Anything, Peephole
<1> HIDE DEF code
<1>7. SameRuns(M, [M EXCEPT ![n].code = code])
  BY <1>3, <1>6, RewrittenRuns DEF f
<1> QED
  BY <1>7 DEF code, f

-----------------------------------------------------------------------------
(* dce                                                                     *)

\* A set of numbers that grows until a step adds nothing is closed under the step after as
\* many steps as there are numbers.
LEMMA GrowthEnds ==
    ASSUME NEW n \in Nat, NEW g \in [Nat -> SUBSET (1..n)], 1 \in g[0],
           \A k \in Nat : g[k] \subseteq g[k + 1],
           \A k \in Nat : g[k + 1] = g[k] => g[k + 2] = g[k + 1]
    PROVE  g[n + 1] = g[n]
<1> DEFINE U == {k \in Nat : g[k + 1] = g[k] \/ Cardinality(g[k + 1]) >= k + 2}
<1>1. \A k \in Nat : IsFiniteSet(g[k]) /\ Cardinality(g[k]) \in Nat /\ Cardinality(g[k]) <= n
  <2> TAKE k \in Nat
  <2>1. IsFiniteSet(1..n) /\ Cardinality(1..n) = n
    <3>1. Cardinality(1..n) = IF 1 > n THEN 0 ELSE n - 1 + 1
      BY FS_Interval
    <3> QED
      BY <3>1, FS_Interval
  <2>2. g[k] \subseteq 1..n
    OBVIOUS
  <2> QED
    BY <2>1, <2>2, FS_Subset, FS_CardinalityType
<1>2. \A k \in Nat : g[k + 1] # g[k] => Cardinality(g[k + 1]) >= Cardinality(g[k]) + 1
  <2> TAKE k \in Nat
  <2>1. k + 1 \in Nat
    OBVIOUS
  <2>2. g[k] \subseteq g[k + 1] /\ IsFiniteSet(g[k + 1])
    BY <1>1, <2>1
  <2>3. g[k] # g[k + 1] => Cardinality(g[k]) # Cardinality(g[k + 1])
    BY <2>2, FS_Subset
  <2>4. Cardinality(g[k]) <= Cardinality(g[k + 1])
    BY <2>2, FS_Subset
  <2>5. Cardinality(g[k]) \in Nat /\ Cardinality(g[k + 1]) \in Nat
    BY <1>1, <2>1
  <2> QED
    BY <2>3, <2>4, <2>5
<1>3. Cardinality(g[0]) >= 1
  <2>1. IsFiniteSet(g[0]) /\ {1} \subseteq g[0]
    BY <1>1
  <2>2. Cardinality({1}) = 1
    BY FS_Singleton
  <2> QED
    BY <2>1, <2>2, FS_Subset
<1>4. 0 \in U
  BY <1>1, <1>2, <1>3
<1>5. ASSUME NEW k \in Nat, k \in U PROVE k + 1 \in U
  <2>1. k + 1 \in Nat /\ k + 1 + 1 = k + 2
    OBVIOUS
  <2>2. CASE g[k + 1] = g[k]
    BY <2>1, <2>2
  <2>3. CASE Cardinality(g[k + 1]) >= k + 2
    <3>1. g[k + 2] # g[k + 1] => Cardinality(g[k + 2]) >= Cardinality(g[k + 1]) + 1
      BY <1>2, <2>1
    <3>2. Cardinality(g[k + 1]) \in Nat /\ Cardinality(g[k + 2]) \in Nat
      BY <1>1
    <3> QED
      BY <2>1, <2>3, <3>1, <3>2
  <2> QED
    BY <1>5, <2>2, <2>3
<1>6. n \in U
  <2>1. Nat \subseteq U
    <3> HIDE DEF U
    <3> QED
      BY <1>4, <1>5, CountingInduction
  <2> QED
    BY <2>1
<1>7. Cardinality(g[n + 1]) \in Nat /\ Cardinality(g[n + 1]) <= n
  BY <1>1
<1> QED
  BY <1>6, <1>7

\* What dce reaches contains the first instruction, and where its instructions lead to.
LEMMA ReachedIs ==
    ASSUME NEW code, IsSequence(code), code # <<>>
    PROVE  /\ 1 \in Reached(code)
           /\ \A pc \in Reached(code) : Successors(code, pc) \intersect DOMAIN code \subseteq Reached(code)
<1> DEFINE V == SUBSET (1..Len(code))
           next(seen) == seen \union ((UNION {Successors(code, pc) : pc \in seen}) \intersect DOMAIN code)
           step == [s \in V |-> next(s)]
           c == CHOOSE g : g = [n \in Nat |-> IF n = 0 THEN {1} ELSE next(g[n - 1])]
<1>1. DOMAIN code = 1..Len(code) /\ Len(code) \in Nat /\ Len(code) # 0
  BY SequenceDomain
<1>2. {1} \in V
  BY <1>1
<1>3. \A s \in V : next(s) \in V
  BY <1>1
<1>4. step \in [V -> V]
  <2> HIDE DEF V, next
  <2> QED
    BY <1>3
<1>5. PICK g \in [Nat -> V] : Counted({1}, step, g)
  <2> HIDE DEF V, step
  <2> QED
    BY <1>2, <1>4, CountedRecursion
<1>6. c = [n \in Nat |-> IF n = 0 THEN {1} ELSE next(c[n - 1])]
  <2> HIDE DEF V, next
  <2>1. \A n \in Nat : g[n] = IF n = 0 THEN {1} ELSE next(g[n - 1])
    <3> TAKE n \in Nat
    <3>1. n # 0 => n - 1 \in Nat /\ n - 1 + 1 = n
      OBVIOUS
    <3>2. n # 0 => g[n - 1] \in V /\ g[n] = step[g[n - 1]]
      BY <1>5, <3>1 DEF Counted
    <3> QED
      BY <1>5, <3>2 DEF Counted
  <2>2. g = [n \in Nat |-> IF n = 0 THEN {1} ELSE next(g[n - 1])]
    <3>1. g = [n \in Nat |-> g[n]]
      OBVIOUS
    <3> QED
      BY <2>1, <3>1
  <2> QED
    BY <2>2
<1>7. Reached(code) = c[Len(code)]
  BY DEF Reached
<1> HIDE DEF c
<1>8. c[0] = {1} /\ \A k \in Nat : c[k + 1] = next(c[k])
  <2> HIDE DEF next
  <2>1. c[0] = {1}
    BY <1>6
  <2>2. ASSUME NEW k \in Nat PROVE c[k + 1] = next(c[k])
    <3>1. k + 1 \in Nat /\ k + 1 # 0 /\ k + 1 - 1 = k
      OBVIOUS
    <3>2. \A m \in Nat : m # 0 => c[m] = next(c[m - 1])
      BY <1>6
    <3> QED
      BY <3>1, <3>2
  <2> QED
    BY <2>1, <2>2
<1>9. c \in [Nat -> V]
  <2> DEFINE U == {k \in Nat : c[k] \in V}
  <2>1. 0 \in U
    <3> HIDE DEF V, next
    <3> QED
      BY <1>2, <1>8
  <2>0. ASSUME NEW k \in Nat, k \in U PROVE k + 1 \in U
    <3>1. next(c[k]) \in V /\ c[k + 1] = next(c[k])
      <4> HIDE DEF V, next
      <4> QED
        BY <1>3, <1>8, <2>0
    <3> HIDE DEF V, next
    <3> QED
      BY <3>1
  <2>2. Nat \subseteq U
    <3> HIDE DEF U
    <3> QED
      BY <2>0, <2>1, CountingInduction
  <2> HIDE DEF V, next
  <2>3. c = [n \in Nat |-> c[n]]
    BY <1>6
  <2> QED
    BY <2>2, <2>3
<1>10. \A k \in Nat : c[k] \subseteq c[k + 1]
  BY <1>8
<1>11. \A k \in Nat : c[k + 1] = c[k] => c[k + 2] = c[k + 1]
  <2> HIDE DEF next
  <2>1. \A k \in Nat : k + 1 \in Nat /\ k + 1 + 1 = k + 2
    OBVIOUS
  <2> QED
    BY <1>8, <2>1
<1> DEFINE n == Len(code)
<1>12. c[n + 1] = c[n]
  <2>1. n \in Nat /\ c \in [Nat -> SUBSET (1..n)] /\ 1 \in c[0]
    BY <1>1, <1>8, <1>9
  <2> HIDE DEF n
  <2> QED
    BY <2>1, <1>10, <1>11, GrowthEnds
<1>13. next(c[n]) = c[n]
  BY <1>1, <1>8, <1>12
<1>14. \A k \in Nat : 1 \in c[k]
  <2> DEFINE U == {k \in Nat : 1 \in c[k]}
  <2>1. 0 \in U /\ \A k \in Nat : k \in U => k + 1 \in U
    BY <1>8, <1>10
  <2>2. Nat \subseteq U
    <3> HIDE DEF U
    <3> QED
      BY <2>1, CountingInduction
  <2> QED
    BY <2>2
<1> QED
  BY <1>1, <1>7, <1>13, <1>14

\* Without try frames, what is not reached does not run.
LEMMA DceRuns ==
    ASSUME NEW M, IsModule(M), Verifies(M), NEW n \in DOMAIN M
    PROVE  SameRuns(M, [M EXCEPT ![n].code = Dce(M[n].code)])
<1> DEFINE f == M[n]
           code == Dce(f.code)
           facts == IF HasTry(f.code) THEN Anything(f)
                    ELSE [pc \in DOMAIN f.code |-> IF pc \in Reached(f.code) THEN Files(f) ELSE {}]
<1>1. Accepted(M, f)
  BY VerifiedIsAccepted
<1>2. Sized(f) /\ AcceptsCode(M, f, f.code)
  BY <1>1 DEF Accepted, FunctionRecord, Sized
<1> HIDE DEF f
<1>3. AcceptsCode(M, f, code)
  BY <1>2, DceKeeps
<1>4. ASSUME HasTry(f.code) PROVE Rewrites(f, facts, code)
  <2>1. code = f.code /\ facts = Anything(f)
    BY <1>4 DEF Dce
  <2> QED
    BY <1>2, <2>1, AnythingHolds, AlikeItself DEF Rewrites
<1>5. ASSUME ~HasTry(f.code) PROVE Rewrites(f, facts, code)
  <2> DEFINE R == Reached(f.code)
  <2>1. 1 \in R /\ \A pc \in R : Successors(f.code, pc) \intersect DOMAIN f.code \subseteq R
    BY <1>2, ReachedIs DEF AcceptsCode
  <2>2. /\ DOMAIN facts = DOMAIN f.code
        /\ \A pc \in DOMAIN f.code : facts[pc] = IF pc \in R THEN Files(f) ELSE {}
    BY <1>5
  <2>3. DOMAIN code = DOMAIN f.code /\ \A pc \in DOMAIN f.code : pc \in R => code[pc] = f.code[pc]
    BY <1>5 DEF Dce
  <2> HIDE DEF R, facts, code
  <2>4. Holds(f, facts)
    <3>1. 1 \in FreePlaces(f, facts)
      BY <2>1, <2>2 DEF FreePlaces
    <3>2. \A pc \in DOMAIN f.code : f.code[pc].op # "try_begin"
      BY <1>5 DEF HasTry, Tries
    <3>3. ASSUME NEW pc \in DOMAIN f.code, NEW regs \in facts[pc], NEW next \in DOMAIN f.code, NEW after,
                 Goes(f, pc, regs, next, after)
          PROVE  after \in facts[next]
      <4>1. pc \in R
        BY <2>2, <3>3
      <4>2. next \in Successors(f.code, pc)
        BY <3>3, GoesOn
      <4>3. after \in Files(f)
        BY <3>3 DEF Goes
      <4> QED
        BY <2>1, <2>2, <4>1, <4>2, <4>3
    <3> QED
      BY <2>2, <3>1, <3>2, <3>3 DEF Holds
  <2>5. \A pc \in DOMAIN f.code : \A regs \in facts[pc] : Alike(f.code[pc], code[pc], regs)
    BY <2>2, <2>3, AlikeItself
  <2> QED
    BY <2>3, <2>4, <2>5 DEF Rewrites
<1> HIDE DEF code, facts
<1>6. SameRuns(M, [M EXCEPT ![n].code = code])
  BY <1>3, <1>4, <1>5, RewrittenRuns DEF f
<1> QED
  BY <1>6 DEF code, f

-----------------------------------------------------------------------------
(* const_fold                                                              *)

\* The registers of which what is known is true.
IsWhat(value, known) == known # Unknown => value = [type |-> known.kind, bits |-> known.value]
Knowing(f, known) == {regs \in Files(f) : \A r \in Registers(f) : IsWhat(regs[r], known[r])}

\* An int64 that is known is what is in the register.
LEMMA KnownInteger ==
    ASSUME NEW f, NEW known \in Knowns(f), NEW regs \in Knowing(f, known), NEW r \in Registers(f),
           IsKnownInt(known[r])
    PROVE  regs[r].type = "int64" /\ regs[r].bits = known[r].value /\ regs[r] \in Values
BY DEF Knowing, IsWhat, IsKnownInt, Unknown, Files

\* Nothing but the registers that an instruction writes is changed by its computation.
LEMMA ComputedElsewhere ==
    ASSUME NEW i, NEW f, NEW regs \in Files(f)
    PROVE  \A r \in Registers(f) \ Written(i) : Computed(i, regs)[r] = regs[r]
<1> USE DEF Files
<1>1. CASE i.op \in Binary
  BY <1>1 DEF Computed, Written, Binary
<1>2. CASE i.op \in Immediate \union Step1 \union FusedImm \union {"dec_jnz"}
  BY <1>2 DEF Computed, Written, Binary, Immediate, Step1, FusedImm
<1>3. CASE i.op \in {"mov", "loadk", "cmp_eq"}
  BY <1>3 DEF Computed, Written, Binary, Immediate, Step1, FusedImm
<1>4. CASE i.op = "add_dec_jnz"
  BY <1>4 DEF Computed, Written, Binary, Immediate, Step1, FusedImm
<1>5. CASE i.op \notin Binary \union Immediate \union Step1 \union FusedImm
                   \union {"dec_jnz", "mov", "loadk", "cmp_eq", "add_dec_jnz"}
  BY <1>5 DEF Computed, Binary, Immediate, Step1, FusedImm
<1> QED
  BY <1>1, <1>2, <1>3, <1>4, <1>5

\* What the optimizer computes of what it knows is what the interpreter computes.
ComputesResult(i, regs, result) ==
    /\ i.op \notin Controls
    /\ IsWhat(Computed(i, regs)[i.a], result)
    /\ result # Unknown => ~DividesByZero(i, regs)

\* An int64 that was computed is known.
LEMMA WrappedIs ==
    ASSUME NEW n
    PROVE  IsWhat(Int64(n), KnownInt(n))
BY DEF IsWhat, Int64, KnownInt

\* A truth value that was computed is known.
LEMMA TruthIs ==
    ASSUME NEW p
    PROVE  IsWhat(Bool(p), KnownBool(p))
BY DEF IsWhat, Bool, KnownBool

\* Nothing is claimed of what is not known.
LEMMA UnknownIs ==
    ASSUME NEW value
    PROVE  IsWhat(value, Unknown)
BY DEF IsWhat

\* The result that const_fold computes is the one that the interpreter leaves in register a.
LEMMA ResultRight ==
    ASSUME NEW M, NEW f, Sized(f), NEW size, NEW pc, NEW i, Fits(M, f, size, pc, i),
           NEW known \in Knowns(f), NEW regs \in Knowing(f, known)
    PROVE  IF i.op \in Binary \union Immediate \union Step1 \union {"mov", "loadk", "cmp_eq"}
           THEN ComputesResult(i, regs, Result(known, i))
           ELSE Result(known, i) = Unknown
<1>1. \A field \in RegisterFields(i.op) : i[field] \in Registers(f)
  BY NamedRegisters DEF Registers
<1>2. \A r \in Registers(f) : IsKnownInt(known[r]) => regs[r].type = "int64" /\ regs[r].bits = known[r].value
  BY KnownInteger
<1>3. \A r \in Registers(f) : IsWhat(regs[r], known[r])
  BY DEF Knowing
<1>4. DOMAIN regs = Registers(f) /\ \A v, r : r \in Registers(f) => [regs EXCEPT ![r] = v][r] = v
  BY DEF Knowing, Files
<1>5. \A n : \A S : IsWhat(Int64(n), ResultIf(known, S, n))
  BY WrappedIs, UnknownIs DEF ResultIf
<1>6. CASE i.op \in {"mov", "loadk"}
  <2>1. i.a \in Registers(f) /\ (i.op = "mov" => i.b \in Registers(f))
    BY <1>1, <1>6, FieldNames
  <2>2. i.op \notin Controls /\ ~DividesByZero(i, regs)
    BY <1>6 DEF Controls, Tries, Calls, ClosureCalls, Upvalues, DividesByZero
  <2>3. IsWhat(Computed(i, regs)[i.a], Result(known, i))
    <3>1. CASE i.op = "mov"
      <4>1. Computed(i, regs) = [regs EXCEPT ![i.a] = regs[i.b]] /\ Result(known, i) = known[i.b]
        BY <3>1 DEF Computed, Result, Binary
      <4> QED
        BY <1>3, <1>4, <2>1, <3>1, <4>1
    <3>2. CASE i.op = "loadk"
      <4>1. Computed(i, regs) = [regs EXCEPT ![i.a] = Int64(i.b)] /\ Result(known, i) = KnownInt(i.b)
        BY <3>2 DEF Computed, Result, Binary
      <4> QED
        BY <1>4, <2>1, <4>1, WrappedIs
    <3> QED
      BY <1>6, <3>1, <3>2
  <2> QED
    BY <1>6, <2>2, <2>3 DEF ComputesResult
<1>7. CASE i.op \in Binary
  <2>1. i.a \in Registers(f) /\ i.b \in Registers(f) /\ i.c \in Registers(f)
    BY <1>1, <1>7, FieldNames
  <2>2. i.op \notin Controls
    BY <1>7 DEF Controls, Tries, Calls, ClosureCalls, Upvalues, Binary
  <2>3. Computed(i, regs) = [regs EXCEPT ![i.a] = Int64(Arithmetic(i.op, regs[i.b].bits, regs[i.c].bits))]
    BY <1>7 DEF Computed, Binary
  <2>4. CASE i.op = "div" /\ known[i.c].value = 0
    <3>1. Result(known, i) = Unknown
      BY <2>4 DEF Result, Binary
    <3> QED
      BY <1>7, <2>2, <3>1, UnknownIs DEF ComputesResult
  <2>5. CASE ~(i.op = "div" /\ known[i.c].value = 0)
    <3> DEFINE n == Arithmetic(i.op, known[i.b].value, known[i.c].value)
    <3>1. Result(known, i) = IF IsKnownInt(known[i.b]) /\ IsKnownInt(known[i.c]) THEN KnownInt(n) ELSE Unknown
      BY <1>7, <2>5 DEF Result, ResultIf, Binary
    <3>2. CASE IsKnownInt(known[i.b]) /\ IsKnownInt(known[i.c])
      <4>1. regs[i.b].bits = known[i.b].value /\ regs[i.c].bits = known[i.c].value
        BY <1>2, <2>1, <3>2
      <4>2. Computed(i, regs)[i.a] = Int64(n)
        BY <1>4, <2>1, <2>3, <4>1
      <4>3. ~DividesByZero(i, regs)
        BY <2>5, <4>1 DEF DividesByZero
      <4> HIDE DEF n
      <4> QED
        BY <1>7, <2>2, <3>1, <3>2, <4>2, <4>3, WrappedIs DEF ComputesResult
    <3>3. CASE ~(IsKnownInt(known[i.b]) /\ IsKnownInt(known[i.c]))
      BY <1>7, <2>2, <3>1, <3>3, UnknownIs DEF ComputesResult
    <3> QED
      BY <3>2, <3>3
  <2> QED
    BY <2>4, <2>5
<1>8. CASE i.op \in Immediate
  <2>1. i.a \in Registers(f) /\ i.b \in Registers(f)
    BY <1>1, <1>8, FieldNames
  <2>2. i.op \notin Controls /\ ~DividesByZero(i, regs)
    BY <1>8 DEF Controls, Tries, Calls, ClosureCalls, Upvalues, Immediate, DividesByZero
  <2>3. /\ i.op = "add_imm" => Computed(i, regs) = [regs EXCEPT ![i.a] = Int64(regs[i.b].bits + i.c)]
        /\ i.op = "sub_imm" => Computed(i, regs) = [regs EXCEPT ![i.a] = Int64(regs[i.b].bits - i.c)]
    BY <1>8 DEF Computed, Binary
  <2>4. /\ i.op = "add_imm" => Result(known, i) = IF IsKnownInt(known[i.b]) THEN KnownInt(known[i.b].value + i.c) ELSE Unknown
        /\ i.op = "sub_imm" => Result(known, i) = IF IsKnownInt(known[i.b]) THEN KnownInt(known[i.b].value - i.c) ELSE Unknown
    BY <1>8 DEF Result, ResultIf, Binary
  <2>5. CASE IsKnownInt(known[i.b])
    <3>1. regs[i.b].bits = known[i.b].value
      BY <1>2, <2>1, <2>5
    <3>2. IsWhat(Computed(i, regs)[i.a], Result(known, i))
      BY <1>4, <1>8, <2>1, <2>3, <2>4, <2>5, <3>1, WrappedIs DEF Immediate
    <3> QED
      BY <1>8, <2>2, <3>2 DEF ComputesResult
  <2>6. CASE ~IsKnownInt(known[i.b])
    <3>1. Result(known, i) = Unknown
      BY <1>8, <2>4, <2>6 DEF Immediate
    <3> QED
      BY <1>8, <2>2, <3>1, UnknownIs DEF ComputesResult
  <2> QED
    BY <2>5, <2>6
<1>9. CASE i.op \in Step1
  <2>1. i.a \in Registers(f)
    BY <1>1, <1>9, FieldNames
  <2>2. i.op \notin Controls /\ ~DividesByZero(i, regs)
    BY <1>9 DEF Controls, Tries, Calls, ClosureCalls, Upvalues, Step1, DividesByZero
  <2>3. /\ i.op = "inc" => Computed(i, regs) = [regs EXCEPT ![i.a] = Int64(regs[i.a].bits + 1)]
        /\ i.op = "dec" => Computed(i, regs) = [regs EXCEPT ![i.a] = Int64(regs[i.a].bits - 1)]
    BY <1>9 DEF Computed, Binary
  <2>4. /\ i.op = "inc" => Result(known, i) = IF IsKnownInt(known[i.a]) THEN KnownInt(known[i.a].value + 1) ELSE Unknown
        /\ i.op = "dec" => Result(known, i) = IF IsKnownInt(known[i.a]) THEN KnownInt(known[i.a].value - 1) ELSE Unknown
    BY <1>9 DEF Result, ResultIf, Binary
  <2>5. CASE IsKnownInt(known[i.a])
    <3>1. regs[i.a].bits = known[i.a].value
      BY <1>2, <2>1, <2>5
    <3>2. IsWhat(Computed(i, regs)[i.a], Result(known, i))
      BY <1>4, <1>9, <2>1, <2>3, <2>4, <2>5, <3>1, WrappedIs DEF Step1
    <3> QED
      BY <1>9, <2>2, <3>2 DEF ComputesResult
  <2>6. CASE ~IsKnownInt(known[i.a])
    <3>1. Result(known, i) = Unknown
      BY <1>9, <2>4, <2>6 DEF Step1
    <3> QED
      BY <1>9, <2>2, <3>1, UnknownIs DEF ComputesResult
  <2> QED
    BY <2>5, <2>6
<1>10. CASE i.op = "cmp_eq"
  <2>1. i.a \in Registers(f) /\ i.b \in Registers(f) /\ i.c \in Registers(f)
    BY <1>1, <1>10, FieldNames
  <2>2. i.op \notin Controls /\ ~DividesByZero(i, regs)
    BY <1>10 DEF Controls, Tries, Calls, ClosureCalls, Upvalues, DividesByZero
  <2>3. Computed(i, regs)[i.a] = Bool(regs[i.b] = regs[i.c])
    BY <1>4, <1>10, <2>1 DEF Computed, Binary
  <2>4. Result(known, i) = IF IsKnownInt(known[i.b]) /\ IsKnownInt(known[i.c])
                           THEN KnownBool(known[i.b].value = known[i.c].value) ELSE Unknown
    BY <1>10 DEF Result, Binary
  <2>5. CASE IsKnownInt(known[i.b]) /\ IsKnownInt(known[i.c])
    <3>1. /\ regs[i.b] = [type |-> "int64", bits |-> known[i.b].value]
          /\ regs[i.c] = [type |-> "int64", bits |-> known[i.c].value]
      BY <1>3, <2>1, <2>5 DEF IsWhat, IsKnownInt, Unknown
    <3>2. (regs[i.b] = regs[i.c]) <=> (known[i.b].value = known[i.c].value)
      BY <3>1
    <3>3. Bool(regs[i.b] = regs[i.c]) = Bool(known[i.b].value = known[i.c].value)
      BY <3>2 DEF Bool
    <3> QED
      BY <1>10, <2>2, <2>3, <2>4, <2>5, <3>3, TruthIs DEF ComputesResult
  <2>6. CASE ~(IsKnownInt(known[i.b]) /\ IsKnownInt(known[i.c]))
    BY <1>10, <2>2, <2>4, <2>6, UnknownIs DEF ComputesResult
  <2> QED
    BY <2>5, <2>6
<1>11. CASE i.op \notin Binary \union Immediate \union Step1 \union {"mov", "loadk", "cmp_eq"}
  BY <1>11 DEF Result, Binary, Immediate, Step1
<1> QED
  BY <1>6, <1>7, <1>8, <1>9, <1>10, <1>11

\* A constant that was computed or a branch that was decided can stand for the instruction.
LEMMA FoldAlike ==
    ASSUME NEW M, NEW f, Sized(f), NEW size, NEW pc, NEW i, Fits(M, f, size, pc, i),
           NEW known \in Knowns(f), NEW regs \in Knowing(f, known)
    PROVE  Alike(i, FoldInst(known, i), regs)
<1> DEFINE j == FoldInst(known, i)
           result == Result(known, i)
           Folding == Binary \union Immediate \union Step1
<1>1. \A field \in RegisterFields(i.op) : i[field] \in Registers(f)
  BY NamedRegisters DEF Registers
<1>2. \A r \in Registers(f) : IsWhat(regs[r], known[r])
  BY DEF Knowing
<1>3. regs \in Files(f)
  BY DEF Knowing
<1>4. CASE i.op \in Folding /\ IsKnownInt(result)
  <2> DEFINE loadk == Inst("loadk", i.a, result.value, 0)
  <2>1. j = loadk
    BY <1>4 DEF FoldInst, Constants, Conditional, Binary, Immediate, Step1
  <2>2. ComputesResult(i, regs, result)
    BY <1>4, ResultRight
  <2>3. i.op \notin Controls /\ result # Unknown /\ ~DividesByZero(i, regs) /\ i.a \in Registers(f)
    <3>1. "a" \in RegisterFields(i.op)
      BY <1>4, FieldNames
    <3> QED
      BY <1>1, <1>4, <2>2, <3>1 DEF ComputesResult, Unknown, IsKnownInt
  <2>4. Computed(i, regs)[i.a] = [type |-> "int64", bits |-> result.value]
    BY <1>4, <2>2, <2>3 DEF ComputesResult, IsWhat, IsKnownInt
  <2>5. Computed(i, regs) \in Files(f)
    <3>1. i.op = "div" => regs[i.c].bits # 0
      BY <2>3 DEF DividesByZero
    <3> QED
      BY <1>3, <3>1, ComputedValues
  <2>6. Int64(result.value) = Computed(i, regs)[i.a]
    <3> DEFINE v == Computed(i, regs)[i.a]
    <3>1. v \in Values /\ v.type = "int64" /\ v.bits = result.value
      BY <2>3, <2>4, <2>5 DEF Files
    <3> HIDE DEF v, result
    <3>2. Int64(v.bits) = v
      BY <3>1, Int64Is
    <3> QED
      BY <3>1, <3>2 DEF v
  <2>7. loadk.op = "loadk" /\ loadk.a = i.a /\ loadk.b = result.value
    BY DEF Inst
  <2> HIDE DEF loadk, result
  <2>8. /\ loadk.op \notin Controls /\ ~Mixes(loadk, regs) /\ ~DividesByZero(loadk, regs)
        /\ Ahead(loadk, regs) = 1 /\ Computed(loadk, regs) = [regs EXCEPT ![i.a] = Int64(result.value)]
    BY <2>7 DEF Controls, Tries, Calls, ClosureCalls, Upvalues, Mixes, IntegerReads, DividesByZero,
         Ahead, Jumps, Computed, Binary, Immediate, Step1, FusedImm
  <2>9. Computed(i, regs) = [regs EXCEPT ![i.a] = Computed(i, regs)[i.a]]
    <3>1. Written(i) = {i.a}
      BY <1>4 DEF Written, Binary, Immediate, Step1, FusedImm
    <3>2. \A r \in Registers(f) \ {i.a} : Computed(i, regs)[r] = regs[r]
      BY <1>3, <3>1, ComputedElsewhere
    <3> DEFINE new == Computed(i, regs)
    <3>3. new \in [Registers(f) -> Values] /\ regs \in [Registers(f) -> Values]
      BY <1>3, <2>5 DEF Files
    <3> HIDE DEF new
    <3>4. new = [regs EXCEPT ![i.a] = new[i.a]]
      BY <2>3, <3>2, <3>3 DEF new
    <3> QED
      BY <3>4 DEF new
  <2>10. Ahead(i, regs) = 1
    BY <1>4 DEF Ahead, Jumps, Binary, Immediate, Step1, FusedImm
  <2>11. Alike(i, loadk, regs)
    BY <2>3, <2>6, <2>8, <2>9, <2>10, AlikeComputing
  <2> QED
    BY <2>1, <2>11
<1>5. CASE i.op \in Conditional
  <2> DEFINE k == known[i.a]
             jmp == Inst("jmp", i.b, 0, 0)
  <2>1. i.a \in Registers(f)
    BY <1>1, <1>5, FieldNames
  <2>2. IsWhat(regs[i.a], k) /\ (IsKnownInt(k) => k # Unknown)
    BY <1>2, <2>1 DEF IsKnownInt, Unknown
  <2>3. /\ i.op \notin Controls /\ ~DividesByZero(i, regs) /\ Computed(i, regs) = regs
        /\ Delta(i) = i.b
    BY <1>5 DEF Controls, Tries, Calls, ClosureCalls, Upvalues, Conditional, DividesByZero, Computed,
         Binary, Immediate, Step1, FusedImm, Delta, DeltaField
  <2>4. /\ jmp.op = "jmp" /\ Delta(jmp) = i.b
    BY DEF Inst, Delta, DeltaField, Conditional
  <2> HIDE DEF jmp
  <2>5. /\ jmp.op \notin Controls /\ ~Mixes(jmp, regs) /\ ~DividesByZero(jmp, regs)
        /\ Ahead(jmp, regs) = i.b /\ Computed(jmp, regs) = regs
    BY <2>4 DEF Controls, Tries, Calls, ClosureCalls, Upvalues, Mixes, IntegerReads, DividesByZero,
         Ahead, Jumps, Computed, Binary, Immediate, Step1, FusedImm
  <2>6. Nop.op = "nop" /\ Nop.op \notin Controls /\ ~Mixes(Nop, regs) /\ ~DividesByZero(Nop, regs)
        /\ Computed(Nop, regs) = regs /\ Ahead(Nop, regs) = 1
    BY DEF Nop, Inst, Controls, Tries, Calls, ClosureCalls, Upvalues, Mixes, IntegerReads, DividesByZero,
           Computed, Ahead, Jumps, Binary, Immediate, Step1, FusedImm
  <2>7. j = IF Decision(known, i) = 1 THEN jmp ELSE IF Decision(known, i) = 0 THEN Nop ELSE i
    BY <1>5 DEF FoldInst, Constants, Decided, jmp
  <2>8. /\ Decision(known, i) = 1 => Jumps(i, regs)
        /\ Decision(known, i) = 0 => ~Jumps(i, regs)
    <3>1. k # Unknown => regs[i.a].bits = k.value
      BY <2>2 DEF IsWhat
    <3> QED
      BY <1>5, <2>2, <3>1 DEF Decision, Jumps, Undecided, Conditional, FusedImm
  <2>9. CASE Decision(known, i) = 1
    <3>1. Ahead(i, regs) = i.b
      BY <2>3, <2>8, <2>9 DEF Ahead
    <3> QED
      BY <2>3, <2>5, <2>7, <2>9, <3>1, AlikeComputing
  <2>10. CASE Decision(known, i) = 0
    <3>1. Ahead(i, regs) = 1
      BY <2>3, <2>8, <2>10 DEF Ahead
    <3> QED
      BY <2>3, <2>6, <2>7, <2>10, <3>1, AlikeComputing
  <2>11. CASE Decision(known, i) \notin {0, 1}
    BY <2>7, <2>11, AlikeItself
  <2> QED
    BY <2>9, <2>10, <2>11
<1>6. CASE i.op \notin Conditional /\ ~(i.op \in Folding /\ IsKnownInt(result))
  <2>1. j = i
    BY <1>6 DEF FoldInst, Constants
  <2> QED
    BY <2>1, AlikeItself
<1>7. i.op \in Folding => i.op \notin Conditional
  BY DEF Binary, Immediate, Step1, Conditional
<1> QED
  BY <1>4, <1>5, <1>6, <1>7

\* After an instruction that goes on to the next one, what is known then is true.
LEMMA FoldGoesOn ==
    ASSUME NEW M, NEW f, Sized(f), NEW size, NEW pc \in DOMAIN f.code,
           Fits(M, f, size, pc, f.code[pc]), f.code[pc].op = "vararg" => f.code[pc].c <= 1,
           NEW known \in Knowns(f), NEW regs \in Knowing(f, known),
           f.code[pc].op \notin Terminators \union {"jmp"},
           NEW after, Goes(f, pc, regs, pc + 1, after)
    PROVE  after \in Knowing(f, FoldStep(f, known, f.code[pc]))
<1> DEFINE old == f.code[pc]
           i == FoldInst(known, old)
           Folding == Binary \union Immediate \union Step1
           result == IF i.op = "mul" THEN Unknown ELSE Result(known, i)
<1>1. after \in Files(f) /\ regs \in Files(f)
  BY DEF Goes, Knowing
<1>2. \A r \in Registers(f) : IsWhat(regs[r], known[r])
  BY DEF Knowing
<1>3. CASE i.op \in Relative \union Terminators
  <2>1. FoldStep(f, known, old) = NothingKnown(f)
    BY <1>3 DEF FoldStep
  <2>2. \A r \in Registers(f) : NothingKnown(f)[r] = Unknown
    BY DEF NothingKnown
  <2> QED
    BY <1>1, <2>1, <2>2, UnknownIs DEF Knowing
<1>4. CASE i.op \notin Relative \union Terminators
  <2>1. FoldStep(f, known, old) = SetKnown(known, Forgets(i), result)
    BY <1>4 DEF FoldStep, After
  <2>2. \A r \in Registers(f) :
           SetKnown(known, Forgets(i), result)[r] = IF r \in Forgets(i) THEN result ELSE known[r]
    BY DEF SetKnown, Knowns
  <2>3. \A r \in Registers(f) \ Written(old) : after[r] = regs[r]
    BY <1>1, ComputedElsewhere DEF Goes
  <2>4. /\ \A r \in Registers(f) \ Forgets(i) : after[r] = regs[r]
        /\ \A r \in Registers(f) : r \in Forgets(i) => IsWhat(after[r], result)
    <3>1. CASE old.op \in Conditional
      <4>1. i \in {Nop, old, Inst("jmp", old.b, 0, 0)}
        BY <3>1 DEF FoldInst, Constants, Decided
      <4>2. Inst("jmp", old.b, 0, 0).op = "jmp" /\ "jmp" \in Relative /\ old.op \in Relative
        BY <3>1 DEF Inst, Relative
      <4>3. i = Nop
        BY <1>4, <4>1, <4>2
      <4>4. Forgets(Nop) = {}
        BY DEF Forgets, Nop, Inst, Written, Binary, Immediate, Step1, FusedImm
      <4>5. Written(old) = {}
        BY <3>1 DEF Written, Conditional, Binary, Immediate, Step1, FusedImm
      <4> QED
        BY <2>3, <4>3, <4>4, <4>5
    <3>2. CASE old.op \in Folding /\ IsKnownInt(Result(known, old))
      <4> DEFINE r0 == Result(known, old)
      <4>1. i = Inst("loadk", old.a, r0.value, 0)
        BY <3>2 DEF FoldInst, Constants, Conditional, Binary, Immediate, Step1
      <4>2. ComputesResult(old, regs, r0) /\ old.a \in Registers(f)
        <5>1. "a" \in RegisterFields(old.op)
          BY <3>2, FieldNames
        <5>2. old.a \in Registers(f)
          <6> HIDE DEF old
          <6> QED
            BY <5>1, NamedRegisters DEF Registers, old
        <5> QED
          BY <3>2, <5>2, ResultRight
      <4>3. after = Computed(old, regs) /\ old.op \notin Controls
        BY <4>2 DEF Goes, ComputesResult
      <4>4. i.op = "loadk" /\ i.a = old.a /\ i.b = r0.value
        BY <4>1 DEF Inst
      <4>5. Forgets(i) = {old.a} /\ Written(old) = {old.a}
        <5> HIDE DEF i, old
        <5> QED
          BY <3>2, <4>4 DEF Forgets, Written, Binary, Immediate, Step1, FusedImm
      <4>6. result = KnownInt(r0.value)
        <5> HIDE DEF i, r0
        <5> QED
          BY <4>4 DEF Result, Binary
      <4>7. r0 # Unknown /\ r0.kind = "int64"
        BY <3>2 DEF IsKnownInt, Unknown
      <4>8. after[old.a] = [type |-> "int64", bits |-> r0.value]
        <5> HIDE DEF r0, old
        <5> QED
          BY <4>2, <4>3, <4>7 DEF ComputesResult, IsWhat
      <4>9. KnownInt(r0.value) = [kind |-> "int64", value |-> r0.value]
        <5>1. after[old.a] \in Values
          BY <1>1, <4>2 DEF Files
        <5> HIDE DEF r0, old
        <5> QED
          BY <4>8, <5>1 DEF Values, KnownInt
      <4>10. IsWhat(after[old.a], result)
        <5> HIDE DEF r0, old, result
        <5> QED
          BY <4>6, <4>8, <4>9 DEF IsWhat
      <4> QED
        BY <2>3, <4>5, <4>10
    <3>3. CASE old.op \notin Conditional /\ ~(old.op \in Folding /\ IsKnownInt(Result(known, old)))
      <4>1. i = old
        BY <3>3 DEF FoldInst, Constants
      <4>2. Written(old) \subseteq Forgets(old)
        <5>1. old.op = "vararg" => old.a \in Int /\ old.c \in Int /\ old.c <= 1
          BY DEF Fits, IsInst, Operands
        <5> HIDE DEF old
        <5>2. CASE old.op = "vararg"
          <6>1. old.a..old.a + old.c - 1 \subseteq {old.a}
            BY <5>1, <5>2
          <6> QED
            BY <5>2, <6>1 DEF Written, Forgets, Binary, Immediate, Step1, FusedImm
        <5> QED
          BY <5>2 DEF Forgets
      <4>3. CASE old.op \in Binary \union Immediate \union Step1 \union {"mov", "loadk", "cmp_eq"}
        <5>1. ComputesResult(old, regs, Result(known, old))
          BY <4>3, ResultRight
        <5>2. after = Computed(old, regs)
          BY <5>1 DEF Goes, ComputesResult
        <5>3. Forgets(old) = {old.a}
          <6> HIDE DEF old
          <6> QED
            BY <4>3 DEF Forgets, Written, Binary, Immediate, Step1, FusedImm
        <5>4. IsWhat(after[old.a], Result(known, old))
          BY <5>1, <5>2 DEF ComputesResult
        <5>5. IsWhat(after[old.a], IF old.op = "mul" THEN Unknown ELSE Result(known, old))
          BY <5>4, UnknownIs
        <5> QED
          BY <2>3, <4>1, <4>2, <5>3, <5>5
      <4>4. CASE old.op \notin Binary \union Immediate \union Step1 \union {"mov", "loadk", "cmp_eq"}
        <5>1. result = Unknown
          BY <4>1, <4>4, ResultRight
        <5> QED
          BY <2>3, <4>1, <4>2, <5>1, UnknownIs
      <4> QED
        BY <4>3, <4>4
    <3>4. old.op \in Folding => old.op \notin Conditional
      BY DEF Binary, Immediate, Step1, Conditional
    <3> QED
      BY <3>1, <3>2, <3>3, <3>4
  <2> HIDE DEF i, result
  <2> QED
    BY <1>1, <1>2, <2>1, <2>2, <2>4 DEF Knowing
<1> QED
  BY <1>3, <1>4

\* const_fold keeps what every function does, where no call overwrites what it takes for known.
LEMMA ConstFoldRuns ==
    ASSUME NEW M, IsModule(M), Verifies(M), NEW n \in DOMAIN M, NoWindow(M[n].code)
    PROVE  SameRuns(M, [M EXCEPT ![n].code = ConstFold(M[n])])
<1> DEFINE f == M[n]
           code == ConstFold(f)
           known == KnownBefore(f, FoldInst)
           facts == [pc \in DOMAIN f.code |-> Knowing(f, known[pc])]
<1>1. Accepted(M, f)
  BY VerifiedIsAccepted
<1>2. Sized(f) /\ AcceptsCode(M, f, f.code) /\ NoWindow(f.code)
  BY <1>1 DEF Accepted, FunctionRecord, Sized
<1> HIDE DEF f
<1>3. AcceptsCode(M, f, code)
  BY <1>2, ConstFoldKeeps
<1>4. \A pc \in DOMAIN f.code :
         /\ known[pc] \in Knowns(f)
         /\ known[pc] = IF pc = 1 \/ pc \in Labels(f.code) THEN NothingKnown(f)
                        ELSE FoldStep(f, known[pc - 1], f.code[pc - 1])
  BY <1>2, FoldKnowledge
<1>5. DOMAIN code = DOMAIN f.code /\ \A pc \in DOMAIN f.code : code[pc] = FoldInst(known[pc], f.code[pc])
  BY DEF ConstFold, Forward
<1>6. DOMAIN f.code = 1..Len(f.code) /\ Len(f.code) \in Nat
  BY <1>2, SequenceDomain DEF AcceptsCode
<1> HIDE DEF known, code
<1>7. \A pc \in DOMAIN f.code : Fits(M, f, Len(f.code), pc, f.code[pc])
  BY <1>2, CodeFits
<1>8. Knowing(f, NothingKnown(f)) = Files(f)
  <2>1. \A r \in Registers(f) : NothingKnown(f)[r] = Unknown
    BY DEF NothingKnown
  <2> QED
    BY <2>1, UnknownIs DEF Knowing
<1>9. \A pc \in DOMAIN f.code : facts[pc] = Knowing(f, known[pc])
  OBVIOUS
<1>10. DOMAIN facts = DOMAIN f.code
  OBVIOUS
<1> HIDE DEF facts
<1>11. Holds(f, facts)
  <2>1. \A pc \in DOMAIN f.code : facts[pc] \subseteq Files(f)
    BY <1>9 DEF Knowing
  <2>2. \A pc \in DOMAIN f.code : pc = 1 \/ pc \in Labels(f.code) => facts[pc] = Files(f)
    BY <1>4, <1>8, <1>9
  <2>3. ASSUME NEW pc \in DOMAIN f.code, NEW regs \in facts[pc], NEW after,
               pc + 1 \in DOMAIN f.code \ Labels(f.code),
               f.code[pc].op \notin Terminators \union {"jmp"},
               Goes(f, pc, regs, pc + 1, after)
        PROVE  after \in facts[pc + 1]
    <3>1.  known[pc + 1] = FoldStep(f, known[pc], f.code[pc])
      <4> DEFINE next == pc + 1
      <4>1. next \in DOMAIN f.code \ Labels(f.code)
        BY <2>3
      <4>2. next # 1 /\ next - 1 = pc
        BY <1>6
      <4> HIDE DEF next
      <4>3. known[next] = FoldStep(f, known[next - 1], f.code[next - 1])
        BY <1>4, <4>1, <4>2
      <4>4. known[next] = FoldStep(f, known[pc], f.code[pc])
        BY <4>2, <4>3
      <4> QED
        BY <4>4 DEF next
    <3>2.  f.code[pc].op = "vararg" => f.code[pc].c <= 1
      BY <1>2 DEF NoWindow
    <3>3.  known[pc] \in Knowns(f) /\ regs \in Knowing(f, known[pc])
      BY <1>4, <1>9, <2>3
    <3>4.  after \in Knowing(f, FoldStep(f, known[pc], f.code[pc]))
      BY <1>2, <1>7, <2>3, <3>2, <3>3, FoldGoesOn
    <3> QED
      BY <1>9, <2>3, <3>1, <3>4
  <2> QED
    BY <1>2, <2>1, <2>2, <2>3, HoldsInOrder
<1>12. \A pc \in DOMAIN f.code : \A regs \in facts[pc] : Alike(f.code[pc], code[pc], regs)
  BY <1>2, <1>4, <1>5, <1>7, <1>9, FoldAlike
<1>13. Rewrites(f, facts, code)
  BY <1>5, <1>11, <1>12 DEF Rewrites
<1>14. SameRuns(M, [M EXCEPT ![n].code = code])
  BY <1>3, <1>13, RewrittenRuns DEF f
<1> QED
  BY <1>14 DEF code, f

-----------------------------------------------------------------------------
(* copy_prop                                                               *)

\* The registers of which the aliases are copies.
Copied(f, alias) == {regs \in Files(f) : \A r \in Registers(f) : regs[alias[r]] = regs[r]}

\* An instruction whose sources are renamed.
IsRenamed(i, alias, j) ==
    /\ j.op = i.op
    /\ \A field \in {"a", "b", "c"} :
          j[field] = IF field \in CopySources(i.op) THEN alias[i[field]] ELSE i[field]

\* What copy_prop makes of an instruction: nothing, one that is renamed, or itself.
LEMMA RenamedIs ==
    ASSUME NEW i, IsInst(i), NEW alias
    PROVE  /\ i.op = "mov" /\ i.a = alias[i.b] => RenamedInst(alias, i) = Nop
           /\ ~(i.op = "mov" /\ i.a = alias[i.b]) => IsRenamed(i, alias, RenamedInst(alias, i))
           /\ CopySources(i.op) = {} /\ i.op # "mov" => RenamedInst(alias, i) = i
<1> DEFINE j == [field \in DOMAIN i |->
                   IF field \in CopySources(i.op) THEN alias[i[field]] ELSE i[field]]
<1>1. i \in [op : {i.op}, flags : {i.flags}, a : {i.a}, b : {i.b}, c : {i.c}]
  BY DEF IsInst
<1>2. DOMAIN i = {"op", "flags", "a", "b", "c"}
  BY <1>1
<1>3. CopySources(i.op) \subseteq {"a", "b", "c"}
  BY DEF CopySources, Binary, Immediate, Step1, Conditional, FusedImm, ClosureCalls
<1>4. /\ j.op = i.op
      /\ \A field \in {"a", "b", "c"} :
            j[field] = IF field \in CopySources(i.op) THEN alias[i[field]] ELSE i[field]
  BY <1>2, <1>3
<1>5. CopySources(i.op) = {} => j = i
  <2>1. i = [field \in DOMAIN i |-> i[field]]
    BY <1>1
  <2> QED
    BY <2>1
<1>6. RenamedInst(alias, i) = IF j.op = "mov" /\ j.a = j.b THEN Nop ELSE j
  BY DEF RenamedInst
<1>7. i.op = "mov" => j.a = i.a /\ j.b = alias[i.b]
  <2>1. i.op = "mov" => CopySources(i.op) = {"b"}
    BY DEF CopySources, Binary, Immediate, Step1, Conditional, FusedImm, ClosureCalls
  <2> HIDE DEF j
  <2> QED
    BY <1>4, <2>1
<1> HIDE DEF j
<1>8. IsRenamed(i, alias, j)
  BY <1>4 DEF IsRenamed
<1> QED
  BY <1>4, <1>5, <1>6, <1>7, <1>8

\* An instruction can be renamed that does not write what it reads.
LEMMA RenamedAlike ==
    ASSUME NEW M, NEW f, Sized(f), NEW size, NEW pc, NEW i, Fits(M, f, size, pc, i),
           NEW alias, Renames(f, alias), NEW regs \in Copied(f, alias),
           i.op \in Step1 \union Counting => RenamedInst(alias, i) = i
    PROVE  Alike(i, RenamedInst(alias, i), regs)
<1> DEFINE j == RenamedInst(alias, i)
<1>0. SUFFICES Alike(i, j, regs)
  OBVIOUS
<1>1. \A field \in RegisterFields(i.op) : i[field] \in Registers(f)
  BY NamedRegisters DEF Registers
<1>2. \A r \in Registers(f) : regs[alias[r]] = regs[r]
  BY DEF Copied
<1>3. /\ i.op = "mov" /\ i.a = alias[i.b] => j = Nop
      /\ ~(i.op = "mov" /\ i.a = alias[i.b]) => IsRenamed(i, alias, j)
      /\ CopySources(i.op) = {} /\ i.op # "mov" => j = i
  BY RenamedIs DEF Fits
<1>4. CASE i.op \in Step1 \union Counting \/ (CopySources(i.op) = {} /\ i.op # "mov")
  BY <1>3, <1>4, AlikeItself
<1> HIDE DEF j
<1>5. CASE i.op = "mov"
  <2>1. CopySources(i.op) = {"b"} /\ i.a \in Registers(f) /\ i.b \in Registers(f)
    BY <1>1, <1>5, FieldNames DEF CopySources
  <2>2. regs[alias[i.b]] = regs[i.b]
    BY <1>2, <2>1
  <2>3. /\ i.op \notin Controls /\ ~DividesByZero(i, regs)
        /\ Ahead(i, regs) = 1 /\ Computed(i, regs) = [regs EXCEPT ![i.a] = regs[i.b]]
    BY <1>5 DEF Controls, Tries, Calls, ClosureCalls, Upvalues, DividesByZero,
         Ahead, Jumps, Computed, Binary, Immediate, Step1, FusedImm
  <2>4. CASE i.a = alias[i.b]
    <3>1. Nop.op = "nop" /\ Nop.op \notin Controls /\ ~Mixes(Nop, regs) /\ ~DividesByZero(Nop, regs)
          /\ Computed(Nop, regs) = regs /\ Ahead(Nop, regs) = 1
      BY DEF Nop, Inst, Controls, Tries, Calls, ClosureCalls, Upvalues, Mixes, IntegerReads, DividesByZero,
             Computed, Ahead, Jumps, Binary, Immediate, Step1, FusedImm
    <3>2. [regs EXCEPT ![i.a] = regs[i.b]] = regs
      BY <2>2, <2>4 DEF Copied, Files
    <3> QED
      BY <1>3, <1>5, <2>3, <2>4, <3>1, <3>2, AlikeComputing
  <2>5. CASE i.a # alias[i.b]
    <3>1. j.op = "mov" /\ j.a = i.a /\ j.b = alias[i.b]
      BY <1>3, <1>5, <2>1, <2>5 DEF IsRenamed
    <3>2. /\ j.op \notin Controls /\ ~DividesByZero(j, regs) /\ ~Mixes(j, regs)
          /\ Ahead(j, regs) = 1 /\ Computed(j, regs) = [regs EXCEPT ![j.a] = regs[j.b]]
      BY <3>1 DEF Controls, Tries, Calls, ClosureCalls, Upvalues, Mixes, IntegerReads, DividesByZero,
         Ahead, Jumps, Computed, Binary, Immediate, Step1, FusedImm
    <3> QED
      BY <2>2, <2>3, <3>1, <3>2, AlikeComputing
  <2> QED
    BY <2>4, <2>5
<1>6. CASE i.op \in Immediate
  <2>1. CopySources(i.op) = {"b"} /\ i.b \in Registers(f) /\ i.op # "mov"
    BY <1>1, <1>6, FieldNames DEF CopySources, Immediate
  <2>2. j.op = i.op /\ j.a = i.a /\ j.b = alias[i.b] /\ j.c = i.c
    BY <1>3, <2>1 DEF IsRenamed
  <2>3. regs[j.b] = regs[i.b]
    BY <1>2, <2>1, <2>2
  <2>4. Computed(j, regs) = Computed(i, regs)
    BY <1>6, <2>2, <2>3 DEF Computed, Immediate, Binary
  <2>5. /\ i.op \notin Controls /\ ~DividesByZero(i, regs) /\ ~DividesByZero(j, regs)
        /\ Ahead(i, regs) = 1 /\ Ahead(j, regs) = 1
    BY <1>6, <2>2 DEF Controls, Tries, Calls, ClosureCalls, Upvalues, Immediate, DividesByZero, Ahead, Jumps,
         FusedImm
  <2>6. Mixes(j, regs) => Mixes(i, regs)
    BY <1>6, <2>2, <2>3 DEF Mixes, IntegerReads, Immediate, Binary
  <2> QED
    BY <2>2, <2>4, <2>5, <2>6, AlikeComputing
<1>7. CASE i.op \in Binary \union {"cmp_eq"}
  <2>1. CopySources(i.op) = {"b", "c"} /\ i.b \in Registers(f) /\ i.c \in Registers(f) /\ i.op # "mov"
    BY <1>1, <1>7, FieldNames DEF CopySources, Immediate, Binary
  <2>2. j.op = i.op /\ j.a = i.a /\ j.b = alias[i.b] /\ j.c = alias[i.c]
    BY <1>3, <2>1 DEF IsRenamed
  <2>3. regs[j.b] = regs[i.b] /\ regs[j.c] = regs[i.c]
    BY <1>2, <2>1, <2>2
  <2>4. Computed(j, regs) = Computed(i, regs)
    <3>1. CASE i.op \in Binary
      <4>1. /\ Computed(i, regs) = [regs EXCEPT ![i.a] = Int64(Arithmetic(i.op, regs[i.b].bits, regs[i.c].bits))]
            /\ Computed(j, regs) = [regs EXCEPT ![j.a] = Int64(Arithmetic(j.op, regs[j.b].bits, regs[j.c].bits))]
        BY <2>2, <3>1 DEF Computed, Binary
      <4> QED
        BY <2>2, <2>3, <4>1
    <3>2. CASE i.op = "cmp_eq"
      <4>1. /\ Computed(i, regs) = [regs EXCEPT ![i.a] = Bool(regs[i.b] = regs[i.c])]
            /\ Computed(j, regs) = [regs EXCEPT ![j.a] = Bool(regs[j.b] = regs[j.c])]
        BY <2>2, <3>2 DEF Computed, Binary
      <4> QED
        BY <2>2, <2>3, <4>1
    <3> QED
      BY <1>7, <3>1, <3>2
  <2>5. /\ i.op \notin Controls /\ Ahead(i, regs) = 1 /\ Ahead(j, regs) = 1
    BY <1>7, <2>2 DEF Controls, Tries, Calls, ClosureCalls, Upvalues, Binary, Ahead, Jumps, FusedImm
  <2>6. Mixes(j, regs) => Mixes(i, regs)
    BY <1>7, <2>2, <2>3 DEF Mixes, IntegerReads, Immediate, Binary, Step1, FusedImm
  <2>7. DividesByZero(j, regs) <=> DividesByZero(i, regs)
    BY <2>2, <2>3 DEF DividesByZero
  <2> QED
    BY <2>2, <2>4, <2>5, <2>6, <2>7, AlikeComputing
<1>8. CASE i.op \in Conditional
  <2>1. CopySources(i.op) = {"a"} /\ i.a \in Registers(f) /\ i.op # "mov"
    BY <1>1, <1>8, FieldNames DEF CopySources, Immediate, Binary, Conditional
  <2>2. j.op = i.op /\ j.a = alias[i.a] /\ j.b = i.b /\ j.c = i.c
    BY <1>3, <2>1 DEF IsRenamed
  <2>3. regs[j.a] = regs[i.a]
    BY <1>2, <2>1, <2>2
  <2>4. Computed(j, regs) = regs /\ Computed(i, regs) = regs /\ Delta(i) = i.b /\ Delta(j) = j.b
    BY <1>8, <2>2 DEF Computed, Conditional, Immediate, Binary, Step1, FusedImm, Delta, DeltaField
  <2>5. i.op \notin Controls /\ ~DividesByZero(i, regs) /\ ~DividesByZero(j, regs)
    BY <1>8, <2>2 DEF Controls, Tries, Calls, ClosureCalls, Upvalues, Conditional, DividesByZero
  <2>6. Mixes(j, regs) => Mixes(i, regs)
    BY <1>8, <2>2, <2>3 DEF Mixes, IntegerReads, Immediate, Binary, Step1, FusedImm, Conditional
  <2>7. Jumps(j, regs) <=> Jumps(i, regs)
    BY <1>8, <2>2, <2>3 DEF Jumps, Conditional, FusedImm
  <2>8. Ahead(j, regs) = Ahead(i, regs)
    BY <2>2, <2>4, <2>7 DEF Ahead
  <2> QED
    BY <2>2, <2>4, <2>5, <2>6, <2>8, AlikeComputing
<1>9. CASE i.op \in {"ret", "throw", "set_upval"} \union ClosureCalls
  <2> DEFINE source == IF i.op \in ClosureCalls THEN "b" ELSE "a"
  <2>1. CopySources(i.op) = {source} /\ i[source] \in Registers(f) /\ i.op # "mov"
    <3>1. CASE i.op \in ClosureCalls
      <4>1. CopySources(i.op) = {"b"} /\ i.op # "mov" /\ "b" \in RegisterFields(i.op)
        BY <3>1, FieldNames DEF CopySources, Immediate, Binary, Conditional, ClosureCalls, Step1, FusedImm
      <4> QED
        BY <1>1, <3>1, <4>1
    <3>2. CASE i.op \in {"ret", "throw", "set_upval"}
      <4>1. CopySources(i.op) = {"a"} /\ i.op # "mov" /\ i.op \notin ClosureCalls
        BY <3>2 DEF CopySources, Immediate, Binary, Conditional, ClosureCalls, Step1, FusedImm
      <4>2. "a" \in RegisterFields(i.op)
        BY <3>2 DEF RegisterFields, Immediate, Binary, Conditional, ClosureCalls, Step1, FusedImm, Upvalues
      <4> QED
        BY <1>1, <4>1, <4>2
    <3> QED
      BY <1>9, <3>1, <3>2
  <2>2. j.op = i.op /\ j.c = i.c
    BY <1>3, <2>1 DEF IsRenamed
  <2>3. regs[j[source]] = regs[i[source]]
    BY <1>2, <1>3, <2>1 DEF IsRenamed
  <2>4. (i.op \in ClosureCalls => j.a = i.a) /\ (i.op \notin ClosureCalls => j.b = i.b)
    BY <1>3, <2>1 DEF IsRenamed
  <2>5. /\ i.op \in ClosureCalls => regs[j.b] = regs[i.b]
        /\ i.op \notin ClosureCalls => regs[j.a] = regs[i.a]
    BY <2>3
  <2>6. ~Mixes(j, regs)
    BY <1>9, <2>2 DEF Mixes, IntegerReads, ClosureCalls, Binary, Immediate, Step1, FusedImm
  <2>7. ASSUME NEW N, NEW m, NEW a, a.regs = regs PROVE Does(N, m, a, j) = Does(N, m, a, i)
    <3>1. Faults(N, m, a, j) <=> Faults(N, m, a, i)
      BY <1>9, <2>2, <2>4, <2>5, <2>7 DEF Faults, Upvalues, ClosureCalls
    <3>2. CASE Faults(N, m, a, i)
      BY <3>1, <3>2 DEF Does
    <3>3. CASE ~Faults(N, m, a, i) /\ i.op \in {"ret", "throw"}
      <4>1. \A k \in {i, j} :
              /\ k.op = "ret" => Does(N, m, a, k) = Returned(N, m, a.regs[k.a])
              /\ k.op = "throw" => Does(N, m, a, k) = Thrown(m, a.regs[k.a])
        BY <2>2, <3>1, <3>3 DEF Does, Calls, ClosureCalls
      <4> QED
        BY <2>2, <2>5, <2>7, <3>3, <4>1 DEF ClosureCalls
    <3>4. CASE ~Faults(N, m, a, i) /\ i.op = "set_upval"
      <4>1. \A k \in {i, j} :
              Does(N, m, a, k) = Now([m EXCEPT !.closures[a.closure].upvalues[k.b + 1] = a.regs[k.a]],
                                     [a EXCEPT !.pc = @ + 1])
        BY <2>2, <3>1, <3>4 DEF Does, Calls, ClosureCalls
      <4>2. a.regs[j.a] = a.regs[i.a] /\ j.b = i.b
        BY <2>4, <2>5, <2>7, <3>4 DEF ClosureCalls
      <4> QED
        BY <4>1, <4>2
    <3>5. CASE ~Faults(N, m, a, i) /\ i.op \in ClosureCalls
      <4>1. \A k \in {i, j} :
              Does(N, m, a, k) = Called(N, m, m.closures[a.regs[k.b].bits].function,
                                        [x \in 1..k.c |-> a.regs[k.a + x]], a.regs[k.b].bits)
        BY <2>2, <3>1, <3>5 DEF Does, Calls, ClosureCalls
      <4>2. a.regs[j.b] = a.regs[i.b] /\ j.a = i.a /\ j.c = i.c
        BY <2>2, <2>4, <2>5, <2>7, <3>5
      <4> QED
        BY <4>1, <4>2
    <3> QED
      BY <1>9, <3>2, <3>3, <3>4, <3>5
  <2>8. i.op \in Waits => j.a = i.a
    BY <1>9, <2>4 DEF Waits, ClosureCalls
  <2> QED
    BY <2>2, <2>6, <2>7, <2>8 DEF Alike
<1>10. i.op \notin Step1 \union Counting \union {"mov", "cmp_eq", "ret", "throw", "set_upval"} \union Immediate
         \union Binary \union Conditional \union ClosureCalls => CopySources(i.op) = {} /\ i.op # "mov"
  BY DEF CopySources, Step1, Counting, Immediate, Binary, Conditional, ClosureCalls, FusedImm
<1> QED
  BY <1>4, <1>5, <1>6, <1>7, <1>8, <1>9, <1>10

\* Aliases that lead neither to nor from a register that is written stay true.
LEMMA KilledCopied ==
    ASSUME NEW f, NEW alias, Renames(f, alias), NEW regs \in Copied(f, alias), NEW S, NEW after \in Files(f),
           \A r \in Registers(f) \ S : after[r] = regs[r]
    PROVE  after \in Copied(f, Killed(alias, S))
<1>1. \A r \in Registers(f) : alias[r] \in Registers(f) /\ regs[alias[r]] = regs[r]
  BY DEF Renames, Copied
<1>2. \A r \in Registers(f) : Killed(alias, S)[r] = IF r \in S \/ alias[r] \in S THEN r ELSE alias[r]
  BY DEF Killed, Renames
<1> QED
  BY <1>1, <1>2 DEF Copied

\* After an instruction that goes on to the next one, the aliases are copies.
LEMMA AliasGoesOn ==
    ASSUME NEW M, NEW f, Sized(f), NEW size, NEW pc \in DOMAIN f.code,
           Fits(M, f, size, pc, f.code[pc]), f.code[pc].op = "vararg" => f.code[pc].c <= 1,
           NEW alias, Renames(f, alias), NEW regs \in Copied(f, alias),
           f.code[pc].op \in Step1 \union Counting => RenamedInst(alias, f.code[pc]) = f.code[pc],
           NEW after, Goes(f, pc, regs, pc + 1, after)
    PROVE  after \in Copied(f, AliasStep(f, alias, f.code[pc]))
<1> DEFINE old == f.code[pc]
           j == RenamedInst(alias, old)
           S == IF old.op = "mov" THEN {old.a} ELSE Forgets(j)
<1>1. after \in Files(f) /\ regs \in Files(f)
  BY DEF Goes, Copied
<1>2. \A r \in Registers(f) : regs[alias[r]] = regs[r] /\ alias[r] \in Registers(f)
  BY DEF Copied, Renames
<1>3. /\ old.op = "mov" /\ old.a = alias[old.b] => j = Nop
      /\ ~(old.op = "mov" /\ old.a = alias[old.b]) => IsRenamed(old, alias, j)
      /\ CopySources(old.op) = {} /\ old.op # "mov" => j = old
  BY RenamedIs DEF Fits
<1>4. \A r \in Registers(f) \ Written(old) : after[r] = regs[r]
  BY <1>1, ComputedElsewhere DEF Goes
<1>5. old.op = "vararg" => old.a \in Int /\ old.c \in Int /\ old.c <= 1
  BY DEF Fits, IsInst, Operands
<1>6. \A field \in RegisterFields(old.op) : old[field] \in Registers(f)
  BY NamedRegisters DEF Registers
<1>7. old.op = "mov" /\ Goes(f, pc, regs, pc + 1, after) => after = [regs EXCEPT ![old.a] = regs[old.b]]
  <2>1. old.op = "mov" => old.op \notin Controls /\ Computed(old, regs) = [regs EXCEPT ![old.a] = regs[old.b]]
    <3> HIDE DEF old
    <3> QED
      BY DEF Controls, Tries, Calls, ClosureCalls, Upvalues, Computed, Binary
  <2> QED
    BY <2>1 DEF Goes
<1>8. CASE j.op \in Relative \union Terminators
  <2>1. AliasStep(f, alias, old) = NoAlias(f)
    BY <1>8 DEF AliasStep
  <2> QED
    BY <1>1, <2>1 DEF Copied, NoAlias
<1> HIDE DEF old, j
<1>9. Written(old) \subseteq S
  <2>1. CASE old.op = "mov"
    BY <2>1 DEF Written, Binary, Immediate, Step1, FusedImm
  <2>2. CASE old.op \in Step1 \union Counting \/ (CopySources(old.op) = {} /\ old.op # "mov")
    <3>1. j = old
      BY <1>3, <2>2 DEF j, old
    <3>2. ASSUME old.op = "vararg" PROVE Written(old) \subseteq {old.a}
      <4>1. old.a \in Int /\ old.c \in Int /\ old.c <= 1
        BY <1>5, <3>2
      <4>2. old.a..old.a + old.c - 1 \subseteq {old.a}
        <5>1. \A x, n \in Int : n <= 1 => x..x + n - 1 \subseteq {x}
          OBVIOUS
        <5> QED
          BY <4>1, <5>1
      <4> QED
        BY <3>2, <4>2 DEF Written, Binary, Immediate, Step1, FusedImm
    <3> QED
      BY <2>2, <3>1, <3>2 DEF Forgets, Step1, Counting, FusedImm
  <2>3. CASE old.op \in Immediate \union Binary \union {"cmp_eq", "call_closure"}
    <3>1. j.op = old.op /\ j.a = old.a
      <4>1. "a" \notin CopySources(old.op) /\ old.op # "mov"
        BY <2>3 DEF CopySources, Immediate, Binary, ClosureCalls, Conditional, Step1, FusedImm
      <4> QED
        BY <1>3, <4>1 DEF IsRenamed
    <3>2. Written(old) = {old.a} /\ Forgets(j) = {j.a}
      BY <2>3, <3>1 DEF Written, Forgets, Immediate, Binary, Step1, FusedImm
    <3>3. old.op # "mov"
      BY <2>3 DEF Immediate, Binary
    <3> QED
      BY <3>1, <3>2, <3>3
  <2>4. CASE old.op \in Conditional \union {"ret", "throw", "set_upval", "tail_call_closure"}
    BY <2>4 DEF Written, Conditional, Immediate, Binary, Step1, FusedImm
  <2>5. old.op \notin Step1 \union Counting \union {"mov", "cmp_eq", "ret", "throw", "set_upval"} \union Immediate
         \union Binary \union Conditional \union ClosureCalls => CopySources(old.op) = {} /\ old.op # "mov"
    BY DEF CopySources, Step1, Counting, Immediate, Binary, Conditional, ClosureCalls, FusedImm
  <2> QED
    BY <2>1, <2>2, <2>3, <2>4, <2>5 DEF ClosureCalls
<1>10. after \in Copied(f, Killed(alias, S))
  <2> HIDE DEF S
  <2>1. \A r \in Registers(f) \ S : after[r] = regs[r]
    BY <1>4, <1>9
  <2> QED
    BY <1>1, <2>1, KilledCopied
<1>11. CASE j.op \notin Relative \union Terminators \union {"mov"}
  <2>1. AliasStep(f, alias, old) = Killed(alias, S)
    BY <1>11 DEF AliasStep, j
  <2> QED
    BY <1>10, <2>1 DEF old
<1>12. CASE j.op = "mov"
  <2>1. old.op = "mov" /\ old.a # alias[old.b] /\ j.a = old.a /\ j.b = alias[old.b]
    <3>1. IsRenamed(old, alias, j)
      BY <1>3, <1>12 DEF Nop, Inst
    <3>2. old.op = "mov"
      BY <1>12, <3>1 DEF IsRenamed
    <3>3. old.a # alias[old.b]
      BY <1>3, <1>12, <3>2 DEF Nop, Inst
    <3>4. CopySources(old.op) = {"b"}
      BY <3>2 DEF CopySources, Binary, Immediate, Step1, Conditional, FusedImm, ClosureCalls
    <3> QED
      BY <3>1, <3>2, <3>3, <3>4 DEF IsRenamed
  <2> DEFINE rest == Killed(alias, S)
  <2>2. AliasStep(f, alias, old) = [rest EXCEPT ![old.a] = alias[old.b]]
    <3>1. "mov" \notin Relative \union Terminators
      BY DEF Relative, Terminators, Conditional, FusedImm
    <3> QED
      BY <1>12, <2>1, <3>1 DEF AliasStep, j
  <2>3. DOMAIN rest = Registers(f)
    BY DEF Killed, Renames
  <2>4. \A r \in Registers(f) : after[rest[r]] = after[r]
    BY <1>10 DEF Copied
  <2>5. old.a \in Registers(f) /\ old.b \in Registers(f)
    BY <1>6, <2>1, FieldNames
  <2>6. after[alias[old.b]] = after[old.a]
    <3>1. after = [regs EXCEPT ![old.a] = regs[old.b]]
      BY <1>7, <2>1
    <3>2. after[old.a] = regs[old.b]
      BY <1>1, <2>5, <3>1 DEF Files
    <3>3. after[alias[old.b]] = regs[alias[old.b]]
      BY <1>1, <1>2, <2>1, <2>5, <3>1 DEF Files
    <3> QED
      BY <1>2, <2>5, <3>2, <3>3
  <2> HIDE DEF rest
  <2>7. \A r \in Registers(f) : after[[rest EXCEPT ![old.a] = alias[old.b]][r]] = after[r]
    BY <2>3, <2>4, <2>5, <2>6
  <2> QED
    BY <1>1, <2>2, <2>7 DEF Copied, old
<1> QED
  BY <1>8, <1>11, <1>12 DEF old

\* copy_prop keeps what every function does, where it renames no register that is also written.
LEMMA CopyPropRuns ==
    ASSUME NEW M, IsModule(M), Verifies(M), NEW n \in DOMAIN M, KeepsCopies(M[n])
    PROVE  SameRuns(M, [M EXCEPT ![n].code = CopyProp(M[n])])
<1> DEFINE f == M[n]
           code == CopyProp(f)
           alias == Aliases(f)
           facts == [pc \in DOMAIN f.code |-> Copied(f, alias[pc])]
<1>1. Accepted(M, f)
  BY VerifiedIsAccepted
<1>2. Sized(f) /\ AcceptsCode(M, f, f.code) /\ KeepsCopies(f)
  BY <1>1 DEF Accepted, FunctionRecord, Sized
<1> HIDE DEF f
<1>3. AcceptsCode(M, f, code)
  BY <1>2, CopyPropKeeps
<1>4. \A pc \in DOMAIN f.code :
         /\ Renames(f, alias[pc])
         /\ alias[pc] = IF pc = 1 \/ pc \in Labels(f.code) THEN NoAlias(f)
                        ELSE AliasStep(f, alias[pc - 1], f.code[pc - 1])
  BY <1>2, AliasesRename
<1>5. DOMAIN code = DOMAIN f.code /\ \A pc \in DOMAIN f.code : code[pc] = RenamedInst(alias[pc], f.code[pc])
  BY DEF CopyProp
<1>6. DOMAIN f.code = 1..Len(f.code) /\ Len(f.code) \in Nat
  BY <1>2, SequenceDomain DEF AcceptsCode
<1>7. \A pc \in DOMAIN f.code :
         /\ Fits(M, f, Len(f.code), pc, f.code[pc])
         /\ f.code[pc].op = "vararg" => f.code[pc].c <= 1
         /\ f.code[pc].op \in Step1 \union Counting => RenamedInst(alias[pc], f.code[pc]) = f.code[pc]
  BY <1>2, CodeFits DEF KeepsCopies, NoWindow
<1> HIDE DEF alias, code
<1>8. Copied(f, NoAlias(f)) = Files(f)
  BY DEF Copied, NoAlias
<1>9. \A pc \in DOMAIN f.code : facts[pc] = Copied(f, alias[pc])
  OBVIOUS
<1>10. DOMAIN facts = DOMAIN f.code
  OBVIOUS
<1> HIDE DEF facts
<1>11. Holds(f, facts)
  <2>1. \A pc \in DOMAIN f.code : facts[pc] \subseteq Files(f)
    BY <1>9 DEF Copied
  <2>2. \A pc \in DOMAIN f.code : pc = 1 \/ pc \in Labels(f.code) => facts[pc] = Files(f)
    BY <1>4, <1>8, <1>9
  <2>3. ASSUME NEW pc \in DOMAIN f.code, NEW regs \in facts[pc], NEW after,
               pc + 1 \in DOMAIN f.code \ Labels(f.code),
               f.code[pc].op \notin Terminators \union {"jmp"},
               Goes(f, pc, regs, pc + 1, after)
        PROVE  after \in facts[pc + 1]
    <3>1. alias[pc + 1] = AliasStep(f, alias[pc], f.code[pc])
      <4> DEFINE next == pc + 1
      <4>1. next \in DOMAIN f.code \ Labels(f.code)
        BY <2>3
      <4>2. next # 1 /\ next - 1 = pc
        BY <1>6
      <4> HIDE DEF next
      <4>3. alias[next] = AliasStep(f, alias[next - 1], f.code[next - 1])
        BY <1>4, <4>1, <4>2
      <4>4. alias[next] = AliasStep(f, alias[pc], f.code[pc])
        BY <4>2, <4>3
      <4> QED
        BY <4>4 DEF next
    <3>2. Renames(f, alias[pc]) /\ regs \in Copied(f, alias[pc])
      BY <1>4, <1>9, <2>3
    <3>3. after \in Copied(f, AliasStep(f, alias[pc], f.code[pc]))
      BY <1>2, <1>7, <2>3, <3>2, AliasGoesOn
    <3> QED
      BY <1>9, <2>3, <3>1, <3>3
  <2> QED
    BY <1>2, <2>1, <2>2, <2>3, HoldsInOrder
<1>12. ASSUME NEW pc \in DOMAIN f.code, NEW regs \in facts[pc] PROVE Alike(f.code[pc], code[pc], regs)
  <2>1. Renames(f, alias[pc]) /\ regs \in Copied(f, alias[pc])
    BY <1>4, <1>9, <1>12
  <2>2. Alike(f.code[pc], RenamedInst(alias[pc], f.code[pc]), regs)
    BY <1>2, <1>7, <2>1, RenamedAlike
  <2> QED
    BY <1>5, <2>2
<1>13. Rewrites(f, facts, code)
  BY <1>5, <1>11, <1>12 DEF Rewrites
<1>14. SameRuns(M, [M EXCEPT ![n].code = code])
  BY <1>3, <1>13, RewrittenRuns DEF f
<1> QED
  BY <1>14 DEF code, f

-----------------------------------------------------------------------------
(* The optimizer                                                           *)

\* The inductive invariant: from the check of the input on, the module is verified before
\* and after every pass, which is what lets each pass rely on it, and the current
\* function exists.
OptimizerInv ==
    /\ IsModule(module)
    /\ status = "new" => at = 1
    /\ status \notin {"new", "refused"} => Verifies(module) /\ at \in DOMAIN module
    /\ status # "failed"
    /\ VerifiedStaysInside

\* A pass that leaves accepted code in the current function keeps the invariant.
LEMMA LeavesPreserves ==
    ASSUME OptimizerInv, status = "running", NEW STATE code, NEW STATE safe,
           AcceptsCode(module, module[at], code), Leaves(code, safe)
    PROVE  OptimizerInv'
<1>1. IsModule(module) /\ Verifies(module) /\ at \in DOMAIN module
  BY DEF OptimizerInv
<1>2. IsModule(module') /\ Verifies(module') /\ DOMAIN module' = DOMAIN module
  <2>1. module' = [module EXCEPT ![at].code = code]
    BY DEF Leaves
  <2> DEFINE M == module
             k == at
             N == [M EXCEPT ![k].code = code]
  <2>2. IsModule(M) /\ Verifies(M) /\ k \in DOMAIN M /\ AcceptsCode(M, M[k], code)
    BY <1>1
  <2>3. IsModule(N) /\ Verifies(N) /\ DOMAIN N = DOMAIN M
    <3> HIDE DEF M, k
    <3> QED
      BY <2>2, ReplacedKeeps
  <2> QED
    BY <2>1, <2>3
<1>3. DOMAIN module = 1..Len(module) /\ Len(module) \in Nat
  BY <1>1, SequenceDomain DEF IsModule
<1>4. at' \in DOMAIN module'
  BY <1>1, <1>2, <1>3 DEF Leaves
<1>5. status' = status /\ meaning' = meaning
  BY DEF Leaves
<1> QED
  BY <1>2, <1>4, <1>5 DEF OptimizerInv, VerifiedStaysInside

\* The invariant holds in every state, for every job, every choice and order of passes
\* that the options make, and every module that the decoder makes.
THEOREM OptimizerInvariant == Spec => []OptimizerInv
<1>1. Init => OptimizerInv
  <2> SUFFICES ASSUME Init PROVE OptimizerInv
    OBVIOUS
  <2>1. module \in Modules
    BY OptimizerAssumption DEF Init
  <2>2. IsModule(module)
    BY <2>1, ModulesAre
  <2> QED
    BY <2>2 DEF Init, OptimizerInv, VerifiedStaysInside
<1>2. OptimizerInv /\ [Next]_vars => OptimizerInv'
  <2> SUFFICES ASSUME OptimizerInv, [Next]_vars PROVE OptimizerInv'
    OBVIOUS
  <2>1. ASSUME status = "running"
        PROVE  /\ Sized(Current) /\ AcceptsCode(module, Current, Current.code)
               /\ Accepted(module, Current)
    <3>1. IsModule(module) /\ Verifies(module) /\ at \in DOMAIN module
      BY <2>1 DEF OptimizerInv
    <3>2. Accepted(module, module[at])
      BY <3>1, VerifiedIsAccepted
    <3> QED
      BY <3>2 DEF Current, Accepted, FunctionRecord, Sized
  <2>2. ASSUME status = "running", NEW STATE code, AcceptsCode(module, Current, code)
        PROVE  LET g == [Current EXCEPT !.code = code]
               IN  Sized(g) /\ AcceptsCode(module, g, g.code) /\ Accepted(module, g)
                   /\ \A new : AcceptsCode(module, g, new) => AcceptsCode(module, Current, new)
    <3> DEFINE g == [Current EXCEPT !.code = code]
    <3>1. Accepted(module, Current)
      BY <2>1, <2>2
    <3>2. Accepted(module, g)
      BY <2>2, <3>1, CodeReplaced
    <3>3. g.regs = Current.regs /\ g.vararg = Current.vararg /\ g.upvalues = Current.upvalues
      BY <3>1 DEF Accepted, FunctionRecord
    <3> HIDE DEF g
    <3>4. \A new : AcceptsCode(module, g, new) => AcceptsCode(module, Current, new)
      BY <3>3 DEF AcceptsCode, Fits
    <3>5. Sized(g) /\ AcceptsCode(module, g, g.code)
      BY <3>2 DEF Accepted, FunctionRecord, Sized
    <3> QED
      BY <3>2, <3>4, <3>5 DEF g
  <2>3. ASSUME status = "running", NEW STATE code, NEW STATE safe,
               AcceptsCode(module, Current, code), Leaves(code, safe)
        PROVE  OptimizerInv'
    BY <2>3, LeavesPreserves DEF Current
  <2>4. CASE VerifyInput
    <3>1. IsModule(module) /\ module' = module /\ at' = at /\ at = 1
      BY <2>4 DEF VerifyInput, OptimizerInv
    <3>2. CASE Verifies(module)
      <4>1. \A args \in Arguments : Execute(module, 1, args, Fuel).how # "undefined"
        BY <3>1, <3>2, OptimizerAssumption, ExecuteInside
      <4>2. \A args \in Arguments : meaning'[args].how # "undefined"
        BY <2>4, <4>1 DEF VerifyInput, Meaning
      <4>3. 1 \in DOMAIN module
        <5>1. IsSequence(module) /\ module # <<>>
          BY <3>1, <3>2 DEF IsModule, Verifies
        <5> QED
          BY <5>1, SequenceDomain
      <4>4. status' = "running"
        BY <2>4, <3>2 DEF VerifyInput
      <4> QED
        BY <3>1, <3>2, <4>2, <4>3, <4>4 DEF OptimizerInv, VerifiedStaysInside
    <3>3. CASE ~Verifies(module)
      BY <2>4, <3>1, <3>3 DEF VerifyInput, OptimizerInv, VerifiedStaysInside
    <3> QED
      BY <3>2, <3>3
  <2>5. CASE PeepholePass
    BY <2>1, <2>3, <2>5, PeepholeKeeps DEF PeepholePass, Runs
  <2>6. CASE TailcallPass
    BY <2>1, <2>3, <2>6, TailcallKeeps DEF TailcallPass, Runs
  <2>7. CASE LoopFusionPass
    <3> DEFINE fused == LoopFusion(Current.code)
               moved == Licm(fused)
               hoisted == [Current EXCEPT !.code = moved]
    <3>1. status = "running"
      BY <2>7 DEF LoopFusionPass, Runs
    <3>2. \E safe : Leaves(fused, safe) \/ Leaves(StrengthReduction(hoisted), safe)
      BY <2>7 DEF LoopFusionPass
    <3>3. AcceptsCode(module, Current, fused)
      BY <2>1, <3>1, LoopFusionKeeps
    <3> HIDE DEF fused
    <3>4. AcceptsCode(module, Current, moved)
      BY <2>1, <3>1, <3>3, LicmKeeps
    <3> HIDE DEF moved
    <3>5. /\ Sized(hoisted) /\ AcceptsCode(module, hoisted, hoisted.code)
          /\ \A new : AcceptsCode(module, hoisted, new) => AcceptsCode(module, Current, new)
      BY <2>2, <3>1, <3>4
    <3> HIDE DEF hoisted
    <3>6. AcceptsCode(module, Current, StrengthReduction(hoisted))
      BY <3>5, StrengthReductionKeeps
    <3> QED
      BY <2>3, <3>1, <3>2, <3>3, <3>6
  <2>8. CASE ConstFoldPass
    <3> DEFINE code1 == ConstFold(Current)
               folded == [Current EXCEPT !.code = code1]
               code2 == Sccp(folded)
               sparse == [folded EXCEPT !.code = code2]
    <3>1. status = "running"
      BY <2>8 DEF ConstFoldPass, Runs
    <3>2. \E safe : Leaves(folded.code, safe) \/ Leaves(ConstExec(sparse), safe)
      BY <2>8 DEF ConstFoldPass
    <3>3. AcceptsCode(module, Current, code1)
      BY <2>1, <3>1, ConstFoldKeeps
    <3> HIDE DEF code1
    <3>4. /\ Sized(folded) /\ AcceptsCode(module, folded, folded.code) /\ Accepted(module, folded)
          /\ \A new : AcceptsCode(module, folded, new) => AcceptsCode(module, Current, new)
      BY <2>2, <3>1, <3>3
    <3> HIDE DEF folded
    <3>5. AcceptsCode(module, folded, code2)
      BY <3>4, SccpKeeps
    <3> HIDE DEF code2
    <3>6. /\ Accepted(module, sparse) /\ sparse.regs = folded.regs /\ sparse.vararg = folded.vararg
          /\ sparse.upvalues = folded.upvalues
      <4>1. Accepted(module, sparse)
        BY <3>4, <3>5, CodeReplaced
      <4> QED
        BY <3>4, <4>1 DEF Accepted, FunctionRecord
    <3> HIDE DEF sparse
    <3>7. AcceptsCode(module, sparse, ConstExec(sparse))
      BY <3>6, ConstExecKeeps DEF Accepted, FunctionRecord, Sized
    <3>8. AcceptsCode(module, folded, ConstExec(sparse))
      BY <3>6, <3>7 DEF AcceptsCode, Fits
    <3> QED
      BY <2>3, <3>1, <3>2, <3>4, <3>8
  <2>9. CASE CopyPropPass
    BY <2>1, <2>3, <2>9, CopyPropKeeps DEF CopyPropPass, Runs
  <2>10. CASE DcePass
    BY <2>1, <2>3, <2>10, DceKeeps DEF DcePass, Runs
  <2>11. CASE CleanupPass
    BY <2>1, <2>3, <2>11, CleanupKeeps DEF CleanupPass, Runs
  <2>12. CASE InlineSmallPass
    <3>1. status = "running" /\ status' = status /\ meaning' = meaning /\ at' = at
          /\ module' = InlineSmall(module)
      BY <2>12 DEF InlineSmallPass, Runs
    <3>2. IsModule(module) /\ Verifies(module) /\ at \in DOMAIN module
      BY <3>1 DEF OptimizerInv
    <3>3. IsModule(module') /\ Verifies(module') /\ DOMAIN module' = DOMAIN module
      BY <3>1, <3>2, InlineSmallKeeps
    <3> QED
      BY <3>1, <3>2, <3>3 DEF OptimizerInv, VerifiedStaysInside
  <2>13. CASE Finish
    <3>1. status = "running" /\ module' = module /\ meaning' = meaning /\ at' = at
      BY <2>13 DEF Finish
    <3>2. Verifies(module)
      BY <3>1 DEF OptimizerInv
    <3>3. status' = "done"
      BY <2>13, <3>2 DEF Finish
    <3> QED
      BY <3>1, <3>2, <3>3 DEF OptimizerInv, VerifiedStaysInside
  <2>14. CASE UNCHANGED vars
    BY <2>14 DEF vars, OptimizerInv, VerifiedStaysInside
  <2> QED
    BY <2>4, <2>5, <2>6, <2>7, <2>8, <2>9, <2>10, <2>11, <2>12, <2>13, <2>14 DEF Next
<1> QED
  BY <1>1, <1>2, PTL DEF Spec

\* What the verifier accepts never reads or writes beyond its registers when it runs, although
\* the handlers do not check (Verifier::Verify, VmThread::ExecuteFunction).
THEOREM VerifiedCodeStaysInside == Spec => []VerifiedStaysInside
<1>1. OptimizerInv => VerifiedStaysInside
  BY DEF OptimizerInv
<1> QED
  BY <1>1, OptimizerInvariant, PTL

\* No pass makes a module that the verifier refuses, after the last pass or between two.
THEOREM OptimizedCodeVerifies == Spec => []OutputVerifies
<1>1. OptimizerInv => OutputVerifies
  BY DEF OptimizerInv, OutputVerifies
<1> QED
  BY <1>1, OptimizerInvariant, PTL

\* The check of the output at the end of OptimizeBytecodeModuleInPlace never fails.
THEOREM OptimizerNeverFails == Spec => [](status # "failed")
<1>1. OptimizerInv => status # "failed"
  BY DEF OptimizerInv
<1> QED
  BY <1>1, OptimizerInvariant, PTL

-----------------------------------------------------------------------------
(* The passes that rewrite instructions in place                           *)

\* The passes that put other instructions in the place of some.
Rewriting ==
    \/ PeepholePass \/ DcePass \/ CopyPropPass
    \/ ConstFoldPass /\ job.options.level # 3

\* A step of one of these passes keeps what every function does, if the model could keep up.
LEMMA RewritingSame ==
    ASSUME OptimizerInv, Rewriting, kept'
    PROVE  SameRuns(module, module')
<1>1. IsModule(module) /\ Verifies(module) /\ at \in DOMAIN module
  BY DEF OptimizerInv, Rewriting, PeepholePass, DcePass, CopyPropPass, ConstFoldPass, Runs
<1>2. CASE PeepholePass
  <2>1. module' = [module EXCEPT ![at].code = Peephole(module[at].code)]
    BY <1>2 DEF PeepholePass, Leaves, Current
  <2>2. \A M : IsModule(M) /\ Verifies(M) => \A n \in DOMAIN M : SameRuns(M, [M EXCEPT ![n].code = Peephole(M[n].code)])
    BY PeepholeRuns
  <2> QED
    BY <1>1, <2>1, <2>2
<1>3. CASE DcePass
  <2>1. module' = [module EXCEPT ![at].code = Dce(module[at].code)]
    BY <1>3 DEF DcePass, Leaves, Current
  <2>2. \A M : IsModule(M) /\ Verifies(M) => \A n \in DOMAIN M : SameRuns(M, [M EXCEPT ![n].code = Dce(M[n].code)])
    BY DceRuns
  <2> QED
    BY <1>1, <2>1, <2>2
<1>4. CASE CopyPropPass
  <2>1. module' = [module EXCEPT ![at].code = CopyProp(module[at])] /\ KeepsCopies(module[at])
    BY <1>4 DEF CopyPropPass, Leaves, Current
  <2>2. \A M : IsModule(M) /\ Verifies(M) =>
           \A n \in DOMAIN M : KeepsCopies(M[n]) => SameRuns(M, [M EXCEPT ![n].code = CopyProp(M[n])])
    BY CopyPropRuns
  <2> QED
    BY <1>1, <2>1, <2>2
<1>5. CASE ConstFoldPass /\ job.options.level # 3
  <2>1. module' = [module EXCEPT ![at].code = ConstFold(module[at])] /\ NoWindow(module[at].code)
    <3> DEFINE code == ConstFold(Current)
               folded == [Current EXCEPT !.code = code]
    <3>1. Leaves(folded.code, NoWindow(Current.code))
      BY <1>5 DEF ConstFoldPass
    <3>2. folded.code = code
      <4>1. Accepted(module, Current)
        BY <1>1, VerifiedIsAccepted DEF Current
      <4> HIDE DEF code
      <4> QED
        BY <4>1 DEF Accepted, FunctionRecord
    <3> HIDE DEF folded
    <3>3. Leaves(code, NoWindow(Current.code))
      BY <3>1, <3>2
    <3> QED
      BY <3>3 DEF Leaves, Current
  <2>2. \A M : IsModule(M) /\ Verifies(M) =>
           \A n \in DOMAIN M : NoWindow(M[n].code) => SameRuns(M, [M EXCEPT ![n].code = ConstFold(M[n])])
    BY ConstFoldRuns
  <2> QED
    BY <1>1, <2>1, <2>2
<1> QED
  BY <1>2, <1>3, <1>4, <1>5 DEF Rewriting

\* peephole, const_fold, copy_prop and dce keep what every function of the module does, where
\* they meet only code that they can handle.
THEOREM RewritingKeepsRuns == Spec => [][Rewriting /\ kept' => SameRuns(module, module')]_vars
<1>1. OptimizerInv /\ [Next]_vars => [Rewriting /\ kept' => SameRuns(module, module')]_vars
  BY RewritingSame
<1> QED
  BY <1>1, OptimizerInvariant, PTL DEF Spec
=============================================================================
