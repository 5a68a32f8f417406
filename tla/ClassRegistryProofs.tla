------------------------ MODULE ClassRegistryProofs ------------------------
(***************************************************************************)
(* The C3 order of classes, for hierarchies of any size and shape; the     *)
(* registration loop of tievm for metadata of any size, in any order, with *)
(* cycles, bases that are missing and names that are declared twice; and   *)
(* the compiler's class table, for the same metadata.                      *)
(***************************************************************************)
EXTENDS AotClasses, SequenceTheorems, FiniteSetTheorems, WellFoundedInduction, TLAPS

-----------------------------------------------------------------------------
(* Recursion along a rank                                                  *)

\* Any set of numbers that is not empty has a least one.
LEMMA LeastNumber ==
    ASSUME NEW S \in SUBSET Nat, S # {}
    PROVE  Min(S) \in S /\ \A x \in S : Min(S) <= x
<1> DEFINE R == OpToRel(<, Nat)
<1>1. \E x \in S : \A y \in S : <<y, x>> \notin R
  BY NatLessThanWellFounded, WFMin
<1>2. \A x, y \in Nat : <<y, x>> \notin R => x <= y
  BY DEF OpToRel
<1>3. \E x \in S : \A y \in S : x =< y
  BY <1>1, <1>2
<1> QED
  BY <1>3 DEF Min

\* What holds of an element when it holds of all of lower rank holds of all.
LEMMA RankInduction ==
    ASSUME NEW S, NEW rank \in [S -> Nat], NEW T,
           \A x \in S : (\A y \in S : rank[y] < rank[x] => y \in T) => x \in T
    PROVE  S \subseteq T
<1> SUFFICES ASSUME S \ T # {} PROVE FALSE
  OBVIOUS
<1> DEFINE ranks == {rank[x] : x \in S \ T}
<1>1. ranks \in SUBSET Nat /\ ranks # {}
  OBVIOUS
<1>2. Min(ranks) \in ranks /\ \A r \in ranks : Min(ranks) <= r
  <2> HIDE DEF ranks
  <2> QED
    BY <1>1, LeastNumber
<1>3. PICK x \in S \ T : rank[x] = Min(ranks)
  BY <1>2
<1>4. \A y \in S \ T : rank[x] <= rank[y]
  BY <1>2, <1>3
<1>5. \A y \in S : rank[y] < rank[x] => y \in T
  BY <1>3, <1>4
<1> QED
  BY <1>3, <1>5

LEMMA CountingInduction ==
    ASSUME NEW T, 0 \in T, \A n \in Nat : n \in T => n + 1 \in T
    PROVE  Nat \subseteq T
<1> DEFINE rank == [n \in Nat |-> n]
<1>1. ASSUME NEW n \in Nat, \A m \in Nat : rank[m] < rank[n] => m \in T PROVE n \in T
  <2>1. CASE n = 0
    BY <2>1
  <2>2. CASE n # 0
    <3>1. n - 1 \in Nat /\ n - 1 < n
      BY <2>2
    <3>2. n - 1 \in T
      BY <1>1, <3>1
    <3> QED
      BY <3>1, <3>2
  <2> QED
    BY <2>1, <2>2
<1>2. rank \in [Nat -> Nat]
  OBVIOUS
<1> HIDE DEF rank
<1> QED
  BY <1>1, <1>2, RankInduction

\* A function that is defined at each element by its values at lower ranks exists.
DefinesByRank(S, V, rank, step) ==
    /\ rank \in [S -> Nat] /\ step \in [S \X [S -> V] -> V]
    /\ \A x \in S : \A f, g \in [S -> V] :
          (\A y \in S : rank[y] < rank[x] => f[y] = g[y]) => step[<<x, f>>] = step[<<x, g>>]
Solvable(S, V, step) == \E f \in [S -> V] : \A x \in S : f[x] = step[<<x, f>>]

LEMMA RankRecursion ==
    ASSUME NEW S, NEW V, NEW default \in V, NEW rank, NEW step, DefinesByRank(S, V, rank, step)
    PROVE  Solvable(S, V, step)
<1> USE DEF DefinesByRank
<1> DEFINE Upto(n, f) == \A x \in S : rank[x] < n => f[x] = step[<<x, f>>]
           T == {n \in Nat : \E f \in [S -> V] : Upto(n, f)}
<1>1. 0 \in T
  <2>1. [x \in S |-> default] \in [S -> V] /\ Upto(0, [x \in S |-> default])
    OBVIOUS
  <2> QED
    BY <2>1
<1>2. ASSUME NEW n \in Nat, n \in T PROVE n + 1 \in T
  <2>1. PICK f \in [S -> V] : Upto(n, f)
    BY <1>2
  <2> DEFINE g == [x \in S |-> IF rank[x] < n THEN f[x] ELSE step[<<x, f>>]]
  <2>2. g \in [S -> V]
    OBVIOUS
  <2>3. ASSUME NEW x \in S, rank[x] < n + 1 PROVE g[x] = step[<<x, g>>]
    <3>1. \A y \in S : rank[y] < rank[x] => f[y] = g[y]
      BY <2>3
    <3>2. step[<<x, f>>] = step[<<x, g>>]
      <4> HIDE DEF g
      <4> QED
        BY <2>2, <3>1
    <3>3. g[x] = step[<<x, f>>]
      BY <2>1
    <3> QED
      BY <3>2, <3>3
  <2>4. Upto(n + 1, g)
    BY <2>3
  <2> HIDE DEF g
  <2> QED
    BY <2>2, <2>4
<1>3. \A n \in Nat : \E f \in [S -> V] : Upto(n, f)
  <2>1. Nat \subseteq T
    <3> HIDE DEF T
    <3> QED
      BY <1>1, <1>2, CountingInduction
  <2> QED
    BY <2>1
\* Two of them agree on the ranks that both reach.
<1>4. ASSUME NEW n \in Nat, NEW m \in Nat, n <= m,
             NEW f \in [S -> V], NEW g \in [S -> V], Upto(n, f), Upto(m, g)
      PROVE  \A x \in S : rank[x] < n => f[x] = g[x]
  <2> DEFINE U == {x \in S : rank[x] < n => f[x] = g[x]}
  <2>1. ASSUME NEW x \in S, \A y \in S : rank[y] < rank[x] => y \in U PROVE x \in U
    <3>1. SUFFICES ASSUME rank[x] < n PROVE f[x] = g[x]
      OBVIOUS
    <3>2. \A y \in S : rank[y] < rank[x] => f[y] = g[y]
      BY <2>1, <3>1
    <3>3. f[x] = step[<<x, f>>] /\ g[x] = step[<<x, g>>]
      BY <1>4, <3>1
    <3> QED
      BY <3>2, <3>3
  <2>2. S \subseteq U
    <3> HIDE DEF U
    <3> QED
      BY <2>1, RankInduction
  <2> QED
    BY <2>2
<1> HIDE DEF Upto
<1> DEFINE part(x) == CHOOSE f \in [S -> V] : Upto(rank[x] + 1, f)
           h == [x \in S |-> part(x)[x]]
<1>5. \A x \in S : part(x) \in [S -> V] /\ Upto(rank[x] + 1, part(x))
  <2> SUFFICES ASSUME NEW x \in S
               PROVE  part(x) \in [S -> V] /\ Upto(rank[x] + 1, part(x))
    OBVIOUS
  <2>1. \E f \in [S -> V] : Upto(rank[x] + 1, f)
    <3>1. rank[x] + 1 \in Nat
      OBVIOUS
    <3> QED
      BY <1>3, <3>1
  <2> QED
    BY <2>1
<1> HIDE DEF part
<1>6. h \in [S -> V]
  BY <1>5
<1>7. ASSUME NEW x \in S PROVE h[x] = step[<<x, h>>]
  <2>1. \A y \in S : rank[y] < rank[x] => part(y)[y] = part(x)[y]
    <3> SUFFICES ASSUME NEW y \in S, rank[y] < rank[x] PROVE part(y)[y] = part(x)[y]
      OBVIOUS
    <3>1. /\ rank[y] + 1 \in Nat /\ rank[x] + 1 \in Nat
          /\ rank[y] + 1 <= rank[x] + 1 /\ rank[y] < rank[y] + 1
      OBVIOUS
    <3>2. \A z \in S : rank[z] < rank[y] + 1 => part(y)[z] = part(x)[z]
      BY <1>4, <1>5, <3>1
    <3> QED
      BY <3>1, <3>2
  <2>2. \A y \in S : rank[y] < rank[x] => h[y] = part(x)[y]
    BY <2>1
  <2>3. step[<<x, h>>] = step[<<x, part(x)>>]
    <3> HIDE DEF h
    <3> QED
      BY <1>5, <1>6, <2>2
  <2>4. part(x)[x] = step[<<x, part(x)>>]
    <3>1. rank[x] < rank[x] + 1
      OBVIOUS
    <3> QED
      BY <1>5, <3>1 DEF Upto
  <2> QED
    BY <2>3, <2>4
<1> QED
  BY <1>6, <1>7 DEF Solvable

-----------------------------------------------------------------------------
(* Sequences as the sets of what they hold                                 *)

LEMMA ToSetEmpty == ToSet(<<>>) = {}
BY DEF ToSet

LEMMA ToSetIndex ==
    ASSUME NEW S, NEW s \in Seq(S), NEW i \in DOMAIN s
    PROVE  s[i] \in ToSet(s) /\ s[i] \in S
BY DEF ToSet

LEMMA ToSetAppend ==
    ASSUME NEW S, NEW s \in Seq(S), NEW e \in S
    PROVE  ToSet(Append(s, e)) = ToSet(s) \cup {e}
<1>1. /\ Append(s, e) \in Seq(S) /\ Len(Append(s, e)) = Len(s) + 1
      /\ \A i \in 1..Len(s) : Append(s, e)[i] = s[i]
      /\ Append(s, e)[Len(s) + 1] = e
  BY AppendProperties
<1>2. DOMAIN s = 1..Len(s) /\ DOMAIN Append(s, e) = 1..Len(s) + 1 /\ Len(s) \in Nat
  BY <1>1
<1> QED
  BY <1>1, <1>2 DEF ToSet

\* A sequence holds its head and what its tail holds.
LEMMA ToSetTail ==
    ASSUME NEW S, NEW s \in Seq(S), s # <<>>
    PROVE  /\ Head(s) \in S /\ Tail(s) \in Seq(S)
           /\ ToSet(s) = {Head(s)} \cup ToSet(Tail(s))
<1>1. /\ Len(s) \in Nat \ {0} /\ DOMAIN s = 1..Len(s) /\ Head(s) = s[1]
      /\ Tail(s) \in Seq(S) /\ Len(Tail(s)) = Len(s) - 1
      /\ \A i \in 1..Len(Tail(s)) : Tail(s)[i] = s[i + 1]
  BY HeadTailProperties, EmptySeq, LenProperties
<1>2. Head(s) \in S /\ DOMAIN Tail(s) = 1..Len(s) - 1
  BY <1>1
<1>3. ASSUME NEW x \in ToSet(s) PROVE x \in {Head(s)} \cup ToSet(Tail(s))
  <2>1. PICK i \in 1..Len(s) : x = s[i]
    BY <1>1, <1>3 DEF ToSet
  <2>2. CASE i = 1
    BY <1>1, <2>1, <2>2
  <2>3. CASE i # 1
    <3>1. i - 1 \in 1..Len(s) - 1 /\ Tail(s)[i - 1] = s[i]
      BY <1>1, <2>3
    <3> QED
      BY <1>2, <2>1, <3>1 DEF ToSet
  <2> QED
    BY <2>2, <2>3
<1>4. ASSUME NEW x \in ToSet(Tail(s)) PROVE x \in ToSet(s)
  <2>1. PICK i \in 1..Len(s) - 1 : x = Tail(s)[i]
    BY <1>2, <1>4 DEF ToSet
  <2>2. i + 1 \in 1..Len(s) /\ x = s[i + 1]
    BY <1>1, <2>1
  <2> QED
    BY <1>1, <2>2 DEF ToSet
<1>5. Head(s) \in ToSet(s)
  BY <1>1 DEF ToSet
<1> QED
  BY <1>1, <1>2, <1>3, <1>4, <1>5

\* A sequence with one more element in front.
LEMMA Prepend ==
    ASSUME NEW C, NEW c \in C, NEW s \in Seq(C)
    PROVE  /\ <<c>> \o s \in Seq(C) /\ Len(<<c>> \o s) = Len(s) + 1 /\ Len(s) \in Nat
           /\ DOMAIN (<<c>> \o s) = 1..Len(s) + 1 /\ DOMAIN s = 1..Len(s)
           /\ (<<c>> \o s)[1] = c
           /\ \A k \in 1..Len(s) : (<<c>> \o s)[k + 1] = s[k]
           /\ ToSet(<<c>> \o s) = {c} \cup ToSet(s)
<1> DEFINE t == <<c>> \o s
<1>1. <<c>> \in Seq(C) /\ Len(<<c>>) = 1 /\ <<c>>[1] = c
  OBVIOUS
<1>2. /\ t \in Seq(C) /\ Len(t) = Len(s) + 1 /\ Len(s) \in Nat
      /\ \A k \in 1..Len(s) + 1 : t[k] = IF k <= 1 THEN <<c>>[k] ELSE s[k - 1]
  BY <1>1, ConcatProperties
<1>3. DOMAIN t = 1..Len(s) + 1 /\ DOMAIN s = 1..Len(s)
  BY <1>2
<1> HIDE DEF t
<1>4. t[1] = c /\ \A k \in 1..Len(s) : t[k + 1] = s[k]
  BY <1>1, <1>2
<1>5. \A x : x \in ToSet(t) <=> x = c \/ x \in ToSet(s)
  <2>1. ASSUME NEW x, x \in ToSet(t) PROVE x = c \/ x \in ToSet(s)
    <3>1. PICK k \in 1..Len(s) + 1 : x = t[k]
      BY <1>3, <2>1 DEF ToSet
    <3>2. CASE k = 1
      BY <1>4, <3>1, <3>2
    <3>3. CASE k # 1
      <4>1. k - 1 \in 1..Len(s) /\ t[k] = s[k - 1]
        BY <1>2, <3>3
      <4> QED
        BY <1>3, <3>1, <4>1 DEF ToSet
    <3> QED
      BY <3>2, <3>3
  <2>2. c \in ToSet(t)
    BY <1>2, <1>3, <1>4 DEF ToSet
  <2>3. ASSUME NEW x, x \in ToSet(s) PROVE x \in ToSet(t)
    <3>1. PICK k \in 1..Len(s) : x = s[k]
      BY <1>3, <2>3 DEF ToSet
    <3>2. k + 1 \in 1..Len(s) + 1 /\ x = t[k + 1]
      BY <1>2, <1>4, <3>1
    <3> QED
      BY <1>3, <3>2 DEF ToSet
  <2> QED
    BY <2>1, <2>2, <2>3
<1> QED
  BY <1>2, <1>3, <1>4, <1>5 DEF t

\* One class stands somewhere with no other at or before it.
InOrder(s, x, y) == \E m \in DOMAIN s : s[m] = x /\ \A l \in 1..m : s[l] # y

LEMMA FirstPlace ==
    ASSUME NEW C, NEW s \in Seq(C), NEW x \in ToSet(s)
    PROVE  /\ Place(s, x) \in DOMAIN s /\ s[Place(s, x)] = x
           /\ \A k \in DOMAIN s : s[k] = x => Place(s, x) <= k
<1> DEFINE places == {k \in DOMAIN s : s[k] = x}
<1>1. places \in SUBSET Nat /\ places # {}
  BY DEF ToSet
<1>2. Min(places) \in places /\ \A k \in places : Min(places) <= k
  <2> HIDE DEF places
  <2> QED
    BY <1>1, LeastNumber
<1> QED
  BY <1>2 DEF Place

LEMMA BeforeMeans ==
    ASSUME NEW C, NEW s \in Seq(C), NEW x \in ToSet(s), NEW y \in ToSet(s)
    PROVE  Before(s, x, y) <=> InOrder(s, x, y)
<1>1. /\ Place(s, x) \in DOMAIN s /\ s[Place(s, x)] = x
      /\ \A k \in DOMAIN s : s[k] = x => Place(s, x) <= k
  BY FirstPlace
<1>2. /\ Place(s, y) \in DOMAIN s /\ s[Place(s, y)] = y
      /\ \A k \in DOMAIN s : s[k] = y => Place(s, y) <= k
  BY FirstPlace
<1>3. DOMAIN s = 1..Len(s) /\ Len(s) \in Nat
  OBVIOUS
<1>4. ASSUME Place(s, x) < Place(s, y) PROVE InOrder(s, x, y)
  <2>1. \A l \in 1..Place(s, x) : s[l] # y
    BY <1>1, <1>2, <1>3, <1>4
  <2> QED
    BY <1>1, <2>1 DEF InOrder
<1>5. ASSUME InOrder(s, x, y) PROVE Place(s, x) < Place(s, y)
  <2>1. PICK m \in DOMAIN s : s[m] = x /\ \A l \in 1..m : s[l] # y
    BY <1>5 DEF InOrder
  <2>2. Place(s, y) \notin 1..m
    BY <1>2, <2>1
  <2>3. Place(s, x) <= m
    BY <1>1, <2>1
  <2> QED
    BY <1>1, <1>2, <1>3, <2>2, <2>3
<1> QED
  BY <1>4, <1>5 DEF Before

LEMMA InOrderTransitive ==
    ASSUME NEW C, NEW s \in Seq(C), NEW x, NEW y, NEW z, InOrder(s, x, y), InOrder(s, y, z)
    PROVE  InOrder(s, x, z)
<1>1. PICK m \in DOMAIN s : s[m] = x /\ \A l \in 1..m : s[l] # y
  BY DEF InOrder
<1>2. PICK n \in DOMAIN s : s[n] = y /\ \A l \in 1..n : s[l] # z
  BY DEF InOrder
<1>3. m \in Nat /\ n \in Nat /\ 1 <= n
  OBVIOUS
<1>4. m < n
  BY <1>1, <1>2, <1>3
<1> QED
  BY <1>1, <1>2, <1>3, <1>4 DEF InOrder

\* What stands in front precedes everything else, and changes no other order.
LEMMA InOrderPrepend ==
    ASSUME NEW C, NEW c \in C, NEW s \in Seq(C), NEW x, NEW y, y # c,
           x = c \/ InOrder(s, x, y)
    PROVE  InOrder(<<c>> \o s, x, y)
<1> DEFINE t == <<c>> \o s
<1>1. /\ DOMAIN t = 1..Len(s) + 1 /\ DOMAIN s = 1..Len(s) /\ Len(s) \in Nat
      /\ t[1] = c /\ \A k \in 1..Len(s) : t[k + 1] = s[k]
  BY Prepend
<1> HIDE DEF t
<1>2. CASE x = c
  <2>1. 1 \in DOMAIN t /\ t[1] = x /\ \A l \in 1..1 : t[l] # y
    BY <1>1, <1>2
  <2> QED
    BY <2>1 DEF InOrder, t
<1>3. CASE InOrder(s, x, y)
  <2>1. PICK m \in DOMAIN s : s[m] = x /\ \A l \in 1..m : s[l] # y
    BY <1>3 DEF InOrder
  <2>2. m + 1 \in DOMAIN t /\ t[m + 1] = x
    BY <1>1, <2>1
  <2>3. ASSUME NEW l \in 1..m + 1 PROVE t[l] # y
    <3>1. CASE l = 1
      BY <1>1, <3>1
    <3>2. CASE l # 1
      <4>1. l - 1 \in 1..m /\ l - 1 \in 1..Len(s) /\ l - 1 + 1 = l
        BY <1>1, <3>2
      <4> QED
        BY <1>1, <2>1, <4>1
    <3> QED
      BY <3>1, <3>2
  <2> QED
    BY <2>2, <2>3 DEF InOrder, t
<1> QED
  BY <1>2, <1>3

-----------------------------------------------------------------------------
(* MergeC3Impl                                                             *)

Results(C) == [ok : BOOLEAN, mro : Seq(C)]

LEMMA SequencesOf ==
    ASSUME NEW C, NEW seqs \in Seq(Seq(C)), NEW i \in DOMAIN seqs
    PROVE  /\ seqs[i] \in Seq(C) /\ Len(seqs[i]) \in Nat /\ DOMAIN seqs[i] = 1..Len(seqs[i])
           /\ i \in Nat \ {0}
BY ElementOfSeq

\* What is not erased, place by place: each round makes it smaller.
AllPlaces(seqs) == UNION {{i} \X (1..Len(seqs[i])) : i \in DOMAIN seqs}
Unerased(seqs, front) == {e \in AllPlaces(seqs) : front[e[1]] <= e[2]}

LEMMA UnerasedFinite ==
    ASSUME NEW C, NEW seqs \in Seq(Seq(C)), NEW front
    PROVE  IsFiniteSet(Unerased(seqs, front)) /\ Cardinality(Unerased(seqs, front)) \in Nat
<1> DEFINE row == [i \in DOMAIN seqs |-> {i} \X (1..Len(seqs[i]))]
           rows == {{i} \X (1..Len(seqs[i])) : i \in DOMAIN seqs}
<1>1. IsFiniteSet(DOMAIN seqs)
  BY LenProperties, FS_Interval
<1>2. row \in Surjection(DOMAIN seqs, rows)
  BY DEF Surjection
<1>3. IsFiniteSet(rows)
  <2> HIDE DEF row, rows
  <2> QED
    BY <1>1, <1>2, FS_Surjection
<1>4. \A T \in rows : IsFiniteSet(T)
  <2> SUFFICES ASSUME NEW i \in DOMAIN seqs PROVE IsFiniteSet({i} \X (1..Len(seqs[i])))
    OBVIOUS
  <2>1. IsFiniteSet({i}) /\ IsFiniteSet(1..Len(seqs[i]))
    <3>1. Len(seqs[i]) \in Int /\ 1 \in Int
      BY SequencesOf
    <3> QED
      BY <3>1, FS_Singleton, FS_Interval
  <2> QED
    BY <2>1, FS_Product
<1>5. IsFiniteSet(AllPlaces(seqs))
  <2>1. AllPlaces(seqs) = UNION rows
    BY DEF AllPlaces
  <2> HIDE DEF rows
  <2> QED
    BY <1>3, <1>4, <2>1, FS_UNION
<1>6. Unerased(seqs, front) \subseteq AllPlaces(seqs)
  BY DEF Unerased
<1> QED
  BY <1>5, <1>6, FS_Subset, FS_CardinalityType

\* The candidate: a head that stands in no other sequence's tail.
LEMMA Candidate ==
    ASSUME NEW C, NEW seqs \in Seq(Seq(C)), NEW front \in Fronts(seqs), GoodHeads(seqs, front) # {}
    PROVE  LET g == Min(GoodHeads(seqs, front))
           IN  /\ g \in Remaining(seqs, front) /\ HeadOf(seqs, front, g) \in C
               /\ \A j \in Remaining(seqs, front) \ {g} :
                     HeadOf(seqs, front, g) \notin TailOf(seqs, front, j)
<1> DEFINE good == GoodHeads(seqs, front)
           g == Min(good)
<1>1. good \in SUBSET Nat /\ good # {}
  BY SequencesOf DEF GoodHeads, Remaining
<1>2. g \in good
  <2> HIDE DEF good
  <2> QED
    BY <1>1, LeastNumber
<1>3. g \in Remaining(seqs, front) /\ \A j \in Remaining(seqs, front) \ {g} :
         HeadOf(seqs, front, g) \notin TailOf(seqs, front, j)
  BY <1>2 DEF GoodHeads
<1> HIDE DEF g
<1>4. g \in DOMAIN seqs /\ front[g] \in 1..Len(seqs[g])
  BY <1>3, SequencesOf DEF Remaining, Fronts
<1>5. HeadOf(seqs, front, g) \in C
  BY <1>4, SequencesOf DEF HeadOf
<1> QED
  BY <1>3, <1>5 DEF g

LEMMA PoppedIsFront ==
    ASSUME NEW C, NEW seqs \in Seq(Seq(C)), NEW front \in Fronts(seqs), NEW c
    PROVE  Popped(seqs, front, c) \in Fronts(seqs)
BY DEF Popped, Fronts

LEMMA PopErases ==
    ASSUME NEW C, NEW seqs \in Seq(Seq(C)), NEW front \in Fronts(seqs),
           NEW g \in Remaining(seqs, front)
    PROVE  Cardinality(Unerased(seqs, Popped(seqs, front, HeadOf(seqs, front, g))))
             < Cardinality(Unerased(seqs, front))
<1> DEFINE c == HeadOf(seqs, front, g)
           next == Popped(seqs, front, c)
<1>1. \A i \in DOMAIN seqs : front[i] <= next[i] /\ front[i] \in Nat /\ next[i] \in Nat
  BY DEF Popped, Fronts
<1>2. g \in DOMAIN seqs /\ next[g] = front[g] + 1 /\ front[g] \in 1..Len(seqs[g])
  BY SequencesOf DEF Popped, Remaining, Fronts
<1> HIDE DEF next
<1>3. Unerased(seqs, next) \subseteq Unerased(seqs, front)
  <2> SUFFICES ASSUME NEW e \in Unerased(seqs, next) PROVE e \in Unerased(seqs, front)
    OBVIOUS
  <2>1. e[1] \in DOMAIN seqs /\ e[2] \in Nat /\ next[e[1]] <= e[2] /\ e \in AllPlaces(seqs)
    BY DEF Unerased, AllPlaces
  <2> QED
    BY <1>1, <2>1 DEF Unerased
<1>4. <<g, front[g]>> \in Unerased(seqs, front) /\ <<g, front[g]>> \notin Unerased(seqs, next)
  BY <1>2 DEF Unerased, AllPlaces
<1>5. Unerased(seqs, next) # Unerased(seqs, front)
  BY <1>4
<1> HIDE DEF c
<1>6. Cardinality(Unerased(seqs, next)) < Cardinality(Unerased(seqs, front))
  BY <1>3, <1>5, UnerasedFinite, FS_Subset
<1> QED
  BY <1>6 DEF c, next

\* The equation that defines the merge.
LEMMA MergingIs ==
    ASSUME NEW C, NEW seqs \in Seq(Seq(C))
    PROVE  /\ Merging(seqs) \in [Fronts(seqs) -> Results(C)]
           /\ \A front \in Fronts(seqs) : Merging(seqs)[front] =
                LET good == GoodHeads(seqs, front)
                    c == HeadOf(seqs, front, Min(good))
                    rest == Merging(seqs)[Popped(seqs, front, c)]
                IN  IF Remaining(seqs, front) = {} THEN [ok |-> TRUE, mro |-> <<>>]
                    ELSE IF good # {} /\ rest.ok THEN [ok |-> TRUE, mro |-> <<c>> \o rest.mro]
                    ELSE Inconsistent
<1> DEFINE Cand(front) == HeadOf(seqs, front, Min(GoodHeads(seqs, front)))
           Next1(front) == Popped(seqs, front, Cand(front))
           Body(front, rest) ==
              IF Remaining(seqs, front) = {} THEN [ok |-> TRUE, mro |-> <<>>]
              ELSE IF GoodHeads(seqs, front) # {} /\ rest.ok
                   THEN [ok |-> TRUE, mro |-> <<Cand(front)>> \o rest.mro]
              ELSE Inconsistent
           S == Fronts(seqs)
           V == Results(C)
           rank == [front \in S |-> Cardinality(Unerased(seqs, front))]
           step == [p \in S \X [S -> V] |-> Body(p[1], p[2][Next1(p[1])])]
<1>1. rank \in [S -> Nat]
  BY UnerasedFinite
<1>2. Inconsistent \in V /\ [ok |-> TRUE, mro |-> <<>>] \in V
  BY EmptySeq DEF Inconsistent, Results
<1>3. \A front \in S : Next1(front) \in S
  BY PoppedIsFront
<1>4. \A front \in S : GoodHeads(seqs, front) # {} =>
         Cand(front) \in C /\ rank[Next1(front)] < rank[front]
  <2> SUFFICES ASSUME NEW front \in S, GoodHeads(seqs, front) # {}
               PROVE  Cand(front) \in C /\ rank[Next1(front)] < rank[front]
    OBVIOUS
  <2>1. Min(GoodHeads(seqs, front)) \in Remaining(seqs, front) /\ Cand(front) \in C
    BY Candidate
  <2>2. Cardinality(Unerased(seqs, Next1(front))) < Cardinality(Unerased(seqs, front))
    BY <2>1, PopErases
  <2> QED
    BY <1>3, <2>1, <2>2
<1> HIDE DEF Cand, Next1
<1>5. ASSUME NEW front \in S, NEW rest \in V PROVE Body(front, rest) \in V
  <2>1. CASE GoodHeads(seqs, front) # {}
    <3>1. <<Cand(front)>> \o rest.mro \in Seq(C)
      BY <1>4, <2>1, Prepend DEF Results
    <3> QED
      BY <1>2, <3>1 DEF Results
  <2>2. CASE GoodHeads(seqs, front) = {}
    BY <1>2, <2>2
  <2> QED
    BY <2>1, <2>2
<1>6. step \in [S \X [S -> V] -> V]
  <2> SUFFICES ASSUME NEW p \in S \X [S -> V] PROVE Body(p[1], p[2][Next1(p[1])]) \in V
    OBVIOUS
  <2>1. p[1] \in S /\ p[2][Next1(p[1])] \in V
    BY <1>3
  <2> HIDE DEF Body, S, V
  <2> QED
    BY <1>5, <2>1
<1>7. ASSUME NEW x \in S, NEW f \in [S -> V], NEW g \in [S -> V],
             \A y \in S : rank[y] < rank[x] => f[y] = g[y]
      PROVE  step[<<x, f>>] = step[<<x, g>>]
  <2>1. step[<<x, f>>] = Body(x, f[Next1(x)]) /\ step[<<x, g>>] = Body(x, g[Next1(x)])
    <3> HIDE DEF Body, S, V
    <3> QED
      OBVIOUS
  <2>2. CASE GoodHeads(seqs, x) # {}
    <3>1. f[Next1(x)] = g[Next1(x)]
      BY <1>3, <1>4, <1>7, <2>2
    <3> QED
      BY <2>1, <3>1
  <2>3. CASE GoodHeads(seqs, x) = {}
    BY <2>1, <2>3
  <2> QED
    BY <2>2, <2>3
<1>8. \E f \in [S -> V] : \A x \in S : f[x] = step[<<x, f>>]
  <2>1. DefinesByRank(S, V, rank, step)
    <3> HIDE DEF step, rank, S, V
    <3> QED
      BY <1>1, <1>6, <1>7 DEF DefinesByRank
  <2>2. Inconsistent \in V
    BY <1>2
  <2>3. Solvable(S, V, step)
    <3> HIDE DEF step, rank, S, V
    <3> QED
      BY <2>1, <2>2, RankRecursion
  <2> HIDE DEF step, S, V
  <2> QED
    BY <2>3 DEF Solvable
<1>9. \E f : f \in [S -> V] /\ f = [x \in S |-> Body(x, f[Next1(x)])]
  <2>1. PICK f \in [S -> V] : \A x \in S : f[x] = step[<<x, f>>]
    BY <1>8
  <2>2. \A x \in S : f[x] = Body(x, f[Next1(x)])
    <3> HIDE DEF Body, S, V
    <3> QED
      BY <2>1
  <2>3. f = [x \in S |-> Body(x, f[Next1(x)])]
    <3> HIDE DEF Body, S, V
    <3> QED
      BY <2>1, <2>2
  <2> QED
    BY <2>1, <2>3
<1>10. Merging(seqs) = CHOOSE f : f = [x \in S |-> Body(x, f[Next1(x)])]
  BY DEF Merging, Cand, Next1
<1>11. Merging(seqs) = [x \in S |-> Body(x, Merging(seqs)[Next1(x)])]
  <2> HIDE DEF Body, S, V
  <2> QED
    BY <1>9, <1>10
<1>12. ASSUME NEW f, f = [x \in S |-> Body(x, f[Next1(x)])] PROVE f \in [S -> V]
  <2> DEFINE T == {x \in S : f[x] \in V}
  <2>1. ASSUME NEW x \in S, \A y \in S : rank[y] < rank[x] => y \in T PROVE x \in T
    <3>1. f[x] = Body(x, f[Next1(x)])
      <4> HIDE DEF Body, S
      <4> QED
        BY <1>12
    <3>2. CASE GoodHeads(seqs, x) # {}
      <4>1. f[Next1(x)] \in V
        BY <1>3, <1>4, <2>1, <3>2
      <4> HIDE DEF Body, S, V
      <4> QED
        BY <1>5, <3>1, <4>1
    <3>3. CASE GoodHeads(seqs, x) = {}
      BY <1>2, <3>1, <3>3
    <3> QED
      BY <3>2, <3>3
  <2>2. S \subseteq T
    <3> HIDE DEF T, S, V, rank, Body
    <3> QED
      BY <1>1, <2>1, RankInduction
  <2>3. \A x \in S : f[x] \in V
    BY <2>2
  <2> HIDE DEF Body, S, V
  <2> QED
    BY <1>12, <2>3
<1>13. Merging(seqs) \in [S -> V]
  <2> HIDE DEF Body, S, V
  <2> QED
    BY <1>11, <1>12
<1>14. \A x \in S : Merging(seqs)[x] = Body(x, Merging(seqs)[Next1(x)])
  <2> HIDE DEF Body, S, V
  <2> QED
    BY <1>11
<1> QED
  BY <1>13, <1>14 DEF Cand, Next1

Chosen(seqs, front) == HeadOf(seqs, front, Min(GoodHeads(seqs, front)))
AfterPop(seqs, front) == Popped(seqs, front, Chosen(seqs, front))

\* What a round does to each sequence.
LEMMA AfterPopIs ==
    ASSUME NEW C, NEW seqs \in Seq(Seq(C)), NEW front \in Fronts(seqs)
    PROVE  /\ AfterPop(seqs, front) \in Fronts(seqs)
           /\ \A i \in DOMAIN seqs :
                 /\ i \in Nat \ {0} /\ Len(seqs[i]) \in Nat /\ DOMAIN seqs[i] = 1..Len(seqs[i])
                 /\ front[i] \in Nat \ {0} /\ AfterPop(seqs, front)[i] \in Nat \ {0}
                 /\ AfterPop(seqs, front)[i] =
                      IF front[i] <= Len(seqs[i]) /\ seqs[i][front[i]] = Chosen(seqs, front)
                      THEN front[i] + 1 ELSE front[i]
<1>1. AfterPop(seqs, front) \in Fronts(seqs)
  BY PoppedIsFront DEF AfterPop
<1>2. \A i \in DOMAIN seqs :
         /\ i \in Nat \ {0} /\ Len(seqs[i]) \in Nat /\ DOMAIN seqs[i] = 1..Len(seqs[i])
         /\ front[i] \in Nat \ {0} /\ AfterPop(seqs, front)[i] \in Nat \ {0}
  BY <1>1, SequencesOf DEF Fronts
<1>3. \A i \in DOMAIN seqs : AfterPop(seqs, front)[i] =
         IF front[i] <= Len(seqs[i]) /\ seqs[i][front[i]] = Chosen(seqs, front)
         THEN front[i] + 1 ELSE front[i]
  BY DEF AfterPop, Popped, Remaining, HeadOf
<1> QED
  BY <1>1, <1>2, <1>3

\* The chosen class heads a sequence, and stands nowhere behind the head of another.
LEMMA ChosenIs ==
    ASSUME NEW C, NEW seqs \in Seq(Seq(C)), NEW front \in Fronts(seqs), GoodHeads(seqs, front) # {}
    PROVE  \E g \in DOMAIN seqs :
              /\ front[g] <= Len(seqs[g]) /\ seqs[g][front[g]] = Chosen(seqs, front)
              /\ Chosen(seqs, front) \in C
              /\ \A i \in DOMAIN seqs \ {g} : \A p \in front[i] + 1..Len(seqs[i]) :
                    seqs[i][p] # Chosen(seqs, front)
<1> DEFINE g == Min(GoodHeads(seqs, front))
<1>1. /\ g \in Remaining(seqs, front) /\ HeadOf(seqs, front, g) \in C
      /\ \A j \in Remaining(seqs, front) \ {g} : HeadOf(seqs, front, g) \notin TailOf(seqs, front, j)
  BY Candidate
<1>2. Chosen(seqs, front) = HeadOf(seqs, front, g)
  BY DEF Chosen
<1> HIDE DEF g
<1>3. ASSUME NEW i \in DOMAIN seqs \ {g}, NEW p \in front[i] + 1..Len(seqs[i])
      PROVE  seqs[i][p] # Chosen(seqs, front)
  <2>1. front[i] \in Nat /\ Len(seqs[i]) \in Nat
    BY SequencesOf DEF Fronts
  <2>2. i \in Remaining(seqs, front)
    BY <2>1 DEF Remaining
  <2> QED
    BY <1>1, <1>2, <2>2 DEF TailOf
<1> QED
  BY <1>1, <1>2, <1>3 DEF Remaining, HeadOf

\* What holds when it holds after the round, if there is one, holds of every merge.
LEMMA MergeInduction ==
    ASSUME NEW C, NEW seqs \in Seq(Seq(C)), NEW T,
           \A front \in Fronts(seqs) :
              (GoodHeads(seqs, front) # {} => AfterPop(seqs, front) \in T) => front \in T
    PROVE  Fronts(seqs) \subseteq T
<1> DEFINE S == Fronts(seqs)
           rank == [front \in S |-> Cardinality(Unerased(seqs, front))]
<1>1. rank \in [S -> Nat]
  BY UnerasedFinite
<1>2. ASSUME NEW x \in S, \A y \in S : rank[y] < rank[x] => y \in T PROVE x \in T
  <2>1. ASSUME GoodHeads(seqs, x) # {} PROVE AfterPop(seqs, x) \in T
    <3>1. Min(GoodHeads(seqs, x)) \in Remaining(seqs, x)
      BY <2>1, Candidate
    <3>2. Cardinality(Unerased(seqs, AfterPop(seqs, x))) < Cardinality(Unerased(seqs, x))
      BY <3>1, PopErases DEF AfterPop, Chosen
    <3>3. AfterPop(seqs, x) \in S
      BY AfterPopIs
    <3> QED
      BY <1>2, <3>2, <3>3
  <2> QED
    BY <2>1
<1> HIDE DEF rank
<1> QED
  BY <1>1, <1>2, RankInduction

\* A merge that succeeds has taken what is left, or begins with the chosen class.
LEMMA MergeStep ==
    ASSUME NEW C, NEW seqs \in Seq(Seq(C)), NEW front \in Fronts(seqs)
    PROVE  LET m == Merging(seqs)[front]
               rest == Merging(seqs)[AfterPop(seqs, front)]
           IN  /\ m.mro \in Seq(C) /\ m.ok \in BOOLEAN
               /\ m.ok => \/ Remaining(seqs, front) = {} /\ m.mro = <<>>
                          \/ /\ Remaining(seqs, front) # {} /\ GoodHeads(seqs, front) # {}
                             /\ rest.ok /\ m.mro = <<Chosen(seqs, front)>> \o rest.mro
               /\ ~m.ok => \/ Remaining(seqs, front) # {} /\ GoodHeads(seqs, front) = {}
                           \/ GoodHeads(seqs, front) # {} /\ ~rest.ok
<1> DEFINE m == Merging(seqs)[front]
           rest == Merging(seqs)[AfterPop(seqs, front)]
<1>1. m \in Results(C) /\ rest \in Results(C)
  BY MergingIs, AfterPopIs
<1>2. m = IF Remaining(seqs, front) = {} THEN [ok |-> TRUE, mro |-> <<>>]
          ELSE IF GoodHeads(seqs, front) # {} /\ rest.ok
               THEN [ok |-> TRUE, mro |-> <<Chosen(seqs, front)>> \o rest.mro]
          ELSE Inconsistent
  BY MergingIs DEF AfterPop, Chosen
<1> HIDE DEF m, rest
<1>3. m.mro \in Seq(C) /\ m.ok \in BOOLEAN
  BY <1>1 DEF Results
<1>4. CASE Remaining(seqs, front) = {}
  BY <1>2, <1>3, <1>4 DEF m, rest
<1>5. CASE Remaining(seqs, front) # {} /\ GoodHeads(seqs, front) # {} /\ rest.ok
  BY <1>2, <1>3, <1>5 DEF m, rest
<1>6. CASE Remaining(seqs, front) # {} /\ ~(GoodHeads(seqs, front) # {} /\ rest.ok)
  BY <1>2, <1>3, <1>6 DEF m, rest, Inconsistent
<1> QED
  BY <1>4, <1>5, <1>6

\* The order holds what is left, and nothing else.
Left(seqs, front) ==
    UNION {{seqs[i][p] : p \in front[i]..Len(seqs[i])} : i \in DOMAIN seqs}

LEMMA LeftAfterPop ==
    ASSUME NEW C, NEW seqs \in Seq(Seq(C)), NEW front \in Fronts(seqs), GoodHeads(seqs, front) # {}
    PROVE  Left(seqs, front) = {Chosen(seqs, front)} \cup Left(seqs, AfterPop(seqs, front))
<1> DEFINE c == Chosen(seqs, front)
           next == AfterPop(seqs, front)
<1>1. \A i \in DOMAIN seqs :
         /\ Len(seqs[i]) \in Nat /\ front[i] \in Nat \ {0} /\ next[i] \in Nat \ {0}
         /\ next[i] = IF front[i] <= Len(seqs[i]) /\ seqs[i][front[i]] = c
                      THEN front[i] + 1 ELSE front[i]
  BY AfterPopIs
<1>2. PICK g \in DOMAIN seqs : front[g] <= Len(seqs[g]) /\ seqs[g][front[g]] = c
  BY ChosenIs
<1> HIDE DEF next, c
<1>3. \A i \in DOMAIN seqs :
         front[i] <= next[i] /\ (next[i] = front[i] \/ next[i] = front[i] + 1)
  <2> SUFFICES ASSUME NEW i \in DOMAIN seqs
               PROVE  front[i] <= next[i] /\ (next[i] = front[i] \/ next[i] = front[i] + 1)
    OBVIOUS
  <2>1. CASE front[i] <= Len(seqs[i]) /\ seqs[i][front[i]] = c
    BY <1>1, <2>1
  <2>2. CASE ~(front[i] <= Len(seqs[i]) /\ seqs[i][front[i]] = c)
    BY <1>1, <2>2
  <2> QED
    BY <2>1, <2>2
<1>4. c \in Left(seqs, front)
  <2>1. front[g] \in front[g]..Len(seqs[g])
    BY <1>1, <1>2
  <2> QED
    BY <1>2, <2>1 DEF Left
<1>5. ASSUME NEW x \in Left(seqs, front), x # c PROVE x \in Left(seqs, next)
  <2>1. PICK i \in DOMAIN seqs : \E p \in front[i]..Len(seqs[i]) : x = seqs[i][p]
    BY DEF Left
  <2>2. PICK p \in front[i]..Len(seqs[i]) : x = seqs[i][p]
    BY <2>1
  <2>3. p \in next[i]..Len(seqs[i])
    <3>1. p \in Nat /\ front[i] <= p /\ p <= Len(seqs[i])
      BY <1>1
    <3>2. CASE p = front[i]
      BY <1>1, <1>5, <2>2, <3>1, <3>2
    <3>3. CASE p # front[i]
      <4>1. /\ front[i] \in Nat /\ Len(seqs[i]) \in Nat
            /\ next[i] = front[i] \/ next[i] = front[i] + 1
        BY <1>1, <1>3
      <4> QED
        BY <3>1, <3>3, <4>1
    <3> QED
      BY <3>2, <3>3
  <2> QED
    BY <2>2, <2>3 DEF Left
<1>6. ASSUME NEW x \in Left(seqs, next) PROVE x \in Left(seqs, front)
  <2>1. PICK i \in DOMAIN seqs : \E p \in next[i]..Len(seqs[i]) : x = seqs[i][p]
    BY DEF Left
  <2>2. PICK p \in next[i]..Len(seqs[i]) : x = seqs[i][p]
    BY <2>1
  <2>3. p \in front[i]..Len(seqs[i])
    <3>1. front[i] <= next[i] /\ front[i] \in Nat /\ next[i] \in Nat /\ Len(seqs[i]) \in Nat
      BY <1>1, <1>3
    <3> QED
      BY <3>1
  <2> QED
    BY <2>2, <2>3 DEF Left
<1> QED
  BY <1>4, <1>5, <1>6 DEF c, next

LEMMA MergeTakesAll ==
    ASSUME NEW C, NEW seqs \in Seq(Seq(C))
    PROVE  \A front \in Fronts(seqs) :
              Merging(seqs)[front].ok => ToSet(Merging(seqs)[front].mro) = Left(seqs, front)
<1> DEFINE m(front) == Merging(seqs)[front]
           T == {front \in Fronts(seqs) : m(front).ok => ToSet(m(front).mro) = Left(seqs, front)}
<1>1. ASSUME NEW front \in Fronts(seqs),
             GoodHeads(seqs, front) # {} => AfterPop(seqs, front) \in T
      PROVE  front \in T
  <2>1. SUFFICES ASSUME m(front).ok PROVE ToSet(m(front).mro) = Left(seqs, front)
    OBVIOUS
  <2>2. CASE Remaining(seqs, front) = {} /\ m(front).mro = <<>>
    <3>1. \A i \in DOMAIN seqs : front[i]..Len(seqs[i]) = {}
      BY <2>2, SequencesOf DEF Remaining, Fronts
    <3>2. Left(seqs, front) = {}
      BY <3>1 DEF Left
    <3> QED
      BY <2>2, <3>2, ToSetEmpty
  <2>3. CASE /\ GoodHeads(seqs, front) # {} /\ m(AfterPop(seqs, front)).ok
             /\ m(front).mro = <<Chosen(seqs, front)>> \o m(AfterPop(seqs, front)).mro
    <3>1. ToSet(m(AfterPop(seqs, front)).mro) = Left(seqs, AfterPop(seqs, front))
      BY <1>1, <2>3
    <3>2. m(AfterPop(seqs, front)).mro \in Seq(C) /\ Chosen(seqs, front) \in C
      BY <2>3, AfterPopIs, MergeStep, ChosenIs
    <3>3. ToSet(m(front).mro) = {Chosen(seqs, front)} \cup ToSet(m(AfterPop(seqs, front)).mro)
      BY <2>3, <3>2, Prepend
    <3>4. Left(seqs, front) = {Chosen(seqs, front)} \cup Left(seqs, AfterPop(seqs, front))
      BY <2>3, LeftAfterPop
    <3> QED
      BY <3>1, <3>3, <3>4
  <2> QED
    BY <2>1, <2>2, <2>3, MergeStep
<1> HIDE DEF T
<1>2. Fronts(seqs) \subseteq T
  BY <1>1, MergeInduction
<1> QED
  BY <1>2 DEF T

\* The order keeps every order of the sequences: what stands in one of them with no
\* other at or before it, as far as it is left, so stands in the merge.
LEMMA MergeKeepsOrder ==
    ASSUME NEW C, NEW seqs \in Seq(Seq(C))
    PROVE  \A front \in Fronts(seqs) : Merging(seqs)[front].ok =>
              \A i \in DOMAIN seqs : \A p, q \in front[i]..Len(seqs[i]) :
                 (\A r \in front[i]..p : seqs[i][r] # seqs[i][q])
                    => InOrder(Merging(seqs)[front].mro, seqs[i][p], seqs[i][q])
<1> DEFINE m(front) == Merging(seqs)[front]
           Keeps(front) == \A i \in DOMAIN seqs : \A p, q \in front[i]..Len(seqs[i]) :
                 (\A r \in front[i]..p : seqs[i][r] # seqs[i][q])
                    => InOrder(m(front).mro, seqs[i][p], seqs[i][q])
           T == {front \in Fronts(seqs) : m(front).ok => Keeps(front)}
<1>1. ASSUME NEW front \in Fronts(seqs),
             GoodHeads(seqs, front) # {} => AfterPop(seqs, front) \in T
      PROVE  front \in T
  <2> DEFINE c == Chosen(seqs, front)
             next == AfterPop(seqs, front)
  <2>0. \A i \in DOMAIN seqs :
           /\ Len(seqs[i]) \in Nat /\ front[i] \in Nat \ {0} /\ next[i] \in Nat \ {0}
           /\ DOMAIN seqs[i] = 1..Len(seqs[i])
           /\ next[i] = IF front[i] <= Len(seqs[i]) /\ seqs[i][front[i]] = c
                        THEN front[i] + 1 ELSE front[i]
    BY AfterPopIs
  <2>1. SUFFICES ASSUME m(front).ok, NEW i \in DOMAIN seqs,
                        NEW p \in front[i]..Len(seqs[i]), NEW q \in front[i]..Len(seqs[i]),
                        \A r \in front[i]..p : seqs[i][r] # seqs[i][q]
                 PROVE  InOrder(m(front).mro, seqs[i][p], seqs[i][q])
    OBVIOUS
  <2>2. /\ Len(seqs[i]) \in Nat /\ front[i] \in Nat \ {0} /\ next[i] \in Nat \ {0}
        /\ DOMAIN seqs[i] = 1..Len(seqs[i])
        /\ next[i] = IF front[i] <= Len(seqs[i]) /\ seqs[i][front[i]] = c
                     THEN front[i] + 1 ELSE front[i]
    BY <2>0
  <2>3. Remaining(seqs, front) # {}
    BY <2>2 DEF Remaining
  <2>4. /\ GoodHeads(seqs, front) # {} /\ m(next).ok /\ m(front).mro = <<c>> \o m(next).mro
    BY <2>1, <2>3, MergeStep
  <2>5. Keeps(next)
    BY <1>1, <2>4
  <2>6. m(next).mro \in Seq(C)
    BY AfterPopIs, MergeStep
  <2>7. PICK g \in DOMAIN seqs :
           /\ front[g] <= Len(seqs[g]) /\ seqs[g][front[g]] = c /\ c \in C
           /\ \A j \in DOMAIN seqs \ {g} : \A r \in front[j] + 1..Len(seqs[j]) : seqs[j][r] # c
    BY <2>4, ChosenIs
  <2> HIDE DEF c, next
  <2>8. p < q
    BY <2>1, <2>2
  <2>9. seqs[i][q] # c
    <3>1. CASE i = g
      BY <2>1, <2>2, <2>7, <3>1
    <3>2. CASE i # g
      <4>1. q \in front[i] + 1..Len(seqs[i])
        BY <2>2, <2>8
      <4> QED
        BY <2>7, <3>2, <4>1
    <3> QED
      BY <3>1, <3>2
  <2>10. CASE seqs[i][p] = c
    BY <2>4, <2>6, <2>7, <2>9, <2>10, InOrderPrepend
  <2>11. CASE seqs[i][p] # c
    <3>1. p \in next[i]..Len(seqs[i]) /\ q \in next[i]..Len(seqs[i])
      BY <2>2, <2>8, <2>11
    <3>2. \A r \in next[i]..p : seqs[i][r] # seqs[i][q]
      BY <2>1, <2>2
    <3>3. InOrder(m(next).mro, seqs[i][p], seqs[i][q])
      BY <2>5, <3>1, <3>2
    <3> QED
      BY <2>4, <2>6, <2>7, <2>9, <3>3, InOrderPrepend
  <2> QED
    BY <2>10, <2>11
<1> HIDE DEF T
<1>2. Fronts(seqs) \subseteq T
  BY <1>1, MergeInduction
<1> QED
  BY <1>2 DEF T

\* The order names no class twice when none of the sequences does.
Distinct(s) == \A k, l \in DOMAIN s : s[k] = s[l] => k = l

LEMMA DistinctPrepend ==
    ASSUME NEW C, NEW c \in C, NEW s \in Seq(C), Distinct(s), c \notin ToSet(s)
    PROVE  Distinct(<<c>> \o s)
<1> DEFINE t == <<c>> \o s
<1>1. /\ DOMAIN t = 1..Len(s) + 1 /\ DOMAIN s = 1..Len(s) /\ Len(s) \in Nat
      /\ t[1] = c /\ \A k \in 1..Len(s) : t[k + 1] = s[k]
  BY Prepend
<1> HIDE DEF t
<1>2. \A k \in 2..Len(s) + 1 : k - 1 \in DOMAIN s /\ t[k] = s[k - 1]
  <2> SUFFICES ASSUME NEW k \in 2..Len(s) + 1 PROVE k - 1 \in DOMAIN s /\ t[k] = s[k - 1]
    OBVIOUS
  <2>1. k - 1 \in 1..Len(s) /\ k - 1 + 1 = k
    BY <1>1
  <2> QED
    BY <1>1, <2>1
<1>3. \A k \in 2..Len(s) + 1 : t[k] # c
  BY <1>2 DEF ToSet
<1>4. ASSUME NEW k \in DOMAIN t, NEW l \in DOMAIN t, t[k] = t[l] PROVE k = l
  <2>1. CASE k = 1 /\ l = 1
    BY <2>1
  <2>2. CASE k = 1 /\ l # 1
    <3>1. l \in 2..Len(s) + 1
      BY <1>1, <2>2
    <3> QED
      BY <1>1, <1>3, <1>4, <2>2, <3>1
  <2>3. CASE k # 1 /\ l = 1
    <3>1. k \in 2..Len(s) + 1
      BY <1>1, <2>3
    <3> QED
      BY <1>1, <1>3, <1>4, <2>3, <3>1
  <2>4. CASE k # 1 /\ l # 1
    <3>1. k \in 2..Len(s) + 1 /\ l \in 2..Len(s) + 1
      BY <1>1, <2>4
    <3>2. k - 1 \in DOMAIN s /\ l - 1 \in DOMAIN s /\ s[k - 1] = s[l - 1]
      BY <1>2, <1>4, <3>1
    <3>3. k - 1 = l - 1
      BY <3>2 DEF Distinct
    <3> QED
      BY <3>1, <3>3
  <2> QED
    BY <2>1, <2>2, <2>3, <2>4
<1> QED
  BY <1>4 DEF Distinct, t

LEMMA MergeKeepsDistinct ==
    ASSUME NEW C, NEW seqs \in Seq(Seq(C)), \A i \in DOMAIN seqs : Distinct(seqs[i])
    PROVE  \A front \in Fronts(seqs) :
              Merging(seqs)[front].ok => Distinct(Merging(seqs)[front].mro)
<1> DEFINE m(front) == Merging(seqs)[front]
           T == {front \in Fronts(seqs) : m(front).ok => Distinct(m(front).mro)}
<1>1. ASSUME NEW front \in Fronts(seqs),
             GoodHeads(seqs, front) # {} => AfterPop(seqs, front) \in T
      PROVE  front \in T
  <2> DEFINE c == Chosen(seqs, front)
             next == AfterPop(seqs, front)
  <2>1. SUFFICES ASSUME m(front).ok PROVE Distinct(m(front).mro)
    OBVIOUS
  <2>2. CASE m(front).mro = <<>>
    BY <2>2 DEF Distinct
  <2>3. CASE GoodHeads(seqs, front) # {} /\ m(next).ok /\ m(front).mro = <<c>> \o m(next).mro
    <3>1. m(next).mro \in Seq(C) /\ Distinct(m(next).mro)
      BY <1>1, <2>3, AfterPopIs, MergeStep
    <3>2. ToSet(m(next).mro) = Left(seqs, next)
      BY <2>3, AfterPopIs, MergeTakesAll
    <3>3. \A i \in DOMAIN seqs :
             /\ Len(seqs[i]) \in Nat /\ front[i] \in Nat \ {0} /\ next[i] \in Nat \ {0}
             /\ DOMAIN seqs[i] = 1..Len(seqs[i])
             /\ next[i] = IF front[i] <= Len(seqs[i]) /\ seqs[i][front[i]] = c
                          THEN front[i] + 1 ELSE front[i]
      BY AfterPopIs
    <3>4. PICK g \in DOMAIN seqs :
             /\ front[g] <= Len(seqs[g]) /\ seqs[g][front[g]] = c /\ c \in C
             /\ \A j \in DOMAIN seqs \ {g} : \A r \in front[j] + 1..Len(seqs[j]) : seqs[j][r] # c
      BY <2>3, ChosenIs
    <3> HIDE DEF c, next
    <3>5. ASSUME NEW i \in DOMAIN seqs, NEW p \in next[i]..Len(seqs[i]) PROVE seqs[i][p] # c
      <4>1. /\ front[i] \in Nat \ {0} /\ Len(seqs[i]) \in Nat /\ next[i] \in Nat
            /\ DOMAIN seqs[i] = 1..Len(seqs[i])
        BY <3>3
      <4>2. CASE front[i] <= Len(seqs[i]) /\ seqs[i][front[i]] = c
        <5>1. next[i] = front[i] + 1
          BY <3>3, <4>2
        <5>2. p \in DOMAIN seqs[i] /\ front[i] \in DOMAIN seqs[i] /\ p # front[i]
          BY <4>1, <4>2, <5>1
        <5> QED
          BY <4>2, <5>2 DEF Distinct
      <4>3. CASE ~(front[i] <= Len(seqs[i]) /\ seqs[i][front[i]] = c)
        <5>1. next[i] = front[i]
          BY <3>3, <4>3
        <5>2. i # g
          BY <3>4, <4>3
        <5>3. CASE p = front[i]
          BY <4>1, <4>3, <5>1, <5>3
        <5>4. CASE p # front[i]
          <6>1. p \in front[i] + 1..Len(seqs[i])
            BY <4>1, <5>1, <5>4
          <6> QED
            BY <3>4, <5>2, <6>1
        <5> QED
          BY <5>3, <5>4
      <4> QED
        BY <4>2, <4>3
    <3>6. c \notin ToSet(m(next).mro)
      BY <3>2, <3>5 DEF Left
    <3>7. Distinct(<<c>> \o m(next).mro)
      BY <3>1, <3>4, <3>6, DistinctPrepend
    <3> QED
      BY <2>3, <3>7
  <2> QED
    BY <2>1, <2>2, <2>3, MergeStep
<1> HIDE DEF T
<1>2. Fronts(seqs) \subseteq T
  BY <1>1, MergeInduction
<1> QED
  BY <1>2 DEF T

\* A merge that fails has come to heads that stand in each other's way: no order can
\* keep those of all sequences.
Conflict(seqs) ==
    \E S \in SUBSET UNION {ToSet(seqs[i]) : i \in DOMAIN seqs} :
        /\ S # {}
        /\ \A x \in S : \E y \in S : \E i \in DOMAIN seqs :
              {x, y} \subseteq ToSet(seqs[i]) /\ InOrder(seqs[i], y, x)

LEMMA MergeFailsOnConflict ==
    ASSUME NEW C, NEW seqs \in Seq(Seq(C)), \A i \in DOMAIN seqs : Distinct(seqs[i])
    PROVE  \A front \in Fronts(seqs) : ~Merging(seqs)[front].ok => Conflict(seqs)
<1> DEFINE T == {front \in Fronts(seqs) : ~Merging(seqs)[front].ok => Conflict(seqs)}
<1>1. ASSUME NEW front \in Fronts(seqs), Remaining(seqs, front) # {}, GoodHeads(seqs, front) = {}
      PROVE  Conflict(seqs)
  <2> DEFINE S == {HeadOf(seqs, front, i) : i \in Remaining(seqs, front)}
  <2>1. \A i \in Remaining(seqs, front) :
           /\ i \in DOMAIN seqs /\ Len(seqs[i]) \in Nat /\ DOMAIN seqs[i] = 1..Len(seqs[i])
           /\ front[i] \in DOMAIN seqs[i]
    BY SequencesOf DEF Remaining, Fronts
  <2>2. \A i \in Remaining(seqs, front) : HeadOf(seqs, front, i) \in ToSet(seqs[i])
    BY <2>1 DEF HeadOf, ToSet
  <2>3. S # {} /\ S \subseteq UNION {ToSet(seqs[i]) : i \in DOMAIN seqs}
    BY <1>1, <2>1, <2>2
  <2>4. ASSUME NEW i \in Remaining(seqs, front)
        PROVE  \E j \in Remaining(seqs, front) :
                  /\ HeadOf(seqs, front, i) \in ToSet(seqs[j])
                  /\ InOrder(seqs[j], HeadOf(seqs, front, j), HeadOf(seqs, front, i))
    <3>1. PICK j \in Remaining(seqs, front) \ {i} :
             HeadOf(seqs, front, i) \in TailOf(seqs, front, j)
      BY <1>1, <2>4 DEF GoodHeads
    <3>2. PICK p \in front[j] + 1..Len(seqs[j]) : HeadOf(seqs, front, i) = seqs[j][p]
      BY <3>1 DEF TailOf
    <3>3. /\ Len(seqs[j]) \in Nat /\ DOMAIN seqs[j] = 1..Len(seqs[j])
          /\ front[j] \in 1..Len(seqs[j]) /\ j \in DOMAIN seqs
      BY <2>1
    <3>4. p \in DOMAIN seqs[j]
      BY <3>3
    <3>5. \A l \in 1..front[j] : l \in DOMAIN seqs[j] /\ l # p
      BY <3>3
    <3>6. \A l \in 1..front[j] : seqs[j][l] # HeadOf(seqs, front, i)
      BY <3>2, <3>3, <3>4, <3>5 DEF Distinct
    <3>7. InOrder(seqs[j], HeadOf(seqs, front, j), HeadOf(seqs, front, i))
      BY <3>3, <3>6 DEF InOrder, HeadOf
    <3> QED
      BY <3>2, <3>4, <3>7 DEF ToSet
  <2>5. \A x \in S : \E y \in S : \E j \in DOMAIN seqs :
           {x, y} \subseteq ToSet(seqs[j]) /\ InOrder(seqs[j], y, x)
    BY <2>1, <2>2, <2>4
  <2> HIDE DEF S
  <2> QED
    BY <2>3, <2>5 DEF Conflict
<1>2. ASSUME NEW front \in Fronts(seqs),
             GoodHeads(seqs, front) # {} => AfterPop(seqs, front) \in T
      PROVE  front \in T
  BY <1>1, <1>2, MergeStep
<1> HIDE DEF T
<1>3. Fronts(seqs) \subseteq T
  BY <1>2, MergeInduction
<1> QED
  BY <1>3 DEF T

\* What the rest needs to know of the merge.
LEMMA MergeC3Is ==
    ASSUME NEW C, NEW seqs \in Seq(Seq(C))
    PROVE  /\ MergeC3(seqs) \in Results(C)
           /\ MergeC3(seqs).ok =>
                /\ ToSet(MergeC3(seqs).mro) = UNION {ToSet(seqs[i]) : i \in DOMAIN seqs}
                /\ \A i \in DOMAIN seqs : \A x, y \in ToSet(seqs[i]) :
                      InOrder(seqs[i], x, y) => InOrder(MergeC3(seqs).mro, x, y)
           /\ (\A i \in DOMAIN seqs : Distinct(seqs[i])) =>
                IF MergeC3(seqs).ok THEN Distinct(MergeC3(seqs).mro) ELSE Conflict(seqs)
<1> DEFINE front == [i \in DOMAIN seqs |-> 1]
           m == Merging(seqs)[front]
<1>1. front \in Fronts(seqs) /\ MergeC3(seqs) = m
  BY DEF Fronts, MergeC3
<1>2. m \in Results(C)
  BY <1>1, MergingIs
<1>3. \A i \in DOMAIN seqs :
         /\ Len(seqs[i]) \in Nat /\ DOMAIN seqs[i] = 1..Len(seqs[i])
         /\ front[i] = 1
  BY SequencesOf
<1>4. Left(seqs, front) = UNION {ToSet(seqs[i]) : i \in DOMAIN seqs}
  BY <1>3 DEF Left, ToSet
<1>5. ASSUME m.ok PROVE ToSet(m.mro) = UNION {ToSet(seqs[i]) : i \in DOMAIN seqs}
  BY <1>1, <1>4, <1>5, MergeTakesAll
<1>6. ASSUME m.ok, NEW i \in DOMAIN seqs, NEW x \in ToSet(seqs[i]), NEW y \in ToSet(seqs[i]),
             InOrder(seqs[i], x, y)
      PROVE  InOrder(m.mro, x, y)
  <2>1. PICK p \in DOMAIN seqs[i] : seqs[i][p] = x /\ \A l \in 1..p : seqs[i][l] # y
    BY <1>6 DEF InOrder
  <2>2. PICK q \in DOMAIN seqs[i] : seqs[i][q] = y
    BY DEF ToSet
  <2>3. p \in front[i]..Len(seqs[i]) /\ q \in front[i]..Len(seqs[i])
    BY <1>3
  <2>4. \A r \in front[i]..p : seqs[i][r] # seqs[i][q]
    BY <1>3, <2>1, <2>2
  <2> HIDE DEF front, m
  <2>5. InOrder(m.mro, seqs[i][p], seqs[i][q])
    BY <1>1, <1>6, <2>3, <2>4, MergeKeepsOrder DEF m
  <2> QED
    BY <2>1, <2>2, <2>5
<1> HIDE DEF front
<1>7. ASSUME \A i \in DOMAIN seqs : Distinct(seqs[i])
      PROVE  IF m.ok THEN Distinct(m.mro) ELSE Conflict(seqs)
  BY <1>1, <1>7, MergeKeepsDistinct, MergeFailsOnConflict
<1> HIDE DEF m
<1> QED
  BY <1>1, <1>2, <1>5, <1>6, <1>7

-----------------------------------------------------------------------------
(* LinearizeClass                                                          *)

\* The bases of a class are registered before it, so no class inherits from itself.
Ranks(rank) ==
    /\ rank \in [Known -> Nat]
    /\ \A c \in Known : \A b \in ToSet(classes[c]) : rank[b] < rank[c]
Hierarchy ==
    /\ Known \subseteq ClassNames
    /\ \A c \in Known : classes[c] \in Seq(Known)
    /\ \E rank : Ranks(rank)

LEMMA HierarchyInduction ==
    ASSUME Hierarchy, NEW T,
           \A c \in Known : ToSet(classes[c]) \subseteq T => c \in T
    PROVE  Known \subseteq T
<1>1. PICK rank : Ranks(rank)
  BY DEF Hierarchy
<1>2. \A c \in Known : ToSet(classes[c]) \subseteq Known
  BY DEF Hierarchy, ToSet
<1>3. ASSUME NEW c \in Known, \A b \in Known : rank[b] < rank[c] => b \in T PROVE c \in T
  BY <1>1, <1>2, <1>3 DEF Ranks
<1>4. rank \in [Known -> Nat]
  BY <1>1 DEF Ranks
<1> QED
  BY <1>3, <1>4, RankInduction

\* The sequences that are merged for a class, from any orders of its bases.
MergedFrom(f, c) ==
    SequencesToMerge([i \in DOMAIN classes[c] |-> f[classes[c][i]].mro], classes[c])

LEMMA MergedFromIs ==
    ASSUME Hierarchy, NEW f, NEW c \in Known, \A b \in ToSet(classes[c]) : f[b].mro \in Seq(Known)
    PROVE  /\ MergedFrom(f, c) \in Seq(Seq(Known))
           /\ DOMAIN MergedFrom(f, c) = 1..Len(classes[c]) + 1
           /\ Len(classes[c]) \in Nat /\ DOMAIN classes[c] = 1..Len(classes[c])
           /\ \A i \in 1..Len(classes[c]) :
                 classes[c][i] \in ToSet(classes[c]) /\ MergedFrom(f, c)[i] = f[classes[c][i]].mro
           /\ MergedFrom(f, c)[Len(classes[c]) + 1] = classes[c]
<1> DEFINE bases == classes[c]
           n == Len(bases)
           orders == [i \in 1..n |-> f[bases[i]].mro]
<1>1. bases \in Seq(Known) /\ n \in Nat /\ DOMAIN bases = 1..n
  BY DEF Hierarchy
<1>2. \A i \in 1..n : bases[i] \in ToSet(bases)
  BY <1>1 DEF ToSet
<1>3. orders \in Seq(Seq(Known)) /\ Len(orders) = n
  BY <1>1, <1>2
<1>4. <<bases>> \in Seq(Seq(Known)) /\ Len(<<bases>>) = 1 /\ <<bases>>[1] = bases
  BY <1>1
<1>5. MergedFrom(f, c) = orders \o <<bases>>
  BY <1>1 DEF MergedFrom, SequencesToMerge
<1>6. \A i \in 1..n : orders[i] = f[bases[i]].mro
  OBVIOUS
<1> HIDE DEF orders, bases, n
<1>7. /\ orders \o <<bases>> \in Seq(Seq(Known)) /\ Len(orders \o <<bases>>) = n + 1
      /\ \A i \in 1..n + 1 :
            (orders \o <<bases>>)[i] = IF i <= n THEN orders[i] ELSE <<bases>>[i - n]
  BY <1>3, <1>4, ConcatProperties
<1>8. DOMAIN (orders \o <<bases>>) = 1..n + 1
  BY <1>7
<1>9. \A i \in 1..n : (orders \o <<bases>>)[i] = orders[i]
  BY <1>1, <1>7
<1>10. (orders \o <<bases>>)[n + 1] = bases
  BY <1>1, <1>4, <1>7
<1> QED
  BY <1>1, <1>2, <1>5, <1>6, <1>7, <1>8, <1>9, <1>10 DEF bases, n

\* The equation that defines the linearizations.
LinearizedBy(f, c) ==
    LET merged == MergeC3(MergedFrom(f, c))
    IN  IF (\A b \in ToSet(classes[c]) : f[b].ok) /\ merged.ok
        THEN [ok |-> TRUE, mro |-> <<c>> \o merged.mro] ELSE Inconsistent

LEMMA LinearizedByType ==
    ASSUME Hierarchy, NEW f, NEW c \in Known, \A b \in ToSet(classes[c]) : f[b] \in Results(Known)
    PROVE  LinearizedBy(f, c) \in Results(Known)
<1>1. Inconsistent \in Results(Known)
  BY EmptySeq DEF Inconsistent, Results
<1>2. MergedFrom(f, c) \in Seq(Seq(Known))
  BY MergedFromIs DEF Results
<1>3. MergeC3(MergedFrom(f, c)).mro \in Seq(Known)
  BY <1>2, MergeC3Is DEF Results
<1>4. <<c>> \o MergeC3(MergedFrom(f, c)).mro \in Seq(Known)
  BY <1>3, Prepend
<1> QED
  BY <1>1, <1>4 DEF LinearizedBy, Results

LEMMA LinearizationsAre ==
    ASSUME Hierarchy
    PROVE  \A c \in Known : /\ Linearizations[c] \in Results(Known)
                            /\ Linearizations[c] = LinearizedBy(Linearizations, c)
<1> DEFINE S == Known
           V == Results(S)
           step == [p \in S \X [S -> V] |-> LinearizedBy(p[2], p[1])]
<1>1. PICK rank : Ranks(rank)
  BY DEF Hierarchy
<1>2. \A c \in S : \A b \in ToSet(classes[c]) : b \in S /\ rank[b] < rank[c]
  BY <1>1 DEF Hierarchy, ToSet, Ranks
<1>3. step \in [S \X [S -> V] -> V]
  <2> SUFFICES ASSUME NEW p \in S \X [S -> V] PROVE LinearizedBy(p[2], p[1]) \in V
    OBVIOUS
  <2> QED
    BY <1>2, LinearizedByType
<1>4. ASSUME NEW c \in S, NEW f, NEW g, \A b \in ToSet(classes[c]) : f[b] = g[b]
      PROVE  LinearizedBy(f, c) = LinearizedBy(g, c)
  <2>1. [i \in DOMAIN classes[c] |-> f[classes[c][i]].mro] = [i \in DOMAIN classes[c] |-> g[classes[c][i]].mro]
    BY <1>4 DEF ToSet
  <2> QED
    BY <1>4, <2>1 DEF LinearizedBy, MergedFrom
<1>5. \A c \in S : \A f, g \in [S -> V] :
         (\A b \in S : rank[b] < rank[c] => f[b] = g[b]) => step[<<c, f>>] = step[<<c, g>>]
  <2> SUFFICES ASSUME NEW c \in S, NEW f \in [S -> V], NEW g \in [S -> V],
                      \A b \in S : rank[b] < rank[c] => f[b] = g[b]
               PROVE  step[<<c, f>>] = step[<<c, g>>]
    BY Zenon
  <2>1. LinearizedBy(f, c) = LinearizedBy(g, c)
    BY <1>2, <1>4
  <2> HIDE DEF V
  <2> QED
    BY <2>1
<1>6. DefinesByRank(S, V, rank, step)
  <2>1. rank \in [S -> Nat]
    BY <1>1 DEF Ranks
  <2> HIDE DEF step, S, V
  <2> QED
    BY <1>3, <1>5, <2>1 DEF DefinesByRank
<1>7. Solvable(S, V, step)
  <2>1. Inconsistent \in V
    BY EmptySeq DEF Inconsistent, Results
  <2> HIDE DEF step, S, V
  <2> QED
    BY <1>6, <2>1, RankRecursion
<1>8. \E f : f = [c \in S |-> LinearizedBy(f, c)]
  <2>1. PICK f \in [S -> V] : \A c \in S : f[c] = step[<<c, f>>]
    BY <1>7 DEF Solvable
  <2>2. \A c \in S : f[c] = LinearizedBy(f, c)
    <3> HIDE DEF V
    <3> QED
      BY <2>1
  <2>3. f = [c \in S |-> LinearizedBy(f, c)]
    <3> HIDE DEF V
    <3> QED
      BY <2>1, <2>2
  <2> QED
    BY <2>3
<1> DEFINE Body(f, c) ==
             LET of == [b \in ToSet(classes[c]) |-> f[b]]
                 orders == [i \in DOMAIN classes[c] |-> of[classes[c][i]].mro]
                 merged == MergeC3(SequencesToMerge(orders, classes[c]))
             IN  IF (\A b \in DOMAIN of : of[b].ok) /\ merged.ok
                 THEN [ok |-> TRUE, mro |-> <<c>> \o merged.mro]
                 ELSE Inconsistent
<1>9. ASSUME NEW f, NEW c \in S PROVE Body(f, c) = LinearizedBy(f, c)
  <2>1. [i \in DOMAIN classes[c] |-> [b \in ToSet(classes[c]) |-> f[b]][classes[c][i]].mro]
          = [i \in DOMAIN classes[c] |-> f[classes[c][i]].mro]
    BY DEF ToSet
  <2> QED
    BY <2>1 DEF LinearizedBy, MergedFrom
<1>10. Linearizations = CHOOSE f : f = [c \in S |-> Body(f, c)]
  BY DEF Linearizations
<1>11. \A f : [c \in S |-> Body(f, c)] = [c \in S |-> LinearizedBy(f, c)]
  <2> HIDE DEF Body, S
  <2> QED
    BY <1>9
<1>12. Linearizations = [c \in S |-> LinearizedBy(Linearizations, c)]
  <2> HIDE DEF Body, S
  <2> QED
    BY <1>8, <1>10, <1>11
<1>13. \A c \in S : Linearizations[c] = LinearizedBy(Linearizations, c)
  BY <1>12
<1> DEFINE T == {c \in S : Linearizations[c] \in V}
<1>14. ASSUME NEW c \in S, ToSet(classes[c]) \subseteq T PROVE c \in T
  <2>1. \A b \in ToSet(classes[c]) : Linearizations[b] \in Results(Known)
    BY <1>14
  <2> QED
    BY <1>13, <2>1, LinearizedByType
<1>15. S \subseteq T
  <2> HIDE DEF T
  <2> QED
    BY <1>14, HierarchyInduction
<1> QED
  BY <1>13, <1>15

\* What a class inherits from: itself, and what its bases inherit from.
LEMMA AncestryIs ==
    ASSUME Hierarchy
    PROVE  \A c \in Known : /\ Ancestry(c) \in SUBSET Known
                            /\ Ancestry(c) = {c} \cup UNION {Ancestry(b) : b \in ToSet(classes[c])}
<1> DEFINE S == Known
           V == SUBSET S
           Body(f, c) == {c} \cup UNION {f[b] : b \in ToSet(classes[c])}
           step == [p \in S \X [S -> V] |-> Body(p[2], p[1])]
<1>1. PICK rank : Ranks(rank)
  BY DEF Hierarchy
<1>2. \A c \in S : \A b \in ToSet(classes[c]) : b \in S /\ rank[b] < rank[c]
  BY <1>1 DEF Hierarchy, ToSet, Ranks
<1>3. step \in [S \X [S -> V] -> V]
  <2> SUFFICES ASSUME NEW c \in S, NEW f \in [S -> V] PROVE Body(f, c) \in V
    OBVIOUS
  <2>1. \A b \in ToSet(classes[c]) : f[b] \subseteq S
    BY <1>2
  <2> QED
    BY <2>1
<1>4. ASSUME NEW c \in S, NEW f, NEW g, \A b \in ToSet(classes[c]) : f[b] = g[b]
      PROVE  Body(f, c) = Body(g, c)
  <2>1. {f[b] : b \in ToSet(classes[c])} = {g[b] : b \in ToSet(classes[c])}
    BY <1>4
  <2> QED
    BY <2>1
<1> HIDE DEF Body
<1>5. \A c \in S : \A f, g \in [S -> V] :
         (\A b \in S : rank[b] < rank[c] => f[b] = g[b]) => step[<<c, f>>] = step[<<c, g>>]
  <2> SUFFICES ASSUME NEW c \in S, NEW f \in [S -> V], NEW g \in [S -> V],
                      \A b \in S : rank[b] < rank[c] => f[b] = g[b]
               PROVE  step[<<c, f>>] = step[<<c, g>>]
    BY Zenon
  <2>1. Body(f, c) = Body(g, c)
    BY <1>2, <1>4
  <2> HIDE DEF V
  <2> QED
    BY <2>1
<1>6. DefinesByRank(S, V, rank, step)
  <2>1. rank \in [S -> Nat]
    BY <1>1 DEF Ranks
  <2> HIDE DEF step, S, V
  <2> QED
    BY <1>3, <1>5, <2>1 DEF DefinesByRank
<1>7. Solvable(S, V, step)
  <2>1. {} \in V
    OBVIOUS
  <2> HIDE DEF step, S, V
  <2> QED
    BY <1>6, <2>1, RankRecursion
<1>8. \E f : f = [c \in S |-> Body(f, c)]
  <2>1. PICK f \in [S -> V] : \A c \in S : f[c] = step[<<c, f>>]
    BY <1>7 DEF Solvable
  <2>2. \A c \in S : f[c] = Body(f, c)
    <3> HIDE DEF V
    <3> QED
      BY <2>1
  <2>3. f = [c \in S |-> Body(f, c)]
    <3> HIDE DEF V
    <3> QED
      BY <2>1, <2>2
  <2> QED
    BY <2>3
<1> DEFINE up == CHOOSE f : f = [c \in S |-> Body(f, c)]
<1>9. up = [c \in S |-> Body(up, c)]
  <2> HIDE DEF S
  <2> QED
    BY <1>8
<1>10. \A c : Ancestry(c) = up[c]
  BY DEF Ancestry, Body
<1> HIDE DEF up
<1>11. \A c \in S : Ancestry(c) = {c} \cup UNION {Ancestry(b) : b \in ToSet(classes[c])}
  <2> SUFFICES ASSUME NEW c \in S
               PROVE  up[c] = {c} \cup UNION {up[b] : b \in ToSet(classes[c])}
    BY <1>10
  <2> QED
    BY <1>9 DEF Body
<1> DEFINE T == {c \in S : Ancestry(c) \subseteq S}
<1>12. ASSUME NEW c \in S, ToSet(classes[c]) \subseteq T PROVE c \in T
  BY <1>11, <1>12
<1>13. S \subseteq T
  <2> HIDE DEF T
  <2> QED
    BY <1>12, HierarchyInduction
<1> QED
  BY <1>11, <1>13

LEMMA AncestryParts ==
    ASSUME Hierarchy, NEW c \in Known
    PROVE  /\ c \in Ancestry(c)
           /\ \A b \in ToSet(classes[c]) : b \in Known /\ b \in Ancestry(b) /\ Ancestry(b) \subseteq Ancestry(c)
           /\ \A d \in Ancestry(c) : d = c \/ \E b \in ToSet(classes[c]) : d \in Ancestry(b)
<1>1. ToSet(classes[c]) \subseteq Known
  BY DEF Hierarchy, ToSet
<1>2. Ancestry(c) = {c} \cup UNION {Ancestry(b) : b \in ToSet(classes[c])}
  BY AncestryIs
<1>3. \A b \in Known : b \in Ancestry(b)
  BY AncestryIs
<1> QED
  BY <1>1, <1>2, <1>3

LEMMA AncestryTransitive ==
    ASSUME Hierarchy
    PROVE  \A c \in Known : \A d \in Ancestry(c) : d \in Known /\ Ancestry(d) \subseteq Ancestry(c)
<1> DEFINE T == {c \in Known : \A d \in Ancestry(c) : Ancestry(d) \subseteq Ancestry(c)}
<1>1. ASSUME NEW c \in Known, ToSet(classes[c]) \subseteq T PROVE c \in T
  <2> SUFFICES ASSUME NEW d \in Ancestry(c) PROVE Ancestry(d) \subseteq Ancestry(c)
    OBVIOUS
  <2>1. CASE d = c
    BY <2>1
  <2>2. ASSUME NEW b \in ToSet(classes[c]), d \in Ancestry(b) PROVE Ancestry(d) \subseteq Ancestry(c)
    <3>1. Ancestry(d) \subseteq Ancestry(b)
      BY <1>1, <2>2
    <3> QED
      BY <3>1, AncestryParts
  <2> QED
    BY <2>1, <2>2, AncestryParts
<1> HIDE DEF T
<1>2. Known \subseteq T
  BY <1>1, HierarchyInduction
<1> QED
  BY <1>2, AncestryIs DEF T

\* No class inherits from itself.
LEMMA NoCycle ==
    ASSUME Hierarchy, NEW c \in Known, NEW b \in ToSet(classes[c])
    PROVE  c \notin Ancestry(b)
<1>1. PICK rank : Ranks(rank)
  BY DEF Hierarchy
<1> DEFINE T == {d \in Known : \A a \in Ancestry(d) : rank[a] <= rank[d]}
<1>2. ASSUME NEW d \in Known, ToSet(classes[d]) \subseteq T PROVE d \in T
  <2> SUFFICES ASSUME NEW a \in Ancestry(d) PROVE rank[a] <= rank[d]
    OBVIOUS
  <2>1. CASE a = d
    BY <1>1, <2>1 DEF Ranks
  <2>2. ASSUME NEW e \in ToSet(classes[d]), a \in Ancestry(e) PROVE rank[a] <= rank[d]
    <3>1. rank[a] <= rank[e] /\ rank[e] < rank[d]
      BY <1>1, <1>2, <2>2 DEF Ranks
    <3>2. a \in Known /\ e \in Known
      BY <2>2, AncestryIs, AncestryParts
    <3>3. rank[a] \in Nat /\ rank[e] \in Nat /\ rank[d] \in Nat
      BY <1>1, <3>2 DEF Ranks
    <3> QED
      BY <3>1, <3>3
  <2> QED
    BY <2>1, <2>2, AncestryParts
<1>3. Known \subseteq T
  <2> HIDE DEF T
  <2> QED
    BY <1>2, HierarchyInduction
<1>4. b \in Known
  BY AncestryParts
<1>5. rank[b] < rank[c] /\ rank[b] \in Nat /\ rank[c] \in Nat
  BY <1>1, <1>4 DEF Ranks
<1> QED
  BY <1>3, <1>4, <1>5

\* The order of a class, from those of its bases.
LEMMA OrderOf ==
    ASSUME Hierarchy, NEW c \in Known, Linearizations[c].ok
    PROVE  LET merged == MergeC3(MergedFrom(Linearizations, c))
           IN  /\ \A b \in ToSet(classes[c]) : Linearizations[b].ok
               /\ merged.ok /\ merged.mro \in Seq(Known)
               /\ Linearizations[c].mro = <<c>> \o merged.mro
<1>1. Linearizations[c] = LinearizedBy(Linearizations, c)
  BY LinearizationsAre
<1>2. ~Inconsistent.ok
  BY DEF Inconsistent
<1>3. \A b \in ToSet(classes[c]) : b \in Known /\ Linearizations[b].mro \in Seq(Known)
  BY LinearizationsAre, AncestryParts DEF Results
<1>4. MergedFrom(Linearizations, c) \in Seq(Seq(Known))
  BY <1>3, MergedFromIs
<1>5. MergeC3(MergedFrom(Linearizations, c)).mro \in Seq(Known)
  BY <1>4, MergeC3Is DEF Results
<1> QED
  BY <1>1, <1>2, <1>5 DEF LinearizedBy

\* The order of a class holds what the class inherits from.
LEMMA OrderHolds ==
    ASSUME Hierarchy
    PROVE  \A c \in Known : Linearizations[c].ok => ToSet(Linearizations[c].mro) = Ancestry(c)
<1> DEFINE lin == Linearizations
           T == {c \in Known : lin[c].ok => ToSet(lin[c].mro) = Ancestry(c)}
<1>1. ASSUME NEW c \in Known, ToSet(classes[c]) \subseteq T PROVE c \in T
  <2> SUFFICES ASSUME lin[c].ok PROVE ToSet(lin[c].mro) = Ancestry(c)
    OBVIOUS
  <2> DEFINE seqs == MergedFrom(lin, c)
             n == Len(classes[c])
  <2>1. /\ \A b \in ToSet(classes[c]) : lin[b].ok
        /\ MergeC3(seqs).ok /\ MergeC3(seqs).mro \in Seq(Known)
        /\ lin[c].mro = <<c>> \o MergeC3(seqs).mro
    BY OrderOf
  <2>2. \A b \in ToSet(classes[c]) : b \in Known /\ lin[b].mro \in Seq(Known)
    BY LinearizationsAre, AncestryParts DEF Results
  <2>3. /\ seqs \in Seq(Seq(Known)) /\ DOMAIN seqs = 1..n + 1 /\ n \in Nat /\ DOMAIN classes[c] = 1..n
        /\ \A i \in 1..n : classes[c][i] \in ToSet(classes[c]) /\ seqs[i] = lin[classes[c][i]].mro
        /\ seqs[n + 1] = classes[c]
    BY <2>2, MergedFromIs
  <2> HIDE DEF seqs, n, lin
  <2>4. ToSet(lin[c].mro) = {c} \cup UNION {ToSet(seqs[i]) : i \in DOMAIN seqs}
    <3>1. ToSet(MergeC3(seqs).mro) = UNION {ToSet(seqs[i]) : i \in DOMAIN seqs}
      BY <2>1, <2>3, MergeC3Is
    <3>2. ToSet(<<c>> \o MergeC3(seqs).mro) = {c} \cup ToSet(MergeC3(seqs).mro)
      BY <2>1, Prepend
    <3> QED
      BY <2>1, <3>1, <3>2
  <2>5. ASSUME NEW x PROVE x \in ToSet(lin[c].mro) <=> x \in Ancestry(c)
    <3>1. ASSUME x \in ToSet(lin[c].mro), x # c PROVE x \in Ancestry(c)
      <4>1. PICK i \in 1..n + 1 : x \in ToSet(seqs[i])
        BY <2>3, <2>4, <3>1
      <4>2. CASE i = n + 1
        BY <2>3, <4>1, <4>2, AncestryParts
      <4>3. CASE i # n + 1
        <5>1. i \in 1..n
          BY <2>3, <4>3
        <5>2. x \in ToSet(lin[classes[c][i]].mro) /\ classes[c][i] \in ToSet(classes[c])
          BY <2>3, <4>1, <5>1
        <5>3. x \in Ancestry(classes[c][i])
          BY <1>1, <2>1, <5>2
        <5> QED
          BY <5>2, <5>3, AncestryParts
      <4> QED
        BY <4>2, <4>3
    <3>2. ASSUME x \in Ancestry(c), x # c PROVE x \in ToSet(lin[c].mro)
      <4>1. PICK b \in ToSet(classes[c]) : x \in Ancestry(b)
        BY <3>2, AncestryParts
      <4>2. PICK i \in 1..n : b = classes[c][i]
        BY <2>3 DEF ToSet
      <4>3. x \in ToSet(seqs[i])
        BY <1>1, <2>1, <2>3, <4>1, <4>2
      <4>4. i \in DOMAIN seqs
        BY <2>3
      <4> QED
        BY <2>4, <4>3, <4>4
    <3> QED
      BY <2>4, <3>1, <3>2, AncestryParts
  <2> QED
    BY <2>5
<1> HIDE DEF T
<1>2. Known \subseteq T
  BY <1>1, HierarchyInduction
<1> QED
  BY <1>2 DEF T

\* It begins with the class, keeps the orders of the bases and the order of the base
\* list, and names nothing twice when they do not.
LEMMA OrderKeeps ==
    ASSUME Hierarchy, NEW c \in Known, Linearizations[c].ok
    PROVE  LET order == Linearizations[c].mro
           IN  /\ \A x \in Ancestry(c) \ {c} : InOrder(order, c, x)
               /\ \A x, y \in ToSet(classes[c]) : InOrder(classes[c], x, y) => InOrder(order, x, y)
               /\ \A b \in ToSet(classes[c]) : \A x, y \in Ancestry(b) :
                     InOrder(Linearizations[b].mro, x, y) => InOrder(order, x, y)
               /\ Distinct(classes[c]) /\ (\A b \in ToSet(classes[c]) : Distinct(Linearizations[b].mro))
                     => Distinct(order)
<1> DEFINE lin == Linearizations
           seqs == MergedFrom(lin, c)
           n == Len(classes[c])
           merged == MergeC3(seqs)
<1>1. /\ \A b \in ToSet(classes[c]) : lin[b].ok
      /\ merged.ok /\ merged.mro \in Seq(Known)
      /\ lin[c].mro = <<c>> \o merged.mro
  BY OrderOf
<1>2. \A b \in ToSet(classes[c]) :
         b \in Known /\ lin[b].mro \in Seq(Known) /\ ToSet(lin[b].mro) = Ancestry(b)
  BY <1>1, LinearizationsAre, AncestryParts, OrderHolds DEF Results
<1>3. /\ seqs \in Seq(Seq(Known)) /\ DOMAIN seqs = 1..n + 1 /\ n \in Nat /\ DOMAIN classes[c] = 1..n
      /\ \A i \in 1..n : classes[c][i] \in ToSet(classes[c]) /\ seqs[i] = lin[classes[c][i]].mro
      /\ seqs[n + 1] = classes[c]
  BY <1>2, MergedFromIs
<1>4. n + 1 \in DOMAIN seqs /\ \A i \in 1..n : i \in DOMAIN seqs
  BY <1>3
<1>5. ToSet(lin[c].mro) = Ancestry(c)
  BY OrderHolds
<1>6. \A x \in Ancestry(c) \ {c} : InOrder(lin[c].mro, c, x)
  BY <1>1, InOrderPrepend
<1> HIDE DEF lin, seqs, n, merged
<1>7. /\ ToSet(merged.mro) = UNION {ToSet(seqs[i]) : i \in DOMAIN seqs}
      /\ \A i \in DOMAIN seqs : \A x, y \in ToSet(seqs[i]) :
            InOrder(seqs[i], x, y) => InOrder(merged.mro, x, y)
      /\ (\A i \in DOMAIN seqs : Distinct(seqs[i])) => Distinct(merged.mro)
  BY <1>1, <1>3, MergeC3Is DEF merged
\* The class itself is in none of what is merged.
<1>8. \A b \in ToSet(classes[c]) : b # c /\ c \notin Ancestry(b)
  BY NoCycle, AncestryParts
<1>9. ASSUME NEW x \in ToSet(classes[c]), NEW y \in ToSet(classes[c]), InOrder(classes[c], x, y)
      PROVE  InOrder(lin[c].mro, x, y)
  <2>1. InOrder(merged.mro, x, y)
    BY <1>3, <1>4, <1>7, <1>9
  <2> QED
    BY <1>1, <1>8, <2>1, InOrderPrepend
<1>10. ASSUME NEW b \in ToSet(classes[c]), NEW x \in Ancestry(b), NEW y \in Ancestry(b),
              InOrder(lin[b].mro, x, y)
       PROVE  InOrder(lin[c].mro, x, y)
  <2>1. PICK i \in 1..n : b = classes[c][i]
    BY <1>3 DEF ToSet
  <2>2. seqs[i] = lin[b].mro /\ i \in DOMAIN seqs
    BY <1>3, <1>4, <2>1
  <2>3. InOrder(merged.mro, x, y)
    BY <1>2, <1>7, <1>10, <2>2
  <2>4. y # c
    BY <1>8
  <2> QED
    BY <1>1, <2>3, <2>4, InOrderPrepend
<1>11. ASSUME Distinct(classes[c]), \A b \in ToSet(classes[c]) : Distinct(lin[b].mro)
       PROVE  Distinct(lin[c].mro)
  <2>1. ASSUME NEW i \in DOMAIN seqs PROVE Distinct(seqs[i]) /\ c \notin ToSet(seqs[i])
    <3>1. CASE i = n + 1
      BY <1>3, <1>8, <1>11, <3>1
    <3>2. CASE i # n + 1
      <4>1. i \in 1..n
        BY <1>3, <3>2
      <4> QED
        BY <1>2, <1>3, <1>8, <1>11, <4>1
    <3> QED
      BY <3>1, <3>2
  <2>2. Distinct(merged.mro) /\ c \notin ToSet(merged.mro)
    BY <1>7, <2>1
  <2> QED
    BY <1>1, <2>2, DistinctPrepend
<1> QED
  BY <1>6, <1>9, <1>10, <1>11 DEF lin

\* What holds of a class in the order of any class holds in those of all that inherit
\* from it.
LEMMA OrderInherits ==
    ASSUME Hierarchy
    PROVE  \A c \in Known : Linearizations[c].ok => \A d \in Ancestry(c) :
              /\ Linearizations[d].ok
              /\ \A x, y \in Ancestry(d) :
                    InOrder(Linearizations[d].mro, x, y) => InOrder(Linearizations[c].mro, x, y)
<1> DEFINE lin == Linearizations
           Agrees(c, d) == lin[d].ok /\ \A x, y \in Ancestry(d) :
                              InOrder(lin[d].mro, x, y) => InOrder(lin[c].mro, x, y)
           T == {c \in Known : lin[c].ok => \A d \in Ancestry(c) : Agrees(c, d)}
<1>1. ASSUME NEW c \in Known, ToSet(classes[c]) \subseteq T PROVE c \in T
  <2> SUFFICES ASSUME lin[c].ok, NEW d \in Ancestry(c) PROVE Agrees(c, d)
    OBVIOUS
  <2>1. CASE d = c
    BY <2>1
  <2>2. ASSUME NEW b \in ToSet(classes[c]), d \in Ancestry(b) PROVE Agrees(c, d)
    <3>1. lin[b].ok /\ b \in Known
      BY OrderOf, AncestryParts
    <3>2. Agrees(b, d)
      BY <1>1, <2>2, <3>1
    <3>3. \A x, y \in Ancestry(b) : InOrder(lin[b].mro, x, y) => InOrder(lin[c].mro, x, y)
      BY OrderKeeps
    <3>4. Ancestry(d) \subseteq Ancestry(b)
      BY <2>2, <3>1, AncestryTransitive
    <3> QED
      BY <3>2, <3>3, <3>4
  <2> QED
    BY <2>1, <2>2, AncestryParts
<1> HIDE DEF T
<1>2. Known \subseteq T
  BY <1>1, HierarchyInduction
<1> QED
  BY <1>2 DEF T

\* Every class of an order stands before all it inherits from, and the bases of each in
\* the order of their list.
LEMMA OrderExtends ==
    ASSUME Hierarchy, NEW c \in Known, Linearizations[c].ok, NEW d \in Ancestry(c)
    PROVE  /\ \A x \in Ancestry(d) \ {d} : InOrder(Linearizations[c].mro, d, x)
           /\ \A x, y \in ToSet(classes[d]) :
                 InOrder(classes[d], x, y) => InOrder(Linearizations[c].mro, x, y)
<1>1. d \in Known /\ d \in Ancestry(d) /\ Linearizations[d].ok
  BY AncestryTransitive, AncestryParts, OrderInherits
<1>2. \A x, y \in Ancestry(d) :
         InOrder(Linearizations[d].mro, x, y) => InOrder(Linearizations[c].mro, x, y)
  BY OrderInherits
<1>3. ToSet(classes[d]) \subseteq Ancestry(d)
  BY <1>1, AncestryParts
<1> QED
  BY <1>1, <1>2, <1>3, OrderKeeps

LEMMA OrderDistinct ==
    ASSUME Hierarchy
    PROVE  \A c \in Known : Linearizations[c].ok /\ (\A d \in Ancestry(c) : Distinct(classes[d]))
                               => Distinct(Linearizations[c].mro)
<1> DEFINE T == {c \in Known : Linearizations[c].ok /\ (\A d \in Ancestry(c) : Distinct(classes[d]))
                                  => Distinct(Linearizations[c].mro)}
<1>1. ASSUME NEW c \in Known, ToSet(classes[c]) \subseteq T PROVE c \in T
  <2> SUFFICES ASSUME Linearizations[c].ok, \A d \in Ancestry(c) : Distinct(classes[d])
               PROVE  Distinct(Linearizations[c].mro)
    OBVIOUS
  <2>1. \A b \in ToSet(classes[c]) : Distinct(Linearizations[b].mro)
    BY <1>1, OrderOf, AncestryParts
  <2> QED
    BY <2>1, OrderKeeps, AncestryParts
<1> HIDE DEF T
<1>2. Known \subseteq T
  BY <1>1, HierarchyInduction
<1> QED
  BY <1>2 DEF T

-----------------------------------------------------------------------------
(* RegisterModuleClasses                                                   *)

\* No declaration is lost: each waits, or is registered with all its bases.
Waiting == ToSet(pending) \cup ToSet(next_round)
NoneLost ==
    \A decl \in ToSet(module) :
        decl \in Waiting \/ (decl.name \in Known /\ ToSet(decl.bases) \subseteq Known)

\* While a round has registered nothing, what it has postponed still cannot be
\* registered, and there is something to do.
NoProgress ==
    status = "running" /\ ~progressed =>
        /\ \A decl \in ToSet(next_round) : ~Ready(decl)
        /\ Waiting # {}

LoopInv ==
    /\ module \in Seq(Declarations)
    /\ pending \in Seq(Declarations) /\ next_round \in Seq(Declarations)
    /\ Waiting \subseteq ToSet(module)
    /\ available = Known /\ Known \subseteq Resolvable
    /\ NoneLost /\ NoProgress

IInv == (status # "idle" => LoopInv) /\ LoadResolves

\* A name is resolvable when it is declared with bases that are.
ClosedNames(S) ==
    \A decl \in ToSet(module) : ToSet(decl.bases) \subseteq S => decl.name \in S

LEMMA ResolvableLeast ==
    /\ Resolvable = {x \in {decl.name : decl \in ToSet(module)} :
                       \A S \in SUBSET {decl.name : decl \in ToSet(module)} :
                          ClosedNames(S) => x \in S}
    /\ ClosedNames(Resolvable)
<1> DEFINE names == {module[i].name : i \in DOMAIN module}
           Closed(S) == \A i \in DOMAIN module :
                           ToSet(module[i].bases) \subseteq S => module[i].name \in S
<1>1. names = {decl.name : decl \in ToSet(module)}
  BY DEF ToSet
<1>2. ASSUME NEW S PROVE Closed(S) <=> ClosedNames(S)
  BY DEF ToSet, ClosedNames
<1>3. Resolvable = {x \in names : \A S \in SUBSET names : Closed(S) => x \in S}
  BY DEF Resolvable
<1>4. Resolvable = {x \in names : \A S \in SUBSET names : ClosedNames(S) => x \in S}
  <2> HIDE DEF names, Closed
  <2> QED
    BY <1>2, <1>3
<1>5. ASSUME NEW decl \in ToSet(module), ToSet(decl.bases) \subseteq Resolvable
      PROVE  decl.name \in Resolvable
  <2>1. decl.name \in names
    BY <1>1, <1>5
  <2>2. ASSUME NEW S \in SUBSET names, ClosedNames(S) PROVE decl.name \in S
    <3>1. Resolvable \subseteq S
      BY <1>4, <2>2
    <3> QED
      BY <1>5, <2>2, <3>1 DEF ClosedNames
  <2> QED
    BY <1>4, <2>1, <2>2
<1> QED
  BY <1>1, <1>4, <1>5 DEF ClosedNames

\* When what was registered is closed, it is everything that can be registered.
LEMMA ClosedIsAll ==
    ASSUME Known \subseteq Resolvable, ClosedNames(Known)
    PROVE  Known = Resolvable
<1>1. Known \in SUBSET {decl.name : decl \in ToSet(module)}
  BY ResolvableLeast
<1>2. Resolvable \subseteq Known
  BY <1>1, ResolvableLeast
<1> QED
  BY <1>2

\* LoadResolves, over the declarations themselves.
LEMMA LoadResolvesMeans ==
    LoadResolves <=>
      (status \in {"ok", "failed"} =>
         /\ Known = Resolvable
         /\ status = "ok" <=> \A decl \in ToSet(module) : ToSet(decl.bases) \subseteq Resolvable)
BY DEF LoadResolves, ToSet

LEMMA KnownAfter ==
    ASSUME NEW n, NEW bases, Registers(n, bases)
    PROVE  Known' = Known \cup {n}
BY DEF Registers, Extended, Known

LEMMA StartInv ==
    ASSUME NEW m \in Modules, StartModule(m) PROVE IInv'
<1>1. m \in Seq(Declarations)
  BY MetadataAssumption
<1>2. /\ module' = m /\ pending' = m /\ next_round' = <<>> /\ progressed' = FALSE
      /\ available' = {} /\ Known = {} /\ Known' = {}
      /\ status' = IF m = <<>> THEN "ok" ELSE "running"
  BY DEF StartModule, Known
<1>3. Waiting' = ToSet(m) /\ ToSet(next_round') = {}
  BY <1>2, ToSetEmpty DEF Waiting
<1>4. <<>> \in Seq(Declarations)
  OBVIOUS
<1>5. NoneLost'
  BY <1>2, <1>3 DEF NoneLost
<1>6. NoProgress'
  <2>1. CASE m = <<>>
    BY <1>2, <2>1 DEF NoProgress
  <2>2. CASE m # <<>>
    <3>1. Waiting' # {}
      BY <1>1, <1>3, <2>2, ToSetTail
    <3> QED
      BY <1>3, <3>1 DEF NoProgress
  <2> QED
    BY <2>1, <2>2
<1>7. LoopInv'
  BY <1>1, <1>2, <1>3, <1>4, <1>5, <1>6 DEF LoopInv
<1>8. LoadResolves'
  <2>1. CASE m = <<>>
    <3>1. DOMAIN module' = {}
      BY <1>2, <2>1
    <3>2. Resolvable' = {}
      BY <3>1 DEF Resolvable
    <3> QED
      BY <1>2, <2>1, <3>1, <3>2 DEF LoadResolves
  <2>2. CASE m # <<>>
    BY <1>2, <2>2 DEF LoadResolves
  <2> QED
    BY <2>1, <2>2
<1> QED
  BY <1>7, <1>8 DEF IInv

LEMMA PostponeInv ==
    ASSUME IInv, Postpone PROVE IInv'
<1> DEFINE decl == Head(pending)
<1>1. /\ status = "running" /\ status' = "running" /\ pending # <<>> /\ ~Ready(decl)
      /\ next_round' = Append(next_round, decl) /\ pending' = Tail(pending)
      /\ UNCHANGED <<classes, module, available, progressed>>
  BY DEF Postpone
<1>2. LoopInv
  BY <1>1 DEF IInv
<1>3. decl \in Declarations /\ pending' \in Seq(Declarations)
      /\ ToSet(pending) = {decl} \cup ToSet(pending')
  BY <1>1, <1>2, ToSetTail DEF LoopInv
<1>4. next_round' \in Seq(Declarations) /\ ToSet(next_round') = ToSet(next_round) \cup {decl}
  BY <1>1, <1>2, <1>3, ToSetAppend, AppendProperties DEF LoopInv
<1> HIDE DEF decl
<1>5. Waiting' = Waiting /\ Known' = Known /\ Resolvable' = Resolvable
  BY <1>1, <1>3, <1>4 DEF Waiting, Known, Resolvable
<1>6. NoProgress'
  BY <1>1, <1>2, <1>3, <1>4, <1>5 DEF LoopInv, NoProgress, Ready, Waiting
<1>7. LoopInv'
  BY <1>1, <1>2, <1>3, <1>4, <1>5, <1>6 DEF LoopInv, NoneLost
<1> QED
  BY <1>1, <1>7 DEF IInv, LoadResolves

LEMMA RegisterInv ==
    ASSUME IInv, RegisterDeclared PROVE IInv'
<1> DEFINE decl == Head(pending)
           refused == decl.name \notin Known /\ ~(ToSet(decl.bases) \subseteq Known)
<1>1. /\ status = "running" /\ pending # <<>> /\ Ready(decl)
      /\ IF decl.name \in Known \/ refused
         THEN UNCHANGED <<classes, mro_cache>>
         ELSE Registers(decl.name, decl.bases)
      /\ status' = IF refused THEN "failed" ELSE status
      /\ available' = available \cup {decl.name}
      /\ progressed' = TRUE /\ pending' = Tail(pending)
      /\ UNCHANGED <<module, next_round>>
  BY DEF RegisterDeclared
<1>2. LoopInv
  BY <1>1 DEF IInv
<1>3. /\ decl \in Declarations /\ pending' \in Seq(Declarations)
      /\ ToSet(pending) = {decl} \cup ToSet(pending')
  BY <1>1, <1>2, ToSetTail DEF LoopInv
<1> HIDE DEF decl
<1>4. ToSet(decl.bases) \subseteq Known /\ ~refused
  BY <1>1, <1>2 DEF LoopInv, Ready
<1>5. Known' = Known \cup {decl.name} /\ available' = Known' /\ status' = "running"
  <2>1. CASE decl.name \in Known
    BY <1>1, <1>2, <1>4, <2>1 DEF Known, LoopInv
  <2>2. CASE decl.name \notin Known
    BY <1>1, <1>2, <1>4, <2>2, KnownAfter DEF LoopInv
  <2> QED
    BY <2>1, <2>2
<1>6. Resolvable' = Resolvable /\ ToSet(module)' = ToSet(module)
  BY <1>1 DEF Resolvable
<1>7. Waiting' \subseteq Waiting /\ Waiting \subseteq Waiting' \cup {decl} /\ decl \in ToSet(module)
  BY <1>1, <1>2, <1>3 DEF Waiting, LoopInv
<1>8. Known' \subseteq Resolvable'
  BY <1>2, <1>4, <1>5, <1>6, <1>7, ResolvableLeast DEF LoopInv, ClosedNames
<1>9. NoneLost'
  BY <1>2, <1>4, <1>5, <1>6, <1>7 DEF LoopInv, NoneLost
<1>10. LoopInv'
  BY <1>1, <1>2, <1>3, <1>5, <1>6, <1>7, <1>8, <1>9 DEF LoopInv, NoProgress
<1> QED
  BY <1>5, <1>10 DEF IInv, LoadResolves

LEMMA EndRoundInv ==
    ASSUME IInv, EndRound PROVE IInv'
<1>1. /\ status = "running" /\ pending = <<>>
      /\ pending' = next_round /\ next_round' = <<>> /\ progressed' = FALSE
      /\ status' = IF ~progressed THEN "failed" ELSE IF next_round = <<>> THEN "ok" ELSE "running"
      /\ UNCHANGED <<classes, module, available>>
  BY DEF EndRound, RoundFails
<1>2. LoopInv
  BY <1>1 DEF IInv
<1>3. Waiting = ToSet(next_round) /\ Waiting' = Waiting /\ ToSet(next_round)' = {}
  BY <1>1, ToSetEmpty DEF Waiting
<1>4. Known' = Known /\ Resolvable' = Resolvable /\ ToSet(module)' = ToSet(module)
  BY <1>1 DEF Known, Resolvable
<1>5. next_round # <<>> => Waiting # {}
  BY <1>2, <1>3, ToSetTail DEF LoopInv
<1>6. NoProgress'
  BY <1>1, <1>3, <1>5 DEF NoProgress
<1>7. LoopInv'
  <2>1. <<>> \in Seq(Declarations)
    OBVIOUS
  <2> QED
    BY <1>1, <1>2, <1>3, <1>4, <1>6, <2>1 DEF LoopInv, NoneLost
\* The round registered nothing: what waits cannot be registered, all the rest is.
<1>8. CASE ~progressed
  <2>1. Waiting # {} /\ \A decl \in Waiting : ~(ToSet(decl.bases) \subseteq Known)
    BY <1>1, <1>2, <1>3, <1>8 DEF LoopInv, NoProgress, Ready
  <2>2. ClosedNames(Known)
    BY <1>2, <2>1 DEF LoopInv, NoneLost, ClosedNames
  <2>3. Known = Resolvable
    BY <1>2, <2>2, ClosedIsAll DEF LoopInv
  <2>4. \E decl \in ToSet(module) : ~(ToSet(decl.bases) \subseteq Resolvable)
    BY <1>2, <2>1, <2>3 DEF LoopInv
  <2>5. \E i \in DOMAIN module : ~(ToSet(module[i].bases) \subseteq Resolvable)
    BY <2>4 DEF ToSet
  <2>6. LoadResolves'
    BY <1>1, <1>4, <1>8, <2>3, <2>5 DEF LoadResolves
  <2> QED
    BY <1>7, <2>6 DEF IInv
\* Nothing waits: all of them are registered.
<1>9. CASE progressed /\ next_round = <<>>
  <2>1. Waiting = {}
    BY <1>3, <1>9, ToSetEmpty
  <2>2. \A decl \in ToSet(module) : decl.name \in Known /\ ToSet(decl.bases) \subseteq Known
    BY <1>2, <2>1 DEF LoopInv, NoneLost
  <2>3. Known = Resolvable
    BY <1>2, <2>2, ClosedIsAll DEF LoopInv, ClosedNames
  <2>4. \A i \in DOMAIN module : ToSet(module[i].bases) \subseteq Resolvable
    BY <2>2, <2>3 DEF ToSet
  <2>5. LoadResolves'
    BY <1>1, <1>4, <1>9, <2>3, <2>4 DEF LoadResolves
  <2> QED
    BY <1>7, <2>5 DEF IInv
<1>10. CASE progressed /\ next_round # <<>>
  BY <1>1, <1>7, <1>10 DEF IInv, LoadResolves
<1> QED
  BY <1>8, <1>9, <1>10

\* Nothing else changes what the loop works on while it works, or once it is done.
LEMMA LoopAside ==
    ASSUME IInv, UNCHANGED <<classes, module, loop>> PROVE IInv'
<1>1. /\ UNCHANGED <<classes, module, pending, next_round, available, progressed, status>>
  BY DEF loop
<1>2. Known' = Known /\ Resolvable' = Resolvable /\ Waiting' = Waiting
  BY <1>1 DEF Known, Resolvable, Waiting
<1> QED
  BY <1>1, <1>2 DEF IInv, LoopInv, NoneLost, NoProgress, Ready, LoadResolves

LEMMA NextInv == IInv /\ [Next]_vars => IInv'
<1> SUFFICES ASSUME IInv, [Next]_vars PROVE IInv'
  OBVIOUS
<1>1. ASSUME NEW n \in 0..MaxBases, NEW bases \in [1..n -> Known], RegisterClass(bases)
      PROVE  IInv'
  BY <1>1 DEF RegisterClass, IInv, LoadResolves, loop
<1>2. ASSUME NEW c \in Known, ComputeMro(c) PROVE IInv'
  BY <1>2, LoopAside DEF ComputeMro
<1>3. ASSUME NEW m \in Modules, StartModule(m) PROVE IInv'
  BY <1>3, StartInv
<1>4. CASE Loop
  BY <1>4, PostponeInv, RegisterInv, EndRoundInv DEF Loop
<1>5. CASE UNCHANGED vars
  BY <1>5, LoopAside DEF vars
<1> QED
  BY <1>1, <1>2, <1>3, <1>4, <1>5 DEF Next

\* Whatever the metadata lists, in whatever order, RegisterModuleClasses has registered
\* what can be registered when it ends, and fails if and only if something is left over.
THEOREM LoadIsComplete == Spec => []LoadResolves
<1>1. Init => IInv
  BY DEF Init, IInv, LoadResolves
<1>2. IInv /\ [Next]_vars => IInv'
  BY NextInv
<1>3. IInv => LoadResolves
  BY DEF IInv
<1> QED
  BY <1>1, <1>2, <1>3, PTL DEF Spec

-----------------------------------------------------------------------------
(* The cached orders, as classes are registered                            *)

\* A rank for the classes there are leaves room for the next one.
Grown == \E n \in Nat : \E rank : Ranks(rank) /\ \A c \in Known : rank[c] < n

\* An embedder has given its classes the numbers from 1 on.
Numbered == status = "idle" => \E k \in Nat : Known = 1..k

\* What is cached is the order of the classes as they are now.
CacheIsCurrent ==
    \A c \in DOMAIN mro_cache :
        c \in Known /\ Linearizations[c].ok /\ mro_cache[c] = Linearizations[c].mro

RegistryInv ==
    /\ Known \subseteq ClassNames
    /\ \A c \in Known : classes[c] \in Seq(Known)
    /\ Grown /\ Numbered /\ CacheIsCurrent

LEMMA RegistryIsHierarchy == RegistryInv => Hierarchy
BY DEF RegistryInv, Grown, Hierarchy

LEMMA RegistersInv ==
    ASSUME RegistryInv, NEW n \in ClassNames, n \notin Known, NEW bases \in Seq(Known),
           Registers(n, bases), Numbered'
    PROVE  RegistryInv'
<1>1. Known' = Known \cup {n} /\ DOMAIN mro_cache' = {}
  BY KnownAfter DEF Registers
<1>2. /\ classes'[n] = bases /\ \A c \in Known : classes'[c] = classes[c]
  BY DEF Registers, Extended, Known
<1>3. ASSUME NEW c \in Known' PROVE classes'[c] \in Seq(Known')
  <2>1. Seq(Known) \subseteq Seq(Known')
    BY <1>1
  <2>2. CASE c = n
    BY <1>2, <2>1, <2>2
  <2>3. CASE c # n
    BY <1>1, <1>2, <2>1, <2>3 DEF RegistryInv
  <2> QED
    BY <2>2, <2>3
<1>4. Grown'
  <2>0. PICK top \in Nat : \E rank : Ranks(rank) /\ \A c \in Known : rank[c] < top
    BY DEF RegistryInv, Grown
  <2>1. PICK rank : Ranks(rank) /\ \A c \in Known : rank[c] < top
    BY <2>0
  <2> DEFINE next == [c \in Known \cup {n} |-> IF c = n THEN top ELSE rank[c]]
  <2>2. \A c \in Known : ToSet(classes[c]) \subseteq Known
    BY DEF RegistryInv, ToSet
  <2>3. ToSet(bases) \subseteq Known
    BY DEF ToSet
  <2>4. rank \in [Known -> Nat] /\ \A c \in Known : \A b \in ToSet(classes[c]) : rank[b] < rank[c]
    BY <2>1 DEF Ranks
  <2>5. PICK r : r = next
    OBVIOUS
  <2>6. /\ r \in [Known' -> Nat]
        /\ r[n] = top /\ \A c \in Known : r[c] = rank[c] /\ r[c] < top
    BY <1>1, <2>1, <2>4, <2>5
  <2>7. ASSUME NEW c \in Known', NEW b \in ToSet(classes'[c]) PROVE r[b] < r[c]
    <3>1. CASE c = n
      BY <1>2, <2>3, <2>6, <3>1
    <3>2. CASE c # n
      <4>1. c \in Known /\ b \in ToSet(classes[c])
        BY <1>1, <1>2, <3>2
      <4> QED
        BY <2>2, <2>4, <2>6, <4>1
    <3> QED
      BY <3>1, <3>2
  <2>8. \A c \in Known' : r[c] < top + 1
    BY <1>1, <2>4, <2>6
  <2>9. Ranks(r)'
    BY <2>6, <2>7 DEF Ranks
  <2>10. top + 1 \in Nat
    OBVIOUS
  <2> QED
    BY <2>8, <2>9, <2>10 DEF Grown
<1>5. CacheIsCurrent'
  BY <1>1 DEF CacheIsCurrent
<1> QED
  BY <1>1, <1>3, <1>4, <1>5 DEF RegistryInv

\* Nothing that leaves the classes and the cache alone matters, once the embedder is done.
LEMMA RegistryAside ==
    ASSUME RegistryInv, UNCHANGED <<classes, mro_cache>>, status' = "idle" => status = "idle"
    PROVE  RegistryInv'
<1>1. Known' = Known /\ Linearizations' = Linearizations
  BY DEF Known, Linearizations
<1>2. Grown' /\ Numbered'
  BY <1>1 DEF RegistryInv, Grown, Ranks, Numbered
<1> QED
  BY <1>1, <1>2 DEF RegistryInv, CacheIsCurrent

LEMMA NextRegistry == IInv /\ RegistryInv /\ [Next]_vars => RegistryInv'
<1> SUFFICES ASSUME IInv, RegistryInv, [Next]_vars PROVE RegistryInv'
  OBVIOUS
<1>1. ASSUME NEW n \in 0..MaxBases, NEW bases \in [1..n -> Known], RegisterClass(bases)
      PROVE  RegistryInv'
  <2>1. PICK k \in Nat : Known = 1..k
    BY <1>1 DEF RegisterClass, RegistryInv, Numbered
  <2>2. Cardinality(Known) = k
    BY <2>1, FS_Interval
  <2>3. Registers(k + 1, bases) /\ status' = "idle"
    BY <1>1, <2>2 DEF RegisterClass, loop
  <2>4. k + 1 \in ClassNames /\ k + 1 \notin Known
    BY <2>1 DEF ClassNames
  <2>5. bases \in Seq(Known)
    OBVIOUS
  <2>6. Known' = 1..k + 1
    <3>1. Known' = Known \cup {k + 1}
      BY <2>3, KnownAfter
    <3> QED
      BY <2>1, <3>1
  <2>7. k + 1 \in Nat
    OBVIOUS
  <2>8. Numbered'
    BY <2>6, <2>7 DEF Numbered
  <2> QED
    BY <2>3, <2>4, <2>5, <2>8, RegistersInv
<1>2. ASSUME NEW c \in Known, ComputeMro(c) PROVE RegistryInv'
  <2>1. /\ Linearizations[c].ok /\ mro_cache' = Extended(mro_cache, c, Linearizations[c].mro)
        /\ status' = status
    BY <1>2 DEF ComputeMro, loop
  <2>2. classes' = classes /\ Known' = Known /\ Linearizations' = Linearizations
    <3>1. classes' = classes
      BY <1>2 DEF ComputeMro
    <3> QED
      BY <3>1 DEF Known, Linearizations
  <2>3. Grown' /\ Numbered'
    BY <2>1, <2>2 DEF RegistryInv, Grown, Ranks, Numbered
  <2>4. CacheIsCurrent'
    <3>1. \A d \in DOMAIN mro_cache' :
             mro_cache'[d] = IF d = c THEN Linearizations[c].mro ELSE mro_cache[d]
      BY <2>1 DEF Extended
    <3>2. DOMAIN mro_cache' = DOMAIN mro_cache \cup {c}
      BY <2>1 DEF Extended
    <3> QED
      BY <2>1, <2>2, <3>1, <3>2 DEF RegistryInv, CacheIsCurrent
  <2> QED
    BY <2>1, <2>2, <2>3, <2>4 DEF RegistryInv
<1>3. ASSUME NEW m \in Modules, StartModule(m) PROVE RegistryInv'
  BY <1>3, RegistryAside DEF StartModule
<1>4. CASE Postpone
  BY <1>4, RegistryAside DEF Postpone
<1>5. CASE RegisterDeclared
  <2> DEFINE decl == Head(pending)
  <2>1. /\ status = "running" /\ pending # <<>> /\ Ready(decl)
        /\ decl.name \in Known => UNCHANGED <<classes, mro_cache>>
        /\ decl.name \notin Known /\ ToSet(decl.bases) \subseteq Known
             => Registers(decl.name, decl.bases)
        /\ status' \in {"failed", "running"}
    BY <1>5 DEF RegisterDeclared
  <2>2. pending \in Seq(Declarations) /\ available = Known
    BY <2>1 DEF IInv, LoopInv
  <2>3. decl \in Declarations
    BY <2>1, <2>2, ToSetTail
  <2> HIDE DEF decl
  <2>4. decl.name \in ClassNames /\ decl.bases \in Seq(ClassNames)
    BY <2>3 DEF Declarations
  <2>5. ToSet(decl.bases) \subseteq Known
    BY <2>1, <2>2 DEF Ready
  <2>6. decl.bases \in Seq(Known)
    BY <2>4, <2>5 DEF ToSet
  <2>7. Numbered'
    BY <2>1 DEF Numbered
  <2>8. CASE decl.name \in Known
    BY <2>1, <2>8, RegistryAside
  <2>9. CASE decl.name \notin Known
    BY <2>1, <2>4, <2>5, <2>6, <2>7, <2>9, RegistersInv
  <2> QED
    BY <2>8, <2>9
<1>6. CASE EndRound
  BY <1>6, RegistryAside DEF EndRound
<1>7. CASE UNCHANGED vars
  BY <1>7, RegistryAside DEF vars, loop
<1> QED
  BY <1>1, <1>2, <1>3, <1>4, <1>5, <1>6, <1>7 DEF Next, Loop

LEMMA InitRegistry == Init => RegistryInv
<1> SUFFICES ASSUME Init PROVE RegistryInv
  OBVIOUS
<1>1. Known = {} /\ DOMAIN mro_cache = {}
  BY DEF Init, Known
<1>2. Ranks([c \in {} |-> 0])
  BY <1>1 DEF Ranks
<1>3. Grown
  BY <1>1, <1>2 DEF Grown
<1>4. Known = 1..0
  BY <1>1
<1>5. Numbered
  BY <1>4 DEF Numbered
<1> QED
  BY <1>1, <1>3, <1>5 DEF RegistryInv, CacheIsCurrent

\* Bases are registered before the class, and no order outlives the hierarchy it was
\* computed from.
THEOREM OrdersAreCurrent == Spec => []RegistryInv
<1>1. Init => IInv /\ RegistryInv
  <2>1. Init => IInv
    BY DEF Init, IInv, LoadResolves
  <2> QED
    BY <2>1, InitRegistry
<1>2. IInv /\ RegistryInv /\ [Next]_vars => (IInv /\ RegistryInv)'
  BY NextInv, NextRegistry
<1> QED
  BY <1>1, <1>2, PTL DEF Spec

\* What holds of every cached order: InOrder is what the properties call Before.
LEMMA CachedOrder ==
    ASSUME RegistryInv, NEW c \in DOMAIN mro_cache
    PROVE  /\ c \in Known /\ Linearizations[c].ok /\ mro_cache[c] = Linearizations[c].mro
           /\ mro_cache[c] \in Seq(Known) /\ ToSet(mro_cache[c]) = Ancestry(c)
           /\ \A x, y \in Ancestry(c) : Before(mro_cache[c], x, y) <=> InOrder(mro_cache[c], x, y)
<1>1. Hierarchy
  BY RegistryIsHierarchy
<1>2. c \in Known /\ Linearizations[c].ok /\ mro_cache[c] = Linearizations[c].mro
  BY DEF RegistryInv, CacheIsCurrent
<1>3. mro_cache[c] \in Seq(Known) /\ ToSet(mro_cache[c]) = Ancestry(c)
  BY <1>1, <1>2, LinearizationsAre, OrderHolds DEF Results
<1>4. \A x, y \in Ancestry(c) : Before(mro_cache[c], x, y) <=> InOrder(mro_cache[c], x, y)
  BY <1>3, BeforeMeans
<1> QED
  BY <1>2, <1>3, <1>4

LEMMA ExtendsInheritance == RegistryInv => MroExtendsInheritance
<1> SUFFICES ASSUME RegistryInv, NEW c \in DOMAIN mro_cache
             PROVE  /\ ToSet(mro_cache[c]) = Ancestry(c)
                    /\ \A d \in Ancestry(c) : \A b \in ToSet(classes[d]) : Before(mro_cache[c], d, b)
  BY DEF MroExtendsInheritance
<1>1. Hierarchy
  BY RegistryIsHierarchy
<1>2. c \in Known /\ Linearizations[c].ok /\ mro_cache[c] = Linearizations[c].mro
  BY CachedOrder
<1>3. ASSUME NEW d \in Ancestry(c), NEW b \in ToSet(classes[d]) PROVE Before(mro_cache[c], d, b)
  <2>1. d \in Known /\ Ancestry(d) \subseteq Ancestry(c)
    BY <1>1, <1>2, AncestryTransitive
  <2>2. b \in Ancestry(d) /\ b # d
    BY <1>1, <2>1, AncestryParts, NoCycle
  <2>3. InOrder(mro_cache[c], d, b)
    BY <1>1, <1>2, <2>2, OrderExtends
  <2> QED
    BY <2>1, <2>2, <2>3, CachedOrder
<1> QED
  BY <1>3, CachedOrder

LEMMA KeepsLocalOrder == RegistryInv => MroKeepsLocalOrder
<1> SUFFICES ASSUME RegistryInv, NEW c \in DOMAIN mro_cache, NEW d \in Ancestry(c),
                    NEW i \in DOMAIN classes[d], NEW j \in DOMAIN classes[d],
                    Place(classes[d], classes[d][i]) < Place(classes[d], classes[d][j])
             PROVE  Before(mro_cache[c], classes[d][i], classes[d][j])
  BY DEF MroKeepsLocalOrder
<1> DEFINE x == classes[d][i]
           y == classes[d][j]
<1>1. Hierarchy
  BY RegistryIsHierarchy
<1>2. c \in Known /\ Linearizations[c].ok /\ mro_cache[c] = Linearizations[c].mro
  BY CachedOrder
<1>3. d \in Known /\ Ancestry(d) \subseteq Ancestry(c)
  BY <1>1, <1>2, AncestryTransitive
<1>4. classes[d] \in Seq(Known)
  BY <1>3 DEF RegistryInv
<1>5. x \in ToSet(classes[d]) /\ y \in ToSet(classes[d])
  BY <1>4, ToSetIndex
<1>6. Before(classes[d], x, y)
  BY DEF Before
<1> HIDE DEF x, y
<1>7. InOrder(classes[d], x, y)
  BY <1>4, <1>5, <1>6, BeforeMeans
<1>8. InOrder(mro_cache[c], x, y)
  BY <1>1, <1>2, <1>5, <1>7, OrderExtends
<1>9. x \in Ancestry(c) /\ y \in Ancestry(c)
  BY <1>1, <1>3, <1>5, AncestryParts
<1>10. Before(mro_cache[c], x, y)
  BY <1>8, <1>9, CachedOrder
<1> QED
  BY <1>10 DEF x, y

LEMMA Monotonic == RegistryInv => MroMonotonic
<1> SUFFICES ASSUME RegistryInv, NEW c \in DOMAIN mro_cache, NEW b \in ToSet(classes[c]),
                    NEW x \in ToSet(Linearizations[b].mro), NEW y \in ToSet(Linearizations[b].mro),
                    Before(Linearizations[b].mro, x, y)
             PROVE  Before(mro_cache[c], x, y)
  BY DEF MroMonotonic
<1>1. Hierarchy
  BY RegistryIsHierarchy
<1>2. c \in Known /\ Linearizations[c].ok /\ mro_cache[c] = Linearizations[c].mro
  BY CachedOrder
<1>3. b \in Known /\ Linearizations[b].ok /\ Linearizations[b].mro \in Seq(Known)
  BY <1>1, <1>2, OrderOf, AncestryParts, LinearizationsAre DEF Results
<1>4. ToSet(Linearizations[b].mro) = Ancestry(b) /\ Ancestry(b) \subseteq Ancestry(c)
  BY <1>1, <1>2, <1>3, OrderHolds, AncestryParts
<1>5. InOrder(Linearizations[b].mro, x, y)
  BY <1>3, BeforeMeans
<1>6. InOrder(mro_cache[c], x, y)
  BY <1>1, <1>2, <1>4, <1>5, OrderKeeps
<1> QED
  BY <1>4, <1>6, CachedOrder

\* A base list without a base named twice has as many places as bases.
LEMMA NamedOnce ==
    ASSUME NEW C, NEW s \in Seq(C), ~(Cardinality(ToSet(s)) < Len(s))
    PROVE  Distinct(s)
<1> DEFINE places == DOMAIN s
<1>1. /\ places = 1..Len(s) /\ Len(s) \in Nat /\ IsFiniteSet(places)
      /\ Cardinality(places) = Len(s)
  <2>1. places = 1..Len(s) /\ Len(s) \in Nat
    BY LenProperties
  <2>2. IsFiniteSet(1..Len(s)) /\ Cardinality(1..Len(s)) = Len(s)
    BY <2>1, FS_Interval
  <2> QED
    BY <2>1, <2>2
<1>2. SUFFICES ASSUME NEW k \in places, NEW l \in places, s[k] = s[l], k # l
               PROVE  FALSE
  BY DEF Distinct
<1>3. /\ IsFiniteSet(places \ {k}) /\ Cardinality(places \ {k}) = Len(s) - 1
  BY <1>1, FS_RemoveElement
<1> DEFINE f == [p \in places \ {k} |-> s[p]]
<1>4. f \in Surjection(places \ {k}, ToSet(s))
  <2>1. ASSUME NEW x \in ToSet(s) PROVE \E p \in places \ {k} : f[p] = x
    <3>1. PICK p \in places : s[p] = x
      BY DEF ToSet
    <3>2. CASE p = k
      BY <1>2, <3>1, <3>2
    <3>3. CASE p # k
      BY <3>1, <3>3
    <3> QED
      BY <3>2, <3>3
  <2>2. \A p \in places \ {k} : f[p] \in ToSet(s)
    BY DEF ToSet
  <2> QED
    BY <2>1, <2>2 DEF Surjection
<1>5. IsFiniteSet(ToSet(s)) /\ Cardinality(ToSet(s)) <= Cardinality(places \ {k})
  <2> HIDE DEF f, places
  <2> QED
    BY <1>3, <1>4, FS_Surjection
<1>6. Cardinality(ToSet(s)) \in Nat
  BY <1>5, FS_CardinalityType
<1> QED
  BY <1>1, <1>3, <1>5, <1>6

LEMMA FailsOnlyOnConflict == RegistryInv => MroFailsOnlyOnConflict
<1> DEFINE lin == Linearizations
<1> SUFFICES ASSUME RegistryInv, NEW c \in Known, ~lin[c].ok,
                    \A b \in ToSet(classes[c]) : lin[b].ok,
                    \A d \in Ancestry(c) : ~NamesBaseTwice(d)
             PROVE  \E S \in (SUBSET Ancestry(c)) \ {{}} : \A x \in S : \E y \in S : Precedes(c, y, x)
  BY DEF MroFailsOnlyOnConflict
<1> DEFINE seqs == MergedFrom(lin, c)
           n == Len(classes[c])
<1>1. Hierarchy
  BY RegistryIsHierarchy
<1>2. \A d \in Ancestry(c) : classes[d] \in Seq(Known) /\ Distinct(classes[d])
  BY <1>1, AncestryTransitive, NamedOnce DEF NamesBaseTwice, Hierarchy
<1>3. \A b \in ToSet(classes[c]) :
         /\ b \in Known /\ lin[b].mro \in Seq(Known)
         /\ ToSet(lin[b].mro) = Ancestry(b) /\ Ancestry(b) \subseteq Ancestry(c) /\ b \in Ancestry(c)
         /\ Distinct(lin[b].mro)
  <2> SUFFICES ASSUME NEW b \in ToSet(classes[c])
               PROVE  /\ b \in Known /\ lin[b].mro \in Seq(Known)
                      /\ ToSet(lin[b].mro) = Ancestry(b) /\ Ancestry(b) \subseteq Ancestry(c)
                      /\ b \in Ancestry(c) /\ Distinct(lin[b].mro)
    OBVIOUS
  <2>1. b \in Known /\ Ancestry(b) \subseteq Ancestry(c) /\ b \in Ancestry(c)
    BY <1>1, AncestryParts
  <2>2. Distinct(lin[b].mro)
    BY <1>1, <1>2, <2>1, OrderDistinct
  <2> QED
    BY <1>1, <2>1, <2>2, LinearizationsAre, OrderHolds DEF Results
<1>4. /\ seqs \in Seq(Seq(Known)) /\ DOMAIN seqs = 1..n + 1 /\ n \in Nat /\ DOMAIN classes[c] = 1..n
      /\ \A i \in 1..n : classes[c][i] \in ToSet(classes[c]) /\ seqs[i] = lin[classes[c][i]].mro
      /\ seqs[n + 1] = classes[c]
  BY <1>1, <1>3, MergedFromIs
<1>5. ~MergeC3(seqs).ok
  <2>1. lin[c] = LinearizedBy(lin, c)
    BY <1>1, LinearizationsAre
  <2> HIDE DEF lin
  <2> QED
    BY <2>1 DEF LinearizedBy
<1>6. Merged(c) = {seqs[i] : i \in DOMAIN seqs}
  BY DEF Merged, MergedFrom, ToSet
<1> HIDE DEF seqs, n, lin
<1>7. ASSUME NEW i \in DOMAIN seqs
      PROVE  Distinct(seqs[i]) /\ ToSet(seqs[i]) \subseteq Ancestry(c) /\ seqs[i] \in Seq(Known)
  <2>1. CASE i = n + 1
    <3>1. c \in Ancestry(c) /\ ToSet(classes[c]) \subseteq Ancestry(c)
      BY <1>1, <1>3, AncestryParts
    <3> QED
      BY <1>2, <1>4, <2>1, <3>1
  <2>2. CASE i # n + 1
    <3>1. i \in 1..n
      BY <1>4, <2>2
    <3> QED
      BY <1>3, <1>4, <3>1
  <2> QED
    BY <2>1, <2>2
<1>8. Conflict(seqs)
  BY <1>4, <1>5, <1>7, MergeC3Is
<1>9. PICK S \in SUBSET UNION {ToSet(seqs[i]) : i \in DOMAIN seqs} :
         /\ S # {}
         /\ \A x \in S : \E y \in S : \E i \in DOMAIN seqs :
               {x, y} \subseteq ToSet(seqs[i]) /\ InOrder(seqs[i], y, x)
  BY <1>8 DEF Conflict
<1>10. S \in (SUBSET Ancestry(c)) \ {{}}
  <2>1. S \subseteq Ancestry(c)
    BY <1>7
  <2> QED
    BY <1>9, <2>1
<1>11. ASSUME NEW x \in S PROVE \E y \in S : Precedes(c, y, x)
  <2>1. PICK y \in S, i \in DOMAIN seqs : {x, y} \subseteq ToSet(seqs[i]) /\ InOrder(seqs[i], y, x)
    BY <1>9
  <2>2. Before(seqs[i], y, x)
    BY <1>7, <2>1, BeforeMeans
  <2> QED
    BY <1>6, <2>1, <2>2 DEF Precedes
<1> QED
  BY <1>10, <1>11

LEMMA MostSpecific == RegistryInv => MostSpecificWins
<1> SUFFICES ASSUME RegistryInv, NEW c \in DOMAIN mro_cache, NEW having \in SUBSET Ancestry(c)
             PROVE  LET found == Lookup(mro_cache[c], having)
                    IN  /\ found = NoMethod <=> having = {}
                        /\ \A d \in having \ {found} : found \notin Ancestry(d)
                        /\ having # {} => ~Invocable(mro_cache[c], having, {found}, FALSE)
  BY DEF MostSpecificWins
<1> DEFINE mro == mro_cache[c]
           places == {i \in DOMAIN mro : mro[i] \in having}
           found == Lookup(mro, having)
<1>1. Hierarchy
  BY RegistryIsHierarchy
<1>2. /\ c \in Known /\ Linearizations[c].ok /\ mro = Linearizations[c].mro
      /\ mro \in Seq(Known) /\ ToSet(mro) = Ancestry(c)
  BY CachedOrder
<1>3. Ancestry(c) \subseteq Known /\ NoMethod \notin Ancestry(c)
  BY <1>1, <1>2, AncestryIs DEF Hierarchy, ClassNames, NoMethod
<1>4. CASE having = {}
  <2>1. places = {}
    BY <1>4
  <2> QED
    BY <1>4, <2>1 DEF Lookup
<1>5. CASE having # {}
  <2>1. places # {} /\ places \in SUBSET Nat
    BY <1>2, <1>5 DEF ToSet
  <2>2. found = mro[Min(places)]
    BY <2>1 DEF Lookup
  <2>3. Min(places) \in places /\ \A i \in places : Min(places) <= i
    <3> HIDE DEF places
    <3> QED
      BY <2>1, LeastNumber
  <2>4. found \in having
    BY <2>2, <2>3
  <2>5. ASSUME NEW d \in having, d # found PROVE found \notin Ancestry(d)
    <3>1. SUFFICES ASSUME found \in Ancestry(d) PROVE FALSE
      OBVIOUS
    <3>2. InOrder(mro, d, found)
      <4> HIDE DEF mro, found
      <4>1. InOrder(Linearizations[c].mro, d, found)
        BY <1>1, <1>2, <2>5, <3>1, OrderExtends
      <4> QED
        BY <1>2, <4>1
    <3>3. PICK m \in DOMAIN mro : mro[m] = d /\ \A l \in 1..m : mro[l] # found
      BY <3>2 DEF InOrder
    <3>4. Min(places) <= m
      BY <2>3, <3>3
    <3>5. m \in Nat /\ Min(places) \in Nat \ {0}
      BY <1>2, <2>3
    <3> QED
      BY <2>2, <3>3, <3>4, <3>5
  <2> HIDE DEF found, mro
  <2>6. ~Invocable(mro, having, {found}, FALSE)
    BY DEF Invocable, found
  <2>7. found # NoMethod
    BY <1>3, <2>4
  <2> QED
    BY <1>5, <2>5, <2>6, <2>7 DEF found, mro
<1> QED
  BY <1>4, <1>5

\* The method resolution orders of any hierarchy that can be registered: whatever is
\* cached extends inheritance, keeps the order of every base list and the orders of the
\* bases; a class is without one only when there can be none; and Invoke runs a method
\* that no other candidate overrides.
THEOREM OrdersExtendInheritance == Spec => []MroExtendsInheritance
<1>1. RegistryInv => MroExtendsInheritance
  BY ExtendsInheritance
<1> QED
  BY <1>1, OrdersAreCurrent, PTL

THEOREM OrdersKeepLocalOrder == Spec => []MroKeepsLocalOrder
<1>1. RegistryInv => MroKeepsLocalOrder
  BY KeepsLocalOrder
<1> QED
  BY <1>1, OrdersAreCurrent, PTL

THEOREM OrdersAreMonotonic == Spec => []MroMonotonic
<1>1. RegistryInv => MroMonotonic
  BY Monotonic
<1> QED
  BY <1>1, OrdersAreCurrent, PTL

THEOREM OrderUnlessConflict == Spec => []MroFailsOnlyOnConflict
<1>1. RegistryInv => MroFailsOnlyOnConflict
  BY FailsOnlyOnConflict
<1> QED
  BY <1>1, OrdersAreCurrent, PTL

THEOREM InvokeRunsMostSpecific == Spec => []MostSpecificWins
<1>1. RegistryInv => MostSpecificWins
  BY MostSpecific
<1> QED
  BY <1>1, OrdersAreCurrent, PTL

-----------------------------------------------------------------------------
(* The compiler's class table: the registry's under a renaming             *)

Renamed(f, s) == [k \in DOMAIN s |-> f[s[k]]]
AllRenamed(f, seqs) == [i \in DOMAIN seqs |-> Renamed(f, seqs[i])]

LEMMA RenamingIs ==
    ASSUME NEW C, NEW E, NEW f \in Injection(C, E)
    PROVE  f \in [C -> E] /\ \A x, y \in C : f[x] = f[y] => x = y
BY DEF Injection, IsInjective

LEMMA RenamedIs ==
    ASSUME NEW C, NEW E, NEW f \in Injection(C, E), NEW s \in Seq(C)
    PROVE  /\ Renamed(f, s) \in Seq(E) /\ Len(Renamed(f, s)) = Len(s) /\ Len(s) \in Nat
           /\ DOMAIN Renamed(f, s) = DOMAIN s /\ DOMAIN s = 1..Len(s)
           /\ \A k \in DOMAIN s : s[k] \in C /\ Renamed(f, s)[k] = f[s[k]]
<1>1. DOMAIN s = 1..Len(s) /\ Len(s) \in Nat /\ \A k \in DOMAIN s : s[k] \in C
  BY ElementOfSeq
<1>2. Renamed(f, s) \in Seq(E) /\ Len(Renamed(f, s)) = Len(s)
  BY <1>1, RenamingIs DEF Renamed
<1> QED
  BY <1>1, <1>2 DEF Renamed

RenamesFirst(f, c, s) == Renamed(f, <<c>> \o s) = <<f[c]>> \o Renamed(f, s)

LEMMA RenamedPrepend ==
    ASSUME NEW C, NEW E, NEW f \in Injection(C, E), NEW c \in C, NEW s \in Seq(C)
    PROVE  RenamesFirst(f, c, s)
<1> DEFINE left == Renamed(f, <<c>> \o s)
           right == <<f[c]>> \o Renamed(f, s)
<1>1. /\ <<c>> \o s \in Seq(C) /\ DOMAIN (<<c>> \o s) = 1..Len(s) + 1 /\ Len(s) \in Nat
      /\ (<<c>> \o s)[1] = c /\ \A k \in 1..Len(s) : (<<c>> \o s)[k + 1] = s[k]
  BY Prepend
<1>2. /\ Renamed(f, s) \in Seq(E) /\ Len(Renamed(f, s)) = Len(s) /\ DOMAIN s = 1..Len(s)
      /\ \A k \in DOMAIN s : s[k] \in C /\ Renamed(f, s)[k] = f[s[k]]
  BY RenamedIs
<1>3. /\ right \in Seq(E) /\ DOMAIN right = 1..Len(s) + 1
      /\ right[1] = f[c] /\ \A k \in 1..Len(s) : right[k + 1] = Renamed(f, s)[k]
  <2>1. f[c] \in E
    BY RenamingIs
  <2> QED
    BY <1>2, <2>1, Prepend
<1> DEFINE t == <<c>> \o s
<1>4. /\ left \in Seq(E) /\ DOMAIN left = 1..Len(s) + 1
      /\ \A k \in 1..Len(s) + 1 : left[k] = f[t[k]]
  <2> HIDE DEF t
  <2>1. t \in Seq(C) /\ DOMAIN t = 1..Len(s) + 1
    BY <1>1 DEF t
  <2>2. /\ Renamed(f, t) \in Seq(E) /\ DOMAIN Renamed(f, t) = DOMAIN t
        /\ \A k \in DOMAIN t : Renamed(f, t)[k] = f[t[k]]
    BY <2>1, RenamedIs
  <2> QED
    BY <2>1, <2>2 DEF t
<1>45. t[1] = c /\ \A k \in 1..Len(s) : t[k + 1] = s[k]
  BY <1>1
<1> HIDE DEF left, right, t
<1>5. ASSUME NEW k \in 1..Len(s) + 1 PROVE left[k] = right[k]
  <2>1. CASE k = 1
    BY <1>3, <1>4, <1>45, <2>1
  <2>2. CASE k # 1
    <3>1. k - 1 \in 1..Len(s) /\ k - 1 + 1 = k
      BY <1>1, <2>2
    <3>2. right[k] = f[s[k - 1]]
      BY <1>2, <1>3, <3>1
    <3>3. left[k] = f[s[k - 1]]
      BY <1>4, <1>45, <3>1
    <3> QED
      BY <3>2, <3>3
  <2> QED
    BY <2>1, <2>2
<1>6. left = right
  BY <1>3, <1>4, <1>5
<1> QED
  BY <1>6 DEF left, right, RenamesFirst

\* The merge knows of classes only whether two are the same.
LEMMA MergeRenamed ==
    ASSUME NEW C, NEW E, NEW f \in Injection(C, E),
           NEW seqs \in Seq(Seq(C))
    PROVE  /\ MergeC3(AllRenamed(f, seqs)).ok = MergeC3(seqs).ok
           /\ MergeC3(AllRenamed(f, seqs)).mro = Renamed(f, MergeC3(seqs).mro)
<1> DEFINE other == AllRenamed(f, seqs)
           m(front) == Merging(seqs)[front]
           n(front) == Merging(other)[front]
           Same(front) == n(front).ok = m(front).ok /\ n(front).mro = Renamed(f, m(front).mro)
           T == {front \in Fronts(seqs) : Same(front)}
<1>1. /\ other \in Seq(Seq(E)) /\ DOMAIN other = DOMAIN seqs
      /\ \A i \in DOMAIN seqs :
            /\ Len(other[i]) = Len(seqs[i]) /\ Len(seqs[i]) \in Nat /\ DOMAIN seqs[i] = 1..Len(seqs[i])
            /\ \A k \in DOMAIN seqs[i] : seqs[i][k] \in C /\ other[i][k] = f[seqs[i][k]]
  <2>1. DOMAIN seqs = 1..Len(seqs) /\ Len(seqs) \in Nat /\ \A i \in DOMAIN seqs : seqs[i] \in Seq(C)
    BY ElementOfSeq
  <2>2. \A i \in DOMAIN seqs : other[i] = Renamed(f, seqs[i]) /\ other[i] \in Seq(E)
    BY <2>1, RenamedIs DEF AllRenamed
  <2>3. DOMAIN other = DOMAIN seqs /\ other \in Seq(Seq(E))
    BY <2>1, <2>2 DEF AllRenamed
  <2>4. ASSUME NEW i \in DOMAIN seqs
        PROVE  /\ Len(other[i]) = Len(seqs[i]) /\ Len(seqs[i]) \in Nat /\ DOMAIN seqs[i] = 1..Len(seqs[i])
               /\ \A k \in DOMAIN seqs[i] : seqs[i][k] \in C /\ other[i][k] = f[seqs[i][k]]
    <3>1. seqs[i] \in Seq(C)
      BY <2>1
    <3>2. /\ Len(Renamed(f, seqs[i])) = Len(seqs[i]) /\ Len(seqs[i]) \in Nat
          /\ DOMAIN seqs[i] = 1..Len(seqs[i])
          /\ \A k \in DOMAIN seqs[i] : seqs[i][k] \in C /\ Renamed(f, seqs[i])[k] = f[seqs[i][k]]
      BY <3>1, RenamedIs
    <3> QED
      BY <2>2, <3>2
  <2> QED
    BY <2>3, <2>4
<1> HIDE DEF other
<1>2. Fronts(other) = Fronts(seqs)
  BY <1>1 DEF Fronts
<1>3. ASSUME NEW front \in Fronts(seqs)
      PROVE  /\ Remaining(other, front) = Remaining(seqs, front)
             /\ \A i \in Remaining(seqs, front) :
                   HeadOf(seqs, front, i) \in C /\ HeadOf(other, front, i) = f[HeadOf(seqs, front, i)]
             /\ GoodHeads(other, front) = GoodHeads(seqs, front)
  <2>1. Remaining(other, front) = Remaining(seqs, front)
    BY <1>1 DEF Remaining
  <2>2. \A i \in Remaining(seqs, front) : front[i] \in DOMAIN seqs[i] /\ i \in DOMAIN seqs
    BY <1>1 DEF Remaining, Fronts
  <2>3. \A i \in Remaining(seqs, front) :
           HeadOf(seqs, front, i) \in C /\ HeadOf(other, front, i) = f[HeadOf(seqs, front, i)]
    BY <1>1, <2>2 DEF HeadOf
  <2>35. \A x, y \in C : f[x] = f[y] => x = y
    BY RenamingIs
  <2>4. ASSUME NEW j \in Remaining(seqs, front), NEW x \in C
        PROVE  f[x] \in TailOf(other, front, j) <=> x \in TailOf(seqs, front, j)
    <3>1. \A p \in front[j] + 1..Len(seqs[j]) : p \in DOMAIN seqs[j]
      BY <1>1, <2>2 DEF Fronts
    <3>2. Len(other[j]) = Len(seqs[j])
      BY <1>1, <2>2
    <3> QED
      BY <1>1, <2>2, <2>35, <3>1, <3>2 DEF TailOf
  <2>5. GoodHeads(other, front) = GoodHeads(seqs, front)
    BY <2>1, <2>3, <2>35, <2>4 DEF GoodHeads
  <2> QED
    BY <2>1, <2>3, <2>5
<1>4. ASSUME NEW front \in Fronts(seqs), GoodHeads(seqs, front) # {}
      PROVE  /\ Chosen(seqs, front) \in C /\ Chosen(other, front) = f[Chosen(seqs, front)]
             /\ AfterPop(other, front) = AfterPop(seqs, front)
  <2>1. Min(GoodHeads(seqs, front)) \in Remaining(seqs, front)
    BY <1>4, Candidate
  <2>2. Chosen(seqs, front) \in C /\ Chosen(other, front) = f[Chosen(seqs, front)]
    BY <1>3, <2>1 DEF Chosen
  <2>3. \A i \in Remaining(seqs, front) :
           HeadOf(other, front, i) = Chosen(other, front) <=> HeadOf(seqs, front, i) = Chosen(seqs, front)
    BY <1>3, <2>2, RenamingIs
  <2>4. AfterPop(other, front) = AfterPop(seqs, front)
    BY <1>1, <1>3, <2>3 DEF AfterPop, Popped
  <2> QED
    BY <2>2, <2>4
<1>5. ASSUME NEW front \in Fronts(seqs),
             GoodHeads(seqs, front) # {} => AfterPop(seqs, front) \in T
      PROVE  front \in T
  <2>0. AfterPop(seqs, front) \in Fronts(seqs)
    BY AfterPopIs
  <2>1. /\ m(front) = IF Remaining(seqs, front) = {} THEN [ok |-> TRUE, mro |-> <<>>]
                      ELSE IF GoodHeads(seqs, front) # {} /\ m(AfterPop(seqs, front)).ok
                           THEN [ok |-> TRUE, mro |-> <<Chosen(seqs, front)>> \o m(AfterPop(seqs, front)).mro]
                      ELSE Inconsistent
        /\ m(AfterPop(seqs, front)) \in Results(C)
    BY <2>0, MergingIs DEF AfterPop, Chosen
  <2>2. n(front) = IF Remaining(other, front) = {} THEN [ok |-> TRUE, mro |-> <<>>]
                   ELSE IF GoodHeads(other, front) # {} /\ n(AfterPop(other, front)).ok
                        THEN [ok |-> TRUE, mro |-> <<Chosen(other, front)>> \o n(AfterPop(other, front)).mro]
                   ELSE Inconsistent
    BY <1>1, <1>2, MergingIs DEF AfterPop, Chosen
  <2>3. Renamed(f, <<>>) = <<>>
    BY DEF Renamed
  <2>4. Remaining(other, front) = Remaining(seqs, front) /\ GoodHeads(other, front) = GoodHeads(seqs, front)
    BY <1>3
  <2>5. CASE Remaining(seqs, front) = {}
    BY <2>1, <2>2, <2>3, <2>4, <2>5
  <2>6. CASE Remaining(seqs, front) # {} /\ GoodHeads(seqs, front) = {}
    BY <2>1, <2>2, <2>3, <2>4, <2>6 DEF Inconsistent
  <2>7. CASE Remaining(seqs, front) # {} /\ GoodHeads(seqs, front) # {}
    <3> DEFINE c == Chosen(seqs, front)
               next == AfterPop(seqs, front)
               rest == m(next)
               others == n(next)
    <3>1. c \in C /\ Chosen(other, front) = f[c] /\ AfterPop(other, front) = next
      BY <1>4, <2>7
    <3>2. others.ok = rest.ok /\ others.mro = Renamed(f, rest.mro)
      BY <1>5, <2>7
    <3>3. rest.mro \in Seq(C)
      BY <2>1 DEF Results
    <3>4. /\ m(front) = IF rest.ok THEN [ok |-> TRUE, mro |-> <<c>> \o rest.mro] ELSE Inconsistent
          /\ n(front) = IF others.ok THEN [ok |-> TRUE, mro |-> <<f[c]>> \o others.mro] ELSE Inconsistent
      <4>1. n(front) = IF n(AfterPop(other, front)).ok
                       THEN [ok |-> TRUE, mro |-> <<Chosen(other, front)>> \o n(AfterPop(other, front)).mro]
                       ELSE Inconsistent
        BY <2>2, <2>4, <2>7
      <4>2. m(front) = IF rest.ok THEN [ok |-> TRUE, mro |-> <<c>> \o rest.mro] ELSE Inconsistent
        BY <2>1, <2>7
      <4> QED
        BY <3>1, <4>1, <4>2
    <3> HIDE DEF c, next, rest, others
    <3>5. Renamed(f, <<c>> \o rest.mro) = <<f[c]>> \o Renamed(f, rest.mro)
      <4>1. RenamesFirst(f, c, rest.mro)
        BY <3>1, <3>3, RenamedPrepend
      <4> QED
        BY <4>1 DEF RenamesFirst
    <3>6. CASE rest.ok
      <4>1. m(front) = [ok |-> TRUE, mro |-> <<c>> \o rest.mro]
        BY <3>4, <3>6
      <4>2. n(front) = [ok |-> TRUE, mro |-> <<f[c]>> \o others.mro]
        BY <3>2, <3>4, <3>6
      <4> QED
        <5>1. m(front).ok /\ m(front).mro = <<c>> \o rest.mro
          BY <4>1
        <5>2. n(front).ok /\ n(front).mro = <<f[c]>> \o Renamed(f, rest.mro)
          BY <3>2, <4>2
        <5>3. n(front).mro = Renamed(f, m(front).mro)
          BY <3>5, <5>1, <5>2
        <5> QED
          BY <5>1, <5>2, <5>3
    <3>7. CASE ~rest.ok
      <4>1. m(front) = Inconsistent /\ n(front) = Inconsistent
        BY <3>2, <3>4, <3>7
      <4> QED
        BY <2>3, <4>1 DEF Inconsistent
    <3> QED
      BY <3>6, <3>7
  <2> QED
    BY <2>5, <2>6, <2>7
<1>6. Fronts(seqs) \subseteq T
  <2> HIDE DEF T
  <2> QED
    BY <1>5, MergeInduction
<1> DEFINE start == [i \in DOMAIN seqs |-> 1]
<1>7. start \in Fronts(seqs) /\ MergeC3(seqs) = m(start) /\ MergeC3(other) = n(start)
  BY <1>1 DEF Fronts, MergeC3
<1>8. Same(start)
  BY <1>6, <1>7
<1> QED
  BY <1>7, <1>8 DEF other

\* The metadata of a module whose class table can be built: no name stands for two classes,
\* and every base is one of them.
Table == module \in Seq(Declarations) /\ DistinctNames /\ BasesDeclared
NameOf == [i \in Indices |-> module[i].name]
IndexOf(name) == Min(Declares(name))

LEMMA TableIs ==
    ASSUME Table
    PROVE  /\ Indices = 1..Len(module) /\ Len(module) \in Nat /\ IsFiniteSet(Indices)
           /\ \A i \in Indices : /\ module[i].name \in ClassNames /\ module[i].bases \in Seq(ClassNames)
                                 /\ IndexOf(module[i].name) = i
           /\ \A i \in Indices : \A b \in ToSet(module[i].bases) :
                 IndexOf(b) \in Indices /\ module[IndexOf(b)].name = b
<1>1. Indices = 1..Len(module) /\ Len(module) \in Nat /\ \A i \in Indices : module[i] \in Declarations
  BY ElementOfSeq DEF Table, Indices
<1>2. IsFiniteSet(1..Len(module))
  BY <1>1, FS_Interval
<1>3. \A i \in Indices : module[i].name \in ClassNames /\ module[i].bases \in Seq(ClassNames)
  BY <1>1 DEF Declarations
<1>4. ASSUME NEW x, Declares(x) # {} PROVE IndexOf(x) \in Indices /\ module[IndexOf(x)].name = x
  <2>1. Declares(x) \in SUBSET Nat
    BY <1>1 DEF Declares
  <2>2. IndexOf(x) \in Declares(x)
    BY <1>4, <2>1, LeastNumber DEF IndexOf
  <2> QED
    BY <2>2 DEF Declares
<1>5. ASSUME NEW i \in Indices PROVE IndexOf(module[i].name) = i
  <2>1. Declares(module[i].name) # {}
    BY DEF Declares
  <2> QED
    BY <1>4, <2>1 DEF Table, DistinctNames
<1>6. \A i \in Indices : \A b \in ToSet(module[i].bases) : Declares(b) # {}
  BY DEF Table, BasesDeclared
<1> QED
  BY <1>1, <1>2, <1>3, <1>4, <1>5, <1>6

LEMMA BaseIndicesAre ==
    ASSUME Table, NEW i \in Indices
    PROVE  /\ BaseIndices(i) \in Seq(Indices) /\ Len(BaseIndices(i)) = Len(module[i].bases)
           /\ Len(module[i].bases) \in Nat
           /\ DOMAIN BaseIndices(i) = 1..Len(module[i].bases)
           /\ DOMAIN module[i].bases = 1..Len(module[i].bases)
           /\ \A k \in 1..Len(module[i].bases) :
                 /\ module[i].bases[k] \in ToSet(module[i].bases)
                 /\ BaseIndices(i)[k] = IndexOf(module[i].bases[k])
                 /\ BaseIndices(i)[k] \in Indices /\ BaseIndices(i)[k] \in ToSet(BaseIndices(i))
                 /\ module[BaseIndices(i)[k]].name = module[i].bases[k]
           /\ Renamed(NameOf, BaseIndices(i)) = module[i].bases
<1> DEFINE bases == module[i].bases
<1>1. bases \in Seq(ClassNames)
  BY TableIs
<1>2. DOMAIN bases = 1..Len(bases) /\ Len(bases) \in Nat /\ \A k \in DOMAIN bases : bases[k] \in ToSet(bases)
  BY <1>1 DEF ToSet
<1>3. \A k \in DOMAIN bases : IndexOf(bases[k]) \in Indices /\ module[IndexOf(bases[k])].name = bases[k]
  BY <1>2, TableIs
<1>4. BaseIndices(i) = [k \in 1..Len(bases) |-> IndexOf(bases[k])]
  BY <1>2 DEF BaseIndices, IndexOf
<1>5. BaseIndices(i) \in Seq(Indices) /\ Len(BaseIndices(i)) = Len(bases)
  BY <1>2, <1>3, <1>4
<1>6. /\ DOMAIN BaseIndices(i) = 1..Len(bases)
      /\ \A k \in 1..Len(bases) : BaseIndices(i)[k] = IndexOf(bases[k])
  BY <1>4
<1>7. \A k \in 1..Len(bases) : BaseIndices(i)[k] \in ToSet(BaseIndices(i))
  BY <1>6 DEF ToSet
<1>8. Renamed(NameOf, BaseIndices(i)) = bases
  <2>1. Renamed(NameOf, BaseIndices(i)) = [k \in 1..Len(bases) |-> bases[k]]
    BY <1>2, <1>3, <1>6 DEF Renamed, NameOf
  <2>2. bases = [k \in 1..Len(bases) |-> bases[k]]
    BY <1>1, <1>2
  <2> QED
    BY <2>1, <2>2
<1> QED
  BY <1>2, <1>3, <1>5, <1>6, <1>7, <1>8

LEMMA NameOfIs ==
    ASSUME Table
    PROVE  NameOf \in Injection(Indices, ClassNames) /\ \A i \in Indices : NameOf[i] = module[i].name
BY TableIs DEF NameOf, Injection, IsInjective, Table, DistinctNames

\* The compiler's recursion: a class, and those whose linearization has begun.
Calls == Indices \X (SUBSET Indices)
AotMergedFrom(f, i, visiting) ==
    AotToMerge([k \in DOMAIN BaseIndices(i) |-> f[<<BaseIndices(i)[k], visiting \cup {i}>>].mro],
               BaseIndices(i))
AotLinearizedBy(f, i, visiting) ==
    IF i \in visiting \/ \E b \in ToSet(BaseIndices(i)) : ~f[<<b, visiting \cup {i}>>].ok
    THEN Inconsistent
    ELSE LET merged == MergeC3(AotMergedFrom(f, i, visiting))
         IN  IF merged.ok THEN [ok |-> TRUE, mro |-> <<i>> \o merged.mro] ELSE Inconsistent
AotLin == CHOOSE f : f = [call \in Calls |-> AotLinearizedBy(f, call[1], call[2])]

MergesBases(seqs, f, i, visiting, n) ==
    /\ seqs \in Seq(Seq(Indices)) /\ DOMAIN seqs = 1..n + 1
    /\ \A k \in 1..n : seqs[k] = f[<<BaseIndices(i)[k], visiting \cup {i}>>].mro
    /\ seqs[n + 1] = BaseIndices(i)

LEMMA AotMergedFromIs ==
    ASSUME Table, NEW f, NEW i \in Indices, NEW visiting,
           \A b \in ToSet(BaseIndices(i)) : f[<<b, visiting \cup {i}>>].mro \in Seq(Indices)
    PROVE  MergesBases(AotMergedFrom(f, i, visiting), f, i, visiting, Len(module[i].bases))
<1> DEFINE bases == BaseIndices(i)
           n == Len(module[i].bases)
           orders == [k \in 1..n |-> f[<<bases[k], visiting \cup {i}>>].mro]
<1>1. /\ bases \in Seq(Indices) /\ n \in Nat /\ DOMAIN bases = 1..n
      /\ \A k \in 1..n : bases[k] \in ToSet(bases)
  BY BaseIndicesAre
<1>2. orders \in Seq(Seq(Indices)) /\ Len(orders) = n
  BY <1>1
<1>3. <<bases>> \in Seq(Seq(Indices)) /\ Len(<<bases>>) = 1 /\ <<bases>>[1] = bases
  BY <1>1
<1>4. AotMergedFrom(f, i, visiting) = orders \o <<bases>>
  BY <1>1 DEF AotMergedFrom, AotToMerge
<1>5. \A k \in 1..n : orders[k] = f[<<bases[k], visiting \cup {i}>>].mro
  OBVIOUS
<1> HIDE DEF orders, bases, n
<1>6. /\ orders \o <<bases>> \in Seq(Seq(Indices)) /\ Len(orders \o <<bases>>) = n + 1
      /\ \A k \in 1..n + 1 :
            (orders \o <<bases>>)[k] = IF k <= n THEN orders[k] ELSE <<bases>>[k - n]
  BY <1>2, <1>3, ConcatProperties
<1>7. DOMAIN (orders \o <<bases>>) = 1..n + 1
  BY <1>6
<1>8. \A k \in 1..n : (orders \o <<bases>>)[k] = orders[k]
  BY <1>1, <1>6
<1>9. (orders \o <<bases>>)[n + 1] = bases
  BY <1>1, <1>3, <1>6
<1> QED
  <2>1. MergesBases(orders \o <<bases>>, f, i, visiting, n)
    BY <1>5, <1>6, <1>7, <1>8, <1>9 DEF MergesBases, bases
  <2> QED
    BY <1>4, <2>1 DEF n

LEMMA AotLinearizedByType ==
    ASSUME Table, NEW f, NEW i \in Indices, NEW visiting,
           \A b \in ToSet(BaseIndices(i)) :
              i \notin visiting => f[<<b, visiting \cup {i}>>] \in Results(Indices)
    PROVE  AotLinearizedBy(f, i, visiting) \in Results(Indices)
<1>1. Inconsistent \in Results(Indices)
  BY EmptySeq DEF Inconsistent, Results
<1>2. CASE i \in visiting
  BY <1>1, <1>2 DEF AotLinearizedBy
<1>3. CASE i \notin visiting
  <2>1. AotMergedFrom(f, i, visiting) \in Seq(Seq(Indices))
    BY <1>3, AotMergedFromIs DEF Results, MergesBases
  <2>2. MergeC3(AotMergedFrom(f, i, visiting)).mro \in Seq(Indices)
    BY <2>1, MergeC3Is DEF Results
  <2>3. <<i>> \o MergeC3(AotMergedFrom(f, i, visiting)).mro \in Seq(Indices)
    BY <2>2, Prepend
  <2> QED
    BY <1>1, <2>3 DEF AotLinearizedBy, Results
<1> QED
  BY <1>2, <1>3

\* Each call that is not already under way has fewer classes left to begin.
Unvisited(call) == Cardinality(Indices \ call[2])

LEMMA UnvisitedCounts ==
    ASSUME Table
    PROVE  \A call \in Calls : Unvisited(call) \in Nat
<1> SUFFICES ASSUME NEW call \in Calls PROVE Unvisited(call) \in Nat
  OBVIOUS
<1>1. IsFiniteSet(Indices \ call[2])
  BY TableIs, FS_Subset
<1> QED
  BY <1>1, FS_CardinalityType DEF Unvisited

LEMMA UnvisitedShrinks ==
    ASSUME Table, NEW i \in Indices, NEW visiting \in SUBSET Indices, i \notin visiting
    PROVE  /\ visiting \cup {i} \in SUBSET Indices
           /\ \A b : Unvisited(<<b, visiting \cup {i}>>) < Unvisited(<<i, visiting>>)
<1>1. IsFiniteSet(Indices \ visiting)
  BY TableIs, FS_Subset
<1>2. Cardinality((Indices \ visiting) \ {i}) = Cardinality(Indices \ visiting) - 1
  BY <1>1, FS_RemoveElement
<1>3. Cardinality(Indices \ visiting) \in Nat
  BY <1>1, FS_CardinalityType
<1>4. (Indices \ visiting) \ {i} = Indices \ (visiting \cup {i})
  OBVIOUS
<1> QED
  BY <1>2, <1>3, <1>4 DEF Unvisited

LEMMA AotLinIs ==
    ASSUME Table
    PROVE  /\ \A i \in Indices : \A visiting \in SUBSET Indices :
                 /\ AotLin[<<i, visiting>>] \in Results(Indices)
                 /\ AotLin[<<i, visiting>>] = AotLinearizedBy(AotLin, i, visiting)
           /\ AotLinearizations = [i \in Indices |-> AotLin[<<i, {}>>]]
<1> DEFINE S == Calls
           V == Results(Indices)
           rank == [call \in S |-> Unvisited(call)]
           step == [p \in S \X [S -> V] |-> AotLinearizedBy(p[2], p[1][1], p[1][2])]
<1>1. rank \in [S -> Nat]
  BY UnvisitedCounts
\* A call that goes on calls with a base, and one class more that has begun.
<1>2. ASSUME NEW i \in Indices, NEW visiting \in SUBSET Indices, i \notin visiting,
             NEW b \in ToSet(BaseIndices(i))
      PROVE  /\ <<b, visiting \cup {i}>> \in S
             /\ rank[<<b, visiting \cup {i}>>] < rank[<<i, visiting>>]
  <2>1. b \in Indices
    BY BaseIndicesAre DEF ToSet
  <2>2. <<b, visiting \cup {i}>> \in S /\ <<i, visiting>> \in S
    BY <2>1 DEF Calls
  <2> QED
    BY <1>2, <2>2, UnvisitedShrinks
<1> HIDE DEF rank
<1>3. step \in [S \X [S -> V] -> V]
  <2> SUFFICES ASSUME NEW i \in Indices, NEW visiting \in SUBSET Indices, NEW f \in [S -> V]
               PROVE  AotLinearizedBy(f, i, visiting) \in V
    BY DEF Calls
  <2>1. \A b \in ToSet(BaseIndices(i)) :
           i \notin visiting => f[<<b, visiting \cup {i}>>] \in V
    BY <1>2
  <2> QED
    BY <2>1, AotLinearizedByType
<1>4. ASSUME NEW i \in Indices, NEW visiting, NEW f, NEW g,
             i \notin visiting => \A b \in ToSet(BaseIndices(i)) :
                f[<<b, visiting \cup {i}>>] = g[<<b, visiting \cup {i}>>]
      PROVE  AotLinearizedBy(f, i, visiting) = AotLinearizedBy(g, i, visiting)
  <2>1. CASE i \in visiting
    BY <2>1 DEF AotLinearizedBy
  <2>2. CASE i \notin visiting
    <3>1. [k \in DOMAIN BaseIndices(i) |-> f[<<BaseIndices(i)[k], visiting \cup {i}>>].mro]
            = [k \in DOMAIN BaseIndices(i) |-> g[<<BaseIndices(i)[k], visiting \cup {i}>>].mro]
      BY <1>4, <2>2 DEF ToSet
    <3>2. AotMergedFrom(f, i, visiting) = AotMergedFrom(g, i, visiting)
      BY <3>1 DEF AotMergedFrom
    <3> QED
      BY <1>4, <2>2, <3>2 DEF AotLinearizedBy
  <2> QED
    BY <2>1, <2>2
<1>5. \A call \in S : \A f, g \in [S -> V] :
         (\A other \in S : rank[other] < rank[call] => f[other] = g[other])
            => step[<<call, f>>] = step[<<call, g>>]
  <2> SUFFICES ASSUME NEW call \in S, NEW f \in [S -> V], NEW g \in [S -> V],
                      \A other \in S : rank[other] < rank[call] => f[other] = g[other]
               PROVE  step[<<call, f>>] = step[<<call, g>>]
    BY Zenon
  <2>1. PICK i \in Indices, visiting \in SUBSET Indices : call = <<i, visiting>>
    BY DEF Calls
  <2>2. AotLinearizedBy(f, i, visiting) = AotLinearizedBy(g, i, visiting)
    BY <1>2, <1>4, <2>1
  <2> HIDE DEF V, S
  <2>3. AotLinearizedBy(f, call[1], call[2]) = AotLinearizedBy(g, call[1], call[2])
    BY <2>1, <2>2
  <2> QED
    BY <2>3
<1>6. DefinesByRank(S, V, rank, step)
  <2> HIDE DEF step, S, V
  <2> QED
    BY <1>1, <1>3, <1>5 DEF DefinesByRank
<1>7. Solvable(S, V, step)
  <2>1. Inconsistent \in V
    BY EmptySeq DEF Inconsistent, Results
  <2> HIDE DEF step, S, V
  <2> QED
    BY <1>6, <2>1, RankRecursion
<1>8. \E f : f = [call \in S |-> AotLinearizedBy(f, call[1], call[2])]
  <2>1. PICK f \in [S -> V] : \A call \in S : f[call] = step[<<call, f>>]
    BY <1>7 DEF Solvable
  <2>2. \A call \in S : f[call] = AotLinearizedBy(f, call[1], call[2])
    <3> HIDE DEF V, S
    <3> QED
      BY <2>1
  <2>3. f = [call \in S |-> AotLinearizedBy(f, call[1], call[2])]
    <3> HIDE DEF V, S
    <3> QED
      BY <2>1, <2>2
  <2> QED
    BY <2>3
<1>9. AotLin = [call \in S |-> AotLinearizedBy(AotLin, call[1], call[2])]
  <2> HIDE DEF S
  <2> QED
    BY <1>8 DEF AotLin, S
<1>10. \A call \in S : AotLin[call] = AotLinearizedBy(AotLin, call[1], call[2])
  <2> HIDE DEF S
  <2> QED
    BY <1>9
<1>11. \A i \in Indices : \A visiting \in SUBSET Indices :
         <<i, visiting>> \in S /\ AotLin[<<i, visiting>>] = AotLinearizedBy(AotLin, i, visiting)
  <2> SUFFICES ASSUME NEW i \in Indices, NEW visiting \in SUBSET Indices
               PROVE  /\ <<i, visiting>> \in S
                      /\ AotLin[<<i, visiting>>] = AotLinearizedBy(AotLin, i, visiting)
    OBVIOUS
  <2>1. PICK call \in S : call = <<i, visiting>>
    BY DEF Calls
  <2>2. call[1] = i /\ call[2] = visiting
    BY <2>1
  <2> HIDE DEF S
  <2> QED
    BY <1>10, <2>1, <2>2
<1> DEFINE T == {call \in S : AotLin[call] \in V}
<1>12. ASSUME NEW call \in S, \A other \in S : rank[other] < rank[call] => other \in T
       PROVE  call \in T
  <2>1. PICK i \in Indices, visiting \in SUBSET Indices : call = <<i, visiting>>
    BY DEF Calls
  <2>2. \A b \in ToSet(BaseIndices(i)) :
           i \notin visiting => AotLin[<<b, visiting \cup {i}>>] \in V
    BY <1>2, <1>12, <2>1
  <2>3. AotLinearizedBy(AotLin, i, visiting) \in V
    BY <2>2, AotLinearizedByType
  <2> HIDE DEF V, S
  <2> QED
    BY <1>11, <2>1, <2>3
<1>13. S \subseteq T
  <2> HIDE DEF T, S
  <2> QED
    BY <1>1, <1>12, RankInduction
\* What the model writes is the same function.
<1> DEFINE Body(f, i, visiting) ==
             LET of == [b \in ToSet(BaseIndices(i)) |-> f[<<b, visiting \cup {i}>>]]
                 orders == [k \in DOMAIN BaseIndices(i) |-> of[BaseIndices(i)[k]].mro]
             IN  IF i \in visiting \/ \E b \in DOMAIN of : ~of[b].ok THEN Inconsistent
                 ELSE LET merged == MergeC3Indices(AotToMerge(orders, BaseIndices(i)))
                      IN  IF merged.ok THEN [ok |-> TRUE, mro |-> <<i>> \o merged.mro]
                                       ELSE Inconsistent
<1>14. ASSUME NEW f, NEW i, NEW visiting
       PROVE  Body(f, i, visiting) = AotLinearizedBy(f, i, visiting)
  <2>1. [k \in DOMAIN BaseIndices(i) |->
           [b \in ToSet(BaseIndices(i)) |-> f[<<b, visiting \cup {i}>>]][BaseIndices(i)[k]].mro]
          = [k \in DOMAIN BaseIndices(i) |-> f[<<BaseIndices(i)[k], visiting \cup {i}>>].mro]
    BY DEF ToSet
  <2> QED
    BY <2>1 DEF AotLinearizedBy, AotMergedFrom, MergeC3Indices
<1>15. AotLinearizations =
         [i \in Indices |-> (CHOOSE f : f = [call \in S |-> Body(f, call[1], call[2])])[<<i, {}>>]]
  BY DEF AotLinearizations, Calls
<1>16. \A f : [call \in S |-> Body(f, call[1], call[2])]
                = [call \in S |-> AotLinearizedBy(f, call[1], call[2])]
  <2> HIDE DEF Body, S
  <2> QED
    BY <1>14
<1>17. (CHOOSE f : f = [call \in S |-> Body(f, call[1], call[2])]) = AotLin
  <2> HIDE DEF Body
  <2> QED
    BY <1>16 DEF AotLin
<1>18. AotLinearizations = [i \in Indices |-> AotLin[<<i, {}>>]]
  <2> HIDE DEF Body, S
  <2> QED
    BY <1>15, <1>17
<1>19. \A i \in Indices : \A visiting \in SUBSET Indices : AotLin[<<i, visiting>>] \in V
  <2> HIDE DEF V
  <2> QED
    BY <1>11, <1>13
<1> QED
  BY <1>11, <1>18, <1>19

\* The registry holds what the module declares.
Registered ==
    /\ Known = {module[i].name : i \in Indices}
    /\ \A i \in Indices : classes[module[i].name] = module[i].bases

SameOrder(c, visiting) ==
    /\ AotLin[<<IndexOf(c), visiting>>].ok = Linearizations[c].ok
    /\ Linearizations[c].mro = Renamed(NameOf, AotLin[<<IndexOf(c), visiting>>].mro)

\* While nothing that a class inherits from has begun, the compiler computes for it what
\* the registry computes.
LEMMA SameOrders ==
    ASSUME Table, Hierarchy, Registered
    PROVE  \A c \in Known : \A visiting \in SUBSET Indices :
              (\A j \in visiting : module[j].name \notin Ancestry(c)) => SameOrder(c, visiting)
<1> DEFINE Apart(c, visiting) == \A j \in visiting : module[j].name \notin Ancestry(c)
           T == {c \in Known : \A visiting \in SUBSET Indices :
                                  Apart(c, visiting) => SameOrder(c, visiting)}
<1>1. ASSUME NEW c \in Known, ToSet(classes[c]) \subseteq T PROVE c \in T
  <2> SUFFICES ASSUME NEW visiting \in SUBSET Indices, Apart(c, visiting)
               PROVE  SameOrder(c, visiting)
    OBVIOUS
  <2>1. PICK i \in Indices : module[i].name = c
    BY DEF Registered
  <2>2. IndexOf(c) = i /\ classes[c] = module[i].bases
    BY <2>1, TableIs DEF Registered
  <2>3. i \notin visiting
    BY <2>1, AncestryParts
  <2> DEFINE n == Len(classes[c])
             seqs == AotMergedFrom(AotLin, i, visiting)
             names == MergedFrom(Linearizations, c)
             begun == visiting \cup {i}
  <2>4. /\ BaseIndices(i) \in Seq(Indices) /\ DOMAIN BaseIndices(i) = 1..n
        /\ DOMAIN classes[c] = 1..n /\ n \in Nat
        /\ \A k \in 1..n : /\ classes[c][k] \in ToSet(classes[c])
                           /\ BaseIndices(i)[k] = IndexOf(classes[c][k])
                           /\ BaseIndices(i)[k] \in Indices
                           /\ BaseIndices(i)[k] \in ToSet(BaseIndices(i))
        /\ Renamed(NameOf, BaseIndices(i)) = classes[c]
    BY <2>2, BaseIndicesAre
  <2>5. ASSUME NEW b \in ToSet(classes[c])
        PROVE  SameOrder(b, begun) /\ Linearizations[b].mro \in Seq(Known)
    <3>1. b \in Known /\ Ancestry(b) \subseteq Ancestry(c) /\ c \notin Ancestry(b)
      BY AncestryParts, NoCycle
    <3>2. Apart(b, begun)
      BY <2>1, <3>1
    <3>3. SameOrder(b, begun)
      BY <1>1, <3>2
    <3> QED
      BY <3>1, <3>3, LinearizationsAre DEF Results
  <2>6. \A j \in ToSet(BaseIndices(i)) : AotLin[<<j, begun>>] \in Results(Indices)
    <3>1. ToSet(BaseIndices(i)) \subseteq Indices /\ begun \in SUBSET Indices
      BY <2>4 DEF ToSet
    <3> QED
      BY <3>1, AotLinIs
  <2>7. /\ seqs \in Seq(Seq(Indices)) /\ DOMAIN seqs = 1..n + 1
        /\ \A k \in 1..n : seqs[k] = AotLin[<<BaseIndices(i)[k], begun>>].mro
        /\ seqs[n + 1] = BaseIndices(i)
    <3>1. \A j \in ToSet(BaseIndices(i)) : AotLin[<<j, visiting \cup {i}>>].mro \in Seq(Indices)
      BY <2>6 DEF Results
    <3>2. MergesBases(AotMergedFrom(AotLin, i, visiting), AotLin, i, visiting, Len(module[i].bases))
      BY <3>1, AotMergedFromIs
    <3>3. Len(module[i].bases) = n
      BY <2>2
    <3> HIDE DEF n
    <3>4. MergesBases(AotMergedFrom(AotLin, i, visiting), AotLin, i, visiting, n)
      BY <3>2, <3>3
    <3> QED
      BY <3>4 DEF MergesBases
  <2>8. /\ names \in Seq(Seq(Known)) /\ DOMAIN names = 1..n + 1
        /\ \A k \in 1..n : names[k] = Linearizations[classes[c][k]].mro
        /\ names[n + 1] = classes[c]
    BY <2>5, MergedFromIs
  <2> HIDE DEF n, seqs, names, begun
  <2>9. names = AllRenamed(NameOf, seqs)
    <3>1. ASSUME NEW k \in 1..n + 1 PROVE names[k] = Renamed(NameOf, seqs[k])
      <4>1. CASE k = n + 1
        BY <2>4, <2>7, <2>8, <4>1
      <4>2. CASE k # n + 1
        <5>1. k \in 1..n
          BY <2>4, <4>2
        <5>2. SameOrder(classes[c][k], begun)
          BY <2>4, <2>5, <5>1
        <5> QED
          BY <2>4, <2>7, <2>8, <5>1, <5>2 DEF SameOrder
      <4> QED
        BY <4>1, <4>2
    <3>2. names = [k \in 1..n + 1 |-> names[k]]
      BY <2>8
    <3> QED
      BY <2>7, <3>1, <3>2 DEF AllRenamed
  <2>10. /\ MergeC3(names).ok = MergeC3(seqs).ok
         /\ MergeC3(names).mro = Renamed(NameOf, MergeC3(seqs).mro)
         /\ MergeC3(seqs).mro \in Seq(Indices)
    <3>1. NameOf \in Injection(Indices, ClassNames)
      BY NameOfIs
    <3>2. MergeC3(seqs) \in Results(Indices)
      BY <2>7, MergeC3Is
    <3> QED
      BY <2>7, <2>9, <3>1, <3>2, MergeRenamed DEF Results
  <2>11. (\E j \in ToSet(BaseIndices(i)) : ~AotLin[<<j, begun>>].ok)
            <=> ~(\A b \in ToSet(classes[c]) : Linearizations[b].ok)
    <3>1. \A k \in 1..n : AotLin[<<BaseIndices(i)[k], begun>>].ok = Linearizations[classes[c][k]].ok
      BY <2>4, <2>5 DEF SameOrder
    <3>2. /\ \A j \in ToSet(BaseIndices(i)) : \E k \in 1..n : j = BaseIndices(i)[k]
          /\ \A b \in ToSet(classes[c]) : \E k \in 1..n : b = classes[c][k]
      BY <2>4 DEF ToSet
    <3>3. ASSUME NEW j \in ToSet(BaseIndices(i)), ~AotLin[<<j, begun>>].ok
          PROVE  \E b \in ToSet(classes[c]) : ~Linearizations[b].ok
      <4>1. PICK k \in 1..n : j = BaseIndices(i)[k]
        BY <3>2
      <4> QED
        BY <2>4, <3>1, <3>3, <4>1
    <3>4. ASSUME NEW b \in ToSet(classes[c]), ~Linearizations[b].ok
          PROVE  \E j \in ToSet(BaseIndices(i)) : ~AotLin[<<j, begun>>].ok
      <4>1. PICK k \in 1..n : b = classes[c][k]
        BY <3>2
      <4> QED
        BY <2>4, <3>1, <3>4, <4>1
    <3> QED
      BY <3>3, <3>4
  <2>12. Linearizations[c] = IF (\A b \in ToSet(classes[c]) : Linearizations[b].ok) /\ MergeC3(names).ok
                             THEN [ok |-> TRUE, mro |-> <<c>> \o MergeC3(names).mro] ELSE Inconsistent
    BY LinearizationsAre DEF LinearizedBy, names
  <2>13. AotLin[<<i, visiting>>] =
           IF \E j \in ToSet(BaseIndices(i)) : ~AotLin[<<j, begun>>].ok THEN Inconsistent
           ELSE IF MergeC3(seqs).ok THEN [ok |-> TRUE, mro |-> <<i>> \o MergeC3(seqs).mro]
           ELSE Inconsistent
    <3>1. AotLin[<<i, visiting>>] = AotLinearizedBy(AotLin, i, visiting)
      BY AotLinIs
    <3> QED
      BY <2>3, <3>1 DEF AotLinearizedBy, seqs, begun
  <2>14. Renamed(NameOf, <<i>> \o MergeC3(seqs).mro) = <<c>> \o MergeC3(names).mro
    <3>1. RenamesFirst(NameOf, i, MergeC3(seqs).mro)
      BY <2>10, NameOfIs, RenamedPrepend
    <3>2. NameOf[i] = c
      BY <2>1, NameOfIs
    <3> QED
      BY <2>10, <3>1, <3>2 DEF RenamesFirst
  <2>15. Renamed(NameOf, <<>>) = <<>>
    BY DEF Renamed
  <2> DEFINE found == (\A b \in ToSet(classes[c]) : Linearizations[b].ok) /\ MergeC3(names).ok
  <2>16. CASE found
    <3>1. Linearizations[c] = [ok |-> TRUE, mro |-> <<c>> \o MergeC3(names).mro]
      BY <2>12, <2>16
    <3>2. AotLin[<<i, visiting>>] = [ok |-> TRUE, mro |-> <<i>> \o MergeC3(seqs).mro]
      BY <2>10, <2>11, <2>13, <2>16
    <3>3. Linearizations[c].ok /\ Linearizations[c].mro = <<c>> \o MergeC3(names).mro
      BY <3>1
    <3>4. /\ AotLin[<<i, visiting>>].ok
          /\ AotLin[<<i, visiting>>].mro = <<i>> \o MergeC3(seqs).mro
      BY <3>2
    <3>5. /\ AotLin[<<i, visiting>>].ok = TRUE /\ Linearizations[c].ok = TRUE
      BY <3>1, <3>2
    <3>6. Renamed(NameOf, AotLin[<<i, visiting>>].mro) = Linearizations[c].mro
      BY <2>14, <3>3, <3>4
    <3> QED
      BY <2>2, <3>5, <3>6 DEF SameOrder
  <2>17. CASE ~found
    <3>1. Linearizations[c] = Inconsistent /\ AotLin[<<i, visiting>>] = Inconsistent
      BY <2>10, <2>11, <2>12, <2>13, <2>17
    <3>2. Linearizations[c].mro = <<>>
      BY <3>1 DEF Inconsistent
    <3> QED
      BY <2>2, <2>15, <3>1, <3>2 DEF SameOrder
  <2> QED
    BY <2>16, <2>17
<1> HIDE DEF T
<1>2. Known \subseteq T
  BY <1>1, HierarchyInduction
<1> QED
  BY <1>2 DEF T

\* A class for which the compiler has an order can be registered: it inherits from
\* nothing that is missing, and not from itself.
LEMMA CompiledResolves ==
    ASSUME Table
    PROVE  \A i \in Indices : AotLinearizations[i].ok => module[i].name \in Resolvable
<1> DEFINE rank == [call \in Calls |-> Unvisited(call)]
           T == {call \in Calls : AotLin[call].ok => module[call[1]].name \in Resolvable}
<1>1. rank \in [Calls -> Nat]
  BY UnvisitedCounts
<1>2. ASSUME NEW call \in Calls, \A other \in Calls : rank[other] < rank[call] => other \in T
      PROVE  call \in T
  <2>1. PICK i \in Indices, visiting \in SUBSET Indices : call = <<i, visiting>>
    BY DEF Calls
  <2>2. SUFFICES ASSUME AotLin[<<i, visiting>>].ok PROVE module[i].name \in Resolvable
    BY <2>1
  <2>3. AotLin[<<i, visiting>>] = AotLinearizedBy(AotLin, i, visiting)
    BY AotLinIs
  <2>4. ~Inconsistent.ok
    BY DEF Inconsistent
  <2>5. i \notin visiting /\ \A b \in ToSet(BaseIndices(i)) : AotLin[<<b, visiting \cup {i}>>].ok
    BY <2>2, <2>3, <2>4 DEF AotLinearizedBy
  <2>6. ASSUME NEW b \in ToSet(BaseIndices(i)) PROVE module[b].name \in Resolvable
    <3>1. b \in Indices
      BY BaseIndicesAre DEF ToSet
    <3>2. PICK other \in Calls : other = <<b, visiting \cup {i}>>
      BY <3>1 DEF Calls
    <3>3. rank[other] < rank[call]
      BY <2>1, <2>5, <3>2, UnvisitedShrinks
    <3> QED
      BY <1>2, <2>5, <3>2, <3>3
  <2>7. ToSet(module[i].bases) \subseteq Resolvable
    <3>1. \A k \in DOMAIN module[i].bases : module[i].bases[k] \in Resolvable
      BY <2>6, BaseIndicesAre
    <3> QED
      BY <3>1 DEF ToSet
  <2>8. module[i] \in ToSet(module)
    BY DEF ToSet, Indices
  <2> QED
    BY <2>7, <2>8, ResolvableLeast DEF ClosedNames
<1>3. Calls \subseteq T
  <2> HIDE DEF T, rank
  <2> QED
    BY <1>1, <1>2, RankInduction
<1>4. \A i \in Indices : AotLinearizations[i] = AotLin[<<i, {}>>] /\ <<i, {}>> \in Calls
  BY AotLinIs DEF Calls
<1> QED
  BY <1>3, <1>4

\* What tievm has registered is as the module declares it.
FromModule ==
    status # "idle" =>
        \A c \in Known : \E decl \in ToSet(module) : decl.name = c /\ decl.bases = classes[c]

LEMMA NextFromModule == IInv /\ FromModule /\ [Next]_vars => FromModule'
<1> SUFFICES ASSUME IInv, FromModule, [Next]_vars PROVE FromModule'
  OBVIOUS
<1>1. ASSUME UNCHANGED <<classes, module>>, status' # "idle" => status # "idle" PROVE FromModule'
  BY <1>1 DEF FromModule, Known
<1>2. ASSUME NEW n \in 0..MaxBases, NEW bases \in [1..n -> Known], RegisterClass(bases)
      PROVE  FromModule'
  BY <1>2 DEF RegisterClass, FromModule, loop
<1>3. ASSUME NEW c \in Known, ComputeMro(c) PROVE FromModule'
  BY <1>1, <1>3 DEF ComputeMro, loop
<1>4. ASSUME NEW m \in Modules, StartModule(m) PROVE FromModule'
  BY <1>4 DEF StartModule, FromModule, Known
<1>5. CASE Postpone \/ EndRound \/ UNCHANGED vars
  BY <1>1, <1>5 DEF Postpone, EndRound, vars, loop
<1>6. CASE RegisterDeclared
  <2>1. /\ status = "running" /\ pending # <<>> /\ module' = module
        /\ \/ UNCHANGED classes
           \/ Registers(Head(pending).name, Head(pending).bases)
    BY <1>6 DEF RegisterDeclared
  <2>2. Head(pending) \in ToSet(module)
    <3>1. LoopInv
      BY <2>1 DEF IInv
    <3> QED
      BY <2>1, <3>1, ToSetTail DEF LoopInv, Waiting
  <2>3. CASE UNCHANGED classes
    BY <1>1, <2>1, <2>3
  <2>4. CASE Registers(Head(pending).name, Head(pending).bases)
    <3>1. PICK decl \in ToSet(module) : decl = Head(pending)
      BY <2>2
    <3>2. /\ Known' = Known \cup {decl.name}
          /\ \A c \in Known' : classes'[c] = IF c = decl.name THEN decl.bases ELSE classes[c]
      BY <2>4, <3>1 DEF Registers, Extended, Known
    <3>3. \A c \in Known : \E d \in ToSet(module) : d.name = c /\ d.bases = classes[c]
      BY <2>1 DEF FromModule
    <3>4. ASSUME NEW c \in Known'
          PROVE  \E d \in ToSet(module) : d.name = c /\ d.bases = classes'[c]
      <4>1. CASE c = decl.name
        BY <3>2, <4>1
      <4>2. CASE c # decl.name
        BY <3>2, <3>3, <4>2
      <4> QED
        BY <4>1, <4>2
    <3> QED
      BY <2>1, <3>4 DEF FromModule
  <2> QED
    BY <2>1, <2>3, <2>4
<1> QED
  BY <1>2, <1>3, <1>4, <1>5, <1>6 DEF Next, Loop

\* When the table can be built and every class of it is there, they are the same.
LEMMA RegisteredIs ==
    ASSUME Table, FromModule, status # "idle", \A i \in Indices : module[i].name \in Known
    PROVE  Registered
<1>1. ASSUME NEW c \in Known PROVE \E i \in Indices : module[i].name = c /\ module[i].bases = classes[c]
  BY DEF FromModule, ToSet, Indices
<1>2. \A i, j \in Indices : module[i].name = module[j].name => i = j
  BY DEF Table, DistinctNames
<1>3. ASSUME NEW i \in Indices PROVE classes[module[i].name] = module[i].bases
  <2>1. PICK j \in Indices : module[j].name = module[i].name /\ module[j].bases = classes[module[i].name]
    BY <1>1
  <2> QED
    BY <1>2, <2>1
<1> QED
  BY <1>1, <1>3 DEF Registered

LEMMA OrdersCompiled ==
    ASSUME Table, Hierarchy, Registered, NEW i \in Indices
    PROVE  /\ module[i].name \in Known /\ EmittedClassId(module[i].name) = i
           /\ AotLinearizations[i].ok = Linearizations[module[i].name].ok
           /\ AotLinearizations[i].mro \in Seq(Indices)
           /\ Linearizations[module[i].name].mro = Renamed(NameOf, AotLinearizations[i].mro)
<1>1. module[i].name \in Known /\ IndexOf(module[i].name) = i
  BY TableIs DEF Registered
<1>2. AotLinearizations[i] = AotLin[<<i, {}>>] /\ AotLin[<<i, {}>>] \in Results(Indices)
  BY AotLinIs
<1>3. SameOrder(module[i].name, {})
  BY <1>1, SameOrders
<1> QED
  BY <1>1, <1>2, <1>3 DEF SameOrder, IndexOf, EmittedClassId, Results

\* The emitted switch runs the method that Invoke runs.
LEMMA DispatchCompiled ==
    ASSUME Table, Hierarchy, Registered, NEW name \in Known,
           NEW having \in SUBSET Known, NEW private \in SUBSET Known
    PROVE  LET mro == Linearizations[name].mro
           IN  EmittedInvoke(EmittedClassId(name), having, private) =
                 IF Invocable(mro, having, private, FALSE) THEN Lookup(mro, having) ELSE NoMethod
<1> DEFINE mro == Linearizations[name].mro
<1>1. PICK i \in Indices : module[i].name = name
  BY DEF Registered
<1> DEFINE order == AotLinearizations[i].mro
           found == {k \in DOMAIN order : module[order[k]].name \in having}
<1>2. EmittedClassId(name) = i /\ order \in Seq(Indices) /\ mro = Renamed(NameOf, order)
  BY <1>1, OrdersCompiled
<1>3. /\ DOMAIN mro = DOMAIN order /\ DOMAIN order = 1..Len(order) /\ Len(order) \in Nat
      /\ \A k \in DOMAIN order : order[k] \in Indices /\ mro[k] = module[order[k]].name
  <2> HIDE DEF mro, order
  <2> QED
    BY <1>2, RenamedIs, NameOfIs
<1>4. found = {k \in DOMAIN mro : mro[k] \in having} /\ found \in SUBSET Nat
  <2> HIDE DEF mro, order
  <2> QED
    BY <1>3
<1>5. Lookup(mro, having) = IF found = {} THEN NoMethod ELSE mro[Min(found)]
  <2> HIDE DEF mro, found
  <2> QED
    BY <1>4 DEF Lookup
<1>6. ResolveInvokeMethod(i, having, private) =
        IF found = {} \/ module[order[Min(found)]].name \in private THEN NoMethod
        ELSE module[order[Min(found)]].name
  BY DEF ResolveInvokeMethod
<1>7. EmittedInvoke(i, having, private) = ResolveInvokeMethod(i, having, private)
  BY DEF EmittedInvoke
<1> HIDE DEF mro, order, found
<1>8. CASE found = {}
  BY <1>2, <1>5, <1>6, <1>7, <1>8 DEF Invocable, mro
<1>9. CASE found # {}
  <2>1. Min(found) \in found
    BY <1>4, <1>9, LeastNumber
  <2>2. Min(found) \in DOMAIN order /\ mro[Min(found)] \in having
    BY <1>3, <1>4, <2>1
  <2>3. mro[Min(found)] = module[order[Min(found)]].name
    BY <1>3, <2>2
  <2>4. mro[Min(found)] # NoMethod
    BY <2>2 DEF Hierarchy, ClassNames, NoMethod
  <2> QED
    BY <1>2, <1>5, <1>6, <1>7, <1>9, <2>3, <2>4 DEF Invocable, mro
<1> QED
  BY <1>8, <1>9

LEMMA DispatchesSame ==
    ASSUME IInv, RegistryInv, FromModule
    PROVE  CompiledDispatchSame
<1> DEFINE declared == {module[i].name : i \in Indices}
           all == \A c \in Known : Linearizations[c].ok
<1> SUFFICES ASSUME status \in {"ok", "failed"}
             PROVE  /\ CompilesClasses <=> status = "ok" /\ DistinctNames /\ all
                    /\ CompilesClasses =>
                         \A name \in Known : \A having, private \in SUBSET Known :
                           LET mro == Linearizations[name].mro
                           IN  EmittedInvoke(EmittedClassId(name), having, private) =
                                 IF Invocable(mro, having, private, FALSE)
                                 THEN Lookup(mro, having) ELSE NoMethod
  BY DEF CompiledDispatchSame
<1>1. module \in Seq(Declarations)
  BY DEF IInv, LoopInv
<1>2. Hierarchy
  BY RegistryIsHierarchy
<1>3. /\ Known = Resolvable
      /\ status = "ok" <=> \A i \in Indices : ToSet(module[i].bases) \subseteq Resolvable
  BY DEF IInv, LoadResolves, Indices
<1>4. Resolvable \subseteq declared
  BY DEF Resolvable, Indices
<1>5. ASSUME CompilesClasses PROVE Table /\ Registered /\ status = "ok" /\ DistinctNames /\ all
  <2>1. Table
    BY <1>1, <1>5 DEF Table, CompilesClasses
  <2>2. \A i \in Indices : module[i].name \in Resolvable
    BY <1>5, <2>1, CompiledResolves DEF CompilesClasses
  <2>3. Registered
    BY <1>3, <2>1, <2>2, RegisteredIs
  <2>4. status = "ok"
    <3>1. ASSUME NEW i \in Indices, NEW b \in ToSet(module[i].bases) PROVE b \in Resolvable
      BY <2>1, <2>2, TableIs
    <3> QED
      BY <1>3, <3>1
  <2>5. ASSUME NEW c \in Known PROVE Linearizations[c].ok
    <3>1. PICK i \in Indices : module[i].name = c
      BY <1>3, <1>4
    <3>2. AotLinearizations[i].ok
      BY <1>5 DEF CompilesClasses
    <3> QED
      BY <1>2, <2>1, <2>3, <3>1, <3>2, OrdersCompiled
  <2> QED
    BY <1>5, <2>1, <2>3, <2>4, <2>5 DEF CompilesClasses
<1>6. ASSUME status = "ok", DistinctNames, all PROVE CompilesClasses
  <2>1. ASSUME NEW i \in Indices PROVE ToSet(module[i].bases) \subseteq Resolvable
    BY <1>3, <1>6
  <2>2. BasesDeclared
    <3>1. ASSUME NEW b \in declared PROVE Declares(b) # {}
      BY DEF Declares
    <3> QED
      BY <1>4, <2>1, <3>1 DEF BasesDeclared
  <2>3. Table
    BY <1>1, <1>6, <2>2 DEF Table
  <2>4. ASSUME NEW i \in Indices PROVE module[i].name \in Known
    <3>1. module[i] \in ToSet(module)
      BY DEF ToSet, Indices
    <3> QED
      BY <1>3, <2>1, <3>1, ResolvableLeast DEF ClosedNames
  <2>5. Registered
    BY <2>3, <2>4, RegisteredIs
  <2>6. ASSUME NEW i \in Indices PROVE AotLinearizations[i].ok
    BY <1>2, <1>6, <2>3, <2>4, <2>5, OrdersCompiled
  <2> QED
    BY <1>6, <2>2, <2>6 DEF CompilesClasses
<1>7. ASSUME CompilesClasses, NEW name \in Known,
             NEW having \in SUBSET Known, NEW private \in SUBSET Known
      PROVE  LET mro == Linearizations[name].mro
             IN  EmittedInvoke(EmittedClassId(name), having, private) =
                   IF Invocable(mro, having, private, FALSE)
                   THEN Lookup(mro, having) ELSE NoMethod
  BY <1>2, <1>5, <1>7, DispatchCompiled
<1> QED
  BY <1>5, <1>6, <1>7

\* A module's classes compile if and only if the registry would take and order them all,
\* and then the compiled invoke calls, on any object, the method that Invoke runs.
THEOREM CompiledClassesDispatchSame == Spec => []CompiledDispatchSame
<1>1. Init => IInv /\ RegistryInv /\ FromModule
  <2>1. Init => IInv
    BY DEF Init, IInv, LoadResolves
  <2>2. Init => FromModule
    BY DEF Init, FromModule
  <2> QED
    BY <2>1, <2>2, InitRegistry
<1>2. IInv /\ RegistryInv /\ FromModule /\ [Next]_vars => (IInv /\ RegistryInv /\ FromModule)'
  BY NextInv, NextRegistry, NextFromModule
<1>3. IInv /\ RegistryInv /\ FromModule => CompiledDispatchSame
  BY DispatchesSame
<1> QED
  BY <1>1, <1>2, <1>3, PTL DEF Spec
=============================================================================
