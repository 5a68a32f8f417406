---------------------------- MODULE MeaningProofs ----------------------------
(***************************************************************************)
(* Below level 3 the optimizer keeps what a module does, for every module, *)
(* every argument and every constant, where its passes meet only code that *)
(* they can handle (kept): every run that ends, and mixes no integers,     *)
(* ends alike in no more steps (SameEnds).                                 *)
(*                                                                         *)
(* Of the passes that rewrite instructions in place OptimizerProofs shows  *)
(* more.  The other three change the number of steps.  After tailcall and  *)
(* loop_fusion the new module gets from a machine to one of those that     *)
(* follow in the old module, in no more steps (Advance).  After cleanup    *)
(* the program counters differ as well: each machine of the new module is  *)
(* the shadow of one of the old (Shadows), and never behind it.            *)
(***************************************************************************)
EXTENDS OptimizerProofs

-----------------------------------------------------------------------------
(* Two modules that get to the same end                                    *)

\* Where a run of M ends, and integers are not mixed, N ends alike, with the same fuel.
SameEnds(M, N) ==
    \A n, fuel : \A args \in Seq(Values) : fuel \in Nat =>
      \/ Execute(M, n, args, fuel).how = "diverges"
      \/ Execute(M, n, args, fuel).mixed
      \/ Execute(N, n, args, fuel) = Execute(M, n, args, fuel)

\* What can be told of a machine from outside.
Outcome(m) == [how |-> m.how, value |-> m.value, calls |-> m.calls, mixed |-> m.mixed]

\* From m both modules get to the same machine, of which the facts hold, or stop alike, N in no
\* more steps than M; or M mixes integers on the way.
Advances(M, N, K, facts, m) ==
    \E x \in Nat \ {0} : \E y \in 1..x :
      /\ \A l \in 0..x - 1 : Course(M, m)[l].how = "runs"
      /\ \/ Course(M, m)[x].mixed
         \/ Tracked(K, facts, Course(M, m)[x]) /\ Course(N, m)[y] = Course(M, m)[x]
         \/ Course(M, m)[x].how # "runs" /\ Outcome(Course(N, m)[y]) = Outcome(Course(M, m)[x])

\* They do so from every machine of which the facts hold.
Advance(M, N, K, facts) ==
    \A m : Tracked(K, facts, m) /\ m.how = "runs" => Advances(M, N, K, facts, m)

\* A course, step by step.
LEMMA CourseSteps ==
    ASSUME NEW M, NEW m
    PROVE  /\ Course(M, m)[0] = m
           /\ \A k \in Nat : Course(M, m)[k + 1] = IF Course(M, m)[k].how = "runs"
                                                   THEN Step(M, Course(M, m)[k]) ELSE Course(M, m)[k]
<1> DEFINE c == Course(M, m)
<1>1. c[0] = m /\ \A k \in Nat : Follows(M, c, k)
  BY CourseExists
<1> HIDE DEF c
<1>2. ASSUME NEW k \in Nat PROVE c[k + 1] = IF c[k].how = "runs" THEN Step(M, c[k]) ELSE c[k]
  <2>1. Follows(M, c, k + 1) /\ k + 1 \in 1..k + 1 /\ k + 1 - 1 = k
    BY <1>1
  <2> QED
    BY <2>1 DEF Follows
<1> QED
  BY <1>1, <1>2 DEF c

\* A course goes on from each of its machines.
LEMMA CourseSplit ==
    ASSUME NEW M, NEW m, NEW k \in Nat, NEW n \in Nat
    PROVE  Course(M, m)[k + n] = Course(M, Course(M, m)[k])[n]
<1> DEFINE c == Course(M, m)
           d == Course(M, c[k])
           T == {j \in Nat : c[k + j] = d[j]}
<1>1. /\ \A j \in Nat : c[j + 1] = IF c[j].how = "runs" THEN Step(M, c[j]) ELSE c[j]
      /\ d[0] = c[k]
      /\ \A j \in Nat : d[j + 1] = IF d[j].how = "runs" THEN Step(M, d[j]) ELSE d[j]
  <2>1. \A p : /\ Course(M, p)[0] = p
               /\ \A j \in Nat : Course(M, p)[j + 1] = IF Course(M, p)[j].how = "runs"
                                                   THEN Step(M, Course(M, p)[j]) ELSE Course(M, p)[j]
    BY CourseSteps
  <2> QED
    BY <2>1
<1> HIDE DEF c, d
<1>2. 0 \in T
  BY <1>1
<1>3. ASSUME NEW j \in Nat, j \in T PROVE j + 1 \in T
  <2>1. k + j \in Nat /\ k + (j + 1) = (k + j) + 1 /\ j + 1 \in Nat
    OBVIOUS
  <2> QED
    BY <1>1, <1>3, <2>1
<1>4. n \in T
  <2>1. Nat \subseteq T
    <3> HIDE DEF T
    <3> QED
      BY <1>2, <1>3, CountingInduction
  <2> QED
    BY <2>1
<1> QED
  BY <1>4 DEF c, d

\* A machine that has stopped stays as it is.
LEMMA CourseStays ==
    ASSUME NEW M, NEW m, m.how # "runs", NEW n \in Nat
    PROVE  Course(M, m)[n] = m
<1> DEFINE c == Course(M, m)
           T == {j \in Nat : c[j] = m}
<1>1. c[0] = m /\ \A j \in Nat : c[j + 1] = IF c[j].how = "runs" THEN Step(M, c[j]) ELSE c[j]
  BY CourseSteps
<1> HIDE DEF c
<1>2. Nat \subseteq T
  <2>1. 0 \in T /\ \A j \in Nat : j \in T => j + 1 \in T
    BY <1>1
  <2> HIDE DEF T
  <2> QED
    BY <2>1, CountingInduction
<1> QED
  BY <1>2 DEF c

\* Once integers were mixed, they were.
LEMMA CourseMixed ==
    ASSUME NEW M, IsModule(M), Verifies(M), NEW m, Sound(M, m), m.mixed, NEW n \in Nat
    PROVE  Course(M, m)[n].mixed
<1> DEFINE c == Course(M, m)
           T == {j \in Nat : c[j].mixed}
<1>1. c[0] = m /\ \A j \in Nat : c[j + 1] = IF c[j].how = "runs" THEN Step(M, c[j]) ELSE c[j]
  BY CourseSteps
<1>2. \A j \in Nat : MachineRecord(c[j])
  BY CourseInside DEF Sound, Inside
<1> HIDE DEF c
<1>3. Nat \subseteq T
  <2>1. 0 \in T
    BY <1>1
  <2>2. ASSUME NEW j \in Nat, j \in T PROVE j + 1 \in T
    BY <1>1, <1>2, <2>2, StepMixed
  <2> HIDE DEF T
  <2> QED
    BY <2>1, <2>2, CountingInduction
<1> QED
  BY <1>3 DEF c

\* A machine is sound whatever code its functions have.
LEMMA SoundAnyCode ==
    ASSUME NEW M, NEW N, SameShape(M, N), NEW m, Sound(M, m)
    PROVE  Sound(N, m)
BY DEF SameShape, Sound, Inside, FitsFunction

\* Modules that advance together from every machine end alike.
LEMMA EndsAlike ==
    ASSUME NEW M, IsModule(M), Verifies(M), NEW N, NEW K, SameShape(K, M), NEW facts,
           Advance(M, N, K, facts), NEW n \in Nat, NEW start, Tracked(K, facts, start)
    PROVE  \/ Course(M, start)[n].how = "runs" \/ Course(M, start)[n].mixed
           \/ Outcome(Course(N, start)[n]) = Outcome(Course(M, start)[n])
<1> DEFINE Ends(k, m) == \/ Course(M, m)[k].how = "runs" \/ Course(M, m)[k].mixed
                         \/ Outcome(Course(N, m)[k]) = Outcome(Course(M, m)[k])
           U(k) == \A m : Tracked(K, facts, m) => Ends(k, m)
           T == {k \in Nat : \A j \in 0..k : U(j)}
<1>1. ASSUME NEW k \in Nat, \A j \in 0..k - 1 : U(j) PROVE U(k)
  <2> SUFFICES ASSUME NEW m, Tracked(K, facts, m), Course(M, m)[k].how # "runs", ~Course(M, m)[k].mixed
               PROVE  Outcome(Course(N, m)[k]) = Outcome(Course(M, m)[k])
    OBVIOUS
  <2>1. CASE m.how # "runs"
    BY <2>1, CourseStays
  <2>2. CASE m.how = "runs"
    <3>0. PICK x \in Nat \ {0} : \E y \in 1..x :
            /\ \A l \in 0..x - 1 : Course(M, m)[l].how = "runs"
            /\ \/ Course(M, m)[x].mixed
               \/ Tracked(K, facts, Course(M, m)[x]) /\ Course(N, m)[y] = Course(M, m)[x]
               \/ Course(M, m)[x].how # "runs" /\ Outcome(Course(N, m)[y]) = Outcome(Course(M, m)[x])
      BY <2>2 DEF Advance, Advances
    <3>1. PICK y \in 1..x :
            /\ \A l \in 0..x - 1 : Course(M, m)[l].how = "runs"
            /\ \/ Course(M, m)[x].mixed
               \/ Tracked(K, facts, Course(M, m)[x]) /\ Course(N, m)[y] = Course(M, m)[x]
               \/ Course(M, m)[x].how # "runs" /\ Outcome(Course(N, m)[y]) = Outcome(Course(M, m)[x])
      BY <3>0
    <3>2. k \notin 0..x - 1
      BY <3>1
    <3> DEFINE rest == k - x
    <3>3. rest \in Nat /\ rest \in 0..k - 1 /\ k = x + rest /\ x \in Nat /\ y \in Nat
      BY <3>2
    <3>4. (x - y) + rest \in Nat /\ k = y + ((x - y) + rest) /\ x - y \in Nat /\ (x - y) + rest = rest + (x - y)
      BY <3>3
    <3> HIDE DEF rest
    <3> DEFINE p == Course(M, m)[x]
               q == Course(N, m)[y]
    <3>5. Course(M, m)[k] = Course(M, p)[rest]
      BY <3>3, CourseSplit
    <3>6. Course(N, m)[k] = Course(N, q)[rest + (x - y)]
      BY <3>3, <3>4, CourseSplit
    <3>7. Sound(M, p)
      BY <3>3, SoundAnyCode, CourseInside DEF Tracked
    <3>8. \/ p.mixed \/ (Tracked(K, facts, p) /\ q = p) \/ (p.how # "runs" /\ Outcome(q) = Outcome(p))
      BY <3>1
    <3> HIDE DEF p, q
    <3>9. CASE p.mixed
      BY <2>2, <3>3, <3>5, <3>7, <3>9, CourseMixed
    <3>10. CASE Tracked(K, facts, p) /\ q = p
      <4>1. Ends(rest, p)
        BY <1>1, <3>3, <3>10
      <4>2. Outcome(Course(N, p)[rest]) = Outcome(Course(M, p)[rest])
        BY <3>5, <4>1
      <4> DEFINE e == Course(N, p)[rest]
      <4>3. e.how # "runs"
        BY <3>5, <4>2 DEF Outcome
      <4>4. Course(N, p)[rest + (x - y)] = Course(N, e)[x - y]
        BY <3>3, <3>4, CourseSplit
      <4> HIDE DEF e
      <4>5. Course(N, e)[x - y] = e
        BY <3>4, <4>3, CourseStays
      <4> QED
        BY <3>5, <3>6, <3>10, <4>2, <4>4, <4>5 DEF e
    <3>11. CASE p.how # "runs" /\ Outcome(q) = Outcome(p)
      <4>1. q.how # "runs"
        BY <3>11 DEF Outcome
      <4>2. Course(N, q)[rest + (x - y)] = q /\ Course(M, p)[rest] = p
        BY <3>3, <3>4, <3>11, <4>1, CourseStays
      <4> QED
        BY <3>5, <3>6, <3>11, <4>2
    <3> QED
      BY <3>8, <3>9, <3>10, <3>11
  <2> QED
    BY <2>1, <2>2
<1> HIDE DEF U
<1>2. 0 \in T
  <2>1. \A j \in 0..0 - 1 : U(j)
    OBVIOUS
  <2>2. U(0)
    BY <1>1, <2>1
  <2> QED
    BY <2>2
<1>3. ASSUME NEW k \in Nat, k \in T PROVE k + 1 \in T
  <2>1. \A j \in 0..(k + 1) - 1 : U(j)
    BY <1>3
  <2>2. U(k + 1)
    <3> k + 1 \in Nat
      OBVIOUS
    <3> HIDE DEF T
    <3> QED
      BY <1>1, <2>1
  <2> QED
    BY <1>3, <2>2
<1>4. n \in T
  <2>1. Nat \subseteq T
    <3> HIDE DEF T
    <3> QED
      BY <1>2, <1>3, CountingInduction
  <2> QED
    BY <2>1
<1>5. U(n)
  BY <1>4
<1> QED
  BY <1>5 DEF U

\* A call of any function with values begins with a machine of which the facts hold.
LEMMA BeginsTracked ==
    ASSUME NEW M, IsModule(M), NEW facts, FactsHold(M, facts), NEW n, NEW args \in Seq(Values),
           NEW begin, begin = [how |-> "runs", value |-> Null, calls |-> <<>>, closures |-> <<>>,
                               mixed |-> FALSE, stack |-> <<>>]
    PROVE  Tracked(M, facts, Called(M, begin, n, args, NoClosure))
<1>1. IsSequence(<<>>) /\ DOMAIN <<>> = {} /\ Len(<<>>) = 0
  BY DEF IsSequence
<1>2. Inside(M, begin)
  BY <1>1 DEF Inside, MachineRecord
<1>3. AllGood(M, facts, begin)
  BY <1>1 DEF AllGood
<1>4. begin.stack = <<>> /\ begin.closures = <<>>
  OBVIOUS
<1>5. NoClosure \in 0..Len(begin.closures)
  BY <1>1, <1>4 DEF NoClosure
<1>6. \A k \in DOMAIN begin.stack : begin.stack[k].pc \in DOMAIN M[begin.stack[k].function].code
  BY <1>1, <1>4
<1> QED
  BY <1>2, <1>3, <1>5, <1>6, CalledTracked DEF IsModule

\* So the runs of such modules end alike.
LEMMA AdvancingEnds ==
    ASSUME NEW M, IsModule(M), Verifies(M), NEW N, NEW K, IsModule(K), SameShape(K, M), SameShape(K, N),
           NEW facts, FactsHold(K, facts),
           Advance(M, N, K, facts)
    PROVE  SameEnds(M, N)
<1> SUFFICES ASSUME NEW n, NEW fuel \in Nat, NEW args \in Seq(Values)
             PROVE  \/ Execute(M, n, args, fuel).how = "diverges" \/ Execute(M, n, args, fuel).mixed
                    \/ Execute(N, n, args, fuel) = Execute(M, n, args, fuel)
  BY DEF SameEnds
<1> DEFINE begin == [how |-> "runs", value |-> Null, calls |-> <<>>, closures |-> <<>>,
                     mixed |-> FALSE, stack |-> <<>>]
           start == Called(K, begin, n, args, NoClosure)
           result(end) == [how |-> IF end.how = "runs" THEN "diverges" ELSE end.how,
                           value |-> end.value, calls |-> end.calls, mixed |-> end.mixed]
           c == Course(M, start)[fuel]
           d == Course(N, start)[fuel]
<1>1. /\ Execute(M, n, args, fuel) = result(Course(M, Called(M, begin, n, args, NoClosure))[fuel])
      /\ Execute(N, n, args, fuel) = result(Course(N, Called(N, begin, n, args, NoClosure))[fuel])
  BY DEF Execute
<1>2. Tracked(K, facts, start)
  BY BeginsTracked
<1> HIDE DEF begin
<1>3. /\ Called(M, begin, n, args, NoClosure) = start
      /\ Called(N, begin, n, args, NoClosure) = start
  BY DEF SameShape, Called, TakesArguments
<1>4. Execute(M, n, args, fuel) = result(c) /\ Execute(N, n, args, fuel) = result(d)
  BY <1>1, <1>3
<1> HIDE DEF start
<1>5. c.how = "runs" \/ c.mixed \/ Outcome(d) = Outcome(c)
  BY <1>2, EndsAlike
<1> HIDE DEF c, d
<1>6. Outcome(d) = Outcome(c) => result(d) = result(c)
  BY DEF Outcome
<1> QED
  BY <1>4, <1>5, <1>6

\* Two such changes in a row.
LEMMA SameEndsChain ==
    ASSUME NEW M, NEW N, NEW P, SameEnds(M, N), SameEnds(N, P)
    PROVE  SameEnds(M, P)
BY DEF SameEnds

\* Modules that run alike end alike.
LEMMA SameRunsEnd ==
    ASSUME NEW M, NEW N, SameRuns(M, N)
    PROVE  SameEnds(M, N)
BY DEF SameRuns, SameEnds

\* The code of one function is replaced by code of the same length.
Replaces(M, n, code, N) ==
    /\ IsModule(N) /\ Verifies(N) /\ SameShape(M, N)
    /\ \A k \in DOMAIN M \ {n} : N[k] = M[k]
    /\ N[n].code = code

\* That is a module again, with functions of the same shape.
LEMMA OneReplaced ==
    ASSUME NEW M, IsModule(M), Verifies(M), NEW n \in DOMAIN M, NEW code,
           AcceptsCode(M, M[n], code), DOMAIN code = DOMAIN M[n].code
    PROVE  Replaces(M, n, code, [M EXCEPT ![n].code = code])
<1> DEFINE N == [M EXCEPT ![n].code = code]
<1>1. IsModule(N) /\ Verifies(N) /\ DOMAIN N = DOMAIN M
  BY ReplacedKeeps
<1>4. /\ \A k \in DOMAIN M \ {n} : N[k] = M[k]
      /\ N[n] = [M[n] EXCEPT !.code = code]
  BY DEF IsModule
<1>5. M[n] \in [params : {M[n].params}, regs : {M[n].regs}, code : {M[n].code}, returns : {M[n].returns},
                exported : {M[n].exported}, name : {M[n].name}, vararg : {M[n].vararg},
                upvalues : {M[n].upvalues}]
  <2>1. Accepted(M, M[n])
    BY VerifiedIsAccepted
  <2> QED
    BY <2>1 DEF Accepted, FunctionRecord
<1>6. /\ N[n].params = M[n].params /\ N[n].vararg = M[n].vararg /\ N[n].regs = M[n].regs
      /\ N[n].returns = M[n].returns /\ N[n].code = code
  BY <1>4, <1>5
<1> HIDE DEF N
<1>7. SameShape(M, N)
  BY <1>1, <1>4, <1>6 DEF SameShape
<1>8. Replaces(M, n, code, N)
  BY <1>1, <1>4, <1>6, <1>7 DEF Replaces
<1> QED
  BY <1>8 DEF N

\* Instructions that do not return do the same in modules with the same functions.
LEMMA SameDoesBut ==
    ASSUME NEW M, NEW N, SameShape(M, N), NEW m, NEW a, NEW i, i.op \notin {"ret", "halt"}
    PROVE  Does(N, m, a, i) = Does(M, m, a, i)
<1>1. DOMAIN N = DOMAIN M
  BY DEF SameShape
<1>2. \A n, args, closure : Called(N, m, n, args, closure) = Called(M, m, n, args, closure)
  BY DEF SameShape, Called, TakesArguments
<1>3. Faults(N, m, a, i) <=> Faults(M, m, a, i)
  BY <1>1 DEF Faults
<1> QED
  BY <1>2, <1>3 DEF Does

\* What a step does when an instruction is there, which then is within bounds.
LEMMA StepDoes ==
    ASSUME NEW M, IsModule(M), Verifies(M), NEW m, Sound(M, m), m.how = "runs",
           NEW a, a = Last(m.stack), a.pc \in DOMAIN M[a.function].code
    PROVE  /\ FitsFunction(M, a)
           /\ Step(M, m) = Does(M, [m EXCEPT !.mixed = m.mixed \/ Mixes(InstOf(M, a), a.regs)], a, InstOf(M, a))
<1> DEFINE f == M[a.function]
           i == InstOf(M, a)
<1>1. FitsFunction(M, a)
  BY RunningTop
<1>2. a.function \in DOMAIN M /\ DOMAIN a.regs = 0..f.regs - 1
  BY <1>1 DEF FitsFunction
<1>3. ~OutOfBounds(i, a.regs)
  <2>1. VerifiesInst(M, f, a.pc) /\ f.regs > 0 /\ IsFunction(f)
    BY <1>2 DEF Verifies, IsModule
  <2> QED
    BY <1>2, <2>1, VerifiedInBounds DEF InstOf
<1> QED
  BY <1>1, <1>3 DEF Step, Mixes

\* Two modules that do the same at a place step alike from there.
LEMMA SameStep ==
    ASSUME NEW M, IsModule(M), Verifies(M), NEW N, IsModule(N), Verifies(N), SameShape(M, N),
           NEW m, Sound(M, m), m.how = "runs",
           NEW a, a = Last(m.stack), a.pc \in DOMAIN M[a.function].code,
           Mixes(InstOf(N, a), a.regs) <=> Mixes(InstOf(M, a), a.regs),
           \A p : Does(N, p, a, InstOf(N, a)) = Does(M, p, a, InstOf(M, a))
    PROVE  Step(N, m) = Step(M, m)
<1>1. FitsFunction(M, a)
  BY StepDoes
<1>2. a.pc \in DOMAIN N[a.function].code
  BY <1>1 DEF SameShape, FitsFunction
<1>3. Sound(N, m)
  BY SoundAnyCode
<1> DEFINE i == InstOf(M, a)
           j == InstOf(N, a)
           mixes == Mixes(i, a.regs)
<1>4. /\ Step(M, m) = Does(M, [m EXCEPT !.mixed = m.mixed \/ mixes], a, i)
      /\ Step(N, m) = Does(N, [m EXCEPT !.mixed = m.mixed \/ Mixes(j, a.regs)], a, j)
  BY <1>2, <1>3, StepDoes
<1>5. [m EXCEPT !.mixed = m.mixed \/ Mixes(j, a.regs)] = [m EXCEPT !.mixed = m.mixed \/ mixes]
  OBVIOUS
<1> HIDE DEF i, j, mixes
<1> QED
  BY <1>4, <1>5 DEF i, j

\* Two modules whose functions end at the same places stop alike behind the end of one.
LEMMA SameBehind ==
    ASSUME NEW M, NEW N, SameShape(M, N), NEW m, Sound(M, m), m.how = "runs",
           NEW a, a = Last(m.stack), a.pc \notin DOMAIN M[a.function].code
    PROVE  Step(M, m) = Stopped(m, "status", Null) /\ Step(N, m) = Stopped(m, "status", Null)
<1>1. FitsFunction(M, a)
  BY RunningTop
<1> QED
  BY <1>1 DEF FitsFunction, SameShape, Step

\* A step keeps the facts, or mixes.
LEMMA TrackedStep ==
    ASSUME NEW M, IsModule(M), Verifies(M), NEW facts, FactsHold(M, facts),
           NEW m, Tracked(M, facts, m), m.how = "runs"
    PROVE  Step(M, m).mixed \/ Tracked(M, facts, Step(M, m))
<1>1. Lockstep(M, M, facts)
  BY AlikeItself DEF Lockstep, SameShape
<1> QED
  BY <1>1, StepAlike

\* One step of each is enough to advance.
LEMMA AdvancesOnce ==
    ASSUME NEW M, NEW N, NEW K, NEW facts, NEW m, m.how = "runs", Step(N, m) = Step(M, m),
           Step(M, m).mixed \/ Tracked(K, facts, Step(M, m)) \/ Step(M, m).how # "runs"
    PROVE  Advances(M, N, K, facts, m)
<1>1. /\ Course(M, m)[0] = m /\ Course(M, m)[0 + 1] = Step(M, m)
      /\ Course(N, m)[0] = m /\ Course(N, m)[0 + 1] = Step(N, m)
  <2>1. \A p, P : /\ Course(P, p)[0] = p
                  /\ Course(P, p)[0 + 1] = IF Course(P, p)[0].how = "runs"
                                           THEN Step(P, Course(P, p)[0]) ELSE Course(P, p)[0]
    BY CourseSteps
  <2> QED
    BY <2>1
<1>2. 0 + 1 = 1 /\ 1 \in Nat \ {0} /\ 1 \in 1..1 /\ 0..1 - 1 = {0}
  OBVIOUS
<1>3. /\ \A l \in 0..1 - 1 : Course(M, m)[l].how = "runs"
      /\ Course(M, m)[1] = Step(M, m) /\ Course(N, m)[1] = Step(M, m)
  BY <1>1, <1>2
<1>4. \/ Course(M, m)[1].mixed
      \/ Tracked(K, facts, Course(M, m)[1]) /\ Course(N, m)[1] = Course(M, m)[1]
      \/ Course(M, m)[1].how # "runs" /\ Outcome(Course(N, m)[1]) = Outcome(Course(M, m)[1])
  BY <1>3
<1> QED
  BY <1>2, <1>3, <1>4 DEF Advances

-----------------------------------------------------------------------------
(* tailcall                                                                *)

\* The calls of function n at the places P are tail calls in N: what follows each is a return of
\* its result, which control gets to in no other way, so that the facts say it is never reached.
Tailed(M, N, n, P, facts) ==
    /\ IsModule(M) /\ Verifies(M) /\ IsModule(N) /\ Verifies(N)
    /\ SameShape(M, N) /\ n \in DOMAIN M /\ P \subseteq Int
    /\ \A k \in DOMAIN M \ {n} : N[k] = M[k]
    /\ FactsHold(N, facts)
    /\ \A pc \in P :
          /\ pc \in DOMAIN M[n].code /\ pc + 1 \in DOMAIN M[n].code
          /\ BeforeRet(M[n].code[pc], M[n].code[pc + 1])
          /\ N[n].code[pc] = TailInst(M[n].code[pc])
          /\ facts[n][pc + 1] = {}
          /\ M[n].returns = AnyType
    /\ \A pc \in DOMAIN M[n].code : pc \in P \/ pc - 1 \in P \/ N[n].code[pc] = M[n].code[pc]

\* A tail call does what the call does.
LEMMA TailDoes ==
    ASSUME NEW i, IsInst(i), i.op \in Waits
    PROVE  /\ \A M, m, a : Does(M, m, a, TailInst(i)) = Does(M, m, a, i)
           /\ TailInst(i).op \notin Waits
           /\ \A regs : ~Mixes(i, regs) /\ ~Mixes(TailInst(i), regs)
<1> DEFINE j == TailInst(i)
<1>1. /\ j.op = IF i.op = "call" THEN "tail_call" ELSE "tail_call_closure"
      /\ j.a = i.a /\ j.b = i.b /\ j.c = i.c /\ j.flags = i.flags
  BY DEF IsInst, TailInst
<1> HIDE DEF j
<1>2. \A regs : ~Mixes(i, regs) /\ ~Mixes(j, regs)
  BY <1>1 DEF Waits, Mixes, IntegerReads, Binary, Immediate, Step1, FusedImm
<1>3. ASSUME NEW M, NEW m, NEW a PROVE Does(M, m, a, j) = Does(M, m, a, i)
  <2> DEFINE arguments == [k \in 1..i.c |-> a.regs[i.a + k]]
  <2>1. Faults(M, m, a, j) <=> Faults(M, m, a, i)
    BY <1>1 DEF Faults, Waits, ClosureCalls, Upvalues
  <2>2. CASE Faults(M, m, a, i)
    BY <2>1, <2>2 DEF Does
  <2>3. CASE ~Faults(M, m, a, i) /\ i.op = "call"
    <3>1. Does(M, m, a, i) = Called(M, m, i.b, arguments, NoClosure)
      BY <2>3 DEF Does, Calls, ClosureCalls
    <3>2. Does(M, m, a, j) = Called(M, m, i.b, arguments, NoClosure)
      BY <1>1, <2>1, <2>3 DEF Does, Calls, ClosureCalls
    <3> QED
      BY <3>1, <3>2
  <2>4. CASE ~Faults(M, m, a, i) /\ i.op = "call_closure"
    <3> DEFINE closure == a.regs[i.b].bits
    <3>1. Does(M, m, a, i) = Called(M, m, m.closures[closure].function, arguments, closure)
      BY <2>4 DEF Does, Calls, ClosureCalls
    <3>2. Does(M, m, a, j) = Called(M, m, m.closures[closure].function, arguments, closure)
      BY <1>1, <2>1, <2>4 DEF Does, Calls, ClosureCalls
    <3> QED
      BY <3>1, <3>2
  <2> QED
    BY <2>2, <2>3, <2>4 DEF Waits
<1> QED
  BY <1>1, <1>2, <1>3 DEF j, Waits

\* The activations up to h that wait for a call, and a return to the last of them.
WaitsAt(K, m, h) == {k \in 1..h : InstOf(K, m.stack[k]).op \in Waits}
Resumed(K, b, v) == [b EXCEPT !.pc = @ + 1, !.regs[InstOf(K, b).a] = v]
\* Where a value ends up that is returned from depth h + 1.
Back(K, m, h, v) ==
    LET k == Max(WaitsAt(K, m, h))
    IN  IF WaitsAt(K, m, h) = {} THEN Stopped(m, "value", v)
        ELSE [m EXCEPT !.stack = Append(SubSeq(@, 1, k - 1), Resumed(K, m.stack[k], v))]

\* A return is such a one, if the result has the right type.
LEMMA ReturnedBack ==
    ASSUME NEW K, NEW m, NEW v
    PROVE  Returned(K, m, v) = IF Matches(v, K[Last(m.stack).function].returns)
                               THEN Back(K, m, Len(m.stack) - 1, v) ELSE Stopped(m, "status", Null)
<1> DEFINE h == Len(m.stack) - 1
           waiting == {k \in 1..h : InstOf(K, m.stack[k]).op \in {"call", "call_closure"}}
           returned(W, n) == IF ~Matches(v, K[Last(m.stack).function].returns) THEN Stopped(m, "status", Null)
                             ELSE IF W = {} THEN Stopped(m, "value", v)
                             ELSE [m EXCEPT !.stack = Append(SubSeq(m.stack, 1, n - 1),
                                     [m.stack[n] EXCEPT !.pc = @ + 1, !.regs[InstOf(K, m.stack[n]).a] = v])]
<1>1. waiting = WaitsAt(K, m, h)
  BY DEF WaitsAt, Waits
<1>2. Returned(K, m, v) = returned(waiting, Max(waiting))
  BY DEF Returned
<1> HIDE DEF waiting
<1> DEFINE W == WaitsAt(K, m, h)
<1>3. Returned(K, m, v) = returned(W, Max(W))
  BY <1>1, <1>2
<1>4. Back(K, m, h, v) = IF W = {} THEN Stopped(m, "value", v)
        ELSE [m EXCEPT !.stack = Append(SubSeq(m.stack, 1, Max(W) - 1), Resumed(K, m.stack[Max(W)], v))]
  BY DEF Back
<1> HIDE DEF W
<1> DEFINE n == Max(W)
<1> HIDE DEF n
<1>5. Back(K, m, h, v) = IF W = {} THEN Stopped(m, "value", v)
        ELSE [m EXCEPT !.stack = Append(SubSeq(m.stack, 1, n - 1), Resumed(K, m.stack[n], v))]
  BY <1>4 DEF n
<1>6. Returned(K, m, v) = returned(W, n)
  BY <1>3 DEF n
<1> QED
  BY <1>5, <1>6 DEF Resumed

\* The last activation that waits.
LEMMA LastWaits ==
    ASSUME NEW K, NEW m, NEW h \in Nat, WaitsAt(K, m, h) # {}
    PROVE  /\ Max(WaitsAt(K, m, h)) \in WaitsAt(K, m, h) /\ Max(WaitsAt(K, m, h)) \in 1..h
           /\ \A x \in WaitsAt(K, m, h) : x <= Max(WaitsAt(K, m, h))
<1>1. WaitsAt(K, m, h) \subseteq 1..h
  BY DEF WaitsAt
<1> QED
  BY <1>1, MaxIn

\* An activation of N that waits, waits in M; one that waits in M only, waits at a place of P.
LEMMA TailWaits ==
    ASSUME NEW M, NEW N, NEW n, NEW P, NEW facts, Tailed(M, N, n, P, facts),
           NEW c, NEW b, Good(N, facts, c, b), b.pc \in DOMAIN N[b.function].code
    PROVE  /\ b.function = n => b.pc - 1 \notin P
           /\ IF b.function = n /\ b.pc \in P
              THEN InstOf(M, b).op \in Waits /\ InstOf(N, b) = TailInst(InstOf(M, b)) /\ IsInst(InstOf(M, b))
              ELSE InstOf(N, b) = InstOf(M, b)
<1>1. /\ b.function \in DOMAIN N /\ b.regs \in facts[b.function][b.pc]
      /\ DOMAIN N = DOMAIN M /\ DOMAIN N[b.function].code = DOMAIN M[b.function].code
  BY DEF Good, FitsFunction, Tailed, SameShape
<1>2. b.pc \in Int
  <2>1. IsSequence(N[b.function].code)
    BY <1>1, VerifiedIsAccepted DEF Tailed, Accepted, AcceptsCode
  <2> QED
    BY <2>1, SequenceDomain
<1>3. b.function = n => b.pc - 1 \notin P
  <2> SUFFICES ASSUME b.function = n, b.pc - 1 \in P PROVE FALSE
    OBVIOUS
  <2>1. (b.pc - 1) + 1 = b.pc
    BY <1>2
  <2>2. facts[n][(b.pc - 1) + 1] = {}
    BY DEF Tailed
  <2> QED
    BY <1>1, <2>1, <2>2
<1>4. CASE b.function = n /\ b.pc \in P
  <2>1. BeforeRet(M[n].code[b.pc], M[n].code[b.pc + 1]) /\ N[n].code[b.pc] = TailInst(M[n].code[b.pc])
    BY <1>4 DEF Tailed
  <2>2. IsInst(M[n].code[b.pc])
    BY <1>1, <1>4 DEF Tailed, IsModule, IsFunction
  <2> QED
    BY <1>3, <1>4, <2>1, <2>2 DEF InstOf, BeforeRet, Waits
<1>5. CASE b.function = n /\ b.pc \notin P
  BY <1>1, <1>3, <1>5 DEF Tailed, InstOf
<1>6. CASE b.function # n
  BY <1>1, <1>6 DEF Tailed, InstOf
<1> QED
  BY <1>3, <1>4, <1>5, <1>6

\* A return in M to an activation that waits in M only, before the return that follows.
Passes(M, N, n, P, facts, m, h, v) ==
    /\ Tailed(M, N, n, P, facts)
    /\ Sound(N, m) /\ AllGood(N, facts, m) /\ m.how = "runs" /\ m.mixed \in BOOLEAN
    /\ h \in Nat /\ h < Len(m.stack)
    /\ WaitsAt(M, m, h) # {}
    /\ Max(WaitsAt(M, m, h)) \notin WaitsAt(N, m, h)

\* The activations below that wait are known to both.
LEMMA BelowGood ==
    ASSUME NEW M, NEW N, NEW n, NEW P, NEW facts, Tailed(M, N, n, P, facts),
           NEW m, Sound(N, m), AllGood(N, facts, m), m.how = "runs", NEW k \in 1..Len(m.stack) - 1
    PROVE  /\ Good(N, facts, Len(m.closures), m.stack[k]) /\ k \in DOMAIN m.stack
           /\ m.stack[k].pc \in DOMAIN N[m.stack[k].function].code
<1>1. DOMAIN m.stack = 1..Len(m.stack) /\ Len(m.stack) \in Nat
  BY RunningTop
<1> QED
  BY <1>1 DEF AllGood

\* So the same activations wait in N, and others in M.
LEMMA WaitsInBoth ==
    ASSUME NEW M, NEW N, NEW n, NEW P, NEW facts, Tailed(M, N, n, P, facts),
           NEW m, Sound(N, m), AllGood(N, facts, m), m.how = "runs", NEW h \in Nat, h < Len(m.stack)
    PROVE  /\ WaitsAt(N, m, h) \subseteq WaitsAt(M, m, h)
           /\ \A k \in WaitsAt(N, m, h) : InstOf(N, m.stack[k]) = InstOf(M, m.stack[k])
           /\ \A k \in WaitsAt(M, m, h) \ WaitsAt(N, m, h) :
                m.stack[k].function = n /\ m.stack[k].pc \in P
<1>1. \A k \in 1..h : k \in 1..Len(m.stack) - 1
  BY RunningTop
<1>2. ASSUME NEW k \in 1..h
      PROVE  /\ InstOf(N, m.stack[k]).op \in Waits =>
                   InstOf(N, m.stack[k]) = InstOf(M, m.stack[k])
             /\ InstOf(M, m.stack[k]).op \in Waits /\ InstOf(N, m.stack[k]).op \notin Waits =>
                   m.stack[k].function = n /\ m.stack[k].pc \in P
  <2> DEFINE b == m.stack[k]
  <2>1. Good(N, facts, Len(m.closures), b) /\ b.pc \in DOMAIN N[b.function].code
    BY <1>1, BelowGood
  <2> HIDE DEF b
  <2>2. IF b.function = n /\ b.pc \in P
        THEN InstOf(M, b).op \in Waits /\ InstOf(N, b) = TailInst(InstOf(M, b)) /\ IsInst(InstOf(M, b))
        ELSE InstOf(N, b) = InstOf(M, b)
    BY <2>1, TailWaits
  <2>3. b.function = n /\ b.pc \in P => InstOf(N, b).op \notin Waits
    BY <2>2, TailDoes
  <2> QED
    BY <2>2, <2>3 DEF b
<1> QED
  BY <1>2 DEF WaitsAt

\* The machine that M gets to.
LEMMA PassedMachine ==
    ASSUME NEW M, NEW N, NEW n, NEW P, NEW facts, NEW m, NEW h, NEW v, Passes(M, N, n, P, facts, m, h, v),
           NEW k, k = Max(WaitsAt(M, m, h)), NEW R, R = Back(M, m, h, v)
    PROVE  /\ k \in 1..h /\ R.how = "runs" /\ R.mixed = m.mixed /\ R.calls = m.calls
           /\ Sound(M, R) /\ Len(R.stack) = k
           /\ \A q \in 1..k - 1 : R.stack[q] = m.stack[q]
           /\ R = [m EXCEPT !.stack = R.stack]
           /\ Last(R.stack).function = n
           /\ Last(R.stack).pc \in DOMAIN M[n].code
           /\ M[n].code[Last(R.stack).pc].op = "ret"
           /\ Last(R.stack).regs[M[n].code[Last(R.stack).pc].a] = v
           /\ M[n].returns = AnyType
<1> DEFINE b == m.stack[k]
           i == InstOf(M, b)
           a == Resumed(M, b, v)
           below == SubSeq(m.stack, 1, k - 1)
           s == Append(below, a)
<1>1. /\ Tailed(M, N, n, P, facts) /\ Sound(N, m) /\ AllGood(N, facts, m) /\ m.how = "runs"
      /\ h \in Nat /\ h < Len(m.stack) /\ WaitsAt(M, m, h) # {}
      /\ k \notin WaitsAt(N, m, h)
  BY DEF Passes
<1>2. k \in 1..h /\ k \in WaitsAt(M, m, h)
  BY <1>1, LastWaits
<1>3. Len(m.stack) \in Nat /\ DOMAIN m.stack = 1..Len(m.stack) /\ IsSequence(m.stack)
  BY <1>1, RunningTop DEF Sound, Inside
<1>4. k \in 1..Len(m.stack) - 1 /\ k - 1 \in 0..Len(m.stack)
  BY <1>1, <1>2, <1>3
<1>5. Good(N, facts, Len(m.closures), b)
  BY <1>1, <1>4, BelowGood
<1>6. b.function = n /\ b.pc \in P
  BY <1>1, <1>2, WaitsInBoth
<1>7. /\ b.pc \in DOMAIN M[n].code /\ b.pc + 1 \in DOMAIN M[n].code
      /\ BeforeRet(M[n].code[b.pc], M[n].code[b.pc + 1]) /\ M[n].returns = AnyType /\ n \in DOMAIN M
      /\ i = M[n].code[b.pc]
  BY <1>1, <1>6 DEF Tailed, InstOf
<1>8. FitsFunction(M, b)
  BY <1>1, <1>5 DEF Good, FitsFunction, Tailed, SameShape
<1>9. i.a \in 0..M[n].regs - 1
  <2>1. Accepted(M, M[n])
    BY <1>1, <1>7, VerifiedIsAccepted DEF Tailed
  <2>2. Fits(M, M[n], Len(M[n].code), b.pc + 1, M[n].code[b.pc + 1]) /\ Sized(M[n])
    BY <1>7, <2>1, CodeFits DEF Accepted, FunctionRecord, Sized
  <2>3. RegisterFields("ret") = {"a"}
    BY FieldNames DEF Binary
  <2>4. M[n].code[b.pc + 1].a \in 0..M[n].regs - 1
    BY <1>7, <2>2, <2>3, NamedRegisters DEF BeforeRet
  <2> QED
    BY <1>7, <2>4 DEF BeforeRet
<1> HIDE DEF i, b
<1>10. /\ a.function = n /\ a.pc = b.pc + 1 /\ a.regs[i.a] = v /\ FitsFunction(M, a)
  <2> DEFINE after == [b.regs EXCEPT ![i.a] = v]
  <2>1. a = [b EXCEPT !.pc = b.pc + 1, !.regs = after]
    BY <1>8 DEF Resumed, FitsFunction, i
  <2>2. DOMAIN b.regs = 0..M[n].regs - 1
    BY <1>6, <1>8 DEF FitsFunction
  <2>3. after[i.a] = v /\ after = [r \in 0..M[n].regs - 1 |-> after[r]]
    BY <1>9, <2>2
  <2> HIDE DEF after, a
  <2> QED
    BY <1>6, <1>8, <2>1, <2>3 DEF FitsFunction
<1> HIDE DEF a
<1>11. Sound(M, m)
  <2>1. SameShape(N, M)
    BY <1>1 DEF Tailed, SameShape
  <2> QED
    BY <1>1, <2>1, SoundAnyCode
<1>12. IsSequence(below) /\ Len(below) = k - 1 /\ \A q \in 1..k - 1 : below[q] = m.stack[q]
  BY <1>3, <1>4, PrefixIsSequence
<1>13. R = [m EXCEPT !.stack = s]
  BY <1>1 DEF Back, a, b
<1>14. Sound(M, R)
  BY <1>4, <1>10, <1>11, <1>13, StackReplaced DEF Sound
<1> HIDE DEF below
<1>15. /\ Len(s) = k /\ \A q \in 1..k - 1 : s[q] = m.stack[q]
       /\ s[k] = a
  <2>1. k - 1 + 1 = k /\ DOMAIN below = 1..k - 1
    BY <1>2, <1>12, SequenceDomain
  <2> QED
    BY <1>12, <2>1, AppendIsSequence
<1> HIDE DEF s
<1>16. R.stack = s /\ R.how = "runs" /\ R.mixed = m.mixed /\ R.calls = m.calls
  BY <1>1, <1>11, <1>13 DEF Sound, Inside, MachineRecord
<1>17. Last(R.stack) = a
  BY <1>15, <1>16 DEF Last
<1> QED
  BY <1>2, <1>7, <1>10, <1>13, <1>14, <1>15, <1>16, <1>17 DEF BeforeRet

\* A return from there to the next activation that waits in M.
LEMMA PassedStep ==
    ASSUME NEW M, NEW N, NEW n, NEW P, NEW facts, NEW m, NEW h, NEW v, Passes(M, N, n, P, facts, m, h, v),
           NEW k, k = Max(WaitsAt(M, m, h)), NEW R, R = Back(M, m, h, v)
    PROVE  /\ IF WaitsAt(M, m, k - 1) = {}
              THEN Outcome(Step(M, R)) = Outcome(Stopped(m, "value", v)) /\ Step(M, R).how = "value"
              ELSE Step(M, R) = Back(M, m, k - 1, v)
           /\ Back(N, m, k - 1, v) = Back(N, m, h, v)
<1> DEFINE a == Last(R.stack)
           j == M[n].code[a.pc]
<1>1. /\ k \in 1..h /\ R.how = "runs" /\ R.mixed = m.mixed /\ R.calls = m.calls
      /\ Sound(M, R) /\ Len(R.stack) = k
      /\ \A q \in 1..k - 1 : R.stack[q] = m.stack[q]
      /\ R = [m EXCEPT !.stack = R.stack]
      /\ a.function = n /\ a.pc \in DOMAIN M[n].code
      /\ j.op = "ret" /\ a.regs[j.a] = v /\ M[n].returns = AnyType
  BY PassedMachine
<1>2. /\ Tailed(M, N, n, P, facts) /\ Sound(N, m) /\ AllGood(N, facts, m) /\ m.how = "runs"
      /\ m.mixed \in BOOLEAN
      /\ h \in Nat /\ h < Len(m.stack) /\ WaitsAt(M, m, h) # {}
      /\ k \notin WaitsAt(N, m, h)
  BY DEF Passes
<1>3. InstOf(M, a) = j
  BY <1>1 DEF InstOf
<1>4. Step(M, R) = Does(M, [R EXCEPT !.mixed = R.mixed \/ Mixes(j, a.regs)], a, j)
  BY <1>1, <1>2, <1>3, StepDoes DEF Tailed
<1>5. [R EXCEPT !.mixed = R.mixed \/ Mixes(j, a.regs)] = R
  <2>1. ~Mixes(j, a.regs)
    <3> HIDE DEF j
    <3> QED
      BY <1>1 DEF Mixes, IntegerReads, Binary, Immediate, Step1, FusedImm
  <2>2. R.mixed = (R.mixed \/ Mixes(j, a.regs))
    BY <1>1, <1>2, <2>1
  <2>3. MachineRecord(R)
    BY <1>1 DEF Sound, Inside
  <2> HIDE DEF a, j
  <2> QED
    BY <2>2, <2>3 DEF MachineRecord
<1>6. Does(M, R, a, j) = Returned(M, R, v)
  <2> HIDE DEF a, j
  <2> QED
    BY <1>1 DEF Does, Faults, Calls, ClosureCalls, Upvalues
<1>7. Step(M, R) = Back(M, R, k - 1, v)
  BY <1>1, <1>4, <1>5, <1>6, ReturnedBack DEF Matches
<1>8. WaitsAt(M, R, k - 1) = WaitsAt(M, m, k - 1)
  BY <1>1 DEF WaitsAt
<1> HIDE DEF a, j
<1>9. ASSUME WaitsAt(M, m, k - 1) = {}
      PROVE  Outcome(Step(M, R)) = Outcome(Stopped(m, "value", v)) /\ Step(M, R).how = "value"
  <2>1. Step(M, R) = Stopped(R, "value", v)
    BY <1>7, <1>8, <1>9 DEF Back
  <2>2. MachineRecord(R) /\ MachineRecord(m)
    BY <1>1, <1>2 DEF Sound, Inside
  <2>3. /\ Outcome(Stopped(R, "value", v))
             = [how |-> "value", value |-> v, calls |-> R.calls, mixed |-> R.mixed]
        /\ Outcome(Stopped(m, "value", v))
             = [how |-> "value", value |-> v, calls |-> m.calls, mixed |-> m.mixed]
        /\ Stopped(R, "value", v).how = "value"
    <3>1. \A p : MachineRecord(p) =>
            /\ Outcome(Stopped(p, "value", v))
                 = [how |-> "value", value |-> v, calls |-> p.calls, mixed |-> p.mixed]
            /\ Stopped(p, "value", v).how = "value"
      BY DEF Stopped, Outcome, MachineRecord
    <3> QED
      BY <2>2, <3>1
  <2> QED
    BY <1>1, <1>9, <2>1, <2>3
<1>10. ASSUME WaitsAt(M, m, k - 1) # {} PROVE Step(M, R) = Back(M, m, k - 1, v)
  <2> DEFINE q == Max(WaitsAt(M, m, k - 1))
  <2>1. q \in 1..k - 1
    BY <1>1, <1>10, LastWaits
  <2>2. /\ Back(M, R, k - 1, v) = [R EXCEPT !.stack = Append(SubSeq(R.stack, 1, q - 1), Resumed(M, R.stack[q], v))]
        /\ Back(M, m, k - 1, v) = [m EXCEPT !.stack = Append(SubSeq(m.stack, 1, q - 1), Resumed(M, m.stack[q], v))]
    BY <1>8, <1>10 DEF Back
  <2> HIDE DEF q
  <2>3. R.stack[q] = m.stack[q]
    BY <1>1, <2>1
  <2>4. SubSeq(R.stack, 1, q - 1) = SubSeq(m.stack, 1, q - 1)
    <3>1. IsSequence(R.stack) /\ IsSequence(m.stack) /\ Len(m.stack) \in Nat
      BY <1>1, <1>2, SequenceDomain DEF Sound, Inside
    <3>2. q - 1 \in 0..Len(R.stack) /\ q - 1 \in 0..Len(m.stack)
      BY <1>1, <1>2, <2>1, <3>1
    <3> DEFINE p == SubSeq(R.stack, 1, q - 1)
               r == SubSeq(m.stack, 1, q - 1)
    <3>3. /\ IsSequence(p) /\ Len(p) = q - 1 /\ \A x \in 1..q - 1 : p[x] = R.stack[x]
          /\ IsSequence(r) /\ Len(r) = q - 1 /\ \A x \in 1..q - 1 : r[x] = m.stack[x]
      BY <3>1, <3>2, PrefixIsSequence
    <3> HIDE DEF p, r
    <3>4. p = [x \in 1..q - 1 |-> p[x]] /\ r = [x \in 1..q - 1 |-> r[x]]
      BY <3>3, SequenceDomain DEF OnDomain
    <3>5. \A x \in 1..q - 1 : p[x] = r[x]
      BY <1>1, <2>1, <3>3
    <3> QED
      BY <3>4, <3>5 DEF p, r
  <2>5. [R EXCEPT !.stack = Append(SubSeq(m.stack, 1, q - 1), Resumed(M, m.stack[q], v))]
          = [m EXCEPT !.stack = Append(SubSeq(m.stack, 1, q - 1), Resumed(M, m.stack[q], v))]
    <3> DEFINE t == Append(SubSeq(m.stack, 1, q - 1), Resumed(M, m.stack[q], v))
               u == R.stack
    <3> HIDE DEF t, u
    <3>1. MachineRecord(m) /\ R = [m EXCEPT !.stack = u]
      BY <1>1, <1>2 DEF Sound, Inside, u
    <3>2. [R EXCEPT !.stack = t] = [m EXCEPT !.stack = t]
      BY <3>1 DEF MachineRecord
    <3> QED
      BY <3>2 DEF t
  <2>6. Step(M, R) = Back(M, m, k - 1, v)
    BY <1>7, <2>2, <2>3, <2>4, <2>5
  <2> QED
    BY <2>6
<1>11. Back(N, m, k - 1, v) = Back(N, m, h, v)
  <2>1. WaitsAt(N, m, k - 1) = WaitsAt(N, m, h)
    <3>0. WaitsAt(N, m, h) \subseteq WaitsAt(M, m, h)
      BY <1>2, WaitsInBoth
    <3>4. \A x \in WaitsAt(M, m, h) : x <= Max(WaitsAt(M, m, h))
      BY <1>2, LastWaits
    <3>1. \A x \in WaitsAt(N, m, h) : x \in 1..h /\ x <= k /\ x # k
      BY <1>2, <3>0, <3>4 DEF WaitsAt
    <3>2. \A x \in 1..h : x <= k /\ x # k => x \in 1..k - 1
      BY <1>1
    <3>3. 1..k - 1 \subseteq 1..h
      BY <1>1, <1>2
    <3> QED
      BY <3>1, <3>2, <3>3 DEF WaitsAt
  <2> QED
    BY <2>1 DEF Back
<1> QED
  BY <1>9, <1>10, <1>11

\* A return in M leads, after other returns, to where it leads in N.
Leads(M, N, m, v, h, x) ==
    /\ \A l \in 0..x - 1 : Course(M, Back(M, m, h, v))[l].how = "runs"
    /\ \/ Course(M, Back(M, m, h, v))[x] = Back(N, m, h, v)
       \/ /\ Course(M, Back(M, m, h, v))[x].how # "runs"
          /\ Outcome(Course(M, Back(M, m, h, v))[x]) = Outcome(Back(N, m, h, v))

\* It does in one step more, if it does after the first.
LEMMA LeadsOn ==
    ASSUME NEW M, NEW N, NEW m, NEW v, NEW h, NEW k, NEW x \in Nat,
           Back(M, m, h, v).how = "runs", Step(M, Back(M, m, h, v)) = Back(M, m, k, v),
           Back(N, m, k, v) = Back(N, m, h, v), Leads(M, N, m, v, k, x)
    PROVE  Leads(M, N, m, v, h, x + 1)
<1> DEFINE R == Back(M, m, h, v)
           S == Back(M, m, k, v)
           T == Back(N, m, h, v)
<1>1. /\ \A l \in 0..x - 1 : Course(M, S)[l].how = "runs"
      /\ \/ Course(M, S)[x] = T
         \/ Course(M, S)[x].how # "runs" /\ Outcome(Course(M, S)[x]) = Outcome(T)
  BY DEF Leads
<1>2. Course(M, R)[0] = R /\ Course(M, R)[0 + 1] = S
  <2>1. /\ Course(M, R)[0] = R
        /\ Course(M, R)[0 + 1] = IF Course(M, R)[0].how = "runs"
                                 THEN Step(M, Course(M, R)[0]) ELSE Course(M, R)[0]
    BY CourseSteps
  <2> QED
    BY <2>1
<1>3. \A l \in Nat : Course(M, R)[1 + l] = Course(M, S)[l]
  <2>1. \A l \in Nat : Course(M, R)[1 + l] = Course(M, Course(M, R)[1])[l]
    BY CourseSplit
  <2> QED
    BY <1>2, <2>1
<1>4. R.how = "runs"
  OBVIOUS
<1> HIDE DEF R, S, T
<1>5. ASSUME NEW l \in 0..(x + 1) - 1 PROVE Course(M, R)[l].how = "runs"
  <2>1. l = 0 \/ (l - 1 \in 0..x - 1 /\ l - 1 \in Nat /\ 1 + (l - 1) = l)
    OBVIOUS
  <2> QED
    BY <1>1, <1>2, <1>3, <1>4, <2>1
<1>6. Course(M, R)[x + 1] = Course(M, S)[x]
  BY <1>3
<1>7. /\ \A l \in 0..(x + 1) - 1 : Course(M, R)[l].how = "runs"
      /\ \/ Course(M, R)[x + 1] = T
         \/ Course(M, R)[x + 1].how # "runs" /\ Outcome(Course(M, R)[x + 1]) = Outcome(T)
  BY <1>1, <1>5, <1>6
<1> QED
  BY <1>7 DEF Leads, R, T

\* It is there at once if it gets there at once.
LEMMA LeadsAtOnce ==
    ASSUME NEW M, NEW N, NEW m, NEW v, NEW h, Back(M, m, h, v) = Back(N, m, h, v)
    PROVE  Leads(M, N, m, v, h, 0)
<1>1. Course(M, Back(M, m, h, v))[0] = Back(M, m, h, v)
  BY CourseSteps
<1> QED
  BY <1>1 DEF Leads

\* What a pair of modules and a machine have to fulfil.
Returning(M, N, n, P, facts, m) ==
    /\ Tailed(M, N, n, P, facts)
    /\ Sound(N, m) /\ AllGood(N, facts, m) /\ m.how = "runs" /\ m.mixed \in BOOLEAN

\* A return from any depth in M leads to where it leads in N.
LEMMA ReturnsAlong ==
    ASSUME NEW M, NEW N, NEW n, NEW P, NEW facts, NEW m, Returning(M, N, n, P, facts, m), NEW v
    PROVE  \A h \in 0..Len(m.stack) - 1 : \E x \in Nat : Leads(M, N, m, v, h, x)
<1> DEFINE U(h) == h < Len(m.stack) => \E x \in Nat : Leads(M, N, m, v, h, x)
           T == {h \in Nat : \A j \in 0..h : U(j)}
<1>1. ASSUME NEW h \in Nat, \A j \in 0..h - 1 : U(j), h < Len(m.stack)
      PROVE  \E x \in Nat : Leads(M, N, m, v, h, x)
  <2> DEFINE k == Max(WaitsAt(M, m, h))
             R == Back(M, m, h, v)
  <2>1. /\ WaitsAt(N, m, h) \subseteq WaitsAt(M, m, h)
        /\ \A q \in WaitsAt(N, m, h) : InstOf(N, m.stack[q]) = InstOf(M, m.stack[q])
    BY <1>1, WaitsInBoth DEF Returning
  <2>2. CASE WaitsAt(M, m, h) = {}
    <3>1. Back(M, m, h, v) = Back(N, m, h, v)
      BY <2>1, <2>2 DEF Back
    <3> QED
      BY <3>1, LeadsAtOnce
  <2>3. CASE WaitsAt(M, m, h) # {} /\ k \in WaitsAt(N, m, h)
    <3>1. \A x \in WaitsAt(M, m, h) : x <= k /\ x \in Nat
      <4>1. \A x \in WaitsAt(M, m, h) : x <= k
        BY <1>1, <2>3, LastWaits
      <4> QED
        BY <4>1 DEF WaitsAt
    <3>2. Max(WaitsAt(N, m, h)) \in WaitsAt(N, m, h) /\ \A x \in WaitsAt(N, m, h) : x <= Max(WaitsAt(N, m, h))
      BY <1>1, <2>3, LastWaits
    <3>3. Max(WaitsAt(N, m, h)) = k
      <4> DEFINE l == Max(WaitsAt(N, m, h))
      <4>1. l <= k /\ k <= l /\ l \in Nat /\ k \in Nat
        BY <2>1, <2>3, <3>1, <3>2
      <4> HIDE DEF k, l
      <4>2. l = k
        BY <4>1
      <4> QED
        BY <4>2 DEF k, l
    <3> HIDE DEF k
    <3>4. Resumed(N, m.stack[k], v) = Resumed(M, m.stack[k], v)
      BY <2>1, <2>3 DEF Resumed
    <3>5. Back(M, m, h, v) = Back(N, m, h, v)
      BY <2>1, <2>3, <3>3, <3>4 DEF Back, k
    <3> QED
      BY <3>5, LeadsAtOnce
  <2>4. CASE WaitsAt(M, m, h) # {} /\ k \notin WaitsAt(N, m, h)
    <3>1. Passes(M, N, n, P, facts, m, h, v)
      BY <1>1, <2>4 DEF Passes, Returning
    <3>2. k \in 1..h /\ R.how = "runs"
      BY <3>1, PassedMachine
    <3>3. /\ IF WaitsAt(M, m, k - 1) = {}
             THEN Outcome(Step(M, R)) = Outcome(Stopped(m, "value", v)) /\ Step(M, R).how = "value"
             ELSE Step(M, R) = Back(M, m, k - 1, v)
          /\ Back(N, m, k - 1, v) = Back(N, m, h, v)
      BY <3>1, PassedStep
    <3> HIDE DEF k
    <3>4. CASE WaitsAt(M, m, k - 1) # {}
      <4>1. k - 1 \in 0..h - 1 /\ k - 1 < Len(m.stack)
        <5>1. Len(m.stack) \in Nat
          BY SequenceDomain DEF Returning, Sound, Inside
        <5> QED
          BY <1>1, <3>2, <5>1
      <4>2. PICK x \in Nat : Leads(M, N, m, v, k - 1, x)
        BY <1>1, <4>1
      <4>3. Leads(M, N, m, v, h, x + 1)
        <5> HIDE DEF U
        <5>1. R.how = "runs" /\ Step(M, R) = Back(M, m, k - 1, v) /\ Back(N, m, k - 1, v) = Back(N, m, h, v)
          BY <3>2, <3>3, <3>4
        <5> QED
          BY <4>2, <5>1, LeadsOn
      <4> QED
        BY <4>3
    <3>5. CASE WaitsAt(M, m, k - 1) = {}
      <4>1. WaitsAt(N, m, k - 1) = {}
        <5>1. k - 1 \in Nat /\ k - 1 < Len(m.stack)
          <6>1. Len(m.stack) \in Nat
            BY SequenceDomain DEF Returning, Sound, Inside
          <6> QED
            BY <1>1, <3>2, <6>1
        <5> QED
          BY <3>5, <5>1, WaitsInBoth DEF Returning
      <4>2. Back(N, m, h, v) = Stopped(m, "value", v)
        BY <3>3, <4>1 DEF Back
      <4>3. Course(M, R)[0] = R /\ Course(M, R)[0 + 1] = Step(M, R)
        <5>1. /\ Course(M, R)[0] = R
              /\ Course(M, R)[0 + 1] = IF Course(M, R)[0].how = "runs"
                                       THEN Step(M, Course(M, R)[0]) ELSE Course(M, R)[0]
          BY CourseSteps
        <5> QED
          BY <3>2, <5>1
      <4> HIDE DEF R
      <4>4. /\ \A l \in 0..1 - 1 : Course(M, R)[l].how = "runs"
            /\ Course(M, R)[1].how # "runs" /\ Outcome(Course(M, R)[1]) = Outcome(Back(N, m, h, v))
        BY <3>2, <3>3, <3>5, <4>2, <4>3
      <4>5. Leads(M, N, m, v, h, 1)
        BY <4>4 DEF Leads, R
      <4> QED
        BY <4>5
    <3> QED
      BY <3>4, <3>5
  <2> QED
    BY <2>2, <2>3, <2>4
<1>2. 0 \in T
  BY <1>1
<1>3. ASSUME NEW h \in Nat, h \in T PROVE h + 1 \in T
  <2>1. \A j \in 0..(h + 1) - 1 : U(j)
    BY <1>3
  <2>2. U(h + 1)
    BY <1>1, <2>1
  <2> HIDE DEF U
  <2>3. \A j \in 0..h + 1 : j \in 0..(h + 1) - 1 \/ j = h + 1
    OBVIOUS
  <2> QED
    BY <2>1, <2>2, <2>3
<1>4. Nat \subseteq T
  <2> HIDE DEF T
  <2> QED
    BY <1>2, <1>3, CountingInduction
<1>5. Len(m.stack) \in Nat
  BY SequenceDomain DEF Returning, Sound, Inside
<1>6. ASSUME NEW h \in 0..Len(m.stack) - 1 PROVE \E x \in Nat : Leads(M, N, m, v, h, x)
  <2>1. h \in Nat /\ h \in 0..h /\ h < Len(m.stack)
    BY <1>5
  <2>2. h \in T
    BY <1>4, <2>1
  <2> QED
    BY <2>1, <2>2
<1> QED
  BY <1>6

\* Several steps of M, the last of a course, and one of N.
LEMMA AdvancesMany ==
    ASSUME NEW M, NEW N, NEW K, NEW facts, NEW m, m.how = "runs", NEW x \in Nat,
           \A l \in 0..x - 1 : Course(M, Step(M, m))[l].how = "runs",
           \/ Course(M, Step(M, m))[x] = Step(N, m)
              /\ (Step(N, m).mixed \/ Tracked(K, facts, Step(N, m)))
           \/ /\ Course(M, Step(M, m))[x].how # "runs"
              /\ Outcome(Course(M, Step(M, m))[x]) = Outcome(Step(N, m))
    PROVE  Advances(M, N, K, facts, m)
<1> DEFINE S == Step(M, m)
           T == Step(N, m)
<1>1. /\ Course(M, m)[0] = m /\ Course(M, m)[0 + 1] = S
      /\ Course(N, m)[0] = m /\ Course(N, m)[0 + 1] = T
  <2>1. \A p, Q : /\ Course(Q, p)[0] = p
                  /\ Course(Q, p)[0 + 1] = IF Course(Q, p)[0].how = "runs"
                                           THEN Step(Q, Course(Q, p)[0]) ELSE Course(Q, p)[0]
    BY CourseSteps
  <2> QED
    BY <2>1
<1>2. \A l \in Nat : Course(M, m)[1 + l] = Course(M, S)[l]
  <2>1. \A l \in Nat : Course(M, m)[1 + l] = Course(M, Course(M, m)[1])[l]
    BY CourseSplit
  <2> QED
    BY <1>1, <2>1
<1>3. /\ \A l \in 0..x - 1 : Course(M, S)[l].how = "runs"
      /\ \/ Course(M, S)[x] = T /\ (T.mixed \/ Tracked(K, facts, T))
         \/ Course(M, S)[x].how # "runs" /\ Outcome(Course(M, S)[x]) = Outcome(T)
  OBVIOUS
<1> HIDE DEF S, T
<1>4. ASSUME NEW l \in 0..(x + 1) - 1 PROVE Course(M, m)[l].how = "runs"
  <2>1. l = 0 \/ (l - 1 \in 0..x - 1 /\ l - 1 \in Nat /\ 1 + (l - 1) = l)
    OBVIOUS
  <2> QED
    BY <1>1, <1>2, <1>3, <2>1
<1>5. Course(M, m)[x + 1] = Course(M, S)[x] /\ Course(N, m)[1] = T
  BY <1>1, <1>2
<1>6. \/ Course(M, m)[x + 1].mixed
      \/ Tracked(K, facts, Course(M, m)[x + 1]) /\ Course(N, m)[1] = Course(M, m)[x + 1]
      \/ Course(M, m)[x + 1].how # "runs" /\ Outcome(Course(N, m)[1]) = Outcome(Course(M, m)[x + 1])
  BY <1>3, <1>5
<1>7. x + 1 \in Nat \ {0} /\ 1 \in 1..x + 1
  OBVIOUS
<1> QED
  BY <1>4, <1>6, <1>7 DEF Advances

\* Where one module makes calls of what are tail calls in the other, they advance together.
LEMMA TailAdvances ==
    ASSUME NEW M, NEW N, NEW n, NEW P, NEW facts, Tailed(M, N, n, P, facts)
    PROVE  Advance(M, N, N, facts)
<1> SUFFICES ASSUME NEW m, Tracked(N, facts, m), m.how = "runs"
             PROVE  Advances(M, N, N, facts, m)
  BY DEF Advance
<1> DEFINE a == Last(m.stack)
           i == InstOf(M, a)
           j == InstOf(N, a)
<1>1. /\ IsModule(M) /\ Verifies(M) /\ IsModule(N) /\ Verifies(N)
      /\ SameShape(M, N) /\ SameShape(N, M) /\ FactsHold(N, facts)
  BY DEF Tailed, SameShape
<1>2. Sound(N, m) /\ AllGood(N, facts, m) /\ Sound(M, m)
  BY <1>1, SoundAnyCode DEF Tracked
<1>3. /\ Len(m.stack) \in Nat \ {0} /\ DOMAIN m.stack = 1..Len(m.stack) /\ FitsFunction(N, a)
      /\ a = m.stack[Len(m.stack)] /\ Good(N, facts, Len(m.closures), a)
      /\ DOMAIN N[a.function].code = DOMAIN M[a.function].code
  <2>1. Len(m.stack) \in Nat \ {0} /\ DOMAIN m.stack = 1..Len(m.stack) /\ FitsFunction(N, a)
    BY <1>2, RunningTop
  <2>2. a = m.stack[Len(m.stack)]
    BY DEF Last
  <2> HIDE DEF a
  <2>3. Good(N, facts, Len(m.closures), a)
    BY <1>2, <2>1, <2>2 DEF AllGood
  <2> QED
    BY <1>1, <2>1, <2>2, <2>3 DEF FitsFunction, SameShape
<1>4. Step(N, m).mixed \/ Tracked(N, facts, Step(N, m))
  BY <1>1, TrackedStep
<1>5. CASE a.pc \notin DOMAIN N[a.function].code
  <2>1. Step(M, m) = Stopped(m, "status", Null) /\ Step(N, m) = Stopped(m, "status", Null)
    BY <1>1, <1>2, <1>3, <1>5, SameBehind
  <2> QED
    BY <1>4, <2>1, AdvancesOnce
<1>6. ASSUME a.pc \in DOMAIN N[a.function].code,
             Mixes(j, a.regs) <=> Mixes(i, a.regs), \A p : Does(N, p, a, j) = Does(M, p, a, i)
      PROVE  Advances(M, N, N, facts, m)
  <2>1. Step(N, m) = Step(M, m)
    BY <1>1, <1>2, <1>3, <1>6, SameStep
  <2> QED
    BY <1>4, <2>1, AdvancesOnce
<1>7. CASE a.pc \in DOMAIN N[a.function].code
  <2>1. IF a.function = n /\ a.pc \in P
        THEN i.op \in Waits /\ j = TailInst(i) /\ IsInst(i)
        ELSE j = i
    BY <1>3, <1>7, TailWaits
  <2>2. CASE a.function = n /\ a.pc \in P
    <3> HIDE DEF a
    <3>1. /\ i.op \in Waits /\ j = TailInst(i) /\ IsInst(i)
      BY <2>1, <2>2
    <3> HIDE DEF i, j
    <3>2. i.op \notin {"ret", "halt"}
      BY <3>1 DEF Waits
    <3>3. \A p : Does(N, p, a, j) = Does(N, p, a, i)
      BY <3>1, TailDoes
    <3>4. \A p : Does(N, p, a, i) = Does(M, p, a, i)
      BY <1>1, <3>2, SameDoesBut
    <3>5. Mixes(j, a.regs) <=> Mixes(i, a.regs)
      BY <3>1, TailDoes
    <3> QED
      BY <1>6, <1>7, <3>3, <3>4, <3>5
  <2>3. CASE ~(a.function = n /\ a.pc \in P) /\ i.op \notin {"ret", "halt"}
    <3>1. j = i
      BY <2>1, <2>3
    <3> HIDE DEF a, i, j
    <3>2. \A p : Does(N, p, a, i) = Does(M, p, a, i)
      BY <1>1, <2>3, SameDoesBut
    <3> QED
      BY <1>6, <1>7, <3>1, <3>2
  <2>4. CASE ~(a.function = n /\ a.pc \in P) /\ i.op \in {"ret", "halt"}
    <3> DEFINE v == IF i.op = "ret" THEN a.regs[i.a] ELSE Null
               m2 == [m EXCEPT !.mixed = m.mixed \/ Mixes(i, a.regs)]
               h == Len(m.stack) - 1
    <3>1. j = i
      BY <2>1, <2>4
    <3>2. /\ Step(M, m) = Does(M, m2, a, i) /\ Step(N, m) = Does(N, m2, a, j)
      BY <1>1, <1>2, <1>3, <1>7, <3>1, StepDoes
    <3>3. MachineRecord(m)
      BY <1>2 DEF Sound, Inside
    <3>4. /\ m2.stack = m.stack /\ m2.how = m.how /\ m2.calls = m.calls /\ m2.closures = m.closures
          /\ m2.mixed \in BOOLEAN /\ MachineRecord(m2)
      <4> HIDE DEF a, i
      <4> QED
        BY <3>3 DEF MachineRecord
    <3> HIDE DEF m2
    <3>5. Sound(N, m2) /\ AllGood(N, facts, m2)
      BY <1>2, <3>4 DEF Sound, Inside, AllGood
    <3>6. Returning(M, N, n, P, facts, m2)
      BY <3>4, <3>5 DEF Returning
    <3>7. \A K : Does(K, m2, a, i) = Returned(K, m2, v)
      <4> HIDE DEF a, i
      <4> QED
        BY <2>4 DEF Does, Faults, Calls, ClosureCalls, Upvalues
    <3>8. Step(M, m) = Returned(M, m2, v) /\ Step(N, m) = Returned(N, m2, v)
      <4> HIDE DEF a, i, j, v
      <4> QED
        BY <3>1, <3>2, <3>7
    <3> HIDE DEF v
    <3> DEFINE b == Last(m2.stack)
    <3>9. N[b.function].returns = M[b.function].returns
      <4>1. b = a
        BY <3>4 DEF Last
      <4> HIDE DEF a, b
      <4> QED
        BY <1>1, <1>3, <4>1 DEF SameShape, FitsFunction
    <3>10. CASE ~Matches(v, M[b.function].returns)
      <4>1. Step(M, m) = Stopped(m2, "status", Null) /\ Step(N, m) = Stopped(m2, "status", Null)
        BY <3>8, <3>9, <3>10, ReturnedBack
      <4> QED
        BY <1>4, <4>1, AdvancesOnce
    <3>11. CASE Matches(v, M[b.function].returns)
      <4>1. Step(M, m) = Back(M, m2, h, v) /\ Step(N, m) = Back(N, m2, h, v)
        <5>1. Len(m2.stack) - 1 = h
          BY <3>4
        <5> HIDE DEF h
        <5> QED
          BY <3>8, <3>9, <3>11, <5>1, ReturnedBack
      <4>2. h \in 0..Len(m2.stack) - 1
        BY <1>3, <3>4
      <4> HIDE DEF h, b
      <4>3. PICK x \in Nat : Leads(M, N, m2, v, h, x)
        BY <3>6, <4>2, ReturnsAlong
      <4> DEFINE S == Step(M, m)
                 T == Step(N, m)
      <4>4. /\ \A l \in 0..x - 1 : Course(M, S)[l].how = "runs"
            /\ \/ Course(M, S)[x] = T
               \/ Course(M, S)[x].how # "runs" /\ Outcome(Course(M, S)[x]) = Outcome(T)
        BY <4>1, <4>3 DEF Leads
      <4>5. T.mixed \/ Tracked(N, facts, T)
        BY <1>4
      <4> HIDE DEF S, T
      <4>6. /\ \A l \in 0..x - 1 : Course(M, S)[l].how = "runs"
            /\ \/ Course(M, S)[x] = T /\ (T.mixed \/ Tracked(N, facts, T))
               \/ Course(M, S)[x].how # "runs" /\ Outcome(Course(M, S)[x]) = Outcome(T)
        BY <4>4, <4>5
      <4> QED
        BY <4>6, AdvancesMany DEF S, T
    <3> QED
      BY <3>10, <3>11
  <2> QED
    BY <2>2, <2>3, <2>4
<1> QED
  BY <1>5, <1>7

\* Places that control never gets to, and anything at the others.
Skipping(f, S) == [pc \in DOMAIN f.code |-> IF pc \in S THEN {} ELSE Files(f)]

\* These facts hold where no jump and no step leads to the places.
LEMMA SkippingHolds ==
    ASSUME NEW M, NEW f, Sized(f), AcceptsCode(M, f, f.code), NEW S,
           1 \notin S, S \intersect Labels(f.code) = {},
           \A pc \in DOMAIN f.code : pc + 1 \in S => f.code[pc].op \in Terminators \union {"jmp"}
    PROVE  Holds(f, Skipping(f, S))
<1> DEFINE facts == Skipping(f, S)
<1>1. \A pc \in DOMAIN f.code : facts[pc] = IF pc \in S THEN {} ELSE Files(f)
  BY DEF Skipping
<1> HIDE DEF facts
<1>2. /\ \A pc \in DOMAIN f.code : facts[pc] \subseteq Files(f)
      /\ \A pc \in DOMAIN f.code : pc = 1 \/ pc \in Labels(f.code) => facts[pc] = Files(f)
  BY <1>1
<1>3. ASSUME NEW pc \in DOMAIN f.code, NEW regs \in facts[pc], NEW after,
             pc + 1 \in DOMAIN f.code \ Labels(f.code), f.code[pc].op \notin Terminators \union {"jmp"},
             Goes(f, pc, regs, pc + 1, after)
      PROVE  after \in facts[pc + 1]
  BY <1>1, <1>3 DEF Goes
<1>4. Holds(f, facts)
  BY <1>2, <1>3, HoldsInOrder
<1> QED
  BY <1>4 DEF facts

\* The facts of one function, and nothing of the others.
FactsOf(M, n, facts) == [k \in DOMAIN M |-> IF k = n THEN facts ELSE Anything(M[k])]

\* If they hold of the function they hold of the module.
LEMMA FactsOfHold ==
    ASSUME NEW M, IsModule(M), Verifies(M), NEW n \in DOMAIN M, NEW facts, Holds(M[n], facts)
    PROVE  FactsHold(M, FactsOf(M, n, facts))
<1>1. \A k \in DOMAIN M : Sized(M[k]) /\ AcceptsCode(M, M[k], M[k].code)
  BY VerifiedIsAccepted DEF Accepted, FunctionRecord, Sized
<1> QED
  BY <1>1, AnythingHolds DEF FactsHold, FactsOf

\* What the tail call pass makes of the code.
LEMMA TailcallAt ==
    ASSUME NEW code, IsSequence(code), NEW P, P = Pairs(code, BeforeRet)
    PROVE  /\ DOMAIN Tailcall(code) = DOMAIN code
           /\ P \subseteq DOMAIN code
           /\ \A pc \in P : /\ pc + 1 \in DOMAIN code /\ BeforeRet(code[pc], code[pc + 1])
                            /\ Tailcall(code)[pc] = TailInst(code[pc])
           /\ \A pc \in DOMAIN code : pc \in P \/ pc - 1 \in P \/ Tailcall(code)[pc] = code[pc]
           /\ \A pc \in DOMAIN code : pc - 1 \in P => pc \notin P /\ Tailcall(code)[pc] = Nop
<1> DEFINE new == Tailcall(code)
           first(pc) == pc \in DOMAIN code /\ pc + 1 \in DOMAIN code
                          /\ BeforeRet(code[pc], code[pc + 1])
<1>1. new = [pc \in DOMAIN code |->
              CASE first(pc) -> TailInst(code[pc]) [] first(pc - 1) -> Nop [] OTHER -> code[pc]]
  BY DEF Tailcall, Paired, TailInst
<1> HIDE DEF new
<1>2. \A pc : first(pc) <=> pc \in P
  BY DEF Pairs
<1>3. \A pc \in DOMAIN code : pc \in Int /\ (pc - 1) + 1 = pc
  BY SequenceDomain
<1>4. \A pc \in DOMAIN code : pc - 1 \in P => pc \notin P
  BY <1>2, <1>3 DEF BeforeRet
<1>5. P \subseteq DOMAIN code /\ \A pc \in P : pc + 1 \in DOMAIN code /\ BeforeRet(code[pc], code[pc + 1])
  BY DEF Pairs
<1>6. \A pc \in DOMAIN code : new[pc] = CASE pc \in P -> TailInst(code[pc]) [] pc - 1 \in P -> Nop [] OTHER -> code[pc]
  BY <1>1, <1>2
<1>7. /\ DOMAIN new = DOMAIN code
      /\ \A pc \in P : new[pc] = TailInst(code[pc])
      /\ \A pc \in DOMAIN code : pc \in P \/ pc - 1 \in P \/ new[pc] = code[pc]
      /\ \A pc \in DOMAIN code : pc - 1 \in P => new[pc] = Nop
  <2>1. DOMAIN new = DOMAIN code
    BY <1>1
  <2>2. \A pc \in P : new[pc] = TailInst(code[pc])
    BY <1>4, <1>5, <1>6
  <2>3. \A pc \in DOMAIN code : pc - 1 \in P => new[pc] = Nop
    BY <1>4, <1>6
  <2>4. ASSUME NEW pc \in DOMAIN code, pc \notin P, pc - 1 \notin P PROVE new[pc] = code[pc]
    BY <1>6, <2>4
  <2> QED
    BY <2>1, <2>2, <2>3, <2>4
<1> QED
  BY <1>4, <1>5, <1>7 DEF new

\* Where the ret is reached through the call only, the tail call pass keeps what the module does.
LEMMA TailcallEnds ==
    ASSUME NEW M, IsModule(M), Verifies(M), NEW n \in DOMAIN M, KeepsTailcall(M[n])
    PROVE  SameEnds(M, [M EXCEPT ![n].code = Tailcall(M[n].code)])
<1> DEFINE f == M[n]
           code == f.code
           new == Tailcall(code)
           P == Pairs(code, BeforeRet)
           S == {pc \in Int : pc - 1 \in P}
           N == [M EXCEPT ![n].code = new]
           g == N[n]
<1>1. Sized(f) /\ AcceptsCode(M, f, code) /\ IsSequence(code)
  BY VerifiedIsAccepted DEF Accepted, FunctionRecord, Sized, AcceptsCode
<1>2. /\ DOMAIN new = DOMAIN code
      /\ P \subseteq DOMAIN code
      /\ \A pc \in P : /\ pc + 1 \in DOMAIN code /\ BeforeRet(code[pc], code[pc + 1])
                       /\ new[pc] = TailInst(code[pc])
      /\ \A pc \in DOMAIN code : pc \in P \/ pc - 1 \in P \/ new[pc] = code[pc]
      /\ \A pc \in DOMAIN code : pc - 1 \in P => pc \notin P /\ new[pc] = Nop
  <2> HIDE DEF code
  <2> QED
    BY <1>1, TailcallAt
<1>3. AcceptsCode(M, f, new)
  BY <1>1, TailcallKeeps
<1>4. \A pc \in P : pc + 1 \notin Labels(code) /\ f.returns = AnyType
  BY DEF KeepsTailcall
<1>5. DOMAIN code \subseteq Nat \ {0} /\ \A pc \in DOMAIN code : IsInst(code[pc])
  <2>1. IsFunction(f)
    BY DEF IsModule
  <2> QED
    BY <1>1, <2>1, SequenceDomain DEF IsFunction
<1> HIDE DEF P, new, code
<1>6. Replaces(M, n, new, N)
  <2> HIDE DEF N
  <2> QED
    BY <1>1, <1>2, <1>3, OneReplaced DEF N, code
<1>7. /\ IsModule(N) /\ Verifies(N) /\ SameShape(M, N) /\ n \in DOMAIN N
      /\ \A k \in DOMAIN M \ {n} : N[k] = M[k]
      /\ g.code = new
  BY <1>6 DEF Replaces, SameShape
<1> HIDE DEF N
<1>8. Labels(new) \subseteq Labels(code)
  <2>1. ASSUME NEW pc \in DOMAIN new, new[pc].op \in Relative \union {"try_begin"}
        PROVE  new[pc] = code[pc]
    <3>1. \A i : TailInst(i).op \notin Relative \union {"try_begin"} \/ ~IsInst(i)
      BY DEF TailInst, IsInst, Relative, FusedImm, Conditional
    <3>2. pc \notin P
      BY <1>2, <1>5, <2>1, <3>1
    <3>3. Nop.op \notin Relative \union {"try_begin"}
      BY DEF Nop, Inst, Relative, FusedImm, Conditional
    <3>4. pc - 1 \notin P
      BY <1>2, <2>1, <3>3
    <3> QED
      BY <1>2, <3>2, <3>4
  <2>2. \A pc \in DOMAIN new : new[pc].op \in Relative => JumpTarget(new, pc) \in Labels(code) \/ JumpTarget(new, pc) \notin DOMAIN code
    BY <1>2, <2>1 DEF Labels, JumpTarget
  <2>3. \A pc \in DOMAIN new : new[pc].op = "try_begin" =>
          \A x \in TryTargets(new[pc]) : x \in Labels(code) \/ x \notin DOMAIN code
    BY <1>2, <2>1 DEF Labels
  <2> QED
    BY <1>2, <2>2, <2>3 DEF Labels
<1>9. Holds(g, Skipping(g, S))
  <2>1. Sized(g) /\ AcceptsCode(N, g, g.code)
    BY <1>7, VerifiedIsAccepted DEF Accepted, FunctionRecord, Sized
  <2>2. 1 \notin S
    BY <1>2, <1>5
  <2>3. S \intersect Labels(g.code) = {}
    <3>1. ASSUME NEW pc \in S PROVE pc \notin Labels(code)
      <4>1. pc - 1 \in P /\ (pc - 1) + 1 = pc
        OBVIOUS
      <4> QED
        BY <1>4, <4>1
    <3> QED
      BY <1>7, <1>8, <3>1
  <2>4. ASSUME NEW pc \in DOMAIN g.code, pc + 1 \in S PROVE g.code[pc].op \in Terminators \union {"jmp"}
    <3>1. pc \in P
      <4>1. (pc + 1) - 1 = pc /\ (pc + 1) - 1 \in P
        BY <1>2, <1>5, <1>7, <2>4
      <4> QED
        BY <4>1
    <3>2. IsInst(code[pc]) /\ code[pc].op \in {"call", "call_closure"}
      BY <1>2, <1>5, <3>1 DEF BeforeRet
    <3>3. TailInst(code[pc]).op \in Terminators
      BY <3>2 DEF TailInst, Terminators, IsInst
    <3> QED
      BY <1>2, <1>7, <3>1, <3>3
  <2> HIDE DEF S, g
  <2> QED
    BY <2>1, <2>2, <2>3, <2>4, SkippingHolds
<1> DEFINE facts == FactsOf(N, n, Skipping(g, S))
<1>10. FactsHold(N, facts)
  BY <1>7, <1>9, FactsOfHold
<1>11. \A pc \in P : facts[n][pc + 1] = {}
  <2>1. \A pc \in P : pc + 1 \in S /\ pc + 1 \in DOMAIN g.code
    <3>1. \A pc \in P : pc + 1 \in Int /\ (pc + 1) - 1 = pc
      BY <1>2, <1>5
    <3> QED
      BY <1>2, <1>7, <3>1
  <2>2. facts[n] = Skipping(g, S)
    BY <1>7 DEF FactsOf
  <2> HIDE DEF S, g, facts
  <2> QED
    BY <2>1, <2>2 DEF Skipping
<1> HIDE DEF facts
<1>12. Tailed(M, N, n, P, facts)
  <2>1. P \subseteq Int
    BY <1>2, <1>5
  <2>2. \A pc \in P :
          /\ pc \in DOMAIN M[n].code /\ pc + 1 \in DOMAIN M[n].code
          /\ BeforeRet(M[n].code[pc], M[n].code[pc + 1])
          /\ N[n].code[pc] = TailInst(M[n].code[pc])
          /\ facts[n][pc + 1] = {}
          /\ M[n].returns = AnyType
    BY <1>2, <1>4, <1>7, <1>11 DEF code
  <2>3. \A pc \in DOMAIN M[n].code : pc \in P \/ pc - 1 \in P \/ N[n].code[pc] = M[n].code[pc]
    BY <1>2, <1>7 DEF code
  <2> QED
    BY <1>7, <1>10, <2>1, <2>2, <2>3 DEF Tailed
<1>13. Advance(M, N, N, facts)
  BY <1>12, TailAdvances
<1>14. SameEnds(M, N)
  BY <1>7, <1>10, <1>13, AdvancingEnds DEF SameShape
<1> QED
  BY <1>14 DEF N, new, code

-----------------------------------------------------------------------------
(* loop_fusion                                                             *)

\* Two equal sequences.
LEMMA SameSequence ==
    ASSUME NEW s, NEW t, IsSequence(s), IsSequence(t), NEW n, Len(s) = n, Len(t) = n,
           \A k \in 1..n : s[k] = t[k]
    PROVE  s = t
<1>1. s = [k \in 1..n |-> s[k]] /\ t = [k \in 1..n |-> t[k]]
  BY SequenceDomain DEF OnDomain
<1> QED
  BY <1>1

\* The running activation has these registers and is at this place.
Placed(m, regs, pc) ==
    Now([m EXCEPT !.mixed = m.mixed \/ FALSE], [Last(m.stack) EXCEPT !.regs = regs, !.pc = pc])

\* An instruction that computes takes the running activation to another place.
LEMMA PlainStep ==
    ASSUME NEW M, IsModule(M), Verifies(M), NEW m, Sound(M, m), m.how = "runs",
           NEW a, a = Last(m.stack), a.pc \in DOMAIN M[a.function].code,
           NEW i, i = InstOf(M, a), i.op \notin Controls, ~DividesByZero(i, a.regs), ~Mixes(i, a.regs)
    PROVE  Step(M, m) = Placed(m, Computed(i, a.regs), a.pc + Ahead(i, a.regs))
<1> DEFINE m2 == [m EXCEPT !.mixed = m.mixed \/ Mixes(i, a.regs)]
           after == Computed(i, a.regs)
           pc == a.pc + Ahead(i, a.regs)
<1>1. Step(M, m) = Does(M, m2, a, i) /\ FitsFunction(M, a)
  BY StepDoes
<1>2. m2 = [m EXCEPT !.mixed = m.mixed \/ FALSE]
  OBVIOUS
<1> HIDE DEF m2
<1>3. Does(M, m2, a, i) = Computes(m2, a, i)
  BY DoesComputes
<1>4. Computes(m2, a, i) = Now(m2, [a EXCEPT !.regs = after, !.pc = @ + Ahead(i, a.regs)])
  BY DEF Computes
<1>5. [a EXCEPT !.regs = after, !.pc = @ + Ahead(i, a.regs)] = [a EXCEPT !.regs = after, !.pc = pc]
  <2> DEFINE d == Ahead(i, a.regs)
  <2> HIDE DEF after, d
  <2> QED
    BY <1>1 DEF FitsFunction
<1> HIDE DEF after, pc
<1> QED
  BY <1>1, <1>2, <1>3, <1>4, <1>5 DEF Placed, after, pc

\* What it is then.
LEMMA PlacedIs ==
    ASSUME NEW M, NEW m, Sound(M, m), m.how = "runs", NEW regs, NEW pc,
           OnDomain(0..M[Last(m.stack).function].regs - 1, regs)
    PROVE  /\ Sound(M, Placed(m, regs, pc)) /\ Placed(m, regs, pc).how = "runs"
           /\ Last(Placed(m, regs, pc).stack).function = Last(m.stack).function
           /\ Last(Placed(m, regs, pc).stack).regs = regs
           /\ Last(Placed(m, regs, pc).stack).pc = pc
           /\ \A r, p : Placed(Placed(m, regs, pc), r, p) = Placed(m, r, p)
<1> DEFINE a == Last(m.stack)
           b == [a EXCEPT !.regs = regs, !.pc = pc]
           flag == m.mixed \/ FALSE
           m2 == [m EXCEPT !.mixed = flag]
           below == Front(m.stack)
           s == Append(below, b)
           P == Placed(m, regs, pc)
<1>1. FitsFunction(M, a) /\ MachineRecord(m) /\ IsSequence(m.stack) /\ Len(m.stack) \in Nat \ {0}
  BY RunningTop DEF Sound, Inside
<1>2. FitsFunction(M, b) /\ b.function = a.function /\ b.regs = regs /\ b.pc = pc
  <2> HIDE DEF a
  <2>1. /\ b \in [function : {a.function}, pc : {pc}, tries : {a.tries}, closure : {a.closure},
                  regs : {regs}, rest : {a.rest}]
    BY <1>1 DEF FitsFunction
  <2>2. OnDomain(0..M[a.function].regs - 1, regs)
    BY DEF a
  <2> HIDE DEF b
  <2> QED
    BY <1>1, <2>1, <2>2 DEF FitsFunction, OnDomain
<1> HIDE DEF b
<1>3. flag \in BOOLEAN /\ (flag \/ FALSE) = flag
  OBVIOUS
<1> HIDE DEF flag
<1>4. m2 \in [how : {m.how}, value : {m.value}, calls : {m.calls}, closures : {m.closures},
              mixed : {flag}, stack : {m.stack}]
  BY <1>1 DEF MachineRecord
<1>5. Sound(M, m2) /\ m2.how = "runs" /\ m2.stack = m.stack
  BY <1>4 DEF Sound, Inside, MachineRecord
<1>6. P = Now(m2, b)
  BY DEF Placed, flag, b
<1> HIDE DEF m2
<1>7. Sound(M, P)
  BY <1>2, <1>5, <1>6, NowInside
<1>8. P \in [how : {m.how}, value : {m.value}, calls : {m.calls}, closures : {m.closures},
              mixed : {flag}, stack : {s}]
  <2>1. P = [m2 EXCEPT !.stack = s]
    BY <1>5, <1>6 DEF Now
  <2> HIDE DEF s, P
  <2> QED
    BY <1>4, <2>1 DEF m2
<1>9. IsSequence(below) /\ Len(below) = Len(m.stack) - 1
  <2>1. Len(m.stack) - 1 \in 0..Len(m.stack)
    BY <1>1
  <2> QED
    BY <1>1, <2>1, PrefixIsSequence DEF Front
<1> HIDE DEF below, P
<1>10. IsSequence(s) /\ Len(s) = Len(below) + 1 /\ Last(s) = b /\ Front(s) = below
  <2>1. /\ IsSequence(s) /\ Len(s) = Len(below) + 1 /\ Len(below) \in Nat /\ DOMAIN below = 1..Len(below)
        /\ \A k \in DOMAIN below : s[k] = below[k]
        /\ s[Len(below) + 1] = b
    BY <1>9, AppendIsSequence
  <2> HIDE DEF s
  <2>2. Last(s) = b
    BY <2>1 DEF Last
  <2>3. Len(s) - 1 = Len(below) /\ Len(below) \in 0..Len(s)
    BY <2>1
  <2>4. /\ IsSequence(Front(s)) /\ Len(Front(s)) = Len(below)
        /\ \A k \in 1..Len(below) : Front(s)[k] = s[k]
    BY <2>1, <2>3, PrefixIsSequence DEF Front
  <2>5. \A k \in 1..Len(below) : Front(s)[k] = below[k]
    BY <2>1, <2>4
  <2>6. Front(s) = below
    BY <1>9, <2>4, <2>5, SameSequence
  <2> QED
    BY <2>1, <2>2, <2>6
<1>11. ASSUME NEW r, NEW p PROVE Placed(P, r, p) = Placed(m, r, p)
  <2> DEFINE c == [b EXCEPT !.regs = r, !.pc = p]
             d == [a EXCEPT !.regs = r, !.pc = p]
  <2>1. c = d
    <3> HIDE DEF a
    <3> QED
      BY <1>1 DEF FitsFunction, b
  <2>2. P.stack = s /\ P.mixed = flag
    BY <1>8
  <2> HIDE DEF s, c, d
  <2> DEFINE t == Append(below, c)
  <2>3. Placed(P, r, p) = [[P EXCEPT !.mixed = flag] EXCEPT !.stack = t]
    <3>1. Placed(P, r, p) = Now([P EXCEPT !.mixed = flag \/ FALSE], c)
      BY <1>10, <2>2 DEF Placed, c
    <3>2. [P EXCEPT !.mixed = flag \/ FALSE] = [P EXCEPT !.mixed = flag]
      BY <1>3
    <3>3. [P EXCEPT !.mixed = flag].stack = s
      BY <1>8
    <3> QED
      BY <1>10, <3>1, <3>2, <3>3 DEF Now
  <2>4. Placed(m, r, p) = [[m EXCEPT !.mixed = flag] EXCEPT !.stack = t]
    <3>1. Placed(m, r, p) = Now([m EXCEPT !.mixed = flag], c)
      BY <2>1 DEF Placed, d, flag
    <3>2. [m EXCEPT !.mixed = flag].stack = m.stack
      BY <1>4, <1>5 DEF m2
    <3> QED
      BY <3>1, <3>2 DEF Now, below
  <2> HIDE DEF t
  <2>5. [[P EXCEPT !.mixed = flag] EXCEPT !.stack = t] = [[m EXCEPT !.mixed = flag] EXCEPT !.stack = t]
    BY <1>1, <1>8 DEF MachineRecord
  <2> QED
    BY <2>3, <2>4, <2>5
<1>12. P.how = "runs" /\ P.stack = s
  BY <1>5, <1>8
<1>13. Last(P.stack) = b
  BY <1>10, <1>12
<1>14. /\ Sound(M, P) /\ P.how = "runs"
       /\ Last(P.stack).function = a.function /\ Last(P.stack).regs = regs /\ Last(P.stack).pc = pc
       /\ \A r, p : Placed(P, r, p) = Placed(m, r, p)
  BY <1>2, <1>7, <1>11, <1>12, <1>13
<1> QED
  BY <1>14 DEF P

\* A fused instruction computes what the two did.
LEMMA FusedComputes ==
    ASSUME NEW f, Sized(f), NEW regs \in Files(f), NEW i, NEW j, Fusible(i, j),
           IsInst(j), \A r \in {i.a, i.b} : r \in Registers(f), i.op = "add" => i.c \in Registers(f),
           i.op \in Immediate => i.c \in Int,
           i.op = "add" => i.a # i.c, ~Mixes(i, regs)
    PROVE  LET k == Fused(i, j)
               R == Computed(i, regs)
           IN  /\ i.op \notin Controls /\ j.op \notin Controls /\ k.op \notin Controls
               /\ i.op # "div" /\ j.op # "div" /\ k.op # "div"
               /\ Ahead(i, regs) = 1
               /\ ~Mixes(j, R) /\ ~Mixes(k, regs)
               /\ Computed(k, regs) = Computed(j, R)
               /\ Jumps(k, Computed(j, R)) <=> Jumps(j, Computed(j, R))
               /\ Delta(k) = Delta(j) + 1
               /\ R \in Files(f) /\ Computed(j, R) \in Files(f)
<1> USE DEF Binary, Immediate, Step1, FusedImm, Conditional
<1> DEFINE k == Fused(i, j)
           R == Computed(i, regs)
           S == Computed(j, R)
           Wanted == /\ i.op \notin Controls /\ j.op \notin Controls /\ k.op \notin Controls
                     /\ i.op # "div" /\ j.op # "div" /\ k.op # "div"
                     /\ Ahead(i, regs) = 1
                     /\ ~Mixes(j, R) /\ ~Mixes(k, regs)
                     /\ Computed(k, regs) = S
                     /\ Jumps(k, S) <=> Jumps(j, S)
                     /\ Delta(k) = Delta(j) + 1
                     /\ R \in Files(f) /\ S \in Files(f)
<1>1. DOMAIN regs = Registers(f) /\ \A r \in Registers(f) : regs[r] \in Values /\ regs[r].bits \in Int
  BY DEF Files, Values
<1>2. \A n \in Int : Int64(n) \in Values /\ Int64(n).type = "int64" /\ Int64(n) = [type |-> "int64", bits |-> Wrap(n)]
                      /\ Int64(n).bits \in Int
  BY ValuesMade DEF Int64, Values
<1>3. ASSUME i.op = "add" PROVE Wanted
  <2> DEFINE x == regs[i.a].bits
             y == regs[i.c].bits
  <2>1. /\ j.op = "dec_jnz" /\ i.a = i.b /\ i.c = j.a /\ i.a # i.c
        /\ i.a \in Registers(f) /\ i.c \in Registers(f)
    BY <1>3 DEF Fusible
  <2>2. k = Inst("add_dec_jnz", i.a, i.c, j.b + 1)
    BY <1>3 DEF Fused
  <2>3. k.op = "add_dec_jnz" /\ k.a = i.a /\ k.b = i.c /\ k.c = j.b + 1
    BY <2>2 DEF Inst
  <2> HIDE DEF k
  <2>4. x \in Int /\ y \in Int
    BY <1>1, <2>1
  <2>5. R = [regs EXCEPT ![i.a] = Int64(x + y)]
    BY <1>3, <2>1 DEF Computed, Arithmetic
  <2> HIDE DEF R
  <2>6. R[i.c] = regs[i.c] /\ R[i.a] = Int64(x + y)
    BY <1>1, <2>1, <2>5
  <2>7. S = [R EXCEPT ![i.c] = Int64(y - 1)]
    BY <2>1, <2>6 DEF Computed
  <2>8. Computed(k, regs) = [[regs EXCEPT ![i.a] = Int64(x + y)] EXCEPT ![i.c] = Int64(y - 1)]
    BY <2>3 DEF Computed
  <2>9. Computed(k, regs) = S
    BY <2>5, <2>7, <2>8
  <2> HIDE DEF S
  <2>10. Jumps(k, S) <=> Jumps(j, S)
    BY <2>1, <2>3 DEF Jumps
  <2>11. Delta(k) = Delta(j) + 1
    BY <2>1, <2>3 DEF Delta, DeltaField
  <2>12. ~Mixes(j, R) /\ ~Mixes(k, regs)
    <3>1. regs[i.a].type = "int64" /\ regs[i.c].type = "int64"
      BY <1>3, <2>1 DEF Mixes, IntegerReads
    <3> QED
      BY <2>1, <2>3, <2>6, <3>1 DEF Mixes, IntegerReads
  <2>13. Ahead(i, regs) = 1
    BY <1>3 DEF Ahead, Jumps
  <2>14. R \in Files(f) /\ S \in Files(f)
    <3>1. Int64(x + y) \in Values /\ Int64(y - 1) \in Values
      BY <1>2, <2>4
    <3> QED
      BY <2>1, <2>5, <2>7, <3>1 DEF Files
  <2>15. i.op \notin Controls /\ j.op \notin Controls /\ k.op \notin Controls
    BY <1>3, <2>1, <2>3 DEF Controls, Tries, Calls, ClosureCalls, Upvalues
  <2> QED
    BY <1>3, <2>1, <2>3, <2>9, <2>10, <2>11, <2>12, <2>13, <2>14, <2>15
<1>4. ASSUME i.op \in Immediate PROVE Wanted
  <2> DEFINE x == regs[i.a].bits
             n == IF i.op = "add_imm" THEN x + i.c ELSE x - i.c
  <2>1. /\ j.op = "jmp_if_not_zero" /\ i.a = i.b /\ j.a = i.a
        /\ i.a \in Registers(f) /\ i.c \in Int
    BY <1>4 DEF Fusible
  <2>2. k = Inst(IF i.op = "add_imm" THEN "add_imm_jnz" ELSE "sub_imm_jnz", i.a, i.c, j.b + 1)
    BY <1>4 DEF Fused
  <2>3. /\ k.op = IF i.op = "add_imm" THEN "add_imm_jnz" ELSE "sub_imm_jnz"
        /\ k.a = i.a /\ k.b = i.c /\ k.c = j.b + 1
    BY <2>2 DEF Inst
  <2> HIDE DEF k
  <2>4. x \in Int /\ n \in Int
    BY <1>1, <2>1
  <2>5. R = [regs EXCEPT ![i.a] = Int64(n)]
    BY <1>4, <2>1 DEF Computed
  <2>8. Computed(k, regs) = [regs EXCEPT ![i.a] = Int64(n)]
    BY <1>4, <2>3 DEF Computed
  <2> HIDE DEF R, n
  <2>6. R[i.a] = Int64(n)
    BY <1>1, <2>1, <2>5
  <2>7. S = R
    BY <2>1 DEF Computed
  <2>9. Computed(k, regs) = S
    BY <2>5, <2>7, <2>8
  <2> HIDE DEF S
  <2>10. Jumps(k, S) <=> Jumps(j, S)
    BY <2>1, <2>3 DEF Jumps
  <2>11. Delta(k) = Delta(j) + 1
    BY <2>1, <2>3 DEF Delta, DeltaField
  <2>12. ~Mixes(j, R) /\ ~Mixes(k, regs)
    <3>1. regs[i.a].type = "int64"
      BY <1>4, <2>1 DEF Mixes, IntegerReads
    <3>2. R[i.a].type = "int64"
      BY <1>2, <2>4, <2>6
    <3> QED
      BY <2>1, <2>3, <3>1, <3>2 DEF Mixes, IntegerReads
  <2>13. Ahead(i, regs) = 1
    BY <1>4 DEF Ahead, Jumps
  <2>14. R \in Files(f) /\ S \in Files(f)
    <3>1. Int64(n) \in Values
      BY <1>2, <2>4
    <3> QED
      BY <2>1, <2>5, <2>7, <3>1 DEF Files
  <2>15. i.op \notin Controls /\ j.op \notin Controls /\ k.op \notin Controls
    BY <1>4, <2>1, <2>3 DEF Controls, Tries, Calls, ClosureCalls, Upvalues
  <2> QED
    BY <1>4, <2>1, <2>3, <2>9, <2>10, <2>11, <2>12, <2>13, <2>14, <2>15
<1>5. Wanted
  BY <1>3, <1>4 DEF Fusible
<1> QED
  BY <1>5

\* The same instructions wait, and for the same register.
SameWaits(M, N) ==
    \A k \in DOMAIN M : \A pc \in DOMAIN M[k].code :
      LET i == M[k].code[pc]
          j == N[k].code[pc]
      IN  (i.op \in Waits <=> j.op \in Waits) /\ (i.op \in Waits => j.a = i.a)

\* Two such modules step alike from a place where they have the same instruction.
LEMMA SameStepHere ==
    ASSUME NEW M, IsModule(M), Verifies(M), NEW N, IsModule(N), Verifies(N), SameShape(M, N),
           SameWaits(M, N), NEW m, Sound(M, m), m.how = "runs",
           \A k \in 1..Len(m.stack) - 1 : m.stack[k].pc \in DOMAIN M[m.stack[k].function].code,
           NEW a, a = Last(m.stack), a.pc \in DOMAIN M[a.function].code, InstOf(N, a) = InstOf(M, a)
    PROVE  Step(N, m) = Step(M, m)
<1> DEFINE i == InstOf(M, a)
           m2 == [m EXCEPT !.mixed = m.mixed \/ Mixes(i, a.regs)]
<1>1. Sound(N, m) /\ FitsFunction(M, a)
  BY SoundAnyCode, RunningTop
<1>2. a.pc \in DOMAIN N[a.function].code
  BY <1>1 DEF SameShape, FitsFunction
<1>3. Step(M, m) = Does(M, m2, a, i) /\ Step(N, m) = Does(N, m2, a, i)
  BY <1>1, <1>2, StepDoes
<1>4. m2.stack = m.stack
  <2> DEFINE flag == m.mixed \/ Mixes(i, a.regs)
  <2> HIDE DEF flag
  <2> QED
    BY DEF Sound, Inside, MachineRecord
<1> HIDE DEF m2, i
<1>5. /\ m.stack # <<>> /\ IsSequence(m.stack) /\ Len(m.stack) \in Nat /\ DOMAIN m.stack = 1..Len(m.stack)
      /\ \A k \in DOMAIN m.stack : m.stack[k].function \in DOMAIN M
  <2>1. Len(m.stack) \in Nat /\ DOMAIN m.stack = 1..Len(m.stack)
    BY RunningTop
  <2> QED
    BY <2>1 DEF Sound, Inside, FitsFunction
<1>6. ASSUME NEW k \in 1..Len(m.stack) - 1
      PROVE  LET p == InstOf(M, m.stack[k])
                 q == InstOf(N, m.stack[k])
             IN  (p.op \in Waits <=> q.op \in Waits) /\ (p.op \in Waits => q.a = p.a)
  <2>1. k \in DOMAIN m.stack
    BY <1>5
  <2> QED
    BY <1>5, <2>1 DEF SameWaits, InstOf
<1>7. Does(N, m2, a, i) = Does(M, m2, a, i)
  <2>1. /\ m2.stack # <<>> /\ IsSequence(m2.stack)
        /\ \A k \in DOMAIN m2.stack : m2.stack[k].function \in DOMAIN M
    BY <1>4, <1>5
  <2>2. \A k \in 1..Len(m2.stack) - 1 :
          LET p == InstOf(M, m2.stack[k])
              q == InstOf(N, m2.stack[k])
          IN  (p.op \in Waits <=> q.op \in Waits) /\ (p.op \in Waits => q.a = p.a)
    BY <1>4, <1>6
  <2> QED
    BY <2>1, <2>2, SameDoes
<1> QED
  BY <1>3, <1>7

\* The first two machines of a course.
LEMMA FirstSteps ==
    ASSUME NEW M, NEW m, m.how = "runs"
    PROVE  /\ Course(M, m)[0] = m /\ Course(M, m)[1] = Step(M, m)
           /\ Step(M, m).how = "runs" => Course(M, m)[2] = Step(M, Step(M, m))
<1>1. /\ Course(M, m)[0] = m
      /\ \A k \in Nat : Course(M, m)[k + 1] = IF Course(M, m)[k].how = "runs"
                                              THEN Step(M, Course(M, m)[k]) ELSE Course(M, m)[k]
  BY CourseSteps
<1>2. 0 + 1 = 1 /\ 1 + 1 = 2 /\ 0 \in Nat /\ 1 \in Nat
  OBVIOUS
<1> QED
  BY <1>1, <1>2

\* To mix integers is to advance.
LEMMA AdvancesMixed ==
    ASSUME NEW M, NEW N, NEW K, NEW facts, NEW m, m.how = "runs", Step(M, m).mixed
    PROVE  Advances(M, N, K, facts, m)
<1>1. Course(M, m)[0].how = "runs" /\ Course(M, m)[1].mixed
  BY FirstSteps
<1>2. 1 \in Nat \ {0} /\ 1 \in 1..1 /\ 0..1 - 1 = {0}
  OBVIOUS
<1> QED
  BY <1>1, <1>2 DEF Advances

\* Two steps, or two of M and one of N.
LEMMA AdvancesTwice ==
    ASSUME NEW M, NEW N, NEW K, NEW facts, NEW m, m.how = "runs", Step(M, m).how = "runs",
           Tracked(K, facts, Step(M, Step(M, m))),
           \/ Step(N, m) = Step(M, Step(M, m))
           \/ Step(N, m).how = "runs" /\ Step(N, Step(N, m)) = Step(M, Step(M, m))
    PROVE  Advances(M, N, K, facts, m)
<1> DEFINE S == Step(M, Step(M, m))
<1>1. /\ Course(M, m)[0].how = "runs" /\ Course(M, m)[1].how = "runs" /\ Course(M, m)[2] = S
      /\ Course(N, m)[1] = S \/ Course(N, m)[2] = S
      /\ Tracked(K, facts, S)
  BY FirstSteps
<1> HIDE DEF S
<1>2. 2 \in Nat \ {0} /\ 1 \in 1..2 /\ 2 \in 1..2 /\ \A l \in 0..2 - 1 : l = 0 \/ l = 1
  OBVIOUS
<1>3. \A l \in 0..2 - 1 : Course(M, m)[l].how = "runs"
  BY <1>1, <1>2
<1>4. PICK y \in 1..2 : Course(N, m)[y] = S
  BY <1>1, <1>2
<1> QED
  BY <1>1, <1>2, <1>3, <1>4 DEF Advances

\* At the places P of function n of M two instructions follow each other of which N makes one;
\* the facts, of a module that stops in its place at P, say that the second is never reached.
Fusing(M, N, K, n, P, facts) ==
    /\ IsModule(M) /\ Verifies(M) /\ IsModule(N) /\ Verifies(N) /\ IsModule(K) /\ Verifies(K)
    /\ SameShape(M, N) /\ SameShape(K, M) /\ SameShape(K, N) /\ SameShape(M, K)
    /\ n \in DOMAIN M /\ P \subseteq DOMAIN M[n].code
    /\ \A k \in DOMAIN M \ {n} : N[k] = M[k] /\ K[k] = M[k]
    /\ FactsHold(K, facts) /\ facts[n] = Skipping(K[n], {pc \in Int : pc - 1 \in P})
    /\ \A pc \in P :
          /\ pc + 1 \in DOMAIN M[n].code /\ pc + 1 \notin Labels(M[n].code)
          /\ Fusible(M[n].code[pc], M[n].code[pc + 1])
          /\ M[n].code[pc].op = "add" => M[n].code[pc].a # M[n].code[pc].c
          /\ N[n].code[pc] = Fused(M[n].code[pc], M[n].code[pc + 1])
          /\ N[n].code[pc + 1] = Nop
          /\ K[n].code[pc].op = "jmp"
    /\ \A pc \in DOMAIN M[n].code : pc \in P \/ pc - 1 \in P \/ N[n].code[pc] = M[n].code[pc]
    /\ \A pc \in DOMAIN M[n].code : pc \in P \/ K[n].code[pc] = M[n].code[pc]

\* Neither of two fused instructions is one that waits, nor is what becomes of them.
LEMMA FusingWaits ==
    ASSUME NEW M, NEW N, NEW K, NEW n, NEW P, NEW facts, Fusing(M, N, K, n, P, facts)
    PROVE  SameWaits(M, N) /\ SameWaits(M, K)
<1> DEFINE f == M[n]
<1>1. /\ Nop.op \notin Waits /\ "jmp" \notin Waits
      /\ \A i, j : Fusible(i, j) => i.op \notin Waits /\ j.op \notin Waits /\ Fused(i, j).op \notin Waits
  <2>1. Nop.op \notin Waits /\ "jmp" \notin Waits
    BY DEF Waits, Nop, Inst
  <2>2. ASSUME NEW i, NEW j, Fusible(i, j)
        PROVE  i.op \notin Waits /\ j.op \notin Waits /\ Fused(i, j).op \notin Waits
    <3>1. CASE i.op = "add"
      BY <2>2, <3>1 DEF Fusible, Fused, Inst, Waits, Immediate
    <3>2. CASE i.op \in Immediate
      BY <2>2, <3>2 DEF Fusible, Fused, Inst, Waits, Immediate
    <3> QED
      BY <2>2, <3>1, <3>2 DEF Fusible
  <2> QED
    BY <2>1, <2>2
<1>2. ASSUME NEW pc \in DOMAIN f.code
      PROVE  LET i == f.code[pc]
                 j == N[n].code[pc]
                 k == K[n].code[pc]
             IN  /\ (i.op \in Waits <=> j.op \in Waits) /\ (i.op \in Waits => j.a = i.a)
                 /\ (i.op \in Waits <=> k.op \in Waits) /\ (i.op \in Waits => k.a = i.a)
  <2>1. CASE pc \in P
    <3>1. /\ Fusible(f.code[pc], f.code[pc + 1]) /\ N[n].code[pc] = Fused(f.code[pc], f.code[pc + 1])
          /\ K[n].code[pc].op = "jmp"
      BY <2>1 DEF Fusing
    <3> QED
      BY <1>1, <3>1
  <2>2. CASE pc \notin P /\ pc - 1 \in P
    <3>1. (pc - 1) + 1 = pc
      <4>1. IsFunction(f)
        BY DEF Fusing, IsModule
      <4> QED
        BY <4>1, SequenceDomain DEF IsFunction
    <3>2. Fusible(f.code[pc - 1], f.code[pc]) /\ N[n].code[pc] = Nop /\ K[n].code[pc] = f.code[pc]
      BY <2>2, <3>1 DEF Fusing
    <3> QED
      BY <1>1, <3>2
  <2>3. CASE pc \notin P /\ pc - 1 \notin P
    BY <2>3 DEF Fusing
  <2> QED
    BY <2>1, <2>2, <2>3
<1>3. \A k \in DOMAIN M \ {n} : N[k] = M[k] /\ K[k] = M[k]
  BY DEF Fusing
<1> QED
  BY <1>2, <1>3 DEF SameWaits

\* The running activation is placed where the facts allow it.
LEMMA PlacedTracked ==
    ASSUME NEW K, NEW facts, NEW m, Tracked(K, facts, m), m.how = "runs",
           NEW a, a = Last(m.stack), NEW regs \in Files(K[a.function]), NEW pc,
           pc \in DOMAIN K[a.function].code => regs \in facts[a.function][pc]
    PROVE  Tracked(K, facts, Placed(m, regs, pc))
<1> DEFINE flag == m.mixed \/ FALSE
           m2 == [m EXCEPT !.mixed = flag]
           b == [a EXCEPT !.regs = regs, !.pc = pc]
<1>1. Sound(K, m) /\ AllGood(K, facts, m) /\ MachineRecord(m)
  BY DEF Tracked, Sound, Inside
<1>2. FitsFunction(K, a) /\ a = m.stack[Len(m.stack)] /\ Len(m.stack) \in DOMAIN m.stack
  <2>1. FitsFunction(K, a) /\ Len(m.stack) \in DOMAIN m.stack
    BY <1>1, RunningTop
  <2> QED
    BY <2>1 DEF Last
<1>3. Good(K, facts, Len(m.closures), a)
  BY <1>1, <1>2 DEF AllGood
<1>4. /\ m2.how = "runs" /\ m2.stack = m.stack /\ m2.closures = m.closures /\ m2.calls = m.calls
      /\ MachineRecord(m2)
  <2> HIDE DEF flag
  <2> QED
    BY <1>1 DEF MachineRecord
<1> HIDE DEF m2
<1>5. Sound(K, m2) /\ AllGood(K, facts, m2)
  BY <1>1, <1>4 DEF Sound, Inside, AllGood
<1>6. Good(K, facts, Len(m2.closures), b)
  <2>1. /\ b \in [function : {a.function}, pc : {pc}, tries : {a.tries}, closure : {a.closure},
                  regs : {regs}, rest : {a.rest}]
    BY <1>2 DEF FitsFunction
  <2>2. regs = [r \in 0..K[a.function].regs - 1 |-> regs[r]]
    BY DEF Files, Registers
  <2> HIDE DEF b
  <2>3. FitsFunction(K, b)
    BY <1>2, <2>1, <2>2 DEF FitsFunction
  <2> QED
    BY <1>3, <1>4, <2>1, <2>3 DEF Good
<1> HIDE DEF b
<1>7. Tracked(K, facts, Now(m2, b))
  BY <1>4, <1>5, <1>6, NowTracked
<1> QED
  BY <1>7 DEF Placed, m2, b, flag

\* What is known at the first of two instructions that are fused.
LEMMA FusedPlace ==
    ASSUME NEW M, NEW N, NEW K, NEW n, NEW P, NEW facts, Fusing(M, N, K, n, P, facts),
           NEW pc \in P, NEW regs \in Files(M[n]),
           NEW i, i = M[n].code[pc], NEW j, j = M[n].code[pc + 1], ~Mixes(i, regs)
    PROVE  LET k == Fused(i, j)
               R == Computed(i, regs)
           IN  /\ i.op \notin Controls /\ j.op \notin Controls /\ k.op \notin Controls
               /\ i.op # "div" /\ j.op # "div" /\ k.op # "div"
               /\ Ahead(i, regs) = 1
               /\ ~Mixes(j, R) /\ ~Mixes(k, regs)
               /\ Computed(k, regs) = Computed(j, R)
               /\ Jumps(k, Computed(j, R)) <=> Jumps(j, Computed(j, R))
               /\ Delta(k) = Delta(j) + 1
               /\ R \in Files(M[n]) /\ Computed(j, R) \in Files(M[n])
<1> DEFINE f == M[n]
<1>1. /\ pc \in DOMAIN f.code /\ pc + 1 \in DOMAIN f.code /\ Fusible(i, j) /\ (i.op = "add" => i.a # i.c)
      /\ IsModule(M) /\ Verifies(M) /\ n \in DOMAIN M
  BY DEF Fusing
<1>2. IsInst(i) /\ IsInst(j)
  BY <1>1 DEF IsModule, IsFunction
<1>3. Sized(f) /\ AcceptsCode(M, f, f.code)
  BY <1>1, VerifiedIsAccepted DEF Accepted, FunctionRecord, Sized
<1>4. Fits(M, f, Len(f.code), pc, i)
  <2> HIDE DEF f
  <2> QED
    BY <1>1, <1>3, CodeFits DEF f
<1>5. \A field \in RegisterFields(i.op) : i[field] \in Registers(f)
  BY <1>3, <1>4, NamedRegisters DEF Registers
<1>6. /\ \A r \in {i.a, i.b} : r \in Registers(f)
      /\ i.op = "add" => i.c \in Registers(f)
      /\ i.op \in Immediate => i.c \in Int
  <2>1. i.op \in Immediate => i.c \in Int
    BY <1>4 DEF Fits, IsInst, Operands
  <2>2. i.op = "add" => RegisterFields(i.op) = {"a", "b", "c"}
    BY FieldNames DEF Binary
  <2>3. i.op \in Immediate => RegisterFields(i.op) = {"a", "b"}
    BY FieldNames
  <2> QED
    BY <1>1, <1>5, <2>1, <2>2, <2>3 DEF Fusible
<1> HIDE DEF f
<1> QED
  BY <1>1, <1>2, <1>3, <1>6, FusedComputes DEF f

\* Behind them nothing is claimed of the registers.
LEMMA BehindFused ==
    ASSUME NEW M, NEW N, NEW K, NEW n, NEW P, NEW facts, Fusing(M, N, K, n, P, facts),
           NEW pc \in P, NEW regs \in Files(M[n]), NEW j, j = M[n].code[pc + 1], NEW R,
           NEW t, t = pc + 1 + Ahead(j, R), t \in DOMAIN K[n].code
    PROVE  regs \in facts[n][t]
<1> DEFINE code == M[n].code
<1>1. /\ pc \in DOMAIN code /\ pc + 1 \in DOMAIN code /\ pc + 1 \notin Labels(code)
      /\ Fusible(code[pc], j) /\ DOMAIN K[n].code = DOMAIN code /\ K[n].regs = M[n].regs
      /\ \A q \in P : q + 1 \notin Labels(code) /\ Fusible(code[q], code[q + 1]) /\ q \in DOMAIN code
  BY DEF Fusing, SameShape
<1>2. DOMAIN code \subseteq Nat \ {0}
  <2>1. IsFunction(M[n])
    BY DEF Fusing, IsModule
  <2> QED
    BY <2>1, SequenceDomain DEF IsFunction
<1>3. t - 1 \notin P
  <2> SUFFICES ASSUME t - 1 \in P PROVE FALSE
    OBVIOUS
  <2>1. CASE Jumps(j, Computed(j, R))
    <3>1. j.op \in Relative
      BY <2>1 DEF Jumps, Relative, FusedImm, Conditional
    <3>2. t = JumpTarget(code, pc + 1)
      BY <2>1 DEF Ahead, JumpTarget
    <3>3. t \in Labels(code)
      BY <1>1, <3>1, <3>2 DEF Labels
    <3>4. (t - 1) + 1 = t
      BY <1>1, <1>2
    <3> QED
      BY <1>1, <3>3, <3>4
  <2>2. CASE ~Jumps(j, Computed(j, R))
    <3>1. t = pc + 1 + 1
      BY <2>2 DEF Ahead
    <3>2. t - 1 = pc + 1
      BY <1>1, <1>2, <3>1
    <3>3. Fusible(j, code[pc + 1 + 1])
      BY <1>1, <3>2
    <3> QED
      BY <1>1, <3>3 DEF Fusible, Immediate
  <2> QED
    BY <2>1, <2>2
<1>4. Files(K[n]) = Files(M[n])
  BY <1>1 DEF Files, Registers
<1>5. facts[n] = Skipping(K[n], {q \in Int : q - 1 \in P})
  BY DEF Fusing
<1> QED
  BY <1>3, <1>4, <1>5 DEF Skipping

\* At two instructions that are fused.
LEMMA FusedAdvances ==
    ASSUME NEW M, NEW N, NEW K, NEW n, NEW P, NEW facts, Fusing(M, N, K, n, P, facts),
           NEW m, Tracked(K, facts, m), m.how = "runs",
           NEW a, a = Last(m.stack), a.function = n, a.pc \in P
    PROVE  Advances(M, N, K, facts, m)
<1> DEFINE pc == a.pc
           regs == a.regs
           i == M[n].code[pc]
           j == M[n].code[pc + 1]
           k == Fused(i, j)
           R == Computed(i, regs)
           S == Computed(j, R)
           t == pc + 1 + Ahead(j, R)
           m1 == Placed(m, R, pc + 1)
           m2 == Placed(m, S, t)
           n1 == Placed(m, S, pc + 1)
<1>1. /\ IsModule(M) /\ Verifies(M) /\ IsModule(N) /\ Verifies(N) /\ SameShape(K, M) /\ SameShape(K, N)
      /\ n \in DOMAIN M /\ pc \in DOMAIN M[n].code /\ pc + 1 \in DOMAIN M[n].code
      /\ N[n].code[pc] = k /\ N[n].code[pc + 1] = Nop
      /\ DOMAIN N[n].code = DOMAIN M[n].code
      /\ M[n].regs = K[n].regs /\ N[n].regs = K[n].regs
  BY DEF Fusing, SameShape
<1>2. Sound(K, m) /\ AllGood(K, facts, m) /\ Sound(M, m) /\ Sound(N, m)
  BY <1>1, SoundAnyCode DEF Tracked
<1>3. FitsFunction(K, a) /\ regs \in Files(K[n]) /\ Files(K[n]) = Files(M[n]) /\ n \in DOMAIN K
  <2>1. FitsFunction(K, a) /\ Len(m.stack) \in DOMAIN m.stack /\ a = m.stack[Len(m.stack)]
    BY <1>2, RunningTop DEF Last
  <2> QED
    BY <1>1, <1>2, <2>1 DEF AllGood, Good, Files, Registers, FitsFunction
<1>4. InstOf(M, a) = i /\ InstOf(N, a) = k
  BY <1>1 DEF InstOf
<1>5. CASE Mixes(i, regs)
  <2>1. Step(M, m) = Does(M, [m EXCEPT !.mixed = m.mixed \/ Mixes(i, regs)], a, i)
    BY <1>1, <1>2, <1>4, StepDoes
  <2>2. [m EXCEPT !.mixed = m.mixed \/ Mixes(i, regs)] = [m EXCEPT !.mixed = TRUE]
    BY <1>5
  <2> HIDE DEF i
  <2> DEFINE p == [m EXCEPT !.mixed = TRUE]
  <2>3. MachineRecord(p) /\ p.mixed = TRUE
    BY <1>2 DEF Sound, Inside, MachineRecord
  <2> HIDE DEF p
  <2>4. Does(M, p, a, i).mixed = p.mixed
    BY <2>3, DoesMixed
  <2>6. Step(M, m) = Does(M, p, a, i)
    BY <2>1, <2>2 DEF p
  <2>5. Step(M, m).mixed
    BY <2>3, <2>4, <2>6
  <2> QED
    BY <2>5, AdvancesMixed
<1>6. CASE ~Mixes(i, regs)
  <2>1. /\ i.op \notin Controls /\ j.op \notin Controls /\ k.op \notin Controls
        /\ i.op # "div" /\ j.op # "div" /\ k.op # "div"
        /\ Ahead(i, regs) = 1
        /\ ~Mixes(j, R) /\ ~Mixes(k, regs)
        /\ Computed(k, regs) = S
        /\ Jumps(k, S) <=> Jumps(j, S)
        /\ Delta(k) = Delta(j) + 1
        /\ R \in Files(M[n]) /\ S \in Files(M[n])
    BY <1>3, <1>6, FusedPlace
  <2>2. OnDomain(0..M[n].regs - 1, R) /\ OnDomain(0..M[n].regs - 1, S)
    BY <2>1 DEF OnDomain, Files, Registers
  <2>3. ~DividesByZero(i, regs) /\ ~DividesByZero(j, R) /\ ~DividesByZero(k, regs)
    BY <2>1 DEF DividesByZero
  <2>15. Ahead(k, regs) = IF Jumps(j, S) THEN Delta(j) + 1 ELSE 1
    BY <2>1 DEF Ahead
  <2>16. Ahead(j, R) = IF Jumps(j, S) THEN Delta(j) ELSE 1
    BY DEF Ahead
  <2>17. (pc \in Nat /\ Delta(j) \in Int) \/ ~Jumps(j, S)
    <3>1. IsFunction(M[n]) /\ IsInst(j)
      BY <1>1 DEF IsModule, IsFunction
    <3>2. Jumps(j, S) => j.op \in Relative
      BY DEF Jumps, Relative, FusedImm, Conditional
    <3>3. pc \in Nat
      BY <1>1, <3>1, SequenceDomain DEF IsFunction
    <3>4. j.op \in Relative => Delta(j) \in Int
      <4> HIDE DEF j
      <4> QED
        BY <3>1 DEF IsInst, Operands
    <3> QED
      BY <3>2, <3>3, <3>4
  <2>18. pc \in Nat
    <3>1. IsFunction(M[n])
      BY <1>1 DEF IsModule
    <3> QED
      BY <1>1, <3>1, SequenceDomain DEF IsFunction
  <2>19. /\ t = IF Jumps(j, S) THEN pc + Ahead(k, regs) ELSE pc + 1 + 1
         /\ ~Jumps(j, S) => Ahead(k, regs) = 1
    <3> DEFINE d == Delta(j)
               jumps == Jumps(j, S)
    <3>1. /\ Ahead(k, regs) = (IF jumps THEN d + 1 ELSE 1) /\ Ahead(j, R) = (IF jumps THEN d ELSE 1)
          /\ d \in Int \/ ~jumps
      BY <2>15, <2>16, <2>17
    <3> HIDE DEF d, jumps, pc, i, j, k, R, S
    <3>2. t = IF jumps THEN pc + Ahead(k, regs) ELSE pc + 1 + 1
      BY <2>18, <3>1
    <3> QED
      BY <3>1, <3>2 DEF jumps
  <2> HIDE DEF i, j, k, R, S, t
  <2>4. Step(M, m) = m1
    <3>1. Step(M, m) = Placed(m, Computed(i, a.regs), a.pc + Ahead(i, a.regs))
      <4>1. /\ IsModule(M) /\ Verifies(M) /\ Sound(M, m) /\ a.pc \in DOMAIN M[a.function].code
            /\ i = InstOf(M, a) /\ i.op \notin Controls /\ ~DividesByZero(i, a.regs) /\ ~Mixes(i, a.regs)
        BY <1>1, <1>2, <1>4, <1>6, <2>1, <2>3
      <4> QED
        BY <4>1, PlainStep
    <3> QED
      BY <2>1, <3>1 DEF R
  <2>5. /\ Sound(M, m1) /\ m1.how = "runs"
        /\ Last(m1.stack).function = n /\ Last(m1.stack).regs = R /\ Last(m1.stack).pc = pc + 1
        /\ \A r, p : Placed(m1, r, p) = Placed(m, r, p)
    BY <1>2, <2>2, PlacedIs
  <2> HIDE DEF m1
  <2> DEFINE b == Last(m1.stack)
  <2>6. InstOf(M, b) = j
    BY <2>5 DEF InstOf, j
  <2>7. Step(M, m1) = Placed(m1, Computed(j, b.regs), b.pc + Ahead(j, b.regs))
    <3>1. b.pc \in DOMAIN M[b.function].code
      BY <1>1, <2>5
    <3>2. ~DividesByZero(j, b.regs) /\ ~Mixes(j, b.regs)
      BY <2>1, <2>3, <2>5
    <3> HIDE DEF b
    <3> QED
      BY <1>1, <2>1, <2>5, <2>6, <3>1, <3>2, PlainStep DEF b
  <2>8. Step(M, m1) = m2
    BY <2>5, <2>7 DEF S, t
  <2>9. Step(N, m) = Placed(m, S, pc + Ahead(k, regs))
    BY <1>1, <1>2, <1>4, <2>1, <2>3, PlainStep
  <2>10. Tracked(K, facts, m2)
    <3>1. t \in DOMAIN K[n].code => S \in facts[n][t]
      BY <2>1, BehindFused DEF t, j
    <3>2. S \in Files(K[n])
      BY <1>3, <2>1
    <3> QED
      BY <3>1, <3>2, PlacedTracked
  <2>11. CASE Jumps(j, S)
    <3>1. Step(N, m) = m2
      BY <2>9, <2>11, <2>19
    <3> QED
      BY <2>4, <2>5, <2>8, <2>10, <3>1, AdvancesTwice
  <2>12. CASE ~Jumps(j, S)
    <3>1. Step(N, m) = n1
      BY <2>9, <2>12, <2>19
    <3>2. /\ Sound(N, n1) /\ n1.how = "runs"
          /\ Last(n1.stack).function = n /\ Last(n1.stack).regs = S /\ Last(n1.stack).pc = pc + 1
          /\ \A r, p : Placed(n1, r, p) = Placed(m, r, p)
      BY <1>1, <1>2, <2>2, PlacedIs
    <3> HIDE DEF n1
    <3> DEFINE c == Last(n1.stack)
    <3>3. InstOf(N, c) = Nop
      BY <1>1, <3>2 DEF InstOf
    <3>4. /\ Nop.op \notin Controls /\ ~DividesByZero(Nop, c.regs) /\ ~Mixes(Nop, c.regs)
          /\ Computed(Nop, c.regs) = c.regs /\ Ahead(Nop, c.regs) = 1
      BY DEF Nop, Inst, Controls, Tries, Calls, ClosureCalls, Upvalues, DividesByZero, Mixes, IntegerReads,
             Computed, Ahead, Jumps, Binary, Immediate, Step1, FusedImm
    <3>5. c.pc \in DOMAIN N[c.function].code
      BY <1>1, <3>2
    <3>6. Step(N, n1) = Placed(n1, c.regs, c.pc + 1)
      <4> HIDE DEF c
      <4>1. Step(N, n1) = Placed(n1, Computed(Nop, c.regs), c.pc + Ahead(Nop, c.regs))
        BY <1>1, <3>2, <3>3, <3>4, <3>5, PlainStep DEF c
      <4> QED
        BY <3>4, <4>1
    <3>7. Step(N, n1) = m2
      BY <2>12, <2>19, <3>2, <3>6
    <3> QED
      BY <2>4, <2>5, <2>8, <2>10, <3>1, <3>2, <3>7, AdvancesTwice
  <2> QED
    BY <2>11, <2>12
<1> QED
  BY <1>5, <1>6

\* Where one module has one instruction for two of the other, they advance together.
LEMMA FusionAdvances ==
    ASSUME NEW M, NEW N, NEW K, NEW n, NEW P, NEW facts, Fusing(M, N, K, n, P, facts)
    PROVE  Advance(M, N, K, facts)
<1> SUFFICES ASSUME NEW m, Tracked(K, facts, m), m.how = "runs"
             PROVE  Advances(M, N, K, facts, m)
  BY DEF Advance
<1> DEFINE a == Last(m.stack)
<1>1. /\ IsModule(M) /\ Verifies(M) /\ IsModule(N) /\ Verifies(N) /\ IsModule(K) /\ Verifies(K)
      /\ SameShape(M, N) /\ SameShape(M, K) /\ SameShape(K, M) /\ FactsHold(K, facts)
  BY DEF Fusing
<1>2. Sound(K, m) /\ AllGood(K, facts, m) /\ Sound(M, m)
  BY <1>1, SoundAnyCode DEF Tracked
<1>3. /\ Len(m.stack) \in Nat \ {0} /\ DOMAIN m.stack = 1..Len(m.stack) /\ FitsFunction(K, a)
      /\ a = m.stack[Len(m.stack)] /\ Good(K, facts, Len(m.closures), a)
  <2>1. Len(m.stack) \in Nat \ {0} /\ DOMAIN m.stack = 1..Len(m.stack) /\ FitsFunction(K, a)
    BY <1>2, RunningTop
  <2>2. a = m.stack[Len(m.stack)]
    BY DEF Last
  <2> HIDE DEF a
  <2>3. Good(K, facts, Len(m.closures), a)
    BY <1>2, <2>1, <2>2 DEF AllGood
  <2> QED
    BY <2>1, <2>2, <2>3
<1>4. \A k \in DOMAIN K : DOMAIN K[k].code = DOMAIN M[k].code
  BY <1>1 DEF SameShape
<1>5. a.function \in DOMAIN K /\ DOMAIN K[a.function].code = DOMAIN M[a.function].code
  <2> HIDE DEF a
  <2> QED
    BY <1>3, <1>4 DEF FitsFunction
<1>6. CASE a.pc \notin DOMAIN M[a.function].code
  <2>1. Step(M, m) = Stopped(m, "status", Null) /\ Step(N, m) = Stopped(m, "status", Null)
    BY <1>1, <1>2, <1>6, SameBehind
  <2>2. Stopped(m, "status", Null).how = "status"
    BY <1>2 DEF Stopped, Sound, Inside, MachineRecord
  <2> QED
    BY <2>1, <2>2, AdvancesOnce
<1>7. CASE a.pc \in DOMAIN M[a.function].code
  <2>1. CASE a.function = n /\ a.pc \in P
    <3> HIDE DEF a
    <3> QED
      BY <2>1, FusedAdvances DEF a
  <2>2. CASE ~(a.function = n /\ a.pc \in P)
    <3>1. a.function = n => a.pc - 1 \notin P
      <4> SUFFICES ASSUME a.function = n, a.pc - 1 \in P PROVE FALSE
        OBVIOUS
      <4>1. facts[n] = Skipping(K[n], {pc \in Int : pc - 1 \in P})
        BY DEF Fusing
      <4>2. a.pc \in Int
        <5>1. IsFunction(M[n])
          BY <1>1 DEF Fusing, IsModule
        <5> HIDE DEF a
        <5> QED
          BY <1>7, <5>1, SequenceDomain DEF IsFunction
      <4>3. a.regs \in facts[n][a.pc]
        <5> HIDE DEF a
        <5> QED
          BY <1>3, <1>5, <1>7 DEF Good
      <4> HIDE DEF a
      <4> QED
        BY <1>5, <1>7, <4>1, <4>2, <4>3 DEF Skipping
    <3>2. InstOf(N, a) = InstOf(M, a) /\ InstOf(K, a) = InstOf(M, a)
      <4>1. a.function \in DOMAIN M
        BY <1>1, <1>5 DEF SameShape
      <4> HIDE DEF a
      <4> QED
        BY <1>7, <2>2, <3>1, <4>1 DEF Fusing, InstOf
    <3>3. \A k \in 1..Len(m.stack) - 1 : m.stack[k].pc \in DOMAIN M[m.stack[k].function].code
      <4>1. ASSUME NEW k \in 1..Len(m.stack) - 1 PROVE m.stack[k].pc \in DOMAIN M[m.stack[k].function].code
        <5>1. k \in DOMAIN m.stack
          BY <1>3
        <5>2. m.stack[k].function \in DOMAIN K /\ m.stack[k].pc \in DOMAIN K[m.stack[k].function].code
          BY <1>2, <5>1 DEF AllGood, Good, FitsFunction
        <5> QED
          BY <1>4, <5>2
      <4> QED
        BY <4>1
    <3> HIDE DEF a
    <3>4. SameWaits(M, N) /\ SameWaits(M, K)
      BY FusingWaits
    <3>5. Step(N, m) = Step(M, m)
      BY <1>1, <1>2, <1>7, <3>2, <3>3, <3>4, SameStepHere DEF a
    <3>6. Step(K, m) = Step(M, m)
      BY <1>1, <1>2, <1>7, <3>2, <3>3, <3>4, SameStepHere DEF a
    <3>7. Step(K, m).mixed \/ Tracked(K, facts, Step(K, m))
      BY <1>1, TrackedStep
    <3> QED
      BY <3>5, <3>6, <3>7, AdvancesOnce
  <2> QED
    BY <2>1, <2>2
<1> QED
  BY <1>6, <1>7

\* What loop fusion makes of the code.
LEMMA LoopFusionAt ==
    ASSUME NEW code, IsSequence(code), NEW P, P = Pairs(code, Fusible)
    PROVE  /\ DOMAIN LoopFusion(code) = DOMAIN code
           /\ P \subseteq DOMAIN code
           /\ \A pc \in P : /\ pc + 1 \in DOMAIN code /\ Fusible(code[pc], code[pc + 1]) /\ pc + 1 \notin P
                            /\ LoopFusion(code)[pc] = Fused(code[pc], code[pc + 1])
                            /\ LoopFusion(code)[pc + 1] = Nop
           /\ \A pc \in DOMAIN code : pc \in P \/ pc - 1 \in P \/ LoopFusion(code)[pc] = code[pc]
<1> DEFINE new == LoopFusion(code)
           first(pc) == pc \in DOMAIN code /\ pc + 1 \in DOMAIN code
                          /\ Fusible(code[pc], code[pc + 1])
<1>1. new = [pc \in DOMAIN code |->
              CASE first(pc) -> Fused(code[pc], code[pc + 1]) [] first(pc - 1) -> Nop [] OTHER -> code[pc]]
  BY DEF LoopFusion, Paired
<1> HIDE DEF new
<1>2. \A pc : first(pc) <=> pc \in P
  BY DEF Pairs
<1>3. \A pc \in DOMAIN code : pc \in Int /\ (pc - 1) + 1 = pc /\ (pc + 1) - 1 = pc
  BY SequenceDomain
<1>4. \A pc \in DOMAIN code : pc - 1 \in P => pc \notin P
  BY <1>2, <1>3 DEF Fusible, Immediate
<1>5. P \subseteq DOMAIN code /\ \A pc \in P : pc + 1 \in DOMAIN code /\ Fusible(code[pc], code[pc + 1])
  BY DEF Pairs
<1>6. \A pc \in DOMAIN code : new[pc] = CASE pc \in P -> Fused(code[pc], code[pc + 1]) [] pc - 1 \in P -> Nop [] OTHER -> code[pc]
  BY <1>1, <1>2
<1>7. /\ DOMAIN new = DOMAIN code
      /\ \A pc \in P : pc + 1 \notin P /\ new[pc] = Fused(code[pc], code[pc + 1]) /\ new[pc + 1] = Nop
      /\ \A pc \in DOMAIN code : pc \in P \/ pc - 1 \in P \/ new[pc] = code[pc]
  <2>1. DOMAIN new = DOMAIN code
    BY <1>1
  <2>2. \A pc \in P : new[pc] = Fused(code[pc], code[pc + 1])
    BY <1>4, <1>5, <1>6
  <2>3. \A pc \in DOMAIN code : pc - 1 \in P => new[pc] = Nop
    BY <1>4, <1>6
  <2>4. ASSUME NEW pc \in DOMAIN code, pc \notin P, pc - 1 \notin P PROVE new[pc] = code[pc]
    BY <1>6, <2>4
  <2>5. \A pc \in P : pc + 1 \notin P /\ new[pc + 1] = Nop
    <3>1. \A pc \in P : (pc + 1) - 1 = pc /\ pc + 1 \in DOMAIN code
      BY <1>3, <1>5
    <3> QED
      BY <1>4, <2>3, <3>1
  <2> QED
    BY <2>1, <2>2, <2>4, <2>5
<1> QED
  BY <1>5, <1>7 DEF new

\* A module that stops at places to which no jump leads: jumps to themselves.
Waiting(code, P) == [pc \in DOMAIN code |-> IF pc \in P THEN Inst("jmp", 0, 0, 0) ELSE code[pc]]

\* Such code is accepted, and has no other labels than before and those places.
LEMMA WaitingIs ==
    ASSUME NEW M, NEW f, Sized(f), NEW code, AcceptsCode(M, f, code), NEW P \in SUBSET DOMAIN code
    PROVE  /\ AcceptsCode(M, f, Waiting(code, P)) /\ DOMAIN Waiting(code, P) = DOMAIN code
           /\ \A pc \in P : Waiting(code, P)[pc].op = "jmp"
           /\ \A pc \in DOMAIN code : pc \in P \/ Waiting(code, P)[pc] = code[pc]
           /\ Labels(Waiting(code, P)) \subseteq Labels(code) \union P
<1> DEFINE new == Waiting(code, P)
           stay == Inst("jmp", 0, 0, 0)
<1>1. /\ OnDomain(DOMAIN code, new) /\ DOMAIN new = DOMAIN code
      /\ \A pc \in P : new[pc] = stay
      /\ \A pc \in DOMAIN code : pc \in P \/ new[pc] = code[pc]
  BY DEF Waiting, OnDomain
<1> HIDE DEF new
<1>2. DOMAIN code = 1..Len(code) /\ Len(code) \in Nat
  BY SequenceDomain DEF AcceptsCode
<1>3. stay.op = "jmp" /\ Delta(stay) = 0
  BY DEF Inst, Delta, DeltaField
<1>4. ASSUME NEW pc \in 1..Len(code) PROVE Fits(M, f, Len(code), pc, new[pc])
  <2>1. Fits(M, f, Len(code), pc, code[pc])
    BY DEF AcceptsCode
  <2>2. Fits(M, f, Len(code), pc, stay)
    <3>1. 0 \in Int /\ pc + 0 \in 1..Len(code)
      BY <1>2
    <3>2. \A d \in Int : pc + d \in 1..Len(code) => Fits(M, f, Len(code), pc, Inst("jmp", d, 0, 0))
      BY NewFits
    <3> QED
      BY <3>1, <3>2
  <2> QED
    BY <1>1, <1>2, <2>1, <2>2
<1>5. AcceptsCode(M, f, new)
  BY <1>1, <1>4, Rewritten
<1>6. Labels(new) \subseteq Labels(code) \union P
  <2>1. \A pc \in DOMAIN new : new[pc].op \in Relative =>
           JumpTarget(new, pc) \in Labels(code) \union P \/ JumpTarget(new, pc) \notin DOMAIN code
    <3>1. \A pc \in P : JumpTarget(new, pc) = pc
      BY <1>1, <1>2, <1>3 DEF JumpTarget
    <3>2. \A pc \in DOMAIN code : pc \notin P => JumpTarget(new, pc) = JumpTarget(code, pc)
      BY <1>1 DEF JumpTarget
    <3> QED
      BY <1>1, <3>1, <3>2 DEF Labels
  <2>2. \A pc \in DOMAIN new : new[pc].op = "try_begin" =>
          \A x \in TryTargets(new[pc]) : x \in Labels(code) \/ x \notin DOMAIN code
    <3> HIDE DEF stay
    <3> QED
      BY <1>1, <1>3 DEF Labels
  <2> QED
    BY <1>1, <2>1, <2>2 DEF Labels
<1>7. \A pc \in P : new[pc].op = "jmp"
  BY <1>1, <1>3
<1> QED
  BY <1>1, <1>5, <1>6, <1>7 DEF new

\* Where no jump leads between the two instructions, loop fusion keeps what the module does.
LEMMA FusionEnds ==
    ASSUME NEW M, IsModule(M), Verifies(M), NEW n \in DOMAIN M, KeepsFusion(M[n].code)
    PROVE  SameEnds(M, [M EXCEPT ![n].code = LoopFusion(M[n].code)])
<1> DEFINE f == M[n]
           code == f.code
           new == LoopFusion(code)
           P == Pairs(code, Fusible)
           S == {pc \in Int : pc - 1 \in P}
           still == Waiting(code, P)
           N == [M EXCEPT ![n].code = new]
           K == [M EXCEPT ![n].code = still]
           g == K[n]
<1>1. Sized(f) /\ AcceptsCode(M, f, code) /\ IsSequence(code)
  BY VerifiedIsAccepted DEF Accepted, FunctionRecord, Sized, AcceptsCode
<1>2. /\ DOMAIN new = DOMAIN code /\ P \subseteq DOMAIN code
      /\ \A pc \in P : /\ pc + 1 \in DOMAIN code /\ Fusible(code[pc], code[pc + 1]) /\ pc + 1 \notin P
                       /\ new[pc] = Fused(code[pc], code[pc + 1])
                       /\ new[pc + 1] = Nop
      /\ \A pc \in DOMAIN code : pc \in P \/ pc - 1 \in P \/ new[pc] = code[pc]
  <2> HIDE DEF code
  <2> QED
    BY <1>1, LoopFusionAt
<1>3. AcceptsCode(M, f, new)
  BY <1>1, LoopFusionKeeps
<1>4. \A pc \in P : pc + 1 \notin Labels(code) /\ (code[pc].op = "add" => code[pc].a # code[pc].c)
  BY DEF KeepsFusion
<1>5. DOMAIN code \subseteq Nat \ {0}
  BY <1>1, SequenceDomain
<1> HIDE DEF P, new, code
<1>6. /\ AcceptsCode(M, f, still) /\ DOMAIN still = DOMAIN code
      /\ \A pc \in P : still[pc].op = "jmp"
      /\ \A pc \in DOMAIN code : pc \in P \/ still[pc] = code[pc]
      /\ Labels(still) \subseteq Labels(code) \union P
  BY <1>1, <1>2, WaitingIs
<1> HIDE DEF still
<1>7. Replaces(M, n, new, N) /\ Replaces(M, n, still, K)
  <2> HIDE DEF N, K
  <2>1. DOMAIN new = DOMAIN M[n].code /\ DOMAIN still = DOMAIN M[n].code
    BY <1>2, <1>6 DEF code
  <2> QED
    BY <1>3, <1>6, <2>1, OneReplaced DEF N, K
<1> HIDE DEF N, K
<1>8. /\ IsModule(N) /\ Verifies(N) /\ SameShape(M, N) /\ IsModule(K) /\ Verifies(K) /\ SameShape(M, K)
      /\ n \in DOMAIN K /\ N[n].code = new /\ g.code = still
      /\ \A k \in DOMAIN M \ {n} : N[k] = M[k] /\ K[k] = M[k]
  BY <1>7 DEF Replaces, SameShape
<1>9. Holds(g, Skipping(g, S))
  <2>1. Sized(g) /\ AcceptsCode(K, g, g.code)
    BY <1>8, VerifiedIsAccepted DEF Accepted, FunctionRecord, Sized
  <2>2. 1 \notin S
    BY <1>2, <1>5
  <2>3. S \intersect Labels(g.code) = {}
    <3>1. ASSUME NEW pc \in S PROVE pc \notin Labels(code) \union P
      <4>1. pc - 1 \in P /\ (pc - 1) + 1 = pc
        OBVIOUS
      <4> QED
        BY <1>2, <1>4, <4>1
    <3> QED
      BY <1>6, <1>8, <3>1
  <2>4. ASSUME NEW pc \in DOMAIN g.code, pc + 1 \in S PROVE g.code[pc].op \in Terminators \union {"jmp"}
    <3>1. (pc + 1) - 1 = pc /\ (pc + 1) - 1 \in P
      BY <1>5, <1>6, <1>8, <2>4
    <3> QED
      BY <1>6, <1>8, <3>1
  <2> HIDE DEF S, g
  <2> QED
    BY <2>1, <2>2, <2>3, <2>4, SkippingHolds
<1> DEFINE facts == FactsOf(K, n, Skipping(g, S))
<1>10. FactsHold(K, facts)
  BY <1>8, <1>9, FactsOfHold
<1>11. facts[n] = Skipping(K[n], {pc \in Int : pc - 1 \in P})
  BY <1>8 DEF FactsOf
<1> HIDE DEF facts
<1>12. Fusing(M, N, K, n, P, facts)
  <2>1. SameShape(K, M) /\ SameShape(K, N)
    BY <1>8 DEF SameShape
  <2>2. P \subseteq DOMAIN M[n].code
    BY <1>2 DEF code
  <2>3. \A pc \in P :
          /\ pc + 1 \in DOMAIN M[n].code /\ pc + 1 \notin Labels(M[n].code)
          /\ Fusible(M[n].code[pc], M[n].code[pc + 1])
          /\ M[n].code[pc].op = "add" => M[n].code[pc].a # M[n].code[pc].c
          /\ N[n].code[pc] = Fused(M[n].code[pc], M[n].code[pc + 1])
          /\ N[n].code[pc + 1] = Nop
          /\ K[n].code[pc].op = "jmp"
    BY <1>2, <1>4, <1>6, <1>8 DEF code
  <2>4. /\ \A pc \in DOMAIN M[n].code : pc \in P \/ pc - 1 \in P \/ N[n].code[pc] = M[n].code[pc]
        /\ \A pc \in DOMAIN M[n].code : pc \in P \/ K[n].code[pc] = M[n].code[pc]
    BY <1>2, <1>6, <1>8 DEF code
  <2> QED
    BY <1>8, <1>10, <1>11, <2>1, <2>2, <2>3, <2>4 DEF Fusing
<1>13. Advance(M, N, K, facts)
  BY <1>12, FusionAdvances
<1>14. SameEnds(M, N)
  <2>1. SameShape(K, M) /\ SameShape(K, N)
    BY <1>8 DEF SameShape
  <2> QED
    BY <1>8, <1>10, <1>13, <2>1, AdvancingEnds
<1> QED
  BY <1>14 DEF N, new, code

-----------------------------------------------------------------------------
(* cleanup                                                                 *)

\* Where a program counter is after all but the places S are gone, and an activation there.
Place(S, pc) == UpTo(S, pc - 1) + 1
\* An activation, with its program counter there.
Shift(S, n, a) == IF a.function = n THEN [a EXCEPT !.pc = Place(S, a.pc)] ELSE a

\* In N, function n has only the instructions at the places S, with its jumps redirected; at
\* the others it has nops, and it has no try statements.
Cleaned(M, N, n, S) ==
    /\ IsModule(M) /\ Verifies(M) /\ IsModule(N) /\ Verifies(N)
    /\ n \in DOMAIN M /\ DOMAIN N = DOMAIN M /\ S \subseteq DOMAIN M[n].code
    /\ \A k \in DOMAIN M : /\ N[k].params = M[k].params /\ N[k].vararg = M[k].vararg
                           /\ N[k].regs = M[k].regs /\ N[k].returns = M[k].returns
    /\ \A k \in DOMAIN M \ {n} : N[k] = M[k]
    /\ Place(S, 1) = 1 /\ \A pc \in Nat \ {0} : Place(S, pc) \in Nat \ {0}
    /\ \A pc \in DOMAIN M[n].code :
          /\ M[n].code[pc].op \notin Tries
          /\ IF pc \in S
             THEN /\ Place(S, pc + 1) = Place(S, pc) + 1 /\ Place(S, pc) \in DOMAIN N[n].code
                  /\ N[n].code[Place(S, pc)] =
                       IF M[n].code[pc].op \in Relative
                       THEN Redirected(M[n].code[pc], Place(S, pc + Delta(M[n].code[pc])) - Place(S, pc))
                       ELSE M[n].code[pc]
             ELSE M[n].code[pc].op = "nop" /\ Place(S, pc + 1) = Place(S, pc)
    /\ \A pc \in Nat \ {0} : pc \notin DOMAIN M[n].code => Place(S, pc) \notin DOMAIN N[n].code

\* An activation of n has no try frames, and stands at a call if it is not the last.
Stands(n, a) == a.function = n => DOMAIN a.tries = {} /\ a.pc \in Nat \ {0}
\* An activation that is not the last stands at a call.
AtCall(M, n, a) ==
    a.function = n => a.pc \in DOMAIN M[n].code /\ M[n].code[a.pc].op \in Calls \union ClosureCalls
\* Every activation of a machine does.
Standing(M, n, m) ==
    /\ m.mixed \in BOOLEAN
    /\ \A k \in DOMAIN m.stack : Stands(n, m.stack[k])
    /\ \A k \in 1..Len(m.stack) - 1 : AtCall(M, n, m.stack[k])

\* Machine p of N is where machine m of M is.
Shadows(M, n, S, m, p) ==
    /\ Inside(M, m) /\ Standing(M, n, m)
    /\ MachineRecord(p) /\ p.how = m.how /\ p.value = m.value /\ p.calls = m.calls
    /\ p.closures = m.closures /\ p.mixed = m.mixed
    /\ p.stack = [k \in DOMAIN m.stack |-> Shift(S, n, m.stack[k])]

\* What an activation is there.
LEMMA ShiftIs ==
    ASSUME NEW M, NEW S, NEW n, NEW a, FitsFunction(M, a)
    PROVE  /\ Shift(S, n, a).function = a.function /\ Shift(S, n, a).tries = a.tries
           /\ Shift(S, n, a).closure = a.closure /\ Shift(S, n, a).regs = a.regs
           /\ Shift(S, n, a).rest = a.rest
           /\ Shift(S, n, a).pc = IF a.function = n THEN Place(S, a.pc) ELSE a.pc
           /\ Shift(S, n, a) \in [function : {a.function}, pc : {Shift(S, n, a).pc}, tries : {a.tries},
                                  closure : {a.closure}, regs : {a.regs}, rest : {a.rest}]
BY DEF FitsFunction, Shift

\* Activations with the same fields are the same.
LEMMA SameActivation ==
    ASSUME NEW M, NEW a, FitsFunction(M, a), NEW b,
           b \in [function : {b.function}, pc : {b.pc}, tries : {b.tries}, closure : {b.closure},
                  regs : {b.regs}, rest : {b.rest}],
           b.function = a.function, b.pc = a.pc, b.tries = a.tries, b.closure = a.closure,
           b.regs = a.regs, b.rest = a.rest
    PROVE  b = a
<1>1. a \in [function : {a.function}, pc : {a.pc}, tries : {a.tries}, closure : {a.closure},
             regs : {a.regs}, rest : {a.rest}]
  BY DEF FitsFunction
<1> QED
  BY <1>1

\* The stack there.
LEMMA ShadowStack ==
    ASSUME NEW M, NEW n, NEW S, NEW m, NEW p, Shadows(M, n, S, m, p)
    PROVE  /\ IsSequence(m.stack) /\ DOMAIN m.stack = 1..Len(m.stack) /\ Len(m.stack) \in Nat
           /\ IsSequence(p.stack) /\ DOMAIN p.stack = 1..Len(m.stack) /\ Len(p.stack) = Len(m.stack)
           /\ \A k \in 1..Len(m.stack) : p.stack[k] = Shift(S, n, m.stack[k]) /\ FitsFunction(M, m.stack[k])
           /\ \A k \in 1..Len(m.stack) : Stands(n, m.stack[k])
           /\ \A k \in 1..Len(m.stack) - 1 : AtCall(M, n, m.stack[k])
           /\ m.stack # <<>> => Last(p.stack) = Shift(S, n, Last(m.stack)) /\ Len(m.stack) # 0
<1> DEFINE l == Len(m.stack)
<1>1. IsSequence(m.stack) /\ DOMAIN m.stack = 1..l /\ l \in Nat /\ (m.stack # <<>> => l # 0)
  BY SequenceDomain DEF Shadows, Inside
<1>2. p.stack = [k \in 1..l |-> Shift(S, n, m.stack[k])]
  BY <1>1 DEF Shadows
<1>3. \A k \in 1..l : FitsFunction(M, m.stack[k]) /\ Stands(n, m.stack[k])
  BY <1>1 DEF Shadows, Inside, Standing
<1>4. \A k \in 1..l - 1 : AtCall(M, n, m.stack[k])
  BY DEF Shadows, Standing
<1> HIDE DEF l
<1>5. OnDomain(1..l, p.stack) /\ \A k \in 1..l : p.stack[k] = Shift(S, n, m.stack[k])
  BY <1>2 DEF OnDomain
<1>6. IsSequence(p.stack) /\ Len(p.stack) = l /\ DOMAIN p.stack = 1..l
  BY <1>1, <1>5, DomainSequence
<1>7. m.stack # <<>> => Last(p.stack) = Shift(S, n, Last(m.stack))
  <2>1. m.stack # <<>> => l \in 1..l
    BY <1>1
  <2> QED
    BY <1>5, <1>6, <2>1 DEF Last, l
<1> QED
  BY <1>1, <1>3, <1>4, <1>5, <1>6, <1>7 DEF l

\* Everything above depth h is replaced by one activation; those below it stand at calls.
LEMMA ShadowReplaced ==
    ASSUME NEW M, NEW n, NEW S, NEW m, NEW p, Shadows(M, n, S, m, p), NEW h \in 0..Len(m.stack),
           h = Len(m.stack) /\ h # 0 => AtCall(M, n, m.stack[h]),
           NEW a, FitsFunction(M, a), Stands(n, a)
    PROVE  Shadows(M, n, S, [m EXCEPT !.stack = Append(SubSeq(m.stack, 1, h), a)],
                            [p EXCEPT !.stack = Append(SubSeq(p.stack, 1, h), Shift(S, n, a))])
<1> DEFINE s == Append(SubSeq(m.stack, 1, h), a)
           t == Append(SubSeq(p.stack, 1, h), Shift(S, n, a))
           m2 == [m EXCEPT !.stack = s]
           p2 == [p EXCEPT !.stack = t]
<1>1. /\ IsSequence(m.stack) /\ DOMAIN m.stack = 1..Len(m.stack) /\ Len(m.stack) \in Nat
      /\ IsSequence(p.stack) /\ Len(p.stack) = Len(m.stack)
      /\ \A k \in 1..Len(m.stack) : p.stack[k] = Shift(S, n, m.stack[k])
      /\ \A k \in 1..Len(m.stack) : Stands(n, m.stack[k])
      /\ \A k \in 1..Len(m.stack) - 1 : AtCall(M, n, m.stack[k])
  BY ShadowStack
<1>2. /\ h \in Nat /\ h <= Len(m.stack) /\ \A k \in 1..h : k \in 1..Len(m.stack) /\ AtCall(M, n, m.stack[k])
  BY <1>1
<1>3. /\ IsSequence(s) /\ Len(s) = h + 1 /\ DOMAIN s = 1..h + 1 /\ s[h + 1] = a
      /\ \A k \in 1..h : s[k] = m.stack[k]
  <2> DEFINE below == SubSeq(m.stack, 1, h)
  <2>1. IsSequence(below) /\ Len(below) = h /\ \A k \in 1..h : below[k] = m.stack[k]
    BY <1>1, PrefixIsSequence
  <2> HIDE DEF below
  <2> QED
    BY <2>1, AppendIsSequence DEF below
<1>4. /\ IsSequence(t) /\ Len(t) = h + 1 /\ DOMAIN t = 1..h + 1 /\ t[h + 1] = Shift(S, n, a)
      /\ \A k \in 1..h : t[k] = Shift(S, n, m.stack[k])
  <2> DEFINE below == SubSeq(p.stack, 1, h)
  <2>1. IsSequence(below) /\ Len(below) = h /\ \A k \in 1..h : below[k] = p.stack[k]
    BY <1>1, PrefixIsSequence
  <2> HIDE DEF below
  <2> DEFINE b == Shift(S, n, a)
  <2> HIDE DEF b
  <2>2. /\ IsSequence(Append(below, b)) /\ Len(Append(below, b)) = h + 1 /\ DOMAIN Append(below, b) = 1..h + 1
        /\ Append(below, b)[h + 1] = b /\ DOMAIN below = 1..h
        /\ \A k \in 1..h : Append(below, b)[k] = below[k]
    BY <2>1, AppendIsSequence
  <2> QED
    BY <1>1, <1>2, <2>1, <2>2 DEF below, b
<1>5. Inside(M, m2)
  BY StackReplaced DEF Shadows, Sound
<1> HIDE DEF s, t
<1>6. /\ m2.stack = s /\ m2.how = m.how /\ m2.value = m.value /\ m2.calls = m.calls
      /\ m2.closures = m.closures /\ m2.mixed = m.mixed
  BY DEF Shadows, Inside, MachineRecord
<1>7. /\ MachineRecord(p2) /\ p2.stack = t /\ p2.how = p.how /\ p2.value = p.value /\ p2.calls = p.calls
      /\ p2.closures = p.closures /\ p2.mixed = p.mixed
  BY DEF Shadows, MachineRecord
<1>8. ASSUME NEW k \in 1..h + 1
      PROVE  Stands(n, s[k]) /\ t[k] = Shift(S, n, s[k]) /\ (k # h + 1 => AtCall(M, n, s[k]))
  <2>1. CASE k = h + 1
    BY <1>3, <1>4, <2>1
  <2>2. CASE k # h + 1
    <3>1. k \in 1..h
      BY <2>2
    <3> QED
      BY <1>1, <1>2, <1>3, <1>4, <3>1
  <2> QED
    BY <2>1, <2>2
<1>9. Standing(M, n, m2)
  <2>1. \A k \in 1..(h + 1) - 1 : k \in 1..h + 1 /\ k # h + 1
    OBVIOUS
  <2>2. m.mixed \in BOOLEAN
    BY DEF Shadows, Standing
  <2> QED
    BY <1>3, <1>6, <1>8, <2>1, <2>2 DEF Standing
<1>10. t = [k \in DOMAIN s |-> Shift(S, n, s[k])]
  <2>1. t = [k \in 1..h + 1 |-> t[k]]
    <3>1. OnDomain(1..h + 1, t)
      BY <1>4, SequenceDomain
    <3> QED
      BY <3>1 DEF OnDomain
  <2> QED
    BY <1>3, <1>8, <2>1
<1> HIDE DEF m2, p2
<1>11. Shadows(M, n, S, m2, p2)
  BY <1>5, <1>6, <1>7, <1>9, <1>10 DEF Shadows
<1> QED
  BY <1>11 DEF m2, p2, s, t

\* The running activation changes, in both.
LEMMA ShadowNow ==
    ASSUME NEW M, NEW n, NEW S, NEW m, NEW p, Shadows(M, n, S, m, p), m.stack # <<>>,
           NEW a, FitsFunction(M, a), Stands(n, a)
    PROVE  Shadows(M, n, S, Now(m, a), Now(p, Shift(S, n, a)))
<1> DEFINE h == Len(m.stack) - 1
<1>1. h \in 0..Len(m.stack) /\ h # Len(m.stack) /\ Len(p.stack) - 1 = h
  BY ShadowStack
<1>2. Now(m, a) = [m EXCEPT !.stack = Append(SubSeq(m.stack, 1, h), a)]
  BY DEF Now, Front
<1>3. Now(p, Shift(S, n, a)) = [p EXCEPT !.stack = Append(SubSeq(p.stack, 1, h), Shift(S, n, a))]
  BY <1>1 DEF Now, Front
<1> HIDE DEF h
<1>4. Shadows(M, n, S, [m EXCEPT !.stack = Append(SubSeq(m.stack, 1, h), a)],
                       [p EXCEPT !.stack = Append(SubSeq(p.stack, 1, h), Shift(S, n, a))])
  BY <1>1, ShadowReplaced
<1> QED
  BY <1>2, <1>3, <1>4

\* An execution stops, in both.
LEMMA ShadowStopped ==
    ASSUME NEW M, NEW n, NEW S, NEW m, NEW p, Shadows(M, n, S, m, p),
           NEW how \in {"value", "throw", "status"}, NEW value
    PROVE  Shadows(M, n, S, Stopped(m, how, value), Stopped(p, how, value))
<1>1. Inside(M, Stopped(m, how, value))
  BY StoppedInside DEF Shadows, Sound
<1> DEFINE m2 == Stopped(m, how, value)
           p2 == Stopped(p, how, value)
<1>2. /\ m2.stack = m.stack /\ m2.how = how /\ m2.value = value /\ m2.calls = m.calls
      /\ m2.closures = m.closures /\ m2.mixed = m.mixed
  BY DEF Shadows, Inside, MachineRecord, Stopped
<1>3. /\ MachineRecord(p2) /\ p2.stack = p.stack /\ p2.how = how /\ p2.value = value /\ p2.calls = p.calls
      /\ p2.closures = p.closures /\ p2.mixed = p.mixed
  BY DEF Shadows, MachineRecord, Stopped
<1> HIDE DEF m2, p2
<1>4. Shadows(M, n, S, m2, p2)
  BY <1>1, <1>2, <1>3 DEF Shadows, Standing, m2
<1> QED
  BY <1>4 DEF m2, p2

\* What is beside the stack changes, in both.
LEMMA ShadowAside ==
    ASSUME NEW M, NEW n, NEW S, NEW m, NEW p, Shadows(M, n, S, m, p), NEW q, NEW s, NEW x,
           \/ q = [m EXCEPT !.calls = x] /\ s = [p EXCEPT !.calls = x]
           \/ q = [m EXCEPT !.closures = x] /\ s = [p EXCEPT !.closures = x]
           \/ x \in BOOLEAN /\ q = [m EXCEPT !.mixed = x] /\ s = [p EXCEPT !.mixed = x]
    PROVE  Shadows(M, n, S, q, s) /\ q.stack = m.stack
<1>1. MachineRecord(m) /\ MachineRecord(p) /\ Inside(M, m)
  BY DEF Shadows, Inside
<1>2. CASE q = [m EXCEPT !.calls = x] /\ s = [p EXCEPT !.calls = x]
  BY <1>1, <1>2 DEF Shadows, Standing, Inside, MachineRecord
<1>3. CASE q = [m EXCEPT !.closures = x] /\ s = [p EXCEPT !.closures = x]
  BY <1>1, <1>3 DEF Shadows, Standing, Inside, MachineRecord
<1>4. CASE x \in BOOLEAN /\ q = [m EXCEPT !.mixed = x] /\ s = [p EXCEPT !.mixed = x]
  BY <1>1, <1>4 DEF Shadows, Standing, Inside, MachineRecord
<1> QED
  BY <1>2, <1>3, <1>4

\* A call, in both.
LEMMA ShadowCalled ==
    ASSUME NEW M, NEW N, NEW n, NEW S, Cleaned(M, N, n, S), NEW m, NEW p, Shadows(M, n, S, m, p),
           m.stack # <<>> => AtCall(M, n, Last(m.stack)),
           NEW f, NEW args, NEW closure
    PROVE  Shadows(M, n, S, Called(M, m, f, args, closure), Called(N, p, f, args, closure))
<1> DEFINE takes(K) == /\ f \in DOMAIN K
                       /\ TakesArguments(K[f], Len(args))
                       /\ \A k \in DOMAIN K[f].params : Matches(args[k], K[f].params[k])
           a(K) == [function |-> f, pc |-> 1, tries |-> <<>>, closure |-> closure,
                    regs |-> [r \in 0..K[f].regs - 1 |-> IF r < Len(args) THEN args[r + 1] ELSE Null],
                    rest |-> SubSeq(args, Len(K[f].params) + 1, Len(args))]
<1>1. \A K, q : Called(K, q, f, args, closure) =
                   IF takes(K) THEN [q EXCEPT !.stack = Append(@, a(K))] ELSE Stopped(q, "status", Null)
  BY DEF Called
<1>2. f \in DOMAIN N <=> f \in DOMAIN M
  BY DEF Cleaned
<1>3. f \in DOMAIN M => /\ N[f].params = M[f].params /\ N[f].vararg = M[f].vararg
                        /\ N[f].regs = M[f].regs
  BY DEF Cleaned
<1>4. takes(N) <=> takes(M)
  BY <1>2, <1>3 DEF TakesArguments
<1>5. takes(M) => a(N) = a(M)
  BY <1>3
<1>6. CASE ~takes(M)
  <2>1. Shadows(M, n, S, Stopped(m, "status", Null), Stopped(p, "status", Null))
    BY ShadowStopped
  <2> HIDE DEF takes, a
  <2> QED
    BY <1>1, <1>4, <1>6, <2>1
<1>7. CASE takes(M)
  <2> DEFINE b == a(M)
             l == Len(m.stack)
  <2>1. FitsFunction(M, b)
    BY <1>7 DEF FitsFunction
  <2>2. b.function = f /\ b.pc = 1 /\ b.tries = <<>>
    OBVIOUS
  <2>3. Stands(n, b)
    BY <2>2 DEF Stands
  <2> HIDE DEF b
  <2>4. Shift(S, n, b) = b
    <3>1. Place(S, 1) = 1
      BY DEF Cleaned
    <3> DEFINE c == Shift(S, n, b)
    <3>2. /\ c.function = b.function /\ c.tries = b.tries /\ c.closure = b.closure /\ c.regs = b.regs
          /\ c.rest = b.rest /\ c.pc = b.pc
          /\ c \in [function : {b.function}, pc : {c.pc}, tries : {b.tries},
                    closure : {b.closure}, regs : {b.regs}, rest : {b.rest}]
      BY <2>1, <2>2, <3>1, ShiftIs
    <3> HIDE DEF c
    <3>3. c = b
      BY <2>1, <3>2, SameActivation
    <3> QED
      BY <3>3 DEF c
  <2>5. /\ l \in 0..l /\ Len(p.stack) = l /\ IsSequence(m.stack) /\ IsSequence(p.stack)
        /\ (l # 0 => m.stack # <<>>) /\ l \in Nat
    BY ShadowStack, SequenceDomain
  <2>6. l = Len(m.stack) /\ l # 0 => AtCall(M, n, m.stack[l])
    BY <2>5 DEF Last
  <2> HIDE DEF l
  <2>7. Shadows(M, n, S, [m EXCEPT !.stack = Append(SubSeq(m.stack, 1, l), b)],
                         [p EXCEPT !.stack = Append(SubSeq(p.stack, 1, l), Shift(S, n, b))])
    <3>1. l \in 0..Len(m.stack)
      BY <2>5 DEF l
    <3> QED
      BY <2>1, <2>3, <2>6, <3>1, ShadowReplaced
  <2>8. \A s : IsSequence(s) => SubSeq(s, 1, Len(s)) = s
    <3>1. ASSUME NEW s, IsSequence(s) PROVE SubSeq(s, 1, Len(s)) = s
      <4>1. PICK T : s \in Seq(T)
        BY <3>1 DEF IsSequence
      <4> QED
        BY <4>1
    <3> QED
      BY <3>1
  <2>9. SubSeq(m.stack, 1, l) = m.stack /\ SubSeq(p.stack, 1, l) = p.stack
    BY <2>5, <2>8 DEF l
  <2>10. Shadows(M, n, S, [m EXCEPT !.stack = Append(m.stack, b)], [p EXCEPT !.stack = Append(p.stack, b)])
    BY <2>4, <2>7, <2>9
  <2>11. a(N) = b
    BY <1>5, <1>7 DEF b
  <2> HIDE DEF a, takes
  <2>12. /\ Called(M, m, f, args, closure) = [m EXCEPT !.stack = Append(m.stack, b)]
         /\ Called(N, p, f, args, closure) = [p EXCEPT !.stack = Append(p.stack, b)]
    BY <1>1, <1>4, <1>7, <2>11 DEF b
  <2> QED
    BY <2>10, <2>12
<1> QED
  BY <1>6, <1>7

\* The instruction of an activation that stands at a call.
LEMMA ShadowCall ==
    ASSUME NEW M, NEW N, NEW n, NEW S, Cleaned(M, N, n, S), NEW b, FitsFunction(M, b), AtCall(M, n, b)
    PROVE  /\ InstOf(N, Shift(S, n, b)) = InstOf(M, b)
           /\ b.function = n => Place(S, b.pc + 1) = Place(S, b.pc) + 1
<1>1. b.function \in DOMAIN M
  BY DEF FitsFunction
<1>2. CASE b.function # n
  BY <1>1, <1>2 DEF Cleaned, InstOf, Shift
<1>3. CASE b.function = n
  <2> DEFINE i == M[n].code[b.pc]
  <2>1. b.pc \in DOMAIN M[n].code /\ i.op \in Calls \union ClosureCalls
    BY <1>3 DEF AtCall
  <2>2. i.op # "nop" /\ i.op \notin Relative
    BY <2>1 DEF Calls, ClosureCalls, Relative, Conditional, FusedImm
  <2>3. Place(S, b.pc + 1) = Place(S, b.pc) + 1 /\ N[n].code[Place(S, b.pc)] = i
    BY <2>1, <2>2 DEF Cleaned
  <2> QED
    BY <1>3, <2>3, ShiftIs DEF InstOf
<1> QED
  BY <1>2, <1>3

\* A return, in both.
LEMMA ShadowReturned ==
    ASSUME NEW M, NEW N, NEW n, NEW S, Cleaned(M, N, n, S), NEW m, NEW p, Shadows(M, n, S, m, p),
           m.stack # <<>>, NEW v
    PROVE  Shadows(M, n, S, Returned(M, m, v), Returned(N, p, v))
<1> DEFINE h == Len(m.stack) - 1
           W == WaitsAt(M, m, h)
           k == Max(W)
<1>1. /\ Len(m.stack) \in Nat /\ Len(p.stack) = Len(m.stack) /\ Len(m.stack) # 0
      /\ \A q \in 1..Len(m.stack) : p.stack[q] = Shift(S, n, m.stack[q]) /\ FitsFunction(M, m.stack[q])
      /\ \A q \in 1..Len(m.stack) - 1 : AtCall(M, n, m.stack[q])
      /\ \A q \in 1..Len(m.stack) : Stands(n, m.stack[q])
      /\ Last(p.stack) = Shift(S, n, Last(m.stack))
  BY ShadowStack
<1>2. h \in Nat /\ h < Len(m.stack)
  BY <1>1
<1>3. N[Last(p.stack).function].returns = M[Last(m.stack).function].returns
  <2>1. FitsFunction(M, Last(m.stack))
    BY <1>1 DEF Last
  <2>2. Last(p.stack).function = Last(m.stack).function /\ Last(m.stack).function \in DOMAIN M
    BY <1>1, <2>1, ShiftIs DEF FitsFunction
  <2> QED
    BY <2>2 DEF Cleaned
<1>4. \A q \in 1..h : InstOf(N, p.stack[q]) = InstOf(M, m.stack[q])
  BY <1>1, <1>2, ShadowCall
<1>5. WaitsAt(N, p, h) = W
  BY <1>4 DEF WaitsAt
<1>6. Shadows(M, n, S, Back(M, m, h, v), Back(N, p, h, v))
  <2>1. CASE W = {}
    BY <1>5, <2>1, ShadowStopped DEF Back
  <2>2. CASE W # {}
    <3>1. k \in 1..h
      BY <1>2, <2>2, LastWaits
    <3> HIDE DEF k
    <3> DEFINE b == m.stack[k]
               i == InstOf(M, b)
               a == Resumed(M, b, v)
    <3>2. k \in 1..Len(m.stack) /\ k - 1 \in 0..Len(m.stack) /\ k - 1 # Len(m.stack) /\ k \in 1..Len(m.stack) - 1
      BY <1>1, <3>1
    <3>3. FitsFunction(M, b) /\ AtCall(M, n, b) /\ Stands(n, b) /\ p.stack[k] = Shift(S, n, b)
      BY <1>1, <3>2
    <3> HIDE DEF b
    <3>4. /\ InstOf(N, Shift(S, n, b)) = i
          /\ b.function = n => Place(S, b.pc + 1) = Place(S, b.pc) + 1
      BY <3>3, ShadowCall
    <3> HIDE DEF i
    <3> DEFINE after == [b.regs EXCEPT ![i.a] = v]
    <3>5. /\ a.function = b.function /\ a.pc = b.pc + 1 /\ a.tries = b.tries /\ a.closure = b.closure
          /\ a.regs = after /\ a.rest = b.rest /\ FitsFunction(M, a)
      <4>1. FitsFunction(M, [b EXCEPT !.pc = b.pc + 1, !.regs = after])
        BY <3>3 DEF FitsFunction
      <4>2. a = [b EXCEPT !.pc = b.pc + 1, !.regs = after]
        BY <3>3 DEF Resumed, FitsFunction, i
      <4> HIDE DEF a, after
      <4> QED
        BY <3>3, <4>1, <4>2 DEF FitsFunction
    <3>6. Stands(n, a)
      BY <3>3, <3>5 DEF Stands
    <3> DEFINE c == Shift(S, n, b)
    <3>7. /\ c.function = b.function /\ c.tries = b.tries /\ c.closure = b.closure /\ c.regs = b.regs
          /\ c.rest = b.rest /\ c.pc = IF b.function = n THEN Place(S, b.pc) ELSE b.pc
          /\ c \in [function : {b.function}, pc : {c.pc}, tries : {b.tries},
                    closure : {b.closure}, regs : {b.regs}, rest : {b.rest}]
      BY <3>3, ShiftIs
    <3> HIDE DEF c
    <3> DEFINE d == Resumed(N, c, v)
    <3>8. /\ d.function = b.function /\ d.pc = c.pc + 1 /\ d.tries = b.tries /\ d.closure = b.closure
          /\ d.regs = after /\ d.rest = b.rest
          /\ d \in [function : {d.function}, pc : {d.pc}, tries : {d.tries}, closure : {d.closure},
                    regs : {d.regs}, rest : {d.rest}]
      <4>1. InstOf(N, c) = i
        BY <3>4 DEF c
      <4>2. d = [c EXCEPT !.pc = c.pc + 1, !.regs = [c.regs EXCEPT ![i.a] = v]]
        BY <3>7, <4>1 DEF Resumed
      <4>3. [c.regs EXCEPT ![i.a] = v] = after
        BY <3>7
      <4> HIDE DEF d, after
      <4> QED
        BY <3>7, <4>2, <4>3
    <3> HIDE DEF a, d, after
    <3> DEFINE e == Shift(S, n, a)
    <3>9. /\ e.function = a.function /\ e.tries = a.tries /\ e.closure = a.closure /\ e.regs = a.regs
          /\ e.rest = a.rest /\ e.pc = IF a.function = n THEN Place(S, a.pc) ELSE a.pc
          /\ FitsFunction(M, e)
      <4>1. /\ e.function = a.function /\ e.tries = a.tries /\ e.closure = a.closure /\ e.regs = a.regs
            /\ e.rest = a.rest /\ e.pc = IF a.function = n THEN Place(S, a.pc) ELSE a.pc
            /\ e \in [function : {a.function}, pc : {e.pc}, tries : {a.tries},
                      closure : {a.closure}, regs : {a.regs}, rest : {a.rest}]
        BY <3>5, ShiftIs
      <4> HIDE DEF e
      <4> QED
        BY <3>5, <4>1 DEF FitsFunction
    <3> HIDE DEF e
    <3>10. d = e
      <4>1. d.pc = e.pc
        BY <3>4, <3>5, <3>7, <3>8, <3>9
      <4> QED
        BY <3>5, <3>8, <3>9, <4>1, SameActivation
    <3>11. Shadows(M, n, S, [m EXCEPT !.stack = Append(SubSeq(m.stack, 1, k - 1), a)],
                            [p EXCEPT !.stack = Append(SubSeq(p.stack, 1, k - 1), Shift(S, n, a))])
      BY <3>2, <3>5, <3>6, ShadowReplaced
    <3>12. Back(M, m, h, v) = [m EXCEPT !.stack = Append(SubSeq(m.stack, 1, k - 1), a)]
      BY <2>2 DEF Back, a, b, k
    <3>13. Back(N, p, h, v) = [p EXCEPT !.stack = Append(SubSeq(p.stack, 1, k - 1), d)]
      BY <1>5, <2>2, <3>3 DEF Back, d, c, k
    <3> QED
      BY <3>10, <3>11, <3>12, <3>13 DEF e
  <2> QED
    BY <2>1, <2>2
<1>7. /\ Returned(M, m, v) = IF Matches(v, M[Last(m.stack).function].returns)
                             THEN Back(M, m, h, v) ELSE Stopped(m, "status", Null)
      /\ Returned(N, p, v) = IF Matches(v, M[Last(m.stack).function].returns)
                             THEN Back(N, p, h, v) ELSE Stopped(p, "status", Null)
  <2>1. Len(p.stack) - 1 = h
    BY <1>1
  <2> QED
    BY <1>3, <2>1, ReturnedBack
<1>8. Shadows(M, n, S, Stopped(m, "status", Null), Stopped(p, "status", Null))
  BY ShadowStopped
<1> QED
  BY <1>6, <1>7, <1>8

\* An exception, in both: function n does not handle it.
LEMMA ShadowThrown ==
    ASSUME NEW M, NEW N, NEW n, NEW S, Cleaned(M, N, n, S), NEW m, NEW p, Shadows(M, n, S, m, p), NEW v
    PROVE  Shadows(M, n, S, Thrown(m, v), Thrown(p, v))
<1> DEFINE handling(q) == {k \in DOMAIN q.stack : \E t \in DOMAIN q.stack[k].tries : Handles(q.stack[k].tries[t])}
           H == handling(m)
           k == Max(H)
<1>1. /\ Len(m.stack) \in Nat /\ DOMAIN m.stack = 1..Len(m.stack) /\ DOMAIN p.stack = 1..Len(m.stack)
      /\ \A q \in 1..Len(m.stack) : p.stack[q] = Shift(S, n, m.stack[q]) /\ FitsFunction(M, m.stack[q])
      /\ \A q \in 1..Len(m.stack) : Stands(n, m.stack[q])
  BY ShadowStack
<1>2. \A q \in 1..Len(m.stack) : p.stack[q].tries = m.stack[q].tries
  BY <1>1, ShiftIs
<1>3. handling(p) = H
  BY <1>1, <1>2
<1>4. \A q : Thrown(q, v) = IF handling(q) = {} THEN Stopped(q, "throw", v)
                            ELSE [q EXCEPT !.stack = Append(SubSeq(q.stack, 1, Max(handling(q)) - 1),
                                                            Handled(q.stack[Max(handling(q))], v))]
  BY DEF Thrown
<1>5. CASE H = {}
  <2>1. Shadows(M, n, S, Stopped(m, "throw", v), Stopped(p, "throw", v))
    BY ShadowStopped
  <2> HIDE DEF handling
  <2> QED
    BY <1>3, <1>4, <1>5, <2>1
<1>6. CASE H # {}
  <2>1. k \in H
    <3>1. H \subseteq 1..Len(m.stack)
      BY <1>1
    <3> HIDE DEF H
    <3> QED
      BY <1>1, <1>6, <3>1, MaxIn
  <2> DEFINE b == m.stack[k]
  <2>2. k \in 1..Len(m.stack) /\ DOMAIN b.tries # {}
    BY <1>1, <2>1
  <2> HIDE DEF handling, H, k
  <2>3. b.function # n /\ FitsFunction(M, b) /\ p.stack[k] = Shift(S, n, b)
    BY <1>1, <2>2 DEF Stands
  <2>4. Shift(S, n, b) = b
    BY <2>3 DEF Shift
  <2> HIDE DEF b
  <2> DEFINE a == Handled(b, v)
  <2>5. FitsFunction(M, a) /\ a.function = b.function
    <3>1. FitsFunction(M, a)
      BY <2>3, HandledInside
    <3> QED
      BY <2>3, <3>1 DEF FitsFunction, Handled
  <2> HIDE DEF a
  <2>6. Stands(n, a) /\ Shift(S, n, a) = a
    BY <2>3, <2>5 DEF Stands, Shift
  <2>7. k - 1 \in 0..Len(m.stack) /\ k - 1 # Len(m.stack)
    BY <1>1, <2>2
  <2>8. Shadows(M, n, S, [m EXCEPT !.stack = Append(SubSeq(m.stack, 1, k - 1), a)],
                         [p EXCEPT !.stack = Append(SubSeq(p.stack, 1, k - 1), Shift(S, n, a))])
    BY <2>5, <2>6, <2>7, ShadowReplaced
  <2>9. Thrown(m, v) = [m EXCEPT !.stack = Append(SubSeq(m.stack, 1, k - 1), a)]
    BY <1>4, <1>6 DEF a, b, k, H
  <2>10. Thrown(p, v) = [p EXCEPT !.stack = Append(SubSeq(p.stack, 1, k - 1), a)]
    <3>1. handling(p) = H /\ Max(handling(p)) = k /\ p.stack[k] = b
      BY <1>3, <2>3, <2>4 DEF k
    <3> QED
      BY <1>4, <1>6, <3>1 DEF a
  <2> QED
    BY <2>6, <2>8, <2>9, <2>10
<1> QED
  BY <1>5, <1>6

\* The running activations of both, at instruction i.
BothAt(M, N, n, S, m, p, a, b, i) ==
    /\ Cleaned(M, N, n, S) /\ Shadows(M, n, S, m, p) /\ m.stack # <<>>
    /\ a = Last(m.stack) /\ b = Shift(S, n, a) /\ FitsFunction(M, a) /\ Stands(n, a)
    /\ a.function = n => i.op \notin Tries /\ Place(S, a.pc + 1) = Place(S, a.pc) + 1
    /\ i.op \in Calls \union ClosureCalls => AtCall(M, n, a)

\* Both go on, with the same registers.
LEMMA ShadowGoes ==
    ASSUME NEW M, NEW n, NEW S, NEW m, NEW p, Shadows(M, n, S, m, p), m.stack # <<>>,
           NEW a, FitsFunction(M, a), Stands(n, a), NEW b, b = Shift(S, n, a),
           NEW regs, OnDomain(0..M[a.function].regs - 1, regs), NEW x, NEW y,
           y = IF a.function = n THEN Place(S, x) ELSE x, a.function = n => x \in Nat \ {0}
    PROVE  Shadows(M, n, S, Now(m, [a EXCEPT !.regs = regs, !.pc = x]), Now(p, [b EXCEPT !.regs = regs, !.pc = y]))
<1> DEFINE c == [a EXCEPT !.regs = regs, !.pc = x]
           d == [b EXCEPT !.regs = regs, !.pc = y]
           e == Shift(S, n, c)
<1>1. /\ c.function = a.function /\ c.pc = x /\ c.tries = a.tries /\ c.closure = a.closure
      /\ c.regs = regs /\ c.rest = a.rest /\ FitsFunction(M, c)
  BY DEF FitsFunction, OnDomain
<1>2. /\ b.function = a.function /\ b.tries = a.tries /\ b.closure = a.closure /\ b.rest = a.rest
      /\ b \in [function : {a.function}, pc : {b.pc}, tries : {a.tries}, closure : {a.closure},
                regs : {a.regs}, rest : {a.rest}]
  BY ShiftIs
<1>3. /\ d.function = a.function /\ d.pc = y /\ d.tries = a.tries /\ d.closure = a.closure
      /\ d.regs = regs /\ d.rest = a.rest
      /\ d \in [function : {d.function}, pc : {d.pc}, tries : {d.tries}, closure : {d.closure},
                regs : {d.regs}, rest : {d.rest}]
  BY <1>2
<1> HIDE DEF c, d
<1>4. Stands(n, c)
  BY <1>1 DEF Stands
<1>5. /\ e.function = c.function /\ e.tries = c.tries /\ e.closure = c.closure /\ e.regs = c.regs
      /\ e.rest = c.rest /\ e.pc = IF c.function = n THEN Place(S, c.pc) ELSE c.pc
      /\ e \in [function : {c.function}, pc : {e.pc}, tries : {c.tries},
                closure : {c.closure}, regs : {c.regs}, rest : {c.rest}]
  BY <1>1, ShiftIs
<1> HIDE DEF e
<1>6. FitsFunction(M, e)
  BY <1>1, <1>5 DEF FitsFunction
<1>7. d = e
  BY <1>1, <1>3, <1>5, <1>6, SameActivation
<1>8. Shadows(M, n, S, Now(m, c), Now(p, Shift(S, n, c)))
  BY <1>1, <1>4, ShadowNow
<1> QED
  BY <1>7, <1>8 DEF c, d, e

\* An instruction that computes, in both: jumps lead to the same instruction.
LEMMA ShadowComputes ==
    ASSUME NEW M, NEW N, NEW n, NEW S, Cleaned(M, N, n, S), NEW m, NEW p, Shadows(M, n, S, m, p),
           m.stack # <<>>, NEW a, FitsFunction(M, a), Stands(n, a), NEW b, b = Shift(S, n, a),
           NEW i, i.op \notin Controls, NEW j, j.op \notin Controls,
           DividesByZero(j, a.regs) <=> DividesByZero(i, a.regs),
           Computed(j, a.regs) = Computed(i, a.regs),
           a.function = n => a.pc + Ahead(i, a.regs) \in Nat \ {0},
           b.pc + Ahead(j, a.regs) = IF a.function = n THEN Place(S, a.pc + Ahead(i, a.regs))
                                     ELSE a.pc + Ahead(i, a.regs)
    PROVE  Shadows(M, n, S, Does(M, m, a, i), Does(N, p, b, j))
<1>1. b.regs = a.regs
  BY ShiftIs
<1> DEFINE regs == Computed(i, a.regs)
           x == a.pc + Ahead(i, a.regs)
           y == b.pc + Ahead(j, a.regs)
<1>2. /\ Does(M, m, a, i) = IF DividesByZero(i, a.regs) THEN Thrown(m, Null)
                            ELSE Now(m, [a EXCEPT !.regs = regs, !.pc = x])
      /\ Does(N, p, b, j) = IF DividesByZero(i, a.regs) THEN Thrown(p, Null)
                            ELSE Now(p, [b EXCEPT !.regs = regs, !.pc = y])
  <2>1. /\ Does(M, m, a, i) = IF DividesByZero(i, a.regs) THEN Thrown(m, Null) ELSE Computes(m, a, i)
        /\ Does(N, p, b, j) = IF DividesByZero(j, b.regs) THEN Thrown(p, Null) ELSE Computes(p, b, j)
    BY DoesComputes
  <2>2. Computes(m, a, i) = Now(m, [a EXCEPT !.regs = regs, !.pc = x])
    BY DEF Computes, FitsFunction
  <2>3. Computes(p, b, j) = Now(p, [b EXCEPT !.regs = regs, !.pc = y])
    <3>1. b \in [function : {a.function}, pc : {b.pc}, tries : {a.tries}, closure : {a.closure},
                 regs : {a.regs}, rest : {a.rest}]
      BY ShiftIs
    <3>2. Computes(p, b, j) = Now(p, [b EXCEPT !.regs = Computed(j, a.regs), !.pc = b.pc + Ahead(j, a.regs)])
      BY <1>1, <3>1 DEF Computes
    <3> QED
      BY <3>2
  <2> QED
    BY <1>1, <2>1, <2>2, <2>3
<1>3. OnDomain(0..M[a.function].regs - 1, regs)
  <2>1. OnDomain(0..M[a.function].regs - 1, a.regs)
    BY DEF FitsFunction, OnDomain
  <2> QED
    BY <2>1, ComputedInside
<1>4. Shadows(M, n, S, Thrown(m, Null), Thrown(p, Null))
  BY ShadowThrown
<1>5. y = IF a.function = n THEN Place(S, x) ELSE x
  OBVIOUS
<1>6. a.function = n => x \in Nat \ {0}
  OBVIOUS
<1> HIDE DEF regs, x, y
<1>7. Shadows(M, n, S, Now(m, [a EXCEPT !.regs = regs, !.pc = x]), Now(p, [b EXCEPT !.regs = regs, !.pc = y]))
  BY <1>3, <1>5, <1>6, ShadowGoes
<1> QED
  BY <1>2, <1>4, <1>7

\* An instruction of another kind, in both.
LEMMA ShadowControls ==
    ASSUME NEW M, NEW N, NEW n, NEW S, NEW m, NEW p, NEW a, NEW b, NEW i,
           BothAt(M, N, n, S, m, p, a, b, i), i.op \in Controls
    PROVE  Shadows(M, n, S, Does(M, m, a, i), Does(N, p, b, i))
<1> DEFINE arguments == [k \in 1..i.c |-> a.regs[i.a + k]]
           D == 0..M[a.function].regs - 1
           goes(r) == [a EXCEPT !.regs = r, !.pc = a.pc + 1]
           went(r) == [b EXCEPT !.regs = r, !.pc = b.pc + 1]
           nexta == [a EXCEPT !.pc = @ + 1]
           nextb == [b EXCEPT !.pc = @ + 1]
<1>1. /\ Cleaned(M, N, n, S) /\ Shadows(M, n, S, m, p) /\ m.stack # <<>>
      /\ a = Last(m.stack) /\ b = Shift(S, n, a) /\ FitsFunction(M, a) /\ Stands(n, a)
      /\ a.function = n => i.op \notin Tries /\ Place(S, a.pc + 1) = Place(S, a.pc) + 1
      /\ i.op \in Calls \union ClosureCalls => AtCall(M, n, a)
  BY DEF BothAt
<1>2. /\ b.function = a.function /\ b.tries = a.tries /\ b.closure = a.closure /\ b.regs = a.regs
      /\ b.rest = a.rest /\ b.pc = IF a.function = n THEN Place(S, a.pc) ELSE a.pc
      /\ b \in [function : {a.function}, pc : {b.pc}, tries : {a.tries}, closure : {a.closure},
                regs : {a.regs}, rest : {a.rest}]
  BY <1>1, ShiftIs
<1>3. p.calls = m.calls /\ p.closures = m.closures /\ DOMAIN N = DOMAIN M
  BY <1>1 DEF Shadows, Cleaned
<1>4. /\ \A v : Shadows(M, n, S, Returned(M, m, v), Returned(N, p, v))
      /\ \A v : Shadows(M, n, S, Thrown(m, v), Thrown(p, v))
  BY <1>1, ShadowReturned, ShadowThrown
<1>5. OnDomain(D, a.regs) /\ \A v : OnDomain(D, [a.regs EXCEPT ![i.a] = v])
  BY <1>1 DEF FitsFunction, OnDomain
<1>6. ASSUME NEW q, NEW s, Shadows(M, n, S, q, s), q.stack = m.stack, NEW r, OnDomain(D, r)
      PROVE  Shadows(M, n, S, Now(q, goes(r)), Now(s, went(r)))
  <2> DEFINE x == a.pc + 1
             y == b.pc + 1
  <2>1. y = IF a.function = n THEN Place(S, x) ELSE x
    BY <1>1, <1>2
  <2>2. a.function = n => x \in Nat \ {0}
    BY <1>1 DEF Stands
  <2> HIDE DEF x, y
  <2>3. Shadows(M, n, S, Now(q, [a EXCEPT !.regs = r, !.pc = x]), Now(s, [b EXCEPT !.regs = r, !.pc = y]))
    BY <1>1, <1>6, <2>1, <2>2, ShadowGoes
  <2> QED
    BY <2>3 DEF x, y
<1>7. /\ nexta = goes(a.regs) /\ nextb = went(a.regs)
      /\ \A v : [nexta EXCEPT !.regs[i.a] = v] = goes([a.regs EXCEPT ![i.a] = v])
      /\ \A v : [nextb EXCEPT !.regs[i.a] = v] = went([a.regs EXCEPT ![i.a] = v])
      /\ \A r : [nexta EXCEPT !.regs = r] = goes(r) /\ [nextb EXCEPT !.regs = r] = went(r)
  <2>1. a \in [function : {a.function}, pc : {a.pc}, tries : {a.tries}, closure : {a.closure},
               regs : {a.regs}, rest : {a.rest}]
    BY <1>1 DEF FitsFunction
  <2> QED
    BY <1>2, <2>1
<1> HIDE DEF goes, went, nexta, nextb, D
<1>8. Faults(N, p, b, i) <=> Faults(M, m, a, i)
  BY <1>2, <1>3 DEF Faults, Resolves, HasUpvalue
<1> DEFINE runs == ~Faults(M, m, a, i)
<1>9. CASE ~runs
  BY <1>4, <1>8, <1>9 DEF Does
<1> USE DEF Controls, Tries, Calls, ClosureCalls, Upvalues
<1>10. CASE runs /\ i.op \in {"ret", "halt", "throw"}
  <2>1. Does(M, m, a, i) = IF i.op = "ret" THEN Returned(M, m, a.regs[i.a])
                           ELSE IF i.op = "halt" THEN Returned(M, m, Null) ELSE Thrown(m, a.regs[i.a])
    BY <1>10 DEF Does
  <2>2. Does(N, p, b, i) = IF i.op = "ret" THEN Returned(N, p, a.regs[i.a])
                           ELSE IF i.op = "halt" THEN Returned(N, p, Null) ELSE Thrown(p, a.regs[i.a])
    BY <1>2, <1>8, <1>10 DEF Does
  <2> QED
    BY <1>4, <2>1, <2>2
<1>11. CASE runs /\ i.op = "ffi_call"
  <2> DEFINE calls == Append(m.calls, [symbol |-> i.b, args |-> arguments])
             after == [a.regs EXCEPT ![i.a] = Int64(Len(calls))]
             q == [m EXCEPT !.calls = calls]
             s == [p EXCEPT !.calls = calls]
  <2>1. Does(M, m, a, i) = Now(q, goes(after))
    <3>1. Does(M, m, a, i) = Now(q, [nexta EXCEPT !.regs[i.a] = Int64(Len(calls))])
      BY <1>11 DEF Does, nexta
    <3> QED
      BY <1>7, <3>1
  <2>2. Does(N, p, b, i) = Now(s, went(after))
    <3>1. Does(N, p, b, i) = Now(s, [nextb EXCEPT !.regs[i.a] = Int64(Len(calls))])
      BY <1>2, <1>3, <1>8, <1>11 DEF Does, nextb
    <3> QED
      BY <1>7, <3>1
  <2>3. OnDomain(D, after)
    BY <1>5
  <2> HIDE DEF calls, after
  <2>5. q = [m EXCEPT !.calls = calls] /\ s = [p EXCEPT !.calls = calls]
    OBVIOUS
  <2> HIDE DEF q, s
  <2>4. Shadows(M, n, S, q, s) /\ q.stack = m.stack
    <3> DEFINE x == calls
    <3> HIDE DEF x
    <3>1. Shadows(M, n, S, m, p) /\ q = [m EXCEPT !.calls = x] /\ s = [p EXCEPT !.calls = x]
      BY <1>1, <2>5 DEF x
    <3> QED
      BY <3>1, ShadowAside
  <2> QED
    BY <1>6, <2>1, <2>2, <2>3, <2>4
<1>12. CASE runs /\ i.op = "closure"
  <2> DEFINE closures == Append(m.closures, Captured(i, a.regs))
             after == [a.regs EXCEPT ![i.a] = Handle(Len(m.closures) + 1)]
             q == [m EXCEPT !.closures = closures]
             s == [p EXCEPT !.closures = closures]
  <2>1. Does(M, m, a, i) = Now(q, goes(after))
    <3>1. Does(M, m, a, i) = Now(q, [nexta EXCEPT !.regs[i.a] = Handle(Len(m.closures) + 1)])
      BY <1>12 DEF Does, nexta
    <3> QED
      BY <1>7, <3>1
  <2>2. Does(N, p, b, i) = Now(s, went(after))
    <3>1. Does(N, p, b, i) = Now(s, [nextb EXCEPT !.regs[i.a] = Handle(Len(m.closures) + 1)])
      BY <1>2, <1>3, <1>8, <1>12 DEF Does, nextb
    <3> QED
      BY <1>7, <3>1
  <2>3. OnDomain(D, after)
    BY <1>5
  <2> HIDE DEF closures, after
  <2>5. q = [m EXCEPT !.closures = closures] /\ s = [p EXCEPT !.closures = closures]
    OBVIOUS
  <2> HIDE DEF q, s
  <2>4. Shadows(M, n, S, q, s) /\ q.stack = m.stack
    BY <1>1, <2>5, ShadowAside
  <2> QED
    BY <1>6, <2>1, <2>2, <2>3, <2>4
<1>13. CASE runs /\ i.op = "get_upval"
  <2> DEFINE after == [a.regs EXCEPT ![i.a] = m.closures[a.closure].upvalues[i.b + 1]]
  <2>1. Does(M, m, a, i) = Now(m, goes(after))
    <3>1. Does(M, m, a, i) = Now(m, [nexta EXCEPT !.regs[i.a] = m.closures[a.closure].upvalues[i.b + 1]])
      BY <1>13 DEF Does, nexta
    <3> QED
      BY <1>7, <3>1
  <2>2. Does(N, p, b, i) = Now(p, went(after))
    <3>1. Does(N, p, b, i) = Now(p, [nextb EXCEPT !.regs[i.a] = m.closures[a.closure].upvalues[i.b + 1]])
      BY <1>2, <1>3, <1>8, <1>13 DEF Does, nextb
    <3> QED
      BY <1>7, <3>1
  <2>3. OnDomain(D, after)
    BY <1>5
  <2> HIDE DEF after
  <2> QED
    BY <1>1, <1>6, <2>1, <2>2, <2>3
<1>14. CASE runs /\ i.op = "set_upval"
  <2> DEFINE closures == [m.closures EXCEPT ![a.closure].upvalues[i.b + 1] = a.regs[i.a]]
             q == [m EXCEPT !.closures = closures]
             s == [p EXCEPT !.closures = closures]
  <2>1. Does(M, m, a, i) = Now(q, goes(a.regs))
    <3>1. Does(M, m, a, i) = Now(q, nexta)
      BY <1>14 DEF Does, nexta
    <3> QED
      BY <1>7, <3>1
  <2>2. Does(N, p, b, i) = Now(s, went(a.regs))
    <3>0. Does(N, p, b, i) = Now([p EXCEPT !.closures[b.closure].upvalues[i.b + 1] = b.regs[i.a]], nextb)
      BY <1>8, <1>14 DEF Does, nextb
    <3>1. Does(N, p, b, i) = Now(s, nextb)
      BY <1>2, <1>3, <3>0
    <3> QED
      BY <1>7, <3>1
  <2> HIDE DEF closures
  <2>5. q = [m EXCEPT !.closures = closures] /\ s = [p EXCEPT !.closures = closures]
    OBVIOUS
  <2> HIDE DEF q, s
  <2>4. Shadows(M, n, S, q, s) /\ q.stack = m.stack
    BY <1>1, <2>5, ShadowAside
  <2> QED
    BY <1>5, <1>6, <2>1, <2>2, <2>4
<1>15. CASE runs /\ i.op \in Calls \union ClosureCalls
  <2>1. AtCall(M, n, Last(m.stack))
    BY <1>1, <1>15
  <2>2. \A f, args, closure : Shadows(M, n, S, Called(M, m, f, args, closure), Called(N, p, f, args, closure))
    BY <1>1, <2>1, ShadowCalled
  <2>3. Does(M, m, a, i) =
          IF i.op \in Calls THEN Called(M, m, i.b, arguments, NoClosure)
          ELSE Called(M, m, m.closures[a.regs[i.b].bits].function, arguments, a.regs[i.b].bits)
    BY <1>15 DEF Does
  <2>4. Does(N, p, b, i) =
          IF i.op \in Calls THEN Called(N, p, i.b, arguments, NoClosure)
          ELSE Called(N, p, m.closures[a.regs[i.b].bits].function, arguments, a.regs[i.b].bits)
    BY <1>2, <1>3, <1>8, <1>15 DEF Does
  <2> HIDE DEF arguments
  <2> QED
    BY <2>2, <2>3, <2>4
<1>16. CASE runs /\ i.op = "vararg"
  <2> DEFINE place(r) == i.b + r - i.a + 1
             after == [r \in DOMAIN a.regs |->
                         IF r \in i.a..i.a + i.c - 1
                         THEN IF place(r) \in DOMAIN a.rest THEN a.rest[place(r)] ELSE Null
                         ELSE a.regs[r]]
  <2>1. Does(M, m, a, i) = Now(m, goes(after))
    <3>1. Does(M, m, a, i) = Now(m, [nexta EXCEPT !.regs = after])
      BY <1>16 DEF Does, nexta
    <3> QED
      BY <1>7, <3>1
  <2>2. Does(N, p, b, i) = Now(p, went(after))
    <3>1. Does(N, p, b, i) = Now(p, [nextb EXCEPT !.regs = after])
      BY <1>2, <1>8, <1>16 DEF Does, nextb
    <3> QED
      BY <1>7, <3>1
  <2>3. OnDomain(D, after)
    <3>1. DOMAIN a.regs = D
      BY <1>5 DEF OnDomain
    <3> HIDE DEF place
    <3> QED
      BY <3>1 DEF OnDomain
  <2> HIDE DEF after
  <2> QED
    BY <1>1, <1>6, <2>1, <2>2, <2>3
<1>17. CASE runs /\ i.op \in Tries
  <2>1. a.function # n
    BY <1>1, <1>17
  <2>2. b = a
    BY <1>1, <2>1 DEF Shift
  <2>3. ASSUME NEW c, FitsFunction(M, c), c.function = a.function
        PROVE  Shadows(M, n, S, Now(m, c), Now(p, c))
    <3>1. Stands(n, c) /\ Shift(S, n, c) = c
      BY <2>1, <2>3 DEF Stands, Shift
    <3>2. Shadows(M, n, S, Now(m, c), Now(p, Shift(S, n, c)))
      BY <1>1, <2>3, <3>1, ShadowNow
    <3> QED
      BY <3>1, <3>2
  <2>4. CASE i.op = "try_begin"
    <3> DEFINE t == [catch |-> i.a, finally |-> i.b, end |-> i.c,
                     in_catch |-> FALSE, in_finally |-> FALSE, rethrow |-> FALSE, pending |-> Null]
               c == [nexta EXCEPT !.tries = Append(@, t)]
    <3>1. FitsFunction(M, c) /\ c.function = a.function
      BY <1>1 DEF FitsFunction, nexta
    <3>2. Does(M, m, a, i) = Now(m, c)
      BY <1>17, <2>4 DEF Does, nexta
    <3>3. Does(N, p, b, i) = Now(p, c)
      BY <1>8, <1>17, <2>2, <2>4 DEF Does, nexta
    <3> HIDE DEF c
    <3> QED
      BY <2>3, <3>1, <3>2, <3>3
  <2>5. CASE i.op \in {"try_end", "end_catch"}
    <3>1. FitsFunction(M, Completed(a)) /\ Completed(a).function = a.function
      <4>1. FitsFunction(M, Completed(a))
        BY <1>1, HandledInside
      <4> QED
        BY <1>1, <4>1 DEF Completed, FitsFunction
    <3>2. Does(M, m, a, i) = Now(m, Completed(a))
      BY <1>17, <2>5 DEF Does
    <3>3. Does(N, p, b, i) = Now(p, Completed(a))
      BY <1>8, <1>17, <2>2, <2>5 DEF Does
    <3> QED
      BY <2>3, <3>1, <3>2, <3>3
  <2>6. CASE i.op = "end_finally"
    <3> DEFINE t == Last(a.tries)
               left == [a EXCEPT !.tries = Front(a.tries)]
               c == [left EXCEPT !.pc = t.end]
    <3>1. /\ FitsFunction(M, left) /\ left.function = a.function
          /\ FitsFunction(M, c) /\ c.function = a.function
      BY <1>1 DEF FitsFunction
    <3>2. Does(M, m, a, i) = IF t.rethrow THEN Thrown(Now(m, left), t.pending) ELSE Now(m, c)
      BY <1>17, <2>6 DEF Does
    <3>3. Does(N, p, b, i) = IF t.rethrow THEN Thrown(Now(p, left), t.pending) ELSE Now(p, c)
      BY <1>8, <1>17, <2>2, <2>6 DEF Does
    <3> HIDE DEF t, left, c
    <3>4. Shadows(M, n, S, Now(m, left), Now(p, left)) /\ Shadows(M, n, S, Now(m, c), Now(p, c))
      BY <2>3, <3>1
    <3>5. Shadows(M, n, S, Thrown(Now(m, left), t.pending), Thrown(Now(p, left), t.pending))
      BY <1>1, <3>4, ShadowThrown
    <3> QED
      BY <3>2, <3>3, <3>4, <3>5
  <2> QED
    BY <1>17, <2>4, <2>5, <2>6
<1> QED
  BY <1>9, <1>10, <1>11, <1>12, <1>13, <1>14, <1>15, <1>16, <1>17

\* A jump that leads elsewhere computes the same, and is taken in the same cases.
LEMMA RedirectedDoes ==
    ASSUME NEW i, IsInst(i), i.op \in Relative, NEW d
    PROVE  /\ Redirected(i, d).op = i.op
           /\ \A regs : Mixes(Redirected(i, d), regs) <=> Mixes(i, regs)
           /\ \A regs : Computed(Redirected(i, d), regs) = Computed(i, regs)
           /\ \A regs : Jumps(Redirected(i, d), regs) <=> Jumps(i, regs)
           /\ Delta(Redirected(i, d)) = d
<1> DEFINE j == Redirected(i, d)
<1> USE DEF Relative, Conditional, FusedImm, Binary, Immediate, Step1
<1>1. i \in [op : {i.op}, flags : {i.flags}, a : {i.a}, b : {i.b}, c : {i.c}]
  BY DEF IsInst
<1>2. CASE i.op = "jmp"
  <2>1. j = [i EXCEPT !.a = d]
    BY <1>2 DEF Redirected, DeltaField
  <2>2. j.op = i.op /\ j.a = d
    BY <1>1, <2>1
  <2> HIDE DEF j
  <2>3. /\ j.op = i.op
        /\ \A regs : Mixes(j, regs) <=> Mixes(i, regs)
        /\ \A regs : Computed(j, regs) = Computed(i, regs)
        /\ \A regs : Jumps(j, regs) <=> Jumps(i, regs)
        /\ Delta(j) = d
    BY <1>2, <2>2 DEF Mixes, IntegerReads, Computed, Jumps, Delta, DeltaField
  <2> QED
    BY <2>3 DEF j
<1>3. CASE i.op \in Conditional \union {"dec_jnz"}
  <2>1. j = [i EXCEPT !.b = d]
    BY <1>3 DEF Redirected, DeltaField
  <2>2. j.op = i.op /\ j.a = i.a /\ j.b = d
    BY <1>1, <2>1
  <2> HIDE DEF j
  <2>3. /\ \A regs : Mixes(j, regs) <=> Mixes(i, regs)
        /\ \A regs : Computed(j, regs) = Computed(i, regs)
    BY <1>3, <2>2 DEF Mixes, IntegerReads, Computed
  <2>4. \A regs : Jumps(j, regs) <=> Jumps(i, regs)
    BY <1>3, <2>2 DEF Jumps
  <2>5. Delta(j) = d
    BY <1>3, <2>2 DEF Delta, DeltaField
  <2> QED
    BY <2>2, <2>3, <2>4, <2>5 DEF j
<1>4. CASE i.op \in {"add_dec_jnz"} \union FusedImm
  <2>1. j = [i EXCEPT !.c = d]
    BY <1>4 DEF Redirected, DeltaField
  <2>2. j.op = i.op /\ j.a = i.a /\ j.b = i.b /\ j.c = d
    BY <1>1, <2>1
  <2> HIDE DEF j
  <2>3. \A regs : Mixes(j, regs) <=> Mixes(i, regs)
    BY <1>4, <2>2 DEF Mixes, IntegerReads
  <2>4. \A regs : Computed(j, regs) = Computed(i, regs)
    BY <1>4, <2>2 DEF Computed
  <2>5. \A regs : Jumps(j, regs) <=> Jumps(i, regs)
    BY <1>4, <2>2 DEF Jumps
  <2>6. Delta(j) = d
    BY <1>4, <2>2 DEF Delta, DeltaField
  <2> QED
    BY <2>2, <2>3, <2>4, <2>5, <2>6 DEF j
<1> QED
  BY <1>2, <1>3, <1>4

\* Machine p is a machine of N.
LEMMA ShadowSound ==
    ASSUME NEW M, NEW N, NEW n, NEW S, Cleaned(M, N, n, S), NEW m, NEW p, Shadows(M, n, S, m, p),
           m.stack # <<>>
    PROVE  Sound(N, p) /\ Sound(M, m)
<1>1. /\ IsSequence(p.stack) /\ DOMAIN p.stack = 1..Len(m.stack) /\ Len(m.stack) \in Nat /\ Len(m.stack) # 0
      /\ \A k \in 1..Len(m.stack) : p.stack[k] = Shift(S, n, m.stack[k]) /\ FitsFunction(M, m.stack[k])
      /\ Len(p.stack) = Len(m.stack)
  BY ShadowStack
<1>2. ASSUME NEW k \in DOMAIN p.stack PROVE FitsFunction(N, p.stack[k])
  <2> DEFINE a == m.stack[k]
             b == p.stack[k]
  <2>1. FitsFunction(M, a) /\ b = Shift(S, n, a)
    BY <1>1
  <2> HIDE DEF a, b
  <2>2. /\ b.function = a.function /\ b.tries = a.tries /\ b.closure = a.closure /\ b.regs = a.regs
        /\ b.rest = a.rest
        /\ b \in [function : {a.function}, pc : {b.pc}, tries : {a.tries}, closure : {a.closure},
                  regs : {a.regs}, rest : {a.rest}]
    BY <2>1, ShiftIs
  <2>3. a.function \in DOMAIN N /\ N[a.function].regs = M[a.function].regs
    BY <2>1 DEF FitsFunction, Cleaned
  <2>4. FitsFunction(N, b)
    BY <2>1, <2>2, <2>3 DEF FitsFunction
  <2> QED
    BY <2>4 DEF b
<1>3. p.stack # <<>>
  BY <1>1, SequenceDomain
<1>4. MachineRecord(p) /\ p.how # "undefined" /\ Inside(M, m)
  BY DEF Shadows, Inside
<1> QED
  BY <1>1, <1>2, <1>3, <1>4 DEF Sound, Inside

\* Instruction j of N does what instruction i at pc of M does, and leads where i leads.
StandsFor(S, pc, i, j) ==
    /\ IsInst(i) /\ j.op = i.op /\ i.op \notin Tries /\ pc \in Nat \ {0}
    /\ i.op \notin Relative => j = i
    /\ \A regs : Mixes(j, regs) <=> Mixes(i, regs)
    /\ \A regs : Computed(j, regs) = Computed(i, regs)
    /\ \A regs : DividesByZero(j, regs) <=> DividesByZero(i, regs)
    /\ i.op \notin Controls => \A regs : /\ pc + Ahead(i, regs) \in Nat \ {0}
                                        /\ Place(S, pc) + Ahead(j, regs) = Place(S, pc + Ahead(i, regs))

\* What N has where an instruction stays.
LEMMA CleanedAt ==
    ASSUME NEW M, NEW N, NEW n, NEW S, Cleaned(M, N, n, S), NEW pc \in S, NEW i, i = M[n].code[pc],
           NEW j, j = N[n].code[Place(S, pc)]
    PROVE  StandsFor(S, pc, i, j)
<1>1. /\ pc \in DOMAIN M[n].code /\ i.op \notin Tries
      /\ Place(S, pc + 1) = Place(S, pc) + 1 /\ Place(S, pc) \in DOMAIN N[n].code
      /\ j = IF i.op \in Relative THEN Redirected(i, Place(S, pc + Delta(i)) - Place(S, pc)) ELSE i
  BY DEF Cleaned
<1>2. Accepted(M, M[n])
  BY VerifiedIsAccepted DEF Cleaned
<1>3. Fits(M, M[n], Len(M[n].code), pc, i) /\ pc \in 1..Len(M[n].code)
  BY <1>1, <1>2, CodeFits DEF Accepted
<1>4. IsInst(i) /\ pc \in Nat \ {0}
  BY <1>3 DEF Fits
<1>5. Place(S, pc) \in Nat \ {0}
  BY <1>4 DEF Cleaned
<1>6. CASE i.op \in Relative
  <2> DEFINE x == pc + Delta(i)
             d == Place(S, x) - Place(S, pc)
  <2>1. x \in Nat \ {0} /\ Delta(i) \in Int
    <3>1. x \in 1..Len(M[n].code)
      BY <1>3, <1>6 DEF Fits
    <3>2. Delta(i) \in Int
      BY <1>4, <1>6 DEF IsInst, Operands
    <3> QED
      BY <3>1, <3>2
  <2>2. Place(S, x) \in Nat \ {0}
    BY <2>1 DEF Cleaned
  <2>3. Place(S, pc) + d = Place(S, x)
    BY <1>5, <2>2
  <2>4. j = Redirected(i, d)
    BY <1>1, <1>6
  <2> HIDE DEF d
  <2>5. /\ j.op = i.op
        /\ \A regs : Mixes(j, regs) <=> Mixes(i, regs)
        /\ \A regs : Computed(j, regs) = Computed(i, regs)
        /\ \A regs : Jumps(j, regs) <=> Jumps(i, regs)
        /\ Delta(j) = d
    BY <1>4, <1>6, <2>4, RedirectedDoes
  <2>6. i.op # "div"
    BY <1>6 DEF Relative, Conditional, FusedImm
  <2>7. ASSUME NEW regs PROVE pc + Ahead(i, regs) \in Nat \ {0} /\ Place(S, pc) + Ahead(j, regs) = Place(S, pc + Ahead(i, regs))
    <3>1. CASE Jumps(i, Computed(i, regs))
      BY <2>1, <2>3, <2>5, <3>1 DEF Ahead
    <3>2. CASE ~Jumps(i, Computed(i, regs))
      BY <1>1, <1>4, <2>5, <3>2 DEF Ahead
    <3> QED
      BY <3>1, <3>2
  <2> QED
    BY <1>1, <1>4, <1>6, <2>5, <2>6, <2>7 DEF DividesByZero, StandsFor
<1>7. CASE i.op \notin Relative
  <2>1. j = i
    BY <1>1, <1>7
  <2>2. \A regs : Ahead(i, regs) = 1
    BY <1>7 DEF Ahead, Jumps, Relative, Conditional, FusedImm
  <2> QED
    BY <1>1, <1>4, <1>7, <2>1, <2>2 DEF StandsFor
<1> QED
  BY <1>6, <1>7

\* An instruction that stays, or one of another function, in both.
LEMMA ShadowDoes ==
    ASSUME NEW M, NEW N, NEW n, NEW S, Cleaned(M, N, n, S), NEW m, NEW p, Shadows(M, n, S, m, p),
           m.stack # <<>>, NEW a, a = Last(m.stack), a.pc \in DOMAIN M[a.function].code,
           a.function = n => a.pc \in S, NEW b, b = Shift(S, n, a)
    PROVE  /\ Shadows(M, n, S, Does(M, m, a, InstOf(M, a)), Does(N, p, b, InstOf(N, b)))
           /\ Mixes(InstOf(N, b), b.regs) <=> Mixes(InstOf(M, a), a.regs)
           /\ b.pc \in DOMAIN N[b.function].code
<1> DEFINE i == InstOf(M, a)
           j == InstOf(N, b)
<1>1. /\ Len(m.stack) \in Nat \ {0} /\ a = m.stack[Len(m.stack)]
      /\ FitsFunction(M, a) /\ Stands(n, a)
  BY ShadowStack DEF Last
<1>2. /\ b.function = a.function /\ b.regs = a.regs
      /\ b.pc = IF a.function = n THEN Place(S, a.pc) ELSE a.pc
  BY <1>1, ShiftIs
<1>3. a.function \in DOMAIN M
  BY <1>1 DEF FitsFunction
<1>4. CASE a.function # n
  <2>1. N[a.function] = M[a.function] /\ b = a
    BY <1>3, <1>4 DEF Cleaned, Shift
  <2>2. j = i /\ b.pc \in DOMAIN N[b.function].code
    BY <2>1 DEF InstOf
  <2> HIDE DEF i, j
  <2>3. CASE i.op \in Controls
    <3>1. BothAt(M, N, n, S, m, p, a, b, i)
      BY <1>1, <1>4 DEF BothAt, AtCall
    <3>2. Shadows(M, n, S, Does(M, m, a, i), Does(N, p, b, i))
      BY <2>3, <3>1, ShadowControls
    <3> QED
      BY <1>2, <2>2, <3>2 DEF i, j
  <2>4. CASE i.op \notin Controls
    <3>1. Shadows(M, n, S, Does(M, m, a, i), Does(N, p, b, i))
      BY <1>1, <1>2, <1>4, <2>4, ShadowComputes
    <3> QED
      BY <1>2, <2>2, <3>1 DEF i, j
  <2> QED
    BY <2>3, <2>4
<1>5. CASE a.function = n
  <2> DEFINE pc == a.pc
  <2>1. pc \in S /\ i = M[n].code[pc] /\ j = N[n].code[Place(S, pc)]
    BY <1>2, <1>5 DEF InstOf
  <2> HIDE DEF i, j, pc
  <2>2. /\ j.op = i.op /\ i.op \notin Tries
        /\ i.op \notin Relative => j = i
        /\ Mixes(j, a.regs) <=> Mixes(i, a.regs)
        /\ Computed(j, a.regs) = Computed(i, a.regs)
        /\ DividesByZero(j, a.regs) <=> DividesByZero(i, a.regs)
        /\ i.op \notin Controls => /\ pc + Ahead(i, a.regs) \in Nat \ {0}
                                  /\ Place(S, pc) + Ahead(j, a.regs) = Place(S, pc + Ahead(i, a.regs))
    <3>1. StandsFor(S, pc, i, j)
      BY <2>1, CleanedAt
    <3> QED
      BY <3>1 DEF StandsFor
  <2>3. pc \in DOMAIN M[n].code /\ Place(S, pc + 1) = Place(S, pc) + 1 /\ Place(S, pc) \in DOMAIN N[n].code
    BY <2>1 DEF Cleaned
  <2>4. b.pc \in DOMAIN N[b.function].code
    BY <1>2, <1>5, <2>3 DEF pc
  <2>5. CASE i.op \in Controls
    <3>1. i.op \notin Relative
      BY <2>5 DEF Controls, Relative, Conditional, FusedImm, Tries, Calls, ClosureCalls, Upvalues
    <3>2. BothAt(M, N, n, S, m, p, a, b, i)
      BY <1>1, <1>5, <2>1, <2>2, <2>3 DEF BothAt, AtCall, pc
    <3>3. Shadows(M, n, S, Does(M, m, a, i), Does(N, p, b, i))
      BY <2>5, <3>2, ShadowControls
    <3> QED
      BY <1>2, <2>2, <2>4, <3>1, <3>3 DEF i, j
  <2>6. CASE i.op \notin Controls
    <3>1. /\ a.pc + Ahead(i, a.regs) \in Nat \ {0}
          /\ b.pc + Ahead(j, a.regs) = Place(S, a.pc + Ahead(i, a.regs))
      BY <1>2, <1>5, <2>2, <2>6 DEF pc
    <3>2. Shadows(M, n, S, Does(M, m, a, i), Does(N, p, b, j))
      BY <1>1, <1>5, <2>2, <2>6, <3>1, ShadowComputes
    <3> QED
      BY <1>2, <2>2, <2>4, <3>2 DEF i, j
  <2> QED
    BY <2>5, <2>6
<1> QED
  BY <1>4, <1>5

\* A step of M: at a nop that is gone N is already behind it, otherwise N steps as well.
LEMMA ShadowStep ==
    ASSUME NEW M, NEW N, NEW n, NEW S, Cleaned(M, N, n, S), NEW m, NEW p, Shadows(M, n, S, m, p),
           m.how = "runs", m.stack # <<>>
    PROVE  Shadows(M, n, S, Step(M, m), p) \/ Shadows(M, n, S, Step(M, m), Step(N, p))
<1> DEFINE a == Last(m.stack)
           b == Shift(S, n, a)
           i == InstOf(M, a)
           j == InstOf(N, b)
           x == m.mixed \/ Mixes(i, a.regs)
           m2 == [m EXCEPT !.mixed = x]
           p2 == [p EXCEPT !.mixed = x]
<1>1. /\ Len(m.stack) \in Nat \ {0} /\ a = m.stack[Len(m.stack)] /\ Last(p.stack) = b
      /\ FitsFunction(M, a) /\ Stands(n, a)
  BY ShadowStack DEF Last
<1>2. /\ Sound(M, m) /\ Sound(N, p) /\ IsModule(M) /\ Verifies(M) /\ IsModule(N) /\ Verifies(N)
      /\ p.how = "runs" /\ p.mixed = m.mixed
  <2>1. Sound(M, m) /\ Sound(N, p)
    BY ShadowSound
  <2>2. p.how = "runs" /\ p.mixed = m.mixed
    BY DEF Shadows
  <2> QED
    BY <2>1, <2>2 DEF Cleaned
<1>3. /\ b.function = a.function /\ b.regs = a.regs
      /\ b.pc = IF a.function = n THEN Place(S, a.pc) ELSE a.pc
  BY <1>1, ShiftIs
<1>4. a.function \in DOMAIN M
  BY <1>1 DEF FitsFunction
<1>5. Shadows(M, n, S, m2, p2) /\ m2.stack = m.stack
  <2>1. x \in BOOLEAN
    BY DEF Shadows, Standing
  <2> HIDE DEF x
  <2>2. m2 = [m EXCEPT !.mixed = x] /\ p2 = [p EXCEPT !.mixed = x]
    OBVIOUS
  <2> HIDE DEF m2, p2
  <2> QED
    BY <2>1, <2>2, ShadowAside
<1>6. CASE a.pc \in DOMAIN M[a.function].code /\ (a.function = n => a.pc \in S)
  <2>1. Last(m2.stack) = a /\ m2.stack # <<>>
    BY <1>5
  <2>0. Step(M, m) = Does(M, m2, a, i)
    BY <1>2, <1>6, StepDoes
  <2> HIDE DEF m2, p2
  <2>2. /\ Shadows(M, n, S, Does(M, m2, a, i), Does(N, p2, b, j))
        /\ Mixes(j, b.regs) <=> Mixes(i, a.regs)
        /\ b.pc \in DOMAIN N[b.function].code
    <3> DEFINE c == a
    <3>1. c = Last(m2.stack) /\ b = Shift(S, n, c)
      BY <2>1
    <3>2. c.pc \in DOMAIN M[c.function].code /\ (c.function = n => c.pc \in S)
      BY <1>6
    <3> HIDE DEF b, c
    <3>3. /\ Shadows(M, n, S, Does(M, m2, c, InstOf(M, c)), Does(N, p2, b, InstOf(N, b)))
          /\ Mixes(InstOf(N, b), b.regs) <=> Mixes(InstOf(M, c), c.regs)
          /\ b.pc \in DOMAIN N[b.function].code
      BY <1>5, <2>1, <3>1, <3>2, ShadowDoes
    <3> QED
      BY <3>3 DEF c
  <2>3. Step(N, p) = Does(N, p2, b, j)
    <3>1. Step(N, p) = Does(N, [p EXCEPT !.mixed = p.mixed \/ Mixes(j, b.regs)], b, j)
      BY <1>1, <1>2, <2>2, StepDoes
    <3>2. [p EXCEPT !.mixed = p.mixed \/ Mixes(j, b.regs)] = p2
      BY <1>2, <2>2 DEF p2
    <3> QED
      BY <3>1, <3>2
  <2> QED
    BY <2>0, <2>2, <2>3
<1>7. CASE a.pc \notin DOMAIN M[a.function].code
  <2>1. b.pc \notin DOMAIN N[b.function].code
    BY <1>1, <1>3, <1>4, <1>7 DEF Cleaned, Stands
  <2>2. Step(M, m) = Stopped(m, "status", Null) /\ Step(N, p) = Stopped(p, "status", Null)
    BY <1>1, <1>7, <2>1 DEF Step
  <2> QED
    BY <2>2, ShadowStopped
<1>8. CASE a.function = n /\ a.pc \in DOMAIN M[n].code /\ a.pc \notin S
  <2>1. i.op = "nop" /\ Place(S, a.pc + 1) = Place(S, a.pc)
    BY <1>8 DEF Cleaned, InstOf
  <2>2. Step(M, m) = Does(M, m2, a, i)
    BY <1>2, <1>8, StepDoes
  <2>3. m2 = m
    <3>1. ~Mixes(i, a.regs)
      BY <2>1 DEF Mixes, IntegerReads, Binary, Immediate, Step1, FusedImm
    <3>2. m.mixed \in BOOLEAN /\ MachineRecord(m)
      BY DEF Shadows, Standing, Inside
    <3>3. x = m.mixed
      BY <3>1, <3>2
    <3> HIDE DEF x
    <3> QED
      BY <3>2, <3>3 DEF MachineRecord
  <2> HIDE DEF m2, i
  <2>4. Does(M, m, a, i) = Now(m, [a EXCEPT !.regs = a.regs, !.pc = a.pc + 1])
    <3>1. i.op \notin Controls /\ ~DividesByZero(i, a.regs)
      BY <2>1 DEF Controls, Tries, Calls, ClosureCalls, Upvalues, DividesByZero
    <3>2. Computed(i, a.regs) = a.regs /\ Ahead(i, a.regs) = 1
      BY <2>1 DEF Computed, Ahead, Jumps, Binary, Immediate, Step1, FusedImm, Conditional
    <3>3. Does(M, m, a, i) = Computes(m, a, i)
      BY <3>1, DoesComputes
    <3> QED
      BY <3>2, <3>3 DEF Computes
  <2> DEFINE c == [a EXCEPT !.regs = a.regs, !.pc = a.pc + 1]
  <2>5. /\ c.function = n /\ c.pc = a.pc + 1 /\ c.tries = a.tries /\ c.closure = a.closure
        /\ c.regs = a.regs /\ c.rest = a.rest /\ FitsFunction(M, c)
    BY <1>1, <1>8 DEF FitsFunction
  <2>6. Stands(n, c)
    BY <1>1, <1>8, <2>5 DEF Stands
  <2> DEFINE e == Shift(S, n, c)
  <2>7. e = b
    <3> HIDE DEF c
    <3>1. /\ e.function = c.function /\ e.tries = c.tries /\ e.closure = c.closure /\ e.regs = c.regs
          /\ e.rest = c.rest /\ e.pc = IF c.function = n THEN Place(S, c.pc) ELSE c.pc
          /\ e \in [function : {c.function}, pc : {e.pc}, tries : {c.tries},
                    closure : {c.closure}, regs : {c.regs}, rest : {c.rest}]
      BY <2>5, ShiftIs
    <3>2. /\ b.function = a.function /\ b.tries = a.tries /\ b.closure = a.closure /\ b.regs = a.regs
          /\ b.rest = a.rest
          /\ b \in [function : {a.function}, pc : {b.pc}, tries : {a.tries},
                    closure : {a.closure}, regs : {a.regs}, rest : {a.rest}]
      BY <1>1, ShiftIs
    <3> HIDE DEF b, e
    <3>3. FitsFunction(M, b)
      BY <1>1, <3>2 DEF FitsFunction
    <3>4. e.pc = b.pc
      BY <1>3, <1>8, <2>1, <2>5, <3>1
    <3> QED
      BY <1>8, <2>5, <3>1, <3>2, <3>3, <3>4, SameActivation
  <2> HIDE DEF c
  <2>8. Shadows(M, n, S, Now(m, c), Now(p, e))
    BY <2>5, <2>6, ShadowNow
  <2>9. Now(p, b) = p
    <3>1. IsSequence(p.stack) /\ p.stack # <<>> /\ MachineRecord(p)
      BY <1>2 DEF Sound, Inside
    <3>2. Append(Front(p.stack), Last(p.stack)) = p.stack
      <4>1. PICK T : p.stack \in Seq(T)
        BY <3>1 DEF IsSequence
      <4> QED
        BY <3>1, <4>1 DEF Front, Last
    <3> QED
      BY <1>1, <3>1, <3>2 DEF Now, MachineRecord
  <2>10. Shadows(M, n, S, Now(m, c), p)
    BY <2>7, <2>8, <2>9
  <2> QED
    BY <2>2, <2>3, <2>4, <2>10 DEF c
<1> QED
  BY <1>6, <1>7, <1>8

\* Wherever M gets, N gets in no more steps.
Behind(M, N, n, S, m, p, k) == \E j \in 0..k : Shadows(M, n, S, Course(M, m)[k], Course(N, p)[j])

\* N never falls behind.
LEMMA ShadowCourse ==
    ASSUME NEW M, NEW N, NEW n, NEW S, Cleaned(M, N, n, S), NEW m, NEW p, Shadows(M, n, S, m, p),
           Sound(M, m), NEW k \in Nat
    PROVE  Behind(M, N, n, S, m, p, k)
<1> DEFINE c == Course(M, m)
           d == Course(N, p)
           T == {l \in Nat : \E j \in 0..l : Shadows(M, n, S, c[l], d[j])}
<1>1. /\ c[0] = m /\ \A l \in Nat : c[l + 1] = IF c[l].how = "runs" THEN Step(M, c[l]) ELSE c[l]
      /\ d[0] = p /\ \A l \in Nat : d[l + 1] = IF d[l].how = "runs" THEN Step(N, d[l]) ELSE d[l]
  <2>1. \A P, q : /\ Course(P, q)[0] = q
                  /\ \A l \in Nat : Course(P, q)[l + 1] = IF Course(P, q)[l].how = "runs"
                                                   THEN Step(P, Course(P, q)[l]) ELSE Course(P, q)[l]
    BY CourseSteps
  <2> QED
    BY <2>1
<1>2. \A l \in Nat : Sound(M, c[l])
  BY CourseInside DEF Cleaned
<1> HIDE DEF c, d
<1>3. 0 \in T
  <2>1. 0 \in 0..0 /\ 0 \in Nat
    OBVIOUS
  <2> QED
    BY <1>1, <2>1
<1>4. ASSUME NEW l \in Nat, l \in T PROVE l + 1 \in T
  <2>1. PICK j \in 0..l : Shadows(M, n, S, c[l], d[j])
    BY <1>4
  <2>2. l + 1 \in Nat /\ j \in 0..l + 1 /\ j + 1 \in 0..l + 1 /\ j \in Nat
    OBVIOUS
  <2>3. d[j].how = c[l].how
    BY <2>1 DEF Shadows
  <2>4. CASE c[l].how # "runs"
    BY <1>1, <2>1, <2>2, <2>4
  <2>5. CASE c[l].how = "runs"
    <3>1. c[l].stack # <<>>
      BY <1>2, <2>5 DEF Sound
    <3>2. Shadows(M, n, S, Step(M, c[l]), d[j]) \/ Shadows(M, n, S, Step(M, c[l]), Step(N, d[j]))
      BY <2>1, <2>5, <3>1, ShadowStep
    <3>3. c[l + 1] = Step(M, c[l]) /\ d[j + 1] = Step(N, d[j])
      BY <1>1, <2>2, <2>3, <2>5
    <3> QED
      BY <2>2, <3>2, <3>3
  <2> QED
    BY <2>4, <2>5
<1>5. Nat \subseteq T
  <2> HIDE DEF T
  <2> QED
    BY <1>3, <1>4, CountingInduction
<1> QED
  BY <1>5 DEF c, d, Behind

\* So both end alike.
LEMMA CleanedEnds ==
    ASSUME NEW M, NEW N, NEW n, NEW S, Cleaned(M, N, n, S)
    PROVE  SameEnds(M, N)
<1> SUFFICES ASSUME NEW f, NEW fuel \in Nat, NEW args \in Seq(Values)
             PROVE  \/ Execute(M, f, args, fuel).how = "diverges" \/ Execute(M, f, args, fuel).mixed
                    \/ Execute(N, f, args, fuel) = Execute(M, f, args, fuel)
  BY DEF SameEnds
<1> DEFINE begin == [how |-> "runs", value |-> Null, calls |-> <<>>, closures |-> <<>>,
                     mixed |-> FALSE, stack |-> <<>>]
           m == Called(M, begin, f, args, NoClosure)
           p == Called(N, begin, f, args, NoClosure)
           result(end) == [how |-> IF end.how = "runs" THEN "diverges" ELSE end.how,
                           value |-> end.value, calls |-> end.calls, mixed |-> end.mixed]
           c == Course(M, m)[fuel]
           d == Course(N, p)[fuel]
<1>1. Execute(M, f, args, fuel) = result(c) /\ Execute(N, f, args, fuel) = result(d)
  BY DEF Execute
<1>2. Inside(M, begin) /\ Shadows(M, n, S, begin, begin) /\ begin.stack = <<>>
  <2>1. IsSequence(<<>>) /\ DOMAIN <<>> = {} /\ Len(<<>>) = 0
    BY DEF IsSequence
  <2>2. /\ begin.stack = <<>> /\ begin.mixed = FALSE /\ MachineRecord(begin) /\ begin.how # "undefined"
    BY DEF MachineRecord
  <2>3. <<>> = [k \in DOMAIN <<>> |-> Shift(S, n, <<>>[k])]
    BY <2>1
  <2> HIDE DEF begin
  <2>4. Inside(M, begin)
    BY <2>1, <2>2 DEF Inside
  <2>5. Standing(M, n, begin)
    <3>1. begin.mixed \in BOOLEAN
      BY <2>2
    <3>2. DOMAIN begin.stack = {}
      BY <2>1, <2>2
    <3>3. 1..Len(begin.stack) - 1 = {}
      <4>1. Len(begin.stack) = 0
        BY <2>1, <2>2
      <4> QED
        BY <4>1
    <3> QED
      BY <3>1, <3>2, <3>3, Zenon DEF Standing
  <2> QED
    BY <2>2, <2>3, <2>4, <2>5 DEF Shadows
<1> HIDE DEF begin
<1>3. Shadows(M, n, S, m, p)
  BY <1>2, ShadowCalled
<1>4. Sound(M, m)
  BY <1>2, CalledInside
<1> HIDE DEF m, p
<1>5. PICK j \in 0..fuel : Shadows(M, n, S, c, Course(N, p)[j])
  BY <1>3, <1>4, ShadowCourse DEF Behind
<1> DEFINE e == Course(N, p)[j]
<1>6. e.how = c.how /\ e.value = c.value /\ e.calls = c.calls /\ e.mixed = c.mixed
  BY <1>5 DEF Shadows
<1>7. CASE c.how # "runs"
  <2>1. fuel - j \in Nat /\ j \in Nat /\ j + (fuel - j) = fuel
    OBVIOUS
  <2>2. d = Course(N, e)[fuel - j]
    BY <2>1, CourseSplit
  <2> HIDE DEF e
  <2>3. d = e
    BY <1>6, <1>7, <2>1, <2>2, CourseStays
  <2> QED
    BY <1>1, <1>6, <2>3
<1>8. CASE c.how = "runs"
  BY <1>1, <1>8
<1> QED
  BY <1>7, <1>8

\* The new place of an instruction, or of the target of a jump before one that stays.
LEMMA NewPlaceIs ==
    ASSUME NEW code, IsSequence(code), NEW S, S = Staying(code), NEW pc \in Nat \ {0}, \E k \in S : k >= pc
    PROVE  NewPlace(code, pc) = Place(S, pc)
<1> DEFINE places == {k \in S : k >= pc}
           old == Min(places)
<1>1. S \subseteq 1..Len(code) /\ Len(code) \in Nat
  BY SequenceDomain DEF Staying
<1>2. places # {} /\ places \in SUBSET Nat
  BY <1>1
<1>3. old \in places /\ \A k \in places : old <= k
  <2>1. \E x \in places : \A y \in places : x =< y
    <3> HIDE DEF places
    <3> QED
      BY <1>2, LeastNumber
  <2> HIDE DEF places
  <2> QED
    BY <2>1 DEF Min
<1>4. old \in S /\ old >= pc /\ old \in Nat \ {0} /\ \A k \in S : k >= pc => old <= k
  BY <1>1, <1>3
<1> HIDE DEF old
<1>5. NewPlace(code, pc) = UpTo(S, old)
  BY <1>2 DEF NewPlace, UpTo, old
<1> HIDE DEF places
<1>6. UpTo(S, old - 1) = UpTo(S, pc - 1)
  <2>0. \A k \in S : k \in Nat
    BY <1>1
  <2>1. \A k \in S : k <= old - 1 <=> k <= pc - 1
    <3> SUFFICES ASSUME NEW k \in S
                 PROVE  k <= old - 1 <=> k <= pc - 1
      OBVIOUS
    <3>1. k \in Nat /\ pc \in Nat /\ old \in Nat /\ old >= pc
      BY <1>4, <2>0
    <3>2. k >= pc => old <= k
      BY <1>4
    <3> QED
      BY <3>1, <3>2
  <2>2. {k \in S : k <= old - 1} = {k \in S : k <= pc - 1}
    BY <2>1
  <2> QED
    BY <2>2 DEF UpTo
<1>7. UpTo(S, old) = UpTo(S, old - 1) + 1
  <2>1. Counts(S, Len(code))
    BY <1>1, CountedUpTo
  <2>2. old - 1 \in Nat /\ (old - 1) + 1 = old
    BY <1>4
  <2> QED
    BY <1>4, <2>1, <2>2 DEF Counts
<1> QED
  BY <1>5, <1>6, <1>7 DEF Place

\* The places of the instructions that stay, in order.
LEMMA PlacesInOrder ==
    ASSUME NEW L \in Nat, NEW S, S \subseteq 1..L
    PROVE  /\ Place(S, 1) = 1
           /\ \A pc \in Nat \ {0} : Place(S, pc) \in Nat \ {0}
           /\ \A pc \in Nat \ {0} : Place(S, pc + 1) = IF pc \in S THEN Place(S, pc) + 1 ELSE Place(S, pc)
           /\ \A pc \in S : Place(S, pc) = UpTo(S, pc) /\ Place(S, pc) \in 1..Cardinality(S)
           /\ \A pc \in Nat \ {0} : pc \notin 1..L => Place(S, pc) = Cardinality(S) + 1
           /\ \A x, y \in S : Place(S, x) = Place(S, y) => x = y
           /\ Cardinality(S) \in Nat
<1>1. Counts(S, L) /\ \A k \in S : k \in Nat \ {0}
  <2>1. Counts(S, L)
    BY CountedUpTo
  <2>2. \A k \in S : k \in Nat \ {0}
    OBVIOUS
  <2> QED
    BY <2>1, <2>2
<1>2. /\ Cardinality(S) \in Nat /\ UpTo(S, 0) = 0 /\ UpTo(S, L) = Cardinality(S)
      /\ \A n \in Nat : UpTo(S, n) \in 0..Cardinality(S)
      /\ \A n \in Nat : UpTo(S, n + 1) = IF n + 1 \in S THEN UpTo(S, n) + 1 ELSE UpTo(S, n)
  BY <1>1 DEF Counts
<1>3. \A pc \in Nat \ {0} : pc - 1 \in Nat /\ (pc - 1) + 1 = pc /\ (pc + 1) - 1 = pc /\ pc \in Nat
  OBVIOUS
<1>4. \A pc \in Nat \ {0} : Place(S, pc) \in Nat \ {0}
  BY <1>2, <1>3 DEF Place
<1>5. \A pc \in Nat \ {0} : UpTo(S, pc) = IF pc \in S THEN UpTo(S, pc - 1) + 1 ELSE UpTo(S, pc - 1)
  BY <1>2, <1>3
<1>6. \A pc \in Nat \ {0} : Place(S, pc + 1) = IF pc \in S THEN Place(S, pc) + 1 ELSE Place(S, pc)
  BY <1>3, <1>5 DEF Place
<1>7. \A pc \in S : Place(S, pc) = UpTo(S, pc) /\ Place(S, pc) \in 1..Cardinality(S)
  BY <1>1, <1>2, <1>4, <1>5 DEF Place
<1>8. ASSUME NEW pc \in Nat \ {0}, pc \notin 1..L PROVE Place(S, pc) = Cardinality(S) + 1
  <2>1. \A k \in S : k <= pc - 1 /\ k <= L
    BY <1>8
  <2>2. {k \in S : k <= pc - 1} = {k \in S : k <= L}
    BY <2>1
  <2> QED
    BY <1>2, <2>2 DEF Place, UpTo
<1>9. ASSUME NEW x \in S, NEW y \in S, x < y PROVE Place(S, x) # Place(S, y)
  <2>1. UpTo(S, x) <= UpTo(S, y - 1)
    <3> DEFINE X == {k \in S : k <= x}
               Y == {k \in S : k <= y - 1}
    <3>1. X \subseteq Y
      <4>1. \A k \in S : k <= x => k <= y - 1
        BY <1>1, <1>9
      <4> QED
        BY <4>1
    <3>2. IsFiniteSet(Y)
      <4>1. IsFiniteSet(1..L)
        BY FS_Interval
      <4>2. Y \in SUBSET (1..L)
        OBVIOUS
      <4> HIDE DEF Y
      <4> QED
        BY <4>1, <4>2, FS_Subset
    <3> HIDE DEF X, Y
    <3>3. Cardinality(X) <= Cardinality(Y)
      BY <3>1, <3>2, FS_Subset
    <3> QED
      BY <3>3 DEF X, Y, UpTo
  <2>2. UpTo(S, y) = UpTo(S, y - 1) + 1 /\ UpTo(S, x) \in Nat /\ UpTo(S, y - 1) \in Nat
    BY <1>1, <1>2, <1>3, <1>5
  <2> QED
    BY <1>7, <2>1, <2>2
<1>10. \A x, y \in S : Place(S, x) = Place(S, y) => x = y
  BY <1>1, <1>9
<1>11. Place(S, 1) = 1
  BY <1>2 DEF Place
<1> QED
  BY <1>2, <1>4, <1>6, <1>7, <1>8, <1>10, <1>11

\* What cleanup makes of code that has no try statement and in which every jump leads to an
\* instruction or before one.
CleanedCode(code, S, new) ==
    /\ DOMAIN new = 1..Cardinality(S) /\ S \subseteq DOMAIN code
    /\ \A pc \in DOMAIN code : code[pc].op \notin Tries /\ (pc \notin S => code[pc].op = "nop")
    /\ \A pc \in S : new[Place(S, pc)] =
          IF code[pc].op \in Relative
          THEN Redirected(code[pc], Place(S, pc + Delta(code[pc])) - Place(S, pc))
          ELSE code[pc]

\* Cleanup makes that of it.
LEMMA CleanupCode ==
    ASSUME NEW M, NEW f, AcceptsCode(M, f, f.code), KeepsCleanup(f.code),
           ~HasTry(f.code), Staying(f.code) # {}, Staying(f.code) # DOMAIN f.code
    PROVE  CleanedCode(f.code, Staying(f.code), Cleanup(f.code))
<1> DEFINE code == f.code
           S == Staying(code)
           c == Cardinality(S)
           moved(pc) == NewPlace(code, JumpTarget(code, pc)) - NewPlace(code, pc)
           from(k) == CHOOSE pc \in S : NewPlace(code, pc) = k
           inst(pc) == IF code[pc].op \in Relative THEN Redirected(code[pc], moved(pc)) ELSE code[pc]
           new == [k \in 1..c |-> inst(from(k))]
<1>1. Cleanup(code) = new
  BY DEF Cleanup, Redirected
<1>2. /\ IsSequence(code) /\ Len(code) \in Nat /\ DOMAIN code = 1..Len(code) /\ S \subseteq 1..Len(code)
  BY SequenceDomain DEF AcceptsCode, Staying
<1>3. \A pc \in DOMAIN code : code[pc].op \notin Tries /\ (pc \notin S => code[pc].op = "nop")
  BY DEF HasTry, Staying
<1>4. \A pc \in S : code[pc].op \in Relative =>
         /\ JumpTarget(code, pc) \in Nat \ {0} /\ \E k \in S : k >= JumpTarget(code, pc)
  <2>1. \A pc \in DOMAIN code : code[pc].op \in Relative => JumpTarget(code, pc) \in 1..Len(code)
    BY <1>2 DEF AcceptsCode, Fits, JumpTarget
  <2>2. \A pc \in DOMAIN code : code[pc].op \in Relative => \E k \in S : k >= JumpTarget(code, pc)
    BY DEF KeepsCleanup
  <2> QED
    BY <1>2, <2>1, <2>2
<1>5. ASSUME NEW pc \in Nat \ {0}, \E k \in S : k >= pc PROVE NewPlace(code, pc) = Place(S, pc)
  BY <1>2, <1>5, NewPlaceIs
<1>6. \A pc \in S : pc \in Nat \ {0} /\ pc >= pc /\ NewPlace(code, pc) = Place(S, pc)
  BY <1>2, <1>5
<1>7. /\ \A pc \in S : Place(S, pc) \in 1..c
      /\ \A x, y \in S : Place(S, x) = Place(S, y) => x = y
  <2> HIDE DEF S
  <2> QED
    BY <1>2, PlacesInOrder
<1>8. \A pc \in S : code[pc].op \in Relative => moved(pc) = Place(S, pc + Delta(code[pc])) - Place(S, pc)
  BY <1>4, <1>5, <1>6 DEF JumpTarget
<1> HIDE DEF code, S, moved
<1>9. ASSUME NEW pc \in S PROVE from(Place(S, pc)) = pc
  BY <1>6, <1>7
<1> HIDE DEF c, from
<1>10. \A pc \in S : new[Place(S, pc)] = inst(pc)
  BY <1>7, <1>9
<1>11. DOMAIN new = 1..c
  OBVIOUS
<1> HIDE DEF new
<1>12. CleanedCode(code, S, new)
  BY <1>2, <1>3, <1>8, <1>10, <1>11 DEF CleanedCode, c
<1> QED
  BY <1>1, <1>12 DEF S, code

\* Where no jump leads to a nop behind which nothing stays, cleanup keeps what the module does.
LEMMA CleanupEnds ==
    ASSUME NEW M, IsModule(M), Verifies(M), NEW n \in DOMAIN M, KeepsCleanup(M[n].code)
    PROVE  SameEnds(M, [M EXCEPT ![n].code = Cleanup(M[n].code)])
<1> DEFINE f == M[n]
           code == f.code
           new == Cleanup(code)
           S == Staying(code)
           N == [M EXCEPT ![n].code = new]
<1>1. Sized(f) /\ AcceptsCode(M, f, code) /\ IsSequence(code) /\ f = [f EXCEPT !.code = f.code]
  BY VerifiedIsAccepted DEF Accepted, FunctionRecord, Sized, AcceptsCode
<1>2. CASE HasTry(code) \/ S = {} \/ S = DOMAIN code
  <2>1. new = code
    BY <1>2 DEF Cleanup
  <2>2. N = M
    <3>1. M = [k \in DOMAIN M |-> M[k]]
      BY DEF IsModule, IsSequence
    <3>2. N = [M EXCEPT ![n] = [f EXCEPT !.code = f.code]]
      BY <2>1
    <3> HIDE DEF f, N
    <3>3. N = [M EXCEPT ![n] = M[n]]
      <4>1. [f EXCEPT !.code = f.code] = M[n]
        BY <1>1 DEF f
      <4> QED
        BY <3>2, <4>1
    <3> QED
      BY <3>1, <3>3
  <2> QED
    BY <2>2 DEF SameEnds
<1>3. CASE ~(HasTry(code) \/ S = {} \/ S = DOMAIN code)
  <2>1. CleanedCode(code, S, new)
    BY <1>1, <1>3, CleanupCode
  <2>2. AcceptsCode(M, f, new)
    BY <1>1, CleanupKeeps
  <2> HIDE DEF new
  <2>3. IsModule(N) /\ Verifies(N) /\ DOMAIN N = DOMAIN M
    BY <2>2, ReplacedKeeps
  <2>4. /\ \A k \in DOMAIN M \ {n} : N[k] = M[k]
        /\ N[n] = [M[n] EXCEPT !.code = new]
    BY DEF IsModule
  <2>5. M[n] \in [params : {M[n].params}, regs : {M[n].regs}, code : {M[n].code}, returns : {M[n].returns},
                  exported : {M[n].exported}, name : {M[n].name}, vararg : {M[n].vararg},
                  upvalues : {M[n].upvalues}]
    <3>1. Accepted(M, M[n])
      BY VerifiedIsAccepted
    <3> QED
      BY <3>1 DEF Accepted, FunctionRecord
  <2>6. /\ N[n].params = M[n].params /\ N[n].vararg = M[n].vararg /\ N[n].regs = M[n].regs
        /\ N[n].returns = M[n].returns /\ N[n].code = new
    BY <2>4, <2>5
  <2> HIDE DEF N
  <2>7. Len(code) \in Nat /\ DOMAIN code = 1..Len(code)
    BY <1>1, SequenceDomain
  <2> HIDE DEF S, code
  <2>8. S \subseteq 1..Len(code)
    BY <2>1, <2>7 DEF CleanedCode
  <2>9. /\ Place(S, 1) = 1
        /\ \A pc \in Nat \ {0} : Place(S, pc) \in Nat \ {0}
        /\ \A pc \in Nat \ {0} : Place(S, pc + 1) = IF pc \in S THEN Place(S, pc) + 1 ELSE Place(S, pc)
        /\ \A pc \in S : Place(S, pc) \in 1..Cardinality(S)
        /\ \A pc \in Nat \ {0} : pc \notin 1..Len(code) => Place(S, pc) = Cardinality(S) + 1
        /\ Cardinality(S) \in Nat
    BY <2>7, <2>8, PlacesInOrder
  <2>10. ASSUME NEW pc \in DOMAIN code
         PROVE
           /\ code[pc].op \notin Tries
           /\ IF pc \in S
              THEN /\ Place(S, pc + 1) = Place(S, pc) + 1 /\ Place(S, pc) \in DOMAIN new
                   /\ new[Place(S, pc)] =
                        IF code[pc].op \in Relative
                        THEN Redirected(code[pc], Place(S, pc + Delta(code[pc])) - Place(S, pc))
                        ELSE code[pc]
              ELSE code[pc].op = "nop" /\ Place(S, pc + 1) = Place(S, pc)
    <3>1. pc \in Nat \ {0}
      BY <2>7
    <3>2. code[pc].op \notin Tries /\ (pc \notin S => code[pc].op = "nop")
      BY <2>1 DEF CleanedCode
    <3>3. Place(S, pc + 1) = IF pc \in S THEN Place(S, pc) + 1 ELSE Place(S, pc)
      BY <2>9, <3>1
    <3>4. pc \in S => Place(S, pc) \in DOMAIN new
      BY <2>1, <2>9 DEF CleanedCode
    <3>5. pc \in S => new[Place(S, pc)] =
                        IF code[pc].op \in Relative
                        THEN Redirected(code[pc], Place(S, pc + Delta(code[pc])) - Place(S, pc))
                        ELSE code[pc]
      BY <2>1 DEF CleanedCode
    <3> QED
      BY <3>2, <3>3, <3>4, <3>5
  <2>11. \A pc \in Nat \ {0} : pc \notin DOMAIN code => Place(S, pc) \notin DOMAIN new
    <3>1. DOMAIN new = 1..Cardinality(S) /\ Cardinality(S) + 1 \notin 1..Cardinality(S)
      BY <2>1, <2>9 DEF CleanedCode
    <3> QED
      BY <2>7, <2>9, <3>1
  <2>12. S \subseteq DOMAIN code
    BY <2>1 DEF CleanedCode
  <2>13. Cleaned(M, N, n, S)
    <3>1. M[n].code = code /\ N[n].code = new
      BY <2>6 DEF code
    <3>2. \A k \in DOMAIN M : /\ N[k].params = M[k].params /\ N[k].vararg = M[k].vararg
                              /\ N[k].regs = M[k].regs /\ N[k].returns = M[k].returns
      BY <2>4, <2>6
    <3> QED
      BY <2>3, <2>4, <2>9, <2>10, <2>11, <2>12, <3>1, <3>2 DEF Cleaned
  <2>14. SameEnds(M, N)
    BY <2>13, CleanedEnds
  <2> QED
    BY <2>14 DEF N, new, code
<1> QED
  BY <1>2, <1>3

-----------------------------------------------------------------------------
(* All the passes of a level below 3                                       *)

\* Every pass but inline_small, where it is as it is below level 3.
PassBelow3 ==
    \/ Rewriting \/ TailcallPass \/ CleanupPass
    \/ LoopFusionPass /\ job.options.level # 3

\* A step of one of these passes keeps what every run that ends gives, if the model could
\* keep up.
LEMMA PassSame ==
    ASSUME OptimizerInv, PassBelow3, kept'
    PROVE  SameEnds(module, module')
<1>1. IsModule(module) /\ Verifies(module) /\ at \in DOMAIN module
  BY DEF OptimizerInv, PassBelow3, Rewriting, PeepholePass, DcePass, CopyPropPass, ConstFoldPass,
         TailcallPass, CleanupPass, LoopFusionPass, Runs
<1>2. CASE Rewriting
  BY <1>2, RewritingSame, SameRunsEnd
<1>3. CASE TailcallPass
  <2>1. module' = [module EXCEPT ![at].code = Tailcall(module[at].code)] /\ KeepsTailcall(module[at])
    BY <1>3 DEF TailcallPass, Leaves, Current
  <2>2. \A M : IsModule(M) /\ Verifies(M) =>
           \A n \in DOMAIN M : KeepsTailcall(M[n]) => SameEnds(M, [M EXCEPT ![n].code = Tailcall(M[n].code)])
    BY TailcallEnds
  <2> QED
    BY <1>1, <2>1, <2>2
<1>4. CASE CleanupPass
  <2>1. module' = [module EXCEPT ![at].code = Cleanup(module[at].code)] /\ KeepsCleanup(module[at].code)
    BY <1>4 DEF CleanupPass, Leaves, Current
  <2>2. \A M : IsModule(M) /\ Verifies(M) =>
           \A n \in DOMAIN M : KeepsCleanup(M[n].code) => SameEnds(M, [M EXCEPT ![n].code = Cleanup(M[n].code)])
    BY CleanupEnds
  <2> QED
    BY <1>1, <2>1, <2>2
<1>5. CASE LoopFusionPass /\ job.options.level # 3
  <2>1. module' = [module EXCEPT ![at].code = LoopFusion(module[at].code)] /\ KeepsFusion(module[at].code)
    BY <1>5 DEF LoopFusionPass, Leaves, Current
  <2>2. \A M : IsModule(M) /\ Verifies(M) =>
           \A n \in DOMAIN M : KeepsFusion(M[n].code) => SameEnds(M, [M EXCEPT ![n].code = LoopFusion(M[n].code)])
    BY FusionEnds
  <2> QED
    BY <1>1, <2>1, <2>2
<1> QED
  BY <1>2, <1>3, <1>4, <1>5 DEF PassBelow3

\* Below level 3 every pass but inline_small keeps what every run that ends gives.
THEOREM PassesKeepEnds == Spec => [][PassBelow3 /\ kept' => SameEnds(module, module')]_vars
<1>1. OptimizerInv /\ [Next]_vars => [PassBelow3 /\ kept' => SameEnds(module, module')]_vars
  BY PassSame
<1> QED
  BY <1>1, OptimizerInvariant, PTL DEF Spec

\* A run that has stopped is not changed by more fuel.
LEMMA MoreFuel ==
    ASSUME NEW M, NEW n, NEW args, NEW fuel \in Nat, NEW more \in Nat,
           Execute(M, n, args, fuel).how # "diverges"
    PROVE  Execute(M, n, args, fuel + more) = Execute(M, n, args, fuel)
<1> DEFINE begin == [how |-> "runs", value |-> Null, calls |-> <<>>, closures |-> <<>>,
                     mixed |-> FALSE, stack |-> <<>>]
           c == Course(M, Called(M, begin, n, args, NoClosure))
           result(end) == [how |-> IF end.how = "runs" THEN "diverges" ELSE end.how,
                           value |-> end.value, calls |-> end.calls, mixed |-> end.mixed]
           U == {k \in Nat : c[fuel + k] = c[fuel]}
<1>1. \A k \in Nat : Execute(M, n, args, k) = result(c[k])
  BY DEF Execute
<1>2. \A k \in Nat : Follows(M, c, k)
  BY CourseExists
<1> HIDE DEF c
<1>3. c[fuel].how # "runs"
  BY <1>1
<1>4. 0 \in U
  OBVIOUS
<1>5. ASSUME NEW k \in Nat, k \in U PROVE k + 1 \in U
  <2>1. fuel + (k + 1) \in 1..fuel + (k + 1) /\ fuel + (k + 1) - 1 = fuel + k /\ fuel + (k + 1) \in Nat
    OBVIOUS
  <2>2. c[fuel + (k + 1)] = IF c[fuel + k].how = "runs" THEN Step(M, c[fuel + k]) ELSE c[fuel + k]
    BY <1>2, <2>1 DEF Follows
  <2> QED
    BY <1>3, <1>5, <2>2
<1>6. more \in U
  <2>1. Nat \subseteq U
    <3> HIDE DEF U
    <3> QED
      BY <1>4, <1>5, CountingInduction
  <2> QED
    BY <2>1
<1>7. fuel + more \in Nat
  OBVIOUS
<1> HIDE DEF result
<1> QED
  BY <1>1, <1>6, <1>7

\* The names of these passes.
PassesBelow3 ==
    {"peephole", "const_fold", "copy_prop", "dce", "tailcall", "loop_fusion", "cleanup"}

\* The jobs in which no other pass runs.
BelowLevel3 == job.options.level # 3 /\ Pipeline(job.options) \in Seq(PassesBelow3)

\* The invariant: until now every run of the input that ends gives what it does in the module.
EndsInv ==
    BelowLevel3 =>
      /\ todo \in Seq(PassesBelow3)
      /\ status = "new" => module = job.module
      /\ status \notin {"new", "refused"} /\ kept =>
           meaning = Meaning(job.module, Fuel) /\ SameEnds(job.module, module)

\* It holds in every state.
LEMMA EndsInvariant == Spec => []EndsInv
<1>1. Init => EndsInv
  BY DEF Init, EndsInv, BelowLevel3
<1>2. OptimizerInv /\ EndsInv /\ [Next]_vars => EndsInv'
  <2> SUFFICES ASSUME OptimizerInv, EndsInv, [Next]_vars, BelowLevel3' PROVE EndsInv'
    BY DEF EndsInv
  <2>1. job' = job
    BY DEF Next, vars, VerifyInput, Leaves, PeepholePass, TailcallPass, LoopFusionPass, ConstFoldPass,
           CopyPropPass, DcePass, CleanupPass, InlineSmallPass, Finish
  <2>2. BelowLevel3 /\ job.options.level # 3
    BY <2>1 DEF BelowLevel3
  <2>3. /\ todo \in Seq(PassesBelow3)
        /\ status = "new" => module = job.module
        /\ status \notin {"new", "refused"} /\ kept =>
             meaning = Meaning(job.module, Fuel) /\ SameEnds(job.module, module)
    BY <2>2 DEF EndsInv
  <2>4. ASSUME todo' \in Seq(PassesBelow3), status = "running", status' # "new", meaning' = meaning,
               kept' => kept /\ SameEnds(module, module')
        PROVE  EndsInv'
    BY <2>1, <2>3, <2>4, SameEndsChain DEF EndsInv
  <2>5. CASE VerifyInput
    <3>1. SameEnds(module, module)
      BY DEF SameEnds
    <3> QED
      BY <2>1, <2>3, <2>5, <3>1 DEF VerifyInput, EndsInv
  <2>6. CASE PassBelow3
    <3>1. status = "running" /\ todo # <<>> /\ \E code, safe : Leaves(code, safe)
      BY <2>6 DEF PassBelow3, Rewriting, PeepholePass, DcePass, CopyPropPass, ConstFoldPass,
                  TailcallPass, CleanupPass, LoopFusionPass, Runs
    <3>2. todo' \in {todo, Tail(todo)} /\ status' = status /\ meaning' = meaning /\ (kept' => kept)
      BY <3>1 DEF Leaves
    <3>3. todo' \in Seq(PassesBelow3)
      BY <2>3, <3>1, <3>2
    <3>4. kept' => SameEnds(module, module')
      BY <2>6, PassSame
    <3> QED
      BY <2>4, <3>1, <3>2, <3>3, <3>4
  <2>7. CASE InlineSmallPass
    <3>1. Head(todo) = "inline_small" /\ todo # <<>>
      BY <2>7 DEF InlineSmallPass, Runs
    <3>2. Head(todo) \in PassesBelow3
      BY <2>3, <3>1
    <3> QED
      BY <3>1, <3>2 DEF PassesBelow3
  <2>8. CASE Finish
    BY <2>1, <2>3, <2>8 DEF Finish, EndsInv
  <2>9. CASE UNCHANGED vars
    BY <2>1, <2>3, <2>9 DEF vars, EndsInv, BelowLevel3
  <2> QED
    BY <2>2, <2>5, <2>6, <2>7, <2>8, <2>9 DEF Next, PassBelow3, Rewriting
<1> QED
  BY <1>1, <1>2, OptimizerInvariant, PTL DEF Spec

\* At levels 0, 1 and 2, without inline_small, the meaning of a verified module is kept as
\* long as each pass meets only code that it can handle: `kept`, a condition of MeaningKept,
\* which there is input to break, and then passes of these levels do change its meaning.
THEOREM BelowLevel3KeepsMeaning == Spec => [](BelowLevel3 => MeaningKept)
<1>1. EndsInv => (BelowLevel3 => MeaningKept)
  <2> SUFFICES ASSUME EndsInv, BelowLevel3, status \notin {"new", "refused"}, kept,
                      NEW args \in Arguments, meaning[args].how # "diverges", ~meaning[args].mixed
               PROVE  Same(meaning[args], Execute(module, 1, args, 2 * Fuel))
    BY DEF MeaningKept
  <2>1. meaning = Meaning(job.module, Fuel) /\ SameEnds(job.module, module)
    BY DEF EndsInv
  <2>2. meaning[args] = Execute(job.module, 1, args, Fuel)
    BY <2>1 DEF Meaning
  <2>3. Fuel \in Nat /\ 2 * Fuel = Fuel + Fuel /\ args \in Seq(Values)
    BY OptimizerAssumption
  <2>4. Execute(job.module, 1, args, 2 * Fuel) = meaning[args]
    BY <2>2, <2>3, MoreFuel
  <2>5. 2 * Fuel \in Nat
    BY <2>3
  <2>6. Execute(module, 1, args, 2 * Fuel) = meaning[args]
    BY <2>1, <2>3, <2>4, <2>5 DEF SameEnds
  <2> QED
    BY <2>6 DEF Same
<1> QED
  BY <1>1, EndsInvariant, PTL
=============================================================================
