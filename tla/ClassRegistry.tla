--------------------------- MODULE ClassRegistry ---------------------------
(***************************************************************************)
(* Classes: the registry of src/runtime/object_model.cpp with its C3       *)
(* method resolution order and the cache of it, and the loop with which    *)
(* tievm registers the class metadata of a module.                         *)
(*                                                                         *)
(* A class is a number and its declaration the sequence of its bases.      *)
(* Methods are an input of Lookup: no step depends on them.  One process   *)
(* either registers its classes itself, as an embedder does, or lets       *)
(* RegisterModuleClasses do it, as tievm does.                             *)
(***************************************************************************)
EXTENDS Integers, Sequences, SequencesExt, FiniteSets, FiniteSetsExt

CONSTANTS
    Modules,                \* the class metadata tievm may find: lists of declarations
    \* Bounds: the classes an embedder registers, and the bases of each.
    MaxClass, MaxBases

\* What the deserializer makes of a class: its name, and the names of its bases.
ClassNames == Nat \ {0}
Declarations == [name : ClassNames, bases : Seq(ClassNames)]
ASSUME MetadataAssumption == Modules \subseteq Seq(Declarations)

VARIABLES
    classes,                \* class -> its bases
    mro_cache,              \* class -> its order, for the classes that were asked for
    module,                 \* the declarations RegisterModuleClasses works on
    pending, next_round, available, progressed, status      \* its locals

loop == <<pending, next_round, available, progressed, status>>
vars == <<classes, mro_cache, module, loop>>

Known == DOMAIN classes
Names == 1..MaxClass
Extended(f, k, v) == [x \in DOMAIN f \cup {k} |-> IF x = k THEN v ELSE f[x]]

-----------------------------------------------------------------------------
(* MergeC3Impl and LinearizeClass.  A linearization is a record: whether   *)
(* there is one, and the order.                                            *)

Inconsistent == [ok |-> FALSE, mro |-> <<>>]

\* front says where each sequence has got to: what is before it has been erased.
Fronts(seqs) == [DOMAIN seqs -> Nat \ {0}]
Remaining(seqs, front) == {i \in DOMAIN seqs : front[i] <= Len(seqs[i])}
HeadOf(seqs, front, i) == seqs[i][front[i]]
TailOf(seqs, front, i) == {seqs[i][p] : p \in front[i] + 1..Len(seqs[i])}

\* The sequences whose head stands in no other's tail; the first is taken.
GoodHeads_AnyHead(seqs, front) == Remaining(seqs, front)
GoodHeads_FirstOnly(seqs, front) ==
    {i \in Remaining(seqs, front) : \A j \in Remaining(seqs, front) :
        i <= j /\ (i # j => HeadOf(seqs, front, i) \notin TailOf(seqs, front, j))}
GoodHeads(seqs, front) ==
    {i \in Remaining(seqs, front) : \A j \in Remaining(seqs, front) \ {i} :
        HeadOf(seqs, front, i) \notin TailOf(seqs, front, j)}

\* The candidate leaves the front of every sequence.
Popped(seqs, front, c) ==
    [i \in DOMAIN seqs |->
        IF i \in Remaining(seqs, front) /\ HeadOf(seqs, front, i) = c
        THEN front[i] + 1 ELSE front[i]]

\* The order of what remains.
Merging(seqs) ==
    LET merge[front \in Fronts(seqs)] ==
        LET good == GoodHeads(seqs, front)
            c == HeadOf(seqs, front, Min(good))
            rest == merge[Popped(seqs, front, c)]
        IN  IF Remaining(seqs, front) = {} THEN [ok |-> TRUE, mro |-> <<>>]
            ELSE IF good # {} /\ rest.ok THEN [ok |-> TRUE, mro |-> <<c>> \o rest.mro]
            ELSE Inconsistent
    IN  merge
MergeC3(seqs) == Merging(seqs)[[i \in DOMAIN seqs |-> 1]]

\* What is merged: the order of each base, and the bases themselves.
Sequences_NoLocal(orders, bases) == orders
SequencesToMerge(orders, bases) == orders \o <<bases>>

\* The registry has no cycle (bases are registered first), so the recursion ends;
\* memo and visiting only make it faster.
Linearizations ==
    LET lin[c \in Known] ==
        LET of == [b \in ToSet(classes[c]) |-> lin[b]]
            orders == [i \in DOMAIN classes[c] |-> of[classes[c][i]].mro]
            merged == MergeC3(SequencesToMerge(orders, classes[c]))
        IN  IF (\A b \in DOMAIN of : of[b].ok) /\ merged.ok
            THEN [ok |-> TRUE, mro |-> <<c>> \o merged.mro]
            ELSE Inconsistent
    IN  lin

\* Invoke: the first class of the order that has the method decides; a private one
\* is refused even when a later class has a public one.
NoMethod == 0
Lookup_Last(mro, having) ==
    LET found == {i \in DOMAIN mro : mro[i] \in having}
    IN  IF found = {} THEN NoMethod ELSE mro[Max(found)]
Lookup(mro, having) ==
    LET found == {i \in DOMAIN mro : mro[i] \in having}
    IN  IF found = {} THEN NoMethod ELSE mro[Min(found)]
Invocable(mro, having, private, allow_private) ==
    /\ Lookup(mro, having) # NoMethod
    /\ Lookup(mro, having) \in private => allow_private

-----------------------------------------------------------------------------
(* ObjectModel                                                             *)

\* RegisterClass: the name is new, the bases are known; every cached order goes.
Registers(n, bases) ==
    /\ classes' = Extended(classes, n, bases)
    /\ mro_cache' = [c \in {} |-> <<>>]

\* An embedder numbers its classes as it registers them.
RegisterClass(bases) ==
    /\ status = "idle"
    /\ Cardinality(Known) < MaxClass
    /\ ToSet(bases) \subseteq Known
    /\ Registers(Cardinality(Known) + 1, bases)
    /\ UNCHANGED <<module, loop>>

\* ComputeMro, Linearize and Invoke compute the order when it is not cached, and
\* cache it unless there is none.
ComputeMro(c) ==
    /\ c \in Known \ DOMAIN mro_cache
    /\ LET lin == Linearizations[c]
       IN  lin.ok /\ mro_cache' = Extended(mro_cache, c, lin.mro)
    /\ UNCHANGED <<classes, module, loop>>

-----------------------------------------------------------------------------
(* RegisterModuleClasses                                                   *)

StartModule(m) ==
    /\ status = "idle" /\ Known = {}
    /\ module' = m
    /\ pending' = m
    /\ next_round' = <<>> /\ progressed' = FALSE
    /\ available' = Known
    /\ status' = IF m = <<>> THEN "ok" ELSE "running"
    /\ UNCHANGED <<classes, mro_cache>>

Ready_SomeBase(decl) == decl.bases = <<>> \/ ToSet(decl.bases) \cap available # {}
Ready(decl) == ToSet(decl.bases) \subseteq available

\* The next declaration of this round: one whose bases are not all available waits.
Postpone ==
    /\ status = "running" /\ pending # <<>>
    /\ ~Ready(Head(pending))
    /\ next_round' = Append(next_round, Head(pending))
    /\ pending' = Tail(pending)
    /\ UNCHANGED <<classes, mro_cache, module, available, progressed, status>>

\* The others are registered; AlreadyExists is no error, an unknown base is.
RegisterDeclared ==
    /\ status = "running" /\ pending # <<>>
    /\ LET decl == Head(pending)
           refused == decl.name \notin Known /\ ~(ToSet(decl.bases) \subseteq Known)
       IN  /\ Ready(decl)
           /\ IF decl.name \in Known \/ refused
              THEN UNCHANGED <<classes, mro_cache>>
              ELSE Registers(decl.name, decl.bases)
           /\ status' = IF refused THEN "failed" ELSE status
           /\ available' = available \cup {decl.name}
    /\ progressed' = TRUE
    /\ pending' = Tail(pending)
    /\ UNCHANGED <<module, next_round>>

\* The end of a round: the classes it registered stay, also when it fails.
RoundFails_Never == FALSE
RoundFails == ~progressed

EndRound ==
    /\ status = "running" /\ pending = <<>>
    /\ pending' = next_round
    /\ next_round' = <<>> /\ progressed' = FALSE
    /\ status' = IF RoundFails THEN "failed" ELSE IF next_round = <<>> THEN "ok" ELSE "running"
    /\ UNCHANGED <<classes, mro_cache, module, available>>

-----------------------------------------------------------------------------
Init ==
    /\ classes = [c \in {} |-> <<>>] /\ mro_cache = [c \in {} |-> <<>>]
    /\ module = <<>> /\ pending = <<>> /\ next_round = <<>>
    /\ available = {} /\ progressed = FALSE
    /\ status = "idle"

Loop == Postpone \/ RegisterDeclared \/ EndRound

Next ==
    \/ \E n \in 0..MaxBases : \E bases \in [1..n -> Known] : RegisterClass(bases)
    \/ \E c \in Known : ComputeMro(c)
    \/ \E m \in Modules : StartModule(m)
    \/ Loop

\* The loop is the code of one thread.
Spec == Init /\ [][Next]_vars /\ WF_vars(Loop)
-----------------------------------------------------------------------------
(* Properties                                                              *)

\* A class and everything it inherits from, directly or not.
Ancestry(c) ==
    LET up[d \in Known] == {d} \cup UNION {up[b] : b \in ToSet(classes[d])}
    IN  up[c]

\* Where a class first stands in an order.
Place(mro, c) == Min({i \in DOMAIN mro : mro[i] = c})
Before(mro, c, d) == Place(mro, c) < Place(mro, d)

\* A method resolution order holds the class and what it inherits from, and
\* nothing else, with every class before its own bases.
MroExtendsInheritance ==
    \A c \in DOMAIN mro_cache :
        /\ ToSet(mro_cache[c]) = Ancestry(c)
        /\ \A d \in Ancestry(c) : \A b \in ToSet(classes[d]) : Before(mro_cache[c], d, b)

\* The bases of a class, and of each class it inherits from, keep the order in
\* which the class names them.
MroKeepsLocalOrder ==
    \A c \in DOMAIN mro_cache : \A d \in Ancestry(c) :
        \A i, j \in DOMAIN classes[d] :
            Place(classes[d], classes[d][i]) < Place(classes[d], classes[d][j])
                => Before(mro_cache[c], classes[d][i], classes[d][j])

\* The order of a class agrees with the orders of its bases: inheriting from a
\* class does not change which of two methods wins in it.
MroMonotonic ==
    \A c \in DOMAIN mro_cache : \A b \in ToSet(classes[c]) :
        LET order == Linearizations[b].mro
        IN  \A x, y \in ToSet(order) : Before(order, x, y) => Before(mro_cache[c], x, y)

\* A class has no order only when there can be none: what is merged for it, each of them
\* with an order of its own, puts some classes in a cycle.  Not so when a class in it
\* names a base twice: the merge may then give up.
Merged(c) ==
    ToSet(SequencesToMerge([i \in DOMAIN classes[c] |-> Linearizations[classes[c][i]].mro], classes[c]))
Precedes(c, x, y) == \E s \in Merged(c) : {x, y} \subseteq ToSet(s) /\ Before(s, x, y)
NamesBaseTwice(c) == Cardinality(ToSet(classes[c])) < Len(classes[c])

MroFailsOnlyOnConflict ==
    \A c \in Known :
        /\ ~Linearizations[c].ok
        /\ \A b \in ToSet(classes[c]) : Linearizations[b].ok
        /\ \A d \in Ancestry(c) : ~NamesBaseTwice(d)
        => \E S \in (SUBSET Ancestry(c)) \ {{}} : \A x \in S : \E y \in S : Precedes(c, y, x)

\* Whichever classes have a method, Invoke runs the one of a class that no class
\* between it and the object's own overrides; a private override hides public ones.
MostSpecificWins ==
    \A c \in DOMAIN mro_cache : \A having \in SUBSET Ancestry(c) :
        LET found == Lookup(mro_cache[c], having)
        IN  /\ found = NoMethod <=> having = {}
            /\ \A d \in having \ {found} : found \notin Ancestry(d)
            /\ having # {} => ~Invocable(mro_cache[c], having, {found}, FALSE)

\* The declarations that can be registered in some order: the least set of names
\* closed under "all bases are there".
Resolvable ==
    LET names == {module[i].name : i \in DOMAIN module}
        Closed(S) == \A i \in DOMAIN module :
                        ToSet(module[i].bases) \subseteq S => module[i].name \in S
    IN  {x \in names : \A S \in SUBSET names : Closed(S) => x \in S}

\* Whatever order the metadata lists its classes in, RegisterModuleClasses registers
\* those that can be registered, and fails if and only if some are left over.
LoadResolves ==
    status \in {"ok", "failed"} =>
        /\ Known = Resolvable
        /\ status = "ok" <=>
             \A i \in DOMAIN module : ToSet(module[i].bases) \subseteq Resolvable

\* RegisterModuleClasses ends, with cycles and missing bases in the metadata too.
LoadEnds == status = "running" ~> status \in {"ok", "failed"}
=============================================================================
