----------------------------- MODULE AotClasses -----------------------------
(***************************************************************************)
(* The ahead-of-time compiler resolves methods when it compiles: the class *)
(* table that src/aot/aot_pipeline.cpp builds from the metadata of the one *)
(* module it translates, with a method resolution order of its own, beside *)
(* the registry that tievm fills from the same metadata at run time.  A    *)
(* class is its index in the metadata, and an object holds its class.      *)
(***************************************************************************)
EXTENDS ClassRegistry

-----------------------------------------------------------------------------
(* BuildClassMetadata and LinearizeClass                                   *)

Indices == DOMAIN module
Declares(name) == {i \in Indices : module[i].name = name}
DistinctNames == \A i, j \in Indices : module[i].name = module[j].name => i = j
BasesDeclared == \A i \in Indices : \A b \in ToSet(module[i].bases) : Declares(b) # {}
BaseIndices(i) == [k \in DOMAIN module[i].bases |-> Min(Declares(module[i].bases[k]))]

\* The same loop as the registry's MergeC3Impl, on indices.
MergeC3Indices(seqs) == MergeC3(seqs)

AotToMerge_OrdersOnly(orders, bases) == orders
AotToMerge(orders, bases) == orders \o <<bases>>

\* visiting: the classes whose linearization has begun and is not done.
AotLinearizations ==
    LET lin[call \in Indices \X (SUBSET Indices)] ==
        LET i == call[1]
            visiting == call[2]
            of == [b \in ToSet(BaseIndices(i)) |-> lin[<<b, visiting \cup {i}>>]]
            orders == [k \in DOMAIN BaseIndices(i) |-> of[BaseIndices(i)[k]].mro]
        IN  IF i \in visiting \/ \E b \in DOMAIN of : ~of[b].ok THEN Inconsistent
            ELSE LET merged == MergeC3Indices(AotToMerge(orders, BaseIndices(i)))
                 IN  IF merged.ok THEN [ok |-> TRUE, mro |-> <<i>> \o merged.mro]
                                  ELSE Inconsistent
    IN  [i \in Indices |-> lin[<<i, {}>>]]

CompilesClasses ==
    DistinctNames /\ BasesDeclared /\ \A i \in Indices : AotLinearizations[i].ok

-----------------------------------------------------------------------------
(* What is emitted for new_object and invoke                               *)

\* new_object stores the class in the object.
EmittedClassId(name) == Min(Declares(name))

\* The class whose method is called, or none: a private method is not called.
ResolveInvokeMethod(i, having, private) ==
    LET mro == AotLinearizations[i].mro
        found == {k \in DOMAIN mro : module[mro[k]].name \in having}
        name == module[mro[Min(found)]].name
    IN  IF found = {} \/ name \in private THEN NoMethod ELSE name

\* invoke switches on the object's class: one case for each that has the method, and else a
\* panic.
EmittedInvoke(id, having, private) ==
    LET cases == {i \in Indices : ResolveInvokeMethod(i, having, private) # NoMethod}
    IN  IF id \in cases THEN ResolveInvokeMethod(id, having, private) ELSE NoMethod

-----------------------------------------------------------------------------
\* A module's classes compile if and only if the registry takes them all, none of them
\* declared twice, and has an order for each; every invoke in the compiled program then
\* calls the method that ObjectModel::Invoke runs, and panics where that returns an error.
CompiledDispatchSame ==
    status \in {"ok", "failed"} =>
        /\ CompilesClasses <=>
             status = "ok" /\ DistinctNames /\ \A c \in Known : Linearizations[c].ok
        /\ CompilesClasses =>
             \A name \in Known : \A having, private \in SUBSET Known :
                 LET mro == Linearizations[name].mro
                 IN  EmittedInvoke(EmittedClassId(name), having, private) =
                       IF Invocable(mro, having, private, FALSE)
                       THEN Lookup(mro, having) ELSE NoMethod
=============================================================================
