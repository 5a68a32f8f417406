------------------------------ MODULE FfiCalls ------------------------------
(***************************************************************************)
(* Which native function an ffi_call reaches: the loader's table of        *)
(* modules (ModuleLoader), the execution of a module by its owner or as a  *)
(* copy of a loaded one (src/runtime/vm_instance.cpp), the fall back to    *)
(* another module (src/runtime/vm_thread.cpp), and the two caches of call  *)
(* plans (src/ffi/ffi_bridge.cpp).  A thread takes FfiBridge::mu_ once to  *)
(* look a plan up and once to store it; other threads, the loaders among   *)
(* them, run in between.                                                   *)
(*                                                                         *)
(* A plan is the native function it calls; arguments and their conversion  *)
(* are left out.  Copies on a thread's stack take the same address again   *)
(* at each call: when they do not, a plan is looked up in vain, which      *)
(* changes nothing.  GetModulePtr has no caller in the program and is left *)
(* out.                                                                    *)
(***************************************************************************)
EXTENDS ModuleLoader

CONSTANTS
    Threads,
    Missing,        \* the natives whose symbol cannot be found in its library
    Owned,          \* the images a host keeps and runs itself
    HostSymbols     \* the symbols a host may register

Images == Owned \cup Loaded

\* A new content of a module comes with a new version.
ASSUME VersionAssumption ==
    /\ \A i \in Owned : IsImage(i)
    /\ \A i, j \in Images : i.name = j.name /\ i.version = j.version => i = j

Failed == "failed"
ASSUME ConstantsAssumption ==
    /\ 0 \in Fns /\ Missing \subseteq Natives
    /\ None \notin Natives /\ None \notin Symbols /\ None \notin Images
    /\ None \notin {Failed, "host"}
    /\ Failed \notin Natives

\* Where a module object can be: its owner's, or one of the copies on a stack, made by
\* ExecuteLoadedModule and by the fall back.
Own(i) == <<"own", i.name, i.version>>
Copy(t) == <<"copy", t, 0>>
FallbackCopy(t) == <<"fallback", t, 0>>
StackAddresses == {Copy(t) : t \in Threads} \cup {FallbackCopy(t) : t \in Threads}
Addresses == {Own(i) : i \in Images} \cup StackAddresses

VARIABLES
    registered,     \* native_functions_: the symbols the host registered
    fast, slow,     \* dynamic_plan_fast_cache_, dynamic_plan_cache_
    task            \* thread -> its ffi_call

plans == <<fast, slow>>
vars == <<loaderVars, registered, plans, task>>

NoTask == [pc |-> "idle"]

-----------------------------------------------------------------------------
(* Execution up to the ffi_call                                            *)

\* A function with a header calls the symbol of its header, as the builders emit
\* it; another one calls any symbol its module binds, or any at all when it binds
\* none.
CallsSymbol(i, fn, symbol) ==
    IF i.header[fn] # None THEN symbol = i.header[fn]
    ELSE DOMAIN i.binds = {} \/ symbol \in DOMAIN i.binds

Begin(t, i, addr, fn, symbol) ==
    /\ task[t] = NoTask
    /\ CallsSymbol(i, fn, symbol)
    /\ task' = [task EXCEPT ![t] =
         [pc |-> "resolve", image |-> i, addr |-> addr, fn |-> fn, symbol |-> symbol,
          plan |-> None]]
    /\ UNCHANGED <<loaderVars, registered, plans>>

\* ExecuteModule runs the caller's object, ExecuteLoadedModule a copy.
ExecuteModule(t, i, fn, symbol) == Begin(t, i, Own(i), fn, symbol)

ExecuteLoadedModule(t, n, fn, symbol) ==
    /\ modules[n] # None
    /\ Begin(t, modules[n], Copy(t), fn, symbol)

RegisterFunction(symbol) ==
    /\ registered' = registered \cup {symbol}
    /\ UNCHANGED <<loaderVars, plans, task>>

-----------------------------------------------------------------------------
(* CallBoundFunction and ResolveDynamicPlan                                *)

At(t, pc) == task[t].pc = pc
Continue(t, pc, plan) == task' = [task EXCEPT ![t].pc = pc, ![t].plan = plan]

\* A module without bindings calls what the host registered; else the interpreter
\* looks for a module that binds the symbol, and calls as if from its function 0.
Fallback_Caller(image, found) == image
Fallback(image, found) == found

CallFunction(t) ==
    /\ At(t, "resolve") /\ DOMAIN task[t].image.binds = {}
    /\ LET found == FindModuleByFfiSymbol(task[t].symbol)
       IN  \/ task[t].symbol \in registered /\ Continue(t, "done", "host")
           \/ /\ task[t].symbol \notin registered /\ found = None
              /\ Continue(t, "done", Failed)
           \/ /\ task[t].symbol \notin registered /\ found # None
              /\ task' = [task EXCEPT ![t].image = Fallback(task[t].image, found),
                                      ![t].addr = FallbackCopy(t), ![t].fn = 0]
    /\ UNCHANGED <<loaderVars, registered, plans>>

\* The symbol whose binding is called.
UsesHeader(k) == k.image.header[k.fn] # None
BoundSymbol(k) == IF UsesHeader(k) THEN k.image.header[k.fn] ELSE k.symbol

\* Keys: a function with a header goes by its module's address, another by name,
\* version, function and symbol.
FastKey(k) == <<k.addr, k.fn>>
PlanCacheKey_NoVersion(k) == <<k.image.name, 0, k.fn, k.symbol>>
PlanCacheKey(k) == <<k.image.name, k.image.version, k.fn, k.symbol>>

Cached(k) == IF UsesHeader(k) THEN fast[FastKey(k)] ELSE slow[PlanCacheKey(k)]

Lookup(t) ==
    /\ At(t, "resolve") /\ DOMAIN task[t].image.binds # {}
    /\ IF Cached(task[t]) # None
       THEN Continue(t, "done", Cached(task[t]))
       ELSE Continue(t, "build", None)
    /\ UNCHANGED <<loaderVars, registered, plans>>

\* build_plan, outside the lock: what fails is not cached.
Keeps(plan) == plan # Failed

Build(t) ==
    /\ At(t, "build")
    /\ LET native == task[t].image.binds[BoundSymbol(task[t])]
           plan == IF native \in Missing THEN Failed ELSE native
       IN  Continue(t, IF Keeps(plan) THEN "store" ELSE "done", plan)
    /\ UNCHANGED <<loaderVars, registered, plans>>

\* The first thread to store a plan wins; the others call their own all the same.
Inserted(cache, key, plan) == IF cache[key] = None THEN [cache EXCEPT ![key] = plan] ELSE cache

Store(t) ==
    /\ At(t, "store")
    /\ IF UsesHeader(task[t])
       THEN fast' = Inserted(fast, FastKey(task[t]), task[t].plan) /\ UNCHANGED slow
       ELSE slow' = Inserted(slow, PlanCacheKey(task[t]), task[t].plan) /\ UNCHANGED fast
    /\ Continue(t, "done", task[t].plan)
    /\ UNCHANGED <<loaderVars, registered>>

\* The native function was called, or the call failed; the execution returns.
Return(t) ==
    /\ At(t, "done")
    /\ task' = [task EXCEPT ![t] = NoTask]
    /\ UNCHANGED <<loaderVars, registered, plans>>

-----------------------------------------------------------------------------
SlowKeys == {i.name : i \in Images} \X ({i.version : i \in Images} \cup {0}) \X Fns \X Symbols

Init ==
    /\ LoaderInit
    /\ registered = {}
    /\ fast = [k \in Addresses \X Fns |-> None]
    /\ slow = [k \in SlowKeys |-> None]
    /\ task = [t \in Threads |-> NoTask]

FfiCall(t) == CallFunction(t) \/ Lookup(t) \/ Build(t) \/ Store(t) \/ Return(t)

Next ==
    \/ \E t \in Threads : FfiCall(t)
    \/ \E t \in Threads, fn \in Fns, symbol \in Symbols :
         \/ \E i \in Owned : ExecuteModule(t, i, fn, symbol)
         \/ \E n \in Names : ExecuteLoadedModule(t, n, fn, symbol)
    \/ LoaderNext /\ UNCHANGED <<registered, plans, task>>
    \/ \E symbol \in HostSymbols : RegisterFunction(symbol)

\* Threads keep running.
Spec == Init /\ [][Next]_vars /\ \A t \in Threads : WF_vars(FfiCall(t))
-----------------------------------------------------------------------------
(* Properties                                                              *)

Tasks ==
    {NoTask} \cup
    [pc : {"resolve", "build", "store", "done"}, image : Images, addr : Addresses,
     fn : Fns, symbol : Symbols, plan : Natives \cup {None, Failed, "host"}]

TypeOK ==
    /\ LoaderTypeOK
    /\ registered \subseteq HostSymbols
    /\ fast \in [Addresses \X Fns -> (Natives \ Missing) \cup {None}]
    /\ slow \in [SlowKeys -> (Natives \ Missing) \cup {None}]
    /\ task \in [Threads -> Tasks]

\* What an ffi_call of the symbol is to end in, by the binding table of the module.
Mapped(i, symbol) == IF i.binds[symbol] \in Missing THEN Failed ELSE i.binds[symbol]
Answers(k, plan) == k.symbol \in DOMAIN k.image.binds => k.plan = plan

\* ADR-0003: an ffi_call names a symbol, and the binding table of the module that
\* makes the call, or of the one that was found for it, says which native function
\* that is: the cached plans never make it another one, whatever was executed,
\* copied and reloaded before.
CallsMapped ==
    \A t \in Threads : At(t, "done") => Answers(task[t], Mapped(task[t].image, task[t].symbol))

\* That is so for every call of a function without a binding header, and for every call
\* of a module that its owner runs.  A function with a header that runs from a copy on a
\* stack shares the plan of its address and number with all that ran there: it may end in
\* what another loaded module's function of that number is bound to, in nothing else.
OnlyCopiesMixUp ==
    \A t \in Threads :
        At(t, "done") =>
            \/ Answers(task[t], Mapped(task[t].image, task[t].symbol))
            \/ /\ UsesHeader(task[t]) /\ task[t].addr \in StackAddresses
               /\ \E i \in Loaded :
                    /\ i.header[task[t].fn] # None
                    /\ Answers(task[t], Mapped(i, i.header[task[t].fn]))

\* Every ffi_call comes to an end.
CallEnds == \A t \in Threads : At(t, "resolve") ~> At(t, "idle")
=============================================================================
