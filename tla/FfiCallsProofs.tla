--------------------------- MODULE FfiCallsProofs ---------------------------
(***************************************************************************)
(* Native calls and loads for any number of threads, loaders, modules,     *)
(* files and symbols: what a bundle publishes agrees on every symbol, and  *)
(* the plan caches change what a symbol stands for only for functions with *)
(* a header that run from a copy of their module.                          *)
(***************************************************************************)
EXTENDS FfiCalls, WellFoundedInduction, TLAPS

\* Any set of numbers that is not empty has a least one.
LEMMA LeastName ==
    ASSUME NEW S \in SUBSET Nat, S # {} PROVE Min(S) \in S
<1> DEFINE R == OpToRel(<, Nat)
<1>1. \E x \in S : \A y \in S : <<y, x>> \notin R
  BY NatLessThanWellFounded, WFMin
<1>2. \A x, y \in Nat : <<y, x>> \notin R => x <= y
  BY DEF OpToRel
<1>3. \E x \in S : \A y \in S : x =< y
  BY <1>1, <1>2
<1> QED
  BY <1>3 DEF Min

\* The search finds a module of the table that binds the symbol, or none.
LEMMA SearchFinds ==
    ASSUME LoaderTypeOK, NEW symbol, FindModuleByFfiSymbol(symbol) # None
    PROVE  /\ FindModuleByFfiSymbol(symbol) \in Loaded
           /\ symbol \in DOMAIN FindModuleByFfiSymbol(symbol).binds
<1>1. Binding(symbol) # {}
  BY DEF FindModuleByFfiSymbol
<1>2. Binding(symbol) \in SUBSET Nat
  BY LoaderAssumption DEF Binding, Names, IsImage
<1>3. Min(Binding(symbol)) \in Binding(symbol)
  BY <1>1, <1>2, LeastName
<1>4. ASSUME NEW n \in Binding(symbol)
      PROVE  modules[n] \in Loaded /\ symbol \in DOMAIN modules[n].binds
  BY <1>4 DEF Binding, LoaderTypeOK
<1> QED
  BY <1>1, <1>3, <1>4 DEF FindModuleByFfiSymbol

-----------------------------------------------------------------------------
(* The loader                                                              *)

LEMMA FileModules ==
    ASSUME NEW f \in Files
    PROVE  /\ Len(f.modules) \in Nat
           /\ \A k \in 1..Len(f.modules) : f.modules[k].image \in Loaded
<1> DEFINE Items == [image : Loaded, flaw : BOOLEAN]
<1>1. f.modules \in Seq(Items)
  BY LoaderAssumption
<1>2. \A m \in Items : m.image \in Loaded
  OBVIOUS
<1> HIDE DEF Items
<1> QED
  BY <1>1, <1>2

\* symbol_origin holds what the published modules of a bundle bind.
LoaderInv ==
    \A l \in Loaders :
        load[l].pc # "idle" /\ load[l].file.kind = "tlbs" =>
            \A k \in 1..load[l].at - 1 :
                LET binds == load[l].file.modules[k].image.binds
                IN  \A s \in DOMAIN binds :
                        s \in DOMAIN load[l].origins /\ load[l].origins[s] = binds[s]

LEMMA InitLoader == Init => LoaderTypeOK /\ LoaderInv
<1> SUFFICES ASSUME Init PROVE LoaderTypeOK /\ LoaderInv
  OBVIOUS
<1>1. NoBinds \in [{} -> Natives]
  BY DEF NoBinds
<1>2. NoBinds \in UNION {[D -> Natives] : D \in SUBSET Symbols}
  BY <1>1
<1> QED
  BY <1>2 DEF Init, LoaderInit, LoaderTypeOK, LoaderInv, NoLoad

\* What a step does to one loader is seen by that loader only.
LEMMA NextLoader == LoaderTypeOK /\ LoaderInv /\ [Next]_vars => (LoaderTypeOK /\ LoaderInv)'
<1> SUFFICES ASSUME LoaderTypeOK, LoaderInv, [Next]_vars PROVE (LoaderTypeOK /\ LoaderInv)'
  OBVIOUS
<1> DEFINE Origins == UNION {[D -> Natives] : D \in SUBSET Symbols}
           Loads == [pc : {"idle", "loading", "ok", "refused"}, file : Files \cup {None},
                     at : Nat \ {0}, origins : Origins]
<1> USE DEF loaderVars
<1>1. ASSUME UNCHANGED loaderVars PROVE (LoaderTypeOK /\ LoaderInv)'
  BY <1>1 DEF LoaderTypeOK, LoaderInv
<1>2. ASSUME NEW i \in Loaded, NEW j \in Loaded, Commit({i, j})
      PROVE  (LoaderTypeOK /\ LoaderInv)'
  <2>1. modules' \in [Names -> Loaded \cup {None}]
    <3>1. ASSUME NEW n \in Names
          PROVE  (IF \E k \in {i, j} : k.name = n THEN CHOOSE k \in {i, j} : k.name = n
                  ELSE modules[n]) \in Loaded \cup {None}
      BY DEF LoaderTypeOK
    <3> QED
      BY <1>2, <3>1 DEF Commit
  <2> QED
    BY <1>2, <2>1 DEF Commit, LoaderTypeOK, LoaderInv
<1>3. ASSUME NEW l \in Loaders, NEW file \in Files, BeginLoad(l, file)
      PROVE  (LoaderTypeOK /\ LoaderInv)'
  <2>1. NoBinds \in Origins
    BY DEF NoBinds
  <2>2. Len(file.modules) \in Nat
    BY FileModules
  <2>3. /\ load' = [load EXCEPT ![l] = [pc |-> "loading", file |-> file, at |-> 1,
                                        origins |-> NoBinds]]
        /\ modules' = modules
    BY <1>3 DEF BeginLoad
  <2>4. load' \in [Loaders -> Loads]
    BY <2>1, <2>3 DEF LoaderTypeOK
  <2> HIDE DEF Origins, Loads
  <2>5. \A k \in Loaders : load'[k].pc # "idle" =>
            load'[k].file \in Files /\ load'[k].at <= Len(load'[k].file.modules) + 1
    BY <2>2, <2>3 DEF LoaderTypeOK
  <2>6. LoaderInv'
    BY <2>3 DEF LoaderInv, LoaderTypeOK
  <2> QED
    BY <2>3, <2>4, <2>5, <2>6 DEF LoaderTypeOK, Origins, Loads
<1>4. ASSUME NEW l \in Loaders, LoadModule(l) PROVE (LoaderTypeOK /\ LoaderInv)'
  <2> DEFINE file == load[l].file
             at == load[l].at
             binds == Item(l).image.binds
             recorded == Recorded(l, binds)
  <2>1. /\ load[l].pc = "loading" /\ file \in Files /\ at \in Nat \ {0}
        /\ at <= Len(file.modules) /\ load[l].origins \in Origins
    BY <1>4 DEF LoadModule, Loading, LoaderTypeOK
  <2>2. Item(l).image \in Loaded /\ Len(file.modules) \in Nat
    BY <2>1, FileModules DEF Item
  <2>3. DOMAIN binds \subseteq Symbols /\ \A s \in DOMAIN binds : binds[s] \in Natives
    BY <2>2, LoaderAssumption DEF IsImage
  <2>4. recorded \in Origins
    <3>1. PICK D \in SUBSET Symbols : load[l].origins \in [D -> Natives]
      BY <2>1
    <3>2. recorded \in [DOMAIN binds \cup D -> Natives]
      BY <2>3, <3>1 DEF Recorded
    <3> QED
      BY <2>3, <3>2
  <2>5. /\ load' = [load EXCEPT ![l].at = at + 1, ![l].origins = recorded]
        /\ modules' = [modules EXCEPT ![Item(l).image.name] = Item(l).image]
        /\ Agrees(l, binds)
    BY <1>4 DEF LoadModule
  <2>6. modules' \in [Names -> Loaded \cup {None}]
    BY <2>2, <2>5 DEF LoaderTypeOK
  <2>7. load' \in [Loaders -> Loads]
    <3>1. load \in [Loaders -> Loads] /\ at + 1 \in Nat \ {0}
      BY <2>1 DEF LoaderTypeOK
    <3> HIDE DEF Origins, recorded, at
    <3> QED
      BY <2>4, <2>5, <3>1
  <2>8. /\ load'[l].pc = "loading" /\ load'[l].file = file /\ load'[l].at = at + 1
        /\ load'[l].origins = recorded
        /\ \A k \in Loaders : k # l => load'[k] = load[k]
    BY <2>1, <2>5 DEF LoaderTypeOK
  <2> HIDE DEF recorded, Origins, Loads
  <2>9. \A k \in Loaders : load'[k].pc # "idle" =>
            load'[k].file \in Files /\ load'[k].at <= Len(load'[k].file.modules) + 1
    BY <2>1, <2>2, <2>8 DEF LoaderTypeOK
  <2>10. ASSUME file.kind = "tlbs", NEW k \in 1..at,
                NEW s \in DOMAIN file.modules[k].image.binds
         PROVE  s \in DOMAIN recorded /\ recorded[s] = file.modules[k].image.binds[s]
    <3>1. CASE k = at
      BY <3>1 DEF recorded, Recorded, Item
    <3>2. CASE k # at
      <4>1. k \in 1..at - 1
        BY <2>1, <3>2
      <4>2. s \in DOMAIN load[l].origins /\ load[l].origins[s] = file.modules[k].image.binds[s]
        BY <2>1, <2>10, <4>1 DEF LoaderInv
      <4> QED
        BY <2>5, <2>10, <4>2 DEF recorded, Recorded, Agrees
    <3> QED
      BY <3>1, <3>2
  <2>11. LoaderInv'
    <3> SUFFICES ASSUME NEW k \in Loaders, load'[k].pc # "idle", load'[k].file.kind = "tlbs",
                        NEW m \in 1..load'[k].at - 1,
                        NEW s \in DOMAIN load'[k].file.modules[m].image.binds
                 PROVE  /\ s \in DOMAIN load'[k].origins
                        /\ load'[k].origins[s] = load'[k].file.modules[m].image.binds[s]
      BY DEF LoaderInv
    <3>1. CASE k # l
      BY <2>8, <3>1 DEF LoaderInv
    <3>2. CASE k = l
      <4>1. m \in 1..at
        BY <2>1, <2>8, <3>2
      <4> QED
        BY <2>8, <2>10, <3>2, <4>1
    <3> QED
      BY <3>1, <3>2
  <2> QED
    BY <2>6, <2>7, <2>9, <2>11 DEF LoaderTypeOK, Origins, Loads
<1>5. ASSUME NEW l \in Loaders, RefuseModule(l) \/ EndLoad(l)
      PROVE  (LoaderTypeOK /\ LoaderInv)'
  <2>1. /\ \E pc \in {"ok", "refused"} : load' = [load EXCEPT ![l].pc = pc]
        /\ modules' = modules /\ load[l].pc = "loading"
    BY <1>5 DEF RefuseModule, EndLoad, Loading
  <2>2. \A k \in Loaders : /\ load'[k].file = load[k].file /\ load'[k].at = load[k].at
                           /\ load'[k].origins = load[k].origins
                           /\ load'[k].pc = "idle" <=> load[k].pc = "idle"
    BY <2>1 DEF LoaderTypeOK
  <2>3. load' \in [Loaders -> Loads]
    BY <2>1 DEF LoaderTypeOK
  <2> HIDE DEF Origins, Loads
  <2>4. LoaderInv'
    BY <2>2 DEF LoaderInv
  <2> QED
    BY <2>1, <2>2, <2>3, <2>4 DEF LoaderTypeOK, Origins, Loads
<1>6. ASSUME LoaderNext PROVE (LoaderTypeOK /\ LoaderInv)'
  BY <1>2, <1>3, <1>4, <1>5, <1>6 DEF LoaderNext
<1>7. ASSUME Next, ~LoaderNext PROVE UNCHANGED loaderVars
  BY <1>7 DEF Next, FfiCall, CallFunction, Lookup, Build, Store, Return, ExecuteModule,
              ExecuteLoadedModule, Begin, RegisterFunction
<1> QED
  BY <1>1, <1>6, <1>7 DEF vars

LEMMA PublishedAgree == LoaderTypeOK /\ LoaderInv => BundleSymbolsAgree
<1> SUFFICES ASSUME LoaderTypeOK, LoaderInv, NEW l \in Loaders,
                    NEW i \in Published(l), NEW j \in Published(l),
                    load[l].file.kind = "tlbs",
                    NEW s \in DOMAIN i.binds \cap DOMAIN j.binds
             PROVE  i.binds[s] = j.binds[s]
  BY DEF BundleSymbolsAgree
<1>1. load[l].pc # "idle"
  BY DEF Published
<1>2. \A m \in Published(l) : \E k \in 1..load[l].at - 1 : m = load[l].file.modules[k].image
  BY <1>1 DEF Published
<1>3. \A m \in Published(l) : s \in DOMAIN m.binds => load[l].origins[s] = m.binds[s]
  BY <1>1, <1>2 DEF LoaderInv
<1> QED
  BY <1>3

\* The modules of a bundle that are published agree on every symbol, whatever became
\* of its load and of loads and reloads at the same time.
THEOREM BundlesAgree == Spec => []BundleSymbolsAgree
<1>1. Init => LoaderTypeOK /\ LoaderInv
  BY InitLoader
<1>2. LoaderTypeOK /\ LoaderInv /\ [Next]_vars => (LoaderTypeOK /\ LoaderInv)'
  BY NextLoader
<1> QED
  BY <1>1, <1>2, PublishedAgree, PTL DEF Spec

-----------------------------------------------------------------------------
(* The calls                                                               *)

Calls == [pc : {"resolve", "build", "store", "done"}, image : Images, addr : Addresses,
          fn : Fns, symbol : Symbols, plan : Natives \cup {None, Failed, "host"}]

\* What holds of an ffi_call that began: a module that binds anything binds what is
\* called, and what is stored can be called.
Sound(k) ==
    /\ DOMAIN k.image.binds # {} => BoundSymbol(k) \in DOMAIN k.image.binds
    /\ k.pc \in {"build", "store"} => DOMAIN k.image.binds # {}
    /\ k.pc = "store" => k.plan \in Natives \ Missing

CallInv == \A t \in Threads : task[t] \in Calls => Sound(task[t])

LEMMA InitCalls == Init => TypeOK /\ CallInv
<1> SUFFICES ASSUME Init PROVE TypeOK /\ CallInv
  OBVIOUS
<1>1. LoaderTypeOK
  BY InitLoader
<1>2. NoTask \in Tasks /\ NoTask \notin Calls
  BY DEF NoTask, Tasks, Calls
<1> QED
  BY <1>1, <1>2 DEF Init, TypeOK, CallInv

\* The images have their bindings typed.
LEMMA ImageTypes == \A i \in Images : IsImage(i)
BY LoaderAssumption, VersionAssumption DEF Images

LEMMA TaskTypes == TypeOK => \A t \in Threads : task[t] = NoTask \/ task[t] \in Calls
BY DEF TypeOK, Tasks, Calls

\* A step of one call: it stays a sound one, and nothing but it changes.
LEMMA CallSteps ==
    ASSUME TypeOK, NEW t \in Threads, NEW k \in Calls \cup {NoTask},
           k \in Calls => Sound(k), CallInv,
           task' = [task EXCEPT ![t] = k],
           UNCHANGED <<loaderVars, registered, plans>>
    PROVE  (TypeOK /\ CallInv)'
<1>1. task' \in [Threads -> Tasks]
  BY DEF TypeOK, Tasks, Calls
<1>2. \A u \in Threads : task'[u] = IF u = t THEN k ELSE task[u]
  BY DEF TypeOK
<1> QED
  BY <1>1, <1>2 DEF TypeOK, LoaderTypeOK, CallInv, loaderVars, plans

LEMMA NextCalls == TypeOK /\ LoaderInv /\ CallInv /\ [Next]_vars => (TypeOK /\ CallInv)'
<1> SUFFICES ASSUME TypeOK, LoaderInv, CallInv, [Next]_vars PROVE (TypeOK /\ CallInv)'
  OBVIOUS
<1>1. ASSUME NEW t \in Threads, NEW i \in Images, NEW addr \in Addresses, NEW fn \in Fns,
             NEW symbol \in Symbols, Begin(t, i, addr, fn, symbol)
      PROVE  (TypeOK /\ CallInv)'
  <2> DEFINE k == [pc |-> "resolve", image |-> i, addr |-> addr, fn |-> fn,
                   symbol |-> symbol, plan |-> None]
  <2>1. k \in Calls
    BY DEF Calls
  <2>2. Sound(k)
    BY <1>1, ImageTypes DEF Begin, CallsSymbol, Sound, BoundSymbol, UsesHeader, IsImage
  <2> QED
    BY <1>1, <2>1, <2>2, CallSteps DEF Begin, plans
<1>2. ASSUME NEW t \in Threads, CallFunction(t) PROVE (TypeOK /\ CallInv)'
  <2> DEFINE k == task[t]
             found == FindModuleByFfiSymbol(k.symbol)
  <2>1. k \in Calls /\ k.pc = "resolve" /\ DOMAIN k.image.binds = {}
    BY <1>2, TaskTypes DEF CallFunction, At, NoTask
  <2>2. ASSUME NEW plan \in {Failed, "host"}, Continue(t, "done", plan)
        PROVE  (TypeOK /\ CallInv)'
    <3>1. [k EXCEPT !.pc = "done", !.plan = plan] \in Calls
      BY <2>1 DEF Calls
    <3>2. Sound([k EXCEPT !.pc = "done", !.plan = plan])
      BY <2>1 DEF Sound, Calls
    <3>3. task' = [task EXCEPT ![t] = [k EXCEPT !.pc = "done", !.plan = plan]]
      BY <2>2 DEF Continue
    <3> QED
      BY <1>2, <3>1, <3>2, <3>3, CallSteps DEF CallFunction, plans
  <2>3. ASSUME found # None,
               task' = [task EXCEPT ![t].image = Fallback(k.image, found),
                                    ![t].addr = FallbackCopy(t), ![t].fn = 0]
        PROVE  (TypeOK /\ CallInv)'
    <3> DEFINE next == [k EXCEPT !.image = found, !.addr = FallbackCopy(t), !.fn = 0]
    <3>1. found \in Loaded /\ k.symbol \in DOMAIN found.binds
      BY <2>3, SearchFinds DEF TypeOK
    <3>2. next \in Calls
      BY <2>1, <3>1, ConstantsAssumption DEF Calls, Images, Addresses, StackAddresses
    <3>3. next.image = found /\ next.fn = 0 /\ next.symbol = k.symbol /\ next.pc = "resolve"
      BY <2>1 DEF Calls
    <3>4. Sound(next)
      BY <3>1, <3>3, ImageTypes, ConstantsAssumption
         DEF Sound, BoundSymbol, UsesHeader, IsImage, Images
    <3>5. task' = [task EXCEPT ![t] = next]
      BY <2>3 DEF Fallback
    <3> QED
      BY <1>2, <3>2, <3>4, <3>5, CallSteps DEF CallFunction, plans
  <2> QED
    BY <1>2, <2>2, <2>3 DEF CallFunction
<1>3. ASSUME NEW t \in Threads, Lookup(t) PROVE (TypeOK /\ CallInv)'
  <2> DEFINE k == task[t]
  <2>1. k \in Calls /\ k.pc = "resolve" /\ DOMAIN k.image.binds # {} /\ Sound(k)
    BY <1>3, TaskTypes DEF Lookup, At, NoTask, CallInv
  <2>2. Cached(k) \in Natives \cup {None}
    <3>1. <<k.addr, k.fn>> \in Addresses \X Fns
      BY <2>1 DEF Calls
    <3>2. <<k.image.name, k.image.version, k.fn, k.symbol>> \in SlowKeys
      BY <2>1 DEF Calls, SlowKeys
    <3> QED
      BY <3>1, <3>2 DEF Cached, FastKey, PlanCacheKey, TypeOK
  <2>3. PICK pc \in {"done", "build"}, plan \in Natives \cup {None} : Continue(t, pc, plan)
    BY <1>3, <2>2 DEF Lookup
  <2> DEFINE next == [k EXCEPT !.pc = pc, !.plan = plan]
  <2>4. next \in Calls
    BY <2>1 DEF Calls
  <2>5. next.image = k.image /\ next.fn = k.fn /\ next.symbol = k.symbol /\ next.pc = pc
    BY <2>1 DEF Calls
  <2>6. Sound(next)
    BY <2>1, <2>5 DEF Sound, BoundSymbol, UsesHeader
  <2>7. task' = [task EXCEPT ![t] = next]
    BY <2>3 DEF Continue
  <2> QED
    BY <1>3, <2>4, <2>6, <2>7, CallSteps DEF Lookup, plans
<1>4. ASSUME NEW t \in Threads, Build(t) PROVE (TypeOK /\ CallInv)'
  <2> DEFINE k == task[t]
             native == k.image.binds[BoundSymbol(k)]
             plan == IF native \in Missing THEN Failed ELSE native
             pc == IF Keeps(plan) THEN "store" ELSE "done"
             next == [k EXCEPT !.pc = pc, !.plan = plan]
  <2>1. k \in Calls /\ k.pc = "build" /\ Sound(k)
    BY <1>4, TaskTypes DEF Build, At, NoTask, CallInv
  <2>2. native \in Natives
    BY <2>1, ImageTypes DEF Sound, IsImage, Calls
  <2>3. next \in Calls
    BY <2>1, <2>2 DEF Calls
  <2>4. /\ next.image = k.image /\ next.fn = k.fn /\ next.symbol = k.symbol
        /\ next.pc = pc /\ next.plan = plan
    BY <2>1 DEF Calls
  <2>5. pc = "store" => plan \in Natives \ Missing
    BY <2>2 DEF Keeps
  <2>6. Sound(next)
    BY <2>1, <2>4, <2>5 DEF Sound, BoundSymbol, UsesHeader
  <2>7. task' = [task EXCEPT ![t] = next]
    BY <1>4 DEF Build, Continue
  <2> QED
    BY <1>4, <2>3, <2>6, <2>7, CallSteps DEF Build, plans
<1>5. ASSUME NEW t \in Threads, Store(t) PROVE (TypeOK /\ CallInv)'
  <2> DEFINE k == task[t]
             next == [k EXCEPT !.pc = "done", !.plan = k.plan]
             Plans == (Natives \ Missing) \cup {None}
  <2>1. k \in Calls /\ k.pc = "store" /\ Sound(k)
    BY <1>5, TaskTypes DEF Store, At, NoTask, CallInv
  <2>2. /\ fast' \in [Addresses \X Fns -> Plans]
        /\ slow' \in [SlowKeys -> Plans]
    <3>1. k.plan \in Plans
      BY <2>1 DEF Sound
    <3>2. /\ Inserted(fast, FastKey(k), k.plan) \in [Addresses \X Fns -> Plans]
          /\ Inserted(slow, PlanCacheKey(k), k.plan) \in [SlowKeys -> Plans]
      BY <3>1 DEF Inserted, TypeOK
    <3> QED
      BY <1>5, <3>2 DEF Store, TypeOK
  <2>3. next \in Calls
    BY <2>1 DEF Calls
  <2>4. /\ next.image = k.image /\ next.fn = k.fn /\ next.symbol = k.symbol
        /\ next.pc = "done"
    BY <2>1 DEF Calls
  <2>5. Sound(next)
    BY <2>1, <2>4 DEF Sound, BoundSymbol, UsesHeader
  <2>6. task' = [task EXCEPT ![t] = next]
    BY <1>5 DEF Store, Continue
  <2>7. task' \in [Threads -> Tasks]
    BY <2>3, <2>6 DEF TypeOK, Tasks, Calls
  <2>8. CallInv'
    BY <2>5, <2>6 DEF TypeOK, CallInv
  <2> QED
    BY <1>5, <2>2, <2>7, <2>8 DEF Store, TypeOK, LoaderTypeOK, loaderVars
<1>6. ASSUME NEW t \in Threads, Return(t) PROVE (TypeOK /\ CallInv)'
  <2>1. NoTask \notin Calls
    BY DEF NoTask, Calls
  <2> QED
    BY <1>6, <2>1, CallSteps DEF Return, plans
<1>7. ASSUME NEW t \in Threads, NEW fn \in Fns, NEW symbol \in Symbols,
             \/ \E i \in Owned : ExecuteModule(t, i, fn, symbol)
             \/ \E n \in Names : ExecuteLoadedModule(t, n, fn, symbol)
      PROVE  (TypeOK /\ CallInv)'
  <2>1. ASSUME NEW i \in Owned, ExecuteModule(t, i, fn, symbol) PROVE (TypeOK /\ CallInv)'
    BY <1>1, <2>1 DEF ExecuteModule, Images, Addresses
  <2>2. ASSUME NEW n \in Names, ExecuteLoadedModule(t, n, fn, symbol)
        PROVE  (TypeOK /\ CallInv)'
    <3>1. modules[n] \in Images /\ Copy(t) \in Addresses
      BY <2>2 DEF ExecuteLoadedModule, TypeOK, LoaderTypeOK, Images, Addresses, StackAddresses
    <3> QED
      BY <1>1, <2>2, <3>1 DEF ExecuteLoadedModule
  <2> QED
    BY <1>7, <2>1, <2>2
<1>8. ASSUME NEW symbol \in HostSymbols, RegisterFunction(symbol) PROVE (TypeOK /\ CallInv)'
  BY <1>8 DEF RegisterFunction, TypeOK, LoaderTypeOK, CallInv, loaderVars, plans
<1>9. ASSUME UNCHANGED <<registered, plans, task>> PROVE (TypeOK /\ CallInv)'
  <2>1. LoaderTypeOK'
    BY NextLoader DEF TypeOK
  <2> QED
    BY <1>9, <2>1 DEF TypeOK, CallInv, plans
<1> QED
  BY <1>2, <1>3, <1>4, <1>5, <1>6, <1>7, <1>8, <1>9 DEF Next, FfiCall, vars

\* Every variable of the loader, the plan caches and the calls keeps its type.
THEOREM TypeCorrect == Spec => []TypeOK
<1> DEFINE Inv == TypeOK /\ LoaderInv /\ CallInv
<1>1. Init => Inv
  BY InitLoader, InitCalls
<1>2. Inv /\ [Next]_vars => Inv'
  BY NextLoader, NextCalls DEF TypeOK
<1> QED
  BY <1>1, <1>2, PTL DEF Spec

-----------------------------------------------------------------------------
(* What is called                                                          *)

\* What calls of the function number `fn` with a header can end in, when they run from
\* copies of loaded modules.
LoadedPlans(fn) == {Mapped(i, i.header[fn]) : i \in {j \in Loaded : j.header[fn] # None}}

\* What OnlyCopiesMixUp says of one call.
Good(k) ==
    \/ Answers(k, Mapped(k.image, k.symbol))
    \/ /\ UsesHeader(k) /\ k.addr \in StackAddresses
       /\ \E i \in Loaded : i.header[k.fn] # None /\ Answers(k, Mapped(i, i.header[k.fn]))

\* A function with a header runs in the owner's object, which it calls its header's
\* symbol from, or in a copy of a loaded module.
Placed(k) ==
    UsesHeader(k) =>
        \/ k.image \in Owned /\ k.addr = Own(k.image) /\ k.symbol = k.image.header[k.fn]
        \/ k.image \in Loaded /\ k.addr \in StackAddresses

\* Such a call has built, and ends in, what it may.
Right(k) ==
    /\ Placed(k)
    /\ DOMAIN k.image.binds # {} => k.symbol \in DOMAIN k.image.binds
    /\ k.pc = "store" => k.plan = Mapped(k.image, BoundSymbol(k))
    /\ k.pc = "done" => Good(k)

OwnRight ==
    \A i \in Owned, fn \in Fns :
        i.header[fn] # None /\ fast[<<Own(i), fn>>] # None
            => fast[<<Own(i), fn>>] = Mapped(i, i.header[fn])
StackRight ==
    \A addr \in StackAddresses, fn \in Fns :
        fast[<<addr, fn>>] # None => fast[<<addr, fn>>] \in LoadedPlans(fn)
SlowRight ==
    \A i \in Images, fn \in Fns : \A s \in DOMAIN i.binds :
        slow[<<i.name, i.version, fn, s>>] # None
            => slow[<<i.name, i.version, fn, s>>] = Mapped(i, s)

CachesRight == OwnRight /\ StackRight /\ SlowRight
MapInv == CachesRight /\ \A t \in Threads : task[t] \in Calls => Right(task[t])

\* The owner's object is not on a stack.
LEMMA OwnIsNoCopy == \A i \in Images : Own(i) \notin StackAddresses
<1> SUFFICES ASSUME NEW i \in Images, NEW addr \in StackAddresses PROVE addr # Own(i)
  OBVIOUS
<1>1. PICK t \in Threads : addr = Copy(t) \/ addr = FallbackCopy(t)
  BY DEF StackAddresses
<1>2. addr[1] \in {"copy", "fallback"} /\ Own(i)[1] = "own"
  BY <1>1 DEF Copy, FallbackCopy, Own
<1> QED
  BY <1>2

LEMMA InitMap == Init => MapInv
<1> SUFFICES ASSUME Init PROVE MapInv
  OBVIOUS
<1>1. NoTask \notin Calls
  BY DEF NoTask, Calls
<1>2. /\ \A i \in Owned, fn \in Fns : <<Own(i), fn>> \in Addresses \X Fns
      /\ \A addr \in StackAddresses, fn \in Fns : <<addr, fn>> \in Addresses \X Fns
  BY DEF Addresses, Images
<1>3. \A i \in Images, fn \in Fns : \A s \in DOMAIN i.binds :
        <<i.name, i.version, fn, s>> \in SlowKeys
  BY ImageTypes DEF SlowKeys, IsImage
<1>4. OwnRight /\ StackRight
  BY <1>2 DEF Init, OwnRight, StackRight
<1>5. SlowRight
  BY <1>3 DEF Init, SlowRight
<1> QED
  BY <1>1, <1>4, <1>5 DEF Init, MapInv, CachesRight

\* A step of one call that leaves the caches alone.
LEMMA RightSteps ==
    ASSUME TypeOK, MapInv, NEW t \in Threads, NEW k, k \in Calls => Right(k),
           task' = [task EXCEPT ![t] = k], UNCHANGED plans
    PROVE  MapInv'
BY DEF TypeOK, MapInv, CachesRight, OwnRight, StackRight, SlowRight, plans

\* A call that ends with the plan of its bound symbol, or with one that its address
\* allows, ends well.
LEMMA EndsWell ==
    ASSUME NEW k \in Calls, Placed(k), k.symbol \in DOMAIN k.image.binds,
           \/ k.plan = Mapped(k.image, BoundSymbol(k))
           \/ UsesHeader(k) /\ k.addr \in StackAddresses /\ k.plan \in LoadedPlans(k.fn)
    PROVE  Good(k)
<1>1. CASE k.symbol = BoundSymbol(k) /\ k.plan = Mapped(k.image, BoundSymbol(k))
  BY <1>1 DEF Good, Answers
<1>2. CASE UsesHeader(k) /\ k.addr \in StackAddresses /\ k.plan \in LoadedPlans(k.fn)
  <2>1. PICK i \in Loaded : i.header[k.fn] # None /\ k.plan = Mapped(i, i.header[k.fn])
    BY <1>2 DEF LoadedPlans
  <2> QED
    BY <1>2, <2>1 DEF Good, Answers
<1>3. CASE k.symbol # BoundSymbol(k) /\ k.plan = Mapped(k.image, BoundSymbol(k))
  <2>1. UsesHeader(k) /\ BoundSymbol(k) = k.image.header[k.fn]
    BY <1>3 DEF BoundSymbol
  <2>2. k.image \in Loaded /\ k.addr \in StackAddresses
    BY <1>3, <2>1 DEF Placed
  <2> QED
    BY <1>3, <2>1, <2>2 DEF Good, Answers, UsesHeader
<1> QED
  BY <1>1, <1>2, <1>3

LEMMA NextMap ==
    ASSUME TypeOK, CallInv, MapInv, [Next]_vars PROVE MapInv'
<1>1. ASSUME NEW t \in Threads, NEW i \in Images, NEW addr, NEW fn \in Fns,
             NEW symbol, Begin(t, i, addr, fn, symbol),
             (i \in Owned /\ addr = Own(i)) \/ (i \in Loaded /\ addr \in StackAddresses)
      PROVE  MapInv'
  <2> DEFINE k == [pc |-> "resolve", image |-> i, addr |-> addr, fn |-> fn,
                   symbol |-> symbol, plan |-> None]
  <2>1. Right(k)
    BY <1>1, ImageTypes DEF Begin, CallsSymbol, Right, Placed, UsesHeader, IsImage
  <2> QED
    BY <1>1, <2>1, RightSteps DEF Begin
<1>2. ASSUME NEW t \in Threads, CallFunction(t) PROVE MapInv'
  <2> DEFINE k == task[t]
             found == FindModuleByFfiSymbol(k.symbol)
  <2>1. k \in Calls /\ k.pc = "resolve" /\ DOMAIN k.image.binds = {} /\ Right(k)
    BY <1>2, TaskTypes DEF CallFunction, At, NoTask, MapInv
  <2>2. ASSUME NEW plan, Continue(t, "done", plan) PROVE MapInv'
    <3> DEFINE next == [k EXCEPT !.pc = "done", !.plan = plan]
    <3>1. /\ next.image = k.image /\ next.addr = k.addr /\ next.fn = k.fn
          /\ next.symbol = k.symbol /\ next.pc = "done"
      BY <2>1 DEF Calls
    <3>2. Right(next)
      BY <2>1, <3>1 DEF Right, Placed, UsesHeader, Good, Answers
    <3>3. task' = [task EXCEPT ![t] = next]
      BY <2>2 DEF Continue
    <3> QED
      BY <1>2, <3>2, <3>3, RightSteps DEF CallFunction
  <2>3. ASSUME found # None,
               task' = [task EXCEPT ![t].image = Fallback(k.image, found),
                                    ![t].addr = FallbackCopy(t), ![t].fn = 0]
        PROVE  MapInv'
    <3> DEFINE next == [k EXCEPT !.image = found, !.addr = FallbackCopy(t), !.fn = 0]
    <3>1. found \in Loaded /\ k.symbol \in DOMAIN found.binds
      BY <2>3, SearchFinds DEF TypeOK
    <3>2. /\ next.image = found /\ next.addr = FallbackCopy(t) /\ next.fn = 0
          /\ next.symbol = k.symbol /\ next.pc = "resolve"
      BY <2>1 DEF Calls
    <3>3. Right(next)
      BY <3>1, <3>2 DEF Right, Placed, StackAddresses
    <3>4. task' = [task EXCEPT ![t] = next]
      BY <2>3 DEF Fallback
    <3> QED
      BY <1>2, <3>3, <3>4, RightSteps DEF CallFunction
  <2> QED
    BY <1>2, <2>2, <2>3 DEF CallFunction
<1>3. ASSUME NEW t \in Threads, Lookup(t) PROVE MapInv'
  <2> DEFINE k == task[t]
  <2>1. /\ k \in Calls /\ k.pc = "resolve" /\ DOMAIN k.image.binds # {} /\ Right(k)
        /\ k.symbol \in DOMAIN k.image.binds
    BY <1>3, TaskTypes DEF Lookup, At, NoTask, MapInv, Right
  <2>2. Cached(k) # None =>
          \/ Cached(k) = Mapped(k.image, BoundSymbol(k))
          \/ UsesHeader(k) /\ k.addr \in StackAddresses /\ Cached(k) \in LoadedPlans(k.fn)
    <3>1. CASE UsesHeader(k) /\ k.addr \in StackAddresses
      BY <2>1, <3>1 DEF Cached, FastKey, MapInv, CachesRight, StackRight, Calls
    <3>2. CASE UsesHeader(k) /\ k.addr \notin StackAddresses
      BY <2>1, <3>2 DEF Cached, FastKey, MapInv, CachesRight, OwnRight, Right, Placed, Calls,
                        UsesHeader, BoundSymbol
    <3>3. CASE ~UsesHeader(k)
      BY <2>1, <3>3 DEF Cached, PlanCacheKey, MapInv, CachesRight, SlowRight, Calls, BoundSymbol
    <3> QED
      BY <3>1, <3>2, <3>3
  <2>3. PICK pc, plan :
          /\ pc \in {"done", "build"} /\ plan \in Natives \cup {None, Failed, "host"}
          /\ Continue(t, pc, plan)
          /\ pc = "done" => plan = Cached(k) /\ Cached(k) # None
    <3>1. Cached(k) \in Natives \cup {None}
      <4>1. UsesHeader(k) => FastKey(k) \in Addresses \X Fns
        BY <2>1 DEF FastKey, Calls
      <4>2. PlanCacheKey(k) \in SlowKeys
        BY <2>1 DEF PlanCacheKey, SlowKeys, Calls
      <4> QED
        BY <4>1, <4>2 DEF Cached, TypeOK
    <3> QED
      BY <1>3, <3>1 DEF Lookup
  <2> DEFINE next == [k EXCEPT !.pc = pc, !.plan = plan]
  <2>4. /\ next.image = k.image /\ next.addr = k.addr /\ next.fn = k.fn
        /\ next.symbol = k.symbol /\ next.pc = pc /\ next.plan = plan /\ next \in Calls
    BY <2>1, <2>3 DEF Calls
  <2>5. Right(next)
    <3> HIDE DEF next
    <3>1. CASE pc = "build"
      BY <2>1, <2>4, <3>1 DEF Right, Placed, UsesHeader
    <3>2. CASE pc = "done"
      <4>1. Good(next)
        <5>1. BoundSymbol(next) = BoundSymbol(k) /\ (UsesHeader(next) <=> UsesHeader(k))
          BY <2>4 DEF BoundSymbol, UsesHeader
        <5>2. \/ next.plan = Mapped(next.image, BoundSymbol(next))
              \/ UsesHeader(next) /\ next.addr \in StackAddresses
                 /\ next.plan \in LoadedPlans(next.fn)
          BY <2>2, <2>3, <2>4, <3>2, <5>1
        <5>3. Placed(next)
          BY <2>1, <2>4 DEF Right, Placed, UsesHeader
        <5> QED
          BY <2>1, <2>4, <5>1, <5>2, <5>3, EndsWell
      <4> QED
        BY <2>1, <2>4, <3>2, <4>1 DEF Right, Placed, UsesHeader
    <3> QED
      BY <2>3, <3>1, <3>2
  <2>6. task' = [task EXCEPT ![t] = next]
    BY <2>3 DEF Continue
  <2> QED
    BY <1>3, <2>5, <2>6, RightSteps DEF Lookup
<1>4. ASSUME NEW t \in Threads, Build(t) PROVE MapInv'
  <2> DEFINE k == task[t]
             plan == Mapped(k.image, BoundSymbol(k))
             pc == IF Keeps(plan) THEN "store" ELSE "done"
             next == [k EXCEPT !.pc = pc, !.plan = plan]
  <2>1. k \in Calls /\ k.pc = "build" /\ Right(k) /\ Sound(k)
    BY <1>4, TaskTypes DEF Build, At, NoTask, MapInv, CallInv
  <2>2. k.symbol \in DOMAIN k.image.binds /\ plan \in Natives \cup {Failed}
    BY <2>1, ImageTypes DEF Sound, Right, IsImage, Calls, Mapped
  <2>3. task' = [task EXCEPT ![t] = next]
    BY <1>4 DEF Build, Continue, Mapped
  <2>4. /\ next.image = k.image /\ next.addr = k.addr /\ next.fn = k.fn
        /\ next.symbol = k.symbol /\ next.plan = plan /\ next.pc = pc /\ next \in Calls
    BY <2>1, <2>2 DEF Calls
  <2> HIDE DEF next
  <2>5. BoundSymbol(next) = BoundSymbol(k) /\ (UsesHeader(next) <=> UsesHeader(k))
    BY <2>4 DEF BoundSymbol, UsesHeader
  <2>6. Placed(next)
    BY <2>1, <2>4 DEF Right, Placed, UsesHeader
  <2>7. Good(next)
    BY <2>2, <2>4, <2>5, <2>6, EndsWell
  <2>8. Right(next)
    BY <2>1, <2>4, <2>5, <2>6, <2>7 DEF Right
  <2> QED
    BY <1>4, <2>3, <2>8, RightSteps DEF Build
<1>5. ASSUME NEW t \in Threads, Store(t) PROVE MapInv'
  <2> DEFINE k == task[t]
             next == [k EXCEPT !.pc = "done", !.plan = k.plan]
  <2>1. /\ k \in Calls /\ k.pc = "store" /\ Right(k) /\ k.symbol \in DOMAIN k.image.binds
        /\ k.plan = Mapped(k.image, BoundSymbol(k))
    BY <1>5, TaskTypes DEF Store, At, NoTask, MapInv, CallInv, Sound, Right
  <2>2. /\ next.image = k.image /\ next.addr = k.addr /\ next.fn = k.fn
        /\ next.symbol = k.symbol /\ next.plan = k.plan /\ next.pc = "done" /\ next \in Calls
    BY <2>1 DEF Calls
  <2>3. Right(next)
    <3> HIDE DEF next
    <3>1. BoundSymbol(next) = BoundSymbol(k) /\ (UsesHeader(next) <=> UsesHeader(k))
      BY <2>2 DEF BoundSymbol, UsesHeader
    <3>2. Placed(next)
      BY <2>1, <2>2 DEF Right, Placed, UsesHeader
    <3>3. Good(next)
      BY <2>1, <2>2, <3>1, <3>2, EndsWell
    <3> QED
      BY <2>1, <2>2, <3>2, <3>3 DEF Right
  <2>4. task' = [task EXCEPT ![t] = next]
    BY <1>5 DEF Store, Continue
  <2>5. \A u \in Threads : task'[u] \in Calls => Right(task'[u])
    BY <2>3, <2>4 DEF TypeOK, MapInv
  <2>6. ASSUME NEW addr \in Addresses, NEW fn \in Fns, fast'[<<addr, fn>>] # fast[<<addr, fn>>]
        PROVE  UsesHeader(k) /\ k.addr = addr /\ k.fn = fn /\ fast'[<<addr, fn>>] = k.plan
    <3>1. UsesHeader(k) /\ fast' = Inserted(fast, FastKey(k), k.plan)
      BY <1>5, <2>6 DEF Store
    <3>2. FastKey(k) = <<addr, fn>> /\ fast'[<<addr, fn>>] = k.plan
      BY <2>6, <3>1 DEF Inserted, TypeOK
    <3> QED
      BY <3>1, <3>2 DEF FastKey
  <2>7. OwnRight'
    <3> SUFFICES ASSUME NEW i \in Owned, NEW fn \in Fns, i.header[fn] # None,
                        fast'[<<Own(i), fn>>] # None
                 PROVE  fast'[<<Own(i), fn>>] = Mapped(i, i.header[fn])
      BY DEF OwnRight
    <3>1. CASE fast'[<<Own(i), fn>>] = fast[<<Own(i), fn>>]
      BY <3>1 DEF MapInv, CachesRight, OwnRight
    <3>2. CASE fast'[<<Own(i), fn>>] # fast[<<Own(i), fn>>]
      <4>1. Own(i) \in Addresses /\ Own(i) \notin StackAddresses
        BY OwnIsNoCopy DEF Addresses, Images
      <4>2. UsesHeader(k) /\ k.addr = Own(i) /\ k.fn = fn /\ fast'[<<Own(i), fn>>] = k.plan
        BY <2>6, <3>2, <4>1
      <4>3. k.image \in Owned /\ Own(k.image) = Own(i)
        BY <2>1, <4>1, <4>2 DEF Right, Placed
      <4>4. k.image = i
        BY <4>3, VersionAssumption DEF Own, Images
      <4> QED
        BY <2>1, <4>2, <4>4 DEF BoundSymbol
    <3> QED
      BY <3>1, <3>2
  <2>8. StackRight'
    <3> SUFFICES ASSUME NEW addr \in StackAddresses, NEW fn \in Fns, fast'[<<addr, fn>>] # None
                 PROVE  fast'[<<addr, fn>>] \in LoadedPlans(fn)
      BY DEF StackRight
    <3>1. CASE fast'[<<addr, fn>>] = fast[<<addr, fn>>]
      BY <3>1 DEF MapInv, CachesRight, StackRight
    <3>2. CASE fast'[<<addr, fn>>] # fast[<<addr, fn>>]
      <4>1. UsesHeader(k) /\ k.addr = addr /\ k.fn = fn /\ fast'[<<addr, fn>>] = k.plan
        BY <2>6, <3>2 DEF Addresses
      <4>2. k.image \in Loaded
        BY <2>1, <4>1, OwnIsNoCopy DEF Right, Placed, Images
      <4> QED
        BY <2>1, <4>1, <4>2 DEF LoadedPlans, BoundSymbol, UsesHeader
    <3> QED
      BY <3>1, <3>2
  <2>9. SlowRight'
    <3> SUFFICES ASSUME NEW i \in Images, NEW fn \in Fns, NEW s \in DOMAIN i.binds,
                        slow'[<<i.name, i.version, fn, s>>] # None
                 PROVE  slow'[<<i.name, i.version, fn, s>>] = Mapped(i, s)
      BY DEF SlowRight
    <3> DEFINE key == <<i.name, i.version, fn, s>>
    <3>1. CASE slow'[key] = slow[key]
      BY <3>1 DEF MapInv, CachesRight, SlowRight
    <3>2. CASE slow'[key] # slow[key]
      <4>1. ~UsesHeader(k) /\ slow' = Inserted(slow, PlanCacheKey(k), k.plan)
        BY <1>5, <3>2 DEF Store
      <4>2. PlanCacheKey(k) = key /\ slow'[key] = k.plan
        BY <3>2, <4>1 DEF Inserted, TypeOK
      <4>3. k.image.name = i.name /\ k.image.version = i.version /\ k.symbol = s
        BY <4>2 DEF PlanCacheKey
      <4>4. k.image = i
        BY <2>1, <4>3, VersionAssumption DEF Calls
      <4> QED
        BY <2>1, <4>1, <4>2, <4>3, <4>4 DEF BoundSymbol
    <3> QED
      BY <3>1, <3>2
  <2> QED
    BY <2>5, <2>7, <2>8, <2>9 DEF MapInv, CachesRight
<1>6. ASSUME NEW t \in Threads, Return(t) PROVE MapInv'
  <2>1. NoTask \notin Calls
    BY DEF NoTask, Calls
  <2> QED
    BY <1>6, <2>1, RightSteps DEF Return
<1>7. ASSUME NEW t \in Threads, NEW fn \in Fns, NEW symbol \in Symbols,
             \/ \E i \in Owned : ExecuteModule(t, i, fn, symbol)
             \/ \E n \in Names : ExecuteLoadedModule(t, n, fn, symbol)
      PROVE  MapInv'
  <2>1. ASSUME NEW i \in Owned, ExecuteModule(t, i, fn, symbol) PROVE MapInv'
    BY <1>1, <2>1 DEF ExecuteModule, Images
  <2>2. ASSUME NEW n \in Names, ExecuteLoadedModule(t, n, fn, symbol) PROVE MapInv'
    <3>1. modules[n] \in Loaded /\ modules[n] \in Images /\ Copy(t) \in StackAddresses
      BY <2>2 DEF ExecuteLoadedModule, TypeOK, LoaderTypeOK, Images, StackAddresses
    <3> QED
      BY <1>1, <2>2, <3>1 DEF ExecuteLoadedModule
  <2> QED
    BY <1>7, <2>1, <2>2
<1>8. ASSUME UNCHANGED <<plans, task>> PROVE MapInv'
  BY <1>8 DEF MapInv, CachesRight, OwnRight, StackRight, SlowRight, plans
<1> QED
  BY <1>2, <1>3, <1>4, <1>5, <1>6, <1>7, <1>8 DEF Next, FfiCall, vars, RegisterFunction

\* Whatever is executed, copied, loaded and replaced by any number of threads, an
\* ffi_call ends in what its module maps the symbol to, unless it is of a function with a
\* header in a copy on a stack: then it ends in what some loaded module maps the header of
\* its function of that number to.
THEOREM CallsReachMapped == Spec => []OnlyCopiesMixUp
<1> DEFINE Inv == TypeOK /\ LoaderInv /\ CallInv /\ MapInv
<1>1. Init => Inv
  BY InitLoader, InitCalls, InitMap
<1>2. Inv /\ [Next]_vars => Inv'
  BY NextLoader, NextCalls, NextMap DEF TypeOK
<1>3. Inv => OnlyCopiesMixUp
  <2> SUFFICES ASSUME Inv, NEW t \in Threads, At(t, "done") PROVE Good(task[t])
    BY DEF OnlyCopiesMixUp, Good
  <2>1. task[t] \in Calls
    BY TaskTypes DEF At, NoTask
  <2> QED
    BY <2>1 DEF MapInv, Right, At
<1> QED
  BY <1>1, <1>2, <1>3, PTL DEF Spec
=============================================================================
