---------------------------- MODULE ModuleLoader ----------------------------
(***************************************************************************)
(* The table of loaded modules of src/runtime/module_loader.cpp: loading   *)
(* one module, a .tlb container or a .tlbs bundle, replacing modules in a  *)
(* hot reload session, and the search for a module that binds a symbol.    *)
(* mu_ is held while the table is read or written, not while a file with   *)
(* several modules is loaded: each of its modules is a step.               *)
(*                                                                         *)
(* A module image says which symbol a function's header is bound to, if    *)
(* any, and which native function (a library and a name in it) each symbol *)
(* stands for.  How a bundle comes to a directory is in TlbsCache.         *)
(***************************************************************************)
EXTENDS Naturals, Sequences, FiniteSetsExt

CONSTANTS
    Symbols, Natives,
    Fns,            \* function indices
    Loaders,        \* the threads that load files
    Loaded,         \* what may be loaded: a set of images
    Files,          \* records [kind, modules]: a sequence of [image, flaw]
    None

\* Names and versions are numbers.  A header is bound to a symbol of its module.
IsImage(i) ==
    /\ i.name \in Nat /\ i.version \in Nat
    /\ DOMAIN i.binds \subseteq Symbols /\ \A s \in DOMAIN i.binds : i.binds[s] \in Natives
    /\ \A fn \in Fns : i.header[fn] # None => i.header[fn] \in DOMAIN i.binds

\* Each module of a file passes the checks on it alone or has a flaw: bytes that are
\* not there or are refused, a library that is not there or not below the root of the
\* bundle, or a binding to no library.
ASSUME LoaderAssumption ==
    /\ \A i \in Loaded : IsImage(i)
    /\ None \notin Loaded \cup Files
    /\ \A f \in Files : /\ f.kind \in {"tlb", "tlbs"}
                        /\ f.modules \in Seq([image : Loaded, flaw : BOOLEAN])

VARIABLES
    modules,        \* modules_: name -> image, or None
    load            \* loader -> its call of LoadTlbFile or LoadTlbsFile

loaderVars == <<modules, load>>

Names == {i.name : i \in Loaded}

NoBinds == [s \in {} |-> None]
NoLoad == [pc |-> "idle", file |-> None, at |-> 1, origins |-> NoBinds]

LoaderInit ==
    /\ modules = [n \in Names |-> None]
    /\ load = [l \in Loaders |-> NoLoad]

\* A hot reload session: all of the images staged, or none when two versions of one
\* module are among them.  Nobody else sees a session before it commits, and none of
\* its images is left in it afterwards.  A single image is LoadBytecodeModule too.
Conflict(staged) ==
    \E i, j \in staged : i.name = j.name /\ i.version # j.version

Commit(staged) ==
    /\ ~Conflict(staged)
    /\ modules' = [n \in Names |-> IF \E i \in staged : i.name = n
                                   THEN CHOOSE i \in staged : i.name = n
                                   ELSE modules[n]]
    /\ UNCHANGED load

\* FindModuleByFfiSymbol: of the modules that bind the symbol the least by name.
Binding(symbol) ==
    {n \in Names : modules[n] # None /\ symbol \in DOMAIN modules[n].binds}
FindModuleByFfiSymbol(symbol) ==
    IF Binding(symbol) = {} THEN None ELSE modules[Min(Binding(symbol))]

-----------------------------------------------------------------------------
(* Files with several modules                                              *)

Loading(l) == load[l].pc = "loading"

\* Each loader makes one call; a later one is another loader's.
BeginLoad(l, file) ==
    /\ load[l].pc = "idle"
    /\ load' = [load EXCEPT ![l] = [pc |-> "loading", file |-> file, at |-> 1, origins |-> NoBinds]]
    /\ UNCHANGED modules

Item(l) == load[l].file.modules[load[l].at]

\* symbol_origin: a bundle whose modules bind a symbol to different natives is
\* refused; a container is not asked.
Agrees(l, binds) ==
    load[l].file.kind = "tlb"
    \/ \A s \in DOMAIN binds \cap DOMAIN load[l].origins : binds[s] = load[l].origins[s]

Recorded_Nothing(l, binds) == NoBinds
Recorded(l, binds) ==
    [s \in DOMAIN binds \cup DOMAIN load[l].origins |->
        IF s \in DOMAIN binds THEN binds[s] ELSE load[l].origins[s]]

\* The module is published as soon as it has passed, whatever comes after it.
LoadModule(l) ==
    /\ Loading(l) /\ load[l].at <= Len(load[l].file.modules)
    /\ ~Item(l).flaw /\ Agrees(l, Item(l).image.binds)
    /\ modules' = [modules EXCEPT ![Item(l).image.name] = Item(l).image]
    /\ load' = [load EXCEPT ![l].at = @ + 1, ![l].origins = Recorded(l, Item(l).image.binds)]

RefuseModule(l) ==
    /\ Loading(l) /\ load[l].at <= Len(load[l].file.modules)
    /\ Item(l).flaw \/ ~Agrees(l, Item(l).image.binds)
    /\ load' = [load EXCEPT ![l].pc = "refused"]
    /\ UNCHANGED modules

\* The entry module is one of the bundle's: the manifest was refused otherwise.
EndLoad(l) ==
    /\ Loading(l) /\ load[l].at > Len(load[l].file.modules)
    /\ load' = [load EXCEPT ![l].pc = "ok"]
    /\ UNCHANGED modules

LoaderNext ==
    \/ \E i, j \in Loaded : Commit({i, j})
    \/ \E l \in Loaders :
         \/ \E file \in Files : BeginLoad(l, file)
         \/ LoadModule(l) \/ RefuseModule(l) \/ EndLoad(l)

-----------------------------------------------------------------------------
(* Properties                                                              *)

LoaderTypeOK ==
    /\ modules \in [Names -> Loaded \cup {None}]
    /\ load \in [Loaders -> [pc : {"idle", "loading", "ok", "refused"},
                              file : Files \cup {None}, at : Nat \ {0},
                              origins : UNION {[D -> Natives] : D \in SUBSET Symbols}]]
    /\ \A l \in Loaders : load[l].pc # "idle" =>
          load[l].file \in Files /\ load[l].at <= Len(load[l].file.modules) + 1

\* What a call has put into the table so far.
Published(l) ==
    IF load[l].pc = "idle" THEN {}
    ELSE {load[l].file.modules[k].image : k \in 1..load[l].at - 1}

\* However far the load of a bundle has come, and also when it is refused half way or
\* overtaken by others, the modules of the bundle that calls can reach agree on what
\* a symbol stands for: which of them the search by symbol finds makes no difference.
BundleSymbolsAgree ==
    \A l \in Loaders : \A i, j \in Published(l) :
        load[l].file.kind = "tlbs" =>
            \A s \in DOMAIN i.binds \cap DOMAIN j.binds : i.binds[s] = j.binds[s]
=============================================================================
