# TieVM: a TLA+ model

TieVM is a register-based virtual machine in C++: a bytecode format with a verifier and an
optimizer, an interpreter, objects with multiple inheritance, a generational garbage collector
with a background thread, native calls with hot reload, zipped library bundles with a cache on
disk that all processes share, and an ahead-of-time compiler. The modules here model the parts
where order matters (threads, locks, processes, callbacks, exceptions, crashes), and the parts that
must agree with each other about what a program means (interpreter, optimizer, compiler, files), and
check and prove what they promise.

## Inventory

| Part | State | Operations | Who touches it | What makes it correct |
|---|---|---|---|---|
| Garbage collector (`gc_controller.cpp`) | heap of cells with generation, mark and pin count; roots; weak and phantom references; finalizers; the flags of the worker | Allocate, Add/RemoveReference, Add/RemoveRoot, Pin, Unpin, finalizers, weak and phantom references, CollectMinor, CollectMajorAsync, WaitForMajor, destructor | any thread, the worker thread, finalizers that run without the lock | nothing reachable is reclaimed, a major collection reclaims the rest, tables agree with the heap, finalizers and phantom references once, waiters return, the destructor joins |
| Objects (`object_model.cpp`) | objects with fields, on top of the collector | NewObject, SetField | any thread, in several critical sections of two locks | a returned object lives; what fields hold stays |
| Classes (`object_model.cpp`, `tievm_run_tbc.cpp`) | registered classes and their cached method order | RegisterClass, ComputeMro, lookup of Invoke, registration of a module's classes | the loader, Invoke | the order is the C3 order, fails only on a conflict, the most specific method wins, loading ends |
| Interpreter (`vm_thread.cpp`) | activations with pc, registers and try frames; errors with stack frames | the instruction set | one thread; native functions re-enter it | catch and finally run when and as often as the program's structure says; errors tell the call chain |
| Module resolution (`module_loader.cpp`, `hot_reload_session.cpp`) | the table of loaded modules; staged modules | load a module, a container or a bundle; stage and commit; search by symbol | any thread; the lock is not held from one module of a file to the next | the modules of a bundle agree on what symbols stand for, however far its load came |
| Native calls (`ffi_bridge.cpp`, `vm_instance.cpp`, `vm_thread.cpp`) | registered functions, two plan caches, open libraries | ffi_call, fall back to another module, register | any thread; the lock is released between lookup and insert | a symbol calls what its module maps it to |
| Bundle cache (`module_loader.cpp`, `tlbs_bundle.cpp`) | directories on disk | look, check, repair, remove, stage, publish, fall back | all processes on the machine | a process that runs from the cache finds its own bundle there, whole |
| Verifier and optimizer (`verifier.cpp`, `optimizer.cpp`) | the module that is rewritten in place | verify, nine passes in the pipeline of a level, verify again | the command line tools and the loader | what is accepted is safe to run without checks; a pass changes no result and makes no module that is refused |
| Ahead-of-time compiler (`aot_pipeline.cpp`) | a module, its class table, the text of the LLVM code | accept or refuse, resolve methods, emit code | the command line tools | the program does what the interpreter does; `invoke` calls the method that the registry finds |
| File formats (`serializer.cpp`, `tlb_container.cpp`, `tlbs_bundle.cpp`) | `.tbc` files, containers, archives, bundle directories | serialize, deserialize, pack, unpack | the tools, which may be killed while they write, and the loader | what was written is read; what is cut off is refused |
| Containers, strings, standard library, UTF-8, command line | tables under a lock, parsers, printing | | | |

How they interact: the interpreter calls the object model for `new_object` and `invoke`, and the
bridge for `ffi_call`; a native function may run a module on the same thread again. The object
model calls the collector, with its own lock held for some of the calls only. The loader verifies
what it loads, registers its classes, and gives the bridge the paths of the libraries in the cache
directory. The optimizer and the ahead-of-time compiler work on verified modules, which they read from
the files that the other tools write.

PROJECT.json lists the hazards of this code at their lines.

## Modules

| Module | Models |
|---|---|
| `GcGraph` | reachability, by definition |
| `GcMark` | `MarkFromRoots`, one pop of the work list per step |
| `ManagedHeap` | what a collector promises, whatever it does: the abstract specification of `GcController` |
| `GcController` | the collector: one action per critical section, the worker's condition variable, finalizers outside the lock. Uses the set of reachable objects for marking, which `GcMark` justifies |
| `ObjectModel` | NewObject and SetField, one step per call into the collector; composes `GcController` |
| `ClassRegistry` | C3 as recursive functions (`Merging` goes over where each sequence has got to), the cached orders, lookup, and the registration loop |
| `AotClasses` | the compiler's class table from the same metadata, and what `invoke` is compiled to |
| `StructuredTry` | structured programs with nested try statements and calls: what they mean, and the code that the compiler's example emits for them |
| `VmThread` | the interpreter's control flow, one step per instruction |
| `ModuleLoader` | the table of loaded modules: files taken module by module, hot reload, search by symbol |
| `FfiCalls` | which native function an ffi_call reaches, with two threads beside the loader; composes `ModuleLoader` |
| `TlbsCache` | loading a zipped bundle through the shared cache, one step per file system call that others can notice |
| `Bytecode` | instructions, modules, and which of them `Verifier::Verify` accepts |
| `Interpreter` | what a run of a module does, with registers, closures and data, as a machine: `Step` is one instruction, `Course` the states of a run, `Execute` what is observed of it |
| `LocalPasses` | the optimizer's passes that look at an instruction and its neighbours or targets |
| `Optimizer` | the other passes, the pipelines, and the driver: one step per pass and function; composes the three above |
| `Aot` | which modules the compiler accepts, and what the code it emits does |
| `Fields`, `TbcFormat`, `BundleFormat` | reading and writing field by field; `.tbc` files; containers, manifests, archives and bundle directories, with what a killed writer leaves |
| `ToolChain` | `tiebc opt`, `tlbs-pack`, `tlbs-unpack`, `aot` and the load of `tievm`, one after the other on one output; composes `Optimizer`, `Aot` and the formats |
| `GcMarkProofs`, `ObjectModelProofs`, `ClassRegistryProofs`, `VmThreadProofs`, `TlbsCacheProofs`, `FfiCallsProofs`, `OptimizerProofs` | proofs about the module whose name they begin with; `ObjectModelProofs` is about `GcController` too, `ClassRegistryProofs` about `AotClasses`, `OptimizerProofs` about `Bytecode` and `Interpreter` |
| `MeaningProofs` | proofs that the passes of `Optimizer` keep what a module does |
| `MC...` | the instances that TLC checks |

An operator whose name is another's with a suffix after an underscore (`KeptWeak_All` before
`KeptWeak`) is a slip: the same definition with a plausible mistake in it. Nothing uses it; put in
the place of its neighbour, it breaks the property PROJECT.json names with it. The slips show that
each property depends on the code it is about.

### How state and actions correspond to the code

`GcController`: `heap`, `old`, `edges`, `roots`, `pinned`, `finalizer`, `weak_refs`, `phantom_refs` are the
fields of `heap_` and the tables beside it, as sets of ids; a step is one `lock_guard` block.
`major_requested` and `stop` are the worker's flags; `worker` and `waiter` say where a thread is in its wait, and a
notification that is sent after unlocking is owed first (`notifying`) and given in a step of its own. Finalizers are taken from the
dead cells in the collection's step and run one by one afterwards. Callers may name any object of the heap,
held or not, as its id allows; `strays` records which objects a collection found out of reach and kept. `ImplementsHeap` maps this to `ManagedHeap`
by forgetting generations, marks, requests and waiters: `live` is the heap, `anchored` the roots
and the pinned cells, `due` the finalizers that were taken and have not run.

`ObjectModel`: `task` is the call a thread is in. The steps between which other threads run are
exactly those between the lock scopes of `NewObject` and `SetField`.

`ClassRegistry`: a step is one class of the loop's pass over the pending list; the end of a round
is a step. Linearization is a pure function of the hierarchy. `AotClasses` adds the compiler's table, which
is an index into the metadata instead of a map of names, and compares both for each module that the loop
has finished with.

`VmThread`: an activation has pc, try frames and how it was entered; an instruction that only
goes on is a mark, and the trace of marks is what a program does. `StructuredTry` gives a
program's meaning by its structure alone; `DoesWhatItMeans` compares the two.

`ModuleLoader`: `modules` is `modules_`; `load` says for each loading thread which file it takes, at which module it
is and which symbols it has recorded (`symbol_origin`). A module is published in the step that accepts it.

`FfiCalls`: a task is one ffi_call; lookup, the building of the plan without the lock, and the insert
are steps. A module object is known by its address: its owner's, or one of two on the stack of each thread, which
copies take again and again (`StackAddresses`). `Mapped` is what a symbol stands for in a module.

`TlbsCache`: a directory of the cache is a function from its files to their contents. Opening truncates,
writing fills, removal goes file by file, rename is atomic and fails onto files that are there. A write may be cut
short without a word, as `WriteFile` looks at the stream before its buffer is flushed, or fail and be noticed. The two
calls of exists() before a directory without a manifest is removed are two steps. `torn`, `noticed` and `disturbed`
record whose write was cut short, who was told so, and who met whom in a directory; no guard reads them.

`Optimizer`: a pass is an operator from code to code that says for each place what becomes of it; the loops
over the code that carry what is known along are functions of the place. `module` is what the driver
rewrites, `todo` the rest of the pipeline, `at` the function the pass is at. A register holds an integer, a
boolean or null; an integer has `WordSize` values and wraps. The constant pool is left out: loadk
holds its constant. A closure is its number in the order in which closures were made, its function and what
it captured are in a table beside the registers. `meaning` is what the input does for each list of
arguments: how it ends, its value and the native calls on the way with their arguments. Reading a register
that is not there, which nothing checks then, is an outcome of its own. The interpreter is a machine
that an operator steps, and the loops of the passes that go on until nothing changes are
functions of the number of rounds, as many as they can take: none of it is recursive, so that it can be
proved about.

`Aot`: a run of the emitted code: an alloca for each register, one slot for each try_begin of the function, a
flag for the exception that is under way. `departs` notes that the code did something that the interpreter
does in another way.

`Fields`, `TbcFormat`, `BundleFormat`: a file is a sequence of fields, each written and read as a whole; a reader is
a function from what is left of the file to a value and the new rest, or a failure. A writer that is
killed leaves a prefix; of a manifest, which is text, a line may be cut in its key, behind the equals
sign or in its value. A directory is a function from paths to contents, and files that were there before
stay until their turn comes.

`ToolChain`: `file` is the one output: its kind, what is on disk, whether its writer came to the end, and what
a reader should find. `artifact` is the compiler's verdict. Saving, packing and unpacking may follow each
other; compiling ends the run.

## What the passes can handle

The optimizer does change what some verified modules do. Each condition under which a pass is right is
an operator whose name begins with Keeps; `kept` says whether every pass so far met code that
satisfies its condition, and `MeaningKept` is required of exactly those modules:

- loop_fusion fuses two instructions although a jump leads to the second, and an accumulator that is its
  own counter (`KeepsFusion`);
- tailcall does not ask whether the ret is jumped to, whether a handler covers the call, or whether the
  caller has a return type to be checked (`KeepsTailcall`);
- the motion of a loadk supposes that its loop is entered at the header only (`KeepsLicm`);
- copy_prop renames registers that an instruction also writes (inc, dec, counting jumps; `KeepsCopies`);
- const_fold, strength reduction and copy_prop forget only the first register that vararg writes (`NoWindow`);
- sparse constant propagation follows no edge to a handler, and erases it (`ConstFoldPass`, level 3);
- cleanup sends a jump to a nop at the end of the code to the last instruction before it (`KeepsCleanup`);
- inline_small drops the types of parameters and results, leaves in the inlined registers what the
  last call left there, and bypasses forwarders of two arguments with the arguments of the wrong
  registers (`KeepsInlining`).

Closures need no condition of their own: the passes treat call_closure like call, and functions that
capture are neither inlined nor run ahead of time.

Two more limits are in the property itself: integer instructions read the bits of whatever they are
given, and passes that know a register's value as an integer do not reproduce that (`mixed`); and runs
that take more than `Fuel` steps are not compared.

## Where compiled code departs

`CompiledMeansSame` compares a run of the emitted code with the interpreter's, except for runs that met one of
these, each a place where the two sources say different things:

- an exception that leaves a function aborts the program, although a caller has a handler for it;
- an exception that is thrown in a catch or finally part goes to the same handler again;
- the types of results are checked by the wrapper of an exported function only, not at calls and not in main;
- a function has as many slots for try frames as it has try_begin instructions, and code that opens
  more of them at a time, in a loop, aborts;
- get_upval and set_upval without a closure, and call_closure of something else, panic and pass by
  all handlers, where the interpreter raises an error that can be caught.

## What overlapping loads leave

Nothing orders the processes that share the bundle cache but the file system, and the run `tlbs_cache` holds all
that follows from it. No fault is needed for the worst of it: in a clean cache, a load asks for the manifest and finds
none; another load renames its whole directory there; the first asks whether the directory exists, finds that it
does, and removes the files that the second runs from. In the same way a repair in place truncates a file of a directory
that is in use. `RootHoldsBundle` says what can come of this and what cannot: a process that met another one in
a directory that one of them changed in place (`disturbed`) may miss files or find one cut short; a process that met
nobody finds at most the file damaged that a write was cut short in, by a crash or unnoticed (`torn`); and no process
finds a file of another version, unless some load read one zip and hashed the next, and so named that
directory (`Misnamed`). `CacheIsUsed` says that a load falls back to a temporary directory or fails for the first
of these reasons only, or because a write of its own was seen to fail: losing the race to publish costs nothing.

## What a plan cache mixes up

The plan of a function with a binding header is kept under the address of its module and its number. An owner's object
keeps its address, but a copy on a stack takes the address of the copy before it, so that a call may run the
plan of another module or of an older version. The run `ffi_mapped` shows it, and `ffi_calls` does it all the
time: `OnlyCopiesMixUp` says that this is all that is mixed up, and that what is called then is what the header of a loaded
module's function of the same number is bound to.

## What a crash leaves

`FileIsWholeOrRefused` says what can be relied on. A `.tbc` file, a container or an archive that is cut off is
refused. A bundle directory is written in place, file by file, and is weaker: modules are whole or refused,
but each of them may be the old or the new one; a torn library is not noticed, because only its presence is
looked at; and libraries that the directory held before are read as part of the new bundle. A manifest
that is cut off behind its version can be one without modules; packing it gives an archive that can be read
and that tievm refuses, since it has nothing to run.

## Runs

| Run | Shows |
|---|---|
| `gc_mark` | marking terminates and marks exactly the reachable objects, for all graphs of three objects |
| `gc_graph` | three objects, all graphs that calls can build: no reachable object is reclaimed, major collections leave nothing else, the young counter is exact, and an edge leads to a reclaimed object only from an object that was out of reach when a collection ran, though callers may bring such objects back; all of it is a `ManagedHeap` |
| `gc_threads` | two mutators and the worker: tables agree with the heap, finalizers and phantom references once; waits, requests and the destructor end; a `ManagedHeap` again, with finalizers and references |
| `gc_wait` | violation: WaitForMajor returns before the finalizers of the collection it waited for |
| `object_model` | two threads create and link objects while collections run between their steps |
| `object_fields` | violation: overwriting one of two fields with the same value drops the edge of the other |
| `class_registry` | all hierarchies of five classes with up to two bases: the C3 laws; and the registration loop with missing bases, cycles and names declared twice, beside the compiler's class table: both take the same modules and call the same methods |
| `vm_thread` | a family of structured programs with all ways to fail: the interpreter does what they mean, and errors tell the chain of calls |
| `optimizer` | nine families of small modules, about 22 500, through the pipelines: verified code stays inside its registers, every pass leaves a module that verifies, and meaning is kept; some are written to each kind of file, cut off, packed, unpacked and loaded again: what is on disk is whole or refused; all are compiled: the program does what the interpreter does |
| `tlbs_cache` | three processes in one cache that may lack files: loads and repairs that overlap, writes that fail, noticed or not, crashes, replaced bundles: each spoils what it must and nothing else, losing a race never does, and loads end |
| `ffi_calls` | two threads, reloads, headers, missing functions, and a loader that takes a bundle module by module: symbols keep their meaning but for functions with a header in copies on a stack, and then it is another loaded module's; the modules of a bundle agree; calls end |
| `ffi_mapped` | violation: the plan of another module is called from the address cache |

### Bounds

The bounds are named constants or are named at the definition. Three objects are enough for a chain
with a cycle beside it and for one dead and one live successor of a cell; two mutators beside the
worker make every race of two critical sections. Five classes with two bases hold the smallest
hierarchies on which C3 fails and on which an order that breaks monotonicity exists. Two nested try
statements in each part of a third, with a call between, show every handler interrupted by every
other. Three processes let two compete while a third loads from what they made. `MaxEvents` = 4 counts loads, failed
writes, crashes and new versions together: three loads with one fault anywhere, or two with two; `MaxVersion` = 2 is
one replaced bundle; a manifest and a library are the files. For native
calls: one symbol; three images that are loaded, two of them versions of a module with a header, of which one is bound to
a function that is missing; a later version of the third and a module without bindings that the host runs itself;
two bundles, one of which is refused behind its first module; and one loader beside two callers. With files: two modules in a
bundle, of which one is optimized, a library, an empty or an old directory, and one tool that is killed; reading and writing are the same for each entry, so that more of them show nothing new.

For the optimizer: `WordSize` = 8 lets a product wrap; functions have up to nine instructions, so that each
pass meets code with a loop, a label in its way and something another pass made; the families
fill fixed frames with every combination of an alphabet (straight code with branches, loops entered at the
top or in the middle, loops whose values are all known, code that ends in nops, calls of a dozen callees,
typed results, try statements, closures that are called again, passed on and change what they captured,
and code that the verifier should refuse). `Fuel` = 30 is longer than
any of their runs that end, except those that count round the word; the optimized run gets twice as much. In each
family about half of the modules that verify change and keep their condition, except with try
statements, where it is one in twenty, because most passes leave functions with handlers alone.

Assumed on purpose, each named where it is: a finalizer starts no collection of its own;
WaitForMajor is called by mutators, not by finalizers; staging directories have unique names; different zips hash
differently; a new content of a module has a new version (`VersionAssumption`); one load per process.

### Fairness

Liveness rests on weak fairness of the worker and of threads that are inside a call: the operating
system keeps running threads that can run, and a mutex that is free is taken. Callers need not call
anything: no action that begins a call is fair. A spurious wakeup may happen but need not.

## Proofs

`GcMarkProofs` proves for every
heap, work list order and set of roots that marking ends with exactly the reachable set: the
invariant is that what is marked is reachable and that whatever is reachable and unmarked can be
reached from the work list. `ObjectModelProofs` proves of the collector, for every number of threads and objects and every
bound, the type invariant, that the young counter is exact, that the tables agree with the
heap, that no step reclaims what is reachable (an action property), that a major collection leaves
exactly what is reachable and a minor one nothing young, that phantom references are delivered at most once
and never lost, that finalizers run once, and where edges to reclaimed objects start (`DanglesFromStrays`). The inductive invariant is a
conjunction of named parts; `YoungCountExact` needs that only live cells are young,
`FinalizersCorrect` that a finalizer belongs to a live cell until it is taken, and `DanglesFromStrays` that
what is marked is closed, so that an object which stays while a successor of it goes is not marked.

It also proves `CollectorImplementsHeap`: for every number of threads and objects, every step of the
collector is a step of `ManagedHeap` or changes nothing of it. This rests on the inductive invariant
and on one fact more, `EndsGiven`: the ends of all edges are ids that were given out, so that no
new object takes the place of a dead one that an edge still leads to.

Of the object store `ObjectModelProofs` proves first that every step of the store is for the collector an operation that it
offers, or none (`ObjectModelUsesCollector`), so that the collector's invariants hold below the store
too. `ObjectInv` adds that what was returned and not released is a root of a live cell, and that
between the two halves of `SetField` the field that is about to change has no edge (`CallUnlinked`):
without it a collection or another call in between could not be shown to leave the edges right.

`ClassRegistryProofs` has three parts. C3: for every hierarchy that can be registered, of any number of
classes and bases, a cached order holds exactly what the class inherits from, each class before its
bases, keeps each base list and the orders of the bases, and lets the most specific method win;
and a class is left without an order only when what is merged for it has a cycle. Recursive
functions have to be shown to exist before anything follows from their equation: `RankRecursion` proves
it for a recursion along any rank, and is applied to the merge (the rank is what has not been erased
yet), to the linearizations and to the ancestry (the rank of a class is above those of its bases).
`RankInduction` then gives an induction over the rounds of a merge and one over the hierarchy. Of the
merge it is proved that it takes all, keeps the order of each sequence, names nothing twice if no
sequence does, and fails only at heads that stand in each other's way. `RegistryInv` is what the
steps keep: there is a rank with room above it, so that there is no cycle, and what is cached is the
order in the hierarchy as it is now. The registration loop: for metadata of any size, in any order, with
cycles, missing bases and names declared twice, the loop ends with the least set that is closed under
"all bases are there", and fails exactly when something is left over. `LoopInv` says that each declaration
waits or is registered, and that while a round has made no progress what it has postponed still cannot be
registered. `MetadataAssumption` is only that metadata is a sequence of names with lists of names. The compiler's class
table: `CompiledClassesDispatchSame` says that for any such metadata the compiler and the registry take the same
modules, and that compiled calls and `Invoke` then choose the same method. A merge asks of classes only
whether two are the same, so it commutes with a renaming that is one to one (`MergeRenamed`), here from an
index in the metadata to the name that stands there. The compiler needs no registered hierarchy to begin with: its
recursion ends because each call has begun one class more (`Unvisited`), a cycle ends it without an order, and
so a class that has an order can be registered (`CompiledResolves`). From there the two orders are equal class
by class, bases first, as long as nothing that the class inherits from has begun (`SameOrders`).

`VmThreadProofs` proves that the frames of an error are the activations that were open where it arose, for
every module that the verifier accepts (`CodesAssumption`: there is an entry, calls name functions,
handlers are positions). The invariant `ErrorsTell` says it of the error under way and of those that wait in
the try frame of a catch or finally part that they interrupted: together the frames they have and the
activations that are still open are the chain at their origin.

`TlbsCacheProofs` proves `RootHoldsBundle` and `CacheIsUsed` for every number of processes, files and versions, with
repairs that overlap, crashes, failed writes noticed or not, and a zip that is replaced at any time: the only assumptions
are that there is a file and a version. The invariant has two halves. What holds of a directory whoever works
on it: a file that holds a version holds the one the directory is named after, or the directory was misnamed; and a file that
is cut short is `torn`, or some process has it open or knows that it failed and removes it (`AtWorkOn`). And what a
process that has met nobody knows (`InUse`; `MeetingsSeen` says that whoever meets another is recorded): while it checks, repairs or
runs, the files that its loop has passed are there, since nobody else changes them in place, and a rename that another process
succeeds with moves a whole directory onto nothing.

`FfiCallsProofs` proves, with no assumption but those on the constants, type correctness; that the modules a bundle has
published agree on every symbol (the invariant: what a published module binds is what is recorded for the symbol); and that a
call ends in what its module, or the one it falls back to, maps its symbol to, except for functions with a header
in copies on a stack (`OnlyCopiesMixUp`), for every number of threads, images and reloads. The invariant `MapInv`
says of the caches that each plan in the slow one is what the image of its key binds (`SlowRight`), that the address of a host's own image
stands for what its header binds (`OwnRight`), and that a plan at an address on a stack is what a loaded
image binds its header of that function to (`StackRight`); and of a call in progress that its module is where it can
be (`Placed`) and that the plan it carries is its own.

`OptimizerProofs` proves three things for every module, all arguments, options and constants. First, that what the
verifier accepts runs inside its registers, although the interpreter does not check them then: the
invariant of the machine is `Sound` (an activation runs a function of the module and has exactly the registers that it
declares; an execution that goes on has an activation), the handlers keep it one by one, and what
`Verifier::Verify` checks of an instruction is what the handlers do not (`VerifiedInBounds`). A run is a
course of such steps, of any length (`ExecuteInside`). This is about registers and argument windows: arithmetic
wraps in the model, and what C++ leaves undefined of it is not covered. Second, that the optimizer hands on verified modules only, after
every pass and not just at the end, so that its last check never fails. What the verifier asks of a
module is split into `Fits`, which is about one instruction at one place of code of some size, so
that each pass is judged by the instructions it puts in place. Most passes keep the size, and there only the new instructions
matter: which registers they name (copy_prop names those that the alias map leads to, which are registers of the function at
every place), and whether new jumps stay in the code. cleanup and inline_small move code: the
count of instructions that stay (`Counts`) and the places of the pieces of a flattened sequence (`Pieced`) say
where each instruction and each target comes to lie, and a jump keeps its target. An
inlined callee finds its registers behind the caller's (`RegistersSuffice`). `OptimizerInv` is what the driver's steps
keep. Third, that the passes that rewrite instructions in place, peephole, const_fold, copy_prop and dce, keep what
every function of the module does for every argument and every length of the run, step for step, unless the
run mixes integers with other values or the pass meets code that it cannot handle (`RewritingKeepsRuns`). Such a
pass works from facts: for each instruction, the register files that can be there before it. const_fold's are those of which what it
knows is true, copy_prop's those of which the aliases are copies, dce's all where the instruction is reached and none
elsewhere. Facts claim nothing at labels; if they go on to hold from an instruction to the next, they hold in every
activation of every run, those that wait for a call or have a handler too (`Tracked`). Where the facts hold, the new instruction
does what the old one did (`Alike`). This proof found that `KeepsCopies` was too weak: a renamed `add_dec_jnz`
could count a register that it also adds to, which TLC confirmed, and the condition was corrected.
`OptimizerAssumption` says that jobs are modules as a reader makes them, with unsigned operands,
and that the two bounds are numbers.

`MeaningProofs` adds the passes that change the number of steps, tailcall, loop_fusion and cleanup, and concludes
that at the levels 0, 1 and 2 `MeaningKept` holds for every verified module, all arguments and all options that do not
enable inline_small (`BelowLevel3KeepsMeaning`), where the passes meet code that they can handle: `kept` is a condition of
`MeaningKept`, and the theorem says nothing of the modules for which a pass of these levels meets other code. Two modules
are related by `SameEnds`: a run of the first that ends, with any fuel, ends alike in the second with the
same fuel, so the second needs no more steps; this relation is transitive, and what `RewritingKeepsRuns` gives implies it. After
tailcall and loop_fusion the two modules meet again and again in the same machine (`Advances`). A tail call leaves no
activation behind, so a return in the old module takes a way through activations that only return what they are
given to where the new module is at once (`ReturnsAlong`, by induction on the depth of the stack); in between nothing is
caught, since the caller has no try statement, and no result is refused, since it declares no type. A fused
instruction is shown to compute what its two parts did, one after the other (`FusedComputes`), and that the place
behind it is never reached follows from the facts of a third module that stops at the fused places (`Waiting`). After
cleanup the program counters differ: `Shadows` maps each activation's program counter to the count of
the instructions that stay before it, and every step of the old module is a step of the new one or a nop that
is gone (`ShadowStep`). A nop at the end of the code has no such place, which is why `KeepsCleanup` is needed.

A note on `MroFailsOnlyOnConflict`. One could expect a class to be refused only when inheritance and the
base lists alone contradict each other. C3 refuses more: once the order of a base has settled a question that
inheritance leaves open, another base may not settle it otherwise. The property therefore speaks of what is
merged, the orders of the bases and the base list, and excepts classes that name a base twice.

Only model-checked: liveness (out of the prover's reach); that the interpreter does what structured
programs mean; that inline_small and what level 3 adds (Licm, StrengthReduction, Sccp, ConstExec) keep the meaning of
a program; the compiler and the files. `Aot`, `StructuredTry` and
`Fields` have RECURSIVE operators over programs and files, which the provers cannot use, and so cannot what composes
them.

## Not modelled

In the interpreter's data, the passes and the compiler: the instructions for bits, strings, floating point
numbers and objects. In native calls: marshalling, ABI types, struct layout and callbacks. A second execution on
the same thread: `VmThread::Execute` clears the closures of the execution it is called from, but no native
function of the repository runs a module. Containers and interned strings are tables under one lock. The
standard library, UTF-8, printing, argument parsing, clang and the linker, benchmarks and examples are
sequential, or input and output. Memory pressure beyond the collector's young limit.

Smaller departures from the code, each where it is defined:

- `Interpreter.Arithmetic` and `Quotient` wrap, the least integer divided by -1 included. In C++ signed overflow is
  undefined (`vm_thread.cpp` 262-303), and that division ends the process (282; `optimizer.cpp` 853 when it is folded).
- `Interpreter.Does` lets every ffi_call succeed and return a value; the way of a status that it returns instead
  (`vm_thread.cpp` 719-722) is in `VmThread`.
- `Aot.Executes` leaves out how the emitted code converts arguments and results of native calls, and refuses
  some (`aot_pipeline.cpp` 1982-2047; `ffi_bridge.cpp` 196-258).
- `AotClasses.DistinctNames` is what the class table refuses of names of classes; that a class lists a method twice or a
  method without a function (1012-1030) is refused by the verifier before.
- `TbcFormat` has functions without a binding header: its five fields (`serializer.cpp` 214-218) are written as zeros and skipped
  (443-456), and the clause of `HasFfi` for enabled headers (143-147) is never true. The readers do not check
  the range of types (394, 419, 429), as no writer puts others there and a cut does not change what is left.
- In the formats generally: the bytes of a field, sizes that overflow, paths that are refused or escaped, what
  other programs put into archives beyond flags and methods.
- A remove_all that fails, in `TlbsCache`: it removes what it finds.

## Plan

1. Bits, strings and objects in `Interpreter`, the passes and `Aot`.
2. Proofs: that inline_small and the passes of level 3 keep the meaning of a program.
3. The UTF-8 decoder against the definition of well-formed sequences.
