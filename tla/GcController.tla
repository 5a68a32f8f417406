---------------------------- MODULE GcController ----------------------------
(***************************************************************************)
(* The garbage collector of src/gc/gc_controller.cpp: a heap of cells, the *)
(* roots, weak and phantom references, and the thread that runs major      *)
(* collections.  Every operation holds mu_ for the part of it that touches *)
(* the heap, so that part is one action.  What happens outside the lock is *)
(* a step of its own: the notify_one after a request, each finalizer, and  *)
(* the notify_all that follows a major collection's finalizers.            *)
(*                                                                         *)
(* A cell's fields are kept as sets of ids (pinned, old, finalizer) and as *)
(* one edge relation.  cell.marked and major_running_ are true only while  *)
(* mu_ is held and false again when it is released: no step sees them.     *)
(* A call that fails (NotFound) changes nothing and is not an action.      *)
(* An operator named X_Slip beside an operator X is a plausible mistake in *)
(* the code X models; nothing uses it but the check that a property of the *)
(* system catches the mistake.                                             *)
(***************************************************************************)
EXTENDS GcGraph, Naturals, FiniteSets

CONSTANTS
    Mutators, Worker,               \* the threads that call, and major_worker_
    YoungThreshold, OldThreshold,   \* Config
    Waiters,                        \* the mutators that call WaitForMajor
    \* Bounds of a model: objects, references, live edges, pinned cells,
    \* finalizers registered, and calls of CollectMajorAsync.
    MaxId, MaxRef, MaxEdge, MaxPin, MaxFinalizer, MaxRequest

ASSUME ConstantsAssumption ==
    /\ Worker \notin Mutators /\ Waiters \subseteq Mutators
    /\ YoungThreshold \in Nat /\ OldThreshold \in Nat
    /\ MaxId \in Nat /\ MaxRef \in Nat /\ MaxEdge \in Nat
    /\ MaxPin \in Nat /\ MaxFinalizer \in Nat /\ MaxRequest \in Nat

VARIABLES
    heap, pinned, old, edges, finalizer, roots,
    weak_refs, phantom_refs, phantom_queue,     \* pairs <<ref id, object id>>
    next_id, next_ref_id, young_count,
    major_requested, stop,
    worker,         \* where RunMajorWorker is
    waiter,         \* where each mutator is in WaitForMajor
    notifying,      \* threads that released mu_ and still owe cv_.notify_one
    deferred,       \* thread -> objects whose finalizer it took and has not begun
    in_finalizer,   \* threads inside a finalizer's body
    \* Observed only: finalizers ever registered and begun, objects that a collection
    \* found out of reach and kept, phantom references ever created and handed out, and
    \* the number of CollectMajorAsync calls.
    registered, finalized, strays, phantoms, delivered, requests

cells == <<heap, pinned, old, edges, finalizer, roots>>
refs == <<weak_refs, phantom_refs, phantom_queue, next_ref_id, phantoms, delivered>>
counters == <<next_id, young_count>>
threads == <<worker, waiter, notifying, deferred, in_finalizer>>
seen == <<registered, finalized, strays>>
request == <<major_requested, requests>>
vars == <<cells, refs, counters, threads, seen, request, stop>>

Threads == Mutators \cup {Worker}
Ids == 1..MaxId
RefIds == 1..MaxRef

Monus(a, b) == IF a > b THEN a - b ELSE 0

\* What MarkFromRoots marks: GcMark shows that its loop computes this set.
Marked == Reachable(heap, Starts(heap, roots, pinned), edges)

\* The thread is in its own code or in a finalizer's, not blocked, not inside a
\* call.  Nobody but the worker may use a controller that is being destroyed.
CanCall(t) ==
    /\ t \notin notifying
    /\ IF t = Worker
       THEN t \in in_finalizer
       ELSE /\ ~stop
            /\ waiter[t] \in {"out", "returned"}
            /\ deferred[t] = {} \/ t \in in_finalizer

\* cv_.notify_one or notify_all: only the worker waits on cv_.
WakeWorker_Lost == worker
WakeWorker == IF worker = "blocked" THEN "check" ELSE worker

\* The thread sends its notify after it has unlocked.
OweNotify_Forgotten(t) == notifying
OweNotify(t) == notifying \cup {t}

Init ==
    /\ heap = {} /\ pinned = {} /\ old = {} /\ edges = {} /\ finalizer = {}
    /\ roots = {} /\ weak_refs = {} /\ phantom_refs = {} /\ phantom_queue = {}
    /\ next_id = 1 /\ next_ref_id = 1 /\ young_count = 0
    /\ major_requested = FALSE /\ stop = FALSE
    /\ worker = "check"
    /\ waiter = [t \in Mutators |-> "out"]
    /\ notifying = {} /\ in_finalizer = {}
    /\ deferred = [t \in Threads |-> {}]
    /\ registered = {} /\ finalized = {} /\ strays = {} /\ phantoms = {} /\ delivered = {}
    /\ requests = 0

-----------------------------------------------------------------------------
(* The heap and the roots                                                  *)

\* Allocate: a young cell, and a request when either threshold is exceeded.
Allocate(t) ==
    /\ CanCall(t)
    /\ next_id <= MaxId
    /\ next_id' = next_id + 1
    /\ heap' = heap \cup {next_id}
    /\ young_count' = young_count + 1
    /\ IF \/ young_count' > YoungThreshold /\ roots # {}
          \/ Cardinality(heap') > OldThreshold
       THEN major_requested' = TRUE /\ notifying' = OweNotify(t)
       ELSE UNCHANGED <<major_requested, notifying>>
    /\ UNCHANGED <<pinned, old, edges, finalizer, roots, refs, seen, requests, stop,
                   worker, waiter, deferred, in_finalizer>>

AddReference(t, from, to) ==
    /\ CanCall(t)
    /\ from \in heap /\ to \in heap
    /\ Cardinality(edges) < MaxEdge
    /\ edges' = edges \cup {<<from, to>>}
    /\ UNCHANGED <<heap, pinned, old, finalizer, roots, refs, counters, threads,
                   seen, request, stop>>

RemoveReference(t, from, to) ==
    /\ CanCall(t)
    /\ from \in heap
    /\ <<from, to>> \in edges
    /\ edges' = edges \ {<<from, to>>}
    /\ UNCHANGED <<heap, pinned, old, finalizer, roots, refs, counters, threads,
                   seen, request, stop>>

AddRoot(t, id) ==
    /\ CanCall(t)
    /\ id \in heap
    /\ roots' = roots \cup {id}
    /\ UNCHANGED <<heap, pinned, old, edges, finalizer, refs, counters, threads,
                   seen, request, stop>>

RemoveRoot(t, id) ==
    /\ CanCall(t)
    /\ roots' = roots \ {id}
    /\ UNCHANGED <<heap, pinned, old, edges, finalizer, refs, counters, threads,
                   seen, request, stop>>

Pin(t, id) ==
    /\ CanCall(t)
    /\ id \in heap
    /\ Cardinality(pinned) < MaxPin
    /\ pinned' = pinned \cup {id}
    /\ UNCHANGED <<heap, old, edges, finalizer, roots, refs, counters, threads,
                   seen, request, stop>>

Unpin(t, id) ==
    /\ CanCall(t)
    /\ id \in heap
    /\ pinned' = pinned \ {id}
    /\ UNCHANGED <<heap, old, edges, finalizer, roots, refs, counters, threads,
                   seen, request, stop>>

-----------------------------------------------------------------------------
(* Finalizers and references                                               *)

\* A second registration replaces the first.
RegisterFinalizer(t, id) ==
    /\ CanCall(t)
    /\ id \in heap
    /\ Cardinality(registered \cup {id}) <= MaxFinalizer
    /\ finalizer' = finalizer \cup {id}
    /\ registered' = registered \cup {id}
    /\ UNCHANGED <<heap, pinned, old, edges, roots, refs, counters, threads,
                   finalized, strays, request, stop>>

CreateWeakRef(t, id) ==
    /\ CanCall(t)
    /\ id \in heap
    /\ next_ref_id <= MaxRef
    /\ weak_refs' = weak_refs \cup {<<next_ref_id, id>>}
    /\ next_ref_id' = next_ref_id + 1
    /\ UNCHANGED <<cells, phantom_refs, phantom_queue, phantoms, delivered, counters,
                   threads, seen, request, stop>>

CreatePhantomRef(t, id) ==
    /\ CanCall(t)
    /\ id \in heap
    /\ next_ref_id <= MaxRef
    /\ phantom_refs' = phantom_refs \cup {<<next_ref_id, id>>}
    /\ phantoms' = phantoms \cup {<<next_ref_id, id>>}
    /\ next_ref_id' = next_ref_id + 1
    /\ UNCHANGED <<cells, weak_refs, phantom_queue, delivered, counters, threads,
                   seen, request, stop>>

DrainPhantomQueue(t) ==
    /\ CanCall(t)
    /\ phantom_queue # {}
    /\ delivered' = delivered \cup phantom_queue
    /\ phantom_queue' = {}
    /\ UNCHANGED <<cells, weak_refs, phantom_refs, next_ref_id, phantoms, counters,
                   threads, seen, request, stop>>

-----------------------------------------------------------------------------
(* Collections                                                             *)

\* The cells Sweep erases: in a young collection never an old one.
Dead_RootsOnly(young_only, oldgen) ==
    {o \in heap : ~(young_only /\ o \in oldgen) /\ o \notin roots /\ o \notin pinned}
Dead_YoungOnly(young_only, oldgen) ==
    {o \in heap : o \notin oldgen /\ o \notin Marked /\ o \notin pinned}
Dead(young_only, oldgen) ==
    {o \in heap : ~(young_only /\ o \in oldgen) /\ o \notin Marked /\ o \notin pinned}

\* What Sweep leaves of the edges, weak and phantom references.
KeptEdges(dead) == {e \in edges : e[1] \notin dead}
KeptWeak_All(dead) == weak_refs
KeptWeak(dead) == {r \in weak_refs : r[2] \notin dead}
KeptPhantoms_All(dead) == phantom_refs
KeptPhantoms(dead) == {r \in phantom_refs : r[2] \notin dead}

\* Sweep erases the dead cells with their edges, finalizers and pins, counts the
\* young ones off, and clears every table that names them.  Thread t takes the
\* finalizers with it when it unlocks.
Sweep(t, dead, oldgen, young) ==
    /\ heap' = heap \ dead
    /\ pinned' = pinned \ dead
    /\ old' = oldgen \ dead
    /\ edges' = KeptEdges(dead)
    /\ finalizer' = finalizer \ dead
    /\ roots' = roots \ dead
    /\ young_count' = Monus(young, Cardinality(dead \ oldgen))
    /\ deferred' = [deferred EXCEPT ![t] = @ \cup (dead \cap finalizer)]
    /\ weak_refs' = KeptWeak(dead)
    /\ phantom_refs' = KeptPhantoms(dead)
    /\ phantom_queue' = phantom_queue \cup {r \in phantom_refs : r[2] \in dead}
    /\ strays' = (strays \cup (heap \ Marked)) \ dead
    /\ UNCHANGED <<next_id, next_ref_id, phantoms, delivered, registered, finalized>>

\* PromoteYoung: the generation, and what it leaves of young_count_.
Promoted_Roots == old \cup (roots \cap heap)
Promoted == old \cup Marked
PromotedCount_DeadOnly == young_count
PromotedCount == Monus(young_count, Cardinality(Marked \ old))

\* CollectMinor up to the unlock: mark, promote what is marked, sweep the young.
\* A finalizer's body does not start a minor collection of its own here.
CollectMinor(t) ==
    /\ t \in Mutators
    /\ CanCall(t)
    /\ t \notin in_finalizer
    /\ Sweep(t, Dead(TRUE, Promoted), Promoted, PromotedCount)
    /\ UNCHANGED <<request, stop, worker, waiter, notifying, in_finalizer>>

CollectMajorAsync(t) ==
    /\ CanCall(t)
    /\ requests < MaxRequest
    /\ requests' = requests + 1
    /\ major_requested' = TRUE
    /\ notifying' = OweNotify(t)
    /\ UNCHANGED <<cells, refs, counters, seen, stop, worker, waiter, deferred,
                   in_finalizer>>

\* cv_.notify_one, outside the lock.
Notify(t) ==
    /\ t \in notifying
    /\ notifying' = notifying \ {t}
    /\ worker' = WakeWorker
    /\ UNCHANGED <<cells, refs, counters, seen, request, stop, waiter, deferred,
                   in_finalizer>>

\* A finalizer taken by thread t begins, and ends.
Untaken_Kept(t, id) == deferred
Untaken(t, id) == [deferred EXCEPT ![t] = @ \ {id}]

BeginFinalizer(t, id) ==
    /\ t \notin in_finalizer
    /\ id \in deferred[t]
    /\ deferred' = Untaken(t, id)
    /\ in_finalizer' = in_finalizer \cup {t}
    /\ finalized' = finalized \cup {id}
    /\ UNCHANGED <<cells, refs, counters, registered, strays, request, stop, worker, waiter,
                   notifying>>

EndFinalizer(t) ==
    /\ t \in in_finalizer
    /\ CanCall(t)
    /\ in_finalizer' = in_finalizer \ {t}
    /\ UNCHANGED <<cells, refs, counters, seen, request, stop, worker, waiter,
                   notifying, deferred>>

-----------------------------------------------------------------------------
(* WaitForMajor.  A finalizer on the worker that waited here would wait    *)
(* for itself: mutators only.                                              *)

MajorDone == ~major_requested

WaitForMajor(t) ==
    /\ t \in Waiters
    /\ CanCall(t)
    /\ waiter[t] = "out"
    /\ waiter' = [waiter EXCEPT ![t] = IF MajorDone THEN "returned" ELSE "blocked"]
    /\ UNCHANGED <<cells, refs, counters, seen, request, stop, worker, notifying,
                   deferred, in_finalizer>>

\* A woken waiter evaluates the predicate again with mu_ held.
WaitAgain(t) ==
    /\ t \in Mutators
    /\ waiter[t] = "woken"
    /\ waiter' = [waiter EXCEPT ![t] = IF MajorDone THEN "returned" ELSE "blocked"]
    /\ UNCHANGED <<cells, refs, counters, seen, request, stop, worker, notifying,
                   deferred, in_finalizer>>

\* The caller goes on with its own code.
LeaveWait(t) ==
    /\ t \in Mutators
    /\ waiter[t] = "returned"
    /\ waiter' = [waiter EXCEPT ![t] = "out"]
    /\ UNCHANGED <<cells, refs, counters, seen, request, stop, worker, notifying,
                   deferred, in_finalizer>>

\* A condition variable may wake its waiters for no reason.
SpuriousWakeup(t) ==
    /\ \/ /\ t \in Mutators /\ waiter[t] = "blocked"
          /\ waiter' = [waiter EXCEPT ![t] = "woken"]
          /\ UNCHANGED worker
       \/ /\ t = Worker /\ worker = "blocked"
          /\ worker' = "check"
          /\ UNCHANGED waiter
    /\ UNCHANGED <<cells, refs, counters, seen, request, stop, notifying,
                   deferred, in_finalizer>>

-----------------------------------------------------------------------------
(* RunMajorWorker, and the destructor that stops it                        *)

WorkerBlocks ==
    /\ worker = "check"
    /\ ~stop /\ ~major_requested
    /\ worker' = "blocked"
    /\ UNCHANGED <<cells, refs, counters, seen, request, stop, waiter, notifying,
                   deferred, in_finalizer>>

\* A stop wins over a request that has not been served.
WorkerStops ==
    /\ worker = "check"
    /\ stop
    /\ worker' = "stopped"
    /\ UNCHANGED <<cells, refs, counters, seen, request, stop, waiter, notifying,
                   deferred, in_finalizer>>

\* The collection, under one lock: the request is taken, nothing is promoted.
CollectMajor ==
    /\ worker = "check"
    /\ ~stop /\ major_requested
    /\ major_requested' = FALSE
    /\ Sweep(Worker, Dead(FALSE, old), old, young_count)
    /\ worker' = "finalizing"
    /\ UNCHANGED <<requests, stop, waiter, notifying, in_finalizer>>

\* major_done_cv_.notify_all, once the finalizers have run.
WokenWaiters_None == waiter
WokenWaiters ==
    [t \in Mutators |-> IF waiter[t] = "blocked" THEN "woken" ELSE waiter[t]]

MajorDoneNotify ==
    /\ worker = "finalizing"
    /\ deferred[Worker] = {} /\ Worker \notin in_finalizer /\ Worker \notin notifying
    /\ worker' = "check"
    /\ waiter' = WokenWaiters
    /\ UNCHANGED <<cells, refs, counters, seen, request, stop, notifying, deferred,
                   in_finalizer>>

\* ~GcController, when no other thread is inside the controller.
Destroy ==
    /\ ~stop
    /\ \A t \in Mutators : CanCall(t) /\ t \notin in_finalizer
    /\ stop' = TRUE
    /\ worker' = WakeWorker
    /\ UNCHANGED <<cells, refs, counters, seen, request, waiter, notifying, deferred,
                   in_finalizer>>

-----------------------------------------------------------------------------
ObjectStep(t) ==
    \/ Allocate(t)
    \/ DrainPhantomQueue(t)
    \/ \E id \in heap :
         \/ AddRoot(t, id) \/ RemoveRoot(t, id)
         \/ Pin(t, id) \/ Unpin(t, id)
         \/ RegisterFinalizer(t, id)
         \/ CreateWeakRef(t, id) \/ CreatePhantomRef(t, id)
         \/ \E to \in Ids : AddReference(t, id, to) \/ RemoveReference(t, id, to)

FinalizerStep(t) ==
    \/ \E id \in Ids : BeginFinalizer(t, id)
    \/ EndFinalizer(t)

CollectStep(t) ==
    \/ CollectMinor(t) \/ CollectMajorAsync(t) \/ Notify(t)
    \/ WaitForMajor(t) \/ WaitAgain(t) \/ LeaveWait(t) \/ SpuriousWakeup(t)

WorkerStep == WorkerBlocks \/ WorkerStops \/ CollectMajor \/ MajorDoneNotify

Next ==
    \/ \E t \in Threads : ObjectStep(t) \/ FinalizerStep(t) \/ CollectStep(t)
    \/ WorkerStep
    \/ Destroy

Spec == Init /\ [][Next]_vars

\* The scheduler runs every thread, and user code returns: a thread that owes a
\* notify sends it, a woken waiter gets the lock, a finalizer that was taken
\* begins and ends, and the worker goes round its loop.  Nothing makes a caller
\* call, and no lock is granted to a waiter at a favourable moment.
Fairness ==
    /\ WF_vars(WorkerStep)
    /\ \A t \in Threads : WF_vars(Notify(t)) /\ WF_vars(FinalizerStep(t))
    /\ \A t \in Mutators : WF_vars(WaitAgain(t))

FairSpec == Spec /\ Fairness

-----------------------------------------------------------------------------
(* Properties                                                              *)

\* The types of the variables.
TypeOK ==
    /\ heap \subseteq Ids /\ pinned \subseteq heap /\ old \subseteq heap
    /\ edges \subseteq heap \X Ids
    /\ finalizer \subseteq heap
    /\ roots \subseteq Ids
    /\ weak_refs \subseteq RefIds \X Ids
    /\ phantom_refs \subseteq RefIds \X Ids
    /\ phantom_queue \subseteq RefIds \X Ids
    /\ phantoms \subseteq RefIds \X Ids /\ delivered \subseteq RefIds \X Ids
    /\ next_id \in 1..MaxId + 1 /\ next_ref_id \in 1..MaxRef + 1
    /\ young_count \in Nat
    /\ major_requested \in BOOLEAN /\ stop \in BOOLEAN /\ requests \in Nat
    /\ worker \in {"check", "blocked", "finalizing", "stopped"}
    /\ waiter \in [Mutators -> {"out", "blocked", "woken", "returned"}]
    /\ notifying \subseteq Threads /\ in_finalizer \subseteq Threads
    /\ deferred \in [Threads -> SUBSET Ids]
    /\ registered \subseteq Ids /\ finalized \subseteq Ids /\ strays \subseteq heap

\* young_count_, adjusted one cell at a time by Allocate, PromoteYoung and Sweep
\* (never below zero), is always the number of young cells.
YoungCountExact == young_count = Cardinality(heap \ old)

\* Every table that names objects agrees with the heap: the roots, weak and
\* phantom references name live objects, and a phantom reference is queued only
\* for an object that is gone and whose id is never used again.
TablesMatchHeap ==
    /\ roots \subseteq heap
    /\ \A r \in weak_refs \cup phantom_refs : r[2] \in heap
    /\ \A r \in phantom_queue \cup delivered : r[2] \in 1..next_id - 1 /\ r[2] \notin heap

\* Every phantom reference is waiting, queued or handed out, and only one of
\* them: none is lost, none is delivered twice.
PhantomOnce ==
    /\ phantoms = phantom_refs \cup phantom_queue \cup delivered
    /\ phantom_refs \cap phantom_queue = {}
    /\ (phantom_refs \cup phantom_queue) \cap delivered = {}

\* The objects whose finalizer a thread took out of the heap and has not begun.
Carried == {o \in Ids : \E t \in Threads : o \in deferred[t]}

\* Every registered finalizer is still attached to its live object, or carried by
\* one thread, or has begun: with minor and major collections racing, none is
\* dropped and none runs twice or for a live object.
FinalizerOnce ==
    /\ registered = finalizer \cup finalized \cup Carried
    /\ finalized \cap heap = {}
    /\ \A t \in Threads : deferred[t] \cap (heap \cup finalized) = {}
    /\ \A t, u \in Threads : t # u => deferred[t] \cap deferred[u] = {}

\* An edge leads to a reclaimed object only from an object that was itself out of reach when
\* a collection ran: a minor collection keeps it because it is old, and erases its young
\* children.  Such an object can be brought back by its id or a weak reference, edges to
\* nowhere and all; no other object ever has one.
DanglesFromStrays == \A e \in edges : e[2] \notin heap => e[1] \in strays

\* No step of any thread takes an object away that is reachable or pinned.
ReachableSurvives == [][Marked \subseteq heap']_vars

\* The step that serves a request for a major collection leaves no garbage, so
\* requests that were made before it can share it.
MajorCollectsAll == [][major_requested /\ ~major_requested' => heap' = Marked']_vars

\* A minor collection ages what it keeps: no object that was young when it began
\* is young and alive after it; old objects are left alone.
MinorAges ==
    [][\A t \in Mutators : CollectMinor(t) => heap' \subseteq old' /\ old \subseteq heap']_vars

\* The collector implements ManagedHeap: mutators, minor collections and the worker
\* together behave as one heap that takes garbage away in single steps, in any
\* portions, and gives it its last rites once.  The ends of edges that were
\* reclaimed before their owners are not part of the graph, and as no id is used
\* again they never come back into it.
Heap ==
    INSTANCE ManagedHeap WITH
        used <- 1..next_id - 1,
        live <- heap,
        graph <- {e \in edges : e[2] \in heap},
        anchored <- Starts(heap, roots, pinned),
        finalizable <- finalizer,
        due <- Carried,
        weak <- weak_refs, watched <- phantom_refs, queued <- phantom_queue
ImplementsHeap == Heap!HeapSpec

\* A call of WaitForMajor returns: no wakeup is lost between the request, the
\* notify sent after unlocking and the worker's wait.
WaiterReturns ==
    \A t \in Mutators : waiter[t] \in {"blocked", "woken"} ~> waiter[t] = "returned"

\* A request is served, unless the controller is being destroyed.
RequestServed == major_requested ~> (~major_requested \/ stop)

\* The destructor's join returns.
StopJoins == stop ~> worker = "stopped"

\* What tests/smoke/smoke_test.cpp:104-113 relies on: after CollectMajorAsync and
\* WaitForMajor the finalizers of the collected objects have run.
FinalizedOnReturn ==
    [][\A t \in Mutators : waiter[t] # "returned" /\ waiter'[t] = "returned"
          => registered \ finalizer' \subseteq finalized']_vars
=============================================================================
