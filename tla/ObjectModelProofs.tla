-------------------------- MODULE ObjectModelProofs --------------------------
(***************************************************************************)
(* First the collector, for any number of threads, objects and references, *)
(* and any thresholds: its safety, and that it implements ManagedHeap.     *)
(* Then the object store over it: it uses the collector as the collector   *)
(* may be used, keeps what it returned alive, and leaves no edge without a *)
(* field.                                                                  *)
(***************************************************************************)
EXTENDS ObjectModel, FiniteSetTheorems, TLAPS

-----------------------------------------------------------------------------
(* What the proofs need to know of Reachable: it lies in the heap, it is   *)
(* closed, and it is contained in every closed set.                        *)

\* MarkFromRoots marks only what the heap holds.
LEMMA ReachableInHeap ==
    ASSUME NEW nodes, NEW starts, NEW graph
    PROVE  Reachable(nodes, starts, graph) \subseteq nodes
BY DEF Reachable

\* The starts, and the end in the heap of every edge of a reachable object, are
\* reachable.
LEMMA ReachableClosed ==
    ASSUME NEW nodes, NEW starts, NEW graph, starts \subseteq nodes
    PROVE  Closed(Reachable(nodes, starts, graph), nodes, starts, graph)
BY DEF Reachable, Closed

\* A closed set of objects of the heap holds everything that is reachable.
LEMMA ReachableLeast ==
    ASSUME NEW nodes, NEW starts, NEW graph, NEW S \in SUBSET nodes,
           Closed(S, nodes, starts, graph)
    PROVE  Reachable(nodes, starts, graph) \subseteq S
BY DEF Reachable

\* An object that every closed set of the heap holds is reachable.
LEMMA ReachableIntro ==
    ASSUME NEW nodes, NEW starts, NEW graph, NEW o \in nodes,
           \A S \in SUBSET nodes : Closed(S, nodes, starts, graph) => o \in S
    PROVE  o \in Reachable(nodes, starts, graph)
BY DEF Reachable

\* Erasing objects that are not reachable, and nothing else of what is reachable,
\* changes nothing of what is reachable: the garbage may go in any portion, as the
\* young part of it does in a minor collection.
LEMMA ReachableAfterErase ==
    ASSUME NEW nodes, NEW starts, NEW graph, starts \subseteq nodes,
           NEW dead \in SUBSET nodes,
           dead \cap Reachable(nodes, starts, graph) = {}
    PROVE  Reachable(nodes \ dead, starts, {e \in graph : e[1] \notin dead})
             = Reachable(nodes, starts, graph)
<1> DEFINE R == Reachable(nodes, starts, graph)
           left == nodes \ dead
           E == {e \in graph : e[1] \notin dead}
<1>1. R \subseteq nodes /\ Closed(R, nodes, starts, graph)
  BY ReachableInHeap, ReachableClosed
<1>2. R \subseteq left
  BY <1>1
<1>3. Closed(R, left, starts, E)
  BY <1>1 DEF Closed
<1>4. Reachable(left, starts, E) \subseteq R
  BY <1>2, <1>3, ReachableLeast
<1>5. ASSUME NEW S \in SUBSET left, Closed(S, left, starts, E)
      PROVE  R \subseteq S
  <2>1. Closed(S \cap R, nodes, starts, graph)
    BY <1>1, <1>2, <1>5 DEF Closed
  <2> QED
    BY <2>1, <1>1, ReachableLeast
<1>6. R \subseteq Reachable(left, starts, E)
  BY <1>2, <1>5, ReachableIntro
<1> QED
  BY <1>4, <1>6

-----------------------------------------------------------------------------
(* The two collections seen through what Sweep does to the heap.           *)

\* What a step of Sweep may be given: cells of the heap that nothing reaches, and
\* the old generation it finds, promoted or not.
SweepStep(t, dead, oldgen, young) ==
    /\ Sweep(t, dead, oldgen, young)
    /\ dead \subseteq heap /\ dead \cap (Marked \cup pinned) = {}
    /\ old \subseteq oldgen /\ oldgen \subseteq heap
    /\ young \in Nat

\* Marked objects are in the heap.
LEMMA MarkedInHeap == Marked \subseteq heap
BY ReachableInHeap DEF Marked

\* The roots in the heap and the pinned cells are marked.
LEMMA StartsMarked ==
    ASSUME TypeOK PROVE Starts(heap, roots, pinned) \subseteq Marked
<1>1. Starts(heap, roots, pinned) \subseteq heap
  BY DEF TypeOK, Starts
<1> QED
  BY <1>1, ReachableClosed DEF Marked, Closed

\* The heap is finite, and so is every part of it.
LEMMA HeapFinite ==
    ASSUME TypeOK PROVE \A S \in SUBSET heap : IsFiniteSet(S) /\ Cardinality(S) \in Nat
<1>1. IsFiniteSet(Ids)
  BY ConstantsAssumption, FS_Interval DEF Ids
<1>2. ASSUME NEW S \in SUBSET heap PROVE IsFiniteSet(S)
  BY <1>1, FS_Subset DEF TypeOK
<1> QED
  BY <1>2, FS_CardinalityType

LEMMA MonusNat == \A a, b \in Nat : Monus(a, b) \in Nat /\ (b <= a => Monus(a, b) = a - b)
BY DEF Monus

\* Taking a part of a finite set away takes its number of elements away.
LEMMA CardinalityOfRest ==
    ASSUME NEW S, NEW T \in SUBSET S, IsFiniteSet(S)
    PROVE  /\ Cardinality(S \ T) = Cardinality(S) - Cardinality(T)
           /\ Cardinality(T) <= Cardinality(S)
<1>1. S \cap T = T
  OBVIOUS
<1>2. Cardinality(S \ T) = Cardinality(S) - Cardinality(S \cap T)
  BY FS_Difference
<1> QED
  BY <1>1, <1>2, FS_Subset

\* A minor collection is a step of Sweep on the promoted heap.
LEMMA MinorSweeps ==
    ASSUME TypeOK, NEW t \in Threads, CollectMinor(t)
    PROVE  SweepStep(t, Dead(TRUE, Promoted), Promoted, PromotedCount)
<1>1. Promoted \subseteq heap /\ old \subseteq Promoted
  BY MarkedInHeap DEF TypeOK, Promoted
<1>2. PromotedCount \in Nat
  BY HeapFinite, MarkedInHeap, MonusNat DEF TypeOK, PromotedCount
<1>3. /\ Dead(TRUE, Promoted) \subseteq heap
      /\ Dead(TRUE, Promoted) \cap (Marked \cup pinned) = {}
  BY DEF Dead
<1> QED
  BY <1>1, <1>2, <1>3 DEF CollectMinor, SweepStep

\* A major collection is one on the heap as it is.
LEMMA MajorSweeps ==
    ASSUME TypeOK, CollectMajor
    PROVE  SweepStep(Worker, Dead(FALSE, old), old, young_count)
BY DEF CollectMajor, SweepStep, Dead, TypeOK

-----------------------------------------------------------------------------
(* Type correctness                                                        *)

LEMMA InitType == Init => TypeOK
<1> SUFFICES ASSUME Init PROVE TypeOK
  OBVIOUS
<1>1. next_id \in 1..MaxId + 1 /\ next_ref_id \in 1..MaxRef + 1
  BY ConstantsAssumption DEF Init
<1> QED
  BY <1>1 DEF Init, TypeOK, Threads

LEMMA SweepType ==
    ASSUME TypeOK, NEW t \in Threads, NEW dead, NEW oldgen, NEW young,
           SweepStep(t, dead, oldgen, young)
    PROVE  /\ heap' \subseteq Ids /\ pinned' \subseteq heap' /\ old' \subseteq heap'
           /\ edges' \subseteq heap' \X Ids
           /\ finalizer' \subseteq heap' /\ strays' \subseteq heap' /\ roots' \subseteq Ids
           /\ weak_refs' \subseteq RefIds \X Ids
           /\ phantom_refs' \subseteq RefIds \X Ids
           /\ phantom_queue' \subseteq RefIds \X Ids
           /\ young_count' \in Nat
           /\ deferred' \in [Threads -> SUBSET Ids]
<1> USE DEF SweepStep, Sweep
<1>1. heap' \subseteq Ids /\ pinned' \subseteq heap' /\ old' \subseteq heap'
      /\ finalizer' \subseteq heap' /\ strays' \subseteq heap' /\ roots' \subseteq Ids
  BY DEF TypeOK
<1>2. edges' \subseteq heap' \X Ids
  <2>1. edges' = {e \in edges : e[1] \notin dead}
    BY DEF KeptEdges
  <2> QED
    BY <2>1 DEF TypeOK
<1>3. /\ weak_refs' \subseteq RefIds \X Ids /\ phantom_refs' \subseteq RefIds \X Ids
      /\ phantom_queue' \subseteq RefIds \X Ids
  BY DEF TypeOK, KeptWeak, KeptPhantoms
<1>4. young_count' \in Nat
  BY HeapFinite, MonusNat
<1>5. deferred' \in [Threads -> SUBSET Ids]
  BY DEF TypeOK
<1> QED
  BY <1>1, <1>2, <1>3, <1>4, <1>5

LEMMA NextType == TypeOK /\ [Next]_vars => TypeOK'
<1> SUFFICES ASSUME TypeOK, [Next]_vars PROVE TypeOK'
  OBVIOUS
<1> USE DEF cells, refs, counters, threads, seen, request
<1>1. ASSUME NEW t \in Threads, Allocate(t) PROVE TypeOK'
  <2>1. next_id \in Ids /\ next_id' \in 1..MaxId + 1
    BY <1>1, ConstantsAssumption DEF Allocate, TypeOK, Ids
  <2>2. major_requested' \in BOOLEAN /\ notifying' \subseteq Threads
    BY <1>1 DEF Allocate, TypeOK, OweNotify
  <2>3. heap' \subseteq Ids /\ pinned' \subseteq heap' /\ old' \subseteq heap'
        /\ edges' \subseteq heap' \X Ids /\ finalizer' \subseteq heap' /\ strays' \subseteq heap'
    BY <1>1, <2>1 DEF Allocate, TypeOK
  <2> QED
    BY <1>1, <2>1, <2>2, <2>3 DEF Allocate, TypeOK
<1>2. ASSUME NEW t \in Threads, DrainPhantomQueue(t) PROVE TypeOK'
  BY <1>2 DEF DrainPhantomQueue, TypeOK
<1>3. ASSUME NEW t \in Threads, NEW id \in heap, AddRoot(t, id) PROVE TypeOK'
  BY <1>3 DEF AddRoot, TypeOK
<1>4. ASSUME NEW t \in Threads, NEW id \in heap, RemoveRoot(t, id) PROVE TypeOK'
  BY <1>4 DEF RemoveRoot, TypeOK
<1>5. ASSUME NEW t \in Threads, NEW id \in heap, Pin(t, id) \/ Unpin(t, id) PROVE TypeOK'
  BY <1>5 DEF Pin, Unpin, TypeOK
<1>6. ASSUME NEW t \in Threads, NEW id \in heap, RegisterFinalizer(t, id) PROVE TypeOK'
  BY <1>6 DEF RegisterFinalizer, TypeOK
<1>7. ASSUME NEW t \in Threads, NEW id \in heap,
             CreateWeakRef(t, id) \/ CreatePhantomRef(t, id)
      PROVE  TypeOK'
  <2>1. next_ref_id \in RefIds /\ next_ref_id' \in 1..MaxRef + 1
    BY <1>7, ConstantsAssumption DEF CreateWeakRef, CreatePhantomRef, TypeOK, RefIds
  <2>2. <<next_ref_id, id>> \in RefIds \X Ids
    BY <2>1 DEF TypeOK
  <2>3. CASE CreateWeakRef(t, id)
    BY <2>1, <2>2, <2>3 DEF CreateWeakRef, TypeOK
  <2>4. CASE CreatePhantomRef(t, id)
    BY <2>1, <2>2, <2>4 DEF CreatePhantomRef, TypeOK
  <2> QED
    BY <1>7, <2>3, <2>4
<1>8. ASSUME NEW t \in Threads, NEW id \in heap, NEW to \in Ids,
             AddReference(t, id, to) \/ RemoveReference(t, id, to)
      PROVE  TypeOK'
  BY <1>8 DEF AddReference, RemoveReference, TypeOK
<1>9. ASSUME NEW t \in Threads, NEW id \in Ids, BeginFinalizer(t, id) PROVE TypeOK'
  BY <1>9 DEF BeginFinalizer, Untaken, TypeOK
<1>10. ASSUME NEW t \in Threads, EndFinalizer(t) PROVE TypeOK'
  BY <1>10 DEF EndFinalizer, TypeOK
<1>11. ASSUME NEW t \in Threads, CollectMinor(t) PROVE TypeOK'
  <2>1. SweepStep(t, Dead(TRUE, Promoted), Promoted, PromotedCount)
    BY <1>11, MinorSweeps
  <2>2. UNCHANGED <<next_id, next_ref_id, phantoms, delivered, registered, finalized>>
    BY <2>1 DEF SweepStep, Sweep
  <2> QED
    BY <1>11, <2>1, <2>2, SweepType DEF CollectMinor, TypeOK
<1>12. ASSUME NEW t \in Threads, CollectMajorAsync(t) PROVE TypeOK'
  BY <1>12 DEF CollectMajorAsync, OweNotify, TypeOK
<1>13. ASSUME NEW t \in Threads, Notify(t) PROVE TypeOK'
  BY <1>13 DEF Notify, WakeWorker, TypeOK
<1>14. ASSUME NEW t \in Threads,
              WaitForMajor(t) \/ WaitAgain(t) \/ LeaveWait(t) \/ SpuriousWakeup(t)
       PROVE  TypeOK'
  BY <1>14 DEF WaitForMajor, WaitAgain, LeaveWait, SpuriousWakeup, TypeOK
<1>15. CASE WorkerBlocks \/ WorkerStops
  BY <1>15 DEF WorkerBlocks, WorkerStops, TypeOK
<1>16. CASE CollectMajor
  <2>1. Worker \in Threads /\ SweepStep(Worker, Dead(FALSE, old), old, young_count)
    BY <1>16, MajorSweeps DEF Threads
  <2>2. UNCHANGED <<next_id, next_ref_id, phantoms, delivered, registered, finalized>>
    BY <2>1 DEF SweepStep, Sweep
  <2> QED
    BY <1>16, <2>1, <2>2, SweepType DEF CollectMajor, TypeOK
<1>17. CASE MajorDoneNotify
  BY <1>17 DEF MajorDoneNotify, WokenWaiters, TypeOK
<1>18. CASE Destroy
  BY <1>18 DEF Destroy, WakeWorker, TypeOK
<1>19. CASE UNCHANGED vars
  BY <1>19 DEF vars, TypeOK
<1> QED
  BY <1>1, <1>2, <1>3, <1>4, <1>5, <1>6, <1>7, <1>8, <1>9, <1>10, <1>11, <1>12, <1>13,
     <1>14, <1>15, <1>16, <1>17, <1>18, <1>19
  DEF Next, ObjectStep, FinalizerStep, CollectStep, WorkerStep

\* Every variable of the collector keeps its type.
THEOREM TypeCorrect == Spec => []TypeOK
BY InitType, NextType, PTL DEF Spec

-----------------------------------------------------------------------------
(* young_count_                                                            *)

\* Only Allocate and the two collections change the heap, the generations and
\* the counters of cells.
LEMMA HeapSteps ==
    ASSUME [Next]_vars
    PROVE  \/ \E t \in Threads : Allocate(t) \/ CollectMinor(t)
           \/ CollectMajor
           \/ UNCHANGED <<heap, old, young_count, next_id>>
<1> DEFINE Quiet == UNCHANGED <<heap, old, young_count, next_id>>
<1> USE DEF cells, refs, counters, threads, seen, request
<1>1. ASSUME NEW t \in Threads, ObjectStep(t), ~Allocate(t) PROVE Quiet
  BY <1>1 DEF ObjectStep, DrainPhantomQueue, AddRoot, RemoveRoot, Pin, Unpin,
              RegisterFinalizer, CreateWeakRef, CreatePhantomRef, AddReference,
              RemoveReference
<1>2. ASSUME NEW t \in Threads, FinalizerStep(t) PROVE Quiet
  BY <1>2 DEF FinalizerStep, BeginFinalizer, EndFinalizer
<1>3. ASSUME NEW t \in Threads, CollectStep(t), ~CollectMinor(t) PROVE Quiet
  BY <1>3 DEF CollectStep, CollectMajorAsync, Notify, WaitForMajor, WaitAgain,
              LeaveWait, SpuriousWakeup
<1>4. ASSUME WorkerStep, ~CollectMajor PROVE Quiet
  BY <1>4 DEF WorkerStep, WorkerBlocks, WorkerStops, MajorDoneNotify
<1>5. ASSUME Destroy \/ UNCHANGED vars PROVE Quiet
  BY <1>5 DEF Destroy, vars
<1> HIDE DEF Quiet
<1>6. CASE UNCHANGED vars
  BY <1>5, <1>6 DEF Quiet
<1>7. CASE Next
  BY <1>1, <1>2, <1>3, <1>4, <1>5, <1>7 DEF Next, Quiet
<1> QED
  BY <1>6, <1>7

\* The ids of the heap have been given out.
IdsGiven == heap \subseteq 1..next_id - 1

YoungInv == YoungCountExact /\ IdsGiven

LEMMA InitYoung == Init => YoungInv
BY FS_EmptySet DEF Init, YoungInv, YoungCountExact, IdsGiven

LEMMA NextYoung == TypeOK /\ YoungInv /\ [Next]_vars => YoungInv'
<1> SUFFICES ASSUME TypeOK, YoungInv, [Next]_vars PROVE YoungInv'
  OBVIOUS
<1>1. ASSUME NEW t \in Threads, Allocate(t) PROVE YoungInv'
  <2>1. next_id \in Nat \ {0} /\ next_id \notin heap /\ next_id \notin old
    BY ConstantsAssumption DEF TypeOK, YoungInv, IdsGiven
  <2>2. heap' \ old' = (heap \ old) \cup {next_id} /\ next_id \notin heap \ old
    BY <1>1, <2>1 DEF Allocate
  <2>3. IsFiniteSet(heap \ old)
    BY HeapFinite
  <2>4. Cardinality(heap' \ old') = Cardinality(heap \ old) + 1
    BY <2>2, <2>3, FS_AddElement
  <2>5. YoungCountExact'
    BY <1>1, <2>4 DEF Allocate, YoungInv, YoungCountExact
  <2>6. IdsGiven'
    <3>1. next_id' - 1 = next_id /\ heap' = heap \cup {next_id}
      BY <1>1, <2>1 DEF Allocate
    <3>2. 1..next_id - 1 \subseteq 1..next_id /\ next_id \in 1..next_id
      BY <2>1
    <3> QED
      BY <3>1, <3>2 DEF YoungInv, IdsGiven
  <2> QED
    BY <2>5, <2>6 DEF YoungInv
<1>2. ASSUME NEW t \in Threads, NEW dead, NEW oldgen, NEW young,
             SweepStep(t, dead, oldgen, young),
             young = Cardinality(heap \ oldgen)
      PROVE  YoungInv'
  <2>1. heap' \ old' = (heap \ oldgen) \ (dead \ oldgen)
    BY <1>2 DEF SweepStep, Sweep
  <2>2. dead \ oldgen \in SUBSET (heap \ oldgen)
    BY <1>2 DEF SweepStep
  <2>3. /\ IsFiniteSet(heap \ oldgen) /\ Cardinality(heap \ oldgen) \in Nat
        /\ Cardinality(dead \ oldgen) \in Nat
    BY <1>2, HeapFinite DEF SweepStep
  <2>4. Cardinality(heap' \ old') = Cardinality(heap \ oldgen) - Cardinality(dead \ oldgen)
    BY <2>1, <2>2, <2>3, CardinalityOfRest
  <2>5. Cardinality(dead \ oldgen) <= Cardinality(heap \ oldgen)
    BY <2>2, <2>3, CardinalityOfRest
  <2>6. young_count' = Cardinality(heap \ oldgen) - Cardinality(dead \ oldgen)
    BY <1>2, <2>3, <2>5, MonusNat DEF SweepStep, Sweep
  <2>7. IdsGiven'
    BY <1>2 DEF SweepStep, Sweep, YoungInv, IdsGiven
  <2> QED
    BY <2>4, <2>6, <2>7 DEF YoungInv, YoungCountExact
<1>3. ASSUME NEW t \in Threads, CollectMinor(t) PROVE YoungInv'
  <2>1. heap \ Promoted = (heap \ old) \ (Marked \ old)
    BY DEF Promoted
  <2>2. Marked \ old \in SUBSET (heap \ old)
    BY MarkedInHeap
  <2>3. IsFiniteSet(heap \ old) /\ Cardinality(heap \ old) \in Nat
        /\ Cardinality(Marked \ old) \in Nat
    BY HeapFinite, MarkedInHeap
  <2>4. Cardinality(heap \ Promoted) = Cardinality(heap \ old) - Cardinality(Marked \ old)
    BY <2>1, <2>2, <2>3, CardinalityOfRest
  <2>5. Cardinality(Marked \ old) <= Cardinality(heap \ old)
    BY <2>2, <2>3, CardinalityOfRest
  <2>6. PromotedCount = Cardinality(heap \ Promoted)
    BY <2>3, <2>4, <2>5, MonusNat DEF PromotedCount, YoungInv, YoungCountExact
  <2> QED
    BY <1>2, <1>3, <2>6, MinorSweeps
<1>4. CASE CollectMajor
  BY <1>2, <1>4, MajorSweeps DEF Threads, YoungInv, YoungCountExact
<1>5. CASE UNCHANGED <<heap, old, young_count, next_id>>
  BY <1>5 DEF YoungInv, YoungCountExact, IdsGiven
<1> QED
  BY <1>1, <1>3, <1>4, <1>5, HeapSteps

\* young_count_ is the number of young cells in every state, although it is kept
\* by increments and decrements in three places: the triggers of Allocate count
\* what they mean to count.
THEOREM YoungCountCorrect == Spec => []YoungCountExact
<1>1. Init => TypeOK /\ YoungInv
  BY InitType, InitYoung
<1>2. TypeOK /\ YoungInv /\ [Next]_vars => (TypeOK /\ YoungInv)'
  BY NextType, NextYoung
<1>3. YoungInv => YoungCountExact
  BY DEF YoungInv
<1> QED
  BY <1>1, <1>2, <1>3, PTL DEF Spec

-----------------------------------------------------------------------------
(* What a collection takes, and what it leaves                             *)

\* No step of any thread reclaims an object that a root or a pinned cell reaches.
THEOREM ReachableNeverReclaimed == Spec => ReachableSurvives
<1>1. TypeOK /\ [Next]_vars => [Marked \subseteq heap']_vars
  <2> SUFFICES ASSUME TypeOK, [Next]_vars PROVE Marked \subseteq heap'
    OBVIOUS
  <2>1. ASSUME NEW t \in Threads, Allocate(t) PROVE Marked \subseteq heap'
    BY <2>1, MarkedInHeap DEF Allocate
  <2>2. ASSUME NEW t, NEW dead, NEW oldgen, NEW young, SweepStep(t, dead, oldgen, young)
        PROVE  Marked \subseteq heap'
    BY <2>2, MarkedInHeap DEF SweepStep, Sweep
  <2> QED
    BY <2>1, <2>2, MinorSweeps, MajorSweeps, MarkedInHeap, HeapSteps
<1> QED
  BY <1>1, TypeCorrect, PTL DEF Spec, ReachableSurvives

\* The step that serves a request for a major collection leaves exactly what is
\* reachable, and erasing the rest makes nothing else unreachable.
THEOREM MajorLeavesReachable == Spec => MajorCollectsAll
<1>1. TypeOK /\ [Next]_vars => [major_requested /\ ~major_requested' => heap' = Marked']_vars
  <2> SUFFICES ASSUME TypeOK, [Next]_vars, major_requested, ~major_requested'
               PROVE  heap' = Marked'
    OBVIOUS
  <2>1. CollectMajor
    <3> USE DEF cells, refs, counters, threads, seen, request
    <3>1. ASSUME NEW t \in Threads PROVE ~ObjectStep(t)
      BY DEF ObjectStep, Allocate, DrainPhantomQueue, AddRoot, RemoveRoot, Pin, Unpin,
             RegisterFinalizer, CreateWeakRef, CreatePhantomRef, AddReference,
             RemoveReference
    <3>2. ASSUME NEW t \in Threads PROVE ~FinalizerStep(t)
      BY DEF FinalizerStep, BeginFinalizer, EndFinalizer
    <3>3. ASSUME NEW t \in Threads PROVE ~CollectStep(t)
      BY DEF CollectStep, CollectMinor, CollectMajorAsync, Notify, WaitForMajor,
             WaitAgain, LeaveWait, SpuriousWakeup
    <3>4. ~Destroy /\ ~UNCHANGED vars
      BY DEF Destroy, vars
    <3>5. WorkerStep => CollectMajor
      BY DEF WorkerStep, WorkerBlocks, WorkerStops, MajorDoneNotify
    <3> QED
      BY <3>1, <3>2, <3>3, <3>4, <3>5 DEF Next
  <2> DEFINE dead == Dead(FALSE, old)
             S == Starts(heap, roots, pinned)
  <2>2. SweepStep(Worker, dead, old, young_count)
    BY <2>1, MajorSweeps
  <2>3. S \subseteq heap /\ S \subseteq Marked
    BY StartsMarked DEF Starts, TypeOK
  <2>4. heap \ dead = Marked
    BY <2>3, MarkedInHeap DEF Dead, Starts
  <2>5. heap' = heap \ dead /\ edges' = {e \in edges : e[1] \notin dead}
    BY <2>2 DEF SweepStep, Sweep, KeptEdges
  <2>6. Starts(heap', roots', pinned') = S
    BY <2>2, <2>3, <2>4 DEF SweepStep, Sweep, Starts, TypeOK
  <2>7. Reachable(heap \ dead, S, {e \in edges : e[1] \notin dead}) = Reachable(heap, S, edges)
    <3>1. dead \in SUBSET heap /\ dead \cap Reachable(heap, S, edges) = {}
      BY <2>2 DEF SweepStep, Marked
    <3> HIDE DEF dead, S
    <3> QED
      BY <2>3, <3>1, ReachableAfterErase
  <2>8. Marked' = Marked
    BY <2>5, <2>6, <2>7 DEF Marked
  <2> QED
    BY <2>4, <2>5, <2>8
<1> QED
  BY <1>1, TypeCorrect, PTL DEF Spec, MajorCollectsAll

\* After a minor collection every object of the heap is old.
THEOREM MinorLeavesOld == Spec => MinorAges
<1> DEFINE Ages == \A t \in Mutators : CollectMinor(t) => heap' \subseteq old' /\ old \subseteq heap'
<1>1. TypeOK /\ [Next]_vars => [Ages]_vars
  <2> SUFFICES ASSUME TypeOK, NEW t \in Mutators, CollectMinor(t)
               PROVE  heap' \subseteq old' /\ old \subseteq heap'
    OBVIOUS
  <2> DEFINE dead == Dead(TRUE, Promoted)
  <2>1. SweepStep(t, dead, Promoted, PromotedCount)
    BY MinorSweeps DEF Threads
  <2>2. dead = heap \ Promoted
    BY StartsMarked DEF Dead, Promoted, Starts
  <2> QED
    BY <2>1, <2>2 DEF SweepStep, Sweep
<1> QED
  BY <1>1, TypeCorrect, PTL DEF Spec, MinorAges

-----------------------------------------------------------------------------
(* Roots, weak references and phantom references                           *)

\* Reference ids that have been given out.
RefIdsGiven == \A r \in phantoms : r[1] \in 1..next_ref_id - 1

RefsInv == TablesMatchHeap /\ PhantomOnce /\ RefIdsGiven

LEMMA InitRefs == Init => RefsInv
BY DEF Init, RefsInv, TablesMatchHeap, PhantomOnce, RefIdsGiven

LEMMA NextRefs == TypeOK /\ IdsGiven /\ RefsInv /\ [Next]_vars => RefsInv'
<1> SUFFICES ASSUME TypeOK, IdsGiven, RefsInv, [Next]_vars PROVE RefsInv'
  OBVIOUS
<1> DEFINE Quiet == UNCHANGED <<heap, roots, refs, next_id>>
<1> USE DEF cells, refs, counters, threads, seen, request
<1>1. ASSUME NEW t \in Threads, Allocate(t) PROVE RefsInv'
  <2>1. next_id \in Nat \ {0} /\ next_id' = next_id + 1 /\ heap' = heap \cup {next_id}
    BY <1>1, ConstantsAssumption DEF TypeOK, Allocate
  <2>2. UNCHANGED <<roots, refs>>
    BY <1>1 DEF Allocate
  <2>3. TablesMatchHeap'
    <3>1. 1..next_id - 1 \subseteq 1..next_id' - 1 /\ next_id \notin 1..next_id - 1
      BY <2>1
    <3> QED
      BY <2>1, <2>2, <3>1 DEF TablesMatchHeap, RefsInv
  <2> QED
    BY <2>2, <2>3 DEF RefsInv, PhantomOnce, RefIdsGiven
<1>2. ASSUME NEW t \in Threads, DrainPhantomQueue(t) PROVE RefsInv'
  BY <1>2 DEF DrainPhantomQueue, RefsInv, TablesMatchHeap, PhantomOnce, RefIdsGiven
<1>3. ASSUME NEW t \in Threads, NEW id \in heap, AddRoot(t, id) \/ RemoveRoot(t, id)
      PROVE  RefsInv'
  BY <1>3 DEF AddRoot, RemoveRoot, RefsInv, TablesMatchHeap, PhantomOnce, RefIdsGiven
<1>4. ASSUME NEW t \in Threads, NEW id \in heap, CreateWeakRef(t, id) PROVE RefsInv'
  <2>1. next_ref_id \in Nat \ {0} /\ next_ref_id' = next_ref_id + 1
    BY <1>4, ConstantsAssumption DEF TypeOK, CreateWeakRef
  <2>2. 1..next_ref_id - 1 \subseteq 1..next_ref_id' - 1
    BY <2>1
  <2> QED
    BY <1>4, <2>2 DEF CreateWeakRef, RefsInv, TablesMatchHeap, PhantomOnce, RefIdsGiven
<1>5. ASSUME NEW t \in Threads, NEW id \in heap, CreatePhantomRef(t, id) PROVE RefsInv'
  <2> DEFINE r == <<next_ref_id, id>>
  <2>1. next_ref_id \in Nat \ {0} /\ next_ref_id' = next_ref_id + 1
    BY <1>5, ConstantsAssumption DEF TypeOK, CreatePhantomRef
  <2>2. /\ 1..next_ref_id - 1 \subseteq 1..next_ref_id' - 1
        /\ next_ref_id \in 1..next_ref_id' - 1 /\ next_ref_id \notin 1..next_ref_id - 1
    BY <2>1
  <2>3. r \notin phantoms
    BY <2>2 DEF RefsInv, RefIdsGiven
  <2>4. /\ phantom_refs' = phantom_refs \cup {r} /\ phantoms' = phantoms \cup {r}
        /\ UNCHANGED <<heap, roots, weak_refs, phantom_queue, delivered, next_id>>
    BY <1>5 DEF CreatePhantomRef
  <2>5. TablesMatchHeap'
    BY <2>4 DEF RefsInv, TablesMatchHeap
  <2>6. PhantomOnce'
    BY <2>3, <2>4 DEF RefsInv, PhantomOnce
  <2>7. RefIdsGiven'
    BY <2>2, <2>4 DEF RefsInv, RefIdsGiven
  <2> QED
    BY <2>5, <2>6, <2>7 DEF RefsInv
<1>6. ASSUME NEW t \in Threads, NEW dead, NEW oldgen, NEW young,
             SweepStep(t, dead, oldgen, young)
      PROVE  RefsInv'
  <2>1. /\ heap' = heap \ dead /\ dead \subseteq heap
        /\ roots' = roots \ dead
        /\ weak_refs' = {r \in weak_refs : r[2] \notin dead}
        /\ phantom_refs' = {r \in phantom_refs : r[2] \notin dead}
        /\ phantom_queue' = phantom_queue \cup {r \in phantom_refs : r[2] \in dead}
        /\ UNCHANGED <<phantoms, delivered, next_id, next_ref_id>>
    BY <1>6 DEF SweepStep, Sweep, KeptWeak, KeptPhantoms
  <2>2. TablesMatchHeap'
    BY <2>1 DEF RefsInv, TablesMatchHeap, IdsGiven
  <2>3. PhantomOnce'
    BY <2>1 DEF RefsInv, PhantomOnce
  <2> QED
    BY <2>1, <2>2, <2>3 DEF RefsInv, RefIdsGiven
<1>7. ASSUME NEW t \in Threads, ObjectStep(t) PROVE RefsInv'
  <2>1. CASE \E id \in heap : Pin(t, id) \/ Unpin(t, id) \/ RegisterFinalizer(t, id)
    BY <2>1 DEF Pin, Unpin, RegisterFinalizer, RefsInv, TablesMatchHeap, PhantomOnce,
                RefIdsGiven
  <2>2. CASE \E id \in heap, to \in Ids : AddReference(t, id, to) \/ RemoveReference(t, id, to)
    BY <2>2 DEF AddReference, RemoveReference, RefsInv, TablesMatchHeap, PhantomOnce,
                RefIdsGiven
  <2> QED
    BY <1>1, <1>2, <1>3, <1>4, <1>5, <1>7, <2>1, <2>2 DEF ObjectStep
<1>8. ASSUME NEW t \in Threads, FinalizerStep(t) PROVE Quiet
  BY <1>8 DEF FinalizerStep, BeginFinalizer, EndFinalizer
<1>9. ASSUME NEW t \in Threads, CollectStep(t), ~CollectMinor(t) PROVE Quiet
  BY <1>9 DEF CollectStep, CollectMajorAsync, Notify, WaitForMajor, WaitAgain,
              LeaveWait, SpuriousWakeup
<1>10. ASSUME WorkerStep, ~CollectMajor PROVE Quiet
  BY <1>10 DEF WorkerStep, WorkerBlocks, WorkerStops, MajorDoneNotify
<1>11. ASSUME Destroy \/ UNCHANGED vars PROVE Quiet
  BY <1>11 DEF Destroy, vars
<1>12. CASE Quiet
  BY <1>12 DEF RefsInv, TablesMatchHeap, PhantomOnce, RefIdsGiven
<1>13. ASSUME NEW t \in Threads, CollectMinor(t) PROVE RefsInv'
  BY <1>6, <1>13, MinorSweeps
<1>14. CASE CollectMajor
  BY <1>6, <1>14, MajorSweeps DEF Threads
<1> HIDE DEF Quiet
<1> QED
  BY <1>7, <1>8, <1>9, <1>10, <1>11, <1>12, <1>13, <1>14 DEF Next

\* The roots and the weak and phantom references always name live objects, and
\* what the phantom queue holds is gone for good.
THEOREM TablesCorrect == Spec => []TablesMatchHeap
<1>1. Init => TypeOK /\ YoungInv /\ RefsInv
  BY InitType, InitYoung, InitRefs
<1>2. TypeOK /\ YoungInv /\ RefsInv /\ [Next]_vars => (TypeOK /\ YoungInv /\ RefsInv)'
  BY NextType, NextYoung, NextRefs DEF YoungInv
<1>3. RefsInv => TablesMatchHeap
  BY DEF RefsInv
<1> QED
  BY <1>1, <1>2, <1>3, PTL DEF Spec

\* Every phantom reference is delivered at most once and never lost.
THEOREM PhantomsCorrect == Spec => []PhantomOnce
<1>1. Init => TypeOK /\ YoungInv /\ RefsInv
  BY InitType, InitYoung, InitRefs
<1>2. TypeOK /\ YoungInv /\ RefsInv /\ [Next]_vars => (TypeOK /\ YoungInv /\ RefsInv)'
  BY NextType, NextYoung, NextRefs DEF YoungInv
<1>3. RefsInv => PhantomOnce
  BY DEF RefsInv
<1> QED
  BY <1>1, <1>2, <1>3, PTL DEF Spec

-----------------------------------------------------------------------------
(* Finalizers                                                              *)

\* Ids that have a finalizer have been given out.
FinalizerInv == FinalizerOnce /\ registered \subseteq 1..next_id - 1

LEMMA InitFinalizers == Init => FinalizerInv
BY DEF Init, FinalizerInv, FinalizerOnce, Carried

LEMMA NextFinalizers == TypeOK /\ IdsGiven /\ FinalizerInv /\ [Next]_vars => FinalizerInv'
<1> SUFFICES ASSUME TypeOK, IdsGiven, FinalizerInv, [Next]_vars PROVE FinalizerInv'
  OBVIOUS
<1> DEFINE Quiet == UNCHANGED <<heap, finalizer, deferred, seen, next_id>>
<1> USE DEF cells, refs, counters, threads, seen, request
<1>1. ASSUME NEW t \in Threads, Allocate(t) PROVE FinalizerInv'
  <2>1. next_id \in Nat \ {0} /\ next_id' = next_id + 1 /\ heap' = heap \cup {next_id}
    BY <1>1, ConstantsAssumption DEF TypeOK, Allocate
  <2>2. 1..next_id - 1 \subseteq 1..next_id' - 1 /\ next_id \notin 1..next_id - 1
    BY <2>1
  <2>3. UNCHANGED <<finalizer, deferred, registered, finalized>>
    BY <1>1 DEF Allocate
  <2>4. next_id \notin registered
    BY <2>2 DEF FinalizerInv
  <2>5. next_id \notin finalized /\ \A u \in Threads : next_id \notin deferred[u]
    BY <2>4 DEF FinalizerInv, FinalizerOnce, Carried, TypeOK
  <2> QED
    BY <2>1, <2>2, <2>3, <2>5 DEF FinalizerInv, FinalizerOnce, Carried
<1>2. ASSUME NEW t \in Threads, NEW id \in heap, RegisterFinalizer(t, id) PROVE FinalizerInv'
  BY <1>2 DEF RegisterFinalizer, FinalizerInv, FinalizerOnce, Carried, IdsGiven
<1>3. ASSUME NEW t \in Threads, NEW id \in Ids, BeginFinalizer(t, id) PROVE FinalizerInv'
  <2>1. /\ id \in deferred[t]
        /\ finalized' = finalized \cup {id}
        /\ UNCHANGED <<heap, finalizer, registered, next_id>>
    BY <1>3 DEF BeginFinalizer
  <2>2. /\ deferred'[t] = deferred[t] \ {id}
        /\ \A u \in Threads : u # t => deferred'[u] = deferred[u]
    BY <1>3 DEF BeginFinalizer, Untaken, TypeOK
  <2>3. Carried = Carried' \cup {id}
    BY <2>1, <2>2 DEF Carried
  <2>4. \A u \in Threads : deferred'[u] \subseteq deferred[u] /\ id \notin deferred'[u]
    BY <2>1, <2>2 DEF FinalizerInv, FinalizerOnce
  <2>5. id \notin heap
    BY <2>1 DEF FinalizerInv, FinalizerOnce
  <2>6. registered' = finalizer' \cup finalized' \cup Carried'
    BY <2>1, <2>3 DEF FinalizerInv, FinalizerOnce
  <2>7. finalized' \cap heap' = {}
    BY <2>1, <2>5 DEF FinalizerInv, FinalizerOnce
  <2>8. \A u \in Threads : deferred'[u] \cap (heap' \cup finalized') = {}
    BY <2>1, <2>4 DEF FinalizerInv, FinalizerOnce
  <2>9. \A u, v \in Threads : u # v => deferred'[u] \cap deferred'[v] = {}
    BY <2>4 DEF FinalizerInv, FinalizerOnce
  <2> QED
    BY <2>1, <2>6, <2>7, <2>8, <2>9 DEF FinalizerInv, FinalizerOnce
<1>4. ASSUME NEW t \in Threads, NEW dead, NEW oldgen, NEW young,
             SweepStep(t, dead, oldgen, young)
      PROVE  FinalizerInv'
  <2>1. /\ heap' = heap \ dead /\ dead \subseteq heap /\ finalizer' = finalizer \ dead
        /\ UNCHANGED <<registered, finalized, next_id>>
    BY <1>4 DEF SweepStep, Sweep
  <2>2. /\ deferred'[t] = deferred[t] \cup (dead \cap finalizer)
        /\ \A u \in Threads : u # t => deferred'[u] = deferred[u]
    BY <1>4 DEF SweepStep, Sweep, TypeOK
  <2>3. Carried' = Carried \cup (dead \cap finalizer)
    BY <2>1, <2>2 DEF Carried, TypeOK
  <2>4. registered' = finalizer' \cup finalized' \cup Carried'
    BY <2>1, <2>3 DEF FinalizerInv, FinalizerOnce
  <2>5. \A u \in Threads : deferred'[u] \cap (heap' \cup finalized') = {}
    BY <2>1, <2>2 DEF FinalizerInv, FinalizerOnce
  <2>6. \A u, v \in Threads : u # v => deferred'[u] \cap deferred'[v] = {}
    BY <2>1, <2>2 DEF FinalizerInv, FinalizerOnce
  <2> QED
    BY <2>1, <2>4, <2>5, <2>6 DEF FinalizerInv, FinalizerOnce
<1>5. ASSUME NEW t \in Threads, ObjectStep(t) PROVE FinalizerInv' \/ Quiet
  <2>1. CASE \/ DrainPhantomQueue(t)
             \/ \E id \in heap : \/ AddRoot(t, id) \/ RemoveRoot(t, id) \/ Pin(t, id)
                                 \/ Unpin(t, id) \/ CreateWeakRef(t, id)
                                 \/ CreatePhantomRef(t, id)
    BY <2>1 DEF DrainPhantomQueue, AddRoot, RemoveRoot, Pin, Unpin, CreateWeakRef,
                CreatePhantomRef
  <2>2. CASE \E id \in heap, to \in Ids : AddReference(t, id, to) \/ RemoveReference(t, id, to)
    BY <2>2 DEF AddReference, RemoveReference
  <2> HIDE DEF Quiet
  <2> QED
    BY <1>1, <1>2, <1>5, <2>1, <2>2 DEF ObjectStep
<1>6. ASSUME NEW t \in Threads, FinalizerStep(t) PROVE FinalizerInv' \/ Quiet
  BY <1>3, <1>6 DEF FinalizerStep, EndFinalizer
<1>7. ASSUME NEW t \in Threads, CollectStep(t), ~CollectMinor(t) PROVE Quiet
  BY <1>7 DEF CollectStep, CollectMajorAsync, Notify, WaitForMajor, WaitAgain,
              LeaveWait, SpuriousWakeup
<1>8. ASSUME WorkerStep, ~CollectMajor PROVE Quiet
  BY <1>8 DEF WorkerStep, WorkerBlocks, WorkerStops, MajorDoneNotify
<1>9. ASSUME Destroy \/ UNCHANGED vars PROVE Quiet
  BY <1>9 DEF Destroy, vars
<1>10. ASSUME Quiet PROVE FinalizerInv'
  BY <1>10 DEF FinalizerInv, FinalizerOnce, Carried
<1>11. ASSUME NEW t \in Threads, CollectMinor(t) PROVE FinalizerInv'
  BY <1>4, <1>11, MinorSweeps
<1>12. CASE CollectMajor
  BY <1>4, <1>12, MajorSweeps DEF Threads
<1> HIDE DEF Quiet
<1> QED
  BY <1>5, <1>6, <1>7, <1>8, <1>9, <1>10, <1>11, <1>12 DEF Next

\* With any number of threads collecting at once, every registered finalizer runs
\* at most once, never for a live object, and is never dropped.
THEOREM FinalizersCorrect == Spec => []FinalizerOnce
<1>1. Init => TypeOK /\ YoungInv /\ FinalizerInv
  BY InitType, InitYoung, InitFinalizers
<1>2. TypeOK /\ YoungInv /\ FinalizerInv /\ [Next]_vars => (TypeOK /\ YoungInv /\ FinalizerInv)'
  BY NextType, NextYoung, NextFinalizers DEF YoungInv
<1>3. FinalizerInv => FinalizerOnce
  BY DEF FinalizerInv
<1> QED
  BY <1>1, <1>2, <1>3, PTL DEF Spec

-----------------------------------------------------------------------------
(* Edges                                                                   *)

LEMMA NextDangles ==
    ASSUME TypeOK, DanglesFromStrays, [Next]_vars
    PROVE  DanglesFromStrays'
<1> DEFINE Quiet == UNCHANGED <<strays, edges, heap>>
<1> USE DEF cells, refs, counters, threads, seen, request
<1>1. ASSUME edges' \subseteq edges, heap \subseteq heap', strays' = strays
      PROVE  DanglesFromStrays'
  BY <1>1 DEF DanglesFromStrays
<1>2. ASSUME NEW t \in Threads, ObjectStep(t) PROVE DanglesFromStrays'
  <2>1. CASE Allocate(t)
    BY <1>1, <2>1 DEF Allocate
  <2>2. CASE \E id \in heap, to \in Ids : RemoveReference(t, id, to)
    BY <1>1, <2>2 DEF RemoveReference
  <2>3. CASE \E id \in heap, to \in Ids : AddReference(t, id, to)
    BY <2>3 DEF AddReference, DanglesFromStrays
  <2>4. CASE \/ DrainPhantomQueue(t)
             \/ \E id \in heap : \/ AddRoot(t, id) \/ RemoveRoot(t, id) \/ Pin(t, id)
                                 \/ Unpin(t, id) \/ RegisterFinalizer(t, id)
                                 \/ CreateWeakRef(t, id) \/ CreatePhantomRef(t, id)
    BY <1>1, <2>4 DEF DrainPhantomQueue, AddRoot, RemoveRoot, Pin, Unpin, RegisterFinalizer,
                      CreateWeakRef, CreatePhantomRef
  <2> QED
    BY <1>2, <2>1, <2>2, <2>3, <2>4 DEF ObjectStep
\* An object that stays while a collection takes the end of one of its edges is unmarked,
\* because what is marked is closed.
<1>3. ASSUME NEW t, NEW dead, NEW oldgen, NEW young, SweepStep(t, dead, oldgen, young)
      PROVE  DanglesFromStrays'
  <2>1. /\ heap' = heap \ dead /\ edges' = {e \in edges : e[1] \notin dead}
        /\ strays' = (strays \cup (heap \ Marked)) \ dead
        /\ dead \in SUBSET heap /\ dead \cap Marked = {}
    BY <1>3 DEF SweepStep, Sweep, KeptEdges
  <2>2. Closed(Marked, heap, Starts(heap, roots, pinned), edges)
    BY ReachableClosed DEF Marked, TypeOK, Starts
  <2> SUFFICES ASSUME NEW e \in edges, e[1] \notin dead, e[2] \notin heap \ dead
               PROVE  e[1] \in strays'
    BY <2>1 DEF DanglesFromStrays
  <2>3. CASE e[2] \notin heap
    BY <2>1, <2>3 DEF DanglesFromStrays
  <2>4. CASE e[2] \in dead
    <3>1. e[1] \in heap
      BY DEF TypeOK
    <3>2. e[1] \notin Marked
      BY <2>1, <2>2, <2>4 DEF Closed
    <3> QED
      BY <2>1, <3>1, <3>2
  <2> QED
    BY <2>3, <2>4
<1>4. ASSUME NEW t \in Threads, FinalizerStep(t) PROVE Quiet
  BY <1>4 DEF FinalizerStep, BeginFinalizer, EndFinalizer
<1>5. ASSUME NEW t \in Threads, CollectStep(t), ~CollectMinor(t) PROVE Quiet
  BY <1>5 DEF CollectStep, CollectMajorAsync, Notify, WaitForMajor, WaitAgain,
              LeaveWait, SpuriousWakeup
<1>6. ASSUME WorkerStep, ~CollectMajor PROVE Quiet
  BY <1>6 DEF WorkerStep, WorkerBlocks, WorkerStops, MajorDoneNotify
<1>7. ASSUME Destroy \/ UNCHANGED vars PROVE Quiet
  BY <1>7 DEF Destroy, vars
<1>8. ASSUME Quiet PROVE DanglesFromStrays'
  BY <1>1, <1>8
<1>9. ASSUME NEW t \in Threads, CollectMinor(t) PROVE DanglesFromStrays'
  BY <1>3, <1>9, MinorSweeps
<1>10. CASE CollectMajor
  BY <1>3, <1>10, MajorSweeps
<1> HIDE DEF Quiet
<1> QED
  BY <1>2, <1>4, <1>5, <1>6, <1>7, <1>8, <1>9, <1>10 DEF Next

\* Whatever callers name and bring back, an edge leads to a reclaimed object only from an
\* object that a collection found out of reach and kept: an object that was in reach at
\* every collection never has such an edge.
THEOREM DanglingCorrect == Spec => []DanglesFromStrays
<1>1. Init => TypeOK /\ DanglesFromStrays
  BY InitType DEF Init, DanglesFromStrays
<1>2. TypeOK /\ DanglesFromStrays /\ [Next]_vars => (TypeOK /\ DanglesFromStrays)'
  BY NextType, NextDangles
<1> QED
  BY <1>1, <1>2, PTL DEF Spec

-----------------------------------------------------------------------------
(* The collector implements ManagedHeap, whatever objects its callers      *)
(* name: each step of GcController is one step of the abstract heap, or    *)
(* leaves it as it is.                                                     *)

\* The mapped graph: the edges whose end is still there.
Graph == {e \in edges : e[2] \in heap}
Anchors == Starts(heap, roots, pinned)

\* The step leaves the abstract heap as it is.
Stutter == UNCHANGED <<1..next_id - 1, heap, Graph, Anchors, finalizer, Carried,
                       weak_refs, phantom_refs, phantom_queue>>
Maps == Heap!HeapNext \/ Stutter

\* Objects out of reach are those MarkFromRoots does not mark: edges to what is
\* gone lead nowhere.
LEMMA GarbageIsUnmarked == Heap!Garbage = heap \ Marked
<1>1. \A S : Closed(S, heap, Anchors, edges) <=> Heap!Closed(S, heap, Anchors, Graph)
  BY DEF Closed, Heap!Closed, Graph
<1>2. Heap!Reachable(heap, Anchors, Graph) = Reachable(heap, Anchors, edges)
  BY <1>1 DEF Reachable, Heap!Reachable
<1> QED
  BY <1>2 DEF Heap!Garbage, Marked, Graph, Anchors

\* The ends of the edges have been given out, so no new object takes the place of
\* one that was reclaimed while an edge still led to it.
EndsGiven == \A e \in edges : e[2] \in 1..next_id - 1

LEMMA NextEnds ==
    ASSUME TypeOK, IdsGiven, EndsGiven, [Next]_vars, IdsGiven', TypeOK'
    PROVE  EndsGiven'
<1> USE DEF cells, refs, counters, threads, seen, request
<1>1. ASSUME NEW t \in Threads, NEW dead, NEW oldgen, NEW young,
             SweepStep(t, dead, oldgen, young)
      PROVE  EndsGiven'
  BY <1>1 DEF SweepStep, Sweep, KeptEdges, EndsGiven
<1>2. ASSUME NEW t \in Threads, ObjectStep(t) PROVE EndsGiven'
  <2>1. CASE Allocate(t)
    BY <2>1, ConstantsAssumption DEF Allocate, EndsGiven, TypeOK
  <2>2. CASE \E id \in heap, to \in Ids : AddReference(t, id, to)
    BY <2>2 DEF AddReference, EndsGiven, IdsGiven
  <2>3. CASE \E id \in heap, to \in Ids : RemoveReference(t, id, to)
    BY <2>3 DEF RemoveReference, EndsGiven
  <2>4. CASE \/ DrainPhantomQueue(t)
             \/ \E id \in heap : \/ AddRoot(t, id) \/ RemoveRoot(t, id) \/ Pin(t, id)
                                 \/ Unpin(t, id) \/ RegisterFinalizer(t, id)
                                 \/ CreateWeakRef(t, id) \/ CreatePhantomRef(t, id)
    BY <2>4 DEF DrainPhantomQueue, AddRoot, RemoveRoot, Pin, Unpin, RegisterFinalizer,
                CreateWeakRef, CreatePhantomRef, EndsGiven
  <2> QED
    BY <1>2, <2>1, <2>2, <2>3, <2>4 DEF ObjectStep
<1>3. ASSUME NEW t \in Threads, FinalizerStep(t) PROVE EndsGiven'
  BY <1>3 DEF FinalizerStep, BeginFinalizer, EndFinalizer, EndsGiven
<1>4. ASSUME NEW t \in Threads, CollectStep(t), ~CollectMinor(t) PROVE EndsGiven'
  BY <1>4 DEF CollectStep, CollectMajorAsync, Notify, WaitForMajor, WaitAgain,
              LeaveWait, SpuriousWakeup, EndsGiven
<1>5. ASSUME WorkerStep, ~CollectMajor PROVE EndsGiven'
  BY <1>5 DEF WorkerStep, WorkerBlocks, WorkerStops, MajorDoneNotify, EndsGiven
<1>6. ASSUME Destroy \/ UNCHANGED vars PROVE EndsGiven'
  BY <1>6 DEF Destroy, vars, EndsGiven
<1>7. ASSUME NEW t \in Threads, CollectMinor(t) PROVE EndsGiven'
  BY <1>1, <1>7, MinorSweeps
<1>8. CASE CollectMajor
  BY <1>1, <1>8, MajorSweeps DEF Threads
<1> QED
  BY <1>2, <1>3, <1>4, <1>5, <1>6, <1>7, <1>8 DEF Next

-----------------------------------------------------------------------------
(* One operation at a time                                                 *)

\* What the steps rely on: the tables match the heap and no id comes back.
HeapInv == TypeOK /\ IdsGiven /\ EndsGiven /\ RefsInv /\ FinalizerInv

\* A new object: nothing leads to it, and nothing anchors it.
LEMMA AllocateMaps ==
    ASSUME HeapInv, NEW t \in Threads, Allocate(t) PROVE Heap!Create
<1> USE DEF cells, refs, counters, threads, seen, request
<1>1. /\ next_id \in Ids /\ next_id' = next_id + 1 /\ heap' = heap \cup {next_id}
      /\ next_id \in Nat \ {0}
  BY ConstantsAssumption DEF HeapInv, TypeOK, Allocate, Ids
<1>2. 1..next_id' - 1 = (1..next_id - 1) \cup {next_id} /\ next_id \notin 1..next_id - 1
  BY <1>1
<1>3. UNCHANGED <<edges, roots, pinned, finalizer, deferred, refs>>
  BY DEF Allocate
<1>4. UNCHANGED Graph
  BY <1>1, <1>2, <1>3 DEF Graph, HeapInv, EndsGiven
<1>5. UNCHANGED Anchors
  BY <1>1, <1>2, <1>3 DEF Anchors, Starts, HeapInv, RefsInv, TablesMatchHeap, IdsGiven
<1>6. UNCHANGED Carried
  BY <1>3 DEF Carried
<1> QED
  BY <1>1, <1>2, <1>3, <1>4, <1>5, <1>6
     DEF Heap!Create, Heap!endings, Heap!references, Graph, Anchors

\* Edges, roots and pins: one step of Link, or nothing of the mapped graph changes.
LEMMA LinksMap ==
    ASSUME HeapInv, NEW t \in Threads, NEW id \in heap,
           \/ AddRoot(t, id) \/ RemoveRoot(t, id) \/ Pin(t, id) \/ Unpin(t, id)
           \/ \E to \in Ids : AddReference(t, id, to) \/ RemoveReference(t, id, to)
    PROVE  Maps
<1> USE DEF cells, refs, counters, threads, seen, request
<1>1. /\ UNCHANGED <<heap, finalizer, deferred, weak_refs, phantom_refs, phantom_queue,
                     next_id>>
      /\ UNCHANGED edges \/ UNCHANGED <<roots, pinned>>
  BY DEF AddRoot, RemoveRoot, Pin, Unpin, AddReference, RemoveReference
<1>2. UNCHANGED <<Carried, 1..next_id - 1>>
  BY <1>1 DEF Carried
<1>3. UNCHANGED Graph \/ UNCHANGED Anchors
  BY <1>1 DEF Graph, Anchors, Starts
<1>4. \/ UNCHANGED Anchors
      \/ \E a \in heap : Anchors' = Anchors \cup {a}
      \/ \E a \in Anchors : Anchors' = Anchors \ {a}
  <2>1. CASE AddRoot(t, id) \/ Pin(t, id)
    BY <2>1 DEF AddRoot, Pin, Anchors, Starts
  <2>2. CASE RemoveRoot(t, id) \/ Unpin(t, id)
    BY <2>2 DEF RemoveRoot, Unpin, Anchors, Starts
  <2>3. CASE \E to \in Ids : AddReference(t, id, to) \/ RemoveReference(t, id, to)
    BY <2>3 DEF AddReference, RemoveReference, Anchors, Starts
  <2> QED
    BY <2>1, <2>2, <2>3
<1>5. \/ UNCHANGED Graph
      \/ \E a, b \in heap : Graph' = Graph \cup {<<a, b>>}
      \/ \E e \in Graph : Graph' = Graph \ {e}
  <2>1. CASE UNCHANGED edges
    BY <1>1, <2>1 DEF Graph
  <2>2. ASSUME NEW to \in Ids, AddReference(t, id, to)
        PROVE  Graph' = Graph \cup {<<id, to>>} /\ to \in heap
    BY <2>2 DEF AddReference, Graph
  <2>3. ASSUME NEW to \in Ids, RemoveReference(t, id, to)
        PROVE  IF to \in heap THEN <<id, to>> \in Graph /\ Graph' = Graph \ {<<id, to>>}
                              ELSE UNCHANGED Graph
    BY <2>3 DEF RemoveReference, Graph
  <2>4. CASE \E to \in Ids : AddReference(t, id, to)
    BY <2>2, <2>4
  <2>5. CASE \E to \in Ids : RemoveReference(t, id, to)
    BY <2>3, <2>5
  <2> QED
    BY <2>1, <2>4, <2>5 DEF AddRoot, RemoveRoot, Pin, Unpin
<1>6. CASE UNCHANGED <<Graph, Anchors>>
  BY <1>1, <1>2, <1>6 DEF Maps, Stutter
<1>7. CASE ~UNCHANGED <<Graph, Anchors>>
  BY <1>1, <1>2, <1>3, <1>4, <1>5, <1>7
     DEF Maps, Heap!HeapNext, Heap!Link, Heap!endings, Heap!references, Graph, Anchors
<1> QED
  BY <1>6, <1>7

\* A finalizer or a reference is attached to a live object, or references are
\* handed out.
LEMMA TablesMap ==
    ASSUME HeapInv, NEW t \in Threads,
           \/ DrainPhantomQueue(t)
           \/ \E id \in heap : \/ RegisterFinalizer(t, id) \/ CreateWeakRef(t, id)
                               \/ CreatePhantomRef(t, id)
    PROVE  Maps
<1> USE DEF cells, refs, counters, threads, seen, request
<1>1. UNCHANGED <<heap, edges, roots, pinned, deferred, next_id>>
  BY DEF DrainPhantomQueue, RegisterFinalizer, CreateWeakRef, CreatePhantomRef
<1>2. UNCHANGED <<Carried, Graph, Anchors, 1..next_id - 1>>
  BY <1>1 DEF Carried, Graph, Anchors, Starts
<1>3. CASE DrainPhantomQueue(t)
  BY <1>1, <1>2, <1>3 DEF DrainPhantomQueue, Maps, Heap!HeapNext, Heap!Deliver,
                          Heap!links, Heap!endings, Graph, Anchors
<1>4. ASSUME NEW id \in heap, RegisterFinalizer(t, id) PROVE Heap!Attach
  BY <1>1, <1>2, <1>4 DEF RegisterFinalizer, Heap!Attach, Heap!links, Heap!references,
                          Graph, Anchors
<1>5. ASSUME NEW id \in heap, CreateWeakRef(t, id) \/ CreatePhantomRef(t, id)
      PROVE  Heap!Refer
  <2>1. next_ref_id \in RefIds
    BY <1>5, ConstantsAssumption
       DEF CreateWeakRef, CreatePhantomRef, RefIds, HeapInv, TypeOK
  <2> QED
    BY <1>1, <1>2, <1>5, <2>1 DEF CreateWeakRef, CreatePhantomRef, Heap!Refer, Heap!links,
                                  Heap!endings, Graph, Anchors
<1> QED
  BY <1>3, <1>4, <1>5 DEF Maps, Heap!HeapNext

\* A collection, minor or major, takes a part of the garbage with all that hangs on it.
LEMMA SweepMaps ==
    ASSUME HeapInv, NEW t \in Threads, NEW dead, NEW oldgen, NEW young,
           SweepStep(t, dead, oldgen, young)
    PROVE  Maps
<1>1. dead \in SUBSET Heap!Garbage
  BY GarbageIsUnmarked DEF SweepStep
<1>2. /\ heap' = heap \ dead /\ finalizer' = finalizer \ dead
      /\ edges' = {e \in edges : e[1] \notin dead}
      /\ roots' = roots \ dead /\ pinned' = pinned \ dead
      /\ weak_refs' = {r \in weak_refs : r[2] \notin dead}
      /\ phantom_refs' = {r \in phantom_refs : r[2] \notin dead}
      /\ phantom_queue' = phantom_queue \cup {r \in phantom_refs : r[2] \in dead}
      /\ deferred' = [deferred EXCEPT ![t] = @ \cup (dead \cap finalizer)]
      /\ next_id' = next_id
  BY DEF SweepStep, Sweep, KeptEdges, KeptWeak, KeptPhantoms
<1>3. Graph' = {e \in Graph : e[1] \notin dead /\ e[2] \notin dead}
  BY <1>2 DEF Graph
<1>4. dead \cap Anchors = {}
  BY StartsMarked DEF SweepStep, Anchors, HeapInv
<1>5. UNCHANGED Anchors
  BY <1>2, <1>4 DEF Anchors, Starts
<1>6. /\ deferred'[t] = deferred[t] \cup (dead \cap finalizer)
      /\ \A u \in Threads : u # t => deferred'[u] = deferred[u]
  BY <1>2 DEF HeapInv, TypeOK
<1>7. finalizer \subseteq Ids
  BY DEF HeapInv, TypeOK
<1>8. Carried' = Carried \cup (finalizer \cap dead)
  BY <1>6, <1>7 DEF Carried
<1>9. Heap!Reclaim(dead)
  BY <1>2, <1>3, <1>5, <1>8 DEF Heap!Reclaim, Graph, Anchors
<1> QED
  BY <1>1, <1>9 DEF Maps, Heap!HeapNext

\* A finalizer that begins leaves the ones that are due: only one thread carries it.
LEMMA FinalizerMaps ==
    ASSUME HeapInv, NEW t \in Threads, NEW id \in Ids, BeginFinalizer(t, id)
    PROVE  Maps
<1> USE DEF cells, refs, counters, threads, seen, request
<1>1. /\ id \in deferred[t]
      /\ UNCHANGED <<heap, edges, roots, pinned, finalizer, weak_refs, phantom_refs,
                     phantom_queue, next_id>>
  BY DEF BeginFinalizer
<1>2. /\ deferred'[t] = deferred[t] \ {id}
      /\ \A u \in Threads : u # t => deferred'[u] = deferred[u]
  BY DEF BeginFinalizer, Untaken, HeapInv, TypeOK
<1>3. \A u \in Threads : u # t => id \notin deferred[u]
  BY <1>1 DEF HeapInv, FinalizerInv, FinalizerOnce
<1>4. id \in Carried /\ Carried' = Carried \ {id}
  BY <1>1, <1>2, <1>3 DEF Carried
<1>5. UNCHANGED <<Graph, Anchors, 1..next_id - 1>>
  BY <1>1 DEF Graph, Anchors, Starts
<1> QED
  BY <1>1, <1>4, <1>5 DEF Maps, Heap!HeapNext, Heap!Finalize, Heap!links,
                          Heap!references, Graph, Anchors

-----------------------------------------------------------------------------
\* The other steps move threads: they are none of the abstract heap's.
Aside == UNCHANGED <<cells, refs, counters, deferred>>

LEMMA NextMaps ==
    ASSUME HeapInv, [Next]_vars PROVE Maps
<1> USE DEF cells, refs, counters, threads, seen, request
<1>1. ASSUME NEW t \in Threads, Allocate(t) PROVE Maps
  BY <1>1, AllocateMaps DEF Maps, Heap!HeapNext
<1>2. ASSUME NEW t \in Threads, ObjectStep(t) PROVE Maps
  BY <1>1, <1>2, LinksMap, TablesMap DEF ObjectStep
<1>3. ASSUME NEW t \in Threads, CollectMinor(t) PROVE Maps
  BY <1>3, MinorSweeps, SweepMaps DEF HeapInv
<1>4. ASSUME CollectMajor PROVE Maps
  BY <1>4, MajorSweeps, SweepMaps DEF HeapInv, Threads
<1>5. ASSUME NEW t \in Threads, FinalizerStep(t) PROVE Maps \/ Aside
  BY <1>5, FinalizerMaps DEF FinalizerStep, EndFinalizer, Aside
<1>6. ASSUME NEW t \in Threads, CollectStep(t), ~CollectMinor(t) PROVE Aside
  BY <1>6 DEF CollectStep, CollectMajorAsync, Notify, WaitForMajor, WaitAgain,
              LeaveWait, SpuriousWakeup, Aside
<1>7. ASSUME WorkerStep, ~CollectMajor PROVE Aside
  BY <1>7 DEF WorkerStep, WorkerBlocks, WorkerStops, MajorDoneNotify, Aside
<1>8. ASSUME Destroy \/ UNCHANGED vars PROVE Aside
  BY <1>8 DEF Destroy, vars, Aside
<1>9. ASSUME Aside PROVE Maps
  BY <1>9 DEF Aside, Maps, Stutter, Graph, Anchors, Starts, Carried
<1> QED
  BY <1>2, <1>3, <1>4, <1>5, <1>6, <1>7, <1>8, <1>9 DEF Next

\* Whatever the threads do and whenever the collections run, the program sees one
\* heap that only loses what it cannot reach: GcController implements ManagedHeap.
THEOREM CollectorImplementsHeap == Spec => ImplementsHeap
<1> DEFINE Inv == HeapInv /\ YoungInv
<1>1. Init => Inv
  BY InitType, InitYoung, InitRefs, InitFinalizers
     DEF Init, HeapInv, EndsGiven, YoungInv
<1>2. Inv /\ [Next]_vars => Inv'
  BY NextType, NextYoung, NextRefs, NextFinalizers, NextEnds DEF HeapInv, YoungInv
<1>3. Init => Heap!HeapInit
  BY DEF Init, Heap!HeapInit, Starts, Carried
<1>4. Inv /\ [Next]_vars => [Heap!HeapNext]_(Heap!heapVars)
  BY NextMaps DEF Maps, Stutter, Graph, Anchors, Heap!heapVars, Heap!links,
                  Heap!endings, Heap!references
<1> QED
  BY <1>1, <1>2, <1>3, <1>4, PTL DEF Spec, ImplementsHeap, Heap!HeapSpec

-----------------------------------------------------------------------------
(* The invariant                                                           *)

Calls ==
    {NoCall} \cup [op : {"new"}, by : Mutators, obj : Ids]
             \cup [op : {"set"}, by : Mutators, obj : Ids, field : Fields, val : Values]

StoreTypes ==
    /\ objects \subseteq Ids /\ created \subseteq Ids /\ released \subseteq created
    /\ fields \in [Ids -> [Fields -> Values]]
    /\ call \in Calls

\* What NewObject returned is a root until it is released.
ReturnedAreRoots == created \ released \subseteq heap \cap roots

\* Between the two halves of SetField the field that is about to change has no edge.
CallUnlinked ==
    call.op = "set" => <<call.obj, fields[call.obj][call.field]>> \notin edges

\* The collector's own invariants, and those of the store.
ObjectInv ==
    /\ TypeOK /\ YoungInv /\ RefsInv /\ FinalizerInv
    /\ StoreTypes /\ ReturnedAreRoots /\ StoreMatchesReturned
    /\ EdgesComeFromFields /\ CallUnlinked

-----------------------------------------------------------------------------
(* The calls as steps of the collector                                     *)

LEMMA CallOfNone ==
    /\ NoCall.op = "none" /\ \A c \in Calls : c.op = "none" => c = NoCall
    /\ \A c \in Calls : c.op = "new" => c \in [op : {"new"}, by : Mutators, obj : Ids]
    /\ \A c \in Calls : c.op = "set" =>
         c \in [op : {"set"}, by : Mutators, obj : Ids, field : Fields, val : Values]
BY DEF Calls, NoCall

\* Whatever the store does is for the collector an operation it offers, or none.
LEMMA StoreUsesCollector == ObjectInv /\ [ObjectNext]_omvars => [Next]_vars
<1> SUFFICES ASSUME ObjectInv, [ObjectNext]_omvars PROVE [Next]_vars
  OBVIOUS
<1>0. Mutators \subseteq Threads
  BY DEF Threads
<1>1. ASSUME NEW t \in Mutators, NewObject(t) PROVE Next
  BY <1>0, <1>1 DEF NewObject, Next, ObjectStep
<1>2. ASSUME NEW t \in Mutators, NewObjectRoot(t) PROVE Next \/ UNCHANGED vars
  <2>1. CASE call.obj \in heap /\ AddRoot(t, call.obj)
    BY <1>0, <2>1 DEF Next, ObjectStep
  <2> QED
    BY <1>2, <2>1 DEF NewObjectRoot, Root
<1>3. ASSUME NEW t \in Mutators, NEW o, NEW f, NEW v, SetField(t, o, f, v)
      PROVE  Next \/ UNCHANGED vars
  <2>1. CASE /\ o \in heap /\ <<o, fields[o][f]>> \in edges
             /\ RemoveReference(t, o, fields[o][f])
    <3>1. fields[o][f] \in Ids
      BY <2>1 DEF ObjectInv, TypeOK
    <3> QED
      BY <1>0, <2>1, <3>1 DEF Next, ObjectStep
  <2> QED
    BY <1>3, <2>1 DEF SetField, Unlink
<1>4. ASSUME NEW t \in Mutators, SetFieldStore(t) PROVE Next \/ UNCHANGED vars
  <2>1. CASE call.obj \in heap /\ call.val \in heap /\ AddReference(t, call.obj, call.val)
    BY <1>0, <2>1 DEF ObjectInv, TypeOK, Next, ObjectStep
  <2> QED
    BY <1>4, <2>1 DEF SetFieldStore
<1>5. ASSUME NEW t \in Mutators, NEW id, Release(t, id) PROVE Next
  <2>1. id \in heap /\ RemoveRoot(t, id)
    BY <1>5 DEF Release, ObjectInv, ReturnedAreRoots
  <2> QED
    BY <1>0, <2>1 DEF Next, ObjectStep
<1>6. ASSUME NEW t \in Mutators, Collect(t) PROVE Next
  BY <1>0, <1>6 DEF Collect, Next, CollectStep
<1>7. CASE Background
  BY <1>7 DEF Background, Next, CollectStep
<1>8. CASE UNCHANGED omvars
  BY <1>8 DEF omvars
<1> QED
  BY <1>1, <1>2, <1>3, <1>4, <1>5, <1>6, <1>7, <1>8 DEF ObjectNext, CallStep

\* Steps in which no operation of the store runs, but the collector may.
LEMMA NextCollector ==
    ObjectInv /\ [ObjectNext]_omvars => (TypeOK /\ YoungInv /\ RefsInv /\ FinalizerInv)'
BY StoreUsesCollector, NextType, NextYoung, NextRefs, NextFinalizers DEF ObjectInv, YoungInv

-----------------------------------------------------------------------------
(* The store                                                               *)

LEMMA InitObject == ObjectInit => ObjectInv
<1> SUFFICES ASSUME ObjectInit PROVE ObjectInv
  OBVIOUS
<1>1. TypeOK /\ YoungInv /\ RefsInv /\ FinalizerInv
  BY InitType, InitYoung, InitRefs, InitFinalizers DEF ObjectInit
<1>2. edges = {} /\ objects = {} /\ created = {} /\ released = {} /\ call = NoCall
  BY DEF ObjectInit, Init
<1>3. StoreTypes
  BY <1>2 DEF ObjectInit, StoreTypes, Calls, Values
<1>4. CallUnlinked
  BY <1>2 DEF CallUnlinked, NoCall
<1> QED
  BY <1>1, <1>2, <1>3, <1>4
  DEF ObjectInv, ReturnedAreRoots, StoreMatchesReturned, EdgesComeFromFields

\* The collections leave what is rooted, and add no edge.
LEMMA CollectorAlone ==
    ASSUME ObjectInv, UNCHANGED <<store, call, observed>>,
           \/ \E t \in Mutators : Collect(t)
           \/ Background
    PROVE  roots \cap heap \subseteq roots' \cap heap' /\ edges' \subseteq edges
<1>1. TypeOK
  BY DEF ObjectInv
<1>2. roots \cap heap \subseteq Marked
  BY <1>1, StartsMarked DEF Starts
<1>3. ASSUME NEW t, NEW dead, NEW oldgen, NEW young, SweepStep(t, dead, oldgen, young)
      PROVE  roots \cap heap \subseteq roots' \cap heap' /\ edges' \subseteq edges
  BY <1>2, <1>3 DEF SweepStep, Sweep, KeptEdges
<1>4. ASSUME NEW t \in Mutators, CollectMinor(t)
      PROVE  roots \cap heap \subseteq roots' \cap heap' /\ edges' \subseteq edges
  BY <1>1, <1>3, <1>4, MinorSweeps DEF Threads
<1>5. CASE CollectMajor
  BY <1>1, <1>3, <1>5, MajorSweeps
<1>6. ASSUME NEW t, CollectMajorAsync(t) \/ Notify(t)
      PROVE  roots \cap heap \subseteq roots' \cap heap' /\ edges' \subseteq edges
  BY <1>6 DEF CollectMajorAsync, Notify, cells
<1>7. CASE WorkerBlocks \/ WorkerStops \/ MajorDoneNotify
  BY <1>7 DEF WorkerBlocks, WorkerStops, MajorDoneNotify, cells
<1> QED
  BY <1>4, <1>5, <1>6, <1>7 DEF Collect, Background, WorkerStep

LEMMA NextObject == ObjectInv /\ [ObjectNext]_omvars => ObjectInv'
<1> SUFFICES ASSUME ObjectInv, [ObjectNext]_omvars PROVE ObjectInv'
  OBVIOUS
<1>0. /\ TypeOK /\ StoreTypes /\ ReturnedAreRoots /\ StoreMatchesReturned
      /\ EdgesComeFromFields /\ CallUnlinked
  BY DEF ObjectInv
<1> DEFINE Kept == /\ StoreTypes' /\ ReturnedAreRoots' /\ StoreMatchesReturned'
                   /\ EdgesComeFromFields' /\ CallUnlinked'
<1> USE DEF cells, store, observed
<1>1. ASSUME NEW t \in Mutators, NewObject(t) PROVE Kept
  <2>1. /\ next_id \in Ids /\ heap' = heap \cup {next_id} /\ UNCHANGED <<roots, edges>>
        /\ call' = [op |-> "new", by |-> t, obj |-> next_id]
        /\ UNCHANGED <<objects, fields, created, released>>
    BY <1>0, <1>1, ConstantsAssumption DEF NewObject, Allocate, TypeOK, Ids
  <2>2. call' \in Calls /\ call'.op # "set"
    BY <2>1 DEF Calls
  <2> QED
    BY <1>0, <2>1, <2>2 DEF StoreTypes, ReturnedAreRoots, StoreMatchesReturned,
         EdgesComeFromFields, CallUnlinked
<1>2. ASSUME NEW t \in Mutators, NewObjectRoot(t) PROVE Kept
  <2>1. /\ call.obj \in Ids /\ call' = NoCall /\ UNCHANGED <<heap, edges, fields, released>>
    BY <1>0, <1>2, CallOfNone DEF NewObjectRoot, Root, AddRoot, StoreTypes, vars
  <2>2. \/ objects' = objects /\ created' = created /\ roots' = roots
        \/ /\ call.obj \in heap /\ roots' = roots \cup {call.obj}
           /\ objects' = objects \cup {call.obj} /\ created' = created \cup {call.obj}
    BY <1>2 DEF NewObjectRoot, Root, AddRoot, RootFailed, vars
  <2>3. call' \in Calls /\ call'.op # "set"
    BY <2>1 DEF Calls, NoCall
  <2> QED
    BY <1>0, <2>1, <2>2, <2>3 DEF StoreTypes, ReturnedAreRoots, StoreMatchesReturned,
         EdgesComeFromFields, CallUnlinked
<1>3. ASSUME NEW t \in Mutators, NEW o \in Usable, NEW f \in Fields,
             NEW v \in Usable \cup {NoValue}, SetField(t, o, f, v)
      PROVE  Kept
  <2>1. o \in Ids /\ v \in Values
    BY <1>0 DEF Usable, StoreTypes, Values
  <2>2. /\ call' = [op |-> "set", by |-> t, obj |-> o, field |-> f, val |-> v]
        /\ UNCHANGED <<objects, fields, created, released>>
    BY <1>3 DEF SetField
  <2>3. UNCHANGED <<heap, roots>> /\ edges' \subseteq edges /\ <<o, fields[o][f]>> \notin edges'
    BY <1>0, <1>3 DEF SetField, Unlink, RemoveReference, TypeOK, vars
  <2>4. call' \in Calls
    BY <2>1, <2>2 DEF Calls
  <2>5. CallUnlinked'
    BY <2>2, <2>3 DEF CallUnlinked
  <2> QED
    BY <1>0, <2>2, <2>3, <2>4, <2>5 DEF StoreTypes, ReturnedAreRoots, StoreMatchesReturned,
         EdgesComeFromFields
<1>4. ASSUME NEW t \in Mutators, SetFieldStore(t) PROVE Kept
  <2>1. /\ call \in [op : {"set"}, by : Mutators, obj : Ids, field : Fields, val : Values]
        /\ call' = NoCall /\ UNCHANGED <<heap, roots, objects, created, released>>
    BY <1>0, <1>4, CallOfNone DEF SetFieldStore, StoreTypes, AddReference, vars
  <2>2. call' \in Calls /\ CallUnlinked'
    BY <2>1 DEF Calls, NoCall, CallUnlinked
  <2>3. \/ UNCHANGED <<edges, fields>>
        \/ /\ fields' = [fields EXCEPT ![call.obj][call.field] = call.val]
           /\ edges' \subseteq edges \cup {<<call.obj, call.val>>}
    BY <1>4 DEF SetFieldStore, AddReference, vars
  <2>4. CASE UNCHANGED <<edges, fields>>
    BY <1>0, <2>1, <2>2, <2>4 DEF StoreTypes, ReturnedAreRoots, StoreMatchesReturned,
         EdgesComeFromFields
  <2>5. CASE /\ fields' = [fields EXCEPT ![call.obj][call.field] = call.val]
             /\ edges' \subseteq edges \cup {<<call.obj, call.val>>}
    <3>1. /\ fields' \in [Ids -> [Fields -> Values]]
          /\ fields'[call.obj][call.field] = call.val
          /\ \A o \in Ids, f \in Fields :
               o # call.obj \/ f # call.field => fields'[o][f] = fields[o][f]
      BY <1>0, <2>1, <2>5 DEF StoreTypes
    <3>2. ASSUME NEW e \in edges' PROVE \E f \in Fields : fields'[e[1]][f] = e[2]
      <4>1. CASE e = <<call.obj, call.val>>
        BY <2>1, <3>1, <4>1
      <4>2. CASE e \in edges
        <5>1. PICK f \in Fields : fields[e[1]][f] = e[2]
          BY <1>0, <4>2 DEF EdgesComeFromFields
        <5>2. e[1] \in Ids /\ e = <<e[1], e[2]>>
          BY <1>0, <4>2 DEF TypeOK
        <5>3. e[1] # call.obj \/ f # call.field
          BY <1>0, <2>1, <4>2, <5>1, <5>2 DEF CallUnlinked
        <5> QED
          BY <3>1, <5>1, <5>2, <5>3
      <4> QED
        BY <2>5, <4>1, <4>2
    <3> QED
      BY <1>0, <2>1, <2>2, <3>1, <3>2 DEF StoreTypes, ReturnedAreRoots, StoreMatchesReturned,
           EdgesComeFromFields
  <2> QED
    BY <2>3, <2>4, <2>5
<1>5. ASSUME NEW t \in Mutators, NEW id \in Ids, Release(t, id) PROVE Kept
  BY <1>0, <1>5 DEF Release, RemoveRoot, StoreTypes, ReturnedAreRoots, StoreMatchesReturned,
       EdgesComeFromFields, CallUnlinked
<1>6. ASSUME UNCHANGED <<store, call, observed>>,
             (\E t \in Mutators : Collect(t)) \/ Background
      PROVE  Kept
  <2>1. roots \cap heap \subseteq roots' \cap heap' /\ edges' \subseteq edges
    BY <1>6, CollectorAlone
  <2> QED
    BY <1>0, <1>6, <2>1 DEF StoreTypes, ReturnedAreRoots, StoreMatchesReturned,
         EdgesComeFromFields, CallUnlinked
<1>7. ASSUME UNCHANGED omvars PROVE Kept
  <2>1. UNCHANGED <<heap, roots, edges, objects, fields, call, created, released>>
    BY <1>7 DEF omvars, vars
  <2> QED
    BY <1>0, <2>1 DEF StoreTypes, ReturnedAreRoots, StoreMatchesReturned, EdgesComeFromFields,
         CallUnlinked
<1> HIDE DEF Kept
<1>8. ASSUME NEW t \in Mutators, Collect(t) PROVE Kept
  BY <1>6, <1>8 DEF Collect
<1>9. ASSUME Background PROVE Kept
  BY <1>6, <1>9 DEF Background
<1>10. Kept
  BY <1>1, <1>2, <1>3, <1>4, <1>5, <1>7, <1>8, <1>9 DEF ObjectNext, CallStep
<1> QED
  BY <1>10, NextCollector DEF ObjectInv, Kept

-----------------------------------------------------------------------------
(* The theorems                                                            *)

LEMMA ObjectInvariant == ObjectSpec => []ObjectInv
BY InitObject, NextObject, PTL DEF ObjectSpec

\* The object model is a client the collector allows: all that is proved of the collector,
\* whoever calls it, holds below the object model too.
THEOREM ObjectModelUsesCollector == ObjectSpec => Spec
<1>1. ObjectInit => Init
  BY DEF ObjectInit
<1>2. ObjectInv /\ [ObjectNext]_omvars => [Next]_vars
  BY StoreUsesCollector
<1> QED
  BY <1>1, <1>2, ObjectInvariant, PTL DEF ObjectSpec, Spec

\* An object that NewObject returned is alive until its root is removed: a collection that
\* falls between Allocate and AddRoot makes NewObject fail, and none after it takes the object.
THEOREM ReturnedObjectsLive == ObjectSpec => []ReturnedObjectLives
<1>1. ObjectInv => ReturnedObjectLives
  BY DEF ObjectInv, ReturnedAreRoots, ReturnedObjectLives
<1> QED
  BY <1>1, ObjectInvariant, PTL

\* NewObject returns what it enters into the store, and enters nothing when it fails.
THEOREM StoreIsWhatWasReturned == ObjectSpec => []StoreMatchesReturned
<1>1. ObjectInv => StoreMatchesReturned
  BY DEF ObjectInv
<1> QED
  BY <1>1, ObjectInvariant, PTL

\* No sequence of SetField leaves an edge in the collector for a value that the field no
\* longer holds, although the edge and the field change in different steps.
THEOREM NoStaleEdges == ObjectSpec => []EdgesComeFromFields
<1>1. ObjectInv => EdgesComeFromFields
  BY DEF ObjectInv
<1> QED
  BY <1>1, ObjectInvariant, PTL
=============================================================================
