------------------------------- MODULE GcMark -------------------------------
(***************************************************************************)
(* GcController::MarkFromRoots, one pass of its work list per step.  The   *)
(* heap does not change while it runs (the caller holds mu_), so the graph *)
(* is fixed by Init.  The iteration orders of unordered_map and            *)
(* unordered_set are unspecified: the queue is kept as a bag (how often    *)
(* each object is queued) and any queued object may be popped next.        *)
(***************************************************************************)
EXTENDS GcGraph, Naturals

CONSTANT Objects                \* the object ids a graph may use

VARIABLES heap, roots, pinned, edges,   \* the graph, as the caller left it
          q,                            \* std::queue<ObjectId>, as a bag
          marked                        \* *marked

graph == <<heap, roots, pinned, edges>>
vars == <<heap, roots, pinned, edges, q, marked>>

Queued == {o \in Objects : q[o] > 0}

\* A graph the collector can meet: roots and pinned cells are in the heap, an
\* edge starts at a cell of the heap and may end at an object already reclaimed.
GraphOK ==
    /\ heap \subseteq Objects
    /\ roots \subseteq heap
    /\ pinned \subseteq heap
    /\ edges \subseteq heap \X Objects

\* The two loops that fill the queue: a root that is also pinned is queued twice.
QueueStarts_NoPinned ==
    /\ q = [o \in Objects |-> IF o \in roots \cap heap THEN 1 ELSE 0]
    /\ marked = {}
QueueStarts ==
    /\ q = [o \in Objects |-> (IF o \in roots \cap heap THEN 1 ELSE 0)
                              + (IF o \in pinned THEN 1 ELSE 0)]
    /\ marked = {}

Init ==
    /\ heap \in SUBSET Objects
    /\ roots \in SUBSET heap
    /\ pinned \in SUBSET heap
    /\ edges \in SUBSET (heap \X Objects)
    /\ QueueStarts

\* The objects an object's edges add to the queue, given what is marked by then.
Successors(o, m) == {t \in Objects : <<o, t>> \in edges /\ t \in heap /\ t \notin m}

\* A queued object that was marked meanwhile is dropped.
PopMarked_Front(o) == q[o] > 0 /\ o \in marked /\ UNCHANGED vars
PopMarked(o) ==
    /\ q[o] > 0
    /\ o \in marked
    /\ q' = [q EXCEPT ![o] = @ - 1]
    /\ UNCHANGED <<graph, marked>>

\* Otherwise it is marked, and its unmarked successors in the heap are queued.
PopUnmarked(o) ==
    /\ q[o] > 0
    /\ o \notin marked
    /\ marked' = marked \cup {o}
    /\ q' = [t \in Objects |->
                (IF t = o THEN q[t] - 1 ELSE q[t])
                + (IF t \in Successors(o, marked') THEN 1 ELSE 0)]
    /\ UNCHANGED graph

Next == \E o \in Objects : PopMarked(o) \/ PopUnmarked(o)

Spec == Init /\ [][Next]_vars

FairSpec == Spec /\ WF_vars(Next)

-----------------------------------------------------------------------------
\* The queue holds object ids, the marked set grows inside the heap.
TypeOK ==
    /\ GraphOK
    /\ q \in [Objects -> Nat]
    /\ marked \subseteq heap

\* When the queue is empty, what MarkFromRoots leaves in *marked is exactly what
\* the roots and the pinned cells reach, whatever the order of the pops.
MarksExactlyReachable ==
    Queued = {} => marked = Reachable(heap, Starts(heap, roots, pinned), edges)

\* Cycles, self references and objects queued twice do not keep the loop going.
MarkTerminates == <>(Queued = {})

-----------------------------------------------------------------------------
\* The invariant of the loop: nothing unreachable is marked or queued, and a
\* start or a successor of a marked object is marked or waits in the queue.
MarkInv ==
    LET S == Starts(heap, roots, pinned)
    IN  /\ TypeOK
        /\ marked \cup Queued \subseteq Reachable(heap, S, edges)
        /\ S \subseteq marked \cup Queued
        /\ \A e \in edges :
              e[1] \in marked /\ e[2] \in heap => e[2] \in marked \cup Queued
=============================================================================
