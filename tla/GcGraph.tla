------------------------------ MODULE GcGraph ------------------------------
(***************************************************************************)
(* The object graph that the collector of src/gc/gc_controller.cpp marks.  *)
(* An edge is a pair <<from, to>>.  The end of an edge may already be gone *)
(* from the heap: Sweep erases a cell with its own edge set and leaves the *)
(* edges that lead to it.                                                  *)
(***************************************************************************)

\* The objects that MarkFromRoots queues before it follows any edge: the roots
\* that are still in the heap, and every pinned cell.
Starts(heap, roots, pinned) == (roots \cap heap) \cup pinned

\* S holds the starts and, with an object, every object of the heap that the
\* object has an edge to.
Closed(S, heap, starts, edges) ==
    /\ starts \subseteq S
    /\ \A e \in edges : e[1] \in S /\ e[2] \in heap => e[2] \in S

\* The least closed set: what a graph search from the starts visits.
Reachable(heap, starts, edges) ==
    {o \in heap : \A S \in SUBSET heap : Closed(S, heap, starts, edges) => o \in S}
=============================================================================
