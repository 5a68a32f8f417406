---------------------------- MODULE GcMarkProofs ----------------------------
(***************************************************************************)
(* GcController::MarkFromRoots computes Reachable for every graph and for  *)
(* every order in which its work list is visited.                          *)
(***************************************************************************)
EXTENDS GcMark, TLAPS

\* The loop invariant holds when the queue has been filled.
LEMMA InitMarkInv == Init => MarkInv
<1> SUFFICES ASSUME Init PROVE MarkInv
  OBVIOUS
<1> DEFINE S == Starts(heap, roots, pinned)
<1>1. GraphOK /\ marked = {} /\ q \in [Objects -> Nat]
  BY DEF Init, GraphOK, QueueStarts
<1>2. S \subseteq heap
  BY <1>1 DEF GraphOK, Starts
<1>3. Queued = S
  BY <1>1, <1>2 DEF Init, QueueStarts, Queued, Starts, GraphOK
<1>4. S \subseteq Reachable(heap, S, edges)
  BY <1>2 DEF Reachable, Closed
<1> QED
  BY <1>1, <1>2, <1>3, <1>4 DEF MarkInv, TypeOK

\* Every pass of the loop keeps it.
LEMMA NextMarkInv == MarkInv /\ [Next]_vars => MarkInv'
<1> SUFFICES ASSUME MarkInv, [Next]_vars PROVE MarkInv'
  OBVIOUS
<1> DEFINE S == Starts(heap, roots, pinned)
           R == Reachable(heap, S, edges)
<1>0. /\ TypeOK
      /\ marked \cup Queued \subseteq R
      /\ S \subseteq marked \cup Queued
      /\ \A e \in edges : e[1] \in marked /\ e[2] \in heap => e[2] \in marked \cup Queued
  BY DEF MarkInv
<1>1. S \subseteq heap
  BY <1>0 DEF TypeOK, GraphOK, Starts
<1>2. R \subseteq heap /\ Closed(R, heap, S, edges)
  BY <1>1 DEF Reachable, Closed
<1>3. ASSUME NEW o \in Objects, PopMarked(o)
      PROVE  MarkInv'
  <2>1. UNCHANGED <<heap, roots, pinned, edges, marked>>
    BY <1>3 DEF PopMarked, graph
  <2>2. q' \in [Objects -> Nat] /\ Queued' \subseteq Queued /\ Queued \subseteq Queued' \cup {o}
    BY <1>0, <1>3 DEF PopMarked, TypeOK, Queued
  <2>3. o \in marked /\ marked' \cup Queued' = marked \cup Queued
    BY <1>3, <2>1, <2>2 DEF PopMarked
  <2> QED
    BY <1>0, <2>1, <2>2, <2>3 DEF MarkInv, TypeOK, GraphOK, Starts
<1>4. ASSUME NEW o \in Objects, PopUnmarked(o)
      PROVE  MarkInv'
  <2>1. UNCHANGED <<heap, roots, pinned, edges>> /\ marked' = marked \cup {o}
    BY <1>4 DEF PopUnmarked, graph
  <2>2. o \in Queued /\ o \in R
    BY <1>0, <1>4 DEF PopUnmarked, Queued
  <2>3. Successors(o, marked') \subseteq R
    BY <1>2, <2>2 DEF Successors, Closed
  <2>4. q' \in [Objects -> Nat]
    BY <1>0, <1>4 DEF PopUnmarked, TypeOK
  <2>5. Queued' \subseteq Queued \cup Successors(o, marked')
    BY <1>0, <1>4 DEF PopUnmarked, TypeOK, Queued
  <2>6. Queued \subseteq Queued' \cup {o} /\ Successors(o, marked') \subseteq Queued'
    BY <1>0, <1>4 DEF PopUnmarked, TypeOK, Queued, Successors
  <2>7. marked \cup Queued \subseteq marked' \cup Queued'
    BY <2>1, <2>6
  <2>8. \A e \in edges : e[1] = o /\ e[2] \in heap => e[2] \in marked' \cup Successors(o, marked')
    <3> SUFFICES ASSUME NEW e \in edges, e[1] = o, e[2] \in heap, e[2] \notin marked'
                 PROVE  e[2] \in Successors(o, marked')
      OBVIOUS
    <3>1. e = <<o, e[2]>> /\ e[2] \in Objects
      BY <1>0 DEF TypeOK, GraphOK
    <3> QED
      BY <3>1 DEF Successors
  <2>9. marked' \cup Queued' \subseteq R /\ marked' \subseteq heap
    BY <1>0, <1>2, <2>1, <2>2, <2>3, <2>5
  <2>10. TypeOK'
    BY <1>0, <2>1, <2>4, <2>9 DEF TypeOK, GraphOK
  <2>11. \A e \in edges : e[1] \in marked' /\ e[2] \in heap => e[2] \in marked' \cup Queued'
    BY <1>0, <2>1, <2>6, <2>7, <2>8
  <2> QED
    BY <1>0, <2>1, <2>7, <2>9, <2>10, <2>11 DEF MarkInv, Starts
<1>5. CASE UNCHANGED vars
  BY <1>5 DEF MarkInv, vars, TypeOK, GraphOK, Queued, Starts
<1> QED
  BY <1>3, <1>4, <1>5 DEF Next

\* With an empty queue the invariant says that the marked set is closed.
LEMMA MarkInvImplies == MarkInv => MarksExactlyReachable
<1> SUFFICES ASSUME MarkInv, Queued = {}
             PROVE  marked = Reachable(heap, Starts(heap, roots, pinned), edges)
  BY DEF MarksExactlyReachable
<1>1. marked \in SUBSET heap /\ Closed(marked, heap, Starts(heap, roots, pinned), edges)
  BY DEF MarkInv, TypeOK, Closed
<1>2. Reachable(heap, Starts(heap, roots, pinned), edges) \subseteq marked
  BY <1>1 DEF Reachable
<1> QED
  BY <1>2 DEF MarkInv

\* When MarkFromRoots returns, *marked holds exactly the objects that the roots and
\* the pinned cells reach: for every heap and every iteration order.
THEOREM MarkCorrect == Spec => []MarksExactlyReachable
<1>1. Spec => []MarkInv
  BY InitMarkInv, NextMarkInv, PTL DEF Spec
<1> QED
  BY <1>1, MarkInvImplies, PTL

\* The work list and the marked set keep their types.
THEOREM MarkTypeCorrect == Spec => []TypeOK
<1>1. MarkInv => TypeOK
  BY DEF MarkInv
<1> QED
  BY <1>1, InitMarkInv, NextMarkInv, PTL DEF Spec
=============================================================================
