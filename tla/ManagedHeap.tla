----------------------------- MODULE ManagedHeap -----------------------------
(***************************************************************************)
(* What the collector promises its callers, whatever threads, generations  *)
(* and schedules it uses: objects that stay as long as the program can     *)
(* reach them, and disappear at some time after that, all at once with     *)
(* their edges, weak references, watchers and finalizers.  An abstract     *)
(* specification: GcController implements it (its property ImplementsHeap).*)
(***************************************************************************)
EXTENDS GcGraph

CONSTANTS Ids, RefIds   \* object ids, and ids of weak references and watchers

VARIABLES
    used,           \* the ids given out so far: none comes back
    live,           \* the objects
    graph,          \* their edges, both ends alive
    anchored,       \* what the program holds directly
    finalizable,    \* the objects with a finalizer
    due,            \* the dead whose finalizer has not begun
    weak, watched,  \* pairs <<ref id, object id>>: weak and phantom references
    queued          \* the phantom references whose object died

links == <<live, graph, anchored>>
endings == <<finalizable, due>>
references == <<weak, watched, queued>>
heapVars == <<used, links, endings, references>>

HeapInit ==
    /\ used = {} /\ live = {} /\ graph = {} /\ anchored = {}
    /\ finalizable = {} /\ due = {}
    /\ weak = {} /\ watched = {} /\ queued = {}

Create ==
    /\ \E id \in Ids \ used : used' = used \cup {id} /\ live' = live \cup {id}
    /\ UNCHANGED <<graph, anchored, endings, references>>

\* The program changes edges between live objects, and what it holds.
Link ==
    /\ \/ \E from, to \in live : graph' = graph \cup {<<from, to>>} /\ UNCHANGED anchored
       \/ \E e \in graph : graph' = graph \ {e} /\ UNCHANGED anchored
       \/ \E id \in live : anchored' = anchored \cup {id} /\ UNCHANGED graph
       \/ \E id \in anchored : anchored' = anchored \ {id} /\ UNCHANGED graph
    /\ UNCHANGED <<used, live, endings, references>>

Attach ==
    /\ \E id \in live : finalizable' = finalizable \cup {id}
    /\ UNCHANGED <<used, links, due, references>>

Refer ==
    /\ \E r \in RefIds, id \in live :
         \/ weak' = weak \cup {<<r, id>>} /\ UNCHANGED watched
         \/ watched' = watched \cup {<<r, id>>} /\ UNCHANGED weak
    /\ UNCHANGED <<used, links, endings, queued>>

Deliver ==
    /\ queued' = {}
    /\ UNCHANGED <<used, links, endings, weak, watched>>

\* Any part of what is out of reach goes, in one step.
Garbage == live \ Reachable(live, anchored, graph)
Reclaim(dead) ==
    /\ live' = live \ dead
    /\ graph' = {e \in graph : e[1] \notin dead /\ e[2] \notin dead}
    /\ finalizable' = finalizable \ dead
    /\ due' = due \cup (finalizable \cap dead)
    /\ weak' = {r \in weak : r[2] \notin dead}
    /\ watched' = {r \in watched : r[2] \notin dead}
    /\ queued' = queued \cup {r \in watched : r[2] \in dead}
    /\ UNCHANGED <<used, anchored>>

\* One call of one finalizer.
Finalize ==
    /\ \E id \in due : due' = due \ {id}
    /\ UNCHANGED <<used, links, finalizable, references>>

HeapNext ==
    \/ Create \/ Link \/ Attach \/ Refer \/ Deliver \/ Finalize
    \/ \E dead \in SUBSET Garbage : Reclaim(dead)

HeapSpec == HeapInit /\ [][HeapNext]_heapVars
=============================================================================
