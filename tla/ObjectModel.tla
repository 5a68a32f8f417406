---------------------------- MODULE ObjectModel ----------------------------
(***************************************************************************)
(* The object store of src/runtime/object_model.cpp on top of the          *)
(* collector.  A call holds ObjectModel::mu_ from its first step to its    *)
(* last, but it takes the collector's own mutex once per operation of the  *)
(* collector, so minor collections of other threads and the major worker   *)
(* run between the steps of NewObject and of SetField.                     *)
(*                                                                         *)
(* Classes are the concern of module ClassRegistry; here every class is known.  A     *)
(* field holds an object, or NoValue: a value that is no object, or none.  *)
(***************************************************************************)
EXTENDS GcController

CONSTANTS Fields, NoValue

ASSUME NoValueAssumption == NoValue \notin Ids

VARIABLES
    objects,    \* the keys of objects_
    fields,     \* object id -> field -> the object it holds
    call,       \* the call that holds ObjectModel::mu_
    created,    \* observed: the objects NewObject returned
    released    \* observed: those of them whose root the embedder removed

store == <<objects, fields>>
observed == <<created, released>>
omvars == <<vars, store, call, observed>>

\* Nobody holds the lock: the worker never calls the object model here.
NoCall == [op |-> "none", by |-> Worker]
Values == Ids \cup {NoValue}

ObjectInit ==
    /\ Init
    /\ objects = {}
    /\ fields = [o \in Ids |-> [f \in Fields |-> NoValue]]
    /\ call = NoCall
    /\ created = {} /\ released = {}

\* Thread t is not itself inside a call of the object model.
Outside(t) == call.by # t

\* Objects an embedder still works with: it can reach them.
Usable == created \cap Marked

-----------------------------------------------------------------------------
(* NewObject: Allocate, then the entry in objects_ and AddRoot.            *)

NewObject(t) ==
    /\ call = NoCall
    /\ Allocate(t)
    /\ call' = [op |-> "new", by |-> t, obj |-> next_id]
    /\ UNCHANGED <<store, observed>>

\* The object is rooted from here on: only the embedder removes the root.
Root_Skipped(t, id) == CanCall(t) /\ UNCHANGED vars
Root(t, id) == AddRoot(t, id)

\* When a collection took the unrooted cell meanwhile, AddRoot fails, the entry
\* is erased again and the call returns the error.
RootFailed_Kept(id) == objects \cup {id}
RootFailed(id) == objects

NewObjectRoot(t) ==
    /\ call.op = "new" /\ call.by = t
    /\ call' = NoCall
    /\ IF call.obj \in heap
       THEN /\ Root(t, call.obj)
            /\ objects' = objects \cup {call.obj}
            /\ created' = created \cup {call.obj}
       ELSE /\ CanCall(t)
            /\ objects' = RootFailed(call.obj)
            /\ UNCHANGED <<vars, created>>
    /\ UNCHANGED <<fields, released>>

-----------------------------------------------------------------------------
(* SetField: RemoveReference for the object the field held, then           *)
(* AddReference for the one it shall hold, then the field.                 *)

\* The edge to the previous object goes, if the call asks for it and it exists.
Unlink_Skipped(t, o, f) == CanCall(t) /\ UNCHANGED vars
Unlink(t, o, f) ==
    IF o \in heap /\ <<o, fields[o][f]>> \in edges
    THEN RemoveReference(t, o, fields[o][f])
    ELSE CanCall(t) /\ UNCHANGED vars

SetField(t, o, f, v) ==
    /\ call = NoCall
    /\ o \in objects
    /\ Unlink(t, o, f)
    /\ call' = [op |-> "set", by |-> t, obj |-> o, field |-> f, val |-> v]
    /\ UNCHANGED <<store, observed>>

\* When AddReference fails the call returns with the field as it was.
SetFieldStore(t) ==
    /\ call.op = "set" /\ call.by = t
    /\ call' = NoCall
    /\ \/ /\ call.val # NoValue /\ call.obj \in heap /\ call.val \in heap
          /\ AddReference(t, call.obj, call.val)
          /\ fields' = [fields EXCEPT ![call.obj][call.field] = call.val]
       \/ /\ call.val # NoValue /\ ~(call.obj \in heap /\ call.val \in heap)
          /\ CanCall(t)
          /\ UNCHANGED <<vars, fields>>
       \/ /\ call.val = NoValue
          /\ CanCall(t)
          /\ fields' = [fields EXCEPT ![call.obj][call.field] = NoValue]
          /\ UNCHANGED vars
    /\ UNCHANGED <<objects, observed>>

-----------------------------------------------------------------------------
(* The embedder and the collector around it                                *)

\* Objects stay rooted until the embedder calls vm.gc().RemoveRoot.
Release(t, id) ==
    /\ Outside(t)
    /\ id \in created \ released
    /\ RemoveRoot(t, id)
    /\ released' = released \cup {id}
    /\ UNCHANGED <<store, call, created>>

Collect(t) ==
    /\ Outside(t)
    /\ CollectMinor(t) \/ CollectMajorAsync(t)
    /\ UNCHANGED <<store, call, observed>>

Background ==
    /\ (\E t \in Threads : Notify(t)) \/ WorkerStep
    /\ UNCHANGED <<store, call, observed>>

CallStep(t) == NewObjectRoot(t) \/ SetFieldStore(t)

ObjectNext ==
    \/ \E t \in Mutators :
         \/ NewObject(t) \/ CallStep(t) \/ Collect(t)
         \/ \E o \in Usable, f \in Fields, v \in Usable \cup {NoValue} : SetField(t, o, f, v)
         \/ \E id \in Ids : Release(t, id)
    \/ Background

ObjectSpec == ObjectInit /\ [][ObjectNext]_omvars

-----------------------------------------------------------------------------
(* Properties                                                              *)

\* An object that NewObject returned is there until the embedder removes its root,
\* however the collections fell between Allocate and AddRoot.
ReturnedObjectLives == created \ released \subseteq heap

\* A NewObject that fails because its cell was collected leaves nothing behind:
\* the store holds exactly the objects it returned.
StoreMatchesReturned == objects = created

\* Every edge in the collector stands for a field: an object that no field holds
\* any more is not kept alive by a stale edge.
EdgesComeFromFields ==
    \A e \in edges : \E f \in Fields : fields[e[1]][f] = e[2]

\* What tests/unit/gc_test.cpp:9 says of minor collections, and every collection
\* must do: an object that a field of a reachable object holds is not reclaimed.
FieldKeepsAlive ==
    \A o \in objects \cap Marked, f \in Fields :
        fields[o][f] # NoValue => fields[o][f] \in heap
=============================================================================
