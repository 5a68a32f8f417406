------------------------------ MODULE VmThread ------------------------------
(***************************************************************************)
(* The control flow of src/runtime/vm_thread.cpp: function activations,    *)
(* the try stack of each, and the three ways in which a call ends without  *)
(* a value: a VmException, which handlers catch; another C++ exception,    *)
(* which only callers' handlers catch; and an error status, which none     *)
(* catches.  One step per instruction, and one per activation that an      *)
(* error leaves.                                                           *)
(*                                                                         *)
(* Registers, constants and arithmetic are left out: an instruction is     *)
(* what it does to control.  "mark" stands for any instruction that has an *)
(* effect and goes on to the next one; "throw" for throw, a division by    *)
(* zero and the like; "fault" for one whose C++ code throws something else *)
(* (a Value of the wrong type); "fail" for ffi_call, new_object or invoke  *)
(* when it returns an error status, and "refuse" for a return value or     *)
(* arguments of the wrong type.  A method that invoke runs is a call here, *)
(* although it runs on a VmThread of its own.                              *)
(***************************************************************************)
EXTENDS Naturals, Sequences, SequencesExt, FiniteSets, FiniteSetsExt

CONSTANTS
    Codes,      \* the modules to run, with the functions' instructions; 1 is the entry
    None,       \* kInvalidTryTarget, and no error
    MaxTrace    \* bound: only so many effects are told apart

\* What VerifyModule checked (src/bytecode/verifier.cpp): there is an entry, calls name
\* functions, and the targets of try_begin are positions.
ASSUME CodesAssumption ==
    \A c \in Codes :
        /\ 1 \in DOMAIN c.functions
        /\ \A fn \in DOMAIN c.functions : \A at \in DOMAIN c.functions[fn] :
             LET i == c.functions[fn][at]
             IN  /\ i.op \in {"call", "tail_call"} => i.fn \in DOMAIN c.functions
                 /\ i.op = "try_begin" =>
                      {i.catch, i.finally} \subseteq Nat \cup {None} /\ i.end \in Nat

VARIABLES
    code,       \* the module that runs
    frames,     \* the activations, innermost last
    error,      \* the error that is leaving activations, or None
    trace,      \* observed: the effects, in order
    outcome     \* observed: what Execute returned or threw

vars == <<code, frames, error, trace, outcome>>

Running == [how |-> "running"]

Activation(fn, tail) == [fn |-> fn, pc |-> 1, tries |-> <<>>, tail |-> tail]

Init ==
    /\ code \in Codes
    /\ frames = <<Activation(1, FALSE)>>
    /\ error = None
    /\ trace = <<>>
    /\ outcome = Running

Depth == Len(frames)
Current == frames[Depth]
InRange(f) == f.pc \in DOMAIN code.functions[f.fn]
Inst == code.functions[Current.fn][Current.pc]

\* The next instruction is executed: it is of one of these kinds.
Executes(ops) ==
    /\ Depth > 0 /\ error = None
    /\ InRange(Current) /\ Inst.op \in ops

\* The current activation goes on at pc with these try frames.
GoesOn(pc, tries) == frames' = [frames EXCEPT ![Depth].pc = pc, ![Depth].tries = tries]

NextPc == Current.pc + 1
TopTry == Current.tries[Len(Current.tries)]
OuterTries == Front(Current.tries)

-----------------------------------------------------------------------------
Mark ==
    /\ Executes({"mark"})
    /\ trace' = IF Len(trace) < MaxTrace THEN Append(trace, Inst.label) ELSE trace
    /\ GoesOn(NextPc, Current.tries)
    /\ UNCHANGED <<code, error, outcome>>

\* An error starts out with the chain of activations it has to leave.
Chain == [i \in 1..Depth |-> frames[i].fn]
Raise(kind, label) ==
    error' = [kind |-> kind, label |-> label, trail |-> <<>>, origin |-> Chain]

Fails ==
    /\ Executes({"throw", "fault", "fail"})
    /\ Raise(Inst.op, Inst.label)
    /\ UNCHANGED <<code, frames, trace, outcome>>

-----------------------------------------------------------------------------
(* try_begin, try_end, end_catch, end_finally                              *)

TryBegin ==
    /\ Executes({"try_begin"})
    /\ GoesOn(NextPc, Append(Current.tries,
          [catch |-> Inst.catch, finally |-> Inst.finally, end |-> Inst.end,
           in_catch |-> FALSE, in_finally |-> FALSE, rethrow |-> FALSE, pending |-> None]))
    /\ UNCHANGED <<code, error, trace, outcome>>

\* The body or the catch block is done: on to the finally block, or to the end.
Finally(t) ==
    [t EXCEPT !.in_catch = FALSE, !.in_finally = TRUE, !.rethrow = FALSE, !.pending = None]
Completes(t) ==
    IF t.finally # None
    THEN GoesOn(t.finally, Append(OuterTries, Finally(t)))
    ELSE GoesOn(t.end, OuterTries)

TryEnd ==
    /\ Executes({"try_end", "end_catch"})
    /\ IF Current.tries = <<>>
       THEN Raise("throw", Inst.op) /\ UNCHANGED frames
       ELSE Completes(TopTry) /\ UNCHANGED error
    /\ UNCHANGED <<code, trace, outcome>>

\* The end of a finally block throws the exception again that led into it.
Rethrows(t) == t.rethrow /\ t.pending # None

EndFinally ==
    /\ Executes({"end_finally"})
    /\ IF Current.tries = <<>>
       THEN Raise("throw", Inst.op) /\ UNCHANGED frames
       ELSE /\ GoesOn(IF Rethrows(TopTry) THEN Current.pc ELSE TopTry.end, OuterTries)
            /\ error' = IF Rethrows(TopTry) THEN TopTry.pending ELSE None
    /\ UNCHANGED <<code, trace, outcome>>

-----------------------------------------------------------------------------
(* call, tail_call, ret and halt                                           *)

\* A tail call keeps its activation until the callee is done.
Call ==
    /\ Executes({"call", "tail_call"})
    /\ frames' = Append([frames EXCEPT ![Depth].tail = (Inst.op = "tail_call")],
                        Activation(Inst.fn, FALSE))
    /\ UNCHANGED <<code, error, trace, outcome>>

\* The value goes to the innermost caller that did not make a tail call, and its
\* call is done.  Try frames of the activations that end are dropped with them.
Waiting == {i \in 1..Depth - 1 : ~frames[i].tail}
Return ==
    /\ Executes({"ret", "halt"})
    /\ IF Waiting = {}
       THEN frames' = <<>> /\ outcome' = [how |-> "value"]
       ELSE /\ frames' = [SubSeq(frames, 1, Max(Waiting)) EXCEPT ![Max(Waiting)].pc = @ + 1]
            /\ UNCHANGED outcome
    /\ UNCHANGED <<code, error, trace>>

-----------------------------------------------------------------------------
(* Errors                                                                  *)

\* The handler of a VmException: from the innermost try frame outwards, skipping
\* those whose finally block is running, the first that can catch or finalize.
Catches_Again(t) == ~t.in_finally /\ t.catch # None
Catches(t) == ~t.in_finally /\ ~t.in_catch /\ t.catch # None
Finalizes(t) == ~t.in_finally /\ t.finally # None

Handlers_TopOnly(tries) ==
    {i \in DOMAIN tries : i = Len(tries) /\ (Catches(tries[i]) \/ Finalizes(tries[i]))}
Handlers(tries) == {i \in DOMAIN tries : Catches(tries[i]) \/ Finalizes(tries[i])}

Handles ==
    /\ Depth > 0 /\ error # None
    /\ error.kind = "throw"
    /\ Handlers(Current.tries) # {}
    /\ LET i == Max(Handlers(Current.tries))
           t == Current.tries[i]
           outer == SubSeq(Current.tries, 1, i - 1)
       IN  \/ /\ Catches(t)
              /\ GoesOn(t.catch, Append(outer,
                   [t EXCEPT !.in_catch = TRUE, !.rethrow = FALSE, !.pending = error]))
           \/ /\ ~Catches(t)
              /\ GoesOn(t.finally, Append(outer,
                   [t EXCEPT !.in_catch = FALSE, !.in_finally = TRUE,
                             !.rethrow = TRUE, !.pending = error]))
    /\ error' = None
    /\ UNCHANGED <<code, trace, outcome>>

\* Nothing in this activation handles the error: it adds its frame and leaves.  To
\* the caller a foreign exception is a VmException.
Stamped_Once(e, fn) == IF e.trail = <<>> THEN <<fn>> ELSE e.trail
Stamped(e, fn) == Append(e.trail, fn)

Leaves ==
    /\ Depth > 0 /\ error # None
    /\ error.kind = "throw" => Handlers(Current.tries) = {}
    /\ LET left == [error EXCEPT !.kind = IF @ = "fault" THEN "throw" ELSE @,
                                 !.trail = Stamped(error, Current.fn)]
       IN  /\ error' = IF Depth = 1 THEN None ELSE left
           /\ outcome' = IF Depth = 1 THEN [how |-> "error", error |-> left] ELSE outcome
    /\ frames' = Front(frames)
    /\ UNCHANGED <<code, trace>>

\* The code ends without ret, or a type check of arguments or return value fails: an
\* error status, to which only the callers add their frames.
Refuses ==
    /\ Depth > 0 /\ error = None
    /\ InRange(Current) => Inst.op = "refuse"
    /\ LET left == [kind |-> "fail", label |-> "refused", trail |-> <<>>, origin |-> Front(Chain)]
       IN  /\ error' = IF Depth = 1 THEN None ELSE left
           /\ outcome' = IF Depth = 1 THEN [how |-> "error", error |-> left] ELSE outcome
    /\ frames' = Front(frames)
    /\ UNCHANGED <<code, trace>>

-----------------------------------------------------------------------------
Next ==
    \/ Mark \/ Fails
    \/ TryBegin \/ TryEnd \/ EndFinally
    \/ Call \/ Return
    \/ Handles \/ Leaves \/ Refuses

\* One thread, which keeps running.
Spec == Init /\ [][Next]_vars /\ WF_vars(Next)
-----------------------------------------------------------------------------
(* Properties                                                              *)

Done == outcome # Running

\* The structured error that comes out (docs/adr/ADR-0004) has a frame for every
\* activation that was open where it arose, innermost first: also when catch and
\* finally blocks ran in between, and a finally block threw it again.
FramesTellCallChain ==
    outcome.how = "error" => outcome.error.trail = Reverse(outcome.error.origin)

\* Execute returns, whatever is thrown in bodies, catch and finally blocks.
Terminates == <>Done
=============================================================================
