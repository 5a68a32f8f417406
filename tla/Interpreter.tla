---------------------------- MODULE Interpreter ----------------------------
(***************************************************************************)
(* What a run of a module does: VmThread::ExecuteFunction of               *)
(* src/runtime/vm_thread.cpp with registers and data, as a machine that    *)
(* one operator steps.  An int64 has WordSize values here and wraps.  (The *)
(* module VmThread has the same control flow as actions, without data.)    *)
(***************************************************************************)
EXTENDS Bytecode, FiniteSets, SequencesExt, FiniteSetsExt

CONSTANT WordSize   \* how many values an int64 has: 2^64 in the code

ASSUME WordSizeAssumption == WordSize \in Nat /\ WordSize > 0 /\ WordSize % 2 = 0

-----------------------------------------------------------------------------
(* Values                                                                  *)

Wrap(n) == ((n + WordSize \div 2) % WordSize) - WordSize \div 2

Null == [type |-> "null", bits |-> 0]
Int64(n) == [type |-> "int64", bits |-> Wrap(n)]
Bool(b) == [type |-> "bool", bits |-> IF b THEN 1 ELSE 0]
Handle(n) == [type |-> "closure", bits |-> n]

Types == {"null", "int64", "float64", "bool", "object", "pointer", "string", "closure"}
Values == {v \in [type : Types, bits : Int] : v.type = "int64" => v.bits = Wrap(v.bits)}

Matches(value, type) == type = AnyType \/ value.type = type

\* C++ division truncates.
Quotient(x, y) ==
    LET abs(n) == IF n < 0 THEN -n ELSE n
        q == abs(x) \div abs(y)
    IN  IF (x < 0) = (y < 0) THEN q ELSE -q

Arithmetic(op, x, y) ==
    CASE op = "add" -> x + y
      [] op = "sub" -> x - y
      [] op = "mul" -> x * y
      [] op = "div" -> Quotient(x, y)

-----------------------------------------------------------------------------
(* VmThread::ExecuteFunction                                               *)

\* The registers that an instruction reads as an int64, whatever is in them.
IntegerReads(i) ==
    CASE i.op \in Binary -> {i.b, i.c}
      [] i.op \in Immediate -> {i.b}
      [] i.op = "add_dec_jnz" -> {i.a, i.b}
      [] i.op \in Step1 \union FusedImm
                 \union {"dec_jnz", "jmp_if_zero", "jmp_if_not_zero"} -> {i.a}
      [] OTHER -> {}

\* What is in its registers after an instruction that only computes.
Computed(i, regs) ==
    LET bits(r) == regs[r].bits
    IN  CASE i.op = "mov" -> [regs EXCEPT ![i.a] = regs[i.b]]
          [] i.op = "loadk" -> [regs EXCEPT ![i.a] = Int64(i.b)]
          [] i.op \in Binary ->
               [regs EXCEPT ![i.a] = Int64(Arithmetic(i.op, bits(i.b), bits(i.c)))]
          [] i.op = "cmp_eq" -> [regs EXCEPT ![i.a] = Bool(regs[i.b] = regs[i.c])]
          [] i.op = "add_imm" -> [regs EXCEPT ![i.a] = Int64(bits(i.b) + i.c)]
          [] i.op = "sub_imm" -> [regs EXCEPT ![i.a] = Int64(bits(i.b) - i.c)]
          [] i.op = "inc" -> [regs EXCEPT ![i.a] = Int64(bits(i.a) + 1)]
          [] i.op \in {"dec", "dec_jnz"} -> [regs EXCEPT ![i.a] = Int64(bits(i.a) - 1)]
          [] i.op = "add_imm_jnz" -> [regs EXCEPT ![i.a] = Int64(bits(i.a) + i.b)]
          [] i.op = "sub_imm_jnz" -> [regs EXCEPT ![i.a] = Int64(bits(i.a) - i.b)]
          [] i.op = "add_dec_jnz" ->
               [[regs EXCEPT ![i.a] = Int64(bits(i.a) + bits(i.b))]
                     EXCEPT ![i.b] = Int64(bits(i.b) - 1)]
          [] OTHER -> regs

\* Whether a jump is taken, given the registers after its computation.
Jumps(i, regs) ==
    CASE i.op = "jmp" -> TRUE
      [] i.op = "jmp_if_zero" -> regs[i.a].bits = 0
      [] i.op = "add_dec_jnz" -> regs[i.b].bits # 0
      [] i.op \in {"jmp_if", "jmp_if_not_zero", "dec_jnz"} \union FusedImm -> regs[i.a].bits # 0
      [] OTHER -> FALSE

\* Undefined in C++: register indices are checked only with runtime validation on.
OutOfBounds(i, regs) ==
    \/ \E field \in RegisterFields(i.op) : i[field] \notin DOMAIN regs
    \/ WindowEnd(i) \notin DOMAIN regs

\* An execution is a machine: its activations, the last one running; the native calls until
\* now; the closures (a handle is the place in the sequence); whether integers were read
\* from other values (mixed: observed); and whether it runs or how it has stopped: "value",
\* "throw" (a VmException that no activation handles), "status" (an error that none
\* catches), or "undefined".
Stopped(m, how, value) == [m EXCEPT !.how = how, !.value = value]
\* The running activation becomes a.
Now(m, a) == [m EXCEPT !.stack = Append(Front(@), a)]

\* resolve_closure, and the upvalues of the closure that is running.
NoClosure == 0
Resolves(m, value) == value.type = "closure" /\ value.bits \in DOMAIN m.closures
HasUpvalue(m, a, b) == a.closure # NoClosure /\ b < Len(m.closures[a.closure].upvalues)
Captured(i, regs) == [function |-> i.b, upvalues |-> [k \in 1..i.flags |-> regs[i.c + k - 1]]]

\* The handler of an exception, from the innermost try frame outwards.
Handles(t) == ~t.in_finally /\ ((~t.in_catch /\ t.catch # NoTarget) \/ t.finally # NoTarget)
Handled(a, value) ==
    LET n == Max({k \in DOMAIN a.tries : Handles(a.tries[k])})
        t == a.tries[n]
        catches == ~t.in_catch /\ t.catch # NoTarget
        outer == SubSeq(a.tries, 1, n - 1)
    IN  IF catches
        THEN [a EXCEPT !.pc = t.catch, !.tries = Append(outer,
                [t EXCEPT !.in_catch = TRUE, !.rethrow = FALSE, !.pending = value])]
        ELSE [a EXCEPT !.pc = t.finally, !.tries = Append(outer,
                [t EXCEPT !.in_catch = FALSE, !.in_finally = TRUE, !.rethrow = TRUE,
                          !.pending = value])]

\* The end of a try statement's body or catch block.
Completed(a) ==
    LET t == Last(a.tries)
    IN  IF t.finally # NoTarget
        THEN [a EXCEPT !.pc = t.finally, !.tries = Append(Front(a.tries),
                [t EXCEPT !.in_catch = FALSE, !.in_finally = TRUE, !.rethrow = FALSE])]
        ELSE [a EXCEPT !.pc = t.end, !.tries = Front(a.tries)]

\* A call of function n of a module with these arguments, as a closure or not.
Called(module, m, n, args, closure) ==
    LET f == module[n]
    IN  IF /\ n \in DOMAIN module
           /\ TakesArguments(f, Len(args))
           /\ \A k \in DOMAIN f.params : Matches(args[k], f.params[k])
        THEN [m EXCEPT !.stack = Append(@,
                [function |-> n, pc |-> 1, tries |-> <<>>, closure |-> closure,
                 regs |-> [r \in 0..f.regs - 1 |-> IF r < Len(args) THEN args[r + 1] ELSE Null],
                 rest |-> SubSeq(args, Len(f.params) + 1, Len(args))])]
        ELSE Stopped(m, "status", Null)

\* The running activation returns, and so do the activations below it that wait for a tail
\* call, up to one that waits for a call.
InstOf(module, a) == module[a.function].code[a.pc]
Returned(module, m, value) ==
    LET waiting == {k \in 1..Len(m.stack) - 1 :
                      InstOf(module, m.stack[k]).op \in {"call", "call_closure"}}
        n == Max(waiting)
        i == InstOf(module, m.stack[n])
    IN  IF ~Matches(value, module[Last(m.stack).function].returns) THEN Stopped(m, "status", Null)
        ELSE IF waiting = {} THEN Stopped(m, "value", value)
        ELSE [m EXCEPT !.stack = Append(SubSeq(@, 1, n - 1),
                [m.stack[n] EXCEPT !.pc = @ + 1, !.regs[i.a] = value])]

\* An exception leaves the activations that do not handle it.
Thrown(m, value) ==
    LET handling == {k \in DOMAIN m.stack : \E t \in DOMAIN m.stack[k].tries : Handles(m.stack[k].tries[t])}
        n == Max(handling)
    IN  IF handling = {} THEN Stopped(m, "throw", value)
        ELSE [m EXCEPT !.stack = Append(SubSeq(@, 1, n - 1), Handled(m.stack[n], value))]

\* The errors that an instruction raises itself, as an exception without a value.
Faults(module, m, a, i) ==
    \/ i.op = "div" /\ a.regs[i.c].bits = 0
    \/ i.op \in ClosureCalls /\ ~Resolves(m, a.regs[i.b])
    \/ i.op = "closure" /\ i.b \notin DOMAIN module
    \/ i.op \in Upvalues /\ ~HasUpvalue(m, a, i.b)
    \/ i.op \in {"try_end", "end_catch", "end_finally"} /\ a.tries = <<>>

\* What instruction i does in the running activation a.
Does(module, m, a, i) ==
    LET arguments == [k \in 1..i.c |-> a.regs[i.a + k]]
        next == [a EXCEPT !.pc = @ + 1]
    IN  IF Faults(module, m, a, i) THEN Thrown(m, Null) ELSE
    CASE i.op = "ret" -> Returned(module, m, a.regs[i.a])
      [] i.op = "halt" -> Returned(module, m, Null)
      [] i.op = "throw" -> Thrown(m, a.regs[i.a])
      [] i.op = "ffi_call" ->
           LET calls == Append(m.calls, [symbol |-> i.b, args |-> arguments])
           IN  Now([m EXCEPT !.calls = calls], [next EXCEPT !.regs[i.a] = Int64(Len(calls))])
      [] i.op = "closure" ->
           Now([m EXCEPT !.closures = Append(@, Captured(i, a.regs))],
               [next EXCEPT !.regs[i.a] = Handle(Len(m.closures) + 1)])
      [] i.op = "get_upval" ->
           Now(m, [next EXCEPT !.regs[i.a] = m.closures[a.closure].upvalues[i.b + 1]])
      [] i.op = "set_upval" ->
           Now([m EXCEPT !.closures[a.closure].upvalues[i.b + 1] = a.regs[i.a]], next)
      [] i.op \in Calls -> Called(module, m, i.b, arguments, NoClosure)
      [] i.op \in ClosureCalls ->
           LET closure == a.regs[i.b].bits
           IN  Called(module, m, m.closures[closure].function, arguments, closure)
      [] i.op = "vararg" ->
           Now(m, [next EXCEPT !.regs =
              [r \in DOMAIN a.regs |->
                 IF r \in i.a..i.a + i.c - 1
                 THEN LET k == i.b + r - i.a + 1
                      IN  IF k \in DOMAIN a.rest THEN a.rest[k] ELSE Null
                 ELSE a.regs[r]]])
      [] i.op = "try_begin" ->
           Now(m, [next EXCEPT !.tries = Append(@,
              [catch |-> i.a, finally |-> i.b, end |-> i.c,
               in_catch |-> FALSE, in_finally |-> FALSE, rethrow |-> FALSE, pending |-> Null])])
      [] i.op \in {"try_end", "end_catch"} -> Now(m, Completed(a))
      [] i.op = "end_finally" ->
           LET left == [a EXCEPT !.tries = Front(@)]
           IN  IF Last(a.tries).rethrow
               THEN Thrown(Now(m, left), Last(a.tries).pending)
               ELSE Now(m, [left EXCEPT !.pc = Last(a.tries).end])
      [] OTHER ->
           LET regs == Computed(i, a.regs)
           IN  Now(m, [a EXCEPT !.regs = regs, !.pc = IF Jumps(i, regs) THEN @ + Delta(i) ELSE @ + 1])

\* One instruction.
Step(module, m) ==
    LET a == Last(m.stack)
        i == InstOf(module, a)
        mixes == \E r \in IntegerReads(i) : a.regs[r].type # "int64"
    IN  IF a.pc \notin DOMAIN module[a.function].code THEN Stopped(m, "status", Null)
        ELSE IF OutOfBounds(i, a.regs) THEN Stopped(m, "undefined", Null)
        ELSE Does(module, [m EXCEPT !.mixed = @ \/ mixes], a, i)

\* The machine after any number of steps.
Course(module, start) ==
    LET after[k \in Nat] ==
            IF k = 0 THEN start
            ELSE LET m == after[k - 1]
                 IN  IF m.how = "runs" THEN Step(module, m) ELSE m
    IN  after

\* VmThread::Execute.  Bound: it "diverges" if it takes more steps than fuel.
Execute(module, n, args, fuel) ==
    LET begin == [how |-> "runs", value |-> Null, calls |-> <<>>, closures |-> <<>>,
                  mixed |-> FALSE, stack |-> <<>>]
        end == Course(module, Called(module, begin, n, args, NoClosure))[fuel]
    IN  [how |-> IF end.how = "runs" THEN "diverges" ELSE end.how, value |-> end.value,
         calls |-> end.calls, mixed |-> end.mixed]
=============================================================================
