--------------------------------- MODULE Aot ---------------------------------
(***************************************************************************)
(* src/aot/aot_pipeline.cpp: which modules AotCompiler::Compile translates *)
(* to LLVM code, and what the code does that LlvmIrBuilder emits for them. *)
(* A register is an alloca of %TieValue, a pair of a tag and 64 bits; an   *)
(* instruction is a basic block; a failure calls abort.  The instructions  *)
(* are those of Bytecode.                                                  *)
(***************************************************************************)
EXTENDS Interpreter

CONSTANT Bindings   \* the native functions that are bound: symbol -> number of arguments

-----------------------------------------------------------------------------
(* Compile: what it refuses                                                *)

Kinds == {"executable", "shared_library"}   \* AotOutputKind

\* kReservedExportNames, and the names FunctionName gives.
ReservedNames == {"printf", "strlen", "malloc", "memcpy", "abort", "tievm_aot_is_truthy", "tievm_fn_0"}

Exported(module) == {n \in DOMAIN module : module[n].exported}

\* As many slots for try frames as the function has try_begin instructions.
TrySlots(f) == Cardinality({pc \in DOMAIN f.code : f.code[pc].op = "try_begin"})

\* Every call of a native function has a binding in the module, with its arity, and nothing
\* ends a try statement in a function that begins none.
Lowers(module) ==
    \A n \in DOMAIN module : \A pc \in DOMAIN module[n].code :
        LET i == module[n].code[pc]
        IN  /\ i.op = "ffi_call" => i.b \in DOMAIN Bindings /\ Bindings[i.b] = i.c
            /\ i.op \in {"try_end", "end_catch", "end_finally"} => TrySlots(module[n]) > 0

Accepts(module, kind) ==
    /\ Verifies(module)
    /\ \A n \in Exported(module) :
          module[n].upvalues = 0 /\ module[n].name \notin ReservedNames
    /\ kind = "executable" =>
          /\ module[1].params = <<>> /\ ~module[1].vararg
          /\ \A n \in Exported(module) : module[n].name # "main"
    /\ kind = "shared_library" => Exported(module) # {}
    /\ Lowers(module)

-----------------------------------------------------------------------------
(* EmitFunction: blocks that compute                                       *)

\* BytecodeTypeToAotTag: null, int64 and bool have tags of their own, any has none.
HasTag(value, type) == type # AnyType => value.type = type

\* tievm_aot_is_truthy
Truthy(value) ==
    CASE value.type = "null" -> FALSE
      [] value.type \in {"int64", "bool"} -> value.bits # 0
      [] OTHER -> TRUE

\* The registers a block stores.  add_dec_jnz has loaded both before it stores them.
Stores(i, regs) ==
    LET bits(r) == regs[r].bits
    IN  CASE i.op = "mov" -> i.a :> regs[i.b]
          [] i.op = "loadk" -> i.a :> Int64(i.b)
          [] i.op \in Binary -> i.a :> Int64(Arithmetic(i.op, bits(i.b), bits(i.c)))
          [] i.op = "cmp_eq" ->
               i.a :> Bool(regs[i.b].type = regs[i.c].type /\ bits(i.b) = bits(i.c))
          [] i.op = "add_imm" -> i.a :> Int64(bits(i.b) + i.c)
          [] i.op = "sub_imm" -> i.a :> Int64(bits(i.b) - i.c)
          [] i.op = "inc" -> i.a :> Int64(bits(i.a) + 1)
          [] i.op \in {"dec", "dec_jnz"} -> i.a :> Int64(bits(i.a) - 1)
          [] i.op = "add_imm_jnz" -> i.a :> Int64(bits(i.a) + i.b)
          [] i.op = "sub_imm_jnz" -> i.a :> Int64(bits(i.a) - i.b)
          [] i.op = "add_dec_jnz" ->
               i.b :> Int64(bits(i.b) - 1) @@ i.a :> Int64(bits(i.a) + bits(i.b))
          [] OTHER -> <<>>

\* The condition of a block's branch.
Branches(i, regs) ==
    LET counter == IF i.op = "add_dec_jnz" THEN i.b ELSE i.a
    IN  CASE i.op = "jmp" -> TRUE
          [] i.op = "jmp_if" -> Truthy(regs[i.a])
          [] i.op = "jmp_if_zero" -> regs[i.a].bits = 0
          [] i.op = "jmp_if_not_zero" -> regs[i.a].bits # 0
          [] i.op \in {"dec_jnz", "add_dec_jnz"} \union FusedImm -> Stores(i, regs)[counter].bits # 0
          [] OTHER -> FALSE

\* vararg loads from the caller's buffer; what is not there is null.
VarArgs_FromFirst(i, m) ==
    [r \in i.a..i.a + i.c - 1 |->
        LET source == i.b + r - i.a + 1
        IN  IF source <= Len(m.args) THEN m.args[source] ELSE Null]
VarArgs(i, m) ==
    [r \in i.a..i.a + i.c - 1 |->
        LET source == m.params + i.b + r - i.a + 1
        IN  IF source <= Len(m.args) THEN m.args[source] ELSE Null]

-----------------------------------------------------------------------------
(* EmitFunction: closures.  A pointer to one is the number of its          *)
(* allocation; null is the closure of a plain call.                        *)

NullClosure == 0

\* closure: the block that malloc gave, and the register that points to it.
Allocated(i, m) ==
    [m EXCEPT !.closures = Append(@, [function |-> i.b,
                                      upvalues |-> [k \in 1..i.flags |-> m.regs[i.c + k - 1]]]),
              !.regs[i.a] = Handle(Len(m.closures) + 1)]

\* get_upval and set_upval on the block of the running function, if that has the upvalue.
HasSlot(i, m) == m.closure # NullClosure /\ i.b < Len(m.closures[m.closure].upvalues)
LoadedSlot(i, m) == [m EXCEPT !.regs[i.a] = m.closures[m.closure].upvalues[i.b + 1]]
StoredSlot(i, m) == [m EXCEPT !.closures[m.closure].upvalues[i.b + 1] = m.regs[i.a]]

-----------------------------------------------------------------------------
(* EmitFunction: try statements                                            *)

\* throw_dispatch: the innermost frame with a target, whatever it is doing.  (handling:
\* observed, the frame's body is over.)
Dispatched(m, value) ==
    LET n == Max({k \in DOMAIN m.slots : NoTarget # m.slots[k].catch \/ NoTarget # m.slots[k].finally})
        s == m.slots[n]
        caught == s.catch # NoTarget
    IN  [m EXCEPT !.pc = IF caught THEN s.catch ELSE s.finally,
                  !.slots = Append(SubSeq(@, 1, n - 1),
                      [s EXCEPT !.rethrow = ~caught, !.pending = value, !.handling = TRUE]),
                  !.departs = @ \/ s.handling]

\* try_end and end_catch
Completes(m) ==
    LET s == Last(m.slots)
    IN  IF s.finally # NoTarget
        THEN [m EXCEPT !.pc = s.finally, !.slots = Append(Front(@),
                [s EXCEPT !.rethrow = FALSE, !.pending = Null, !.handling = TRUE])]
        ELSE [m EXCEPT !.pc = s.end, !.slots = Front(@)]

-----------------------------------------------------------------------------
(* A run of the emitted code                                               *)

\* What all activations share: the native calls, the closures on the heap, whether the code
\* did something that the interpreter does in another way (departs: observed), and the
\* steps that are left.
Shared(m) == [calls |-> m.calls, closures |-> m.closures, departs |-> m.departs, fuel |-> m.fuel]

\* How a run ends: "value", "abort", or "diverges" when it is too long.
Stops(m, how, value) == [how |-> how, value |-> value] @@ Shared(m)
Aborts(m) == Stops(m, "abort", Null)

RECURSIVE Executes(_, _, _)

\* @tievm_fn_n(args, argc, closure), the closure being null in a plain call.  guarded:
\* observed, a caller has a try frame.
Enters(module, n, args, closure, observed) ==
    LET f == module[n]
        m == [pc |-> 1, slots |-> <<>>, thrown |-> Null, args |-> args, params |-> Len(f.params),
              closure |-> closure,
              regs |-> [r \in 0..f.regs - 1 |-> IF r < Len(f.params) THEN args[r + 1] ELSE Null]]
    IN  IF TakesArguments(f, Len(args)) /\ \A k \in DOMAIN f.params : HasTag(args[k], f.params[k])
        THEN Executes(module, f, m @@ observed)
        ELSE Aborts(observed)

\* What no frame of the function handles aborts the program: the callers have no part in it.
Throwing(module, f, m) ==
    IF m.slots = <<>> THEN Aborts([m EXCEPT !.departs = @ \/ m.guarded])
                      ELSE Executes(module, f, Dispatched(m, m.thrown))

\* A branch to panic, which asks no handler.
Panics(m) == Aborts([m EXCEPT !.departs = @ \/ m.guarded \/ m.slots # <<>>])

\* A call's result, whose type nobody checks, with what was observed until then.
EmittedCall(module, f, m, i, target, closure) ==
    LET result == Enters(module, target, [k \in 1..i.c |-> m.regs[i.a + k]], closure,
                    [guarded |-> m.guarded \/ m.slots # <<>>] @@ Shared(m))
        departs == result.departs \/ ~HasTag(result.value, module[target].returns)
    IN  IF result.how # "value" THEN result
        ELSE IF i.op \in {"tail_call", "tail_call_closure"}
        THEN [result EXCEPT !.departs = departs \/ ~HasTag(result.value, f.returns)]
        ELSE Executes(module, f, [departs |-> departs] @@ Shared(result)
                                   @@ [m EXCEPT !.pc = @ + 1, !.regs[i.a] = result.value])

\* A switch on the closure's function, each case a call with the closure.
EmittedClosureCall(module, f, m, i) ==
    LET pointer == m.regs[i.b].bits
    IN  EmittedCall(module, f, m, i, m.closures[pointer].function, pointer)

Executes(module, f, m) ==
    IF m.fuel = 0 THEN Stops(m, "diverges", Null)
    ELSE IF m.pc \notin DOMAIN f.code THEN Aborts(m)
    ELSE
    LET i == f.code[m.pc]
        now == [m EXCEPT !.fuel = @ - 1]
        next == [now EXCEPT !.pc = @ + 1]
    IN
    CASE i.op = "ret" -> Stops(now, "value", m.regs[i.a])
      [] i.op = "halt" -> Stops(now, "value", Null)
      [] i.op = "throw" -> Throwing(module, f, [now EXCEPT !.thrown = m.regs[i.a]])
      [] i.op = "div" /\ m.regs[i.c].bits = 0 -> Throwing(module, f, [now EXCEPT !.thrown = Null])
      [] i.op = "ffi_call" ->
           LET args == [k \in 1..i.c |-> m.regs[i.a + k]]
               calls == Append(m.calls, [symbol |-> i.b, args |-> args])
           IN  Executes(module, f, [next EXCEPT !.calls = calls, !.regs[i.a] = Int64(Len(calls))])
      [] i.op \in Calls -> EmittedCall(module, f, now, i, i.b, NullClosure)
      [] \/ i.op \in ClosureCalls /\ m.regs[i.b].type # "closure"
         \/ i.op \in Upvalues /\ ~HasSlot(i, m) -> Panics(now)
      [] i.op \in ClosureCalls -> EmittedClosureCall(module, f, now, i)
      [] i.op = "closure" -> Executes(module, f, Allocated(i, next))
      [] i.op = "get_upval" -> Executes(module, f, LoadedSlot(i, next))
      [] i.op = "set_upval" -> Executes(module, f, StoredSlot(i, next))
      [] i.op = "vararg" -> Executes(module, f, [next EXCEPT !.regs = VarArgs(i, m) @@ @])
      [] i.op = "try_begin" ->
           IF Len(m.slots) < TrySlots(f)
           THEN Executes(module, f, [next EXCEPT !.slots = Append(@,
                  [catch |-> i.a, finally |-> i.b, end |-> i.c,
                   rethrow |-> FALSE, pending |-> Null, handling |-> FALSE])])
           ELSE Aborts([now EXCEPT !.departs = TRUE])
      [] i.op \in {"try_end", "end_catch", "end_finally"} /\ m.slots = <<>> ->
           Aborts([now EXCEPT !.departs = @ \/ m.guarded])
      [] i.op \in {"try_end", "end_catch"} -> Executes(module, f, Completes(now))
      [] i.op = "end_finally" ->
           LET s == Last(m.slots)
               popped == [now EXCEPT !.slots = Front(@)]
           IN  IF s.rethrow
               THEN Throwing(module, f, [popped EXCEPT !.thrown = s.pending])
               ELSE Executes(module, f, [popped EXCEPT !.pc = s.end])
      [] OTHER ->
           Executes(module, f, [now EXCEPT !.regs = Stores(i, @) @@ @,
             !.pc = IF Branches(i, m.regs) THEN @ + Delta(i) ELSE @ + 1])

-----------------------------------------------------------------------------
(* The program's own entries                                               *)

Entries(module, kind) == IF kind = "executable" THEN {1} ELSE Exported(module)

\* The types of the parameters in an exported function's C prototype allow these arguments.
Expressible(f, args) ==
    /\ Len(args) = Len(f.params)
    /\ \A k \in DOMAIN args : f.params[k] # "null" => HasTag(args[k], f.params[k])

\* The wrapper of an exported function checks the result; main, which prints its bits,
\* does not.
CompiledRun(module, kind, n, args, fuel) ==
    LET result == Enters(module, n, args, NullClosure,
                    [calls |-> <<>>, closures |-> <<>>, departs |-> FALSE, guarded |-> FALSE,
                     fuel |-> fuel])
        typed == HasTag(result.value, module[n].returns)
    IN  CASE result.how # "value" \/ typed -> result
          [] kind = "shared_library" -> [result EXCEPT !.how = "abort"]
          [] OTHER -> [result EXCEPT !.departs = TRUE]
=============================================================================
