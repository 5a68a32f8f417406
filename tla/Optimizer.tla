------------------------------ MODULE Optimizer ------------------------------
(***************************************************************************)
(* src/bytecode/optimizer.cpp: every pass as an operator on the code of a  *)
(* function or on the module, and the driver that runs them one after the  *)
(* other.  Register and instruction counters of the statistics are left    *)
(* out.                                                                    *)
(***************************************************************************)
EXTENDS LocalPasses, Interpreter

CONSTANTS
    Jobs,               \* what to optimize: [module, options], the options being
                        \* [level, enable, disable]
    Arguments,          \* the argument lists the entry function is run with
    InlineMaxInst,      \* BytecodeOptOptions::inline_max_inst
    ConstExecMaxSteps,  \* kO3ConstExecMaxSteps
    Fuel                \* bound: longer runs count as diverging

ASSUME OptimizerAssumption ==
    /\ \A j \in Jobs : j.module \in Modules
    /\ Arguments \subseteq Seq(Values)
    /\ ConstExecMaxSteps \in Nat \ {0}
    /\ Fuel \in Nat

-----------------------------------------------------------------------------
(* What is known of registers: KnownValue                                  *)

Unknown == [kind |-> "unknown", value |-> 0]
KnownInt(n) == [kind |-> "int64", value |-> Wrap(n)]
KnownBool(b) == [kind |-> "bool", value |-> IF b THEN 1 ELSE 0]
IsKnownInt(k) == k.kind = "int64"

Registers(f) == 0..f.regs - 1
NothingKnown(f) == [r \in Registers(f) |-> Unknown]

\* The value of register a after an instruction that computes it, if it is known.
ResultIf(known, regs, n) ==
    IF \A r \in regs : IsKnownInt(known[r]) THEN KnownInt(n) ELSE Unknown
Result(known, i) ==
    LET val(r) == known[r].value
    IN  CASE i.op = "loadk" -> KnownInt(i.b)
          [] i.op = "mov" -> known[i.b]
          [] i.op \in Binary ->
               IF i.op = "div" /\ val(i.c) = 0 THEN Unknown
               ELSE ResultIf(known, {i.b, i.c}, Arithmetic(i.op, val(i.b), val(i.c)))
          [] i.op = "add_imm" -> ResultIf(known, {i.b}, val(i.b) + i.c)
          [] i.op = "sub_imm" -> ResultIf(known, {i.b}, val(i.b) - i.c)
          [] i.op = "inc" -> ResultIf(known, {i.a}, val(i.a) + 1)
          [] i.op = "dec" -> ResultIf(known, {i.a}, val(i.a) - 1)
          [] i.op = "cmp_eq" /\ IsKnownInt(known[i.b]) /\ IsKnownInt(known[i.c]) ->
               KnownBool(val(i.b) = val(i.c))
          [] OTHER -> Unknown

SetKnown(known, regs, value) ==
    [r \in DOMAIN known |-> IF r \in regs THEN value ELSE known[r]]

\* Of the registers that vararg writes only the first is forgotten.
Forgets(i) ==
    IF i.op = "vararg" THEN {i.a} ELSE Written(i)
\* A mul that is left was not folded, and strength reduction remembers no product.
After(known, i) ==
    SetKnown(known, Forgets(i),
             IF i.op \in Relative \union {"mul"} THEN Unknown ELSE Result(known, i))

\* The passes that go through the code once and know nothing at a label or after a
\* jump.  What is known after an instruction depends on what it was rewritten to.
KnownBefore(f, New(_, _)) ==
    LET known[pc \in DOMAIN f.code] ==
            IF pc = 1 \/ pc \in Labels(f.code) THEN NothingKnown(f)
            ELSE LET before == known[pc - 1]
                     i == New(before, f.code[pc - 1])
                 IN  IF i.op \in Relative \union Terminators
                     THEN NothingKnown(f) ELSE After(before, i)
    IN  known
Forward(f, New(_, _)) ==
    [pc \in DOMAIN f.code |-> New(KnownBefore(f, New)[pc], f.code[pc])]

-----------------------------------------------------------------------------
(* Strength reduction and const_fold                                       *)

Multiplied(i, k, x) ==
    CASE k = 0 -> Inst("loadk", i.a, 0, 0)
      [] k = 1 -> Inst("mov", i.a, x, 0)
      [] k = 2 -> Inst("add", i.a, x, x)
      [] OTHER -> i
StrengthInst(known, i) ==
    IF i.op = "mul" /\ IsKnownInt(known[i.b]) THEN Multiplied(i, known[i.b].value, i.c)
    ELSE IF i.op = "mul" /\ IsKnownInt(known[i.c]) THEN Multiplied(i, known[i.c].value, i.b)
    ELSE i
StrengthReduction(f) == Forward(f, StrengthInst)

\* Whether a jump is taken, if what is known decides it; -1 if it does not.
Undecided == -1
Decision(known, i) ==
    LET k == known[i.a]
        taken(b) == IF b THEN 1 ELSE 0
    IN  CASE i.op = "jmp_if" /\ k # Unknown -> taken(k.value # 0)
          [] i.op = "jmp_if_zero" /\ IsKnownInt(k) -> taken(k.value = 0)
          [] i.op = "jmp_if_not_zero" /\ IsKnownInt(k) -> taken(k.value # 0)
          [] OTHER -> Undecided

Decided(known, i) ==
    CASE Decision(known, i) = 1 -> Inst("jmp", i.b, 0, 0)
      [] Decision(known, i) = 0 -> Nop
      [] OTHER -> i

Constants(known, i, ops) ==
    IF i.op \in Conditional THEN Decided(known, i)
    ELSE IF i.op \in ops /\ IsKnownInt(Result(known, i))
    THEN Inst("loadk", i.a, Result(known, i).value, 0)
    ELSE i
FoldInst(known, i) == Constants(known, i, Binary \union Immediate \union Step1)
ConstFold(f) == Forward(f, FoldInst)

-----------------------------------------------------------------------------
(* Sparse conditional constant propagation, and running the code           *)

\* The registers after an instruction, and whether it jumps, with the counting jumps
\* evaluated too.
Counters(i) == IF i.op = "add_dec_jnz" THEN {i.a, i.b} ELSE {i.a}
Counting == {"dec_jnz", "add_dec_jnz"} \union FusedImm
Transfer(known, i) ==
    IF i.op \in Counting /\ \A r \in Counters(i) : IsKnownInt(known[r])
    THEN LET regs == Computed(i, [r \in DOMAIN known |-> Int64(known[r].value)])
         IN  [r \in DOMAIN known |->
                IF r \in Counters(i) THEN KnownInt(regs[r].bits) ELSE known[r]]
    ELSE SetKnown(known, Written(i), IF i.op \in Relative THEN Unknown ELSE Result(known, i))
Taken(known, i) ==
    IF i.op \in Counting
    THEN LET k == Transfer(known, i)[IF i.op = "add_dec_jnz" THEN i.b ELSE i.a]
         IN  IF ~IsKnownInt(k) THEN Undecided ELSE IF k.value # 0 THEN 1 ELSE 0
    ELSE Decision(known, i)

Merged(k, l) == IF k = l THEN k ELSE Unknown

\* The places an instruction leads to, as far as what is known decides it.
Flow(code, pc, known) ==
    LET t == Taken(known, code[pc])
    IN  {k \in DOMAIN code :
           \/ code[pc].op \in Relative /\ t # 0 /\ k = JumpTarget(code, pc)
           \/ code[pc].op \notin Terminators \union {"jmp"} /\ t # 1 /\ k = pc + 1}

\* k is put on the work list if it is one of these places.
Only(places, k) == IF k \in places THEN <<k>> ELSE <<>>

\* One instruction of the work list: the places where something changes are added to it, the
\* target of a jump before the next instruction.
\* in: what is known before each instruction that was reached; work: the work list.
Worked(code, s) ==
    LET pc == Last(s.work)
        out == Transfer(s.in[pc], code[pc])
        at(k) == IF k \in DOMAIN s.in
                 THEN [r \in DOMAIN out |-> Merged(s.in[k][r], out[r])]
                 ELSE out
        changed == {k \in Flow(code, pc, s.in[pc]) : k \notin DOMAIN s.in \/ at(k) # s.in[k]}
    IN  [in |-> [k \in DOMAIN s.in \union changed |-> IF k \in changed THEN at(k) ELSE s.in[k]],
         work |-> Front(s.work) \o Only(changed \ {pc + 1}, JumpTarget(code, pc))
                    \o Only(changed, pc + 1)]

\* An instruction is put on the list when it is reached, and again when one of its registers
\* becomes unknown.
Solved(f) ==
    LET after[n \in Nat] ==
            IF n = 0 THEN [in |-> [pc \in {1} |-> NothingKnown(f)], work |-> <<1>>]
            ELSE LET s == after[n - 1]
                 IN  IF s.work = <<>> THEN s ELSE Worked(f.code, s)
    IN  after[Len(f.code) * (f.regs + 1) + 1].in

SccpInst(known, i) ==
    Constants(known, i, Binary \union Immediate \union Step1 \union {"mov"})
Sccp(f) ==
    LET in == Solved(f)
    IN  [pc \in DOMAIN f.code |->
          IF pc \in DOMAIN in THEN SccpInst(in[pc], f.code[pc]) ELSE Nop]

Executable == Binary \union Immediate \union Step1 \union Relative
                \union {"nop", "mov", "loadk", "cmp_eq"}
Eligible(f) ==
    /\ f.params = <<>> /\ ~f.vararg /\ f.upvalues = 0
    /\ f.returns \in {AnyType, "int64"}
    /\ ~HasTry(f.code)

\* The code is run as far as what it does is known; it waits where that is not so.
Advanced(code, s) ==
    LET i == code[s.pc]
        after == Transfer(s.known, i)
        stuck == /\ i.op \notin {"nop", "mov", "jmp"}
                 /\ IF i.op \in Relative THEN Taken(s.known, i) = Undecided
                                        ELSE Result(s.known, i) = Unknown
    IN  IF s.pc \notin DOMAIN code \/ i.op \notin Executable \/ stuck THEN s
        ELSE [pc |-> IF i.op = "jmp" \/ Taken(s.known, i) = 1 THEN JumpTarget(code, s.pc) ELSE s.pc + 1,
              known |-> after]

\* The value the code returns if it can be computed at once.
Executed(f) ==
    LET after[n \in Nat] ==
            IF n = 0 THEN [pc |-> 1, known |-> NothingKnown(f)] ELSE Advanced(f.code, after[n - 1])
        end == after[ConstExecMaxSteps - 1]
        i == f.code[end.pc]
    IN  IF end.pc \in DOMAIN f.code /\ i.op = "ret" /\ IsKnownInt(end.known[i.a])
        THEN end.known[i.a] ELSE Unknown
ConstExec(f) ==
    IF Eligible(f) /\ IsKnownInt(Executed(f))
    THEN <<Inst("loadk", 0, Executed(f).value, 0), Inst("ret", 0, 0, 0)>>
    ELSE f.code

-----------------------------------------------------------------------------
(* copy_prop                                                               *)

\* The fields that are renamed to the register they are a copy of.
CopySources(op) ==
    CASE op \in Immediate \union {"mov"} -> {"b"}
      [] op \in Binary \union {"cmp_eq"} -> {"b", "c"}
      [] op \in Step1 \union Conditional \union FusedImm
               \union {"dec_jnz", "ret", "throw", "set_upval"} -> {"a"}
      [] op \in ClosureCalls -> {"b"}
      [] op = "add_dec_jnz" -> {"a", "b"}
      [] OTHER -> {}

\* alias[r] is the register r is a copy of, or r: a copy of a copy is one of the origin.
NoAlias(f) == [r \in Registers(f) |-> r]
RenamedInst(alias, i) ==
    LET j == [field \in DOMAIN i |->
                IF field \in CopySources(i.op) THEN alias[i[field]] ELSE i[field]]
    IN  IF j.op = "mov" /\ j.a = j.b THEN Nop ELSE j
Killed_OneWay(alias, regs) == [r \in DOMAIN alias |-> IF r \in regs THEN r ELSE alias[r]]
Killed(alias, regs) ==
    [r \in DOMAIN alias |-> IF r \in regs \/ alias[r] \in regs THEN r ELSE alias[r]]

Aliases(f) ==
    LET alias[pc \in DOMAIN f.code] ==
            IF pc = 1 \/ pc \in Labels(f.code) THEN NoAlias(f)
            ELSE LET before == alias[pc - 1]
                     old == f.code[pc - 1]
                     i == RenamedInst(before, old)
                     kept == Killed(before, IF old.op = "mov" THEN {old.a} ELSE Forgets(i))
                 IN  IF i.op \in Relative \union Terminators THEN NoAlias(f)
                     ELSE IF i.op = "mov" THEN [kept EXCEPT ![i.a] = i.b]
                     ELSE kept
    IN  alias
CopyProp(f) == [pc \in DOMAIN f.code |-> RenamedInst(Aliases(f)[pc], f.code[pc])]

-----------------------------------------------------------------------------
(* dce                                                                     *)

Reached(code) ==
    LET within[n \in Nat] ==
            IF n = 0 THEN {1}
            ELSE LET seen == within[n - 1]
                 IN  seen \union ((UNION {Successors(code, pc) : pc \in seen}) \intersect DOMAIN code)
    IN  within[Len(code)]
Dce(code) ==
    IF HasTry(code) THEN code
    ELSE [pc \in DOMAIN code |-> IF pc \in Reached(code) THEN code[pc] ELSE Nop]

-----------------------------------------------------------------------------
(* The second half of inline_small                                         *)

InlineSafe == Executable \union {"ret"}
Candidate(module, n) ==
    LET g == module[n]
        size == Len(g.code)
    IN  /\ ~g.exported /\ ~g.vararg /\ g.upvalues = 0
        /\ size <= InlineMaxInst
        /\ \A pc \in 1..size : g.code[pc].op \in InlineSafe /\ (g.code[pc].op = "ret" <=> pc = size)

Inlines(module, candidates, i) ==
    i.op = "call" /\ i.b \in candidates /\ Len(module[i.b].params) = i.c

\* The callee's registers come after the caller's.
Moved(i, base) ==
    [field \in DOMAIN i |->
        IF field \in RegisterFields(i.op) THEN i[field] + base ELSE i[field]]
InlinedCall(g, i, base) ==
    [k \in 1..i.c |-> Inst("mov", base + k - 1, i.a + k, 0)]
      \o [pc \in 1..Len(g.code) - 1 |-> Moved(g.code[pc], base)]
      \o <<Inst("mov", i.a, base + Last(g.code).a, 0)>>

\* The caller's own jumps are adjusted to the longer code.
RegistersFor_CalleesOnly(f, callees) == Max({f.regs} \union {g.regs : g \in callees})
RegistersFor(f, callees) == f.regs + Max({g.regs : g \in callees})
Inlined(module, candidates, f) ==
    LET calls == {pc \in DOMAIN f.code : Inlines(module, candidates, f.code[pc])}
        part(pc) == IF pc \in calls
                    THEN InlinedCall(module[f.code[pc].b], f.code[pc], f.regs)
                    ELSE <<f.code[pc]>>
        start(pc) == Len(FlattenSeq([k \in 1..pc - 1 |-> part(k)])) + 1
        adjusted(pc) ==
            IF f.code[pc].op \in Relative
            THEN <<[f.code[pc] EXCEPT ![DeltaField(f.code[pc].op)] =
                      start(JumpTarget(f.code, pc)) - start(pc)]>>
            ELSE part(pc)
    IN  IF calls = {} \/ HasTry(f.code) THEN f
        ELSE [f EXCEPT !.code = FlattenSeq([pc \in DOMAIN f.code |-> adjusted(pc)]),
                       !.regs = RegistersFor(f, {module[f.code[pc].b] : pc \in calls})]

\* Candidates are chosen before the first function changes; none of them changes.
InlineSmall(module) ==
    LET bypassed == Bypass(module)
        candidates == {n \in DOMAIN bypassed : Candidate(bypassed, n)}
    IN  [n \in DOMAIN module |-> Inlined(bypassed, candidates, bypassed[n])]

-----------------------------------------------------------------------------
(* OptimizeBytecodeModuleInPlace                                           *)

PassesO1 == <<"peephole", "tailcall", "loop_fusion", "cleanup">>
PassesO2 == PassesO1 \o <<"const_fold", "copy_prop", "dce", "cleanup">>
BasePasses(level) ==
    CASE level = 0 -> <<>>
      [] level = 1 -> PassesO1
      [] level = 2 -> PassesO2
      [] level = 3 -> PassesO2 \o <<"inline_small", "copy_prop", "dce", "cleanup">>
Pipeline(options) ==
    LET base == BasePasses(options.level)
        more == SelectSeq(options.enable, LAMBDA p : p \notin ToSet(base))
    IN  SelectSeq(base \o more, LAMBDA p : p \notin options.disable)

VARIABLES
    job,        \* the module as it was, and BytecodeOptOptions
    module,     \* the module as it is
    todo,       \* the passes that have not run, the current one first
    at,         \* the function the current pass is at
    status,     \* "new", "refused", "running", "done" or "failed"
    kept,       \* observed: no pass met code that it does not keep the meaning of
    meaning     \* observed: what the input does

vars == <<job, module, todo, at, status, kept, meaning>>

Meaning(m, fuel) == [args \in Arguments |-> Execute(m, 1, args, fuel)]

Init ==
    /\ job \in Jobs
    /\ module = job.module
    /\ todo = Pipeline(job.options)
    /\ at = 1
    /\ status = "new"
    /\ kept = TRUE
    /\ meaning = <<>>

VerifyInput ==
    /\ status = "new"
    /\ status' = IF Verifies(module) THEN "running" ELSE "refused"
    /\ meaning' = Meaning(module, Fuel)
    /\ UNCHANGED <<job, module, todo, at, kept>>

Current == module[at]
Runs(pass) == status = "running" /\ todo # <<>> /\ Head(todo) = pass

\* The current pass leaves the current function with this code.
Leaves(code, safe) ==
    /\ module' = [module EXCEPT ![at].code = code]
    /\ IF at < Len(module)
       THEN at' = at + 1 /\ UNCHANGED todo
       ELSE at' = 1 /\ todo' = Tail(todo)
    /\ kept' = (kept /\ safe)
    /\ UNCHANGED <<job, status, meaning>>

-----------------------------------------------------------------------------
(* What each pass needs of the code to keep its meaning                    *)

Pairs(code, Matching(_, _)) ==
    {pc \in DOMAIN code : pc + 1 \in DOMAIN code /\ Matching(code[pc], code[pc + 1])}

\* The ret is not jumped to, no handler covers the call, and the type of what the caller
\* returns is not checked.
KeepsTailcall(f) ==
    \A pc \in Pairs(f.code, BeforeRet) :
        pc + 1 \notin Labels(f.code) /\ ~HasTry(f.code) /\ f.returns = AnyType

\* The second of two instructions is not jumped to, and a counter is not added to itself.
KeepsFusion(code) ==
    \A pc \in Pairs(code, Fusible) :
        pc + 1 \notin Labels(code) /\ (code[pc].op = "add" => code[pc].a # code[pc].c)

\* A loop is entered at its header.
KeepsLicm(code) ==
    \A back \in {pc \in DOMAIN code : SkipsHeader(code, pc)} :
        LET header == JumpTarget(code, back)
        IN  \A pc \in DOMAIN code \ (header..back) :
               Successors(code, pc) \intersect (header + 1..back) = {}

\* vararg writes one register.
NoWindow(code) == \A pc \in DOMAIN code : code[pc].op = "vararg" => code[pc].c <= 1

\* An instruction that writes the registers it reads is not renamed.
KeepsCopies(f) ==
    /\ NoWindow(f.code)
    /\ \A pc \in DOMAIN f.code :
          f.code[pc].op \in Step1 \union Counting => RenamedInst(Aliases(f)[pc], f.code[pc]) = f.code[pc]

\* No jump leads to a nop that no instruction follows.
KeepsCleanup(code) ==
    HasTry(code) \/ \A pc \in DOMAIN code :
        code[pc].op \in Relative => \E k \in Staying(code) : k >= JumpTarget(code, pc)

\* An inlined function writes its registers before it reads them, and neither its
\* arguments nor its result have a type to be checked.
Reads(i) ==
    IntegerReads(i) \union CASE i.op = "mov" -> {i.b}
                              [] i.op = "cmp_eq" -> {i.b, i.c}
                              [] i.op \in {"jmp_if", "ret"} -> {i.a}
                              [] OTHER -> {}
Untyped(g) == g.returns = AnyType /\ \A k \in DOMAIN g.params : g.params[k] = AnyType
WritesFirst(g) ==
    \A pc \in DOMAIN g.code : \A r \in Reads(g.code[pc]) :
        \/ r < Len(g.params)
        \/ \E k \in 1..pc - 1 :
              /\ r \in Written(g.code[k])
              /\ \A j \in 1..k - 1 : g.code[j].op \in Relative => JumpTarget(g.code, j) <= k

\* A bypassed function has one argument at most.
KeepsInlining(m) ==
    \A n \in DOMAIN m : \A pc \in DOMAIN m[n].code :
        LET i == m[n].code[pc]
        IN  i.op = "call" =>
              /\ Forwards(m[i.b]) => Untyped(m[i.b]) /\ i.c <= 1
              /\ Candidate(m, i.b) => Untyped(m[i.b]) /\ WritesFirst(m[i.b])

-----------------------------------------------------------------------------
PeepholePass == Runs("peephole") /\ Leaves(Peephole(Current.code), TRUE)

TailcallPass == Runs("tailcall") /\ Leaves(Tailcall(Current.code), KeepsTailcall(Current))

\* Level 3 moves invariant loads and reduces multiplications in the same pass.
LoopFusionPass ==
    /\ Runs("loop_fusion")
    /\ LET fused == LoopFusion(Current.code)
           hoisted == [Current EXCEPT !.code = Licm(fused)]
       IN  IF job.options.level = 3
           THEN Leaves(StrengthReduction(hoisted),
                       KeepsFusion(Current.code) /\ KeepsLicm(fused) /\ NoWindow(fused))
           ELSE Leaves(fused, KeepsFusion(Current.code))

ConstFoldPass ==
    /\ Runs("const_fold")
    /\ LET folded == [Current EXCEPT !.code = ConstFold(Current)]
           sparse == [folded EXCEPT !.code = Sccp(folded)]
       IN  IF job.options.level = 3
           THEN Leaves(ConstExec(sparse), NoWindow(Current.code) /\ ~HasTry(Current.code))
           ELSE Leaves(folded.code, NoWindow(Current.code))

CopyPropPass == Runs("copy_prop") /\ Leaves(CopyProp(Current), KeepsCopies(Current))

DcePass == Runs("dce") /\ Leaves(Dce(Current.code), TRUE)

CleanupPass == Runs("cleanup") /\ Leaves(Cleanup(Current.code), KeepsCleanup(Current.code))

InlineSmallPass ==
    /\ Runs("inline_small")
    /\ module' = InlineSmall(module)
    /\ todo' = Tail(todo)
    /\ kept' = (kept /\ KeepsInlining(module))
    /\ UNCHANGED <<job, at, status, meaning>>

Finish ==
    /\ status = "running" /\ todo = <<>>
    /\ status' = IF Verifies(module) THEN "done" ELSE "failed"
    /\ UNCHANGED <<job, module, todo, at, kept, meaning>>

Next ==
    \/ VerifyInput
    \/ PeepholePass \/ TailcallPass \/ LoopFusionPass \/ ConstFoldPass
    \/ CopyPropPass \/ DcePass \/ CleanupPass \/ InlineSmallPass
    \/ Finish

Spec == Init /\ [][Next]_vars

-----------------------------------------------------------------------------
\* What the verifier accepts never reads or writes beyond its registers or its windows
\* when it runs, although neither is checked then.
VerifiedStaysInside ==
    status \notin {"new", "refused"} => \A args \in Arguments : meaning[args].how # "undefined"

\* No pass makes a module that the verifier would refuse.
OutputVerifies == status \notin {"new", "refused"} => Verifies(module)

\* As long as each pass meets only code that it can handle (kept), every run returns the
\* same value or fails in the same way, with the same native calls in the same order:
\* for runs that end and that do arithmetic on integers only.
Same(run1, run2) ==
    run1.how = run2.how /\ run1.value = run2.value /\ run1.calls = run2.calls
MeaningKept ==
    status \notin {"new", "refused"} /\ kept /\ module # job.module =>
        \A args \in Arguments :
            \/ meaning[args].how = "diverges" \/ meaning[args].mixed
            \/ Same(meaning[args], Execute(module, 1, args, 2 * Fuel))
=============================================================================
