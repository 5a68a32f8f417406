---------------------------- MODULE LocalPasses ----------------------------
(***************************************************************************)
(* The passes of src/bytecode/optimizer.cpp that look at one instruction   *)
(* and its neighbours or targets: peephole, tailcall, loop_fusion, the     *)
(* motion of invariant loads, cleanup and the bypass of ffi forwarders.    *)
(***************************************************************************)
EXTENDS Bytecode, FiniteSets, FiniteSetsExt

-----------------------------------------------------------------------------
(* What the passes ask of instructions                                     *)

Terminators == {"ret", "throw", "halt", "tail_call", "tail_call_closure"}
HasTry(code) == \E pc \in DOMAIN code : code[pc].op \in Tries

JumpTarget(code, pc) == pc + Delta(code[pc])

\* CollectJumpTargets
Labels(code) ==
    ({JumpTarget(code, pc) : pc \in {k \in DOMAIN code : code[k].op \in Relative}}
       \union UNION {TryTargets(code[pc]) : pc \in {k \in DOMAIN code : code[k].op = "try_begin"}})
    \intersect DOMAIN code

\* InstructionWritesReg
Written(i) ==
    CASE i.op \in Binary \union Immediate \union Step1 \union FusedImm
                \union {"mov", "loadk", "cmp_eq", "call", "call_closure", "ffi_call",
                        "closure", "get_upval", "dec_jnz"} -> {i.a}
      [] i.op = "add_dec_jnz" -> {i.a, i.b}
      [] i.op = "vararg" -> i.a..i.a + i.c - 1
      [] OTHER -> {}

\* Where control goes from an instruction: no pass follows exceptions.
Successors(code, pc) ==
    (IF code[pc].op \in Relative THEN {JumpTarget(code, pc)} ELSE {})
    \union (IF code[pc].op \in Terminators \union {"jmp"} THEN {} ELSE {pc + 1})

-----------------------------------------------------------------------------
(* peephole, tailcall and loop_fusion                                      *)

PeepholeInst(i) ==
    CASE i.op = "mov" /\ i.a = i.b -> Nop
      [] i.op \in {"jmp"} \union Conditional /\ Delta(i) = 1 -> Nop
      [] i.op \in Immediate /\ i.c = 0 ->
           IF i.a = i.b THEN Nop ELSE Inst("mov", i.a, i.b, 0)
      [] OTHER -> i
Peephole(code) == [pc \in DOMAIN code |-> PeepholeInst(code[pc])]

\* Two passes make one instruction of two neighbours, and a nop of the second.
Paired(code, Matching(_, _), One(_, _)) ==
    LET first(pc) == pc \in DOMAIN code /\ pc + 1 \in DOMAIN code
                       /\ Matching(code[pc], code[pc + 1])
    IN  [pc \in DOMAIN code |->
            CASE first(pc) -> One(code[pc], code[pc + 1])
              [] first(pc - 1) -> Nop
              [] OTHER -> code[pc]]

BeforeRet(i, j) == i.op \in {"call", "call_closure"} /\ j.op = "ret" /\ i.a = j.a
Tailcall(code) ==
    Paired(code, BeforeRet, LAMBDA i, j :
        [i EXCEPT !.op = IF @ = "call" THEN "tail_call" ELSE "tail_call_closure"])

Fusible(i, j) ==
    \/ /\ i.op = "add" /\ j.op = "dec_jnz"
       /\ i.a = i.b /\ i.c = j.a
    \/ /\ i.op \in Immediate /\ j.op = "jmp_if_not_zero"
       /\ i.a = i.b /\ j.a = i.a
Fused(i, j) ==
    CASE i.op = "add" -> Inst("add_dec_jnz", i.a, i.c, j.b + 1)
      [] i.op = "sub_imm" -> Inst("sub_imm_jnz", i.a, i.c, j.b + 1)
      [] i.op = "add_imm" -> Inst("add_imm_jnz", i.a, i.c, j.b + 1)
LoopFusion(code) == Paired(code, Fusible, Fused)

-----------------------------------------------------------------------------
(* Loop-invariant code motion: a backward jump to a loadk that the loop    *)
(* does not undo skips it                                                  *)

Predecessors(code, pc) == {k \in DOMAIN code : pc \in Successors(code, k)}

SkipsHeader(code, back) ==
    /\ code[back].op \in Relative
    /\ ~HasTry(code)
    /\ LET header == JumpTarget(code, back)
       IN  /\ 1 < header /\ header < back
           /\ Predecessors(code, header) = {header - 1, back}
           /\ code[header].op = "loadk"
           /\ \A k \in header + 1..back : code[header].a \notin Written(code[k])

Licm(code) == [pc \in DOMAIN code |->
    IF SkipsHeader(code, pc)
    THEN [code[pc] EXCEPT ![DeltaField(code[pc].op)] = @ + 1]
    ELSE code[pc]]

-----------------------------------------------------------------------------
(* cleanup                                                                 *)

\* Where an instruction is after the nops are gone: a nop is the next one that stays,
\* or the last if none follows.
Staying(code) == {pc \in DOMAIN code : code[pc].op # "nop"}
NewPlace(code, pc) ==
    LET places == {k \in Staying(code) : k >= pc}
        old == IF places # {} THEN Min(places) ELSE Max(Staying(code))
    IN  Cardinality({k \in Staying(code) : k <= old})
Cleanup(code) ==
    IF HasTry(code) \/ Staying(code) \in {{}, DOMAIN code} THEN code
    ELSE LET moved(pc) == NewPlace(code, JumpTarget(code, pc)) - NewPlace(code, pc)
             jump(pc) == code[pc].op \in Relative
         IN  [n \in 1..Cardinality(Staying(code)) |->
                LET pc == CHOOSE k \in Staying(code) : NewPlace(code, k) = n
                IN  IF jump(pc)
                    THEN [code[pc] EXCEPT ![DeltaField(code[pc].op)] = moved(pc)]
                    ELSE code[pc]]

-----------------------------------------------------------------------------
(* The first half of inline_small                                          *)

\* A private function that passes its arguments on to ffi_call.
Forwards(g) ==
    LET n == Len(g.params)
    IN  /\ ~g.exported /\ ~g.vararg /\ g.upvalues = 0
        /\ Len(g.code) = n + 2
        /\ \A k \in 1..n : g.code[k].op = "mov" /\ g.code[k].a = k /\ g.code[k].b = k - 1
        /\ g.code[n + 1].op = "ffi_call" /\ g.code[n + 1].a = 0 /\ g.code[n + 1].c = n
        /\ g.code[n + 2].op = "ret" /\ g.code[n + 2].a = 0

BypassInst(module, i) ==
    IF i.op = "call" /\ i.b \in DOMAIN module
         /\ Forwards(module[i.b]) /\ i.c = Len(module[i.b].params)
    THEN Inst("ffi_call", i.a, module[i.b].code[i.c + 1].b, i.c)
    ELSE i
Bypass(module) ==
    [n \in DOMAIN module |->
        [module[n] EXCEPT !.code =
            [pc \in DOMAIN @ |-> BypassInst(module, module[n].code[pc])]]]
=============================================================================
