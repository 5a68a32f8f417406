------------------------------ MODULE Bytecode ------------------------------
(***************************************************************************)
(* What a bytecode module is, and which modules Verifier::Verify of        *)
(* src/bytecode/verifier.cpp accepts.                                      *)
(*                                                                         *)
(* A module is the sequence of its functions; the first is the entry.  Its *)
(* program counters begin with 1, registers with 0.  loadk holds its       *)
(* constant, and ffi_call the symbol, where the code has an index into the *)
(* constant pool.  Left out: the instructions for bits, strings and        *)
(* objects, and the tables of native bindings and classes.                 *)
(***************************************************************************)
EXTENDS Integers, Sequences

NoTarget == 0      \* kInvalidTryTarget
AnyType == "any"   \* BytecodeValueType::kAny

Inst(op, a, b, c) == [op |-> op, flags |-> 0, a |-> a, b |-> b, c |-> c]
\* The closure of function n with the values of so many registers from the first.
Closure(a, n, first, captured) == [Inst("closure", a, n, first) EXCEPT !.flags = captured]
Nop == Inst("nop", 0, 0, 0)

Binary == {"add", "sub", "mul", "div"}
Immediate == {"add_imm", "sub_imm"}
Step1 == {"inc", "dec"}
FusedImm == {"sub_imm_jnz", "add_imm_jnz"}
Conditional == {"jmp_if", "jmp_if_zero", "jmp_if_not_zero"}
Tries == {"try_begin", "try_end", "end_catch", "end_finally"}
Calls == {"call", "tail_call"}
ClosureCalls == {"call_closure", "tail_call_closure"}
Upvalues == {"get_upval", "set_upval"}

\* The field that holds the distance of a relative jump.
DeltaField(op) ==
    CASE op = "jmp" -> "a"
      [] op \in Conditional \union {"dec_jnz"} -> "b"
      [] OTHER -> "c"
Relative == {"jmp", "dec_jnz", "add_dec_jnz"} \union Conditional \union FusedImm
Delta(i) == i[DeltaField(i.op)]

\* The fields are unsigned words, but for distances and constants.
SignedFields(op) ==
    (IF op \in Relative THEN {DeltaField(op)} ELSE {})
    \union (CASE op \in FusedImm \union {"loadk"} -> {"b"}
              [] op \in Immediate -> {"c"}
              [] OTHER -> {})
Instructions ==
    {i \in [op : STRING, flags : Nat, a : Int, b : Int, c : Int] :
        \A field \in {"a", "b", "c"} \ SignedFields(i.op) : i[field] \in Nat}
Functions ==
    [params : Seq(STRING), regs : Nat, code : Seq(Instructions), returns : STRING,
     exported : BOOLEAN, name : STRING, vararg : BOOLEAN, upvalues : Nat]
Modules == Seq(Functions)

-----------------------------------------------------------------------------
(* Verifier::Verify                                                        *)

\* The fields of an instruction that the verifier requires to name registers.
RegisterFields(op) ==
    CASE op \in Binary \union {"cmp_eq"} -> {"a", "b", "c"}
      [] op \in Immediate \union {"mov", "add_dec_jnz"} -> {"a", "b"}
      [] op \in Step1 \union Conditional \union FusedImm
               \union {"loadk", "dec_jnz", "ret", "throw", "closure"} \union Upvalues -> {"a"}
      [] op \in ClosureCalls -> {"b"}
      [] OTHER -> {}

\* The last register of the window of a call's result and arguments, of vararg, or of what
\* a closure captures.
WindowEnd(i) ==
    CASE i.op \in Calls \union ClosureCalls \union {"ffi_call"} -> i.a + i.c
      [] i.op = "vararg" /\ i.c > 0 -> i.a + i.c - 1
      [] i.op = "closure" /\ i.flags > 0 -> i.c + i.flags - 1
      [] OTHER -> 0

TryTargets(i) == {i.a, i.b, i.c}

TakesArguments(g, n) == IF g.vararg THEN n >= Len(g.params) ELSE n = Len(g.params)

WindowFits_OffByOne(i, f) == WindowEnd(i) <= f.regs
WindowFits(i, f) == WindowEnd(i) < f.regs

VerifiesInst(module, f, pc) ==
    LET i == f.code[pc]
    IN  /\ \A field \in RegisterFields(i.op) : i[field] < f.regs
        /\ WindowFits(i, f)
        /\ i.op \in Relative => pc + Delta(i) \in DOMAIN f.code
        /\ i.op \in Calls =>
              i.b \in DOMAIN module /\ TakesArguments(module[i.b], i.c)
        /\ i.op = "closure" => i.b \in DOMAIN module /\ module[i.b].upvalues = i.flags
        /\ i.op \in Upvalues => i.b < f.upvalues
        /\ i.op = "vararg" => f.vararg
        /\ i.op = "try_begin" =>
              /\ TryTargets(i) \subseteq DOMAIN f.code \union {NoTarget}
              /\ i.a # NoTarget \/ i.b # NoTarget
              /\ i.c # NoTarget

Verifies(module) ==
    /\ module # <<>>
    /\ \A n \in DOMAIN module :
          LET f == module[n]
          IN  /\ f.regs > 0
              /\ Len(f.params) <= f.regs
              /\ f.code # <<>>
              /\ \A pc \in DOMAIN f.code : VerifiesInst(module, f, pc)
=============================================================================
