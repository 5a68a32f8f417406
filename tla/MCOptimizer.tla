----------------------------- MODULE MCOptimizer -----------------------------
(***************************************************************************)
(* Families of small modules for the optimizer: fixed frames with holes    *)
(* that every instruction of an alphabet fills.                            *)
(***************************************************************************)
EXTENDS ToolChain

F(params, regs, code) ==
    [params |-> params, regs |-> regs, code |-> code, returns |-> AnyType,
     exported |-> FALSE, name |-> "f", vararg |-> FALSE, upvalues |-> 0]
One == <<AnyType>>

MovTo(a, b) == Inst("mov", a, b, 0)
LoadK(a, n) == Inst("loadk", a, n, 0)
Add(a, b, c) == Inst("add", a, b, c)
Ret(a) == Inst("ret", a, 0, 0)
Jmp(d) == Inst("jmp", d, 0, 0)

CallTo(a, fn, n) == Inst("call", a, fn, n)
Ffi(a, symbol, n) == Inst("ffi_call", a, symbol, n)

\* Straight code, branches and loops.
Alphabet == {
    MovTo(1, 0), MovTo(0, 1), LoadK(1, 1), LoadK(1, 0), Add(0, 0, 1), Inst("mul", 0, 0, 1),
    Inst("div", 0, 0, 1), Inst("inc", 1, 0, 0), Inst("add_imm", 1, 0, 0), Inst("sub_imm", 0, 0, 1),
    Inst("cmp_eq", 1, 0, 1), Jmp(2), Inst("jmp_if", 1, 2, 0), Inst("jmp_if_zero", 0, 2, 0),
    Inst("jmp_if_not_zero", 0, -1, 0), Inst("dec_jnz", 1, -1, 0), Ffi(0, 1, 1), Ret(1)}
Straight == {<<F(One, 2, <<i, j, k, Ret(0)>>)>> : i, j, k \in Alphabet}

\* A loop that loads its constant again each time round, entered from above or in its
\* middle; with an argument, or with all its values known.
InLoop == {Add(0, 0, 2), Inst("inc", 2, 0, 0), Inst("mul", 0, 0, 2), Jmp(2),
           Inst("jmp_if_zero", 2, -2, 0), MovTo(2, 1), Ffi(0, 3, 2)}
Back == {Inst("dec_jnz", 1, -3, 0), Inst("sub_imm_jnz", 1, 1, -3), Inst("add_dec_jnz", 0, 1, -3)}
Loops ==
    {<<F(One, 4, <<e, LoadK(2, n), i, j, back, Ret(0)>>)>> :
        e \in {MovTo(1, 0), LoadK(1, 2), Jmp(2)}, n \in 0..2, i, j \in InLoop, back \in Back}
Pure ==
    {<<F(<<>>, 4, <<LoadK(0, n), LoadK(1, 2), i, j, back, Ret(r)>>)>> :
        n \in 0..1, i, j \in InLoop \union {Inst("cmp_eq", 2, 0, 1), Inst("div", 0, 1, 0)},
        back \in Back, r \in {0, 2}}

\* The last instruction may be a nop that jumps lead to.
Trailing == {<<F(One, 2, <<i, j, k>>)>> :
    i, j \in {Jmp(1), Jmp(2), Inst("jmp_if", 0, 1, 0), Inst("jmp_if_zero", 0, 2, 0), Ret(0),
              Inst("dec_jnz", 0, 1, 0), MovTo(1, 0), Nop},
    k \in {Nop, MovTo(0, 0), Ret(1), Inst("jmp_if_zero", 0, -2, 0)}}

\* A copy that is counted, or added to, before both are used.
Copies == {<<F(One, 2, <<i, j, Inst("cmp_eq", 0, 0, 1), Ret(0)>>)>> :
    i \in {MovTo(1, 0), MovTo(0, 1)},
    j \in {Inst("add_dec_jnz", 0, 1, 1), Inst("add_dec_jnz", 1, 0, 1), Inst("add_dec_jnz", 1, 1, 1),
            Inst("dec_jnz", 1, 1, 0), Inst("sub_imm_jnz", 0, 1, 1), Inst("inc", 1, 0, 0), Add(1, 1, 0)}}

\* The entry calls a function whose result it uses; the call may be a loop's body.
Callees == {
    F(One, 1, <<Ret(0)>>),
    F(One, 2, <<Add(0, 0, 1), Ret(0)>>),
    F(One, 2, <<LoadK(1, 1), Add(0, 0, 1), Ret(0)>>),
    F(One, 2, <<MovTo(1, 0), Add(0, 0, 1), Inst("jmp_if_zero", 0, 2, 0),
                Inst("inc", 0, 0, 0), Ret(0)>>),
    F(One, 2, <<Inst("inc", 1, 0, 0), Ret(1)>>),
    F(One, 3, <<LoadK(1, 0), Add(1, 1, 0), Inst("dec_jnz", 0, -1, 0), Ret(1)>>),
    F(One, 2, <<MovTo(1, 0), Ffi(0, 2, 1), Ret(0)>>),
    F(One, 1, <<Inst("throw", 0, 0, 0)>>),
    F(One, 3, <<Inst("jmp_if_zero", 0, 4, 0), Inst("sub_imm", 2, 0, 1), CallTo(1, 2, 1), MovTo(0, 1), Ret(0)>>),
    [F(One, 2, <<LoadK(1, 2), Ret(1)>>) EXCEPT !.exported = TRUE],
    [F(One, 1, <<Ret(0)>>) EXCEPT !.params = <<"bool">>],
    [F(One, 2, <<Inst("vararg", 1, 0, 1), Ret(1)>>) EXCEPT !.vararg = TRUE],
    [F(<<>>, 3, <<Inst("vararg", 0, 0, 2), Add(0, 0, 1), Ret(0)>>) EXCEPT !.vararg = TRUE]}
Around == {MovTo(2, 0), MovTo(1, 2), LoadK(2, 2), Inst("dec_jnz", 0, -2, 0),
           Add(1, 1, 2), Inst("jmp_if_zero", 1, 2, 0), CallTo(1, 2, 1)}
Calling == {<<F(One, 4, <<i, CallTo(1, 2, 1), j, k, Ret(1)>>), g>> :
               i, j, k \in Around, g \in Callees}

\* Calls before ret, of two arguments, with results and arguments that have types.
Forwarder == F(<<AnyType, AnyType>>, 3, <<MovTo(1, 0), MovTo(2, 1), Ffi(0, 3, 2), Ret(0)>>)
Typed == {<<[F(One, 4, <<i, LoadK(2, 2), CallTo(0, 2, 1), j, k>>) EXCEPT !.returns = type], g>> :
            i \in {MovTo(1, 0), Inst("cmp_eq", 1, 0, 0), Inst("jmp_if_zero", 0, 3, 0)},
            j \in {Ret(0), Nop, CallTo(0, 2, 2)}, k \in {Ret(0), Inst("halt", 0, 0, 0)},
            type \in {AnyType, "int64", "null"},
            g \in Callees \union {Forwarder, [Forwarder EXCEPT !.exported = TRUE]}}

\* try statements: throwing, calling or returning in the body, catch or finally.
Body == {Inst("throw", 0, 0, 0), Inst("div", 0, 0, 1), CallTo(0, 2, 1), Ffi(0, 1, 1), MovTo(1, 0),
         LoadK(1, 1), Ret(0), Inst("jmp_if_zero", 0, 2, 0)}
InHandler == {Inst("throw", 1, 0, 0), Add(1, 1, 1), MovTo(0, 1), Ffi(0, 1, 1), Ret(1)}
Guarded == {<<F(One, 3, <<try, i, j, Inst("try_end", 0, 0, 0), h, Inst("end_catch", 0, 0, 0),
                          l, Inst("end_finally", 0, 0, 0), Ret(1)>>),
              F(One, 1, <<Inst("throw", 0, 0, 0)>>)>> :
              try \in {Inst("try_begin", 5, 7, 9), Inst("try_begin", 5, 0, 9),
                       Inst("try_begin", 0, 7, 9)},
              i, j \in Body, h, l \in InHandler}

\* Closures: called again and again with what they captured changed in between, passed to
\* themselves, made by others, and called without a closure.
CallClosure(a, r, n) == Inst("call_closure", a, r, n)
GetUpval(r) == Inst("get_upval", r, 0, 0)
SetUpval(r) == Inst("set_upval", r, 0, 0)
Captures(f) == [f EXCEPT !.upvalues = 1]
Closures == {
    Captures(F(One, 2, <<LoadK(1, 1), GetUpval(1), Inst("inc", 1, 0, 0), SetUpval(1), Ret(1)>>)),
    Captures(F(One, 3, <<MovTo(1, 0), SetUpval(1), GetUpval(2), Add(2, 2, 1), Ret(2)>>)),
    Captures(F(One, 3, <<GetUpval(1), MovTo(2, 0), Closure(2, 2, 0, 1), SetUpval(2), Ret(1)>>)),
    Captures(F(One, 3, <<LoadK(1, 1), CallClosure(0, 0, 1), GetUpval(2), Ret(0)>>)),
    Captures(F(One, 2, <<Inst("try_begin", 4, 0, 6), GetUpval(1), Inst("try_end", 0, 0, 0),
                         LoadK(1, 3), Inst("end_catch", 0, 0, 0), Ret(1)>>)),
    Captures(F(One, 1, <<GetUpval(0), Inst("throw", 0, 0, 0)>>)),
    Captures([F(One, 3, <<Inst("vararg", 1, 0, 1), GetUpval(2), Add(0, 1, 2), Ret(0)>>)
                EXCEPT !.vararg = TRUE]),
    [F(One, 1, <<Ret(0)>>) EXCEPT !.returns = "closure"]}
AroundClosures == {MovTo(3, 0), MovTo(3, 1), MovTo(1, 2), LoadK(2, 1), CallClosure(2, 1, 1),
                   CallClosure(1, 1, 0), CallTo(2, 2, 1)}
Capturing ==
    UNION {
      UNION {{<<F(One, 4, <<Closure(1, 2, 0, g.upvalues), i, j, k, CallClosure(2, 1, 1), Ret(2)>>), g>>,
              <<F(One, 4, <<Closure(1, 2, 0, g.upvalues), i, j, CallClosure(2, 1, 1), k, Ret(2)>>), g>>} :
                i \in {MovTo(3, 0), MovTo(3, 1), LoadK(2, 1), CallClosure(2, 1, 1)}, j \in AroundClosures,
                k \in {MovTo(3, 1), MovTo(1, 2), CallClosure(2, 1, 1), Inst("inc", 2, 0, 0)}}
      \union {<<F(One, 4, <<Closure(1, 2, first, 1), CallClosure(2, 1, 1), Ret(2)>>), g>> : first \in 3..4} :
        g \in Closures}

\* Code that the verifier has to refuse, or that it accepts although it is strange.
Strange == {MovTo(0, 2), MovTo(2, 0), LoadK(2, 0), Add(0, 0, 2), Add(2, 0, 0), Inst("inc", 2, 0, 0),
            Inst("add_imm", 0, 2, 1), Inst("jmp_if", 2, 1, 0), Inst("dec_jnz", 2, -1, 0),
            Inst("add_dec_jnz", 0, 2, 1), Inst("cmp_eq", 0, 2, 1), Inst("add_imm_jnz", 2, 1, 1),
            Inst("throw", 2, 0, 0), Ret(2), Jmp(4), Jmp(-4), Ffi(1, 1, 1), Ffi(0, 1, 2), Ffi(2, 1, 0),
            CallTo(1, 2, 1), CallTo(0, 2, 0), CallTo(0, 3, 1), CallTo(2, 2, 1),
            Inst("vararg", 0, 1, 2), Inst("try_begin", 9, 0, 2), Inst("try_begin", 0, 0, 3),
            Inst("try_begin", 3, 0, 3), Inst("try_end", 0, 0, 0), Inst("end_finally", 0, 0, 0),
            Inst("halt", 0, 0, 0), Closure(0, 2, 0, 0), Closure(0, 2, 0, 1), Closure(2, 2, 0, 0),
            CallClosure(1, 0, 1), CallClosure(0, 1, 1), CallClosure(0, 2, 0), GetUpval(1), Nop}
Odd == {<<F(One, 2, <<i, j, Ret(0)>>), F(One, 1, <<Ret(0)>>)>> : i, j \in Strange}

MCArguments == {<<>>} \union {<<Int64(n)>> : n \in {0, 1, 3}}
\* One of each table of a .tbc file, and the modules that are written.
Abi(kind) == [kind |-> kind, ownership |-> "borrowed", passing |-> "value", struct |-> 0, size |-> 8]
MCTables ==
    [name |-> "m", version |-> <<1, 0, 2>>,
     constants |-> <<[type |-> "int64", value |-> 3], [type |-> "utf8", value |-> "text"]>>,
     debug |-> <<[function |-> 0, instruction |-> 0, line |-> 1, column |-> 2]>>,
     libraries |-> <<"lib">>,
     structs |-> <<[name |-> "s", size |-> 8, alignment |-> 4,
                    fields |-> <<[offset |-> 4, type |-> Abi("i32")]>>]>>,
     signatures |-> <<[name |-> "sig", convention |-> "cdecl", returns |-> Abi("i64"),
                       params |-> <<Abi("i64"), Abi("bool")>>]>>,
     bindings |-> <<[symbol |-> "vm", native |-> "c", library |-> 0, signature |-> 0]>>,
     classes |-> <<[name |-> "A", bases |-> <<>>, methods |-> <<>>],
                   [name |-> "B", bases |-> <<"A">>,
                    methods |-> <<[name |-> "m", function |-> 1, access |-> 2, virtual |-> TRUE]>>]>>]

MCBindings == 1 :> 1 @@ 2 :> 1 @@ 3 :> 2
Level(l) == [level |-> l, enable |-> <<>>, disable |-> {}]
Chosen == [level |-> 1, enable |-> <<"inline_small", "copy_prop", "dce">>, disable |-> {"cleanup"}]

\* The entry function is exported, so that a host can call it with arguments.
Exports(modules) == {[m EXCEPT ![1].exported = TRUE, ![1].name = "run"] : m \in modules}
MCSaved == Exports({<<F(One, 2, <<i, Nop, Ret(0)>>), F(One, 1, <<Ret(0)>>)>> : i \in Strange})
MCBundled == Exports({<<F(One, 2, <<i, Nop, Ret(0)>>), F(One, 1, <<Ret(0)>>)>> :
                i \in {MovTo(1, 0), Ffi(0, 1, 1)}})
MCCompanion == <<F(One, 2, <<Nop, Ret(0)>>)>>
MCJobs ==
    [module : Exports(Straight \union Loops \union Pure \union Calling \union Capturing \union Odd), options : {Level(3)}]
      \union [module : Exports(Guarded), options : {Level(2)}]
      \union [module : MCSaved \cup MCBundled, options : {Level(1)}]
      \union [module : Exports(Typed \union Trailing \union Copies), options : {Level(3), Chosen}]
=============================================================================
