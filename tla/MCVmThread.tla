---------------------------- MODULE MCVmThread ----------------------------
EXTENDS StructuredTry

M(l) == [op |-> "mark", label |-> l]
Throw(l) == [op |-> "throw", label |-> l]
Fail(l) == [op |-> "fail", label |-> l]
Ret == [op |-> "ret"]
CallF == [op |-> "call", fn |-> 2]
TailF == [op |-> "tail_call", fn |-> 2]

\* Blocks without a try statement; the label tells where a block stands.
Simple(l) == {<<M(l)>>, <<M(l), Throw(l)>>}
Leaving(l) == Simple(l) \cup {<<M(l), Ret>>, <<M(l), Fail(l)>>, <<M(l), CallF>>, <<M(l), TailF>>}

\* Try statements without and with one more try statement in one of their blocks.
Tries(B, C, F) ==
    {Try(b, c, f) : b \in B, c \in C \cup {None}, f \in F \cup {None}}
      \ {Try(b, None, None) : b \in B}
Inner == Tries(Leaving("b"), Simple("c"), Simple("f"))
Nested(l) == {<<M(l), t, M("then")>> : t \in Inner}

Outer ==
    Tries(Leaving("B"), Leaving("C"), Leaving("F"))
      \cup Tries(Nested("B"), Simple("C"), Simple("F"))
      \cup Tries(Simple("B"), Nested("C"), Simple("F"))
      \cup Tries(Simple("B"), Simple("C"), Nested("F"))

\* What the called function may do.
Callees ==
    { <<M("g"), Ret>>,
      <<M("g"), [op |-> "halt"]>>,
      <<M("g")>>,
      <<[op |-> "refuse"]>>,
      <<[op |-> "end_finally"]>>,
      <<Try(<<[op |-> "fault", label |-> "g"]>>, <<M("g")>>, None), Ret>>,
      <<Try(<<Throw("g")>>, None, <<M("g")>>), Ret>> }
PlainCallee == <<Ret>>

Calls(code_) == \E i \in DOMAIN code_ : code_[i].op \in {"call", "tail_call"}

MCCodes ==
    UNION { LET entry == <<t, M("end"), Ret>>
                plain == Compiled(<<entry, PlainCallee>>)
            IN  IF Calls(plain.functions[1])
                THEN {Compiled(<<entry, g>>) : g \in Callees}
                ELSE {plain}
          : t \in Outer }
=============================================================================
