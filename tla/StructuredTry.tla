--------------------------- MODULE StructuredTry ---------------------------
(***************************************************************************)
(* What the try instructions of VmThread are for: the meaning of           *)
(* structured programs with try, catch and finally, and the layout in      *)
(* which the builders emit them (src/cli/tiebc_emit.cpp: body, try_end,    *)
(* catch block, end_catch, finally block, end_finally).  A program maps a  *)
(* function to a block; a block is a sequence of statements; a statement   *)
(* is an instruction or a try statement.                                   *)
(***************************************************************************)
EXTENDS VmThread

Try(body, catch, finally) ==
    [op |-> "try", body |-> body, catch |-> catch, finally |-> finally]

-----------------------------------------------------------------------------
RECURSIVE CompileBlock(_, _)

CompileTry(s, at) ==
    LET body == CompileBlock(s.body, at + 1) \o <<[op |-> "try_end"]>>
        catch_at == at + 1 + Len(body)
        catch == IF s.catch = None THEN <<>>
                 ELSE CompileBlock(s.catch, catch_at) \o <<[op |-> "end_catch"]>>
        finally_at == catch_at + Len(catch)
        finally == IF s.finally = None THEN <<>>
                   ELSE CompileBlock(s.finally, finally_at) \o <<[op |-> "end_finally"]>>
    IN  <<[op |-> "try_begin",
           catch |-> IF catch = <<>> THEN None ELSE catch_at,
           finally |-> IF finally = <<>> THEN None ELSE finally_at,
           end |-> finally_at + Len(finally)]>> \o body \o catch \o finally

\* The block's instructions, when the first one has index at.
CompileBlock(block, at) ==
    IF block = <<>> THEN <<>>
    ELSE LET s == Head(block)
             first == IF s.op = "try" THEN CompileTry(s, at) ELSE <<s>>
         IN  first \o CompileBlock(Tail(block), at + Len(first))

Compiled(program) ==
    [source |-> program,
     functions |-> [fn \in DOMAIN program |-> CompileBlock(program[fn], 1)]]

-----------------------------------------------------------------------------
(* A meaning: the effects, and how the statement ends: "next" is normally, *)
(* "value" by returning; the label tells errors apart.                     *)

Ends(how, label) == [marks |-> <<>>, how |-> how, label |-> label]
After(marks, m) == [m EXCEPT !.marks = marks \o @]

RECURSIVE BlockMeaning(_, _)

\* A function that ends without returning is an error; a caller sees a foreign
\* exception as a VmException.
FunctionMeaning(program, fn) ==
    LET m == BlockMeaning(program, program[fn])
    IN  CASE m.how = "next"  -> [m EXCEPT !.how = "fail", !.label = "refused"]
          [] m.how = "fault" -> [m EXCEPT !.how = "throw"]
          [] OTHER           -> m

\* A catch block handles what is thrown in the body.  A finally block follows body
\* or catch block, completed or left by an exception; when it is itself left by
\* something, that wins.  Returning and error statuses go past both.
TryMeaning(program, s) ==
    LET body == BlockMeaning(program, s.body)
        handled == IF body.how = "throw" /\ s.catch # None
                   THEN After(body.marks, BlockMeaning(program, s.catch))
                   ELSE body
    IN  IF s.finally = None \/ handled.how \notin {"next", "throw"} THEN handled
        ELSE LET finally == BlockMeaning(program, s.finally)
             IN  IF finally.how = "next"
                 THEN [handled EXCEPT !.marks = @ \o finally.marks]
                 ELSE After(handled.marks, finally)

StatementMeaning(program, s) ==
    CASE s.op = "mark" -> [Ends("next", s.op) EXCEPT !.marks = <<s.label>>]
      [] s.op \in {"throw", "fault", "fail"} -> Ends(s.op, s.label)
      [] s.op = "refuse" -> Ends("fail", "refused")
      [] s.op \in {"try_end", "end_catch", "end_finally"} -> Ends("throw", s.op)
      [] s.op \in {"ret", "halt"} -> Ends("value", s.op)
      [] s.op = "tail_call" -> FunctionMeaning(program, s.fn)
      [] s.op = "call" ->
           LET m == FunctionMeaning(program, s.fn)
           IN  IF m.how = "value" THEN [m EXCEPT !.how = "next"] ELSE m
      [] s.op = "try" -> TryMeaning(program, s)

BlockMeaning(program, block) ==
    IF block = <<>> THEN Ends("next", "end")
    ELSE LET m == StatementMeaning(program, Head(block))
         IN  IF m.how = "next" THEN After(m.marks, BlockMeaning(program, Tail(block))) ELSE m

-----------------------------------------------------------------------------
\* The bytecode does what the structured program means: the same effects in the
\* same order, and the same value or error at the end.  So each catch block handles
\* what its body throws and nothing else, each finally block runs once, and an
\* exception is neither lost nor replaced on its way through them.
DoesWhatItMeans ==
    Done =>
        LET m == FunctionMeaning(code.source, 1)
        IN  /\ trace = m.marks
            /\ IF m.how = "value"
               THEN outcome = [how |-> "value"]
               ELSE /\ outcome.how = "error"
                    /\ outcome.error.kind = m.how /\ outcome.error.label = m.label
=============================================================================
