------------------------------ MODULE TbcFormat ------------------------------
(***************************************************************************)
(* src/bytecode/serializer.cpp: the .tbc file of a module.  The functions  *)
(* are those of Bytecode; the other tables of the module (Tables) are the  *)
(* same for all.                                                           *)
(***************************************************************************)
EXTENDS Bytecode, Fields

CONSTANT Tables   \* the tables beside the functions: [name, version, constants, debug,
                  \* libraries, structs, signatures, bindings, classes]

Magic == "TBC0"
FormatMajor == 0
FormatMinor == 6
Sections == {"debug", "ffi", "classes"}   \* the bits of the flags field

-----------------------------------------------------------------------------
(* Serializer::Serialize                                                   *)

AbiFields(t) == <<t.kind, t.ownership, t.passing, 0, t.struct, t.size>>
ConstantFields(c) == <<c.type, c.value>>
InstFields(i) == <<i.op, i.flags, 0, i.a, i.b, i.c>>
FunctionFields(f) ==
    <<f.name, f.regs, Len(f.params), Len(f.params)>> \o f.params
      \o <<f.returns, 0, 0, 0, 0, 0, f.upvalues, Flag(f.vararg), Flag(f.exported)>>
      \o Counted(f.code, InstFields)

DebugFields(line) == <<line.function, line.instruction, line.line, line.column>>
StructFields(s) ==
    <<s.name, s.size, s.alignment>>
      \o Counted(s.fields, LAMBDA field : <<field.offset>> \o AbiFields(field.type))
SignatureFields(s) ==
    <<s.name, s.convention, 0, 0>> \o AbiFields(s.returns) \o Counted(s.params, AbiFields)
BindingFields(b) == <<b.symbol, b.native, b.library, b.signature>>
MethodFields(m) == <<m.name, m.function, m.access, Flag(m.virtual), 0>>
ClassFields(c) ==
    <<c.name>> \o Counted(c.bases, LAMBDA base : <<base>>) \o Counted(c.methods, MethodFields)

HasFfi(t) == <<t.libraries, t.structs, t.signatures, t.bindings>> # <<<<>>, <<>>, <<>>, <<>>>>
SectionsOf_NoClasses(t, with_debug) ==
    {s \in Sections : CASE s = "debug" -> with_debug
                        [] s = "ffi" -> HasFfi(t)
                        [] s = "classes" -> FALSE}
SectionsOf(t, with_debug) ==
    {s \in Sections : CASE s = "debug" -> with_debug
                        [] s = "ffi" -> HasFfi(t)
                        [] s = "classes" -> t.classes # <<>>}

Serialize(module, with_debug) ==
    LET t == Tables
        flags == SectionsOf(t, with_debug)
        section(name, fields) == IF name \in flags THEN fields ELSE <<>>
    IN  <<Magic, FormatMajor, FormatMinor, flags, t.name>> \o t.version
          \o <<0, Len(t.constants), Len(module)>>
          \o Each(t.constants, ConstantFields) \o Each(module, FunctionFields)
          \o section("debug", Counted(t.debug, DebugFields))
          \o section("ffi", Counted(t.libraries, LAMBDA path : <<path>>)
                              \o Counted(t.structs, StructFields)
                              \o Counted(t.signatures, SignatureFields)
                              \o Counted(t.bindings, BindingFields))
          \o section("classes", Counted(t.classes, ClassFields))

-----------------------------------------------------------------------------
(* Serializer::Deserialize                                                 *)

ReadAbi(v) ==
    [kind |-> v[1], ownership |-> v[2], passing |-> v[3], struct |-> v[5], size |-> v[6]]
ReadConstant(left) == Plain(2, LAMBDA v : [type |-> v[1], value |-> v[2]], left)
ReadInst(left) == Plain(6, LAMBDA v : [Inst(v[1], v[4], v[5], v[6]) EXCEPT !.flags = v[2]], left)
ReadFunction(left) ==
    Then(Take(4, left), LAMBDA head, l1 :
      IF head[3] # head[4] THEN Failed
      ELSE Then(Take(head[4], l1), LAMBDA params, l2 :
             Then(Take(9, l2), LAMBDA v, l3 :
               Then(List(ReadInst, l3), LAMBDA code, l4 :
                 Got([name |-> head[1], regs |-> head[2], params |-> params, returns |-> v[1],
                      upvalues |-> v[7], vararg |-> v[8] # 0, exported |-> v[9] # 0, code |-> code], l4)))))

ReadDebug(left) ==
    Plain(4, LAMBDA v : [function |-> v[1], instruction |-> v[2], line |-> v[3], column |-> v[4]], left)
ReadStruct(left) ==
    Then(Take(3, left), LAMBDA v, l1 :
      Then(List(LAMBDA l : Plain(7, LAMBDA w : [offset |-> w[1], type |-> ReadAbi(Tail(w))], l), l1),
        LAMBDA fields, l2 :
          Got([name |-> v[1], size |-> v[2], alignment |-> v[3], fields |-> fields], l2)))
ReadSignature(left) ==
    Then(Take(10, left), LAMBDA v, l1 :
      Then(List(LAMBDA l : Plain(6, ReadAbi, l), l1), LAMBDA params, l2 :
        Got([name |-> v[1], convention |-> v[2], returns |-> ReadAbi(SubSeq(v, 5, 10)),
             params |-> params], l2)))
ReadBinding(left) ==
    Plain(4, LAMBDA v : [symbol |-> v[1], native |-> v[2], library |-> v[3], signature |-> v[4]], left)
ReadMethod(left) ==
    Plain(5, LAMBDA v : [name |-> v[1], function |-> v[2], access |-> v[3], virtual |-> v[4] # 0], left)
ReadClass(left) ==
    Then(Take(1, left), LAMBDA v, l1 :
      Then(List(ReadString, l1), LAMBDA bases, l2 :
        Then(List(ReadMethod, l2), LAMBDA methods, l3 :
          Got([name |-> v[1], bases |-> bases, methods |-> methods], l3))))

\* The three optional sections; one that the flags do not announce is empty.
ReadSection(name, flags, Read(_), left) ==
    IF name \in flags THEN List(Read, left) ELSE Got(<<>>, left)

\* Deserialize, with DeserializeOptions::verify.
Deserialize(file, verify) ==
    Then(Take(11, file), LAMBDA head, l1 :
    IF SubSeq(head, 1, 3) # <<Magic, FormatMajor, FormatMinor>> THEN Failed
    ELSE LET flags == head[4] IN
    Then(Items(head[10], ReadConstant, l1), LAMBDA constants, l2 :
    Then(Items(head[11], ReadFunction, l2), LAMBDA functions, l3 :
    Then(ReadSection("debug", flags, ReadDebug, l3), LAMBDA debug, l4 :
    Then(ReadSection("ffi", flags, ReadString, l4), LAMBDA libraries, l5 :
    Then(ReadSection("ffi", flags, ReadStruct, l5), LAMBDA structs, l6 :
    Then(ReadSection("ffi", flags, ReadSignature, l6), LAMBDA signatures, l7 :
    Then(ReadSection("ffi", flags, ReadBinding, l7), LAMBDA bindings, l8 :
    Then(ReadSection("classes", flags, ReadClass, l8), LAMBDA classes, l9 :
        IF l9 # <<>> \/ (verify /\ ~Verifies(functions)) THEN Failed
        ELSE Got([functions |-> functions,
                  tables |-> [name |-> head[5], version |-> SubSeq(head, 6, 8),
                              constants |-> constants, debug |-> debug, libraries |-> libraries,
                              structs |-> structs, signatures |-> signatures,
                              bindings |-> bindings, classes |-> classes]], <<>>))))))))))
=============================================================================
