------------------------------ MODULE ToolChain ------------------------------
(***************************************************************************)
(* The tools around the optimizer: tiebc opt (src/cli/tiebc_opt.cpp)       *)
(* writes the module it optimized to a .tbc file, or back into the .tlb    *)
(* container or .tlbs bundle that it was found in, beside a module that it *)
(* leaves alone; tiebc tlbs-pack and tlbs-unpack (src/cli/tiebc_struct.cpp)*)
(* turn a bundle into an archive and back; each of them may be killed      *)
(* while it writes.  tievm (src/cli/tievm_run_tlb.cpp) loads what is on    *)
(* disk, and tiebc aot compiles it, or a module that it optimized itself   *)
(* (src/aot/aot_pipeline.cpp).                                             *)
(***************************************************************************)
EXTENDS Optimizer, Aot, TbcFormat, BundleFormat

CONSTANTS
    Saved,      \* bound: the modules that are written to .tbc files
    Bundled,    \* bound: those that are written with others
    Companion   \* the other module in a container or bundle

VARIABLES
    file,       \* the output: what is on disk of it, and what was to be written
    artifact    \* "none", "refused", or what was made: one of Kinds

toolVars == <<vars, file, artifact>>

NoFile == [kind |-> "none"]
ToolInit == Init /\ file = NoFile /\ artifact = "none"

Optimize ==
    /\ file = NoFile /\ artifact = "none"
    /\ Next
    /\ UNCHANGED <<file, artifact>>

-----------------------------------------------------------------------------
(* What the tools read and write                                           *)

Main == <<"modules", "m.tbc">>
Other == <<"modules", "n.tbc">>

\* A container and a bundle with the code of the main module, and the companion as it is.
Container(code) ==
    <<[name |-> "m", version |-> <<2, 0, 0>>, plugins |-> <<"p", "q">>, bytecode |-> code],
      [name |-> "n", version |-> <<1, 1, 0>>, plugins |-> <<>>, bytecode |-> Serialize(Companion, TRUE)]>>
Bundle(code) ==
    [manifest |-> [name |-> "b", version |-> <<1, 0, 0>>, entry |-> <<Main>>,
                   modules |-> <<Other, Main>>, metadata |-> <<Line("format", "tlbs")>>],
     modules |-> Main :> code @@ Other :> Serialize(Companion, TRUE),
     libraries |-> <<"libs", "x">> :> <<"code", "data">>]

\* The files of a directory that holds the bundle as it was before it was optimized.
Unoptimized == LET b == Bundle(Serialize(job.module, TRUE)) IN
    ManifestPath :> RenderManifest(b.manifest) @@ b.modules @@ b.libraries

ReadBundle(f) ==
    IF f.kind = "directory" THEN BundleIn(f.content)
    ELSE Then(ReadZip(f.content), LAMBDA files, rest : BundleIn(files))

\* What tievm runs: all the modules of a file, or nothing.
LoadedAll(read(_), keys) ==
    IF keys = {} \/ \E k \in keys : ~read(k).ok THEN Failed
    ELSE Got([k \in keys |-> read(k).value], <<>>)
Loaded(f) ==
    CASE f.kind = "tbc" -> Deserialize(f.content, TRUE)
      [] f.kind = "tlb" ->
           Then(TlbDeserialize(f.content), LAMBDA entries, rest :
             LoadedAll(LAMBDA k : Then(Deserialize(entries[k].bytecode, TRUE), LAMBDA m, none :
                                    Got([m EXCEPT !.tables.version = entries[k].version], <<>>)),
                       DOMAIN entries))
      [] f.kind \in {"archive", "directory"} ->
           Then(ReadBundle(f), LAMBDA b, rest :
             LoadedAll(LAMBDA path : Deserialize(b.modules[path], TRUE), DOMAIN b.modules))

\* An output file: what is on disk, whether its writer came to the end, what a reader of
\* the finished file should find, and whether any writer has been killed.
Output(kind, content, whole, source) ==
    [kind |-> kind, content |-> content, whole |-> whole, source |-> source, crashed |-> ~whole]

Streamed(kind, fields, source) ==
    {Output(kind, prefix, Len(prefix) = Len(fields), source) : prefix \in Prefixes(fields)}

\* A bundle that goes into an archive, or file by file into a directory.
Archived(bundle, source) ==
    UNION {Streamed("archive", fields, source) : fields \in SerializeToZip(bundle)}
Spread(before, bundle, source) ==
    LET directory(files, whole) == Output("directory", files, whole, source)
    IN  UNION {{directory(Finished(before, writes, Len(writes)), TRUE)}
                 \cup {directory(files, FALSE) : files \in Unfinished(before, writes)} :
                   writes \in WriteOrders(bundle)}

-----------------------------------------------------------------------------
(* The tools                                                               *)

\* What a reader should find: debug lines are not written with the optimized module.
Optimized == [functions |-> module, tables |-> [Tables EXCEPT !.debug = <<>>]]
Kept == [functions |-> Companion, tables |-> Tables]

\* Serialize verifies the module once more; the output file is truncated and written in
\* place, and so is each file of a directory that is there.
Save ==
    /\ status = "done" /\ file = NoFile /\ artifact = "none"
    /\ Verifies(module)
    /\ LET code == Serialize(module, FALSE)
           version(m, k) == [m EXCEPT !.tables.version = Container(code)[k].version]
           bundle == Got(Main :> Optimized @@ Other :> Kept, <<>>)
       IN  \/ /\ job.module \in Saved
              /\ file' \in Streamed("tbc", code, Got(Optimized, <<>>))
           \/ /\ job.module \in Bundled
              /\ \/ file' \in Streamed("tlb", TlbSerialize(Container(code)),
                                       Got(<<version(Optimized, 1), version(Kept, 2)>>, <<>>))
                 \/ file' \in Archived(Bundle(code), bundle)
                 \/ \E before \in {<<>>, Unoptimized} : file' \in Spread(before, Bundle(code), bundle)
    /\ UNCHANGED <<vars, artifact>>

\* PackTlbs and UnpackTlbs, into a new directory: any bundle that can be read.  Bound: one
\* tool is killed.
Repack ==
    /\ file # NoFile /\ artifact = "none"
    /\ file.kind \in {"archive", "directory"}
    /\ LET read == ReadBundle(file)
       IN  /\ read.ok
           /\ \E f \in IF file.kind = "directory" THEN Archived(read.value, Loaded(file))
                       ELSE Spread(<<>>, read.value, Loaded(file)) :
                /\ file.crashed => f.whole
                /\ file' = [f EXCEPT !.crashed = @ \/ file.crashed]
    /\ UNCHANGED <<vars, artifact>>

\* What Compile gets: a module as it was read, one that it optimized at level 1 to 3, or
\* one of a file that was written: the only, the first, or the entry module.
CompileInput ==
    CASE file.kind = "none" -> Got([functions |-> module], <<>>)
      [] file.kind = "tbc" -> Deserialize(file.content, TRUE)
      [] file.kind = "tlb" ->
           Then(TlbDeserialize(file.content), LAMBDA entries, rest :
             IF entries = <<>> THEN Failed ELSE Deserialize(entries[1].bytecode, TRUE))
      [] file.kind \in {"archive", "directory"} ->
           Then(ReadBundle(file), LAMBDA b, rest :
             IF b.manifest.modules = <<>> THEN Failed
             ELSE Deserialize(b.modules[Head(b.manifest.entry \o b.manifest.modules)], TRUE))
Compile(kind) ==
    /\ artifact = "none"
    /\ status \in {"new", "done"}
    /\ artifact' = IF /\ status = "done" /\ file = NoFile => job.options.level # 0
                      /\ CompileInput.ok
                      /\ Accepts(CompileInput.value.functions, kind)
                   THEN kind ELSE "refused"
    /\ UNCHANGED <<vars, file>>

ToolNext == Optimize \/ Save \/ Repack \/ \E kind \in Kinds : Compile(kind)

ToolSpec == ToolInit /\ [][ToolNext]_toolVars

-----------------------------------------------------------------------------
\* A file that was written to its end loads as what was written, in each of the formats and
\* from one to the other, with all tables but the debug lines.  What a crash leaves of a
\* file, a container or an archive is refused, and so is what it leaves of a directory,
\* unless all modules are there, each in whole, though some as they were before.
FileIsWholeOrRefused ==
    file # NoFile =>
        LET loaded == Loaded(file)
        IN  IF file.whole THEN loaded = file.source
            ELSE loaded.ok =>
                   /\ file.kind = "directory"
                   /\ DOMAIN loaded.value = DOMAIN file.source.value
                   /\ \A path \in DOMAIN loaded.value :
                        \/ loaded.value[path] = file.source.value[path]
                        \/ path = Main /\ loaded.value[path] = [functions |-> job.module, tables |-> Tables]

\* The emitted code does what the interpreter does with the same module: it returns the
\* same value, or aborts where the interpreter reports an error, after the same native
\* calls.  It holds for runs that do arithmetic on integers only and in which the code has
\* not departed from the interpreter: an exception that leaves a function whose callers
\* have handlers, or that is thrown in a handler; a result of another type than declared;
\* more try frames than the function has try_begin instructions.
SameCompiled(run, compiled) ==
    /\ compiled.how = (IF run.how = "value" THEN "value" ELSE "abort")
    /\ compiled.how = "value" => compiled.value = run.value
    /\ compiled.calls = run.calls
CompiledMeansSame ==
    artifact \in Kinds =>
      LET functions == CompileInput.value.functions IN
        \A n \in Entries(functions, artifact) : \A args \in Arguments :
            Expressible(functions[n], args) =>
                LET run == Execute(functions, n, args, Fuel)
                    compiled == CompiledRun(functions, artifact, n, args, Fuel)
                IN  run.how = "diverges" \/ run.mixed \/ compiled.departs
                      \/ SameCompiled(run, compiled)
=============================================================================
