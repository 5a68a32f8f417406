----------------------------- MODULE BundleFormat -----------------------------
(***************************************************************************)
(* The files that hold several modules: a .tlb container                   *)
(* (src/tlb/tlb_container.cpp) is one file, and a .tlbs bundle             *)
(* (src/tlb/tlbs_bundle.cpp) a directory or a zip archive.  A path is the  *)
(* sequence of its segments; those of a bundle that was read are           *)
(* normalized.  The libraries of a bundle are under libs: no other file    *)
(* than they, the modules and the manifest is read again.                  *)
(***************************************************************************)
EXTENDS Fields

\* The signatures of the parts of an archive, which no other field of a file equals.
CONSTANTS ZipLocalHeader, ZipCentralHeader, ZipEndHeader

-----------------------------------------------------------------------------
(* TlbContainer::Serialize and Deserialize; an entry is                    *)
(* [name, version, plugins, bytecode].                                     *)

TlbMagic == "TLB0"

EntryFields(e) ==
    <<e.name>> \o e.version \o Counted(e.plugins, LAMBDA plugin : <<plugin>>)
      \o <<Len(e.bytecode)>> \o e.bytecode
TlbSerialize(entries) == <<TlbMagic, 0, 1>> \o Counted(entries, EntryFields)

ReadEntry(left) ==
    Then(Take(4, left), LAMBDA head, l1 :
      Then(List(ReadString, l1), LAMBDA plugins, l2 :
        Then(Take(1, l2), LAMBDA size, l3 :
          Then(Take(size[1], l3), LAMBDA bytecode, l4 :
            Got([name |-> head[1], version |-> SubSeq(head, 2, 4), plugins |-> plugins,
                 bytecode |-> bytecode], l4)))))
TlbDeserialize(file) ==
    Then(Take(3, file), LAMBDA head, l1 :
      IF head[1] # TlbMagic \/ head[2] # 0 THEN Failed ELSE List(ReadEntry, l1))

-----------------------------------------------------------------------------
(* The manifest: text, one line for each key.  A manifest is               *)
(* [name, version, entry, modules, metadata]; entry is <<>> or <<path>>.   *)

ManifestPath == <<"manifest.toml">>
IsLibrary(path) == path[1] = "libs"

Line(key, value) == [key |-> key, value |-> value, cut |-> "no"]

RenderManifest(m) ==
    <<Line("name", m.name), Line("version", m.version)>>
      \o (IF m.entry = <<>> THEN <<>> ELSE <<Line("entry_module", m.entry)>>)
      \o <<Line("modules", m.modules)>>
      \o (IF m.metadata = <<>> THEN <<>> ELSE <<Line("[metadata]", "")>> \o m.metadata)

\* What is on disk of a manifest whose writer stops: the last line may end before its '=',
\* behind it, or in the value, which then has a quotation mark or a bracket too few.
TornManifests(lines) ==
    Prefixes(lines)
      \cup {[k \in 1..n |-> IF k = n THEN [lines[k] EXCEPT !.cut = c] ELSE lines[k]] :
              n \in DOMAIN lines, c \in {"key", "empty", "value"}}
Text(line) ==
    CASE line.cut = "no" -> line.value
      [] line.cut = "empty" -> ""
      [] line.cut = "value" -> "torn"

\* ParseManifest, line by line: one without '=' is refused; a string may miss its quotation
\* mark, but not a version, a path that must be among the modules, or a list its bracket.
ParsedLines(lines) ==
    LET mark == SelectInSeq(lines, LAMBDA line : line.key = "[metadata]" /\ line.cut = "no")
        head == IF mark = 0 THEN lines ELSE SubSeq(lines, 1, mark - 1)
        metadata == IF mark = 0 THEN <<>> ELSE SubSeq(lines, mark + 1, Len(lines))
        value(key, absent) ==
            LET k == SelectInSeq(head, LAMBDA line : line.key = key)
            IN  IF k = 0 THEN absent ELSE Text(head[k])
    IN  IF /\ \A k \in DOMAIN head : head[k].key = "name" \/ head[k].cut = "no"
           /\ \A k \in DOMAIN lines : lines[k].cut # "key"
           /\ value("name", "") # ""
        THEN Got([name |-> value("name", ""), version |-> value("version", <<0, 1, 0>>),
                  entry |-> value("entry_module", <<>>), modules |-> value("modules", <<>>),
                  metadata |-> [k \in DOMAIN metadata |-> Line(metadata[k].key, Text(metadata[k]))]],
                 <<>>)
        ELSE Failed
ParseManifest(lines) ==
    Then(ParsedLines(lines), LAMBDA m, rest :
        IF ToSet(m.entry) \subseteq ToSet(m.modules) THEN Got(m, <<>>) ELSE Failed)

-----------------------------------------------------------------------------
(* Archives: a sequence of entries [name, data]                            *)

\* The library zlib: a shorter form of the data, and a number that tells data apart.
DeflateRaw(data) == <<[deflated |-> data]>>
InflateRaw(packed, size) ==
    IF Len(packed) = 1 /\ Len(packed[1].deflated) = size
    THEN Got(packed[1].deflated, <<>>) ELSE Failed
Crc32(data) == [crc |-> data]

StoreMethod == 0
DeflateMethod == 8
Method(data) == IF Len(DeflateRaw(data)) < Len(data) THEN DeflateMethod ELSE StoreMethod
Packed(data) == IF Method(data) = DeflateMethod THEN DeflateRaw(data) ELSE data

\* Version, flags, method, time, date, crc, sizes, lengths of the name and of the extra data.
CommonFields(e) ==
    <<20, 0, Method(e.data), 0, 0, Crc32(e.data), Len(Packed(e.data)), Len(e.data), 1, 0>>
LocalFields(e) == <<ZipLocalHeader>> \o CommonFields(e) \o <<e.name>> \o Packed(e.data)
CentralFields(e, offset) ==
    <<ZipCentralHeader, 20>> \o CommonFields(e) \o <<0, 0, 0, 0, offset, e.name>>

\* The central directory and then its end are behind all entries.
WriteZip(entries) ==
    LET locals == Each(entries, LocalFields)
        offset(k) == Len(Each(SubSeq(entries, 1, k - 1), LocalFields))
        central == FlattenSeq([k \in DOMAIN entries |-> CentralFields(entries[k], offset(k))])
    IN  locals \o central
          \o <<ZipEndHeader, 0, 0, Len(entries), Len(entries), Len(central), Len(locals), 0>>

\* kZipFlagDataDescriptor, the bit 0x0008 of the flags, is refused.
HasDescriptor(flags) == (flags \div 8) % 2 = 1

\* The entry behind the local header, which must agree with its central record.
ReadLocal(file, central) ==
    Then(Take(11, SubSeq(file, central.offset + 1, Len(file))), LAMBDA local, l1 :
      IF \/ local[1] # ZipLocalHeader \/ HasDescriptor(local[3])
         \/ <<local[4], local[8], local[9]>> # <<central.method, central.size, central.full>>
      THEN Failed
      ELSE Then(Take(local[10] + local[11], l1), LAMBDA name, l2 :
             Then(Take(local[8], l2), LAMBDA packed, l3 :
               Then(IF local[4] = DeflateMethod THEN InflateRaw(packed, local[9])
                    ELSE IF local[8] = local[9] THEN Got(packed, <<>>) ELSE Failed,
                 LAMBDA data, none :
                   IF Crc32(data) = local[7] /\ Crc32(data) = central.crc
                   THEN Got(data, <<>>) ELSE Failed))))

ReadCentral(file, left) ==
    Then(Take(17, left), LAMBDA head, l1 :
      IF \/ head[1] # ZipCentralHeader \/ HasDescriptor(head[4])
         \/ head[5] \notin {StoreMethod, DeflateMethod}
      THEN Failed
      ELSE Then(Take(head[11] + head[12] + head[13], l1), LAMBDA name, l2 :
             Then(ReadLocal(file, [method |-> head[5], crc |-> head[8], size |-> head[9],
                                   full |-> head[10], offset |-> head[17]]),
               LAMBDA data, none : Got([name |-> name[1], data |-> data], l2))))

\* The end is searched for from behind.  Of two entries with one name the first is taken.
ReadZip(file) ==
    LET ends == {p \in 1..Len(file) - 7 : file[p] = ZipEndHeader}
        end == SubSeq(file, Max(ends) + 1, Max(ends) + 7)
    IN  IF ends = {} THEN Failed
        ELSE IF end[7] # 0 \/ end[6] + end[5] > Len(file) THEN Failed
        ELSE Then(Items(end[4], LAMBDA left : ReadCentral(file, left),
                        SubSeq(file, end[6] + 1, Len(file))),
               LAMBDA entries, rest :
                 LET named(path) == SelectInSeq(entries, LAMBDA e : e.name = path)
                 IN  Got([path \in {e.name : e \in ToSet(entries)} |-> entries[named(path)].data],
                         <<>>))

-----------------------------------------------------------------------------
(* TlbsBundle: [manifest, modules, libraries], the last two from paths to  *)
(* what is in the files.  The order of a hash table is any order.          *)

Ordered(files) ==
    {[k \in DOMAIN order |-> [name |-> order[k], data |-> files[order[k]]]] :
        order \in SetToSeqs(DOMAIN files)}

\* The files in the order in which they are written.
WriteOrders(bundle) ==
    {<<[name |-> ManifestPath, data |-> RenderManifest(bundle.manifest)]>> \o modules \o libraries :
        modules \in Ordered(bundle.modules), libraries \in Ordered(bundle.libraries)}

SerializeToZip(bundle) == {WriteZip(entries) : entries \in WriteOrders(bundle)}

\* SerializeToDirectory writes one file after the other, in place: what is in a directory
\* that held the files before when n files are written and no more than data of the next.
Finished(before, writes, n) ==
    [path \in {writes[k].name : k \in 1..n} |->
        writes[CHOOSE k \in 1..n : writes[k].name = path].data] @@ before
Unfinished(before, writes) ==
    UNION {{(writes[n].name :> data) @@ Finished(before, writes, n - 1) :
              data \in IF n = 1 THEN TornManifests(writes[n].data) ELSE Prefixes(writes[n].data)} :
             n \in DOMAIN writes}

\* Deserialize, from the files of a directory or of an archive.
BundleIn(files) ==
    IF ManifestPath \notin DOMAIN files THEN Failed
    ELSE Then(ParseManifest(files[ManifestPath]), LAMBDA manifest, rest :
           IF ~(ToSet(manifest.modules) \subseteq DOMAIN files) THEN Failed
           ELSE Got([manifest |-> manifest,
                     modules |-> [path \in ToSet(manifest.modules) |-> files[path]],
                     libraries |-> [path \in {p \in DOMAIN files : IsLibrary(p)} |-> files[path]]],
                    <<>>))
=============================================================================
