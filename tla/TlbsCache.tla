----------------------------- MODULE TlbsCache -----------------------------
(***************************************************************************)
(* Loading a zipped .tlbs bundle: LoadTlbsFile of                          *)
(* src/runtime/module_loader.cpp unpacks it once into a cache directory    *)
(* named by a hash of the zip file, which all processes on the machine     *)
(* share, and native libraries are opened from there afterwards.  The only *)
(* thing that orders the processes is the file system: one step per call   *)
(* that the others can notice.  Each process makes one load; a later load  *)
(* is one by another process.                                              *)
(*                                                                         *)
(* A zip file is told apart by its version; different ones hash            *)
(* differently.  Staging and temporary directories are private: their      *)
(* names hold a time stamp, taken to be unique.  remove_all removes what   *)
(* it finds.  An exception that the file system functions throw leaves     *)
(* LoadTlbsFile as a crash does.                                           *)
(*                                                                         *)
(* WriteFile looks at the stream before its buffer is flushed, so a write  *)
(* that is cut short may be noticed or not.  torn, noticed and disturbed   *)
(* record what went on and restrict nothing.                               *)
(***************************************************************************)
EXTENDS Naturals, FiniteSets

CONSTANTS
    Processes,
    NFiles,             \* the bundle's files in the order of writing; 1 is manifest.toml
    \* Bounds: the versions of the zip; loads, failing writes, crashes and new versions together.
    MaxVersion, MaxEvents

ASSUME ConstantsAssumption == NFiles \in Nat \ {0} /\ MaxVersion \in Nat \ {0}

Files == 1..NFiles
Manifest == 1
Versions == 1..MaxVersion

\* What a file of the cache holds, when it is not a file of some version.
Absent == 0
Partial == MaxVersion + 1
Contents == Versions \cup {Absent, Partial}

VARIABLES
    zip,        \* the version of the bundle at the path
    cache,      \* version -> file -> content: the directory of that version's hash
    present,    \* the versions whose directory exists
    staged,     \* process -> file -> content: its staging directory
    pc, bundle, key, at, opened, removed,   \* locals of each process
    root,       \* root_dir, once it is settled: "cache" or "temp"
    torn,       \* <<version, file>>: a write was cut short for good, by a crash or unnoticed
    noticed,    \* the processes that had a write fail and were told
    disturbed,  \* the processes that met another in a directory that one of them changed
    events

disk == <<zip, cache, present>>
locals == <<bundle, key, at, opened, removed>>
history == <<torn, noticed>>
vars == <<disk, staged, pc, locals, root, history, disturbed, events>>

NoFiles == [f \in Files |-> Absent]
Whole(v) == [f \in Files |-> v]

\* The directory that process p works on.
Base(p) == key[p]
Exists(p, f) == cache[Base(p)][f] # Absent
AllExist(p) == \A f \in Files : Exists(p, f)

Goto(p, label) == pc' = [pc EXCEPT ![p] = label]
Event == events < MaxEvents /\ events' = events + 1

\* A write succeeds, or fails and its caller is told.
Succeeds == UNCHANGED <<events, noticed>>
Fails(p) == Event /\ noticed' = noticed \cup {p}

Ended == {"loaded", "failed", "crashed"}

\* Who changes files of the directory in place, and who works on it or runs from it.
InPlace(p) == pc[p] \in {"repair", "discard", "clear"}
AtDirectory(p) ==
    \/ InPlace(p) \/ pc[p] \in {"ensure", "orphan", "directory", "stage", "publish", "lost"}
    \/ pc[p] \in {"resolve", "loaded"} /\ root[p] = "cache"
Meet(p, q) ==
    /\ p # q /\ Base(p) = Base(q)
    /\ AtDirectory(p) /\ AtDirectory(q)
    /\ InPlace(p) \/ InPlace(q)
Observe == disturbed' = disturbed \cup {p \in Processes : \E q \in Processes : Meet(p, q)'}

-----------------------------------------------------------------------------
\* There is no cache yet, or version 1 is there, with all of its files or without some.
Init ==
    /\ zip = 1
    /\ present \in {{}, {1}}
    /\ \E left \in [Files -> {Absent, 1}] :
         /\ present = {} => left = NoFiles
         /\ cache = [v \in Versions |-> IF v = 1 THEN left ELSE NoFiles]
    /\ staged = [p \in Processes |-> NoFiles]
    /\ pc = [p \in Processes |-> "idle"]
    /\ bundle = [p \in Processes |-> 1] /\ key = [p \in Processes |-> 1]
    /\ at = [p \in Processes |-> 1] /\ opened = [p \in Processes |-> FALSE]
    /\ removed = [p \in Processes |-> {}]
    /\ root = [p \in Processes |-> "none"]
    /\ torn = {} /\ noticed = {} /\ disturbed = {}
    /\ events = 0

\* TlbsBundle::Deserialize reads the zip file,
Deserialize(p) ==
    /\ pc[p] = "idle" /\ Event
    /\ bundle' = [bundle EXCEPT ![p] = zip]
    /\ Goto(p, "hash")
    /\ UNCHANGED <<disk, staged, key, at, opened, removed, root, history>>

\* and HashFileFNV1a reads it again.
Hash(p) ==
    /\ pc[p] = "hash"
    /\ key' = [key EXCEPT ![p] = zip]
    /\ Goto(p, "look")
    /\ UNCHANGED <<disk, staged, bundle, at, opened, removed, root, history, events>>

-----------------------------------------------------------------------------
(* MaterializeBundleToCache and EnsureMaterializedBundleFiles              *)

\* There is a manifest: check the files.
Look(p) ==
    /\ pc[p] = "look"
    /\ Goto(p, IF Exists(p, Manifest) THEN "ensure" ELSE "orphan")
    /\ at' = [at EXCEPT ![p] = 1]
    /\ UNCHANGED <<disk, staged, bundle, key, opened, removed, root, history, events>>

\* Done with one of the files: on to the next, or with all of them to the cache directory.
LastFile(p) == at[p] = NFiles
FileDone(p) ==
    IF LastFile(p)
    THEN /\ Goto(p, "resolve") /\ root' = [root EXCEPT ![p] = "cache"]
         /\ at' = [at EXCEPT ![p] = 1]
    ELSE at' = [at EXCEPT ![p] = at[p] + 1] /\ UNCHANGED <<pc, root>>

\* One exists() after the other; the first file that is missing decides.
EnsureFile(p) ==
    /\ pc[p] = "ensure"
    /\ IF Exists(p, at[p])
       THEN FileDone(p)
       ELSE Goto(p, "repair") /\ at' = [at EXCEPT ![p] = 1] /\ UNCHANGED root
    /\ UNCHANGED <<disk, staged, bundle, key, opened, removed, history, events>>

\* What follows a repair that failed: remove_all.
AfterFailedRepair_KeepsFiles(p) == "orphan"
AfterFailedRepair(p) == "discard"

\* Something is missing: SerializeToDirectory writes all files again, in place.
\* Opening a file creates its directory and truncates it;
RepairOpen(p) ==
    /\ pc[p] = "repair" /\ ~opened[p]
    /\ \/ /\ cache' = [cache EXCEPT ![Base(p)][at[p]] = Partial]
          /\ present' = present \cup {Base(p)}
          /\ opened' = [opened EXCEPT ![p] = TRUE]
          /\ Succeeds /\ UNCHANGED pc
          /\ UNCHANGED at
       \/ /\ Fails(p) /\ Goto(p, AfterFailedRepair(p)) /\ at' = [at EXCEPT ![p] = 1]
          /\ UNCHANGED <<cache, present, opened>>
    /\ UNCHANGED <<zip, staged, bundle, key, removed, root, torn>>

\* writing fills it, unless somebody removed it meanwhile.  Of a write that is cut short
\* the caller is told only if that shows before the stream is closed.
RepairWrite(p) ==
    /\ pc[p] = "repair" /\ opened[p]
    /\ opened' = [opened EXCEPT ![p] = FALSE]
    /\ \/ /\ cache' = [cache EXCEPT ![Base(p)][at[p]] =
                          IF Exists(p, at[p]) THEN bundle[p] ELSE Absent]
          /\ FileDone(p) /\ Succeeds /\ UNCHANGED torn
       \/ /\ torn' = torn \cup {<<Base(p), at[p]>>}
          /\ FileDone(p) /\ Event /\ UNCHANGED <<cache, noticed>>
       \/ /\ Fails(p) /\ Goto(p, AfterFailedRepair(p)) /\ at' = [at EXCEPT ![p] = 1]
          /\ UNCHANGED <<cache, root, torn>>
    /\ UNCHANGED <<zip, present, staged, bundle, key, removed>>

\* A directory without a manifest is no good: two calls of exists(), the first for the
\* manifest,
LookForManifest(p) ==
    /\ pc[p] = "orphan"
    /\ Goto(p, IF Exists(p, Manifest) THEN "stage" ELSE "directory")
    /\ UNCHANGED <<disk, staged, locals, root, history, events>>

\* the second for the directory.
LookForDirectory(p) ==
    /\ pc[p] = "directory"
    /\ Goto(p, IF Base(p) \in present THEN "clear" ELSE "stage")
    /\ UNCHANGED <<disk, staged, locals, root, history, events>>

\* remove_all, when the repair failed or there is no manifest: file after file.
RemoveFile(p) ==
    /\ pc[p] \in {"discard", "clear"}
    /\ \E f \in Files \ removed[p] :
         /\ Exists(p, f)
         /\ cache' = [cache EXCEPT ![Base(p)][f] = Absent]
         /\ removed' = [removed EXCEPT ![p] = @ \cup {f}]
    /\ UNCHANGED <<zip, present, staged, pc, bundle, key, at, opened, root, history, events>>

\* A file that came back behind it stays, and the directory with it.
RemoveDone(p) ==
    /\ pc[p] \in {"discard", "clear"}
    /\ \A f \in Files \ removed[p] : ~Exists(p, f)
    /\ present' = IF cache[Base(p)] = NoFiles THEN present \ {Base(p)} ELSE present
    /\ removed' = [removed EXCEPT ![p] = {}]
    /\ Goto(p, IF pc[p] = "discard" THEN "orphan" ELSE "stage")
    /\ UNCHANGED <<zip, cache, staged, bundle, key, at, opened, root, history, events>>

\* SerializeToDirectory into a directory of its own: whole, or with files that were cut
\* short unnoticed; when a failure is noticed the directory is removed.
Stage(p) ==
    /\ pc[p] = "stage"
    /\ \/ /\ staged' = [staged EXCEPT ![p] = Whole(bundle[p])]
          /\ Goto(p, "publish") /\ Succeeds
       \/ /\ \E cut \in SUBSET Files \ {{}} :
               staged' = [staged EXCEPT ![p] =
                             [f \in Files |-> IF f \in cut THEN Partial ELSE bundle[p]]]
          /\ Goto(p, "publish") /\ Event /\ UNCHANGED noticed
       \/ Fails(p) /\ Goto(p, "temp") /\ UNCHANGED staged
    /\ UNCHANGED <<disk, locals, root, torn>>

\* rename moves the staging directory there when nothing is in its way,
Publish(p) ==
    /\ pc[p] = "publish" /\ cache[Base(p)] = NoFiles
    /\ cache' = [cache EXCEPT ![Base(p)] = staged[p]]
    /\ present' = present \cup {Base(p)}
    /\ torn' = torn \cup {<<Base(p), f>> : f \in {g \in Files : staged[p][g] = Partial}}
    /\ staged' = [staged EXCEPT ![p] = NoFiles]
    /\ Goto(p, "resolve") /\ root' = [root EXCEPT ![p] = "cache"]
    /\ UNCHANGED <<zip, locals, noticed, events>>

\* and fails onto a directory that has files in it, or subdirectories yet to be removed.
PublishFails(p) ==
    /\ pc[p] = "publish" /\ Base(p) \in present
    /\ Goto(p, "lost")
    /\ UNCHANGED <<disk, staged, locals, root, history, events>>

\* Who comes second uses what the other one put there, if that has a manifest.
PublishLost_GivesUp(p) == "temp"
PublishLost_Retries(p) == "orphan"
PublishLost(p) == IF Exists(p, Manifest) THEN "resolve" ELSE "temp"

LookAfterLoss(p) ==
    /\ pc[p] = "lost"
    /\ Goto(p, PublishLost(p))
    /\ root' = [root EXCEPT ![p] = IF PublishLost(p) = "resolve" THEN "cache" ELSE @]
    /\ staged' = [staged EXCEPT ![p] = NoFiles]
    /\ UNCHANGED <<disk, locals, history, events>>

-----------------------------------------------------------------------------
(* LoadTlbsFile                                                            *)

\* Without the cache: MaterializeBundleToTemp, into a directory of its own.  A file that
\* is cut short unnoticed there is nobody else's.
ToTemp(p) ==
    /\ pc[p] = "temp"
    /\ \/ Goto(p, "resolve") /\ root' = [root EXCEPT ![p] = "temp"] /\ Succeeds
       \/ Fails(p) /\ Goto(p, "failed") /\ UNCHANGED root
    /\ UNCHANGED <<disk, staged, locals, torn>>

\* The native libraries of the modules, files 2.. here, must be below root_dir.
Resolve(p) ==
    /\ pc[p] = "resolve"
    /\ Goto(p, IF root[p] = "cache" /\ \E f \in Files \ {Manifest} : ~Exists(p, f)
               THEN "failed" ELSE "loaded")
    /\ UNCHANGED <<disk, staged, locals, root, history, events>>

-----------------------------------------------------------------------------
(* Around the loads                                                        *)

\* Somebody deploys a new version at the same path.
Replace ==
    /\ zip < MaxVersion /\ Event
    /\ zip' = zip + 1
    /\ UNCHANGED <<cache, present, staged, pc, locals, root, history>>

\* The files that p has opened, or knows to have failed and is about to remove.
AtWorkOn(p, f) ==
    \/ pc[p] = "repair" /\ opened[p] /\ at[p] = f
    \/ pc[p] = "discard" /\ f \notin removed[p]

\* A process dies.  One that has not looked at the directory leaves no trace.
Crash(p) ==
    /\ AtDirectory(p) /\ pc[p] # "loaded" /\ Event
    /\ torn' = torn \cup {<<Base(p), f>> : f \in {g \in Files : AtWorkOn(p, g)}}
    /\ Goto(p, "crashed")
    /\ UNCHANGED <<disk, staged, locals, root, noticed>>

Step(p) ==
    \/ Hash(p) \/ Look(p) \/ EnsureFile(p)
    \/ RepairOpen(p) \/ RepairWrite(p)
    \/ LookForManifest(p) \/ LookForDirectory(p) \/ RemoveFile(p) \/ RemoveDone(p)
    \/ Stage(p) \/ Publish(p) \/ PublishFails(p) \/ LookAfterLoss(p)
    \/ ToTemp(p) \/ Resolve(p)

Next ==
    /\ \/ \E p \in Processes : Deserialize(p) \/ Step(p) \/ Crash(p)
       \/ Replace
    /\ Observe

\* A process that began a load keeps running; each of its steps is seen in its locals.
progress == <<pc, locals>>
Spec == Init /\ [][Next]_vars /\ \A p \in Processes : WF_progress(Step(p))
-----------------------------------------------------------------------------
(* Properties                                                              *)

Labels ==
    {"idle", "hash", "look", "ensure", "repair", "orphan", "directory", "discard", "clear",
     "stage", "publish", "lost", "temp", "resolve"} \cup Ended

TypeOK ==
    /\ zip \in Versions
    /\ cache \in [Versions -> [Files -> Contents]]
    /\ \A v \in Versions \ present : cache[v] = NoFiles
    /\ staged \in [Processes -> [Files -> Contents]]
    /\ pc \in [Processes -> Labels]
    /\ bundle \in [Processes -> Versions] /\ key \in [Processes -> Versions]
    /\ at \in [Processes -> Files] /\ opened \in [Processes -> BOOLEAN]
    /\ removed \in [Processes -> SUBSET Files]
    /\ root \in [Processes -> {"none", "cache", "temp"}]
    /\ torn \subseteq Versions \X Files
    /\ noticed \subseteq Processes /\ disturbed \subseteq Processes
    /\ events \in Nat

\* A load named the directory of version v after a zip that is not the one it had read.
Misnamed(v) ==
    \E p \in Processes : pc[p] \notin {"idle", "hash"} /\ Base(p) = v /\ bundle[p] # v

\* As long as a process runs, each file of the cache directory it loaded from is there and
\* is its own bundle's (libraries are opened at the first call into them, long after the
\* load).  Three things spoil that, and each of them only so far.  A write that was cut
\* short, by a crash or unnoticed, spoils the file it wrote.  Another process that changed the
\* directory while this one was there, or the other way round, can leave a file cut short or
\* missing, never one of another version.  That takes a zip that was replaced
\* between the two times a load reads it, which then used this directory.
\* tests/unit/tlb_loader_test.cpp:92 checks of one process that the manifest comes back.
RootHoldsBundle ==
    \A p \in Processes, f \in Files :
        pc[p] = "loaded" /\ root[p] = "cache" =>
            LET held == cache[Base(p)][f] IN
            \/ held = bundle[p]
            \/ held = Partial /\ (<<Base(p), f>> \in torn \/ p \in disturbed)
            \/ held = Absent /\ p \in disturbed
            \/ held \in Versions /\ Misnamed(Base(p))

\* Who loads at the same time as others gets the cached directory as they do: a load uses
\* a temporary directory, or fails, only when one of its own writes failed or when it
\* met another process in a directory that one of them changed in place.
CacheIsUsed ==
    \A p \in Processes :
        pc[p] = "failed" \/ root[p] = "temp" => p \in noticed \cup disturbed

\* Every load ends, whatever the others do.
LoadEnds ==
    \A p \in Processes : pc[p] # "idle" ~> pc[p] \in Ended
=============================================================================
