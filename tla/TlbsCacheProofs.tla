--------------------------- MODULE TlbsCacheProofs ---------------------------
(***************************************************************************)
(* The shared cache for any number of processes, files and versions, with  *)
(* failing writes, noticed or not, crashes, repairs that overlap with      *)
(* other loads and a zip that is replaced at any time: what a process can  *)
(* find where it runs from the cache, and why a load leaves the cache.     *)
(***************************************************************************)
EXTENDS TlbsCache, TLAPS

-----------------------------------------------------------------------------
(* The invariant                                                           *)

\* Local state is reset before the step that needs it fresh; what is staged is the
\* process's own bundle, all of it.
LocalsIdle ==
    \A p \in Processes :
        /\ opened[p] => pc[p] \in {"repair", "crashed"}
        /\ removed[p] # {} => pc[p] \in {"discard", "clear", "crashed"}
        /\ root[p] # "none" => pc[p] \in {"resolve"} \cup Ended
StagedOwn ==
    \A p \in Processes, f \in Files :
        pc[p] = "publish" => staged[p][f] \in {Partial, bundle[p]}

\* Whoever meets another where one of them changes files is known to be disturbed.
MeetingsSeen == \A p, q \in Processes : Meet(p, q) => p \in disturbed

\* Another version's file is in a directory only after a load misnamed it.
NamedRight ==
    \A v \in Versions, f \in Files : cache[v][f] \in Versions /\ cache[v][f] # v => Misnamed(v)

\* A file that was cut short is known, or somebody is still at work on it.
CutKnown ==
    \A v \in Versions, f \in Files :
        cache[v][f] = Partial =>
            <<v, f>> \in torn \/ \E p \in Processes : Base(p) = v /\ AtWorkOn(p, f)

\* What a process that met nobody knows of the directory, from what it has seen and done.
AtWork(p) ==
    /\ pc[p] = "ensure" => \A f \in Files : f < at[p] => Exists(p, f)
    /\ pc[p] = "repair" =>
         \A f \in Files : f < at[p] \/ (f = at[p] /\ opened[p]) => Exists(p, f)
    /\ pc[p] \in {"orphan", "directory"} /\ Exists(p, Manifest) => AllExist(p)
    /\ pc[p] \in {"discard", "clear"} => \A f \in removed[p] : ~Exists(p, f)
    /\ pc[p] \in {"stage", "publish"} /\ Base(p) \in present => AllExist(p)
    /\ pc[p] \in {"lost", "resolve", "loaded"} => AllExist(p)
InUse == \A p \in Processes : AtDirectory(p) /\ p \notin disturbed => AtWork(p)

\* Who left the cache noticed a failure, or met somebody.
AwayKnown ==
    \A p \in Processes :
        pc[p] \in {"temp", "failed"} \/ root[p] = "temp" => p \in noticed \cup disturbed

IInv ==
    /\ TypeOK /\ LocalsIdle /\ StagedOwn /\ MeetingsSeen
    /\ NamedRight /\ CutKnown /\ InUse /\ AwayKnown
-----------------------------------------------------------------------------
(* Type correctness                                                        *)

\* The files and versions are numbered from one.
LEMMA FilesNumbered ==
    /\ 1 \in Versions /\ Manifest \in Files /\ 1 \in Files
    /\ \A f \in Files : f # NFiles => f + 1 \in Files
BY ConstantsAssumption DEF Manifest, Files, Versions

\* The numbers that stand for contents tell apart what is missing, what is cut short,
\* and the versions.
LEMMA ContentsApart ==
    /\ Absent \notin Versions /\ Partial \notin Versions /\ Partial # Absent
    /\ {Absent, Partial} \cup Versions = Contents
    /\ \A v \in Versions : Whole(v) # NoFiles
    /\ NoFiles \in [Files -> Contents] /\ \A v \in Versions : Whole(v) \in [Files -> Contents]
<1>1. /\ Absent \notin Versions /\ Partial \notin Versions /\ Partial # Absent
      /\ {Absent, Partial} \cup Versions = Contents
  BY ConstantsAssumption DEF Absent, Partial, Versions, Contents
<1> QED
  BY <1>1, FilesNumbered DEF Whole, NoFiles

LEMMA InitType == Init => TypeOK
<1> SUFFICES ASSUME Init PROVE TypeOK
  OBVIOUS
<1>1. PICK left \in [Files -> {Absent, 1}] :
        /\ present = {} => left = NoFiles
        /\ cache = [v \in Versions |-> IF v = 1 THEN left ELSE NoFiles]
  BY DEF Init
<1>2. cache \in [Versions -> [Files -> Contents]]
  BY <1>1, ContentsApart, FilesNumbered DEF Contents
<1>3. \A v \in Versions \ present : cache[v] = NoFiles
  BY <1>1 DEF Init
<1>4. /\ zip \in Versions /\ events \in Nat
      /\ noticed \subseteq Processes /\ disturbed \subseteq Processes
      /\ torn \subseteq Versions \X Files
  BY FilesNumbered, ConstantsAssumption DEF Init
<1>5. /\ pc \in [Processes -> Labels] /\ root \in [Processes -> {"none", "cache", "temp"}]
      /\ removed \in [Processes -> SUBSET Files] /\ opened \in [Processes -> BOOLEAN]
  BY DEF Init, Labels
<1>6. /\ bundle \in [Processes -> Versions] /\ key \in [Processes -> Versions]
      /\ at \in [Processes -> Files]
  BY FilesNumbered DEF Init
<1>7. staged \in [Processes -> [Files -> Contents]]
  BY ContentsApart DEF Init
<1> QED
  BY <1>2, <1>3, <1>4, <1>5, <1>6, <1>7 DEF TypeOK

\* The types of the disk, of the processes and of what is recorded.
DiskTypes ==
    /\ zip \in Versions
    /\ cache \in [Versions -> [Files -> Contents]]
    /\ \A v \in Versions \ present : cache[v] = NoFiles
LocalTypes ==
    /\ pc \in [Processes -> Labels]
    /\ bundle \in [Processes -> Versions] /\ key \in [Processes -> Versions]
    /\ at \in [Processes -> Files] /\ opened \in [Processes -> BOOLEAN]
    /\ removed \in [Processes -> SUBSET Files]
    /\ root \in [Processes -> {"none", "cache", "temp"}]
RecordTypes ==
    /\ staged \in [Processes -> [Files -> Contents]]
    /\ torn \subseteq Versions \X Files
    /\ noticed \subseteq Processes /\ disturbed \subseteq Processes
    /\ events \in Nat

LEMMA TypeParts == TypeOK <=> DiskTypes /\ LocalTypes /\ RecordTypes
BY DEF TypeOK, DiskTypes, LocalTypes, RecordTypes

LEMMA NextLocalTypes == TypeOK /\ [Next]_vars => LocalTypes'
<1> SUFFICES ASSUME LocalTypes, zip \in Versions, [Next]_vars PROVE LocalTypes'
  BY TypeParts DEF DiskTypes
<1> USE DEF LocalTypes, locals, Goto, Labels, Ended
<1>1. ASSUME NEW p \in Processes, Deserialize(p) \/ Hash(p) \/ Crash(p) PROVE LocalTypes'
  BY <1>1 DEF Deserialize, Hash, Crash
<1>2. ASSUME NEW p \in Processes, Look(p) PROVE LocalTypes'
  BY <1>2, FilesNumbered, SMTT(30) DEF Look
<1>3. ASSUME NEW p \in Processes, EnsureFile(p) PROVE LocalTypes'
  BY <1>3, FilesNumbered, SMTT(30) DEF EnsureFile, FileDone, LastFile
<1>4. ASSUME NEW p \in Processes, RepairOpen(p) PROVE LocalTypes'
  <2>1. pc' \in [Processes -> Labels]
    BY <1>4 DEF RepairOpen, AfterFailedRepair
  <2>2. opened' \in [Processes -> BOOLEAN]
    BY <1>4 DEF RepairOpen
  <2>3. at' \in [Processes -> Files]
    BY <1>4, FilesNumbered DEF RepairOpen
  <2> QED
    BY <1>4, <2>1, <2>2, <2>3 DEF RepairOpen
<1>5. ASSUME NEW p \in Processes, RepairWrite(p) PROVE LocalTypes'
  <2>1. CASE FileDone(p)
    BY <1>5, <2>1, FilesNumbered, SMTT(30) DEF RepairWrite, FileDone, LastFile
  <2>2. CASE Goto(p, AfterFailedRepair(p)) /\ at' = [at EXCEPT ![p] = 1] /\ root' = root
    BY <1>5, <2>2, FilesNumbered, SMTT(30) DEF RepairWrite, AfterFailedRepair
  <2> QED
    BY <1>5, <2>1, <2>2 DEF RepairWrite
<1>6. ASSUME NEW p \in Processes, LookForManifest(p) \/ LookForDirectory(p) \/ Stage(p)
      PROVE  LocalTypes'
  BY <1>6 DEF LookForManifest, LookForDirectory, Stage
<1>7. ASSUME NEW p \in Processes, RemoveFile(p) \/ RemoveDone(p) PROVE LocalTypes'
  BY <1>7 DEF RemoveFile, RemoveDone
<1>8. ASSUME NEW p \in Processes, Publish(p) \/ PublishFails(p) PROVE LocalTypes'
  BY <1>8 DEF Publish, PublishFails
<1>9. ASSUME NEW p \in Processes, LookAfterLoss(p) PROVE LocalTypes'
  BY <1>9 DEF LookAfterLoss, PublishLost
<1>10. ASSUME NEW p \in Processes, ToTemp(p) \/ Resolve(p) PROVE LocalTypes'
  BY <1>10 DEF ToTemp, Resolve
<1>11. CASE Replace
  BY <1>11 DEF Replace
<1>12. CASE UNCHANGED vars
  BY <1>12 DEF vars
<1> QED
  BY <1>1, <1>2, <1>3, <1>4, <1>5, <1>6, <1>7, <1>8, <1>9, <1>10, <1>11, <1>12 DEF Next, Step

LEMMA NextRecordTypes == TypeOK /\ [Next]_vars => RecordTypes'
<1> SUFFICES ASSUME LocalTypes, RecordTypes, [Next]_vars PROVE RecordTypes'
  BY TypeParts
<1>1. disturbed' \subseteq Processes
  BY DEF RecordTypes, Next, Observe, vars
<1> DEFINE Kept == torn' \subseteq Versions \X Files /\ noticed' \subseteq Processes /\ events' \in Nat
           Same == staged' \in [Processes -> [Files -> Contents]]
<1> USE DEF RecordTypes, history, Event, Succeeds, Fails, Base
<1>2. ASSUME NEW p \in Processes, Deserialize(p) \/ Hash(p) \/ Look(p) \/ EnsureFile(p)
      PROVE  Kept /\ Same
  BY <1>2 DEF Deserialize, Hash, Look, EnsureFile
<1>3. ASSUME NEW p \in Processes, RepairOpen(p) \/ RepairWrite(p) PROVE Kept /\ Same
  <2>1. <<key[p], at[p]>> \in Versions \X Files
    BY DEF LocalTypes
  <2> QED
    BY <1>3, <2>1 DEF RepairOpen, RepairWrite
<1>4. ASSUME NEW p \in Processes,
             LookForManifest(p) \/ LookForDirectory(p) \/ RemoveFile(p) \/ RemoveDone(p)
      PROVE  Kept /\ Same
  BY <1>4 DEF LookForManifest, LookForDirectory, RemoveFile, RemoveDone
<1>5. ASSUME NEW p \in Processes, Stage(p) PROVE Kept /\ Same
  <2>1. bundle[p] \in Contents /\ Partial \in Contents /\ Whole(bundle[p]) \in [Files -> Contents]
    BY ContentsApart DEF LocalTypes
  <2>2. ASSUME NEW cut \in SUBSET Files
        PROVE  [f \in Files |-> IF f \in cut THEN Partial ELSE bundle[p]] \in [Files -> Contents]
    BY <2>1
  <2>3. Same
    BY <1>5, <2>1, <2>2 DEF Stage
  <2>4. Kept
    BY <1>5 DEF Stage
  <2> QED
    BY <2>3, <2>4
<1>6. ASSUME NEW p \in Processes, Publish(p) \/ PublishFails(p) \/ LookAfterLoss(p)
      PROVE  Kept /\ Same
  <2>1. key[p] \in Versions /\ NoFiles \in [Files -> Contents]
    BY ContentsApart DEF LocalTypes
  <2> QED
    BY <1>6, <2>1 DEF Publish, PublishFails, LookAfterLoss
<1>7. ASSUME NEW p \in Processes, ToTemp(p) \/ Resolve(p) PROVE Kept /\ Same
  BY <1>7 DEF ToTemp, Resolve
<1>8. ASSUME NEW p \in Processes, Crash(p) PROVE Kept /\ Same
  <2>1. key[p] \in Versions
    BY DEF LocalTypes
  <2> QED
    BY <1>8, <2>1 DEF Crash
<1>9. ASSUME Replace PROVE Kept /\ Same
  BY <1>9 DEF Replace
<1>10. ASSUME UNCHANGED vars PROVE Kept /\ Same
  BY <1>10 DEF vars
<1>11. Kept /\ Same
  BY <1>2, <1>3, <1>4, <1>5, <1>6, <1>7, <1>8, <1>9, <1>10 DEF Next, Step
<1> QED
  BY <1>1, <1>11

\* Writing, or removing, one file of one version's directory.
LEMMA FileWritten ==
    ASSUME cache \in [Versions -> [Files -> Contents]],
           NEW v \in Versions, NEW f \in Files, NEW c \in Contents,
           cache' = [cache EXCEPT ![v][f] = c]
    PROVE  /\ cache' \in [Versions -> [Files -> Contents]]
           /\ \A w \in Versions : w # v => cache'[w] = cache[w]
           /\ cache'[v][f] = c
           /\ \A g \in Files : g # f => cache'[v][g] = cache[v][g]
<1>1. cache' = [cache EXCEPT ![v] = [cache[v] EXCEPT ![f] = c]]
  OBVIOUS
<1>2. [cache[v] EXCEPT ![f] = c] \in [Files -> Contents]
  OBVIOUS
<1> QED
  BY <1>1, <1>2

\* How a step of p can change what is on disk, action by action.
Written(p, f, c) ==
    /\ \A w \in Versions : w # Base(p) => cache'[w] = cache[w]
    /\ cache'[Base(p)][f] = c
    /\ \A g \in Files : g # f => cache'[Base(p)][g] = cache[Base(p)][g]

LEMMA OpenWrites ==
    ASSUME TypeOK, NEW p \in Processes, RepairOpen(p)
    PROVE  \/ /\ cache' \in [Versions -> [Files -> Contents]] /\ Written(p, at[p], Partial)
              /\ present' = present \cup {Base(p)} /\ opened'[p] /\ pc' = pc /\ at' = at
           \/ /\ cache' = cache /\ present' = present
              /\ opened' = opened /\ pc'[p] = "discard" /\ noticed' = noticed \cup {p}
<1>1. Base(p) \in Versions /\ at[p] \in Files /\ Partial \in Contents
  BY ContentsApart DEF TypeOK, Base
<1>2. CASE cache' = [cache EXCEPT ![Base(p)][at[p]] = Partial]
  BY <1>1, <1>2, FileWritten DEF TypeOK, RepairOpen, Written, Goto, AfterFailedRepair, Fails
<1> QED
  BY <1>2 DEF RepairOpen, Fails, Goto, AfterFailedRepair, TypeOK

LEMMA WriteWrites ==
    ASSUME TypeOK, NEW p \in Processes, RepairWrite(p)
    PROVE  \/ /\ cache' \in [Versions -> [Files -> Contents]] /\ FileDone(p) /\ torn' = torn
              /\ Written(p, at[p], IF Exists(p, at[p]) THEN bundle[p] ELSE Absent)
           \/ /\ cache' = cache /\ FileDone(p) /\ torn' = torn \cup {<<Base(p), at[p]>>}
           \/ /\ cache' = cache /\ pc'[p] = "discard" /\ torn' = torn
              /\ root' = root /\ noticed' = noticed \cup {p}
<1> DEFINE c == IF Exists(p, at[p]) THEN bundle[p] ELSE Absent
<1>1. Base(p) \in Versions /\ at[p] \in Files /\ c \in Contents
  BY ContentsApart DEF TypeOK, Base
<1>2. CASE cache' = [cache EXCEPT ![Base(p)][at[p]] = c] /\ FileDone(p) /\ torn' = torn
  <2>1. cache \in [Versions -> [Files -> Contents]]
    BY DEF TypeOK
  <2> HIDE DEF c
  <2>2. /\ cache' \in [Versions -> [Files -> Contents]] /\ Written(p, at[p], c)
    BY <1>1, <1>2, <2>1, FileWritten DEF Written
  <2> QED
    BY <1>2, <2>2 DEF c
<1>3. CASE Fails(p) /\ Goto(p, AfterFailedRepair(p)) /\ UNCHANGED <<cache, root, torn>>
  BY <1>3 DEF Fails, Goto, AfterFailedRepair, TypeOK
<1> QED
  BY <1>2, <1>3 DEF RepairWrite

LEMMA RemoveWrites ==
    ASSUME TypeOK, NEW p \in Processes, RemoveFile(p)
    PROVE  /\ cache' \in [Versions -> [Files -> Contents]]
           /\ \E f \in Files :
                /\ Exists(p, f) /\ f \notin removed[p]
                /\ Written(p, f, Absent) /\ removed'[p] = removed[p] \cup {f}
<1>1. PICK f \in Files \ removed[p] :
        /\ Exists(p, f)
        /\ cache' = [cache EXCEPT ![Base(p)][f] = Absent]
        /\ removed' = [removed EXCEPT ![p] = @ \cup {f}]
  BY DEF RemoveFile
<1>2. Base(p) \in Versions /\ Absent \in Contents
  BY ContentsApart DEF TypeOK, Base
<1>3. cache \in [Versions -> [Files -> Contents]] /\ removed'[p] = removed[p] \cup {f}
  BY <1>1 DEF TypeOK
<1>4. cache' \in [Versions -> [Files -> Contents]] /\ Written(p, f, Absent)
  BY <1>1, <1>2, <1>3, FileWritten DEF Written
<1> QED
  BY <1>1, <1>3, <1>4

\* No other step touches a directory, but for the two that move one or let it go.
LEMMA OtherStepsKeepDisk ==
    ASSUME NEW p \in Processes,
           \/ Deserialize(p) \/ Hash(p) \/ Look(p) \/ EnsureFile(p)
           \/ LookForManifest(p) \/ LookForDirectory(p) \/ Stage(p) \/ PublishFails(p)
           \/ LookAfterLoss(p) \/ ToTemp(p) \/ Resolve(p) \/ Crash(p)
    PROVE  UNCHANGED <<cache, present, zip>>
BY DEF disk, Deserialize, Hash, Look, EnsureFile, LookForManifest, LookForDirectory, Stage,
   PublishFails, LookAfterLoss, ToTemp, Resolve, Crash

LEMMA NextDiskTypes == TypeOK /\ [Next]_vars => DiskTypes'
<1> SUFFICES ASSUME TypeOK, [Next]_vars PROVE DiskTypes'
  OBVIOUS
<1>1. ASSUME UNCHANGED <<cache, present>>, zip' \in Versions PROVE DiskTypes'
  BY <1>1 DEF DiskTypes, TypeOK
<1>2. ASSUME NEW p \in Processes, RepairOpen(p) PROVE DiskTypes'
  BY <1>1, <1>2, OpenWrites DEF RepairOpen, Written, DiskTypes, TypeOK, Base
<1>3. ASSUME NEW p \in Processes, RepairWrite(p) PROVE DiskTypes'
  <2>1. zip' = zip /\ present' = present
    BY <1>3 DEF RepairWrite
  <2>2. CASE /\ cache' \in [Versions -> [Files -> Contents]]
             /\ Written(p, at[p], IF Exists(p, at[p]) THEN bundle[p] ELSE Absent)
    <3>1. Base(p) \in Versions /\ at[p] \in Files
      BY DEF TypeOK, Base
    <3>2. ASSUME Base(p) \notin present PROVE cache'[Base(p)] = NoFiles
      <4>1. \A f \in Files : cache[Base(p)][f] = Absent
        BY <3>1, <3>2 DEF TypeOK, NoFiles
      <4>2. \A f \in Files : cache'[Base(p)][f] = Absent
        BY <2>2, <3>1, <4>1 DEF Written, Exists
      <4> QED
        BY <2>2, <3>1, <4>2 DEF NoFiles
    <3> QED
      BY <2>1, <2>2, <3>2 DEF Written, DiskTypes, TypeOK
  <2> QED
    BY <1>1, <1>3, <2>1, <2>2, WriteWrites DEF TypeOK
<1>4. ASSUME NEW p \in Processes, RemoveFile(p) PROVE DiskTypes'
  <2>1. PICK f \in Files : Exists(p, f) /\ Written(p, f, Absent)
    BY <1>4, RemoveWrites
  <2>2. Base(p) \in present
    BY <2>1 DEF Exists, TypeOK, Base, NoFiles
  <2> QED
    BY <1>4, <2>1, <2>2, RemoveWrites DEF Written, RemoveFile, DiskTypes, TypeOK
<1>5. ASSUME NEW p \in Processes, RemoveDone(p) PROVE DiskTypes'
  BY <1>5 DEF RemoveDone, DiskTypes, TypeOK
<1>6. ASSUME NEW p \in Processes, Publish(p) PROVE DiskTypes'
  BY <1>6 DEF Publish, DiskTypes, TypeOK, Base
<1>7. CASE Replace
  BY <1>1, <1>7, ConstantsAssumption DEF Replace, Versions, TypeOK
<1>8. CASE UNCHANGED vars
  BY <1>1, <1>8 DEF vars, disk, TypeOK
<1>9. ASSUME NEW p \in Processes, UNCHANGED <<cache, present, zip>> PROVE DiskTypes'
  BY <1>1, <1>9 DEF TypeOK
<1> QED
  BY <1>2, <1>3, <1>4, <1>5, <1>6, <1>7, <1>8, <1>9, OtherStepsKeepDisk DEF Next, Step

LEMMA NextType == TypeOK /\ [Next]_vars => TypeOK'
BY NextLocalTypes, NextRecordTypes, NextDiskTypes, TypeParts
   DEF TypeOK, DiskTypes, LocalTypes, RecordTypes

-----------------------------------------------------------------------------
(* The locals                                                              *)

\* A step of one process leaves the others where they are.
LEMMA OthersStay ==
    ASSUME TypeOK, NEW p \in Processes, Deserialize(p) \/ Step(p) \/ Crash(p),
           NEW q \in Processes, q # p
    PROVE  /\ pc'[q] = pc[q] /\ bundle'[q] = bundle[q] /\ key'[q] = key[q]
           /\ at'[q] = at[q] /\ opened'[q] = opened[q] /\ removed'[q] = removed[q]
           /\ root'[q] = root[q] /\ staged'[q] = staged[q]
<1> USE DEF TypeOK, Goto, locals
<1>1. CASE Deserialize(p) \/ Hash(p) \/ Look(p) \/ LookForManifest(p) \/ LookForDirectory(p)
           \/ PublishFails(p) \/ Resolve(p) \/ Crash(p)
  BY <1>1 DEF Deserialize, Hash, Look, LookForManifest, LookForDirectory, PublishFails, Resolve,
     Crash
<1>2. CASE EnsureFile(p)
  BY <1>2 DEF EnsureFile, FileDone
<1>3. CASE RepairOpen(p)
  BY <1>3 DEF RepairOpen
<1>4. CASE RepairWrite(p)
  <2>1. CASE FileDone(p)
    BY <1>4, <2>1 DEF RepairWrite, FileDone
  <2>2. CASE Goto(p, AfterFailedRepair(p)) /\ at' = [at EXCEPT ![p] = 1] /\ root' = root
    BY <1>4, <2>2 DEF RepairWrite
  <2> QED
    BY <1>4, <2>1, <2>2 DEF RepairWrite
<1>5. CASE RemoveFile(p) \/ RemoveDone(p)
  BY <1>5 DEF RemoveFile, RemoveDone
<1>6. CASE Stage(p)
  BY <1>6 DEF Stage
<1>7. CASE Publish(p) \/ LookAfterLoss(p) \/ ToTemp(p)
  BY <1>7 DEF Publish, LookAfterLoss, ToTemp
<1> QED
  BY <1>1, <1>2, <1>3, <1>4, <1>5, <1>6, <1>7 DEF Step

\* Once a process has hashed the zip, its directory and its bundle are settled.
LEMMA HashedStays ==
    ASSUME TypeOK, [Next]_vars, NEW q \in Processes, pc[q] \notin {"idle", "hash"}
    PROVE  pc'[q] \notin {"idle", "hash"} /\ key'[q] = key[q] /\ bundle'[q] = bundle[q]
<1>1. ASSUME Deserialize(q) \/ Step(q) \/ Crash(q)
      PROVE  pc'[q] \notin {"idle", "hash"} /\ key'[q] = key[q] /\ bundle'[q] = bundle[q]
  <2> USE DEF TypeOK, Goto, locals
  <2>1. CASE Look(q) \/ LookForManifest(q) \/ LookForDirectory(q)
             \/ PublishFails(q) \/ Resolve(q) \/ Crash(q)
    BY <2>1 DEF Look, LookForManifest, LookForDirectory, PublishFails, Resolve, Crash
  <2>2. CASE EnsureFile(q)
    BY <2>2 DEF EnsureFile, FileDone
  <2>3. CASE RepairOpen(q)
    BY <2>3 DEF RepairOpen, AfterFailedRepair
  <2>4. CASE RepairWrite(q)
    <3>1. CASE FileDone(q)
      BY <2>4, <3>1 DEF RepairWrite, FileDone
    <3>2. CASE Goto(q, AfterFailedRepair(q))
      BY <2>4, <3>2 DEF RepairWrite, AfterFailedRepair
    <3> QED
      BY <2>4, <3>1, <3>2 DEF RepairWrite
  <2>5. CASE RemoveFile(q) \/ RemoveDone(q)
    BY <2>5 DEF RemoveFile, RemoveDone
  <2>6. CASE Stage(q)
    BY <2>6 DEF Stage
  <2>7. CASE Publish(q) \/ LookAfterLoss(q) \/ ToTemp(q)
    BY <2>7 DEF Publish, LookAfterLoss, PublishLost, ToTemp
  <2>8. ~Deserialize(q) /\ ~Hash(q)
    BY DEF Deserialize, Hash
  <2> QED
    BY <1>1, <2>1, <2>2, <2>3, <2>4, <2>5, <2>6, <2>7, <2>8 DEF Step
<1>2. ASSUME NEW p \in Processes, p # q, Deserialize(p) \/ Step(p) \/ Crash(p)
      PROVE  pc'[q] \notin {"idle", "hash"} /\ key'[q] = key[q] /\ bundle'[q] = bundle[q]
  BY <1>2, OthersStay
<1>3. ASSUME Replace \/ UNCHANGED vars PROVE pc' = pc /\ key' = key /\ bundle' = bundle
  BY <1>3 DEF Replace, vars, locals
<1> QED
  BY <1>1, <1>2, <1>3 DEF Next

LEMMA MisnamedStays ==
    ASSUME TypeOK, [Next]_vars, NEW v \in Versions, Misnamed(v)
    PROVE  Misnamed(v)'
<1>1. PICK q \in Processes : pc[q] \notin {"idle", "hash"} /\ Base(q) = v /\ bundle[q] # v
  BY DEF Misnamed
<1>2. pc'[q] \notin {"idle", "hash"} /\ key'[q] = key[q] /\ bundle'[q] = bundle[q]
  BY <1>1, HashedStays
<1> QED
  BY <1>1, <1>2 DEF Misnamed, Base

\* Local state is reset before the step that needs it fresh.
LEMMA IdleNext == TypeOK /\ LocalsIdle /\ [Next]_vars => LocalsIdle'
<1> SUFFICES ASSUME TypeOK, LocalsIdle, [Next]_vars PROVE LocalsIdle'
  OBVIOUS
<1>1. ASSUME NEW p \in Processes, Deserialize(p) \/ Step(p) \/ Crash(p) PROVE LocalsIdle'
  <2>1. /\ opened'[p] => pc'[p] \in {"repair", "crashed"}
        /\ removed'[p] # {} => pc'[p] \in {"discard", "clear", "crashed"}
        /\ root'[p] # "none" => pc'[p] \in {"resolve"} \cup Ended
    <3>0. /\ opened[p] => pc[p] \in {"repair", "crashed"}
          /\ removed[p] # {} => pc[p] \in {"discard", "clear", "crashed"}
          /\ root[p] # "none" => pc[p] \in {"resolve"} \cup Ended
      BY DEF LocalsIdle
    <3> USE DEF TypeOK, Goto, locals, Ended
    <3>1. CASE Deserialize(p) \/ Hash(p) \/ Look(p) \/ LookForManifest(p) \/ LookForDirectory(p)
               \/ PublishFails(p) \/ Resolve(p)
      BY <3>0, <3>1 DEF Deserialize, Hash, Look, LookForManifest, LookForDirectory, PublishFails,
         Resolve
    <3>2. CASE EnsureFile(p)
      BY <3>0, <3>2 DEF EnsureFile, FileDone
    <3>3. CASE RepairOpen(p)
      BY <3>0, <3>3 DEF RepairOpen
    <3>4. CASE RepairWrite(p)
      <4>1. CASE FileDone(p)
        BY <3>0, <3>4, <4>1 DEF RepairWrite, FileDone
      <4>2. CASE Goto(p, AfterFailedRepair(p)) /\ root' = root
        BY <3>0, <3>4, <4>2 DEF RepairWrite
      <4> QED
        BY <3>4, <4>1, <4>2 DEF RepairWrite
    <3>5. CASE RemoveFile(p) \/ RemoveDone(p)
      BY <3>0, <3>5 DEF RemoveFile, RemoveDone
    <3>6. CASE Stage(p)
      BY <3>0, <3>6 DEF Stage
    <3>7. CASE Publish(p) \/ LookAfterLoss(p) \/ ToTemp(p)
      BY <3>0, <3>7 DEF Publish, LookAfterLoss, PublishLost, ToTemp
    <3>8. CASE Crash(p)
      BY <3>0, <3>8 DEF Crash
    <3> QED
      BY <1>1, <3>1, <3>2, <3>3, <3>4, <3>5, <3>6, <3>7, <3>8 DEF Step
  <2>2. ASSUME NEW q \in Processes, q # p
        PROVE  /\ pc'[q] = pc[q] /\ opened'[q] = opened[q] /\ removed'[q] = removed[q]
               /\ root'[q] = root[q]
    BY <1>1, <2>2, OthersStay
  <2> QED
    BY <2>1, <2>2 DEF LocalsIdle
<1>2. CASE Replace \/ UNCHANGED vars
  BY <1>2 DEF Replace, vars, locals, LocalsIdle
<1> QED
  BY <1>1, <1>2 DEF Next

LEMMA StagedNext == TypeOK /\ StagedOwn /\ [Next]_vars => StagedOwn'
<1> SUFFICES ASSUME TypeOK, StagedOwn, [Next]_vars PROVE StagedOwn'
  OBVIOUS
<1>1. ASSUME NEW p \in Processes, Deserialize(p) \/ Step(p) \/ Crash(p) PROVE StagedOwn'
  <2>1. pc'[p] # "publish" \/ Stage(p)
    <3> USE DEF TypeOK, Goto
    <3>1. CASE Deserialize(p) \/ Hash(p) \/ Look(p) \/ LookForManifest(p) \/ LookForDirectory(p)
               \/ PublishFails(p) \/ Resolve(p) \/ Crash(p)
      BY <3>1 DEF Deserialize, Hash, Look, LookForManifest, LookForDirectory, PublishFails,
         Resolve, Crash
    <3>2. CASE EnsureFile(p)
      BY <3>2 DEF EnsureFile, FileDone
    <3>3. CASE RepairOpen(p)
      BY <3>3 DEF RepairOpen, AfterFailedRepair
    <3>4. CASE RepairWrite(p)
      BY <3>4 DEF RepairWrite, FileDone, AfterFailedRepair
    <3>5. CASE RemoveFile(p) \/ RemoveDone(p)
      BY <3>5 DEF RemoveFile, RemoveDone
    <3>6. CASE Publish(p) \/ LookAfterLoss(p) \/ ToTemp(p)
      BY <3>6 DEF Publish, LookAfterLoss, PublishLost, ToTemp
    <3> QED
      BY <1>1, <3>1, <3>2, <3>3, <3>4, <3>5, <3>6 DEF Step
  <2>2. ASSUME Stage(p), pc'[p] = "publish", NEW f \in Files
        PROVE  staged'[p][f] \in {Partial, bundle'[p]}
    <3>1. bundle' = bundle
      BY <2>2 DEF Stage, locals
    <3>2. CASE staged' = [staged EXCEPT ![p] = Whole(bundle[p])]
      BY <3>1, <3>2 DEF TypeOK, Whole
    <3>3. ASSUME NEW cut \in SUBSET Files,
                 staged' = [staged EXCEPT ![p] =
                               [g \in Files |-> IF g \in cut THEN Partial ELSE bundle[p]]]
          PROVE  staged'[p][f] \in {Partial, bundle'[p]}
      BY <3>1, <3>3 DEF TypeOK
    <3>4. CASE Goto(p, "temp")
      BY <2>2, <3>4 DEF Goto, TypeOK
    <3> QED
      BY <2>2, <3>2, <3>3, <3>4 DEF Stage
  <2>3. ASSUME NEW q \in Processes, q # p
        PROVE  pc'[q] = pc[q] /\ staged'[q] = staged[q] /\ bundle'[q] = bundle[q]
    BY <1>1, <2>3, OthersStay
  <2> QED
    BY <2>1, <2>2, <2>3 DEF StagedOwn
<1>2. CASE Replace \/ UNCHANGED vars
  BY <1>2 DEF Replace, vars, locals, StagedOwn
<1> QED
  BY <1>1, <1>2 DEF Next

-----------------------------------------------------------------------------
(* The directories                                                         *)

\* Whoever meets another is noted in the step that makes them meet.
LEMMA MeetingsNext == MeetingsSeen /\ [Next]_vars => MeetingsSeen'
<1>1. Observe => MeetingsSeen'
  BY DEF Observe, MeetingsSeen
<1>2. ASSUME MeetingsSeen, UNCHANGED vars PROVE MeetingsSeen'
  BY <1>2 DEF MeetingsSeen, Meet, Base, AtDirectory, InPlace, vars, locals
<1> QED
  BY <1>1, <1>2 DEF Next

\* Whoever is undisturbed has met nobody.
LEMMA Undisturbed ==
    ASSUME MeetingsSeen, [Next]_vars, NEW p \in Processes, p \notin disturbed'
    PROVE  p \notin disturbed /\ \A q \in Processes : ~Meet(p, q)
<1>1. disturbed \subseteq disturbed'
  BY DEF Next, Observe, vars
<1> QED
  BY <1>1 DEF MeetingsSeen

LEMMA NamedNext ==
    TypeOK /\ StagedOwn /\ NamedRight /\ [Next]_vars => NamedRight'
<1> SUFFICES ASSUME TypeOK, StagedOwn, NamedRight, [Next]_vars,
                    NEW v \in Versions, NEW f \in Files,
                    cache'[v][f] \in Versions, cache'[v][f] # v
             PROVE  Misnamed(v)'
  BY DEF NamedRight
<1>1. CASE cache'[v][f] = cache[v][f]
  BY <1>1, MisnamedStays DEF NamedRight
<1>2. ASSUME NEW p \in Processes, Base(p) = v, cache'[v][f] = bundle[p],
             pc[p] \notin {"idle", "hash"}
      PROVE  Misnamed(v)'
  BY <1>2, MisnamedStays DEF Misnamed
<1>3. ASSUME NEW p \in Processes, RepairOpen(p) PROVE Misnamed(v)'
  <2>1. at[p] \in Files /\ Base(p) \in Versions
    BY DEF TypeOK, Base
  <2> QED
    BY <1>1, <1>3, <2>1, OpenWrites, ContentsApart DEF Written
<1>4. ASSUME NEW p \in Processes, RepairWrite(p) PROVE Misnamed(v)'
  <2>1. at[p] \in Files /\ Base(p) \in Versions /\ pc[p] = "repair"
    BY <1>4 DEF TypeOK, Base, RepairWrite
  <2> QED
    BY <1>1, <1>2, <1>4, <2>1, WriteWrites, ContentsApart DEF Written
<1>5. ASSUME NEW p \in Processes, RemoveFile(p) PROVE Misnamed(v)'
  <2>1. Base(p) \in Versions
    BY DEF TypeOK, Base
  <2> QED
    BY <1>1, <1>5, <2>1, RemoveWrites, ContentsApart DEF Written
<1>6. ASSUME NEW p \in Processes, Publish(p) PROVE Misnamed(v)'
  <2>1. /\ cache' = [cache EXCEPT ![Base(p)] = staged[p]] /\ pc[p] = "publish"
        /\ Base(p) \in Versions
    BY <1>6 DEF Publish, TypeOK, Base
  <2>2. staged[p][f] \in {Partial, bundle[p]}
    BY <2>1 DEF StagedOwn
  <2>3. CASE v = Base(p)
    <3>1. cache'[v][f] = staged[p][f]
      BY <2>1, <2>3 DEF TypeOK
    <3> QED
      BY <1>2, <2>1, <2>2, <2>3, <3>1, ContentsApart
  <2>4. CASE v # Base(p)
    BY <1>1, <2>1, <2>4 DEF TypeOK
  <2> QED
    BY <2>3, <2>4
<1>7. ASSUME cache' = cache PROVE Misnamed(v)'
  BY <1>1, <1>7
<1>8. ASSUME Replace \/ UNCHANGED vars PROVE cache' = cache
  BY <1>8 DEF Replace, vars, disk
<1>9. ASSUME NEW p \in Processes, RemoveDone(p) PROVE cache' = cache
  BY <1>9 DEF RemoveDone
<1> QED
  BY <1>3, <1>4, <1>5, <1>6, <1>7, <1>8, <1>9, OtherStepsKeepDisk DEF Next, Step

LEMMA CutNext ==
    TypeOK /\ LocalsIdle /\ CutKnown /\ [Next]_vars => CutKnown'
<1> SUFFICES ASSUME TypeOK, LocalsIdle, CutKnown, [Next]_vars,
                    NEW v \in Versions, NEW f \in Files, cache'[v][f] = Partial
             PROVE  \/ <<v, f>> \in torn'
                    \/ \E q \in Processes : Base(q)' = v /\ AtWorkOn(q, f)'
  BY DEF CutKnown
<1> DEFINE Known == \/ <<v, f>> \in torn'
                    \/ \E q \in Processes : Base(q)' = v /\ AtWorkOn(q, f)'
<1>1. ASSUME NEW p \in Processes, Deserialize(p) \/ Step(p) \/ Crash(p), torn \subseteq torn',
             cache[v][f] = Partial,
             Base(p) = v /\ AtWorkOn(p, f) =>
                 <<v, f>> \in torn' \/ (Base(p)' = v /\ AtWorkOn(p, f)')
      PROVE  Known
  <2>1. CASE <<v, f>> \in torn
    BY <1>1, <2>1
  <2>2. ASSUME NEW q \in Processes, q # p, Base(q) = v, AtWorkOn(q, f)
        PROVE  Base(q)' = v /\ AtWorkOn(q, f)'
    BY <1>1, <2>2, OthersStay DEF Base, AtWorkOn
  <2> QED
    BY <1>1, <2>1, <2>2 DEF CutKnown
<1> HIDE DEF Known
<1>2. ASSUME NEW p \in Processes,
             \/ Deserialize(p) \/ Hash(p) \/ Look(p) \/ EnsureFile(p) \/ LookForManifest(p)
             \/ LookForDirectory(p) \/ Stage(p) \/ PublishFails(p) \/ LookAfterLoss(p)
             \/ ToTemp(p) \/ Resolve(p)
      PROVE  Known
  <2>1. cache' = cache
    BY <1>2, OtherStepsKeepDisk
  <2>2. torn' = torn /\ pc[p] \notin {"repair", "discard"}
    BY <1>2 DEF history, Deserialize, Hash, Look, EnsureFile, LookForManifest, LookForDirectory,
       Stage, PublishFails, LookAfterLoss, ToTemp, Resolve
  <2> QED
    BY <1>1, <1>2, <2>1, <2>2 DEF Step, AtWorkOn
<1>3. ASSUME NEW p \in Processes, RepairOpen(p) PROVE Known
  <2>1. /\ torn' = torn /\ key' = key /\ pc[p] = "repair" /\ ~opened[p]
        /\ at[p] \in Files /\ Base(p) \in Versions
    BY <1>3 DEF RepairOpen, TypeOK, Base
  <2>2. CASE Written(p, at[p], Partial) /\ opened'[p] /\ pc' = pc /\ at' = at
    <3>1. CASE v = Base(p) /\ f = at[p]
      BY <2>1, <2>2, <3>1 DEF AtWorkOn, Base, Known
    <3>2. CASE ~(v = Base(p) /\ f = at[p])
      <4>1. cache[v][f] = Partial
        BY <2>1, <2>2, <3>2 DEF Written
      <4>2. ~(Base(p) = v /\ AtWorkOn(p, f))
        BY <2>1 DEF AtWorkOn
      <4> QED
        BY <1>1, <1>3, <2>1, <4>1, <4>2 DEF Step
    <3> QED
      BY <3>1, <3>2
  <2>3. CASE cache' = cache
    <3>1. ~AtWorkOn(p, f)
      BY <2>1 DEF AtWorkOn
    <3> QED
      BY <1>1, <1>3, <2>1, <2>3, <3>1 DEF Step
  <2> QED
    BY <1>3, <2>2, <2>3, OpenWrites
<1>4. ASSUME NEW p \in Processes, RepairWrite(p) PROVE Known
  <2>1. /\ key' = key /\ removed' = removed /\ pc[p] = "repair" /\ opened[p]
        /\ at[p] \in Files /\ Base(p) \in Versions /\ bundle[p] \in Versions
    BY <1>4 DEF RepairWrite, TypeOK, Base
  <2>2. AtWorkOn(p, f) => f = at[p]
    BY <2>1 DEF AtWorkOn
  <2>3. CASE /\ torn' = torn
             /\ Written(p, at[p], IF Exists(p, at[p]) THEN bundle[p] ELSE Absent)
    <3>1. ~(Base(p) = v /\ f = at[p])
      BY <2>1, <2>3, ContentsApart DEF Written
    <3>2. cache[v][f] = Partial
      BY <2>1, <2>3, <3>1 DEF Written
    <3> QED
      BY <1>1, <1>4, <2>2, <2>3, <3>1, <3>2 DEF Step
  <2>4. CASE cache' = cache /\ torn' = torn \cup {<<Base(p), at[p]>>}
    BY <1>1, <1>4, <2>2, <2>4 DEF Step
  <2>5. CASE cache' = cache /\ pc'[p] = "discard" /\ torn' = torn
    <3>1. removed'[p] = {}
      BY <2>1 DEF LocalsIdle
    <3>2. AtWorkOn(p, f)' /\ Base(p)' = Base(p)
      BY <2>1, <2>5, <3>1 DEF AtWorkOn, Base
    <3> QED
      BY <1>1, <1>4, <2>5, <3>2 DEF Step
  <2> QED
    BY <1>4, <2>3, <2>4, <2>5, WriteWrites
<1>5. ASSUME NEW p \in Processes, RemoveFile(p) PROVE Known
  <2>1. torn' = torn /\ key' = key /\ pc' = pc /\ opened' = opened /\ at' = at
        /\ Base(p) \in Versions /\ pc[p] \in {"discard", "clear"}
    BY <1>5 DEF RemoveFile, history, TypeOK, Base
  <2>2. PICK g \in Files : Written(p, g, Absent) /\ removed'[p] = removed[p] \cup {g}
    BY <1>5, RemoveWrites
  <2>3. ~(Base(p) = v /\ f = g)
    BY <2>1, <2>2, ContentsApart DEF Written
  <2>4. cache[v][f] = Partial
    BY <2>1, <2>2, <2>3 DEF Written
  <2>5. Base(p) = v /\ AtWorkOn(p, f) => Base(p)' = v /\ AtWorkOn(p, f)'
    BY <2>1, <2>2, <2>3 DEF AtWorkOn, Base
  <2> QED
    BY <1>1, <1>5, <2>1, <2>4, <2>5 DEF Step
<1>6. ASSUME NEW p \in Processes, RemoveDone(p) PROVE Known
  <2>1. torn' = torn /\ cache' = cache /\ pc[p] \in {"discard", "clear"}
    BY <1>6 DEF RemoveDone, history
  <2>2. ~(Base(p) = v /\ AtWorkOn(p, f))
    BY <1>6, <2>1, ContentsApart DEF RemoveDone, AtWorkOn, Exists
  <2> QED
    BY <1>1, <1>6, <2>1, <2>2 DEF Step
<1>7. ASSUME NEW p \in Processes, Publish(p) PROVE Known
  <2>1. /\ cache' = [cache EXCEPT ![Base(p)] = staged[p]] /\ pc[p] = "publish"
        /\ torn' = torn \cup {<<Base(p), g>> : g \in {h \in Files : staged[p][h] = Partial}}
        /\ Base(p) \in Versions
    BY <1>7 DEF Publish, TypeOK, Base
  <2>2. CASE v = Base(p)
    <3>1. staged[p][f] = Partial
      BY <2>1, <2>2 DEF TypeOK
    <3> QED
      BY <2>1, <2>2, <3>1 DEF Known
  <2>3. CASE v # Base(p)
    BY <1>1, <1>7, <2>1, <2>3 DEF TypeOK, Step
  <2> QED
    BY <2>2, <2>3
<1>8. ASSUME NEW p \in Processes, Crash(p) PROVE Known
  <2>1. cache' = cache
    BY <1>8, OtherStepsKeepDisk
  <2>2. torn' = torn \cup {<<Base(p), g>> : g \in {h \in Files : AtWorkOn(p, h)}}
    BY <1>8 DEF Crash
  <2> QED
    BY <1>1, <1>8, <2>1, <2>2
<1>9. ASSUME Replace \/ UNCHANGED vars PROVE Known
  <2>1. UNCHANGED <<cache, torn, key, pc, opened, at, removed>>
    BY <1>9 DEF Replace, vars, locals, disk, history
  <2>2. <<v, f>> \in torn \/ \E q \in Processes : Base(q) = v /\ AtWorkOn(q, f)
    BY <2>1 DEF CutKnown
  <2> QED
    BY <2>1, <2>2 DEF AtWorkOn, Base, Known
<1>10. ASSUME NEW p \in Processes, Deserialize(p) \/ Step(p) \/ Crash(p) PROVE Known
  BY <1>2, <1>3, <1>4, <1>5, <1>6, <1>7, <1>8, <1>10 DEF Step
<1>11. Known
  BY <1>9, <1>10 DEF Next
<1> QED
  BY <1>11 DEF Known

-----------------------------------------------------------------------------
(* What an undisturbed process knows                                       *)

\* The step that a process takes itself, away from others.
LEMMA OwnStep ==
    ASSUME TypeOK, LocalsIdle, StagedOwn, NEW p \in Processes,
           Deserialize(p) \/ Step(p) \/ Crash(p),
           AtDirectory(p) => AtWork(p), AtDirectory(p)'
    PROVE  AtWork(p)'
<1> USE DEF TypeOK, Goto, locals, Base, Exists, AllExist
<1>0. /\ opened[p] => pc[p] \in {"repair", "crashed"}
      /\ removed[p] # {} => pc[p] \in {"discard", "clear", "crashed"}
      /\ at[p] \in Files /\ key[p] \in Versions /\ bundle[p] \in Versions
  BY DEF LocalsIdle
<1>1. CASE Deserialize(p) \/ Hash(p) \/ Crash(p) \/ ToTemp(p)
  BY <1>1 DEF Deserialize, Hash, Crash, ToTemp, AtDirectory, InPlace
<1>2. CASE Look(p)
  BY <1>0, <1>2, ConstantsAssumption DEF Look, AtWork, disk, Files
<1>3. CASE EnsureFile(p)
  <2>1. \A f \in Files : f < at[p] => Exists(p, f)
    BY <1>3 DEF EnsureFile, AtDirectory, AtWork
  <2>2. cache' = cache /\ key' = key /\ opened' = opened
    BY <1>3 DEF EnsureFile, disk
  <2>3. CASE Exists(p, at[p]) /\ LastFile(p)
    <3>1. pc'[p] = "resolve"
      BY <1>3, <2>3 DEF EnsureFile, FileDone
    <3>2. AllExist(p)
      BY <1>0, <2>1, <2>3, ConstantsAssumption DEF LastFile, Files
    <3> QED
      BY <2>2, <3>1, <3>2 DEF AtWork
  <2>4. CASE Exists(p, at[p]) /\ ~LastFile(p)
    <3>1. pc'[p] = "ensure" /\ at'[p] = at[p] + 1
      BY <1>3, <2>4 DEF EnsureFile, FileDone
    <3>2. \A f \in Files : f < at[p] + 1 => Exists(p, f)
      BY <1>0, <2>1, <2>4 DEF Files
    <3> QED
      BY <2>2, <3>1, <3>2 DEF AtWork
  <2>5. CASE ~Exists(p, at[p])
    <3>1. pc'[p] = "repair" /\ at'[p] = 1 /\ ~opened'[p]
      BY <1>0, <1>3, <2>2, <2>5 DEF EnsureFile
    <3> QED
      BY <3>1 DEF AtWork, Files
  <2> QED
    BY <2>3, <2>4, <2>5
<1>4. CASE RepairOpen(p)
  <2>1. /\ key' = key /\ removed' = removed /\ pc[p] = "repair" /\ ~opened[p]
        /\ \A f \in Files : f < at[p] => Exists(p, f)
    BY <1>4 DEF RepairOpen, AtDirectory, InPlace, AtWork
  <2>2. CASE Written(p, at[p], Partial) /\ pc' = pc /\ at' = at
    <3>1. \A f \in Files : f < at[p] \/ f = at[p] => cache'[key[p]][f] # Absent
      BY <1>0, <2>1, <2>2, ContentsApart DEF Written
    <3> QED
      BY <2>1, <2>2, <3>1 DEF AtWork
  <2>3. CASE pc'[p] = "discard"
    BY <1>0, <2>1, <2>3 DEF AtWork
  <2> QED
    BY <1>4, <2>2, <2>3, OpenWrites
<1>5. CASE RepairWrite(p)
  <2>1. /\ key' = key /\ removed' = removed /\ pc[p] = "repair" /\ opened[p] /\ ~opened'[p]
        /\ \A f \in Files : f < at[p] \/ f = at[p] => Exists(p, f)
    BY <1>5 DEF RepairWrite, AtDirectory, InPlace, AtWork
  <2>2. ASSUME FileDone(p), \A f \in Files : f < at[p] \/ f = at[p] => cache'[key[p]][f] # Absent
        PROVE  AtWork(p)'
    <3>1. CASE LastFile(p)
      <4>1. pc'[p] = "resolve"
        BY <2>2, <3>1 DEF FileDone
      <4>2. \A f \in Files : cache'[key[p]][f] # Absent
        BY <1>0, <2>2, <3>1, ConstantsAssumption DEF LastFile, Files
      <4> QED
        BY <2>1, <4>1, <4>2 DEF AtWork
    <3>2. CASE ~LastFile(p)
      <4>1. pc' = pc /\ at'[p] = at[p] + 1
        BY <2>2, <3>2 DEF FileDone
      <4>2. \A f \in Files : f < at[p] + 1 => cache'[key[p]][f] # Absent
        BY <1>0, <2>2 DEF Files
      <4> QED
        BY <2>1, <4>1, <4>2 DEF AtWork
    <3> QED
      BY <3>1, <3>2
  <2>3. CASE FileDone(p) /\ Written(p, at[p], IF Exists(p, at[p]) THEN bundle[p] ELSE Absent)
    <3>1. cache'[key[p]][at[p]] = bundle[p]
      BY <1>0, <2>1, <2>3 DEF Written
    <3>2. \A f \in Files : f # at[p] => cache'[key[p]][f] = cache[key[p]][f]
      BY <2>3 DEF Written
    <3> QED
      BY <1>0, <2>1, <2>2, <2>3, <3>1, <3>2, ContentsApart
  <2>4. CASE FileDone(p) /\ cache' = cache
    BY <2>1, <2>2, <2>4
  <2>5. CASE pc'[p] = "discard"
    BY <1>0, <2>1, <2>5 DEF AtWork
  <2> QED
    BY <1>5, <2>3, <2>4, <2>5, WriteWrites
<1>6. CASE LookForManifest(p) \/ LookForDirectory(p)
  BY <1>0, <1>6 DEF LookForManifest, LookForDirectory, disk, AtDirectory, InPlace, AtWork
<1>7. CASE RemoveFile(p)
  <2>1. /\ key' = key /\ pc' = pc /\ pc[p] \in {"discard", "clear"}
        /\ \A f \in removed[p] : cache[key[p]][f] = Absent
    BY <1>7 DEF RemoveFile, AtDirectory, InPlace, AtWork
  <2>2. PICK g \in Files : Written(p, g, Absent) /\ removed'[p] = removed[p] \cup {g}
    BY <1>7, RemoveWrites
  <2>3. \A f \in removed'[p] : cache'[key[p]][f] = Absent
    BY <2>1, <2>2 DEF Written
  <2> QED
    BY <2>1, <2>3 DEF AtWork
<1>8. CASE RemoveDone(p)
  <2>1. /\ key' = key /\ cache' = cache /\ pc[p] \in {"discard", "clear"}
        /\ \A f \in Files : cache[key[p]][f] = Absent
    BY <1>8 DEF RemoveDone, AtDirectory, InPlace, AtWork
  <2>2. cache[key[p]] = NoFiles
    BY <1>0, <2>1 DEF NoFiles
  <2>3. key[p] \notin present'
    BY <1>8, <2>2 DEF RemoveDone
  <2>4. pc'[p] \in {"orphan", "stage"}
    BY <1>8 DEF RemoveDone
  <2> QED
    BY <2>1, <2>3, <2>4, FilesNumbered DEF AtWork
<1>9. CASE Stage(p) \/ PublishFails(p)
  BY <1>9 DEF Stage, PublishFails, disk, AtDirectory, InPlace, AtWork
<1>10. CASE Publish(p)
  <2>1. \A f \in Files : cache'[key[p]][f] # Absent
    BY <1>0, <1>10, ContentsApart DEF Publish, StagedOwn
  <2> QED
    BY <1>10, <2>1 DEF Publish, AtWork
<1>11. CASE LookAfterLoss(p)
  BY <1>0, <1>11, FilesNumbered DEF LookAfterLoss, PublishLost, disk, AtDirectory, InPlace, AtWork
<1>12. CASE Resolve(p)
  BY <1>12 DEF Resolve, disk, AtDirectory, InPlace, AtWork
<1> QED
  BY <1>1, <1>2, <1>3, <1>4, <1>5, <1>6, <1>7, <1>8, <1>9, <1>10, <1>11, <1>12 DEF Step

\* What a step of p, who changes nothing in place, does to the directory of another one.
LEMMA OtherDirectory ==
    ASSUME TypeOK, NEW p \in Processes, Deserialize(p) \/ Step(p) \/ Crash(p),
           NEW v \in Versions, Base(p) = v => ~InPlace(p)
    PROVE  \/ cache'[v] = cache[v] /\ (v \in present' <=> v \in present)
           \/ Publish(p) /\ Base(p) = v
<1>1. Base(p) \in Versions /\ at[p] \in Files
  BY DEF TypeOK, Base
<1>2. CASE RepairOpen(p)
  BY <1>1, <1>2, OpenWrites DEF Written, RepairOpen, InPlace
<1>3. CASE RepairWrite(p)
  BY <1>1, <1>3, WriteWrites DEF Written, RepairWrite, InPlace
<1>4. CASE RemoveFile(p)
  BY <1>1, <1>4, RemoveWrites DEF Written, RemoveFile, InPlace
<1>5. CASE RemoveDone(p)
  BY <1>1, <1>5 DEF RemoveDone, InPlace
<1>6. CASE Publish(p)
  BY <1>1, <1>6 DEF Publish, TypeOK
<1> QED
  BY <1>2, <1>3, <1>4, <1>5, <1>6, OtherStepsKeepDisk DEF Step

\* What one knows stays as long as the directory does, or when somebody moves a whole one there.
LEMMA KnownStays ==
    ASSUME NEW q \in Processes, AtWork(q), Base(q)' = Base(q), pc'[q] = pc[q], at'[q] = at[q],
           opened'[q] = opened[q], removed'[q] = removed[q],
           \/ cache'[Base(q)] = cache[Base(q)] /\ (Base(q) \in present' <=> Base(q) \in present)
           \/ AllExist(q)' /\ ~InPlace(q)
    PROVE  AtWork(q)'
<1>1. CASE cache'[Base(q)] = cache[Base(q)] /\ (Base(q) \in present' <=> Base(q) \in present)
  <2>1. \A f \in Files : Exists(q, f)' <=> Exists(q, f)
    BY <1>1 DEF Exists
  <2>2. \A f : (cache'[Base(q)][f] # Absent) <=> (cache[Base(q)][f] # Absent)
    BY <1>1
  <2> QED
    BY <1>1, <2>1, <2>2 DEF AtWork, AllExist, Exists
<1>2. CASE AllExist(q)' /\ ~InPlace(q)
  BY <1>2 DEF AtWork, AllExist, InPlace
<1> QED
  BY <1>1, <1>2

LEMMA InUseNext ==
    TypeOK /\ LocalsIdle /\ StagedOwn /\ MeetingsSeen /\ InUse /\ [Next]_vars => InUse'
<1> SUFFICES ASSUME TypeOK, LocalsIdle, StagedOwn, MeetingsSeen, InUse, [Next]_vars,
                    NEW q \in Processes, AtDirectory(q)', q \notin disturbed'
             PROVE  AtWork(q)'
  BY DEF InUse
<1>1. q \notin disturbed /\ \A p \in Processes : ~Meet(q, p)
  BY Undisturbed
<1>2. AtDirectory(q) => AtWork(q)
  BY <1>1 DEF InUse
<1>3. CASE Deserialize(q) \/ Step(q) \/ Crash(q)
  BY <1>2, <1>3, OwnStep
<1>4. ASSUME NEW p \in Processes, p # q, Deserialize(p) \/ Step(p) \/ Crash(p)
      PROVE  AtWork(q)'
  <2>1. /\ pc'[q] = pc[q] /\ Base(q)' = Base(q) /\ at'[q] = at[q] /\ opened'[q] = opened[q]
        /\ removed'[q] = removed[q] /\ root'[q] = root[q]
    BY <1>4, OthersStay DEF Base
  <2>2. AtDirectory(q) /\ AtWork(q) /\ Base(q) \in Versions
    BY <1>2, <2>1 DEF AtDirectory, InPlace, Base, TypeOK
  <2>3. Base(p) = Base(q) => ~InPlace(p)
    BY <1>1, <1>4, <2>2 DEF Meet, AtDirectory
  <2>4. ASSUME Publish(p), Base(p) = Base(q) PROVE AllExist(q)' /\ ~InPlace(q)
    <3>1. pc[p] = "publish" /\ cache' = [cache EXCEPT ![Base(p)] = staged[p]]
          /\ bundle[p] \in Versions
      BY <2>4 DEF Publish, TypeOK
    <3>2. \A f \in Files : cache'[Base(q)][f] # Absent
      BY <2>2, <2>4, <3>1, ContentsApart DEF StagedOwn, TypeOK
    <3>3. ~InPlace(q)
      BY <1>1, <1>4, <2>2, <2>4, <3>1 DEF Meet, AtDirectory
    <3> QED
      BY <2>1, <3>2, <3>3 DEF AllExist, Exists
  <2> QED
    BY <1>4, <2>1, <2>2, <2>3, <2>4, OtherDirectory, KnownStays
<1>5. CASE Replace \/ UNCHANGED vars
  <2>1. UNCHANGED <<cache, present, key, pc, opened, at, removed, root>>
    BY <1>5 DEF Replace, vars, locals, disk
  <2>2. AtDirectory(q) /\ Base(q)' = Base(q)
    BY <2>1 DEF AtDirectory, InPlace, Base
  <2> QED
    BY <1>2, <2>1, <2>2, KnownStays
<1> QED
  BY <1>3, <1>4, <1>5 DEF Next

LEMMA RecordsGrow ==
    TypeOK /\ [Next]_vars => noticed \subseteq noticed' /\ disturbed \subseteq disturbed'
<1> SUFFICES ASSUME TypeOK, [Next]_vars
             PROVE  noticed \subseteq noticed' /\ disturbed \subseteq disturbed'
  OBVIOUS
<1>1. disturbed \subseteq disturbed'
  BY DEF Next, Observe, vars
<1> USE DEF history, Succeeds, Fails
<1>2. ASSUME NEW p \in Processes, Deserialize(p) \/ Step(p) \/ Crash(p)
      PROVE  noticed \subseteq noticed'
  <2>1. CASE Deserialize(p) \/ Hash(p) \/ Look(p) \/ EnsureFile(p) \/ LookForManifest(p)
             \/ LookForDirectory(p) \/ RemoveFile(p) \/ RemoveDone(p) \/ Crash(p)
    BY <2>1 DEF Deserialize, Hash, Look, EnsureFile, LookForManifest, LookForDirectory,
       RemoveFile, RemoveDone, Crash
  <2>2. CASE RepairOpen(p) \/ RepairWrite(p) \/ Stage(p) \/ ToTemp(p)
    BY <2>2 DEF RepairOpen, RepairWrite, Stage, ToTemp
  <2>3. CASE Publish(p) \/ PublishFails(p) \/ LookAfterLoss(p) \/ Resolve(p)
    BY <2>3 DEF Publish, PublishFails, LookAfterLoss, Resolve
  <2> QED
    BY <1>2, <2>1, <2>2, <2>3 DEF Step
<1>3. ASSUME Replace \/ UNCHANGED vars PROVE noticed \subseteq noticed'
  BY <1>3 DEF Replace, vars
<1> QED
  BY <1>1, <1>2, <1>3 DEF Next

\* A load turns away from the cache when it was told of a failure, or finds that a file
\* it knew to be there is gone: then it met who removed it.
LEMMA AwayNext == TypeOK /\ LocalsIdle /\ InUse /\ AwayKnown /\ [Next]_vars => AwayKnown'
<1> SUFFICES ASSUME TypeOK, LocalsIdle, InUse, AwayKnown, [Next]_vars,
                    NEW p \in Processes, pc'[p] \in {"temp", "failed"} \/ root'[p] = "temp"
             PROVE  p \in noticed' \cup disturbed'
  BY DEF AwayKnown
<1>1. noticed \subseteq noticed' /\ disturbed \subseteq disturbed'
  BY RecordsGrow
<1>2. CASE pc[p] \in {"temp", "failed"} \/ root[p] = "temp"
  BY <1>1, <1>2 DEF AwayKnown
<1>3. CASE Deserialize(p) \/ Step(p) \/ Crash(p)
  <2>0. root[p] # "none" => pc[p] \in {"resolve"} \cup Ended
    BY DEF LocalsIdle
  <2> USE DEF TypeOK, Goto
  <2>1. CASE Deserialize(p) \/ Hash(p) \/ Look(p) \/ LookForManifest(p) \/ LookForDirectory(p)
             \/ PublishFails(p) \/ Crash(p)
    BY <1>2, <2>1 DEF Deserialize, Hash, Look, LookForManifest, LookForDirectory, PublishFails,
       Crash
  <2>2. CASE EnsureFile(p)
    BY <1>2, <2>2 DEF EnsureFile, FileDone
  <2>3. CASE RepairOpen(p)
    BY <1>2, <2>3 DEF RepairOpen, AfterFailedRepair
  <2>4. CASE RepairWrite(p)
    <3>1. CASE FileDone(p)
      BY <1>2, <2>4, <3>1 DEF RepairWrite, FileDone
    <3>2. CASE Goto(p, AfterFailedRepair(p)) /\ root' = root
      BY <1>2, <2>4, <3>2 DEF RepairWrite, AfterFailedRepair
    <3> QED
      BY <2>4, <3>1, <3>2 DEF RepairWrite
  <2>5. CASE RemoveFile(p) \/ RemoveDone(p)
    BY <1>2, <2>5 DEF RemoveFile, RemoveDone
  <2>6. CASE Stage(p)
    <3>1. CASE Fails(p)
      BY <3>1 DEF Fails
    <3>2. CASE Goto(p, "publish")
      BY <1>2, <2>6, <3>2 DEF Stage
    <3> QED
      BY <2>6, <3>1, <3>2 DEF Stage
  <2>7. CASE Publish(p)
    BY <1>2, <2>7 DEF Publish
  <2>8. CASE LookAfterLoss(p)
    <3>1. ASSUME p \notin disturbed PROVE Exists(p, Manifest)
      BY <2>8, <3>1, FilesNumbered DEF LookAfterLoss, InUse, AtDirectory, AtWork, AllExist
    <3> QED
      BY <1>1, <1>2, <2>8, <3>1 DEF LookAfterLoss, PublishLost
  <2>9. CASE ToTemp(p)
    BY <1>2, <2>9 DEF ToTemp
  <2>10. CASE Resolve(p)
    <3>1. ASSUME p \notin disturbed, root[p] = "cache" PROVE AllExist(p)
      BY <2>10, <3>1 DEF Resolve, InUse, AtDirectory, AtWork
    <3> QED
      BY <1>1, <1>2, <2>10, <3>1 DEF Resolve, AllExist
  <2> QED
    BY <1>3, <2>1, <2>2, <2>3, <2>4, <2>5, <2>6, <2>7, <2>8, <2>9, <2>10 DEF Step
<1>4. ASSUME NEW q \in Processes, q # p, Deserialize(q) \/ Step(q) \/ Crash(q)
      PROVE  pc'[p] = pc[p] /\ root'[p] = root[p]
  BY <1>4, OthersStay
<1>5. CASE Replace \/ UNCHANGED vars
  BY <1>2, <1>5 DEF Replace, vars
<1> QED
  BY <1>2, <1>3, <1>4, <1>5 DEF Next

-----------------------------------------------------------------------------
(* The theorems                                                            *)

LEMMA InitInv == Init => IInv
<1> SUFFICES ASSUME Init PROVE IInv
  OBVIOUS
<1>1. PICK left \in [Files -> {Absent, 1}] :
        cache = [v \in Versions |-> IF v = 1 THEN left ELSE NoFiles]
  BY DEF Init
<1>2. \A v \in Versions, f \in Files : cache[v][f] \in {Absent, v}
  BY <1>1 DEF NoFiles
<1>3. \A p \in Processes : pc[p] = "idle" /\ ~opened[p] /\ removed[p] = {} /\ root[p] = "none"
  BY DEF Init
<1>4. \A p \in Processes : ~AtDirectory(p)
  BY <1>3 DEF AtDirectory, InPlace
<1>5. NamedRight /\ CutKnown
  BY <1>2, ContentsApart DEF NamedRight, CutKnown
<1>6. LocalsIdle /\ StagedOwn /\ MeetingsSeen /\ InUse /\ AwayKnown
  BY <1>3, <1>4 DEF LocalsIdle, StagedOwn, MeetingsSeen, Meet, InUse, AwayKnown
<1> QED
  BY <1>5, <1>6, InitType DEF IInv

LEMMA NextInv == IInv /\ [Next]_vars => IInv'
BY NextType, IdleNext, StagedNext, MeetingsNext, NamedNext, CutNext, InUseNext, AwayNext DEF IInv

\* The variables keep their types, and a directory that does not exist holds nothing.
THEOREM TypeCorrect == Spec => []TypeOK
<1>1. Init => TypeOK
  BY InitType
<1>2. TypeOK /\ [Next]_vars => TypeOK'
  BY NextType
<1> QED
  BY <1>1, <1>2, PTL DEF Spec

\* What is known of the directories and of the loads at work on them, in every state.
THEOREM CacheInvariant == Spec => []IInv
BY InitInv, NextInv, PTL DEF Spec

\* What a process that runs from the cache directory can find there, whoever repairs,
\* removes or publishes the directory at the same time, whenever the zip is replaced,
\* whichever writes fail, noticed or not, and whoever crashes.  One that met nobody misses
\* no file, because it saw every one there and only a change in place takes one away;
\* a file of its directory that is cut short is so for good, since who is at work on one meets
\* everybody there; another version's file comes only with a load that misnamed it.
THEOREM RunsOwnBundle == Spec => []RootHoldsBundle
<1>1. ASSUME IInv, NEW p \in Processes, NEW f \in Files, pc[p] = "loaded", root[p] = "cache"
      PROVE  LET held == cache[Base(p)][f] IN
             \/ held = bundle[p]
             \/ held = Partial /\ (<<Base(p), f>> \in torn \/ p \in disturbed)
             \/ held = Absent /\ p \in disturbed
             \/ held \in Versions /\ Misnamed(Base(p))
  <2> DEFINE held == cache[Base(p)][f]
  <2>1. Base(p) \in Versions /\ AtDirectory(p) /\ held \in Contents
    BY <1>1 DEF IInv, TypeOK, Base, AtDirectory
  <2>2. CASE held = Partial
    <3>1. \/ <<Base(p), f>> \in torn
          \/ \E q \in Processes : Base(q) = Base(p) /\ AtWorkOn(q, f)
      BY <1>1, <2>1, <2>2 DEF IInv, CutKnown
    <3>2. ASSUME NEW q \in Processes, Base(q) = Base(p), AtWorkOn(q, f) PROVE p \in disturbed
      <4>1. Meet(p, q)
        BY <1>1, <2>1, <3>2 DEF Meet, AtWorkOn, InPlace, AtDirectory
      <4> QED
        BY <1>1, <4>1 DEF IInv, MeetingsSeen
    <3> QED
      BY <2>2, <3>1, <3>2
  <2>3. CASE held = Absent
    <3>1. p \notin disturbed => AllExist(p)
      BY <1>1, <2>1 DEF IInv, InUse, AtWork
    <3> QED
      BY <2>3, <3>1 DEF AllExist, Exists
  <2>4. CASE held \in Versions
    <3>1. CASE bundle[p] # Base(p)
      BY <1>1, <2>4, <3>1 DEF Misnamed
    <3>2. CASE bundle[p] = Base(p)
      BY <1>1, <2>1, <2>4, <3>2 DEF IInv, NamedRight
    <3> QED
      BY <3>1, <3>2
  <2> QED
    BY <2>1, <2>2, <2>3, <2>4, ContentsApart
<1>2. IInv => RootHoldsBundle
  BY <1>1 DEF RootHoldsBundle
<1> QED
  BY <1>2, CacheInvariant, PTL

\* No load leaves the cache, or fails, because of the order in which loads publish a
\* directory or the failures and crashes of others: only after a write of its own failed, or
\* after it met another process in a directory that one of the two changed in place.
THEOREM OnlyFaultsLeaveCache == Spec => []CacheIsUsed
<1>1. IInv => CacheIsUsed
  BY DEF IInv, AwayKnown, CacheIsUsed
<1> QED
  BY <1>1, CacheInvariant, PTL
=============================================================================
