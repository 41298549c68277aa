------------------------ MODULE ArchiveManager_proofs ------------------------
(***************************************************************************)
(* Proofs about ArchiveManager: its type invariant, the precedence of the  *)
(* archives, the validity of what is mounted, that a worker's lookup loses *)
(* its name to a reset only, and that a load fails only for a file that the*)
(* mounted archives did not provide all the time.                          *)
(***************************************************************************)
EXTENDS ArchiveManager, TLAPS

Assumptions ==
  /\ PathOf \in [Archives -> Paths] /\ Folders \subseteq Archives
  /\ ValidVersions \subseteq Versions /\ NoVersion \notin Versions
  /\ Null \notin Archives /\ Absent \notin Archives /\ Null # Absent
  /\ Disks \subseteq [opens : BOOLEAN, files : SUBSET Files, version : Versions \union {NoVersion}]
  /\ MaxMounted \in Nat /\ MaxEdits \in Nat

LEMMA AssumptionsHold == Assumptions
  BY PathAssumption, VersionAssumption, NullAssumption, DiskAssumption, BoundAssumption
     DEF Assumptions

(* The type invariant in the groups of variables that change together.     *)
ManagerType ==
  /\ mArchives \in Seq(Archives)
  /\ mHashes \subseteq Files
  /\ mFileToArchive \in [Files -> Archives \union {Null, Absent}]
  /\ mDirectories \subseteq UNION {DirsOf[f] : f \in Files}
ObjectsType ==
  /\ known \subseteq Archives
  /\ loaded \in [Archives -> BOOLEAN]
  /\ version \in [Archives -> Versions \union {NoVersion}]
  /\ index \in [Archives -> SUBSET Files]
MountingType ==
  /\ pc \in {"idle", "clear", "remount", "index", "owner"}
  /\ todo \in Seq(Archives)
  /\ pending \subseteq Files
  /\ cur \in Files \union {Null}
  /\ pc = "owner" => cur \in Files
  /\ pc \in {"index", "owner"} => mArchives # <<>>
  /\ pc = "remount" => todo # <<>>
ReadersType ==
  /\ rpc \in [Readers -> {"idle", "deref", "read", "got", "null", "crashed"}]
  /\ rfile \in [Readers -> Files \union {Null}]
  /\ rarchive \in [Readers -> Archives \union {Null}]
  /\ held \in [Readers -> {"mounted", "remounted", "lost"}]
  /\ crossed \subseteq Readers
WorldType ==
  /\ disk \in [Paths -> [opens : BOOLEAN, files : SUBSET Files,
                         version : Versions \union {NoVersion}]]
  /\ edits \in 0 .. MaxEdits
  /\ written \subseteq Files
Types == ManagerType /\ ObjectsType /\ MountingType /\ ReadersType /\ WorldType

LEMMA InitTypes == Init => Types
  BY AssumptionsHold, SMTT(30)
     DEF Assumptions, Init, Types, ManagerType, ObjectsType, MountingType, ReadersType, WorldType

LEMMA LoadTypes ==
  ASSUME Types, NEW a \in Archives, Load(a)
  PROVE  /\ loaded' \in [Archives -> BOOLEAN]
         /\ version' \in [Archives -> Versions \union {NoVersion}]
         /\ index' \in [Archives -> SUBSET Files]
         /\ LoadedIndex(a) \in SUBSET Files
         /\ LoadedVersion(a) \in Versions \union {NoVersion}
         /\ Loads(a) \in BOOLEAN
         /\ index'[a] = LoadedIndex(a) /\ version'[a] = LoadedVersion(a) /\ loaded'[a] = Loads(a)
         /\ \A b \in Archives \ {a} : index'[b] = index[b] /\ version'[b] = version[b]
         /\ index[a] \subseteq index'[a]
  BY AssumptionsHold
     DEF Assumptions, Types, ObjectsType, WorldType, Load, LoadedIndex, LoadedVersion, Loads, Disk

LEMMA MountTypes ==
  ASSUME Types, NEW a \in Archives, NEW admitted \in BOOLEAN, NEW fs \in SUBSET Files,
         NEW archives \in Seq(Archives), Mount(a, admitted, fs, archives), pc \in {"idle", "remount"}
  PROVE  ManagerType' /\ MountingType'
<1>1. /\ Append(mArchives, a) \in Seq(Archives)
      /\ Append(mArchives, a) # <<>>
      BY DEF Types, ManagerType
<1>2. CASE admitted
      BY <1>1, <1>2 DEF Types, ManagerType, MountingType, Mount
<1>3. CASE ~admitted
      BY <1>3 DEF Types, ManagerType, MountingType, Mount, Afterwards
<1> QED
    BY <1>2, <1>3

LEMMA ResetTypes ==
  ASSUME Types, NEW archives \in Seq(Archives), Reset(archives)
  PROVE  ManagerType' /\ MountingType'
  BY DEF Types, ManagerType, MountingType, Reset

LEMMA SetTypes ==
  ASSUME Types, NEW n \in 0 .. MaxMounted, NEW archives \in [1 .. n -> known]
  PROVE  archives \in Seq(Archives)
  BY AssumptionsHold DEF Assumptions, Types, ObjectsType

LEMMA WatchTypes ==
  ASSUME Types, Watch
  PROVE  held' \in [Readers -> {"mounted", "remounted", "lost"}] /\ crossed' \subseteq Readers
<1>1. ASSUME NEW r \in Readers PROVE Kept(r) \in {"mounted", "remounted", "lost"}
  <2>1. held[r] \in {"mounted", "remounted", "lost"}
        BY DEF Types, ReadersType
  <2>2. \A f, P, R : Holds(f, P, R) \in {"mounted", "remounted", "lost"}
        BY DEF Holds
  <2>3. \A h, k \in {"mounted", "remounted", "lost"} : Weaker(h, k) \in {"mounted", "remounted", "lost"}
        BY DEF Weaker
  <2> QED
      BY <2>1, <2>2, <2>3 DEF Kept
<1>2. held' = [r \in Readers |-> Kept(r)]
      BY DEF Watch, WatchHeld
<1>3. crossed' \subseteq Readers
      BY DEF Watch, WatchResets
<1> QED
    BY <1>1, <1>2, <1>3

LEMMA StepTypes == Types /\ [Next]_vars => Types'
<1> SUFFICES ASSUME Types, [Next]_vars PROVE Types'
    OBVIOUS
<1> USE AssumptionsHold DEF Assumptions
<1>1. ASSUME NEW a \in Archives, AddPath(a), Watch PROVE Types'
  <2>1. Load(a) /\ pc = "idle"
        BY <1>1 DEF AddPath
  <2>2. Admits(Loads(a), LoadedVersion(a)) \in BOOLEAN /\ <<>> \in Seq(Archives)
        BY <2>1, LoadTypes DEF Admits, IsGameVersionValid
  <2>3. ManagerType' /\ MountingType'
        BY <1>1, <2>1, <2>2, LoadTypes, MountTypes DEF AddPath
  <2>4. ObjectsType' /\ WorldType'
        BY <1>1, <2>1, LoadTypes DEF AddPath, Types, ObjectsType, WorldType, world
  <2> QED
      BY <1>1, <2>3, <2>4, WatchTypes DEF AddPath, Types, ReadersType, readers
<1>2. ASSUME NEW a \in Archives, Construct(a), Watch PROVE Types'
  <2>1. ObjectsType'
        BY <1>2, LoadTypes DEF Construct, Types, ObjectsType
  <2> QED
      BY <1>2, <2>1, WatchTypes
         DEF Construct, Types, ManagerType, MountingType, ReadersType, WorldType, manager, mounting, readers, world
<1>3. ASSUME NEW a \in Archives, AddObject(a), Watch PROVE Types'
  <2>1. Admits(loaded[a], version[a]) \in BOOLEAN /\ index[a] \in SUBSET Files /\ <<>> \in Seq(Archives)
        BY DEF Types, ObjectsType, Admits, IsGameVersionValid
  <2>2. ManagerType' /\ MountingType'
        BY <1>3, <2>1, MountTypes DEF AddObject
  <2> QED
      BY <1>3, <2>2, WatchTypes
         DEF AddObject, Types, ObjectsType, ReadersType, WorldType, objects, readers, world
<1>4. ASSUME NEW a \in Archives, RemoveArchive(a), Watch PROVE Types'
  <2>1. PICK i \in DOMAIN mArchives :
          /\ loaded' = [loaded EXCEPT ![mArchives[i]] = FALSE]
          /\ Reset(SubSeq(mArchives, 1, i - 1) \o SubSeq(mArchives, i + 1, Len(mArchives)))
        BY <1>4 DEF RemoveArchive
  <2>2. /\ SubSeq(mArchives, 1, i - 1) \in Seq(Archives)
        /\ SubSeq(mArchives, i + 1, Len(mArchives)) \in Seq(Archives)
        BY <2>1 DEF Types, ManagerType
  <2>3. SubSeq(mArchives, 1, i - 1) \o SubSeq(mArchives, i + 1, Len(mArchives)) \in Seq(Archives)
        BY <2>2
  <2>4. ManagerType' /\ MountingType'
        BY <2>1, <2>3, ResetTypes
  <2> QED
      BY <1>4, <2>1, <2>4, WatchTypes
         DEF RemoveArchive, Types, ObjectsType, ReadersType, WorldType, readers, world
<1>5. ASSUME NEW f \in Files, IndexHash(f), Watch PROVE Types'
      BY <1>5, WatchTypes
         DEF IndexHash, Types, ManagerType, MountingType, ObjectsType, ReadersType, WorldType,
             objects, readers, world
<1>6. ASSUME IndexOwner, Watch PROVE Types'
  <2>1. mArchives[Len(mArchives)] \in Archives /\ cur \in Files
        BY <1>6 DEF IndexOwner, Types, ManagerType, MountingType
  <2> QED
      BY <1>6, <2>1, WatchTypes
         DEF IndexOwner, Types, ManagerType, MountingType, ObjectsType, ReadersType, WorldType,
             objects, readers
<1>7. ASSUME IndexDone, Watch PROVE Types'
      BY <1>7, WatchTypes
         DEF IndexDone, Afterwards, Types, ManagerType, MountingType, ObjectsType, ReadersType,
             WorldType, manager, objects, readers, world
<1>8. ASSUME ClearOwners, Watch PROVE Types'
      BY <1>8, WatchTypes
         DEF ClearOwners, Afterwards, Types, ManagerType, MountingType, ObjectsType, ReadersType,
             WorldType, objects, readers
<1>9. ASSUME Remount, Watch PROVE Types'
  <2> DEFINE a == Head(todo)
  <2>1. a \in Archives /\ Tail(todo) \in Seq(Archives) /\ pc = "remount"
        BY <1>9 DEF Remount, Types, MountingType
  <2>2. Load(a) /\ Mount(a, Admits(Loads(a), LoadedVersion(a)), LoadedIndex(a), Tail(todo))
        BY <1>9 DEF Remount
  <2>3. Admits(Loads(a), LoadedVersion(a)) \in BOOLEAN
        BY <2>1, <2>2, LoadTypes DEF Admits, IsGameVersionValid
  <2>4. ManagerType' /\ MountingType'
        BY <2>1, <2>2, <2>3, LoadTypes, MountTypes
  <2>5. ObjectsType'
        BY <1>9, <2>1, <2>2, LoadTypes DEF Remount, Types, ObjectsType
  <2> QED
      BY <1>9, <2>4, <2>5, WatchTypes DEF Remount, Types, ReadersType, WorldType, readers, world
<1>10. ASSUME ResetVirtualFileSystem, Watch PROVE Types'
  <2>1. ManagerType' /\ MountingType'
        BY <1>10, ResetTypes DEF ResetVirtualFileSystem, Types, ManagerType
  <2> QED
      BY <1>10, <2>1, WatchTypes
         DEF ResetVirtualFileSystem, Types, ObjectsType, ReadersType, WorldType, objects, readers, world
<1>11. ASSUME NEW n \in 0 .. MaxMounted, NEW archives \in [1 .. n -> known], SetArchives(archives), Watch
       PROVE  Types'
  <2>1. ManagerType' /\ MountingType'
        BY <1>11, SetTypes, ResetTypes DEF SetArchives
  <2> QED
      BY <1>11, <2>1, WatchTypes
         DEF SetArchives, Types, ObjectsType, ReadersType, WorldType, objects, readers, world
<1>12. ASSUME NEW a \in Archives, NEW f \in Files, WriteFile(a, f), Watch PROVE Types'
  <2>1. disk' \in [Paths -> [opens : BOOLEAN, files : SUBSET Files, version : Versions \union {NoVersion}]]
        BY <1>12 DEF WriteFile, Types, WorldType
  <2> QED
      BY <1>12, <2>1, WatchTypes
         DEF WriteFile, Types, ManagerType, MountingType, ObjectsType, ReadersType, WorldType,
             mounting, readers
<1>13. ASSUME NEW r \in Readers, NEW f \in Files, Lookup(r, f), Watch PROVE Types'
      BY <1>13, WatchTypes
         DEF Lookup, Types, ManagerType, MountingType, ObjectsType, ReadersType, WorldType,
             objects, mounting, world
<1>14. ASSUME NEW r \in Readers, NoArchive(r) \/ Deref(r) \/ Read(r), Watch PROVE Types'
  <2>1. rpc' \in [Readers -> {"idle", "deref", "read", "got", "null", "crashed"}]
        /\ rfile' \in [Readers -> Files \union {Null}] /\ rarchive' \in [Readers -> Archives \union {Null}]
        BY <1>14 DEF NoArchive, Deref, Read, Answer, Types, ReadersType
  <2> QED
      BY <1>14, <2>1, WatchTypes
         DEF NoArchive, Deref, Read, Answer, Types, ManagerType, MountingType, ObjectsType,
             ReadersType, WorldType, manager, objects, mounting, world
<1>15. ASSUME NEW p \in Paths, NEW d \in Disks, Edit(p, d), Watch PROVE Types'
      BY <1>15, WatchTypes
         DEF Edit, Types, ManagerType, MountingType, ObjectsType, ReadersType, WorldType,
             manager, objects, mounting, readers
<1>16. ASSUME UNCHANGED vars PROVE Types'
      BY <1>16
         DEF vars, Types, ManagerType, MountingType, ObjectsType, ReadersType, WorldType,
             manager, objects, mounting, readers, history, world
<1> QED
    BY <1>1, <1>2, <1>3, <1>4, <1>5, <1>6, <1>7, <1>8, <1>9, <1>10, <1>11, <1>12, <1>13, <1>14,
       <1>15, <1>16 DEF Next, Step

LEMMA TypesSuffice == Types => TypeOK
  BY DEF Types, ManagerType, ObjectsType, MountingType, ReadersType, WorldType, TypeOK

(* Every table of the manager, every archive object and every worker keeps *)
(* its type, for any archives, files, versions and numbers of workers.     *)
THEOREM TypeCorrect == Spec => []TypeOK
<1>1. Spec => []Types
      BY InitTypes, StepTypes, PTL DEF Spec
<1> QED
    BY <1>1, TypesSuffice, PTL

------------------------------------------------------------------------------
(* What a remount relies on.  AddArchive enters files of the last archive  *)
(* only, and the archives already mounted again are in step with the disk, *)
(* so that loading one of them once more, when it is listed twice, neither *)
(* extends its index nor changes its version.                              *)
InStep(a) ==
  Disk(a).opens => /\ Disk(a).files \subseteq index[a]
                   /\ Disk(a).version # NoVersion => version[a] = Disk(a).version
Progress ==
  /\ pc \notin {"index", "owner"} => pending = {}
  /\ pc \in {"index", "owner"} => pending \subseteq index[mArchives[Len(mArchives)]]
  /\ pc = "owner" => cur \in pending
  /\ pc = "idle" => todo = <<>>
  /\ pc = "clear" => mArchives = <<>>
  /\ todo # <<>> => \A i \in DOMAIN mArchives : InStep(mArchives[i])
  /\ \A i \in DOMAIN mArchives : mArchives[i] \in known
  /\ \A i \in DOMAIN todo : todo[i] \in known
IInv == Types /\ Progress /\ Precedence /\ MountedAreValid

LEMMA InitInv == Init => IInv
<1> SUFFICES ASSUME Init PROVE IInv
    OBVIOUS
<1>1. Types
      BY InitTypes
<1>2. mArchives = <<>> /\ todo = <<>> /\ DOMAIN mArchives = {} /\ DOMAIN todo = {}
      BY DEF Init
<1>3. Progress /\ MountedAreValid
      BY <1>2 DEF Init, Progress, MountedAreValid, Mounted
<1>4. Precedence
      BY <1>2 DEF Init, Precedence, Settled, BelongsToLast
<1> QED
    BY <1>1, <1>3, <1>4 DEF IInv

(* What Load does to an archive that is in step, or not mounted at all.    *)
LEMMA LoadInStep ==
  ASSUME Types, NEW a \in Archives, Load(a), UNCHANGED disk
  PROVE  /\ InStep(a)'
         /\ \A b \in Archives : InStep(b) => index'[b] = index[b] /\ version'[b] = version[b] /\ InStep(b)'
<1>1. /\ index'[a] = LoadedIndex(a) /\ version'[a] = LoadedVersion(a)
      /\ \A b \in Archives \ {a} : index'[b] = index[b] /\ version'[b] = version[b]
  BY LoadTypes
<1>2. \A b \in Archives : Disk(b)' = Disk(b)
  BY DEF Disk
<1>3. InStep(a)'
  BY <1>1, <1>2 DEF InStep, LoadedIndex, LoadedVersion
<1>4. InStep(a) => index'[a] = index[a] /\ version'[a] = version[a]
  BY <1>1 DEF InStep, LoadedIndex, LoadedVersion
<1>5. \A b \in Archives \ {a} : InStep(b) => InStep(b)'
  BY <1>1, <1>2 DEF InStep
<1> QED
  BY <1>1, <1>3, <1>4, <1>5

LEMMA MountInv ==
  ASSUME IInv, Types', NEW a \in Archives, NEW admitted \in BOOLEAN, NEW archives \in Seq(Archives),
         Mount(a, admitted, index'[a], archives), pc \in {"idle", "remount"},
         \A i \in DOMAIN mArchives : /\ index'[mArchives[i]] = index[mArchives[i]]
                                     /\ version'[mArchives[i]] = version[mArchives[i]],
         admitted => IsGameVersionValid(version'[a]),
         archives # <<>> => \A b \in Archives : b = a \/ b \in Mounted => InStep(b)',
         a \in known', known \subseteq known', \A i \in DOMAIN archives : archives[i] \in known',
         UNCHANGED written
  PROVE  Progress' /\ Precedence' /\ MountedAreValid'
<1> USE DEF IInv, Types, ManagerType
<1>1. pending = {} /\ \A f \in Files \ written : BelongsToLast(f)
      BY DEF Progress, Precedence, Settled
<1>2. CASE ~admitted
  <2>1. UNCHANGED <<mArchives, pending, mFileToArchive>> /\ todo' = archives
        /\ pc' = Afterwards(archives)
        BY <1>2 DEF Mount
  <2>2. Progress'
    <3>1. archives # <<>> => \A i \in DOMAIN mArchives : InStep(mArchives[i])'
          BY <2>1 DEF Mounted
    <3> QED
        BY <1>1, <2>1, <3>1 DEF Progress, Afterwards
  <2>3. Precedence'
        BY <1>1, <2>1 DEF Precedence, Settled, BelongsToLast
  <2>4. MountedAreValid'
        BY <2>1 DEF MountedAreValid, Mounted, IsGameVersionValid
  <2> QED
      BY <2>2, <2>3, <2>4
<1>3. CASE admitted
  <2>1. /\ mArchives' = Append(mArchives, a) /\ pending' = index'[a] /\ pc' = "index"
        /\ todo' = archives /\ UNCHANGED mFileToArchive
        BY <1>3 DEF Mount
  <2>2. /\ Len(mArchives') = Len(mArchives) + 1 /\ mArchives'[Len(mArchives')] = a
        /\ DOMAIN mArchives' = DOMAIN mArchives \union {Len(mArchives) + 1}
        /\ \A i \in DOMAIN mArchives : mArchives'[i] = mArchives[i] /\ i # Len(mArchives) + 1
        BY <2>1
  <2>3. Progress'
    <3>1. archives # <<>> => \A i \in DOMAIN mArchives' : InStep(mArchives[i])'
          BY <2>1, <2>2 DEF Mounted
    <3> QED
        BY <2>1, <2>2, <3>1 DEF Progress
  <2>4. Precedence'
    <3>1. SUFFICES ASSUME NEW f \in Files, f \notin written, f \notin index'[a] PROVE BelongsToLast(f)'
          BY <2>1 DEF Precedence, Settled
    <3>2. BelongsToLast(f)
          BY <1>1, <3>1
    <3>3. CASE /\ mFileToArchive[f] \in {Null, Absent}
               /\ \A i \in DOMAIN mArchives : f \notin index[mArchives[i]]
          BY <2>1, <2>2, <3>1, <3>3 DEF BelongsToLast
    <3>4. CASE \E i \in DOMAIN mArchives :
                 /\ mFileToArchive[f] = mArchives[i] /\ f \in index[mArchives[i]]
                 /\ \A j \in DOMAIN mArchives : j > i => f \notin index[mArchives[j]]
      <4>1. PICK i \in DOMAIN mArchives :
                   /\ mFileToArchive[f] = mArchives[i] /\ f \in index[mArchives[i]]
                   /\ \A j \in DOMAIN mArchives : j > i => f \notin index[mArchives[j]]
            BY <3>4
      <4>2. /\ i \in DOMAIN mArchives' /\ mFileToArchive'[f] = mArchives'[i]
            /\ f \in index'[mArchives'[i]]
            BY <2>1, <2>2, <4>1
      <4>3. ASSUME NEW j \in DOMAIN mArchives', j > i PROVE f \notin index'[mArchives'[j]]
            BY <2>1, <2>2, <3>1, <4>1, <4>3
      <4> QED
          BY <4>2, <4>3 DEF BelongsToLast
    <3> QED
        BY <3>2, <3>3, <3>4 DEF BelongsToLast
  <2>5. MountedAreValid'
        BY <1>3, <2>2 DEF MountedAreValid, Mounted, IsGameVersionValid
  <2> QED
      BY <2>3, <2>4, <2>5
<1> QED
    BY <1>2, <1>3

LEMMA ResetInv ==
  ASSUME IInv, Types', NEW archives \in Seq(Archives), Reset(archives), pc = "idle",
         known' = known, \A i \in DOMAIN archives : archives[i] \in known
  PROVE  Progress' /\ Precedence' /\ MountedAreValid'
<1>1. mArchives' = <<>> /\ DOMAIN mArchives' = {} /\ todo' = archives /\ pc' = "clear"
      /\ UNCHANGED pending
      BY DEF Reset
<1>2. Progress'
      BY <1>1 DEF IInv, Progress
<1> QED
    BY <1>1, <1>2 DEF Precedence, MountedAreValid, Mounted

(* The manager's tables and archives stay as they are.                     *)
LEMMA StandStill ==
  ASSUME IInv, UNCHANGED <<mArchives, mounting, known, version, index>>,
         \A f \in Files : (BelongsToLast(f) => BelongsToLast(f)') \/ f \in written',
         written \subseteq written', todo # <<>> => UNCHANGED disk
  PROVE  Progress' /\ Precedence' /\ MountedAreValid'
<1>1. Progress'
      BY DEF IInv, Progress, mounting, InStep, Disk
<1>2. Precedence'
      BY DEF IInv, Precedence, Settled, mounting
<1>3. MountedAreValid'
      BY DEF IInv, MountedAreValid, Mounted, IsGameVersionValid
<1> QED
    BY <1>1, <1>2, <1>3

LEMMA StepInv == IInv /\ [Next]_vars => IInv'
<1> SUFFICES ASSUME IInv, [Next]_vars PROVE IInv'
    OBVIOUS
<1>0. Types /\ Types'
      BY StepTypes DEF IInv
<1> SUFFICES Progress' /\ Precedence' /\ MountedAreValid'
    BY <1>0 DEF IInv
<1> USE <1>0
<1>1. ASSUME NEW a \in Archives, AddPath(a) PROVE Progress' /\ Precedence' /\ MountedAreValid'
  <2>1. Load(a) /\ pc = "idle" /\ a \notin known /\ known' = known \union {a} /\ UNCHANGED written
        BY <1>1 DEF AddPath, world
  <2>2. index'[a] = LoadedIndex(a) /\ version'[a] = LoadedVersion(a) /\ Loads(a) \in BOOLEAN
        BY <2>1, LoadTypes
  <2>3. \A i \in DOMAIN mArchives : mArchives[i] # a /\ mArchives[i] \in Archives
        BY <2>1 DEF IInv, Progress, Types, ManagerType
  <2>4. \A i \in DOMAIN mArchives : /\ index'[mArchives[i]] = index[mArchives[i]]
                                    /\ version'[mArchives[i]] = version[mArchives[i]]
        BY <2>1, <2>3, LoadTypes
  <2>5. Mount(a, Admits(Loads(a), LoadedVersion(a)), index'[a], <<>>)
        BY <1>1, <2>2 DEF AddPath
  <2>6. /\ Admits(Loads(a), LoadedVersion(a)) \in BOOLEAN
        /\ Admits(Loads(a), LoadedVersion(a)) => IsGameVersionValid(version'[a])
        BY <2>2 DEF Admits, IsGameVersionValid
  <2>7. <<>> \in Seq(Archives) /\ DOMAIN <<>> = {}
        OBVIOUS
  <2>8. a \in known' /\ known \subseteq known'
        BY <2>1
  <2> QED
      BY <2>1, <2>4, <2>5, <2>6, <2>7, <2>8, MountInv
<1>2. ASSUME NEW a \in Archives, Construct(a) PROVE Progress' /\ Precedence' /\ MountedAreValid'
  <2>1. /\ pc = "idle" /\ a \notin known /\ known' = known \union {a}
        /\ UNCHANGED <<mArchives, mFileToArchive, mounting, written, disk>>
        BY <1>2 DEF Construct, manager, world
  <2>2. \A i \in DOMAIN mArchives : mArchives[i] # a /\ mArchives[i] \in Archives
        BY <2>1 DEF IInv, Progress, Types, ManagerType
  <2>3. \A i \in DOMAIN mArchives : /\ index'[mArchives[i]] = index[mArchives[i]]
                                    /\ version'[mArchives[i]] = version[mArchives[i]]
        BY <1>2, <2>2, LoadTypes DEF Construct
  <2>4. Progress'
        BY <2>1, <2>2 DEF IInv, Progress, mounting
  <2>5. Precedence'
        BY <2>1, <2>3 DEF IInv, Precedence, Settled, BelongsToLast, mounting
  <2>6. MountedAreValid'
        BY <2>1, <2>3 DEF IInv, MountedAreValid, Mounted, IsGameVersionValid
  <2> QED
      BY <2>4, <2>5, <2>6
<1>3. ASSUME NEW a \in Archives, AddObject(a) PROVE Progress' /\ Precedence' /\ MountedAreValid'
  <2>1. /\ pc = "idle" /\ a \in known /\ UNCHANGED <<known, version, index, written>>
        /\ Mount(a, Admits(loaded[a], version[a]), index[a], <<>>)
        BY <1>3 DEF AddObject, objects, world
  <2>2. /\ Admits(loaded[a], version[a]) \in BOOLEAN
        /\ Admits(loaded[a], version[a]) => IsGameVersionValid(version'[a])
        BY <2>1 DEF Admits, IsGameVersionValid, Types, ObjectsType
  <2>3. /\ <<>> \in Seq(Archives) /\ DOMAIN <<>> = {}
        /\ Mount(a, Admits(loaded[a], version[a]), index'[a], <<>>)
        /\ a \in known' /\ known \subseteq known'
        /\ \A i \in DOMAIN mArchives : /\ index'[mArchives[i]] = index[mArchives[i]]
                                       /\ version'[mArchives[i]] = version[mArchives[i]]
        BY <2>1
  <2> QED
      BY <2>1, <2>2, <2>3, MountInv
<1>4. ASSUME NEW a \in Archives, RemoveArchive(a) PROVE Progress' /\ Precedence' /\ MountedAreValid'
  <2>1. PICK i \in DOMAIN mArchives :
          Reset(SubSeq(mArchives, 1, i - 1) \o SubSeq(mArchives, i + 1, Len(mArchives)))
        BY <1>4 DEF RemoveArchive
  <2> DEFINE before == SubSeq(mArchives, 1, i - 1)
             after == SubSeq(mArchives, i + 1, Len(mArchives))
  <2>2. before \in Seq(known) /\ after \in Seq(known)
    <3>1. mArchives \in Seq(known)
          BY DEF IInv, Progress, Types, ManagerType
    <3> QED
        BY <2>1, <3>1
  <2>3. before \o after \in Seq(known)
        BY <2>2
  <2>4. PICK archives \in Seq(known) : archives = before \o after
        BY <2>3
  <2> HIDE DEF before, after
  <2>5. known \subseteq Archives /\ \A j \in DOMAIN archives : archives[j] \in known
        BY <2>4 DEF Types, ObjectsType
  <2>6. archives \in Seq(Archives)
        BY <2>4, <2>5
  <2>7. Reset(archives)
        BY <2>1, <2>4 DEF before, after
  <2> QED
      BY <1>4, <2>5, <2>6, <2>7, ResetInv DEF RemoveArchive
<1>5. ASSUME NEW f \in Files, IndexHash(f) PROVE Progress' /\ Precedence' /\ MountedAreValid'
  <2>1. /\ pc = "index" /\ f \in pending /\ cur' = f /\ pc' = "owner"
        /\ UNCHANGED <<mArchives, mFileToArchive, todo, pending, known, version, index, disk, written>>
        BY <1>5 DEF IndexHash, objects, world
  <2> QED
      BY <2>1 DEF IInv, Progress, InStep, Disk, Precedence, Settled, BelongsToLast,
                  MountedAreValid, Mounted, IsGameVersionValid
<1>6. ASSUME IndexOwner PROVE Progress' /\ Precedence' /\ MountedAreValid'
  <2>1. /\ pc = "owner" /\ pc' = "index" /\ pending' = pending \ {cur} /\ written' = written \ {cur}
        /\ mFileToArchive' = [mFileToArchive EXCEPT ![cur] = mArchives[Len(mArchives)]]
        /\ UNCHANGED <<mArchives, todo, known, version, index, disk>>
        BY <1>6 DEF IndexOwner, objects
  <2>2. cur \in Files /\ Len(mArchives) \in DOMAIN mArchives /\ cur \in index[mArchives[Len(mArchives)]]
        BY <2>1 DEF IInv, Progress, Types, MountingType, ManagerType
  <2>3. Progress'
        BY <2>1 DEF IInv, Progress, InStep, Disk
  <2>4. ASSUME NEW f \in Files, f = cur PROVE BelongsToLast(f)'
    <3>1. /\ mFileToArchive'[f] = mArchives'[Len(mArchives)] /\ Len(mArchives) \in DOMAIN mArchives'
          /\ f \in index'[mArchives'[Len(mArchives)]]
          /\ \A j \in DOMAIN mArchives' : ~(j > Len(mArchives))
          BY <2>1, <2>2, <2>4 DEF Types, ManagerType
    <3> QED
        BY <3>1 DEF BelongsToLast
  <2>5. ASSUME NEW f \in Files \ {cur}, BelongsToLast(f) PROVE BelongsToLast(f)'
    <3>1. mFileToArchive'[f] = mFileToArchive[f] /\ mArchives' = mArchives /\ index' = index
          BY <2>1 DEF Types, ManagerType
    <3> QED
        BY <2>5, <3>1 DEF BelongsToLast
  <2>6. Precedence'
        BY <2>1, <2>4, <2>5 DEF IInv, Precedence, Settled
  <2> QED
      BY <2>1, <2>3, <2>6 DEF IInv, MountedAreValid, Mounted, IsGameVersionValid
<1>7. ASSUME IndexDone PROVE Progress' /\ Precedence' /\ MountedAreValid'
  <2>1. /\ pc = "index" /\ pending = {} /\ pc' = Afterwards(todo)
        /\ UNCHANGED <<mArchives, mFileToArchive, todo, pending, known, version, index, disk, written>>
        BY <1>7 DEF IndexDone, manager, objects, world
  <2> QED
      BY <2>1 DEF Afterwards, IInv, Progress, InStep, Disk, Precedence, Settled, BelongsToLast,
                  MountedAreValid, Mounted, IsGameVersionValid
<1>8. ASSUME ClearOwners PROVE Progress' /\ Precedence' /\ MountedAreValid'
  <2>1. /\ pc = "clear" /\ pc' = Afterwards(todo) /\ written' = {}
        /\ mFileToArchive' = [f \in Files |-> Absent]
        /\ UNCHANGED <<mArchives, todo, pending, known, version, index, disk>>
        BY <1>8 DEF ClearOwners, objects
  <2>2. mArchives = <<>> /\ DOMAIN mArchives = {}
        BY <2>1 DEF IInv, Progress
  <2>3. Progress'
        BY <2>1, <2>2 DEF Afterwards, IInv, Progress
  <2> QED
      BY <2>1, <2>2, <2>3 DEF Precedence, BelongsToLast, Settled, MountedAreValid, Mounted
<1>9. ASSUME Remount PROVE Progress' /\ Precedence' /\ MountedAreValid'
  <2>0. Head(todo) \in Archives /\ Tail(todo) \in Seq(Archives) /\ todo # <<>>
        BY <1>9 DEF Remount, Types, MountingType
  <2>10. PICK a \in Archives, rest \in Seq(Archives) : a = Head(todo) /\ rest = Tail(todo)
        BY <2>0
  <2>1. pc = "remount" /\ UNCHANGED <<known, disk, written>>
        BY <1>9 DEF Remount, world
  <2>2. Load(a) /\ Mount(a, Admits(Loads(a), LoadedVersion(a)), LoadedIndex(a), rest)
        BY <1>9, <2>10 DEF Remount
  <2>3. index'[a] = LoadedIndex(a) /\ version'[a] = LoadedVersion(a) /\ Loads(a) \in BOOLEAN
        BY <2>1, <2>2, LoadTypes
  <2>4. \A b \in Mounted : b \in Archives /\ InStep(b)
        BY <2>0 DEF IInv, Progress, Types, ManagerType, Mounted
  <2>5. /\ \A b \in Archives : b = a \/ b \in Mounted => InStep(b)'
        /\ \A b \in Mounted : index'[b] = index[b] /\ version'[b] = version[b]
        BY <2>1, <2>2, <2>4, LoadInStep
  <2>6. /\ Admits(Loads(a), LoadedVersion(a)) \in BOOLEAN
        /\ Admits(Loads(a), LoadedVersion(a)) => IsGameVersionValid(version'[a])
        BY <2>3 DEF Admits, IsGameVersionValid
  <2>7. a \in known /\ \A i \in DOMAIN rest : rest[i] \in known
    <3>1. todo \in Seq(known)
          BY DEF IInv, Progress, Types, MountingType
    <3> QED
        BY <2>0, <2>10, <3>1
  <2>8. /\ Mount(a, Admits(Loads(a), LoadedVersion(a)), index'[a], rest)
        /\ \A i \in DOMAIN mArchives : /\ index'[mArchives[i]] = index[mArchives[i]]
                                       /\ version'[mArchives[i]] = version[mArchives[i]]
        /\ rest # <<>> => \A b \in Archives : b = a \/ b \in Mounted => InStep(b)'
        /\ a \in known' /\ known \subseteq known' /\ \A i \in DOMAIN rest : rest[i] \in known'
        BY <2>1, <2>2, <2>3, <2>5, <2>7 DEF Mounted
  <2> QED
      BY <2>1, <2>6, <2>8, MountInv
<1>10. ASSUME ResetVirtualFileSystem PROVE Progress' /\ Precedence' /\ MountedAreValid'
      BY <1>10, ResetInv DEF ResetVirtualFileSystem, objects, IInv, Progress, Types, ManagerType
<1>11. ASSUME NEW n \in 0 .. MaxMounted, NEW archives \in [1 .. n -> known], SetArchives(archives)
       PROVE  Progress' /\ Precedence' /\ MountedAreValid'
      BY <1>11, SetTypes, ResetInv DEF SetArchives, objects
<1>12. ASSUME NEW a \in Archives, NEW f \in Files, WriteFile(a, f)
       PROVE  Progress' /\ Precedence' /\ MountedAreValid'
  <2>1. /\ pc = "idle" /\ written' = written \union {f}
        /\ mFileToArchive' = [mFileToArchive EXCEPT ![f] = a]
        /\ index' = index \/ index' = [index EXCEPT ![a] = @ \union {f}]
        /\ UNCHANGED <<mArchives, mounting, known, version>>
        BY <1>12 DEF WriteFile
  <2>2. \A g \in Files \ {f}, b \in Archives : g \in index'[b] <=> g \in index[b]
        BY <2>1 DEF Types, ObjectsType
  <2>3. \A i \in DOMAIN mArchives : mArchives[i] \in Archives
        BY DEF Types, ManagerType
  <2>4. \A g \in Files \ {f} : BelongsToLast(g) => BelongsToLast(g)'
        BY <2>1, <2>2, <2>3 DEF BelongsToLast, Types, ManagerType
  <2>5. Precedence'
        BY <2>1, <2>4 DEF IInv, Precedence, Settled, mounting
  <2>6. Progress'
        BY <2>1 DEF IInv, Progress, mounting
  <2> QED
      BY <2>1, <2>5, <2>6 DEF IInv, MountedAreValid, Mounted, IsGameVersionValid
<1>13. ASSUME NEW r \in Readers, NEW f \in Files, Lookup(r, f)
       PROVE  Progress' /\ Precedence' /\ MountedAreValid'
  <2>1. /\ mFileToArchive' = [mFileToArchive EXCEPT ![f] = IF @ = Absent THEN Null ELSE @]
        /\ UNCHANGED <<mArchives, mounting, known, version, index, disk, written>>
        BY <1>13 DEF Lookup, objects, world
  <2>2. \A g \in Files : BelongsToLast(g) => BelongsToLast(g)'
        BY <2>1, AssumptionsHold DEF Assumptions, BelongsToLast, Types, ManagerType
  <2> QED
      BY <2>1, <2>2, StandStill
<1>14. ASSUME NEW r \in Readers, NoArchive(r) \/ Deref(r) \/ Read(r)
       PROVE  Progress' /\ Precedence' /\ MountedAreValid'
  <2>1. UNCHANGED <<mArchives, mFileToArchive, mounting, known, version, index, disk, written>>
        BY <1>14 DEF NoArchive, Deref, Read, Answer, manager, objects, world
  <2> QED
      BY <2>1, StandStill DEF BelongsToLast
<1>15. ASSUME NEW p \in Paths, NEW d \in Disks, Edit(p, d)
       PROVE  Progress' /\ Precedence' /\ MountedAreValid'
  <2>1. /\ pc = "idle" /\ UNCHANGED <<mArchives, mFileToArchive, mounting, known, version, index, written>>
        BY <1>15 DEF Edit, manager, objects
  <2>2. todo = <<>>
        BY <2>1 DEF IInv, Progress
  <2> QED
      BY <2>1, <2>2, StandStill DEF BelongsToLast
<1>16. ASSUME UNCHANGED vars PROVE Progress' /\ Precedence' /\ MountedAreValid'
      BY <1>16, StandStill DEF vars, manager, objects, world, BelongsToLast
<1> QED
    BY <1>1, <1>2, <1>3, <1>4, <1>5, <1>6, <1>7, <1>8, <1>9, <1>10, <1>11, <1>12, <1>13, <1>14,
       <1>15, <1>16 DEF Next, Step

(* The archive mounted last has precedence, through any sequence of        *)
(* additions, removals, replacements, remounts and changes on disk, for    *)
(* all files but those WriteFile has placed since.                         *)
THEOREM PrecedenceHolds == Spec => []Precedence
<1>1. Spec => []IInv
      BY InitInv, StepInv, PTL DEF Spec
<1>2. IInv => Precedence
      BY DEF IInv
<1> QED
    BY <1>1, <1>2, PTL

(* Nothing without a valid game version is ever mounted.                   *)
THEOREM MountedAreValidHolds == Spec => []MountedAreValid
<1>1. Spec => []IInv
      BY InitInv, StepInv, PTL DEF Spec
<1>2. IInv => MountedAreValid
      BY DEF IInv
<1> QED
    BY <1>1, <1>2, PTL

------------------------------------------------------------------------------
(* Every file with an archive has its name, which AddArchive and WriteFile *)
(* enter first; only a reset forgets names, and it marks every load it     *)
(* overlaps.                                                               *)
NamesInv ==
  /\ pc # "clear" => \A f \in Files : mFileToArchive[f] \in Archives => f \in mHashes
  /\ pc = "owner" => cur \in mHashes
  /\ \A r \in Readers : Loading(r) => rfile[r] \in Files /\ (pc = "clear" => r \in crossed)
  /\ \A r \in Readers : rpc[r] = "deref" /\ rarchive[r] # Null /\ r \notin crossed => rfile[r] \in mHashes
  /\ NamesOutliveLookups

LEMMA InitNames == Init => NamesInv
  BY AssumptionsHold DEF Assumptions, Init, NamesInv, NamesOutliveLookups, Loading

LEMMA StepNames == ASSUME IInv, NamesInv, [Next]_vars PROVE NamesInv'
<1> USE AssumptionsHold DEF Assumptions, IInv, Types
<1>0. Types'
      BY StepTypes
<1>1. ASSUME Next PROVE NamesInv'
  <2>0. Step /\ \A r \in Readers : r \in crossed' <=> /\ rpc'[r] \in {"deref", "read", "crashed"}
                                                      /\ pc' = "clear" \/ r \in crossed
    <3>1. Step /\ WatchResets
          BY <1>1 DEF Next, Watch
    <3> QED
        BY <3>1 DEF WatchResets
  <2>1. ASSUME UNCHANGED readers, mHashes \subseteq mHashes' \/ pc' = "clear",
               pc' # "clear" => \A f \in Files : mFileToArchive'[f] \in Archives => f \in mHashes',
               pc' = "owner" => cur' \in mHashes'
        PROVE  NamesInv'
        BY <2>0, <2>1 DEF NamesInv, NamesOutliveLookups, Loading, readers
  <2>2. ASSUME NEW a \in Archives, AddPath(a) \/ Construct(a) \/ AddObject(a) PROVE NamesInv'
        BY <2>1, <2>2 DEF AddPath, Construct, AddObject, Mount, Afterwards, manager, mounting, NamesInv
  <2>3. ASSUME NEW archives, Reset(archives), UNCHANGED readers PROVE NamesInv'
        BY <2>1, <2>3 DEF Reset
  <2>4. ASSUME NEW a \in Archives, RemoveArchive(a) PROVE NamesInv'
        BY <2>3, <2>4 DEF RemoveArchive
  <2>5. ASSUME NEW f \in Files, IndexHash(f) PROVE NamesInv'
        BY <2>1, <2>5 DEF IndexHash, NamesInv
  <2>6. ASSUME IndexOwner PROVE NamesInv'
        BY <2>1, <2>6 DEF IndexOwner, NamesInv, ManagerType, MountingType
  <2>7. ASSUME IndexDone PROVE NamesInv'
        BY <2>1, <2>7 DEF IndexDone, Afterwards, manager, NamesInv
  <2>8. ASSUME ClearOwners PROVE NamesInv'
        BY <2>1, <2>8 DEF ClearOwners, Afterwards, NamesInv
  <2>9. ASSUME Remount PROVE NamesInv'
        BY <2>1, <2>9 DEF Remount, Mount, Afterwards, NamesInv, MountingType
  <2>10. ASSUME ResetVirtualFileSystem PROVE NamesInv'
        BY <2>3, <2>10 DEF ResetVirtualFileSystem
  <2>11. ASSUME NEW archives, SetArchives(archives) PROVE NamesInv'
        BY <2>3, <2>11 DEF SetArchives
  <2>12. ASSUME NEW a \in Archives, NEW f \in Files, WriteFile(a, f) PROVE NamesInv'
        BY <2>1, <2>12 DEF WriteFile, mounting, NamesInv, ManagerType
  <2>13. ASSUME NEW r \in Readers, NEW f \in Files, Lookup(r, f) PROVE NamesInv'
    <3>1. /\ UNCHANGED <<mHashes, pc, cur>>
          /\ mFileToArchive' = [mFileToArchive EXCEPT ![f] = IF @ = Absent THEN Null ELSE @]
          BY <2>13 DEF Lookup, mounting
    <3>2. pc # "clear" => \A g \in Files : mFileToArchive'[g] \in Archives => g \in mHashes'
          BY <3>1 DEF NamesInv, ManagerType
    <3>3. mFileToArchive'[f] \in Archives \union {Null}
          BY <3>1 DEF ManagerType
    <3>4. /\ rpc' = [rpc EXCEPT ![r] = "deref"] /\ rfile' = [rfile EXCEPT ![r] = f]
          /\ rarchive' = [rarchive EXCEPT ![r] = mFileToArchive'[f]]
          BY <2>13 DEF Lookup
    <3>5. \A q \in Readers : Loading(q)' => rfile'[q] \in Files /\ (pc' = "clear" => q \in crossed')
          BY <2>0, <3>1, <3>4 DEF NamesInv, Loading, ReadersType
    <3>6. ASSUME NEW q \in Readers, rpc'[q] = "deref", rarchive'[q] # Null, q \notin crossed'
          PROVE  rfile'[q] \in mHashes'
      <4>1. pc # "clear" /\ q \notin crossed
            BY <2>0, <3>1, <3>6
      <4> QED
          BY <3>1, <3>2, <3>3, <3>4, <3>6, <4>1 DEF NamesInv, ReadersType
    <3>7. NamesOutliveLookups'
          BY <2>0, <3>4 DEF NamesInv, NamesOutliveLookups, ReadersType
    <3> QED
        BY <3>1, <3>2, <3>5, <3>6, <3>7 DEF NamesInv
  <2>14. ASSUME NEW r \in Readers, NoArchive(r) PROVE NamesInv'
        BY <2>0, <2>14 DEF NoArchive, Answer, manager, mounting, NamesInv, NamesOutliveLookups, Loading, ReadersType
  <2>15. ASSUME NEW r \in Readers, Deref(r) PROVE NamesInv'
        BY <2>0, <2>15 DEF Deref, manager, mounting, NamesInv, NamesOutliveLookups, Loading, ReadersType
  <2>16. ASSUME NEW r \in Readers, Read(r) PROVE NamesInv'
        BY <2>0, <2>16 DEF Read, Answer, manager, mounting, NamesInv, NamesOutliveLookups, Loading, ReadersType
  <2>17. ASSUME NEW p \in Paths, NEW d \in Disks, Edit(p, d) PROVE NamesInv'
        BY <2>1, <2>17 DEF Edit, manager, mounting, NamesInv
  <2> QED
      BY <2>0, <2>2, <2>4, <2>5, <2>6, <2>7, <2>8, <2>9, <2>10, <2>11, <2>12, <2>13, <2>14, <2>15,
         <2>16, <2>17 DEF Step
<1>2. ASSUME UNCHANGED vars PROVE NamesInv'
      BY <1>2 DEF vars, manager, mounting, readers, history, NamesInv, NamesOutliveLookups, Loading
<1> QED
    BY <1>1, <1>2

(* Archive::LoadFile(hash) finds a name behind the pointer it dereferences *)
(* unless a reset overlapped the load, for any number of workers and       *)
(* archives and whatever is added, written and remounted while they load.  *)
THEOREM NamesOutliveLookupsHolds == Spec => []NamesOutliveLookups
<1>1. IInv /\ NamesInv /\ [Next]_vars => (IInv /\ NamesInv)'
      BY StepInv, StepNames
<1>2. Init => IInv /\ NamesInv
      BY InitInv, InitNames
<1>3. IInv /\ NamesInv => NamesOutliveLookups
      BY DEF NamesInv
<1> QED
    BY <1>1, <1>2, <1>3, PTL DEF Spec
------------------------------------------------------------------------------
(* While a load runs and its file stays provided by what is mounted, the   *)
(* archive it was given is the file's archive, and so, by Precedence, one  *)
(* that has the file.  A reset empties the list of the mounted archives, so*)
(* no file is provided between its two clears.                             *)
HeldInv ==
  \A r \in Readers :
    /\ Loading(r) /\ held[r] = "mounted" => /\ rfile[r] \in Provided
                                            /\ rarchive[r] = mFileToArchive[rfile[r]]
    /\ rpc[r] = "null" => held[r] # "mounted"

LEMMA InitHeld == Init => HeldInv
  BY DEF Init, HeldInv, Loading

LEMMA ProvidedByItsArchive ==
  ASSUME IInv, NEW f \in Provided
  PROVE  pc # "clear" /\ mFileToArchive[f] \in Archives /\ Provides(mFileToArchive[f], f)
<1>1. f \in Settled /\ f \in Files
      BY DEF Provided, Settled
<1>2. PICK i \in DOMAIN mArchives :
             /\ Provides(mArchives[i], f)
             /\ \A j \in DOMAIN mArchives : j > i => f \notin index[mArchives[j]]
      BY DEF Provided
<1>3. pc # "clear"
      BY <1>2 DEF IInv, Progress
<1>4. PICK k \in DOMAIN mArchives :
             /\ mFileToArchive[f] = mArchives[k] /\ f \in index[mArchives[k]]
             /\ \A j \in DOMAIN mArchives : j > k => f \notin index[mArchives[j]]
      BY <1>1, <1>2, <1>3 DEF IInv, Precedence, BelongsToLast, Provides
<1>5. i = k
  <2>1. i \in Nat /\ k \in Nat /\ f \in index[mArchives[i]]
        BY <1>2 DEF IInv, Types, ManagerType, Provides
  <2> QED
      BY <1>2, <1>4, <2>1
<1> QED
    BY <1>2, <1>3, <1>4, <1>5 DEF IInv, Types, ManagerType

(* A step changes what a worker knows of its load only if it is that       *)
(* worker's.                                                               *)
LEMMA OwnSteps ==
  ASSUME Types, Step, NEW r \in Readers
  PROVE  \/ rpc'[r] = rpc[r] /\ rfile'[r] = rfile[r] /\ rarchive'[r] = rarchive[r]
         \/ NoArchive(r) \/ Deref(r) \/ Read(r)
         \/ \E f \in Files : Lookup(r, f)
<1>1. CASE UNCHANGED readers
      BY <1>1 DEF readers
<1>2. ASSUME NEW q \in Readers, NEW f \in Files, Lookup(q, f), q # r
      PROVE  rpc'[r] = rpc[r] /\ rfile'[r] = rfile[r] /\ rarchive'[r] = rarchive[r]
      BY <1>2 DEF Lookup, Types, ReadersType
<1>3. ASSUME NEW q \in Readers, NoArchive(q) \/ Deref(q) \/ Read(q), q # r
      PROVE  rpc'[r] = rpc[r] /\ rfile'[r] = rfile[r] /\ rarchive'[r] = rarchive[r]
      BY <1>3 DEF NoArchive, Deref, Read, Answer, Types, ReadersType
<1>4. \/ UNCHANGED readers
      \/ \E q \in Readers, f \in Files : Lookup(q, f)
      \/ \E q \in Readers : NoArchive(q) \/ Deref(q) \/ Read(q)
      BY DEF Step, AddPath, Construct, AddObject, RemoveArchive, IndexHash, IndexOwner, IndexDone,
             ClearOwners, Remount, ResetVirtualFileSystem, SetArchives, WriteFile, Edit
<1> QED
    BY <1>1, <1>2, <1>3, <1>4

(* Whatever gives a provided file another archive leaves it unsettled.     *)
LEMMA OwnersKept ==
  ASSUME IInv, Types', Step, NEW f \in Provided, f \in Provided'
  PROVE  mFileToArchive'[f] = mFileToArchive[f]
<1> USE AssumptionsHold DEF Assumptions
<1>1. f \in Files /\ f \notin pending /\ f \notin written'
      BY DEF Provided, Settled
<1>2. /\ pc # "clear" /\ mFileToArchive[f] \in Archives
      /\ mFileToArchive \in [Files -> Archives \union {Null, Absent}]
      BY ProvidedByItsArchive DEF IInv, Types, ManagerType
<1>3. CASE UNCHANGED mFileToArchive
      BY <1>3
<1>4. CASE IndexOwner
      BY <1>1, <1>2, <1>4 DEF IndexOwner, IInv, Progress
<1>5. ASSUME NEW a \in Archives, NEW g \in Files, WriteFile(a, g)
      PROVE  mFileToArchive'[f] = mFileToArchive[f]
      BY <1>1, <1>2, <1>5 DEF WriteFile
<1>6. ASSUME NEW r \in Readers, NEW g \in Files, Lookup(r, g)
      PROVE  mFileToArchive'[f] = mFileToArchive[f]
      BY <1>2, <1>6 DEF Lookup
<1>7. CASE ClearOwners
      BY <1>2, <1>7 DEF ClearOwners
<1>8. \/ UNCHANGED mFileToArchive \/ IndexOwner \/ ClearOwners
      \/ \E a \in Archives, g \in Files : WriteFile(a, g)
      \/ \E r \in Readers, g \in Files : Lookup(r, g)
      BY DEF Step, AddPath, Construct, AddObject, RemoveArchive, IndexHash, IndexDone,
             Remount, ResetVirtualFileSystem, SetArchives, Edit, Mount, Reset, NoArchive, Deref, Read,
             Answer, manager
<1> QED
    BY <1>3, <1>4, <1>5, <1>6, <1>7, <1>8

(* What a load is known to have held is what its file was all the time.    *)
LEMMA StillHeld ==
  ASSUME Types, NEW r \in Readers, Kept(r) = "mounted", rpc'[r] # "idle"
  PROVE  /\ Loading(r) => held[r] = "mounted" /\ rfile[r] \in Provided' /\ rpc'[r] # "got"
         /\ ~Loading(r) /\ rpc'[r] = "deref" => rfile'[r] \in Provided'
         /\ ~Loading(r) /\ rpc'[r] # "deref" => held[r] = "mounted"
<1>1. \A f, P, R : Holds(f, P, R) = "mounted" => f \in P
      BY DEF Holds
<1>2. \A h, k : Weaker(h, k) = "mounted" => h = "mounted" /\ k = "mounted"
      BY DEF Weaker
<1>3. CASE Loading(r)
      BY <1>1, <1>2, <1>3 DEF Kept
<1>4. CASE ~Loading(r)
      BY <1>1, <1>2, <1>4 DEF Kept
<1> QED
    BY <1>3, <1>4

LEMMA StepHeld ==
  ASSUME IInv, Types', HeldInv, [Next]_vars
  PROVE  HeldInv'
<1> USE AssumptionsHold DEF Assumptions
<1>1. CASE UNCHANGED vars
  <2>1. UNCHANGED <<rpc, rfile, rarchive, held, mFileToArchive, written, pending, todo, mArchives, index, disk>>
        BY <1>1 DEF vars, manager, objects, mounting, readers, history, world
  <2>2. Provided' = Provided
        BY <2>1 DEF Provided, Settled, Provides, Disk
  <2> QED
      BY <2>1, <2>2 DEF HeldInv, Loading
<1>2. CASE Next
  <2> SUFFICES ASSUME NEW r \in Readers, held'[r] = "mounted"
               PROVE  /\ Loading(r)' => /\ rfile'[r] \in Provided'
                                        /\ rarchive'[r] = mFileToArchive'[rfile'[r]]
                      /\ rpc'[r] # "null"
    BY DEF HeldInv
  <2>1. Types /\ Step
        BY <1>2 DEF IInv, Next
  <2>2. Kept(r) = "mounted"
        BY <1>2 DEF Next, Watch, WatchHeld
  <2>3. CASE rpc'[r] = "idle"
        BY <2>3 DEF Loading
  <2>4. CASE rpc'[r] # "idle" /\ Loading(r)
    <3>1. held[r] = "mounted" /\ rfile[r] \in Provided' /\ rpc'[r] # "got"
          BY <2>1, <2>2, <2>4, StillHeld
    <3>2. rfile[r] \in Provided /\ rarchive[r] = mFileToArchive[rfile[r]]
          BY <2>4, <3>1 DEF HeldInv
    <3>3. rarchive[r] \in Archives /\ Provides(rarchive[r], rfile[r])
          BY <3>2, ProvidedByItsArchive
    <3>4. rarchive[r] = mFileToArchive'[rfile[r]]
          BY <2>1, <3>1, <3>2, OwnersKept
    <3>5. CASE rpc'[r] = rpc[r] /\ rfile'[r] = rfile[r] /\ rarchive'[r] = rarchive[r]
          BY <2>4, <3>1, <3>4, <3>5 DEF Loading
    <3>6. CASE NoArchive(r)
          BY <3>3, <3>6 DEF NoArchive
    <3>7. CASE Deref(r)
          BY <2>1, <3>1, <3>4, <3>7 DEF Deref, Types, ReadersType
    <3>8. CASE Read(r)
          BY <2>1, <3>1, <3>3, <3>8 DEF Read, Answer, Provides, Types, ReadersType
    <3>9. ASSUME NEW f \in Files, Lookup(r, f) PROVE FALSE
          BY <2>4, <3>9 DEF Lookup, Loading
    <3> QED
        BY <2>1, <3>5, <3>6, <3>7, <3>8, <3>9, OwnSteps
  <2>5. CASE rpc'[r] # "idle" /\ ~Loading(r)
    <3>1. CASE rpc'[r] = rpc[r] /\ rfile'[r] = rfile[r] /\ rarchive'[r] = rarchive[r]
          BY <2>1, <2>2, <2>5, <3>1, StillHeld DEF Loading, HeldInv
    <3>2. ASSUME NEW f \in Files, Lookup(r, f)
          PROVE  /\ rfile'[r] \in Provided' /\ rarchive'[r] = mFileToArchive'[rfile'[r]]
                 /\ rpc'[r] = "deref"
      <4>1. rpc'[r] = "deref" /\ rfile'[r] = f /\ rarchive'[r] = mFileToArchive'[f]
            BY <2>1, <3>2 DEF Lookup, Types, ReadersType
      <4> QED
          BY <2>1, <2>2, <2>5, <4>1, StillHeld
    <3>3. ~(NoArchive(r) \/ Deref(r) \/ Read(r))
          BY <2>5 DEF NoArchive, Deref, Read, Loading
    <3> QED
        BY <2>1, <3>1, <3>2, <3>3, OwnSteps
  <2> QED
      BY <2>3, <2>4, <2>5
<1> QED
    BY <1>1, <1>2

(* A load that fails, during a reset or not, failed for a file that, for   *)
(* some of that time, no archive in the list of the mounted ones provided, *)
(* whatever is mounted, removed, written and edited on disk meanwhile.     *)
THEOREM NullMeansUnmountedHolds == Spec => []NullMeansUnmounted
<1>1. IInv /\ HeldInv /\ [Next]_vars => (IInv /\ HeldInv)'
  <2> SUFFICES ASSUME IInv, HeldInv, [Next]_vars PROVE (IInv /\ HeldInv)'
      OBVIOUS
  <2>1. IInv' /\ Types'
        BY StepInv DEF IInv
  <2> QED
      BY <2>1, StepHeld
<1>2. Init => IInv /\ HeldInv
      BY InitInv, InitHeld
<1>3. HeldInv => NullMeansUnmounted
      BY DEF HeldInv, NullMeansUnmounted
<1> QED
    BY <1>1, <1>2, <1>3, PTL DEF Spec
==============================================================================
