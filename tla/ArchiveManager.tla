--------------------------- MODULE ArchiveManager ----------------------------
(***************************************************************************)
(* The virtual file system of Ship::ArchiveManager                         *)
(* (src/src/ship/resource/archive/ArchiveManager.cpp): one thread mounts,  *)
(* removes and replaces archives and writes files, while the workers of the*)
(* resource pool look files up.  Nothing locks the tables, so a change is  *)
(* the steps in which it updates them.  A hash is the file it stands for.  *)
(***************************************************************************)
EXTENDS Naturals, Sequences

CONSTANTS
  Archives,      \* Archive objects
  Paths,         \* archive files and folders on disk
  PathOf,        \* the path each object was built for
  Folders,       \* the objects that are FolderArchives; the others are zips
  Files,         \* virtual paths
  DirsOf,        \* the directory of each file, as a set: empty or a singleton
  Versions,      \* game versions
  NoVersion,     \* 0xFFFFFFFF
  ValidVersions, \* mValidGameVersions
  Null,          \* a null shared_ptr
  Absent,        \* no entry in mFileToArchive
  Readers,       \* the workers that call LoadFile
  Disks,         \* what an archive on disk can be
  MaxMounted,    \* bound on the length of mArchives
  MaxEdits       \* bound on the changes made to archives on disk

ASSUME PathAssumption == PathOf \in [Archives -> Paths] /\ Folders \subseteq Archives
ASSUME VersionAssumption == ValidVersions \subseteq Versions /\ NoVersion \notin Versions
ASSUME NullAssumption == {Null, Absent} \intersect Archives = {} /\ Null # Absent
ASSUME DiskAssumption ==
  Disks \subseteq [opens : BOOLEAN, files : SUBSET Files, version : Versions \union {NoVersion}]
ASSUME BoundAssumption == MaxMounted \in Nat /\ MaxEdits \in Nat

VARIABLES
  \* the manager
  mArchives,    \* the mounted archives, the last has priority
  mHashes,      \* the files HashToString knows
  mFileToArchive, \* the archive of each file
  mDirectories, \* what ListDirectories lists
  \* the archive objects
  known,    \* those constructed so far
  loaded,   \* mIsLoaded
  version,  \* mGameVersion; NoVersion while mHasGameVersion is false
  index,    \* Archive::mHashes
  \* the thread that changes the file system
  pc,       \* where it is
  todo,     \* the archives ResetVirtualFileSystem has still to mount
  pending,  \* the files AddArchive has still to enter
  cur,      \* the file it is entering
  \* the workers
  rpc, rfile, rarchive,
  \* history of the workers' loads
  held,     \* was the file provided all the time, by what is mounted or what will be again?
  crossed,  \* the workers whose load a reset of the tables overlapped
  \* the world outside
  disk,     \* Paths -> Disks
  edits,    \* changes made to it
  written   \* history: files written since they were last mounted

manager == <<mArchives, mHashes, mFileToArchive, mDirectories>>
objects == <<known, loaded, version, index>>
mounting == <<pc, todo, pending, cur>>
readers == <<rpc, rfile, rarchive>>
history == <<held, crossed>>
world == <<disk, edits, written>>
vars == <<manager, objects, mounting, readers, history, world>>

TypeOK ==
  /\ mArchives \in Seq(Archives)
  /\ mHashes \subseteq Files
  /\ mFileToArchive \in [Files -> Archives \union {Null, Absent}]
  /\ mDirectories \subseteq UNION {DirsOf[f] : f \in Files}
  /\ known \subseteq Archives
  /\ loaded \in [Archives -> BOOLEAN]
  /\ version \in [Archives -> Versions \union {NoVersion}]
  /\ index \in [Archives -> SUBSET Files]
  /\ pc \in {"idle", "clear", "remount", "index", "owner"}
  /\ todo \in Seq(Archives)
  /\ pending \subseteq Files
  /\ cur \in Files \union {Null}
  /\ rpc \in [Readers -> {"idle", "deref", "read", "got", "null", "crashed"}]
  /\ rfile \in [Readers -> Files \union {Null}]
  /\ rarchive \in [Readers -> Archives \union {Null}]
  /\ held \in [Readers -> {"mounted", "remounted", "lost"}]
  /\ crossed \subseteq Readers
  /\ disk \in [Paths -> [opens : BOOLEAN, files : SUBSET Files,
                         version : Versions \union {NoVersion}]]
  /\ edits \in 0 .. MaxEdits
  /\ written \subseteq Files

(* A folder always opens: a missing one has no files.                      *)
Possible(p, d) == d.opens \/ \A a \in Folders : PathOf[a] # p

Init ==
  /\ mArchives = <<>> /\ mHashes = {} /\ mDirectories = {}
  /\ mFileToArchive = [f \in Files |-> Absent]
  /\ known = {} /\ loaded = [a \in Archives |-> FALSE]
  /\ version = [a \in Archives |-> NoVersion] /\ index = [a \in Archives |-> {}]
  /\ pc = "idle" /\ todo = <<>> /\ pending = {} /\ cur = Null
  /\ rpc = [r \in Readers |-> "idle"] /\ rfile = [r \in Readers |-> Null]
  /\ rarchive = [r \in Readers |-> Null] /\ held = [r \in Readers |-> "lost"]
  /\ crossed = {}
  /\ disk \in [Paths -> Disks] /\ edits = 0 /\ written = {}
  /\ \A p \in Paths : Possible(p, disk[p])

Mounted == {mArchives[i] : i \in DOMAIN mArchives}
ToMount == {todo[i] : i \in DOMAIN todo}
Loading(r) == rpc[r] \in {"deref", "read"}

------------------------------------------------------------------------------
(* Archive::Load.  Files are added to the index and never leave it, and an *)
(* archive that once had a game version must have a valid one from then on.*)
Disk(a) == disk[PathOf[a]]
IsGameVersionValid(v) == ValidVersions = {} \/ v \in ValidVersions
LoadedVersion(a) ==
  IF Disk(a).opens /\ Disk(a).version # NoVersion THEN Disk(a).version ELSE version[a]
Loads(a) ==
  /\ Disk(a).opens
  /\ \/ LoadedVersion(a) = NoVersion
     \/ Disk(a).version # NoVersion /\ IsGameVersionValid(Disk(a).version)
LoadedIndex(a) == IF Disk(a).opens THEN index[a] \union Disk(a).files ELSE index[a]

Load(a) ==
  /\ loaded' = [loaded EXCEPT ![a] = Loads(a)]
  /\ version' = [version EXCEPT ![a] = LoadedVersion(a)]
  /\ index' = [index EXCEPT ![a] = LoadedIndex(a)]

Afterwards(archives) == IF archives = <<>> THEN "idle" ELSE "remount"

(* Mutant of Admits: the manager trusts Load's own check.                  *)
AdmitsLoaded(isLoaded, v) == isLoaded

(* AddArchive's two early returns: not loaded, or not of a valid version.  *)
Admits(isLoaded, v) == isLoaded /\ IsGameVersionValid(v)

(* AddArchive up to its loop over the files fs of archive a.               *)
Mount(a, admitted, fs, archives) ==
  /\ todo' = archives
  /\ IF admitted
     THEN mArchives' = Append(mArchives, a) /\ pending' = fs /\ pc' = "index"
     ELSE pc' = Afterwards(archives) /\ UNCHANGED <<mArchives, pending>>
  /\ UNCHANGED <<mHashes, mFileToArchive, mDirectories, cur>>

(* AddArchive(path): a new object, loaded and added.                       *)
AddPath(a) ==
  /\ pc = "idle" /\ a \notin known /\ Len(mArchives) < MaxMounted
  /\ known' = known \union {a}
  /\ Load(a)
  /\ Mount(a, Admits(Loads(a), LoadedVersion(a)), LoadedIndex(a), <<>>)
  /\ UNCHANGED <<readers, world>>

(* The application builds an archive itself, and may load it.              *)
Construct(a) ==
  /\ pc = "idle" /\ a \notin known
  /\ known' = known \union {a}
  /\ Load(a) \/ UNCHANGED <<loaded, version, index>>
  /\ UNCHANGED <<manager, mounting, readers, world>>

(* AddArchive(archive), of an object that may be mounted already.          *)
AddObject(a) ==
  /\ pc = "idle" /\ a \in known /\ Len(mArchives) < MaxMounted
  /\ Mount(a, Admits(loaded[a], version[a]), index[a], <<>>)
  /\ UNCHANGED <<objects, readers, world>>

(* Mutant of IndexHash: the file's archive is entered before its name.     *)
IndexHashLate(f) ==
  /\ pc = "index" /\ f \in pending
  /\ mFileToArchive' = [mFileToArchive EXCEPT ![f] = mArchives[Len(mArchives)]]
  /\ cur' = f
  /\ pc' = "owner"
  /\ UNCHANGED <<mArchives, mHashes, mDirectories, todo, pending, objects, readers, world>>

(* The loop of AddArchive: the files come in any order, the name first.    *)
IndexHash(f) ==
  /\ pc = "index" /\ f \in pending
  /\ mHashes' = mHashes \union {f}
  /\ cur' = f
  /\ pc' = "owner"
  /\ UNCHANGED <<mArchives, mFileToArchive, mDirectories, todo, pending, objects, readers, world>>

(* Mutant of IndexOwner: a file that has an archive keeps it.              *)
IndexOwnerFirst ==
  /\ pc = "owner"
  /\ mFileToArchive' = [mFileToArchive EXCEPT ![cur] =
                          IF @ \in Archives THEN @ ELSE mArchives[Len(mArchives)]]
  /\ mDirectories' = mDirectories \union DirsOf[cur]
  /\ pending' = pending \ {cur}
  /\ written' = written \ {cur}
  /\ cur' = Null
  /\ pc' = "index"
  /\ UNCHANGED <<mArchives, mHashes, todo, objects, readers, disk, edits>>

IndexOwner ==
  /\ pc = "owner"
  /\ mFileToArchive' = [mFileToArchive EXCEPT ![cur] = mArchives[Len(mArchives)]]
  /\ mDirectories' = mDirectories \union DirsOf[cur]
  /\ pending' = pending \ {cur}
  /\ written' = written \ {cur}
  /\ cur' = Null
  /\ pc' = "index"
  /\ UNCHANGED <<mArchives, mHashes, todo, objects, readers, disk, edits>>

(* Mutant of IndexDone: the loop stops one file early.                     *)
IndexDoneEarly ==
  /\ pc = "index" /\ pending \in {{}} \union {{f} : f \in Files}
  /\ pc' = Afterwards(todo)
  /\ pending' = {}
  /\ UNCHANGED <<manager, objects, todo, cur, readers, world>>

IndexDone ==
  /\ pc = "index" /\ pending = {}
  /\ pc' = Afterwards(todo)
  /\ UNCHANGED <<manager, objects, todo, pending, cur, readers, world>>

------------------------------------------------------------------------------
(* ResetVirtualFileSystem of the given archives, up to the first table.    *)
Reset(archives) ==
  /\ mArchives' = <<>>
  /\ mHashes' = {}
  /\ todo' = archives
  /\ pc' = "clear"
  /\ UNCHANGED <<mFileToArchive, mDirectories, pending, cur>>

(* RemoveArchive of the first archive with the path of a.                  *)
RemoveArchive(a) ==
  /\ pc = "idle"
  /\ \E i \in DOMAIN mArchives :
       /\ PathOf[mArchives[i]] = PathOf[a]
       /\ \A j \in 1 .. i - 1 : PathOf[mArchives[j]] # PathOf[a]
       /\ loaded' = [loaded EXCEPT ![mArchives[i]] = FALSE]
       /\ Reset(SubSeq(mArchives, 1, i - 1) \o SubSeq(mArchives, i + 1, Len(mArchives)))
  /\ UNCHANGED <<known, version, index, readers, world>>

SetArchives(archives) ==
  /\ pc = "idle"
  /\ Reset(archives)
  /\ UNCHANGED <<objects, readers, world>>

ResetVirtualFileSystem ==
  /\ pc = "idle"
  /\ Reset(mArchives)
  /\ UNCHANGED <<objects, readers, world>>

ClearOwners ==
  /\ pc = "clear"
  /\ mFileToArchive' = [f \in Files |-> Absent]
  /\ pc' = Afterwards(todo)
  /\ written' = {}
  /\ UNCHANGED <<mArchives, mHashes, mDirectories, todo, pending, cur, objects, readers, disk, edits>>

(* Unload, Load and AddArchive of the next archive.                        *)
Remount ==
  /\ pc = "remount"
  /\ LET a == Head(todo)
     IN  /\ Load(a)
         /\ Mount(a, Admits(Loads(a), LoadedVersion(a)), LoadedIndex(a), Tail(todo))
  /\ UNCHANGED <<known, readers, world>>

(* WriteFile, behind the failure that changes nothing: a zip must be open. *)
(* A folder takes the file without indexing it.                            *)
WriteFile(a, f) ==
  /\ pc = "idle" /\ a \in known
  /\ a \in Folders \/ loaded[a]
  /\ disk' = [disk EXCEPT ![PathOf[a]].files = @ \union {f}]
  /\ index' = IF a \in Folders THEN index ELSE [index EXCEPT ![a] = @ \union {f}]
  /\ mHashes' = mHashes \union {f}
  /\ mFileToArchive' = [mFileToArchive EXCEPT ![f] = a]
  /\ written' = written \union {f}
  /\ UNCHANGED <<mArchives, mDirectories, known, loaded, version, mounting, readers, edits>>

------------------------------------------------------------------------------
(* Mutant of Lookup: find instead of operator[], its miss handed on.       *)
LookupFind(r, f) ==
  /\ rpc[r] \in {"idle", "got", "null"}
  /\ rfile' = [rfile EXCEPT ![r] = f]
  /\ rarchive' = [rarchive EXCEPT ![r] = mFileToArchive[f]]
  /\ rpc' = [rpc EXCEPT ![r] = "deref"]
  /\ UNCHANGED <<manager, objects, mounting, world>>

(* LoadFile(hash) on a worker: operator[] enters a null archive for a file *)
(* that has none, as GetArchiveFromFile does.                              *)
Lookup(r, f) ==
  /\ rpc[r] \in {"idle", "got", "null"}
  /\ mFileToArchive' = [mFileToArchive EXCEPT ![f] = IF @ = Absent THEN Null ELSE @]
  /\ rfile' = [rfile EXCEPT ![r] = f]
  /\ rarchive' = [rarchive EXCEPT ![r] = mFileToArchive'[f]]
  /\ rpc' = [rpc EXCEPT ![r] = "deref"]
  /\ UNCHANGED <<mArchives, mHashes, mDirectories, objects, mounting, world>>

Answer(r, answer) ==
  /\ rpc' = [rpc EXCEPT ![r] = answer]
  /\ rfile' = [rfile EXCEPT ![r] = Null]
  /\ rarchive' = [rarchive EXCEPT ![r] = Null]
  /\ UNCHANGED <<manager, objects, mounting, world>>

(* The early return of LoadFile(hash).                                     *)
NoArchive(r) ==
  /\ rpc[r] = "deref" /\ rarchive[r] = Null
  /\ Answer(r, "null")

(* Archive::LoadFile(hash) dereferences what HashToString returns.         *)
Deref(r) ==
  /\ rpc[r] = "deref" /\ rarchive[r] # Null
  /\ rpc' = [rpc EXCEPT ![r] = IF rfile[r] \in mHashes THEN "read" ELSE "crashed"]
  /\ UNCHANGED <<manager, objects, mounting, rfile, rarchive, world>>

(* The archive opens its path anew: an unloaded one is read all the same.  *)
Read(r) ==
  /\ rpc[r] = "read"
  /\ LET d == Disk(rarchive[r])
     IN  Answer(r, IF d.opens /\ rfile[r] \in d.files THEN "got" ELSE "null")

(* The user replaces an archive's file between two operations.             *)
Edit(p, d) ==
  /\ pc = "idle" /\ edits < MaxEdits /\ Possible(p, d)
  /\ disk' = [disk EXCEPT ![p] = d]
  /\ edits' = edits + 1
  /\ UNCHANGED <<manager, objects, mounting, readers, written>>

Step ==
  \/ \E a \in Archives : AddPath(a) \/ Construct(a) \/ AddObject(a) \/ RemoveArchive(a)
  \/ \E f \in Files : IndexHash(f)
  \/ IndexOwner \/ IndexDone \/ ClearOwners \/ Remount \/ ResetVirtualFileSystem
  \/ \E n \in 0 .. MaxMounted : \E archives \in [1 .. n -> known] : SetArchives(archives)
  \/ \E a \in Archives, f \in Files : WriteFile(a, f)
  \/ \E r \in Readers, f \in Files : Lookup(r, f)
  \/ \E r \in Readers : NoArchive(r) \/ Deref(r) \/ Read(r)
  \/ \E p \in Paths, d \in Disks : Edit(p, d)

(* The settled files that their last mounted archive provides, and those   *)
(* that it or an archive the reset has still to mount again provides.      *)
Settled == Files \ (written \union pending)
Provides(a, f) == f \in index[a] /\ Disk(a).opens /\ f \in Disk(a).files
Provided ==
  {f \in Settled : \E i \in DOMAIN mArchives :
                     /\ Provides(mArchives[i], f)
                     /\ \A j \in DOMAIN mArchives : j > i => f \notin index[mArchives[j]]}
Remounted == Provided \union {f \in Settled : \E a \in ToMount : Provides(a, f)}

Holds(f, provided, remounted) ==
  IF f \in provided THEN "mounted" ELSE IF f \in remounted THEN "remounted" ELSE "lost"

Weaker(h, k) == IF "lost" \in {h, k} THEN "lost" ELSE IF h = "mounted" THEN k ELSE h

Kept(r) ==
  IF Loading(r)
  THEN IF rpc'[r] = "got" THEN "lost"
       ELSE Weaker(held[r], Holds(rfile[r], Provided', Remounted'))
  ELSE IF rpc'[r] = "deref"
       THEN Weaker(Holds(rfile'[r], Provided, Remounted), Holds(rfile'[r], Provided', Remounted'))
       ELSE held[r]

WatchHeld == held' = [r \in Readers |-> Kept(r)]

(* From its first clear to its last a reset has names and archives apart.  *)
WatchResets ==
  crossed' = {r \in Readers : /\ rpc'[r] \in {"deref", "read", "crashed"}
                              /\ pc' = "clear" \/ r \in crossed}

Watch == WatchHeld /\ WatchResets

(* A null pointer dereferenced is the end of the process.                  *)
Alive == \A r \in Readers : rpc[r] # "crashed"

Next == Alive /\ Step /\ Watch

Spec == Init /\ [][Next]_vars

------------------------------------------------------------------------------
(* ArchiveManager.h: "the archive added most recently (highest index)      *)
(* takes precedence".  Whatever was added, removed, replaced and mounted   *)
(* again, a file belongs to the last mounted archive that has it, unless   *)
(* WriteFile has put it somewhere else or AddArchive is just entering it.  *)
BelongsToLast(f) ==
  \/ /\ mFileToArchive[f] \in {Null, Absent}
     /\ \A i \in DOMAIN mArchives : f \notin index[mArchives[i]]
  \/ \E i \in DOMAIN mArchives :
       /\ mFileToArchive[f] = mArchives[i]
       /\ f \in index[mArchives[i]]
       /\ \A j \in DOMAIN mArchives : j > i => f \notin index[mArchives[j]]

Precedence == pc # "clear" => \A f \in Settled : BelongsToLast(f)

(* AddArchive's check of the game version survives every remount: with a   *)
(* list of valid versions nothing else is mounted, even after archives     *)
(* have changed on disk.                                                   *)
MountedAreValid == \A a \in Mounted : IsGameVersionValid(version[a])

(* Archive::LoadFile(hash) dereferences HashToString's pointer unchecked:  *)
(* a worker that was given an archive finds the name, whatever is added,   *)
(* entered and written meanwhile, unless a reset cleared the names between *)
(* or had just cleared them.                                               *)
NamesOutliveLookups == \A r \in Readers : rpc[r] = "crashed" => r \in crossed

(* ArchiveManager.h on LoadFile: "nullptr if no mounted archive contains   *)
(* the file": a load that fails, resets or not, failed for a file that, for*)
(* some of that time, no archive in the list of the mounted ones provided. *)
NullMeansUnmounted == \A r \in Readers : rpc[r] = "null" => held[r] # "mounted"

==============================================================================
