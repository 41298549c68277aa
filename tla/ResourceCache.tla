---------------------------- MODULE ResourceCache ----------------------------
(***************************************************************************)
(* The resource cache of Ship::ResourceManager                             *)
(* (src/src/ship/resource/ResourceManager.cpp): loads with the alternate   *)
(* ("alt/") fall-through, unloads, dirtying and writes, run by threads that*)
(* share mResourceCache under mMutex.  A step is one critical section of   *)
(* mMutex or one access to shared state made outside it, so every          *)
(* interleaving of the code's lock regions is a behaviour.                 *)
(***************************************************************************)
EXTENDS FiniteSets, Naturals

Loads == {"async", "process"}
AllOps == Loads \union {"dirty", "unload", "unloadMask", "write"}

CONSTANTS
  Names,        \* virtual paths without the "alt/" prefix
  Owners,       \* values of ResourceIdentifier.Owner
  DefaultOwner, \* mDefaultCacheOwner
  Threads,      \* pool workers and the game thread
  Objects,      \* addresses of IResource objects
  Contents,     \* file contents a factory turns into a resource
  Bad,          \* file contents for which ResourceLoader returns nullptr
  NoFile,       \* ArchiveManager::LoadFile returned nullptr
  Nil,          \* nullptr
  NotCached,    \* ResourceLoadError::NotCached
  NotFound,     \* ResourceLoadError::NotFound
  Ops,          \* the operations the callers use
  Exacts,       \* subset of BOOLEAN: loadExact arguments
  Prefixed,     \* subset of BOOLEAN: may callers pass "__OTR__" paths?
  Unloading,    \* subset of BOOLEAN: unloadFile arguments of WriteResource
  Toggling,     \* is SetAltAssetsEnabled called while loads run?
  Remounting,   \* do archives come and go beneath the cache?
  Allocate(_)   \* of the unused addresses, those make_shared may return

ASSUME OwnerAssumption == DefaultOwner \in Owners
ASSUME NilAssumption == {Nil, NotCached, NotFound} \intersect Objects = {}
ASSUME ErrorAssumption == NotCached # NotFound /\ Nil \notin {NotCached, NotFound}
ASSUME OpsAssumption == Ops \subseteq AllOps
ASSUME FlagAssumption ==
  /\ Exacts \subseteq BOOLEAN /\ Prefixed \subseteq BOOLEAN /\ Unloading \subseteq BOOLEAN
  /\ Toggling \in BOOLEAN /\ Remounting \in BOOLEAN
ASSUME FileAssumption == NoFile # Bad /\ {NoFile, Bad} \intersect Contents = {}
ASSUME AllocateAssumption == \A S \in SUBSET Objects : Allocate(S) \subseteq S
ASSUME NonEmptyAssumption == Names # {}

Paths == [name : Names, alt : BOOLEAN]
Ids == [name : Names, alt : BOOLEAN, owner : Owners]
Path(id) == [name |-> id.name, alt |-> id.alt]
Alt(id) == [id EXCEPT !.alt = TRUE]

Errors == {NotCached, NotFound}
Lines == Errors \union Objects     \* the variant CheckCache returns

VARIABLES
  cache,   \* mResourceCache; an absent key is NotCached
  dirty,   \* objects whose mIsDirty is set
  ident,   \* the identifier an object was built for
  file,    \* what the mounted archives hold at each path
  altOn,   \* mAltAssetsEnabled
  pc,      \* where each thread is
  op,      \* the operation each thread runs
  req,     \* the identifier argument of the operation
  exact,   \* its loadExact argument
  cur,     \* the identifier of the innermost LoadResourceProcess frame
  line,    \* its cacheLine / cachedResource
  fresh,   \* its resource
  result   \* what the thread's last load returned

(* Ghosts: what was true when, or since, the thread's operation began.     *)
VARIABLES
  startDirty, \* objects already dirty at its start
  asked,      \* the loadExact value the caller gave
  altSeen,    \* mAltAssetsEnabled was set at some time since
  goodFile    \* the file at req.path could be loaded at all times since

shared == <<cache, dirty, ident, file, altOn>>
ghosts == <<startDirty, asked, altSeen, goodFile>>
vars == <<cache, dirty, ident, file, altOn, pc, op, req, exact, cur,
          line, fresh, result, startDirty, asked, altSeen, goodFile>>

Points == {"idle", "start", "decide", "lookAlt", "look", "examine", "read",
           "miss", "relook", "recheck", "commit", "contains", "erase"}

SharedType ==
  /\ cache \in [Ids -> Lines]
  /\ dirty \subseteq Objects
  /\ ident \in [Objects -> Ids]
  /\ file \in [Paths -> Contents \union {Bad, NoFile}]
  /\ altOn \in BOOLEAN

LocalType ==
  /\ pc \in [Threads -> Points]
  /\ op \in [Threads -> AllOps]
  /\ req \in [Threads -> Ids]
  /\ exact \in [Threads -> BOOLEAN]
  /\ cur \in [Threads -> Ids]
  /\ line \in [Threads -> Lines \union {Nil}]
  /\ fresh \in [Threads -> Objects \union {Nil}]
  /\ result \in [Threads -> Objects \union {Nil}]

GhostType ==
  /\ startDirty \in [Threads -> SUBSET Objects]
  /\ asked \in [Threads -> BOOLEAN]
  /\ altSeen \in [Threads -> BOOLEAN]
  /\ goodFile \in [Threads -> BOOLEAN]

TypeOK == SharedType /\ LocalType /\ GhostType

AnyId == CHOOSE id \in Ids : TRUE

Init ==
  /\ cache = [id \in Ids |-> NotCached]
  /\ dirty = {}
  /\ ident = [o \in Objects |-> AnyId]
  /\ file \in [Paths -> Contents \union {NoFile}]
  /\ altOn \in BOOLEAN
  /\ pc = [t \in Threads |-> "idle"]
  /\ op = [t \in Threads |-> "process"]
  /\ req = [t \in Threads |-> AnyId]
  /\ exact = [t \in Threads |-> FALSE]
  /\ cur = [t \in Threads |-> AnyId]
  /\ line = [t \in Threads |-> Nil]
  /\ fresh = [t \in Threads |-> Nil]
  /\ result = [t \in Threads |-> Nil]
  /\ startDirty = [t \in Threads |-> {}]
  /\ asked = [t \in Threads |-> FALSE]
  /\ altSeen = [t \in Threads |-> TRUE]
  /\ goodFile = [t \in Threads |-> FALSE]

------------------------------------------------------------------------------
(* Objects some shared_ptr still points to: the others are destroyed, and  *)
(* their addresses may be handed out again.                                *)
Live == {cache[id] : id \in Ids} \union
        UNION {{line[t], fresh[t], result[t]} : t \in Threads}

(* Mutant of Clean: the IsDirty check of GetCachedResource is dropped.     *)
AnyResource(l) == l \in Objects

Clean(l) == l \in Objects \ dirty    \* GetCachedResource(cacheLine) # nullptr
Loadable(c) == c \in Contents

(* The thread's operation ends and its locals die; r is what it returns.   *)
Finish(t, r) ==
  /\ pc' = [pc EXCEPT ![t] = "idle"]
  /\ line' = [line EXCEPT ![t] = Nil]
  /\ fresh' = [fresh EXCEPT ![t] = Nil]
  /\ result' = [result EXCEPT ![t] = r]
  /\ UNCHANGED <<op, req, exact, cur>>

(* Mutant of ReturnNull: a missing alternate asset ends the whole load.    *)
ReturnNullAtOnce(t) == Finish(t, Nil)

(* LoadResourceProcess returns nullptr: the frame of the alternate asset   *)
(* falls back to the standard one, the outermost frame ends the load.      *)
ReturnNull(t) ==
  IF cur[t] # req[t]
  THEN /\ pc' = [pc EXCEPT ![t] = "decide"]
       /\ cur' = [cur EXCEPT ![t] = req[t]]
       /\ line' = [line EXCEPT ![t] = Nil]
       /\ fresh' = [fresh EXCEPT ![t] = Nil]
       /\ UNCHANGED <<op, req, exact, result>>
  ELSE Finish(t, Nil)

Goto(t, point) ==
  /\ pc' = [pc EXCEPT ![t] = point]
  /\ UNCHANGED <<op, req, exact, cur, fresh, result>>

------------------------------------------------------------------------------
(* A caller enters the API.  LoadResourceProcess drops loadExact together  *)
(* with the "__OTR__" prefix, LoadResourceAsync keeps it; UnloadResources  *)
(* and UnloadResourcesAsync use the default owner whatever the filter's.   *)
Begin(t, o, id, ex, otr) ==
  /\ pc[t] = "idle"
  /\ op' = [op EXCEPT ![t] = o]
  /\ req' = [req EXCEPT ![t] = id]
  /\ exact' = [exact EXCEPT ![t] = ex /\ ~(otr /\ o = "process")]
  /\ cur' = [cur EXCEPT ![t] = IF o = "unloadMask" THEN [id EXCEPT !.owner = DefaultOwner]
                                                   ELSE id]
  /\ pc' = [pc EXCEPT ![t] = CASE o \in {"async", "dirty"} -> "decide"
                               [] o \in {"unload", "unloadMask"} -> "contains"
                               [] OTHER -> "start"]
  /\ result' = [result EXCEPT ![t] = Nil]
  /\ startDirty' = [startDirty EXCEPT ![t] = dirty]
  /\ asked' = [asked EXCEPT ![t] = ex]
  /\ altSeen' = [altSeen EXCEPT ![t] = altOn]
  /\ goodFile' = [goodFile EXCEPT ![t] = Loadable(file[Path(id)])]
  /\ UNCHANGED <<cache, dirty, ident, file, altOn, line, fresh>>

(* Mutant of StartLoad: shouldCheckAlt forgets loadExact.                  *)
StartLoadAnyway(t) ==
  /\ pc[t] = "start" /\ op[t] = "process"
  /\ cur' = [cur EXCEPT ![t] = IF altOn THEN Alt(req[t]) ELSE req[t]]
  /\ pc' = [pc EXCEPT ![t] = "decide"]
  /\ UNCHANGED <<shared, ghosts, op, req, exact, line, fresh, result>>

(* LoadResourceProcess up to the alternate asset's recursive call.         *)
StartLoad(t) ==
  /\ pc[t] = "start" /\ op[t] = "process"
  /\ IF ~exact[t] /\ altOn /\ ~req[t].alt
     THEN cur' = [cur EXCEPT ![t] = Alt(req[t])]
     ELSE UNCHANGED cur
  /\ pc' = [pc EXCEPT ![t] = "decide"]
  /\ UNCHANGED <<shared, ghosts, op, req, exact, line, fresh, result>>

(* CheckCache reads mAltAssetsEnabled before it takes the mutex.           *)
Decide(t) ==
  /\ pc[t] = "decide"
  /\ Goto(t, IF ~exact[t] /\ altOn /\ ~cur[t].alt THEN "lookAlt" ELSE "look")
  /\ UNCHANGED <<shared, ghosts, line>>

(* CheckCache on the alternate identifier: any resource there, dirty or    *)
(* not, hides the standard one.                                            *)
LookAlt(t) ==
  /\ pc[t] = "lookAlt"
  /\ LET found == cache[Alt(cur[t])]
     IN  IF found \in Objects
         THEN Goto(t, "examine") /\ line' = [line EXCEPT ![t] = found]
         ELSE Goto(t, "look") /\ UNCHANGED line
  /\ UNCHANGED <<shared, ghosts>>

Look(t) ==
  /\ pc[t] = "look"
  /\ line' = [line EXCEPT ![t] = cache[cur[t]]]
  /\ Goto(t, "examine")
  /\ UNCHANGED <<shared, ghosts>>

(* LoadResourceAsync with its cacheCheck: a hit is the answer, a miss is   *)
(* queued and a worker runs LoadResourceProcess.                           *)
ExamineAsync(t) ==
  /\ pc[t] = "examine" /\ op[t] = "async"
  /\ IF Clean(line[t])
     THEN Finish(t, line[t])
     ELSE /\ op' = [op EXCEPT ![t] = "process"]
          /\ pc' = [pc EXCEPT ![t] = "start"]
          /\ line' = [line EXCEPT ![t] = Nil]
          /\ UNCHANGED <<req, exact, cur, fresh, result>>
  /\ UNCHANGED <<shared, ghosts>>

(* LoadResourceProcess with its cacheLine: a hit is the answer, an         *)
(* alternate asset known to be missing is nullptr.                         *)
ExamineLoad(t) ==
  /\ pc[t] = "examine" /\ op[t] = "process"
  /\ IF Clean(line[t]) THEN Finish(t, line[t])
     ELSE IF ~exact[t] /\ altOn /\ cur[t].alt /\ line[t] = NotFound
     THEN ReturnNull(t)
     ELSE Goto(t, "read") /\ line' = [line EXCEPT ![t] = Nil]
  /\ UNCHANGED <<shared, ghosts>>

(* The factory makes an object of the file's contents, at an address       *)
(* nothing points to.                                                      *)
Build(t) ==
  \E o \in Allocate(Objects \ Live) :
    /\ dirty' = dirty \ {o}
    /\ ident' = [ident EXCEPT ![o] = cur[t]]
    /\ fresh' = [fresh EXCEPT ![t] = o]
    /\ pc' = [pc EXCEPT ![t] = "relook"]
    /\ startDirty' = [u \in Threads |-> startDirty[u] \ {o}]
    /\ UNCHANGED <<op, req, exact, cur, result, asked, altSeen, goodFile>>

(* LoadFileProcess(identifier.Path) and ResourceLoader::LoadResource.      *)
ReadFile(t) ==
  /\ pc[t] = "read"
  /\ LET c == file[Path(cur[t])]
     IN  IF Loadable(c) THEN Build(t)
         ELSE /\ Goto(t, IF c = NoFile THEN "miss" ELSE "relook")
              /\ UNCHANGED <<dirty, ident, ghosts>>
  /\ UNCHANGED <<cache, file, altOn, line>>

(* The negative entry is written without the mutex.                        *)
Miss(t) ==
  /\ pc[t] = "miss"
  /\ cache' = [cache EXCEPT ![cur[t]] = NotFound]
  /\ ReturnNull(t)
  /\ UNCHANGED <<dirty, ident, file, altOn, ghosts>>

(* Mutant of Relook: the second check passes loadExact = false.            *)
RelookAlternate(t) ==
  /\ pc[t] = "relook"
  /\ line' = [line EXCEPT ![t] = IF altOn /\ cache[Alt(cur[t])] \in Objects
                                 THEN cache[Alt(cur[t])] ELSE cache[cur[t]]]
  /\ Goto(t, "recheck")
  /\ UNCHANGED <<shared, ghosts>>

(* GetCachedResource(identifier, true) after the work was done...          *)
Relook(t) ==
  /\ pc[t] = "relook"
  /\ line' = [line EXCEPT ![t] = cache[cur[t]]]
  /\ Goto(t, "recheck")
  /\ UNCHANGED <<shared, ghosts>>

(* Mutant of Recheck: the cache line is used as if it were a resource.     *)
RecheckNothing(t) ==
  /\ pc[t] = "recheck"
  /\ Goto(t, "commit")
  /\ UNCHANGED <<shared, ghosts, line>>

Recheck(t) ==
  /\ pc[t] = "recheck"
  /\ line' = [line EXCEPT ![t] = IF Clean(line[t]) THEN line[t] ELSE Nil]
  /\ Goto(t, "commit")
  /\ UNCHANGED <<shared, ghosts>>

(* ... and the critical section that stores the outcome.                   *)
Commit(t) ==
  /\ pc[t] = "commit"
  /\ LET resource == IF line[t] # Nil THEN line[t] ELSE fresh[t]
     IN  IF resource # Nil
         THEN /\ cache' = [cache EXCEPT ![cur[t]] = resource]
              /\ Finish(t, resource)
         ELSE /\ cache' = [cache EXCEPT ![cur[t]] = NotFound]
              /\ ReturnNull(t)
  /\ UNCHANGED <<dirty, ident, file, altOn, ghosts>>

------------------------------------------------------------------------------
(* DirtyResources for one listed file: what GetCachedResource finds (with  *)
(* loadExact = false) is dirtied, anything else is unloaded.               *)
ExamineDirty(t) ==
  /\ pc[t] = "examine" /\ op[t] = "dirty"
  /\ IF Clean(line[t])
     THEN dirty' = dirty \union {line[t]} /\ Finish(t, Nil)
     ELSE /\ Goto(t, "contains")
          /\ line' = [line EXCEPT ![t] = Nil]
          /\ UNCHANGED dirty
  /\ UNCHANGED <<cache, ident, file, altOn, ghosts>>

(* UnloadResource: contains() is outside the mutex, erase() inside.        *)
Contains(t) ==
  /\ pc[t] = "contains"
  /\ IF cache[cur[t]] # NotCached
     THEN Goto(t, "erase") /\ UNCHANGED line
     ELSE Finish(t, Nil)
  /\ UNCHANGED <<shared, ghosts>>

Erase(t) ==
  /\ pc[t] = "erase"
  /\ cache' = [cache EXCEPT ![cur[t]] = NotCached]
  /\ Finish(t, Nil)
  /\ UNCHANGED <<dirty, ident, file, altOn, ghosts>>

(* The file at p becomes c: loads under way may have needed the old one.   *)
ChangeFile(p, c) ==
  /\ file' = [file EXCEPT ![p] = c]
  /\ goodFile' = [u \in Threads |-> goodFile[u] /\ (Path(req[u]) = p => Loadable(c))]

(* WriteResource: GetArchiveFromFile must know the path; the entry is      *)
(* unloaded when unloadFile is set.                                        *)
Write(t, c, unloadFile) ==
  /\ pc[t] = "start" /\ op[t] = "write"
  /\ IF file[Path(req[t])] = NoFile
     THEN Finish(t, Nil) /\ UNCHANGED <<file, goodFile>>
     ELSE /\ ChangeFile(Path(req[t]), c)
          /\ IF unloadFile THEN Goto(t, "contains") /\ UNCHANGED line
                           ELSE Finish(t, Nil)
  /\ UNCHANGED <<cache, dirty, ident, altOn, startDirty, asked, altSeen>>

------------------------------------------------------------------------------
SetAltAssetsEnabled(b) ==
  /\ Toggling
  /\ altOn' = b
  /\ altSeen' = [u \in Threads |-> altSeen[u] \/ (b /\ pc[u] # "idle")]
  /\ UNCHANGED <<cache, dirty, ident, file, pc, op, req, exact, cur, line,
                 fresh, result, startDirty, asked, goodFile>>

(* Archives are added or removed: the cache is not told.                   *)
Remount(p, c) ==
  /\ Remounting
  /\ ChangeFile(p, c)
  /\ UNCHANGED <<cache, dirty, ident, altOn, pc, op, req, exact, cur, line,
                 fresh, result, startDirty, asked, altSeen>>

Load(t) ==
  \/ StartLoad(t) \/ Decide(t) \/ LookAlt(t) \/ Look(t) \/ ExamineAsync(t)
  \/ ExamineLoad(t) \/ ReadFile(t) \/ Miss(t) \/ Relook(t) \/ Recheck(t) \/ Commit(t)

Evict(t) ==
  \/ ExamineDirty(t) \/ Contains(t) \/ Erase(t)
  \/ \E c \in Contents, unloadFile \in Unloading : Write(t, c, unloadFile)

Next ==
  \/ \E t \in Threads : Load(t) \/ Evict(t)
  \/ \E t \in Threads, o \in Ops, id \in Ids, ex \in Exacts, otr \in Prefixed :
       Begin(t, o, id, ex, otr)
  \/ \E b \in BOOLEAN : SetAltAssetsEnabled(b)
  \/ \E p \in Paths, c \in Contents \union {Bad, NoFile} : Remount(p, c)

Spec == Init /\ [][Next]_vars

------------------------------------------------------------------------------
(* An object that was dirty before a load began is never its answer:       *)
(* "flagged for reload on next access" holds for every interleaving with   *)
(* DirtyResources, whichever of the two cache checks gave the answer.      *)
NoStaleReturn == \A t \in Threads : result[t] \notin startDirty[t]

(* What is cached under an identifier was built for that identifier: an    *)
(* alternate asset found on the way never ends up under the standard key.  *)
CacheKeyed ==
  \A id \in Ids : cache[id] \in Objects => ident[cache[id]] = id

(* A load answers with the asset asked for, or with its alternate; the     *)
(* latter only if alternates were enabled at some time during the load and *)
(* the caller did not pass loadExact.                                      *)
ResultIdentity ==
  \A t \in Threads : result[t] # Nil =>
    \/ ident[result[t]] = req[t]
    \/ ident[result[t]] = Alt(req[t]) /\ altSeen[t] /\ ~asked[t]

(* nullptr for a standard asset means that its file was missing or bad at  *)
(* some time during the load: no negative entry, missing alternate, unload *)
(* or dirtying by another thread makes a loadable asset fail.              *)
NullMeansMissing ==
  \A t \in Threads :
    pc[t] = "idle" /\ op[t] \in Loads /\ ~req[t].alt /\ goodFile[t] => result[t] # Nil
==============================================================================
