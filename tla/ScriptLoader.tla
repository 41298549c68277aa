---------------------------- MODULE ScriptLoader -----------------------------
(***************************************************************************)
(* Ship::ScriptLoader (src/src/ship/scripting/ScriptLoader.cpp): script    *)
(* archives are compiled into libraries, started in an order that respects *)
(* their dependencies and finished in the reverse of such an order.  It    *)
(* runs on one thread; a step is one archive of a compilation, one edge or *)
(* one name of the topological sort, or one ModInit or ModExit.            *)
(***************************************************************************)
EXTENDS Naturals, FiniteSets, SequencesExt

CONSTANTS
  Names,     \* the names scripts have and the names manifests depend on
  Archives,
  Manifests, \* what each archive's manifest.json may say
  SafeLevel, \* mSafeLevel: no code sets it, SetSafeLevel is declared only
  Mounted,   \* the archives of the ArchiveManager, in their order
  MaxListed, \* bound on the length of mLoadedArchives
  Null

(* A manifest.  code: C sources, a library for this platform, or none;     *)
(* current: of the engine's code version; trusted: signed, with a valid    *)
(* checksum; deps: names, the same one perhaps more than once.             *)
ArchiveManifest ==
  [name : Names, code : {"none", "source", "binary"}, current : BOOLEAN, trusted : BOOLEAN, deps : Seq(Names)]

ASSUME ManifestAssumption == Manifests \in [Archives -> SUBSET ArchiveManifest]
ASSUME LevelAssumption == SafeLevel \in {"disabled", "trusted", "warn", "all"}
ASSUME NamesAssumption == IsFiniteSet(Names)
ASSUME ArchiveAssumption == Mounted \in Seq(Archives) /\ Null \notin Archives
ASSUME ListedAssumption == MaxListed \in Nat

VARIABLES
  manifest,  \* the manifest each archive was last loaded with
  archives,  \* mLoadedArchives
  scripts,   \* mLoadedScripts: a library is named by the place in mLoadedArchives
             \* of the archive it was compiled from, 0 is none
  running,   \* history: the libraries that were started and not finished, those
             \* that have no name any more included
  pc,        \* "idle", "compile", "count", "drain" or "call"
  batch,     \* the archives still to compile
  mode,      \* "load" or "unload"
  owner,     \* archiveMap
  uncounted, \* the dependencies not yet entered in inDegree and dependents
  degree,    \* inDegree
  ready,     \* readyQueue
  order,     \* loadOrder
  walk,      \* the dependents of the last name of order still to look at
  calls,     \* how many ModInit or ModExit were made
  outcome    \* of the last operation

locals == <<mode, uncounted, degree, ready, order, walk, calls>>
sort == <<owner, locals>>
loaded == <<manifest, archives, scripts, running>>
vars == <<manifest, archives, scripts, running, pc, batch, sort, outcome>>

Deps(n) == manifest[owner[n]].deps
Owned == {n \in Names : owner[n] # Null}

(* An edge is a name and the position of one of its dependencies.          *)
Edges == UNION {{n} \X DOMAIN Deps(n) : n \in Owned}
Target(e) == Deps(e[1])[e[2]]
Dependents(n) == {e \in Edges : Target(e) = n}

Outcomes == {"none", "compiled", "threw", "loaded", "unloaded", "missing", "circular"}

TypeOK ==
  /\ manifest \in [Archives -> ArchiveManifest]
  /\ archives \in Seq(Archives)
  /\ scripts \in [Names -> 0 .. Len(archives)] /\ running \subseteq 1 .. Len(archives)
  /\ pc \in {"idle", "compile", "count", "drain", "call"}
  /\ batch \in Seq(Archives)
  /\ mode \in {"load", "unload"}
  /\ owner \in [Names -> Archives \union {Null}]
  /\ uncounted \subseteq Edges /\ walk \subseteq Edges
  /\ degree \in [Names -> Nat]
  /\ ready \in Seq(Owned) /\ order \in Seq(Owned)
  /\ calls \in 0 .. Len(order)
  /\ outcome \in Outcomes

Init ==
  /\ manifest \in [Archives -> UNION {Manifests[a] : a \in Archives}] /\ \A a \in Archives : manifest[a] \in Manifests[a]
  /\ archives = <<>> /\ scripts = [n \in Names |-> 0] /\ running = {}
  /\ pc = "idle" /\ batch = <<>> /\ outcome = "none"
  /\ mode = "load" /\ owner = [n \in Names |-> Null]
  /\ uncounted = {} /\ degree = [n \in Names |-> 0]
  /\ ready = <<>> /\ order = <<>> /\ walk = {} /\ calls = 0

------------------------------------------------------------------------------
(* What the last operation found is of no further use.                     *)
Forget == outcome' = "none" /\ owner' = [n \in Names |-> Null]

(* An archive is loaded anew and its manifest has changed on the disk, and *)
(* perhaps its name.                                                       *)
Reload(a, m) ==
  /\ pc = "idle"
  /\ manifest' = [manifest EXCEPT ![a] = m]
  /\ Forget
  /\ UNCHANGED <<archives, scripts, running, pc, batch, locals>>

(* Compile of one archive, or CompileAll of those that are mounted.        *)
StartCompile(s) ==
  /\ pc = "idle"
  /\ Len(archives) + Len(s) <= MaxListed
  /\ pc' = "compile" /\ batch' = s
  /\ Forget
  /\ UNCHANGED <<loaded, locals>>

Throw ==
  /\ pc' = "idle" /\ batch' = <<>> /\ outcome' = "threw"

Skipped(m) == SafeLevel = "disabled" \/ m.code = "none" \/ ~m.current
Refused(m) == SafeLevel = "trusted" /\ ~m.trusted

(* Mutant of CompileFails: CompileAll tries the archive again.             *)
CompileFailsAgain ==
  /\ pc = "compile" /\ batch # <<>>
  /\ ~Skipped(manifest[Head(batch)])
  /\ outcome' = "threw"
  /\ UNCHANGED <<loaded, sort, pc, batch>>

(* A script that is refused is not listed; one whose sources cannot be read*)
(* or compiled, or whose library cannot be opened, is listed all the same. *)
(* A library for the platform never opens: WriteToTempFile writes to a path*)
(* that GenerateTempFile does not set.  The exception ends CompileAll.     *)
CompileFails ==
  /\ pc = "compile" /\ batch # <<>>
  /\ LET m == manifest[Head(batch)]
     IN  /\ ~Skipped(m)
         /\ archives' = IF Refused(m) THEN archives ELSE Append(archives, Head(batch))
  /\ Throw
  /\ UNCHANGED <<manifest, scripts, running, sort>>

CompileSkips ==
  /\ pc = "compile" /\ batch # <<>>
  /\ Skipped(manifest[Head(batch)])
  /\ batch' = Tail(batch)
  /\ UNCHANGED <<loaded, pc, sort, outcome>>

(* The library of the name is replaced, without a ModExit of the old one.  *)
Compiles ==
  /\ pc = "compile" /\ batch # <<>>
  /\ LET m == manifest[Head(batch)]
     IN  /\ ~Skipped(m) /\ ~Refused(m) /\ m.code = "source"
         /\ scripts' = [scripts EXCEPT ![m.name] = Len(archives) + 1]
  /\ archives' = Append(archives, Head(batch))
  /\ batch' = Tail(batch)
  /\ UNCHANGED <<manifest, running, pc, sort, outcome>>

CompileEnds ==
  /\ pc = "compile" /\ batch = <<>>
  /\ pc' = "idle" /\ outcome' = "compiled"
  /\ UNCHANGED <<loaded, batch, sort>>

------------------------------------------------------------------------------
(* GetLoadersInDependencyOrder.  Of the archives listed with a script's    *)
(* name the last is the one whose dependencies count.                      *)
ArchiveMap ==
  [n \in Names |->
     LET at == {i \in DOMAIN archives : manifest[archives[i]].name = n}
     IN  IF scripts[n] # 0 /\ at # {} THEN archives[CHOOSE i \in at : \A j \in at : j <= i] ELSE Null]

(* The locals end with the function.                                       *)
Return ==
  /\ pc' = "idle" /\ mode' = "load"
  /\ uncounted' = {} /\ walk' = {} /\ degree' = [n \in Names |-> 0]
  /\ ready' = <<>> /\ order' = <<>> /\ calls' = 0

Start(m) ==
  /\ pc = "idle"
  /\ pc' = "count" /\ mode' = m
  /\ owner' = ArchiveMap
  /\ uncounted' = UNION {{n} \X DOMAIN manifest[ArchiveMap[n]].deps : n \in {x \in Names : ArchiveMap[x] # Null}}
  /\ degree' = [n \in Names |-> 0]
  /\ ready' = <<>> /\ order' = <<>> /\ walk' = {} /\ calls' = 0
  /\ outcome' = "none"
  /\ UNCHANGED <<loaded, batch>>

(* Mutant of Count: a dependency on a script that is not loaded is passed  *)
(* over.                                                                   *)
CountPresent(e) ==
  /\ pc = "count" /\ e \in uncounted
  /\ uncounted' = uncounted \ {e}
  /\ degree' = IF Target(e) \in Owned THEN [degree EXCEPT ![e[1]] = @ + 1] ELSE degree
  /\ UNCHANGED <<loaded, pc, batch, mode, owner, ready, order, walk, calls, outcome>>

(* Mutant of Count: a name that is listed twice is counted once.           *)
CountOnce(e) ==
  /\ pc = "count" /\ e \in uncounted
  /\ Target(e) \in Owned
  /\ uncounted' = uncounted \ {e}
  /\ degree' = [degree EXCEPT ![e[1]] = IF \E i \in 1 .. e[2] - 1 : Deps(e[1])[i] = Target(e) THEN @ ELSE @ + 1]
  /\ UNCHANGED <<loaded, pc, batch, mode, owner, ready, order, walk, calls, outcome>>

(* A dependency is counted.  The maps list their names in any order.       *)
Count(e) ==
  /\ pc = "count" /\ e \in uncounted
  /\ Target(e) \in Owned
  /\ uncounted' = uncounted \ {e}
  /\ degree' = [degree EXCEPT ![e[1]] = @ + 1]
  /\ UNCHANGED <<loaded, pc, batch, mode, owner, ready, order, walk, calls, outcome>>

Missing(e) ==
  /\ pc = "count" /\ e \in uncounted
  /\ Target(e) \notin Owned
  /\ Return /\ outcome' = "missing"
  /\ UNCHANGED <<loaded, batch, owner>>

Counted ==
  /\ pc = "count" /\ uncounted = {}
  /\ ready' \in SetToSeqs({n \in Owned : degree[n] = 0})
  /\ pc' = "drain"
  /\ UNCHANGED <<loaded, batch, mode, owner, uncounted, degree, order, walk, calls, outcome>>

Pop ==
  /\ pc = "drain" /\ walk = {} /\ ready # <<>>
  /\ order' = Append(order, Head(ready))
  /\ ready' = Tail(ready)
  /\ walk' = Dependents(Head(ready))
  /\ UNCHANGED <<loaded, pc, batch, mode, owner, uncounted, degree, calls, outcome>>

(* Mutant of Walk: a dependent is ready with one dependency to go.         *)
WalkEarly(e) ==
  /\ pc = "drain" /\ e \in walk
  /\ walk' = walk \ {e}
  /\ degree' = [degree EXCEPT ![e[1]] = @ - 1]
  /\ ready' = IF degree[e[1]] = 2 \/ (degree[e[1]] = 1 /\ e[1] \notin Range(ready) \union Range(order))
              THEN Append(ready, e[1]) ELSE ready
  /\ UNCHANGED <<loaded, pc, batch, mode, owner, uncounted, order, calls, outcome>>

(* A dependent of the name just ordered has one dependency less to wait    *)
(* for, and is ready when that was the last.                               *)
Walk(e) ==
  /\ pc = "drain" /\ e \in walk
  /\ walk' = walk \ {e}
  /\ degree' = [degree EXCEPT ![e[1]] = @ - 1]
  /\ ready' = IF degree[e[1]] = 1 THEN Append(ready, e[1]) ELSE ready
  /\ UNCHANGED <<loaded, pc, batch, mode, owner, uncounted, order, calls, outcome>>

(* Mutant of Drained: names left over are not noticed.                     *)
DrainedAnyway ==
  /\ pc = "drain" /\ walk = {} /\ ready = <<>>
  /\ pc' = "call"
  /\ UNCHANGED <<loaded, batch, sort, outcome>>

Drained ==
  /\ pc = "drain" /\ walk = {} /\ ready = <<>>
  /\ IF Len(order) = Cardinality(Owned)
     THEN pc' = "call" /\ UNCHANGED <<locals, outcome>>
     ELSE Return /\ outcome' = "circular"
  /\ UNCHANGED <<loaded, batch, owner>>

------------------------------------------------------------------------------
(* The next name to start, or to finish.                                   *)
Turn == IF mode = "load" THEN order[calls + 1] ELSE order[Len(order) - calls]

ModInit ==
  /\ pc = "call" /\ mode = "load" /\ calls < Len(order)
  /\ running' = running \union {scripts[Turn]}
  /\ calls' = calls + 1
  /\ UNCHANGED <<manifest, archives, scripts, pc, batch, mode, owner, uncounted, degree,
                 ready, order, walk, outcome>>

ModExit ==
  /\ pc = "call" /\ mode = "unload" /\ calls < Len(order)
  /\ running' = running \ {scripts[Turn]}
  /\ calls' = calls + 1
  /\ UNCHANGED <<manifest, archives, scripts, pc, batch, mode, owner, uncounted, degree,
                 ready, order, walk, outcome>>

(* UnloadAll forgets the scripts at its end, and keeps the archives listed.*)
Called ==
  /\ pc = "call" /\ calls = Len(order)
  /\ Return
  /\ IF mode = "load" THEN outcome' = "loaded" /\ UNCHANGED scripts
                      ELSE outcome' = "unloaded" /\ scripts' = [n \in Names |-> 0]
  /\ UNCHANGED <<manifest, archives, running, batch, owner>>

Next ==
  \/ \E a \in Archives : \E m \in Manifests[a] : Reload(a, m)
  \/ StartCompile(Mounted) \/ \E a \in Archives : StartCompile(<<a>>)
  \/ CompileFails \/ CompileSkips \/ Compiles \/ CompileEnds
  \/ \E m \in {"load", "unload"} : Start(m)
  \/ \E e \in uncounted : Count(e) \/ Missing(e)
  \/ Counted \/ Pop \/ Drained
  \/ \E e \in walk : Walk(e)
  \/ ModInit \/ ModExit \/ Called

(* The thread that compiles, sorts or calls goes on until it has done.     *)
Work == pc # "idle" /\ Next
Spec == Init /\ [][Next]_vars /\ WF_vars(Work)

------------------------------------------------------------------------------
CalledSoFar ==
  IF mode = "load" THEN {order[i] : i \in 1 .. calls}
                   ELSE {order[i] : i \in Len(order) - calls + 1 .. Len(order)}

(* ModInit is called when it was called for every dependency, and ModExit  *)
(* when it was called for every script that depends on the one to finish.  *)
InDependencyOrder ==
  pc = "call" =>
    \A e \in Edges :
      IF mode = "load" THEN e[1] \in CalledSoFar => Target(e) \in CalledSoFar
                       ELSE Target(e) \in CalledSoFar => e[1] \in CalledSoFar

(* Scripts each of which depends on another of them.                       *)
Knot(S) == S # {} /\ \A n \in S : \E i \in DOMAIN Deps(n) : Deps(n)[i] \in S

(* An order is refused only for a reason, and whenever there is one:       *)
(* LoadAll and UnloadAll call all scripts or none.                         *)
VerdictRight ==
  /\ outcome = "missing" => \E e \in Edges : Target(e) \notin Owned
  /\ outcome = "circular" => \E S \in SUBSET Owned : Knot(S)
  /\ pc = "call" =>
       /\ Range(order) = Owned
       /\ \A e \in Edges : Target(e) \in Owned
       /\ \A S \in SUBSET Owned : ~Knot(S)

Listed(n) == \E i \in DOMAIN archives : manifest[archives[i]].name = n

(* A library that was started leaves mLoadedScripts finished, unless a     *)
(* newly compiled one of its name takes its place or, when UnloadAll empties*)
(* the map, no listed archive has its name any more.                       *)
NoneForgotten ==
  [][\A n \in Names :
       scripts[n] \in running /\ scripts'[n] # scripts[n] => scripts'[n] # 0 \/ ~Listed(n)]_vars

(* Every operation comes to an end, whatever the dependencies.             *)
Ends == pc # "idle" ~> pc = "idle"
==============================================================================
