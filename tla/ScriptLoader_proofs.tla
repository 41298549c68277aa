------------------------ MODULE ScriptLoader_proofs --------------------------
(***************************************************************************)
(* What ScriptLoader keeps for any scripts and dependencies: the order it  *)
(* calls them in, and that an order is refused exactly when there is none. *)
(***************************************************************************)
EXTENDS ScriptLoader, FiniteSetTheorems, SequenceTheorems, WellFoundedInduction, TLAPS

(* The dependencies of n that Count has met, and those that wait: the one  *)
(* depended on is not in the order, or was put there and is being walked.  *)
CountedOf(n) == {i \in DOMAIN Deps(n) : <<n, i>> \notin uncounted}
WaitsFor(n) == {i \in DOMAIN Deps(n) : Target(<<n, i>>) \notin Range(order) \/ <<n, i>> \in walk}

(* The locals are those of GetLoadersInDependencyOrder while it runs.      *)
LocalsEnd ==
  /\ pc # "count" => uncounted = {}
  /\ pc \notin {"drain", "call"} => ready = <<>> /\ order = <<>> /\ walk = {}
  /\ pc # "call" => calls = 0
  /\ pc # "idle" => outcome = "none"

Counting ==
  pc = "count" =>
    /\ \A n \in Owned : degree[n] = Cardinality(CountedOf(n))
    /\ \A e \in Edges : e \notin uncounted => Target(e) \in Owned

(* A name is ready or ordered once, when it waits for nothing any more.    *)
Sorting ==
  pc \in {"drain", "call"} =>
    /\ \A e \in Edges : Target(e) \in Owned
    /\ \A n \in Owned : degree[n] = Cardinality(WaitsFor(n))
    /\ \A n \in Owned : degree[n] = 0 <=> n \in Range(ready) \union Range(order)
    /\ IsInjective(ready) /\ IsInjective(order) /\ Range(ready) \intersect Range(order) = {}
    /\ \A e \in walk : Target(e) \in Range(order)

(* Dependencies come earlier, and no knot is ever untied.                  *)
Ordered ==
  pc \in {"drain", "call"} =>
    /\ \A i \in DOMAIN order : \A k \in DOMAIN Deps(order[i]) :
         \E j \in 1 .. i - 1 : order[j] = Deps(order[i])[k]
    /\ \A S \in SUBSET Owned : Knot(S) => S \intersect Range(order) = {}

Complete == pc = "call" => Range(order) = Owned /\ walk = {}

Reasons ==
  /\ outcome = "missing" => \E e \in Edges : Target(e) \notin Owned
  /\ outcome = "circular" => \E S \in SUBSET Owned : Knot(S)

(* Every script that is loaded and has a listed archive takes part in an   *)
(* order, and once UnloadAll has called it its library no longer runs.     *)
Kept ==
  /\ pc \in {"count", "drain", "call"} =>
       \A n \in Names : n \in Owned <=> scripts[n] # 0 /\ Listed(n)
  /\ pc = "call" /\ mode = "unload" => \A n \in CalledSoFar : scripts[n] \notin running

IInv ==
  /\ TypeOK /\ LocalsEnd /\ Counting /\ Sorting /\ Ordered /\ Complete /\ Reasons /\ Kept

------------------------------------------------------------------------------
LEMMA AppendIs ==
  ASSUME NEW S, NEW s \in Seq(S), NEW x \in S
  PROVE  /\ Append(s, x) \in Seq(S) /\ Len(Append(s, x)) = Len(s) + 1
         /\ \A i \in 1 .. Len(s) : Append(s, x)[i] = s[i]
         /\ Append(s, x)[Len(s) + 1] = x
         /\ Range(Append(s, x)) = Range(s) \union {x}
         /\ IsInjective(s) /\ x \notin Range(s) => IsInjective(Append(s, x))
<1>1. /\ Len(s) \in Nat /\ DOMAIN s = 1 .. Len(s)
      /\ Append(s, x) \in Seq(S) /\ Len(Append(s, x)) = Len(s) + 1
      /\ DOMAIN Append(s, x) = 1 .. Len(s) + 1
      /\ \A i \in 1 .. Len(s) : Append(s, x)[i] = s[i]
      /\ Append(s, x)[Len(s) + 1] = x
  BY AppendProperties, LenProperties
<1>2. 1 .. Len(s) + 1 = (1 .. Len(s)) \union {Len(s) + 1}
  BY <1>1
<1>3. Range(Append(s, x)) = Range(s) \union {x}
  BY <1>1, <1>2 DEF Range
<1>4. ASSUME IsInjective(s), x \notin Range(s)
      PROVE  IsInjective(Append(s, x))
  BY <1>1, <1>2, <1>4 DEF IsInjective, Range
<1> QED
  BY <1>1, <1>3, <1>4

LEMMA TailIs ==
  ASSUME NEW S, NEW s \in Seq(S), s # <<>>
  PROVE  /\ Head(s) \in S /\ Head(s) \in Range(s)
         /\ Tail(s) \in Seq(S)
         /\ IsInjective(s) => IsInjective(Tail(s)) /\ Range(Tail(s)) = Range(s) \ {Head(s)}
<1>1. /\ Len(s) \in Nat \ {0} /\ DOMAIN s = 1 .. Len(s)
      /\ Head(s) \in S /\ Head(s) = s[1]
      /\ Tail(s) \in Seq(S) /\ Len(Tail(s)) = Len(s) - 1
      /\ DOMAIN Tail(s) = 1 .. Len(s) - 1
      /\ \A i \in 1 .. Len(s) - 1 : Tail(s)[i] = s[i + 1]
  BY HeadTailProperties, LenProperties, EmptySeq
<1>2. Head(s) \in Range(s)
  BY <1>1 DEF Range
<1>3. ASSUME IsInjective(s) PROVE IsInjective(Tail(s)) /\ Range(Tail(s)) = Range(s) \ {Head(s)}
  <2>1. IsInjective(Tail(s))
    BY <1>1, <1>3 DEF IsInjective
  <2>2. ASSUME NEW y \in Range(Tail(s)) PROVE y \in Range(s) \ {Head(s)}
    <3>1. PICK i \in 1 .. Len(s) - 1 : y = s[i + 1]
      BY <1>1, <2>2 DEF Range
    <3>2. i + 1 \in DOMAIN s /\ 1 \in DOMAIN s /\ i + 1 # 1
      BY <1>1
    <3> QED
      BY <1>1, <1>3, <3>1, <3>2 DEF IsInjective, Range
  <2>3. ASSUME NEW y \in Range(s), y # Head(s) PROVE y \in Range(Tail(s))
    <3>1. PICK i \in 1 .. Len(s) : y = s[i]
      BY <1>1, <2>3 DEF Range
    <3>2. i # 1 /\ i - 1 \in 1 .. Len(s) - 1 /\ i = (i - 1) + 1
      BY <1>1, <2>3, <3>1
    <3> QED
      BY <1>1, <3>1, <3>2 DEF Range
  <2> QED
    BY <2>1, <2>2, <2>3
<1> QED
  BY <1>1, <1>2, <1>3

(* The sequences that list a finite set.                                   *)
LEMMA ListIs ==
  ASSUME NEW S, IsFiniteSet(S), NEW s \in SetToSeqs(S)
  PROVE  s \in Seq(S) /\ IsInjective(s) /\ Range(s) = S
<1> DEFINE D == 1 .. Cardinality(S)
<1>1. Cardinality(S) \in Nat /\ IsFiniteSet(D) /\ Cardinality(D) = Cardinality(S)
  BY FS_CardinalityType, FS_Interval
<1>2. s \in [D -> S] /\ IsInjective(s)
  BY DEF SetToSeqs, IsInjective
<1>3. s \in Seq(S)
  BY <1>1, <1>2, IsASeq
<1>4. s \in Injection(D, S)
  BY <1>2 DEF Injection
<1>5. s \in Surjection(D, S)
  BY <1>1, <1>4, FS_Injection
<1>6. Range(s) = S
  BY <1>2, <1>5 DEF Surjection, Range
<1> QED
  BY <1>2, <1>3, <1>6

(* An injective order of all of a finite set is as long as the set is big. *)
LEMMA LengthIs ==
  ASSUME NEW S, IsFiniteSet(S), NEW s \in Seq(S), IsInjective(s)
  PROVE  Len(s) = Cardinality(S) <=> Range(s) = S
<1>1. /\ Len(s) \in Nat /\ DOMAIN s = 1 .. Len(s) /\ s \in [1 .. Len(s) -> S]
      /\ IsFiniteSet(1 .. Len(s)) /\ Cardinality(1 .. Len(s)) = Len(s)
  <2>1. Len(s) \in Nat /\ DOMAIN s = 1 .. Len(s) /\ s \in [1 .. Len(s) -> S]
    BY LenProperties
  <2>2. \A a, b \in Int : /\ IsFiniteSet(a .. b)
                          /\ Cardinality(a .. b) = IF a > b THEN 0 ELSE b - a + 1
    BY FS_Interval
  <2>3. IsFiniteSet(1 .. Len(s)) /\ Cardinality(1 .. Len(s)) = IF 1 > Len(s) THEN 0 ELSE Len(s) - 1 + 1
    BY <2>1, <2>2
  <2> QED
    BY <2>1, <2>3
<1>2. s \in Injection(1 .. Len(s), S)
  BY <1>1 DEF Injection
<1>3. Len(s) = Cardinality(S) <=> s \in Surjection(1 .. Len(s), S)
  BY <1>1, <1>2, FS_Injection
<1>4. s \in Surjection(1 .. Len(s), S) <=> Range(s) = S
  BY <1>1 DEF Surjection, Range
<1> QED
  BY <1>3, <1>4

(* A set of positions of a list has a last one.                            *)
LEMMA LastOf ==
  ASSUME NEW n \in Nat, NEW T \in SUBSET (1 .. n), T # {}
  PROVE  \E i \in T : \A j \in T : j <= i
<1> DEFINE U == {n - i : i \in T}
<1>1. U \subseteq Nat /\ U # {}
  <2>1. \A i \in T : i \in 1 .. n
    OBVIOUS
  <2>2. \A i \in T : n - i \in Nat
    BY <2>1
  <2>3. PICK i \in T : TRUE
    OBVIOUS
  <2>4. n - i \in U
    OBVIOUS
  <2> QED
    BY <2>2, <2>4
<1> DEFINE R == OpToRel(<, Nat)
<1>2. PICK x \in U : \A y \in U : <<y, x>> \notin R
  <2> HIDE DEF R, U
  <2>1. IsWellFoundedOn(R, Nat)
    BY NatLessThanWellFounded DEF R
  <2> QED
    BY <1>1, <2>1, WFMin
<1>3. PICK i \in T : x = n - i
  BY <1>2
<1>4. ASSUME NEW j \in T PROVE j <= i
  <2>1. n - j \in U /\ n - j \in Nat /\ x \in Nat
    BY <1>1, <1>2
  <2>2. ~(n - j < x)
    BY <1>2, <2>1 DEF OpToRel
  <2> QED
    BY <1>3, <2>1, <2>2
<1> QED
  BY <1>4

------------------------------------------------------------------------------
LEMMA GraphIs ==
  ASSUME TypeOK
  PROVE  /\ IsFiniteSet(Owned) /\ Owned \subseteq Names
         /\ \A n \in Owned : owner[n] \in Archives /\ Deps(n) \in Seq(Names)
         /\ \A e \in Edges : e[1] \in Owned /\ e[2] \in DOMAIN Deps(e[1]) /\ e = <<e[1], e[2]>>
         /\ \A n \in Owned : \A i \in DOMAIN Deps(n) : <<n, i>> \in Edges
<1>1. Owned \subseteq Names
  BY DEF Owned
<1>2. IsFiniteSet(Owned)
  BY <1>1, NamesAssumption, FS_Subset
<1>3. \A n \in Owned : owner[n] \in Archives /\ Deps(n) \in Seq(Names)
  BY DEF Owned, TypeOK, Deps, ArchiveManifest
<1>4. \A e \in Edges : e[1] \in Owned /\ e[2] \in DOMAIN Deps(e[1]) /\ e = <<e[1], e[2]>>
  BY DEF Edges
<1>5. \A n \in Owned : \A i \in DOMAIN Deps(n) : <<n, i>> \in Edges
  BY DEF Edges
<1> QED
  BY <1>1, <1>2, <1>3, <1>4, <1>5

(* Any of a name's dependencies are finitely many.                         *)
LEMMA DepsFinite ==
  ASSUME TypeOK, NEW n \in Owned, NEW T \in SUBSET DOMAIN Deps(n)
  PROVE  IsFiniteSet(T) /\ Cardinality(T) \in Nat
<1>1. Deps(n) \in Seq(Names)
  BY GraphIs
<1>2. Len(Deps(n)) \in Nat /\ DOMAIN Deps(n) = 1 .. Len(Deps(n))
  BY <1>1, LenProperties
<1>3. IsFiniteSet(DOMAIN Deps(n))
  BY <1>2, FS_Interval
<1>4. IsFiniteSet(T)
  BY <1>3, FS_Subset
<1> QED
  BY <1>4, FS_CardinalityType

LEMMA SameGraph ==
  ASSUME manifest' = manifest, owner' = owner
  PROVE  /\ Owned' = Owned /\ Edges' = Edges
         /\ \A n : Deps(n)' = Deps(n) /\ Dependents(n)' = Dependents(n)
         /\ \A e : Target(e)' = Target(e)
         /\ \A S : Knot(S)' = Knot(S)
<1>1. /\ Owned' = Owned
      /\ \A n : Deps(n)' = Deps(n)
      /\ \A e : Target(e)' = Target(e)
      /\ \A S : Knot(S)' = Knot(S)
  BY DEF Owned, Deps, Target, Knot
<1>2. Edges' = Edges
  BY DEF Edges, Deps, Owned
<1>3. \A n : Dependents(n)' = Dependents(n)
  BY <1>2 DEF Dependents, Target, Deps
<1> QED
  BY <1>1, <1>2, <1>3

(* archiveMap has an archive of each loaded script that is listed.         *)
LEMMA ArchiveMapIs ==
  ASSUME TypeOK
  PROVE  /\ ArchiveMap \in [Names -> Archives \union {Null}]
         /\ \A n \in Names : ArchiveMap[n] # Null <=> scripts[n] # 0 /\ Listed(n)
<1>1. Len(archives) \in Nat /\ DOMAIN archives = 1 .. Len(archives)
      /\ \A i \in 1 .. Len(archives) : archives[i] \in Archives
  BY LenProperties, ElementOfSeq DEF TypeOK
<1>2. ASSUME NEW n \in Names
      PROVE  LET at == {i \in DOMAIN archives : manifest[archives[i]].name = n}
             IN  at # {} => archives[CHOOSE i \in at : \A j \in at : j <= i] \in Archives
  <2> DEFINE at == {i \in DOMAIN archives : manifest[archives[i]].name = n}
  <2> SUFFICES ASSUME at # {} PROVE archives[CHOOSE i \in at : \A j \in at : j <= i] \in Archives
    OBVIOUS
  <2>1. at \in SUBSET (1 .. Len(archives))
    BY <1>1
  <2> HIDE DEF at
  <2>2. \E i \in at : \A j \in at : j <= i
    BY <1>1, <2>1, LastOf
  <2>3. (CHOOSE i \in at : \A j \in at : j <= i) \in at
    BY <2>2
  <2> QED
    BY <1>1, <2>1, <2>3
<1>3. \A n \in Names : ArchiveMap[n] \in Archives \union {Null}
  BY <1>2 DEF ArchiveMap
<1>4. ArchiveMap \in [Names -> Archives \union {Null}]
  BY <1>3 DEF ArchiveMap
<1>5. ASSUME NEW n \in Names, scripts[n] # 0, Listed(n)
      PROVE  ArchiveMap[n] # Null
  <2>1. {i \in DOMAIN archives : manifest[archives[i]].name = n} # {}
    BY <1>5 DEF Listed
  <2>2. ArchiveMap[n] \in Archives
    BY <1>2, <1>5, <2>1 DEF ArchiveMap
  <2> QED
    BY <2>2, ArchiveAssumption
<1>6. ASSUME NEW n \in Names, ArchiveMap[n] # Null
      PROVE  scripts[n] # 0 /\ Listed(n)
  BY <1>6 DEF ArchiveMap, Listed
<1> QED
  BY <1>4, <1>5, <1>6

------------------------------------------------------------------------------
(* The invariant holds initially, and every step keeps it.                 *)
LEMMA InitKeeps == Init => IInv
<1> SUFFICES ASSUME Init PROVE IInv
  OBVIOUS
<1> USE DEF Init
<1>1. Owned = {} /\ Edges = {}
  BY DEF Owned, Edges
<1>2. TypeOK
  <2>1. manifest \in [Archives -> ArchiveManifest]
    BY ManifestAssumption
  <2>2. <<>> \in Seq(Archives) /\ <<>> \in Seq(Owned) /\ Len(<<>>) = 0
    BY EmptySeq
  <2> QED
    BY <1>1, <2>1, <2>2 DEF TypeOK, Outcomes
<1> QED
  BY <1>2 DEF IInv, LocalsEnd, Counting, Sorting, Ordered, Complete, Reasons, Kept

(* Steps outside GetLoadersInDependencyOrder and its callers' loops.       *)
LEMMA IdleKeeps ==
  ASSUME IInv,
         \/ \E a \in Archives : \E m \in Manifests[a] : Reload(a, m)
         \/ StartCompile(Mounted) \/ \E a \in Archives : StartCompile(<<a>>)
         \/ CompileFails \/ CompileSkips \/ Compiles \/ CompileEnds
  PROVE  IInv'
<1> USE DEF IInv
<1>1. /\ pc \in {"idle", "compile"} /\ pc' \in {"idle", "compile"}
      /\ UNCHANGED locals
      /\ pc' # "idle" => outcome' = "none"
  BY DEF Reload, StartCompile, CompileFails, CompileSkips, Compiles, CompileEnds, Forget, Throw,
         sort, LocalsEnd
<1>2. /\ uncounted = {} /\ ready = <<>> /\ order = <<>> /\ walk = {} /\ calls = 0
      /\ uncounted' = {} /\ ready' = <<>> /\ order' = <<>> /\ walk' = {} /\ calls' = 0
      /\ mode' = mode /\ degree' = degree
  BY <1>1 DEF LocalsEnd, locals
<1>3. LocalsEnd' /\ Counting' /\ Sorting' /\ Ordered' /\ Complete'
  BY <1>1, <1>2 DEF LocalsEnd, Counting, Sorting, Ordered, Complete
<1>4. /\ uncounted' \subseteq Edges' /\ walk' \subseteq Edges'
      /\ ready' \in Seq(Owned') /\ order' \in Seq(Owned') /\ calls' \in 0 .. Len(order')
      /\ mode' \in {"load", "unload"} /\ degree' \in [Names -> Nat]
  BY <1>2, EmptySeq DEF TypeOK
<1>6. CASE \E a \in Archives : \E m \in Manifests[a] : Reload(a, m)
  <2>1. PICK a \in Archives, m \in ArchiveManifest : Reload(a, m)
    BY <1>6, ManifestAssumption
  <2>3. TypeOK'
    BY <1>4, <2>1 DEF Reload, Forget, TypeOK, Outcomes
  <2>6. Kept'
    BY <1>1, <2>1 DEF Reload, Kept
  <2>7. Reasons'
    BY <2>1 DEF Reload, Forget, Reasons
  <2> QED
    BY <1>3, <2>3, <2>6, <2>7
<1>7. CASE StartCompile(Mounted) \/ \E a \in Archives : StartCompile(<<a>>)
  <2>1. PICK b \in Seq(Archives) : StartCompile(b)
    <3>1. \A a \in Archives : <<a>> \in Seq(Archives)
      OBVIOUS
    <3> QED
      BY <1>7, <3>1, ArchiveAssumption
  <2>2. TypeOK'
    BY <1>4, <2>1 DEF StartCompile, Forget, loaded, TypeOK, Outcomes
  <2>3. Kept' /\ Reasons'
    BY <1>1, <2>1 DEF StartCompile, Forget, loaded, Kept, Reasons
  <2> QED
    BY <1>3, <2>2, <2>3
<1>8. CASE CompileFails \/ CompileSkips \/ Compiles \/ CompileEnds
  <2>1. /\ manifest' = manifest /\ owner' = owner
        /\ outcome' \in {"none", "threw", "compiled"}
        /\ pc = "compile"
    BY <1>1, <1>8 DEF CompileFails, CompileSkips, Compiles, CompileEnds, Throw, loaded, sort, LocalsEnd
  <2>2. (Head(batch) \in Archives /\ Tail(batch) \in Seq(Archives)) \/ batch = <<>>
    BY TailIs DEF TypeOK
  <2>3. /\ archives' \in Seq(Archives) /\ batch' \in Seq(Archives)
        /\ Len(archives) \in Nat /\ DOMAIN archives = 1 .. Len(archives)
        /\ archives' = archives \/ (archives' = Append(archives, Head(batch)) /\ batch # <<>>)
    <3>1. archives \in Seq(Archives) /\ batch \in Seq(Archives)
      BY DEF TypeOK
    <3>2. batch # <<>> => Append(archives, Head(batch)) \in Seq(Archives)
      BY <2>2, <3>1, AppendIs
    <3>3. <<>> \in Seq(Archives) /\ Len(archives) \in Nat /\ DOMAIN archives = 1 .. Len(archives)
      BY <3>1, EmptySeq, LenProperties
    <3>4. CASE CompileFails
      BY <2>2, <3>1, <3>2, <3>3, <3>4 DEF CompileFails, Throw
    <3>5. CASE CompileSkips
      BY <2>2, <3>1, <3>3, <3>5 DEF CompileSkips, loaded
    <3>6. CASE Compiles
      BY <2>2, <3>1, <3>2, <3>3, <3>6 DEF Compiles
    <3>7. CASE CompileEnds
      BY <3>1, <3>3, <3>7 DEF CompileEnds, loaded
    <3> QED
      BY <1>8, <3>4, <3>5, <3>6, <3>7
  <2>4. Len(archives') \in Nat /\ Len(archives) <= Len(archives')
        /\ (batch # <<>> => Len(Append(archives, Head(batch))) = Len(archives) + 1)
    <3>1. CASE batch # <<>>
      <4>1. archives \in Seq(Archives) /\ Head(batch) \in Archives
        BY <2>2, <3>1 DEF TypeOK
      <4>2. Len(Append(archives, Head(batch))) = Len(archives) + 1
        BY <4>1, AppendIs
      <4> QED
        BY <2>3, <3>1, <4>2
    <3>2. CASE batch = <<>>
      BY <2>3, <3>2
    <3> QED
      BY <3>1, <3>2
  <2>5. scripts' \in [Names -> 0 .. Len(archives')] /\ running' \subseteq 1 .. Len(archives')
    <3>0. 0 .. Len(archives) \subseteq 0 .. Len(archives') /\ 1 .. Len(archives) \subseteq 1 .. Len(archives')
      BY <2>3, <2>4
    <3>1. CASE Compiles
      <4>1. /\ manifest[Head(batch)].name \in Names /\ running' = running
            /\ scripts' = [scripts EXCEPT ![manifest[Head(batch)].name] = Len(archives) + 1]
        BY <2>2, <3>1 DEF Compiles, TypeOK, ArchiveManifest
      <4>2. Len(archives') = Len(archives) + 1
        BY <2>4, <3>1 DEF Compiles
      <4>3. Len(archives) + 1 \in 0 .. Len(archives')
        BY <2>3, <4>2
      <4> QED
        BY <3>0, <4>1, <4>3 DEF TypeOK
    <3>2. CASE CompileFails \/ CompileSkips \/ CompileEnds
      BY <3>0, <3>2 DEF CompileFails, CompileSkips, CompileEnds, loaded, TypeOK
    <3> QED
      BY <1>8, <3>1, <3>2
  <2>6. TypeOK'
    BY <1>1, <1>4, <2>1, <2>3, <2>5 DEF TypeOK, Outcomes
  <2>7. Kept'
    BY <1>1 DEF Kept
  <2>8. Reasons'
    BY <2>1 DEF Reasons
  <2> QED
    BY <1>3, <2>6, <2>7, <2>8
<1> QED
  BY <1>6, <1>7, <1>8

LEMMA StartKeeps ==
  ASSUME IInv, NEW m \in {"load", "unload"}, Start(m)
  PROVE  IInv'
<1> USE DEF IInv
<1>1. /\ pc = "idle" /\ pc' = "count" /\ mode' = m /\ manifest' = manifest /\ owner' = ArchiveMap
      /\ degree' = [n \in Names |-> 0] /\ outcome' = "none"
      /\ ready' = <<>> /\ order' = <<>> /\ walk' = {} /\ calls' = 0
      /\ UNCHANGED <<archives, scripts, running, batch>>
  BY DEF Start, loaded
<1>2. uncounted' = Edges'
  BY <1>1 DEF Start, Edges, Owned, Deps
<1>3. /\ ArchiveMap \in [Names -> Archives \union {Null}]
      /\ \A n \in Names : ArchiveMap[n] # Null <=> scripts[n] # 0 /\ Listed(n)
  BY ArchiveMapIs
<1>4. TypeOK'
  <2>1. ready' \in Seq(Owned') /\ order' \in Seq(Owned') /\ Len(order') = 0
    BY <1>1, EmptySeq
  <2> QED
    BY <1>1, <1>2, <1>3, <2>1 DEF TypeOK, Outcomes
<1>5. \A n \in Names : n \in Owned' <=> scripts[n] # 0 /\ Listed(n)
  BY <1>1, <1>3 DEF Owned
<1>6. Counting'
  <2>1. ASSUME NEW n \in Owned' PROVE degree'[n] = Cardinality(CountedOf(n)')
    <3>1. CountedOf(n)' = {}
      BY <1>2 DEF CountedOf, Edges
    <3>2. n \in Names
      BY <2>1 DEF Owned
    <3> QED
      BY <1>1, <3>1, <3>2, FS_EmptySet
  <2> QED
    BY <1>1, <1>2, <2>1 DEF Counting
<1>7. LocalsEnd' /\ Sorting' /\ Ordered' /\ Complete' /\ Reasons'
  BY <1>1 DEF LocalsEnd, Sorting, Ordered, Complete, Reasons
<1>8. Kept'
  BY <1>1, <1>5 DEF Kept, Listed
<1> QED
  BY <1>4, <1>6, <1>7, <1>8

LEMMA CountKeeps ==
  ASSUME IInv, NEW e \in uncounted, Count(e)
  PROVE  IInv'
<1> USE DEF IInv
<1>1. /\ pc = "count" /\ pc' = "count" /\ Target(e) \in Owned
      /\ uncounted' = uncounted \ {e}
      /\ degree' = [degree EXCEPT ![e[1]] = @ + 1]
      /\ UNCHANGED <<manifest, archives, scripts, running, batch, mode, owner, ready, order, walk,
                     calls, outcome>>
  BY DEF Count, loaded
<1>2. /\ Owned' = Owned /\ Edges' = Edges
      /\ (\A n : Deps(n)' = Deps(n)) /\ (\A x : Target(x)' = Target(x))
  BY <1>1, SameGraph
<1>3. e \in Edges /\ e[1] \in Owned /\ e[2] \in DOMAIN Deps(e[1]) /\ e = <<e[1], e[2]>> /\ e[1] \in Names
  BY GraphIs DEF TypeOK
<1>4. TypeOK'
  BY <1>1, <1>2, <1>3 DEF TypeOK
<1>5. ASSUME NEW n \in Owned PROVE degree'[n] = Cardinality(CountedOf(n)')
  <2>1. n \in Names /\ degree[n] = Cardinality(CountedOf(n)) /\ IsFiniteSet(CountedOf(n)) /\ degree[n] \in Nat
    BY <1>1, GraphIs, DepsFinite DEF Counting, CountedOf, TypeOK
  <2>2. CASE n = e[1]
    <3>1. CountedOf(n)' = CountedOf(n) \union {e[2]} /\ e[2] \notin CountedOf(n)
      BY <1>1, <1>2, <1>3, <2>2 DEF CountedOf
    <3>2. Cardinality(CountedOf(n)') = Cardinality(CountedOf(n)) + 1
      BY <2>1, <3>1, FS_AddElement
    <3>3. degree'[n] = degree[n] + 1
      BY <1>1, <2>1, <2>2 DEF TypeOK
    <3> QED
      BY <2>1, <3>2, <3>3
  <2>3. CASE n # e[1]
    <3>1. CountedOf(n)' = CountedOf(n)
      BY <1>1, <1>2, <1>3, <2>3 DEF CountedOf
    <3>2. degree'[n] = degree[n]
      BY <1>1, <2>1, <2>3 DEF TypeOK
    <3> QED
      BY <2>1, <3>1, <3>2
  <2> QED
    BY <2>2, <2>3
<1>6. Counting'
  BY <1>1, <1>2, <1>5 DEF Counting
<1>7. LocalsEnd' /\ Sorting' /\ Ordered' /\ Complete' /\ Reasons' /\ Kept'
  BY <1>1, <1>2 DEF LocalsEnd, Sorting, Ordered, Complete, Reasons, Kept, Listed
<1> QED
  BY <1>4, <1>6, <1>7

(* An order that is refused leaves its reason behind.                      *)
LEMMA RefusalKeeps ==
  ASSUME IInv, Return, UNCHANGED <<loaded, batch, owner>>,
         \/ outcome' = "missing" /\ \E e \in Edges : Target(e) \notin Owned
         \/ outcome' = "circular" /\ \E S \in SUBSET Owned : Knot(S)
  PROVE  IInv'
<1> USE DEF IInv
<1>1. /\ pc' = "idle" /\ mode' = "load"
      /\ uncounted' = {} /\ walk' = {} /\ degree' = [n \in Names |-> 0]
      /\ ready' = <<>> /\ order' = <<>> /\ calls' = 0
      /\ UNCHANGED <<manifest, archives, scripts, running, batch, owner>>
  BY DEF Return, loaded
<1>2. Owned' = Owned /\ Edges' = Edges /\ (\A e : Target(e)' = Target(e)) /\ (\A S : Knot(S)' = Knot(S))
  BY <1>1, SameGraph
<1>3. TypeOK'
  <2>1. ready' \in Seq(Owned') /\ order' \in Seq(Owned') /\ Len(order') = 0
    BY <1>1, EmptySeq
  <2> QED
    BY <1>1, <2>1 DEF TypeOK, Outcomes
<1>4. Reasons'
  BY <1>2 DEF Reasons
<1>5. LocalsEnd' /\ Counting' /\ Sorting' /\ Ordered' /\ Complete' /\ Kept'
  BY <1>1 DEF LocalsEnd, Counting, Sorting, Ordered, Complete, Kept, Listed
<1> QED
  BY <1>3, <1>4, <1>5

LEMMA CountedKeeps ==
  ASSUME IInv, Counted
  PROVE  IInv'
<1> USE DEF IInv
<1>1. /\ pc = "count" /\ pc' = "drain" /\ uncounted = {}
      /\ ready' \in SetToSeqs({n \in Owned : degree[n] = 0})
      /\ order = <<>> /\ walk = {} /\ calls = 0
      /\ UNCHANGED <<manifest, archives, scripts, running, batch, mode, owner, uncounted, degree,
                     order, walk, calls, outcome>>
  BY DEF Counted, loaded, LocalsEnd
<1>2. /\ Owned' = Owned /\ Edges' = Edges
      /\ (\A n : Deps(n)' = Deps(n)) /\ (\A x : Target(x)' = Target(x)) /\ (\A S : Knot(S)' = Knot(S))
  BY <1>1, SameGraph
<1> DEFINE Z == {n \in Owned : degree[n] = 0}
<1>3. IsFiniteSet(Z)
  BY GraphIs, FS_Subset
<1>4. ready' \in Seq(Z) /\ IsInjective(ready') /\ Range(ready') = Z
  BY <1>1, <1>3, ListIs
<1>5. ready' \in Seq(Owned)
  BY <1>4, SeqMonotonic
<1>6. TypeOK'
  BY <1>1, <1>2, <1>5 DEF TypeOK
<1>7. Range(order) = {} /\ DOMAIN order = {} /\ IsInjective(order)
  BY <1>1 DEF Range, IsInjective
<1>8. \A n \in Owned : WaitsFor(n)' = CountedOf(n)
  <2>1. Range(order') = {}
    BY <1>1, <1>7
  <2> QED
    BY <1>1, <1>2, <2>1 DEF WaitsFor, CountedOf
<1>9. Sorting'
  <2>1. (\A e \in Edges : Target(e) \in Owned) /\ \A n \in Owned : degree[n] = Cardinality(CountedOf(n))
    BY <1>1 DEF Counting
  <2>2. \A n \in Owned' : degree'[n] = Cardinality(WaitsFor(n)')
    BY <1>1, <1>2, <1>8, <2>1
  <2> QED
    BY <1>1, <1>2, <1>4, <1>7, <2>1, <2>2 DEF Sorting
<1>10. Ordered'
  BY <1>1, <1>7 DEF Ordered
<1>11. LocalsEnd' /\ Counting' /\ Complete' /\ Reasons'
  BY <1>1 DEF LocalsEnd, Counting, Complete, Reasons
<1>12. Kept'
  BY <1>1, <1>2 DEF Kept, Listed
<1> QED
  BY <1>6, <1>9, <1>10, <1>11, <1>12

LEMMA PopKeeps ==
  ASSUME IInv, Pop
  PROVE  IInv'
<1> USE DEF IInv
<1> DEFINE h == Head(ready)
<1>1. /\ pc = "drain" /\ pc' = "drain" /\ walk = {} /\ ready # <<>>
      /\ order' = Append(order, h) /\ ready' = Tail(ready) /\ walk' = Dependents(h)
      /\ UNCHANGED <<manifest, archives, scripts, running, batch, mode, owner, uncounted, degree,
                     calls, outcome>>
      /\ calls = 0 /\ uncounted = {}
  BY DEF Pop, loaded, LocalsEnd
<1>2. /\ Owned' = Owned /\ Edges' = Edges
      /\ (\A n : Deps(n)' = Deps(n)) /\ (\A x : Target(x)' = Target(x)) /\ (\A S : Knot(S)' = Knot(S))
  BY <1>1, SameGraph
<1>3. ready \in Seq(Owned) /\ order \in Seq(Owned) /\ Len(order) \in Nat /\ DOMAIN order = 1 .. Len(order)
  BY LenProperties DEF TypeOK
<1>4. /\ h \in Owned /\ h \in Range(ready) /\ h \notin Range(order)
      /\ ready' \in Seq(Owned) /\ IsInjective(ready') /\ Range(ready') = Range(ready) \ {h}
  BY <1>1, <1>3, TailIs DEF Sorting
<1>5. /\ order' \in Seq(Owned) /\ Len(order') = Len(order) + 1
      /\ \A i \in 1 .. Len(order) : order'[i] = order[i]
      /\ order'[Len(order) + 1] = h
      /\ Range(order') = Range(order) \union {h} /\ IsInjective(order')
      /\ DOMAIN order' = 1 .. Len(order) + 1
  <2> HIDE DEF h
  <2>1. IsInjective(order)
    BY <1>1 DEF Sorting
  <2>2. DOMAIN Append(order, h) = 1 .. Len(Append(order, h))
    BY <1>3, <1>4, AppendIs, LenProperties
  <2> QED
    BY <1>1, <1>3, <1>4, <2>1, <2>2, AppendIs
<1> HIDE DEF h
<1>6. TypeOK'
  <2>1. Dependents(h) \subseteq Edges
    BY DEF Dependents
  <2> QED
    BY <1>1, <1>2, <1>3, <1>4, <1>5, <2>1 DEF TypeOK
<1>7. \A k \in DOMAIN Deps(h) : Deps(h)[k] \in Range(order)
  <2>1. degree[h] = 0 /\ degree[h] = Cardinality(WaitsFor(h))
    BY <1>1, <1>4 DEF Sorting
  <2>2. IsFiniteSet(WaitsFor(h))
    BY <1>4, DepsFinite DEF WaitsFor
  <2>3. WaitsFor(h) = {}
    BY <2>1, <2>2, FS_EmptySet
  <2> QED
    BY <2>3 DEF WaitsFor, Target
<1>8. Sorting'
  <2>1. ASSUME NEW n \in Owned PROVE WaitsFor(n)' = WaitsFor(n)
    <3>1. \A i \in DOMAIN Deps(n) : <<n, i>> \in walk' <=> Target(<<n, i>>) = h
      BY <1>1, <2>1, GraphIs DEF Dependents
    <3> QED
      BY <1>1, <1>2, <1>4, <1>5, <3>1 DEF WaitsFor
  <2>2. Range(ready') \union Range(order') = Range(ready) \union Range(order)
    BY <1>4, <1>5
  <2>3. Range(ready') \intersect Range(order') = {}
    BY <1>1, <1>4, <1>5 DEF Sorting
  <2>4. \A e \in walk' : Target(e)' \in Range(order')
    BY <1>1, <1>2, <1>5 DEF Dependents
  <2>5. \A n \in Owned' : degree'[n] = Cardinality(WaitsFor(n)')
    BY <1>1, <1>2, <2>1 DEF Sorting
  <2> QED
    BY <1>1, <1>2, <1>4, <1>5, <2>2, <2>3, <2>4, <2>5 DEF Sorting
<1>9. Ordered'
  <2>1. ASSUME NEW i \in DOMAIN order', NEW k \in DOMAIN Deps(order'[i])
        PROVE  \E j \in 1 .. i - 1 : order'[j] = Deps(order'[i])[k]
    <3>1. CASE i \in 1 .. Len(order)
      <4>1. order'[i] = order[i] /\ i \in DOMAIN order
        BY <1>3, <1>5, <3>1
      <4>2. PICK j \in 1 .. i - 1 : order[j] = Deps(order[i])[k]
        BY <1>1, <2>1, <4>1 DEF Ordered
      <4>3. j \in 1 .. Len(order)
        BY <1>3, <3>1, <4>2
      <4> QED
        BY <1>5, <4>1, <4>2, <4>3
    <3>2. CASE i = Len(order) + 1
      <4>1. Deps(h)[k] \in Range(order)
        BY <1>5, <1>7, <2>1, <3>2
      <4>2. PICK j \in 1 .. Len(order) : order[j] = Deps(h)[k]
        BY <1>3, <4>1 DEF Range
      <4> QED
        BY <1>3, <1>5, <3>2, <4>2
    <3> QED
      BY <1>3, <1>5, <2>1, <3>1, <3>2
  <2>2. ASSUME NEW S \in SUBSET Owned, Knot(S) PROVE S \intersect Range(order') = {}
    <3>1. S \intersect Range(order) = {}
      BY <1>1, <2>2 DEF Ordered
    <3>2. h \notin S
      BY <1>7, <2>2, <3>1 DEF Knot
    <3> QED
      BY <1>5, <3>1, <3>2
  <2>3. \A i \in DOMAIN order' : \A k \in DOMAIN manifest'[owner'[order'[i]]].deps :
          \E j \in 1 .. i - 1 : order'[j] = manifest'[owner'[order'[i]]].deps[k]
    <3>1. \A i : Deps(order'[i]) = manifest'[owner'[order'[i]]].deps
      BY <1>1 DEF Deps
    <3> QED
      BY <2>1, <3>1
  <2>4. \A S \in SUBSET Owned' : Knot(S)' => S \intersect Range(order') = {}
    BY <1>2, <2>2
  <2> QED
    BY <2>3, <2>4 DEF Ordered, Deps
<1>10. LocalsEnd' /\ Counting' /\ Complete' /\ Reasons'
  BY <1>1, <1>2 DEF LocalsEnd, Counting, Complete, Reasons
<1>11. Kept'
  BY <1>1, <1>2 DEF Kept, Listed
<1> QED
  BY <1>6, <1>8, <1>9, <1>10, <1>11

LEMMA WalkKeeps ==
  ASSUME IInv, NEW e \in walk, Walk(e)
  PROVE  IInv'
<1> USE DEF IInv
<1> DEFINE n == e[1]
<1>1. /\ pc = "drain" /\ pc' = "drain" /\ walk' = walk \ {e}
      /\ degree' = [degree EXCEPT ![n] = @ - 1]
      /\ ready' = IF degree[n] = 1 THEN Append(ready, n) ELSE ready
      /\ UNCHANGED <<manifest, archives, scripts, running, batch, mode, owner, uncounted, order,
                     calls, outcome>>
      /\ calls = 0 /\ uncounted = {}
  BY DEF Walk, loaded, LocalsEnd
<1>2. /\ Owned' = Owned /\ Edges' = Edges
      /\ (\A x : Deps(x)' = Deps(x)) /\ (\A x : Target(x)' = Target(x)) /\ (\A S : Knot(S)' = Knot(S))
  BY <1>1, SameGraph
<1>3. /\ e \in Edges /\ n \in Owned /\ e[2] \in DOMAIN Deps(n) /\ e = <<n, e[2]>> /\ n \in Names
      /\ Target(e) \in Range(order)
  BY <1>1, GraphIs DEF TypeOK, Sorting
<1>4. e[2] \in WaitsFor(n) /\ WaitsFor(n)' = WaitsFor(n) \ {e[2]}
  BY <1>1, <1>2, <1>3 DEF WaitsFor
<1>5. /\ \A x \in Owned : degree[x] \in Nat /\ degree[x] = Cardinality(WaitsFor(x))
      /\ IsFiniteSet(WaitsFor(n))
      /\ Cardinality(WaitsFor(n)) \in Nat
  BY <1>1, <1>3, DepsFinite, GraphIs DEF TypeOK, Sorting, WaitsFor
<1>6. degree[n] \in Nat \ {0} /\ Cardinality(WaitsFor(n)') = degree[n] - 1
  <2>1. WaitsFor(n) # {} /\ degree[n] = Cardinality(WaitsFor(n)) /\ degree[n] \in Nat
    BY <1>3, <1>4, <1>5
  <2>2. degree[n] # 0
    BY <1>5, <2>1, FS_EmptySet
  <2>3. Cardinality(WaitsFor(n) \ {e[2]}) = Cardinality(WaitsFor(n)) - 1
    BY <1>4, <1>5, FS_RemoveElement
  <2> QED
    BY <1>4, <2>1, <2>2, <2>3
<1>7. degree' \in [Names -> Nat] /\ degree'[n] = degree[n] - 1
      /\ \A x \in Owned : x # n => degree'[x] = degree[x]
  <2>1. degree \in [Names -> Nat] /\ degree[n] - 1 \in Nat
    BY <1>6 DEF TypeOK
  <2> QED
    BY <1>1, <1>3, <2>1 DEF Owned
<1>8. n \notin Range(ready) /\ n \notin Range(order)
  BY <1>1, <1>3, <1>6 DEF Sorting
<1> HIDE DEF n
<1>9. /\ ready' \in Seq(Owned) /\ IsInjective(ready')
      /\ Range(ready') = IF degree[n] = 1 THEN Range(ready) \union {n} ELSE Range(ready)
  <2>1. ready \in Seq(Owned) /\ IsInjective(ready)
    BY <1>1 DEF TypeOK, Sorting
  <2>2. CASE degree[n] = 1
    <3>1. /\ Append(ready, n) \in Seq(Owned) /\ IsInjective(Append(ready, n))
          /\ Range(Append(ready, n)) = Range(ready) \union {n}
      BY <1>3, <1>8, <2>1, AppendIs
    <3> QED
      BY <1>1, <2>2, <3>1
  <2>3. CASE degree[n] # 1
    BY <1>1, <2>1, <2>3
  <2> QED
    BY <2>2, <2>3
<1>10. TypeOK'
  BY <1>1, <1>2, <1>7, <1>9 DEF TypeOK
<1>11. Sorting'
  <2>1. ASSUME NEW x \in Owned PROVE degree'[x] = Cardinality(WaitsFor(x)')
    <3>1. CASE x = n
      BY <1>6, <1>7, <3>1
    <3>2. CASE x # n
      <4>1. \A i \in DOMAIN Deps(x) : <<x, i>> \in walk' <=> <<x, i>> \in walk
        BY <1>1, <1>3, <3>2
      <4>2. WaitsFor(x)' = WaitsFor(x)
        BY <1>1, <1>2, <4>1 DEF WaitsFor
      <4> QED
        BY <1>5, <1>7, <2>1, <3>2, <4>2
    <3> QED
      BY <3>1, <3>2
  <2>2. ASSUME NEW x \in Owned PROVE degree'[x] = 0 <=> x \in Range(ready') \union Range(order')
    <3>1. degree[x] = 0 <=> x \in Range(ready) \union Range(order)
      BY <1>1, <2>2 DEF Sorting
    <3>2. CASE x = n
      BY <1>1, <1>6, <1>7, <1>8, <1>9, <3>2
    <3>3. CASE x # n
      BY <1>1, <1>7, <1>9, <2>2, <3>1, <3>3
    <3> QED
      BY <3>2, <3>3
  <2>3. Range(ready') \intersect Range(order') = {}
    BY <1>1, <1>8, <1>9 DEF Sorting
  <2>4. \A x \in walk' : Target(x)' \in Range(order')
    BY <1>1, <1>2 DEF Sorting
  <2> QED
    BY <1>1, <1>2, <1>9, <2>1, <2>2, <2>3, <2>4 DEF Sorting
<1>12. Ordered'
  BY <1>1, <1>2 DEF Ordered
<1>13. LocalsEnd' /\ Counting' /\ Complete' /\ Reasons'
  BY <1>1, <1>2 DEF LocalsEnd, Counting, Complete, Reasons
<1>14. Kept'
  BY <1>1, <1>2 DEF Kept, Listed
<1> QED
  BY <1>10, <1>11, <1>12, <1>13, <1>14

LEMMA DrainedKeeps ==
  ASSUME IInv, Drained
  PROVE  IInv'
<1> USE DEF IInv
<1>1. /\ pc = "drain" /\ walk = {} /\ ready = <<>> /\ calls = 0 /\ uncounted = {}
      /\ UNCHANGED <<manifest, archives, scripts, running, batch, owner>>
  BY DEF Drained, loaded, LocalsEnd
<1>2. order \in Seq(Owned) /\ IsInjective(order) /\ IsFiniteSet(Owned) /\ Range(order) \subseteq Owned
  <2>1. order \in Seq(Owned) /\ IsInjective(order) /\ IsFiniteSet(Owned)
    BY <1>1, GraphIs DEF TypeOK, Sorting
  <2>2. DOMAIN order = 1 .. Len(order) /\ \A i \in 1 .. Len(order) : order[i] \in Owned
    BY <2>1, LenProperties, ElementOfSeq
  <2> QED
    BY <2>1, <2>2 DEF Range
<1>3. Len(order) = Cardinality(Owned) <=> Range(order) = Owned
  BY <1>2, LengthIs
<1>4. CASE Len(order) = Cardinality(Owned)
  <2>1. pc' = "call" /\ UNCHANGED <<mode, uncounted, degree, ready, order, walk, calls, outcome>>
    BY <1>4 DEF Drained, locals
  <2>2. /\ Owned' = Owned /\ Edges' = Edges
        /\ (\A x : Deps(x)' = Deps(x)) /\ (\A x : Target(x)' = Target(x)) /\ (\A S : Knot(S)' = Knot(S))
    BY <1>1, SameGraph
  <2>3. TypeOK'
    BY <1>1, <2>1, <2>2 DEF TypeOK
  <2>4. \A x \in Owned : WaitsFor(x)' = WaitsFor(x)
    BY <2>1, <2>2 DEF WaitsFor
  <2>5. Sorting' /\ Ordered'
    BY <1>1, <2>1, <2>2, <2>4 DEF Sorting, Ordered
  <2>6. LocalsEnd' /\ Counting' /\ Complete' /\ Reasons'
    BY <1>1, <1>3, <1>4, <2>1, <2>2 DEF LocalsEnd, Counting, Complete, Reasons
  <2>7. CalledSoFar' = {} \/ mode' # "unload"
    <3>1. Len(order) \in Nat
      BY <1>2, LenProperties
    <3> QED
      BY <1>1, <2>1, <3>1 DEF CalledSoFar
  <2>8. Kept'
    BY <1>1, <2>1, <2>2, <2>7 DEF Kept, Listed
  <2> QED
    BY <2>3, <2>5, <2>6, <2>8
<1>5. CASE Len(order) # Cardinality(Owned)
  <2> DEFINE S == Owned \ Range(order)
  <2>1. S # {} /\ S \in SUBSET Owned
    BY <1>2, <1>3, <1>5
  <2>2. ASSUME NEW n \in S PROVE \E i \in DOMAIN Deps(n) : Deps(n)[i] \in S
    <3>1. Range(ready) = {}
      BY <1>1 DEF Range
    <3>2. degree[n] # 0 /\ degree[n] = Cardinality(WaitsFor(n))
      BY <1>1, <3>1 DEF Sorting
    <3>3. WaitsFor(n) # {}
      BY <3>2, FS_EmptySet
    <3>4. PICK i \in DOMAIN Deps(n) : Target(<<n, i>>) \notin Range(order)
      BY <1>1, <3>3 DEF WaitsFor
    <3>5. Target(<<n, i>>) \in Owned /\ Target(<<n, i>>) = Deps(n)[i]
      BY <1>1, GraphIs DEF Sorting, Target
    <3> QED
      BY <3>4, <3>5
  <2>3. Knot(S)
    BY <2>1, <2>2 DEF Knot
  <2>4. Return /\ outcome' = "circular" /\ UNCHANGED <<loaded, batch, owner>>
    BY <1>5 DEF Drained
  <2> QED
    BY <2>1, <2>3, <2>4, RefusalKeeps
<1> QED
  BY <1>4, <1>5

LEMMA MissingKeeps ==
  ASSUME IInv, NEW e \in uncounted, Missing(e)
  PROVE  IInv'
<1>1. e \in Edges /\ Target(e) \notin Owned
  BY DEF Missing, IInv, TypeOK
<1>2. Return /\ outcome' = "missing" /\ UNCHANGED <<loaded, batch, owner>>
  BY DEF Missing
<1> QED
  BY <1>1, <1>2, RefusalKeeps

(* What the loops of LoadAll and UnloadAll leave as it was sorted.         *)
LEMMA CallKeeps ==
  ASSUME IInv, ModInit \/ ModExit
  PROVE  IInv'
<1> USE DEF IInv
<1>1. /\ pc = "call" /\ pc' = "call" /\ calls < Len(order) /\ calls' = calls + 1
      /\ UNCHANGED <<manifest, archives, scripts, batch, mode, owner, uncounted, degree, ready, order, walk,
                     outcome>>
      /\ \/ mode = "load" /\ running' = running \union {scripts[Turn]}
         \/ mode = "unload" /\ running' = running \ {scripts[Turn]}
  BY DEF ModInit, ModExit
<1>2. /\ Owned' = Owned /\ Edges' = Edges
      /\ (\A x : Deps(x)' = Deps(x)) /\ (\A x : Target(x)' = Target(x)) /\ (\A S : Knot(S)' = Knot(S))
  BY <1>1, SameGraph
<1>3. /\ Len(order) \in Nat /\ calls \in 0 .. Len(order)
      /\ DOMAIN order = 1 .. Len(order)
      /\ \A i \in 1 .. Len(order) : order[i] \in Owned
  <2>1. order \in Seq(Owned) /\ calls \in 0 .. Len(order)
    BY DEF TypeOK
  <2> QED
    BY <2>1, LenProperties, ElementOfSeq
<1>4. calls' \in 0 .. Len(order) /\ Turn \in Owned /\ Turn \in Names
  <2>1. calls + 1 \in 1 .. Len(order) /\ Len(order) - calls \in 1 .. Len(order)
    BY <1>1, <1>3
  <2> QED
    BY <1>1, <1>3, <2>1 DEF Turn, Owned
<1>5. TypeOK'
  <2>1. scripts[Turn] # 0 /\ scripts[Turn] \in 0 .. Len(archives) /\ Len(archives) \in Nat
    BY <1>1, <1>4, LenProperties DEF TypeOK, Kept
  <2>2. running' \subseteq 1 .. Len(archives)
    <3>1. running \subseteq 1 .. Len(archives)
      BY DEF TypeOK
    <3>2. scripts[Turn] \in 1 .. Len(archives)
      BY <2>1
    <3> QED
      BY <1>1, <3>1, <3>2
  <2> QED
    BY <1>1, <1>2, <1>4, <2>2 DEF TypeOK
<1>6. \A x \in Owned : WaitsFor(x)' = WaitsFor(x)
  BY <1>1, <1>2 DEF WaitsFor
<1>7. Sorting' /\ Ordered' /\ Complete' /\ LocalsEnd' /\ Counting' /\ Reasons'
  BY <1>1, <1>2, <1>6 DEF Sorting, Ordered, Complete, LocalsEnd, Counting, Reasons
<1>8. Kept'
  <2>1. \A n \in Names : n \in Owned' <=> scripts'[n] # 0 /\ Listed(n)'
    BY <1>1, <1>2 DEF Kept, Listed
  <2>3. mode = "unload" => \A n \in CalledSoFar' : scripts'[n] \notin running'
    <3> SUFFICES ASSUME mode = "unload" PROVE \A n \in CalledSoFar' : scripts'[n] \notin running'
      OBVIOUS
    <3>1. CalledSoFar = {order[i] : i \in Len(order) - calls + 1 .. Len(order)}
      BY DEF CalledSoFar
    <3>2. CalledSoFar' = {order[i] : i \in Len(order) - (calls + 1) + 1 .. Len(order)}
      BY <1>1 DEF CalledSoFar
    <3>3. ASSUME NEW i \in Len(order) - (calls + 1) + 1 .. Len(order), i # Len(order) - calls
          PROVE  i \in Len(order) - calls + 1 .. Len(order)
      <4>1. Len(order) \in Int /\ calls \in Int /\ i \in Int
        BY <1>3
      <4> QED
        BY <3>3, <4>1
    <3>4. CalledSoFar' \subseteq CalledSoFar \union {Turn}
      BY <3>1, <3>2, <3>3 DEF Turn
    <3>5. \A n \in CalledSoFar : scripts[n] \notin running
      BY <1>1 DEF Kept
    <3> QED
      BY <1>1, <3>4, <3>5
  <2> QED
    BY <1>1, <2>1, <2>3 DEF Kept
<1> QED
  BY <1>5, <1>7, <1>8

LEMMA CalledKeeps ==
  ASSUME IInv, Called
  PROVE  IInv'
<1> USE DEF IInv
<1>1. /\ pc = "call" /\ calls = Len(order)
      /\ pc' = "idle" /\ mode' = "load"
      /\ uncounted' = {} /\ walk' = {} /\ degree' = [n \in Names |-> 0]
      /\ ready' = <<>> /\ order' = <<>> /\ calls' = 0
      /\ UNCHANGED <<manifest, archives, running, batch, owner>>
      /\ \/ mode = "load" /\ outcome' = "loaded" /\ scripts' = scripts
         \/ mode = "unload" /\ outcome' = "unloaded" /\ scripts' = [n \in Names |-> 0]
  BY DEF Called, Return, TypeOK
<1>3. TypeOK'
  <2>1. ready' \in Seq(Owned') /\ order' \in Seq(Owned') /\ Len(order') = 0
    BY <1>1, EmptySeq
  <2> QED
    BY <1>1, <2>1 DEF TypeOK, Outcomes
<1>4. Kept'
  BY <1>1 DEF Kept
<1>5. LocalsEnd' /\ Counting' /\ Sorting' /\ Ordered' /\ Complete' /\ Reasons'
  BY <1>1 DEF LocalsEnd, Counting, Sorting, Ordered, Complete, Reasons
<1> QED
  BY <1>3, <1>4, <1>5

LEMMA StutterKeeps ==
  ASSUME IInv, UNCHANGED vars
  PROVE  IInv'
<1>1. UNCHANGED <<manifest, archives, scripts, running, pc, batch, mode, owner, uncounted, degree, ready,
                  order, walk, calls, outcome>>
  BY DEF vars, sort, locals
<1>2. /\ Owned' = Owned /\ Edges' = Edges
      /\ (\A x : Deps(x)' = Deps(x)) /\ (\A x : Target(x)' = Target(x)) /\ (\A S : Knot(S)' = Knot(S))
  BY <1>1, SameGraph
<1>3. (\A x \in Owned : WaitsFor(x)' = WaitsFor(x) /\ CountedOf(x)' = CountedOf(x)) /\ CalledSoFar' = CalledSoFar
  BY <1>1, <1>2 DEF WaitsFor, CountedOf, CalledSoFar
<1>4. TypeOK' /\ LocalsEnd'
  BY <1>1, <1>2 DEF IInv, TypeOK, LocalsEnd
<1>5. Counting' /\ Sorting' /\ Ordered' /\ Complete' /\ Reasons'
  BY <1>1, <1>2, <1>3 DEF IInv, Counting, Sorting, Ordered, Complete, Reasons
<1>6. Kept'
  BY <1>1, <1>2, <1>3 DEF IInv, Kept, Listed
<1> QED
  BY <1>4, <1>5, <1>6 DEF IInv

LEMMA StepKeeps == IInv /\ [Next]_vars => IInv'
<1> SUFFICES ASSUME IInv, [Next]_vars PROVE IInv'
  OBVIOUS
<1>1. CASE \/ \E a \in Archives : \E m \in Manifests[a] : Reload(a, m)
           \/ StartCompile(Mounted) \/ \E a \in Archives : StartCompile(<<a>>)
           \/ CompileFails \/ CompileSkips \/ Compiles \/ CompileEnds
  BY <1>1, IdleKeeps
<1>2. CASE \E m \in {"load", "unload"} : Start(m)
  BY <1>2, StartKeeps
<1>3. CASE \E e \in uncounted : Count(e) \/ Missing(e)
  BY <1>3, CountKeeps, MissingKeeps
<1>4. CASE Counted \/ Pop \/ Drained
  BY <1>4, CountedKeeps, PopKeeps, DrainedKeeps
<1>5. CASE \E e \in walk : Walk(e)
  BY <1>5, WalkKeeps
<1>6. CASE ModInit \/ ModExit \/ Called
  BY <1>6, CallKeeps, CalledKeeps
<1>7. CASE UNCHANGED vars
  BY <1>7, StutterKeeps
<1> QED
  BY <1>1, <1>2, <1>3, <1>4, <1>5, <1>6, <1>7 DEF Next

(* Every state ScriptLoader reaches satisfies the inductive invariant.     *)
THEOREM IInvHolds == Spec => []IInv
<1>1. Init => IInv
  BY InitKeeps
<1>2. IInv /\ [Next]_vars => IInv'
  BY StepKeeps
<1> QED
  BY <1>1, <1>2, PTL DEF Spec

(* Degrees stay natural, and positions and names those of the orders: no   *)
(* counter of GetLoadersInDependencyOrder passes below zero.               *)
THEOREM TypeCorrect == Spec => []TypeOK
<1>1. IInv => TypeOK
  BY DEF IInv
<1> QED
  BY <1>1, IInvHolds, PTL

(* However the maps list names and dependencies, LoadAll calls ModInit     *)
(* after that of every dependency and UnloadAll ModExit before it.         *)
THEOREM InDependencyOrderHolds == Spec => []InDependencyOrder
<1>1. ASSUME IInv, pc = "call", NEW e \in Edges
      PROVE  IF mode = "load" THEN e[1] \in CalledSoFar => Target(e) \in CalledSoFar
                              ELSE Target(e) \in CalledSoFar => e[1] \in CalledSoFar
  <2>1. /\ Len(order) \in Nat /\ calls \in 0 .. Len(order) /\ DOMAIN order = 1 .. Len(order)
        /\ Range(order) = Owned /\ IsInjective(order)
        /\ e[1] \in Owned /\ e[2] \in DOMAIN Deps(e[1])
    BY <1>1, GraphIs, LenProperties DEF IInv, TypeOK, Complete, Sorting
  <2>2. PICK i \in 1 .. Len(order) : order[i] = e[1]
    BY <2>1 DEF Range
  <2>3. PICK j \in 1 .. i - 1 : order[j] = Target(e)
    BY <1>1, <2>1, <2>2 DEF IInv, Ordered, Target
  <2>4. i \in DOMAIN order /\ j \in DOMAIN order /\ i \in Nat /\ j \in Nat /\ j < i
    BY <2>1, <2>2, <2>3
  <2>5. CASE mode = "load"
    <3>1. ASSUME e[1] \in CalledSoFar PROVE Target(e) \in CalledSoFar
      <4>1. PICK k \in 1 .. calls : order[k] = e[1]
        BY <2>5, <3>1 DEF CalledSoFar
      <4>2. k = i
        BY <2>1, <2>2, <2>4, <4>1 DEF IsInjective
      <4>3. j \in 1 .. calls
        BY <2>1, <2>4, <4>1, <4>2
      <4> QED
        BY <2>3, <2>5, <4>3 DEF CalledSoFar
    <3> QED
      BY <2>5, <3>1
  <2>6. CASE mode # "load"
    <3>1. ASSUME Target(e) \in CalledSoFar PROVE e[1] \in CalledSoFar
      <4>1. PICK k \in Len(order) - calls + 1 .. Len(order) : order[k] = Target(e)
        BY <2>6, <3>1 DEF CalledSoFar
      <4>2. k \in DOMAIN order
        BY <2>1, <4>1
      <4>3. k = j
        BY <2>1, <2>3, <2>4, <4>1, <4>2 DEF IsInjective
      <4>4. i \in Len(order) - calls + 1 .. Len(order)
        BY <2>1, <2>2, <2>4, <4>1, <4>3
      <4> QED
        BY <2>2, <2>6, <4>4 DEF CalledSoFar
    <3> QED
      BY <2>6, <3>1
  <2> QED
    BY <2>5, <2>6
<1>2. IInv => InDependencyOrder
  BY <1>1 DEF InDependencyOrder
<1> QED
  BY <1>2, IInvHolds, PTL

(* An order is refused exactly when a dependency is missing or scripts     *)
(* depend on each other in a circle, for graphs of any size and shape.     *)
THEOREM VerdictRightHolds == Spec => []VerdictRight
<1>1. ASSUME IInv PROVE VerdictRight
  <2>1. ASSUME pc = "call", NEW S \in SUBSET Owned, Knot(S) PROVE FALSE
    <3>1. S \intersect Owned = {}
      BY <1>1, <2>1 DEF IInv, Ordered, Complete
    <3> QED
      BY <2>1, <3>1 DEF Knot
  <2>2. pc = "call" => Range(order) = Owned /\ \A e \in Edges : Target(e) \in Owned
    BY <1>1 DEF IInv, Complete, Sorting
  <2>3. Reasons
    BY <1>1 DEF IInv
  <2> QED
    BY <2>1, <2>2, <2>3 DEF VerdictRight, Reasons
<1> QED
  BY <1>1, IInvHolds, PTL

(* Whatever is compiled, reloaded, renamed, refused or thrown in between,  *)
(* an UnloadAll that empties mLoadedScripts has finished every library that*)
(* runs and has a listed archive of its name, and nothing but a new library*)
(* of its name takes one out otherwise.                                    *)
THEOREM NoneForgottenHolds == Spec => NoneForgotten
<1> DEFINE Lost(n) == scripts[n] \in running /\ scripts'[n] # scripts[n]
           Kind(n) == Lost(n) => scripts'[n] # 0 \/ ~Listed(n)
<1>1. ASSUME IInv, [Next]_vars, NEW n \in Names, Lost(n)
      PROVE  scripts'[n] # 0 \/ ~Listed(n)
  <2>0. IInv /\ TypeOK
    BY <1>1 DEF IInv
  <2>1. scripts' # scripts
    BY <1>1
  <2>2. CASE Compiles
    <3>1. Len(archives) \in Nat
      BY <2>0, LenProperties DEF TypeOK
    <3>2. scripts' = [scripts EXCEPT ![manifest[Head(batch)].name] = Len(archives) + 1]
      BY <2>2 DEF Compiles
    <3>3. scripts'[n] = Len(archives) + 1
      BY <1>1, <2>0, <3>2 DEF TypeOK
    <3> QED
      BY <3>1, <3>3
  <2>3. CASE Called
    <3>1. pc = "call" /\ mode = "unload" /\ calls = Len(order)
      BY <2>0, <2>1, <2>3 DEF Called, TypeOK
    <3>2. Len(order) \in Nat /\ DOMAIN order = 1 .. Len(order)
      BY <2>0, LenProperties DEF TypeOK
    <3>3. CalledSoFar = {order[i] : i \in 1 .. Len(order)}
      BY <3>1, <3>2 DEF CalledSoFar
    <3>4. CalledSoFar = Owned
      BY <2>0, <3>1, <3>2, <3>3 DEF IInv, Complete, Range
    <3>5. n \notin Owned
      BY <1>1, <2>0, <3>1, <3>4 DEF IInv, Kept
    <3>6. scripts[n] # 0
      BY <1>1, <2>0 DEF TypeOK
    <3> QED
      BY <2>0, <3>1, <3>5, <3>6 DEF IInv, Kept
  <2>4. Compiles \/ Called \/ UNCHANGED scripts
    BY <1>1 DEF Next, Reload, StartCompile, CompileFails, CompileSkips, CompileEnds, Start, Count, Missing,
                Counted, Pop, Walk, Drained, ModInit, ModExit, loaded, vars
  <2> QED
    BY <2>1, <2>2, <2>3, <2>4
<1>2. IInv /\ [Next]_vars => [\A n \in Names : Kind(n)]_vars
  BY <1>1
<1> QED
  BY <1>2, IInvHolds, PTL DEF Spec, NoneForgotten
==============================================================================
