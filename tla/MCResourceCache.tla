--------------------------- MODULE MCResourceCache ---------------------------
(* Instances of ResourceCache for TLC.                                      *)
EXTENDS ResourceCache, TLC

(* An allocator that returns the lowest free address: which address an     *)
(* object has matters to nobody.                                           *)
LowestFree(free) == {o \in free : \A p \in free : o <= p}

Symmetry == Permutations(Threads)

(* The whole is too large for one run, so a behaviour keeps to one half of *)
(* what goes on around the loads: alternates are switched and objects      *)
(* dirtied while the files stay, or files are written, appear, vanish and  *)
(* turn bad while alternates stay on or off.                               *)
VARIABLE focus

Alternates ==
  \/ \E t \in Threads, o \in Ops \intersect {"async", "dirty"}, id \in Ids, ex \in Exacts, otr \in Prefixed :
       Begin(t, o, id, ex, otr)
  \/ \E b \in BOOLEAN : SetAltAssetsEnabled(b)

Files ==
  \/ \E t \in Threads, o \in Ops \intersect {"process", "write"}, id \in Ids, otr \in Prefixed :
       Begin(t, o, id, FALSE, otr)
  \/ \E p \in Paths, c \in Contents \union {Bad, NoFile} : Remount(p, c)

MCInit == Init /\ focus \in {"alternates", "files"}
MCNext ==
  /\ UNCHANGED focus
  /\ \/ \E t \in Threads : Load(t) \/ Evict(t)
     \/ focus = "alternates" /\ Alternates
     \/ focus = "files" /\ Files
MCSpec == MCInit /\ [][MCNext]_<<vars, focus>>

(* States that differ only in the addresses of objects are one state, and  *)
(* so are those that differ in what a freed address held or in the         *)
(* arguments of a call whose outcome no property asks about.               *)
Shape(l) == IF l \in Objects THEN "object" ELSE l

Place(o) ==
  [in    |-> {id \in Ids : cache[id] = o},
   held  |-> {t \in Threads : line[t] = o},
   made  |-> {t \in Threads : fresh[t] = o},
   given |-> {t \in Threads : result[t] = o},
   stale |-> {t \in Threads : o \in startDirty[t]},
   flag  |-> <<o \in dirty, ident[o]>>]

View ==
  <<focus, file, altOn, pc, {Place(o) : o \in Live \intersect Objects},
    [id \in Ids |-> Shape(cache[id])],
    [t \in Threads |-> <<Shape(line[t]), Shape(fresh[t]), Shape(result[t])>>],
    [t \in Threads |->
       IF pc[t] = "idle" /\ result[t] = Nil /\ (op[t] \notin Loads \/ ~goodFile[t])
       THEN <<>>
       ELSE <<op[t], req[t], exact[t], cur[t], asked[t], altSeen[t], goodFile[t]>>]>>
==============================================================================
