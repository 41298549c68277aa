------------------------ MODULE ResourceManager_proofs -----------------------
(***************************************************************************)
(* Proofs about the two halves of the resource manager: about its cache,   *)
(* for any number of assets, owners, threads, objects and file contents    *)
(* and for any allocator, and about its thread pool, for any number of     *)
(* workers, calls and files.                                               *)
(***************************************************************************)
EXTENDS ResourceCache, ResourcePool, FiniteSetTheorems, TLAPS

USE NilAssumption, ErrorAssumption

(* After the second cache check a thread holds a resource or nullptr.      *)
CheckedLine == \A t \in Threads : pc[t] = "commit" => line[t] \in Objects \union {Nil}

TypeInv == TypeOK /\ CheckedLine

(* The initial state is well typed.                                        *)
LEMMA TypeInit == Init => TypeInv
  <1> SUFFICES ASSUME Init PROVE TypeInv
    OBVIOUS
  <1>1. PICK n \in Names : TRUE
    BY NonEmptyAssumption
  <1>2. [name |-> n, alt |-> FALSE, owner |-> DefaultOwner] \in Ids
    BY <1>1, OwnerAssumption DEF Ids
  <1>3. AnyId \in Ids
    BY <1>2 DEF AnyId
  <1>5. SharedType /\ CheckedLine
    BY <1>3 DEF Init, SharedType, Lines, Errors, CheckedLine
  <1>6. LocalType
    BY <1>3 DEF Init, LocalType, Lines, Errors, Points, AllOps, Loads
  <1>7. GhostType
    BY DEF Init, GhostType, Lines, Errors
  <1> QED
    BY <1>5, <1>6, <1>7 DEF TypeInv, TypeOK

(* The identifier with the alternate or the default owner is an identifier.*)
LEMMA IdTypes ==
  ASSUME NEW id \in Ids
  PROVE  /\ Alt(id) \in Ids
         /\ [id EXCEPT !.owner = DefaultOwner] \in Ids
         /\ Path(id) \in Paths
  BY OwnerAssumption DEF Ids, Paths, Alt, Path

(* The three ways a step moves a thread on keep its locals well typed.     *)
LEMMA FinishType ==
  ASSUME LocalType, CheckedLine, NEW t \in Threads, NEW r \in Objects \union {Nil}, Finish(t, r)
  PROVE  LocalType' /\ CheckedLine'
  BY DEF LocalType, CheckedLine, Finish, Points, AllOps, Loads, Lines

LEMMA GotoType ==
  ASSUME LocalType, CheckedLine, NEW t \in Threads, NEW p \in Points, Goto(t, p),
         NEW l \in Lines \union {Nil}, line' = [line EXCEPT ![t] = l],
         p = "commit" => l \in Objects \union {Nil}
  PROVE  LocalType' /\ CheckedLine'
  BY DEF LocalType, CheckedLine, Goto

LEMMA ReturnNullType ==
  ASSUME LocalType, CheckedLine, NEW t \in Threads, ReturnNull(t)
  PROVE  LocalType' /\ CheckedLine'
  <1>1. CASE cur[t] # req[t]
    <2>1. req[t] \in Ids /\ Nil \in Lines \union {Nil} /\ "decide" \in Points
      BY DEF LocalType, Points
    <2> QED
      BY <1>1, <2>1 DEF ReturnNull, LocalType, CheckedLine
  <1>2. CASE cur[t] = req[t]
    BY <1>2, FinishType DEF ReturnNull
  <1> QED
    BY <1>1, <1>2

LEMMA TypeStep == TypeInv /\ [Next]_vars => TypeInv'
  <1> SUFFICES ASSUME SharedType, LocalType, GhostType, CheckedLine, [Next]_vars
               PROVE  SharedType' /\ LocalType' /\ GhostType' /\ CheckedLine'
    BY DEF TypeInv, TypeOK
  <1>1. ASSUME NEW t \in Threads, StartLoad(t)
        PROVE  SharedType' /\ LocalType' /\ GhostType' /\ CheckedLine'
    <2>1. Alt(req[t]) \in Ids
      BY IdTypes DEF LocalType
    <2>2. LocalType' /\ CheckedLine'
      BY <1>1, <2>1 DEF StartLoad, LocalType, CheckedLine, Points
    <2> QED
      BY <1>1, <2>2 DEF StartLoad, SharedType, GhostType, shared, ghosts
  <1>2. ASSUME NEW t \in Threads, Decide(t)
        PROVE  SharedType' /\ LocalType' /\ GhostType' /\ CheckedLine'
    <2>1. LocalType' /\ CheckedLine'
      BY <1>2 DEF Decide, Goto, LocalType, CheckedLine, Points
    <2> QED
      BY <1>2, <2>1 DEF Decide, SharedType, GhostType, shared, ghosts
  <1>3. ASSUME NEW t \in Threads, LookAlt(t)
        PROVE  SharedType' /\ LocalType' /\ GhostType' /\ CheckedLine'
    <2>1. LocalType' /\ CheckedLine'
      BY <1>3 DEF LookAlt, Goto, LocalType, CheckedLine, Points, Lines
    <2> QED
      BY <1>3, <2>1 DEF LookAlt, SharedType, GhostType, shared, ghosts
  <1>4. ASSUME NEW t \in Threads, Look(t)
        PROVE  SharedType' /\ LocalType' /\ GhostType' /\ CheckedLine'
    <2>1. cache[cur[t]] \in Lines
      BY DEF SharedType, LocalType
    <2>2. LocalType' /\ CheckedLine'
      BY <1>4, <2>1 DEF Look, Goto, LocalType, CheckedLine, Points
    <2> QED
      BY <1>4, <2>2 DEF Look, SharedType, GhostType, shared, ghosts
  <1>5. ASSUME NEW t \in Threads, ExamineAsync(t)
        PROVE  SharedType' /\ LocalType' /\ GhostType' /\ CheckedLine'
    <2>1. CASE Clean(line[t])
      BY <1>5, <2>1, FinishType DEF ExamineAsync, Clean, SharedType, GhostType, shared, ghosts
    <2>2. CASE ~Clean(line[t])
      <3>1. LocalType' /\ CheckedLine'
        BY <1>5, <2>2 DEF ExamineAsync, LocalType, CheckedLine, Points, AllOps, Loads
      <3> QED
        BY <1>5, <3>1 DEF ExamineAsync, SharedType, GhostType, shared, ghosts
    <2> QED
      BY <2>1, <2>2
  <1>6. ASSUME NEW t \in Threads, ExamineLoad(t)
        PROVE  SharedType' /\ LocalType' /\ GhostType' /\ CheckedLine'
    <2>1. SharedType' /\ GhostType'
      BY <1>6 DEF ExamineLoad, SharedType, GhostType, shared, ghosts
    <2>2. CASE Clean(line[t])
      BY <1>6, <2>1, <2>2, FinishType DEF ExamineLoad, Clean
    <2>3. CASE ReturnNull(t)
      BY <2>1, <2>3, ReturnNullType
    <2>4. CASE Goto(t, "read") /\ line' = [line EXCEPT ![t] = Nil]
      BY <2>1, <2>4, GotoType DEF Points
    <2> QED
      BY <1>6, <2>2, <2>3, <2>4 DEF ExamineLoad
  <1>7. ASSUME NEW t \in Threads, ReadFile(t)
        PROVE  SharedType' /\ LocalType' /\ GhostType' /\ CheckedLine'
    <2> DEFINE c == file[Path(cur[t])]
    <2>1. CASE Loadable(c)
      <3>1. PICK o \in Allocate(Objects \ Live) :
              /\ dirty' = dirty \ {o}
              /\ ident' = [ident EXCEPT ![o] = cur[t]]
              /\ fresh' = [fresh EXCEPT ![t] = o]
              /\ pc' = [pc EXCEPT ![t] = "relook"]
              /\ startDirty' = [u \in Threads |-> startDirty[u] \ {o}]
              /\ UNCHANGED <<op, req, exact, cur, result, asked, altSeen, goodFile>>
        BY <1>7, <2>1 DEF ReadFile, Build
      <3>2. o \in Objects /\ cur[t] \in Ids
        BY AllocateAssumption DEF LocalType
      <3>3. SharedType'
        BY <1>7, <3>1, <3>2 DEF ReadFile, SharedType
      <3>4. LocalType' /\ CheckedLine'
        BY <1>7, <3>1, <3>2 DEF ReadFile, LocalType, CheckedLine, Points
      <3>5. GhostType'
        BY <3>1, <3>2 DEF GhostType, Lines, Errors
      <3> QED
        BY <3>3, <3>4, <3>5
    <2>2. CASE ~Loadable(c)
      <3>1. LocalType' /\ CheckedLine'
        BY <1>7, <2>2 DEF ReadFile, Goto, LocalType, CheckedLine, Points
      <3> QED
        BY <1>7, <2>2, <3>1 DEF ReadFile, SharedType, GhostType, ghosts
    <2> QED
      BY <2>1, <2>2
  <1>8. ASSUME NEW t \in Threads, Miss(t)
        PROVE  SharedType' /\ LocalType' /\ GhostType' /\ CheckedLine'
    <2>1. LocalType' /\ CheckedLine'
      BY <1>8, ReturnNullType DEF Miss
    <2> QED
      BY <1>8, <2>1 DEF Miss, SharedType, GhostType, ghosts, Lines, Errors
  <1>9. ASSUME NEW t \in Threads, Relook(t)
        PROVE  SharedType' /\ LocalType' /\ GhostType' /\ CheckedLine'
    <2>1. cache[cur[t]] \in Lines
      BY DEF SharedType, LocalType
    <2>2. LocalType' /\ CheckedLine'
      BY <1>9, <2>1 DEF Relook, Goto, LocalType, CheckedLine, Points
    <2> QED
      BY <1>9, <2>2 DEF Relook, SharedType, GhostType, shared, ghosts
  <1>10. ASSUME NEW t \in Threads, Recheck(t)
         PROVE  SharedType' /\ LocalType' /\ GhostType' /\ CheckedLine'
    <2>1. LocalType' /\ CheckedLine'
      BY <1>10 DEF Recheck, Goto, Clean, LocalType, CheckedLine, Points, Lines
    <2> QED
      BY <1>10, <2>1 DEF Recheck, SharedType, GhostType, shared, ghosts
  <1>11. ASSUME NEW t \in Threads, Commit(t)
         PROVE  SharedType' /\ LocalType' /\ GhostType' /\ CheckedLine'
    <2> DEFINE resource == IF line[t] # Nil THEN line[t] ELSE fresh[t]
    <2>1. resource \in Objects \union {Nil} /\ cur[t] \in Ids
      BY <1>11 DEF Commit, CheckedLine, LocalType
    <2>2. LocalType' /\ CheckedLine'
      BY <1>11, <2>1, FinishType, ReturnNullType DEF Commit
    <2>3. SharedType'
      BY <1>11, <2>1 DEF Commit, SharedType, Lines, Errors
    <2> QED
      BY <1>11, <2>2, <2>3 DEF Commit, GhostType, ghosts
  <1>12. ASSUME NEW t \in Threads, ExamineDirty(t)
         PROVE  SharedType' /\ LocalType' /\ GhostType' /\ CheckedLine'
    <2>1. LocalType' /\ CheckedLine'
      BY <1>12, FinishType, GotoType DEF ExamineDirty, Points
    <2> QED
      BY <1>12, <2>1 DEF ExamineDirty, Clean, SharedType, GhostType, ghosts
  <1>13. ASSUME NEW t \in Threads, Contains(t)
         PROVE  SharedType' /\ LocalType' /\ GhostType' /\ CheckedLine'
    <2>1. LocalType' /\ CheckedLine'
      <3>1. CASE cache[cur[t]] # NotCached
        BY <1>13, <3>1 DEF Contains, Goto, LocalType, CheckedLine, Points
      <3>2. CASE cache[cur[t]] = NotCached
        BY <1>13, <3>2, FinishType DEF Contains
      <3> QED
        BY <3>1, <3>2
    <2> QED
      BY <1>13, <2>1 DEF Contains, SharedType, GhostType, shared, ghosts
  <1>14. ASSUME NEW t \in Threads, Erase(t)
         PROVE  SharedType' /\ LocalType' /\ GhostType' /\ CheckedLine'
    <2>1. LocalType' /\ CheckedLine'
      BY <1>14, FinishType DEF Erase
    <2> QED
      BY <1>14, <2>1 DEF Erase, SharedType, GhostType, ghosts, Lines, Errors
  <1>15. ASSUME NEW p \in Paths, NEW c \in Contents \union {Bad, NoFile}, ChangeFile(p, c),
                UNCHANGED <<cache, dirty, ident, altOn, startDirty, asked, altSeen>>
         PROVE  SharedType' /\ GhostType'
    BY <1>15 DEF ChangeFile, SharedType, GhostType
  <1>16. ASSUME NEW t \in Threads, NEW c \in Contents, NEW u \in Unloading, Write(t, c, u)
         PROVE  SharedType' /\ LocalType' /\ GhostType' /\ CheckedLine'
    <2>1. Path(req[t]) \in Paths
      BY IdTypes DEF LocalType
    <2>2. SharedType' /\ GhostType'
      <3>1. CASE file[Path(req[t])] = NoFile
        BY <1>16, <3>1 DEF Write, SharedType, GhostType
      <3>2. CASE file[Path(req[t])] # NoFile
        BY <1>15, <1>16, <2>1, <3>2 DEF Write
      <3> QED
        BY <3>1, <3>2
    <2>3. LocalType' /\ CheckedLine'
      <3>1. CASE Finish(t, Nil)
        BY <3>1, FinishType
      <3>2. CASE Goto(t, "contains") /\ UNCHANGED line
        BY <3>2 DEF Goto, LocalType, CheckedLine, Points
      <3> QED
        BY <1>16, <3>1, <3>2 DEF Write
    <2> QED
      BY <2>2, <2>3
  <1>17. ASSUME NEW t \in Threads, NEW o \in Ops, NEW id \in Ids, NEW ex \in Exacts,
                NEW otr \in Prefixed, Begin(t, o, id, ex, otr)
         PROVE  SharedType' /\ LocalType' /\ GhostType' /\ CheckedLine'
    <2>1. o \in AllOps /\ ex \in BOOLEAN /\ otr \in BOOLEAN
      BY OpsAssumption, FlagAssumption
    <2>2. SharedType'
      BY <1>17 DEF Begin, SharedType
    <2>3. LocalType' /\ CheckedLine'
      BY <1>17, <2>1, IdTypes DEF Begin, LocalType, CheckedLine, Points
    <2>4. GhostType'
      BY <1>17, <2>1 DEF Begin, GhostType, SharedType, Loadable
    <2> QED
      BY <2>2, <2>3, <2>4
  <1>18. ASSUME NEW b \in BOOLEAN, SetAltAssetsEnabled(b)
         PROVE  SharedType' /\ LocalType' /\ GhostType' /\ CheckedLine'
    BY <1>18 DEF SetAltAssetsEnabled, SharedType, LocalType, GhostType, CheckedLine
  <1>19. ASSUME NEW p \in Paths, NEW c \in Contents \union {Bad, NoFile}, Remount(p, c)
         PROVE  SharedType' /\ LocalType' /\ GhostType' /\ CheckedLine'
    BY <1>15, <1>19 DEF Remount, LocalType, CheckedLine
  <1>20. CASE UNCHANGED vars
    BY <1>20 DEF vars, SharedType, LocalType, GhostType, CheckedLine
  <1> QED
    BY <1>1, <1>2, <1>3, <1>4, <1>5, <1>6, <1>7, <1>8, <1>9, <1>10, <1>11, <1>12, <1>13,
       <1>14, <1>16, <1>17, <1>18, <1>19, <1>20 DEF Next, Load, Evict

(* Every variable keeps its type, however many threads run.                *)
THEOREM TypeCorrect == Spec => []TypeOK
  <1>1. TypeInv => TypeOK
    BY DEF TypeInv
  <1> QED
    BY <1>1, TypeInit, TypeStep, PTL DEF Spec

------------------------------------------------------------------------------
(* Why no stale object is returned: what was dirty stays dirty as long as  *)
(* it exists, so an object found clean, or built, since the operation began*)
(* was not dirty then.                                                     *)
FreshInv ==
  \A t \in Threads :
    /\ startDirty[t] \subseteq dirty
    /\ fresh[t] \notin startDirty[t]
    /\ result[t] \notin startDirty[t]
    /\ pc[t] = "commit" => line[t] \notin startDirty[t]
    /\ pc[t] = "idle" => fresh[t] = Nil

LEMMA FinishFresh ==
  ASSUME TypeOK, FreshInv, NEW t \in Threads, NEW r, r \notin startDirty[t], Finish(t, r),
         UNCHANGED startDirty, dirty \subseteq dirty'
  PROVE  FreshInv'
  BY DEF TypeOK, SharedType, LocalType, GhostType, FreshInv, Finish

LEMMA GotoFresh ==
  ASSUME TypeOK, FreshInv, NEW t \in Threads, NEW p, Goto(t, p), p # "idle",
         NEW l, line' = [line EXCEPT ![t] = l], p = "commit" => l \notin startDirty[t],
         UNCHANGED startDirty, dirty \subseteq dirty'
  PROVE  FreshInv'
  BY DEF TypeOK, SharedType, LocalType, GhostType, FreshInv, Goto

LEMMA ReturnNullFresh ==
  ASSUME TypeOK, FreshInv, NEW t \in Threads, ReturnNull(t),
         UNCHANGED startDirty, dirty \subseteq dirty'
  PROVE  FreshInv'
  <1>1. Nil \notin startDirty[t]
    BY DEF TypeOK, GhostType
  <1>2. CASE cur[t] # req[t]
    BY <1>1, <1>2 DEF ReturnNull, TypeOK, SharedType, LocalType, GhostType, FreshInv
  <1>3. CASE cur[t] = req[t]
    BY <1>1, <1>3, FinishFresh DEF ReturnNull
  <1> QED
    BY <1>2, <1>3

LEMMA FreshInit == Init => FreshInv
  BY DEF Init, FreshInv

LEMMA FreshStep == TypeOK /\ FreshInv /\ [Next]_vars => FreshInv'
  <1> SUFFICES ASSUME TypeOK, FreshInv, [Next]_vars PROVE FreshInv'
    OBVIOUS
  <1>0. \A t \in Threads : Nil \notin startDirty[t] /\ \A l : Clean(l) => l \notin startDirty[t]
    BY DEF TypeOK, GhostType, FreshInv, Clean
  <1>1. ASSUME NEW t \in Threads, StartLoad(t) PROVE FreshInv'
    BY <1>1 DEF StartLoad, FreshInv, TypeOK, LocalType, shared, ghosts
  <1>2. ASSUME NEW t \in Threads, Decide(t) PROVE FreshInv'
    BY <1>2 DEF Decide, Goto, FreshInv, TypeOK, LocalType, shared, ghosts
  <1>3. ASSUME NEW t \in Threads, LookAlt(t) PROVE FreshInv'
    BY <1>3 DEF LookAlt, Goto, FreshInv, TypeOK, LocalType, shared, ghosts
  <1>4. ASSUME NEW t \in Threads, Look(t) PROVE FreshInv'
    BY <1>4 DEF Look, Goto, FreshInv, TypeOK, LocalType, shared, ghosts
  <1>5. ASSUME NEW t \in Threads, ExamineAsync(t) PROVE FreshInv'
    <2>1. CASE Clean(line[t])
      BY <1>0, <1>5, <2>1, FinishFresh DEF ExamineAsync, shared, ghosts
    <2>2. CASE ~Clean(line[t])
      BY <1>5, <2>2 DEF ExamineAsync, FreshInv, TypeOK, LocalType, shared, ghosts
    <2> QED
      BY <2>1, <2>2
  <1>6. ASSUME NEW t \in Threads, ExamineLoad(t) PROVE FreshInv'
    <2>1. UNCHANGED <<dirty, startDirty>>
      BY <1>6 DEF ExamineLoad, shared, ghosts
    <2>2. CASE Clean(line[t])
      BY <1>0, <1>6, <2>1, <2>2, FinishFresh DEF ExamineLoad
    <2>3. CASE ReturnNull(t)
      BY <2>1, <2>3, ReturnNullFresh
    <2>4. CASE Goto(t, "read") /\ line' = [line EXCEPT ![t] = Nil]
      BY <2>1, <2>4 DEF Goto, FreshInv, TypeOK, LocalType
    <2> QED
      BY <1>6, <2>2, <2>3, <2>4 DEF ExamineLoad
  <1>7. ASSUME NEW t \in Threads, ReadFile(t) PROVE FreshInv'
    <2>1. CASE Loadable(file[Path(cur[t])])
      <3>1. PICK o \in Allocate(Objects \ Live) :
              /\ dirty' = dirty \ {o}
              /\ fresh' = [fresh EXCEPT ![t] = o]
              /\ pc' = [pc EXCEPT ![t] = "relook"]
              /\ startDirty' = [u \in Threads |-> startDirty[u] \ {o}]
              /\ UNCHANGED result
        BY <1>7, <2>1 DEF ReadFile, Build
      <3>2. UNCHANGED line
        BY <1>7 DEF ReadFile
      <3> QED
        BY <3>1, <3>2 DEF FreshInv, TypeOK, LocalType
    <2>2. CASE ~Loadable(file[Path(cur[t])])
      BY <1>7, <2>2 DEF ReadFile, Goto, FreshInv, TypeOK, LocalType, ghosts
    <2> QED
      BY <2>1, <2>2
  <1>8. ASSUME NEW t \in Threads, Miss(t) PROVE FreshInv'
    BY <1>8, ReturnNullFresh DEF Miss, ghosts
  <1>9. ASSUME NEW t \in Threads, Relook(t) PROVE FreshInv'
    BY <1>9 DEF Relook, Goto, FreshInv, TypeOK, LocalType, shared, ghosts
  <1>10. ASSUME NEW t \in Threads, Recheck(t) PROVE FreshInv'
    <2>1. (IF Clean(line[t]) THEN line[t] ELSE Nil) \notin startDirty[t]
      BY <1>0
    <2>2. UNCHANGED <<dirty, startDirty>>
      BY <1>10 DEF Recheck, shared, ghosts
    <2> QED
      BY <1>10, <2>1, <2>2, GotoFresh DEF Recheck
  <1>11. ASSUME NEW t \in Threads, Commit(t) PROVE FreshInv'
    <2> DEFINE resource == IF line[t] # Nil THEN line[t] ELSE fresh[t]
    <2>1. resource \notin startDirty[t]
      BY <1>11 DEF Commit, FreshInv
    <2>2. UNCHANGED <<dirty, startDirty>>
      BY <1>11 DEF Commit, ghosts
    <2> QED
      BY <1>11, <2>1, <2>2, FinishFresh, ReturnNullFresh DEF Commit
  <1>12. ASSUME NEW t \in Threads, ExamineDirty(t) PROVE FreshInv'
    <2>1. UNCHANGED startDirty /\ dirty \subseteq dirty'
      BY <1>12 DEF ExamineDirty, ghosts
    <2> QED
      BY <1>0, <1>12, <2>1, FinishFresh, GotoFresh DEF ExamineDirty
  <1>13. ASSUME NEW t \in Threads, Contains(t) PROVE FreshInv'
    <2>1. UNCHANGED <<dirty, startDirty>>
      BY <1>13 DEF Contains, shared, ghosts
    <2>2. CASE cache[cur[t]] # NotCached
      BY <1>13, <2>2 DEF Contains, Goto, FreshInv, TypeOK, LocalType, shared, ghosts
    <2>3. CASE cache[cur[t]] = NotCached
      BY <1>0, <1>13, <2>1, <2>3, FinishFresh DEF Contains
    <2> QED
      BY <2>2, <2>3
  <1>14. ASSUME NEW t \in Threads, Erase(t) PROVE FreshInv'
    BY <1>0, <1>14, FinishFresh DEF Erase, ghosts
  <1>15. ASSUME NEW t \in Threads, NEW c \in Contents, NEW u \in Unloading, Write(t, c, u)
         PROVE  FreshInv'
    <2>1. UNCHANGED <<dirty, startDirty>>
      BY <1>15 DEF Write
    <2>2. CASE Finish(t, Nil)
      BY <1>0, <2>1, <2>2, FinishFresh
    <2>3. CASE Goto(t, "contains") /\ UNCHANGED line
      BY <2>1, <2>3 DEF Goto, FreshInv, TypeOK, LocalType
    <2> QED
      BY <1>15, <2>2, <2>3 DEF Write
  <1>16. ASSUME NEW t \in Threads, NEW o \in Ops, NEW id \in Ids, NEW ex \in Exacts,
                NEW otr \in Prefixed, Begin(t, o, id, ex, otr)
         PROVE  FreshInv'
    <2>1. dirty \subseteq Objects
      BY DEF TypeOK, SharedType
    <2>2. pc'[t] \notin {"commit", "idle"} /\ \A u \in Threads \ {t} : pc'[u] = pc[u]
      BY <1>16 DEF Begin, TypeOK, LocalType
    <2> QED
      BY <1>16, <2>1, <2>2 DEF Begin, FreshInv, TypeOK, LocalType, GhostType
  <1>17. ASSUME NEW b \in BOOLEAN, SetAltAssetsEnabled(b) PROVE FreshInv'
    BY <1>17 DEF SetAltAssetsEnabled, FreshInv
  <1>18. ASSUME NEW p \in Paths, NEW c \in Contents \union {Bad, NoFile}, Remount(p, c)
         PROVE  FreshInv'
    BY <1>18 DEF Remount, FreshInv
  <1>19. CASE UNCHANGED vars
    BY <1>19 DEF vars, FreshInv
  <1> QED
    BY <1>1, <1>2, <1>3, <1>4, <1>5, <1>6, <1>7, <1>8, <1>9, <1>10, <1>11, <1>12, <1>13,
       <1>14, <1>15, <1>16, <1>17, <1>18, <1>19 DEF Next, Load, Evict

(* No load, by any number of threads, answers with an object that was      *)
(* dirty before the load began.                                            *)
THEOREM NoStaleReturnHolds == Spec => []NoStaleReturn
  <1>1. FreshInv => NoStaleReturn
    BY DEF FreshInv, NoStaleReturn
  <1> QED
    BY <1>1, TypeCorrect, FreshInit, FreshStep, PTL DEF Spec

------------------------------------------------------------------------------
(* Why the cache is keyed correctly: the object a thread has built, or     *)
(* found by the second check, was made for the identifier it works on, and *)
(* an address in use is not built upon.                                    *)
KeyInv ==
  /\ CacheKeyed
  /\ \A t \in Threads :
       /\ fresh[t] # Nil => ident[fresh[t]] = cur[t]
       /\ pc[t] \in {"recheck", "commit"} /\ line[t] \in Objects => ident[line[t]] = cur[t]
       /\ pc[t] \notin {"relook", "recheck", "commit"} => fresh[t] = Nil

LEMMA KeyInit == Init => KeyInv
  BY DEF Init, KeyInv, CacheKeyed

(* Steps that leave cache and ident alone and only move the thread on.     *)
LEMMA FinishKey ==
  ASSUME TypeOK, KeyInv, NEW t \in Threads, NEW r, Finish(t, r), CacheKeyed', UNCHANGED ident
  PROVE  KeyInv'
  BY DEF TypeOK, LocalType, KeyInv, Finish

LEMMA ReturnNullKey ==
  ASSUME TypeOK, KeyInv, NEW t \in Threads, ReturnNull(t), CacheKeyed', UNCHANGED ident
  PROVE  KeyInv'
  <1>1. CASE cur[t] # req[t]
    BY <1>1 DEF ReturnNull, TypeOK, LocalType, KeyInv
  <1>2. CASE cur[t] = req[t]
    BY <1>2, FinishKey DEF ReturnNull
  <1> QED
    BY <1>1, <1>2

LEMMA KeyStep == TypeOK /\ KeyInv /\ [Next]_vars => KeyInv'
  <1> SUFFICES ASSUME TypeOK, KeyInv, [Next]_vars PROVE KeyInv'
    OBVIOUS
  <1>0. ASSUME UNCHANGED <<cache, ident>> PROVE CacheKeyed'
    BY <1>0 DEF KeyInv, CacheKeyed
  <1>1. ASSUME NEW t \in Threads, StartLoad(t) PROVE KeyInv'
    BY <1>0, <1>1 DEF StartLoad, KeyInv, TypeOK, LocalType, shared
  <1>2. ASSUME NEW t \in Threads, Decide(t) PROVE KeyInv'
    BY <1>0, <1>2 DEF Decide, Goto, KeyInv, TypeOK, LocalType, shared
  <1>3. ASSUME NEW t \in Threads, LookAlt(t) PROVE KeyInv'
    BY <1>0, <1>3 DEF LookAlt, Goto, KeyInv, TypeOK, LocalType, shared
  <1>4. ASSUME NEW t \in Threads, Look(t) PROVE KeyInv'
    BY <1>0, <1>4 DEF Look, Goto, KeyInv, TypeOK, LocalType, shared
  <1>5. ASSUME NEW t \in Threads, ExamineAsync(t) PROVE KeyInv'
    <2>1. CASE Clean(line[t])
      BY <1>0, <1>5, <2>1, FinishKey DEF ExamineAsync, shared
    <2>2. CASE ~Clean(line[t])
      BY <1>0, <1>5, <2>2 DEF ExamineAsync, KeyInv, TypeOK, LocalType, shared
    <2> QED
      BY <2>1, <2>2
  <1>6. ASSUME NEW t \in Threads, ExamineLoad(t) PROVE KeyInv'
    <2>1. CacheKeyed' /\ UNCHANGED ident
      BY <1>0, <1>6 DEF ExamineLoad, shared
    <2>2. CASE Clean(line[t])
      BY <1>6, <2>1, <2>2, FinishKey DEF ExamineLoad
    <2>3. CASE ReturnNull(t)
      BY <2>1, <2>3, ReturnNullKey
    <2>4. CASE Goto(t, "read") /\ line' = [line EXCEPT ![t] = Nil]
      BY <1>6, <2>1, <2>4 DEF ExamineLoad, Goto, KeyInv, TypeOK, LocalType
    <2> QED
      BY <1>6, <2>2, <2>3, <2>4 DEF ExamineLoad
  <1>7. ASSUME NEW t \in Threads, ReadFile(t) PROVE KeyInv'
    <2>1. CASE Loadable(file[Path(cur[t])])
      <3>1. PICK o \in Allocate(Objects \ Live) :
              /\ ident' = [ident EXCEPT ![o] = cur[t]]
              /\ fresh' = [fresh EXCEPT ![t] = o]
              /\ pc' = [pc EXCEPT ![t] = "relook"]
              /\ UNCHANGED cur
        BY <1>7, <2>1 DEF ReadFile, Build
      <3>2. UNCHANGED <<cache, line>>
        BY <1>7 DEF ReadFile
      <3>3. o \in Objects /\ o \notin Live
        BY AllocateAssumption
      <3>4. /\ \A id \in Ids : cache[id] # o
            /\ \A u \in Threads : line[u] # o /\ fresh[u] # o
        BY <3>3 DEF Live
      <3>5. CacheKeyed'
        BY <3>1, <3>2, <3>3, <3>4 DEF CacheKeyed, KeyInv, TypeOK, SharedType
      <3> QED
        BY <3>1, <3>2, <3>3, <3>4, <3>5 DEF KeyInv, TypeOK, SharedType, LocalType
    <2>2. CASE ~Loadable(file[Path(cur[t])])
      <3>1. CacheKeyed'
        BY <1>0, <1>7, <2>2 DEF ReadFile
      <3> QED
        BY <1>7, <2>2, <3>1 DEF ReadFile, Goto, KeyInv, TypeOK, LocalType
    <2> QED
      BY <2>1, <2>2
  <1>8. ASSUME NEW t \in Threads, Miss(t) PROVE KeyInv'
    <2>1. CacheKeyed'
      BY <1>8 DEF Miss, KeyInv, CacheKeyed, TypeOK, SharedType
    <2> QED
      BY <1>8, <2>1, ReturnNullKey DEF Miss
  <1>9. ASSUME NEW t \in Threads, Relook(t) PROVE KeyInv'
    <2>1. cur[t] \in Ids
      BY DEF TypeOK, LocalType
    <2> QED
      BY <1>0, <1>9, <2>1 DEF Relook, Goto, KeyInv, CacheKeyed, TypeOK, LocalType, shared
  <1>10. ASSUME NEW t \in Threads, Recheck(t) PROVE KeyInv'
    BY <1>0, <1>10 DEF Recheck, Goto, KeyInv, TypeOK, LocalType, shared
  <1>11. ASSUME NEW t \in Threads, Commit(t) PROVE KeyInv'
    <2> DEFINE resource == IF line[t] # Nil THEN line[t] ELSE fresh[t]
    <2>1. resource \in Objects => ident[resource] = cur[t]
      BY <1>11 DEF Commit, KeyInv, TypeOK, LocalType, Lines
    <2>2. CacheKeyed' /\ UNCHANGED ident
      BY <1>11, <2>1 DEF Commit, KeyInv, CacheKeyed, TypeOK, SharedType
    <2> QED
      BY <1>11, <2>2, FinishKey, ReturnNullKey DEF Commit
  <1>12. ASSUME NEW t \in Threads, ExamineDirty(t) PROVE KeyInv'
    <2>1. CacheKeyed' /\ UNCHANGED ident
      BY <1>0, <1>12 DEF ExamineDirty
    <2>2. CASE Finish(t, Nil)
      BY <2>1, <2>2, FinishKey
    <2>3. CASE Goto(t, "contains") /\ line' = [line EXCEPT ![t] = Nil]
      BY <1>12, <2>1, <2>3 DEF ExamineDirty, Goto, KeyInv, TypeOK, LocalType
    <2> QED
      BY <1>12, <2>2, <2>3 DEF ExamineDirty
  <1>13. ASSUME NEW t \in Threads, Contains(t) PROVE KeyInv'
    <2>1. CacheKeyed' /\ UNCHANGED ident
      BY <1>0, <1>13 DEF Contains, shared
    <2>2. CASE cache[cur[t]] # NotCached
      BY <1>13, <2>1, <2>2 DEF Contains, Goto, KeyInv, TypeOK, LocalType
    <2>3. CASE cache[cur[t]] = NotCached
      BY <1>13, <2>1, <2>3, FinishKey DEF Contains
    <2> QED
      BY <2>2, <2>3
  <1>14. ASSUME NEW t \in Threads, Erase(t) PROVE KeyInv'
    <2>1. CacheKeyed'
      BY <1>14 DEF Erase, KeyInv, CacheKeyed, TypeOK, SharedType
    <2> QED
      BY <1>14, <2>1, FinishKey DEF Erase
  <1>15. ASSUME NEW t \in Threads, NEW c \in Contents, NEW u \in Unloading, Write(t, c, u)
         PROVE  KeyInv'
    <2>1. CacheKeyed' /\ UNCHANGED ident
      BY <1>0, <1>15 DEF Write
    <2>2. CASE Finish(t, Nil)
      BY <2>1, <2>2, FinishKey
    <2>3. CASE Goto(t, "contains") /\ UNCHANGED line
      BY <1>15, <2>1, <2>3 DEF Write, Goto, KeyInv, TypeOK, LocalType
    <2> QED
      BY <1>15, <2>2, <2>3 DEF Write
  <1>16. ASSUME NEW t \in Threads, NEW o \in Ops, NEW id \in Ids, NEW ex \in Exacts,
                NEW otr \in Prefixed, Begin(t, o, id, ex, otr)
         PROVE  KeyInv'
    <2>1. CacheKeyed' /\ UNCHANGED <<ident, line, fresh>>
      BY <1>0, <1>16 DEF Begin
    <2>2. pc'[t] \notin {"recheck", "commit"} /\ fresh[t] = Nil
      BY <1>16 DEF Begin, KeyInv, TypeOK, LocalType
    <2>3. \A u \in Threads \ {t} : pc'[u] = pc[u] /\ cur'[u] = cur[u]
      BY <1>16 DEF Begin, TypeOK, LocalType
    <2> QED
      BY <2>1, <2>2, <2>3 DEF KeyInv
  <1>17. ASSUME NEW b \in BOOLEAN, SetAltAssetsEnabled(b) PROVE KeyInv'
    BY <1>0, <1>17 DEF SetAltAssetsEnabled, KeyInv
  <1>18. ASSUME NEW p \in Paths, NEW c \in Contents \union {Bad, NoFile}, Remount(p, c)
         PROVE  KeyInv'
    BY <1>0, <1>18 DEF Remount, KeyInv
  <1>19. CASE UNCHANGED vars
    BY <1>0, <1>19 DEF vars, KeyInv
  <1> QED
    BY <1>1, <1>2, <1>3, <1>4, <1>5, <1>6, <1>7, <1>8, <1>9, <1>10, <1>11, <1>12, <1>13,
       <1>14, <1>15, <1>16, <1>17, <1>18, <1>19 DEF Next, Load, Evict

(* No interleaving of loads, unloads, dirtying and alternate look-ups puts *)
(* an object under an identifier it was not built for.                     *)
THEOREM CacheKeyedHolds == Spec => []CacheKeyed
  <1>1. KeyInv => CacheKeyed
    BY DEF KeyInv
  <1> QED
    BY <1>1, TypeCorrect, KeyInit, KeyStep, PTL DEF Spec

------------------------------------------------------------------------------
(* Why a load answers with its own asset or an alternate it may have: the  *)
(* identifier it works on is one of the two, and so is that of the line it *)
(* examines.  A prefixed path makes LoadResourceProcess forget loadExact.  *)
Allowed(t, id) == id = req[t] \/ (id = Alt(req[t]) /\ altSeen[t] /\ ~asked[t])

AnswerInv ==
  \A t \in Threads :
    /\ exact[t] = asked[t]
    /\ altOn /\ pc[t] # "idle" => altSeen[t]
    /\ pc[t] \notin {"idle", "contains", "erase"} => Allowed(t, cur[t])
    /\ pc[t] = "lookAlt" => cur[t] = req[t] /\ altSeen[t] /\ ~asked[t]
    /\ pc[t] = "examine" /\ line[t] \in Objects => Allowed(t, ident[line[t]])
    /\ result[t] # Nil => Allowed(t, ident[result[t]])

LEMMA AnswerInit == Init => AnswerInv
  BY DEF Init, AnswerInv

(* The three ways a step moves a thread on keep it.                        *)
LEMMA FinishAnswer ==
  ASSUME TypeOK, AnswerInv, NEW t \in Threads, NEW r, r # Nil => Allowed(t, ident[r]), Finish(t, r),
         UNCHANGED <<ident, altOn, asked, altSeen>>
  PROVE  AnswerInv'
  BY DEF TypeOK, LocalType, AnswerInv, Allowed, Finish

LEMMA GotoAnswer ==
  ASSUME TypeOK, AnswerInv, NEW t \in Threads, pc[t] # "idle", NEW p, Goto(t, p),
         NEW l, line' = [line EXCEPT ![t] = l],
         p \notin {"contains", "erase"} => Allowed(t, cur[t]),
         p = "lookAlt" => cur[t] = req[t] /\ altSeen[t] /\ ~asked[t],
         p = "examine" /\ l \in Objects => Allowed(t, ident[l]),
         UNCHANGED <<ident, altOn, asked, altSeen>>
  PROVE  AnswerInv'
  BY DEF TypeOK, LocalType, AnswerInv, Allowed, Goto

(* Where its line does not matter.                                         *)
LEMMA GotoOnAnswer ==
  ASSUME TypeOK, AnswerInv, NEW t \in Threads, pc[t] # "idle",
         NEW p \in {"look", "read", "miss", "relook", "recheck", "commit", "contains", "erase"}, Goto(t, p),
         NEW l, line' = [line EXCEPT ![t] = l],
         Allowed(t, cur[t]) \/ p \in {"contains", "erase"},
         UNCHANGED <<ident, altOn, asked, altSeen>>
  PROVE  AnswerInv'
  BY DEF TypeOK, LocalType, AnswerInv, Allowed, Goto

LEMMA GotoExamineAnswer ==
  ASSUME TypeOK, AnswerInv, NEW t \in Threads, pc[t] # "idle", Goto(t, "examine"),
         NEW l, line' = [line EXCEPT ![t] = l],
         Allowed(t, cur[t]), l \in Objects => Allowed(t, ident[l]),
         UNCHANGED <<ident, altOn, asked, altSeen>>
  PROVE  AnswerInv'
  BY DEF TypeOK, LocalType, AnswerInv, Allowed, Goto

LEMMA ReturnNullAnswer ==
  ASSUME TypeOK, AnswerInv, NEW t \in Threads, pc[t] # "idle", ReturnNull(t),
         UNCHANGED <<ident, altOn, asked, altSeen>>
  PROVE  AnswerInv'
  <1>1. CASE cur[t] # req[t]
    BY <1>1 DEF ReturnNull, TypeOK, LocalType, AnswerInv, Allowed
  <1>2. CASE cur[t] = req[t]
    BY <1>2, FinishAnswer DEF ReturnNull
  <1> QED
    BY <1>1, <1>2

LEMMA LineIsKept == ASSUME TypeOK, NEW t \in Threads, UNCHANGED line PROVE line' = [line EXCEPT ![t] = line[t]]
  BY DEF TypeOK, LocalType

LEMMA AnswerStep ==
  ASSUME Prefixed \subseteq {FALSE}
  PROVE  TypeInv /\ KeyInv /\ AnswerInv /\ [Next]_vars => AnswerInv'
  <1> SUFFICES ASSUME TypeOK, CheckedLine, KeyInv, AnswerInv, [Next]_vars PROVE AnswerInv'
    BY DEF TypeInv
  <1>1. ASSUME NEW t \in Threads, StartLoad(t) PROVE AnswerInv'
    <2>1. UNCHANGED <<ident, altOn, asked, altSeen, req, exact, line, result>> /\ pc[t] = "start"
      BY <1>1 DEF StartLoad, shared, ghosts
    <2>2. pc' = [pc EXCEPT ![t] = "decide"]
      BY <1>1 DEF StartLoad
    <2>3. cur' = cur \/ (cur' = [cur EXCEPT ![t] = Alt(req[t])] /\ ~exact[t] /\ altOn)
      BY <1>1 DEF StartLoad
    <2>4. Allowed(t, Alt(req[t])) \/ cur' = cur
      BY <2>1, <2>3 DEF AnswerInv, Allowed
    <2> QED
      BY <2>1, <2>2, <2>3, <2>4 DEF TypeOK, LocalType, AnswerInv, Allowed
  <1>2. ASSUME NEW t \in Threads, Decide(t) PROVE AnswerInv'
    <2> DEFINE p == IF ~exact[t] /\ altOn /\ ~cur[t].alt THEN "lookAlt" ELSE "look"
    <2>1. pc[t] = "decide" /\ Goto(t, p) /\ UNCHANGED <<ident, altOn, asked, altSeen, line>>
      BY <1>2 DEF Decide, shared, ghosts
    <2>2. Allowed(t, cur[t])
      BY <2>1 DEF AnswerInv
    <2>3. ASSUME p = "lookAlt" PROVE cur[t] = req[t] /\ altSeen[t] /\ ~asked[t]
      <3>1. Alt(req[t]).alt = TRUE
        BY DEF Alt, Ids, TypeOK, LocalType
      <3> QED
        BY <2>1, <2>2, <2>3, <3>1 DEF AnswerInv, Allowed
    <2>4. p \notin {"idle", "contains", "erase", "examine"}
      OBVIOUS
    <2> HIDE DEF p
    <2> QED
      BY <2>1, <2>2, <2>3, <2>4, GotoAnswer, LineIsKept
  <1>3. ASSUME NEW t \in Threads, LookAlt(t) PROVE AnswerInv'
    <2> DEFINE found == cache[Alt(cur[t])]
    <2>1. UNCHANGED <<ident, altOn, asked, altSeen>> /\ pc[t] = "lookAlt"
      BY <1>3 DEF LookAlt, shared, ghosts
    <2>2. Allowed(t, cur[t]) /\ Allowed(t, Alt(cur[t])) /\ Alt(cur[t]) \in Ids
      BY <2>1, IdTypes DEF AnswerInv, Allowed, TypeOK, LocalType
    <2>3. CASE found \in Objects
      <3>1. Allowed(t, ident[found])
        BY <2>2, <2>3 DEF KeyInv, CacheKeyed
      <3>2. Goto(t, "examine") /\ line' = [line EXCEPT ![t] = found]
        BY <1>3, <2>3 DEF LookAlt
      <3> QED
        BY <2>1, <2>2, <3>1, <3>2, GotoExamineAnswer
    <2>4. CASE found \notin Objects
      BY <1>3, <2>1, <2>2, <2>4, GotoOnAnswer, LineIsKept DEF LookAlt
    <2> QED
      BY <2>3, <2>4
  <1>4. ASSUME NEW t \in Threads, Look(t) PROVE AnswerInv'
    <2>1. UNCHANGED <<ident, altOn, asked, altSeen>> /\ pc[t] = "look"
      BY <1>4 DEF Look, shared, ghosts
    <2>2. Allowed(t, cur[t]) /\ cur[t] \in Ids
      BY <2>1 DEF AnswerInv, TypeOK, LocalType
    <2>3. cache[cur[t]] \in Objects => ident[cache[cur[t]]] = cur[t]
      BY <2>2 DEF KeyInv, CacheKeyed
    <2> QED
      BY <1>4, <2>1, <2>2, <2>3, GotoExamineAnswer DEF Look
  <1>5. ASSUME NEW t \in Threads, ExamineAsync(t) PROVE AnswerInv'
    <2>1. UNCHANGED <<ident, altOn, asked, altSeen>> /\ pc[t] = "examine"
      BY <1>5 DEF ExamineAsync, shared, ghosts
    <2>2. CASE Clean(line[t])
      <3>1. Allowed(t, ident[line[t]])
        BY <2>1, <2>2 DEF AnswerInv, Clean
      <3> QED
        BY <1>5, <2>1, <2>2, <3>1, FinishAnswer DEF ExamineAsync
    <2>3. CASE ~Clean(line[t])
      BY <1>5, <2>1, <2>3 DEF ExamineAsync, TypeOK, LocalType, AnswerInv, Allowed
    <2> QED
      BY <2>2, <2>3
  <1>6. ASSUME NEW t \in Threads, ExamineLoad(t) PROVE AnswerInv'
    <2>1. UNCHANGED <<ident, altOn, asked, altSeen>> /\ pc[t] = "examine" /\ Allowed(t, cur[t])
      BY <1>6 DEF ExamineLoad, shared, ghosts, AnswerInv
    <2>2. CASE Clean(line[t])
      <3>1. Allowed(t, ident[line[t]])
        BY <2>1, <2>2 DEF AnswerInv, Clean
      <3> QED
        BY <1>6, <2>1, <2>2, <3>1, FinishAnswer DEF ExamineLoad
    <2>3. CASE ReturnNull(t)
      BY <2>1, <2>3, ReturnNullAnswer
    <2>4. CASE Goto(t, "read") /\ line' = [line EXCEPT ![t] = Nil]
      BY <2>1, <2>4, GotoOnAnswer
    <2> QED
      BY <1>6, <2>2, <2>3, <2>4 DEF ExamineLoad
  <1>7. ASSUME NEW t \in Threads, ReadFile(t) PROVE AnswerInv'
    <2>0. pc[t] = "read" /\ UNCHANGED <<altOn, line>> /\ Allowed(t, cur[t])
      BY <1>7 DEF ReadFile, AnswerInv
    <2>1. CASE Loadable(file[Path(cur[t])])
      <3>1. PICK o \in Allocate(Objects \ Live) :
              /\ ident' = [ident EXCEPT ![o] = cur[t]]
              /\ pc' = [pc EXCEPT ![t] = "relook"]
              /\ UNCHANGED <<req, exact, cur, result, asked, altSeen>>
        BY <1>7, <2>1 DEF ReadFile, Build
      <3>2. o \in Objects /\ o \notin Live
        BY AllocateAssumption
      <3>3. \A u \in Threads : line[u] # o /\ result[u] # o
        BY <3>2 DEF Live
      <3>4. \A x \in Objects : x # o => ident'[x] = ident[x]
        BY <3>1 DEF TypeOK, SharedType
      <3>5. \A u \in Threads : result[u] # Nil => ident'[result[u]] = ident[result[u]]
        BY <3>3, <3>4 DEF TypeOK, LocalType
      <3>6. \A u \in Threads : line[u] \in Objects => ident'[line[u]] = ident[line[u]]
        BY <3>3, <3>4
      <3> QED
        BY <2>0, <3>1, <3>5, <3>6 DEF TypeOK, LocalType, AnswerInv, Allowed
    <2>2. CASE ~Loadable(file[Path(cur[t])])
      <3>1. UNCHANGED <<ident, asked, altSeen>>
        BY <1>7, <2>2 DEF ReadFile, ghosts
      <3>2. Goto(t, "miss") \/ Goto(t, "relook")
        BY <1>7, <2>2 DEF ReadFile
      <3> QED
        BY <2>0, <3>1, <3>2, GotoOnAnswer, LineIsKept
    <2> QED
      BY <2>1, <2>2
  <1>8. ASSUME NEW t \in Threads, Miss(t) PROVE AnswerInv'
    BY <1>8, ReturnNullAnswer DEF Miss, ghosts
  <1>9. ASSUME NEW t \in Threads, Relook(t) PROVE AnswerInv'
    <2>1. UNCHANGED <<ident, altOn, asked, altSeen>> /\ pc[t] = "relook" /\ Allowed(t, cur[t])
      BY <1>9 DEF Relook, shared, ghosts, AnswerInv
    <2> QED
      BY <1>9, <2>1, GotoOnAnswer DEF Relook
  <1>10. ASSUME NEW t \in Threads, Recheck(t) PROVE AnswerInv'
    <2>1. UNCHANGED <<ident, altOn, asked, altSeen>> /\ pc[t] = "recheck" /\ Allowed(t, cur[t])
      BY <1>10 DEF Recheck, shared, ghosts, AnswerInv
    <2> QED
      BY <1>10, <2>1, GotoOnAnswer DEF Recheck
  <1>11. ASSUME NEW t \in Threads, Commit(t) PROVE AnswerInv'
    <2> DEFINE resource == IF line[t] # Nil THEN line[t] ELSE fresh[t]
    <2>1. UNCHANGED <<ident, altOn, asked, altSeen>> /\ pc[t] = "commit" /\ Allowed(t, cur[t])
      BY <1>11 DEF Commit, ghosts, AnswerInv
    <2>2. CASE resource # Nil
      <3>1. line[t] \in Objects \union {Nil}
        BY <2>1 DEF CheckedLine
      <3>2. ident[resource] = cur[t]
        BY <2>1, <2>2, <3>1 DEF KeyInv
      <3> QED
        BY <1>11, <2>1, <2>2, <3>2, FinishAnswer DEF Commit
    <2>3. CASE resource = Nil
      BY <1>11, <2>1, <2>3, ReturnNullAnswer DEF Commit
    <2> QED
      BY <2>2, <2>3
  <1>12. ASSUME NEW t \in Threads, ExamineDirty(t) PROVE AnswerInv'
    <2>1. UNCHANGED <<ident, altOn, asked, altSeen>> /\ pc[t] = "examine"
      BY <1>12 DEF ExamineDirty, ghosts
    <2>2. CASE Finish(t, Nil)
      BY <2>1, <2>2, FinishAnswer
    <2>3. CASE Goto(t, "contains") /\ line' = [line EXCEPT ![t] = Nil]
      BY <2>1, <2>3, GotoOnAnswer
    <2> QED
      BY <1>12, <2>2, <2>3 DEF ExamineDirty
  <1>13. ASSUME NEW t \in Threads, Contains(t) PROVE AnswerInv'
    <2>1. UNCHANGED <<ident, altOn, asked, altSeen>> /\ pc[t] = "contains"
      BY <1>13 DEF Contains, shared, ghosts
    <2>2. CASE Finish(t, Nil)
      BY <2>1, <2>2, FinishAnswer
    <2>3. CASE Goto(t, "erase") /\ UNCHANGED line
      BY <2>1, <2>3, GotoOnAnswer, LineIsKept
    <2> QED
      BY <1>13, <2>2, <2>3 DEF Contains
  <1>14. ASSUME NEW t \in Threads, Erase(t) PROVE AnswerInv'
    BY <1>14, FinishAnswer DEF Erase, ghosts
  <1>15. ASSUME NEW t \in Threads, NEW c \in Contents, NEW u \in Unloading, Write(t, c, u)
         PROVE  AnswerInv'
    <2>1. UNCHANGED <<ident, altOn, asked, altSeen>> /\ pc[t] = "start"
      BY <1>15 DEF Write
    <2>2. CASE Finish(t, Nil)
      BY <2>1, <2>2, FinishAnswer
    <2>3. CASE Goto(t, "contains") /\ UNCHANGED line
      BY <2>1, <2>3, GotoOnAnswer, LineIsKept
    <2> QED
      BY <1>15, <2>2, <2>3 DEF Write
  <1>16. ASSUME NEW t \in Threads, NEW o \in Ops, NEW id \in Ids, NEW ex \in Exacts,
                NEW otr \in Prefixed, Begin(t, o, id, ex, otr)
         PROVE  AnswerInv'
    <2>1. /\ req' = [req EXCEPT ![t] = id] /\ exact' = [exact EXCEPT ![t] = ex]
          /\ asked' = [asked EXCEPT ![t] = ex] /\ altSeen' = [altSeen EXCEPT ![t] = altOn]
          /\ result' = [result EXCEPT ![t] = Nil] /\ UNCHANGED <<ident, altOn, line>>
      <3>1. ex \in BOOLEAN /\ ~otr
        BY FlagAssumption
      <3> QED
        BY <1>16, <3>1, Zenon DEF Begin
    <2>2. DEFINE point == CASE o \in {"async", "dirty"} -> "decide"
                            [] o \in {"unload", "unloadMask"} -> "contains"
                            [] OTHER -> "start"
    <2>3. pc' = [pc EXCEPT ![t] = point] /\ point \in {"decide", "contains", "start"}
      BY <1>16 DEF Begin
    <2>4. cur' = [cur EXCEPT ![t] = id] \/ point = "contains"
      BY <1>16 DEF Begin
    <2>5. \A u \in Threads \ {t} : cur'[u] = cur[u]
      BY <1>16 DEF Begin, TypeOK, LocalType
    <2> HIDE DEF point
    <2>6. /\ exact'[t] = asked'[t] /\ (altOn => altSeen'[t]) /\ result'[t] = Nil
          /\ pc'[t] \notin {"contains", "erase"} => Allowed(t, cur[t])'
          /\ pc'[t] \notin {"lookAlt", "examine"}
      BY <2>1, <2>3, <2>4 DEF TypeOK, LocalType, GhostType, Allowed
    <2>7. \A u \in Threads \ {t} :
            /\ pc'[u] = pc[u] /\ req'[u] = req[u] /\ exact'[u] = exact[u] /\ asked'[u] = asked[u]
            /\ altSeen'[u] = altSeen[u] /\ result'[u] = result[u]
      BY <2>1, <2>3 DEF TypeOK, LocalType, GhostType
    <2> QED
      BY <2>1, <2>5, <2>6, <2>7 DEF AnswerInv, Allowed
  <1>17. ASSUME NEW b \in BOOLEAN, SetAltAssetsEnabled(b) PROVE AnswerInv'
    BY <1>17 DEF SetAltAssetsEnabled, AnswerInv, Allowed, TypeOK, GhostType
  <1>18. ASSUME NEW p \in Paths, NEW c \in Contents \union {Bad, NoFile}, Remount(p, c)
         PROVE  AnswerInv'
    BY <1>18 DEF Remount, AnswerInv, Allowed
  <1>19. CASE UNCHANGED vars
    BY <1>19 DEF vars, AnswerInv, Allowed
  <1> QED
    BY <1>1, <1>2, <1>3, <1>4, <1>5, <1>6, <1>7, <1>8, <1>9, <1>10, <1>11, <1>12, <1>13,
       <1>14, <1>15, <1>16, <1>17, <1>18, <1>19 DEF Next, Load, Evict

(* A load answers with the asset it was asked for, or with its alternate   *)
(* if alternates were on at some time and the caller may have one, as long *)
(* as no path is prefixed: LoadResourceProcess drops loadExact with it.    *)
THEOREM ResultIdentityHolds ==
  ASSUME Prefixed \subseteq {FALSE}
  PROVE  Spec => []ResultIdentity
  <1>1. AnswerInv => ResultIdentity
    BY DEF AnswerInv, Allowed, ResultIdentity
  <1>2. TypeInv /\ KeyInv /\ AnswerInv /\ [Next]_vars => AnswerInv'
    BY AnswerStep
  <1>3. TypeInv => TypeOK
    BY DEF TypeInv
  <1> QED
    BY <1>1, <1>2, <1>3, TypeInit, TypeStep, KeyInit, KeyStep, AnswerInit, PTL DEF Spec

------------------------------------------------------------------------------
(* Why nullptr means that a file was missing: only a load of its own asset *)
(* whose file could not be loaded when it was read gives up without one.   *)
MissInv ==
  \A t \in Threads :
    /\ goodFile[t] => Loadable(file[Path(req[t])])
    /\ pc[t] \in {"contains", "erase"} => op[t] \notin Loads
    /\ pc[t] = "miss" /\ cur[t] = req[t] => ~goodFile[t]
    /\ pc[t] \in {"relook", "recheck", "commit"} /\ cur[t] = req[t] /\ fresh[t] = Nil => ~goodFile[t]
    /\ pc[t] = "idle" /\ op[t] \in Loads /\ ~req[t].alt /\ goodFile[t] => result[t] # Nil

LEMMA MissInit == Init => MissInv
  BY DEF Init, MissInv

(* No step makes a file good again for a load that has begun.              *)
GoodKept == \A u \in Threads : goodFile'[u] => goodFile[u] /\ Loadable(file'[Path(req[u])])

LEMMA SameFiles == ASSUME MissInv, UNCHANGED <<file, goodFile>> PROVE GoodKept
  BY DEF MissInv, GoodKept

LEMMA ChangedFile ==
  ASSUME TypeOK, MissInv, NEW p \in Paths, NEW c, ChangeFile(p, c)
  PROVE  GoodKept
  <1>1. \A u \in Threads : Path(req[u]) \in Paths
    BY IdTypes DEF TypeOK, LocalType
  <1> QED
    BY <1>1 DEF ChangeFile, GoodKept, MissInv, TypeOK, SharedType

LEMMA FinishMiss ==
  ASSUME TypeOK, MissInv, NEW t \in Threads, NEW r, Finish(t, r), GoodKept,
         r # Nil \/ op[t] \notin Loads \/ req[t].alt \/ ~goodFile[t]
  PROVE  MissInv'
  BY DEF TypeOK, LocalType, MissInv, GoodKept, Finish

LEMMA ReturnNullMiss ==
  ASSUME TypeOK, MissInv, NEW t \in Threads, ReturnNull(t), GoodKept,
         cur[t] = req[t] => req[t].alt \/ ~goodFile[t]
  PROVE  MissInv'
  <1>1. CASE cur[t] # req[t]
    BY <1>1 DEF ReturnNull, TypeOK, LocalType, MissInv, GoodKept
  <1>2. CASE cur[t] = req[t]
    BY <1>2, FinishMiss DEF ReturnNull
  <1> QED
    BY <1>1, <1>2

LEMMA GotoMiss ==
  ASSUME TypeOK, MissInv, NEW t \in Threads, NEW p \in {"lookAlt", "look", "examine", "read"},
         Goto(t, p), GoodKept
  PROVE  MissInv'
  BY DEF TypeOK, LocalType, MissInv, GoodKept, Goto

LEMMA GotoUnloadMiss ==
  ASSUME TypeOK, MissInv, NEW t \in Threads, NEW p \in {"contains", "erase"},
         Goto(t, p), GoodKept, op[t] \notin Loads
  PROVE  MissInv'
  BY DEF TypeOK, LocalType, MissInv, GoodKept, Goto

LEMMA GotoStoreMiss ==
  ASSUME TypeOK, MissInv, NEW t \in Threads, NEW p \in {"miss", "relook", "recheck", "commit"},
         Goto(t, p), GoodKept,
         cur[t] = req[t] /\ (fresh[t] = Nil \/ p = "miss") => ~goodFile[t]
  PROVE  MissInv'
  BY DEF TypeOK, LocalType, MissInv, GoodKept, Goto

LEMMA MissStep == TypeInv /\ KeyInv /\ MissInv /\ [Next]_vars => MissInv'
  <1> SUFFICES ASSUME TypeOK, CheckedLine, KeyInv, MissInv, [Next]_vars PROVE MissInv'
    BY DEF TypeInv
  <1>1. ASSUME NEW t \in Threads, StartLoad(t) PROVE MissInv'
    <2>1. \A u \in Threads : u # t => cur'[u] = cur[u]
      BY <1>1 DEF StartLoad, TypeOK, LocalType
    <2> QED
      BY <1>1, <2>1 DEF StartLoad, shared, ghosts, TypeOK, LocalType, MissInv
  <1>2. ASSUME NEW t \in Threads, Decide(t) PROVE MissInv'
    BY <1>2, SameFiles, GotoMiss DEF Decide, shared, ghosts
  <1>3. ASSUME NEW t \in Threads, LookAlt(t) PROVE MissInv'
    BY <1>3, SameFiles, GotoMiss DEF LookAlt, shared, ghosts
  <1>4. ASSUME NEW t \in Threads, Look(t) PROVE MissInv'
    BY <1>4, SameFiles, GotoMiss DEF Look, shared, ghosts
  <1>5. ASSUME NEW t \in Threads, ExamineAsync(t) PROVE MissInv'
    <2>1. CASE Clean(line[t])
      BY <1>5, <2>1, SameFiles, FinishMiss DEF ExamineAsync, Clean, shared, ghosts
    <2>2. CASE ~Clean(line[t])
      BY <1>5, <2>2 DEF ExamineAsync, shared, ghosts, TypeOK, LocalType, MissInv
    <2> QED
      BY <2>1, <2>2
  <1>6. ASSUME NEW t \in Threads, ExamineLoad(t) PROVE MissInv'
    <2>1. GoodKept
      BY <1>6, SameFiles DEF ExamineLoad, shared, ghosts
    <2>2. CASE Clean(line[t])
      BY <1>6, <2>1, <2>2, FinishMiss DEF ExamineLoad, Clean
    <2>3. CASE cur[t].alt /\ ReturnNull(t)
      BY <2>1, <2>3, ReturnNullMiss
    <2>4. CASE Goto(t, "read")
      BY <2>1, <2>4, GotoMiss
    <2> QED
      BY <1>6, <2>2, <2>3, <2>4 DEF ExamineLoad
  <1>7. ASSUME NEW t \in Threads, ReadFile(t) PROVE MissInv'
    <2>1. CASE Loadable(file[Path(cur[t])])
      <3>1. PICK o \in Allocate(Objects \ Live) :
              /\ fresh' = [fresh EXCEPT ![t] = o]
              /\ pc' = [pc EXCEPT ![t] = "relook"]
              /\ UNCHANGED <<op, req, cur, result, goodFile>>
        BY <1>7, <2>1 DEF ReadFile, Build
      <3>2. o # Nil /\ UNCHANGED file
        BY <1>7, AllocateAssumption DEF ReadFile
      <3> QED
        BY <3>1, <3>2 DEF TypeOK, LocalType, MissInv
    <2>2. CASE ~Loadable(file[Path(cur[t])])
      <3>1. GoodKept
        BY <1>7, <2>2, SameFiles DEF ReadFile, ghosts
      <3>2. cur[t] = req[t] => ~goodFile[t]
        BY <2>2 DEF MissInv
      <3>3. Goto(t, "miss") \/ Goto(t, "relook")
        BY <1>7, <2>2 DEF ReadFile
      <3> QED
        BY <3>1, <3>2, <3>3, GotoStoreMiss
    <2> QED
      BY <2>1, <2>2
  <1>8. ASSUME NEW t \in Threads, Miss(t) PROVE MissInv'
    <2>1. cur[t] = req[t] => ~goodFile[t]
      BY <1>8 DEF Miss, MissInv
    <2> QED
      BY <1>8, <2>1, SameFiles, ReturnNullMiss DEF Miss, ghosts
  <1>9. ASSUME NEW t \in Threads, Relook(t) PROVE MissInv'
    <2>1. cur[t] = req[t] /\ fresh[t] = Nil => ~goodFile[t]
      BY <1>9 DEF Relook, MissInv
    <2> QED
      BY <1>9, <2>1, SameFiles, GotoStoreMiss DEF Relook, shared, ghosts
  <1>10. ASSUME NEW t \in Threads, Recheck(t) PROVE MissInv'
    <2>1. cur[t] = req[t] /\ fresh[t] = Nil => ~goodFile[t]
      BY <1>10 DEF Recheck, MissInv
    <2> QED
      BY <1>10, <2>1, SameFiles, GotoStoreMiss DEF Recheck, shared, ghosts
  <1>11. ASSUME NEW t \in Threads, Commit(t) PROVE MissInv'
    <2> DEFINE resource == IF line[t] # Nil THEN line[t] ELSE fresh[t]
    <2>1. GoodKept
      BY <1>11, SameFiles DEF Commit, ghosts
    <2>2. CASE resource # Nil
      BY <1>11, <2>1, <2>2, FinishMiss DEF Commit
    <2>3. CASE resource = Nil
      <3>1. cur[t] = req[t] => ~goodFile[t]
        BY <1>11, <2>3 DEF Commit, MissInv
      <3> QED
        BY <1>11, <2>1, <2>3, <3>1, ReturnNullMiss DEF Commit
    <2> QED
      BY <2>2, <2>3
  <1>12. ASSUME NEW t \in Threads, ExamineDirty(t) PROVE MissInv'
    <2>1. GoodKept /\ op[t] \notin Loads
      BY <1>12, SameFiles DEF ExamineDirty, ghosts, Loads
    <2> QED
      BY <1>12, <2>1, FinishMiss, GotoUnloadMiss DEF ExamineDirty
  <1>13. ASSUME NEW t \in Threads, Contains(t) PROVE MissInv'
    <2>1. GoodKept /\ op[t] \notin Loads
      BY <1>13, SameFiles DEF Contains, shared, ghosts, MissInv
    <2> QED
      BY <1>13, <2>1, FinishMiss, GotoUnloadMiss DEF Contains
  <1>14. ASSUME NEW t \in Threads, Erase(t) PROVE MissInv'
    <2>1. GoodKept /\ op[t] \notin Loads
      BY <1>14, SameFiles DEF Erase, ghosts, MissInv
    <2> QED
      BY <1>14, <2>1, FinishMiss DEF Erase
  <1>15. ASSUME NEW t \in Threads, NEW c \in Contents, NEW u \in Unloading, Write(t, c, u)
         PROVE  MissInv'
    <2>1. op[t] \notin Loads
      BY <1>15 DEF Write, Loads
    <2>2. GoodKept
      <3>1. Path(req[t]) \in Paths
        BY IdTypes DEF TypeOK, LocalType
      <3> QED
        BY <1>15, <3>1, SameFiles, ChangedFile DEF Write
    <2> QED
      BY <1>15, <2>1, <2>2, FinishMiss, GotoUnloadMiss DEF Write
  <1>16. ASSUME NEW t \in Threads, NEW o \in Ops, NEW id \in Ids, NEW ex \in Exacts,
                NEW otr \in Prefixed, Begin(t, o, id, ex, otr)
         PROVE  MissInv'
    <2> DEFINE point == CASE o \in {"async", "dirty"} -> "decide"
                          [] o \in {"unload", "unloadMask"} -> "contains"
                          [] OTHER -> "start"
    <2>1. pc' = [pc EXCEPT ![t] = point] /\ point \in {"decide", "contains", "start"}
      BY <1>16 DEF Begin
    <2>2. point = "contains" => o \notin Loads
      BY DEF Loads
    <2> HIDE DEF point
    <2>3. /\ op' = [op EXCEPT ![t] = o] /\ req' = [req EXCEPT ![t] = id]
          /\ goodFile' = [goodFile EXCEPT ![t] = Loadable(file[Path(id)])]
          /\ result' = [result EXCEPT ![t] = Nil] /\ UNCHANGED <<file, fresh>>
      BY <1>16 DEF Begin
    <2>4. \A u \in Threads \ {t} : cur'[u] = cur[u]
      BY <1>16 DEF Begin, TypeOK, LocalType
    <2>5. /\ pc'[t] = point /\ op'[t] = o /\ req'[t] = id
          /\ goodFile'[t] => Loadable(file'[Path(id)])
      BY <2>1, <2>3 DEF TypeOK, LocalType, GhostType
    <2>6. \A u \in Threads \ {t} :
            /\ pc'[u] = pc[u] /\ op'[u] = op[u] /\ req'[u] = req[u]
            /\ goodFile'[u] = goodFile[u] /\ result'[u] = result[u]
      BY <2>1, <2>3 DEF TypeOK, LocalType, GhostType
    <2> QED
      BY <2>1, <2>2, <2>3, <2>4, <2>5, <2>6 DEF MissInv
  <1>17. ASSUME NEW b \in BOOLEAN, SetAltAssetsEnabled(b) PROVE MissInv'
    BY <1>17 DEF SetAltAssetsEnabled, MissInv
  <1>18. ASSUME NEW p \in Paths, NEW c \in Contents \union {Bad, NoFile}, Remount(p, c)
         PROVE  MissInv'
    <2>1. GoodKept
      BY <1>18, ChangedFile DEF Remount
    <2> QED
      BY <1>18, <2>1 DEF Remount, MissInv, GoodKept
  <1>19. CASE UNCHANGED vars
    BY <1>19 DEF vars, MissInv
  <1> QED
    BY <1>1, <1>2, <1>3, <1>4, <1>5, <1>6, <1>7, <1>8, <1>9, <1>10, <1>11, <1>12, <1>13,
       <1>14, <1>15, <1>16, <1>17, <1>18, <1>19 DEF Next, Load, Evict

(* A standard asset whose file could be loaded all the time its load ran   *)
(* is loaded, whatever other loads, evictions and remounts do meanwhile.   *)
THEOREM NullMeansMissingHolds == Spec => []NullMeansMissing
  <1>1. MissInv => NullMeansMissing
    BY DEF MissInv, NullMeansMissing
  <1>2. TypeInv => TypeOK
    BY DEF TypeInv
  <1> QED
    BY <1>1, <1>2, TypeInit, TypeStep, KeyInit, KeyStep, MissInit, MissStep, PTL DEF Spec

------------------------------------------------------------------------------
(***************************************************************************)
(* The pool blocks only when all its workers are held by waiting batches:  *)
(* every worker that waits holds a batch of its own, so by the pigeonhole  *)
(* principle fewer batches leave one to run what the others wait for.  And *)
(* the pool implements RequestBoard's steps: what a batch has answered and *)
(* what it has still to do make up what it was asked.                      *)
(***************************************************************************)

Running(w) ==
  /\ wpc[w] = "free" <=> job[w] = None
  /\ wpc[w] \in {"batch", "waiting"} => job[w] \in Batches
  /\ wpc[w] = "task" => job[w] \in Singles \union Evictions \union Workers
  /\ job[w] \in Requests => status[job[w]] = "running"
  /\ job[w] \in Workers => leaf[job[w]] = "running"
  /\ wpc[w] = "waiting" <=> leaf[w] # "none"
  /\ leaf[w] # "none" => leafFile[w] \in Files

(* Every running task has exactly one worker.                              *)
PoolInv ==
  /\ PoolTypeOK
  /\ \A w \in Workers : Running(w)
  /\ \A v, w \in Workers : v # w /\ job[v] = job[w] => job[v] = None
  /\ \A r \in Requests : status[r] = "running" => \E w \in Workers : job[w] = r
  /\ \A v \in Workers : leaf[v] = "running" => \E w \in Workers : job[w] = v

LEMMA PoolInvInit == PoolInit => PoolInv
  <1> SUFFICES ASSUME PoolInit PROVE PoolInv
    OBVIOUS
  <1>1. PoolTypeOK
    BY FilesAssumption DEF PoolInit, PoolTypeOK, Priorities
  <1> QED
    BY <1>1, NoneAssumption DEF PoolInit, PoolInv, Running

LEMMA PoolInvStep == PoolInv /\ [PoolNext]_poolVars => PoolInv'
  <1> SUFFICES ASSUME PoolInv, [PoolNext]_poolVars PROVE PoolInv'
    OBVIOUS
  <1> USE SortsAssumption, NoneAssumption DEF PoolInv, Running, Requests
  <1>1. ASSUME NEW r \in Requests, NEW p \in Priorities, Submit(r, p) PROVE PoolInv'
    <2>1. PoolTypeOK'
      BY <1>1, WantsAssumption DEF Submit, PoolTypeOK
    <2>2. \A q \in Requests : status'[q] = "running" <=> status[q] = "running"
      BY <1>1 DEF Submit, PoolTypeOK
    <2> QED
      BY <1>1, <2>1, <2>2 DEF Submit
  <1>2. ASSUME NEW w \in Workers, Take(w) PROVE PoolInv'
    <2>1. PICK i \in Queue :
            /\ job' = [job EXCEPT ![w] = i]
            /\ IF i \in Workers
               THEN leaf' = [leaf EXCEPT ![i] = "running"] /\ UNCHANGED status
               ELSE status' = [status EXCEPT ![i] = "running"] /\ UNCHANGED leaf
            /\ wpc' = [wpc EXCEPT ![w] = IF i \in Batches THEN "batch" ELSE "task"]
            /\ todo' = [todo EXCEPT ![w] = IF i \in Batches THEN Wants[i] ELSE {}]
      BY <1>2 DEF Take
    <2>2. UNCHANGED <<prio, cached, leafFile, answered>> /\ wpc[w] = "free"
      BY <1>2 DEF Take
    <2>3. \/ i \in Workers /\ leaf[i] = "queued"
          \/ i \in Requests /\ i \notin Workers /\ status[i] = "queued"
      BY DEF Queue
    <2>4. PoolTypeOK'
      BY <2>1, <2>2, <2>3, WantsAssumption DEF PoolTypeOK
    <2>5. \A v \in Workers : job[v] # i
      BY <2>3
    <2>6. CASE i \in Workers
      BY <2>1, <2>2, <2>3, <2>4, <2>5, <2>6 DEF PoolTypeOK
    <2>7. CASE i \notin Workers
      BY <2>1, <2>2, <2>3, <2>4, <2>5, <2>7 DEF PoolTypeOK
    <2> QED
      BY <2>6, <2>7
  <1>3. ASSUME NEW w \in Workers, NEW r, r = job[w], r \in Requests,
               status' = [status EXCEPT ![r] = "resolved"], Idle(w),
               wpc[w] \in {"task", "batch"}, PoolTypeOK', UNCHANGED <<leafFile, leaf>>
        PROVE  PoolInv'
    <2>1. \A v \in Workers : v # w => job[v] # r
      BY <1>3
    <2> QED
      BY <1>3, <2>1 DEF Idle, PoolTypeOK
  <1>4. ASSUME NEW w \in Workers, RunLoad(w) PROVE PoolInv'
    <2>1. PoolTypeOK'
      BY <1>4, WantsAssumption DEF RunLoad, Resolve, Idle, PoolTypeOK
    <2> QED
      BY <1>3, <1>4, <2>1 DEF RunLoad, Resolve
  <1>5. ASSUME NEW w \in Workers, RunLeaf(w) PROVE PoolInv'
    <2>1. PoolTypeOK'
      BY <1>5 DEF RunLeaf, Idle, PoolTypeOK
    <2>2. \A v \in Workers : v # w => job[v] # job[w]
      BY <1>5 DEF RunLeaf
    <2> QED
      BY <1>5, <2>1, <2>2 DEF RunLeaf, Idle, PoolTypeOK
  <1>6. ASSUME NEW w \in Workers, RunEviction(w) PROVE PoolInv'
    <2>1. PoolTypeOK'
      BY <1>6, WantsAssumption DEF RunEviction, Resolve, Idle, PoolTypeOK
    <2> QED
      BY <1>3, <1>6, <2>1 DEF RunEviction, Resolve
  <1>7. ASSUME NEW w \in Workers, BatchStep(w) PROVE PoolInv'
    <2>1. PoolTypeOK'
      BY <1>7 DEF BatchStep, PoolTypeOK
    <2>2. leaf[w] = "none" /\ \A v \in Workers : job[v] # w
      BY <1>7 DEF BatchStep
    <2> QED
      BY <1>7, <2>1, <2>2 DEF BatchStep, PoolTypeOK
  <1>8. ASSUME NEW w \in Workers, BatchResume(w) PROVE PoolInv'
    <2>1. PoolTypeOK'
      BY <1>8 DEF BatchResume, PoolTypeOK
    <2>2. \A v \in Workers : job[v] # w
      BY <1>8 DEF BatchResume
    <2> QED
      BY <1>8, <2>1, <2>2 DEF BatchResume, PoolTypeOK
  <1>9. ASSUME NEW w \in Workers, BatchDone(w) PROVE PoolInv'
    <2>1. PoolTypeOK'
      BY <1>9 DEF BatchDone, Idle, PoolTypeOK
    <2> QED
      BY <1>3, <1>9, <2>1 DEF BatchDone
  <1>10. CASE UNCHANGED poolVars
    BY <1>10 DEF poolVars, PoolTypeOK
  <1> QED
    BY <1>1, <1>2, <1>4, <1>5, <1>6, <1>7, <1>8, <1>9, <1>10 DEF PoolNext, Work

(* While a call is unanswered some worker has something to do, unless the  *)
(* pool is paused or all its workers are held by waiting batches: the pool *)
(* comes to rest over a future in no other way, for any numbers of workers,*)
(* calls and files.                                                        *)
THEOREM PoolNeverBlocks == PoolSpec => []PoolAlive
  <1>1. PoolInv => PoolAlive
    <2> SUFFICES ASSUME PoolInv, NEW r \in Requests, status[r] \in {"queued", "running"},
                        ~Paused, \A w \in Workers : ~CanWork(w)
                 PROVE  Deadlocked
      BY DEF PoolAlive
    <2>1. ASSUME NEW w \in Workers, wpc[w] # "waiting" PROVE FALSE
      <3>1. wpc[w] = "free" /\ Queue = {}
        BY <2>1 DEF CanWork, PoolInv, PoolTypeOK
      <3>2. \A v \in Workers : wpc[v] # "waiting"
        <4> SUFFICES ASSUME NEW v \in Workers, wpc[v] = "waiting" PROVE FALSE
          OBVIOUS
        <4>1. leaf[v] = "running"
          BY <3>1 DEF CanWork, Queue, PoolInv, PoolTypeOK, Running
        <4>2. PICK u \in Workers : job[u] = v
          BY <4>1 DEF PoolInv
        <4>3. wpc[u] = "task"
          BY <4>2, SortsAssumption, NoneAssumption DEF PoolInv, PoolTypeOK, Running, Requests
        <4> QED
          BY <4>3 DEF CanWork
      <3>3. status[r] = "running"
        BY <3>1 DEF Queue
      <3>4. PICK v \in Workers : job[v] = r
        BY <3>3 DEF PoolInv
      <3> QED
        BY <3>2, <3>4, NoneAssumption DEF CanWork, PoolInv, PoolTypeOK, Running
    <2>2. ASSUME NEW w \in Workers, wpc[w] = "waiting" PROVE leaf[w] = "queued"
      <3>1. leaf[w] \in {"queued", "running"}
        BY <2>2 DEF CanWork, PoolInv, PoolTypeOK, Running
      <3>2. ASSUME NEW v \in Workers, job[v] = w PROVE FALSE
        BY <2>1, <3>2, SortsAssumption DEF PoolInv, Running, Requests
      <3> QED
        BY <3>1, <3>2 DEF PoolInv
    <2> QED
      BY <2>1, <2>2 DEF Deadlocked
  <1> QED
    BY <1>1, PoolInvInit, PoolInvStep, PTL DEF PoolSpec

(* All workers are held by waiting batches only when as many batches run   *)
(* as there are workers: with fewer calls of LoadResources at a time than  *)
(* workers the pool does not block.                                        *)
THEOREM DeadlockTakesBatches ==
  ASSUME IsFiniteSet(Workers), IsFiniteSet(Batches)
  PROVE  PoolSpec => [](Deadlocked => Cardinality({b \in Batches : status[b] = "running"})
                                        >= Cardinality(Workers))
  <1> DEFINE running == {b \in Batches : status[b] = "running"}
             few == Cardinality(running) >= Cardinality(Workers)
  <1>1. PoolInv => (Deadlocked => few)
    <2> SUFFICES ASSUME PoolInv, Deadlocked, ~few PROVE FALSE
      OBVIOUS
    <2>1. IsFiniteSet(running) /\ Cardinality(running) \in Nat /\ Cardinality(Workers) \in Nat
      BY FS_Subset, FS_CardinalityType
    <2>2. Cardinality(running) < Cardinality(Workers)
      BY <2>1
    <2> DEFINE holds == [w \in Workers |-> job[w]]
    <2>3. holds \in [Workers -> running]
      BY DEF PoolInv, Running, Deadlocked, Requests
    <2>4. PICK v, w \in Workers : v # w /\ holds[v] = holds[w]
      <3> HIDE DEF holds, running
      <3> QED
        BY <2>1, <2>2, <2>3, FS_PigeonHole
    <2> QED
      BY <2>4, NoneAssumption DEF PoolInv, Running, Requests, Deadlocked
  <1> QED
    BY <1>1, PoolInvInit, PoolInvStep, PTL DEF PoolSpec

(* And then it is for ever: no worker ever takes the loads they wait for.  *)
THEOREM DeadlockLasts == PoolSpec => [][Deadlocked => Deadlocked']_poolVars
  <1>1. PoolInv /\ [PoolNext]_poolVars => [Deadlocked => Deadlocked']_poolVars
    <2> SUFFICES ASSUME PoolInv, PoolNext, Deadlocked PROVE Deadlocked'
      OBVIOUS
    <2>1. ASSUME NEW w \in Workers, Work(w) PROVE FALSE
      BY <2>1 DEF Work, Take, RunLoad, RunLeaf, RunEviction, BatchStep, BatchResume, BatchDone, Deadlocked
    <2>2. ASSUME NEW q \in Requests, NEW p \in Priorities, Submit(q, p) PROVE Deadlocked'
      BY <2>2 DEF Submit, Deadlocked
    <2> QED
      BY <2>1, <2>2 DEF PoolNext
  <1> QED
    BY <1>1, PoolInvInit, PoolInvStep, PTL DEF PoolSpec

(* The tasks, workers and answers keep their types, for any pool.          *)
THEOREM PoolTypeCorrect == PoolSpec => []PoolTypeOK
  <1>1. PoolInv => PoolTypeOK
    BY DEF PoolInv
  <1> QED
    BY <1>1, PoolInvInit, PoolInvStep, PTL DEF PoolSpec

(* What a worker's batch has leafFile for so far: its list is answered but for*)
(* the files still to do, and what has not been leafFile is not answered.     *)
Accounted ==
  /\ \A w \in Workers : job[w] \in Batches => Wants[job[w]] = answered[job[w]] \union todo[w]
  /\ \A w \in Workers : leaf[w] # "none" => leafFile[w] \in todo[w]
  /\ \A w \in Workers : wpc[w] = "batch" => leaf[w] = "none"
  /\ \A r \in Requests : status[r] = "queued" => answered[r] = {}
  /\ \A r \in Requests : status[r] = "new" => answered[r] = {}

LEMMA AccountedStep == PoolInv /\ PoolInv' /\ Accounted /\ [PoolNext]_poolVars => Accounted'
  <1> SUFFICES ASSUME PoolInv, PoolInv', Accounted, [PoolNext]_poolVars PROVE Accounted'
    OBVIOUS
  <1> USE SortsAssumption, NoneAssumption, WantsAssumption DEF Accounted, Requests
  <1>t. PoolTypeOK /\ PoolTypeOK' /\ \A w \in Workers : Running(w)
    BY DEF PoolInv
  <1>u. \A v, w \in Workers : v # w /\ job[v] = job[w] => job[v] = None
    BY DEF PoolInv
  <1>1. ASSUME NEW r \in Requests, NEW p \in Priorities, Submit(r, p) PROVE Accounted'
    BY <1>1, <1>t DEF Submit, PoolTypeOK, Running
  <1>2. ASSUME NEW w \in Workers, Take(w) PROVE Accounted'
    <2>1. PICK i \in Queue :
            /\ job' = [job EXCEPT ![w] = i]
            /\ IF i \in Workers
               THEN leaf' = [leaf EXCEPT ![i] = "running"] /\ UNCHANGED status
               ELSE status' = [status EXCEPT ![i] = "running"] /\ UNCHANGED leaf
            /\ wpc' = [wpc EXCEPT ![w] = IF i \in Batches THEN "batch" ELSE "task"]
            /\ todo' = [todo EXCEPT ![w] = IF i \in Batches THEN Wants[i] ELSE {}]
      BY <1>2 DEF Take
    <2>2. UNCHANGED <<leafFile, answered>> /\ wpc[w] = "free" /\ leaf[w] = "none"
      BY <1>2, <1>t DEF Take, Running, PoolTypeOK
    <2>3. \/ i \in Workers /\ leaf[i] = "queued" /\ i # w
          \/ i \in Requests /\ i \notin Workers /\ status[i] = "queued"
      BY <2>2 DEF Queue
    <2> QED
      BY <2>1, <2>2, <2>3, <1>t DEF PoolTypeOK
  <1>3. ASSUME NEW w \in Workers, RunLoad(w) \/ RunEviction(w) PROVE Accounted'
    BY <1>3, <1>t, <1>u DEF RunLoad, RunEviction, Resolve, Idle, PoolTypeOK, Running
  <1>4. ASSUME NEW w \in Workers, RunLeaf(w) PROVE Accounted'
    BY <1>4, <1>t DEF RunLeaf, Idle, PoolTypeOK, Running
  <1>5. ASSUME NEW w \in Workers, BatchStep(w) PROVE Accounted'
    BY <1>5, <1>t, <1>u DEF BatchStep, PoolTypeOK, Running
  <1>6. ASSUME NEW w \in Workers, BatchResume(w) PROVE Accounted'
    BY <1>6, <1>t, <1>u DEF BatchResume, PoolTypeOK, Running
  <1>7. ASSUME NEW w \in Workers, BatchDone(w) PROVE Accounted'
    BY <1>7, <1>t DEF BatchDone, Idle, PoolTypeOK, Running
  <1>8. CASE UNCHANGED poolVars
    BY <1>8 DEF poolVars
  <1> QED
    BY <1>1, <1>2, <1>3, <1>4, <1>5, <1>6, <1>7, <1>8 DEF PoolNext, Work

(* What the board shows of the pool's tables.                              *)
Shown == [r \in Requests |-> IF status[r] \in {"queued", "running"} THEN "pending" ELSE status[r]]
Entries == [r \in Requests |-> IF status[r] = "resolved" THEN answered[r] ELSE {}]

LEMMA OnBoard ==
  /\ Board!Init <=> Shown = [r \in Requests |-> "new"] /\ Entries = [r \in Requests |-> {}]
  /\ Board!vars = <<Shown, Entries>>
  /\ \A r \in Requests :
       /\ Shown[r] = "pending" /\ Shown' = [Shown EXCEPT ![r] = "resolved"]
          /\ Entries' = [Entries EXCEPT ![r] = Wants[r]] => Board!Next
       /\ Shown[r] = "new" /\ Shown' = [Shown EXCEPT ![r] = "resolved"]
          /\ Entries' = [Entries EXCEPT ![r] = Wants[r]] => Board!Next
       /\ Shown[r] = "new" /\ Shown' = [Shown EXCEPT ![r] = "pending"]
          /\ Entries' = Entries => Board!Next
  BY DEF Board!Init, Board!vars, Board!Next, Board!Submit, Board!Resolve, Shown, Entries

LEMMA PoolOnBoard ==
  ASSUME PoolInv, PoolInv', Accounted, [PoolNext]_poolVars
  PROVE  [Board!Next]_(Board!vars)
  <1> USE SortsAssumption, NoneAssumption DEF Requests
  <1>t. PoolTypeOK /\ PoolTypeOK' /\ \A w \in Workers : Running(w)
    BY DEF PoolInv
  <1>0. ASSUME Shown' = Shown, Entries' = Entries PROVE [Board!Next]_(Board!vars)
    BY <1>0 DEF Shown, Entries, Board!vars
  <1>r. ASSUME NEW r \in Requests, status[r] = "running", status' = [status EXCEPT ![r] = "resolved"],
               answered' = [answered EXCEPT ![r] = Wants[r]]
        PROVE  [Board!Next]_(Board!vars)
    <2>1. Shown[r] = "pending" /\ Shown' = [Shown EXCEPT ![r] = "resolved"]
      BY <1>r, <1>t DEF Shown, PoolTypeOK
    <2>2. Entries' = [Entries EXCEPT ![r] = Wants[r]]
      BY <1>r, <1>t DEF Entries, PoolTypeOK
    <2> QED
      BY <2>1, <2>2, OnBoard
  <1>1. ASSUME NEW r \in Requests, NEW p \in Priorities, Submit(r, p) PROVE [Board!Next]_(Board!vars)
    <2>1. status[r] = "new" /\ Shown[r] = "new"
      BY <1>1 DEF Submit, Shown
    <2>2. CASE status' = [status EXCEPT ![r] = "resolved"] /\ answered' = [answered EXCEPT ![r] = Wants[r]]
      <3>1. Shown' = [Shown EXCEPT ![r] = "resolved"]
        BY <2>2, <1>t DEF Shown, PoolTypeOK
      <3>2. Entries' = [Entries EXCEPT ![r] = Wants[r]]
        BY <2>2, <1>t DEF Entries, PoolTypeOK
      <3> QED
        BY <2>1, <3>1, <3>2, OnBoard
    <2>3. CASE status' = [status EXCEPT ![r] = "queued"] /\ UNCHANGED answered
      <3>1. Shown' = [Shown EXCEPT ![r] = "pending"]
        BY <2>3, <1>t DEF Shown, PoolTypeOK
      <3>2. Entries' = Entries
        BY <2>1, <2>3, <1>t DEF Entries, PoolTypeOK
      <3> QED
        BY <2>1, <3>1, <3>2, OnBoard
    <2> QED
      BY <1>1, <2>2, <2>3 DEF Submit
  <1>2. ASSUME NEW w \in Workers, Take(w) PROVE [Board!Next]_(Board!vars)
    <2>1. PICK i \in Queue : IF i \in Workers
                             THEN UNCHANGED status
                             ELSE status' = [status EXCEPT ![i] = "running"]
      BY <1>2 DEF Take
    <2>2. UNCHANGED answered
      BY <1>2 DEF Take
    <2>3. \/ i \in Workers
          \/ i \in Requests /\ i \notin Workers /\ status[i] = "queued"
      BY DEF Queue
    <2>4. Shown' = Shown /\ Entries' = Entries
      BY <2>1, <2>2, <2>3, <1>t DEF Shown, Entries, PoolTypeOK
    <2> QED
      BY <1>0, <2>4
  <1>3. ASSUME NEW w \in Workers, RunLoad(w) \/ RunEviction(w) PROVE [Board!Next]_(Board!vars)
    BY <1>r, <1>3, <1>t DEF RunLoad, RunEviction, Resolve, Running
  <1>4. ASSUME NEW w \in Workers, RunLeaf(w) PROVE [Board!Next]_(Board!vars)
    BY <1>0, <1>4 DEF RunLeaf, Shown, Entries
  <1>5. ASSUME NEW w \in Workers, BatchStep(w) \/ BatchResume(w) PROVE [Board!Next]_(Board!vars)
    <2>1. job[w] \in Batches /\ status[job[w]] = "running" /\ UNCHANGED status
      BY <1>5, <1>t DEF BatchStep, BatchResume, Running
    <2>2. \A r \in Requests : r # job[w] => answered'[r] = answered[r]
      BY <1>5, <1>t DEF BatchStep, BatchResume, PoolTypeOK
    <2>3. Shown' = Shown /\ Entries' = Entries
      BY <2>1, <2>2 DEF Shown, Entries
    <2> QED
      BY <1>0, <2>3
  <1>6. ASSUME NEW w \in Workers, BatchDone(w) PROVE [Board!Next]_(Board!vars)
    <2>1. job[w] \in Batches /\ status[job[w]] = "running" /\ UNCHANGED answered
      BY <1>6, <1>t DEF BatchDone, Running
    <2>2. answered[job[w]] = Wants[job[w]]
      <3>1. Wants[job[w]] = answered[job[w]] \union todo[w] /\ todo[w] = {}
        BY <1>6, <2>1 DEF BatchDone, Accounted
      <3> QED
        BY <3>1
    <2>3. answered' = [answered EXCEPT ![job[w]] = Wants[job[w]]]
      BY <2>1, <2>2, <1>t DEF PoolTypeOK
    <2> QED
      BY <1>r, <1>6, <2>1, <2>3 DEF BatchDone
  <1>7. CASE UNCHANGED poolVars
    BY <1>0, <1>7 DEF poolVars, Shown, Entries
  <1> QED
    BY <1>1, <1>2, <1>3, <1>4, <1>5, <1>6, <1>7 DEF PoolNext, Work

(* The safety half of BoardSpec: a call is answered once, after it was     *)
(* made, with an entry for every file it leafFile about, for any pool, even   *)
(* one that its batches block.                                             *)
THEOREM PoolKeepsPromises == PoolSpec => Board!Init /\ [][Board!Next]_(Board!vars)
  <1>1. PoolInit => Accounted
    BY NoneAssumption DEF PoolInit, Accounted, Requests
  <1>2. PoolInit => Board!Init
    BY OnBoard DEF PoolInit, Shown, Entries
  <1>3. PoolInv /\ PoolInv' /\ Accounted /\ [PoolNext]_poolVars => [Board!Next]_(Board!vars)
    BY PoolOnBoard
  <1> QED
    BY <1>1, <1>2, <1>3, PoolInvInit, PoolInvStep, AccountedStep, PTL DEF PoolSpec
==============================================================================
