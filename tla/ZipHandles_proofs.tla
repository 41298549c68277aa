-------------------------- MODULE ZipHandles_proofs --------------------------
(***************************************************************************)
(* What ZipHandles keeps for any number of loads, handles and files: where *)
(* each handle is, and how old the archive it reads may be.                *)
(***************************************************************************)
EXTENDS ZipHandles, FiniteSetTheorems, TLAPS

Using(l) == lpc[l] \in {"read", "release"}
Opened == {h \in Handles : view[h] # Null}

TypeOK ==
  /\ disk \in Contents /\ promised \in Contents
  /\ zip \in {"null", "open", "dangling"}
  /\ wpc \in {"idle", "closing", "written", "emptied"}
  /\ pool \in Seq(Handles) /\ view \in [Handles -> Contents \union {Null}]
  /\ lpc \in [Loaders -> {"idle", "read", "release", "done"}]
  /\ file \in [Loaders -> Files \union {Null}]
  /\ handle \in [Loaders -> Handles \union {Null}]
  /\ answer \in [Loaders -> Data \union {Null, Zeros}]
  /\ seen \in [Loaders -> SUBSET (Data \union {Null})]
  /\ excused \in [Loaders -> BOOLEAN]

(* An open handle is in one place: one slot of the pool, or one load.      *)
OnePlace ==
  /\ \A i, j \in DOMAIN pool : pool[i] = pool[j] => i = j
  /\ \A l \in Loaders : Using(l) <=> handle[l] # Null
  /\ \A l \in Loaders : Using(l) => file[l] \in Files
  /\ \A l, k \in Loaders : Using(l) /\ Using(k) /\ handle[l] = handle[k] => l = k
  /\ Opened = Pooled \union Held /\ Pooled \intersect Held = {}

(* A handle is opened by a load that finds none to take.                   *)
FewOpened == IsFiniteSet(Opened) /\ Cardinality(Opened) <= Cardinality(Loaders)

(* But for those a WriteFile overtook, handles read the archive as it is,  *)
(* or, until WriteFile empties the pool, as it was.                        *)
Recent ==
  /\ wpc \in {"idle", "closing"} => promised = disk
  /\ \A h \in Opened \ overtaken : view[h] = disk \/ (wpc = "written" /\ view[h] = promised)

(* What a load has read, or is going to read, is among what it may find.   *)
WillBeSeen ==
  \A l \in Loaders : ~excused[l] =>
    /\ lpc[l] = "read" => Found(view[handle[l]][file[l]]) \in seen[l]
    /\ lpc[l] \in {"release", "done"} => answer[l] \in seen[l]

IInv == TypeOK /\ OnePlace /\ FewOpened /\ Recent /\ WillBeSeen

------------------------------------------------------------------------------
LEMMA FoundIsAnswer == \A c \in Data \union {Absent} : Found(c) \in Data \union {Null}
  BY DEF Found

(* What Watch does, whatever the step.                                     *)
LEMMA WatchGrows ==
  ASSUME TypeOK, OnePlace, Watch, disk' \in Contents,
         \A l \in Loaders : ~Using(l) /\ lpc'[l] = "read" => file'[l] \in Files
  PROVE  /\ seen' \in [Loaders -> SUBSET (Data \union {Null})]
         /\ \A l \in Loaders : Using(l) => seen[l] \subseteq seen'[l]
         /\ \A l \in Loaders : ~Using(l) /\ lpc'[l] # "read" => seen'[l] = seen[l]
         /\ \A l \in Loaders : ~Using(l) /\ lpc'[l] = "read" =>
              seen'[l] = {Found(promised[file'[l]]), Found(disk[file'[l]])}
<1>1. ASSUME NEW l \in Loaders, Using(l) PROVE Found(disk'[file[l]]) \in Data \union {Null}
  <2>1. file[l] \in Files
    BY <1>1 DEF OnePlace
  <2>2. disk'[file[l]] \in Data \union {Absent}
    BY <2>1 DEF Contents
  <2> QED
    BY <2>2, FoundIsAnswer
<1>2. ASSUME NEW l \in Loaders, ~Using(l), lpc'[l] = "read"
      PROVE  /\ Found(promised[file'[l]]) \in Data \union {Null}
             /\ Found(disk[file'[l]]) \in Data \union {Null}
  <2>1. file'[l] \in Files
    BY <1>2
  <2>2. promised[file'[l]] \in Data \union {Absent} /\ disk[file'[l]] \in Data \union {Absent}
    BY <2>1 DEF TypeOK, Contents
  <2> QED
    BY <2>2, FoundIsAnswer
<1> QED
  BY <1>1, <1>2 DEF Watch, TypeOK, Using

(* The game's thread leaves the handles and the loads alone but for what   *)
(* it closes, so that only the archive's own parts are to be shown.        *)
LEMMA ArchiveStep ==
  ASSUME IInv, Watch, UNCHANGED <<handles, loads>>,
         disk' \in Contents, promised' \in Contents,
         zip' \in {"null", "open", "dangling"},
         wpc' \in {"idle", "closing", "written", "emptied"},
         Recent'
  PROVE  IInv'
<1>1. UNCHANGED <<pool, view, overtaken, lpc, file, handle, answer, excused>>
  BY DEF handles, loads
<1>2. /\ seen' \in [Loaders -> SUBSET (Data \union {Null})]
      /\ \A l \in Loaders : Using(l) => seen[l] \subseteq seen'[l]
      /\ \A l \in Loaders : ~Using(l) => seen'[l] = seen[l]
  BY <1>1, WatchGrows DEF IInv, Using
<1>3. TypeOK'
  BY <1>1, <1>2 DEF IInv, TypeOK
<1>4. OnePlace' /\ FewOpened'
  BY <1>1 DEF IInv, OnePlace, FewOpened, Opened, Pooled, Held, Using
<1>5. WillBeSeen'
  BY <1>1, <1>2 DEF IInv, WillBeSeen, Using
<1> QED
  BY <1>3, <1>4, <1>5 DEF IInv

LEMMA OpenKeeps == IInv /\ Watch /\ Open => IInv'
<1> SUFFICES ASSUME IInv, Watch, Open PROVE IInv'
  OBVIOUS
<1>1. UNCHANGED <<disk, wpc, promised, handles, loads>> /\ zip' \in {"open", "null"}
  BY DEF Open, Reopened
<1>2. Recent'
  BY <1>1 DEF IInv, Recent, Opened, handles
<1> QED
  BY <1>1, <1>2, ArchiveStep DEF IInv, TypeOK

LEMMA CloseKeeps == IInv /\ Watch /\ Close => IInv'
<1> SUFFICES ASSUME IInv, Watch, Close PROVE IInv'
  OBVIOUS
<1>1. /\ UNCHANGED <<disk, promised, handles, loads>> /\ wpc = "idle"
      /\ zip' \in {zip, "null"} /\ wpc' \in {wpc, "closing"}
  BY DEF Close
<1>2. Recent'
  BY <1>1 DEF IInv, Recent, Opened, handles
<1> QED
  BY <1>1, <1>2, ArchiveStep DEF IInv, TypeOK

LEMMA WriteKeeps ==
  ASSUME NEW f \in Files, NEW d \in Data
  PROVE  IInv /\ Watch /\ WriteFile(f, d) => IInv'
<1> SUFFICES ASSUME IInv, Watch, WriteFile(f, d) PROVE IInv'
  OBVIOUS
<1>1. /\ UNCHANGED <<promised, handles, loads>> /\ wpc = "idle" /\ zip' \in {zip, "dangling"}
      /\ \/ UNCHANGED <<disk, wpc>>
         \/ disk' = [disk EXCEPT ![f] = d] /\ wpc' = "written"
  BY DEF WriteFile
<1>2. disk' \in Contents
  BY <1>1 DEF IInv, TypeOK, Contents
<1>3. Recent'
  BY <1>1 DEF IInv, Recent, Opened, handles
<1> QED
  BY <1>1, <1>2, <1>3, ArchiveStep DEF IInv, TypeOK

LEMMA ReopenKeeps == IInv /\ Watch /\ Reopen => IInv'
<1> SUFFICES ASSUME IInv, Watch, Reopen PROVE IInv'
  OBVIOUS
<1>1. /\ UNCHANGED <<disk, handles, loads>> /\ zip' \in {"open", "null"}
      /\ wpc = "emptied" /\ wpc' = "idle" /\ promised' = disk
  BY DEF Reopen, Reopened
<1>2. Recent'
  BY <1>1 DEF IInv, Recent, Opened, handles
<1> QED
  BY <1>1, <1>2, ArchiveStep DEF IInv, TypeOK

(* Only the handles in use stay open, and a WriteFile overtakes them.      *)
LEMMA EmptyPoolKeeps == IInv /\ Watch /\ EmptyPool => IInv'
<1> SUFFICES ASSUME IInv, Watch, EmptyPool PROVE IInv'
  OBVIOUS
<1>1. /\ UNCHANGED <<disk, zip, lpc, file, handle, answer, excused>>
      /\ pool' = <<>> /\ view' = [h \in Handles |-> IF h \in Pooled THEN Null ELSE view[h]]
      /\ overtaken' = IF wpc = "written" THEN Held ELSE overtaken \ Pooled
      /\ promised' = IF wpc = "closing" THEN disk ELSE promised
      /\ wpc \in {"closing", "written"}
      /\ wpc' = IF wpc = "closing" THEN "idle" ELSE "emptied"
  BY DEF EmptyPool, Emptied, loads
<1>2. /\ seen' \in [Loaders -> SUBSET (Data \union {Null})]
      /\ \A l \in Loaders : Using(l) => seen[l] \subseteq seen'[l]
      /\ \A l \in Loaders : ~Using(l) => seen'[l] = seen[l]
  BY <1>1, WatchGrows DEF IInv, TypeOK, Using
<1>3. TypeOK'
  BY <1>1, <1>2 DEF IInv, TypeOK
<1>4. Held' = Held /\ Pooled' = {} /\ Opened' = Held /\ Opened' \subseteq Opened
  <2>1. Held' = Held
    BY <1>1 DEF Held
  <2>2. Pooled' = {}
    BY <1>1 DEF Pooled, ToSet
  <2>3. Opened' = Opened \ Pooled
    BY <1>1 DEF Opened, IInv, TypeOK
  <2> QED
    BY <2>1, <2>2, <2>3 DEF IInv, OnePlace
<1>5. OnePlace'
  BY <1>1, <1>4 DEF IInv, OnePlace, Using
<1>6. FewOpened'
  BY <1>4, FS_Subset, FS_CardinalityType, LoadersAssumption DEF IInv, FewOpened
<1>7. Recent'
  BY <1>1, <1>4 DEF IInv, Recent, OnePlace, Opened
<1>8. WillBeSeen'
  <2>1. ASSUME NEW l \in Loaders, lpc[l] = "read" PROVE view'[handle[l]] = view[handle[l]]
    BY <1>1, <2>1 DEF IInv, OnePlace, TypeOK, Using, Held
  <2> QED
    BY <1>1, <1>2, <2>1 DEF IInv, WillBeSeen, Using
<1> QED
  BY <1>3, <1>5, <1>6, <1>7, <1>8 DEF IInv

------------------------------------------------------------------------------
(* The pool as a set, when a handle is put on its back or taken from it.   *)
LEMMA ToSetAppend ==
  ASSUME NEW s \in Seq(Handles), NEW h \in Handles
  PROVE  /\ ToSet(Append(s, h)) = ToSet(s) \union {h}
         /\ ToSet(s) \subseteq Handles
<1>1. /\ DOMAIN Append(s, h) = DOMAIN s \union {Len(s) + 1} /\ Append(s, h)[Len(s) + 1] = h
      /\ \A i \in DOMAIN s : Append(s, h)[i] = s[i]
  OBVIOUS
<1>2. ToSet(s) \subseteq Handles
  BY DEF ToSet
<1> QED
  BY <1>1, <1>2, Zenon DEF ToSet

LEMMA ToSetFront ==
  ASSUME NEW s \in Seq(Handles), s # <<>>, \A i, j \in DOMAIN s : s[i] = s[j] => i = j
  PROVE  /\ Last(s) \in ToSet(s) /\ Last(s) \in Handles
         /\ Front(s) \in Seq(Handles)
         /\ ToSet(Front(s)) = ToSet(s) \ {Last(s)}
         /\ \A i, j \in DOMAIN Front(s) : Front(s)[i] = Front(s)[j] => i = j
<1> DEFINE n == Len(s)
<1>1. n \in Nat /\ n > 0 /\ DOMAIN s = 1 .. n /\ Last(s) = s[n] /\ s[n] \in Handles
  BY DEF Last
<1>2. /\ Front(s) \in Seq(Handles) /\ DOMAIN Front(s) = 1 .. n - 1
      /\ \A i \in 1 .. n - 1 : Front(s)[i] = s[i]
  BY <1>1 DEF Front
<1>3. ToSet(Front(s)) = ToSet(s) \ {s[n]}
  <2>1. ToSet(Front(s)) = {s[i] : i \in 1 .. n - 1}
    BY <1>1, <1>2 DEF ToSet
  <2>2. ToSet(s) = {s[i] : i \in 1 .. n}
    BY <1>1 DEF ToSet
  <2>3. \A i \in 1 .. n - 1 : s[i] # s[n]
    BY <1>1
  <2>4. 1 .. n = (1 .. n - 1) \union {n}
    <3>1. \A m \in Nat : m > 0 => 1 .. m = (1 .. m - 1) \union {m}
      OBVIOUS
    <3> QED
      BY <1>1, <3>1
  <2> QED
    BY <2>1, <2>2, <2>3, <2>4, Zenon
<1>4. s[n] \in ToSet(s)
  BY <1>1 DEF ToSet
<1> QED
  BY <1>1, <1>2, <1>3, <1>4

(* A load that begins by taking handle h: from the pool, or opened for it. *)
LEMMA TakeKeeps ==
  ASSUME IInv, Watch,
         NEW l \in Loaders, ~Using(l), NEW f \in Files, NEW h \in Handles,
         UNCHANGED <<archive, overtaken, answer>>, Take(l, h),
         file' = [file EXCEPT ![l] = f],
         pool' \in Seq(Handles), view' \in [Handles -> Contents \union {Null}],
         \A i, j \in DOMAIN pool' : pool'[i] = pool'[j] => i = j,
         h \notin Held, Pooled' = Pooled \ {h}, Opened' = Opened \union {h}, FewOpened',
         \A k \in Opened : view'[k] = view[k],
         \/ h \in Opened /\ excused' = [excused EXCEPT ![l] = h \in overtaken]
         \/ view'[h] = disk /\ excused' = [excused EXCEPT ![l] = FALSE]
  PROVE  IInv'
<1>1. /\ UNCHANGED <<disk, zip, wpc, promised, overtaken, answer>>
      /\ handle' = [handle EXCEPT ![l] = h] /\ lpc' = [lpc EXCEPT ![l] = "read"]
  BY DEF archive, Take
<1>2. /\ seen' \in [Loaders -> SUBSET (Data \union {Null})]
      /\ \A k \in Loaders : Using(k) => seen[k] \subseteq seen'[k]
      /\ \A k \in Loaders : ~Using(k) /\ lpc'[k] # "read" => seen'[k] = seen[k]
      /\ \A k \in Loaders : ~Using(k) /\ lpc'[k] = "read" =>
           seen'[k] = {Found(promised[file'[k]]), Found(disk[file'[k]])}
  <2>1. \A k \in Loaders : ~Using(k) /\ lpc'[k] = "read" => k = l
    BY <1>1 DEF IInv, TypeOK, Using
  <2>2. \A k \in Loaders : ~Using(k) /\ lpc'[k] = "read" => file'[k] \in Files
    BY <2>1 DEF IInv, TypeOK
  <2> QED
    BY <1>1, <2>2, WatchGrows DEF IInv, TypeOK
<1>3. TypeOK'
  <2>1. excused' \in [Loaders -> BOOLEAN]
    <3>1. CASE excused' = [excused EXCEPT ![l] = FALSE]
      BY <3>1 DEF IInv, TypeOK
    <3>2. CASE excused' = [excused EXCEPT ![l] = h \in overtaken]
      <4>1. (h \in overtaken) \in BOOLEAN
        OBVIOUS
      <4> QED
        BY <3>2, <4>1 DEF IInv, TypeOK
    <3> QED
      BY <3>1, <3>2
  <2> QED
    BY <1>1, <1>2, <2>1 DEF IInv, TypeOK
<1>4. Held' = Held \union {h}
  <2>1. handle[l] = Null
    BY DEF IInv, OnePlace
  <2> QED
    BY <1>1, <2>1, HandlesAssumption DEF Held, IInv, TypeOK
<1>5. OnePlace'
  <2>1. \A k \in Loaders : Using(k)' <=> Using(k) \/ k = l
    BY <1>1 DEF IInv, TypeOK, Using
  <2>2. \A k \in Loaders : Using(k) => k # l /\ handle[k] \in Held /\ handle'[k] = handle[k] /\ handle[k] # h
    BY <1>1 DEF IInv, TypeOK, OnePlace, Held
  <2>3. handle'[l] = h /\ h # Null
    BY <1>1, HandlesAssumption DEF IInv, TypeOK
  <2>4. \A k \in Loaders : Using(k)' <=> handle'[k] # Null
    BY <1>1, <2>1, <2>3 DEF IInv, TypeOK, OnePlace
  <2>5. \A k \in Loaders : Using(k)' => file'[k] \in Files
    BY <2>1 DEF IInv, TypeOK, OnePlace
  <2>6. \A j, k \in Loaders : Using(j)' /\ Using(k)' /\ handle'[j] = handle'[k] => j = k
    BY <2>1, <2>2, <2>3 DEF IInv, OnePlace
  <2>7. Opened' = Pooled' \union Held' /\ Pooled' \intersect Held' = {}
    BY <1>4 DEF IInv, OnePlace
  <2> QED
    BY <2>4, <2>5, <2>6, <2>7 DEF OnePlace
<1>6. Recent'
  <2>1. ASSUME NEW k \in Opened' \ overtaken'
        PROVE  view'[k] = disk \/ (wpc = "written" /\ view'[k] = promised)
    BY <1>1, <2>1 DEF IInv, Recent
  <2> QED
    BY <1>1, <2>1 DEF IInv, Recent
<1>7. WillBeSeen'
  <2>1. ASSUME NEW k \in Loaders, ~excused'[k], k # l
        PROVE  /\ lpc'[k] = "read" => Found(view'[handle'[k]][file'[k]]) \in seen'[k]
               /\ lpc'[k] \in {"release", "done"} => answer'[k] \in seen'[k]
    <3>1. /\ lpc'[k] = lpc[k] /\ handle'[k] = handle[k] /\ file'[k] = file[k]
          /\ answer'[k] = answer[k] /\ ~excused[k]
      BY <1>1, <2>1 DEF IInv, TypeOK
    <3>2. Using(k) => view'[handle[k]] = view[handle[k]] /\ seen[k] \subseteq seen'[k]
      BY <1>2, <3>1 DEF IInv, OnePlace, Held, TypeOK
    <3>3. ~Using(k) => seen'[k] = seen[k]
      BY <1>2, <3>1 DEF Using
    <3> QED
      BY <3>1, <3>2, <3>3 DEF IInv, WillBeSeen, Using
  <2>2. ASSUME ~excused'[l] PROVE Found(view'[h][f]) \in seen'[l]
    <3>1. view'[h] = disk \/ (h \in Opened /\ h \notin overtaken)
      BY <2>2 DEF IInv, TypeOK
    <3>2. view'[h] = disk \/ view'[h] = promised
      BY <3>1 DEF IInv, Recent
    <3>3. seen'[l] = {Found(promised[f]), Found(disk[f])}
      BY <1>1, <1>2 DEF IInv, TypeOK
    <3> QED
      BY <3>2, <3>3
  <2>3. lpc'[l] = "read" /\ handle'[l] = h /\ file'[l] = f
    BY <1>1 DEF IInv, TypeOK
  <2> QED
    BY <2>1, <2>2, <2>3 DEF WillBeSeen
<1> QED
  BY <1>3, <1>5, <1>6, <1>7 DEF IInv

LEMMA TakePooledKeeps ==
  ASSUME NEW l \in Loaders, NEW f \in Files, IInv, Watch, GetZipHandle(l, f), TakePooled(l)
  PROVE  IInv'
<1> DEFINE h == Last(pool)
<1>1. /\ UNCHANGED <<archive, overtaken, view, answer>> /\ ~Using(l) /\ Take(l, h)
      /\ file' = [file EXCEPT ![l] = f]
      /\ pool # <<>> /\ pool' = Front(pool)
      /\ excused' = [excused EXCEPT ![l] = h \in overtaken]
  BY DEF GetZipHandle, TakePooled, Using
<1>2. /\ h \in Pooled /\ h \in Handles /\ pool' \in Seq(Handles)
      /\ Pooled' = Pooled \ {h}
      /\ \A i, j \in DOMAIN pool' : pool'[i] = pool'[j] => i = j
  BY <1>1, ToSetFront DEF IInv, TypeOK, OnePlace, Pooled
<1>3. h \notin Held /\ h \in Opened
  BY <1>2 DEF IInv, OnePlace
<1>4. Opened' = Opened
  BY <1>1 DEF Opened
<1>5. FewOpened'
  BY <1>4 DEF IInv, FewOpened
<1>6. view' \in [Handles -> Contents \union {Null}] /\ \A k \in Opened : view'[k] = view[k]
  BY <1>1 DEF IInv, TypeOK
<1>7. Opened' = Opened \union {h}
  BY <1>3, <1>4
<1>8. h \in Opened /\ excused' = [excused EXCEPT ![l] = h \in overtaken]
  BY <1>1, <1>3
<1>9. UNCHANGED <<archive, overtaken, answer>>
  BY <1>1
<1> HIDE DEF h
<1> QED
  BY <1>1, <1>2, <1>3, <1>5, <1>6, <1>7, <1>8, <1>9, TakeKeeps

(* With an empty pool every open handle is in use by another load.         *)
LEMMA OpenAnotherKeeps ==
  ASSUME NEW l \in Loaders, NEW f \in Files, IInv, Watch, GetZipHandle(l, f), OpenAnother(l)
  PROVE  IInv'
<1>1. PICK h \in Handles :
        /\ view[h] = Null /\ view' = [view EXCEPT ![h] = disk] /\ Take(l, h)
        /\ pool = <<>> /\ UNCHANGED <<pool, answer>>
        /\ excused' = [excused EXCEPT ![l] = FALSE]
  BY DEF OpenAnother
<1>2. UNCHANGED <<archive, overtaken, answer>> /\ ~Using(l) /\ file' = [file EXCEPT ![l] = f]
  BY <1>1 DEF GetZipHandle, Using
<1>3. Pooled = {} /\ Pooled' = {}
  BY <1>1 DEF Pooled, ToSet
<1>4. h \notin Opened /\ h \notin Held
  BY <1>1 DEF IInv, OnePlace, Opened
<1>5. disk \in Contents /\ disk # Null
  BY HandlesAssumption DEF IInv, TypeOK
<1>6. /\ view' \in [Handles -> Contents \union {Null}] /\ view'[h] = disk
      /\ \A k \in Opened : view'[k] = view[k]
  BY <1>1, <1>4, <1>5 DEF IInv, TypeOK
<1>7. Opened' = Opened \union {h}
  BY <1>1, <1>5 DEF IInv, TypeOK, Opened
<1>8. FewOpened'
  <2> DEFINE others == {k \in Loaders : Using(k)}
             taken == [k \in others |-> handle[k]]
  <2>1. Opened = Held
    BY <1>3 DEF IInv, OnePlace
  <2>2. IsFiniteSet(others) /\ l \notin others /\ others \union {l} \in SUBSET Loaders
    BY <1>2, LoadersAssumption, FS_Subset
  <2>3. taken \in Surjection(others, Held)
    BY DEF IInv, OnePlace, Held, Surjection
  <2>4. IsFiniteSet(Held) /\ Cardinality(Held) <= Cardinality(others)
    BY <2>2, <2>3, FS_Surjection
  <2>5. Cardinality(others \union {l}) = Cardinality(others) + 1
    BY <2>2, FS_AddElement
  <2>6. Cardinality(others \union {l}) <= Cardinality(Loaders)
    BY <2>2, LoadersAssumption, FS_Subset
  <2>7. /\ IsFiniteSet(Opened \union {h})
        /\ Cardinality(Opened \union {h}) = Cardinality(Held) + 1
    BY <1>4, <2>1, <2>4, FS_AddElement
  <2>8. Cardinality(Held) \in Nat /\ Cardinality(others) \in Nat /\ Cardinality(Loaders) \in Nat
    BY <2>2, <2>4, LoadersAssumption, FS_CardinalityType
  <2> QED
    BY <1>7, <2>4, <2>5, <2>6, <2>7, <2>8 DEF FewOpened
<1>9. \A i, j \in DOMAIN pool' : pool'[i] = pool'[j] => i = j
  BY <1>1
<1>10. view'[h] = disk /\ excused' = [excused EXCEPT ![l] = FALSE]
  BY <1>1, <1>6
<1>11. pool' \in Seq(Handles) /\ Pooled' = Pooled \ {h}
  BY <1>1, <1>3 DEF IInv, TypeOK
<1> QED
  BY <1>1, <1>2, <1>4, <1>6, <1>7, <1>8, <1>9, <1>10, <1>11, TakeKeeps

LEMMA OpenFailsKeeps ==
  ASSUME NEW l \in Loaders, NEW f \in Files, IInv, Watch, GetZipHandle(l, f), OpenFails(l)
  PROVE  IInv'
<1>1. /\ UNCHANGED <<disk, zip, wpc, promised, overtaken, pool, view, handle>>
      /\ ~Using(l) /\ file' = [file EXCEPT ![l] = f]
      /\ lpc' = [lpc EXCEPT ![l] = "done"] /\ answer' = [answer EXCEPT ![l] = Null]
      /\ excused' = [excused EXCEPT ![l] = TRUE]
  BY DEF GetZipHandle, OpenFails, Using, archive
<1>2. \A k \in Loaders : /\ Using(k)' <=> Using(k)
                         /\ lpc'[k] = "read" => lpc[k] = "read"
  BY <1>1 DEF IInv, TypeOK, Using
<1>3. /\ seen' \in [Loaders -> SUBSET (Data \union {Null})]
      /\ \A k \in Loaders : Using(k) => seen[k] \subseteq seen'[k]
      /\ \A k \in Loaders : ~Using(k) => seen'[k] = seen[k]
  BY <1>1, <1>2, WatchGrows DEF IInv, TypeOK, Using
<1>4. TypeOK'
  BY <1>1, <1>3 DEF IInv, TypeOK
<1>5. OnePlace' /\ FewOpened' /\ Recent'
  BY <1>1, <1>2 DEF IInv, TypeOK, OnePlace, FewOpened, Recent, Opened, Pooled, Held
<1>6. WillBeSeen'
  BY <1>1, <1>2, <1>3 DEF IInv, TypeOK, WillBeSeen, Using
<1> QED
  BY <1>4, <1>5, <1>6 DEF IInv

LEMMA ReadKeeps == ASSUME NEW l \in Loaders PROVE IInv /\ Watch /\ Read(l) => IInv'
<1> SUFFICES ASSUME IInv, Watch, Read(l) PROVE IInv'
  OBVIOUS
<1>1. /\ UNCHANGED <<disk, zip, wpc, promised, overtaken, pool, view, file, handle>>
      /\ lpc[l] = "read" /\ lpc' = [lpc EXCEPT ![l] = "release"]
      /\ \/ /\ answer' = [answer EXCEPT ![l] = Found(view[handle[l]][file[l]])]
            /\ UNCHANGED excused
         \/ /\ \E a \in {Null, Zeros} : answer' = [answer EXCEPT ![l] = a]
            /\ excused' = [excused EXCEPT ![l] = TRUE]
  BY DEF Read, archive, handles
<1>2. \A k \in Loaders : /\ Using(k)' <=> Using(k)
                         /\ lpc'[k] = "read" => lpc[k] = "read"
  BY <1>1 DEF IInv, TypeOK, Using
<1>3. /\ seen' \in [Loaders -> SUBSET (Data \union {Null})]
      /\ \A k \in Loaders : Using(k) => seen[k] \subseteq seen'[k]
      /\ \A k \in Loaders : ~Using(k) => seen'[k] = seen[k]
  BY <1>1, <1>2, WatchGrows DEF IInv, TypeOK, Using
<1>4. Found(view[handle[l]][file[l]]) \in Data \union {Null}
  <2>1. handle[l] \in Opened /\ file[l] \in Files
    BY <1>1, HandlesAssumption DEF IInv, TypeOK, OnePlace, Held, Using
  <2>2. view[handle[l]] \in Contents
    BY <2>1 DEF IInv, TypeOK, Opened
  <2>3. view[handle[l]][file[l]] \in Data \union {Absent}
    BY <2>1, <2>2 DEF Contents
  <2> QED
    BY <2>3, FoundIsAnswer
<1>5. TypeOK'
  BY <1>1, <1>3, <1>4 DEF IInv, TypeOK
<1>6. OnePlace' /\ FewOpened' /\ Recent'
  BY <1>1, <1>2 DEF IInv, TypeOK, OnePlace, FewOpened, Recent, Opened, Pooled, Held
<1>7. WillBeSeen'
  <2>1. ASSUME NEW k \in Loaders, k # l, ~excused'[k]
        PROVE  /\ lpc'[k] = "read" => Found(view'[handle'[k]][file'[k]]) \in seen'[k]
               /\ lpc'[k] \in {"release", "done"} => answer'[k] \in seen'[k]
    <3>1. lpc'[k] = lpc[k] /\ answer'[k] = answer[k] /\ ~excused[k]
      BY <1>1, <2>1 DEF IInv, TypeOK
    <3> QED
      BY <1>1, <1>3, <3>1 DEF IInv, WillBeSeen, Using
  <2>2. ASSUME ~excused'[l] PROVE lpc'[l] = "release" /\ answer'[l] \in seen'[l]
    <3>1. ~excused[l] /\ answer'[l] = Found(view[handle[l]][file[l]]) /\ lpc'[l] = "release"
      BY <1>1, <2>2 DEF IInv, TypeOK
    <3> QED
      BY <1>1, <1>3, <3>1 DEF IInv, WillBeSeen, Using
  <2> QED
    BY <2>1, <2>2 DEF WillBeSeen
<1> QED
  BY <1>5, <1>6, <1>7 DEF IInv

LEMMA ReleaseKeeps == ASSUME NEW l \in Loaders PROVE IInv /\ Watch /\ ReleaseZipHandle(l) => IInv'
<1> SUFFICES ASSUME IInv, Watch, ReleaseZipHandle(l) PROVE IInv'
  OBVIOUS
<1> DEFINE h == handle[l]
<1>1. /\ UNCHANGED <<disk, zip, wpc, promised, overtaken, view, file, answer, excused>>
      /\ lpc[l] = "release" /\ lpc' = [lpc EXCEPT ![l] = "done"]
      /\ pool' = Append(pool, h) /\ handle' = [handle EXCEPT ![l] = Null]
  BY DEF ReleaseZipHandle, archive
<1>2. h \in Handles /\ h \in Held /\ h \notin Pooled
  BY <1>1, HandlesAssumption DEF IInv, TypeOK, OnePlace, Held, Using
<1>3. \A k \in Loaders : /\ Using(k)' <=> Using(k) /\ k # l
                         /\ lpc'[k] = "read" => lpc[k] = "read"
  BY <1>1 DEF IInv, TypeOK, Using
<1>4. /\ seen' \in [Loaders -> SUBSET (Data \union {Null})]
      /\ \A k \in Loaders : Using(k) => seen[k] \subseteq seen'[k]
      /\ \A k \in Loaders : ~Using(k) => seen'[k] = seen[k]
  BY <1>1, <1>3, WatchGrows DEF IInv, TypeOK, Using
<1>5. TypeOK'
  <2>1. pool' \in Seq(Handles) /\ handle' \in [Loaders -> Handles \union {Null}]
    BY <1>1, <1>2 DEF IInv, TypeOK
  <2> QED
    BY <1>1, <1>4, <2>1 DEF IInv, TypeOK
<1>6. Pooled' = Pooled \union {h} /\ Held' = Held \ {h}
  <2>1. Pooled' = Pooled \union {h}
    BY <1>1, <1>2, ToSetAppend DEF IInv, TypeOK, Pooled
  <2>2. \A k \in Loaders : k # l => handle'[k] = handle[k] /\ (handle[k] # Null => handle[k] # h)
    BY <1>1 DEF IInv, TypeOK, OnePlace, Using
  <2>3. handle'[l] = Null
    BY <1>1 DEF IInv, TypeOK
  <2> QED
    BY <2>1, <2>2, <2>3 DEF Held
<1>7. \A i, j \in DOMAIN pool' : pool'[i] = pool'[j] => i = j
  <2>1. /\ DOMAIN pool' = DOMAIN pool \union {Len(pool) + 1} /\ pool'[Len(pool) + 1] = h
        /\ \A i \in DOMAIN pool : pool'[i] = pool[i] /\ pool[i] \in Pooled
    BY <1>1, <1>2 DEF IInv, TypeOK, Pooled, ToSet
  <2> QED
    BY <1>2, <2>1, Zenon DEF IInv, OnePlace
<1>8. OnePlace'
  <2>1. \A k \in Loaders : k # l => handle'[k] = handle[k]
    BY <1>1 DEF IInv, TypeOK
  <2>2. handle'[l] = Null
    BY <1>1 DEF IInv, TypeOK
  <2>3. Opened' = Pooled' \union Held' /\ Pooled' \intersect Held' = {}
    BY <1>1, <1>2, <1>6 DEF IInv, OnePlace, Opened
  <2> QED
    BY <1>1, <1>3, <1>7, <2>1, <2>2, <2>3 DEF IInv, OnePlace
<1>9. FewOpened' /\ Recent'
  BY <1>1 DEF IInv, FewOpened, Recent, Opened
<1>10. WillBeSeen'
  <2>1. ASSUME NEW k \in Loaders, ~excused'[k]
        PROVE  /\ lpc'[k] = "read" => Found(view'[handle'[k]][file'[k]]) \in seen'[k]
               /\ lpc'[k] \in {"release", "done"} => answer'[k] \in seen'[k]
    <3>1. /\ ~excused[k] /\ answer'[k] = answer[k]
          /\ k # l => lpc'[k] = lpc[k] /\ handle'[k] = handle[k]
          /\ k = l => lpc'[k] = "done"
      BY <1>1, <2>1 DEF IInv, TypeOK
    <3> QED
      BY <1>1, <1>4, <3>1 DEF IInv, WillBeSeen, Using
  <2> QED
    BY <2>1 DEF WillBeSeen
<1> QED
  BY <1>5, <1>8, <1>9, <1>10 DEF IInv

------------------------------------------------------------------------------
LEMMA InitEstablishes == Init => IInv
<1> SUFFICES ASSUME Init PROVE IInv
  OBVIOUS
<1>1. TypeOK
  BY DEF Init, TypeOK
<1>2. Opened = {} /\ Pooled = {} /\ Held = {}
  BY DEF Init, Opened, Pooled, Held, ToSet
<1>3. OnePlace
  BY <1>2 DEF Init, OnePlace, Using
<1>4. FewOpened
  BY <1>2, LoadersAssumption, FS_EmptySet, FS_CardinalityType DEF FewOpened
<1>5. Recent /\ WillBeSeen
  BY <1>2 DEF Init, Recent, WillBeSeen
<1> QED
  BY <1>1, <1>3, <1>4, <1>5 DEF IInv

LEMMA NextKeeps == IInv /\ [Next]_vars => IInv'
<1> SUFFICES ASSUME IInv, [Next]_vars PROVE IInv'
  OBVIOUS
<1>1. CASE Next
  <2>1. Watch /\ Step
    BY <1>1 DEF Next
  <2>2. CASE Open
    BY <2>1, <2>2, OpenKeeps
  <2>3. CASE Close
    BY <2>1, <2>3, CloseKeeps
  <2>4. CASE \E f \in Files, d \in Data : WriteFile(f, d)
    BY <2>1, <2>4, WriteKeeps
  <2>5. CASE EmptyPool
    BY <2>1, <2>5, EmptyPoolKeeps
  <2>6. CASE Reopen
    BY <2>1, <2>6, ReopenKeeps
  <2>7. ASSUME NEW l \in Loaders, NEW f \in Files, GetZipHandle(l, f) PROVE IInv'
    <3>1. TakePooled(l) \/ OpenAnother(l) \/ OpenFails(l)
      BY <2>7 DEF GetZipHandle
    <3> QED
      BY <2>1, <2>7, <3>1, TakePooledKeeps, OpenAnotherKeeps, OpenFailsKeeps
  <2>8. ASSUME NEW l \in Loaders, Read(l) PROVE IInv'
    BY <2>1, <2>8, ReadKeeps
  <2>9. ASSUME NEW l \in Loaders, ReleaseZipHandle(l) PROVE IInv'
    BY <2>1, <2>9, ReleaseKeeps
  <2> QED
    BY <2>1, <2>2, <2>3, <2>4, <2>5, <2>6, <2>7, <2>8, <2>9 DEF Step
<1>2. CASE UNCHANGED vars
  BY <1>2 DEF vars, archive, handles, loads, IInv, TypeOK, OnePlace, FewOpened, Recent, WillBeSeen,
              Opened, Pooled, Held, Using
<1> QED
  BY <1>1, <1>2

(* The invariant the two properties rest on: each open handle is in one    *)
(* place, and reads an archive no older than the last write, but for those *)
(* a WriteFile overtook.                                                   *)
THEOREM IInvHolds == Spec => []IInv
  BY InitEstablishes, NextKeeps, PTL DEF Spec

(* No handle is lost, used twice or closed in use, and a load opens one    *)
(* only when the others use all there are: never more than loads at once.  *)
THEOREM HandlesSoundHolds == Spec => []HandlesSound
<1>1. IInv => HandlesSound
  <2> SUFFICES ASSUME IInv PROVE HandlesSound
    OBVIOUS
  <2>1. Cardinality(Pooled) = Len(pool)
    <3>1. pool \in Bijection(1 .. Len(pool), Pooled)
      BY DEF IInv, TypeOK, OnePlace, Pooled, ToSet, Bijection, Injection, Surjection, IsInjective
    <3>2. IsFiniteSet(1 .. Len(pool)) /\ Cardinality(1 .. Len(pool)) = Len(pool)
      BY FS_Interval DEF IInv, TypeOK
    <3> QED
      BY <3>1, <3>2, FS_Bijection DEF ExistsBijection
  <2>2. Cardinality(Held) = Cardinality({l \in Loaders : Using(l)})
    <3> DEFINE users == {l \in Loaders : Using(l)}
               taken == [l \in users |-> handle[l]]
    <3>1. taken \in Bijection(users, Held)
      BY DEF IInv, TypeOK, OnePlace, Held, Bijection, Injection, Surjection, IsInjective
    <3>2. IsFiniteSet(users)
      BY LoadersAssumption, FS_Subset
    <3> QED
      BY <3>1, <3>2, FS_Bijection DEF ExistsBijection
  <2> QED
    BY <2>1, <2>2 DEF IInv, OnePlace, FewOpened, Opened, Using, HandlesSound
<1> QED
  BY <1>1, IInvHolds, PTL

(* A load finds the file as the last write left it, or as it came to be    *)
(* since, unless its handle was in use when a write emptied the pool.      *)
THEOREM ReadsLastWrittenHolds == Spec => []ReadsLastWritten
<1>1. IInv => ReadsLastWritten
  BY DEF IInv, WillBeSeen, ReadsLastWritten
<1> QED
  BY <1>1, IInvHolds, PTL
==============================================================================
