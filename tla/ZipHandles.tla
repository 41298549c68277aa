----------------------------- MODULE ZipHandles ------------------------------
(***************************************************************************)
(* The zip handles of one O2rArchive                                       *)
(* (src/src/ship/resource/archive/O2rArchive.cpp): loads on any thread     *)
(* share a pool of read handles, while the game's thread opens, closes and *)
(* writes the archive by a handle of its own.  A handle is an address, and *)
(* what it reads is the archive as it was when the handle was opened.      *)
(***************************************************************************)
EXTENDS Naturals, Sequences, SequencesExt, FiniteSets

CONSTANTS
  Loaders, \* threads that call LoadFile
  Handles, \* addresses of zip_t
  Files,
  Data,    \* what can be written to a file
  Empty,   \* the data of size 0
  Absent,  \* the archive does not have the file
  Null,
  Zeros    \* the buffer of a file that zip_fread could not read

(* The archive: what each file has.                                        *)
Contents == [Files -> Data \union {Absent}]

ASSUME LoadersAssumption == IsFiniteSet(Loaders)
ASSUME HandlesAssumption == Null \notin Handles \union Contents
ASSUME DataAssumption == Empty \in Data /\ {Absent, Null, Zeros} \intersect Data = {}

VARIABLES
  disk,   \* what the archive on disk holds
  zip,    \* mZipArchive: "null", "open", or "dangling" once it is freed
  wpc,    \* where Close and WriteFile are
  pool,   \* mZipArchivePool, its back last
  view,   \* what each open handle reads; Null for the others
  lpc, file, handle, answer,
  undefined, \* mZipArchive was used after it was freed
  \* histories
  promised,  \* the archive when WriteFile or Close last returned
  overtaken, \* the handles in use when a WriteFile emptied the pool
  seen,      \* what each load may have found, from its beginning on
  excused    \* it failed, or had an overtaken handle

archive == <<disk, zip, wpc, promised>>
handles == <<pool, view, overtaken>>
loads == <<lpc, file, handle, answer, excused>>
vars == <<archive, handles, loads, seen, undefined>>

Init ==
  /\ disk \in Contents /\ promised = disk
  /\ zip = "null" /\ wpc = "idle"
  /\ pool = <<>> /\ view = [h \in Handles |-> Null] /\ overtaken = {}
  /\ lpc = [l \in Loaders |-> "idle"]
  /\ file = [l \in Loaders |-> Null] /\ handle = [l \in Loaders |-> Null]
  /\ answer = [l \in Loaders |-> Null]
  /\ seen = [l \in Loaders |-> {}] /\ excused = [l \in Loaders |-> FALSE]
  /\ undefined = FALSE

Pooled == ToSet(pool)
Held == {handle[l] : l \in Loaders} \ {Null}

(* What LoadFile makes of a file: one of no size counts as missing.        *)
Found(contents) == IF contents \in {Absent, Empty} THEN Null ELSE contents

------------------------------------------------------------------------------
(* The game's thread.  Archive::Load calls Open, Archive::Unload Close.    *)
Reopened == zip' \in {"open", "null"}

Open ==
  /\ wpc = "idle" /\ Reopened
  /\ UNCHANGED <<disk, wpc, promised, handles, loads, undefined>>

Close ==
  /\ wpc = "idle"
  /\ IF zip = "dangling" THEN undefined' = TRUE /\ UNCHANGED <<zip, wpc>>
     ELSE zip' = "null" /\ wpc' = "closing" /\ UNCHANGED undefined
  /\ UNCHANGED <<disk, promised, handles, loads>>

(* WriteFile up to zip_close, which writes a new file in the old one's     *)
(* place.  If it fails, zip_discard frees the handle all the same.         *)
WriteFile(f, d) ==
  /\ wpc = "idle" /\ zip # "null"
  /\ IF zip = "dangling" THEN undefined' = TRUE /\ UNCHANGED <<disk, zip, wpc>>
     ELSE /\ zip' = "dangling"
          /\ \/ disk' = [disk EXCEPT ![f] = d] /\ wpc' = "written"
             \/ UNCHANGED <<disk, wpc>>
          /\ UNCHANGED undefined
  /\ UNCHANGED <<promised, handles, loads>>

(* Behind either's loop over the pool.                                     *)
Emptied ==
  /\ wpc' = IF wpc = "closing" THEN "idle" ELSE "emptied"
  /\ overtaken' = IF wpc = "written" THEN Held ELSE overtaken \ Pooled
  /\ promised' = IF wpc = "closing" THEN disk ELSE promised
  /\ UNCHANGED <<disk, zip, loads, undefined>>

(* Mutant of EmptyPool: WriteFile leaves the pool as it is.                *)
EmptyPoolOnClose ==
  /\ wpc \in {"closing", "written"}
  /\ IF wpc = "written" THEN UNCHANGED <<pool, view>>
     ELSE pool' = <<>> /\ view' = [h \in Handles |-> IF h \in Pooled THEN Null ELSE view[h]]
  /\ Emptied

(* Both close the pooled handles; one that a load uses is not among them.  *)
EmptyPool ==
  /\ wpc \in {"closing", "written"}
  /\ pool' = <<>>
  /\ view' = [h \in Handles |-> IF h \in Pooled THEN Null ELSE view[h]]
  /\ Emptied

Reopen ==
  /\ wpc = "emptied" /\ Reopened
  /\ wpc' = "idle" /\ promised' = disk
  /\ UNCHANGED <<disk, handles, loads, undefined>>

------------------------------------------------------------------------------
(* A load.  GetZipHandle takes the pool's last handle or opens another.    *)
Take(l, h) == handle' = [handle EXCEPT ![l] = h] /\ lpc' = [lpc EXCEPT ![l] = "read"]

(* Mutant of TakePooled: back() without pop_back().                        *)
TakePooledLeaving(l) ==
  /\ pool # <<>> /\ Take(l, Last(pool))
  /\ excused' = [excused EXCEPT ![l] = Last(pool) \in overtaken]
  /\ UNCHANGED <<pool, view, answer>>

TakePooled(l) ==
  /\ pool # <<>> /\ Take(l, Last(pool))
  /\ pool' = Front(pool)
  /\ excused' = [excused EXCEPT ![l] = Last(pool) \in overtaken]
  /\ UNCHANGED <<view, answer>>

OpenAnother(l) ==
  /\ pool = <<>>
  /\ \E h \in Handles :
       /\ view[h] = Null
       /\ view' = [view EXCEPT ![h] = disk]
       /\ Take(l, h)
  /\ excused' = [excused EXCEPT ![l] = FALSE]
  /\ UNCHANGED <<pool, answer>>

OpenFails(l) ==
  /\ pool = <<>>
  /\ lpc' = [lpc EXCEPT ![l] = "done"]
  /\ answer' = [answer EXCEPT ![l] = Null]
  /\ excused' = [excused EXCEPT ![l] = TRUE]
  /\ UNCHANGED <<pool, view, handle>>

GetZipHandle(l, f) ==
  /\ lpc[l] \in {"idle", "done"}
  /\ file' = [file EXCEPT ![l] = f]
  /\ TakePooled(l) \/ OpenAnother(l) \/ OpenFails(l)
  /\ UNCHANGED <<archive, overtaken, undefined>>

(* Finding, opening or reading the entry may fail, and a file that could   *)
(* not be read is returned as loaded.                                      *)
Read(l) ==
  /\ lpc[l] = "read"
  /\ lpc' = [lpc EXCEPT ![l] = "release"]
  /\ \/ /\ answer' = [answer EXCEPT ![l] = Found(view[handle[l]][file[l]])]
        /\ UNCHANGED excused
     \/ /\ answer' \in {[answer EXCEPT ![l] = a] : a \in {Null, Zeros}}
        /\ excused' = [excused EXCEPT ![l] = TRUE]
  /\ UNCHANGED <<archive, handles, file, handle, undefined>>

ReleaseZipHandle(l) ==
  /\ lpc[l] = "release"
  /\ pool' = Append(pool, handle[l])
  /\ handle' = [handle EXCEPT ![l] = Null]
  /\ lpc' = [lpc EXCEPT ![l] = "done"]
  /\ UNCHANGED <<archive, view, overtaken, file, answer, excused, undefined>>

Step ==
  \/ Open \/ Close \/ (\E f \in Files, d \in Data : WriteFile(f, d)) \/ EmptyPool \/ Reopen
  \/ \E l \in Loaders : (\E f \in Files : GetZipHandle(l, f)) \/ Read(l) \/ ReleaseZipHandle(l)

(* A load may find what was promised when it began, and whatever the       *)
(* archive has held since.                                                 *)
Watch ==
  seen' = [l \in Loaders |->
             IF lpc[l] \in {"read", "release"} THEN seen[l] \union {Found(disk'[file[l]])}
             ELSE IF lpc'[l] = "read" THEN {Found(promised[file'[l]]), Found(disk[file'[l]])}
             ELSE seen[l]]

Next == ~undefined /\ Step /\ Watch

Spec == Init /\ [][Next]_vars

------------------------------------------------------------------------------
(* A handle is used by one load or waits in the pool for one, once; it is  *)
(* open as long, and no other is: none leaks, and there are never more     *)
(* than loads at a time.                                                   *)
HandlesSound ==
  LET opened == {h \in Handles : view[h] # Null}
  IN  /\ opened = Pooled \union Held /\ Pooled \intersect Held = {}
      /\ Cardinality(Pooled) = Len(pool)
      /\ Cardinality(Held) = Cardinality({l \in Loaders : lpc[l] \in {"read", "release"}})
      /\ Cardinality(opened) <= Cardinality(Loaders)

(* "Clear the pool as the file on disk has likely changed": a load finds   *)
(* the file as it was when the last WriteFile had returned, or as it came  *)
(* to be since, unless its handle was in use when WriteFile emptied the    *)
(* pool: that one is put back, and reads the archive that was replaced.    *)
ReadsLastWritten == \A l \in Loaders : lpc[l] = "done" /\ ~excused[l] => answer[l] \in seen[l]
==============================================================================
