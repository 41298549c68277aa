-------------------------- MODULE MCArchiveManager ---------------------------
(* Instances of ArchiveManager for TLC: a zip and a folder, with two files *)
(* of which one lies in a directory.                                       *)
EXTENDS ArchiveManager

CONSTANTS zip, folder, p1, p2, f1, f2, data, v1, v2

MCPathOf == [a \in Archives |-> IF a = folder THEN p2 ELSE p1]
MCDirsOf == [f \in Files |-> IF f = f1 THEN {data} ELSE {}]

DiskOf(opens, files, v) == [opens |-> opens, files |-> files, version |-> v]

(* Archives with one file or both, of a valid version, an invalid one or   *)
(* none, and one that cannot be opened.                                    *)
VersionedDisks ==
  {DiskOf(TRUE, {f1, f2}, v1), DiskOf(TRUE, {f1}, v2),
   DiskOf(TRUE, {f2}, NoVersion), DiskOf(FALSE, {}, NoVersion)}
OneVersion == {v1}
==============================================================================
