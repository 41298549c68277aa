---------------------------- MODULE MCZipHandles -----------------------------
(* Instances of ZipHandles for TLC.                                        *)
EXTENDS ZipHandles, TLC

CONSTANTS old, new

MCData == {old, new, Empty}
Symmetry == Permutations(Loaders) \union Permutations(Handles)
==============================================================================
