--------------------------- MODULE MCResourcePool ----------------------------
(* Instances of ResourcePool for TLC: every batch wants both files, of     *)
(* which one can be loaded.                                                *)
EXTENDS ResourcePool, TLC

CONSTANTS f1, f2

MCFiles == {f1, f2}
MCSound == {f1}
MCWants == [r \in Requests |-> IF r \in Singles THEN {f1} ELSE {f1, f2}]
Symmetry == Permutations(Workers) \union Permutations(Batches) \union Permutations(Singles)
==============================================================================
