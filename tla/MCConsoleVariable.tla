-------------------------- MODULE MCConsoleVariable --------------------------
(* Instances of ConsoleVariable for TLC.                                   *)
EXTENDS ConsoleVariable, TLC

a == <<"a">>
ab == <<"a", "b">>
cd == <<"c", "d">>

(* Two variables whose names may not coexist in a JSON object, and a       *)
(* colour in a block of its own.                                           *)
ThreeNames == {a, ab, cd}
ThreeKinds == [n \in ThreeNames |-> IF n = cd THEN {"colour"} ELSE {"plain"}]
ThreeBlocks == {a, <<"c">>}

(* Only the equality of values matters.                                    *)
Symmetry == Permutations(Values)

(* A behaviour has either the three variables and no updaters, or the      *)
(* updaters and the colour alone.                                          *)
VARIABLE focus

MCInit ==
  /\ Init
  /\ focus \in {"variables", "updates"}
  /\ focus = "updates" => \A n \in Names : legacy[n] = None

MCNext ==
  /\ Next
  /\ IF focus = "variables" THEN stage' # "updating"
     ELSE \A n \in Names : mVariables'[n] # None => n = cd
  /\ UNCHANGED focus

MCSpec == MCInit /\ [][MCNext]_<<vars, focus>>

Nested == {a, ab}
NestedKinds == [n \in Nested |-> {"plain"}]
==============================================================================
