--------------------------- MODULE MCEventSystem -----------------------------
(* Instances of EventSystem for TLC: how many listeners each of one or two *)
(* events may ever get.                                                    *)
EXTENDS EventSystem

ThreeAndOne == [e \in Events |-> IF e = 0 THEN 3 ELSE 1]
==============================================================================
