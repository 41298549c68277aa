---------------------------- MODULE MCControllers ----------------------------
(* Instances of Controllers for TLC: a button, a stick with two directions, *)
(* rumble, LED and gyro; two keys and a gamepad input.                      *)
EXTENDS Controllers

CONSTANTS button, stick, left, up, key1, key2, pad

Button(input) == [holder |-> button, direction |-> None, input |-> input]
Stick(d, input) == [holder |-> stick, direction |-> d, input |-> input]

SomeDefaults == {Button(key1), Button(pad), Stick(left, key1)}

(* One of the orders the tables may have. *)
Place(x, order) == CHOOSE i \in DOMAIN order : order[i] = x

SomeRank ==
  [m \in Mappings |-> 100 * Place(m.holder, <<button, stick, Rumble, LED, Gyro>>)
                      + 10 * Place(m.direction, <<None, left, up>>)
                           + Place(m.input, <<key1, key2, pad, SDL>>)]
==============================================================================
