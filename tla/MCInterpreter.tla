---------------------------- MODULE MCInterpreter ----------------------------
(* Instances of Interpreter for TLC: one combiner samples one slot, another*)
(* both; tile 0 reads the first half of TMEM and tile 1 the second.        *)
EXTENDS Interpreter, TLC

CONSTANTS plain, dual, full, part, point, linear

MCModes == {[depth |-> FALSE, alpha |-> FALSE], [depth |-> TRUE, alpha |-> TRUE]}
MCFlatModes == {[depth |-> FALSE, alpha |-> FALSE]}
MCViews == {full, part}
MCWhole == [v \in MCViews |-> full]
MCCombiners == {plain, dual}
MCUsed == (plain :> {0}) @@ (dual :> {0, 1})
MCHw == {point, linear}
MCTileWords ==
  {[tile |-> 0, tmem |-> 0, hw |-> point, clamp |-> FALSE],
   [tile |-> 1, tmem |-> 1, hw |-> linear, clamp |-> FALSE],
   [tile |-> 1, tmem |-> 1, hw |-> linear, clamp |-> TRUE]}

(* Bounds: a behaviour uses more than one texture object, or more than one *)
(* view, depth test, framebuffer and first tile, or clamps in its shaders, *)
(* or edits an image.  It ends with a BreakInFb that drew something: but   *)
(* for that history it leaves what a ResetFb leaves, which goes on.        *)
OneTexture == pipe.cache.made <= 1 /\ loaded[1] \in {Nothing, loaded[0]}
OneState ==
  /\ view = full /\ first = 0 /\ pipe.seen \in {full, NoView}
  /\ ~pipe.gpu.depth /\ pipe.gpu.view = full /\ pipe.gpu.frame = Main
NoVariant == (\A t \in Tiles : ~tile[t].clamp) /\ \A g \in pipe.progs : g[2] = {}
NoEdit == \A k \in Images : edits[k] = 0
Focus ==
  /\ Stopped \notin pipe.bad
  /\ \/ OneTexture /\ NoVariant /\ NoEdit
     \/ OneState /\ NoVariant /\ NoEdit /\ pipe.seen = full
     \/ OneTexture /\ OneState /\ NoEdit
     \/ OneTexture /\ OneState /\ NoVariant
Symmetry == Permutations(Images)
==============================================================================
