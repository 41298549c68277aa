----------------------------- MODULE Interpreter -----------------------------
(***************************************************************************)
(* How Fast::Interpreter (src/src/fast/interpreter.cpp) turns RDP state    *)
(* into draw calls: triangles are buffered and drawn later, by whatever    *)
(* state the GPU has when the buffer is flushed.  An action is a display   *)
(* list command.  The commands come as the macros of gbi.h write them: a   *)
(* load, or an invalidation, is followed by SetTile before anything is     *)
(* drawn.  No image is a framebuffer mirror, masked or blended.            *)
(***************************************************************************)
EXTENDS TextureCache

CONSTANTS
  Modes,     \* [depth, alpha]: the render modes a display list sets
  FlatModes, \* those a rectangle can be drawn in, its geometry mode being 0
  Views,     \* pairs of viewport and scissor
  Whole,     \* the view a rectangle is drawn in, for each view
  NoView,    \* the zeroed copy of the viewport and the scissor
  Combiners, \* the keys of mColorCombinerPool
  Used,      \* the texture slots each combiner samples
  TileWords, \* SetTile commands: [tile, tmem, hw, clamp]
  Framebuffers,
  Main,      \* the one a frame begins in
  MaxTris,   \* MAX_TRI_BUFFER
  MaxEdits,  \* bound on the changes the game makes to its images
  Nothing    \* no image, no content, no program

Slots == {0, 1}
Tiles == 0 .. 2
Depths == {m.depth : m \in Modes}
Alphas == {m.alpha : m \in Modes}
Programs == Combiners \X SUBSET Slots
NoTile == [tile |-> 0, tmem |-> 0, hw |-> DefaultHw, clamp |-> FALSE]
Contents == Images \X (0 .. MaxEdits)

ASSUME ModeAssumption == FlatModes \subseteq Modes /\ \A m \in Modes : m = [depth |-> m.depth, alpha |-> m.alpha]
ASSUME ViewAssumption == Whole \in [Views -> Views] /\ NoView \notin Views
ASSUME CombinerAssumption == Used \in [Combiners -> SUBSET Slots]
ASSUME TileAssumption == TileWords \subseteq [tile : Tiles, tmem : {0, 1}, hw : Hw, clamp : BOOLEAN]
ASSUME MainAssumption == Main \in Framebuffers
ASSUME TriAssumption == MaxTris \in Nat \ {0} /\ MaxEdits \in Nat
ASSUME NothingAssumption == Nothing \notin Images \union Contents \union Programs

VARIABLES
  \* the RDP
  view,     \* viewport and scissor
  first,    \* first_tile_index
  tile,     \* texture_tile
  loaded,   \* the image in each half of TMEM
  \* the renderer: mBufVbo, mRenderingState, mTextureCache and the GPU
  pipe,
  \* the game
  edits,    \* how often it changed each image
  settled   \* history: SetTile came after the last load or invalidation

rdp == <<view, first, tile, loaded>>
rdpVars == <<rdp, pipe, edits, settled>>

(* What a triangle should be drawn with.                                   *)
Wants ==
  [depth : Depths, alpha : Alphas, view : Views, frame : Framebuffers, prog : Programs,
   tex : [Slots -> Contents \union {Nothing}], hw : [Slots -> Hw]]

Aspects == {"state", "frame", "texture", "sampler", "program"}
Late == "late"        \* a program was loaded with triangles in the buffer
Stopped == "stopped"  \* a breakpoint drew into another framebuffer than asked
Faults == Aspects \union {Late, Stopped}

Gpus ==
  [depth : Depths, alpha : Alphas, view : Views, frame : Framebuffers,
   prog : Programs \union {Nothing}, unit : [Slots -> 0 .. CacheSize],
   hw : [1 .. CacheSize -> Hw], content : [1 .. CacheSize -> Contents \union {Nothing}]]

Pipes ==
  [buffer : SUBSET Wants, count : 0 .. MaxTris - 1, bad : SUBSET Faults,
   changed : SUBSET Slots, viewChanged : BOOLEAN, seen : Views \union {NoView},
   progs : SUBSET Programs, cache : Caches, ptr : [Slots -> Images \union {Nothing}],
   gpu : Gpus]

RdpTypeOK ==
  /\ view \in Views
  /\ first \in {0, 1}
  /\ tile \in [Tiles -> TileWords \union {NoTile}]
  /\ loaded \in [{0, 1} -> Images \union {Nothing}]
  /\ pipe \in Pipes
  /\ edits \in [Images -> 0 .. MaxEdits]
  /\ settled \in BOOLEAN

(* The renderer at its first frame.  buffer and count are mBufVbo; changed *)
(* and viewChanged are textures_changed and viewport_or_scissor_changed;   *)
(* seen is mRenderingState's viewport and scissor, ptr its mTextures; progs*)
(* is mColorCombinerPool with the variants of its programs; bad is history:*)
(* what was wrong with the triangles drawn so far.                         *)
Fresh(m, v) ==
  [buffer |-> {}, count |-> 0, bad |-> {}, changed |-> {}, viewChanged |-> TRUE, seen |-> NoView,
   progs |-> {}, cache |-> EmptyCache, ptr |-> [i \in Slots |-> Nothing],
   gpu |-> [depth |-> m.depth, alpha |-> m.alpha, view |-> v, frame |-> Main, prog |-> Nothing,
            unit |-> [i \in Slots |-> 0],
            hw |-> [n \in 1 .. CacheSize |-> DefaultHw],
            content |-> [n \in 1 .. CacheSize |-> Nothing]]]

RdpInit ==
  /\ view \in Views
  /\ first = 0
  /\ tile = [t \in Tiles |-> NoTile]
  /\ loaded = [n \in {0, 1} |-> Nothing]
  /\ \E m \in Modes : pipe = Fresh(m, view)
  /\ edits = [k \in Images |-> 0]
  /\ settled = FALSE

------------------------------------------------------------------------------
(* Is aspect a of the GPU's state what triangle w should be drawn with?    *)
(* Two slots that show one texture object share its sampler: the second's. *)
Right(p, w, a) ==
  LET used == {i \in Used[w.prog[1]] : w.tex[i] # Nothing}
      bound(i) == p.gpu.unit[i] # 0
  IN  CASE a = "state" -> /\ p.gpu.depth = w.depth /\ p.gpu.alpha = w.alpha
                          /\ p.gpu.view = w.view
        [] a = "frame" -> p.gpu.frame = w.frame
        [] a = "texture" -> \A i \in used : bound(i) /\ p.gpu.content[p.gpu.unit[i]] = w.tex[i]
        [] a = "sampler" -> \A i \in used :
             (\A j \in used : j > i => p.gpu.unit[j] # p.gpu.unit[i])
               => bound(i) /\ p.gpu.hw[p.gpu.unit[i]] = w.hw[i]
        [] a = "program" -> p.gpu.prog = w.prog

Wrongs(p) == {a \in Aspects : \E w \in p.buffer : ~Right(p, w, a)}

(* DrawTriangles, with the state the GPU has.                              *)
Flush(p) == [p EXCEPT !.buffer = {}, !.count = 0, !.bad = @ \union Wrongs(p)]

(* The depth test, the decal mode and blending.                            *)
SetDepth(p, d) == IF p.gpu.depth = d THEN p ELSE [Flush(p) EXCEPT !.gpu.depth = d]
SetUseAlpha(p, a) == IF p.gpu.alpha = a THEN p ELSE [Flush(p) EXCEPT !.gpu.alpha = a]

SetView(p, v) ==
  IF ~p.viewChanged THEN p
  ELSE IF p.seen = v THEN [p EXCEPT !.viewChanged = FALSE]
  ELSE [Flush(p) EXCEPT !.gpu.view = v, !.seen = v, !.viewChanged = FALSE]

(* LookupOrCreateColorCombiner flushes for a combiner that is not in the   *)
(* pool; the key's shader_id is never set, so one that is may be missed.   *)
UseCombiner(p, c, missed) ==
  IF missed \/ \A g \in p.progs : g[1] # c THEN Flush(p) ELSE p

(* The image a tile shows: an empty half of TMEM falls back to the other.  *)
ImageOf(t) == IF loaded[t.tmem] # Nothing THEN loaded[t.tmem] ELSE loaded[1 - t.tmem]

(* Mutant of BindTexture: the new entry's texture object keeps the sampler *)
(* of the image it was used for before.                                    *)
BindTextureUnsampled(p, i, k) ==
  LET c == Lookup(p.cache, k)
      q == [p EXCEPT !.cache = c, !.gpu.unit[i] = c.id[k],
                     !.ptr = [j \in Slots |-> IF j = i THEN k
                              ELSE IF Full(p.cache, k) /\ @[j] = Head(p.cache.lru) THEN Nothing ELSE @[j]]]
  IN  IF k \in Cached(p.cache) THEN q
      ELSE [q EXCEPT !.gpu.content[c.id[k]] = <<k, edits[k]>>]

(* Mutant of BindTexture: an eviction leaves the pointers to its node.     *)
BindTextureDangling(p, i, k) ==
  LET c == Lookup(p.cache, k)
      q == [p EXCEPT !.cache = c, !.gpu.unit[i] = c.id[k], !.ptr[i] = k]
  IN  IF k \in Cached(p.cache) THEN q
      ELSE [q EXCEPT !.gpu.hw[c.id[k]] = DefaultHw, !.gpu.content[c.id[k]] = <<k, edits[k]>>]

(* A cached image is bound to the slot; another one gets a texture object, *)
(* is bound, sampled by default and uploaded.                              *)
BindTexture(p, i, k) ==
  LET c == Lookup(p.cache, k)
      id == c.id[k]
      q == [p EXCEPT !.cache = c, !.gpu.unit[i] = id,
                     !.ptr = [j \in Slots |-> IF j = i THEN k
                              ELSE IF Full(p.cache, k) /\ @[j] = Head(p.cache.lru) THEN Nothing ELSE @[j]]]
  IN  IF k \in Cached(p.cache) THEN q
      ELSE [q EXCEPT !.gpu.hw[id] = DefaultHw, !.gpu.content[id] = <<k, edits[k]>>]

ImportTexture(p, i, t) ==
  IF i \notin p.changed THEN p
  ELSE LET q == [Flush(p) EXCEPT !.changed = @ \ {i}]
       IN  IF ImageOf(t) = Nothing THEN q ELSE BindTexture(q, i, ImageOf(t))

SetSampler(p, i, hw) ==
  IF p.ptr[i] = Nothing \/ p.cache.hw[p.ptr[i]] = hw THEN p
  ELSE [Flush(p) EXCEPT !.gpu.hw[p.gpu.unit[i]] = hw, !.cache.hw[p.ptr[i]] = hw]

UseSlot(p, i, t, c) ==
  IF i \in Used[c] THEN SetSampler(ImportTexture(p, i, t), i, t.hw) ELSE p

(* Mutant of UseProgram: loading a known program does not flush.           *)
UseProgramUnflushed(p, g) ==
  [p EXCEPT !.progs = @ \union {g}, !.gpu.prog = g,
            !.bad = IF p.buffer = {} \/ g \in p.progs THEN @ ELSE @ \union {Late}]

(* A program variant that does not exist yet is compiled and loaded before *)
(* what is buffered is drawn: Late, if there is anything.                  *)
UseProgram(p, g) ==
  IF g \notin p.progs
  THEN [p EXCEPT !.progs = @ \union {g}, !.gpu.prog = g,
                 !.bad = IF p.buffer = {} THEN @ ELSE @ \union {Late}]
  ELSE IF p.gpu.prog = g THEN p
  ELSE [Flush(p) EXCEPT !.gpu.prog = g]

(* Mutant of Buffer: the buffer is flushed one triangle too late.          *)
BufferLate(p, w) ==
  LET q == [p EXCEPT !.buffer = @ \union {w}, !.count = @ + 1]
  IN  IF q.count > MaxTris THEN Flush(q) ELSE q

Buffer(p, w) ==
  LET q == [p EXCEPT !.buffer = @ \union {w}, !.count = @ + 1]
  IN  IF q.count = MaxTris THEN Flush(q) ELSE q

(* The tile a slot samples when the first one is f.                        *)
TileOf(f, i) == tile[f + i]
ClampedBy(f, c) == {i \in Used[c] : TileOf(f, i).clamp}
Want(p, m, v, f, c) ==
  [depth |-> m.depth, alpha |-> m.alpha, view |-> v, frame |-> p.gpu.frame,
   prog |-> <<c, ClampedBy(f, c)>>,
   tex |-> [i \in Slots |-> LET k == ImageOf(TileOf(f, i)) IN IF k = Nothing THEN Nothing ELSE <<k, edits[k]>>],
   hw |-> [i \in Slots |-> TileOf(f, i).hw]]

(* GfxSpTri1 for a triangle that is neither clipped nor culled, drawn in   *)
(* mode m and view v with the tiles from f on and combiner c.              *)
GfxSpTri1(p, m, v, f, c, missed) ==
  LET shaded == UseCombiner(SetView(SetDepth(p, m.depth), v), c, missed)
      textured == UseSlot(UseSlot(shaded, 0, TileOf(f, 0), c), 1, TileOf(f, 1), c)
      ready == SetUseAlpha(UseProgram(textured, <<c, ClampedBy(f, c)>>), m.alpha)
  IN  Buffer(ready, Want(p, m, v, f, c))

------------------------------------------------------------------------------
(* A triangle, in the mode and with the combiner that SetOtherMode and     *)
(* SetCombineMode last named: nothing else reads those.                    *)
Triangle(m, c, missed) ==
  /\ settled
  /\ pipe' = GfxSpTri1(pipe, m, view, first, c, missed)
  /\ UNCHANGED <<rdp, edits, settled>>

(* Mutant of DrawRectangle: the viewport is restored, but not marked.      *)
DrawRectangleUnmarked(p, m, f, c, missed) ==
  LET touched == IF f = first THEN {} ELSE Slots
      before == [p EXCEPT !.changed = @ \union touched, !.viewChanged = TRUE]
      one == GfxSpTri1(before, m, Whole[view], f, c, missed)
      two == GfxSpTri1(one, m, Whole[view], f, c, missed)
  IN  [two EXCEPT !.changed = @ \union touched]

(* A rectangle is two triangles in its own view, mode and tile.            *)
DrawRectangle(p, m, f, c, missed) ==
  LET touched == IF f = first THEN {} ELSE Slots
      before == [p EXCEPT !.changed = @ \union touched, !.viewChanged = TRUE]
      one == GfxSpTri1(before, m, Whole[view], f, c, missed)
      two == GfxSpTri1(one, m, Whole[view], f, c, missed)
  IN  [two EXCEPT !.changed = @ \union touched, !.viewChanged = TRUE]

Rectangle(m, f, c, missed) ==
  /\ settled
  /\ pipe' = DrawRectangle(pipe, m, f, c, missed)
  /\ UNCHANGED <<rdp, edits, settled>>

(* CalcAndSetViewport and GfxDpSetScissor.                                 *)
SetViewport(v) ==
  /\ view' = v
  /\ pipe' = [pipe EXCEPT !.viewChanged = TRUE]
  /\ UNCHANGED <<first, tile, loaded, edits, settled>>

SetTexture(f) ==
  /\ first' = f
  /\ pipe' = [pipe EXCEPT !.changed = IF f = first THEN @ ELSE Slots]
  /\ UNCHANGED <<view, tile, loaded, edits, settled>>

(* GfxDpSetTile and GfxDpSetTileSize.                                      *)
SetTile(w) ==
  /\ tile' = [tile EXCEPT ![w.tile] = w]
  /\ pipe' = [pipe EXCEPT !.changed = Slots]
  /\ settled' = TRUE
  /\ UNCHANGED <<view, first, loaded, edits>>

(* GfxDpLoadBlock and GfxDpLoadTile, of the image SetTextureImage named, to*)
(* the half n of TMEM that the tile they name reads.                       *)
LoadBlock(n, k) ==
  /\ loaded' = [loaded EXCEPT ![n] = k]
  /\ pipe' = [pipe EXCEPT !.changed = @ \union {n}]
  /\ settled' = FALSE
  /\ UNCHANGED <<view, first, tile, edits>>

(* The game changes an image and invalidates it, or all of them.           *)
Forgotten(p, c) ==
  [p EXCEPT !.cache = c, !.ptr = [j \in Slots |-> IF @[j] \in Cached(c) THEN @[j] ELSE Nothing]]
Invalidate(k) ==
  /\ edits[k] < MaxEdits
  /\ edits' = [edits EXCEPT ![k] = @ + 1]
  /\ pipe' = Forgotten(pipe, Delete(pipe.cache, k))
  /\ settled' = FALSE
  /\ UNCHANGED rdp
InvalidateAll ==
  /\ \E c \in Clears(pipe.cache) : pipe' = Forgotten(pipe, c)
  /\ settled' = FALSE
  /\ UNCHANGED <<rdp, edits>>

SetFb(f) ==
  /\ pipe' = [Flush(pipe) EXCEPT !.gpu.frame = f]
  /\ UNCHANGED <<rdp, edits, settled>>

(* The end of Run, also at a breakpoint outside a framebuffer, and the     *)
(* start of the next, and gfx_reset_fb: the viewport and the scissor are to*)
(* be set again whatever they are.                                         *)
ResetFb ==
  /\ pipe' = [Flush(pipe) EXCEPT !.gpu.frame = Main, !.seen = NoView, !.viewChanged = TRUE]
  /\ UNCHANGED <<rdp, edits, settled>>

(* A breakpoint ends Run, and when a framebuffer is active (mFbActive) Run *)
(* leaves it before it flushes: what is buffered is drawn in the main one. *)
BreakInFb ==
  LET left == [pipe EXCEPT !.gpu.frame = Main]
  IN  /\ pipe.gpu.frame # Main
      /\ pipe' = [Flush(left) EXCEPT !.seen = NoView, !.viewChanged = TRUE,
           !.bad = pipe.bad \union {IF a = "frame" THEN Stopped ELSE a : a \in Wrongs(left)}]
      /\ UNCHANGED <<rdp, edits, settled>>

RdpNext ==
  \/ \E m \in Modes, c \in Combiners, missed \in BOOLEAN : Triangle(m, c, missed)
  \/ \E m \in FlatModes, f \in {0, 1}, c \in Combiners, missed \in BOOLEAN : Rectangle(m, f, c, missed)
  \/ \E v \in Views : SetViewport(v)
  \/ \E f \in {0, 1} : SetTexture(f)
  \/ \E w \in TileWords : SetTile(w)
  \/ \E n \in {0, 1}, k \in Images : LoadBlock(n, k)
  \/ \E k \in Images : Invalidate(k)
  \/ InvalidateAll
  \/ \E f \in Framebuffers : SetFb(f)
  \/ ResetFb
  \/ BreakInFb

RdpSpec == RdpInit /\ [][RdpNext]_rdpVars

------------------------------------------------------------------------------
(* Every triangle is drawn into the framebuffer, with the depth test, the  *)
(* blending, the viewport and the textures it was issued with, whatever was*)
(* changed, evicted, freed or reused between its command and the flush.    *)
(* Only the framebuffer may be another, and only for what is still buffered*)
(* when a breakpoint stops a list in a framebuffer of its own.             *)
DrawnAsAsked == pipe.bad \intersect {"state", "frame", "texture"} = {}

(* And each of its textures is sampled as its tile said.                   *)
SampledAsAsked == "sampler" \notin pipe.bad

(* And it is drawn by the program its combiner and clamping call for, as   *)
(* long as no variant of a known combiner was compiled with triangles in   *)
(* the buffer, which LookupOrCreateShaderProgram does not flush.           *)
DrawnByItsProgram == "program" \in pipe.bad => Late \in pipe.bad

(* The cache keeps one texture object per image and loses none, a pointer  *)
(* of mRenderingState.mTextures is never left dangling, and the node it    *)
(* points to is the one whose texture object its slot shows.               *)
CacheConsistent ==
  /\ CacheWell(pipe.cache)
  /\ \A i \in Slots : pipe.ptr[i] # Nothing =>
       /\ pipe.ptr[i] \in Cached(pipe.cache)
       /\ pipe.gpu.unit[i] = pipe.cache.id[pipe.ptr[i]]
==============================================================================
