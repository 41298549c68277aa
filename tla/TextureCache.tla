---------------------------- MODULE TextureCache -----------------------------
(***************************************************************************)
(* The texture cache of Fast::Interpreter (src/src/fast/interpreter.cpp):  *)
(* a map from textures to GPU texture objects, the order in which they were*)
(* last used, and the texture objects that may be used again.              *)
(***************************************************************************)
EXTENDS FiniteSets, SequencesExt

CONSTANTS
  Images,    \* the textures a display list loads, by cache key
  Hw,        \* the sampler parameters of a texture object
  DefaultHw, \* linear_filter = false, cms = cmt = 0
  CacheSize  \* TEXTURE_CACHE_MAX_SIZE

ASSUME HwAssumption == DefaultHw \in Hw
ASSUME CacheSizeAssumption == CacheSize \in Nat /\ CacheSize >= 2

(* A cache: the texture object of each cached image (0 if it has none), the*)
(* sampler its node remembers, the images from the least recently used on, *)
(* the objects to use again and how many NewTexture has made.              *)
Caches ==
  [id : [Images -> Nat], hw : [Images -> Hw], lru : Seq(Images), free : Seq(Nat), made : Nat]

EmptyCache ==
  [id |-> [k \in Images |-> 0], hw |-> [k \in Images |-> DefaultHw],
   lru |-> <<>>, free |-> <<>>, made |-> 0]

Cached(c) == {k \in Images : c.id[k] # 0}

(* lru_location of the node of k, and the order without it.                *)
LruLocation(c, k) == CHOOSE n \in DOMAIN c.lru : c.lru[n] = k
Unlinked(c, k) == RemoveAt(c.lru, LruLocation(c, k))

(* The entry of k is erased and its texture object kept for another.       *)
Forget(c, k) ==
  [c EXCEPT !.id[k] = 0, !.hw[k] = DefaultHw, !.lru = Unlinked(c, k), !.free = Append(@, c.id[k])]

Evict(c) == Forget(c, Head(c.lru))

(* A new entry takes the last freed texture object, or one more.           *)
Insert(c, k) ==
  LET reuse == c.free # <<>>
  IN  [c EXCEPT !.id[k] = IF reuse THEN Last(c.free) ELSE c.made + 1,
                !.hw[k] = DefaultHw,
                !.lru = Append(@, k),
                !.free = IF reuse THEN Front(@) ELSE @,
                !.made = IF reuse THEN @ ELSE @ + 1]

(* TextureCacheLookup: is there an entry to give up before k gets one?     *)
Full(c, k) == k \notin Cached(c) /\ Cardinality(Cached(c)) >= CacheSize
Room(c, k) == IF Full(c, k) THEN Evict(c) ELSE c
Lookup(c, k) ==
  IF k \in Cached(c) THEN [c EXCEPT !.lru = Append(Unlinked(c, k), k)]
                     ELSE Insert(Room(c, k), k)

(* TextureCacheDelete of an address, here the one image it holds.          *)
Delete(c, k) == IF k \in Cached(c) THEN Forget(c, k) ELSE c

(* TextureCacheClear frees the objects in the order the map lists them,    *)
(* which nothing fixes.                                                    *)
Clears(c) ==
  {[c EXCEPT !.id = EmptyCache.id, !.hw = EmptyCache.hw, !.lru = <<>>,
             !.free = @ \o [n \in DOMAIN s |-> c.id[s[n]]]] :
     s \in SetToSeqs(Cached(c))}

(* The order lists the cached images once each, no texture object is owned *)
(* twice or lost, and the cache never makes more than its size of them.    *)
CacheWell(c) ==
  /\ IsInjective(c.lru) /\ Range(c.lru) = Cached(c)
  /\ Cardinality(Cached(c)) <= CacheSize
  /\ \A k, l \in Cached(c) : c.id[k] = c.id[l] => k = l
  /\ IsInjective(c.free) /\ \A k \in Cached(c) : c.id[k] \notin Range(c.free)
  /\ Range(c.free) \union {c.id[k] : k \in Cached(c)} = 1 .. c.made
  /\ c.made <= CacheSize
==============================================================================
