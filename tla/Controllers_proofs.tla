-------------------------- MODULE Controllers_proofs ---------------------------
(* What a controller's configuration promises, for any port, any buttons,   *)
(* sticks, keys and pads, any default mappings and any number of edits and  *)
(* sessions: a program killed at any Save finds its mappings again.  The    *)
(* invariant says what the rest of the edit under way will still put right. *)
EXTENDS Controllers, FiniteSetTheorems, SequenceTheorems, WellFoundedInduction, TLAPS

(****************************************************************************)
(* Sequences.                                                               *)
(****************************************************************************)

(* Induction, for sets: a least counterexample has a predecessor.           *)
LEMMA NatInduct ==
  ASSUME NEW S, 0 \in S, \A n \in Nat : n \in S => n + 1 \in S
  PROVE  Nat \subseteq S
<1> DEFINE T == Nat \ S
<1> DEFINE R == OpToRel(<, Nat)
<1>1. SUFFICES ASSUME T # {} PROVE FALSE
  OBVIOUS
<1>2. IsWellFoundedOn(R, Nat)
  BY NatLessThanWellFounded
<1>3. PICK x \in T : \A y \in T : ~ (<<y, x>> \in R)
  <2> HIDE DEF R
  <2> QED BY <1>1, <1>2, WFMin
<1>4. x \in Nat /\ x # 0 
  OBVIOUS
<1>5. x - 1 \in Nat /\ x - 1 < x
  BY <1>4
<1>6. <<x - 1, x>> \in R
  BY <1>4, <1>5 DEF OpToRel
<1>7. x - 1 \notin T
  BY <1>3, <1>6
<1>. QED BY <1>4, <1>5, <1>7

(* The function FlattenSeq recurs through. *)
Chain(ss, n, f) == f = [i \in 1 .. n |-> IF i = 1 THEN ss[i] ELSE f[i - 1] \o ss[i]]

(* Recursion along a sequence defines a function.                           *)
LEMMA ChainExists ==
  ASSUME NEW ss
  PROVE  \A n \in Nat : \E f : Chain(ss, n, f)
<1> DEFINE P == {n \in Nat : \E f : Chain(ss, n, f)}
<1>1. 0 \in P
  <2>1. Chain(ss, 0, [i \in 1 .. 0 |-> 0])
    BY DEF Chain
  <2> QED BY <2>1
<1>2. ASSUME NEW n \in Nat, n \in P PROVE n + 1 \in P
  <2>1. PICK f : Chain(ss, n, f)
    BY <1>2
  <2> DEFINE g == [i \in 1 .. n + 1 |-> IF i = 1 THEN ss[i] ELSE f[i - 1] \o ss[i]]
  <2>2. ASSUME NEW i \in 1 .. n PROVE g[i] = f[i]
    <3>1. f = [j \in 1 .. n |-> IF j = 1 THEN ss[j] ELSE f[j - 1] \o ss[j]]
      BY <2>1 DEF Chain
    <3>2. f[i] = IF i = 1 THEN ss[i] ELSE f[i - 1] \o ss[i]
      BY <3>1
    <3> QED BY <3>2
  <2>3. g = [i \in 1 .. n + 1 |-> IF i = 1 THEN ss[i] ELSE g[i - 1] \o ss[i]]
    <3>1. \A i \in 1 .. n + 1 : i # 1 => i - 1 \in 1 .. n
      OBVIOUS
    <3> QED BY <2>2, <3>1
  <2> HIDE DEF g
  <2>4. Chain(ss, n + 1, g)
    BY <2>3 DEF Chain
  <2> QED BY <2>4
<1> HIDE DEF P
<1>3. Nat \subseteq P
  BY <1>1, <1>2, NatInduct
<1> QED BY <1>3 DEF P

(* FlattenSeq is the last value of that function.                           *)
LEMMA FlattenChain ==
  ASSUME NEW T, NEW ss \in Seq(Seq(T)), ss # <<>>
  PROVE  \E f : Chain(ss, Len(ss), f) /\ FlattenSeq(ss) = f[Len(ss)]
<1> DEFINE f == CHOOSE f : Chain(ss, Len(ss), f)
<1>1. Chain(ss, Len(ss), f)
  <2>1. Len(ss) \in Nat
    OBVIOUS
  <2>2. \E h : Chain(ss, Len(ss), h)
    BY <2>1, ChainExists
  <2> QED BY <2>2, Zenon
<1>2. FlattenSeq(ss) = f[Len(ss)]
  BY DEF FlattenSeq, Chain
<1> QED BY <1>1, <1>2

(* Block b of ss starts behind at[b] in s, and s is nothing but the blocks. *)
Blocks(s, ss, n, at) ==
  /\ \A b \in 1 .. n : \A k \in DOMAIN ss[b] :
       at[b] + k \in DOMAIN s /\ s[at[b] + k] = ss[b][k]
  /\ \A i \in DOMAIN s : \E b \in 1 .. n : \E k \in DOMAIN ss[b] : i = at[b] + k

(* One more block.                                                          *)
LEMMA AddBlock ==
  ASSUME NEW T, NEW ss \in Seq(Seq(T)), NEW n \in Nat, n + 1 \in DOMAIN ss,
         NEW s \in Seq(T), NEW at \in [1 .. n -> Nat], Blocks(s, ss, n, at)
  PROVE  \E new \in [1 .. n + 1 -> Nat] : Blocks(s \o ss[n + 1], ss, n + 1, new)
<1> DEFINE new == [b \in 1 .. n + 1 |-> IF b = n + 1 THEN Len(s) ELSE at[b]]
           r == ss[n + 1]
<1>1. r \in Seq(T) /\ new \in [1 .. n + 1 -> Nat]
  OBVIOUS
<1>2. /\ s \o r \in Seq(T) /\ Len(s \o r) = Len(s) + Len(r)
      /\ \A i \in 1 .. Len(s) : (s \o r)[i] = s[i]
      /\ \A i \in 1 .. Len(r) : (s \o r)[Len(s) + i] = r[i]
  BY <1>1
<1>3. /\ DOMAIN (s \o r) = 1 .. Len(s) + Len(r) /\ DOMAIN s = 1 .. Len(s) /\ DOMAIN r = 1 .. Len(r)
      /\ Len(s) \in Nat /\ Len(r) \in Nat
  BY <1>1, <1>2
<1>4. ASSUME NEW b \in 1 .. n + 1, NEW k \in DOMAIN ss[b]
      PROVE  new[b] + k \in DOMAIN (s \o r) /\ (s \o r)[new[b] + k] = ss[b][k]
  <2>1. CASE b = n + 1
    BY <2>1, <1>2, <1>3
  <2>2. CASE b # n + 1
    <3>1. b \in 1 .. n /\ new[b] = at[b]
      BY <2>2
    <3>2. at[b] + k \in DOMAIN s /\ s[at[b] + k] = ss[b][k]
      BY <3>1 DEF Blocks
    <3> QED BY <3>1, <3>2, <1>2, <1>3
  <2> QED BY <2>1, <2>2
<1>5. ASSUME NEW i \in DOMAIN (s \o r)
      PROVE  \E b \in 1 .. n + 1 : \E k \in DOMAIN ss[b] : i = new[b] + k
  <2>1. CASE i \in DOMAIN s
    <3>1. PICK b \in 1 .. n : \E k \in DOMAIN ss[b] : i = at[b] + k
      BY <2>1 DEF Blocks
    <3>2. b \in 1 .. n + 1 /\ new[b] = at[b]
      OBVIOUS
    <3> QED BY <3>1, <3>2
  <2>2. CASE i \notin DOMAIN s
    <3>1. i - Len(s) \in DOMAIN r
      BY <2>2, <1>3
    <3>2. n + 1 \in 1 .. n + 1 /\ i = new[n + 1] + (i - Len(s))
      BY <1>3
    <3> QED BY <3>1, <3>2
  <2> QED BY <2>1, <2>2
<1>6. Blocks(s \o r, ss, n + 1, new)
  BY <1>4, <1>5 DEF Blocks
<1> QED BY <1>1, <1>6

InBlocks(T, ss, s, n) == s \in Seq(T) /\ \E at \in [1 .. n -> Nat] : Blocks(s, ss, n, at)

(* FlattenSeq puts its blocks one behind the other.                         *)
LEMMA FlattenBlocks ==
  ASSUME NEW T, NEW ss \in Seq(Seq(T)), ss # <<>>
  PROVE  /\ FlattenSeq(ss) \in Seq(T)
         /\ \E at \in [DOMAIN ss -> Nat] : Blocks(FlattenSeq(ss), ss, Len(ss), at)
<1>1. PICK f : Chain(ss, Len(ss), f) /\ FlattenSeq(ss) = f[Len(ss)]
  BY FlattenChain
<1>2. Len(ss) \in Nat /\ Len(ss) >= 1 /\ DOMAIN ss = 1 .. Len(ss)
  OBVIOUS
<1>3. \A i \in 1 .. Len(ss) : f[i] = IF i = 1 THEN ss[i] ELSE f[i - 1] \o ss[i]
  <2>1. f = [i \in 1 .. Len(ss) |-> IF i = 1 THEN ss[i] ELSE f[i - 1] \o ss[i]]
    BY <1>1 DEF Chain
  <2> QED BY <2>1
<1> DEFINE P == {n \in Nat : n \in 1 .. Len(ss) => InBlocks(T, ss, f[n], n)}
<1>4. 0 \in P
  OBVIOUS
<1>5. ASSUME NEW n \in Nat, n \in P PROVE n + 1 \in P
  <2> SUFFICES ASSUME n + 1 \in 1 .. Len(ss)
               PROVE  InBlocks(T, ss, f[n + 1], n + 1)
    BY DEF P
  <2>0. n # 0 => InBlocks(T, ss, f[n], n)
    BY <1>5, <1>2
  <2>1. ss[n + 1] \in Seq(T)
    BY <1>2
  <2>2. CASE n = 0
    <3> DEFINE at == [b \in 1 .. 1 |-> 0]
    <3>1. f[n + 1] = ss[1] /\ at \in [1 .. 1 -> Nat]
      BY <2>2, <1>3
    <3>2. \A b \in 1 .. 1 : \A k \in DOMAIN ss[b] : at[b] + k \in DOMAIN ss[1] /\ ss[1][at[b] + k] = ss[b][k]
      BY <2>1, <2>2
    <3>3. \A i \in DOMAIN ss[1] : \E b \in 1 .. 1 : \E k \in DOMAIN ss[b] : i = at[b] + k
      <4>1. \A i \in DOMAIN ss[1] : i = at[1] + i
        BY <2>1, <2>2
      <4> QED BY <4>1
    <3>4. Blocks(f[n + 1], ss, n + 1, at)
      BY <2>2, <3>1, <3>2, <3>3 DEF Blocks
    <3> QED BY <2>1, <2>2, <3>1, <3>4 DEF InBlocks
  <2>3. CASE n # 0
    <3>1. f[n] \in Seq(T) /\ \E at \in [1 .. n -> Nat] : Blocks(f[n], ss, n, at)
      BY <2>0, <2>3 DEF InBlocks
    <3>2. f[n + 1] = f[n] \o ss[n + 1]
      <4>1. n + 1 # 1 /\ (n + 1) - 1 = n
        BY <2>3
      <4> QED BY <4>1, <1>3
    <3>3. \E new \in [1 .. n + 1 -> Nat] : Blocks(f[n] \o ss[n + 1], ss, n + 1, new)
      BY <3>1, <1>2, AddBlock
    <3>4. f[n] \o ss[n + 1] \in Seq(T)
      BY <2>1, <3>1
    <3> QED BY <3>2, <3>3, <3>4 DEF InBlocks
  <2> QED BY <2>2, <2>3
<1> HIDE DEF P
<1>6. Len(ss) \in P
  BY <1>2, <1>4, <1>5, NatInduct
<1> QED BY <1>1, <1>2, <1>6 DEF P, InBlocks

(* Two sequences in a row.                                                  *)
LEMMA Concat ==
  ASSUME NEW T, NEW s \in Seq(T), NEW t \in Seq(T)
  PROVE  /\ s \o t \in Seq(T)
         /\ \A i \in DOMAIN s : i \in DOMAIN (s \o t) /\ (s \o t)[i] = s[i] /\ i <= Len(s)
         /\ \A i \in DOMAIN t : Len(s) + i \in DOMAIN (s \o t) /\ (s \o t)[Len(s) + i] = t[i]
                                  /\ i >= 1
         /\ \A n \in DOMAIN (s \o t) : n \in DOMAIN s \/ \E i \in DOMAIN t : n = Len(s) + i
         /\ Len(s) \in Nat
<1>1. /\ s \o t \in Seq(T) /\ Len(s \o t) = Len(s) + Len(t)
      /\ \A i \in 1 .. Len(s) : (s \o t)[i] = s[i]
      /\ \A i \in 1 .. Len(t) : (s \o t)[Len(s) + i] = t[i]
  OBVIOUS
<1>2. /\ DOMAIN (s \o t) = 1 .. Len(s) + Len(t) /\ DOMAIN s = 1 .. Len(s) /\ DOMAIN t = 1 .. Len(t)
      /\ Len(s) \in Nat /\ Len(t) \in Nat
  BY <1>1
<1>3. ASSUME NEW n \in DOMAIN (s \o t), n \notin DOMAIN s
      PROVE  \E i \in DOMAIN t : n = Len(s) + i
  <2>1. n - Len(s) \in DOMAIN t /\ n = Len(s) + (n - Len(s))
    BY <1>2, <1>3
  <2> QED BY <2>1
<1> QED BY <1>1, <1>2, <1>3

(* Short sequences in a row.                                                *)
LEMMA Pair ==
  ASSUME NEW T, NEW a \in T, NEW b \in T
  PROVE  <<a>> \o <<b>> = <<a, b>>
<1>1. <<a>> \in Seq(T) /\ <<b>> \in Seq(T) /\ <<a, b>> \in Seq(T)
  OBVIOUS
<1>2. <<a>> \o <<b>> \in Seq(T) /\ Len(<<a>> \o <<b>>) = Len(<<a, b>>)
  BY <1>1
<1>3. \A i \in 1 .. Len(<<a>> \o <<b>>) : (<<a>> \o <<b>>)[i] = <<a, b>>[i]
  BY <1>1
<1> QED BY <1>1, <1>2, <1>3, SeqEqual

(* The same with one more.                                                  *)
LEMMA Triple ==
  ASSUME NEW T, NEW a \in T, NEW b \in T, NEW c \in T
  PROVE  <<a, b>> \o <<c>> = <<a, b, c>>
<1>1. <<a, b>> \in Seq(T) /\ <<c>> \in Seq(T) /\ <<a, b, c>> \in Seq(T)
  OBVIOUS
<1>2. <<a, b>> \o <<c>> \in Seq(T) /\ Len(<<a, b>> \o <<c>>) = Len(<<a, b, c>>)
  BY <1>1
<1>3. \A i \in 1 .. Len(<<a, b>> \o <<c>>) : (<<a, b>> \o <<c>>)[i] = <<a, b, c>>[i]
  BY <1>1
<1> QED BY <1>1, <1>2, <1>3, SeqEqual

(* SetToSeq lists every member of a finite set.                             *)
LEMMA SetToSeqOnto ==
  ASSUME NEW S, IsFiniteSet(S)
  PROVE  /\ SetToSeq(S) \in Seq(S)
         /\ \A x \in S : \E i \in DOMAIN SetToSeq(S) : SetToSeq(S)[i] = x
<1> DEFINE n == Cardinality(S)
           f == SetToSeq(S)
<1>1. n \in Nat /\ ExistsBijection(1 .. n, S)
  BY FS_CardinalityType
<1>2. \E g \in [1 .. n -> S] : IsInjective(g)
  BY <1>1 DEF ExistsBijection, Bijection, Injection, Surjection, IsInjective
<1>3. f \in [1 .. n -> S] /\ IsInjective(f)
  BY <1>2, Zenon DEF SetToSeq
<1> HIDE DEF f
<1>4. f \in Injection(1 .. n, S)
  BY <1>3 DEF Injection, IsInjective
<1>5. IsFiniteSet(1 .. n) /\ Cardinality(1 .. n) = n
  BY <1>1, FS_Interval
<1> HIDE DEF n
<1>6. f \in Surjection(1 .. n, S)
  BY <1>4, <1>5, FS_Injection DEF n
<1>7. f \in Seq(S) /\ DOMAIN f = 1 .. n
  BY <1>1, <1>3
<1> QED BY <1>6, <1>7 DEF Surjection, f

(****************************************************************************)
(* The order of the steps of an edit.                                       *)
(****************************************************************************)

Has(t, P) == \E i \in DOMAIN t : t[i] \in P
Follows(t, P, Q) == \A i \in DOMAIN t : t[i] \in P => \E j \in DOMAIN t : i < j /\ t[j] \in Q
Precedes(t, P, Q) == \A i \in DOMAIN t : t[i] \in P => \E j \in DOMAIN t : j < i /\ t[j] \in Q

(* Each holds of blocks in a row when it holds of each of them,             *)
LEMMA FlattenKeeps ==
  ASSUME NEW ss \in Seq(Seq(Steps)), ss # <<>>, NEW P, NEW Q
  PROVE  LET t == FlattenSeq(ss)
         IN  /\ t \in Seq(Steps)
             /\ \A i \in DOMAIN t : \E b \in DOMAIN ss : \E k \in DOMAIN ss[b] : t[i] = ss[b][k]
             /\ \A b \in DOMAIN ss : Has(ss[b], P) => Has(t, P)
             /\ (\A b \in DOMAIN ss : Follows(ss[b], P, Q)) => Follows(t, P, Q)
             /\ (\A b \in DOMAIN ss : Precedes(ss[b], P, Q)) => Precedes(t, P, Q)
<1> DEFINE t == FlattenSeq(ss)
<1> HIDE DEF t
<1>1. t \in Seq(Steps) /\ \E at \in [DOMAIN ss -> Nat] : Blocks(t, ss, Len(ss), at)
  BY FlattenBlocks DEF t
<1>2. PICK at \in [DOMAIN ss -> Nat] : Blocks(t, ss, Len(ss), at)
  BY <1>1
<1>3. /\ DOMAIN ss = 1 .. Len(ss)
      /\ \A b \in DOMAIN ss : ss[b] \in Seq(Steps)
      /\ \A b \in DOMAIN ss : \A k \in DOMAIN ss[b] : k \in Nat /\ at[b] \in Nat
  OBVIOUS
<1>4. \A b \in DOMAIN ss : \A k \in DOMAIN ss[b] :
        at[b] + k \in DOMAIN t /\ t[at[b] + k] = ss[b][k]
  BY <1>2, <1>3 DEF Blocks
<1>5. \A i \in DOMAIN t : \E b \in DOMAIN ss : \E k \in DOMAIN ss[b] : i = at[b] + k
  <2>1. \A i \in DOMAIN t : \E b \in 1 .. Len(ss) : \E k \in DOMAIN ss[b] : i = at[b] + k
    BY <1>2 DEF Blocks
  <2>2. DOMAIN ss = 1 .. Len(ss)
    OBVIOUS
  <2> QED BY <2>1, <2>2, Zenon
<1>6. \A i \in DOMAIN t : \E b \in DOMAIN ss : \E k \in DOMAIN ss[b] : t[i] = ss[b][k]
  BY <1>4, <1>5
<1>7. \A b \in DOMAIN ss : Has(ss[b], P) => Has(t, P)
  BY <1>4 DEF Has
<1>8. ASSUME \A b \in DOMAIN ss : Follows(ss[b], P, Q) PROVE Follows(t, P, Q)
  <2> SUFFICES ASSUME NEW i \in DOMAIN t, t[i] \in P
               PROVE  \E j \in DOMAIN t : i < j /\ t[j] \in Q
    BY DEF Follows
  <2>1. PICK b \in DOMAIN ss : \E k \in DOMAIN ss[b] : i = at[b] + k
    BY <1>5
  <2>2. PICK k \in DOMAIN ss[b] : i = at[b] + k
    BY <2>1
  <2>3. PICK l \in DOMAIN ss[b] : k < l /\ ss[b][l] \in Q
    BY <1>4, <1>8, <2>2 DEF Follows
  <2>4. at[b] + l \in DOMAIN t /\ t[at[b] + l] \in Q /\ i < at[b] + l
    BY <1>3, <1>4, <2>2, <2>3
  <2> QED BY <2>4
<1>9. ASSUME \A b \in DOMAIN ss : Precedes(ss[b], P, Q) PROVE Precedes(t, P, Q)
  <2> SUFFICES ASSUME NEW i \in DOMAIN t, t[i] \in P
               PROVE  \E j \in DOMAIN t : j < i /\ t[j] \in Q
    BY DEF Precedes
  <2>1. PICK b \in DOMAIN ss : \E k \in DOMAIN ss[b] : i = at[b] + k
    BY <1>5
  <2>2. PICK k \in DOMAIN ss[b] : i = at[b] + k
    BY <2>1
  <2>3. PICK l \in DOMAIN ss[b] : l < k /\ ss[b][l] \in Q
    BY <1>4, <1>9, <2>2 DEF Precedes
  <2>4. at[b] + l \in DOMAIN t /\ t[at[b] + l] \in Q /\ at[b] + l < i
    BY <1>3, <1>4, <2>2, <2>3
  <2> QED BY <2>4
<1> QED BY <1>1, <1>6, <1>7, <1>8, <1>9 DEF t

(* and of two sequences in a row, too.                                      *)
LEMMA ConcatKeeps ==
  ASSUME NEW s \in Seq(Steps), NEW t \in Seq(Steps), NEW P, NEW Q
  PROVE  /\ s \o t \in Seq(Steps)
         /\ \A n \in DOMAIN (s \o t) : \/ \E i \in DOMAIN s : (s \o t)[n] = s[i]
                                       \/ \E i \in DOMAIN t : (s \o t)[n] = t[i]
         /\ Has(s \o t, P) <=> Has(s, P) \/ Has(t, P)
         /\ (Follows(s, P, Q) \/ Has(t, Q)) /\ Follows(t, P, Q) => Follows(s \o t, P, Q)
         /\ Precedes(s, P, Q) /\ (Precedes(t, P, Q) \/ Has(s, Q)) => Precedes(s \o t, P, Q)
<1> DEFINE u == s \o t
<1>1. /\ u \in Seq(Steps)
      /\ \A i \in DOMAIN s : i \in DOMAIN u /\ u[i] = s[i] /\ i <= Len(s)
      /\ \A i \in DOMAIN t : Len(s) + i \in DOMAIN u /\ u[Len(s) + i] = t[i] /\ i >= 1
      /\ \A n \in DOMAIN u : n \in DOMAIN s \/ \E i \in DOMAIN t : n = Len(s) + i
      /\ Len(s) \in Nat
  BY Concat
<1>2. DOMAIN s \subseteq Nat /\ DOMAIN t \subseteq Nat /\ DOMAIN u \subseteq Nat
  BY <1>1
<1> HIDE DEF u
<1>3. \A n \in DOMAIN u : (\E i \in DOMAIN s : u[n] = s[i]) \/ \E i \in DOMAIN t : u[n] = t[i]
  BY <1>1
<1>4. Has(u, P) <=> Has(s, P) \/ Has(t, P)
  BY <1>1 DEF Has
<1>5. ASSUME Follows(s, P, Q) \/ Has(t, Q), Follows(t, P, Q) PROVE Follows(u, P, Q)
  <2> SUFFICES ASSUME NEW n \in DOMAIN u, u[n] \in P
               PROVE  \E j \in DOMAIN u : n < j /\ u[j] \in Q
    BY DEF Follows
  <2>1. CASE n \in DOMAIN s
    <3>1. CASE Follows(s, P, Q)
      BY <1>1, <2>1, <3>1 DEF Follows
    <3>2. CASE Has(t, Q)
      <4>1. PICK i \in DOMAIN t : t[i] \in Q
        BY <3>2 DEF Has
      <4>2. Len(s) + i \in DOMAIN u /\ u[Len(s) + i] \in Q /\ n < Len(s) + i
        BY <1>1, <1>2, <2>1, <4>1
      <4> QED BY <4>2
    <3> QED BY <1>5, <3>1, <3>2
  <2>2. CASE n \notin DOMAIN s
    <3>1. PICK i \in DOMAIN t : n = Len(s) + i
      BY <1>1, <2>2
    <3>2. PICK j \in DOMAIN t : i < j /\ t[j] \in Q
      BY <1>1, <1>5, <3>1 DEF Follows
    <3>3. Len(s) + j \in DOMAIN u /\ u[Len(s) + j] \in Q /\ n < Len(s) + j
      BY <1>1, <1>2, <3>1, <3>2
    <3> QED BY <3>3
  <2> QED BY <2>1, <2>2
<1>6. ASSUME Precedes(s, P, Q), Precedes(t, P, Q) \/ Has(s, Q) PROVE Precedes(u, P, Q)
  <2> SUFFICES ASSUME NEW n \in DOMAIN u, u[n] \in P
               PROVE  \E j \in DOMAIN u : j < n /\ u[j] \in Q
    BY DEF Precedes
  <2>1. CASE n \in DOMAIN s
    BY <1>1, <1>6, <2>1 DEF Precedes
  <2>2. CASE n \notin DOMAIN s
    <3>1. PICK i \in DOMAIN t : n = Len(s) + i
      BY <1>1, <2>2
    <3>2. CASE Precedes(t, P, Q)
      <4>1. PICK j \in DOMAIN t : j < i /\ t[j] \in Q
        BY <1>1, <3>1, <3>2 DEF Precedes
      <4>2. Len(s) + j \in DOMAIN u /\ u[Len(s) + j] \in Q /\ Len(s) + j < n
        BY <1>1, <1>2, <3>1, <4>1
      <4> QED BY <4>2
    <3>3. CASE Has(s, Q)
      <4>1. PICK j \in DOMAIN s : s[j] \in Q
        BY <3>3 DEF Has
      <4>2. j \in DOMAIN u /\ u[j] \in Q /\ j < n
        BY <1>1, <1>2, <3>1, <4>1
      <4> QED BY <4>2
    <3> QED BY <1>6, <3>2, <3>3
  <2> QED BY <2>1, <2>2
<1> QED BY <1>1, <1>3, <1>4, <1>5, <1>6 DEF u

Removes == {"forget", "drop"}
Naming(what, m) == {s \in Steps : s.do \in what /\ m \in s.these}
Doing(what, h) == {s \in Steps : s.do \in what /\ s.holder = h}

Only(t, what) == \A i \in DOMAIN t : t[i].do \in what
Owned(t) == \A i \in DOMAIN t : \A m \in t[i].these : m.holder = t[i].holder
Mine(t, mine) == \A i \in DOMAIN t : t[i].do \in {"erase", "add"} => t[i].these \subseteq mine

Holders == Mapped \union {Rumble, LED, Gyro}

(* Defaults are mappings, each of the holder it is a default of.            *)
LEMMA DefaultsTyped ==
  ASSUME NEW h \in Mapped \union {Rumble}, NEW type \in DeviceTypes
  PROVE  /\ DefaultsFor(h, type) \subseteq Mappings
         /\ \A m \in DefaultsFor(h, type) : m.holder = h
         /\ DefaultsFor(h, type) \subseteq DefaultsOf({type})
<1>1. Rumble \notin Mapped
  BY HoldersDiffer DEF Mapped
<1>2. [holder |-> Rumble, direction |-> None, input |-> SDL] \in Mappings
  BY DEF Mappings
<1>3. DefaultsFor(h, type) \subseteq Mappings
  BY <1>2, DefaultsAreMappings DEF DefaultsFor, Of
<1>4. \A m \in DefaultsFor(h, type) : m.holder = h
  BY DEF DefaultsFor, Of
<1>5. DefaultsFor(h, type) \subseteq DefaultsOf({type})
  BY DEF DefaultsOf
<1> QED BY <1>3, <1>4, <1>5

(* Each default is one of its holder's, and its holder has defaults.        *)
LEMMA DefaultsOwned ==
  ASSUME NEW type \in DeviceTypes, NEW m \in DefaultsOf({type})
  PROVE  m.holder \in Mapped \union {Rumble} /\ m \in DefaultsFor(m.holder, type) /\ m \in Mappings
<1>1. PICK h \in Mapped \union {Rumble} : m \in DefaultsFor(h, type)
  BY DEF DefaultsOf
<1> QED BY <1>1, DefaultsTyped

(* What AddDefaultMappings of one holder does, step by step.                *)
LEMMA AddDefaultsShape ==
  ASSUME NEW h \in Mapped \union {Rumble}, NEW S \in SUBSET Mappings, NEW type \in DeviceTypes
  PROVE  LET D == DefaultsFor(h, type)
             t == AddDefaults(h, Of(h, S), type)
             list == Do("list", h, {})
             store == Do("store", h, Of(h, S) \union D)
         IN  /\ D = {} /\ Of(h, S) = {} => t = <<list>>
             /\ D = {} /\ Of(h, S) # {} => t = <<store, list>>
             /\ D # {} => t = <<Do("add", h, D), store, list>>
             /\ list \in Steps /\ store \in Steps /\ Do("add", h, D) \in Steps
<1> DEFINE D == DefaultsFor(h, type)
           list == Do("list", h, {})
           store == Do("store", h, Of(h, S) \union D)
           add == Do("add", h, D)
<1>1. D \subseteq Mappings /\ Of(h, S) \subseteq Mappings
  BY DefaultsTyped DEF Of
<1>2. list \in Steps /\ store \in Steps /\ add \in Steps
  <2> HIDE DEF D
  <2> QED BY <1>1 DEF Do, Steps
<1> HIDE DEF D
<1>3. AddDefaults(h, Of(h, S), type)
        = Each("add", h, D) \o Each("store", h, Of(h, S) \union D) \o <<list>>
  BY DEF AddDefaults, D
<1> HIDE DEF list, store, add
<1>4. CASE D = {} /\ Of(h, S) = {}
  <2>1. AddDefaults(h, Of(h, S), type) = <<>> \o <<>> \o <<list>>
    BY <1>3, <1>4 DEF Each
  <2> QED BY <2>1, <1>2, <1>4 DEF D, list, store, add
<1>5. CASE D = {} /\ Of(h, S) # {}
  <2>1. AddDefaults(h, Of(h, S), type) = <<>> \o <<store>> \o <<list>>
    BY <1>3, <1>5 DEF Each, store
  <2>2. <<>> \o <<store>> \o <<list>> = <<store, list>>
    <3>1. <<>> \o <<store>> = <<store>>
      BY <1>2
    <3> QED BY <3>1, <1>2, Pair
  <2> QED BY <2>1, <2>2, <1>2, <1>5 DEF D, list, store, add
<1>6. CASE D # {}
  <2>1. AddDefaults(h, Of(h, S), type) = <<add>> \o <<store>> \o <<list>>
    BY <1>3, <1>6 DEF Each, store, add
  <2>2. <<add>> \o <<store>> = <<add, store>>
    BY <1>2, Pair
  <2>3. <<add, store>> \o <<list>> = <<add, store, list>>
    BY <1>2, Triple
  <2> QED BY <2>1, <2>2, <2>3, <1>2, <1>6 DEF D, list, store, add
<1> QED BY <1>4, <1>5, <1>6

(* So what it adds is stored and listed, and what it stores of what was not *)
(* in the table before it adds first.                                       *)
LEMMA AddDefaultsSound ==
  ASSUME NEW h \in Mapped \union {Rumble}, NEW S \in SUBSET Mappings, NEW type \in DeviceTypes,
         NEW m \in Mappings
  PROVE  LET t == AddDefaults(h, Of(h, S), type)
         IN  /\ t \in Seq(Steps)
             /\ Only(t, {"add", "store", "list"}) /\ Owned(t) /\ Mine(t, DefaultsOf({type}))
             /\ Follows(t, Naming({"add"}, m), Naming({"store"}, m))
             /\ Follows(t, Naming({"add"}, m), Doing({"list"}, m.holder))
             /\ m \notin S => Precedes(t, Naming({"store"}, m), Naming({"add"}, m))
             /\ m \in DefaultsFor(h, type) => Has(t, Naming({"add"}, m))
             /\ m \in S /\ m.holder = h => Has(t, Naming({"store"}, m))
<1> DEFINE D == DefaultsFor(h, type)
           list == Do("list", h, {})
           store == Do("store", h, Of(h, S) \union D)
           add == Do("add", h, D)
           t == AddDefaults(h, Of(h, S), type)
<1>1. /\ D \subseteq Mappings /\ D \subseteq DefaultsOf({type})
      /\ \A n \in D : n.holder = h
      /\ \A n \in Of(h, S) : n.holder = h /\ n \in S
      /\ m \in S /\ m.holder = h => m \in Of(h, S)
  BY DefaultsTyped DEF Of
<1>2. /\ D = {} /\ Of(h, S) = {} => t = <<list>>
      /\ D = {} /\ Of(h, S) # {} => t = <<store, list>>
      /\ D # {} => t = <<add, store, list>>
      /\ list \in Steps /\ store \in Steps /\ add \in Steps
  BY AddDefaultsShape
<1>3. /\ list.do = "list" /\ list.holder = h /\ list.these = {}
      /\ store.do = "store" /\ store.holder = h /\ store.these = Of(h, S) \union D
      /\ add.do = "add" /\ add.holder = h /\ add.these = D
  BY DEF Do
<1> HIDE DEF D, list, store, add, t
<1>4. /\ t \in Seq(Steps)
      /\ \A i \in DOMAIN t : t[i] = list \/ t[i] = store \/ (t[i] = add /\ D # {})
  <2>1. t = <<list>> \/ t = <<store, list>> \/ (t = <<add, store, list>> /\ D # {})
    BY <1>2
  <2>2. CASE t = <<list>>
    BY <2>2, <1>2
  <2>3. CASE t = <<store, list>>
    BY <2>3, <1>2
  <2>4. CASE t = <<add, store, list>> /\ D # {}
    BY <2>4, <1>2
  <2> QED BY <2>1, <2>2, <2>3, <2>4
<1>5. Only(t, {"add", "store", "list"})
  BY <1>3, <1>4 DEF Only
<1>6. Owned(t)
  <2>1. ASSUME NEW i \in DOMAIN t, NEW n \in t[i].these PROVE n.holder = t[i].holder
    BY <2>1, <1>1, <1>3, <1>4
  <2> QED BY <2>1 DEF Owned
<1>7. Mine(t, DefaultsOf({type}))
  <2>1. ASSUME NEW i \in DOMAIN t, t[i].do \in {"erase", "add"}
        PROVE  t[i].these \subseteq DefaultsOf({type})
    <3>1. t[i] = add
      BY <2>1, <1>3, <1>4
    <3> QED BY <3>1, <1>1, <1>3
  <2> QED BY <2>1 DEF Mine
<1>8. Follows(t, Naming({"add"}, m), Naming({"store"}, m))
  BY <1>2, <1>3 DEF Follows, Naming
<1>9. Follows(t, Naming({"add"}, m), Doing({"list"}, m.holder))
  BY <1>1, <1>2, <1>3 DEF Follows, Naming, Doing
<1>10. m \notin S => Precedes(t, Naming({"store"}, m), Naming({"add"}, m))
  BY <1>1, <1>2, <1>3 DEF Precedes, Naming
<1>11. /\ m \in D => Has(t, Naming({"add"}, m))
       /\ m \in S /\ m.holder = h => Has(t, Naming({"store"}, m))
  BY <1>1, <1>2, <1>3 DEF Has, Naming
<1> QED BY <1>4, <1>5, <1>6, <1>7, <1>8, <1>9, <1>10, <1>11 DEF t, D

(****************************************************************************)
(* The invariant.                                                           *)
(****************************************************************************)

Ordered(t) ==
  \A i, j \in DOMAIN t : i < j /\ t[i].do \in {"add", "store"} => t[j].do \notin Removes

(* What the steps of an edit have in common: it erases what it stores again *)
(* or forgets, stores and lists what it adds, and adds what it forgot       *)
(* before it stores it.                                                     *)
Sound(t, mine) ==
  /\ Ordered(t) /\ Owned(t) /\ Mine(t, mine)
  /\ \A m \in Mappings :
       /\ Follows(t, Naming({"erase"}, m), Naming({"store"} \union Removes, m))
       /\ Follows(t, Naming({"add"}, m), Naming({"store"}, m))
       /\ Follows(t, Naming({"add"}, m), Doing({"list"}, m.holder))
       /\ Follows(t, Naming({"add"}, m), Doing({"config"}, None))
       /\ Has(t, Naming(Removes, m)) => Precedes(t, Naming({"store"}, m), Naming({"add"}, m))

RemovesNone(t) == \A i \in DOMAIN t : t[i].do \notin Removes
Erased(t, m) == Precedes(t, Naming(Removes, m), Naming({"erase"}, m))
Added(t, m) == Precedes(t, Naming({"store"}, m), Naming({"add"}, m))
Dropped(t, S) == \A i \in DOMAIN t : t[i].do = "drop" => Of(t[i].holder, S) \subseteq t[i].these

(* What is left of an edit puts right what it left wrong.                   *)
Pending(t) ==
  /\ \A m \in mappings : m \notin data => Has(t, Naming({"store"} \union Removes, m))
  /\ \A m \in mappings : m \notin ids => Has(t, Doing({"list"} \union Removes, m.holder))
  /\ \A m \in data : Erased(t, m)
  /\ \A m \in Mappings : m \notin mappings => Added(t, m)
  /\ ~hasConfig /\ mappings # {} => Has(t, Doing({"config"}, None))
  /\ Dropped(t, mappings)

(* The edit that is to go on with t is about mine, and what earlier edits    *)
(* cut short were about is gone.                                            *)
Ahead(t, mine, gone) ==
  /\ Sound(t, mine)
  /\ Pending(t)
  /\ Loadable \subseteq mappings \union gone
  /\ mappings \ mine \subseteq Loadable
  /\ ~hasConfig => mappings \subseteq mine
  /\ GyroMapping \in ids => GyroMapping \in mappings \union gone

Running == Ahead(todo, about, cut)

Ended ==
  /\ mappings = {} /\ known = {} /\ pressed = {} /\ about = {} /\ todo = <<>>
  /\ ~hasConfig => Loadable \subseteq cut /\ (GyroMapping \in ids => GyroMapping \in cut)
  /\ GyroMapping \in ids => GyroMapping \in data \union cut

Inv ==
  /\ program = "running" => Running
  /\ program # "running" => Ended
  /\ program = "dead" => GyroMapping \in cut

(* A button or stick that was told of a key still listens.                  *)
HeldInv ==
  /\ CapturedIsHeld
  /\ \A h \in Mapped : newKey[h] # None => listening[h]

(****************************************************************************)
(* One step taken: what is left of the edit.                                *)
(****************************************************************************)

(* Without its first step.                                                  *)
LEMMA TailKeeps ==
  ASSUME NEW t \in Seq(Steps), t # <<>>, NEW P, NEW Q
  PROVE  /\ Tail(t) \in Seq(Steps) /\ Head(t) \in Steps
         /\ \A i \in DOMAIN Tail(t) : i \in Nat /\ i + 1 \in DOMAIN t /\ Tail(t)[i] = t[i + 1]
         /\ Has(t, P) /\ Head(t) \notin P => Has(Tail(t), P)
         /\ Has(Tail(t), P) => Has(t, P)
         /\ Follows(t, P, Q) => Follows(Tail(t), P, Q)
         /\ Follows(t, P, Q) /\ Head(t) \in P => Has(Tail(t), Q)
         /\ Precedes(t, P, Q) => Head(t) \notin P
         /\ Precedes(t, P, Q) /\ Head(t) \notin Q => Precedes(Tail(t), P, Q)
<1> DEFINE r == Tail(t)
<1>1. /\ r \in Seq(Steps) /\ Head(t) \in Steps /\ Head(t) = t[1] /\ 1 \in DOMAIN t
      /\ \A i \in DOMAIN r : i \in Nat /\ i >= 1 /\ i + 1 \in DOMAIN t /\ r[i] = t[i + 1]
      /\ \A i \in DOMAIN t : i = 1 \/ (i > 1 /\ i - 1 \in DOMAIN r /\ r[i - 1] = t[i])
      /\ \A i \in DOMAIN t : i \in Nat
  OBVIOUS
<1> HIDE DEF r
<1>2. Has(t, P) /\ Head(t) \notin P => Has(r, P)
  BY <1>1 DEF Has
<1>3. Has(r, P) => Has(t, P)
  BY <1>1 DEF Has
<1>4. ASSUME Follows(t, P, Q) PROVE Follows(r, P, Q)
  <2> SUFFICES ASSUME NEW i \in DOMAIN r, r[i] \in P
               PROVE  \E j \in DOMAIN r : i < j /\ r[j] \in Q
    BY DEF Follows
  <2>1. PICK j \in DOMAIN t : i + 1 < j /\ t[j] \in Q
    BY <1>1, <1>4 DEF Follows
  <2>2. j - 1 \in DOMAIN r /\ i < j - 1 /\ r[j - 1] \in Q
    BY <1>1, <2>1
  <2> QED BY <2>2
<1>5. ASSUME Follows(t, P, Q), Head(t) \in P PROVE Has(r, Q)
  <2>1. PICK j \in DOMAIN t : 1 < j /\ t[j] \in Q
    BY <1>1, <1>5 DEF Follows
  <2>2. j - 1 \in DOMAIN r /\ r[j - 1] \in Q
    BY <1>1, <2>1
  <2> QED BY <2>2 DEF Has
<1>6. ASSUME Precedes(t, P, Q) PROVE Head(t) \notin P
  <2> SUFFICES ASSUME Head(t) \in P PROVE FALSE
    OBVIOUS
  <2>1. PICK j \in DOMAIN t : j < 1 /\ t[j] \in Q
    BY <1>1, <1>6 DEF Precedes
  <2> QED BY <1>1, <2>1
<1>7. ASSUME Precedes(t, P, Q), Head(t) \notin Q PROVE Precedes(r, P, Q)
  <2> SUFFICES ASSUME NEW i \in DOMAIN r, r[i] \in P
               PROVE  \E j \in DOMAIN r : j < i /\ r[j] \in Q
    BY DEF Precedes
  <2>1. PICK j \in DOMAIN t : j < i + 1 /\ t[j] \in Q
    BY <1>1, <1>7 DEF Precedes
  <2>2. j - 1 \in DOMAIN r /\ j - 1 < i /\ r[j - 1] \in Q
    BY <1>1, <1>7, <2>1
  <2> QED BY <2>2
<1> QED BY <1>1, <1>2, <1>3, <1>4, <1>5, <1>6, <1>7 DEF r

(* With another first step instead.                                         *)
LEMMA ShrinkKeeps ==
  ASSUME NEW t \in Seq(Steps), t # <<>>, NEW s \in Steps, NEW P, NEW Q
  PROVE  LET r == <<s>> \o Tail(t)
         IN  /\ r \in Seq(Steps) /\ r # <<>> /\ 1 \in DOMAIN r /\ r[1] = s
             /\ DOMAIN r = DOMAIN t
             /\ \A i \in DOMAIN r : i \in Nat /\ (i # 1 => r[i] = t[i])
             /\ Has(t, P) /\ (Head(t) \in P => s \in P) => Has(r, P)
             /\ Has(r, P) /\ (s \in P => Head(t) \in P) => Has(t, P)
             /\ Follows(t, P, Q) /\ (s \in P => Head(t) \in P) => Follows(r, P, Q)
             /\ Precedes(t, P, Q) /\ (s \in P => Head(t) \in P) /\ (Head(t) \in Q => s \in Q)
                  => Precedes(r, P, Q)
<1> DEFINE r == <<s>> \o Tail(t)
<1>1. /\ r \in Seq(Steps) /\ Head(t) \in Steps /\ Head(t) = t[1] /\ 1 \in DOMAIN t
      /\ DOMAIN r = DOMAIN t
      /\ r[1] = s
      /\ \A i \in DOMAIN r : i \in Nat /\ i >= 1 /\ (i # 1 => r[i] = t[i])
  <2>1. Tail(t) \in Seq(Steps) /\ Len(Tail(t)) = Len(t) - 1 /\ <<s>> \in Seq(Steps)
        /\ Len(<<s>>) = 1
        /\ \A i \in 1 .. Len(t) - 1 : Tail(t)[i] = t[i + 1]
    OBVIOUS
  <2>2. r \in Seq(Steps) /\ Len(r) = Len(t) /\ r[1] = s
        /\ \A i \in 1 .. Len(t) - 1 : r[i + 1] = Tail(t)[i]
    BY <2>1
  <2>3. DOMAIN r = 1 .. Len(t) /\ DOMAIN t = 1 .. Len(t) /\ Len(t) \in Nat /\ Len(t) >= 1
    BY <2>2
  <2> HIDE DEF r
  <2>4. ASSUME NEW i \in DOMAIN r, i # 1 PROVE r[i] = t[i]
    <3>1. i - 1 \in 1 .. Len(t) - 1 /\ (i - 1) + 1 = i
      BY <2>3, <2>4
    <3> QED BY <3>1, <2>1, <2>2
  <2> QED BY <2>2, <2>3, <2>4
<1>2. r # <<>>
  BY <1>1
<1> HIDE DEF r
<1>3. Has(t, P) /\ (Head(t) \in P => s \in P) => Has(r, P)
  BY <1>1 DEF Has
<1>4. Has(r, P) /\ (s \in P => Head(t) \in P) => Has(t, P)
  BY <1>1 DEF Has
<1>5. Follows(t, P, Q) /\ (s \in P => Head(t) \in P) => Follows(r, P, Q)
  <2> SUFFICES ASSUME Follows(t, P, Q), s \in P => Head(t) \in P,
                      NEW i \in DOMAIN r, r[i] \in P
               PROVE  \E j \in DOMAIN r : i < j /\ r[j] \in Q
    BY DEF Follows
  <2>1. PICK j \in DOMAIN t : i < j /\ t[j] \in Q
    BY <1>1 DEF Follows
  <2> QED BY <1>1, <2>1
<1>6. Precedes(t, P, Q) /\ (s \in P => Head(t) \in P) /\ (Head(t) \in Q => s \in Q)
        => Precedes(r, P, Q)
  <2> SUFFICES ASSUME Precedes(t, P, Q), s \in P => Head(t) \in P, Head(t) \in Q => s \in Q,
                      NEW i \in DOMAIN r, r[i] \in P
               PROVE  \E j \in DOMAIN r : j < i /\ r[j] \in Q
    BY DEF Precedes
  <2>1. PICK j \in DOMAIN t : j < i /\ t[j] \in Q
    BY <1>1 DEF Precedes
  <2> QED BY <1>1, <2>1
<1> QED BY <1>1, <1>2, <1>3, <1>4, <1>5, <1>6 DEF r

(* What is left of an edit is sound.                                        *)
LEMMA TailSound ==
  ASSUME NEW t \in Seq(Steps), t # <<>>, NEW mine, Sound(t, mine)
  PROVE  /\ Sound(Tail(t), mine)
         /\ Head(t).do \in {"add", "store"} => RemovesNone(Tail(t))
<1> DEFINE r == Tail(t)
           s == Head(t)
<1>1. /\ s \in Steps /\ s = t[1] /\ 1 \in DOMAIN t
      /\ \A i \in DOMAIN r : i \in Nat /\ i >= 1 /\ i + 1 \in DOMAIN t /\ r[i] = t[i + 1]
  OBVIOUS
<1> HIDE DEF r, s
<1>2. Ordered(r)
  BY <1>1 DEF Ordered, Sound
<1>3. s.do \in {"add", "store"} => RemovesNone(r)
  <2>1. \A i \in DOMAIN r : 1 < i + 1
    BY <1>1
  <2> QED BY <1>1, <2>1 DEF Ordered, Sound, RemovesNone
<1>4. Owned(r) /\ Mine(r, mine)
  BY <1>1 DEF Owned, Mine, Sound
<1>5. ASSUME NEW m \in Mappings
      PROVE  /\ Follows(r, Naming({"erase"}, m), Naming({"store"} \union Removes, m))
             /\ Follows(r, Naming({"add"}, m), Naming({"store"}, m))
             /\ Follows(r, Naming({"add"}, m), Doing({"list"}, m.holder))
             /\ Follows(r, Naming({"add"}, m), Doing({"config"}, None))
  <2>1. /\ Follows(t, Naming({"erase"}, m), Naming({"store"} \union Removes, m))
        /\ Follows(t, Naming({"add"}, m), Naming({"store"}, m))
        /\ Follows(t, Naming({"add"}, m), Doing({"list"}, m.holder))
        /\ Follows(t, Naming({"add"}, m), Doing({"config"}, None))
    BY DEF Sound
  <2> QED BY <2>1, TailKeeps DEF r
<1>6. ASSUME NEW m \in Mappings, Has(r, Naming(Removes, m))
      PROVE  Precedes(r, Naming({"store"}, m), Naming({"add"}, m))
  <2>1. Has(t, Naming(Removes, m))
    BY <1>6, TailKeeps DEF r
  <2>2. Precedes(t, Naming({"store"}, m), Naming({"add"}, m))
    BY <2>1 DEF Sound
  <2>3. PICK i \in DOMAIN r : r[i] \in Naming(Removes, m)
    BY <1>6 DEF Has
  <2>4. r[i].do \in Removes
    BY <2>3 DEF Naming
  <2>5. s \notin Naming({"add"}, m)
    BY <1>3, <2>4 DEF Naming, RemovesNone
  <2> QED BY <2>2, <2>5, TailKeeps DEF r, s
<1> QED BY <1>2, <1>3, <1>4, <1>5, <1>6 DEF Sound, r, s

(* Nor does an erase or a store of one of several mappings change that.     *)
LEMMA RestKeeps ==
  ASSUME NEW t \in Seq(Steps), t # <<>>, NEW mine, Sound(t, mine),
         NEW n \in Head(t).these, Head(t).do \in {"erase", "store"}
  PROVE  LET s == Head(t)
             r == IF s.these = {n} THEN Tail(t)
                                   ELSE <<[s EXCEPT !.these = @ \ {n}]>> \o Tail(t)
         IN  /\ r \in Seq(Steps) /\ Sound(r, mine)
             /\ \A m \in Mappings \ {n} :
                  Has(t, Naming({"store"} \union Removes, m))
                    => Has(r, Naming({"store"} \union Removes, m))
             /\ \A h : Has(t, Doing({"list"} \union Removes, h))
                         => Has(r, Doing({"list"} \union Removes, h))
             /\ Has(t, Doing({"config"}, None)) => Has(r, Doing({"config"}, None))
             /\ \A m \in Mappings : Erased(t, m) /\ (s.do = "erase" => m # n) => Erased(r, m)
             /\ \A m \in Mappings : Added(t, m) => Added(r, m)
             /\ s.do = "erase" => Has(r, Naming({"store"} \union Removes, n))
             /\ s.do = "store" => RemovesNone(r)
             /\ \A S : Dropped(t, S) => Dropped(r, S)
<1> DEFINE s == Head(t)
           less == [s EXCEPT !.these = @ \ {n}]
           r == IF s.these = {n} THEN Tail(t) ELSE <<less>> \o Tail(t)
<1>1. /\ s \in Steps /\ s = t[1] /\ 1 \in DOMAIN t /\ Tail(t) \in Seq(Steps)
      /\ \A i \in DOMAIN Tail(t) : i \in Nat /\ i >= 1 /\ i + 1 \in DOMAIN t /\ Tail(t)[i] = t[i + 1]
      /\ s.these \subseteq Mappings /\ n \in Mappings
  <2>1. s \in Steps /\ s = t[1] /\ 1 \in DOMAIN t /\ Tail(t) \in Seq(Steps)
        /\ \A i \in DOMAIN Tail(t) : i \in Nat /\ i >= 1 /\ i + 1 \in DOMAIN t /\ Tail(t)[i] = t[i + 1]
    OBVIOUS
  <2> QED BY <2>1 DEF Steps
<1>2. /\ less \in Steps /\ less.do = s.do /\ less.holder = s.holder
      /\ less.these = s.these \ {n} 
  BY <1>1 DEF Steps
<1> HIDE DEF s, less
<1>3. CASE s.these = {n}
  <2>1. r = Tail(t)
    BY <1>3
  <2>2. \A h : s \notin Doing({"list"} \union Removes, h) /\ s \notin Doing({"config"}, None)
    BY DEF Doing, Removes, s
  <2>3. \A m \in Mappings : s \notin Naming({"add"}, m) /\ (m # n => s \notin Naming({"store"} \union Removes, m))
    BY <1>3 DEF Naming, s
  <2>4. \A m \in Mappings : (s.do = "erase" => m # n) => s \notin Naming({"erase"}, m)
    BY <1>3 DEF Naming, s
  <2>5. \A m \in Mappings \ {n} :
          Has(t, Naming({"store"} \union Removes, m)) => Has(r, Naming({"store"} \union Removes, m))
    <3>1. \A P : Has(t, P) /\ s \notin P => Has(r, P)
      BY <2>1, TailKeeps DEF s
    <3> QED BY <2>3, <3>1
  <2>6. \A h : Has(t, Doing({"list"} \union Removes, h)) => Has(r, Doing({"list"} \union Removes, h))
    <3>1. \A P : Has(t, P) /\ s \notin P => Has(r, P)
      BY <2>1, TailKeeps DEF s
    <3> QED BY <2>2, <3>1
  <2>7. Has(t, Doing({"config"}, None)) => Has(r, Doing({"config"}, None))
    BY <2>1, <2>2, TailKeeps DEF s
  <2>8. \A m \in Mappings : Erased(t, m) /\ (s.do = "erase" => m # n) => Erased(r, m)
    BY <2>1, <2>4, TailKeeps DEF Erased, s
  <2>9. \A m \in Mappings : Added(t, m) => Added(r, m)
    BY <2>1, <2>3, TailKeeps DEF Added, s
  <2>10. s.do = "erase" => Has(r, Naming({"store"} \union Removes, n))
    <3>1. Follows(t, Naming({"erase"}, n), Naming({"store"} \union Removes, n))
      BY <1>1 DEF Sound
    <3>2. s.do = "erase" => s \in Naming({"erase"}, n)
      BY <1>1 DEF Naming, s
    <3> QED BY <2>1, <3>1, <3>2, TailKeeps DEF s
  <2>11. s.do = "store" => RemovesNone(r)
    BY <2>1, TailSound DEF s
  <2>12. \A S : Dropped(t, S) => Dropped(r, S)
    BY <1>1, <2>1 DEF Dropped
  <2>13. r \in Seq(Steps) /\ Sound(r, mine)
    BY <1>1, <2>1, TailSound
  <2> HIDE DEF r
  <2> QED BY <2>5, <2>6, <2>7, <2>8, <2>9, <2>10, <2>11, <2>12, <2>13 DEF s, r, less
<1>4. CASE s.these # {n}
  <2>1. r = <<less>> \o Tail(t)
    BY <1>4
  <2> HIDE DEF r
  <2>2. /\ r \in Seq(Steps) /\ 1 \in DOMAIN r /\ r[1] = less /\ DOMAIN r = DOMAIN t
        /\ \A i \in DOMAIN r : i \in Nat /\ (i # 1 => r[i] = t[i])
    BY <1>2, <2>1, ShrinkKeeps
  <2>3. \A what, m : less \in Naming(what, m) <=> s \in Naming(what, m) /\ m # n
    BY <1>1, <1>2 DEF Naming
  <2>4. \A what, h : less \in Doing(what, h) <=> s \in Doing(what, h)
    BY <1>1, <1>2 DEF Doing
  <2>5. \A m \in Mappings \ {n} :
          Has(t, Naming({"store"} \union Removes, m)) => Has(r, Naming({"store"} \union Removes, m))
    BY <1>2, <2>1, <2>3, ShrinkKeeps DEF s
  <2>6. \A h : Has(t, Doing({"list"} \union Removes, h)) => Has(r, Doing({"list"} \union Removes, h))
    BY <1>2, <2>1, <2>4, ShrinkKeeps DEF s
  <2>7. Has(t, Doing({"config"}, None)) => Has(r, Doing({"config"}, None))
    BY <1>2, <2>1, <2>4, ShrinkKeeps DEF s
  <2>8. \A m \in Mappings : Erased(t, m) /\ (s.do = "erase" => m # n) => Erased(r, m)
    <3>1. \A m : (s.do = "erase" => m # n) => (s \in Naming({"erase"}, m) => less \in Naming({"erase"}, m))
      BY <2>3 DEF Naming
    <3> QED BY <1>2, <2>1, <2>3, <3>1, ShrinkKeeps DEF Erased, s
  <2>9. \A m \in Mappings : s \notin Naming({"add"}, m)
    BY DEF Naming, s
  <2>10. \A m \in Mappings : Added(t, m) => Added(r, m)
    BY <1>2, <2>1, <2>3, <2>9, ShrinkKeeps DEF Added, s
  <2>11. s.do = "erase" => Has(r, Naming({"store"} \union Removes, n))
    <3> SUFFICES ASSUME s.do = "erase" PROVE Has(r, Naming({"store"} \union Removes, n))
      OBVIOUS
    <3>1. Follows(t, Naming({"erase"}, n), Naming({"store"} \union Removes, n))
      BY <1>1 DEF Sound
    <3>2. s \in Naming({"erase"}, n)
      BY <1>1 DEF Naming, s
    <3>3. PICK j \in DOMAIN t : 1 < j /\ t[j] \in Naming({"store"} \union Removes, n)
      BY <1>1, <3>1, <3>2 DEF Follows
    <3> QED BY <2>2, <3>3 DEF Has
  <2>12. \A i, j \in DOMAIN r : i < j /\ r[i].do \in {"add", "store"} => r[j].do \notin Removes
    <3>1. \A i \in DOMAIN r : r[i].do = t[i].do
      BY <1>1, <1>2, <2>2
    <3> QED BY <2>2, <3>1 DEF Sound, Ordered
  <2>13. s.do = "store" => RemovesNone(r)
    <3>1. \A i \in DOMAIN r : i = 1 \/ 1 < i
      <4>1. DOMAIN t = 1 .. Len(t) /\ Len(t) \in Nat
        OBVIOUS
      <4> QED BY <2>2, <4>1
    <3>2. s.do = "store" => less.do \notin Removes
      BY <1>2 DEF Removes
    <3> QED BY <1>2, <2>2, <2>12, <3>1, <3>2 DEF RemovesNone
  <2>14. \A S : Dropped(t, S) => Dropped(r, S)
    <3>1. less.do # "drop"
      BY <1>2 DEF s
    <3> QED BY <2>2, <3>1 DEF Dropped
  <2>15. Owned(r) /\ Mine(r, mine)
    <3>1. \A i \in DOMAIN r : /\ r[i].do = t[i].do /\ r[i].holder = t[i].holder
                              /\ r[i].these \subseteq t[i].these
      <4>1. /\ r[1].do = t[1].do /\ r[1].holder = t[1].holder
            /\ r[1].these \subseteq t[1].these
        BY <1>1, <1>2, <2>2
      <4> QED BY <2>2, <4>1
    <3>2. Owned(t) /\ Mine(t, mine)
      BY DEF Sound
    <3>3. Owned(r)
      BY <2>2, <3>1, <3>2 DEF Owned
    <3>4. Mine(r, mine)
      BY <2>2, <3>1, <3>2 DEF Mine
    <3> QED BY <3>3, <3>4
  <2>16. ASSUME NEW m \in Mappings
         PROVE  /\ Follows(r, Naming({"erase"}, m), Naming({"store"} \union Removes, m))
                /\ Follows(r, Naming({"add"}, m), Naming({"store"}, m))
                /\ Follows(r, Naming({"add"}, m), Doing({"list"}, m.holder))
                /\ Follows(r, Naming({"add"}, m), Doing({"config"}, None))
                /\ Has(r, Naming(Removes, m)) => Precedes(r, Naming({"store"}, m), Naming({"add"}, m))
    <3>1. /\ Follows(t, Naming({"erase"}, m), Naming({"store"} \union Removes, m))
          /\ Follows(t, Naming({"add"}, m), Naming({"store"}, m))
          /\ Follows(t, Naming({"add"}, m), Doing({"list"}, m.holder))
          /\ Follows(t, Naming({"add"}, m), Doing({"config"}, None))
          /\ Has(t, Naming(Removes, m)) => Added(t, m)
      BY DEF Sound, Added
    <3>2. \A Q : /\ Follows(t, Naming({"erase"}, m), Q) => Follows(r, Naming({"erase"}, m), Q)
                 /\ Follows(t, Naming({"add"}, m), Q) => Follows(r, Naming({"add"}, m), Q)
      BY <1>2, <2>1, <2>3, ShrinkKeeps DEF s
    <3>3. Has(r, Naming(Removes, m)) => Has(t, Naming(Removes, m))
      BY <1>2, <2>1, <2>3, ShrinkKeeps DEF s
    <3> QED BY <2>10, <3>1, <3>2, <3>3 DEF Added
  <2>17. Sound(r, mine)
    BY <2>12, <2>15, <2>16 DEF Sound, Ordered
  <2> QED BY <2>2, <2>5, <2>6, <2>7, <2>8, <2>10, <2>11, <2>13, <2>14, <2>17 DEF s, r, less
<1> QED BY <1>3, <1>4

(****************************************************************************)
(* The edits, as they begin.                                                *)
(****************************************************************************)

(* The holders in turn: the buttons, the sticks, and those named last.      *)
LEMMA InOrder ==
  ASSUME NEW L, NEW last \in Seq(L), last # <<>>
  PROVE  /\ First \o last \in Seq(Mapped \union L) /\ First \o last # <<>>
         /\ \A h \in Mapped : \E i \in DOMAIN (First \o last) : (First \o last)[i] = h
         /\ \A k \in DOMAIN last : \E i \in DOMAIN (First \o last) : (First \o last)[i] = last[k]
<1> DEFINE b == SetToSeq(Buttons)
           s == SetToSeq(Sticks)
<1>1. /\ b \in Seq(Buttons) /\ \A x \in Buttons : \E i \in DOMAIN b : b[i] = x
      /\ s \in Seq(Sticks) /\ \A x \in Sticks : \E i \in DOMAIN s : s[i] = x
  BY HoldersAreFinite, SetToSeqOnto
<1> HIDE DEF b, s
<1>2. b \in Seq(Mapped \union L) /\ s \in Seq(Mapped \union L) /\ last \in Seq(Mapped \union L)
  BY <1>1 DEF Mapped
<1>3. First = b \o s
  BY DEF First, b, s
<1>4. First \in Seq(Mapped \union L)
  BY <1>2, <1>3
<1>5. /\ \A i \in DOMAIN b : \E j \in DOMAIN First : First[j] = b[i]
      /\ \A i \in DOMAIN s : \E j \in DOMAIN First : First[j] = s[i]
  <2>1. /\ \A i \in DOMAIN b : i \in DOMAIN First /\ First[i] = b[i]
        /\ \A i \in DOMAIN s : Len(b) + i \in DOMAIN First /\ First[Len(b) + i] = s[i]
    BY <1>2, <1>3, Concat
  <2> QED BY <2>1
<1>6. /\ First \o last \in Seq(Mapped \union L)
      /\ \A i \in DOMAIN First : \E j \in DOMAIN (First \o last) : (First \o last)[j] = First[i]
      /\ \A i \in DOMAIN last : \E j \in DOMAIN (First \o last) : (First \o last)[j] = last[i]
  <2> DEFINE hs == First \o last
  <2>1. /\ hs \in Seq(Mapped \union L)
        /\ \A i \in DOMAIN First : i \in DOMAIN hs /\ hs[i] = First[i]
        /\ \A i \in DOMAIN last : Len(First) + i \in DOMAIN hs /\ hs[Len(First) + i] = last[i]
    BY <1>2, <1>4, Concat
  <2> HIDE DEF hs
  <2>2. /\ \A i \in DOMAIN First : \E j \in DOMAIN hs : hs[j] = First[i]
        /\ \A i \in DOMAIN last : \E j \in DOMAIN hs : hs[j] = last[i]
    BY <2>1
  <2> QED BY <2>1, <2>2 DEF hs
<1>7. \A h \in Mapped : \E j \in DOMAIN First : First[j] = h
  BY <1>1, <1>5 DEF Mapped
<1>8. First \o last # <<>>
  <2>1. 1 \in DOMAIN last
    OBVIOUS
  <2>2. PICK j \in DOMAIN (First \o last) : TRUE
    BY <1>6, <2>1
  <2>3. DOMAIN (First \o last) # {}
    BY <2>2
  <2> QED BY <1>6, <2>3
<1>9. \A h \in Mapped : \E i \in DOMAIN (First \o last) : (First \o last)[i] = h
  <2> SUFFICES ASSUME NEW h \in Mapped
               PROVE  \E i \in DOMAIN (First \o last) : (First \o last)[i] = h
    OBVIOUS
  <2>1. PICK j \in DOMAIN First : First[j] = h
    BY <1>7
  <2> QED BY <1>6, <2>1
<1> QED BY <1>6, <1>8, <1>9

(* Controller::AddDefaultMappings: what it adds is stored, listed, and the  *)
(* port has a configuration then.                                           *)
LEMMA ControllerDefaultsSound ==
  ASSUME NEW S \in SUBSET Mappings, NEW type \in DeviceTypes
  PROVE  LET t == ControllerDefaults(S, type)
         IN  /\ t \in Seq(Steps)
             /\ Only(t, {"add", "store", "list", "config"})
             /\ Owned(t) /\ Mine(t, DefaultsOf({type}))
             /\ Has(t, Doing({"config"}, None))
             /\ \A m \in Mappings :
                  /\ Follows(t, Naming({"add"}, m), Naming({"store"}, m))
                  /\ Follows(t, Naming({"add"}, m), Doing({"list"}, m.holder))
                  /\ Follows(t, Naming({"add"}, m), Doing({"config"}, None))
                  /\ m \notin S => Added(t, m)
                  /\ m \in DefaultsOf({type}) => Has(t, Naming({"add"}, m))
                  /\ m \in S /\ m.holder \in Mapped => Has(t, Naming({"store"}, m))
<1> DEFINE hs == First \o <<Rumble>>
           ss == [i \in DOMAIN hs |-> AddDefaults(hs[i], Of(hs[i], S), type)]
           u == FlattenSeq(ss)
           last == Do("config", None, {})
           t == ControllerDefaults(S, type)
<1>1. t = u \o <<last>>
  BY DEF ControllerDefaults, InTurn
<1>2. /\ hs \in Seq(Mapped \union {Rumble}) /\ hs # <<>>
      /\ \A h \in Mapped \union {Rumble} : \E i \in DOMAIN hs : hs[i] = h
  <2>1. <<Rumble>> \in Seq({Rumble}) /\ <<Rumble>> # <<>> /\ 1 \in DOMAIN <<Rumble>> /\ <<Rumble>>[1] = Rumble
    OBVIOUS
  <2>2. \E i \in DOMAIN hs : hs[i] = Rumble
    BY <2>1, InOrder
  <2> QED BY <2>1, <2>2, InOrder
<1> HIDE DEF hs
<1>3. \A i \in DOMAIN hs : hs[i] \in Mapped \union {Rumble}
  BY <1>2
<1>4. ASSUME NEW i \in DOMAIN hs PROVE ss[i] = AddDefaults(hs[i], Of(hs[i], S), type)
  OBVIOUS
<1>5. ss \in Seq(Seq(Steps)) /\ ss # <<>> /\ DOMAIN ss = DOMAIN hs
  <2>1. \A i \in DOMAIN hs : ss[i] \in Seq(Steps)
    <3> SUFFICES ASSUME NEW i \in DOMAIN hs PROVE ss[i] \in Seq(Steps)
      OBVIOUS
    <3>1. PICK m : m \in Mappings
      <4>1. [holder |-> Rumble, direction |-> None, input |-> SDL] \in Mappings
        BY DEF Mappings
      <4> QED BY <4>1
    <3> QED BY <1>3, <1>4, <3>1, AddDefaultsSound
  <2>2. DOMAIN ss = DOMAIN hs /\ DOMAIN hs = 1 .. Len(hs) /\ Len(hs) \in Nat /\ Len(hs) # 0
    BY <1>2
  <2>3. ss \in [1 .. Len(hs) -> Seq(Steps)]
    BY <2>1, <2>2
  <2>4. ss \in Seq(Seq(Steps))
    BY <2>2, <2>3
  <2> QED BY <2>2, <2>4
<1> HIDE DEF ss
<1>6. ASSUME NEW i \in DOMAIN ss, NEW m \in Mappings
      PROVE  /\ Only(ss[i], {"add", "store", "list"}) /\ Owned(ss[i]) /\ Mine(ss[i], DefaultsOf({type}))
             /\ Follows(ss[i], Naming({"add"}, m), Naming({"store"}, m))
             /\ Follows(ss[i], Naming({"add"}, m), Doing({"list"}, m.holder))
             /\ m \notin S => Precedes(ss[i], Naming({"store"}, m), Naming({"add"}, m))
             /\ m \in DefaultsFor(hs[i], type) => Has(ss[i], Naming({"add"}, m))
             /\ m \in S /\ m.holder = hs[i] => Has(ss[i], Naming({"store"}, m))
  BY <1>3, <1>4, <1>5, AddDefaultsSound
<1>7. PICK some : some \in Mappings
  <2>1. [holder |-> Rumble, direction |-> None, input |-> SDL] \in Mappings
    BY DEF Mappings
  <2> QED BY <2>1
<1>8. /\ u \in Seq(Steps)
      /\ \A i \in DOMAIN u : \E b \in DOMAIN ss : \E k \in DOMAIN ss[b] : u[i] = ss[b][k]
  BY <1>5, FlattenKeeps
<1>9. \A P, Q : /\ \A b \in DOMAIN ss : Has(ss[b], P) => Has(u, P)
                /\ (\A b \in DOMAIN ss : Follows(ss[b], P, Q)) => Follows(u, P, Q)
                /\ (\A b \in DOMAIN ss : Precedes(ss[b], P, Q)) => Precedes(u, P, Q)
  BY <1>5, FlattenKeeps
<1> HIDE DEF u
<1>10. Only(u, {"add", "store", "list"})
  BY <1>6, <1>7, <1>8 DEF Only
<1>11. Owned(u)
  <2>1. \A b \in DOMAIN ss : Owned(ss[b])
    BY <1>6, <1>7
  <2> QED BY <1>8, <2>1 DEF Owned
<1>12. Mine(u, DefaultsOf({type}))
  <2>1. \A b \in DOMAIN ss : Mine(ss[b], DefaultsOf({type}))
    BY <1>6, <1>7
  <2> QED BY <1>8, <2>1 DEF Mine
<1>13. /\ last \in Steps /\ last.do = "config" /\ last.holder = None /\ last.these = {}
       /\ <<last>> \in Seq(Steps) /\ <<last>>[1] = last /\ DOMAIN <<last>> = {1}
  BY DEF Do, Steps
<1> HIDE DEF last, t
<1>14. /\ t \in Seq(Steps)
       /\ \A n \in DOMAIN t : (\E i \in DOMAIN u : t[n] = u[i]) \/ t[n] = last
  <2>1. \A n \in DOMAIN t : (\E i \in DOMAIN u : t[n] = u[i]) \/ \E i \in DOMAIN <<last>> : t[n] = <<last>>[i]
    BY <1>1, <1>8, <1>13, ConcatKeeps
  <2> QED BY <1>1, <1>8, <1>13, <2>1, ConcatKeeps
<1>15. \A P, Q : /\ Has(t, P) <=> Has(u, P) \/ Has(<<last>>, P)
                 /\ (Follows(u, P, Q) \/ Has(<<last>>, Q)) /\ Follows(<<last>>, P, Q) => Follows(t, P, Q)
                 /\ Precedes(u, P, Q) /\ Precedes(<<last>>, P, Q) => Precedes(t, P, Q)
  <2> TAKE P, Q
  <2> DEFINE v == <<last>>
  <2>1. v \in Seq(Steps) /\ t = u \o v
    BY <1>1, <1>13
  <2> HIDE DEF v
  <2>2. /\ Has(u \o v, P) <=> Has(u, P) \/ Has(v, P)
        /\ (Follows(u, P, Q) \/ Has(v, Q)) /\ Follows(v, P, Q) => Follows(u \o v, P, Q)
        /\ Precedes(u, P, Q) /\ (Precedes(v, P, Q) \/ Has(u, Q)) => Precedes(u \o v, P, Q)
    BY <1>8, <2>1, ConcatKeeps
  <2> QED BY <2>1, <2>2 DEF v
<1>16. Only(t, {"add", "store", "list", "config"})
  BY <1>10, <1>13, <1>14 DEF Only
<1>17. Owned(t)
  BY <1>11, <1>13, <1>14 DEF Owned
<1>18. Mine(t, DefaultsOf({type}))
  BY <1>12, <1>13, <1>14 DEF Mine
<1>19. Has(<<last>>, Doing({"config"}, None))
  BY <1>13 DEF Has, Doing
<1>20. Has(t, Doing({"config"}, None))
  BY <1>15, <1>19
<1>21. \A m, Q : Follows(<<last>>, Naming({"add"}, m), Q) /\ Precedes(<<last>>, Naming({"store"}, m), Q)
  BY <1>13 DEF Naming, Follows, Precedes
<1>22. ASSUME NEW m \in Mappings
       PROVE  /\ Follows(t, Naming({"add"}, m), Naming({"store"}, m))
              /\ Follows(t, Naming({"add"}, m), Doing({"list"}, m.holder))
              /\ Follows(t, Naming({"add"}, m), Doing({"config"}, None))
  <2>1. Follows(u, Naming({"add"}, m), Naming({"store"}, m))
    BY <1>6, <1>9
  <2>2. Follows(u, Naming({"add"}, m), Doing({"list"}, m.holder))
    BY <1>6, <1>9
  <2> QED BY <1>15, <1>19, <1>21, <2>1, <2>2
<1>23. ASSUME NEW m \in Mappings, m \notin S PROVE Added(t, m)
  <2>1. Precedes(u, Naming({"store"}, m), Naming({"add"}, m))
    BY <1>6, <1>9, <1>23
  <2> QED BY <1>15, <1>21, <2>1 DEF Added
<1>24. ASSUME NEW m \in Mappings, m \in DefaultsOf({type}) PROVE Has(t, Naming({"add"}, m))
  <2>1. m.holder \in Mapped \union {Rumble} /\ m \in DefaultsFor(m.holder, type)
    BY <1>24, DefaultsOwned
  <2>2. PICK i \in DOMAIN ss : hs[i] = m.holder
    BY <1>2, <1>5, <2>1
  <2>3. Has(u, Naming({"add"}, m))
    BY <1>6, <1>9, <2>1, <2>2
  <2> QED BY <1>15, <2>3
<1>25. ASSUME NEW m \in Mappings, m \in S, m.holder \in Mapped PROVE Has(t, Naming({"store"}, m))
  <2>1. PICK i \in DOMAIN ss : hs[i] = m.holder
    BY <1>2, <1>5, <1>25
  <2>2. Has(u, Naming({"store"}, m))
    BY <1>6, <1>9, <1>25, <2>1
  <2> QED BY <1>15, <2>2
<1> QED BY <1>14, <1>16, <1>17, <1>18, <1>20, <1>22, <1>23, <1>24, <1>25 DEF t

(* Each step of a kind is of one holder, and of these mappings.             *)
Just(t, what, h, T) == \A i \in DOMAIN t : t[i].do = what => t[i].holder = h /\ t[i].these = T

(* Some mappings of one holder erased, and then some other step.            *)
LEMMA EraseThen ==
  ASSUME NEW h \in Holders, NEW S \in SUBSET Mappings, \A m \in S : m.holder = h,
         NEW what \in {"forget", "drop", "list"}, NEW T \in {S, {}}, NEW m \in Mappings
  PROVE  LET t == Each("erase", h, S) \o <<Do(what, h, T)>>
         IN  /\ t \in Seq(Steps) /\ t # <<>>
             /\ Only(t, {"erase", what}) /\ Owned(t) /\ Mine(t, S)
             /\ T = S => Follows(t, Naming({"erase"}, m), Naming({what}, m))
             /\ Erased(t, m)
             /\ Just(t, what, h, T)
<1> DEFINE erase == Do("erase", h, S)
           last == Do(what, h, T)
           t == Each("erase", h, S) \o <<last>>
<1>1. erase \in Steps /\ last \in Steps
  BY DEF Do, Steps, Holders
<1>2. /\ erase.do = "erase" /\ erase.holder = h /\ erase.these = S
      /\ last.do = what /\ last.holder = h /\ last.these = T /\ T \subseteq S
      /\ what # "erase"
  BY DEF Do
<1>3. Each("erase", h, S) = IF S = {} THEN <<>> ELSE <<erase>>
  BY DEF Each
<1> HIDE DEF erase, last
<1>4. S = {} => t = <<last>>
  <2>1. <<>> \o <<last>> = <<last>>
    BY <1>1
  <2> QED BY <1>3, <2>1
<1>5. S # {} => t = <<erase, last>>
  BY <1>1, <1>3, Pair
<1> HIDE DEF t
<1>6. /\ t \in Seq(Steps) /\ t # <<>>
      /\ \A i \in DOMAIN t : t[i] = erase \/ t[i] = last
  <2>1. /\ <<last>> \in Seq(Steps) /\ <<last>> # <<>>
        /\ \A i \in DOMAIN <<last>> : <<last>>[i] = last
    BY <1>1
  <2>2. /\ <<erase, last>> \in Seq(Steps) /\ <<erase, last>> # <<>>
        /\ \A i \in DOMAIN <<erase, last>> : <<erase, last>>[i] = erase \/ <<erase, last>>[i] = last
    BY <1>1
  <2>3. CASE S = {}
    BY <1>4, <2>1, <2>3, Zenon
  <2>4. CASE S # {}
    BY <1>5, <2>2, <2>4, Zenon
  <2> QED BY <2>3, <2>4
<1>7. Only(t, {"erase", what})
  BY <1>2, <1>6 DEF Only
<1>8. Owned(t)
  <2>1. ASSUME NEW i \in DOMAIN t, NEW n \in t[i].these PROVE n.holder = t[i].holder
    BY <1>2, <1>6, <2>1
  <2> QED BY <2>1 DEF Owned
<1>9. Mine(t, S)
  <2>1. ASSUME NEW i \in DOMAIN t PROVE t[i].these \subseteq S
    BY <1>2, <1>6, <2>1
  <2> QED BY <2>1 DEF Mine
<1>10. T = S => Follows(t, Naming({"erase"}, m), Naming({what}, m))
  BY <1>1, <1>2, <1>4, <1>5 DEF Follows, Naming
<1>11. Erased(t, m)
  <2>1. CASE S = {}
    BY <1>1, <1>2, <1>4, <2>1 DEF Erased, Precedes, Naming
  <2>2. CASE S # {}
    <3>1. t = <<erase, last>>
      BY <1>5, <2>2
    <3>2. 1 \in DOMAIN t /\ t[1] = erase /\ \A i \in DOMAIN t : i = 1 \/ (i = 2 /\ t[i] = last)
      BY <3>1
    <3>3. last \in Naming(Removes, m) => erase \in Naming({"erase"}, m)
      BY <1>1, <1>2 DEF Naming
    <3>4. erase \notin Naming(Removes, m)
      BY <1>2 DEF Naming, Removes
    <3> QED BY <3>2, <3>3, <3>4 DEF Erased, Precedes
  <2> QED BY <2>1, <2>2
<1>12. Just(t, what, h, T)
  BY <1>2, <1>6 DEF Just
<1> QED BY <1>6, <1>7, <1>8, <1>9, <1>10, <1>11, <1>12 DEF t, last

(* What edits that remove mappings have in common.                          *)
Clears(t, what, mine) ==
  /\ t \in Seq(Steps)
  /\ Only(t, what) /\ Owned(t) /\ Mine(t, mine)
  /\ \A m \in Mappings : Erased(t, m)
  /\ Dropped(t, mappings)

(* ClearAll...Mappings of one holder.                                       *)
LEMMA ClearAllSound ==
  ASSUME NEW h \in Holders, mappings \subseteq Mappings
  PROVE  /\ Clears(ClearAll(h), {"erase", "forget", "drop"}, mappings)
         /\ \A m \in Mappings :
              Follows(ClearAll(h), Naming({"erase"}, m), Naming({"store"} \union Removes, m))
<1> DEFINE S == Of(h, mappings)
           t == ClearAll(h)
<1>1. /\ S \in SUBSET Mappings /\ S \subseteq mappings
      /\ \A m \in S : m.holder = h
  BY DEF Of
<1>2. \A m, Q : Naming({"forget"}, m) \subseteq Naming({"store"} \union Removes, m)
                /\ Naming({"drop"}, m) \subseteq Naming({"store"} \union Removes, m)
  BY DEF Naming, Removes
<1>3. CASE h = Gyro /\ S = {}
  <2>1. t = <<>>
    BY <1>3, HoldersDiffer DEF ClearAll
  <2>2. <<>> \in Seq(Steps) /\ DOMAIN <<>> = {}
    OBVIOUS
  <2> QED BY <2>1, <2>2 DEF Clears, Only, Owned, Mine, Erased, Precedes, Dropped, Follows
<1>4. ASSUME NEW what \in {"forget", "drop"}, t = Each("erase", h, S) \o <<Do(what, h, S)>>
      PROVE  /\ Clears(t, {"erase", "forget", "drop"}, mappings)
             /\ \A m \in Mappings : Follows(t, Naming({"erase"}, m), Naming({"store"} \union Removes, m))
  <2> HIDE DEF S, t
  <2>1. ASSUME NEW m \in Mappings
        PROVE  /\ t \in Seq(Steps)
               /\ Only(t, {"erase", what}) /\ Owned(t) /\ Mine(t, S)
               /\ Follows(t, Naming({"erase"}, m), Naming({what}, m))
               /\ Erased(t, m)
               /\ Just(t, what, h, S)
    <3> DEFINE u == Each("erase", h, S) \o <<Do(what, h, S)>>
    <3>1. t = u /\ S \in {S, {}} /\ what \in {"forget", "drop", "list"}
      BY <1>4
    <3>2. /\ u \in Seq(Steps)
          /\ Only(u, {"erase", what}) /\ Owned(u) /\ Mine(u, S)
          /\ S = S => Follows(u, Naming({"erase"}, m), Naming({what}, m))
          /\ Erased(u, m)
          /\ Just(u, what, h, S)
      BY <1>1, <3>1, EraseThen
    <3> HIDE DEF u
    <3> QED BY <3>1, <3>2
  <2>2. PICK some : some \in Mappings
    <3>1. [holder |-> Rumble, direction |-> None, input |-> SDL] \in Mappings
      BY DEF Mappings
    <3> QED BY <3>1
  <2>3. Only(t, {"erase", "forget", "drop"}) /\ Mine(t, mappings)
    BY <1>1, <2>1, <2>2 DEF Only, Mine
  <2>4. Dropped(t, mappings)
    BY <2>1, <2>2 DEF Dropped, Only, Just, S
  <2>5. ASSUME NEW m \in Mappings
        PROVE  Follows(t, Naming({"erase"}, m), Naming({"store"} \union Removes, m))
    <3>1. Follows(t, Naming({"erase"}, m), Naming({what}, m))
      BY <2>1
    <3>2. Naming({what}, m) \subseteq Naming({"store"} \union Removes, m)
      BY <1>2
    <3> QED BY <3>1, <3>2 DEF Follows
  <2> QED BY <2>1, <2>2, <2>3, <2>4, <2>5 DEF Clears
<1>5. CASE ~(h = Gyro /\ S = {}) /\ h \in Sticks
  <2>1. t = Each("erase", h, S) \o <<Do("drop", h, S)>>
    <3>1. h # Gyro
      BY <1>5, HoldersDiffer
    <3> QED BY <1>5, <3>1 DEF ClearAll
  <2> QED BY <1>4, <2>1
<1>6. CASE ~(h = Gyro /\ S = {}) /\ h \notin Sticks
  <2>1. t = Each("erase", h, S) \o <<Do("forget", h, S)>>
    BY <1>6 DEF ClearAll, Removal
  <2> QED BY <1>4, <2>1
<1> QED BY <1>3, <1>5, <1>6

(* ClearAll...MappingsForDeviceType of one holder: a stick keeps in memory  *)
(* what it erases.                                                          *)
LEMMA ClearTypeSound ==
  ASSUME NEW h \in Holders, NEW type \in DeviceTypes, mappings \subseteq Mappings
  PROVE  LET t == ClearType(h, type)
         IN  /\ Clears(t, {"erase", "forget", "list"}, {m \in mappings : TypeOf(m) = type})
             /\ \A m \in Mappings :
                  /\ m.holder \notin Sticks
                       => Follows(t, Naming({"erase"}, m), Naming({"store"} \union Removes, m))
                  /\ Has(t, Naming(Removes, m)) => m \notin Kept(type)
<1> DEFINE S == {m \in Of(h, mappings) : TypeOf(m) = type}
           mine == {m \in mappings : TypeOf(m) = type}
           t == ClearType(h, type)
<1>1. /\ S \in SUBSET Mappings /\ S \subseteq mine
      /\ \A m \in S : m.holder = h /\ TypeOf(m) = type
  BY DEF Of
<1>2. \A m : Naming({"forget"}, m) \subseteq Naming({"store"} \union Removes, m)
  BY DEF Naming, Removes
<1>3. PICK some : some \in Mappings
  <2>1. [holder |-> Rumble, direction |-> None, input |-> SDL] \in Mappings
    BY DEF Mappings
  <2> QED BY <2>1
<1>4. CASE h = Gyro /\ S = {}
  <2>1. t = <<>>
    BY <1>4, HoldersDiffer DEF ClearType
  <2>2. <<>> \in Seq(Steps) /\ DOMAIN <<>> = {}
    OBVIOUS
  <2> QED BY <2>1, <2>2 DEF Clears, Only, Owned, Mine, Erased, Precedes, Dropped, Follows, Has
<1>5. CASE ~(h = Gyro /\ S = {}) /\ h \in Sticks
  <2>1. t = Each("erase", h, S) \o <<Do("list", h, {})>>
    <3>1. h # Gyro
      BY <1>5, HoldersDiffer
    <3> QED BY <1>5, <3>1 DEF ClearType
  <2> HIDE DEF S, t
  <2>2. ASSUME NEW m \in Mappings
        PROVE  /\ t \in Seq(Steps)
               /\ Only(t, {"erase", "list"}) /\ Owned(t) /\ Mine(t, S)
               /\ Erased(t, m)
               /\ Just(t, "list", h, {})
    <3> DEFINE u == Each("erase", h, S) \o <<Do("list", h, {})>>
    <3>1. t = u /\ {} \in {S, {}} /\ "list" \in {"forget", "drop", "list"}
      BY <2>1
    <3>2. /\ u \in Seq(Steps)
          /\ Only(u, {"erase", "list"}) /\ Owned(u) /\ Mine(u, S)
          /\ {} = S => Follows(u, Naming({"erase"}, m), Naming({"list"}, m))
          /\ Erased(u, m)
          /\ Just(u, "list", h, {})
      BY <1>1, <3>1, EraseThen
    <3> HIDE DEF u
    <3> QED BY <3>1, <3>2
  <2>3. Only(t, {"erase", "forget", "list"}) /\ Mine(t, mine) /\ Dropped(t, mappings)
    BY <1>1, <1>3, <2>2 DEF Only, Just, Mine, Dropped
  <2>4. Clears(t, {"erase", "forget", "list"}, mine)
    BY <1>3, <2>2, <2>3 DEF Clears
  <2>5. ASSUME NEW m \in Mappings, m.holder \notin Sticks
        PROVE  Follows(t, Naming({"erase"}, m), Naming({"store"} \union Removes, m))
    <3>1. Owned(t) /\ Mine(t, S)
      BY <1>3, <2>2
    <3>2. \A i \in DOMAIN t : t[i] \notin Naming({"erase"}, m)
      <4> SUFFICES ASSUME NEW i \in DOMAIN t, t[i] \in Naming({"erase"}, m) PROVE FALSE
        OBVIOUS
      <4>1. t[i].do = "erase" /\ m \in t[i].these
        BY DEF Naming
      <4>2. m \in S
        BY <3>1, <4>1 DEF Mine
      <4> QED BY <1>1, <1>5, <2>5, <4>2
    <3> QED BY <3>2 DEF Follows
  <2>6. ASSUME NEW m \in Mappings, Has(t, Naming(Removes, m)) PROVE FALSE
    <3>1. Only(t, {"erase", "list"})
      BY <1>3, <2>2
    <3> QED BY <2>6, <3>1 DEF Has, Naming, Only, Removes
  <2> QED BY <2>4, <2>5, <2>6 DEF t
<1>6. CASE ~(h = Gyro /\ S = {}) /\ h \notin Sticks
  <2>1. t = Each("erase", h, S) \o <<Do("forget", h, S)>>
    BY <1>6 DEF ClearType, Removal
  <2> HIDE DEF S, t
  <2>2. ASSUME NEW m \in Mappings
        PROVE  /\ t \in Seq(Steps)
               /\ Only(t, {"erase", "forget"}) /\ Owned(t) /\ Mine(t, S)
               /\ Follows(t, Naming({"erase"}, m), Naming({"forget"}, m))
               /\ Erased(t, m)
               /\ Just(t, "forget", h, S)
    <3> DEFINE u == Each("erase", h, S) \o <<Do("forget", h, S)>>
    <3>1. t = u /\ S \in {S, {}} /\ "forget" \in {"forget", "drop", "list"}
      BY <2>1
    <3>2. /\ u \in Seq(Steps)
          /\ Only(u, {"erase", "forget"}) /\ Owned(u) /\ Mine(u, S)
          /\ S = S => Follows(u, Naming({"erase"}, m), Naming({"forget"}, m))
          /\ Erased(u, m)
          /\ Just(u, "forget", h, S)
      BY <1>1, <3>1, EraseThen
    <3> HIDE DEF u
    <3> QED BY <3>1, <3>2
  <2>3. Only(t, {"erase", "forget", "list"}) /\ Mine(t, mine) /\ Dropped(t, mappings)
    BY <1>1, <1>3, <2>2 DEF Only, Just, Mine, Dropped
  <2>4. Clears(t, {"erase", "forget", "list"}, mine)
    BY <1>3, <2>2, <2>3 DEF Clears
  <2>5. ASSUME NEW m \in Mappings
        PROVE  Follows(t, Naming({"erase"}, m), Naming({"store"} \union Removes, m))
    <3>1. Follows(t, Naming({"erase"}, m), Naming({"forget"}, m))
      BY <2>2
    <3> QED BY <1>2, <3>1 DEF Follows
  <2>6. ASSUME NEW m \in Mappings, Has(t, Naming(Removes, m)) PROVE m \notin Kept(type)
    <3>1. PICK i \in DOMAIN t : t[i].do \in Removes /\ m \in t[i].these
      BY <2>6 DEF Has, Naming
    <3>2. m \in S
      BY <1>3, <2>2, <3>1 DEF Only, Just, Removes
    <3> QED BY <1>1, <1>6, <3>2 DEF Kept
  <2> QED BY <2>4, <2>5, <2>6 DEF t
<1> QED BY <1>4, <1>5, <1>6

(* What edits that add mappings have in common.                             *)
Adds(t, mine) ==
  /\ t \in Seq(Steps)
  /\ Only(t, {"add", "store", "list", "config"}) /\ Owned(t) /\ Mine(t, mine)
  /\ \A m \in Mappings :
       /\ Follows(t, Naming({"add"}, m), Naming({"store"}, m))
       /\ Follows(t, Naming({"add"}, m), Doing({"list"}, m.holder))
       /\ Follows(t, Naming({"add"}, m), Doing({"config"}, None))

(* What each edit promises as it begins.                                    *)
Planned(t, mine) ==
  /\ t \in Seq(Steps) /\ Sound(t, mine)
  /\ \A m \in Mappings : Erased(t, m)
  /\ \A m \in Mappings : m \notin mappings => Added(t, m)
  /\ Dropped(t, mappings)

(* Blocks that clear, in a row.                                             *)
LEMMA FlattenClears ==
  ASSUME NEW ss \in Seq(Seq(Steps)), ss # <<>>, NEW what, NEW mine,
         \A b \in DOMAIN ss : Clears(ss[b], what, mine)
  PROVE  Clears(FlattenSeq(ss), what, mine)
<1> DEFINE u == FlattenSeq(ss)
<1>1. /\ u \in Seq(Steps)
      /\ \A i \in DOMAIN u : \E b \in DOMAIN ss : \E k \in DOMAIN ss[b] : u[i] = ss[b][k]
  BY FlattenKeeps
<1>2. \A P, Q : (\A b \in DOMAIN ss : Precedes(ss[b], P, Q)) => Precedes(u, P, Q)
  BY FlattenKeeps
<1> HIDE DEF u
<1>3. \A b \in DOMAIN ss : Only(ss[b], what) /\ Owned(ss[b]) /\ Mine(ss[b], mine) /\ Dropped(ss[b], mappings)
  BY DEF Clears
<1>4. Only(u, what)
  BY <1>1, <1>3 DEF Only
<1>5. Owned(u)
  BY <1>1, <1>3 DEF Owned
<1>6. Mine(u, mine)
  BY <1>1, <1>3 DEF Mine
<1>7. Dropped(u, mappings)
  BY <1>1, <1>3 DEF Dropped
<1>8. \A m \in Mappings : Erased(u, m)
  BY <1>2 DEF Clears, Erased
<1> QED BY <1>1, <1>4, <1>5, <1>6, <1>7, <1>8 DEF Clears, u

(* An edit that only clears.                                                *)
LEMMA ClearsPlanned ==
  ASSUME NEW t, NEW mine, Clears(t, {"erase", "forget", "drop"}, mine),
         \A m \in Mappings : Follows(t, Naming({"erase"}, m), Naming({"store"} \union Removes, m))
  PROVE  Planned(t, mine)
<1>1. /\ t \in Seq(Steps) /\ Owned(t) /\ Mine(t, mine) /\ Dropped(t, mappings)
      /\ \A m \in Mappings : Erased(t, m)
      /\ \A i \in DOMAIN t : t[i].do \in {"erase", "forget", "drop"}
  BY DEF Clears, Only
<1>2. \A i \in DOMAIN t : t[i].do \notin {"add", "store"}
  BY <1>1
<1>3. Ordered(t)
  BY <1>2 DEF Ordered
<1>4. \A m : \A i \in DOMAIN t : t[i] \notin Naming({"add"}, m) /\ t[i] \notin Naming({"store"}, m)
  BY <1>2 DEF Naming
<1>5. \A m, Q : Follows(t, Naming({"add"}, m), Q) /\ Precedes(t, Naming({"store"}, m), Q)
  BY <1>4 DEF Follows, Precedes
<1>6. Sound(t, mine)
  BY <1>1, <1>3, <1>5 DEF Sound
<1> QED BY <1>1, <1>5, <1>6 DEF Planned, Added

(* An edit that only adds.                                                  *)
LEMMA AddsPlanned ==
  ASSUME NEW t, NEW mine, Adds(t, mine),
         \A m \in Mappings : m \notin mappings => Added(t, m)
  PROVE  Planned(t, mine)
<1>1. /\ t \in Seq(Steps) /\ Owned(t) /\ Mine(t, mine)
      /\ \A i \in DOMAIN t : t[i].do \in {"add", "store", "list", "config"}
  BY DEF Adds, Only
<1>2. \A i \in DOMAIN t : t[i].do \notin {"erase", "forget", "drop"}
  BY <1>1
<1>3. Ordered(t)
  BY <1>2 DEF Ordered, Removes
<1>4. \A m : \A i \in DOMAIN t : t[i] \notin Naming({"erase"}, m) /\ t[i] \notin Naming(Removes, m)
  BY <1>2 DEF Naming, Removes
<1>5. \A m, Q : /\ Follows(t, Naming({"erase"}, m), Q) /\ Precedes(t, Naming(Removes, m), Q)
                /\ ~Has(t, Naming(Removes, m))
  BY <1>4 DEF Follows, Precedes, Has
<1>6. Sound(t, mine)
  BY <1>1, <1>3, <1>5 DEF Sound, Adds
<1>7. Dropped(t, mappings)
  BY <1>2 DEF Dropped
<1> QED BY <1>1, <1>5, <1>6, <1>7 DEF Planned, Erased

(* Two that add, in a row.                                                  *)
LEMMA AddsAgain ==
  ASSUME NEW s, NEW t, NEW mine, Adds(s, mine), Adds(t, mine)
  PROVE  Adds(s \o t, mine)
<1> DEFINE u == s \o t
<1>1. s \in Seq(Steps) /\ t \in Seq(Steps)
  BY DEF Adds
<1>2. /\ u \in Seq(Steps)
      /\ \A n \in DOMAIN u : (\E i \in DOMAIN s : u[n] = s[i]) \/ \E i \in DOMAIN t : u[n] = t[i]
  BY <1>1, ConcatKeeps
<1>3. \A P, Q : Follows(s, P, Q) /\ Follows(t, P, Q) => Follows(u, P, Q)
  BY <1>1, ConcatKeeps
<1> HIDE DEF u
<1>4. Only(u, {"add", "store", "list", "config"})
  BY <1>2 DEF Adds, Only
<1>5. Owned(u)
  BY <1>2 DEF Adds, Owned
<1>6. Mine(u, mine)
  BY <1>2 DEF Adds, Mine
<1>7. \A m \in Mappings :
        /\ Follows(u, Naming({"add"}, m), Naming({"store"}, m))
        /\ Follows(u, Naming({"add"}, m), Doing({"list"}, m.holder))
        /\ Follows(u, Naming({"add"}, m), Doing({"config"}, None))
  BY <1>3 DEF Adds
<1> QED BY <1>2, <1>4, <1>5, <1>6, <1>7 DEF Adds, u

(* One that clears, and then one that adds.                                 *)
LEMMA ClearsThenAdds ==
  ASSUME NEW s, NEW t, NEW mine, NEW what \in SUBSET {"erase", "forget", "list"},
         Clears(s, what, mine), Adds(t, mine),
         \A m \in Mappings :
           /\ \/ Follows(s, Naming({"erase"}, m), Naming({"store"} \union Removes, m))
              \/ Has(t, Naming({"store"}, m))
           /\ m \notin mappings \/ Has(s, Naming(Removes, m)) => Added(t, m)
  PROVE  Planned(s \o t, mine)
<1> DEFINE u == s \o t
<1>1. s \in Seq(Steps) /\ t \in Seq(Steps)
  BY DEF Adds, Clears
<1>2. /\ u \in Seq(Steps)
      /\ \A n \in DOMAIN u : (\E i \in DOMAIN s : u[n] = s[i]) \/ \E i \in DOMAIN t : u[n] = t[i]
      /\ \A n \in DOMAIN u : n \in DOMAIN s \/ \E i \in DOMAIN t : n = Len(s) + i
      /\ \A i \in DOMAIN s : i \in DOMAIN u /\ u[i] = s[i] /\ i <= Len(s)
      /\ \A i \in DOMAIN t : Len(s) + i \in DOMAIN u /\ u[Len(s) + i] = t[i] /\ i >= 1
      /\ Len(s) \in Nat
  BY <1>1, ConcatKeeps, Concat
<1>3. \A P, Q : /\ Has(u, P) <=> Has(s, P) \/ Has(t, P)
                /\ (Follows(s, P, Q) \/ Has(t, Q)) /\ Follows(t, P, Q) => Follows(u, P, Q)
                /\ Precedes(s, P, Q) /\ Precedes(t, P, Q) => Precedes(u, P, Q)
  BY <1>1, ConcatKeeps
<1>4. DOMAIN s \subseteq Nat /\ DOMAIN t \subseteq Nat
  BY <1>1
<1> HIDE DEF u
<1>5. /\ \A i \in DOMAIN s : s[i].do \in {"erase", "forget", "list"}
      /\ \A i \in DOMAIN t : t[i].do \in {"add", "store", "list", "config"}
  BY DEF Clears, Adds, Only
<1>6. Ordered(u)
  <2> SUFFICES ASSUME NEW i \in DOMAIN u, NEW j \in DOMAIN u, i < j,
                      u[i].do \in {"add", "store"}, u[j].do \in Removes
               PROVE  FALSE
    BY DEF Ordered
  <2>1. j \in DOMAIN s
    BY <1>2, <1>5 DEF Removes
  <2>2. i \notin DOMAIN s
    BY <1>2, <1>5
  <2>3. PICK k \in DOMAIN t : i = Len(s) + k
    BY <1>2, <2>2
  <2> QED BY <1>2, <1>4, <2>1, <2>3
<1>7. Owned(u)
  BY <1>2 DEF Adds, Clears, Owned
<1>8. Mine(u, mine)
  BY <1>2 DEF Adds, Clears, Mine
<1>9. /\ \A m, Q : Follows(s, Naming({"add"}, m), Q) /\ Precedes(s, Naming({"store"}, m), Q)
      /\ \A m, Q : Follows(t, Naming({"erase"}, m), Q) /\ Precedes(t, Naming(Removes, m), Q)
      /\ \A m : ~Has(t, Naming(Removes, m))
  <2>1. \A m : \A i \in DOMAIN s : s[i] \notin Naming({"add"}, m) /\ s[i] \notin Naming({"store"}, m)
    BY <1>5 DEF Naming
  <2>2. \A m : \A i \in DOMAIN t : t[i] \notin Naming({"erase"}, m) /\ t[i] \notin Naming(Removes, m)
    BY <1>5 DEF Naming, Removes
  <2>3. \A m, Q : Follows(s, Naming({"add"}, m), Q) /\ Precedes(s, Naming({"store"}, m), Q)
    BY <2>1 DEF Follows, Precedes
  <2>4. \A m, Q : Follows(t, Naming({"erase"}, m), Q) /\ Precedes(t, Naming(Removes, m), Q)
    BY <2>2 DEF Follows, Precedes
  <2> QED BY <2>2, <2>3, <2>4 DEF Has
<1>10. \A m \in Mappings : Follows(u, Naming({"erase"}, m), Naming({"store"} \union Removes, m))
  <2> TAKE m \in Mappings
  <2>1. CASE Follows(s, Naming({"erase"}, m), Naming({"store"} \union Removes, m))
    BY <1>3, <1>9, <2>1
  <2>2. CASE Has(t, Naming({"store"}, m))
    <3>1. Has(t, Naming({"store"} \union Removes, m))
      BY <2>2 DEF Has, Naming
    <3> QED BY <1>3, <1>9, <3>1
  <2> QED BY <2>1, <2>2
<1>11. \A m \in Mappings :
        /\ Follows(u, Naming({"add"}, m), Naming({"store"}, m))
        /\ Follows(u, Naming({"add"}, m), Doing({"list"}, m.holder))
        /\ Follows(u, Naming({"add"}, m), Doing({"config"}, None))
  BY <1>3, <1>9 DEF Adds
<1>12. \A m \in Mappings : m \notin mappings \/ Has(u, Naming(Removes, m)) => Added(u, m)
  BY <1>3, <1>9 DEF Added
<1>13. \A m \in Mappings : Erased(u, m)
  BY <1>3, <1>9 DEF Erased, Clears
<1>14. Dropped(u, mappings)
  BY <1>2, <1>5 DEF Dropped
<1>15. Sound(u, mine)
  BY <1>6, <1>7, <1>8, <1>10, <1>11, <1>12 DEF Sound, Added
<1> QED BY <1>2, <1>12, <1>13, <1>14, <1>15 DEF Planned, u

(* All the holders, when an edit clears them.                               *)
LEMMA AllInOrder ==
  LET hs == First \o <<Gyro, Rumble, LED>>
  IN  /\ hs \in Seq(Holders) /\ hs # <<>>
      /\ DOMAIN hs = 1 .. Len(hs) /\ Len(hs) \in Nat
<1> DEFINE last == <<Gyro, Rumble, LED>>
           hs == First \o last
<1>1. last \in Seq({Rumble, LED, Gyro}) /\ last # <<>>
  OBVIOUS
<1> HIDE DEF last
<1>2. hs \in Seq(Mapped \union {Rumble, LED, Gyro}) /\ hs # <<>>
  BY <1>1, InOrder
<1>3. hs \in Seq(Holders)
  BY <1>2 DEF Holders
<1> HIDE DEF hs
<1>4. DOMAIN hs = 1 .. Len(hs) /\ Len(hs) \in Nat
  BY <1>3
<1> QED BY <1>2, <1>3, <1>4 DEF hs, last

(* Controller::ClearAllMappings.                                            *)
LEMMA ClearAllPlanned ==
  ASSUME mappings \subseteq Mappings
  PROVE  Planned(InTurn(ClearAll, First \o <<Gyro, Rumble, LED>>), mappings)
<1> DEFINE hs == First \o <<Gyro, Rumble, LED>>
           ss == [i \in DOMAIN hs |-> ClearAll(hs[i])]
           what == {"erase", "forget", "drop"}
<1>1. hs \in Seq(Holders) /\ hs # <<>> /\ DOMAIN hs = 1 .. Len(hs) /\ Len(hs) \in Nat
  BY AllInOrder
<1>2. InTurn(ClearAll, hs) = FlattenSeq(ss)
  BY DEF InTurn
<1> HIDE DEF hs
<1>3. \A i \in DOMAIN hs : hs[i] \in Holders
  BY <1>1
<1>4. ASSUME NEW i \in DOMAIN hs
      PROVE  /\ ss[i] \in Seq(Steps) /\ Clears(ss[i], what, mappings)
             /\ \A m \in Mappings :
                  Follows(ss[i], Naming({"erase"}, m), Naming({"store"} \union Removes, m))
  <2>1. ss[i] = ClearAll(hs[i])
    OBVIOUS
  <2>2. /\ Clears(ClearAll(hs[i]), what, mappings)
        /\ \A m \in Mappings :
             Follows(ClearAll(hs[i]), Naming({"erase"}, m), Naming({"store"} \union Removes, m))
    BY <1>3, ClearAllSound
  <2> QED BY <2>1, <2>2 DEF Clears
<1>5. ss \in Seq(Seq(Steps)) /\ ss # <<>> /\ DOMAIN ss = DOMAIN hs
  <2>1. ss \in [1 .. Len(hs) -> Seq(Steps)]
    BY <1>1, <1>4
  <2>2. Len(hs) # 0
    BY <1>1
  <2>3. ss \in Seq(Seq(Steps)) /\ DOMAIN ss = DOMAIN hs
    BY <1>1, <2>1
  <2> QED BY <1>1, <2>2, <2>3
<1> HIDE DEF ss
<1>6. Clears(FlattenSeq(ss), what, mappings)
  BY <1>4, <1>5, FlattenClears
<1>7. \A m \in Mappings :
        Follows(FlattenSeq(ss), Naming({"erase"}, m), Naming({"store"} \union Removes, m))
  BY <1>4, <1>5, FlattenKeeps
<1>8. Planned(FlattenSeq(ss), mappings)
  BY <1>6, <1>7, ClearsPlanned
<1> QED BY <1>2, <1>8 DEF hs

(* AddDefaultMappings, as an edit that adds.                                *)
LEMMA DefaultsAdd ==
  ASSUME NEW S \in SUBSET Mappings, NEW type \in DeviceTypes, NEW mine,
         DefaultsOf({type}) \subseteq mine
  PROVE  LET t == ControllerDefaults(S, type)
         IN  /\ Adds(t, mine)
             /\ \A m \in Mappings :
                  /\ m \notin S => Added(t, m)
                  /\ m \in DefaultsOf({type}) => Has(t, Naming({"add"}, m))
                  /\ m \in S /\ m.holder \in Mapped => Has(t, Naming({"store"}, m))
<1> DEFINE t == ControllerDefaults(S, type)
<1>1. /\ t \in Seq(Steps)
      /\ Only(t, {"add", "store", "list", "config"})
      /\ Owned(t) /\ Mine(t, DefaultsOf({type}))
  BY ControllerDefaultsSound
<1>2. \A m \in Mappings :
        /\ Follows(t, Naming({"add"}, m), Naming({"store"}, m))
        /\ Follows(t, Naming({"add"}, m), Doing({"list"}, m.holder))
        /\ Follows(t, Naming({"add"}, m), Doing({"config"}, None))
        /\ m \notin S => Added(t, m)
        /\ m \in DefaultsOf({type}) => Has(t, Naming({"add"}, m))
        /\ m \in S /\ m.holder \in Mapped => Has(t, Naming({"store"}, m))
  BY ControllerDefaultsSound
<1> HIDE DEF t
<1>3. Mine(t, mine)
  BY <1>1 DEF Mine
<1> QED BY <1>1, <1>2, <1>3 DEF Adds, t

(* "Set Defaults".                                                          *)
LEMMA SetDefaultsPlanned ==
  ASSUME mappings \subseteq Mappings, NEW type \in DeviceTypes
  PROVE  Planned(InTurn(LAMBDA h : ClearType(h, type), First \o <<Gyro, Rumble, LED>>)
                   \o ControllerDefaults(Kept(type), type),
                 {m \in mappings : TypeOf(m) = type} \union DefaultsOf({type}))
<1> DEFINE hs == First \o <<Gyro, Rumble, LED>>
           ss == [i \in DOMAIN hs |-> ClearType(hs[i], type)]
           what == {"erase", "forget", "list"}
           mine == {m \in mappings : TypeOf(m) = type}
           all == mine \union DefaultsOf({type})
           u == FlattenSeq(ss)
           t == ControllerDefaults(Kept(type), type)
<1>1. hs \in Seq(Holders) /\ hs # <<>> /\ DOMAIN hs = 1 .. Len(hs) /\ Len(hs) \in Nat
  BY AllInOrder
<1>2. InTurn(LAMBDA h : ClearType(h, type), hs) = u
  BY DEF InTurn
<1> HIDE DEF hs
<1>3. \A i \in DOMAIN hs : hs[i] \in Holders
  BY <1>1
<1>4. ASSUME NEW i \in DOMAIN hs
      PROVE  /\ ss[i] \in Seq(Steps) /\ Clears(ss[i], what, mine)
             /\ \A m \in Mappings :
                  /\ m.holder \notin Sticks
                       => Follows(ss[i], Naming({"erase"}, m), Naming({"store"} \union Removes, m))
                  /\ Has(ss[i], Naming(Removes, m)) => m \notin Kept(type)
  <2>1. ss[i] = ClearType(hs[i], type)
    OBVIOUS
  <2>2. /\ Clears(ClearType(hs[i], type), what, mine)
        /\ \A m \in Mappings :
             /\ m.holder \notin Sticks
                  => Follows(ClearType(hs[i], type), Naming({"erase"}, m), Naming({"store"} \union Removes, m))
             /\ Has(ClearType(hs[i], type), Naming(Removes, m)) => m \notin Kept(type)
    BY <1>3, ClearTypeSound
  <2> QED BY <2>1, <2>2 DEF Clears
<1>5. ss \in Seq(Seq(Steps)) /\ ss # <<>> /\ DOMAIN ss = DOMAIN hs
  <2>1. ss \in [1 .. Len(hs) -> Seq(Steps)]
    BY <1>1, <1>4
  <2>2. Len(hs) # 0
    BY <1>1
  <2>3. ss \in Seq(Seq(Steps)) /\ DOMAIN ss = DOMAIN hs
    BY <1>1, <2>1
  <2> QED BY <1>1, <2>2, <2>3
<1> HIDE DEF ss
<1>6. Clears(u, what, mine)
  BY <1>4, <1>5, FlattenClears
<1>7. \A m \in Mappings : m.holder \notin Sticks
        => Follows(u, Naming({"erase"}, m), Naming({"store"} \union Removes, m))
  BY <1>4, <1>5, FlattenKeeps
<1>8. \A m \in Mappings : Has(u, Naming(Removes, m)) => m \notin Kept(type)
  <2>1. /\ u \in Seq(Steps)
        /\ \A i \in DOMAIN u : \E b \in DOMAIN ss : \E k \in DOMAIN ss[b] : u[i] = ss[b][k]
    BY <1>5, FlattenKeeps
  <2> HIDE DEF u
  <2> SUFFICES ASSUME NEW m \in Mappings, NEW i \in DOMAIN u, u[i] \in Naming(Removes, m)
               PROVE  m \notin Kept(type)
    BY DEF Has
  <2>2. PICK b \in DOMAIN ss : \E k \in DOMAIN ss[b] : u[i] = ss[b][k]
    BY <2>1
  <2>3. Has(ss[b], Naming(Removes, m))
    BY <2>2 DEF Has
  <2> QED BY <1>4, <1>5, <2>3
<1> HIDE DEF u
<1>9. Kept(type) \in SUBSET Mappings /\ Kept(type) \subseteq mappings
  BY DEF Kept
<1>10. /\ Adds(t, all)
       /\ \A m \in Mappings :
            /\ m \notin Kept(type) => Added(t, m)
            /\ m \in Kept(type) /\ m.holder \in Mapped => Has(t, Naming({"store"}, m))
  <2>1. DefaultsOf({type}) \subseteq all
    OBVIOUS
  <2> HIDE DEF all
  <2> QED BY <1>9, <2>1, DefaultsAdd
<1> HIDE DEF t
<1>11. ASSUME NEW m \in Mappings
       PROVE  \/ Follows(u, Naming({"erase"}, m), Naming({"store"} \union Removes, m))
              \/ Has(t, Naming({"store"}, m))
  <2>1. CASE m.holder \notin Sticks
    BY <1>7, <2>1
  <2>2. CASE m.holder \in Sticks /\ m \in mappings
    BY <1>10, <2>2 DEF Kept, Mapped
  <2>3. CASE m \notin mappings
    <3>1. \A i \in DOMAIN u : u[i] \notin Naming({"erase"}, m)
      BY <1>6, <2>3 DEF Clears, Mine, Naming
    <3> QED BY <3>1 DEF Follows
  <2> QED BY <2>1, <2>2, <2>3
<1>12. \A m \in Mappings : m \notin mappings \/ Has(u, Naming(Removes, m)) => Added(t, m)
  BY <1>8, <1>9, <1>10
<1>13. Clears(u, what, all)
  BY <1>6 DEF Clears, Mine
<1>14. Planned(u \o t, all)
  <2> HIDE DEF all
  <2> QED BY <1>10, <1>11, <1>12, <1>13, ClearsThenAdds
<1> QED BY <1>2, <1>14 DEF hs, t

(* Clear...Mapping.                                                         *)
LEMMA ClearMappingPlanned ==
  ASSUME mappings \subseteq Mappings, NEW n \in mappings
  PROVE  Clears(Removal(n.holder, {n}), {"erase", "forget"}, {n})
         /\ Planned(Removal(n.holder, {n}), {n})
<1> DEFINE h == n.holder
           t == Each("erase", h, {n}) \o <<Do("forget", h, {n})>>
<1>1. n \in Mappings /\ h \in Holders
  BY DEF Mappings, Holders, Mapped
<1>2. t = Removal(h, {n})
  BY DEF Removal
<1>3. ASSUME NEW m \in Mappings
      PROVE  /\ t \in Seq(Steps)
             /\ Only(t, {"erase", "forget"}) /\ Owned(t) /\ Mine(t, {n})
             /\ Follows(t, Naming({"erase"}, m), Naming({"forget"}, m))
             /\ Erased(t, m)
  <2>1. {n} \in SUBSET Mappings /\ \A x \in {n} : x.holder = h
    BY <1>1
  <2>2. {n} \in {{n}, {}} /\ "forget" \in {"forget", "drop", "list"}
    OBVIOUS
  <2> QED BY <1>1, <2>1, <2>2, EraseThen
<1> HIDE DEF t
<1>4. Dropped(t, mappings)
  BY <1>1, <1>3 DEF Dropped, Only
<1>5. Clears(t, {"erase", "forget"}, {n})
  BY <1>1, <1>3, <1>4 DEF Clears
<1>6. Clears(t, {"erase", "forget", "drop"}, {n})
  BY <1>5 DEF Clears, Only
<1>7. \A m \in Mappings : Follows(t, Naming({"erase"}, m), Naming({"store"} \union Removes, m))
  <2>1. \A m : Naming({"forget"}, m) \subseteq Naming({"store"} \union Removes, m)
    BY DEF Naming, Removes
  <2> QED BY <1>3, <2>1 DEF Follows
<1>8. Planned(t, {n})
  BY <1>6, <1>7, ClearsPlanned
<1> QED BY <1>2, <1>5, <1>8

(* One mapping added.                                                       *)
LEMMA AddOne ==
  ASSUME NEW h \in Holders, NEW new \in Mappings, new.holder = h
  PROVE  LET t == <<Do("add", h, {new}), Do("store", h, {new}), Do("list", h, {}),
                    Do("config", None, {})>>
         IN  /\ Adds(t, {new})
             /\ \A m \in Mappings : Added(t, m)
             /\ Has(t, Naming({"store"}, new))
<1> DEFINE add == Do("add", h, {new})
           store == Do("store", h, {new})
           list == Do("list", h, {})
           last == Do("config", None, {})
           t == <<add, store, list, last>>
<1>1. add \in Steps /\ store \in Steps /\ list \in Steps /\ last \in Steps
  BY DEF Do, Steps, Holders
<1>2. /\ add.do = "add" /\ add.holder = h /\ add.these = {new}
      /\ store.do = "store" /\ store.holder = h /\ store.these = {new}
      /\ list.do = "list" /\ list.holder = h /\ list.these = {}
      /\ last.do = "config" /\ last.holder = None /\ last.these = {}
  BY DEF Do
<1> HIDE DEF add, store, list, last
<1>3. /\ t \in Seq(Steps) /\ DOMAIN t = 1 .. 4
      /\ t[1] = add /\ t[2] = store /\ t[3] = list /\ t[4] = last
  BY <1>1
<1> HIDE DEF t
<1>4. \A i \in DOMAIN t : i \in {1, 2, 3, 4}
  BY <1>3
<1>5. 1 \in DOMAIN t /\ 2 \in DOMAIN t /\ 3 \in DOMAIN t /\ 4 \in DOMAIN t
  BY <1>3
<1>6. \A i \in DOMAIN t : t[i] = add \/ t[i] = store \/ t[i] = list \/ t[i] = last
  BY <1>3, <1>4
<1>7. Only(t, {"add", "store", "list", "config"})
  BY <1>2, <1>6 DEF Only
<1>8. Owned(t)
  <2>1. ASSUME NEW i \in DOMAIN t, NEW m \in t[i].these PROVE m.holder = t[i].holder
    BY <1>2, <1>6, <2>1
  <2> QED BY <2>1 DEF Owned
<1>9. Mine(t, {new})
  <2>1. ASSUME NEW i \in DOMAIN t PROVE t[i].these \subseteq {new}
    BY <1>2, <1>6, <2>1
  <2> QED BY <2>1 DEF Mine
<1>10. ASSUME NEW m \in Mappings
       PROVE  /\ Follows(t, Naming({"add"}, m), Naming({"store"}, m))
              /\ Follows(t, Naming({"add"}, m), Doing({"list"}, m.holder))
              /\ Follows(t, Naming({"add"}, m), Doing({"config"}, None))
  <2>1. \A i \in DOMAIN t : t[i] \in Naming({"add"}, m) => i = 1 /\ m = new
    BY <1>2, <1>3, <1>4 DEF Naming
  <2>2. /\ m = new => t[2] \in Naming({"store"}, m) /\ t[3] \in Doing({"list"}, m.holder)
        /\ t[4] \in Doing({"config"}, None)
    BY <1>1, <1>2, <1>3 DEF Naming, Doing
  <2> QED BY <1>5, <2>1, <2>2 DEF Follows
<1>11. ASSUME NEW m \in Mappings PROVE Added(t, m)
  <2>1. \A i \in DOMAIN t : t[i] \in Naming({"store"}, m) => i = 2 /\ m = new
    BY <1>2, <1>3, <1>4 DEF Naming
  <2>2. m = new => t[1] \in Naming({"add"}, m)
    BY <1>1, <1>2, <1>3 DEF Naming
  <2> QED BY <1>5, <2>1, <2>2 DEF Added, Precedes
<1>12. Has(t, Naming({"store"}, new))
  <2>1. t[2] \in Naming({"store"}, new)
    BY <1>1, <1>2, <1>3 DEF Naming
  <2> QED BY <1>5, <2>1 DEF Has
<1> QED BY <1>3, <1>7, <1>8, <1>9, <1>10, <1>11, <1>12 DEF Adds, t, add, store, list, last

(* Add...MappingFromRawPress and SetGyroMappingFromRawPress.                *)
LEMMA AddOnePlanned ==
  ASSUME NEW h \in Holders, NEW new \in Mappings, new.holder = h
  PROVE  Planned(<<Do("add", h, {new}), Do("store", h, {new}), Do("list", h, {}),
                   Do("config", None, {})>>, {new})
BY AddOne, AddsPlanned

(* AddOrEdit...MappingFromRawPress: an edited mapping goes first.           *)
LEMMA EditOnePlanned ==
  ASSUME mappings \subseteq Mappings, NEW h \in Holders, NEW new \in Mappings, new.holder = h,
         NEW old \in mappings, old.holder = h
  PROVE  Planned(Removal(h, {old}) \o <<Do("add", h, {new}), Do("store", h, {new}), Do("list", h, {}),
                                        Do("config", None, {})>>, {old, new})
<1> DEFINE s == Removal(h, {old})
           t == <<Do("add", h, {new}), Do("store", h, {new}), Do("list", h, {}),
                  Do("config", None, {})>>
           what == {"erase", "forget"}
           mine == {old, new}
<1>1. Clears(s, what, {old}) /\ Planned(s, {old})
  BY ClearMappingPlanned
<1>2. Adds(t, {new}) /\ \A m \in Mappings : Added(t, m)
  BY AddOne
<1> HIDE DEF s, t
<1>3. Clears(s, what, mine)
  BY <1>1 DEF Clears, Mine
<1>4. Adds(t, mine)
  BY <1>2 DEF Adds, Mine
<1>5. \A m \in Mappings : Follows(s, Naming({"erase"}, m), Naming({"store"} \union Removes, m))
  BY <1>1 DEF Planned, Sound
<1>6. what \in SUBSET {"erase", "forget", "list"}
  OBVIOUS
<1>7. Planned(s \o t, mine)
  <2> HIDE DEF what, mine
  <2> QED BY <1>2, <1>3, <1>4, <1>5, <1>6, ClearsThenAdds
<1> QED BY <1>7 DEF s, t

(* The first start: the defaults of each device type, one after the other.  *)
LEMMA StartPlanned ==
  LET k == {} \union DefaultsOf({"Keyboard"})
      m == k \union DefaultsOf({"Mouse"})
      t == ControllerDefaults({}, "Keyboard") \o ControllerDefaults(k, "Mouse")
             \o ControllerDefaults(m, "SDLGamepad")
  IN  Planned(t, DefaultsOf(DeviceTypes))
<1> DEFINE k == {} \union DefaultsOf({"Keyboard"})
           m == k \union DefaultsOf({"Mouse"})
           a == ControllerDefaults({}, "Keyboard")
           b == ControllerDefaults(k, "Mouse")
           c == ControllerDefaults(m, "SDLGamepad")
           all == DefaultsOf(DeviceTypes)
<1>1. \A type \in DeviceTypes : DefaultsOf({type}) \subseteq all
  BY DEF DefaultsOf
<1>2. \A type \in DeviceTypes : DefaultsOf({type}) \subseteq Mappings
  BY DefaultsOwned
<1>3. "Keyboard" \in DeviceTypes /\ "Mouse" \in DeviceTypes /\ "SDLGamepad" \in DeviceTypes
  BY DEF DeviceTypes
<1>4. {} \in SUBSET Mappings /\ k \in SUBSET Mappings /\ m \in SUBSET Mappings
  BY <1>2, <1>3
<1> HIDE DEF all
<1>5. /\ Adds(a, all)
      /\ \A n \in Mappings : /\ n \notin {} => Added(a, n)
                             /\ n \in DefaultsOf({"Keyboard"}) => Has(a, Naming({"add"}, n))
  BY <1>1, <1>3, <1>4, DefaultsAdd
<1>6. /\ Adds(b, all)
      /\ \A n \in Mappings : /\ n \notin k => Added(b, n)
                             /\ n \in DefaultsOf({"Mouse"}) => Has(b, Naming({"add"}, n))
  <2> HIDE DEF k
  <2> QED BY <1>1, <1>3, <1>4, DefaultsAdd
<1>7. /\ Adds(c, all)
      /\ \A n \in Mappings : n \notin m => Added(c, n)
  <2> HIDE DEF m
  <2> QED BY <1>1, <1>3, <1>4, DefaultsAdd
<1> HIDE DEF a, b, c
<1>8. a \in Seq(Steps) /\ b \in Seq(Steps) /\ c \in Seq(Steps)
  BY <1>5, <1>6, <1>7 DEF Adds
<1>9. Adds(a \o b, all)
  BY <1>5, <1>6, AddsAgain
<1>10. Adds((a \o b) \o c, all)
  BY <1>7, <1>9, AddsAgain
<1>11. a \o b \in Seq(Steps)
  BY <1>8
<1>12. ASSUME NEW n \in Mappings PROVE Added(a \o b, n)
  <2>1. Added(a, n) /\ (Added(b, n) \/ Has(a, Naming({"add"}, n)))
    BY <1>5, <1>6
  <2> QED BY <1>8, <2>1, ConcatKeeps DEF Added
<1>13. ASSUME NEW n \in Mappings PROVE Added((a \o b) \o c, n)
  <2>1. CASE n \in m
    <3>1. Has(a, Naming({"add"}, n)) \/ Has(b, Naming({"add"}, n))
      BY <1>5, <1>6, <2>1
    <3>2. Has(a \o b, Naming({"add"}, n))
      BY <1>8, <3>1, ConcatKeeps
    <3> QED BY <1>8, <1>11, <1>12, <3>2, ConcatKeeps DEF Added
  <2>2. CASE n \notin m
    BY <1>7, <1>8, <1>11, <1>12, <2>2, ConcatKeeps DEF Added
  <2> QED BY <2>1, <2>2
<1>14. Planned((a \o b) \o c, all)
  BY <1>10, <1>13, AddsPlanned
<1> QED BY <1>14 DEF a, b, c, all

(****************************************************************************)
(* The steps of an edit.                                                    *)
(****************************************************************************)

(* What TypeOK says of what a step changes, but for todo.                   *)
StepTypes ==
  /\ mappings \subseteq Mappings
  /\ Entries(mappings) \subseteq known /\ known \subseteq Sticks \X Directions
  /\ ids \subseteq Mappings /\ data \subseteq Mappings /\ hasConfig \in BOOLEAN
  /\ pressed \subseteq {m \in mappings : m.input \in Keys}

(* EraseFromConfig: what is erased is stored again or forgotten.            *)
LEMMA EraseAhead ==
  ASSUME NEW mine, NEW gone, TypeOK, Ahead(todo, mine, gone),
         todo # <<>>, Head(todo).do = "erase", Erase(Head(todo))
  PROVE  /\ todo' \in Seq(Steps) /\ StepTypes'
         /\ Ahead(todo, mine, gone)'
<1> DEFINE s == Head(todo)
           r(n) == IF s.these = {n} THEN Tail(todo) ELSE <<[s EXCEPT !.these = @ \ {n}]>> \o Tail(todo)
<1>1. PICK n \in s.these : data' = data \ {n} /\ todo' = r(n)
  BY DEF Erase, Rest
<1>2. /\ mappings' = mappings /\ known' = known /\ ids' = ids /\ hasConfig' = hasConfig
      /\ pressed' = pressed
  BY DEF Erase, memory
<1>3. todo \in Seq(Steps) /\ s = todo[1] /\ 1 \in DOMAIN todo /\ s \in Steps
  BY DEF TypeOK
<1>4. Sound(todo, mine) /\ Pending(todo)
  BY DEF Ahead
<1>5. n \in mine /\ n \in Mappings
  BY <1>3, <1>4 DEF Sound, Mine, Steps
<1>6. /\ todo' \in Seq(Steps) /\ Sound(todo', mine)
      /\ \A m \in Mappings \ {n} :
           Has(todo, Naming({"store"} \union Removes, m)) => Has(todo', Naming({"store"} \union Removes, m))
      /\ \A h : Has(todo, Doing({"list"} \union Removes, h)) => Has(todo', Doing({"list"} \union Removes, h))
      /\ Has(todo, Doing({"config"}, None)) => Has(todo', Doing({"config"}, None))
      /\ \A m \in Mappings : Erased(todo, m) /\ m # n => Erased(todo', m)
      /\ \A m \in Mappings : Added(todo, m) => Added(todo', m)
      /\ Has(todo', Naming({"store"} \union Removes, n))
      /\ \A S : Dropped(todo, S) => Dropped(todo', S)
  <2>1. s.do \in {"erase", "store"} /\ s.do = "erase"
    OBVIOUS
  <2> QED BY <1>1, <1>3, <1>4, <2>1, RestKeeps
<1> HIDE DEF s, r
<1>7. mappings \subseteq Mappings /\ data \subseteq Mappings
  BY DEF TypeOK
<1>8. Pending(todo)'
  <2>1. \A m \in mappings : m \notin data' => Has(todo', Naming({"store"} \union Removes, m))
    BY <1>1, <1>4, <1>6, <1>7 DEF Pending
  <2>2. \A m \in mappings : m \notin ids => Has(todo', Doing({"list"} \union Removes, m.holder))
    BY <1>4, <1>6 DEF Pending
  <2>3. \A m \in data' : Erased(todo', m)
    BY <1>1, <1>4, <1>6, <1>7 DEF Pending
  <2>4. \A m \in Mappings : m \notin mappings => Added(todo', m)
    BY <1>4, <1>6 DEF Pending
  <2>5. ~hasConfig /\ mappings # {} => Has(todo', Doing({"config"}, None))
    BY <1>4, <1>6 DEF Pending
  <2>6. Dropped(todo', mappings)
    BY <1>4, <1>6 DEF Pending
  <2> QED BY <1>2, <2>1, <2>2, <2>3, <2>4, <2>5, <2>6 DEF Pending
<1>9. StepTypes'
  BY <1>1, <1>2 DEF TypeOK, StepTypes, Entries
<1>10. Ahead(todo, mine, gone)'
  BY <1>1, <1>2, <1>5, <1>6, <1>8 DEF Ahead, Loadable
<1> QED BY <1>6, <1>9, <1>10

(* SaveToConfig: only mappings in memory are stored, and none is removed    *)
(* after that.                                                              *)
LEMMA StoreAhead ==
  ASSUME NEW mine, NEW gone, TypeOK, Ahead(todo, mine, gone),
         todo # <<>>, Head(todo).do = "store", Store(Head(todo))
  PROVE  /\ todo' \in Seq(Steps) /\ StepTypes'
         /\ Ahead(todo, mine, gone)'
<1> DEFINE s == Head(todo)
           r(n) == IF s.these = {n} THEN Tail(todo) ELSE <<[s EXCEPT !.these = @ \ {n}]>> \o Tail(todo)
<1>1. PICK n \in s.these : data' = data \union {n} /\ todo' = r(n)
  BY DEF Store, Rest
<1>2. /\ mappings' = mappings /\ known' = known /\ ids' = ids /\ hasConfig' = hasConfig
      /\ pressed' = pressed
  BY DEF Store, memory
<1>3. todo \in Seq(Steps) /\ s = todo[1] /\ 1 \in DOMAIN todo /\ s \in Steps
  BY DEF TypeOK
<1>4. Sound(todo, mine) /\ Pending(todo)
  BY DEF Ahead
<1>5. n \in Mappings /\ s \in Naming({"store"}, n)
  BY <1>3 DEF Steps, Naming
<1>6. n \in mappings
  <2> SUFFICES ASSUME n \notin mappings PROVE FALSE
    OBVIOUS
  <2>1. Precedes(todo, Naming({"store"}, n), Naming({"add"}, n))
    BY <1>4, <1>5 DEF Pending, Added
  <2> QED BY <1>3, <1>5, <2>1, TailKeeps
<1>7. /\ todo' \in Seq(Steps) /\ Sound(todo', mine)
      /\ \A m \in Mappings \ {n} :
           Has(todo, Naming({"store"} \union Removes, m)) => Has(todo', Naming({"store"} \union Removes, m))
      /\ \A h : Has(todo, Doing({"list"} \union Removes, h)) => Has(todo', Doing({"list"} \union Removes, h))
      /\ Has(todo, Doing({"config"}, None)) => Has(todo', Doing({"config"}, None))
      /\ \A m \in Mappings : Added(todo, m) => Added(todo', m)
      /\ RemovesNone(todo')
      /\ \A S : Dropped(todo, S) => Dropped(todo', S)
  <2>1. s.do \in {"erase", "store"} /\ s.do = "store"
    OBVIOUS
  <2> QED BY <1>1, <1>3, <1>4, <2>1, RestKeeps
<1> HIDE DEF s, r
<1>8. mappings \subseteq Mappings /\ data \subseteq Mappings
  BY DEF TypeOK
<1>9. Pending(todo)'
  <2>1. \A m \in mappings : m \notin data' => Has(todo', Naming({"store"} \union Removes, m))
    BY <1>1, <1>4, <1>7, <1>8 DEF Pending
  <2>2. \A m \in mappings : m \notin ids => Has(todo', Doing({"list"} \union Removes, m.holder))
    BY <1>4, <1>7 DEF Pending
  <2>3. \A m \in data' : Erased(todo', m)
    BY <1>7 DEF Erased, Precedes, Naming, RemovesNone
  <2>4. \A m \in Mappings : m \notin mappings => Added(todo', m)
    BY <1>4, <1>7 DEF Pending
  <2>5. ~hasConfig /\ mappings # {} => Has(todo', Doing({"config"}, None))
    BY <1>4, <1>7 DEF Pending
  <2>6. Dropped(todo', mappings)
    BY <1>4, <1>7 DEF Pending
  <2> QED BY <1>2, <2>1, <2>2, <2>3, <2>4, <2>5, <2>6 DEF Pending
<1>10. StepTypes'
  BY <1>1, <1>2, <1>5 DEF TypeOK, StepTypes, Entries
<1>11. Ahead(todo, mine, gone)'
  BY <1>1, <1>2, <1>6, <1>7, <1>9 DEF Ahead, Loadable
<1> QED BY <1>7, <1>10, <1>11

(* A mapping added is stored, listed and followed by HasConfig.             *)
LEMMA AddAhead ==
  ASSUME NEW mine, NEW gone, TypeOK, Ahead(todo, mine, gone),
         todo # <<>>, Head(todo).do = "add", Add(Head(todo))
  PROVE  /\ todo' \in Seq(Steps) /\ StepTypes'
         /\ Ahead(todo, mine, gone)'
<1> DEFINE s == Head(todo)
<1>1. /\ mappings' = mappings \union s.these /\ known' = known \union Entries(s.these)
      /\ pressed' = pressed \ s.these /\ todo' = Tail(todo)
      /\ ids' = ids /\ data' = data /\ hasConfig' = hasConfig
  BY DEF Add, config
<1>2. todo \in Seq(Steps) /\ s = todo[1] /\ 1 \in DOMAIN todo /\ s \in Steps
  BY DEF TypeOK
<1>3. Sound(todo, mine) /\ Pending(todo)
  BY DEF Ahead
<1>4. s.these \subseteq mine /\ s.these \subseteq Mappings
  BY <1>2, <1>3 DEF Sound, Mine, Steps
<1>5. /\ todo' \in Seq(Steps) /\ Sound(todo', mine)
      /\ RemovesNone(todo')
  BY <1>1, <1>2, <1>3, TailKeeps, TailSound
<1>6. \A P, Q : /\ Has(todo, P) /\ s \notin P => Has(todo', P)
                /\ Follows(todo, P, Q) /\ s \in P => Has(todo', Q)
                /\ Precedes(todo, P, Q) /\ s \notin Q => Precedes(todo', P, Q)
  BY <1>1, <1>2, TailKeeps
<1>7. s.do = "add"
  OBVIOUS
<1> HIDE DEF s
<1>8. \A m \in s.these : s \in Naming({"add"}, m)
  BY <1>2, <1>7 DEF Naming
<1>9. /\ \A m : s \notin Naming({"store"} \union Removes, m)
      /\ \A h : s \notin Doing({"list"} \union Removes, h)
      /\ s \notin Doing({"config"}, None)
      /\ \A m \in Mappings \ s.these : s \notin Naming({"add"}, m)
  BY <1>7 DEF Naming, Doing, Removes
<1>10. mappings \subseteq Mappings /\ data \subseteq Mappings
  BY DEF TypeOK
<1>11. Pending(todo)'
  <2>1. ASSUME NEW m \in s.these
        PROVE  /\ Has(todo', Naming({"store"}, m)) /\ Has(todo', Doing({"list"}, m.holder))
               /\ Has(todo', Doing({"config"}, None))
    BY <1>3, <1>4, <1>6, <1>8 DEF Sound
  <2>2. \A m \in mappings' : m \notin data => Has(todo', Naming({"store"} \union Removes, m))
    <3>1. \A m \in s.these : Has(todo', Naming({"store"} \union Removes, m))
      BY <2>1 DEF Has, Naming
    <3>2. \A m \in mappings : m \notin data => Has(todo', Naming({"store"} \union Removes, m))
      BY <1>3, <1>6, <1>9 DEF Pending
    <3> QED BY <1>1, <3>1, <3>2
  <2>3. \A m \in mappings' : m \notin ids => Has(todo', Doing({"list"} \union Removes, m.holder))
    <3>1. \A m \in s.these : Has(todo', Doing({"list"} \union Removes, m.holder))
      BY <2>1 DEF Has, Doing
    <3>2. \A m \in mappings : m \notin ids => Has(todo', Doing({"list"} \union Removes, m.holder))
      BY <1>3, <1>6, <1>9 DEF Pending
    <3> QED BY <1>1, <3>1, <3>2
  <2>4. \A m \in data : Erased(todo', m)
    BY <1>5 DEF Erased, Precedes, Naming, RemovesNone
  <2>5. \A m \in Mappings : m \notin mappings' => Added(todo', m)
    BY <1>1, <1>3, <1>6, <1>9 DEF Pending, Added
  <2>6. ~hasConfig /\ mappings' # {} => Has(todo', Doing({"config"}, None))
    <3>1. CASE s.these = {}
      BY <1>1, <1>3, <1>6, <1>9, <3>1 DEF Pending
    <3>2. CASE s.these # {}
      BY <2>1, <3>2
    <3> QED BY <3>1, <3>2
  <2>7. Dropped(todo', mappings')
    BY <1>5 DEF Dropped, Removes, RemovesNone
  <2> QED BY <1>1, <2>2, <2>3, <2>4, <2>5, <2>6, <2>7 DEF Pending
<1>12. StepTypes'
  <2>1. Entries(mappings') \subseteq known' /\ Entries(s.these) \subseteq Sticks \X Directions
    <3>1. Entries(mappings') \subseteq Entries(mappings) \union Entries(s.these)
      BY <1>1 DEF Entries
    <3>2. Entries(s.these) \subseteq Sticks \X Directions
      <4> SUFFICES ASSUME NEW m \in s.these, m.holder \in Sticks
                   PROVE  <<m.holder, m.direction>> \in Sticks \X Directions
        BY DEF Entries
      <4>1. m \in Mappings
        BY <1>4
      <4>2. m.direction \in Directions
        BY <4>1, HoldersDiffer DEF Mappings
      <4> QED BY <4>2
    <3> QED BY <1>1, <3>1, <3>2 DEF TypeOK
  <2> QED BY <1>1, <1>4, <2>1 DEF TypeOK, StepTypes
<1>13. Ahead(todo, mine, gone)'
  BY <1>1, <1>4, <1>5, <1>11 DEF Ahead, Loadable
<1> QED BY <1>5, <1>12, <1>13

(* What Forget and Drop do alike, with these entries in the table of a stick. *)
Removing(step, entries) ==
  /\ mappings' = mappings \ step.these
  /\ ids' = Relisted(step.holder, mappings', entries)
  /\ todo' = Tail(todo)
  /\ UNCHANGED <<data, hasConfig>>

(* Clear...Mapping and ClearAll...Mappings: what leaves memory had its data *)
(* erased before, and the lists of its holder name what is left.            *)
LEMMA RemoveAhead ==
  ASSUME NEW mine, NEW gone, TypeOK, Ahead(todo, mine, gone),
         todo # <<>>, Head(todo).do \in Removes,
         NEW entries, Removing(Head(todo), entries)
  PROVE  /\ todo' \in Seq(Steps) /\ ids' \subseteq Mappings
         /\ Ahead(todo, mine, gone)'
<1> DEFINE s == Head(todo)
<1>1. /\ mappings' = mappings \ s.these /\ todo' = Tail(todo)
      /\ data' = data /\ hasConfig' = hasConfig
      /\ ids' = {m \in ids : m.holder = s.holder => s.holder \in Sticks /\ <<s.holder, m.direction>> \notin entries}
                  \union Of(s.holder, mappings')
  BY DEF Removing, Relisted
<1>2. todo \in Seq(Steps) /\ s = todo[1] /\ 1 \in DOMAIN todo /\ s \in Steps
  BY DEF TypeOK
<1>3. Sound(todo, mine) /\ Pending(todo)
  BY DEF Ahead
<1>4. s.these \subseteq Mappings /\ \A m \in s.these : m.holder = s.holder
  BY <1>2, <1>3 DEF Sound, Owned, Steps
<1>5. todo' \in Seq(Steps) /\ Sound(todo', mine)
  BY <1>1, <1>2, <1>3, TailKeeps, TailSound
<1>6. \A P, Q : /\ Has(todo, P) /\ s \notin P => Has(todo', P)
                /\ Precedes(todo, P, Q) => s \notin P
                /\ Precedes(todo, P, Q) /\ s \notin Q => Precedes(todo', P, Q)
  BY <1>1, <1>2, TailKeeps
<1>7. s.do \in Removes
  OBVIOUS
<1> HIDE DEF s
<1>8. \A m \in s.these : s \in Naming(Removes, m) /\ m \notin data
  <2> TAKE m \in s.these
  <2>1. s \in Naming(Removes, m)
    BY <1>2, <1>7 DEF Naming
  <2>2. m \in data => Precedes(todo, Naming(Removes, m), Naming({"erase"}, m))
    BY <1>3 DEF Pending, Erased
  <2> QED BY <1>6, <2>1, <2>2
<1>9. /\ \A m : m \notin s.these => s \notin Naming({"store"} \union Removes, m)
      /\ \A h : h # s.holder => s \notin Doing({"list"} \union Removes, h)
      /\ s \notin Doing({"config"}, None)
      /\ \A m : s \notin Naming({"add"}, m) /\ s \notin Naming({"erase"}, m)
  BY <1>7 DEF Naming, Doing, Removes
<1>10. mappings \subseteq Mappings /\ data \subseteq Mappings /\ ids \subseteq Mappings
  BY DEF TypeOK
<1>11. /\ \A m \in mappings' : m \in mappings /\ m \notin s.these
       /\ \A m \in mappings' : m.holder = s.holder => m \in ids'
       /\ \A m : m.holder # s.holder => (m \in ids' <=> m \in ids)
       /\ \A m \in ids' : m \in ids \/ m \in mappings'
  BY <1>1 DEF Of
<1>12. Pending(todo)'
  <2>1. \A m \in mappings' : m \notin data => Has(todo', Naming({"store"} \union Removes, m))
    BY <1>3, <1>6, <1>9, <1>11 DEF Pending
  <2>2. \A m \in mappings' : m \notin ids' => Has(todo', Doing({"list"} \union Removes, m.holder))
    BY <1>3, <1>6, <1>9, <1>11 DEF Pending
  <2>3. \A m \in data : Erased(todo', m)
    BY <1>3, <1>6, <1>9 DEF Pending, Erased
  <2>4. ASSUME NEW m \in Mappings, m \notin mappings' PROVE Added(todo', m)
    <3>1. Added(todo, m)
      <4>1. CASE m \in s.these
        <5>1. Has(todo, Naming(Removes, m))
          BY <1>2, <1>8, <4>1 DEF Has
        <5> QED BY <1>3, <5>1 DEF Sound, Added
      <4>2. CASE m \notin s.these
        BY <1>1, <1>3, <2>4, <4>2 DEF Pending
      <4> QED BY <4>1, <4>2
    <3> QED BY <1>6, <1>9, <3>1 DEF Added
  <2>5. ~hasConfig /\ mappings' # {} => Has(todo', Doing({"config"}, None))
    BY <1>3, <1>6, <1>9, <1>11 DEF Pending
  <2>6. Dropped(todo', mappings')
    <3>1. \A i \in DOMAIN todo' : i + 1 \in DOMAIN todo /\ todo'[i] = todo[i + 1]
      BY <1>1, <1>2, TailKeeps
    <3>2. \A h : Of(h, mappings') \subseteq Of(h, mappings)
      BY <1>11 DEF Of
    <3> QED BY <1>3, <3>1, <3>2 DEF Pending, Dropped
  <2>7. data' = data /\ hasConfig' = hasConfig
    BY <1>1
  <2> QED BY <2>1, <2>2, <2>3, <2>4, <2>5, <2>6, <2>7 DEF Pending
<1>13. Loadable' \subseteq mappings' \union gone
  <2> SUFFICES ASSUME NEW m \in ids', m \in data, m \notin mappings' PROVE m \in gone
    BY <1>1 DEF Loadable
  <2>1. m \in ids
    BY <1>11
  <2>2. m \in mappings \union gone
    BY <2>1 DEF Ahead, Loadable
  <2> QED BY <1>1, <1>8, <2>2
<1>14. mappings' \ mine \subseteq Loadable'
  <2> SUFFICES ASSUME NEW m \in mappings', m \notin mine PROVE m \in ids' /\ m \in data
    BY <1>1 DEF Loadable
  <2>1. m \in ids /\ m \in data
    BY <1>11 DEF Ahead, Loadable
  <2> QED BY <1>11, <2>1
<1>15. ~hasConfig' => mappings' \subseteq mine
  BY <1>1, <1>11 DEF Ahead
<1>16. GyroMapping \in ids' => GyroMapping \in mappings' \union gone
  <2> SUFFICES ASSUME GyroMapping \in ids', GyroMapping \notin mappings' PROVE GyroMapping \in gone
    OBVIOUS
  <2>1. GyroMapping \in mappings \union gone
    BY <1>11 DEF Ahead
  <2>2. CASE GyroMapping \in s.these
    <3>1. s.holder = Gyro
      BY <1>4, <2>2 DEF GyroMapping
    <3>2. s.holder \notin Sticks
      BY <3>1, HoldersDiffer
    <3> QED BY <1>1, <1>4, <2>2, <3>2 DEF Of
  <2>3. CASE GyroMapping \notin s.these
    BY <1>1, <2>1, <2>3
  <2> QED BY <2>2, <2>3
<1>17. ids' \subseteq Mappings
  BY <1>10, <1>11
<1> QED BY <1>5, <1>12, <1>13, <1>14, <1>15, <1>16, <1>17 DEF Ahead

(* Clear...Mapping.                                                         *)
LEMMA ForgetAhead ==
  ASSUME NEW mine, NEW gone, TypeOK, Ahead(todo, mine, gone),
         todo # <<>>, Head(todo).do = "forget", Forget(Head(todo))
  PROVE  /\ todo' \in Seq(Steps) /\ StepTypes'
         /\ Ahead(todo, mine, gone)'
<1>1. /\ mappings' = mappings \ Head(todo).these /\ todo' = Tail(todo)
      /\ ids' = Relisted(Head(todo).holder, mappings', known)
      /\ pressed' = pressed \ Head(todo).these
      /\ UNCHANGED <<data, hasConfig>> /\ known' = known
  BY DEF Forget
<1>2. todo' \in Seq(Steps) /\ ids' \subseteq Mappings /\ Ahead(todo, mine, gone)'
  <2>1. Head(todo).do \in Removes
    BY DEF Removes
  <2>2. Removing(Head(todo), known)
    BY <1>1 DEF Removing
  <2> QED BY <2>1, <2>2, RemoveAhead
<1>3. StepTypes'
  BY <1>1, <1>2 DEF TypeOK, StepTypes, Entries
<1> QED BY <1>2, <1>3

(* ClearAll...Mappings of a stick: its table holds nothing more.            *)
LEMMA DropAhead ==
  ASSUME NEW mine, NEW gone, TypeOK, Ahead(todo, mine, gone),
         todo # <<>>, Head(todo).do = "drop", Drop(Head(todo))
  PROVE  /\ todo' \in Seq(Steps) /\ StepTypes'
         /\ Ahead(todo, mine, gone)'
<1> DEFINE s == Head(todo)
<1>1. /\ mappings' = mappings \ s.these /\ todo' = Tail(todo)
      /\ ids' = Relisted(s.holder, mappings', known')
      /\ pressed' = pressed \ s.these
      /\ UNCHANGED <<data, hasConfig>>
      /\ known' = {e \in known : e[1] # s.holder}
  BY DEF Drop
<1>2. todo' \in Seq(Steps) /\ ids' \subseteq Mappings /\ Ahead(todo, mine, gone)'
  <2>1. s.do \in Removes
    BY DEF Removes
  <2>2. Removing(Head(todo), known')
    BY <1>1 DEF Removing
  <2> QED BY <2>1, <2>2, RemoveAhead
<1>3. Of(s.holder, mappings) \subseteq s.these
  <2>1. 1 \in DOMAIN todo /\ s = todo[1]
    BY DEF TypeOK
  <2> QED BY <2>1 DEF Ahead, Pending, Dropped
<1>4. Entries(mappings') \subseteq known'
  <2> SUFFICES ASSUME NEW m \in mappings', m.holder \in Sticks
               PROVE  <<m.holder, m.direction>> \in known'
    BY DEF Entries
  <2>1. m \in mappings /\ m.holder # s.holder
    BY <1>1, <1>3 DEF Of
  <2>2. <<m.holder, m.direction>> \in known
    BY <2>1 DEF TypeOK, Entries
  <2> QED BY <1>1, <2>1, <2>2
<1>5. StepTypes'
  BY <1>1, <1>2, <1>4 DEF TypeOK, StepTypes
<1> QED BY <1>2, <1>5

(* Save...MappingIdsToConfig: the lists name what is in memory.             *)
LEMMA ListAhead ==
  ASSUME NEW mine, NEW gone, TypeOK, Ahead(todo, mine, gone),
         todo # <<>>, Head(todo).do = "list", SaveIds(Head(todo))
  PROVE  /\ todo' \in Seq(Steps) /\ StepTypes'
         /\ Ahead(todo, mine, gone)'
<1> DEFINE s == Head(todo)
<1>1. /\ mappings' = mappings /\ known' = known /\ todo' = Tail(todo)
      /\ data' = data /\ hasConfig' = hasConfig /\ pressed' = pressed
      /\ ids' = {m \in ids : m.holder = s.holder => s.holder \in Sticks /\ <<s.holder, m.direction>> \notin known}
                  \union Of(s.holder, mappings)
  BY DEF SaveIds, memory, Relisted
<1>2. todo \in Seq(Steps) /\ s = todo[1] /\ 1 \in DOMAIN todo /\ s \in Steps
  BY DEF TypeOK
<1>3. Sound(todo, mine) /\ Pending(todo)
  BY DEF Ahead
<1>4. todo' \in Seq(Steps) /\ Sound(todo', mine)
  BY <1>1, <1>2, <1>3, TailKeeps, TailSound
<1>5. \A P, Q : /\ Has(todo, P) /\ s \notin P => Has(todo', P)
                /\ Precedes(todo, P, Q) /\ s \notin Q => Precedes(todo', P, Q)
  BY <1>1, <1>2, TailKeeps
<1>6. s.do = "list"
  OBVIOUS
<1> HIDE DEF s
<1>7. /\ \A m : s \notin Naming({"store"} \union Removes, m)
      /\ \A h : h # s.holder => s \notin Doing({"list"} \union Removes, h)
      /\ s \notin Doing({"config"}, None)
      /\ \A m : s \notin Naming({"add"}, m) /\ s \notin Naming({"erase"}, m)
  BY <1>6 DEF Naming, Doing, Removes
<1>8. /\ \A m \in mappings : m.holder = s.holder => m \in ids'
      /\ \A m : m.holder # s.holder => (m \in ids' <=> m \in ids)
      /\ \A m \in ids' : m \in ids \/ m \in mappings
  BY <1>1 DEF Of
<1>9. Pending(todo)'
  <2>1. \A m \in mappings : m \notin data => Has(todo', Naming({"store"} \union Removes, m))
    BY <1>3, <1>5, <1>7 DEF Pending
  <2>2. \A m \in mappings : m \notin ids' => Has(todo', Doing({"list"} \union Removes, m.holder))
    BY <1>3, <1>5, <1>7, <1>8 DEF Pending
  <2>3. \A m \in data : Erased(todo', m)
    BY <1>3, <1>5, <1>7 DEF Pending, Erased
  <2>4. \A m \in Mappings : m \notin mappings => Added(todo', m)
    BY <1>3, <1>5, <1>7 DEF Pending, Added
  <2>5. ~hasConfig /\ mappings # {} => Has(todo', Doing({"config"}, None))
    BY <1>3, <1>5, <1>7 DEF Pending
  <2>6. Dropped(todo', mappings)
    <3>1. \A i \in DOMAIN todo' : i + 1 \in DOMAIN todo /\ todo'[i] = todo[i + 1]
      BY <1>1, <1>2, TailKeeps
    <3> QED BY <1>3, <3>1 DEF Pending, Dropped
  <2> QED BY <1>1, <2>1, <2>2, <2>3, <2>4, <2>5, <2>6 DEF Pending
<1>10. StepTypes'
  BY <1>1, <1>8 DEF TypeOK, StepTypes, Entries
<1>11. Loadable' \subseteq mappings' \union gone
  BY <1>1, <1>8 DEF Ahead, Loadable
<1>12. mappings' \ mine \subseteq Loadable'
  BY <1>1, <1>8 DEF Ahead, Loadable
<1>13. Ahead(todo, mine, gone)'
  BY <1>1, <1>4, <1>8, <1>9, <1>11, <1>12 DEF Ahead
<1> QED BY <1>4, <1>10, <1>13

(* HasConfig is set.                                                        *)
LEMMA ConfigAhead ==
  ASSUME NEW mine, NEW gone, TypeOK, Ahead(todo, mine, gone),
         todo # <<>>, Head(todo).do = "config", SetHasConfig(Head(todo))
  PROVE  /\ todo' \in Seq(Steps) /\ StepTypes'
         /\ Ahead(todo, mine, gone)'
<1> DEFINE s == Head(todo)
<1>1. /\ mappings' = mappings /\ known' = known /\ todo' = Tail(todo)
      /\ data' = data /\ hasConfig' = TRUE /\ pressed' = pressed /\ ids' = ids
  BY DEF SetHasConfig, memory
<1>2. todo \in Seq(Steps) /\ s = todo[1] /\ 1 \in DOMAIN todo /\ s \in Steps
  BY DEF TypeOK
<1>3. Sound(todo, mine) /\ Pending(todo)
  BY DEF Ahead
<1>4. todo' \in Seq(Steps) /\ Sound(todo', mine)
  BY <1>1, <1>2, <1>3, TailKeeps, TailSound
<1>5. \A P, Q : /\ Has(todo, P) /\ s \notin P => Has(todo', P)
                /\ Precedes(todo, P, Q) /\ s \notin Q => Precedes(todo', P, Q)
  BY <1>1, <1>2, TailKeeps
<1>6. s.do = "config"
  OBVIOUS
<1> HIDE DEF s
<1>7. /\ \A m : s \notin Naming({"store"} \union Removes, m)
      /\ \A h : s \notin Doing({"list"} \union Removes, h)
      /\ \A m : s \notin Naming({"add"}, m) /\ s \notin Naming({"erase"}, m)
  BY <1>6 DEF Naming, Doing, Removes
<1>8. Pending(todo)'
  <2>1. \A m \in mappings : m \notin data => Has(todo', Naming({"store"} \union Removes, m))
    BY <1>3, <1>5, <1>7 DEF Pending
  <2>2. \A m \in mappings : m \notin ids => Has(todo', Doing({"list"} \union Removes, m.holder))
    BY <1>3, <1>5, <1>7 DEF Pending
  <2>3. \A m \in data : Erased(todo', m)
    BY <1>3, <1>5, <1>7 DEF Pending, Erased
  <2>4. \A m \in Mappings : m \notin mappings => Added(todo', m)
    BY <1>3, <1>5, <1>7 DEF Pending, Added
  <2>5. Dropped(todo', mappings)
    <3>1. \A i \in DOMAIN todo' : i + 1 \in DOMAIN todo /\ todo'[i] = todo[i + 1]
      BY <1>1, <1>2, TailKeeps
    <3> QED BY <1>3, <3>1 DEF Pending, Dropped
  <2> QED BY <1>1, <2>1, <2>2, <2>3, <2>4, <2>5 DEF Pending
<1>9. StepTypes'
  BY <1>1 DEF TypeOK, StepTypes, Entries
<1>10. Ahead(todo, mine, gone)'
  BY <1>1, <1>4, <1>8 DEF Ahead, Loadable
<1> QED BY <1>4, <1>9, <1>10

(****************************************************************************)
(* The theorems.                                                            *)
(****************************************************************************)

(* No step left: everything in memory is in the configuration.              *)
LEMMA NothingLeft ==
  ASSUME NEW mine, NEW gone, todo' = <<>>, Ahead(todo, mine, gone)'
  PROVE  Ahead(todo, {}, gone)'
<1>1. todo' = <<>> /\ DOMAIN todo' = {}
  OBVIOUS
<1>2. \A P : ~Has(todo', P)
  BY <1>1 DEF Has
<1>3. Sound(todo', {})
  BY <1>1 DEF Ahead, Sound, Mine
<1>4. mappings' \subseteq data' /\ mappings' \subseteq ids' /\ (~hasConfig' => mappings' = {})
  BY <1>2 DEF Ahead, Pending
<1> QED BY <1>3, <1>4 DEF Ahead, Loadable

(* A step of an edit.                                                       *)
LEMMA EditInv ==
  ASSUME TypeOK, Inv, Edit
  PROVE  TypeOK' /\ Inv'
<1> DEFINE s == Head(todo)
<1>1. /\ program = "running" /\ todo # <<>>
      /\ about' = IF todo' = <<>> THEN {} ELSE about
      /\ program' = program /\ cut' = cut /\ port' = port /\ held' = held
      /\ listening' = listening /\ newKey' = newKey /\ edits' = edits /\ stops' = stops
  BY DEF Edit
<1>2. PICK mine : mine = about
  OBVIOUS
<1>3. PICK gone : gone = cut
  OBVIOUS
<1>4. Ahead(todo, mine, gone)
  BY <1>1, <1>2, <1>3 DEF Inv, Running
<1>5. s.do \in {"erase", "store", "add", "forget", "drop", "list", "config"}
  <2>1. s \in Steps
    BY <1>1 DEF TypeOK
  <2> QED BY <2>1 DEF Steps
<1>6. /\ s.do = "erase" => Erase(s)
      /\ s.do = "store" => Store(s)
      /\ s.do = "add" => Add(s)
      /\ s.do = "forget" => Forget(s)
      /\ s.do = "drop" => Drop(s)
      /\ s.do = "list" => SaveIds(s)
      /\ s.do = "config" => SetHasConfig(s)
  BY DEF Edit
<1>7. todo' \in Seq(Steps) /\ StepTypes' /\ Ahead(todo, mine, gone)'
  <2>1. CASE s.do = "erase"
    BY <1>1, <1>4, <1>6, <2>1, EraseAhead
  <2>2. CASE s.do = "store"
    BY <1>1, <1>4, <1>6, <2>2, StoreAhead
  <2>3. CASE s.do = "add"
    BY <1>1, <1>4, <1>6, <2>3, AddAhead
  <2>4. CASE s.do = "forget"
    BY <1>1, <1>4, <1>6, <2>4, ForgetAhead
  <2>5. CASE s.do = "drop"
    BY <1>1, <1>4, <1>6, <2>5, DropAhead
  <2>6. CASE s.do = "list"
    BY <1>1, <1>4, <1>6, <2>6, ListAhead
  <2>7. CASE s.do = "config"
    BY <1>1, <1>4, <1>6, <2>7, ConfigAhead
  <2> QED BY <1>5, <2>1, <2>2, <2>3, <2>4, <2>5, <2>6, <2>7
<1>8. TypeOK'
  <2>1. about' \subseteq Mappings
    BY <1>1 DEF TypeOK
  <2> QED BY <1>1, <1>7, <2>1 DEF TypeOK, StepTypes
<1>9. Running'
  <2>1. CASE todo' = <<>>
    <3>1. Ahead(todo, {}, gone)'
      BY <1>7, <2>1, NothingLeft
    <3> QED BY <1>1, <1>3, <2>1, <3>1 DEF Running
  <2>2. CASE todo' # <<>>
    BY <1>1, <1>2, <1>3, <1>7, <2>2 DEF Running
  <2> QED BY <2>1, <2>2
<1> QED BY <1>1, <1>8, <1>9 DEF Inv

(* An edit begins.                                                          *)
LEMMA BeginInv ==
  ASSUME TypeOK, Inv, NEW steps, NEW mine \in SUBSET Mappings, Planned(steps, mine),
         Begin(steps, mine),
         listening' \in [Mapped -> BOOLEAN], newKey' \in [Mapped -> Keys \union {None}]
  PROVE  TypeOK' /\ Inv'
<1>1. /\ program = "running" /\ todo = <<>> /\ edits < MaxEdits /\ edits' = edits + 1
      /\ todo' = steps /\ about' = IF steps = <<>> THEN {} ELSE mine
      /\ port' = port /\ mappings' = mappings /\ known' = known /\ ids' = ids /\ data' = data
      /\ hasConfig' = hasConfig /\ program' = program /\ held' = held /\ pressed' = pressed
      /\ cut' = cut /\ stops' = stops
  BY DEF Begin, Idle, memory, config
<1>2. \A P : ~Has(todo, P)
  BY <1>1 DEF Has
<1>3. Ahead(todo, about, cut)
  BY <1>1 DEF Inv, Running
<1>4. mappings \subseteq data /\ mappings \subseteq ids /\ (~hasConfig => mappings = {})
  BY <1>2, <1>3 DEF Ahead, Pending
<1>5. data \subseteq Mappings
  BY DEF TypeOK
<1>6. Pending(todo)'
  BY <1>1, <1>4, <1>5 DEF Planned, Pending
<1>7. Ahead(todo, mine, cut)'
  BY <1>1, <1>3, <1>4, <1>6 DEF Planned, Ahead, Loadable
<1>8. Running'
  <2>1. CASE todo' = <<>>
    <3>1. PICK gone : gone = cut'
      OBVIOUS
    <3>2. Ahead(todo, mine, gone)'
      BY <1>7, <3>1 DEF Ahead
    <3>3. Ahead(todo, {}, gone)'
      BY <2>1, <3>2, NothingLeft
    <3> QED BY <1>1, <2>1, <3>1, <3>3 DEF Running
  <2>2. CASE todo' # <<>>
    BY <1>1, <1>7, <2>2 DEF Running
  <2> QED BY <2>1, <2>2
<1>9. TypeOK'
  <2>1. edits' \in 0 .. MaxEdits
    BY <1>1, BoundsAssumption DEF TypeOK
  <2>2. about' \subseteq Mappings /\ todo' \in Seq(Steps)
    BY <1>1 DEF Planned
  <2> QED BY <1>1, <2>1, <2>2 DEF TypeOK
<1> QED BY <1>1, <1>8, <1>9 DEF Inv

(* The input editor's edits are begun so.                                   *)
LEMMA AddOrEditInv ==
  ASSUME TypeOK, Inv, AddOrEditAny
  PROVE  TypeOK' /\ Inv'
<1>1. PICK h \in Mapped, d \in Directions \union {None}, input \in Inputs :
        \E olds \in {{}} \union {{m} : m \in {n \in Of(h, mappings) : n.direction = d}} :
          AddOrEdit(h, d, input, olds)
  BY DEF AddOrEditAny
<1>2. PICK olds \in {{}} \union {{m} : m \in {n \in Of(h, mappings) : n.direction = d}} :
        AddOrEdit(h, d, input, olds)
  BY <1>1
<1> DEFINE new == [holder |-> h, direction |-> d, input |-> input]
           v == <<Do("add", h, {new}), Do("store", h, {new}), Do("list", h, {}),
                  Do("config", None, {})>>
           steps == (IF olds = {} THEN <<>> ELSE Removal(h, olds)) \o v
<1>3. /\ new \in Mappings /\ Begin(steps, olds \union {new})
      /\ newKey' = [newKey EXCEPT ![h] = None]
      /\ listening' = [listening EXCEPT ![h] = FALSE]
  BY <1>2 DEF AddOrEdit
<1>4. h \in Holders /\ new.holder = h
  BY DEF Holders
<1>5. mappings \subseteq Mappings
  BY DEF TypeOK
<1>6. Planned(steps, olds \union {new}) /\ olds \union {new} \in SUBSET Mappings
  <2>1. CASE olds = {}
    <3>1. Planned(v, {new})
      BY <1>3, <1>4, AddOnePlanned
    <3>2. v \in Seq(Steps)
      BY <3>1 DEF Planned
    <3> HIDE DEF v, new
    <3>3. steps = v
      BY <2>1, <3>2
    <3> QED BY <1>3, <2>1, <3>1, <3>3
  <2>2. CASE olds # {}
    <3>1. PICK old \in mappings : old.holder = h /\ olds = {old}
      BY <2>2 DEF Of
    <3>2. Planned(Removal(h, {old}) \o v, {old, new})
      BY <1>3, <1>4, <1>5, <3>1, EditOnePlanned
    <3> HIDE DEF v, new
    <3>3. steps = Removal(h, {old}) \o v /\ olds \union {new} = {old, new}
      BY <3>1
    <3> QED BY <1>3, <1>5, <3>1, <3>2, <3>3
  <2> QED BY <2>1, <2>2
<1> HIDE DEF steps, new
<1>7. listening' \in [Mapped -> BOOLEAN] /\ newKey' \in [Mapped -> Keys \union {None}]
  BY <1>3 DEF TypeOK
<1> QED BY <1>3, <1>6, <1>7, BeginInv

(* Those of rumble, LED and gyro.                                           *)
LEMMA SetOutputInv ==
  ASSUME TypeOK, Inv, NEW h \in {Rumble, LED, Gyro}, SetOutput(h)
  PROVE  TypeOK' /\ Inv'
<1> DEFINE new == [holder |-> h, direction |-> None, input |-> SDL]
           v == <<Do("add", h, {new}), Do("store", h, {new}), Do("list", h, {}),
                  Do("config", None, {})>>
<1>1. Begin(v, {new}) /\ listening' = listening /\ newKey' = newKey
  BY DEF SetOutput
<1>2. new \in Mappings /\ h \in Holders /\ new.holder = h
  BY DEF Mappings, Holders
<1>3. Planned(v, {new})
  BY <1>2, AddOnePlanned
<1> HIDE DEF v, new
<1>4. {new} \in SUBSET Mappings
  BY <1>2
<1>5. listening' \in [Mapped -> BOOLEAN] /\ newKey' \in [Mapped -> Keys \union {None}]
  BY <1>1 DEF TypeOK
<1> QED BY <1>1, <1>3, <1>4, <1>5, BeginInv

(* Those that clear, and "Set Defaults".                                    *)
LEMMA ClearInv ==
  ASSUME TypeOK, Inv,
         \/ \E m \in mappings : ClearMapping(m)
         \/ ClearAllMappings
         \/ \E type \in DeviceTypes : SetDefaults(type)
  PROVE  TypeOK' /\ Inv'
<1>1. mappings \subseteq Mappings
  BY DEF TypeOK
<1>2. ASSUME listening' = listening, newKey' = newKey
      PROVE  listening' \in [Mapped -> BOOLEAN] /\ newKey' \in [Mapped -> Keys \union {None}]
  BY <1>2 DEF TypeOK
<1>3. ASSUME NEW m \in mappings, ClearMapping(m) PROVE TypeOK' /\ Inv'
  <2>1. Begin(Removal(m.holder, {m}), {m}) /\ listening' = listening /\ newKey' = newKey
    BY <1>3 DEF ClearMapping
  <2>2. Planned(Removal(m.holder, {m}), {m}) /\ {m} \in SUBSET Mappings
    BY <1>1, ClearMappingPlanned
  <2> QED BY <1>2, <2>1, <2>2, BeginInv
<1>4. ASSUME ClearAllMappings PROVE TypeOK' /\ Inv'
  <2> DEFINE steps == InTurn(ClearAll, First \o <<Gyro, Rumble, LED>>)
  <2>1. Begin(steps, mappings) /\ listening' = listening /\ newKey' = newKey
    BY <1>4 DEF ClearAllMappings
  <2>2. Planned(steps, mappings)
    BY <1>1, ClearAllPlanned
  <2> HIDE DEF steps
  <2> QED BY <1>1, <1>2, <2>1, <2>2, BeginInv
<1>5. ASSUME NEW type \in DeviceTypes, SetDefaults(type) PROVE TypeOK' /\ Inv'
  <2> DEFINE steps == InTurn(LAMBDA h : ClearType(h, type), First \o <<Gyro, Rumble, LED>>)
                        \o ControllerDefaults(Kept(type), type)
             mine == {m \in mappings : TypeOf(m) = type} \union DefaultsOf({type})
  <2>1. Begin(steps, mine) /\ listening' = listening /\ newKey' = newKey
    BY <1>5 DEF SetDefaults
  <2>2. Planned(steps, mine)
    BY <1>1, SetDefaultsPlanned
  <2>3. mine \in SUBSET Mappings
    BY <1>1, DefaultsOwned
  <2> HIDE DEF steps, mine
  <2> QED BY <1>2, <2>1, <2>2, <2>3, BeginInv
<1> QED BY <1>3, <1>4, <1>5

(* The keyboard, and the pad read.                                          *)
LEMMA InputInv ==
  ASSUME TypeOK, Inv,
         \/ \E h \in Mapped : Listen(h)
         \/ ReadPad
         \/ \E key \in Keys : KeyDown(key) \/ KeyUp(key)
         \/ AllKeysUp
  PROVE  TypeOK' /\ Inv'
<1>1. ASSUME UNCHANGED <<mappings, config, todo, program, about, cut>>, program = "running"
      PROVE  Inv'
  <2>1. /\ mappings' = mappings /\ ids' = ids /\ data' = data /\ hasConfig' = hasConfig
        /\ todo' = todo /\ program' = program /\ about' = about /\ cut' = cut
    BY <1>1 DEF config
  <2>2. Running
    BY <1>1 DEF Inv
  <2>3. Running'
    BY <2>1, <2>2 DEF Running, Ahead, Pending, Loadable
  <2> QED BY <1>1, <2>1, <2>3 DEF Inv
<1>2. ASSUME NEW h \in Mapped, Listen(h) PROVE TypeOK' /\ Inv'
  <2>1. Inv'
    BY <1>1, <1>2 DEF Listen, Idle, memory, history
  <2> QED BY <1>2, <2>1 DEF Listen, TypeOK, memory, config, history
<1>3. ASSUME ReadPad PROVE TypeOK' /\ Inv'
  <2>1. Inv'
    BY <1>1, <1>3 DEF ReadPad, Idle, history
  <2>2. Entries(mappings') \subseteq known' /\ known' \subseteq Sticks \X Directions
    BY <1>3 DEF ReadPad, TypeOK
  <2> QED BY <1>3, <2>1, <2>2 DEF ReadPad, TypeOK, config, keys, history
<1>4. \A h, key : Hears(h, key) \subseteq {m \in mappings : m.input = key}
  BY DEF Hears, Takes, Keyed, Of
<1>5. ASSUME NEW key \in Keys, KeyDown(key) PROVE TypeOK' /\ Inv'
  <2>1. Inv'
    BY <1>1, <1>5 DEF KeyDown, Idle, memory, history
  <2>2. pressed' \subseteq {m \in mappings' : m.input \in Keys}
    BY <1>4, <1>5 DEF KeyDown, TypeOK, memory
  <2>3. newKey' \in [Mapped -> Keys \union {None}] /\ held' \subseteq Keys
    BY <1>5 DEF KeyDown, TypeOK
  <2> QED BY <1>5, <2>1, <2>2, <2>3 DEF KeyDown, TypeOK, memory, config, history
<1>6. ASSUME NEW key \in Keys, KeyUp(key) PROVE TypeOK' /\ Inv'
  <2>1. Inv'
    BY <1>1, <1>6 DEF KeyUp, Idle, memory, history
  <2>2. pressed' \subseteq {m \in mappings' : m.input \in Keys}
    BY <1>6 DEF KeyUp, TypeOK, memory
  <2>3. newKey' \in [Mapped -> Keys \union {None}] /\ held' \subseteq Keys
    BY <1>6 DEF KeyUp, TypeOK
  <2> QED BY <1>6, <2>1, <2>2, <2>3 DEF KeyUp, TypeOK, memory, config, history
<1>7. ASSUME AllKeysUp PROVE TypeOK' /\ Inv'
  <2>1. Inv'
    BY <1>1, <1>7 DEF AllKeysUp, Idle, memory, history
  <2>2. pressed' \subseteq {m \in mappings' : m.input \in Keys}
    BY <1>7 DEF AllKeysUp, TypeOK, memory
  <2>3. newKey' \in [Mapped -> Keys \union {None}] /\ held' \subseteq Keys
    BY <1>7 DEF AllKeysUp, TypeOK
  <2> QED BY <1>7, <2>1, <2>2, <2>3 DEF AllKeysUp, TypeOK, memory, config, history
<1> QED BY <1>2, <1>3, <1>5, <1>6, <1>7

(* The end of a session, at whatever Save it comes.                         *)
LEMMA StopInv ==
  ASSUME TypeOK, Inv, Stop
  PROVE  TypeOK' /\ Inv'
<1>1. /\ program = "running" /\ stops < MaxStops /\ stops' = stops + 1 /\ program' = "stopped"
      /\ mappings' = {} /\ known' = {} /\ todo' = <<>> /\ held' = {} /\ pressed' = {}
      /\ listening' = [h \in Mapped |-> FALSE] /\ newKey' = [h \in Mapped |-> None]
      /\ about' = {} /\ cut' = cut \union about
      /\ port' = port /\ ids' = ids /\ data' = data /\ hasConfig' = hasConfig /\ edits' = edits
  BY DEF Stop, config
<1>2. Ahead(todo, about, cut)
  BY <1>1 DEF Inv, Running
<1>3. Ended'
  <2>1. ~hasConfig => Loadable \subseteq cut' /\ (GyroMapping \in ids => GyroMapping \in cut')
    BY <1>1, <1>2 DEF Ahead
  <2>2. GyroMapping \in ids => GyroMapping \in data \union cut'
    BY <1>1, <1>2 DEF Ahead, Loadable
  <2> QED BY <1>1, <2>1, <2>2 DEF Ended, Loadable
<1>4. TypeOK'
  <2>1. stops' \in 0 .. MaxStops
    BY <1>1, BoundsAssumption DEF TypeOK
  <2>2. Entries(mappings') = {} /\ todo' \in Seq(Steps)
    BY <1>1 DEF Entries
  <2> QED BY <1>1, <2>1, <2>2 DEF TypeOK
<1> QED BY <1>1, <1>3, <1>4 DEF Inv

(* The start of the next one.                                               *)
LEMMA StartInv ==
  ASSUME TypeOK, Inv, Start
  PROVE  TypeOK' /\ Inv'
<1>1. /\ program = "stopped" /\ port' = port /\ ids' = ids /\ data' = data
      /\ hasConfig' = hasConfig /\ held' = held /\ pressed' = pressed /\ listening' = listening
      /\ newKey' = newKey /\ cut' = cut /\ edits' = edits /\ stops' = stops
  BY DEF Start, config, keys
<1>2. Ended
  BY <1>1 DEF Inv
<1>3. \A P, Q, m : ~Has(<<>>, P) /\ Precedes(<<>>, P, Q) /\ Follows(<<>>, P, Q)
  BY DEF Has, Precedes, Follows
<1>4. \A mine : Sound(<<>>, mine)
  BY <1>3 DEF Sound, Ordered, Owned, Mine
<1>5. CASE hasConfig /\ GyroFails
  <2>1. program' = "dead" /\ mappings' = mappings /\ known' = known /\ todo' = todo /\ about' = about
    BY <1>1, <1>5 DEF Start, Reload, memory
  <2>2. GyroMapping \in cut
    BY <1>2, <1>5 DEF GyroFails, Loadable, Ended
  <2>3. Ended'
    BY <1>1, <1>2, <2>1 DEF Ended, Loadable
  <2> QED BY <1>1, <2>1, <2>2, <2>3 DEF Inv, TypeOK
<1>6. CASE hasConfig /\ ~GyroFails
  <2>1. /\ program' = "running" /\ mappings' = Loadable /\ known' = Entries(mappings')
        /\ todo' = <<>> /\ about' = {}
    BY <1>1, <1>2, <1>6 DEF Start, Reload, Ended
  <2>2. Loadable' = Loadable /\ mappings' \subseteq ids /\ mappings' \subseteq data
    BY <1>1, <2>1 DEF Loadable
  <2>3. Pending(todo)'
    BY <1>1, <1>3, <1>6, <2>1, <2>2 DEF Pending, Erased, Added, Dropped
  <2>4. GyroMapping \in ids => GyroMapping \in mappings'
    BY <1>6, <2>1 DEF GyroFails
  <2>5. Running'
    BY <1>1, <1>4, <1>6, <2>1, <2>2, <2>3, <2>4 DEF Running, Ahead
  <2>6. known' \subseteq Sticks \X Directions /\ mappings' \subseteq Mappings
    <3>1. mappings' \subseteq Mappings
      BY <2>2 DEF TypeOK
    <3> SUFFICES ASSUME NEW m \in mappings', m.holder \in Sticks
                 PROVE  <<m.holder, m.direction>> \in Sticks \X Directions
      BY <2>1, <3>1 DEF Entries
    <3>2. m.direction \in Directions
      BY <3>1, HoldersDiffer DEF Mappings
    <3> QED BY <3>2
  <2>7. TypeOK'
    BY <1>1, <1>2, <2>1, <2>6 DEF TypeOK, Ended
  <2> QED BY <1>1, <2>1, <2>5, <2>7 DEF Inv
<1>7. CASE ~hasConfig
  <2> DEFINE k == {} \union DefaultsOf({"Keyboard"})
             m == k \union DefaultsOf({"Mouse"})
             steps == ControllerDefaults({}, "Keyboard") \o ControllerDefaults(k, "Mouse")
                        \o ControllerDefaults(m, "SDLGamepad")
             all == DefaultsOf(DeviceTypes)
  <2>1. /\ program' = "running" /\ mappings' = {} /\ known' = {}
        /\ todo' = IF port = 1 THEN steps ELSE <<>>
        /\ about' = IF port = 1 THEN all ELSE {}
    BY <1>1, <1>2, <1>7 DEF Start, memory, Ended
  <2>2. Planned(steps, all)
    BY StartPlanned
  <2>3. all \subseteq Mappings
    <3>1. \A type \in DeviceTypes : DefaultsOf({type}) \subseteq Mappings
      BY DefaultsOwned
    <3> QED BY <3>1 DEF DefaultsOf
  <2> HIDE DEF steps, all
  <2>4. /\ todo' \in Seq(Steps) /\ Sound(todo', about') /\ about' \subseteq Mappings
        /\ \A n \in Mappings : Erased(todo', n) /\ Added(todo', n)
    <3>1. CASE port = 1
      <4>1. mappings = {}
        BY <1>2 DEF Ended
      <4> QED BY <2>1, <2>2, <2>3, <3>1, <4>1 DEF Planned
    <3>2. CASE port # 1
      BY <1>3, <1>4, <2>1, <3>2 DEF Erased, Added
    <3> QED BY <3>1, <3>2
  <2>5. Pending(todo)'
    <3>1. \A S : Of(S, mappings') = {}
      BY <2>1 DEF Of
    <3> QED BY <1>1, <2>1, <2>4, <3>1 DEF Pending, Dropped, TypeOK
  <2>6. Running'
    BY <1>1, <1>2, <1>7, <2>1, <2>4, <2>5 DEF Running, Ahead, Ended, Loadable
  <2>7. TypeOK'
    <3>1. Entries(mappings') = {}
      BY <2>1 DEF Entries
    <3> QED BY <1>1, <1>2, <2>1, <2>4, <3>1 DEF TypeOK, Ended
  <2> QED BY <1>1, <2>1, <2>6, <2>7 DEF Inv
<1> QED BY <1>5, <1>6, <1>7

(* A first session finds nothing.                                           *)
LEMMA InitInv ==
  ASSUME Init
  PROVE  TypeOK /\ Inv
<1>1. Entries(mappings) = {} /\ todo \in Seq(Steps)
  BY DEF Init, Entries
<1>2. TypeOK
  <2>1. edits \in 0 .. MaxEdits /\ stops \in 0 .. MaxStops
    BY BoundsAssumption DEF Init
  <2>2. listening \in [Mapped -> BOOLEAN] /\ newKey \in [Mapped -> Keys \union {None}]
    BY DEF Init
  <2> QED BY <1>1, <2>1, <2>2 DEF Init, TypeOK
<1>3. Inv
  BY DEF Init, Inv, Ended, Loadable
<1> QED BY <1>2, <1>3

(* Every step keeps the invariant.                                          *)
LEMMA NextInv ==
  ASSUME TypeOK, Inv, [Next]_vars
  PROVE  TypeOK' /\ Inv'
<1>1. CASE Edit
  BY <1>1, EditInv
<1>2. CASE AddOrEditAny
  BY <1>2, AddOrEditInv
<1>3. CASE \E h \in {Rumble, LED, Gyro} : SetOutput(h)
  BY <1>3, SetOutputInv
<1>4. CASE \/ \E m \in mappings : ClearMapping(m)
           \/ ClearAllMappings
           \/ \E type \in DeviceTypes : SetDefaults(type)
  BY <1>4, ClearInv
<1>5. CASE \/ \E h \in Mapped : Listen(h)
           \/ ReadPad
           \/ \E key \in Keys : KeyDown(key) \/ KeyUp(key)
           \/ AllKeysUp
  BY <1>5, InputInv
<1>6. CASE Stop
  BY <1>6, StopInv
<1>7. CASE Start
  BY <1>7, StartInv
<1>8. CASE UNCHANGED vars
  <2>1. /\ port' = port /\ mappings' = mappings /\ known' = known /\ ids' = ids /\ data' = data
        /\ hasConfig' = hasConfig /\ todo' = todo /\ program' = program /\ held' = held
        /\ pressed' = pressed /\ listening' = listening /\ newKey' = newKey /\ about' = about
        /\ cut' = cut /\ edits' = edits /\ stops' = stops
    BY <1>8 DEF vars, memory, config, keys, history
  <2>2. TypeOK'
    BY <2>1 DEF TypeOK
  <2>3. (Running => Running') /\ (Ended => Ended')
    BY <2>1 DEF Running, Ahead, Pending, Ended, Loadable
  <2> QED BY <2>1, <2>2, <2>3 DEF Inv
<1> QED BY <1>1, <1>2, <1>3, <1>4, <1>5, <1>6, <1>7, <1>8 DEF Next

(* What is left of an edit always puts right what it left wrong.            *)
LEMMA Invariant == Spec => [](TypeOK /\ Inv)
<1>1. Init => TypeOK /\ Inv
  BY InitInv
<1>2. TypeOK /\ Inv /\ [Next]_vars => TypeOK' /\ Inv'
  BY NextInv
<1> QED BY <1>1, <1>2, PTL DEF Spec

(* Types hold, for every choice of the constants.                           *)
THEOREM TypeCorrect == Spec => []TypeOK
BY Invariant, PTL

(* A program killed at any Save, of any edit, finds in its next session the *)
(* mappings it had, but for those that edits cut short were about: for any  *)
(* buttons, sticks, keys and default mappings, and any number of sessions.  *)
THEOREM SurvivesHolds == Spec => []Survives
<1>1. Inv => Survives
  BY DEF Inv, Running, Ahead, Survives
<1> QED BY <1>1, Invariant, PTL

(* A gyro without its data stops a session from starting only if an earlier *)
(* one was killed amid an edit of the gyro.                                 *)
THEOREM BootsUpHolds == Spec => []BootsUp
<1>1. Inv => BootsUp
  BY DEF Inv, BootsUp
<1> QED BY <1>1, Invariant, PTL

(* The key a popup captured is down: capturing and releasing see the same   *)
(* events as long as the button listens, and it listens until it is told.   *)
THEOREM CapturedIsHeldHolds == Spec => []CapturedIsHeld
<1>1. Init => HeldInv
  BY DEF Init, HeldInv, CapturedIsHeld
<1>2. TypeOK /\ HeldInv /\ [Next]_vars => HeldInv'
  <2> SUFFICES ASSUME TypeOK, HeldInv, [Next]_vars PROVE HeldInv'
    OBVIOUS
  <2>1. /\ newKey \in [Mapped -> Keys \union {None}]
        /\ listening \in [Mapped -> BOOLEAN]
        /\ \A h \in Mapped : newKey[h] \in held \union {None}
        /\ \A h \in Mapped : newKey[h] # None => listening[h]
    BY DEF TypeOK, HeldInv, CapturedIsHeld
  <2>2. ASSUME newKey' = newKey, listening' = listening, held' = held PROVE HeldInv'
    BY <2>1, <2>2 DEF HeldInv, CapturedIsHeld
  <2>3. CASE Edit
    BY <2>2, <2>3 DEF Edit
  <2>4. CASE AddOrEditAny
    <3>1. PICK h \in Mapped, d \in Directions \union {None}, input \in Inputs :
            \E olds \in {{}} \union {{m} : m \in {n \in Of(h, mappings) : n.direction = d}} :
              AddOrEdit(h, d, input, olds)
      BY <2>4 DEF AddOrEditAny
    <3>2. /\ newKey' = [newKey EXCEPT ![h] = None]
          /\ listening' = [listening EXCEPT ![h] = FALSE]
          /\ held' = held
      BY <3>1 DEF AddOrEdit, Begin
    <3> QED BY <2>1, <3>2 DEF HeldInv, CapturedIsHeld
  <2>5. ASSUME NEW h \in Mapped, Listen(h) PROVE HeldInv'
    BY <2>1, <2>5 DEF Listen, HeldInv, CapturedIsHeld
  <2>6. CASE \E h \in {Rumble, LED, Gyro} : SetOutput(h)
    BY <2>2, <2>6 DEF SetOutput, Begin
  <2>7. CASE \E m \in mappings : ClearMapping(m)
    BY <2>2, <2>7 DEF ClearMapping, Begin
  <2>8. CASE ClearAllMappings \/ \E type \in DeviceTypes : SetDefaults(type)
    BY <2>2, <2>8 DEF ClearAllMappings, SetDefaults, Begin
  <2>9. CASE ReadPad
    BY <2>2, <2>9 DEF ReadPad, keys
  <2>10. ASSUME NEW key \in Keys, KeyDown(key) PROVE HeldInv'
    <3>1. key # None
      BY InputsDiffer
    <3> QED BY <2>1, <2>10, <3>1 DEF KeyDown, HeldInv, CapturedIsHeld
  <2>11. ASSUME NEW key \in Keys, KeyUp(key) PROVE HeldInv'
    BY <2>1, <2>11 DEF KeyUp, HeldInv, CapturedIsHeld
  <2>12. CASE AllKeysUp
    BY <2>1, <2>12 DEF AllKeysUp, HeldInv, CapturedIsHeld
  <2>13. CASE Stop
    BY <2>13 DEF Stop, HeldInv, CapturedIsHeld
  <2>14. CASE Start
    BY <2>2, <2>14 DEF Start, keys
  <2>15. CASE UNCHANGED vars
    BY <2>2, <2>15 DEF vars, keys
  <2> QED BY <2>3, <2>4, <2>5, <2>6, <2>7, <2>8, <2>9, <2>10, <2>11, <2>12, <2>13, <2>14, <2>15 DEF Next
<1>3. HeldInv => CapturedIsHeld
  BY DEF HeldInv
<1> QED BY <1>1, <1>2, <1>3, Invariant, PTL DEF Spec

================================================================================
