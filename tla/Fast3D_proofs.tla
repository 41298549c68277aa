---------------------------- MODULE Fast3D_proofs ----------------------------
(***************************************************************************)
(* What the display lists' interpreter keeps for every value of the        *)
(* constants.  First its stacks: they hold addresses of commands, the path *)
(* says how the command was reached, a frame stops where the debugger was  *)
(* told to, and the stacks call and return as DisplayCalls does.  Then its *)
(* draw calls: triangles wait in the buffer for a GPU that still has what  *)
(* they asked for.                                                         *)
(***************************************************************************)
EXTENDS DisplayList, Interpreter, SequenceTheorems, WellFoundedInduction, FiniteSetTheorems, TLAPS

(* The first list of the path, or the only one, is the frame's.            *)
FromRoot == stack # <<>> /\ path = <<>> => Cmd[1] = Root

IInv == TypeOK /\ PathLeadsHere /\ FromRoot

Marks == Addresses \union {Null}

(* The invariant's part about the stacks, that about a running frame, and  *)
(* that about the rest.                                                    *)
Stacks ==
  /\ stack \in Seq(Marks) /\ path \in Seq(Addresses)
  /\ \A k \in DOMAIN stack : stack[k] # Null => Word(stack[k]).op # "data"
  /\ PathLeadsHere /\ FromRoot

Alive == stack # <<>> /\ Cmd # Null

Others ==
  /\ mem \in Memories /\ segment \in Movable
  /\ debugging \in BOOLEAN /\ breakpoint \in Seq(Addresses) /\ shown \in Seq(Addresses)
  /\ state \in {"idle", "running", "stopped", "finished", "lost"} /\ averted \in BOOLEAN

------------------------------------------------------------------------------
(* Sequences: the last element replaced by one or two others, and a prefix.*)
LEMMA ReplacedByOne ==
  ASSUME NEW S, NEW s \in Seq(S), s # <<>>, NEW x \in S
  PROVE  LET t == Append(SubSeq(s, 1, Len(s) - 1), x)
         IN  /\ t \in Seq(S) /\ Len(t) = Len(s) /\ DOMAIN t = 1 .. Len(s)
             /\ t[Len(s)] = x
             /\ \A i \in 1 .. Len(s) - 1 : t[i] = s[i]
<1> DEFINE u == SubSeq(s, 1, Len(s) - 1)
<1>1. Len(s) \in Nat \ {0} /\ DOMAIN s = 1 .. Len(s)
  BY EmptySeq, LenProperties
<1>2. \A i \in 1 .. Len(s) - 1 : s[i] \in S
  BY <1>1, ElementOfSeq
<1>3. u \in Seq(S) /\ Len(u) = Len(s) - 1 /\ \A i \in 1 .. Len(s) - 1 : u[i] = s[i]
  BY <1>1, <1>2, SubSeqProperties
<1> HIDE DEF u
<1>9. /\ Append(u, x) \in Seq(S) /\ Len(Append(u, x)) = Len(u) + 1
      /\ Append(u, x)[Len(u) + 1] = x
      /\ \A i \in 1 .. Len(u) : Append(u, x)[i] = u[i]
  BY <1>3, AppendProperties
<1>4. Append(u, x) \in Seq(S) /\ Len(Append(u, x)) = Len(s)
  BY <1>1, <1>3, <1>9
<1>5. /\ Append(u, x)[Len(s)] = x
      /\ \A i \in 1 .. Len(s) - 1 : Append(u, x)[i] = u[i]
  <2>1. Len(u) + 1 = Len(s)
    BY <1>1, <1>3
  <2> QED
    BY <1>3, <1>9, <2>1
<1>6. DOMAIN Append(u, x) = 1 .. Len(s)
  BY <1>4, LenProperties
<1> QED
  BY <1>3, <1>4, <1>5, <1>6 DEF u

LEMMA ReplacedByTwo ==
  ASSUME NEW S, NEW s \in Seq(S), s # <<>>, NEW v \in Seq(S), Len(v) = 2
  PROVE  LET t == SubSeq(s, 1, Len(s) - 1) \o v
         IN  /\ t \in Seq(S) /\ Len(t) = Len(s) + 1 /\ DOMAIN t = 1 .. Len(s) + 1
             /\ t[Len(s)] = v[1] /\ t[Len(s) + 1] = v[2]
             /\ \A i \in 1 .. Len(s) - 1 : t[i] = s[i]
<1> DEFINE u == SubSeq(s, 1, Len(s) - 1)
           t == u \o v
<1>1. Len(s) \in Nat \ {0} /\ DOMAIN s = 1 .. Len(s)
  BY EmptySeq, LenProperties
<1>2. \A i \in 1 .. Len(s) - 1 : s[i] \in S
  BY <1>1, ElementOfSeq
<1>3. u \in Seq(S) /\ Len(u) = Len(s) - 1 /\ \A i \in 1 .. Len(s) - 1 : u[i] = s[i]
  BY <1>1, <1>2, SubSeqProperties
<1> HIDE DEF u
<1>4. /\ t \in Seq(S) /\ Len(t) = Len(u) + Len(v)
      /\ \A i \in 1 .. Len(u) + Len(v) : t[i] = IF i <= Len(u) THEN u[i] ELSE v[i - Len(u)]
  BY <1>3, ConcatProperties
<1> HIDE DEF t
<1>5. /\ Len(t) = Len(s) + 1
      /\ \A i \in 1 .. Len(s) + 1 : t[i] = IF i <= Len(s) - 1 THEN u[i] ELSE v[i - (Len(s) - 1)]
  BY <1>1, <1>3, <1>4
<1>6. t[Len(s)] = v[1] /\ t[Len(s) + 1] = v[2]
  <2>1. Len(s) \in 1 .. Len(s) + 1 /\ Len(s) + 1 \in 1 .. Len(s) + 1
        /\ ~(Len(s) <= Len(s) - 1) /\ ~(Len(s) + 1 <= Len(s) - 1)
        /\ Len(s) - (Len(s) - 1) = 1 /\ Len(s) + 1 - (Len(s) - 1) = 2
    BY <1>1
  <2> QED
    BY <1>5, <2>1
<1>7. \A i \in 1 .. Len(s) - 1 : t[i] = s[i]
  BY <1>1, <1>3, <1>5
<1>8. DOMAIN t = 1 .. Len(s) + 1
  BY <1>4, <1>5, LenProperties
<1> QED
  BY <1>4, <1>5, <1>6, <1>7, <1>8 DEF t, u

LEMMA Extended ==
  ASSUME NEW S, NEW s \in Seq(S), NEW x \in S
  PROVE  LET t == Append(s, x)
         IN  /\ t \in Seq(S) /\ Len(t) = Len(s) + 1 /\ DOMAIN t = 1 .. Len(s) + 1
             /\ Len(s) \in Nat /\ t # <<>>
             /\ t[Len(s) + 1] = x
             /\ \A i \in 1 .. Len(s) : t[i] = s[i]
<1>1. Append(s, x) \in Seq(S) /\ Len(Append(s, x)) = Len(s) + 1 /\ Append(s, x) # <<>>
  BY AppendProperties
<1>2. DOMAIN Append(s, x) = 1 .. Len(s) + 1 /\ Len(s) \in Nat
  BY <1>1, LenProperties
<1> QED
  BY <1>1, <1>2, AppendProperties

LEMMA Prefixed ==
  ASSUME NEW S, NEW s \in Seq(S), NEW n \in Int, n <= Len(s)
  PROVE  LET t == SubSeq(s, 1, n)
         IN  /\ t \in Seq(S) /\ Len(t) = (IF n > 0 THEN n ELSE 0)
             /\ DOMAIN t = 1 .. n
             /\ (t = <<>> <=> n <= 0)
             /\ \A i \in 1 .. n : t[i] = s[i]
<1>1. Len(s) \in Nat
  BY LenProperties
<1>2. \A i \in 1 .. n : s[i] \in S
  BY <1>1, ElementOfSeq
<1> DEFINE t == SubSeq(s, 1, n)
<1>3. t \in Seq(S) /\ Len(t) = (IF 1 <= n THEN n - 1 + 1 ELSE 0) /\ \A i \in 1 .. n - 1 + 1 : t[i] = s[1 + i - 1]
  BY <1>2, SubSeqProperties
<1> HIDE DEF t
<1>4. Len(t) = (IF n > 0 THEN n ELSE 0) /\ \A i \in 1 .. n : t[i] = s[i]
  BY <1>3
<1>5. DOMAIN t = 1 .. n
  <2>1. DOMAIN t = 1 .. Len(t)
    BY <1>3, LenProperties
  <2> QED
    BY <1>4, <2>1
<1>6. t = <<>> <=> n <= 0
  BY <1>3, <1>4, EmptySeq
<1> QED
  BY <1>3, <1>4, <1>5, <1>6 DEF t

------------------------------------------------------------------------------
(* A bounded set of numbers has a largest element.                         *)
LEMMA Largest ==
  ASSUME NEW n \in Nat, NEW T \in SUBSET (0 .. n), T # {}
  PROVE  \E i \in T : \A j \in T : j <= i
<1> DEFINE U == {n - i : i \in T}
<1>1. U \subseteq Nat /\ U # {}
  <2>1. \A i \in T : i \in 0 .. n
    OBVIOUS
  <2>2. \A i \in T : n - i \in Nat
    BY <2>1
  <2>3. PICK i \in T : TRUE
    OBVIOUS
  <2>4. n - i \in U
    OBVIOUS
  <2> QED
    BY <2>2, <2>4
<1> DEFINE R == OpToRel(<, Nat)
<1>2. PICK x \in U : \A y \in U : <<y, x>> \notin R
  <2> HIDE DEF R, U
  <2>1. IsWellFoundedOn(R, Nat)
    BY NatLessThanWellFounded DEF R
  <2> QED
    BY <1>1, <2>1, WFMin
<1>3. PICK i \in T : x = n - i
  BY <1>2
<1>4. ASSUME NEW j \in T PROVE j <= i
  <2>1. n - j \in U /\ n - j \in Nat /\ x \in Nat
    BY <1>1, <1>2
  <2>2. ~(n - j < x)
    BY <1>2, <2>1 DEF OpToRel
  <2> QED
    BY <1>3, <2>1, <2>2
<1> QED
  BY <1>4

------------------------------------------------------------------------------
(* What well-formed lists give to whoever stands at an address of theirs.  *)
LEMMA AddressIs ==
  ASSUME mem \in Memories
  PROVE  /\ Null \notin Addresses
         /\ \A l \in Lists : <<l, 1>> \in Addresses /\ Word(<<l, 1>>).op \notin Calls!Data
         /\ \A a \in Addresses :
              /\ a = <<a[1], a[2]>> /\ a[1] \in Lists
              /\ a[2] \in DOMAIN mem[a[1]] /\ DOMAIN mem[a[1]] = 1 .. Len(mem[a[1]])
              /\ Len(mem[a[1]]) \in Nat
              /\ Word(a).to \in Lists \union {Null, Segmented}
              /\ Word(a).op \in Calls!Ops
<1>1. Calls!WellFormed(mem)
  BY MemoriesAssumption
<1>2. /\ mem \in [Lists -> Seq([op : Calls!Ops, to : Lists \union {Null, Segmented}])]
      /\ \A l \in Lists : mem[l] # <<>> /\ mem[l][1].op \notin Calls!Data
  BY <1>1 DEF Calls!WellFormed
<1>3. ASSUME NEW l \in Lists
      PROVE  /\ DOMAIN mem[l] = 1 .. Len(mem[l]) /\ Len(mem[l]) \in Nat \ {0}
             /\ \A i \in DOMAIN mem[l] : mem[l][i] \in [op : Calls!Ops, to : Lists \union {Null, Segmented}]
  <2>1. mem[l] \in Seq([op : Calls!Ops, to : Lists \union {Null, Segmented}]) /\ mem[l] # <<>>
    BY <1>2
  <2> QED
    BY <2>1, EmptySeq, LenProperties, ElementOfSeq
<1>4. \A a \in Addresses : \E l \in Lists : \E i \in DOMAIN mem[l] : a = <<l, i>>
  BY DEF Addresses
<1>5. Null \notin Addresses
  <2>1. ASSUME NEW a \in Addresses PROVE a # Null
    <3> PICK l \in Lists : \E i \in DOMAIN mem[l] : a = <<l, i>>
      BY <1>4
    <3>1. PICK i \in DOMAIN mem[l] : a = <<l, i>>
      OBVIOUS
    <3>2. i \in Nat
      BY <1>3
    <3> QED
      BY <3>1, <3>2, ListsAssumption
  <2> QED
    BY <2>1
<1>6. ASSUME NEW l \in Lists PROVE <<l, 1>> \in Addresses /\ Word(<<l, 1>>).op \notin Calls!Data
  BY <1>2, <1>3 DEF Addresses, Word
<1>7. ASSUME NEW a \in Addresses
      PROVE  /\ a = <<a[1], a[2]>> /\ a[1] \in Lists
             /\ a[2] \in DOMAIN mem[a[1]] /\ DOMAIN mem[a[1]] = 1 .. Len(mem[a[1]])
             /\ Len(mem[a[1]]) \in Nat
             /\ Word(a) \in [op : Calls!Ops, to : Lists \union {Null, Segmented}]
  <2> PICK l \in Lists : \E i \in DOMAIN mem[l] : a = <<l, i>>
    BY <1>4
  <2>1. PICK i \in DOMAIN mem[l] : a = <<l, i>>
    OBVIOUS
  <2> QED
    BY <2>1, <1>3 DEF Word
<1> QED
  BY <1>5, <1>6, <1>7

(* The words of a command, and of a vertex command's count.                *)
LEMMA WordsBehind ==
  ASSUME mem \in Memories, NEW a \in Addresses, Word(a).op \notin Calls!Closing \union {"data"}
  PROVE  /\ Width(Word(a).op) \in 1 .. 3
         /\ a[2] + Width(Word(a).op) \in DOMAIN mem[a[1]]
         /\ mem[a[1]][a[2] + Width(Word(a).op)].op \notin Calls!Data
         /\ \A j \in a[2] + 1 .. a[2] + Width(Word(a).op) - 1 : mem[a[1]][j].op \in Calls!Data
         /\ Width(Word(a).op) > 1 =>
              mem[a[1]][a[2] + 1].op = IF Word(a).op = "vtx" THEN "count" ELSE "data"
<1> DEFINE list == mem[a[1]]
           n == a[2]
<1>1. a[1] \in Lists /\ n \in DOMAIN list /\ DOMAIN list = 1 .. Len(list) /\ Len(list) \in Nat
      /\ Word(a) = list[n]
  BY AddressIs DEF Word
<1>2. Calls!WellFormed(mem)
  BY MemoriesAssumption
<1>3. ASSUME NEW i \in DOMAIN list, list[i].op \notin Calls!Closing \union Calls!Data
      PROVE  /\ i + Calls!Words(list[i].op) \in DOMAIN list
             /\ list[i + Calls!Words(list[i].op)].op \notin Calls!Data
             /\ \A j \in i + 1 .. i + Calls!Words(list[i].op) - 1 :
                  list[j].op = IF list[i].op = "vtx" THEN "count" ELSE "data"
  BY <1>1, <1>2, <1>3 DEF Calls!WellFormed
<1>4. \A i \in DOMAIN list : list[i].op = "count" => i > 1 /\ list[i - 1].op = "vtx"
  BY <1>1, <1>2 DEF Calls!WellFormed
<1> HIDE DEF list, n
<1>5. \A op : Width(op) = Calls!Words(op) /\ Width(op) \in 1 .. 3
  BY DEF Width, Calls!Words
<1>6. CASE Word(a).op = "count"
  <2> DEFINE i == n - 1
  <2>1. i \in DOMAIN list /\ list[i].op = "vtx" /\ n = i + 1
    BY <1>1, <1>4, <1>6
  <2> HIDE DEF i
  <2>2. Calls!Words("vtx") = 2 /\ Width("count") = 1
    BY DEF Calls!Words, Width
  <2>3. i + 2 \in DOMAIN list /\ list[i + 2].op \notin Calls!Data
    BY <1>3, <2>1, <2>2 DEF Calls!Closing, Calls!Data
  <2>4. n + 1 = i + 2 /\ n + 1 .. n + 1 - 1 = {}
    BY <1>1, <2>1
  <2>5. /\ n + Width(Word(a).op) = i + 2 /\ n + 1 .. n + Width(Word(a).op) - 1 = {}
        /\ ~(Width(Word(a).op) > 1)
    BY <1>6, <2>2, <2>4
  <2> QED
    BY <1>5, <1>6, <2>3, <2>5 DEF list, n
<1>7. CASE Word(a).op # "count"
  <2>1. list[n].op \notin Calls!Closing \union Calls!Data
    BY <1>1, <1>7 DEF Calls!Data
  <2>2. /\ n + Width(list[n].op) \in DOMAIN list
        /\ list[n + Width(list[n].op)].op \notin Calls!Data
        /\ \A j \in n + 1 .. n + Width(list[n].op) - 1 :
             list[j].op = IF list[n].op = "vtx" THEN "count" ELSE "data"
    BY <1>1, <1>3, <1>5, <2>1
  <2>3. \A j \in n + 1 .. n + Width(list[n].op) - 1 : list[j].op \in Calls!Data
    BY <2>2 DEF Calls!Data
  <2>4. ASSUME Width(list[n].op) > 1
        PROVE  list[n + 1].op = IF list[n].op = "vtx" THEN "count" ELSE "data"
    <3>1. n + 1 \in n + 1 .. n + Width(list[n].op) - 1
      BY <1>1, <1>5, <2>4
    <3> QED
      BY <2>2, <3>1
  <2> QED
    BY <1>1, <1>5, <2>2, <2>3, <2>4 DEF list, n
<1> QED
  BY <1>6, <1>7

(* The command behind one that does not end its list is where its width    *)
(* says, and is the next word that is not data.                            *)
LEMMA NextCommand ==
  ASSUME mem \in Memories, NEW a \in Addresses, Word(a).op \notin Calls!Closing \union {"data"}
  PROVE  LET b == <<a[1], a[2] + Width(Word(a).op)>>
         IN  b \in Addresses /\ Word(b).op \notin Calls!Data /\ b = Calls!Behind(mem, a)
<1> DEFINE l == a[1]
           n == a[2]
           w == Width(Word(a).op)
<1>1. /\ l \in Lists /\ n \in 1 .. Len(mem[l]) /\ DOMAIN mem[l] = 1 .. Len(mem[l])
      /\ Len(mem[l]) \in Nat
  BY AddressIs
<1>3. w \in 1 .. 3
  BY DEF Width
<1>4. /\ n + w \in DOMAIN mem[l]
      /\ mem[l][n + w].op \notin Calls!Data
      /\ \A j \in n + 1 .. n + w - 1 : mem[l][j].op \in Calls!Data
  BY WordsBehind
<1> HIDE DEF w
<1>5. <<l, n + w>> \in Addresses
  BY <1>1, <1>4 DEF Addresses
<1> DEFINE P(j) == mem[l][j].op \notin Calls!Data /\ \A i \in n + 1 .. j - 1 : mem[l][i].op \in Calls!Data
<1>7. n + w \in n + 1 .. Len(mem[l]) /\ P(n + w)
  BY <1>1, <1>3, <1>4
<1>8. ASSUME NEW j \in n + 1 .. Len(mem[l]), P(j) PROVE j = n + w
  <2>1. CASE j < n + w
    <3>1. j \in n + 1 .. n + w - 1
      BY <1>1, <1>3, <2>1
    <3> QED
      BY <1>4, <1>8, <3>1
  <2>2. CASE j > n + w
    <3>1. n + w \in n + 1 .. j - 1
      BY <1>1, <1>3, <2>2
    <3> QED
      BY <1>4, <1>8, <3>1
  <2> QED
    BY <1>1, <1>3, <2>1, <2>2
<1>9. (CHOOSE j \in n + 1 .. Len(mem[l]) : P(j)) = n + w
  <2> HIDE DEF P
  <2> QED
    BY <1>7, <1>8
<1>10. Calls!Behind(mem, a) = <<l, n + w>>
  BY <1>9 DEF Calls!Behind
<1> QED
  BY <1>4, <1>5, <1>10 DEF Word, w

(* A vertex command's count, and the word behind a command and the next.   *)
LEMMA VtxCount ==
  ASSUME mem \in Memories, NEW a \in Addresses, Word(a).op = "vtx"
  PROVE  LET c == <<a[1], a[2] + 1>>
         IN  /\ c \in Addresses /\ Word(c).op = "count"
             /\ <<c[1], c[2] + 1>> = <<a[1], a[2] + Width(Word(a).op)>>
<1>1. a[1] \in Lists /\ a[2] \in Nat /\ DOMAIN mem[a[1]] = 1 .. Len(mem[a[1]]) /\ Len(mem[a[1]]) \in Nat
      /\ a[2] >= 1
  BY AddressIs
<1>2. Width(Word(a).op) = 2
  BY DEF Width
<1>3. a[2] + 2 \in DOMAIN mem[a[1]] /\ mem[a[1]][a[2] + 1].op = "count"
  BY <1>2, WordsBehind DEF Calls!Closing
<1>4. a[2] + 1 \in DOMAIN mem[a[1]] /\ a[2] + 1 + 1 = a[2] + 2
  BY <1>1, <1>3
<1> QED
  BY <1>1, <1>2, <1>3, <1>4 DEF Addresses, Word

LEMMA AddressAt ==
  ASSUME NEW l \in Lists, NEW i \in DOMAIN mem[l]
  PROVE  <<l, i>> \in Addresses
BY DEF Addresses

(* Where calls and branches may go.                                        *)
LEMMA Targets ==
  ASSUME mem \in Memories, segment \in Movable, NEW a \in Addresses
  PROVE  /\ SegAddr(Word(a).to) # Null => SegAddr(Word(a).to) \in Lists
         /\ SegAddr(Word(a).to) \in IF Word(a).to = Segmented THEN Movable ELSE {Word(a).to}
         /\ Word(a).op = "branch" => SegAddr(Word(a).to) # Null
         /\ Word(a).op = "branchZ" /\ Word(a).to # Null => SegAddr(Word(a).to) # Null
         /\ Word(a).op = "segment" => Word(a).to \in Movable
<1>1. Word(a).to \in Lists \union {Null, Segmented} /\ a[1] \in Lists /\ a[2] \in DOMAIN mem[a[1]]
  BY AddressIs
<1>2. /\ Word(a).op = "branch" => Word(a).to # Null
      /\ Word(a).op \notin {"call", "branch"} => Word(a).to # Segmented
      /\ Word(a).op = "segment" => Word(a).to \in Movable
  <2>1. Calls!WellFormed(mem)
    BY MemoriesAssumption
  <2> QED
    BY <1>1, <2>1 DEF Calls!WellFormed, Word
<1> QED
  BY <1>1, <1>2, ListsAssumption DEF SegAddr

------------------------------------------------------------------------------
LEMMA Parts == IInv <=> Stacks /\ Others /\ (state = "running" => Alive)
BY DEF IInv, TypeOK, Stacks, Others, Alive, Marks

LEMMA NextParts == Stacks' /\ Others' /\ (state' = "running" => Alive') => IInv'
BY DEF IInv, TypeOK, Stacks, Others, Alive, Marks

LEMMA InitKeeps == Init => IInv
<1> SUFFICES ASSUME Init PROVE IInv
  OBVIOUS
<1> USE DEF Init
<1>1. Stacks
  BY EmptySeq DEF Stacks, PathLeadsHere, FromRoot
<1>2. Others
  BY EmptySeq DEF Others
<1> QED
  BY <1>1, <1>2, Parts

LEMMA SameLists ==
  ASSUME mem' = mem
  PROVE  /\ Addresses' = Addresses /\ Marks' = Marks
         /\ \A a : Word(a)' = Word(a)
BY DEF Addresses, Marks, Word

LEMMA SameMachine ==
  ASSUME Stacks, UNCHANGED machine
  PROVE  Stacks' /\ Addresses' = Addresses /\ (Alive <=> Alive')
<1> USE DEF machine
<1>1. Addresses' = Addresses /\ Marks' = Marks
  BY SameLists
<1>2. PathLeadsHere' /\ FromRoot'
  BY DEF Stacks, PathLeadsHere, FromRoot, Cmd, Word
<1>3. \A k \in DOMAIN stack' : stack'[k] # Null => Word(stack[k])'.op # "data"
  BY DEF Stacks, Word
<1> QED
  BY <1>1, <1>2, <1>3 DEF Stacks, Alive, Cmd

(* The debugger and its window leave the stacks alone, and show addresses. *)
LEMMA DebuggerKeeps ==
  ASSUME IInv,
         \/ DebugDisplayList \/ ResumeGame \/ DrawRoot \/ DrawNext \/ DrawSub
         \/ SetBreakPoint \/ Break \/ UNCHANGED vars
  PROVE  IInv'
<1>1. Stacks /\ Others /\ (state = "running" => Alive)
  BY Parts
<1>2. UNCHANGED machine
  BY DEF DebugDisplayList, ResumeGame, DrawRoot, DrawNext, DrawSub, Draw, SetBreakPoint, Break, vars
<1>3. Stacks' /\ Addresses' = Addresses /\ (Alive <=> Alive')
  BY <1>1, <1>2, SameMachine
<1>4. mem' \in Memories /\ segment' \in Movable /\ mem' = mem
  BY <1>1, <1>2 DEF Others, machine
<1>5. <<Root, 1>> \in Addresses
  BY <1>1, AddressIs, ListsAssumption DEF Others
<1>6. <<<<Root, 1>>>> \in Seq(Addresses) /\ <<>> \in Seq(Addresses)
  BY <1>5
<1>7. CASE DebugDisplayList
  BY <1>1, <1>3, <1>4, <1>6, <1>7, NextParts DEF DebugDisplayList, Others
<1>8. CASE ResumeGame
  BY <1>1, <1>3, <1>4, <1>6, <1>8, NextParts DEF ResumeGame, Others
<1>9. CASE DrawRoot
  BY <1>1, <1>3, <1>4, <1>6, <1>9, NextParts DEF DrawRoot, Draw, Others
<1>10. ASSUME shown # <<>> PROVE Node \in Addresses /\ Front(shown) \in Seq(Addresses)
  <2>1. shown \in Seq(Addresses) /\ Len(shown) \in Nat \ {0}
    BY <1>1, <1>10, EmptySeq DEF Others
  <2>2. shown[Len(shown)] \in Addresses
    BY <2>1, ElementOfSeq
  <2>3. SubSeq(shown, 1, Len(shown) - 1) \in Seq(Addresses)
    BY <2>1, Prefixed
  <2> QED
    BY <2>2, <2>3 DEF Node, Last, Front
<1>11. CASE DrawNext
  <2>1. Node \in Addresses /\ Front(shown) \in Seq(Addresses)
    BY <1>10, <1>11 DEF DrawNext, Drawing
  <2>2. PICK w \in ShownWidths(Word(Node).op) :
             /\ Node[2] + w \in DOMAIN mem[Node[1]]
             /\ Draw(Append(Front(shown), <<Node[1], Node[2] + w>>))
    BY <1>11 DEF DrawNext
  <2>4. <<Node[1], Node[2] + w>> \in Addresses
    BY <1>1, <2>1, <2>2, AddressIs, AddressAt DEF Others
  <2>3. shown' \in Seq(Addresses)
    BY <2>1, <2>2, <2>4, AppendProperties DEF Draw
  <2> QED
    BY <1>1, <1>3, <1>4, <1>11, <2>3, NextParts DEF DrawNext, Draw, Others
<1>12. CASE DrawSub
  <2>1. Node \in Addresses /\ SegAddr(Word(Node).to) # Null
    BY <1>10, <1>12 DEF DrawSub, Drawing
  <2>2. SegAddr(Word(Node).to) \in Lists
    BY <1>1, <2>1, Targets DEF Others
  <2>3. <<SegAddr(Word(Node).to), 1>> \in Addresses
    BY <1>1, <2>2, AddressIs DEF Others
  <2>4. shown' \in Seq(Addresses)
    BY <1>1, <1>12, <2>3, AppendProperties DEF DrawSub, Draw, Others
  <2> QED
    BY <1>1, <1>3, <1>4, <1>12, <2>4, NextParts DEF DrawSub, Draw, Others
<1>13. CASE SetBreakPoint
  BY <1>1, <1>3, <1>4, <1>6, <1>13, NextParts DEF SetBreakPoint, Others
<1>14. CASE Break
  BY <1>1, <1>3, <1>4, <1>14, NextParts DEF Break, debugger, Others
<1>15. CASE UNCHANGED vars
  BY <1>1, <1>3, <1>4, <1>15, NextParts DEF vars, debugger, Others
<1> QED
  BY <1>7, <1>8, <1>9, <1>11, <1>12, <1>13, <1>14, <1>15

LEMMA RunKeeps == IInv /\ Run => IInv'
<1> SUFFICES ASSUME IInv, Run PROVE IInv'
  OBVIOUS
<1>1. Others /\ mem' = mem /\ segment' = segment /\ UNCHANGED debugger
  BY Parts DEF Run
<1>2. Addresses' = Addresses /\ Marks' = Marks /\ \A a : Word(a)' = Word(a)
  BY <1>1, SameLists
<1>3. <<Root, 1>> \in Addresses /\ Word(<<Root, 1>>).op # "data" /\ Null \notin Addresses
  BY <1>1, AddressIs, ListsAssumption DEF Others, Calls!Data
<1>4. stack' = <<<<Root, 1>>>> /\ path' = <<>> /\ state' = "running" /\ averted' = FALSE
  BY DEF Run
<1>5. Len(stack') = 1 /\ DOMAIN stack' = {1} /\ stack'[1] = <<Root, 1>> /\ Cmd' = <<Root, 1>>
      /\ stack' # <<>>
  BY <1>4 DEF Cmd
<1>6. stack' \in Seq(Marks)' /\ path' \in Seq(Addresses)'
  BY <1>2, <1>3, <1>4 DEF Marks
<1>7. PathLeadsHere' /\ FromRoot'
  <2>1. Len(path') = 0 /\ DOMAIN path' = {}
    BY <1>4
  <2> QED
    BY <1>4, <1>5, <2>1 DEF PathLeadsHere, FromRoot
<1>8. \A k \in DOMAIN stack' : mem'[stack'[k][1]][stack'[k][2]].op # "data"
  BY <1>1, <1>3, <1>5 DEF Word
<1>9. Stacks'
  BY <1>6, <1>7, <1>8 DEF Stacks, Word
<1>10. Others'
  BY <1>1, <1>2, <1>4 DEF Others, debugger
<1>11. Alive'
  BY <1>3, <1>5 DEF Alive
<1> QED
  BY <1>9, <1>10, <1>11, NextParts

------------------------------------------------------------------------------
(* One element of the path, and the invariant in its terms.                *)
Link(m, s, p, c, k) ==
  LET by == m[p[k][1]][p[k][2]]
      to == IF k = Len(p) THEN c[1] ELSE p[k + 1][1]
  IN  /\ to \in IF by.to = Segmented THEN Movable ELSE {by.to}
      /\ IF s[k] = Null THEN by.op \in {"branch", "branchZ"}
         ELSE by.op \in Calls!Calling /\ s[k] = Calls!Behind(m, p[k])

LEMMA PathIs ==
  ASSUME PathLeadsHere, stack # <<>>
  PROVE  /\ Len(path) = Len(stack) - 1
         /\ path # <<>> => path[1][1] = Root
         /\ \A k \in DOMAIN path : Link(mem, stack, path, Cmd, k)
BY DEF PathLeadsHere, Link, Word

LEMMA NextPathIs ==
  ASSUME Len(path') = Len(stack') - 1,
         path' # <<>> => path'[1][1] = Root,
         \A k \in DOMAIN path' : Link(mem', stack', path', Cmd', k)
  PROVE  PathLeadsHere'
<1> SUFFICES ASSUME NEW k \in DOMAIN path'
             PROVE  LET by == Word(path[k])'
                        to == IF k = Len(path') THEN Cmd'[1] ELSE path'[k + 1][1]
                    IN  /\ to \in IF by.to = Segmented THEN Movable ELSE {by.to}
                        /\ IF stack'[k] = Null THEN by.op \in {"branch", "branchZ"}
                           ELSE by.op \in Calls!Calling /\ stack'[k] = Calls!Behind(mem', path'[k])
  BY DEF PathLeadsHere
<1> QED
  BY DEF Link, Word

(* Where a step begins.                                                    *)
LEMMA AtCommand ==
  ASSUME Stacks, Alive, mem \in Memories
  PROVE  /\ Len(stack) \in Nat \ {0} /\ DOMAIN stack = 1 .. Len(stack)
         /\ \A k \in DOMAIN stack : stack[k] \in Marks
         /\ DOMAIN path = 1 .. Len(stack) - 1 /\ Len(path) = Len(stack) - 1
         /\ \A k \in DOMAIN path : path[k] \in Addresses
         /\ Cmd = stack[Len(stack)] /\ Cmd \in Addresses /\ Word(Cmd).op # "data"
         /\ Null \notin Addresses
         /\ stack # <<>> /\ (path # <<>> => path[1][1] = Root)
         /\ \A k \in DOMAIN path : Link(mem, stack, path, Cmd, k)
<1>1. stack \in Seq(Marks) /\ stack # <<>> /\ path \in Seq(Addresses)
  BY DEF Stacks, Alive
<1>2. Len(stack) \in Nat \ {0} /\ DOMAIN stack = 1 .. Len(stack) /\ \A k \in DOMAIN stack : stack[k] \in Marks
  BY <1>1, EmptySeq, LenProperties, ElementOfSeq
<1>3. Len(path) = Len(stack) - 1
  BY <1>1 DEF Stacks, PathLeadsHere
<1>4. DOMAIN path = 1 .. Len(path) /\ \A k \in DOMAIN path : path[k] \in Addresses
  BY <1>1, LenProperties, ElementOfSeq
<1>5. Cmd = stack[Len(stack)] /\ Cmd # Null /\ Len(stack) \in DOMAIN stack
  BY <1>2 DEF Cmd, Alive
<1>6. Cmd \in Addresses /\ Word(Cmd).op # "data"
  BY <1>2, <1>5 DEF Stacks, Marks
<1>7. /\ path # <<>> => path[1][1] = Root
      /\ \A k \in DOMAIN path : Link(mem, stack, path, Cmd, k)
  BY <1>1, PathIs DEF Stacks
<1> QED
  BY <1>1, <1>2, <1>3, <1>4, <1>5, <1>6, <1>7, AddressIs

(* Steps inside a list.                                                    *)
LEMMA MoveKeeps ==
  ASSUME Stacks, Alive, mem \in Memories, mem' = mem,
         NEW next \in Addresses, Word(next).op # "data", next[1] = Cmd[1],
         stack' = Append(Rest, next), path' = path
  PROVE  Stacks' /\ Alive'
<1>1. Addresses' = Addresses /\ Marks' = Marks
  BY SameLists
<1> DEFINE n == Len(stack)
<1>2. /\ n \in Nat \ {0} /\ DOMAIN path = 1 .. n - 1 /\ Len(path) = n - 1
      /\ Cmd = stack[n] /\ Cmd \in Addresses /\ Word(Cmd).op # "data" /\ Null \notin Addresses
  BY AtCommand
<1>3. mem[next[1]][next[2]].op # "data" /\ next \in Marks
  BY DEF Word, Marks
<1>4. /\ stack' \in Seq(Marks) /\ Len(stack') = n /\ DOMAIN stack' = 1 .. n
      /\ stack'[n] = next /\ \A i \in 1 .. n - 1 : stack'[i] = stack[i]
  <2>1. stack \in Seq(Marks) /\ stack # <<>>
    BY DEF Stacks, Alive
  <2> QED
    BY <1>3, <2>1, ReplacedByOne DEF Rest
<1>5. stack' # <<>> /\ Cmd' = next
  BY <1>2, <1>4 DEF Cmd
<1>6. ASSUME NEW k \in DOMAIN stack', stack'[k] # Null
      PROVE  mem[stack'[k][1]][stack'[k][2]].op # "data"
  <2>1. CASE k = n
    BY <1>3, <1>4, <2>1
  <2>2. CASE k # n
    <3>1. k \in 1 .. n - 1 /\ k \in DOMAIN stack /\ stack[k] # Null /\ stack'[k] = stack[k]
      BY <1>2, <1>4, <1>6, <2>2, AtCommand
    <3> QED
      BY <3>1 DEF Stacks, Word
  <2> QED
    BY <2>1, <2>2
<1>7. PathLeadsHere'
  <2>1. ASSUME NEW k \in DOMAIN path PROVE Link(mem, stack', path, next, k)
    <3>1. stack'[k] = stack[k]
      BY <1>2, <1>4
    <3>2. Link(mem, stack, path, Cmd, k)
      BY AtCommand
    <3> QED
      BY <1>3, <3>1, <3>2 DEF Link
  <2> QED
    BY <1>2, <1>4, <1>5, <2>1, NextPathIs, AtCommand
<1>8. FromRoot'
  BY <1>3, <1>5 DEF FromRoot, Stacks, Alive
<1>9. path' \in Seq(Addresses)'
  BY <1>1 DEF Stacks
<1> QED
  BY <1>1, <1>2, <1>3, <1>4, <1>5, <1>6, <1>7, <1>8, <1>9 DEF Stacks, Alive, Word

(* The command behind is a command, in the same list.                      *)
LEMMA BehindIs ==
  ASSUME mem \in Memories, Cmd \in Addresses, Word(Cmd).op \notin Calls!Closing \union {"data"}
  PROVE  /\ Behind \in Addresses /\ Word(Behind).op \notin Calls!Data /\ Word(Behind).op # "data"
         /\ Behind[1] = Cmd[1] /\ Behind = Calls!Behind(mem, Cmd)
BY NextCommand DEF Behind, Calls!Data

(* A call leaves what it returns to, a branch a mark.                      *)
LEMMA EnterKeeps ==
  ASSUME Stacks, Alive, mem \in Memories, segment \in Movable, mem' = mem,
         NEW sub, NEW left, sub = SegAddr(Word(Cmd).to), sub # Null,
         \/ Word(Cmd).op \in Calls!Calling /\ left = Behind
         \/ Word(Cmd).op \in {"branch", "branchZ"} /\ left = Null,
         stack' = Rest \o <<left, <<sub, 1>>>>, path' = Append(path, Cmd)
  PROVE  Stacks' /\ Alive'
<1>1. Addresses' = Addresses /\ Marks' = Marks
  BY SameLists
<1> DEFINE n == Len(stack)
           start == <<sub, 1>>
<1>2. /\ n \in Nat \ {0} /\ DOMAIN path = 1 .. n - 1 /\ Len(path) = n - 1 /\ DOMAIN stack = 1 .. n
      /\ Cmd = stack[n] /\ Cmd \in Addresses /\ Word(Cmd).op # "data" /\ Null \notin Addresses
  BY AtCommand
<1>3. /\ sub \in Lists
      /\ sub \in IF Word(Cmd).to = Segmented THEN Movable ELSE {Word(Cmd).to}
  BY <1>2, Targets
<1>4. start \in Addresses /\ start \in Marks /\ mem[start[1]][start[2]].op # "data"
  BY <1>3, AddressIs DEF Word, Marks, Calls!Data
<1>5. /\ left \in Marks
      /\ left # Null => mem[left[1]][left[2]].op # "data"
      /\ IF left = Null THEN Word(Cmd).op \in {"branch", "branchZ"}
         ELSE Word(Cmd).op \in Calls!Calling /\ left = Calls!Behind(mem, Cmd)
  <2>1. CASE Word(Cmd).op \in Calls!Calling /\ left = Behind
    <3>1. Word(Cmd).op \notin Calls!Closing \union {"data"}
      BY <2>1 DEF Calls!Calling, Calls!Closing
    <3>2. Behind \in Addresses /\ Word(Behind).op # "data" /\ Behind = Calls!Behind(mem, Cmd)
      BY <1>2, <3>1, BehindIs
    <3> QED
      BY <1>2, <2>1, <3>2 DEF Marks, Word
  <2>2. CASE Word(Cmd).op \in {"branch", "branchZ"} /\ left = Null
    BY <2>2 DEF Marks
  <2> QED
    BY <2>1, <2>2
<1>6. /\ stack' \in Seq(Marks) /\ Len(stack') = n + 1 /\ DOMAIN stack' = 1 .. n + 1
      /\ stack'[n] = left /\ stack'[n + 1] = start /\ \A i \in 1 .. n - 1 : stack'[i] = stack[i]
  <2>1. stack \in Seq(Marks) /\ stack # <<>>
    BY DEF Stacks, Alive
  <2> DEFINE v == <<left, start>>
  <2>2. stack' = SubSeq(stack, 1, Len(stack) - 1) \o v
    BY DEF Rest
  <2>3. v \in Seq(Marks) /\ Len(v) = 2 /\ v[1] = left /\ v[2] = start
    BY <1>4, <1>5
  <2> HIDE DEF start, v
  <2> DEFINE t == SubSeq(stack, 1, Len(stack) - 1) \o v
  <2>4. /\ t \in Seq(Marks) /\ Len(t) = n + 1 /\ DOMAIN t = 1 .. n + 1
        /\ t[n] = v[1] /\ t[n + 1] = v[2]
        /\ \A i \in 1 .. n - 1 : t[i] = stack[i]
    BY <2>1, <2>3, ReplacedByTwo
  <2>5. stack' = t
    BY <2>2
  <2> HIDE DEF t
  <2> QED
    BY <2>3, <2>4, <2>5
<1>7. /\ path' \in Seq(Addresses) /\ Len(path') = n /\ DOMAIN path' = 1 .. n
      /\ path' # <<>> /\ path'[n] = Cmd /\ \A i \in 1 .. n - 1 : path'[i] = path[i]
  <2>1. path \in Seq(Addresses)
    BY DEF Stacks
  <2> QED
    BY <1>2, <2>1, Extended
<1>8. stack' # <<>> /\ Cmd' = start
  BY <1>2, <1>6 DEF Cmd
<1> HIDE DEF start
<1>9. ASSUME NEW k \in DOMAIN stack', stack'[k] # Null
      PROVE  mem[stack'[k][1]][stack'[k][2]].op # "data"
  <2>1. CASE k \in {n, n + 1}
    BY <1>4, <1>5, <1>6, <1>9, <2>1
  <2>2. CASE k \notin {n, n + 1}
    <3>2. k \in 1 .. n + 1
      BY <1>6
    <3>3. k \in 1 .. n - 1 /\ k \in 1 .. n
      BY <1>2, <2>2, <3>2
    <3>1. k \in 1 .. n - 1 /\ k \in DOMAIN stack /\ stack[k] # Null /\ stack'[k] = stack[k]
      BY <1>2, <1>6, <1>9, <3>3
    <3> QED
      BY <3>1 DEF Stacks, Word
  <2> QED
    BY <2>1, <2>2
<1>10. path'[1][1] = Root
  <2>1. CASE n = 1
    BY <1>2, <1>7, <2>1 DEF Stacks, FromRoot, Alive
  <2>2. CASE n # 1
    <3>1. path # <<>> /\ 1 \in 1 .. n - 1
      BY <1>2, <2>2
    <3> QED
      BY <1>7, <3>1, AtCommand
  <2> QED
    BY <2>1, <2>2
<1>11. ASSUME NEW k \in DOMAIN path' PROVE Link(mem, stack', path', start, k)
  <2>1. CASE k = n
    <3>1. start[1] = sub
      BY DEF start
    <3> QED
      BY <1>3, <1>5, <1>6, <1>7, <2>1, <3>1 DEF Link, Word
  <2>2. CASE k # n
    <3>1. k \in 1 .. n
      BY <1>7
    <3>2. k \in 1 .. n - 1
      BY <1>2, <2>2, <3>1
    <3>3. k \in DOMAIN path /\ stack'[k] = stack[k] /\ path'[k] = path[k] /\ k # Len(path')
      BY <1>2, <1>6, <1>7, <2>2, <3>2
    <3>4. path'[k + 1][1] = IF k = Len(path) THEN Cmd[1] ELSE path[k + 1][1]
      <4>1. CASE k = n - 1
        BY <1>2, <1>7, <4>1
      <4>2. CASE k # n - 1
        <5>1. k + 1 \in 1 .. n - 1
          BY <1>2, <3>2, <4>2
        <5> QED
          BY <1>2, <1>7, <4>2, <5>1
      <4> QED
        BY <4>1, <4>2
    <3>5. Link(mem, stack, path, Cmd, k)
      BY <3>3, AtCommand
    <3> QED
      BY <3>3, <3>4, <3>5 DEF Link
  <2> QED
    BY <2>1, <2>2
<1>12. PathLeadsHere' /\ FromRoot'
  <2>1. Len(path') = Len(stack') - 1
    BY <1>2, <1>6, <1>7
  <2>2. \A k \in DOMAIN path' : Link(mem', stack', path', Cmd', k)
    BY <1>8, <1>11
  <2>3. PathLeadsHere'
    BY <1>10, <2>1, <2>2, NextPathIs
  <2>4. FromRoot'
    BY <1>7 DEF FromRoot
  <2> QED
    BY <2>3, <2>4
<1> QED
  BY <1>1, <1>2, <1>4, <1>6, <1>7, <1>8, <1>9, <1>12 DEF Stacks, Alive, Word

------------------------------------------------------------------------------
(* The slot a return keeps is one that was called from, if there is one.   *)
LEMMA KeptIs ==
  ASSUME Stacks, Alive, mem \in Memories
  PROVE  /\ Kept \in 0 .. Len(stack) - 1 /\ (Kept > 0 => stack[Kept] # Null)
         /\ \A j \in Kept + 1 .. Len(stack) - 1 : stack[j] = Null
<1> DEFINE n == Len(stack)
<1>1. n \in Nat \ {0} /\ DOMAIN stack = 1 .. n /\ stack \in Seq(Marks)
  BY AtCommand DEF Stacks
<1>2. Len(Rest) = n - 1 /\ \A k \in 1 .. n - 1 : Rest[k] = stack[k]
  BY <1>1, Prefixed DEF Rest
<1> DEFINE P(k) == /\ k > 0 => Rest[k] # Null
                   /\ \A j \in k + 1 .. Len(Rest) : Rest[j] = Null
           T == {k \in 0 .. n - 1 : k > 0 => Rest[k] # Null}
<1>3. \E k \in 0 .. Len(Rest) : P(k)
  <2>1. n - 1 \in Nat /\ T \in SUBSET (0 .. n - 1) /\ T # {}
    <3>1. 0 \in T
      BY <1>1
    <3> QED
      BY <1>1, <3>1
  <2> HIDE DEF T
  <2>2. PICK k \in T : \A j \in T : j <= k
    BY <2>1, Largest
  <2>3. k \in 0 .. n - 1 /\ (k > 0 => Rest[k] # Null)
    BY DEF T
  <2>4. ASSUME NEW j \in k + 1 .. n - 1 PROVE Rest[j] = Null
    <3>1. j \in 0 .. n - 1 /\ ~(j <= k)
      BY <1>1, <2>3
    <3>2. j \notin T
      BY <2>2, <3>1
    <3> QED
      BY <3>1, <3>2 DEF T
  <2> QED
    BY <1>2, <2>3, <2>4
<1>4. Kept = CHOOSE k \in 0 .. Len(Rest) : P(k)
  BY DEF Kept
<1>5. Kept \in 0 .. Len(Rest) /\ P(Kept)
  <2> HIDE DEF P
  <2> QED
    BY <1>3, <1>4
<1>6. Kept > 0 => Kept \in 1 .. n - 1
  BY <1>1, <1>2, <1>5
<1>7. \A j \in Kept + 1 .. n - 1 : stack[j] = Null
  <2> HIDE DEF n
  <2> SUFFICES ASSUME NEW j \in Kept + 1 .. n - 1 PROVE stack[j] = Null
    OBVIOUS
  <2>1. j \in 1 .. n - 1 /\ j \in Kept + 1 .. Len(Rest)
    BY <1>1, <1>2, <1>5
  <2> QED
    BY <1>2, <1>5, <2>1
<1> QED
  BY <1>2, <1>5, <1>6, <1>7

(* The caller goes on in its own list, which the path entered before it    *)
(* entered the one that ends.                                              *)
LEMMA ReturnKeeps ==
  ASSUME Stacks, Alive, mem \in Memories, mem' = mem,
         stack' = SubSeq(stack, 1, Kept), path' = SubSeq(path, 1, Kept - 1)
  PROVE  Stacks' /\ (Kept # 0 => Alive')
<1>1. Addresses' = Addresses /\ Marks' = Marks
  BY SameLists
<1> DEFINE n == Len(stack)
           k == Kept
<1>2. /\ n \in Nat \ {0} /\ DOMAIN stack = 1 .. n /\ DOMAIN path = 1 .. n - 1 /\ Len(path) = n - 1
      /\ stack \in Seq(Marks) /\ path \in Seq(Addresses)
  BY AtCommand DEF Stacks
<1>3. k \in 0 .. n - 1 /\ (k > 0 => stack[k] # Null)
  BY KeptIs
<1> HIDE DEF k
<1>4. /\ stack' \in Seq(Marks) /\ DOMAIN stack' = 1 .. k
      /\ Len(stack') = (IF k > 0 THEN k ELSE 0) /\ (stack' = <<>> <=> k <= 0)
      /\ \A i \in 1 .. k : stack'[i] = stack[i]
  <2> DEFINE t == SubSeq(stack, 1, k)
  <2>1. stack' = t
    BY DEF k
  <2>2. k \in Int /\ k <= Len(stack)
    BY <1>2, <1>3
  <2>3. /\ t \in Seq(Marks) /\ DOMAIN t = 1 .. k
        /\ Len(t) = (IF k > 0 THEN k ELSE 0) /\ (t = <<>> <=> k <= 0)
        /\ \A i \in 1 .. k : t[i] = stack[i]
    BY <1>2, <2>2, Prefixed
  <2> HIDE DEF t
  <2> QED
    BY <2>1, <2>3
<1>5. /\ path' \in Seq(Addresses) /\ DOMAIN path' = 1 .. k - 1
      /\ Len(path') = (IF k - 1 > 0 THEN k - 1 ELSE 0) /\ (path' = <<>> <=> k - 1 <= 0)
      /\ \A i \in 1 .. k - 1 : path'[i] = path[i]
  <2> DEFINE t == SubSeq(path, 1, k - 1)
  <2>1. path' = t
    BY DEF k
  <2>2. k - 1 \in Int /\ k - 1 <= Len(path)
    BY <1>2, <1>3
  <2>3. /\ t \in Seq(Addresses) /\ DOMAIN t = 1 .. k - 1
        /\ Len(t) = (IF k - 1 > 0 THEN k - 1 ELSE 0) /\ (t = <<>> <=> k - 1 <= 0)
        /\ \A i \in 1 .. k - 1 : t[i] = path[i]
    BY <1>2, <2>2, Prefixed
  <2> HIDE DEF t
  <2> QED
    BY <2>1, <2>3
<1>6. ASSUME NEW i \in DOMAIN stack', stack'[i] # Null
      PROVE  mem[stack'[i][1]][stack'[i][2]].op # "data"
  <2>1. i \in DOMAIN stack /\ stack'[i] = stack[i]
    BY <1>2, <1>3, <1>4
  <2> QED
    BY <1>6, <2>1 DEF Stacks, Word
<1>7. CASE k = 0
  <2>1. stack' = <<>>
    BY <1>4, <1>7
  <2> QED
    BY <1>1, <1>4, <1>5, <1>6, <1>7, <2>1 DEF Stacks, PathLeadsHere, FromRoot, Word, k
<1>8. CASE k # 0
  <2>1. k \in 1 .. n - 1 /\ k \in DOMAIN path /\ stack[k] # Null
    BY <1>2, <1>3, <1>8
  <2>2. Link(mem, stack, path, Cmd, k)
    BY <2>1, AtCommand
  <2>3. stack[k] = Calls!Behind(mem, path[k])
    BY <2>1, <2>2 DEF Link
  <2>4. stack[k][1] = path[k][1]
    BY <2>3 DEF Calls!Behind
  <2>5. Len(stack') = k /\ stack' # <<>> /\ Cmd' = stack[k]
    BY <1>3, <1>4, <2>1 DEF Cmd
  <2>6. Len(path') = Len(stack') - 1
    <3>1. Len(path') = k - 1
      <4>1. CASE k - 1 > 0
        BY <1>5, <4>1
      <4>2. CASE ~(k - 1 > 0)
        <5>1. k = 1
          BY <1>2, <2>1, <4>2
        <5>2. Len(path') = 0 /\ k - 1 = 0
          BY <1>5, <4>2, <5>1
        <5> QED
          BY <5>1, <5>2, Zenon
      <4> QED
        BY <4>1, <4>2
    <3> QED
      BY <2>5, <3>1
  <2>7. path' # <<>> => path'[1][1] = Root
    <3>1. ASSUME path' # <<>> PROVE path'[1][1] = Root
      <4>1. 1 \in 1 .. k - 1
        BY <1>3, <1>5, <3>1
      <4>2. path'[1] = path[1] /\ 1 \in DOMAIN path
        BY <1>2, <1>3, <1>5, <4>1
      <4>3. path # <<>>
        BY <4>2
      <4> QED
        BY <4>2, <4>3, AtCommand
    <3> QED
      BY <3>1
  <2>8. ASSUME NEW j \in DOMAIN path' PROVE Link(mem, stack', path', stack[k], j)
    <3>1. j \in 1 .. k - 1 /\ j \in 1 .. k /\ j \in DOMAIN path /\ j # Len(path)
      BY <1>2, <1>3, <1>5, <2>1
    <3>2. stack'[j] = stack[j] /\ path'[j] = path[j]
      BY <1>4, <1>5, <3>1
    <3>3. (IF j = Len(path') THEN stack[k][1] ELSE path'[j + 1][1]) = path[j + 1][1]
      <4>1. CASE j = k - 1
        <5>1. j = Len(path') /\ j + 1 = k
          BY <1>2, <1>5, <2>1, <3>1, <4>1
        <5> QED
          BY <2>4, <5>1
      <4>2. CASE j # k - 1
        <5>1. j # Len(path') /\ j + 1 \in 1 .. k - 1
          BY <1>3, <1>5, <3>1, <4>2
        <5> QED
          BY <1>5, <5>1
      <4> QED
        BY <4>1, <4>2
    <3>4. Link(mem, stack, path, Cmd, j)
      BY <3>1, AtCommand
    <3> QED
      BY <3>1, <3>2, <3>3, <3>4 DEF Link
  <2>9. PathLeadsHere'
    BY <2>5, <2>6, <2>7, <2>8, NextPathIs
  <2>10. FromRoot'
    <3>1. ASSUME path' = <<>> PROVE Cmd'[1] = Root
      <4>1. k = 1
        BY <1>5, <2>1, <3>1
      <4>2. path # <<>>
        BY <2>1
      <4> QED
        BY <2>4, <2>5, <4>1, <4>2, AtCommand
    <3> QED
      BY <3>1 DEF FromRoot
  <2> QED
    BY <1>1, <1>4, <1>5, <1>6, <2>1, <2>5, <2>9, <2>10 DEF Stacks, Alive, Word
<1> QED
  BY <1>7, <1>8

(* A step of the interpreter takes one of the three ways.                  *)
LEMMA StepKeeps == IInv /\ Step => IInv'
<1> SUFFICES ASSUME IInv, Step PROVE IInv'
  OBVIOUS
<1>1. Stacks /\ Others /\ (state = "running" => Alive)
  BY Parts
<1>2. state = "running" /\ mem' = mem /\ UNCHANGED debugger
  BY DEF Step, Skip, GuardVtx, MissTexture, SetSegment, CallDl, BranchDl, BranchZ, EndDl,
         Stepping, StepOver, Enter
<1>3. Alive /\ mem \in Memories /\ segment \in Movable /\ Cmd \in Addresses /\ Word(Cmd).op # "data"
  BY <1>1, <1>2, AtCommand DEF Others
<1>4. Addresses' = Addresses
  BY <1>2, SameLists
<1>5. ASSUME segment' \in Movable, averted' \in BOOLEAN, state' \in {"running", "finished", "lost"}
      PROVE  Others'
  BY <1>1, <1>2, <1>4, <1>5 DEF Others, debugger
<1>6. averted' \in BOOLEAN
  <2>1. ASSUME NEW into, Enter(into) PROVE averted' \in BOOLEAN
    BY <1>1, <2>1 DEF Enter, Averted, Others
  <2>2. GuardVtx \/ MissTexture => averted' \in BOOLEAN
    BY <1>1 DEF GuardVtx, MissTexture, Others
  <2> QED
    BY <2>1, <2>2 DEF Step, Skip, SetSegment, CallDl, BranchDl, BranchZ, EndDl, StepOver
<1>7. ASSUME StepOver, Word(Cmd).op \notin Calls!Closing, segment' \in Movable PROVE IInv'
  <2>1. Behind \in Addresses /\ Word(Behind).op # "data" /\ Behind[1] = Cmd[1]
    BY <1>3, <1>7, BehindIs
  <2>2. Stacks' /\ Alive' /\ state' = "running"
    BY <1>1, <1>2, <1>3, <1>7, <2>1, MoveKeeps DEF StepOver
  <2> QED
    BY <1>5, <1>6, <1>7, <2>2, NextParts
<1>8. CASE Skip
  BY <1>3, <1>7, <1>8 DEF Skip, Stepping, Calls!Simple, Calls!Textures, Calls!Closing
<1>15. CASE GuardVtx
  <2> DEFINE next == <<Cmd[1], Cmd[2] + 1>>
  <2>1. Word(Cmd).op = "vtx" /\ stack' = Append(Rest, next)
        /\ path' = path /\ segment' = segment /\ state' = state
    BY <1>15 DEF GuardVtx, Stepping
  <2>2. next \in Addresses /\ Word(next).op # "data" /\ next[1] = Cmd[1]
    BY <1>3, <2>1, VtxCount
  <2> HIDE DEF next
  <2>3. Stacks' /\ Alive'
    BY <1>1, <1>2, <1>3, <2>1, <2>2, MoveKeeps
  <2> QED
    BY <1>2, <1>3, <1>5, <1>6, <2>1, <2>3, NextParts
<1>16. CASE MissTexture
  <2> DEFINE next == <<Cmd[1], Behind[2] + 1>>
             found == next[2] \in DOMAIN mem[next[1]] /\ Word(next).op # "data"
  <2>1. path' = path /\ segment' = segment
    BY <1>16 DEF MissTexture
  <2>2. CASE found
    <3>1. stack' = Append(Rest, next) /\ state' = state
      BY <1>16, <2>2 DEF MissTexture
    <3>2. Cmd[1] \in Lists
      BY <1>3, AddressIs
    <3>3. next \in Addresses /\ Word(next).op # "data" /\ next[1] = Cmd[1]
      BY <2>2, <3>2, AddressAt
    <3> HIDE DEF next
    <3>4. Stacks' /\ Alive'
      BY <1>1, <1>2, <1>3, <2>1, <3>1, <3>3, MoveKeeps
    <3> QED
      BY <1>2, <1>3, <1>5, <1>6, <2>1, <3>1, <3>4, NextParts
  <2>3. CASE ~found
    <3>1. state' = "lost" /\ stack' = stack
      BY <1>16, <2>3 DEF MissTexture
    <3>2. Stacks'
      BY <1>1, <1>2, <2>1, <3>1, SameMachine DEF machine
    <3> QED
      BY <1>3, <1>5, <1>6, <2>1, <3>1, <3>2, NextParts
  <2> QED
    BY <2>2, <2>3
<1>9. CASE SetSegment
  <2>1. Word(Cmd).to \in Movable /\ Word(Cmd).op \notin Calls!Closing
    BY <1>3, <1>9, Targets DEF SetSegment, Stepping, Calls!Closing
  <2> QED
    BY <1>7, <1>9, <2>1 DEF SetSegment
<1> DEFINE sub == SegAddr(Word(Cmd).to)
<1>10. CASE CallDl
  <2>1. Word(Cmd).op \in Calls!Calling /\ segment' = segment
    BY <1>10 DEF CallDl, Stepping
  <2>2. CASE sub = Null
    <3>1. StepOver
      BY <1>10, <2>2 DEF CallDl
    <3> QED
      BY <1>3, <1>7, <2>1, <3>1 DEF Calls!Calling, Calls!Closing
  <2>3. CASE sub # Null
    <3>1. CallTo(sub) /\ state' = state
      BY <1>10, <2>3 DEF CallDl
    <3>2. Stacks' /\ Alive'
      BY <1>1, <1>2, <1>3, <2>1, <2>3, <3>1, EnterKeeps DEF CallTo
    <3> QED
      BY <1>2, <1>3, <1>5, <1>6, <2>1, <3>1, <3>2, NextParts
  <2> QED
    BY <2>2, <2>3
<1>11. ASSUME Word(Cmd).op \in {"branch", "branchZ"}, sub # Null, BranchTo(sub),
              segment' = segment, state' = state
       PROVE  IInv'
  <2>1. Stacks' /\ Alive'
    BY <1>1, <1>2, <1>3, <1>11, EnterKeeps DEF BranchTo
  <2> QED
    BY <1>2, <1>3, <1>5, <1>6, <1>11, <2>1, NextParts
<1>12. CASE BranchDl
  BY <1>3, <1>11, <1>12, Targets DEF BranchDl, Stepping
<1>13. CASE BranchZ
  <2>1. Word(Cmd).op = "branchZ" /\ segment' = segment
    BY <1>13 DEF BranchZ, Stepping
  <2>2. CASE StepOver
    BY <1>3, <1>7, <2>1, <2>2 DEF Calls!Closing
  <2>3. CASE Word(Cmd).to # Null /\ BranchTo(sub) /\ state' = state
    BY <1>3, <1>11, <2>1, <2>3, Targets
  <2> QED
    BY <1>13, <2>2, <2>3 DEF BranchZ
<1>14. CASE EndDl
  <2>1. Stacks' /\ (Kept # 0 => Alive')
    BY <1>1, <1>2, <1>3, <1>14, ReturnKeeps DEF EndDl
  <2>2. /\ segment' = segment
        /\ state' = IF Kept = 0 THEN "finished" ELSE "running"
    BY <1>14 DEF EndDl
  <2> QED
    BY <1>3, <1>5, <1>6, <2>1, <2>2, NextParts
<1> QED
  BY <1>8, <1>9, <1>10, <1>12, <1>13, <1>14, <1>15, <1>16 DEF Step

(* The stacks and the path stay as IInv says.                              *)
THEOREM IInvHolds == Spec => []IInv
<1>1. IInv /\ [Next]_vars => IInv'
  <2> SUFFICES ASSUME IInv, [Next]_vars PROVE IInv'
    OBVIOUS
  <2>1. CASE Run
    BY <2>1, RunKeeps
  <2>2. CASE Step
    BY <2>2, StepKeeps
  <2>3. CASE \/ DebugDisplayList \/ ResumeGame \/ DrawRoot \/ DrawNext \/ DrawSub
             \/ SetBreakPoint \/ Break \/ UNCHANGED vars
    BY <2>3, DebuggerKeeps
  <2> QED
    BY <2>1, <2>2, <2>3 DEF Next
<1> QED
  BY InitKeeps, <1>1, PTL DEF Spec

(* What a running frame executes is a command of a list or, behind a vertex*)
(* command, a count that does nothing; never another word of a command nor *)
(* the mark of a list left by a branch.                                    *)
THEOREM TypeCorrect == Spec => []TypeOK
<1>1. IInv => TypeOK
  BY DEF IInv
<1> QED
  BY IInvHolds, <1>1, PTL

(* The path that is compared with the breakpoint, and dumped when the      *)
(* program crashes, is the way the command was reached.                    *)
THEOREM PathLeadsHereHolds == Spec => []PathLeadsHere
<1>1. IInv => PathLeadsHere
  BY DEF IInv
<1> QED
  BY IInvHolds, <1>1, PTL

------------------------------------------------------------------------------
(* Which commands have their list's nodes inside theirs, and which paths   *)
(* the window makes so.                                                    *)
ShownInside(m, a, l) ==
  /\ m[a[1]][a[2]].op \in Calls!Calling \union {"branch", "branchZ"}
  /\ m[a[1]][a[2]].to \in {l, Segmented}

Way(m, w) ==
  /\ w # <<>> => w[1][1] = Root
  /\ \A j \in DOMAIN w : j < Len(w) => ShownInside(m, w[j], w[j + 1][1])

(* The breakpoint is yet to come in the list that slot j of the stack goes *)
(* on in, or in one that is called from there.                             *)
AheadAt(b, s, p, j) ==
  /\ s[j] # Null /\ Len(b) >= j /\ \A i \in 1 .. j - 1 : b[i] = p[i]
  /\ b[j][1] = s[j][1] /\ b[j][2] >= s[j][2]

Ahead == \E j \in DOMAIN stack : AheadAt(breakpoint, stack, path, j)

AtCommands == Word(Last(breakpoint)).op \notin Calls!Data

Clicked ==
  /\ Way(mem, breakpoint) /\ Way(mem, shown)
  /\ debugging => breakpoint # <<>>
  /\ state = "running" /\ debugging /\ AtCommands /\ ~averted => Ahead
  /\ BreaksWhereClicked

(* Every element of a way to a command is one, and between a command and   *)
(* the one behind it there is none.                                        *)
LEMMA WayIs ==
  ASSUME NEW b, b \in Seq(Addresses), Way(mem, b), Word(Last(b)).op \notin Calls!Data,
         NEW n \in DOMAIN b
  PROVE  Word(b[n]).op \notin Calls!Data
<1>1. Len(b) \in Nat /\ n \in 1 .. Len(b)
  BY LenProperties
<1>2. CASE n = Len(b)
  BY <1>2 DEF Last
<1>3. CASE n # Len(b)
  <2>1. n < Len(b)
    BY <1>1, <1>3
  <2>2. Word(b[n]).op \in Calls!Calling \union {"branch", "branchZ"}
    BY <2>1 DEF Way, ShownInside, Word
  <2> QED
    BY <2>2 DEF Calls!Calling, Calls!Data
<1> QED
  BY <1>2, <1>3

LEMMA NoneInside ==
  ASSUME mem \in Memories, NEW c \in Addresses, Word(c).op \notin Calls!Closing \union {"data"},
         NEW a \in Addresses, Word(a).op \notin Calls!Data, a[1] = c[1], a[2] > c[2]
  PROVE  a[2] >= c[2] + Width(Word(c).op)
<1> DEFINE l == c[1]
           n == c[2]
           w == Width(Word(c).op)
<1>1. n \in Nat /\ a[2] \in Nat
  BY AddressIs
<1>2. w \in 1 .. 3 /\ \A j \in n + 1 .. n + w - 1 : mem[l][j].op \in Calls!Data
  BY WordsBehind
<1> HIDE DEF w
<1>3. a[2] \notin n + 1 .. n + w - 1
  BY <1>2 DEF Word
<1>4. a[2] >= n + w
  BY <1>1, <1>2, <1>3
<1> QED
  BY <1>4 DEF w

(* Nothing is behind the end of a list, and behind a branch.               *)
LEMMA NoneBehind ==
  ASSUME mem \in Memories, NEW c \in Addresses, Word(c).op \in Calls!Closing,
         NEW a \in Addresses, a[1] = c[1]
  PROVE  ~(a[2] > c[2])
<1>1. /\ a[2] \in 1 .. Len(mem[c[1]]) /\ Len(mem[c[1]]) \in Nat
      /\ c[1] \in Lists /\ c[2] \in DOMAIN mem[c[1]]
  BY AddressIs
<1>2. Calls!WellFormed(mem)
  BY MemoriesAssumption
<1>3. c[2] = Len(mem[c[1]])
  BY <1>1, <1>2 DEF Calls!WellFormed, Word
<1> QED
  BY <1>1, <1>3

(* The window and the debugger keep to such paths.                         *)
LEMMA DebuggerKeepsClicked ==
  ASSUME IInv, Clicked,
         \/ DebugDisplayList \/ ResumeGame \/ DrawRoot \/ DrawNext \/ DrawSub
         \/ SetBreakPoint \/ Break \/ UNCHANGED vars
  PROVE  Clicked'
<1>1. Others
  BY Parts
<1>2. mem' = mem /\ stack' = stack /\ path' = path
  BY DEF DebugDisplayList, ResumeGame, DrawRoot, DrawNext, DrawSub, Draw, SetBreakPoint, Break, vars, machine
<1>3. Way(mem, <<>>) /\ Way(mem, <<<<Root, 1>>>>) /\ <<<<Root, 1>>>> # <<>>
  <2> DEFINE r == <<<<Root, 1>>>>
  <2>2. Len(r) = 1 /\ DOMAIN r = {1} /\ r[1][1] = Root
    OBVIOUS
  <2> HIDE DEF r
  <2>4. Way(mem, r)
    BY <2>2 DEF Way
  <2>5. Way(mem, <<>>)
    BY DEF Way
  <2> QED BY <2>4, <2>5 DEF r
<1>4. CASE DebugDisplayList
  BY <1>2, <1>3, <1>4 DEF DebugDisplayList, Clicked, BreaksWhereClicked
<1>5. CASE ResumeGame
  BY <1>2, <1>3, <1>5 DEF ResumeGame, Clicked, BreaksWhereClicked
<1>6. ASSUME Draw(shown'), Between, Way(mem, shown') PROVE Clicked'
  BY <1>2, <1>6 DEF Draw, Between, Clicked, BreaksWhereClicked, Word
<1>7. CASE DrawRoot
  BY <1>3, <1>6, <1>7 DEF DrawRoot, Draw
<1> DEFINE n == Len(shown)
<1>8. ASSUME shown # <<>>
      PROVE  /\ n \in Nat \ {0} /\ DOMAIN shown = 1 .. n /\ Node = shown[n] /\ Node \in Addresses
             /\ shown \in Seq(Addresses)
  <2>1. shown \in Seq(Addresses) /\ n \in Nat \ {0} /\ DOMAIN shown = 1 .. n
    BY <1>1, <1>8, EmptySeq, LenProperties DEF Others
  <2>2. n \in DOMAIN shown /\ shown[n] \in Addresses /\ Node = shown[n]
    BY <2>1, ElementOfSeq DEF Node, Last
  <2> QED BY <2>1, <2>2 DEF Clicked, Way
<1> HIDE DEF n
<1>9. CASE DrawNext
  <2>1. shown # <<>>
    BY <1>9 DEF DrawNext, Drawing
  <2>0. n \in Nat \ {0} /\ DOMAIN shown = 1 .. n /\ shown \in Seq(Addresses)
    BY <1>8, <2>1
  <2>9. PICK w \in ShownWidths(Word(Node).op) :
             /\ Node[2] + w \in DOMAIN mem[Node[1]]
             /\ Draw(Append(Front(shown), <<Node[1], Node[2] + w>>))
    BY <1>9 DEF DrawNext
  <2> DEFINE x == <<Node[1], Node[2] + w>>
  <2>2. x \in Addresses /\ x[1] = Node[1]
    BY <1>1, <1>8, <2>1, <2>9, AddressIs, AddressAt DEF Others
  <2>3. shown' = Append(SubSeq(shown, 1, n - 1), x)
    BY <2>9 DEF Draw, Front, n
  <2> HIDE DEF x
  <2> DEFINE t == Append(SubSeq(shown, 1, n - 1), x)
  <2>4. t \in Seq(Addresses) /\ Len(t) = n /\ DOMAIN t = 1 .. n /\ t[n] = x /\ \A i \in 1 .. n - 1 : t[i] = shown[i]
    <3> DEFINE u == Append(SubSeq(shown, 1, Len(shown) - 1), x)
    <3>1. /\ u \in Seq(Addresses) /\ Len(u) = Len(shown) /\ DOMAIN u = 1 .. Len(shown)
          /\ u[Len(shown)] = x /\ \A i \in 1 .. Len(shown) - 1 : u[i] = shown[i]
      BY <2>0, <2>1, <2>2, ReplacedByOne
    <3> QED BY <3>1 DEF n, t
  <2> HIDE DEF t
  <2>5. t[1][1] = Root
    <3>1. shown[1][1] = Root
      BY <2>1 DEF Clicked, Way
    <3>2. CASE n = 1
      BY <1>8, <2>1, <2>2, <2>4, <3>1, <3>2
    <3>3. CASE n # 1
      BY <1>8, <2>1, <2>4, <3>1, <3>3
    <3> QED BY <3>2, <3>3
  <2>6. ASSUME NEW j \in 1 .. n, j < n PROVE ShownInside(mem, t[j], t[j + 1][1])
    <3>1. n \in Nat /\ j \in 1 .. n - 1 /\ j \in DOMAIN shown
      BY <2>0, <2>6
    <3>4. t[j] = shown[j]
      BY <2>4, <3>1
    <3>2. ShownInside(mem, shown[j], shown[j + 1][1])
      BY <2>6, <3>1 DEF Clicked, Way, n
    <3>3. t[j + 1][1] = shown[j + 1][1]
      <4>1. CASE j + 1 = n
        BY <1>8, <2>1, <2>2, <2>4, <4>1
      <4>2. CASE j + 1 # n
        <5>1. j + 1 \in 1 .. n - 1
          BY <3>1, <4>2
        <5> QED BY <2>4, <5>1
      <4> QED BY <4>1, <4>2
    <3> QED BY <3>2, <3>3, <3>4
  <2>7. Way(mem, t)
    BY <2>4, <2>5, <2>6 DEF Way
  <2>8. shown' = t
    BY <2>3 DEF t
  <2> QED BY <1>6, <1>9, <2>7, <2>8 DEF DrawNext, Drawing, Draw
<1>10. CASE DrawSub
  <2> DEFINE sub == SegAddr(Word(Node).to)
             x == <<sub, 1>>
  <2>1. shown # <<>> /\ Word(Node).op \in Calls!Calling \union {"branch", "branchZ"} /\ sub # Null
    BY <1>10 DEF DrawSub, Drawing
  <2>2. sub \in Lists /\ Word(Node).to \in {sub, Segmented}
    BY <1>1, <1>8, <2>1, Targets DEF Others, SegAddr
  <2>3. x \in Addresses /\ x[1] = sub
    BY <1>1, <2>2, AddressIs DEF Others
  <2>4. shown' = Append(shown, x)
    BY <1>10 DEF DrawSub, Draw
  <2> HIDE DEF x, sub
  <2>6. ShownInside(mem, Node, x[1])
    BY <2>1, <2>2, <2>3 DEF ShownInside, Word
  <2> DEFINE t == Append(shown, x)
  <2>7. t \in Seq(Addresses) /\ Len(t) = n + 1 /\ DOMAIN t = 1 .. n + 1 /\ t[n + 1] = x
        /\ \A i \in 1 .. n : t[i] = shown[i]
    BY <1>8, <2>1, <2>3, Extended DEF n
  <2> HIDE DEF t
  <2>8. ASSUME NEW j \in 1 .. n + 1 PROVE j < n + 1 => ShownInside(mem, t[j], t[j + 1][1])
    <3>0. n \in Nat \ {0} /\ DOMAIN shown = 1 .. n /\ Node = shown[n]
      BY <1>8, <2>1
    <3>1. CASE j = n + 1
      BY <3>0, <3>1
    <3>2. CASE j = n
      BY <2>6, <2>7, <3>0, <3>2
    <3>3. CASE j # n /\ j # n + 1
      <4>0. n \in Nat /\ j \in 1 .. n + 1
        BY <3>0
      <4>1. j \in 1 .. n /\ j + 1 \in 1 .. n /\ j < n /\ j \in DOMAIN shown
        BY <3>0, <4>0, <3>3
      <4>2. t[j] = shown[j] /\ t[j + 1] = shown[j + 1]
        BY <2>7, <4>1
      <4>3. ShownInside(mem, shown[j], shown[j + 1][1])
        BY <4>1 DEF Clicked, Way, n
      <4> QED BY <4>2, <4>3
    <3> QED BY <3>1, <3>2, <3>3
  <2>9. t[1][1] = Root
    <3>1. shown[1][1] = Root /\ 1 \in 1 .. n
      BY <1>8, <2>1 DEF Clicked, Way
    <3> QED BY <2>7, <3>1
  <2>10. Way(mem, t)
    BY <2>7, <2>8, <2>9 DEF Way
  <2>11. shown' = t
    BY <2>4 DEF t
  <2> QED BY <1>6, <1>10, <2>10, <2>11 DEF DrawSub, Drawing, Draw
<1>11. CASE SetBreakPoint
  <2>1. shown # <<>> /\ breakpoint' = shown /\ shown' = <<>> /\ state' = "idle" /\ averted' = averted
    BY <1>11 DEF SetBreakPoint, Drawing
  <2> QED BY <1>2, <1>3, <2>1 DEF Clicked, BreaksWhereClicked
<1>12. CASE Break
  BY <1>2, <1>12 DEF Break, debugger, Clicked, BreaksWhereClicked, AtCommands, Word
<1>13. CASE UNCHANGED vars
  BY <1>2, <1>13 DEF vars, debugger, Clicked, BreaksWhereClicked, Ahead, AtCommands, Word
<1> QED BY <1>4, <1>5, <1>7, <1>9, <1>10, <1>11, <1>12, <1>13

(* A frame begins at the start of the way.                                 *)
LEMMA RunKeepsClicked ==
  ASSUME IInv, Clicked, Run
  PROVE  Clicked'
<1>1. Others
  BY Parts
<1>2. /\ mem' = mem /\ breakpoint' = breakpoint /\ shown' = shown /\ debugging' = debugging
      /\ stack' = <<<<Root, 1>>>> /\ path' = <<>> /\ state' = "running" /\ averted' = FALSE
  BY DEF Run, debugger
<1>3. ASSUME debugging PROVE AheadAt(breakpoint, stack', path', 1)
  <2>1. breakpoint # <<>> /\ breakpoint[1][1] = Root
    BY <1>3 DEF Clicked, Way
  <2>2. breakpoint \in Seq(Addresses) /\ Len(breakpoint) \in Nat \ {0} /\ breakpoint[1] \in Addresses
    BY <1>1, <2>1, EmptySeq, LenProperties, ElementOfSeq DEF Others
  <2>3. breakpoint[1][2] >= 1
    BY <1>1, <2>2, AddressIs DEF Others
  <2>4. stack'[1] = <<Root, 1>> /\ <<Root, 1>> # Null
    BY <1>1, <1>2, AddressIs, ListsAssumption DEF Others
  <2> QED BY <2>1, <2>2, <2>3, <2>4 DEF AheadAt
<1>4. 1 \in DOMAIN stack'
  BY <1>2
<1>5. debugging => Ahead'
  BY <1>2, <1>3, <1>4 DEF Ahead
<1> QED BY <1>2, <1>5 DEF Clicked, BreaksWhereClicked

------------------------------------------------------------------------------
(* The breakpoint is on the way to the command or behind it in its list.   *)
LEMMA AheadHere ==
  ASSUME Stacks, Alive, mem \in Memories, breakpoint \in Seq(Addresses),
         AheadAt(breakpoint, stack, path, Len(stack))
  PROVE  LET n == Len(stack)
         IN  /\ Len(Here) = n /\ Len(breakpoint) >= n
             /\ SubSeq(breakpoint, 1, n - 1) = path
             /\ breakpoint[n] \in Addresses
             /\ breakpoint[n][1] = Cmd[1] /\ breakpoint[n][2] >= Cmd[2]
             /\ Len(breakpoint) = n /\ breakpoint[n] = Cmd => breakpoint = Here
<1> DEFINE n == Len(stack)
           b == breakpoint
<1>1. /\ n \in Nat \ {0} /\ DOMAIN path = 1 .. n - 1 /\ Len(path) = n - 1
      /\ Cmd = stack[n] /\ Cmd \in Addresses /\ path \in Seq(Addresses)
  BY AtCommand DEF Stacks
<1>2. Len(b) \in Nat /\ DOMAIN b = 1 .. Len(b)
  BY LenProperties
<1>3. Len(b) >= n /\ (\A i \in 1 .. n - 1 : b[i] = path[i]) /\ b[n][1] = Cmd[1] /\ b[n][2] >= Cmd[2]
  BY <1>1 DEF AheadAt
<1>4. Here \in Seq(Addresses) /\ Len(Here) = n /\ Here[n] = Cmd /\ \A i \in 1 .. n - 1 : Here[i] = path[i]
  <2>1. /\ Append(path, Cmd) \in Seq(Addresses) /\ Len(Append(path, Cmd)) = Len(path) + 1
        /\ Append(path, Cmd)[Len(path) + 1] = Cmd
        /\ \A i \in 1 .. Len(path) : Append(path, Cmd)[i] = path[i]
    BY <1>1, Extended
  <2> HIDE DEF n
  <2>2. Len(path) + 1 = n
    BY <1>1
  <2> QED BY <1>1, <2>1, <2>2 DEF Here
<1> HIDE DEF n
<1>5. SubSeq(b, 1, n - 1) = path
  <2> DEFINE t == SubSeq(b, 1, n - 1)
  <2>1. n - 1 \in Int /\ n - 1 <= Len(b)
    BY <1>1, <1>2, <1>3
  <2>2. t \in Seq(Addresses) /\ Len(t) = (IF n - 1 > 0 THEN n - 1 ELSE 0) /\ \A i \in 1 .. n - 1 : t[i] = b[i]
    BY <2>1, Prefixed
  <2> HIDE DEF t
  <2>3. Len(t) = n - 1 /\ Len(t) = Len(path)
    BY <1>1, <2>2
  <2>4. \A i \in 1 .. Len(t) : t[i] = path[i]
    BY <1>3, <2>2, <2>3
  <2>5. t = path
    BY <1>1, <2>2, <2>3, <2>4, SeqEqual
  <2> QED BY <2>5 DEF t
<1>6. b[n] \in Addresses
  BY <1>1, <1>2, <1>3, ElementOfSeq
<1>7. ASSUME Len(b) = n, b[n] = Cmd PROVE b = Here
  <2>1. \A i \in 1 .. n : b[i] = Here[i]
    BY <1>1, <1>3, <1>4, <1>7
  <2> QED BY <1>4, <1>7, <2>1, SeqEqual
<1> QED BY <1>3, <1>4, <1>5, <1>6, <1>7 DEF n

(* The command at which it is not to stop is past when it enters nothing   *)
(* there: the breakpoint is not in a list it would have entered.           *)
LEMMA BreakpointIsBehind ==
  ASSUME Stacks, Alive, Others, Way(mem, breakpoint), AtCommands,
         AheadAt(breakpoint, stack, path, Len(stack)), Here # breakpoint, ~Averted(Null),
         Word(Cmd).op \notin Calls!Closing,
         Word(Cmd).op \in Calls!Calling => SegAddr(Word(Cmd).to) = Null
  PROVE  LET x == breakpoint[Len(stack)]
         IN  /\ Through /\ Before = x /\ x \in Addresses /\ x[1] = Cmd[1]
             /\ x[2] > Cmd[2] /\ x[2] >= Behind[2]
<1> DEFINE n == Len(stack)
           b == breakpoint
           w == Width(Word(Cmd).op)
<1>1. mem \in Memories /\ breakpoint \in Seq(Addresses) /\ segment \in Movable
  BY DEF Others
<1>2. /\ n \in Nat \ {0} /\ Len(path) = n - 1
      /\ Cmd = stack[n] /\ Cmd \in Addresses /\ Word(Cmd).op # "data" /\ Null \notin Addresses
  BY <1>1, AtCommand
<1>3. /\ Len(Here) = n /\ Len(b) >= n /\ SubSeq(b, 1, n - 1) = path /\ b[n] \in Addresses
      /\ b[n][1] = Cmd[1] /\ b[n][2] >= Cmd[2] /\ (Len(b) = n /\ b[n] = Cmd => b = Here)
  BY <1>1, AheadHere
<1> HIDE DEF n
<1>4. b[n][2] \in Nat /\ Cmd[2] \in Nat /\ b[n] = <<b[n][1], b[n][2]>> /\ Cmd = <<Cmd[1], Cmd[2]>>
      /\ w \in Nat /\ Len(b) \in Nat /\ DOMAIN b = 1 .. Len(b)
  <2>1. w \in 1 .. 3
    BY DEF Width
  <2>2. Len(b) \in Nat /\ DOMAIN b = 1 .. Len(b)
    BY <1>1, LenProperties
  <2>3. /\ b[n] = <<b[n][1], b[n][2]>> /\ b[n][1] \in Lists /\ b[n][2] \in 1 .. Len(mem[b[n][1]])
        /\ Len(mem[b[n][1]]) \in Nat
    BY <1>1, <1>3, AddressIs
  <2>4. /\ Cmd = <<Cmd[1], Cmd[2]>> /\ Cmd[2] \in 1 .. Len(mem[Cmd[1]]) /\ Len(mem[Cmd[1]]) \in Nat
    BY <1>1, <1>2, AddressIs
  <2> QED BY <2>1, <2>2, <2>3, <2>4
<1>5. Through /\ Before = b[n]
  BY <1>2, <1>3 DEF Through, Before
<1>6. ~(/\ \/ Word(Cmd).op = "branchZ" \/ Word(Cmd).to = Segmented
        /\ b[n] = Cmd /\ Len(b) > n /\ b[n + 1][1] # Null)
  BY <1>3, <1>5 DEF Averted
<1>7. n \in DOMAIN b
  <2>0. n \in Nat \ {0} /\ Len(b) \in Nat /\ Len(b) >= n
    BY <1>2, <1>3, <1>4, Zenon
  <2>1. n \in 1 .. Len(b)
    BY ONLY <2>0
  <2> QED BY <1>4, <2>1
<1>8. b[n] # Cmd
  <2>1. ASSUME b[n] = Cmd PROVE FALSE
    <3>1. Len(b) > n
      <4>1. Len(b) # n /\ Len(b) >= n
        BY <1>3, <2>1, Zenon
      <4>2. n \in Nat /\ Len(b) \in Nat
        BY <1>2, <1>4
      <4> QED BY ONLY <4>1, <4>2
    <3>2. ShownInside(mem, Cmd, b[n + 1][1])
      BY <1>7, <2>1, <3>1 DEF Way
    <3>3. b[n + 1] \in Addresses
      <4>1. n + 1 \in 1 .. Len(b)
        BY <1>2, <1>4, <3>1
      <4> QED BY <1>1, <4>1, ElementOfSeq
    <3>4. b[n + 1][1] \in Lists /\ b[n + 1][1] # Null
      BY <1>1, <3>3, AddressIs, ListsAssumption
    <3>5. Word(Cmd).op \in Calls!Calling /\ Word(Cmd).to = b[n + 1][1]
      BY <1>6, <2>1, <3>1, <3>2, <3>4 DEF ShownInside, Word, Calls!Closing
    <3>6. SegAddr(Word(Cmd).to) # Null
      BY <1>1, <3>4, <3>5, ListsAssumption DEF SegAddr
    <3> QED BY <3>5, <3>6
  <2> QED BY <2>1
<1>9. b[n][2] > Cmd[2]
  <2>1. ASSUME b[n][2] = Cmd[2] PROVE FALSE
    <3>1. b[n] = <<Cmd[1], Cmd[2]>>
      BY <1>3, <1>4, <2>1, Zenon
    <3> QED BY <1>4, <1>8, <3>1, Zenon
  <2> QED BY <1>3, <1>4, <2>1
<1>10. b[n][2] >= Behind[2]
  <2>1. Word(b[n]).op \notin Calls!Data
    BY <1>1, <1>7, WayIs DEF AtCommands
  <2>2. b[n][2] >= Cmd[2] + w
    BY <1>1, <1>2, <1>3, <1>9, <2>1, NoneInside
  <2> QED BY <2>2 DEF Behind
<1> QED BY <1>3, <1>5, <1>9, <1>10 DEF n

(* A step inside a list that does not reach past the breakpoint.           *)
LEMMA MoveStaysAhead ==
  ASSUME Stacks, Alive, Others, Ahead, NEW next \in Addresses, next[1] = Cmd[1],
         AheadAt(breakpoint, stack, path, Len(stack)) => breakpoint[Len(stack)][2] >= next[2],
         stack' = Append(Rest, next), path' = path, breakpoint' = breakpoint
  PROVE  Ahead'
<1> DEFINE n == Len(stack)
           b == breakpoint
<1>1. mem \in Memories
  BY DEF Others
<1>2. /\ n \in Nat \ {0} /\ DOMAIN stack = 1 .. n /\ Cmd = stack[n] /\ Null \notin Addresses
  BY <1>1, AtCommand
<1>4. DOMAIN stack' = 1 .. n /\ stack'[n] = next /\ \A i \in 1 .. n - 1 : stack'[i] = stack[i]
  <2>1. stack \in Seq(Marks) /\ stack # <<>> /\ next \in Marks
    BY DEF Stacks, Alive, Marks
  <2> QED BY <2>1, ReplacedByOne DEF Rest
<1> HIDE DEF n
<1>5. PICK j \in DOMAIN stack : AheadAt(breakpoint, stack, path, j)
  BY DEF Ahead
<1>6. CASE j # n
  <2>1. j \in 1 .. n - 1
    BY <1>2, <1>5, <1>6
  <2>2. AheadAt(b, stack', path, j)
    BY <1>4, <1>5, <2>1 DEF AheadAt
  <2>3. j \in DOMAIN stack'
    BY <1>2, <1>4, <1>5
  <2> QED BY <2>2, <2>3 DEF Ahead
<1>7. CASE j = n
  <2>1. /\ Len(b) >= n /\ (\A i \in 1 .. n - 1 : b[i] = path[i]) /\ b[n][1] = Cmd[1]
        /\ b[n][2] >= next[2]
    BY <1>2, <1>5, <1>7 DEF AheadAt, n
  <2>2. AheadAt(b, stack', path, n)
    BY <1>2, <1>4, <2>1 DEF AheadAt
  <2> QED BY <1>2, <1>4, <2>2 DEF Ahead
<1> QED BY <1>6, <1>7

(* It enters a list, which is the one the breakpoint is in if it is in one *)
(* at all that the window shows inside the command.                        *)
LEMMA EnterStaysAhead ==
  ASSUME Stacks, Alive, Others, Way(mem, breakpoint), AtCommands, Ahead, Here # breakpoint,
         NEW sub, NEW left, sub = SegAddr(Word(Cmd).to), sub # Null, ~Averted(sub),
         \/ Word(Cmd).op \in Calls!Calling /\ left = Behind
         \/ Word(Cmd).op \in {"branch", "branchZ"} /\ left = Null,
         stack' = Rest \o <<left, <<sub, 1>>>>, path' = Append(path, Cmd), breakpoint' = breakpoint
  PROVE  Ahead'
<1> DEFINE n == Len(stack)
           b == breakpoint
           w == Width(Word(Cmd).op)
           start == <<sub, 1>>
<1>1. mem \in Memories /\ breakpoint \in Seq(Addresses) /\ segment \in Movable
  BY DEF Others
<1>2. /\ n \in Nat \ {0} /\ DOMAIN stack = 1 .. n /\ DOMAIN path = 1 .. n - 1 /\ Len(path) = n - 1
      /\ Cmd = stack[n] /\ Cmd \in Addresses /\ Word(Cmd).op # "data" /\ Null \notin Addresses
      /\ path \in Seq(Addresses)
  BY <1>1, AtCommand DEF Stacks
<1>3. sub \in Lists /\ start \in Addresses
  BY <1>1, <1>2, Targets, AddressIs
<1>4. left \in Marks /\ (left # Null => Word(Cmd).op \in Calls!Calling
        /\ left \in Addresses /\ left[1] = Cmd[1] /\ left[2] = Cmd[2] + w)
  <2>1. CASE Word(Cmd).op \in Calls!Calling /\ left = Behind
    <3>1. Word(Cmd).op \notin Calls!Closing \union {"data"}
      BY <2>1 DEF Calls!Calling, Calls!Closing
    <3>2. Behind \in Addresses
      BY <1>1, <1>2, <3>1, BehindIs
    <3>3. Behind[1] = Cmd[1] /\ Behind[2] = Cmd[2] + w
      BY DEF Behind
    <3> QED BY <2>1, <3>2, <3>3 DEF Marks
  <2>2. CASE left = Null
    BY <2>2 DEF Marks
  <2> QED BY <2>1, <2>2
<1>5. /\ DOMAIN stack' = 1 .. n + 1 /\ stack'[n] = left /\ stack'[n + 1] = start
      /\ \A i \in 1 .. n - 1 : stack'[i] = stack[i]
  <2>1. stack \in Seq(Marks) /\ stack # <<>>
    BY DEF Stacks, Alive
  <2> DEFINE v == <<left, start>>
  <2>2. stack' = SubSeq(stack, 1, Len(stack) - 1) \o v
    BY DEF Rest
  <2>3. v \in Seq(Marks) /\ Len(v) = 2 /\ v[1] = left /\ v[2] = start
    BY <1>3, <1>4 DEF Marks
  <2> HIDE DEF start, v
  <2> DEFINE t == SubSeq(stack, 1, Len(stack) - 1) \o v
  <2>4. /\ t \in Seq(Marks) /\ Len(t) = n + 1 /\ DOMAIN t = 1 .. n + 1
        /\ t[n] = v[1] /\ t[n + 1] = v[2]
        /\ \A i \in 1 .. n - 1 : t[i] = stack[i]
    BY <2>1, <2>3, ReplacedByTwo
  <2>5. stack' = t
    BY <2>2
  <2> HIDE DEF t
  <2> QED BY <2>3, <2>4, <2>5
<1>6. path'[n] = Cmd /\ \A i \in 1 .. n - 1 : path'[i] = path[i]
  <2>1. path' = Append(path, Cmd)
    OBVIOUS
  <2>2. Append(path, Cmd)[Len(path) + 1] = Cmd /\ \A i \in 1 .. Len(path) : Append(path, Cmd)[i] = path[i]
    BY <1>2, Extended
  <2>3. Len(path) + 1 = n
    BY <1>2
  <2> QED BY <1>2, <2>1, <2>2, <2>3
<1>7. PICK j \in DOMAIN stack : AheadAt(breakpoint, stack, path, j)
  BY DEF Ahead
<1>8. SUFFICES \E k \in 1 .. n + 1 : AheadAt(b, stack', path', k)
  BY <1>5 DEF Ahead
<1>9. CASE j # n
  <2>1. j \in 1 .. n - 1 /\ j \in 1 .. n + 1
    BY <1>2, <1>7, <1>9
  <2>2. \A i \in 1 .. j - 1 : i \in 1 .. n - 1
    BY <1>2, <2>1
  <2>3. AheadAt(b, stack', path', j)
    BY <1>5, <1>6, <1>7, <2>1, <2>2 DEF AheadAt
  <2> QED BY <2>1, <2>3
<1>10. CASE j = n
  <2>1. /\ Len(Here) = n /\ Len(b) >= n /\ SubSeq(b, 1, n - 1) = path /\ b[n] \in Addresses
        /\ b[n][1] = Cmd[1] /\ b[n][2] >= Cmd[2] /\ (Len(b) = n /\ b[n] = Cmd => b = Here)
    BY <1>1, <1>7, <1>10, AheadHere
  <2>2. Len(b) \in Nat /\ DOMAIN b = 1 .. Len(b)
    BY <1>1, LenProperties
  <2>3. ~(/\ \/ Word(Cmd).op = "branchZ" \/ Word(Cmd).to = Segmented
          /\ b[n] = Cmd /\ Len(b) > n /\ b[n + 1][1] # sub)
        /\ ~(Word(Cmd).op = "branchZ" /\ b[n][2] > Cmd[2])
    <3>1. Through /\ Before = b[n]
      BY <1>2, <2>1 DEF Through, Before
    <3> QED BY <2>1, <3>1 DEF Averted
  <2>4. n \in DOMAIN b
    <3>0. n \in Nat \ {0} /\ Len(b) \in Nat /\ Len(b) >= n
      BY <1>2, <2>1, <2>2, Zenon
    <3>1. n \in 1 .. Len(b)
      BY ONLY <3>0
    <3> QED BY <2>2, <3>1
  <2>5. \A i \in 1 .. n - 1 : b[i] = path[i]
    BY <1>7, <1>10 DEF AheadAt
  <2>6. /\ b[n] = <<b[n][1], b[n][2]>> /\ b[n][2] \in Nat
        /\ Cmd = <<Cmd[1], Cmd[2]>> /\ Cmd[2] \in Nat \ {0} /\ w \in Nat
    <3>1. w \in 1 .. 3
      BY DEF Width
    <3>2. /\ b[n] = <<b[n][1], b[n][2]>> /\ b[n][1] \in Lists /\ b[n][2] \in 1 .. Len(mem[b[n][1]])
          /\ Len(mem[b[n][1]]) \in Nat
      BY <1>1, <2>1, AddressIs
    <3>3. /\ Cmd = <<Cmd[1], Cmd[2]>> /\ Cmd[2] \in 1 .. Len(mem[Cmd[1]]) /\ Len(mem[Cmd[1]]) \in Nat
      BY <1>1, <1>2, AddressIs
    <3> QED BY <3>1, <3>2, <3>3
  <2>7. CASE b[n] = Cmd
    <3>1. Len(b) > n
      <4>1. Len(b) # n /\ Len(b) >= n
        BY <2>1, <2>7, Zenon
      <4>2. n \in Nat /\ Len(b) \in Nat
        BY <1>2, <2>2
      <4> QED BY ONLY <4>1, <4>2
    <3>2. ShownInside(mem, Cmd, b[n + 1][1])
      BY <2>4, <2>7, <3>1 DEF Way
    <3>3. b[n + 1] \in Addresses /\ n + 1 \in 1 .. n + 1
      <4>1. n + 1 \in 1 .. Len(b) /\ n + 1 \in 1 .. n + 1
        BY <1>2, <2>2, <3>1
      <4> QED BY <1>1, <4>1, ElementOfSeq
    <3>4. b[n + 1][1] \in Lists /\ b[n + 1][2] >= 1
      <4>1. b[n + 1][1] \in Lists /\ b[n + 1][2] \in 1 .. Len(mem[b[n + 1][1]])
        BY <1>1, <3>3, AddressIs
      <4> QED BY <4>1
    <3>5. b[n + 1][1] = sub
      <4>1. CASE Word(Cmd).to = Segmented
        BY <2>3, <2>7, <3>1, <4>1
      <4>2. CASE Word(Cmd).to # Segmented
        BY <3>2, <4>2 DEF ShownInside, Word, SegAddr
      <4> QED BY <4>1, <4>2
    <3>6. start # Null /\ start[1] = sub /\ start[2] = 1
      BY <1>2, <1>3
    <3>7. \A i \in 1 .. n : b[i] = path'[i]
      BY <1>2, <1>6, <2>5, <2>7
    <3> HIDE DEF start, n
    <3>8. AheadAt(b, stack', path', n + 1)
      <4> DEFINE k == n + 1
      <4>1. Len(b) >= k /\ n \in Nat
        BY <1>2, <2>2, <3>1
      <4>2. stack'[k] # Null /\ b[k][1] = stack'[k][1] /\ b[k][2] >= stack'[k][2]
        BY <1>5, <3>4, <3>5, <3>6
      <4>3. \A i \in 1 .. k - 1 : b[i] = path'[i]
        <5>1. k - 1 = n
          BY <4>1
        <5> QED BY <3>7, <5>1
      <4> HIDE DEF k
      <4>4. AheadAt(b, stack', path', k)
        BY <4>1, <4>2, <4>3 DEF AheadAt
      <4> QED BY <4>4 DEF k
    <3> QED BY <3>3, <3>8
  <2>8. CASE b[n] # Cmd
    <3>1. b[n][2] > Cmd[2]
      <4>1. ASSUME b[n][2] = Cmd[2] PROVE FALSE
        <5>1. b[n] = <<Cmd[1], Cmd[2]>>
          BY <2>1, <2>6, <4>1, Zenon
        <5> QED BY <2>6, <2>8, <5>1, Zenon
      <4> QED BY <2>1, <2>6, <4>1
    <3>2. Word(Cmd).op # "branch"
      BY <1>1, <1>2, <2>1, <3>1, NoneBehind DEF Calls!Closing
    <3>3. Word(Cmd).op \in Calls!Calling /\ left = Behind /\ left # Null
      <4>1. Word(Cmd).op \in Calls!Calling /\ left = Behind
        BY <2>3, <3>1, <3>2
      <4>2. Word(Cmd).op \notin Calls!Closing \union {"data"}
        BY <4>1 DEF Calls!Calling, Calls!Closing
      <4>3. Behind \in Addresses
        BY <1>1, <1>2, <4>2, BehindIs
      <4> QED BY <1>2, <4>1, <4>3
    <3>4. b[n][2] >= Cmd[2] + w
      <4>1. Word(Cmd).op \notin Calls!Closing \union {"data"}
        BY <3>3 DEF Calls!Calling, Calls!Closing
      <4>2. Word(b[n]).op \notin Calls!Data
        BY <1>1, <2>4, WayIs DEF AtCommands
      <4> QED BY <1>1, <1>2, <2>1, <3>1, <4>1, <4>2, NoneInside
    <3>5. \A i \in 1 .. n - 1 : b[i] = path'[i]
      BY <1>6, <2>5
    <3>6. AheadAt(b, stack', path', n)
      BY <1>4, <1>5, <2>1, <3>3, <3>4, <3>5 DEF AheadAt
    <3>7. n \in 1 .. n + 1
      BY <1>2
    <3> QED BY <3>6, <3>7
  <2> QED BY <2>7, <2>8
<1> QED BY <1>9, <1>10

(* It returns to the innermost list that goes on, and the breakpoint, which*)
(* is not in what was left behind, is still to come.                       *)
LEMMA ReturnStaysAhead ==
  ASSUME Stacks, Alive, Others, Way(mem, breakpoint), Ahead, Here # breakpoint,
         Word(Cmd).op = "end",
         stack' = SubSeq(stack, 1, Kept), path' = SubSeq(path, 1, Kept - 1), breakpoint' = breakpoint
  PROVE  Kept # 0 /\ Ahead'
<1> DEFINE n == Len(stack)
           b == breakpoint
           k == Kept
<1>1. mem \in Memories /\ breakpoint \in Seq(Addresses)
  BY DEF Others
<1>2. /\ n \in Nat \ {0} /\ DOMAIN stack = 1 .. n /\ Len(path) = n - 1
      /\ Cmd = stack[n] /\ Cmd \in Addresses
      /\ stack \in Seq(Marks) /\ path \in Seq(Addresses)
  BY <1>1, AtCommand DEF Stacks
<1>3. k \in 0 .. n - 1 /\ \A j \in k + 1 .. n - 1 : stack[j] = Null
  BY <1>1, KeptIs
<1>4. PICK j \in DOMAIN stack : AheadAt(breakpoint, stack, path, j)
  BY DEF Ahead
<1>5. j # n
  <2>1. ASSUME j = n PROVE FALSE
    <3>1. /\ Len(b) >= n /\ b[n] \in Addresses
          /\ b[n][1] = Cmd[1] /\ b[n][2] >= Cmd[2] /\ (Len(b) = n /\ b[n] = Cmd => b = Here)
      BY <1>1, <1>4, <2>1, AheadHere
    <3>2. Len(b) \in Nat /\ DOMAIN b = 1 .. Len(b)
      BY <1>1, LenProperties
    <3>3. n \in DOMAIN b
      <4>0. n \in Nat \ {0} /\ Len(b) \in Nat /\ Len(b) >= n
        BY <1>2, <3>1, <3>2, Zenon
      <4>1. n \in 1 .. Len(b)
        BY ONLY <4>0
      <4> QED BY <3>2, <4>1
    <3>4. /\ b[n] = <<b[n][1], b[n][2]>> /\ b[n][1] \in Lists /\ b[n][2] \in 1 .. Len(mem[b[n][1]])
          /\ Len(mem[b[n][1]]) \in Nat
      BY <1>1, <3>1, AddressIs
    <3>5. /\ Cmd = <<Cmd[1], Cmd[2]>> /\ Cmd[2] \in 1 .. Len(mem[Cmd[1]]) /\ Len(mem[Cmd[1]]) \in Nat
      BY <1>1, <1>2, AddressIs
    <3>6. b[n][2] = Cmd[2]
      <4>1. ASSUME b[n][2] > Cmd[2] PROVE FALSE
        BY <1>1, <1>2, <3>1, <4>1, NoneBehind DEF Calls!Closing
      <4> QED BY <3>1, <3>4, <3>5, <4>1
    <3>7. b[n] = Cmd
      <4>1. b[n] = <<Cmd[1], Cmd[2]>>
        BY <3>1, <3>4, <3>6, Zenon
      <4> QED BY <3>5, <4>1, Zenon
    <3>8. Len(b) > n
      <4>1. Len(b) # n /\ Len(b) >= n
        BY <3>1, <3>7, Zenon
      <4>2. n \in Nat /\ Len(b) \in Nat
        BY <1>2, <3>2
      <4> QED BY ONLY <4>1, <4>2
    <3>9. ShownInside(mem, Cmd, b[n + 1][1])
      BY <3>3, <3>7, <3>8 DEF Way
    <3> QED BY <3>9 DEF ShownInside, Word, Calls!Calling
  <2> QED BY <2>1
<1> HIDE DEF k
<1>6. j \in 1 .. k
  <2>1. j \in 1 .. n - 1 /\ stack[j] # Null
    BY <1>2, <1>4, <1>5 DEF AheadAt
  <2>2. j \notin k + 1 .. n - 1
    BY <1>3, <2>1
  <2> QED BY <1>2, <1>3, <2>1, <2>2
<1>7. DOMAIN stack' = 1 .. k /\ \A i \in 1 .. k : stack'[i] = stack[i]
  <2>1. k \in Int /\ k <= Len(stack)
    BY <1>2, <1>3
  <2> DEFINE t == SubSeq(stack, 1, k)
  <2>2. DOMAIN t = 1 .. k /\ \A i \in 1 .. k : t[i] = stack[i]
    BY <1>2, <2>1, Prefixed
  <2>3. stack' = t
    BY DEF k
  <2> HIDE DEF t
  <2> QED BY <2>2, <2>3
<1>8. \A i \in 1 .. k - 1 : path'[i] = path[i]
  <2>1. k - 1 \in Int /\ k - 1 <= Len(path)
    BY <1>2, <1>3
  <2> DEFINE t == SubSeq(path, 1, k - 1)
  <2>2. \A i \in 1 .. k - 1 : t[i] = path[i]
    BY <1>2, <2>1, Prefixed
  <2>3. path' = t
    BY DEF k
  <2> HIDE DEF t
  <2> QED BY <2>2, <2>3
<1>9. \A i \in 1 .. j - 1 : b[i] = path'[i]
  <2> SUFFICES ASSUME NEW i \in 1 .. j - 1 PROVE b[i] = path'[i]
    OBVIOUS
  <2>1. i \in 1 .. k - 1
    BY <1>3, <1>6
  <2> QED BY <1>4, <1>8, <2>1 DEF AheadAt
<1>10. AheadAt(b, stack', path', j)
  BY <1>4, <1>6, <1>7, <1>9 DEF AheadAt
<1>11. k # 0
  BY <1>3, <1>6
<1> QED BY <1>6, <1>7, <1>10, <1>11 DEF Ahead, k

LEMMA StepKeepsClicked ==
  ASSUME IInv, Clicked, Step
  PROVE  Clicked'
<1>1. Stacks /\ Others /\ (state = "running" => Alive)
  BY Parts
<1>2. state = "running" /\ ~HasBreakPoint /\ mem' = mem /\ UNCHANGED debugger
  BY DEF Step, Skip, GuardVtx, MissTexture, SetSegment, CallDl, BranchDl, BranchZ, EndDl,
         Stepping, StepOver, Enter
<1>3. Alive /\ mem \in Memories /\ segment \in Movable /\ Cmd \in Addresses /\ Word(Cmd).op # "data"
  BY <1>1, <1>2, AtCommand DEF Others
<1>4. Way(mem, breakpoint)' /\ Way(mem, shown)' /\ (debugging => breakpoint # <<>>)' /\ debugging' = debugging
  BY <1>2 DEF Clicked, debugger
<1>15. AtCommands' = AtCommands
  BY <1>2 DEF AtCommands, Word, debugger
<1>5. ASSUME state' = "running", debugging /\ AtCommands /\ ~averted' => Ahead' PROVE Clicked'
  BY <1>4, <1>5, <1>15 DEF Clicked, BreaksWhereClicked
<1>16. ASSUME debugging, AtCommands, ~averted
       PROVE  Ahead /\ Here # breakpoint /\ Way(mem, breakpoint) /\ breakpoint' = breakpoint
  BY <1>2, <1>16 DEF Clicked, HasBreakPoint, debugger
<1>6. ASSUME NEW into, Enter(into), debugging, AtCommands, ~averted'
      PROVE  ~Averted(into) /\ Ahead /\ Here # breakpoint /\ Way(mem, breakpoint) /\ breakpoint' = breakpoint
  BY <1>6, <1>16 DEF Enter
<1> DEFINE sub == SegAddr(Word(Cmd).to)
<1>7. ASSUME StepOver, Word(Cmd).op \notin Calls!Closing, Word(Cmd).op \in Calls!Calling => sub = Null
      PROVE  Clicked'
  <2>1. stack' = Append(Rest, Behind) /\ path' = path /\ state' = "running" /\ Enter(Null)
    BY <1>2, <1>7 DEF StepOver
  <2>2. ASSUME debugging, AtCommands, ~averted' PROVE Ahead'
    <3>1. ~Averted(Null) /\ Ahead /\ Here # breakpoint /\ Way(mem, breakpoint) /\ breakpoint' = breakpoint
      BY <1>6, <2>1, <2>2
    <3>2. AheadAt(breakpoint, stack, path, Len(stack)) => breakpoint[Len(stack)][2] >= Behind[2]
      BY <1>1, <1>3, <1>7, <2>2, <3>1, BreakpointIsBehind
    <3>3. Behind \in Addresses /\ Behind[1] = Cmd[1]
      BY <1>3, <1>7, BehindIs
    <3> QED BY <1>1, <1>3, <2>1, <3>1, <3>2, <3>3, MoveStaysAhead
  <2> QED BY <1>5, <2>1, <2>2
<1>8. ASSUME NEW left, sub # Null, Enter(sub), state' = state,
             \/ Word(Cmd).op \in Calls!Calling /\ left = Behind
             \/ Word(Cmd).op \in {"branch", "branchZ"} /\ left = Null,
             stack' = Rest \o <<left, <<sub, 1>>>>, path' = Append(path, Cmd)
      PROVE  Clicked'
  <2> HIDE DEF sub
  <2>1. sub = SegAddr(Word(Cmd).to)
    BY DEF sub
  <2>2. ASSUME debugging, AtCommands, ~averted' PROVE Ahead'
    <3>1. ~Averted(sub) /\ Ahead /\ Here # breakpoint /\ Way(mem, breakpoint) /\ breakpoint' = breakpoint
      BY <1>6, <1>8, <2>2
    <3> QED BY <1>1, <1>3, <1>8, <2>1, <2>2, <3>1, EnterStaysAhead
  <2> QED BY <1>2, <1>5, <1>8, <2>2
<1>9. CASE Skip
  BY <1>7, <1>9 DEF Skip, Stepping, Calls!Simple, Calls!Textures, Calls!Calling, Calls!Closing
<1>10. CASE SetSegment
  BY <1>7, <1>10 DEF SetSegment, Stepping, Calls!Calling, Calls!Closing
<1>17. ASSUME Word(Cmd).op \in {"vtx"} \union Calls!Textures, debugging, AtCommands, ~averted
       PROVE  /\ Ahead /\ breakpoint' = breakpoint
              /\ AheadAt(breakpoint, stack, path, Len(stack)) =>
                   LET x == breakpoint[Len(stack)]
                   IN  /\ Through /\ Before = x /\ x \in Addresses /\ x[1] = Cmd[1]
                       /\ x[2] > Cmd[2] /\ x[2] >= Behind[2]
  <2>1. /\ Word(Cmd).op \notin Calls!Closing /\ Word(Cmd).op \notin Calls!Calling
        /\ Word(Cmd).op \notin {"branchZ", "call", "branch"}
    BY <1>17 DEF Calls!Closing, Calls!Calling, Calls!Textures
  <2>2. Word(Cmd).to # Segmented
    <3>1. Calls!WellFormed(mem)
      BY <1>3, MemoriesAssumption
    <3>2. Cmd[1] \in Lists /\ Cmd[2] \in DOMAIN mem[Cmd[1]]
      BY <1>3, AddressIs
    <3> QED BY <2>1, <3>1, <3>2 DEF Calls!WellFormed, Word
  <2>3. ~Averted(Null)
    BY <2>1, <2>2 DEF Averted
  <2>4. Ahead /\ Here # breakpoint /\ Way(mem, breakpoint) /\ breakpoint' = breakpoint
    BY <1>16, <1>17
  <2> QED BY <1>1, <1>3, <1>17, <2>1, <2>3, <2>4, BreakpointIsBehind
<1>18. CASE GuardVtx
  <2> DEFINE next == <<Cmd[1], Cmd[2] + 1>>
  <2>1. Word(Cmd).op = "vtx" /\ stack' = Append(Rest, next)
        /\ path' = path /\ state' = state /\ averted' = averted
    BY <1>18 DEF GuardVtx, Stepping
  <2>2. next \in Addresses /\ next[1] = Cmd[1] /\ next[2] = Cmd[2] + 1
    BY <1>3, <2>1, VtxCount
  <2>3. Cmd[2] \in Nat /\ \A x \in Addresses : x[2] \in Nat
    BY <1>3, AddressIs
  <2> HIDE DEF next
  <2>4. ASSUME debugging, AtCommands, ~averted' PROVE Ahead'
    <3>1. /\ Ahead /\ breakpoint' = breakpoint
          /\ AheadAt(breakpoint, stack, path, Len(stack)) =>
               breakpoint[Len(stack)] \in Addresses /\ breakpoint[Len(stack)][2] > Cmd[2]
      BY <1>17, <2>1, <2>4
    <3>2. AheadAt(breakpoint, stack, path, Len(stack)) => breakpoint[Len(stack)][2] >= next[2]
      BY <2>2, <2>3, <3>1
    <3> QED BY <1>1, <1>3, <1>2, <2>1, <2>2, <3>1, <3>2, MoveStaysAhead
  <2> QED BY <1>2, <1>5, <2>1, <2>4
<1>19. CASE MissTexture
  <2> DEFINE next == <<Cmd[1], Behind[2] + 1>>
             found == next[2] \in DOMAIN mem[next[1]] /\ Word(next).op # "data"
  <2>1. Word(Cmd).op \in Calls!Textures /\ path' = path
    BY <1>19 DEF MissTexture, Stepping
  <2>2. CASE ~found
    <3>1. state' = "lost"
      BY <1>19, <2>2 DEF MissTexture
    <3> QED BY <1>4, <3>1 DEF Clicked, BreaksWhereClicked
  <2>3. CASE found
    <3>1. /\ stack' = Append(Rest, next) /\ state' = state
          /\ averted' = (averted \/ (Through /\ Before = Behind))
      BY <1>19, <2>3 DEF MissTexture
    <3>2. Cmd[1] \in Lists /\ Word(Cmd).op \notin Calls!Closing \union {"data"}
      BY <1>3, <2>1, AddressIs DEF Calls!Textures, Calls!Closing
    <3>3. next \in Addresses /\ next[1] = Cmd[1] /\ next[2] = Behind[2] + 1
      BY <2>3, <3>2, AddressAt
    <3>4. Behind \in Addresses /\ Behind[1] = Cmd[1]
      BY <1>3, <3>2, BehindIs
    <3>5. \A x \in Addresses : x[2] \in Nat /\ x = <<x[1], x[2]>>
      BY <1>3, AddressIs
    <3> HIDE DEF next
    <3>6. ASSUME debugging, AtCommands, ~averted' PROVE Ahead'
      <4> DEFINE x == breakpoint[Len(stack)]
      <4>0. ~averted
        BY <3>1, <3>6
      <4>1. /\ Ahead /\ breakpoint' = breakpoint
            /\ AheadAt(breakpoint, stack, path, Len(stack)) =>
                 /\ Through /\ Before = x /\ x \in Addresses /\ x[1] = Cmd[1]
                 /\ x[2] >= Behind[2]
        BY <1>17, <2>1, <3>6, <4>0
      <4> HIDE DEF x
      <4>2. ASSUME AheadAt(breakpoint, stack, path, Len(stack)) PROVE x[2] >= next[2]
        <5>1. x # Behind
          BY <3>1, <3>6, <4>1, <4>2
        <5>2. x[2] # Behind[2]
          BY <3>4, <3>5, <4>1, <4>2, <5>1, Zenon
        <5>3. x[2] \in Nat /\ Behind[2] \in Nat /\ x[2] >= Behind[2]
          BY <3>4, <3>5, <4>1, <4>2
        <5> QED BY <3>3, <5>2, <5>3
      <4> QED BY <1>1, <1>2, <1>3, <2>1, <3>1, <3>3, <4>1, <4>2, MoveStaysAhead DEF x
    <3> QED BY <1>2, <1>5, <3>1, <3>6
  <2> QED BY <2>2, <2>3
<1>11. CASE CallDl
  <2>1. Word(Cmd).op \in Calls!Calling
    BY <1>11 DEF CallDl, Stepping
  <2>2. CASE sub = Null
    <3>1. StepOver
      BY <1>11, <2>2 DEF CallDl
    <3> QED BY <1>7, <2>1, <2>2, <3>1 DEF Calls!Calling, Calls!Closing
  <2>3. CASE sub # Null
    <3>1. CallTo(sub) /\ state' = state /\ Enter(sub)
      BY <1>11, <2>3 DEF CallDl
    <3> QED BY <1>8, <2>1, <2>3, <3>1 DEF CallTo
  <2> QED BY <2>2, <2>3
<1>12. CASE BranchDl
  <2>1. Word(Cmd).op = "branch" /\ BranchTo(sub) /\ state' = state /\ Enter(sub)
    BY <1>12 DEF BranchDl, Stepping
  <2>2. sub # Null
    BY <1>3, <2>1, Targets
  <2> QED BY <1>8, <2>1, <2>2 DEF BranchTo
<1>13. CASE BranchZ
  <2>1. Word(Cmd).op = "branchZ"
    BY <1>13 DEF BranchZ, Stepping
  <2>2. CASE StepOver
    BY <1>7, <2>1, <2>2 DEF Calls!Calling, Calls!Closing
  <2>3. CASE Word(Cmd).to # Null /\ BranchTo(sub) /\ state' = state /\ Enter(sub)
    <3>1. sub # Null
      BY <1>3, <2>1, <2>3, Targets
    <3> QED BY <1>8, <2>1, <2>3, <3>1 DEF BranchTo
  <2> QED BY <1>13, <2>2, <2>3 DEF BranchZ
<1>14. CASE EndDl
  <2>1. /\ Word(Cmd).op = "end" /\ Enter(Null)
        /\ stack' = SubSeq(stack, 1, Kept) /\ path' = SubSeq(path, 1, Kept - 1)
        /\ state' = IF Kept = 0 THEN "finished" ELSE "running"
    BY <1>14 DEF EndDl, Stepping
  <2>2. ASSUME debugging, AtCommands, ~averted' PROVE Kept # 0 /\ Ahead'
    BY <1>1, <1>3, <1>6, <2>1, <2>2, ReturnStaysAhead
  <2> QED BY <1>4, <1>15, <2>1, <2>2 DEF Clicked, BreaksWhereClicked, AtCommands
<1> QED BY <1>9, <1>10, <1>11, <1>12, <1>13, <1>14, <1>18, <1>19 DEF Step

(* While a frame runs whose way has not been averted, the breakpoint is    *)
(* still to come.                                                          *)
THEOREM ClickedHolds == Spec => []Clicked
<1>1. Init => Clicked
  BY DEF Init, Clicked, Way, BreaksWhereClicked
<1>2. IInv /\ Clicked /\ [Next]_vars => Clicked'
  <2> SUFFICES ASSUME IInv, Clicked, [Next]_vars PROVE Clicked'
    OBVIOUS
  <2>1. CASE Run
    BY <2>1, RunKeepsClicked
  <2>2. CASE Step
    BY <2>2, StepKeepsClicked
  <2>3. CASE \/ DebugDisplayList \/ ResumeGame \/ DrawRoot \/ DrawNext \/ DrawSub
             \/ SetBreakPoint \/ Break \/ UNCHANGED vars
    BY <2>3, DebuggerKeepsClicked
  <2> QED
    BY <2>1, <2>2, <2>3 DEF Next
<1> QED
  BY IInvHolds, <1>1, <1>2, PTL DEF Spec

(* A frame stops at the command that was clicked in the window, unless a   *)
(* condition, a moved segment or a missing image averted it:               *)
(* DrawDisasNode's recursion makes the paths that GfxExecStack makes.      *)
THEOREM BreaksWhereClickedHolds == Spec => []BreaksWhereClicked
<1>1. Clicked => BreaksWhereClicked
  BY DEF Clicked
<1> QED
  BY ClickedHolds, <1>1, PTL

------------------------------------------------------------------------------
(* The refinement: the stack without its marks is DisplayCalls's.         *)

(* Induction, for sets of numbers.                                         *)
LEMMA ByInduction ==
  ASSUME NEW S, 0 \in S, \A n \in Nat : n \in S => n + 1 \in S
  PROVE  Nat \subseteq S
<1> DEFINE T == Nat \ S
           R == OpToRel(<, Nat)
<1>1. SUFFICES ASSUME T # {} PROVE FALSE
  OBVIOUS
<1>2. IsWellFoundedOn(R, Nat)
  BY NatLessThanWellFounded
<1>3. PICK x \in T : \A y \in T : <<y, x>> \notin R
  <2> HIDE DEF R
  <2> QED BY <1>1, <1>2, WFMin
<1>4. x \in Nat /\ x # 0
  OBVIOUS
<1>5. x - 1 \in Nat /\ x - 1 < x
  BY <1>4
<1>6. <<x - 1, x>> \in R
  BY <1>4, <1>5 DEF OpToRel
<1>7. x - 1 \notin T
  BY <1>3, <1>6
<1> QED BY <1>4, <1>5, <1>7

(* The sequences FlattenSeq makes of the first, the first two, ... of ss.  *)
Joins(ss, n, f) == f = [i \in 1 .. n |-> IF i = 1 THEN ss[i] ELSE f[i - 1] \o ss[i]]

LEMMA JoinsExist ==
  ASSUME NEW ss, NEW n \in Nat
  PROVE  \E f : Joins(ss, n, f)
<1> DEFINE P == {m \in Nat : \E f : Joins(ss, m, f)}
<1>1. 0 \in P
  <2>1. Joins(ss, 0, [i \in 1 .. 0 |-> 0])
    BY DEF Joins
  <2> QED BY <2>1
<1>2. ASSUME NEW m \in Nat, m \in P PROVE m + 1 \in P
  <2>1. PICK f : Joins(ss, m, f)
    BY <1>2
  <2> DEFINE g == [i \in 1 .. m + 1 |-> IF i = 1 THEN ss[i] ELSE f[i - 1] \o ss[i]]
  <2>2. ASSUME NEW i \in 1 .. m PROVE g[i] = f[i]
    <3>1. f = [j \in 1 .. m |-> IF j = 1 THEN ss[j] ELSE f[j - 1] \o ss[j]]
      BY <2>1 DEF Joins
    <3>2. f[i] = IF i = 1 THEN ss[i] ELSE f[i - 1] \o ss[i]
      BY <3>1
    <3> QED BY <3>2
  <2>3. g = [i \in 1 .. m + 1 |-> IF i = 1 THEN ss[i] ELSE g[i - 1] \o ss[i]]
    <3>1. \A i \in 1 .. m + 1 : i # 1 => i - 1 \in 1 .. m
      OBVIOUS
    <3> QED BY <2>2, <3>1
  <2> HIDE DEF g
  <2>4. Joins(ss, m + 1, g)
    BY <2>3 DEF Joins
  <2> QED BY <2>4
<1> HIDE DEF P
<1>3. Nat \subseteq P
  BY <1>1, <1>2, ByInduction
<1> QED BY <1>3 DEF P

LEMMA FlattenIs ==
  ASSUME NEW ss, Len(ss) \in Nat \ {0}
  PROVE  \E f : Joins(ss, Len(ss), f) /\ FlattenSeq(ss) = f[Len(ss)]
<1> DEFINE f == CHOOSE f : Joins(ss, Len(ss), f)
<1>1. Joins(ss, Len(ss), f)
  <2>1. \E h : Joins(ss, Len(ss), h)
    BY JoinsExist
  <2> QED BY <2>1, Zenon
<1>2. FlattenSeq(ss) = f[Len(ss)]
  BY DEF FlattenSeq, Joins
<1> QED BY <1>1, <1>2

(* One sequence more.                                                      *)
LEMMA FlattenAppended ==
  ASSUME NEW T, NEW ss \in Seq(Seq(T)), NEW s \in Seq(T)
  PROVE  FlattenSeq(ss) \in Seq(T) /\ FlattenSeq(Append(ss, s)) = FlattenSeq(ss) \o s
<1> DEFINE n == Len(ss)
           tt == Append(ss, s)
<1>1. /\ n \in Nat /\ DOMAIN ss = 1 .. n /\ Len(tt) = n + 1 /\ tt[n + 1] = s
      /\ \A i \in 1 .. n : tt[i] = ss[i] /\ ss[i] \in Seq(T)
  OBVIOUS
<1> HIDE DEF tt
<1>2. PICK g : Joins(tt, n + 1, g) /\ FlattenSeq(tt) = g[n + 1]
  <2>1. \E g : Joins(tt, Len(tt), g) /\ FlattenSeq(tt) = g[Len(tt)]
    <3>1. Len(tt) \in Nat \ {0}
      BY <1>1
    <3> QED BY <3>1, FlattenIs
  <2> QED BY <1>1, <2>1
<1>3. \A i \in 1 .. n + 1 : g[i] = IF i = 1 THEN tt[i] ELSE g[i - 1] \o tt[i]
  <2>1. g = [i \in 1 .. n + 1 |-> IF i = 1 THEN tt[i] ELSE g[i - 1] \o tt[i]]
    BY <1>2 DEF Joins
  <2> QED BY <2>1
<1>4. CASE n = 0
  <2>1. ss = <<>> /\ FlattenSeq(ss) = <<>>
    BY <1>4 DEF FlattenSeq
  <2>2. g[1] = s
    BY <1>1, <1>3, <1>4
  <2>3. <<>> \o s = s
    OBVIOUS
  <2>4. n + 1 = 1
    BY <1>4
  <2>5. FlattenSeq(tt) = FlattenSeq(ss) \o s
    BY <1>2, <2>1, <2>2, <2>3, <2>4
  <2>7. <<>> \in Seq(T)
    OBVIOUS
  <2>6. FlattenSeq(ss) \in Seq(T)
    BY <2>1, <2>7, Zenon
  <2> QED BY <2>5, <2>6 DEF tt
<1>5. CASE n # 0
  <2>1. PICK f : Joins(ss, n, f) /\ FlattenSeq(ss) = f[n]
    BY <1>1, <1>5, FlattenIs
  <2> HIDE DEF n
  <2>2. \A i \in 1 .. n : f[i] = IF i = 1 THEN ss[i] ELSE f[i - 1] \o ss[i]
    <3>1. f = [i \in 1 .. n |-> IF i = 1 THEN ss[i] ELSE f[i - 1] \o ss[i]]
      BY <2>1 DEF Joins
    <3> QED BY <3>1
  <2> DEFINE P == {m \in Nat : m \in 1 .. n => f[m] = g[m] /\ f[m] \in Seq(T)}
  <2>3. 0 \in P
    OBVIOUS
  <2>4. ASSUME NEW m \in Nat, m \in P PROVE m + 1 \in P
    <3> SUFFICES ASSUME m + 1 \in 1 .. n PROVE f[m + 1] = g[m + 1] /\ f[m + 1] \in Seq(T)
      BY DEF P
    <3>1. m + 1 \in 1 .. n + 1 /\ tt[m + 1] = ss[m + 1] /\ ss[m + 1] \in Seq(T)
      BY <1>1
    <3>2. CASE m = 0
      BY <1>3, <2>2, <3>1, <3>2
    <3>3. CASE m # 0
      <4>1. m \in 1 .. n /\ m + 1 # 1 /\ m + 1 - 1 = m
        BY <1>1, <3>3
      <4>2. f[m] = g[m] /\ f[m] \in Seq(T)
        BY <2>4, <4>1
      <4> DEFINE k == m + 1
      <4>3. k \in 1 .. n /\ k \in 1 .. n + 1 /\ k # 1 /\ k - 1 = m /\ tt[k] = ss[k] /\ ss[k] \in Seq(T)
        BY <3>1, <4>1
      <4> HIDE DEF k
      <4>4. f[k] = f[m] \o ss[k] /\ g[k] = g[m] \o tt[k]
        BY <1>3, <2>2, <4>3
      <4>5. f[m] \o ss[k] \in Seq(T)
        BY <4>2, <4>3
      <4>6. f[k] = g[k] /\ f[k] \in Seq(T)
        BY <4>2, <4>3, <4>4, <4>5, Zenon
      <4> QED BY <4>6 DEF k
    <3> QED BY <3>2, <3>3
  <2> HIDE DEF P
  <2>5. n \in P
    BY <1>1, <2>3, <2>4, ByInduction
  <2>6. f[n] = g[n] /\ f[n] \in Seq(T)
    BY <1>1, <1>5, <2>5 DEF P
  <2>7. g[n + 1] = g[n] \o s
    <3> DEFINE k == n + 1
    <3>1. k \in 1 .. n + 1 /\ k # 1 /\ k - 1 = n /\ tt[k] = s
      BY <1>1, <1>5
    <3> HIDE DEF k
    <3>2. g[k] = g[n] \o s
      BY <1>3, <3>1
    <3> QED BY <3>2 DEF k
  <2> QED BY <1>2, <2>1, <2>6, <2>7 DEF tt
<1> QED BY <1>4, <1>5

(* The stack without its marks, one element at a time.                     *)
LEMMA UnmarkedIs ==
  ASSUME NEW m, NEW S, \A a \in S : a # Null => Meant(m, a) \in S,
         NEW s \in Seq(S), NEW x \in S
  PROVE  /\ Unmarked(m, <<>>) = <<>> /\ Unmarked(m, s) \in Seq(S)
         /\ Unmarked(m, Append(s, x)) =
              IF x = Null THEN Unmarked(m, s) ELSE Append(Unmarked(m, s), Meant(m, x))
<1> DEFINE piece(a) == IF a = Null THEN <<>> ELSE <<Meant(m, a)>>
           ss == [k \in DOMAIN s |-> piece(s[k])]
           t == Append(s, x)
<1>1. DOMAIN s = 1 .. Len(s) /\ Len(s) \in Nat /\ \A k \in DOMAIN s : s[k] \in S
  OBVIOUS
<1>2. \A a \in S : piece(a) \in Seq(S)
  OBVIOUS
<1>3. ss \in Seq(Seq(S)) /\ Len(ss) = Len(s) /\ \A k \in 1 .. Len(s) : ss[k] = piece(s[k])
  <2> HIDE DEF piece
  <2> QED BY <1>1, <1>2
<1>4. DOMAIN t = 1 .. Len(s) + 1 /\ t[Len(s) + 1] = x /\ \A k \in 1 .. Len(s) : t[k] = s[k]
  BY <1>1
<1>5. [k \in DOMAIN t |-> piece(t[k])] = Append(ss, piece(x))
  <2> HIDE DEF piece, t, ss
  <2> DEFINE u == Append(ss, piece(x))
  <2>1. /\ DOMAIN u = 1 .. Len(s) + 1 /\ u[Len(s) + 1] = piece(x)
        /\ \A k \in 1 .. Len(s) : u[k] = ss[k]
        /\ u = [k \in 1 .. Len(s) + 1 |-> u[k]]
    <3>1. /\ u \in Seq(Seq(S)) /\ DOMAIN u = 1 .. Len(ss) + 1 /\ u[Len(ss) + 1] = piece(x)
          /\ \A k \in 1 .. Len(ss) : u[k] = ss[k]
      BY <1>2, <1>3, Extended
    <3> HIDE DEF u
    <3>2. u = [k \in DOMAIN u |-> u[k]]
      BY <3>1
    <3> QED BY <1>3, <3>1, <3>2
  <2> HIDE DEF u
  <2>2. ASSUME NEW k \in 1 .. Len(s) + 1 PROVE u[k] = piece(t[k])
    <3>1. CASE k = Len(s) + 1
      BY <1>4, <2>1, <3>1
    <3>2. CASE k # Len(s) + 1
      <4>1. k \in 1 .. Len(s)
        BY <1>1, <3>2
      <4> QED BY <1>3, <1>4, <2>1, <4>1
    <3> QED BY <3>1, <3>2
  <2> QED BY <1>4, <2>1, <2>2 DEF u
<1>6. Unmarked(m, s) = FlattenSeq(ss) /\ Unmarked(m, t) = FlattenSeq(Append(ss, piece(x)))
  BY <1>5 DEF Unmarked
<1>7. FlattenSeq(ss) \in Seq(S) /\ FlattenSeq(Append(ss, piece(x))) = FlattenSeq(ss) \o piece(x)
  <2> HIDE DEF ss, piece
  <2> QED BY <1>2, <1>3, FlattenAppended
<1>8. Unmarked(m, <<>>) = <<>>
  <2>1. [k \in DOMAIN <<>> |-> piece(<<>>[k])] = <<>>
    OBVIOUS
  <2>2. FlattenSeq(<<>>) = <<>>
    BY DEF FlattenSeq
  <2> QED BY <2>1, <2>2 DEF Unmarked
<1> DEFINE f == FlattenSeq(ss)
           y == Meant(m, x)
<1>9. f \in Seq(S) => f \o <<>> = f /\ (y \in S => f \o <<y>> = Append(f, y))
  <2> HIDE DEF f, y
  <2> QED OBVIOUS
<1> QED BY <1>6, <1>7, <1>8, <1>9

LEMMA Grown ==
  ASSUME NEW S, NEW s \in Seq(S), NEW k \in Nat, k + 1 <= Len(s)
  PROVE  SubSeq(s, 1, k + 1) = Append(SubSeq(s, 1, k), s[k + 1])
<1> DEFINE m == k + 1
           u == SubSeq(s, 1, k)
           v == SubSeq(s, 1, m)
           t == Append(u, s[m])
<1>1. m \in Nat /\ m > 0 /\ k \in Int /\ k <= Len(s) /\ m <= Len(s) /\ Len(s) \in Nat
  BY LenProperties
<1>2. s[m] \in S
  BY <1>1, ElementOfSeq
<1>3. u \in Seq(S) /\ Len(u) = k /\ \A i \in 1 .. k : u[i] = s[i]
  <2> HIDE DEF u
  <2> QED BY <1>1, Prefixed DEF u
<1>4. v \in Seq(S) /\ DOMAIN v = 1 .. m /\ \A i \in 1 .. m : v[i] = s[i]
  <2> HIDE DEF v, m
  <2> QED BY <1>1, Prefixed DEF v
<1> HIDE DEF u, v
<1>5. t \in Seq(S) /\ DOMAIN t = 1 .. m /\ t[m] = s[m] /\ \A i \in 1 .. k : t[i] = u[i]
  <2> HIDE DEF t, m
  <2>1. /\ t \in Seq(S) /\ DOMAIN t = 1 .. Len(u) + 1 /\ t[Len(u) + 1] = s[m]
        /\ \A i \in 1 .. Len(u) : t[i] = u[i]
    BY <1>2, <1>3, Extended DEF t
  <2> QED BY <1>3, <2>1 DEF m
<1>6. \A i \in 1 .. m : t[i] = v[i]
  <2> SUFFICES ASSUME NEW i \in 1 .. m PROVE t[i] = v[i]
    OBVIOUS
  <2>1. CASE i = m
    BY <1>4, <1>5, <2>1
  <2>2. CASE i # m
    <3>1. i \in 1 .. k
      BY <2>2
    <3> QED BY <1>3, <1>4, <1>5, <3>1
  <2> QED BY <2>1, <2>2
<1>7. t = [i \in DOMAIN t |-> t[i]] /\ v = [i \in DOMAIN v |-> v[i]]
  <2> HIDE DEF t, m
  <2> QED BY <1>4, <1>5
<1> HIDE DEF t, m
<1>8. t = v
  BY <1>4, <1>5, <1>6, <1>7
<1> QED BY <1>8 DEF t, m, u, v

(* Marks at the end of a stack are nothing.                                *)
LEMMA TrailingMarks ==
  ASSUME NEW m, NEW S, \A a \in S : a # Null => Meant(m, a) \in S,
         NEW s \in Seq(S), NEW k \in 0 .. Len(s), \A j \in k + 1 .. Len(s) : s[j] = Null
  PROVE  Unmarked(m, SubSeq(s, 1, k)) = Unmarked(m, s)
<1> DEFINE n == Len(s)
           P == {d \in Nat : k + d <= n => Unmarked(m, SubSeq(s, 1, k + d)) = Unmarked(m, SubSeq(s, 1, k))}
<1>1. n \in Nat /\ k \in Nat /\ k <= n
  BY LenProperties
<1>2. 0 \in P
  <2>1. k + 0 = k
    BY <1>1
  <2> QED BY <2>1
<1>3. ASSUME NEW d \in Nat, d \in P PROVE d + 1 \in P
  <2> SUFFICES ASSUME k + (d + 1) <= n
               PROVE  Unmarked(m, SubSeq(s, 1, k + (d + 1))) = Unmarked(m, SubSeq(s, 1, k))
    OBVIOUS
  <2> DEFINE e == k + d
             u == SubSeq(s, 1, e)
  <2>1. e \in Nat /\ e + 1 <= n /\ e <= n /\ e \in Int /\ k + (d + 1) = e + 1 /\ e + 1 \in k + 1 .. n
    BY <1>1
  <2>2. Unmarked(m, u) = Unmarked(m, SubSeq(s, 1, k))
    BY <1>3, <2>1
  <2> HIDE DEF e, P
  <2>3. u \in Seq(S)
    BY <2>1, Prefixed
  <2>4. s[e + 1] = Null /\ s[e + 1] \in S
    BY <1>1, <2>1, ElementOfSeq
  <2>5. SubSeq(s, 1, e + 1) = Append(u, s[e + 1])
    BY <2>1, Grown
  <2> HIDE DEF u
  <2>6. Unmarked(m, Append(u, s[e + 1])) = Unmarked(m, u)
    BY <2>3, <2>4, UnmarkedIs
  <2> QED BY <2>1, <2>2, <2>5, <2>6
<1> HIDE DEF P
<1>4. n - k \in P
  <2>1. Nat \subseteq P
    BY <1>2, <1>3, ByInduction
  <2> QED BY <1>1, <2>1
<1>5. Unmarked(m, SubSeq(s, 1, n)) = Unmarked(m, SubSeq(s, 1, k))
  <2>1. k + (n - k) = n
    BY <1>1
  <2> QED BY <1>1, <1>4, <2>1 DEF P
<1>6. SubSeq(s, 1, n) = s
  OBVIOUS
<1> QED BY <1>5, <1>6

(* Only a count is another address than it is meant to be.                 *)
LEMMA MeantIs ==
  ASSUME mem \in Memories
  PROVE  /\ \A a \in Addresses : Meant(mem, a) \in Addresses
         /\ \A a \in Addresses : Word(a).op # "count" => Meant(mem, a) = a
         /\ \A a \in Marks : a # Null => Meant(mem, a) \in Marks
<1>1. ASSUME NEW a \in Addresses, Word(a).op = "count" PROVE <<a[1], a[2] + 1>> \in Addresses
  <2>1. Width(Word(a).op) = 1
    BY <1>1 DEF Width
  <2>2. <<a[1], a[2] + Width(Word(a).op)>> \in Addresses
    BY <1>1, NextCommand DEF Calls!Closing
  <2> QED BY <2>1, <2>2
<1>2. \A a \in Addresses : Meant(mem, a) \in Addresses
  BY <1>1 DEF Meant, Word
<1> QED BY <1>2 DEF Meant, Word, Marks

(* The stack's lists, one by one.                                          *)
LEMMA UnmarkedMore ==
  ASSUME mem \in Memories, NEW s \in Seq(Marks), NEW x \in Marks
  PROVE  /\ Unmarked(mem, <<>>) = <<>> /\ Unmarked(mem, s) \in Seq(Marks)
         /\ x = Null => Unmarked(mem, Append(s, x)) = Unmarked(mem, s)
         /\ x # Null => Unmarked(mem, Append(s, x)) = Append(Unmarked(mem, s), Meant(mem, x))
         /\ x # Null => Meant(mem, x) \in Marks
<1>1. \A a \in Marks : a # Null => Meant(mem, a) \in Marks
  BY MeantIs
<1>2. /\ Unmarked(mem, <<>>) = <<>> /\ Unmarked(mem, s) \in Seq(Marks)
      /\ Unmarked(mem, Append(s, x)) =
           IF x = Null THEN Unmarked(mem, s) ELSE Append(Unmarked(mem, s), Meant(mem, x))
  BY <1>1, UnmarkedIs
<1> QED BY <1>1, <1>2

(* The command is the innermost list that waits, the callers below it are  *)
(* the others.                                                             *)
LEMMA FramesAre ==
  ASSUME Stacks, Alive, mem \in Memories, state # "lost"
  PROVE  /\ Rest \in Seq(Marks) /\ Len(Rest) = Len(stack) - 1 /\ Unmarked(mem, Rest) \in Seq(Marks)
         /\ \A i \in 1 .. Len(stack) - 1 : Rest[i] = stack[i]
         /\ Cmd \in Addresses /\ Cmd \in Marks /\ Null \in Marks
         /\ Frames # <<>> /\ Frames = Append(Unmarked(mem, Rest), Meant(mem, Cmd))
         /\ Calls!Outer = Unmarked(mem, Rest)
         /\ Word(Cmd).op # "count" =>
              Calls!Top = Cmd /\ Calls!Now = Word(Cmd) /\ Calls!Target = SegAddr(Word(Cmd).to)
<1> DEFINE n == Len(stack)
<1>1. n \in Nat \ {0} /\ stack \in Seq(Marks) /\ Cmd = stack[n] /\ Cmd \in Addresses /\ Null \notin Addresses
  BY AtCommand DEF Stacks
<1>2. Cmd \in Marks /\ Null \in Marks /\ Cmd # Null
  BY <1>1 DEF Marks
<1>3. Rest \in Seq(Marks) /\ Len(Rest) = n - 1 /\ \A i \in 1 .. n - 1 : Rest[i] = stack[i]
  <2>1. n - 1 \in Int /\ n - 1 <= Len(stack) /\ (IF n - 1 > 0 THEN n - 1 ELSE 0) = n - 1
    <3>1. n - 1 \in Int /\ n - 1 <= n /\ (~(n - 1 > 0) => n - 1 = 0)
      <4> HIDE DEF n
      <4> QED BY <1>1
    <3> QED BY <3>1
  <2> QED BY <1>1, <2>1, Prefixed DEF Rest
<1>4. stack = Append(Rest, Cmd)
  <2>1. n - 1 \in Nat /\ n - 1 + 1 = n
    BY <1>1
  <2>2. SubSeq(stack, 1, n - 1 + 1) = Append(SubSeq(stack, 1, n - 1), stack[n - 1 + 1])
    <3>1. n - 1 + 1 <= Len(stack)
      BY <1>1
    <3> QED BY <1>1, <2>1, <3>1, Grown
  <2>3. SubSeq(stack, 1, n) = stack
    BY <1>1
  <2> QED BY <1>1, <2>1, <2>2, <2>3 DEF Rest
<1> DEFINE r == Unmarked(mem, Rest)
           c == Meant(mem, Cmd)
<1>5. r \in Seq(Marks) /\ Frames = Append(r, c) /\ c \in Marks
  <2>1. r \in Seq(Marks) /\ Unmarked(mem, Append(Rest, Cmd)) = Append(r, c) /\ c \in Marks
    BY <1>2, <1>3, UnmarkedMore
  <2> QED BY <1>4, <2>1 DEF Frames
<1> HIDE DEF r, c
<1>6. Len(Append(r, c)) = Len(r) + 1 /\ Append(r, c)[Len(r) + 1] = c /\ Append(r, c) # <<>> /\ Len(r) \in Nat
  BY <1>5, Extended
<1>7. Frames # <<>> /\ Calls!Top = c
  BY <1>5, <1>6 DEF Calls!Top
<1>8. Calls!Outer = r
  <2>1. Len(Frames) - 1 = Len(r)
    BY <1>5, <1>6
  <2>2. SubSeq(Append(r, c), 1, Len(r)) = r
    BY <1>5
  <2> QED BY <1>5, <2>1, <2>2 DEF Calls!Outer
<1>11. Word(Cmd).op # "count" => c = Cmd
  BY <1>1, MeantIs DEF c
<1>9. Word(Cmd).op # "count" => Calls!Now = Word(Cmd)
  BY <1>7, <1>11 DEF Calls!Now, Word
<1>10. Word(Cmd).op # "count" => Calls!Target = SegAddr(Word(Cmd).to)
  BY <1>9 DEF Calls!Target, SegAddr
<1> QED BY <1>1, <1>2, <1>3, <1>5, <1>7, <1>8, <1>9, <1>10, <1>11 DEF r, c

(* The command left behind, and the lists entered in its place.            *)
LEMMA MovedIs ==
  ASSUME Stacks, Alive, mem \in Memories, mem' = mem, state # "lost", state' # "lost",
         NEW next \in Addresses, stack' = Append(Rest, next)
  PROVE  Frames' = Append(Calls!Outer, Meant(mem, next))
<1>1. Rest \in Seq(Marks) /\ Calls!Outer = Unmarked(mem, Rest)
  BY FramesAre
<1>2. next \in Marks /\ next # Null
  BY AddressIs DEF Marks
<1> DEFINE q == Rest
           r == Unmarked(mem, Rest)
<1>3. Unmarked(mem, Append(q, next)) = Append(r, Meant(mem, next))
  BY <1>1, <1>2, UnmarkedMore
<1> QED BY <1>1, <1>3 DEF Frames

LEMMA OnwardIs ==
  ASSUME Stacks, Alive, mem \in Memories, mem' = mem, state # "lost", state' # "lost",
         Word(Cmd).op \notin Calls!Closing \union {"count"}
  PROVE  /\ Behind = Calls!Behind(mem, Calls!Top)
         /\ stack' = Append(Rest, Behind) => Frames' = Append(Calls!Outer, Behind)
         /\ \A sub \in Lists :
              CallTo(sub) => Frames' = Calls!Outer \o <<Behind, <<sub, 1>>>>
<1>1. /\ Rest \in Seq(Marks) /\ Unmarked(mem, Rest) \in Seq(Marks) /\ Cmd \in Addresses
      /\ Calls!Top = Cmd /\ Calls!Outer = Unmarked(mem, Rest)
  BY FramesAre
<1>2. Word(Cmd).op # "data" /\ Null \notin Addresses
  BY AtCommand
<1>3. Behind \in Addresses /\ Behind = Calls!Behind(mem, Cmd) /\ Word(Behind).op # "count"
  BY <1>1, <1>2, BehindIs DEF Calls!Data
<1>4. Behind \in Marks /\ Behind # Null /\ Meant(mem, Behind) = Behind
  BY <1>2, <1>3, MeantIs DEF Marks
<1> DEFINE b == Behind
           r == Unmarked(mem, Rest)
           q == Rest
<1>5. Unmarked(mem, Append(q, b)) = Append(r, b)
  BY <1>1, <1>4, UnmarkedMore
<1>6. stack' = Append(q, b) => Frames' = Append(r, b)
  BY <1>5 DEF Frames
<1>7. ASSUME NEW sub \in Lists, CallTo(sub) PROVE Frames' = r \o <<b, <<sub, 1>>>>
  <2> DEFINE c == <<sub, 1>>
  <2>1. c \in Marks /\ c # Null /\ Meant(mem, c) = c
    BY <1>2, AddressIs, MeantIs DEF Marks, Calls!Data
  <2>2. stack' = q \o <<b, c>>
    BY <1>7 DEF CallTo
  <2> HIDE DEF b, c, q
  <2>3. q \in Seq(Marks) /\ b \in Marks /\ r \in Seq(Marks)
    BY <1>1, <1>4 DEF b, q
  <2>4. q \o <<b, c>> = Append(Append(q, b), c) /\ r \o <<b, c>> = Append(Append(r, b), c)
    <3> HIDE DEF r
    <3> QED BY <2>1, <2>3
  <2>5. Append(q, b) \in Seq(Marks)
    BY <2>3
  <2>6. Unmarked(mem, Append(Append(q, b), c)) = Append(Unmarked(mem, Append(q, b)), c)
    BY <2>1, <2>5, UnmarkedMore
  <2>7. Frames' = Append(Append(r, b), c)
    BY <1>5, <2>2, <2>4, <2>6 DEF Frames
  <2> QED BY <2>4, <2>7 DEF b, c
<1> QED BY <1>1, <1>3, <1>6, <1>7

LEMMA BranchIs ==
  ASSUME Stacks, Alive, mem \in Memories, mem' = mem, state # "lost", state' # "lost",
         NEW sub \in Lists, BranchTo(sub)
  PROVE  Frames' = Append(Calls!Outer, <<sub, 1>>)
<1> DEFINE c == <<sub, 1>>
           q == Rest
           r == Unmarked(mem, Rest)
<1>1. q \in Seq(Marks) /\ r \in Seq(Marks) /\ Null \in Marks /\ Calls!Outer = r
  BY FramesAre
<1>2. c \in Marks /\ c # Null /\ Meant(mem, c) = c
  BY AddressIs, MeantIs DEF Marks, Calls!Data
<1>3. stack' = q \o <<Null, c>>
  BY DEF BranchTo
<1> HIDE DEF c, q
<1>4. q \o <<Null, c>> = Append(Append(q, Null), c)
  BY <1>1, <1>2
<1>5. Append(q, Null) \in Seq(Marks)
  BY <1>1
<1>6. Unmarked(mem, Append(Append(q, Null), c)) = Append(Unmarked(mem, Append(q, Null)), c)
  BY <1>2, <1>5, UnmarkedMore
<1>7. Unmarked(mem, Append(q, Null)) = Unmarked(mem, q)
  BY <1>1, UnmarkedMore
<1> QED BY <1>1, <1>3, <1>4, <1>6, <1>7 DEF Frames, c, q

LEMMA ReturnIs ==
  ASSUME Stacks, Alive, mem \in Memories, mem' = mem, state # "lost", state' # "lost",
         stack' = SubSeq(stack, 1, Kept)
  PROVE  Frames' = Calls!Outer
<1> DEFINE n == Len(stack)
<1>1. /\ Rest \in Seq(Marks) /\ Len(Rest) = n - 1 /\ Calls!Outer = Unmarked(mem, Rest)
      /\ \A i \in 1 .. n - 1 : Rest[i] = stack[i]
  BY FramesAre
<1>2. Kept \in 0 .. n - 1 /\ \A j \in Kept + 1 .. n - 1 : stack[j] = Null
  BY KeptIs
<1>3. n \in Nat \ {0} /\ stack \in Seq(Marks)
  BY AtCommand DEF Stacks
<1>4. \A j \in Kept + 1 .. Len(Rest) : Rest[j] = Null
  BY <1>1, <1>2, <1>3
<1>5. Unmarked(mem, SubSeq(Rest, 1, Kept)) = Unmarked(mem, Rest)
  <2> HIDE DEF n
  <2>1. Kept \in 0 .. Len(Rest)
    BY <1>1, <1>2
  <2> QED BY <1>1, <1>4, <2>1, TrailingMarks, MeantIs
<1>6. SubSeq(Rest, 1, Kept) = SubSeq(stack, 1, Kept)
  <2> DEFINE k == Kept
             u == SubSeq(Rest, 1, k)
             v == SubSeq(stack, 1, k)
  <2>1. k \in Int /\ k <= Len(Rest) /\ k <= Len(stack) /\ 1 .. k \subseteq 1 .. n - 1
    BY <1>1, <1>2, <1>3
  <2> HIDE DEF k, n
  <2>2. u \in Seq(Marks) /\ DOMAIN u = 1 .. k /\ \A i \in 1 .. k : u[i] = Rest[i]
    BY <1>1, <2>1, Prefixed
  <2>3. v \in Seq(Marks) /\ DOMAIN v = 1 .. k /\ \A i \in 1 .. k : v[i] = stack[i]
    BY <1>3, <2>1, Prefixed
  <2> HIDE DEF u, v
  <2>4. u = [i \in DOMAIN u |-> u[i]] /\ v = [i \in DOMAIN v |-> v[i]]
    BY <2>2, <2>3
  <2>5. u = v
    BY <1>1, <2>1, <2>2, <2>3, <2>4
  <2> QED BY <2>5 DEF u, v, k
<1> QED BY <1>1, <1>5, <1>6 DEF Frames

(* A step over a command.                                                  *)
LEMMA SteppedOver ==
  ASSUME Stacks, Alive, mem \in Memories, mem' = mem, state # "lost", state' # "lost",
         stack' = Append(Rest, Behind),
         \/ UNCHANGED segment /\ \/ Word(Cmd).op \in Calls!Simple \union {"branchZ"}
                                 \/ Word(Cmd).op \in Calls!Calling /\ SegAddr(Word(Cmd).to) = Null
         \/ Word(Cmd).op = "segment" /\ segment' = Word(Cmd).to
  PROVE  Calls!Next
<1>0. Word(Cmd).op \notin Calls!Closing \union {"count"}
  BY DEF Calls!Simple, Calls!Textures, Calls!Calling, Calls!Closing
<1>1. Frames # <<>> /\ Calls!Now = Word(Cmd) /\ Calls!Target = SegAddr(Word(Cmd).to)
  BY <1>0, FramesAre
<1>2. Frames' = Append(Calls!Outer, Calls!Behind(mem, Calls!Top))
  BY <1>0, OnwardIs
<1>3. Calls!Continue \/ Calls!SetSegment
  BY <1>1, <1>2 DEF Calls!Continue, Calls!SetSegment, Calls!Simple, Calls!Calling
<1> QED BY <1>1, <1>3 DEF Calls!Next

LEMMA Branched ==
  ASSUME Stacks, Alive, mem \in Memories, mem' = mem, state # "lost", state' # "lost",
         Word(Cmd).op \in {"branch", "branchZ"},
         segment \in Movable, SegAddr(Word(Cmd).to) # Null,
         BranchTo(SegAddr(Word(Cmd).to)), UNCHANGED segment
  PROVE  Calls!Next
<1>1. Frames # <<>> /\ Calls!Now = Word(Cmd) /\ Calls!Target = SegAddr(Word(Cmd).to) /\ Cmd \in Addresses
  BY FramesAre
<1>2. SegAddr(Word(Cmd).to) \in Lists
  BY <1>1, Targets
<1>3. Frames' = Append(Calls!Outer, <<SegAddr(Word(Cmd).to), 1>>)
  BY <1>2, BranchIs
<1>4. Calls!Branch
  BY <1>1, <1>3 DEF Calls!Branch
<1> QED BY <1>1, <1>4 DEF Calls!Next

(* A missing image takes the command behind it along, unless the words     *)
(* behind that are not a command.                                          *)
LEMMA MissRuns ==
  ASSUME Stacks, Alive, mem \in Memories, mem' = mem, state = "running", MissTexture
  PROVE  Calls!Next
<1> DEFINE next == <<Cmd[1], Behind[2] + 1>>
           found == next[2] \in DOMAIN mem[next[1]] /\ Word(next).op # "data"
<1>1. Word(Cmd).op \in Calls!Textures /\ segment' = segment
  BY DEF MissTexture, Stepping
<1>2. Word(Cmd).op \notin Calls!Closing \union {"data", "count"}
  BY <1>1 DEF Calls!Textures, Calls!Closing
<1>3. Frames # <<>> /\ Calls!Top = Cmd /\ Calls!Now = Word(Cmd) /\ Cmd \in Addresses
  BY <1>2, FramesAre
<1>4. Behind \in Addresses /\ Behind[1] = Cmd[1] /\ Behind = Calls!Behind(mem, Cmd)
      /\ Word(Behind).op \notin Calls!Data
  BY <1>2, <1>3, BehindIs
<1> DEFINE b == Behind
           op == Word(b).op
           kept == op = "vtx" \/ (op \notin Calls!Closing /\ Calls!Words(op) = 1)
<1>5. Calls!Miss <=> Frames' = IF kept THEN Append(Calls!Outer, Calls!Behind(mem, b)) ELSE <<>>
  BY <1>1, <1>3, <1>4 DEF Calls!Miss, Word
<1>6. b[1] \in Lists /\ b[2] \in Nat /\ DOMAIN mem[b[1]] = 1 .. Len(mem[b[1]]) /\ Len(mem[b[1]]) \in Nat
  BY <1>4, AddressIs
<1>7. next = <<b[1], b[2] + 1>> /\ next[1] = b[1] /\ next[2] = b[2] + 1
  BY <1>4
<1>8. Width(op) = Calls!Words(op) /\ Width(op) \in 1 .. 3 /\ (op = "vtx" => Width(op) = 2)
  BY DEF Width, Calls!Words
<1>9. ASSUME op \notin Calls!Closing
      PROVE  /\ Calls!Behind(mem, b) = <<b[1], b[2] + Width(op)>>
             /\ Calls!Behind(mem, b) \in Addresses /\ Word(Calls!Behind(mem, b)).op \notin Calls!Data
             /\ Width(op) > 1 =>
                  mem[b[1]][b[2] + 1].op = IF op = "vtx" THEN "count" ELSE "data"
  <2>1. op \notin Calls!Closing \union {"data"}
    BY <1>4, <1>9 DEF Calls!Data
  <2> QED BY <1>4, <2>1, NextCommand, WordsBehind
<1>10. CASE op \in Calls!Closing
  <2>1. ~kept
    BY <1>10 DEF Calls!Closing
  <2>2. ~found
    <3>1. ASSUME found PROVE FALSE
      <4>1. next \in Addresses
        BY <1>6, <1>7, <3>1, AddressAt
      <4>2. next[2] > b[2]
        BY <1>6, <1>7
      <4> QED BY <1>4, <1>7, <1>10, <4>1, <4>2, NoneBehind
    <3> QED BY <3>1
  <2>3. Frames' = <<>>
    BY <2>2 DEF MissTexture, Frames
  <2> QED BY <1>3, <1>5, <2>1, <2>3 DEF Calls!Next
<1>11. CASE op \notin Calls!Closing
  <2>1. CASE op = "vtx" \/ Width(op) = 1
    <3>1. kept
      BY <1>8, <1>11, <2>1
    <3>2. found /\ next \in Addresses /\ Meant(mem, next) = Calls!Behind(mem, b)
      <4>1. CASE op = "vtx"
        <5>1. next \in Addresses /\ Word(next).op = "count" /\ <<next[1], next[2] + 1>> = <<b[1], b[2] + Width(op)>>
          BY <1>4, <1>7, <4>1, VtxCount
        <5>2. next[2] \in DOMAIN mem[next[1]]
          BY <5>1, AddressIs
        <5> QED BY <1>9, <1>11, <5>1, <5>2 DEF Meant, Word
      <4>2. CASE Width(op) = 1
        <5>1. Calls!Behind(mem, b) = next
          BY <1>7, <1>9, <1>11, <4>2
        <5>2. next \in Addresses /\ Word(next).op # "data" /\ Word(next).op # "count"
          BY <1>9, <1>11, <5>1 DEF Calls!Data
        <5>3. next[2] \in DOMAIN mem[next[1]]
          BY <5>2, AddressIs
        <5> QED BY <5>1, <5>2, <5>3, MeantIs
      <4> QED BY <2>1, <4>1, <4>2
    <3> HIDE DEF kept
    <3>3. stack' = Append(Rest, next) /\ state' = state
      BY <3>2 DEF MissTexture
    <3> HIDE DEF next
    <3>4. Frames' = Append(Calls!Outer, Meant(mem, next))
      BY <3>2, <3>3, MovedIs
    <3> QED BY <1>3, <1>5, <3>1, <3>2, <3>4 DEF Calls!Next
  <2>2. CASE op # "vtx" /\ Width(op) # 1
    <3>1. ~kept
      BY <1>8, <2>2
    <3>2. ~found
      BY <1>7, <1>8, <1>9, <1>11, <2>2 DEF Word
    <3>3. Frames' = <<>>
      BY <3>2 DEF MissTexture, Frames
    <3> QED BY <1>3, <1>5, <3>1, <3>3 DEF Calls!Next
  <2> QED BY <2>1, <2>2
<1> QED BY <1>10, <1>11

(* Every step of the interpreter is one of the lists it runs, or over a    *)
(* count,                                                                  *)
LEMMA StepRuns == IInv /\ Step => [Calls!Next]_<<mem, segment, Frames>>
<1> SUFFICES ASSUME IInv, Step PROVE [Calls!Next]_<<mem, segment, Frames>>
  OBVIOUS
<1>0. state = "running"
  BY DEF Step, Skip, GuardVtx, MissTexture, SetSegment, CallDl, BranchDl, BranchZ, EndDl, Stepping
<1>1. Stacks /\ mem \in Memories /\ segment \in Movable /\ Alive /\ state # "lost"
  BY <1>0, Parts DEF Others
<1>2. /\ Frames # <<>> /\ Cmd \in Addresses
      /\ Word(Cmd).op # "count" =>
           Calls!Top = Cmd /\ Calls!Now = Word(Cmd) /\ Calls!Target = SegAddr(Word(Cmd).to)
  BY <1>1, FramesAre
<1>3. mem' = mem
  BY DEF Step, Skip, GuardVtx, MissTexture, SetSegment, CallDl, BranchDl, BranchZ, EndDl, StepOver, Enter
<1>10. ~MissTexture => state' # "lost"
  BY <1>0 DEF Step, Skip, GuardVtx, SetSegment, CallDl, BranchDl, BranchZ, EndDl, StepOver
<1>11. CASE MissTexture
  BY <1>0, <1>1, <1>3, <1>11, MissRuns
<1>12. CASE GuardVtx
  <2> DEFINE next == <<Cmd[1], Cmd[2] + 1>>
  <2>1. Word(Cmd).op = "vtx" /\ stack' = Append(Rest, next) /\ segment' = segment /\ state' = state
    BY <1>12 DEF GuardVtx, Stepping
  <2>2. next \in Addresses /\ Word(next).op = "count" /\ <<next[1], next[2] + 1>> = Behind
    BY <1>1, <1>2, <2>1, VtxCount DEF Behind
  <2>3. Meant(mem, next) = Behind
    BY <2>2 DEF Meant, Word
  <2> HIDE DEF next
  <2>4. Frames' = Append(Calls!Outer, Behind)
    BY <1>1, <1>3, <2>1, <2>2, <2>3, MovedIs
  <2>5. Behind = Calls!Behind(mem, Cmd)
    BY <1>1, <1>2, <2>1, BehindIs DEF Calls!Closing
  <2>6. Calls!Continue
    BY <1>2, <2>1, <2>4, <2>5 DEF Calls!Continue, Calls!Simple
  <2> QED BY <1>2, <1>3, <2>6 DEF Calls!Next
<1>4. CASE Skip
  <2>1. /\ Word(Cmd).op \in Calls!Simple \union {"count"} /\ stack' = Append(Rest, Behind)
        /\ UNCHANGED segment /\ state' = state
    BY <1>4 DEF Skip, Stepping, StepOver
  <2>2. CASE Word(Cmd).op \in Calls!Simple
    BY <1>1, <1>3, <2>1, <2>2, SteppedOver
  <2>3. CASE Word(Cmd).op = "count"
    <3>1. /\ Behind \in Addresses /\ Word(Behind).op # "count"
          /\ Behind = <<Cmd[1], Cmd[2] + Width(Word(Cmd).op)>> /\ Width(Word(Cmd).op) = 1
      BY <1>1, <1>2, <2>3, BehindIs DEF Calls!Closing, Calls!Data, Behind, Width
    <3>2. Meant(mem, Behind) = Behind /\ Meant(mem, Cmd) = Behind
      BY <1>1, <2>3, <3>1, MeantIs DEF Meant, Word
    <3>3. Frames' = Append(Calls!Outer, Behind)
      BY <1>1, <1>3, <2>1, <3>1, <3>2, MovedIs
    <3>4. Frames = Append(Calls!Outer, Behind)
      BY <1>1, <3>2, FramesAre
    <3> QED BY <1>3, <2>1, <3>3, <3>4
  <2> QED BY <2>1, <2>2, <2>3
<1>5. CASE SetSegment
  <2>1. /\ Word(Cmd).op = "segment" /\ stack' = Append(Rest, Behind)
        /\ segment' = Word(Cmd).to /\ state' = state
    BY <1>5 DEF SetSegment, Stepping, StepOver
  <2> QED BY <1>1, <1>3, <2>1, SteppedOver
<1>6. CASE CallDl
  <2>1. Word(Cmd).op \in Calls!Calling /\ UNCHANGED segment
    BY <1>6 DEF CallDl, Stepping
  <2>2. Word(Cmd).op \notin Calls!Closing \union {"count"} /\ state' # "lost"
    BY <1>6, <1>10, <2>1 DEF Calls!Calling, Calls!Closing, MissTexture, Stepping, Calls!Textures
  <2>3. CASE SegAddr(Word(Cmd).to) = Null
    <3>1. stack' = Append(Rest, Behind)
      BY <1>6, <2>3 DEF CallDl, StepOver
    <3> QED BY <1>1, <1>3, <2>1, <2>2, <2>3, <3>1, SteppedOver
  <2>4. CASE SegAddr(Word(Cmd).to) # Null
    <3>1. CallTo(SegAddr(Word(Cmd).to))
      BY <1>6, <2>4 DEF CallDl
    <3>2. SegAddr(Word(Cmd).to) \in Lists
      BY <1>1, <1>2, <2>4, Targets
    <3>3. Frames' = Calls!Outer \o <<Calls!Behind(mem, Calls!Top), <<SegAddr(Word(Cmd).to), 1>>>>
      BY <1>1, <1>3, <2>2, <3>1, <3>2, OnwardIs
    <3>4. Calls!Call
      BY <1>2, <2>1, <2>2, <2>4, <3>3 DEF Calls!Call
    <3> QED BY <1>2, <1>3, <3>4 DEF Calls!Next
  <2> QED BY <2>3, <2>4
<1>7. CASE BranchDl
  <2>1. Word(Cmd).op = "branch" /\ BranchTo(SegAddr(Word(Cmd).to)) /\ UNCHANGED <<segment, state>>
    BY <1>7 DEF BranchDl, Stepping
  <2>2. SegAddr(Word(Cmd).to) # Null
    BY <1>1, <1>2, <2>1, Targets
  <2> QED BY <1>1, <1>3, <2>1, <2>2, Branched
<1>8. CASE BranchZ
  <2>1. Word(Cmd).op = "branchZ" /\ UNCHANGED segment /\ state' = state
    BY <1>8 DEF BranchZ, Stepping, StepOver
  <2>2. CASE StepOver
    <3>1. stack' = Append(Rest, Behind)
      BY <2>2 DEF StepOver
    <3> QED BY <1>1, <1>3, <2>1, <3>1, SteppedOver
  <2>3. CASE Word(Cmd).to # Null /\ BranchTo(SegAddr(Word(Cmd).to))
    <3>1. SegAddr(Word(Cmd).to) # Null
      BY <1>1, <1>2, <2>1, <2>3, Targets
    <3> QED BY <1>1, <1>3, <2>1, <2>3, <3>1, Branched
  <2> QED BY <1>8, <2>2, <2>3 DEF BranchZ
<1>9. CASE EndDl
  <2>1. Word(Cmd).op = "end" /\ stack' = SubSeq(stack, 1, Kept) /\ UNCHANGED segment
    BY <1>9 DEF EndDl, Stepping
  <2>4. state' # "lost"
    BY <1>9 DEF EndDl
  <2>2. Frames' = Calls!Outer
    BY <1>1, <1>3, <2>1, <2>4, ReturnIs
  <2>3. Calls!EndDl
    BY <1>2, <2>1, <2>2 DEF Calls!EndDl
  <2> QED BY <1>2, <1>3, <2>3 DEF Calls!Next
<1> QED BY <1>4, <1>5, <1>6, <1>7, <1>8, <1>9, <1>11, <1>12 DEF Step

(* and a frame starts as theirs does; the debugger is not part of them.    *)
LEMMA NextRuns == IInv /\ [Next]_vars => [Calls!Next]_<<mem, segment, Frames>>
<1> SUFFICES ASSUME IInv, [Next]_vars PROVE [Calls!Next]_<<mem, segment, Frames>>
  OBVIOUS
<1>1. CASE UNCHANGED machine /\ (state' = "lost" <=> state = "lost")
  <2>1. UNCHANGED <<mem, segment, Frames>>
    BY <1>1 DEF machine, Frames
  <2> QED BY <2>1
<1>2. CASE Run
  <2> DEFINE c == <<Root, 1>>
  <2>1. stack' = <<c>> /\ UNCHANGED <<mem, segment>> /\ state' = "running"
    BY <1>2 DEF Run
  <2>0. mem \in Memories
    BY DEF IInv, TypeOK
  <2>2. c \in Marks /\ c # Null /\ Meant(mem, c) = c
    BY <2>0, AddressIs, MeantIs, ListsAssumption DEF Marks, Calls!Data
  <2> HIDE DEF c
  <2>3. <<>> \in Seq(Marks) /\ <<c>> = Append(<<>>, c)
    OBVIOUS
  <2>4. Unmarked(mem, <<c>>) = <<c>>
    <3>1. /\ Unmarked(mem, <<>>) = <<>>
          /\ Unmarked(mem, Append(<<>>, c)) = Append(Unmarked(mem, <<>>), Meant(mem, c))
      BY <2>0, <2>2, <2>3, UnmarkedMore
    <3> QED BY <2>2, <2>3, <3>1
  <2>5. Frames' = <<c>>
    BY <2>1, <2>4 DEF Frames
  <2> QED BY <2>1, <2>5 DEF Calls!Next, Calls!Start, c
<1>3. CASE Step
  BY <1>3, StepRuns
<1>4. (UNCHANGED machine /\ (state' = "lost" <=> state = "lost")) \/ Run \/ Step
  BY DEF Next, DebugDisplayList, ResumeGame, DrawRoot, DrawNext, DrawSub, Draw, SetBreakPoint, Break,
         Between, Drawing, vars
<1> QED BY <1>1, <1>2, <1>3, <1>4

(* The stacks implement calls, branches and returns as display lists mean  *)
(* them, however deep the calls and however long the branches, and leave   *)
(* commands out behind missing images only.                                *)
THEOREM RunsAsWrittenHolds == Spec => RunsAsWritten
<1>1. Init => Calls!Init
  <2>1. Unmarked(mem, <<>>) = <<>>
    <3>1. <<>> \in Seq({Null}) /\ Null \in {Null}
      OBVIOUS
    <3>2. \A a \in {Null} : a # Null => Meant(mem, a) \in {Null}
      OBVIOUS
    <3> QED BY <3>1, <3>2, UnmarkedIs
  <2> QED BY <2>1 DEF Init, Calls!Init, Frames
<1> QED BY <1>1, NextRuns, IInvHolds, PTL DEF Spec, RunsAsWritten, Calls!Spec

------------------------------------------------------------------------------

(* One sequence behind another.                                             *)
LEMMA Concatenated ==
  ASSUME NEW S, NEW a \in Seq(S), NEW b \in Seq(S)
  PROVE  /\ a \o b \in Seq(S) /\ Len(a \o b) = Len(a) + Len(b)
         /\ \A i \in 1 .. Len(a) : (a \o b)[i] = a[i]
         /\ \A i \in 1 .. Len(b) : (a \o b)[Len(a) + i] = b[i]
OBVIOUS

(* Taking an element out of a sequence without repetitions.                 *)
LEMMA RemovedAt ==
  ASSUME NEW S, NEW s \in Seq(S), IsInjective(s), NEW n \in DOMAIN s
  PROVE  LET r == RemoveAt(s, n)
         IN  /\ r \in Seq(S) /\ IsInjective(r)
             /\ Range(r) = Range(s) \ {s[n]}
<1> DEFINE a == SubSeq(s, 1, n - 1)
           b == SubSeq(s, n + 1, Len(s))
           r == RemoveAt(s, n)
<1>1. n \in 1 .. Len(s) /\ Len(s) \in Nat /\ DOMAIN s = 1 .. Len(s)
  OBVIOUS
<1>2. a \in Seq(S) /\ Len(a) = n - 1 /\ \A i \in 1 .. n - 1 : a[i] = s[i]
  BY <1>1
<1>3. b \in Seq(S) /\ Len(b) = Len(s) - n /\ \A i \in 1 .. Len(s) - n : b[i] = s[n + i]
  BY <1>1
<1>4. r = a \o b
  BY DEF RemoveAt
<1>5. r \in Seq(S) /\ Len(r) = Len(s) - 1 /\ DOMAIN r = 1 .. Len(s) - 1
  <2> HIDE DEF a, b, r
  <2>0. a \in Seq(S) /\ b \in Seq(S)
    BY <1>2, <1>3
  <2>1. a \o b \in Seq(S) /\ Len(a \o b) = Len(a) + Len(b)
    BY <2>0, Concatenated
  <2>2. Len(a) + Len(b) = Len(s) - 1
    BY <1>1, <1>2, <1>3
  <2>3. r \in Seq(S) /\ Len(r) = Len(s) - 1
    BY <1>4, <2>1, <2>2
  <2> QED BY <2>3
<1>6. \A i \in 1 .. Len(s) - 1 : r[i] = IF i < n THEN s[i] ELSE s[i + 1]
  <2> TAKE i \in 1 .. Len(s) - 1
  <2>1. CASE i < n
    <3> HIDE DEF a, b, r
    <3> QED BY <1>1, <1>2, <1>3, <1>4, <2>1
  <2>2. CASE ~(i < n)
    <3>1. i - (n - 1) \in 1 .. Len(b) /\ i = Len(a) + (i - (n - 1))
      <4> HIDE DEF a, b, r
      <4> QED BY <1>1, <1>2, <1>3, <2>2
    <3>2. (a \o b)[i] = b[i - (n - 1)]
      <4> HIDE DEF a, b, r
      <4> DEFINE j == i - (n - 1)
      <4>1. j \in 1 .. Len(b) /\ i = Len(a) + j
        BY <3>1
      <4> HIDE DEF j
      <4>2. (a \o b)[Len(a) + j] = b[j]
        <5>1. a \in Seq(S) /\ b \in Seq(S)
          BY <1>2, <1>3
        <5> QED BY <4>1, <5>1, Concatenated
      <4> QED BY <4>1, <4>2 DEF j
    <3>3. b[i - (n - 1)] = s[i + 1]
      <4> HIDE DEF a, b, r
      <4>1. n + (i - (n - 1)) = i + 1
        BY <1>1
      <4> QED BY <1>3, <3>1, <4>1
    <3> QED BY <3>2, <3>3, <1>4, <2>2
  <2> QED BY <2>1, <2>2
<1> HIDE DEF r, a, b
<1>11. \A i, j \in 1 .. Len(s) : s[i] = s[j] => i = j
  BY <1>1 DEF IsInjective
<1>7. IsInjective(r)
  <2> SUFFICES ASSUME NEW i \in DOMAIN r, NEW j \in DOMAIN r, r[i] = r[j] PROVE i = j
    BY DEF IsInjective
  <2>1. /\ i \in 1 .. Len(s) - 1 /\ r[i] = IF i < n THEN s[i] ELSE s[i + 1]
        /\ j \in 1 .. Len(s) - 1 /\ r[j] = IF j < n THEN s[j] ELSE s[j + 1]
    BY <1>5, <1>6
  <2>2. /\ i \in 1 .. Len(s) /\ i + 1 \in 1 .. Len(s)
        /\ j \in 1 .. Len(s) /\ j + 1 \in 1 .. Len(s)
    BY <1>1, <2>1
  <2>3. n \in Int /\ i \in Int /\ j \in Int
    BY <1>1, <2>1
  <2>4. CASE i < n /\ j < n
    BY <1>11, <2>1, <2>2, <2>4
  <2>5. CASE i < n /\ ~(j < n)
    <3>1. s[i] = s[j + 1]
      BY <2>1, <2>5
    <3>2. i = j + 1
      BY <1>11, <2>2, <3>1
    <3> QED BY <2>3, <2>5, <3>2
  <2>6. CASE ~(i < n) /\ j < n
    <3>1. s[i + 1] = s[j]
      BY <2>1, <2>6
    <3>2. i + 1 = j
      BY <1>11, <2>2, <3>1
    <3> QED BY <2>3, <2>6, <3>2
  <2>7. CASE ~(i < n) /\ ~(j < n)
    <3>1. s[i + 1] = s[j + 1]
      BY <2>1, <2>7
    <3>2. i + 1 = j + 1
      BY <1>11, <2>2, <3>1
    <3> QED BY <2>3, <3>2
  <2> QED BY <2>4, <2>5, <2>6, <2>7
<1>8. ASSUME NEW x \in Range(r) PROVE x \in Range(s) \ {s[n]}
  <2>1. PICK i \in DOMAIN r : x = r[i]
    BY <1>8 DEF Range
  <2>2. i \in 1 .. Len(s) - 1 /\ x = IF i < n THEN s[i] ELSE s[i + 1]
    BY <1>5, <1>6, <2>1
  <2>3. PICK j \in 1 .. Len(s) : x = s[j] /\ j # n
    <3>1. CASE i < n
      BY <1>1, <2>2, <3>1
    <3>2. CASE ~(i < n)
      <4>1. i + 1 \in 1 .. Len(s) /\ i + 1 # n
        BY <1>1, <2>2, <3>2
      <4> QED BY <2>2, <3>2, <4>1
    <3> QED BY <3>1, <3>2
  <2>4. x # s[n]
    BY <1>1, <1>11, <2>3
  <2> QED BY <1>1, <2>3, <2>4 DEF Range
<1>9. ASSUME NEW x \in Range(s) \ {s[n]} PROVE x \in Range(r)
  <2>1. PICK i \in DOMAIN s : x = s[i]
    BY <1>9 DEF Range
  <2>2. i # n
    BY <1>9, <2>1
  <2>3. CASE i < n
    <3>1. i \in DOMAIN r /\ r[i] = x
      BY <1>1, <1>5, <1>6, <2>1, <2>3
    <3> QED BY <3>1 DEF Range
  <2>4. CASE i > n
    <3>1. i - 1 \in 1 .. Len(s) - 1 /\ ~(i - 1 < n) /\ (i - 1) + 1 = i
      BY <1>1, <2>1, <2>4
    <3>2. r[i - 1] = x
      BY <1>6, <2>1, <3>1
    <3> QED BY <3>1, <3>2, <1>5 DEF Range
  <2> QED BY <1>1, <2>1, <2>2, <2>3, <2>4
<1> QED BY <1>5, <1>7, <1>8, <1>9 DEF r

(* Adding a new element behind a sequence without repetitions.              *)
LEMMA AppendedTo ==
  ASSUME NEW S, NEW s \in Seq(S), IsInjective(s), NEW x \in S, x \notin Range(s)
  PROVE  LET r == Append(s, x)
         IN  /\ r \in Seq(S) /\ IsInjective(r) /\ r # <<>> /\ Last(r) = x
             /\ Range(r) = Range(s) \union {x}
<1> DEFINE r == Append(s, x)
<1>1. /\ r \in Seq(S) /\ Len(r) = Len(s) + 1 /\ r[Len(s) + 1] = x
      /\ \A i \in 1 .. Len(s) : r[i] = s[i]
  OBVIOUS
<1>2. Len(s) \in Nat /\ DOMAIN s = 1 .. Len(s) /\ DOMAIN r = 1 .. Len(s) + 1
  OBVIOUS
<1> HIDE DEF r
<1>3. \A i \in DOMAIN s : s[i] # x
  BY DEF Range
<1>4. IsInjective(r)
  <2> SUFFICES ASSUME NEW i \in DOMAIN r, NEW j \in DOMAIN r, r[i] = r[j] PROVE i = j
    BY DEF IsInjective
  <2> QED BY <1>1, <1>2, <1>3 DEF IsInjective
<1>5. ASSUME NEW y \in Range(r) PROVE y \in Range(s) \union {x}
  <2>1. PICK i \in DOMAIN r : y = r[i]
    BY <1>5 DEF Range
  <2> QED BY <1>1, <1>2, <2>1 DEF Range
<1>6. ASSUME NEW y \in Range(s) PROVE y \in Range(r)
  <2>1. PICK i \in DOMAIN s : y = s[i]
    BY <1>6 DEF Range
  <2>2. i \in DOMAIN r /\ r[i] = y
    BY <1>1, <1>2, <2>1
  <2> QED BY <2>2 DEF Range
<1>7. x \in Range(r)
  BY <1>1, <1>2 DEF Range
<1>8. r # <<>> /\ Last(r) = x
  BY <1>1, <1>2 DEF Last
<1> QED BY <1>1, <1>4, <1>5, <1>6, <1>7, <1>8 DEF r

(* Taking the last element off a sequence without repetitions.              *)
LEMMA FrontOf ==
  ASSUME NEW S, NEW s \in Seq(S), IsInjective(s), s # <<>>
  PROVE  /\ Front(s) \in Seq(S) /\ IsInjective(Front(s))
         /\ Range(Front(s)) = Range(s) \ {Last(s)} /\ Last(s) \in Range(s) /\ Last(s) \in S
<1>1. Len(s) \in Nat /\ Len(s) # 0 /\ DOMAIN s = 1 .. Len(s)
  OBVIOUS
<1>2. Front(s) = SubSeq(s, 1, Len(s) - 1)
  BY DEF Front
<1>3. /\ Front(s) \in Seq(S) /\ DOMAIN Front(s) = 1 .. Len(s) - 1
      /\ \A i \in 1 .. Len(s) - 1 : Front(s)[i] = s[i]
  BY <1>1, <1>2
<1>4. ASSUME NEW y \in Range(s) \ {Last(s)} PROVE y \in Range(Front(s))
  <2>1. PICK i \in DOMAIN s : y = s[i]
    BY <1>4 DEF Range
  <2>2. i \in 1 .. Len(s) - 1
    BY <1>1, <1>4, <2>1 DEF Last
  <2> QED BY <1>3, <2>1, <2>2 DEF Range
<1>5. ASSUME NEW y \in Range(Front(s)) PROVE y \in Range(s) \ {Last(s)}
  <2>1. PICK i \in 1 .. Len(s) - 1 : y = s[i]
    BY <1>3, <1>5 DEF Range
  <2> QED BY <1>1, <2>1 DEF Range, Last, IsInjective
<1>6. IsInjective(Front(s))
  BY <1>1, <1>3 DEF IsInjective
<1>7. Last(s) \in Range(s) /\ Last(s) \in S
  BY <1>1 DEF Range, Last
<1> QED BY <1>3, <1>4, <1>5, <1>6, <1>7

(* What is cached is finite.                                                *)
LEMMA CachedFinite ==
  ASSUME NEW c \in Caches, Range(c.lru) = Cached(c)
  PROVE  IsFiniteSet(Cached(c))
<1> DEFINE D == 1 .. Len(c.lru)
           f == [n \in D |-> c.lru[n]]
<1>1. c.lru \in Seq(Images) /\ DOMAIN c.lru = D /\ Len(c.lru) \in Nat
  BY DEF Caches
<1>2. IsFiniteSet(D)
  BY <1>1, FS_Interval
<1>3. f \in Surjection(D, Range(c.lru))
  BY <1>1 DEF Surjection, Range
<1>4. IsFiniteSet(Range(c.lru))
  BY <1>2, <1>3, FS_Surjection
<1> QED BY <1>4

(* The place of a cached image in the order.                                *)
LEMMA Located ==
  ASSUME NEW c \in Caches, CacheWell(c), NEW k \in Cached(c)
  PROVE  /\ LruLocation(c, k) \in DOMAIN c.lru /\ c.lru[LruLocation(c, k)] = k
         /\ Unlinked(c, k) \in Seq(Images) /\ IsInjective(Unlinked(c, k))
         /\ Range(Unlinked(c, k)) = Cached(c) \ {k}
<1>1. c.lru \in Seq(Images) /\ IsInjective(c.lru) /\ Range(c.lru) = Cached(c)
  BY DEF Caches, CacheWell
<1>2. \E n \in DOMAIN c.lru : c.lru[n] = k
  BY <1>1 DEF Range
<1>3. LruLocation(c, k) \in DOMAIN c.lru /\ c.lru[LruLocation(c, k)] = k
  BY <1>2, Zenon DEF LruLocation
<1>4. LET r == RemoveAt(c.lru, LruLocation(c, k))
      IN  /\ r \in Seq(Images) /\ IsInjective(r)
          /\ Range(r) = Range(c.lru) \ {c.lru[LruLocation(c, k)]}
  BY <1>1, <1>3, RemovedAt, Zenon
<1> QED BY <1>1, <1>3, <1>4 DEF Unlinked

(* What Forget does to a cache.                                             *)
LEMMA ForgetIs ==
  ASSUME NEW c \in Caches, CacheWell(c), NEW k \in Cached(c)
  PROVE  /\ Forget(c, k) \in Caches /\ CacheWell(Forget(c, k))
         /\ Cached(Forget(c, k)) = Cached(c) \ {k}
         /\ \A l \in Images \ {k} : /\ Forget(c, k).id[l] = c.id[l]
                                    /\ Forget(c, k).hw[l] = c.hw[l]
<1> DEFINE d == Forget(c, k)
<1>1. /\ c.id \in [Images -> Nat] /\ c.hw \in [Images -> Hw] /\ c.lru \in Seq(Images)
      /\ c.free \in Seq(Nat) /\ c.made \in Nat /\ k \in Images /\ c.id[k] \in Nat
  BY DEF Caches, Cached
<1>2. /\ Unlinked(c, k) \in Seq(Images) /\ IsInjective(Unlinked(c, k))
      /\ Range(Unlinked(c, k)) = Cached(c) \ {k}
  BY Located
<1>3. IsInjective(c.free) /\ c.id[k] \notin Range(c.free)
  BY DEF CacheWell
<1>4. /\ Append(c.free, c.id[k]) \in Seq(Nat) /\ IsInjective(Append(c.free, c.id[k]))
      /\ Range(Append(c.free, c.id[k])) = Range(c.free) \union {c.id[k]}
  <2>1. c.free \in Seq(Nat) /\ c.id[k] \in Nat
    BY <1>1
  <2> QED BY <1>3, <2>1, AppendedTo
<1>5. /\ d.id = [c.id EXCEPT ![k] = 0] /\ d.hw = [c.hw EXCEPT ![k] = DefaultHw]
      /\ d.lru = Unlinked(c, k) /\ d.free = Append(c.free, c.id[k]) /\ d.made = c.made
  BY DEF Forget, Caches
<1>6. d \in Caches
  <2>1. /\ 0 \in Nat /\ DefaultHw \in Hw /\ Unlinked(c, k) \in Seq(Images)
        /\ Append(c.free, c.id[k]) \in Seq(Nat)
    BY <1>2, <1>4, HwAssumption
  <2> QED BY <2>1 DEF Forget, Caches
<1> HIDE DEF d
<1>7. Cached(d) = Cached(c) \ {k}
  BY <1>1, <1>5 DEF Cached
<1>8. \A l \in Images \ {k} : d.id[l] = c.id[l] /\ d.hw[l] = c.hw[l]
  BY <1>1, <1>5
<1>9. CacheWell(d)
  <2>1. IsInjective(d.lru) /\ Range(d.lru) = Cached(d)
    BY <1>2, <1>5, <1>7
  <2>2. Cardinality(Cached(d)) <= CacheSize
    <3>1. IsFiniteSet(Cached(c)) /\ Cardinality(Cached(c)) <= CacheSize
      BY CachedFinite DEF CacheWell
    <3>2. /\ IsFiniteSet(Cached(d)) /\ Cardinality(Cached(d)) \in Nat
          /\ Cardinality(Cached(c)) \in Nat /\ Cardinality(Cached(d)) <= Cardinality(Cached(c))
      BY <3>1, <1>7, FS_Subset, FS_CardinalityType
    <3> QED BY <3>1, <3>2, CacheSizeAssumption
  <2>3. \A j, l \in Cached(d) : d.id[j] = d.id[l] => j = l
    BY <1>7, <1>8 DEF CacheWell, Cached
  <2>4. IsInjective(d.free) /\ \A l \in Cached(d) : d.id[l] \notin Range(d.free)
    <3>1. \A l \in Cached(c) \ {k} : c.id[l] # c.id[k] /\ c.id[l] \notin Range(c.free)
      BY DEF CacheWell
    <3> QED BY <1>4, <1>5, <1>7, <1>8, <3>1 DEF Cached
  <2>5. Range(d.free) \union {d.id[l] : l \in Cached(d)} = 1 .. d.made
    <3>1. Range(c.free) \union {c.id[l] : l \in Cached(c)} = 1 .. c.made
      BY DEF CacheWell
    <3>2. {d.id[l] : l \in Cached(d)} \union {c.id[k]} = {c.id[l] : l \in Cached(c)}
      BY <1>7, <1>8 DEF Cached
    <3> QED BY <1>4, <1>5, <3>1, <3>2
  <2>6. d.made <= CacheSize
    BY <1>5 DEF CacheWell
  <2> QED BY <2>1, <2>2, <2>3, <2>4, <2>5, <2>6 DEF CacheWell
<1> QED BY <1>2, <1>5, <1>6, <1>7, <1>8, <1>9 DEF d

(* What Insert does to a cache with room.                                   *)
LEMMA InsertIs ==
  ASSUME NEW c \in Caches, CacheWell(c), NEW k \in Images \ Cached(c),
         Cardinality(Cached(c)) < CacheSize
  PROVE  /\ Insert(c, k) \in Caches /\ CacheWell(Insert(c, k))
         /\ Cached(Insert(c, k)) = Cached(c) \union {k}
         /\ \A l \in Images \ {k} : /\ Insert(c, k).id[l] = c.id[l]
                                    /\ Insert(c, k).hw[l] = c.hw[l]
         /\ Insert(c, k).hw[k] = DefaultHw /\ Last(Insert(c, k).lru) = k
         /\ Insert(c, k).lru # <<>>
<1> DEFINE d == Insert(c, k)
           reuse == c.free # <<>>
           new == IF reuse THEN Last(c.free) ELSE c.made + 1
<1>1. /\ c.id \in [Images -> Nat] /\ c.hw \in [Images -> Hw] /\ c.lru \in Seq(Images)
      /\ c.free \in Seq(Nat) /\ c.made \in Nat /\ k \in Images
  BY DEF Caches, Cached
<1>2. /\ IsInjective(c.lru) /\ Range(c.lru) = Cached(c) /\ IsInjective(c.free)
      /\ \A l \in Cached(c) : c.id[l] \notin Range(c.free)
      /\ Range(c.free) \union {c.id[l] : l \in Cached(c)} = 1 .. c.made
      /\ \A j, l \in Cached(c) : c.id[j] = c.id[l] => j = l
      /\ c.made <= CacheSize
  BY DEF CacheWell
<1>3. /\ Append(c.lru, k) \in Seq(Images) /\ IsInjective(Append(c.lru, k))
      /\ Append(c.lru, k) # <<>> /\ Last(Append(c.lru, k)) = k
      /\ Range(Append(c.lru, k)) = Range(c.lru) \union {k}
  <2>1. c.lru \in Seq(Images) /\ k \in Images /\ k \notin Range(c.lru) /\ IsInjective(c.lru)
    BY <1>1, <1>2
  <2> QED BY <2>1, AppendedTo
<1>4. /\ d.id = [c.id EXCEPT ![k] = new] /\ d.hw = [c.hw EXCEPT ![k] = DefaultHw]
      /\ d.lru = Append(c.lru, k) /\ d.free = (IF reuse THEN Front(c.free) ELSE c.free)
      /\ d.made = (IF reuse THEN c.made ELSE c.made + 1)
  BY DEF Insert, Caches
<1>12. ASSUME new \in Nat, d.free \in Seq(Nat), d.made \in Nat PROVE d \in Caches
  <2>1. DefaultHw \in Hw /\ Append(c.lru, k) \in Seq(Images)
    BY <1>3, HwAssumption
  <2>2. /\ (IF reuse THEN Front(c.free) ELSE c.free) \in Seq(Nat)
        /\ (IF reuse THEN c.made ELSE c.made + 1) \in Nat
    BY <1>4, <1>12
  <2> QED BY <1>12, <2>1, <2>2 DEF Insert, Caches
<1> HIDE DEF d
<1>5. IsFiniteSet(Cached(c)) /\ Cardinality(Cached(c)) \in Nat
  BY <1>2, CachedFinite, FS_CardinalityType
<1>6. ASSUME ~reuse PROVE c.made + 1 <= CacheSize
  <2> DEFINE f == [l \in Cached(c) |-> c.id[l]]
  <2>1. {c.id[l] : l \in Cached(c)} = 1 .. c.made
    BY <1>2, <1>6 DEF Range
  <2>2. f \in Surjection(Cached(c), 1 .. c.made)
    BY <2>1 DEF Surjection
  <2>3. Cardinality(1 .. c.made) <= Cardinality(Cached(c))
    BY <2>2, <1>5, FS_Surjection
  <2>4. Cardinality(1 .. c.made) = c.made
    <3>1. 1 \in Int /\ c.made \in Int /\ c.made >= 0
      BY <1>1
    <3>2. Cardinality(1 .. c.made) = IF 1 > c.made THEN 0 ELSE c.made - 1 + 1
      BY ONLY <3>1, FS_Interval, Zenon
    <3> QED BY <3>1, <3>2
  <2> QED BY <2>3, <2>4, <1>1, <1>5, CacheSizeAssumption
<1>7. /\ d.free \in Seq(Nat) /\ IsInjective(d.free) /\ new \in Nat /\ new # 0
      /\ new \notin Range(d.free) /\ \A l \in Cached(c) : c.id[l] # new /\ c.id[l] \notin Range(d.free)
      /\ Range(d.free) \union {c.id[l] : l \in Cached(c)} \union {new} = 1 .. d.made
      /\ d.made \in Nat /\ d.made <= CacheSize
  <2>1. CASE reuse
    <3>1. /\ Front(c.free) \in Seq(Nat) /\ IsInjective(Front(c.free))
          /\ Range(Front(c.free)) = Range(c.free) \ {Last(c.free)}
          /\ Last(c.free) \in Range(c.free) /\ Last(c.free) \in Nat
      BY <1>1, <1>2, <2>1, FrontOf, Zenon
    <3>2. new = Last(c.free) /\ d.free = Front(c.free) /\ d.made = c.made
      BY <1>4, <2>1
    <3>3. Last(c.free) \in 1 .. c.made
      BY <1>2, <3>1
    <3>4. \A l \in Cached(c) : c.id[l] # Last(c.free) /\ c.id[l] \notin Range(Front(c.free))
      BY <1>2, <3>1
    <3>5. Range(Front(c.free)) \union {c.id[l] : l \in Cached(c)} \union {Last(c.free)} = 1 .. c.made
      BY <1>2, <3>1
    <3> HIDE DEF new
    <3> QED BY <1>1, <1>2, <3>1, <3>2, <3>3, <3>4, <3>5
  <2>2. CASE ~reuse
    <3>1. new = c.made + 1 /\ d.free = c.free /\ d.made = c.made + 1
      BY <1>4, <2>2
    <3>2. /\ c.made + 1 \notin Range(c.free) /\ \A l \in Cached(c) : c.id[l] # c.made + 1
      <4>1. c.made + 1 \notin 1 .. c.made
        BY <1>1
      <4> QED BY <4>1, <1>2
    <3>3. 1 .. (c.made + 1) = (1 .. c.made) \union {c.made + 1}
      BY <1>1
    <3>4. Range(c.free) \union {c.id[l] : l \in Cached(c)} \union {c.made + 1} = 1 .. (c.made + 1)
      BY <1>2, <3>3
    <3>5. c.made + 1 \in Nat /\ c.made + 1 # 0 /\ c.made + 1 <= CacheSize
      BY <1>1, <1>6, <2>2
    <3> HIDE DEF new
    <3> QED BY <1>1, <1>2, <3>1, <3>2, <3>4, <3>5
  <2> QED BY <2>1, <2>2
<1> HIDE DEF new, reuse
<1>8. d \in Caches
  BY <1>7, <1>12
<1>9. Cached(d) = Cached(c) \union {k} /\ d.id[k] = new /\ d.hw[k] = DefaultHw
  BY <1>1, <1>4, <1>7 DEF Cached
<1>10. \A l \in Images \ {k} : d.id[l] = c.id[l] /\ d.hw[l] = c.hw[l]
  BY <1>1, <1>4
<1>11. CacheWell(d)
  <2>0. \A l \in Cached(c) : l # k /\ l \in Images /\ d.id[l] = c.id[l]
    BY <1>10 DEF Cached
  <2>1. IsInjective(d.lru) /\ Range(d.lru) = Cached(d)
    BY <1>2, <1>3, <1>4, <1>9
  <2>2. Cardinality(Cached(d)) <= CacheSize
    <3>1. Cardinality(Cached(c) \union {k}) = Cardinality(Cached(c)) + 1
      BY <1>5, FS_AddElement
    <3> QED BY <3>1, <1>5, <1>9, CacheSizeAssumption
  <2>3. \A j, l \in Cached(d) : d.id[j] = d.id[l] => j = l
    BY <1>2, <1>7, <1>9, <2>0
  <2>4. IsInjective(d.free) /\ \A l \in Cached(d) : d.id[l] \notin Range(d.free)
    BY <1>7, <1>9, <2>0
  <2>5. Range(d.free) \union {d.id[l] : l \in Cached(d)} = 1 .. d.made
    <3>1. {d.id[l] : l \in Cached(d)} = {c.id[l] : l \in Cached(c)} \union {new}
      BY <1>9, <2>0
    <3> QED BY <1>7, <3>1
  <2>6. d.made <= CacheSize
    BY <1>7
  <2> QED BY <2>1, <2>2, <2>3, <2>4, <2>5, <2>6 DEF CacheWell
<1> QED BY <1>3, <1>4, <1>8, <1>9, <1>10, <1>11 DEF d

(* What Lookup does to a cache: k becomes the last of the order, and a cache*)
(* that is full gives up its first, which is not its last.                  *)
LEMMA LookupIs ==
  ASSUME NEW c \in Caches, CacheWell(c), NEW k \in Images
  PROVE  /\ Lookup(c, k) \in Caches /\ CacheWell(Lookup(c, k))
         /\ Cached(Lookup(c, k)) = (Cached(c) \union {k}) \ (IF Full(c, k) THEN {Head(c.lru)} ELSE {})
         /\ Full(c, k) => Head(c.lru) \in Cached(c) /\ Head(c.lru) # Last(c.lru)
         /\ \A l \in Cached(Lookup(c, k)) \ {k} : /\ Lookup(c, k).id[l] = c.id[l]
                                                  /\ Lookup(c, k).hw[l] = c.hw[l]
         /\ Last(Lookup(c, k).lru) = k
         /\ Lookup(c, k).id[k] \in 1 .. CacheSize
         /\ k \in Cached(c) => Lookup(c, k).id[k] = c.id[k] /\ Lookup(c, k).hw[k] = c.hw[k]
         /\ k \notin Cached(c) => Lookup(c, k).hw[k] = DefaultHw
<1> DEFINE d == Lookup(c, k)
<1>1. /\ c.lru \in Seq(Images) /\ IsInjective(c.lru) /\ Range(c.lru) = Cached(c)
      /\ Cardinality(Cached(c)) <= CacheSize /\ IsFiniteSet(Cached(c))
      /\ Cardinality(Cached(c)) \in Nat
  BY CachedFinite, FS_CardinalityType DEF Caches, CacheWell
<1>2. ASSUME d \in Caches, CacheWell(d), k \in Cached(d) PROVE d.id[k] \in 1 .. CacheSize
  <2> HIDE DEF d
  <2>1. d.id[k] \in 1 .. d.made /\ d.made <= CacheSize /\ d.made \in Nat
    BY <1>2 DEF CacheWell, Caches
  <2> QED BY <2>1, CacheSizeAssumption
<1>3. CASE k \in Cached(c)
  <2> DEFINE new == Append(Unlinked(c, k), k)
  <2>1. /\ Unlinked(c, k) \in Seq(Images) /\ IsInjective(Unlinked(c, k))
        /\ Range(Unlinked(c, k)) = Cached(c) \ {k}
    BY <1>3, Located
  <2>2. new \in Seq(Images) /\ IsInjective(new) /\ Range(new) = Cached(c) /\ Last(new) = k
    <3>1. k \notin Range(Unlinked(c, k))
      BY <2>1
    <3>2. /\ new \in Seq(Images) /\ IsInjective(new) /\ Last(new) = k
          /\ Range(new) = Range(Unlinked(c, k)) \union {k}
      BY <2>1, <3>1, AppendedTo
    <3> QED BY <2>1, <3>2, <1>3
  <2>3. d = [c EXCEPT !.lru = new] /\ ~Full(c, k)
    BY <1>3 DEF Lookup, Full
  <2> HIDE DEF new
  <2>4. /\ d \in Caches /\ d.lru = new
        /\ d.id = c.id /\ d.hw = c.hw /\ d.free = c.free /\ d.made = c.made
    BY <2>2, <2>3 DEF Caches
  <2> HIDE DEF d
  <2>5. Cached(d) = Cached(c)
    BY <2>4 DEF Cached
  <2>6. CacheWell(d)
    BY <2>2, <2>4, <2>5 DEF CacheWell
  <2> QED BY <1>1, <1>2, <1>3, <2>2, <2>3, <2>4, <2>5, <2>6 DEF d
<1>4. CASE k \notin Cached(c)
  <2> DEFINE r == Room(c, k)
  <2>1. d = Insert(r, k)
    BY <1>4 DEF Lookup
  <2>2. /\ r \in Caches /\ CacheWell(r) /\ k \notin Cached(r)
        /\ Cached(r) = Cached(c) \ (IF Full(c, k) THEN {Head(c.lru)} ELSE {})
        /\ Cardinality(Cached(r)) < CacheSize
        /\ \A l \in Cached(r) : r.id[l] = c.id[l] /\ r.hw[l] = c.hw[l]
        /\ Full(c, k) => Head(c.lru) \in Cached(c) /\ Head(c.lru) # Last(c.lru)
    <3>1. CASE Full(c, k)
      <4>1. Cardinality(Cached(c)) = CacheSize
        BY <1>1, <3>1, CacheSizeAssumption DEF Full
      <4>2. 2 <= Len(c.lru) /\ Len(c.lru) \in Nat /\ DOMAIN c.lru = 1 .. Len(c.lru)
        <5> DEFINE f == [n \in 1 .. Len(c.lru) |-> c.lru[n]]
        <5>1. Len(c.lru) \in Nat /\ DOMAIN c.lru = 1 .. Len(c.lru)
          BY <1>1
        <5>2. f \in Surjection(1 .. Len(c.lru), Cached(c))
          BY <1>1, <5>1 DEF Surjection, Range
        <5>3. Cardinality(Cached(c)) <= Len(c.lru)
          <6>1. IsFiniteSet(1 .. Len(c.lru)) /\ Cardinality(1 .. Len(c.lru)) = Len(c.lru)
            BY <5>1, FS_Interval
          <6> HIDE DEF f
          <6> QED BY <5>2, <6>1, FS_Surjection
        <5> QED BY <4>1, <5>1, <5>3, CacheSizeAssumption
      <4>3. Head(c.lru) = c.lru[1] /\ Last(c.lru) = c.lru[Len(c.lru)] /\ c.lru[1] # c.lru[Len(c.lru)]
        <5>1. Head(c.lru) = c.lru[1]
          BY <1>1, <4>2
        <5> QED BY <1>1, <4>2, <5>1 DEF Last, IsInjective
      <4>4. Head(c.lru) \in Cached(c)
        BY <1>1, <4>2, <4>3 DEF Range
      <4>5. r = Forget(c, Head(c.lru))
        BY <3>1 DEF Room, Evict
      <4>6. /\ r \in Caches /\ CacheWell(r) /\ Cached(r) = Cached(c) \ {Head(c.lru)}
            /\ \A l \in Images \ {Head(c.lru)} : r.id[l] = c.id[l] /\ r.hw[l] = c.hw[l]
        BY <4>4, <4>5, ForgetIs
      <4>7. Cardinality(Cached(r)) = CacheSize - 1
        BY <1>1, <4>1, <4>4, <4>6, FS_RemoveElement
      <4> QED BY <1>4, <3>1, <4>3, <4>4, <4>6, <4>7, CacheSizeAssumption DEF Cached
    <3>2. CASE ~Full(c, k)
      <4>1. r = c
        BY <3>2 DEF Room
      <4>2. Cardinality(Cached(c)) < CacheSize
        BY <1>1, <1>4, <3>2, CacheSizeAssumption DEF Full
      <4> QED BY <1>4, <3>2, <4>1, <4>2
    <3> QED BY <3>1, <3>2
  <2> HIDE DEF r
  <2>3. /\ d \in Caches /\ CacheWell(d) /\ Cached(d) = Cached(r) \union {k}
        /\ \A l \in Images \ {k} : d.id[l] = r.id[l] /\ d.hw[l] = r.hw[l]
        /\ d.hw[k] = DefaultHw /\ Last(d.lru) = k
    <3>1. k \in Images \ Cached(r) /\ r \in Caches /\ CacheWell(r) /\ Cardinality(Cached(r)) < CacheSize
      BY <2>2
    <3>2. /\ Insert(r, k) \in Caches /\ CacheWell(Insert(r, k))
          /\ Cached(Insert(r, k)) = Cached(r) \union {k}
          /\ \A l \in Images \ {k} : /\ Insert(r, k).id[l] = r.id[l]
                                     /\ Insert(r, k).hw[l] = r.hw[l]
          /\ Insert(r, k).hw[k] = DefaultHw /\ Last(Insert(r, k).lru) = k
      BY <3>1, InsertIs
    <3> HIDE DEF d
    <3> QED BY <2>1, <3>2
  <2> HIDE DEF d
  <2>4. Cached(d) = (Cached(c) \union {k}) \ (IF Full(c, k) THEN {Head(c.lru)} ELSE {})
    BY <1>4, <2>2, <2>3
  <2>5. \A l \in Cached(d) \ {k} : d.id[l] = c.id[l] /\ d.hw[l] = c.hw[l]
    BY <2>2, <2>3 DEF Cached
  <2> QED BY <1>2, <1>4, <2>2, <2>3, <2>4, <2>5 DEF d
<1> QED BY <1>3, <1>4

(* A deleted entry is gone and the others are as they were.                 *)
LEMMA DeleteIs ==
  ASSUME NEW c \in Caches, CacheWell(c), NEW k \in Images
  PROVE  /\ Delete(c, k) \in Caches /\ CacheWell(Delete(c, k))
         /\ Cached(Delete(c, k)) = Cached(c) \ {k}
         /\ \A l \in Cached(Delete(c, k)) : /\ Delete(c, k).id[l] = c.id[l]
                                            /\ Delete(c, k).hw[l] = c.hw[l]
<1>1. CASE k \in Cached(c)
  <2>1. Delete(c, k) = Forget(c, k)
    BY <1>1 DEF Delete
  <2>2. /\ Forget(c, k) \in Caches /\ CacheWell(Forget(c, k))
        /\ Cached(Forget(c, k)) = Cached(c) \ {k}
        /\ \A l \in Images \ {k} : /\ Forget(c, k).id[l] = c.id[l]
                                   /\ Forget(c, k).hw[l] = c.hw[l]
    BY <1>1, ForgetIs
  <2> QED BY <2>1, <2>2 DEF Cached
<1>2. CASE k \notin Cached(c)
  BY <1>2 DEF Delete
<1> QED BY <1>1, <1>2

(* A cleared cache is empty and has every texture object to use again.      *)
LEMMA ClearsAre ==
  ASSUME NEW c \in Caches, CacheWell(c), NEW d \in Clears(c)
  PROVE  d \in Caches /\ CacheWell(d) /\ Cached(d) = {}
<1>1. PICK s \in SetToSeqs(Cached(c)) :
        d = [c EXCEPT !.id = EmptyCache.id, !.hw = EmptyCache.hw, !.lru = <<>>,
                      !.free = @ \o [n \in DOMAIN s |-> c.id[s[n]]]]
  BY DEF Clears
<1> DEFINE N == Cardinality(Cached(c))
           t == [n \in DOMAIN s |-> c.id[s[n]]]
           f == c.free \o t
<1>2. /\ c.id \in [Images -> Nat] /\ c.free \in Seq(Nat) /\ c.made \in Nat
  BY DEF Caches
<1>3. /\ Range(c.lru) = Cached(c)
      /\ \A j, l \in Cached(c) : c.id[j] = c.id[l] => j = l
      /\ IsInjective(c.free) /\ \A l \in Cached(c) : c.id[l] \notin Range(c.free)
      /\ Range(c.free) \union {c.id[l] : l \in Cached(c)} = 1 .. c.made
      /\ c.made <= CacheSize
  BY DEF CacheWell
<1>4. IsFiniteSet(Cached(c)) /\ N \in Nat
  BY <1>3, CachedFinite, FS_CardinalityType
<1>5. DOMAIN s = 1 .. N /\ s \in [1 .. N -> Cached(c)] /\ \A i, j \in 1 .. N : i # j => s[i] # s[j]
  BY DEF SetToSeqs
<1>6. \A k \in Cached(c) : \E n \in 1 .. N : s[n] = k
  <2>1. s \in Injection(1 .. N, Cached(c))
    BY <1>5 DEF Injection, IsInjective
  <2>2. Cardinality(1 .. N) = N
    BY <1>4, FS_Interval
  <2>3. s \in Surjection(1 .. N, Cached(c))
    BY <1>4, <2>1, <2>2, FS_Injection
  <2> QED BY <2>3 DEF Surjection
<1> HIDE DEF N
<1>7. /\ t \in Seq(Nat) /\ Len(t) = N /\ DOMAIN t = 1 .. N
      /\ \A n \in 1 .. N : t[n] = c.id[s[n]] /\ s[n] \in Cached(c)
  <2>1. \A n \in 1 .. N : s[n] \in Cached(c) /\ c.id[s[n]] \in Nat
    BY <1>2, <1>5 DEF Cached
  <2>2. t = [n \in 1 .. N |-> c.id[s[n]]]
    BY <1>5
  <2> QED BY <1>4, <2>1, <2>2
<1> HIDE DEF t
<1> DEFINE F == Len(c.free)
<1>8. /\ f \in Seq(Nat) /\ Len(f) = F + N /\ F \in Nat /\ DOMAIN f = 1 .. F + N
      /\ DOMAIN c.free = 1 .. F
      /\ \A i \in 1 .. F : f[i] = c.free[i] 
      /\ \A i \in 1 .. N : f[F + i] = t[i]
  <2>1. /\ f \in Seq(Nat) /\ Len(f) = Len(c.free) + Len(t)
        /\ \A i \in 1 .. Len(c.free) : f[i] = c.free[i]
        /\ \A i \in 1 .. Len(t) : f[Len(c.free) + i] = t[i]
    <3>1. c.free \in Seq(Nat) /\ t \in Seq(Nat)
      BY <1>2, <1>7
    <3>2. f = c.free \o t
      BY DEF f
    <3>3. ASSUME NEW a \in Seq(Nat), NEW b \in Seq(Nat), f = a \o b
          PROVE  /\ f \in Seq(Nat) /\ Len(f) = Len(a) + Len(b)
                 /\ \A i \in 1 .. Len(a) : f[i] = a[i]
                 /\ \A i \in 1 .. Len(b) : f[Len(a) + i] = b[i]
      <4> HIDE DEF f
      <4> QED BY <3>3, Concatenated
    <3> HIDE DEF f
    <3> QED BY <3>1, <3>2, <3>3
  <2> HIDE DEF f
  <2>2. F \in Nat /\ DOMAIN c.free = 1 .. F
    BY <1>2
  <2> QED BY <1>4, <1>7, <2>1, <2>2
<1> HIDE DEF f, F
<1>9. \A i \in 1 .. F + N : i \in 1 .. F \/ \E j \in 1 .. N : i = F + j
  <2> TAKE i \in 1 .. F + N
  <2>1. CASE i > F
    <3>1. i - F \in 1 .. N /\ i = F + (i - F)
      BY <1>4, <1>8, <2>1
    <3> QED BY <3>1
  <2> QED BY <1>4, <1>8, <2>1
<1>10. IsInjective(f)
  <2> SUFFICES ASSUME NEW i \in 1 .. F + N, NEW j \in 1 .. F + N, f[i] = f[j] PROVE i = j
    BY <1>8 DEF IsInjective
  <2>1. CASE i \in 1 .. F /\ j \in 1 .. F
    BY <1>3, <1>8, <2>1 DEF IsInjective
  <2>2. ASSUME NEW a \in 1 .. F, NEW b \in 1 .. N PROVE f[a] # f[F + b]
    <3>1. f[a] \in Range(c.free)
      BY <1>8 DEF Range
    <3>2. f[F + b] = c.id[s[b]] /\ s[b] \in Cached(c)
      BY <1>7, <1>8
    <3> QED BY <1>3, <3>1, <3>2
  <2>3. ASSUME NEW a \in 1 .. N, NEW b \in 1 .. N, f[F + a] = f[F + b] PROVE a = b
    <3>1. f[F + a] = c.id[s[a]] /\ s[a] \in Cached(c) /\ f[F + b] = c.id[s[b]] /\ s[b] \in Cached(c)
      BY <1>7, <1>8
    <3>2. s[a] = s[b]
      BY <1>3, <2>3, <3>1
    <3> QED BY <1>5, <3>2 
  <2> QED BY <1>9, <2>1, <2>2, <2>3
<1>11. Range(f) = 1 .. c.made
  <2>1. ASSUME NEW x \in Range(f) PROVE x \in 1 .. c.made
    <3>1. PICK i \in 1 .. F + N : x = f[i]
      BY <1>8, <2>1 DEF Range
    <3>2. CASE i \in 1 .. F
      BY <1>3, <1>8, <3>1, <3>2 DEF Range
    <3>3. CASE \E j \in 1 .. N : i = F + j
      <4>1. PICK j \in 1 .. N : i = F + j
        BY <3>3
      <4>2. x = t[j] /\ t[j] = c.id[s[j]] /\ s[j] \in Cached(c)
        BY <1>7, <1>8, <3>1, <4>1
      <4> QED BY <1>3, <4>2
    <3> QED BY <1>9, <3>2, <3>3
  <2>2. ASSUME NEW x \in 1 .. c.made PROVE x \in Range(f)
    <3>1. CASE x \in Range(c.free)
      <4>1. PICK i \in 1 .. F : x = c.free[i]
        BY <1>8, <3>1 DEF Range
      <4>2. i \in 1 .. F + N /\ x = f[i]
        BY <1>4, <1>8, <4>1
      <4> QED BY <1>8, <4>2 DEF Range
    <3>2. CASE \E l \in Cached(c) : x = c.id[l]
      <4>1. PICK n \in 1 .. N : x = c.id[s[n]]
        BY <1>6, <3>2
      <4>2. F + n \in 1 .. F + N /\ x = f[F + n]
        BY <1>4, <1>7, <1>8, <4>1
      <4> QED BY <1>8, <4>2 DEF Range
    <3> QED BY <1>3, <2>2, <3>1, <3>2
  <2> QED BY <2>1, <2>2
<1>12. d = [c EXCEPT !.id = EmptyCache.id, !.hw = EmptyCache.hw, !.lru = <<>>, !.free = f]
  BY <1>1 DEF f, t
<1>13. /\ EmptyCache.id = [k \in Images |-> 0] /\ EmptyCache.hw = [k \in Images |-> DefaultHw]
  BY DEF EmptyCache
<1>14. d \in Caches /\ d.id = [k \in Images |-> 0] /\ d.lru = <<>> /\ d.free = f /\ d.made = c.made
  <2>1. /\ EmptyCache.id \in [Images -> Nat] /\ EmptyCache.hw \in [Images -> Hw]
        /\ <<>> \in Seq(Images) /\ f \in Seq(Nat)
    BY <1>8, <1>13, HwAssumption
  <2>2. /\ d \in Caches /\ d.id = EmptyCache.id /\ d.lru = <<>> /\ d.free = f /\ d.made = c.made
    BY <1>12, <2>1 DEF Caches
  <2> QED BY <1>13, <2>2
<1>15. Cached(d) = {}
  BY <1>14 DEF Cached
<1>16. CacheWell(d)
  <2>1. IsInjective(d.lru) /\ Range(d.lru) = {}
    <3>1. DOMAIN d.lru = {}
      BY <1>14
    <3> QED BY <3>1 DEF IsInjective, Range
  <2>2. Cardinality(Cached(d)) <= CacheSize
    BY <1>15, FS_EmptySet, CacheSizeAssumption
  <2> QED BY <1>3, <1>10, <1>11, <1>14, <1>15, <2>1, <2>2 DEF CacheWell
<1> QED BY <1>14, <1>15, <1>16

(* A new cache is well.                                                     *)
LEMMA EmptyIs == EmptyCache \in Caches /\ CacheWell(EmptyCache) /\ Cached(EmptyCache) = {}
<1>1. EmptyCache \in Caches
  BY HwAssumption DEF EmptyCache, Caches
<1>2. Cached(EmptyCache) = {}
  BY DEF Cached, EmptyCache
<1>3. IsInjective(EmptyCache.lru) /\ Range(EmptyCache.lru) = {}
  BY DEF EmptyCache, IsInjective, Range
<1>4. IsInjective(EmptyCache.free) /\ Range(EmptyCache.free) = {} /\ EmptyCache.made = 0
  BY DEF EmptyCache, IsInjective, Range
<1>5. Cardinality(Cached(EmptyCache)) <= CacheSize /\ EmptyCache.made <= CacheSize /\ 1 .. 0 = {}
  BY <1>2, <1>4, FS_EmptySet, CacheSizeAssumption
<1> QED BY <1>1, <1>2, <1>3, <1>4, <1>5 DEF CacheWell

------------------------------------------------------------------------------
(* The strengthening.  A pointer of mRenderingState is to the node of the   *)
(* image its slot shows.                                                    *)
Bound(p) == \A i \in Slots : p.ptr[i] # Nothing =>
  p.ptr[i] \in Cached(p.cache) /\ p.gpu.unit[i] = p.cache.id[p.ptr[i]]

(* A cached image's texture object holds what the game last made of the     *)
(* image, and is sampled as its node remembers.                             *)
Uploaded(p, e) == \A k \in Cached(p.cache) :
  /\ p.gpu.hw[p.cache.id[k]] = p.cache.hw[k]
  /\ p.gpu.content[p.cache.id[k]] = <<k, e[k]>>

(* Nothing was drawn wrongly so far,                                        *)
Flushed == {"state", "frame", "texture", "sampler"}
Clean(p) ==
  /\ p.bad \intersect Flushed = {}
  /\ "program" \in p.bad => Late \in p.bad

(* nor would what is buffered be, were it flushed now.                      *)
Waiting(p) == \A w \in p.buffer :
  /\ \A a \in Flushed : Right(p, w, a)
  /\ Right(p, w, "program") \/ Late \in p.bad

Good(p, e) ==
  p \in Pipes /\ CacheWell(p.cache) /\ Bound(p) /\ Uploaded(p, e) /\ Clean(p) /\ Waiting(p)

(* Unless they are marked as changed, the GPU's viewport and scissor are v. *)
Facing(p, v) ==
  /\ p.seen # NoView => p.gpu.view = p.seen
  /\ ~p.viewChanged => p.gpu.view = v

(* A slot not marked as changed shows the image its tile names, which was   *)
(* used last if the other slot has still to be imported: so that import will*)
(* not evict it.                                                            *)
Image(f, i) == ImageOf(TileOf(f, i))
Showing(p, f) == \A i \in Slots \ p.changed :
  Image(f, i) # Nothing =>
    p.ptr[i] = Image(f, i) /\ (p.changed # {} => Last(p.cache.lru) = Image(f, i))

Rdp ==
  /\ view \in Views
  /\ first \in {0, 1}
  /\ tile \in [Tiles -> TileWords \union {NoTile}]
  /\ loaded \in [{0, 1} -> Images \union {Nothing}]
  /\ edits \in [Images -> 0 .. MaxEdits]
  /\ settled \in BOOLEAN

RdpInv ==
  Rdp /\ Good(pipe, edits) /\ Facing(pipe, view) /\ (settled => Showing(pipe, first))

(* What the operations of the renderer leave alone.                         *)
Textures(p) == <<p.changed, p.cache, p.ptr, p.gpu.unit, p.gpu.hw, p.gpu.content>>
Viewport(p) == <<p.viewChanged, p.seen, p.gpu.view>>
Modal(p) == <<p.gpu.depth, p.gpu.alpha, p.gpu.frame>>

LEMMA GpuIs ==
  ASSUME NEW p \in Pipes
  PROVE  /\ p.buffer \subseteq Wants /\ p.count \in 0 .. MaxTris - 1
         /\ p.bad \subseteq Faults /\ p.changed \subseteq Slots
         /\ p.viewChanged \in BOOLEAN /\ p.seen \in Views \union {NoView}
         /\ p.progs \subseteq Programs /\ p.cache \in Caches
         /\ p.ptr \in [Slots -> Images \union {Nothing}]
         /\ p.gpu \in Gpus
         /\ p.gpu.depth \in Depths /\ p.gpu.alpha \in Alphas /\ p.gpu.view \in Views
         /\ p.gpu.frame \in Framebuffers /\ p.gpu.prog \in Programs \union {Nothing}
         /\ p.gpu.unit \in [Slots -> 0 .. CacheSize] /\ p.gpu.hw \in [1 .. CacheSize -> Hw]
         /\ p.gpu.content \in [1 .. CacheSize -> Contents \union {Nothing}]
<1>1. p.gpu \in Gpus
  BY DEF Pipes
<1>2. /\ p.gpu.depth \in Depths /\ p.gpu.alpha \in Alphas /\ p.gpu.view \in Views
      /\ p.gpu.frame \in Framebuffers /\ p.gpu.prog \in Programs \union {Nothing}
      /\ p.gpu.unit \in [Slots -> 0 .. CacheSize] /\ p.gpu.hw \in [1 .. CacheSize -> Hw]
      /\ p.gpu.content \in [1 .. CacheSize -> Contents \union {Nothing}]
  BY <1>1 DEF Gpus
<1>3. /\ p.buffer \subseteq Wants /\ p.count \in 0 .. MaxTris - 1
      /\ p.bad \subseteq Faults /\ p.changed \subseteq Slots
      /\ p.viewChanged \in BOOLEAN /\ p.seen \in Views \union {NoView}
      /\ p.progs \subseteq Programs /\ p.cache \in Caches
      /\ p.ptr \in [Slots -> Images \union {Nothing}]
  BY DEF Pipes
<1> QED BY <1>1, <1>2, <1>3

(* Only the GPU matters to what is right.                                   *)
LEMMA RightIs ==
  ASSUME NEW p, NEW q, NEW w, NEW a, p.gpu = q.gpu
  PROVE  Right(p, w, a) = Right(q, w, a)
BY DEF Right

LEMMA WrongsAre ==
  ASSUME NEW p, Waiting(p)
  PROVE  /\ Wrongs(p) \subseteq Aspects /\ Wrongs(p) \intersect Flushed = {}
         /\ "program" \in Wrongs(p) => Late \in p.bad
         /\ Wrongs(p) \subseteq Faults
BY DEF Waiting, Wrongs, Flushed, Faults

(* A flush empties the buffer and draws nothing wrongly.                    *)
LEMMA FlushIs ==
  ASSUME NEW e, NEW p, Good(p, e)
  PROVE  /\ Flush(p) \in Pipes /\ Flush(p).buffer = {} /\ Clean(Flush(p)) /\ Good(Flush(p), e)
         /\ Flush(p).gpu = p.gpu /\ Flush(p).cache = p.cache /\ Flush(p).ptr = p.ptr
         /\ Flush(p).changed = p.changed /\ Flush(p).viewChanged = p.viewChanged
         /\ Flush(p).seen = p.seen /\ Flush(p).progs = p.progs
<1> DEFINE q == Flush(p)
<1>1. p \in Pipes /\ Waiting(p) /\ Clean(p)
  BY DEF Good
<1>2. /\ Wrongs(p) \subseteq Faults /\ Wrongs(p) \intersect Flushed = {}
      /\ "program" \in Wrongs(p) => Late \in p.bad
  BY <1>1, WrongsAre
<1>3. q = [p EXCEPT !.buffer = {}, !.count = 0, !.bad = @ \union Wrongs(p)]
  BY DEF Flush
<1> HIDE DEF q
<1>4. {} \subseteq Wants /\ 0 \in 0 .. MaxTris - 1 /\ p.bad \union Wrongs(p) \subseteq Faults
  BY <1>1, <1>2, GpuIs, TriAssumption
<1>5. q \in Pipes
  BY <1>1, <1>3, <1>4 DEF Pipes
<1>6. /\ q.buffer = {} /\ q.bad = p.bad \union Wrongs(p) /\ q.gpu = p.gpu /\ q.cache = p.cache
      /\ q.ptr = p.ptr /\ q.changed = p.changed /\ q.viewChanged = p.viewChanged
      /\ q.seen = p.seen /\ q.progs = p.progs
  BY <1>1, <1>3 DEF Pipes
<1>7. Clean(q)
  BY <1>1, <1>2, <1>6 DEF Clean
<1>8. Good(q, e)
  BY <1>5, <1>6, <1>7 DEF Good, Bound, Uploaded, Waiting
<1> QED BY <1>5, <1>6, <1>7, <1>8 DEF q

(* With nothing buffered, nothing waits to be drawn wrongly.                *)
LEMMA NothingWaits ==
  ASSUME NEW e, NEW p, NEW q, Good(p, e), q \in Pipes, q.buffer = {}, q.bad = p.bad,
         Textures(q) = Textures(p)
  PROVE  Good(q, e)
BY DEF Good, Textures, Bound, Uploaded, Clean, Waiting

LEMMA SetDepthIs ==
  ASSUME NEW e, NEW p, Good(p, e), NEW d \in Depths
  PROVE  /\ Good(SetDepth(p, d), e) /\ Textures(SetDepth(p, d)) = Textures(p)
         /\ Viewport(SetDepth(p, d)) = Viewport(p)
         /\ Modal(SetDepth(p, d)) = <<d, p.gpu.alpha, p.gpu.frame>>
<1>1. p \in Pipes
  BY DEF Good
<1>2. CASE p.gpu.depth = d
  BY <1>2 DEF SetDepth, Modal
<1>3. CASE p.gpu.depth # d
  <2> DEFINE o == Flush(p)
             q == [o EXCEPT !.gpu.depth = d]
  <2>1. /\ o \in Pipes /\ o.buffer = {} /\ Good(o, e)
        /\ o.gpu = p.gpu /\ o.cache = p.cache /\ o.ptr = p.ptr
        /\ o.changed = p.changed /\ o.viewChanged = p.viewChanged /\ o.seen = p.seen
    BY FlushIs
  <2> HIDE DEF o
  <2>2. q \in Pipes
    BY <2>1 DEF Pipes, Gpus
  <2>3. /\ q.buffer = o.buffer /\ q.bad = o.bad /\ q.cache = o.cache /\ q.ptr = o.ptr
        /\ q.changed = o.changed /\ q.viewChanged = o.viewChanged /\ q.seen = o.seen
        /\ q.gpu = [o.gpu EXCEPT !.depth = d]
    BY <2>1 DEF Pipes
  <2>4. /\ q.gpu.depth = d /\ q.gpu.alpha = o.gpu.alpha /\ q.gpu.view = o.gpu.view
        /\ q.gpu.frame = o.gpu.frame /\ q.gpu.unit = o.gpu.unit /\ q.gpu.hw = o.gpu.hw
        /\ q.gpu.content = o.gpu.content
    BY <2>1, <2>3, GpuIs DEF Gpus
  <2>5. SetDepth(p, d) = q
    BY <1>3 DEF SetDepth, o
  <2> HIDE DEF q
  <2>6. Good(q, e)
    BY <2>1, <2>2, <2>3, <2>4, NothingWaits DEF Textures
  <2> QED BY <2>1, <2>3, <2>4, <2>5, <2>6 DEF Textures, Viewport, Modal
<1> QED BY <1>2, <1>3

LEMMA SetUseAlphaIs ==
  ASSUME NEW e, NEW p, Good(p, e), NEW a \in Alphas
  PROVE  /\ Good(SetUseAlpha(p, a), e) /\ Textures(SetUseAlpha(p, a)) = Textures(p)
         /\ Viewport(SetUseAlpha(p, a)) = Viewport(p)
         /\ Modal(SetUseAlpha(p, a)) = <<p.gpu.depth, a, p.gpu.frame>>
         /\ SetUseAlpha(p, a).gpu.prog = p.gpu.prog
<1>1. p \in Pipes
  BY DEF Good
<1>2. CASE p.gpu.alpha = a
  BY <1>2 DEF SetUseAlpha, Modal
<1>3. CASE p.gpu.alpha # a
  <2> DEFINE o == Flush(p)
             q == [o EXCEPT !.gpu.alpha = a]
  <2>1. /\ o \in Pipes /\ o.buffer = {} /\ Good(o, e)
        /\ o.gpu = p.gpu /\ o.cache = p.cache /\ o.ptr = p.ptr
        /\ o.changed = p.changed /\ o.viewChanged = p.viewChanged /\ o.seen = p.seen
    BY FlushIs
  <2> HIDE DEF o
  <2>2. q \in Pipes
    BY <2>1 DEF Pipes, Gpus
  <2>3. /\ q.buffer = o.buffer /\ q.bad = o.bad /\ q.cache = o.cache /\ q.ptr = o.ptr
        /\ q.changed = o.changed /\ q.viewChanged = o.viewChanged /\ q.seen = o.seen
        /\ q.gpu = [o.gpu EXCEPT !.alpha = a]
    BY <2>1 DEF Pipes
  <2>4. /\ q.gpu.depth = o.gpu.depth /\ q.gpu.alpha = a /\ q.gpu.view = o.gpu.view
        /\ q.gpu.frame = o.gpu.frame /\ q.gpu.prog = o.gpu.prog /\ q.gpu.unit = o.gpu.unit
        /\ q.gpu.hw = o.gpu.hw /\ q.gpu.content = o.gpu.content
    BY <2>1, <2>3, GpuIs DEF Gpus
  <2>5. SetUseAlpha(p, a) = q
    BY <1>3 DEF SetUseAlpha, o
  <2> HIDE DEF q
  <2>6. Good(q, e)
    BY <2>1, <2>2, <2>3, <2>4, NothingWaits DEF Textures
  <2> QED BY <2>1, <2>3, <2>4, <2>5, <2>6 DEF Textures, Viewport, Modal
<1> QED BY <1>2, <1>3

(* The GPU's viewport and scissor are set to v before anything is drawn.    *)
LEMMA SetViewIs ==
  ASSUME NEW e, NEW p, Good(p, e), NEW v \in Views, Facing(p, v)
  PROVE  /\ Good(SetView(p, v), e) /\ Textures(SetView(p, v)) = Textures(p)
         /\ Modal(SetView(p, v)) = Modal(p)
         /\ Facing(SetView(p, v), v) /\ SetView(p, v).gpu.view = v
         /\ SetView(p, v).viewChanged = FALSE
<1>1. p \in Pipes /\ p.viewChanged \in BOOLEAN /\ v # NoView
  BY GpuIs, ViewAssumption DEF Good
<1>2. CASE ~p.viewChanged
  BY <1>1, <1>2 DEF SetView, Facing
<1>3. CASE p.viewChanged /\ p.seen = v
  <2> DEFINE q == [p EXCEPT !.viewChanged = FALSE]
  <2>1. SetView(p, v) = q
    BY <1>3 DEF SetView
  <2>2. q \in Pipes
    BY <1>1 DEF Pipes
  <2>3. /\ q.buffer = p.buffer /\ q.bad = p.bad /\ q.cache = p.cache /\ q.ptr = p.ptr
        /\ q.changed = p.changed /\ q.viewChanged = FALSE /\ q.seen = p.seen /\ q.gpu = p.gpu
    BY <1>1 DEF Pipes
  <2> HIDE DEF q
  <2>4. Good(q, e)
    BY <2>2, <2>3, RightIs DEF Good, Bound, Uploaded, Clean, Waiting
  <2> QED BY <1>1, <1>3, <2>1, <2>3, <2>4 DEF Facing, Textures, Modal
<1>4. CASE p.viewChanged /\ p.seen # v
  <2> DEFINE o == Flush(p)
             q == [o EXCEPT !.gpu.view = v, !.seen = v, !.viewChanged = FALSE]
  <2>1. /\ o \in Pipes /\ o.buffer = {} /\ Good(o, e)
        /\ o.gpu = p.gpu /\ o.cache = p.cache /\ o.ptr = p.ptr /\ o.changed = p.changed
    BY FlushIs
  <2>2. SetView(p, v) = q
    BY <1>4 DEF SetView
  <2> HIDE DEF o
  <2>3. q \in Pipes
    BY <2>1 DEF Pipes, Gpus
  <2>4. /\ q.buffer = o.buffer /\ q.bad = o.bad /\ q.cache = o.cache /\ q.ptr = o.ptr
        /\ q.changed = o.changed /\ q.viewChanged = FALSE /\ q.seen = v
        /\ q.gpu = [o.gpu EXCEPT !.view = v]
    BY <2>1 DEF Pipes
  <2>5. /\ q.gpu.depth = o.gpu.depth /\ q.gpu.alpha = o.gpu.alpha /\ q.gpu.view = v
        /\ q.gpu.frame = o.gpu.frame /\ q.gpu.unit = o.gpu.unit /\ q.gpu.hw = o.gpu.hw
        /\ q.gpu.content = o.gpu.content
    BY <2>1, <2>4, GpuIs DEF Gpus
  <2> HIDE DEF q
  <2>6. Good(q, e)
    BY <2>1, <2>3, <2>4, <2>5, NothingWaits DEF Textures
  <2> QED BY <2>1, <2>2, <2>4, <2>5, <2>6 DEF Textures, Modal, Facing
<1> QED BY <1>1, <1>2, <1>3, <1>4

LEMMA UseCombinerIs ==
  ASSUME NEW e, NEW p, Good(p, e), NEW c, NEW missed
  PROVE  LET q == UseCombiner(p, c, missed)
         IN  /\ Good(q, e) /\ Textures(q) = Textures(p)
             /\ Viewport(q) = Viewport(p) /\ Modal(q) = Modal(p)
<1>1. CASE UseCombiner(p, c, missed) = p
  BY <1>1
<1>2. CASE UseCombiner(p, c, missed) = Flush(p)
  BY <1>2, FlushIs DEF Textures, Viewport, Modal
<1> QED BY <1>1, <1>2 DEF UseCombiner

(* The images the tiles show.                                               *)
LEMMA ImageIs ==
  ASSUME Rdp, NEW f \in {0, 1}, NEW i \in Slots
  PROVE  /\ Image(f, i) \in Images \union {Nothing}
         /\ TileOf(f, i).hw \in Hw /\ TileOf(f, i).clamp \in BOOLEAN
         /\ \A j \in Slots : Image(f, i) = Nothing => Image(f, j) = Nothing
<1>1. \A j \in Slots : f + j \in Tiles
  BY DEF Slots, Tiles
<1>2. \A t \in Tiles : tile[t].tmem \in {0, 1} /\ tile[t].hw \in Hw /\ tile[t].clamp \in BOOLEAN
  <2> TAKE t \in Tiles
  <2>1. tile[t] \in TileWords \/ tile[t] = NoTile
    BY DEF Rdp
  <2>2. CASE tile[t] \in TileWords
    BY <2>2, TileAssumption
  <2>3. CASE tile[t] = NoTile
    BY <2>3, HwAssumption DEF NoTile
  <2> QED BY <2>1, <2>2, <2>3
<1>3. \A j \in Slots : TileOf(f, j).tmem \in {0, 1} /\ TileOf(f, j).hw \in Hw /\ TileOf(f, j).clamp \in BOOLEAN
  BY <1>1, <1>2 DEF TileOf
<1>4. loaded \in [{0, 1} -> Images \union {Nothing}]
  BY DEF Rdp
<1>5. \A j \in Slots : /\ Image(f, j) \in Images \union {Nothing}
                       /\ Image(f, j) = Nothing <=> loaded[0] = Nothing /\ loaded[1] = Nothing
  <2> TAKE j \in Slots
  <2>1. TileOf(f, j).tmem = 0 \/ TileOf(f, j).tmem = 1
    BY <1>3
  <2>2. CASE TileOf(f, j).tmem = 0
    BY <1>4, <2>2 DEF Image, ImageOf
  <2>3. CASE TileOf(f, j).tmem = 1
    BY <1>4, <2>3 DEF Image, ImageOf
  <2> QED BY <2>1, <2>2, <2>3
<1> QED BY <1>3, <1>5

(* An image is bound to a slot, with nothing buffered.                      *)
LEMMA BindTextureIs ==
  ASSUME edits \in [Images -> 0 .. MaxEdits], NEW p, Good(p, edits), p.buffer = {},
         NEW i \in Slots, NEW k \in Images
  PROVE  LET q == BindTexture(p, i, k)
         IN  /\ Good(q, edits) /\ q.changed = p.changed
             /\ Viewport(q) = Viewport(p) /\ Modal(q) = Modal(p)
             /\ q.ptr[i] = k /\ Last(q.cache.lru) = k
             /\ \A j \in Slots : p.ptr[j] # Nothing /\ p.ptr[j] = Last(p.cache.lru) /\ j # i => q.ptr[j] = p.ptr[j]
             /\ \A l \in Cached(q.cache) \ {k} : q.cache.hw[l] = p.cache.hw[l]
<1> DEFINE c == Lookup(p.cache, k)
           id == c.id[k]
           ptrs == [j \in Slots |-> IF j = i THEN k
                      ELSE IF Full(p.cache, k) /\ p.ptr[j] = Head(p.cache.lru) THEN Nothing ELSE p.ptr[j]]
           known == k \in Cached(p.cache)
           q == BindTexture(p, i, k)
<1>1. /\ p \in Pipes /\ CacheWell(p.cache) /\ Bound(p) /\ Uploaded(p, edits) /\ Clean(p)
  BY DEF Good
<1>2. /\ p.cache \in Caches /\ p.ptr \in [Slots -> Images \union {Nothing}] /\ p.gpu \in Gpus
      /\ p.gpu.unit \in [Slots -> 0 .. CacheSize] /\ p.gpu.hw \in [1 .. CacheSize -> Hw]
      /\ p.gpu.content \in [1 .. CacheSize -> Contents \union {Nothing}]
  BY <1>1, GpuIs
<1>3. /\ c \in Caches /\ CacheWell(c)
      /\ Cached(c) = (Cached(p.cache) \union {k}) \ (IF Full(p.cache, k) THEN {Head(p.cache.lru)} ELSE {})
      /\ Full(p.cache, k) => Head(p.cache.lru) \in Cached(p.cache) /\ Head(p.cache.lru) # Last(p.cache.lru)
      /\ \A l \in Cached(c) \ {k} : c.id[l] = p.cache.id[l] /\ c.hw[l] = p.cache.hw[l]
      /\ Last(c.lru) = k
      /\ id \in 1 .. CacheSize
      /\ known => c.id[k] = p.cache.id[k] /\ c.hw[k] = p.cache.hw[k]
      /\ ~known => c.hw[k] = DefaultHw
  BY <1>1, <1>2, LookupIs
<1> HIDE DEF c
<1>4. ptrs \in [Slots -> Images \union {Nothing}]
  BY <1>2
<1>5. Nothing \notin Images /\ <<k, edits[k]>> \in Contents /\ 1 .. CacheSize \subseteq 0 .. CacheSize
  BY NothingAssumption, CacheSizeAssumption DEF Contents
<1> DEFINE g == [p.gpu EXCEPT !.unit = [@ EXCEPT ![i] = id],
                              !.hw = IF known THEN @ ELSE [@ EXCEPT ![id] = DefaultHw],
                              !.content = IF known THEN @ ELSE [@ EXCEPT ![id] = <<k, edits[k]>>]]
<1>6. /\ q \in Pipes /\ q.buffer = {} /\ q.bad = p.bad /\ q.cache = c /\ q.ptr = ptrs
      /\ q.changed = p.changed /\ q.viewChanged = p.viewChanged /\ q.seen = p.seen
      /\ q.gpu.depth = p.gpu.depth /\ q.gpu.alpha = p.gpu.alpha /\ q.gpu.view = p.gpu.view
      /\ q.gpu.frame = p.gpu.frame
      /\ q.gpu.unit = [p.gpu.unit EXCEPT ![i] = id]
      /\ q.gpu.hw = (IF known THEN p.gpu.hw ELSE [p.gpu.hw EXCEPT ![id] = DefaultHw])
      /\ q.gpu.content = (IF known THEN p.gpu.content ELSE [p.gpu.content EXCEPT ![id] = <<k, edits[k]>>])
  <2> DEFINE o == [p EXCEPT !.cache = c, !.gpu.unit[i] = id, !.ptr = ptrs]
  <2>1. /\ o \in Pipes
    BY <1>1, <1>2, <1>3, <1>4, <1>5 DEF Pipes, Gpus
  <2>2. /\ o.buffer = {} /\ o.bad = p.bad /\ o.cache = c /\ o.ptr = ptrs
        /\ o.changed = p.changed /\ o.viewChanged = p.viewChanged /\ o.seen = p.seen
        /\ o.gpu.depth = p.gpu.depth /\ o.gpu.alpha = p.gpu.alpha /\ o.gpu.view = p.gpu.view
        /\ o.gpu.frame = p.gpu.frame
        /\ o.gpu.unit = [p.gpu.unit EXCEPT ![i] = id]
        /\ o.gpu.hw = p.gpu.hw /\ o.gpu.content = p.gpu.content
    BY <1>1, <1>2 DEF Pipes, Gpus
  <2>3. CASE known
    <3>1. q = o
      BY <1>1, <2>3 DEF BindTexture, c, Pipes
    <3> HIDE DEF o, q, known
    <3> QED BY <2>1, <2>2, <2>3, <3>1
  <2>4. CASE ~known
    <3> DEFINE n == [o EXCEPT !.gpu.hw[id] = DefaultHw, !.gpu.content[id] = <<k, edits[k]>>]
    <3>1. q = n
      BY <1>1, <2>4 DEF BindTexture, c, Pipes
    <3> HIDE DEF o
    <3>2. n \in Pipes
      BY <1>3, <1>5, <2>1, HwAssumption DEF Pipes, Gpus
    <3>3. /\ n.buffer = o.buffer /\ n.bad = o.bad /\ n.cache = o.cache /\ n.ptr = o.ptr
          /\ n.changed = o.changed /\ n.viewChanged = o.viewChanged /\ n.seen = o.seen
          /\ n.gpu.depth = o.gpu.depth /\ n.gpu.alpha = o.gpu.alpha /\ n.gpu.view = o.gpu.view
          /\ n.gpu.frame = o.gpu.frame
          /\ n.gpu.unit = o.gpu.unit
          /\ n.gpu.hw = [o.gpu.hw EXCEPT ![id] = DefaultHw]
          /\ n.gpu.content = [o.gpu.content EXCEPT ![id] = <<k, edits[k]>>]
      BY <2>1 DEF Pipes, Gpus
    <3> HIDE DEF n, q, known
    <3> QED BY <2>2, <2>4, <3>1, <3>2, <3>3
  <2> QED BY <2>3, <2>4
<1> HIDE DEF q, known
<1>7. Bound(q)
  <2> SUFFICES ASSUME NEW j \in Slots, ptrs[j] # Nothing
               PROVE  ptrs[j] \in Cached(c) /\ q.gpu.unit[j] = c.id[ptrs[j]]
    BY <1>6 DEF Bound
  <2>1. CASE j = i
    <3>1. k \in Cached(c)
      BY <1>3, CacheSizeAssumption DEF Cached
    <3> QED BY <1>2, <1>6, <2>1, <3>1
  <2>2. CASE j # i
    <3>1. ptrs[j] = p.ptr[j] /\ ~(Full(p.cache, k) /\ p.ptr[j] = Head(p.cache.lru))
      BY <2>2
    <3>2. p.ptr[j] \in Cached(p.cache) /\ p.gpu.unit[j] = p.cache.id[p.ptr[j]]
      BY <1>1, <3>1 DEF Bound
    <3>3. p.ptr[j] \in Cached(c)
      BY <1>3, <3>1, <3>2
    <3>4. c.id[p.ptr[j]] = p.cache.id[p.ptr[j]]
      BY <1>3, <3>2, <3>3 DEF known
    <3> QED BY <1>2, <1>6, <2>2, <3>1, <3>2, <3>3, <3>4
  <2> QED BY <2>1, <2>2
<1>8. Uploaded(q, edits)
  <2> SUFFICES ASSUME NEW l \in Cached(c)
               PROVE  /\ q.gpu.hw[c.id[l]] = c.hw[l]
                      /\ q.gpu.content[c.id[l]] = <<l, edits[l]>>
    BY <1>6 DEF Uploaded
  <2>1. CASE known
    <3>1. l \in Cached(p.cache) /\ c.id[l] = p.cache.id[l] /\ c.hw[l] = p.cache.hw[l]
      BY <1>3, <2>1 DEF known
    <3> QED BY <1>1, <1>6, <2>1, <3>1 DEF Uploaded
  <2>2. CASE ~known /\ l = k
    BY <1>2, <1>3, <1>6, <2>2
  <2>3. CASE ~known /\ l # k
    <3>1. l \in Cached(p.cache) /\ c.id[l] = p.cache.id[l] /\ c.hw[l] = p.cache.hw[l]
      BY <1>3, <2>3
    <3>2. c.id[l] # id
      <4>1. k \in Cached(c)
        BY <1>3, CacheSizeAssumption DEF Cached
      <4> QED BY <1>3, <2>3, <4>1 DEF CacheWell
    <3>3. /\ p.gpu.hw[p.cache.id[l]] = p.cache.hw[l]
          /\ p.gpu.content[p.cache.id[l]] = <<l, edits[l]>>
      BY <1>1, <3>1 DEF Uploaded
    <3>4. q.gpu.hw = [p.gpu.hw EXCEPT ![id] = DefaultHw] /\ q.gpu.content = [p.gpu.content EXCEPT ![id] = <<k, edits[k]>>]
      BY <1>6, <2>3
    <3>5. q.gpu.hw[c.id[l]] = p.gpu.hw[c.id[l]] /\ q.gpu.content[c.id[l]] = p.gpu.content[c.id[l]]
      BY <1>2, <3>2, <3>4
    <3> QED BY <3>1, <3>3, <3>5
  <2> QED BY <2>1, <2>2, <2>3
<1>9. Good(q, edits)
  BY <1>1, <1>3, <1>6, <1>7, <1>8 DEF Good, Clean, Waiting
<1>10. \A j \in Slots : p.ptr[j] # Nothing /\ p.ptr[j] = Last(p.cache.lru) /\ j # i => q.ptr[j] = p.ptr[j]
  BY <1>3, <1>6
<1> HIDE DEF id
<1> QED BY <1>3, <1>6, <1>9, <1>10 DEF Viewport, Modal, q

(* A slot is brought up to date.                                            *)
LEMMA ImportTextureIs ==
  ASSUME Rdp, NEW p, Good(p, edits), NEW f \in {0, 1}, Showing(p, f), NEW i \in Slots
  PROVE  LET q == ImportTexture(p, i, TileOf(f, i))
         IN  /\ Good(q, edits) /\ Showing(q, f) /\ q.changed = p.changed \ {i}
             /\ Viewport(q) = Viewport(p) /\ Modal(q) = Modal(p)
             /\ Image(f, i) # Nothing =>
                  \A l \in Cached(q.cache) \ {Image(f, i)} : q.cache.hw[l] = p.cache.hw[l]
<1>1. CASE i \notin p.changed
  BY <1>1 DEF ImportTexture
<1>2. CASE i \in p.changed
  <2> DEFINE o == [Flush(p) EXCEPT !.changed = @ \ {i}]
             k == Image(f, i)
             q == ImportTexture(p, i, TileOf(f, i))
  <2>1. p \in Pipes /\ p.changed \subseteq Slots /\ edits \in [Images -> 0 .. MaxEdits]
    BY GpuIs DEF Good, Rdp
  <2>2. /\ Good(o, edits) /\ o.buffer = {} /\ o.changed = p.changed \ {i}
        /\ o.gpu = p.gpu /\ o.cache = p.cache /\ o.ptr = p.ptr
        /\ o.viewChanged = p.viewChanged /\ o.seen = p.seen
    <3> DEFINE r == Flush(p)
    <3>1. /\ r \in Pipes /\ r.buffer = {} /\ Good(r, edits)
          /\ r.gpu = p.gpu /\ r.cache = p.cache /\ r.ptr = p.ptr
          /\ r.changed = p.changed /\ r.viewChanged = p.viewChanged /\ r.seen = p.seen
      BY FlushIs
    <3> HIDE DEF r
    <3>2. /\ [r EXCEPT !.changed = @ \ {i}] \in Pipes
          /\ [r EXCEPT !.changed = @ \ {i}].buffer = {}
          /\ [r EXCEPT !.changed = @ \ {i}].bad = r.bad
          /\ [r EXCEPT !.changed = @ \ {i}].changed = p.changed \ {i}
          /\ [r EXCEPT !.changed = @ \ {i}].gpu = r.gpu /\ [r EXCEPT !.changed = @ \ {i}].cache = r.cache
          /\ [r EXCEPT !.changed = @ \ {i}].ptr = r.ptr
          /\ [r EXCEPT !.changed = @ \ {i}].viewChanged = r.viewChanged
          /\ [r EXCEPT !.changed = @ \ {i}].seen = r.seen
      BY <2>1, <3>1 DEF Pipes
    <3>3. o = [r EXCEPT !.changed = @ \ {i}]
      BY DEF r
    <3> HIDE DEF o
    <3>4. /\ o \in Pipes /\ o.buffer = {} /\ o.bad = r.bad /\ o.changed = p.changed \ {i}
          /\ o.gpu = r.gpu /\ o.cache = r.cache /\ o.ptr = r.ptr
          /\ o.viewChanged = r.viewChanged /\ o.seen = r.seen
      BY <3>2, <3>3
    <3>5. Good(o, edits)
      BY <3>1, <3>4 DEF Good, Bound, Uploaded, Clean, Waiting
    <3> QED BY <3>1, <3>4, <3>5
  <2>3. q = IF k = Nothing THEN o ELSE BindTexture(o, i, k)
    BY <1>2 DEF ImportTexture, Image
  <2> HIDE DEF o, q, k
  <2>4. CASE k = Nothing
    <3>1. q = o
      BY <2>3, <2>4
    <3>2. \A j \in Slots : Image(f, j) = Nothing
      BY <2>4, ImageIs DEF k
    <3>3. Showing(q, f)
      BY <3>2 DEF Showing
    <3>4. Viewport(q) = Viewport(p) /\ Modal(q) = Modal(p)
      BY <2>2, <3>1 DEF Viewport, Modal
    <3> QED BY <2>2, <2>4, <3>1, <3>3, <3>4 DEF k, q
  <2>5. CASE k # Nothing
    <3>1. k \in Images
      BY <2>5, ImageIs DEF k
    <3>2. q = BindTexture(o, i, k)
      BY <2>3, <2>5
    <3>3. /\ Good(q, edits) /\ q.changed = o.changed
          /\ Viewport(q) = Viewport(o) /\ Modal(q) = Modal(o)
          /\ q.ptr[i] = k /\ Last(q.cache.lru) = k
          /\ \A j \in Slots : o.ptr[j] # Nothing /\ o.ptr[j] = Last(o.cache.lru) /\ j # i => q.ptr[j] = o.ptr[j]
          /\ \A l \in Cached(q.cache) \ {k} : q.cache.hw[l] = o.cache.hw[l]
      BY <2>1, <2>2, <3>1, <3>2, BindTextureIs
    <3>4. Showing(q, f)
      <4> SUFFICES ASSUME NEW j \in Slots \ q.changed, Image(f, j) # Nothing
                   PROVE  q.ptr[j] = Image(f, j) /\ (q.changed # {} => Last(q.cache.lru) = Image(f, j))
        BY DEF Showing
      <4>1. CASE j = i
        BY <3>3, <4>1 DEF k
      <4>2. CASE j # i
        <5>1. j \in Slots \ p.changed /\ p.changed # {}
          BY <1>2, <2>2, <3>3, <4>2
        <5>2. p.ptr[j] = Image(f, j) /\ Last(p.cache.lru) = Image(f, j)
          BY <5>1 DEF Showing
        <5>3. q.changed = {}
          BY <2>1, <2>2, <3>3, <4>2, <5>1 DEF Slots
        <5> QED BY <2>2, <3>3, <4>2, <5>2, <5>3
      <4> QED BY <4>1, <4>2
    <3>5. Viewport(q) = Viewport(p) /\ Modal(q) = Modal(p)
      BY <2>2, <3>3 DEF Viewport, Modal
    <3> QED BY <2>2, <3>3, <3>4, <3>5 DEF k, q
  <2> QED BY <2>4, <2>5
<1> QED BY <1>1, <1>2

(* A texture object and its node get the tile's sampler.                    *)
LEMMA SetSamplerIs ==
  ASSUME NEW e, NEW p, Good(p, e), NEW i \in Slots, NEW h \in Hw
  PROVE  LET q == SetSampler(p, i, h)
         IN  /\ Good(q, e) /\ q.changed = p.changed /\ q.ptr = p.ptr
             /\ q.cache.lru = p.cache.lru /\ Cached(q.cache) = Cached(p.cache)
             /\ Viewport(q) = Viewport(p) /\ Modal(q) = Modal(p)
             /\ p.ptr[i] # Nothing => q.cache.hw[p.ptr[i]] = h
             /\ \A l \in Cached(q.cache) : l # p.ptr[i] => q.cache.hw[l] = p.cache.hw[l]
<1> DEFINE q == SetSampler(p, i, h)
           k == p.ptr[i]
<1>1. CASE k = Nothing \/ p.cache.hw[k] = h
  BY <1>1 DEF SetSampler
<1>2. CASE ~(k = Nothing \/ p.cache.hw[k] = h)
  <2> DEFINE o == Flush(p)
  <2>1. /\ o \in Pipes /\ o.buffer = {} /\ Good(o, e)
        /\ o.gpu = p.gpu /\ o.cache = p.cache /\ o.ptr = p.ptr
        /\ o.changed = p.changed /\ o.viewChanged = p.viewChanged /\ o.seen = p.seen
    BY FlushIs
  <2>2. q = [o EXCEPT !.gpu.hw[p.gpu.unit[i]] = h, !.cache.hw[k] = h]
    BY <1>2 DEF SetSampler
  <2> HIDE DEF o, q, k
  <2>3. /\ p \in Pipes /\ k \in Cached(p.cache) /\ p.gpu.unit[i] = p.cache.id[k]
        /\ CacheWell(p.cache) /\ Uploaded(p, e)
    BY <1>2 DEF Good, Bound, k
  <2>4. /\ o.gpu.unit \in [Slots -> 0 .. CacheSize] /\ o.gpu.hw \in [1 .. CacheSize -> Hw]
        /\ o.gpu \in Gpus /\ o.cache \in Caches /\ o.cache.hw \in [Images -> Hw]
        /\ o.cache.id \in [Images -> Nat] /\ k \in Images
    BY <2>1, <2>3, GpuIs DEF Caches, Cached
  <2>5. q \in Pipes
    BY <2>1, <2>2, <2>4 DEF Pipes, Gpus, Caches
  <2>6. /\ q.buffer = {} /\ q.bad = o.bad /\ q.ptr = o.ptr /\ q.changed = o.changed
        /\ q.viewChanged = o.viewChanged /\ q.seen = o.seen
        /\ q.gpu = [o.gpu EXCEPT !.hw = [@ EXCEPT ![p.gpu.unit[i]] = h]]
        /\ q.cache = [o.cache EXCEPT !.hw = [@ EXCEPT ![k] = h]]
    BY <2>1, <2>2 DEF Pipes
  <2>7. /\ q.gpu.hw = [o.gpu.hw EXCEPT ![p.gpu.unit[i]] = h]
        /\ q.gpu.depth = o.gpu.depth /\ q.gpu.alpha = o.gpu.alpha /\ q.gpu.view = o.gpu.view
        /\ q.gpu.frame = o.gpu.frame /\ q.gpu.unit = o.gpu.unit /\ q.gpu.content = o.gpu.content
    BY <2>4, <2>6 DEF Gpus
  <2>8. /\ q.cache.hw = [o.cache.hw EXCEPT ![k] = h] /\ q.cache.id = o.cache.id
        /\ q.cache.lru = o.cache.lru /\ q.cache.free = o.cache.free /\ q.cache.made = o.cache.made
    BY <2>4, <2>6 DEF Caches
  <2>9. Cached(q.cache) = Cached(p.cache)
    BY <2>1, <2>8 DEF Cached
  <2>10. CacheWell(q.cache)
    BY <2>1, <2>3, <2>8, <2>9 DEF CacheWell
  <2>11. Bound(q)
    BY <2>1, <2>6, <2>7, <2>8, <2>9 DEF Good, Bound
  <2>12. Uploaded(q, e)
    <3> SUFFICES ASSUME NEW l \in Cached(p.cache)
                 PROVE  /\ q.gpu.hw[q.cache.id[l]] = q.cache.hw[l]
                        /\ q.gpu.content[q.cache.id[l]] = <<l, e[l]>>
      BY <2>9 DEF Uploaded
    <3>1. /\ p.gpu.hw[p.cache.id[l]] = p.cache.hw[l] /\ p.gpu.content[p.cache.id[l]] = <<l, e[l]>>
      BY <2>3 DEF Uploaded
    <3>2. l \in Images /\ p.cache.id[l] \in 1 .. CacheSize /\ p.cache.id[k] \in 1 .. CacheSize
      <4>1. \A j \in Cached(p.cache) : p.cache.id[j] \in 1 .. p.cache.made
        BY <2>3 DEF CacheWell
      <4>2. p.cache.made <= CacheSize /\ p.cache.made \in Nat
        BY <2>1, <2>3, <2>4 DEF CacheWell, Caches
      <4> QED BY <2>3, <4>1, <4>2, CacheSizeAssumption DEF Cached
    <3>3. l # k => p.cache.id[l] # p.cache.id[k]
      BY <2>3 DEF CacheWell
    <3>4. /\ q.gpu.hw = [p.gpu.hw EXCEPT ![p.cache.id[k]] = h] /\ q.gpu.content = p.gpu.content
          /\ q.cache.hw = [p.cache.hw EXCEPT ![k] = h] /\ q.cache.id = p.cache.id
      BY <2>1, <2>3, <2>7, <2>8
    <3>5. p.gpu.hw \in [1 .. CacheSize -> Hw] /\ p.cache.hw \in [Images -> Hw] /\ k \in Images
      BY <2>1, <2>4
    <3>6. CASE l = k
      BY <3>1, <3>2, <3>4, <3>5, <3>6
    <3>7. CASE l # k
      BY <3>1, <3>2, <3>3, <3>4, <3>5, <3>7
    <3> QED BY <3>6, <3>7
  <2>13. Good(q, e)
    BY <2>1, <2>5, <2>6, <2>10, <2>11, <2>12 DEF Good, Clean, Waiting
  <2>14. Viewport(q) = Viewport(p) /\ Modal(q) = Modal(p)
    BY <2>1, <2>6, <2>7 DEF Viewport, Modal
  <2>15. q.cache.hw[k] = h /\ \A l \in Cached(q.cache) : l # k => q.cache.hw[l] = p.cache.hw[l]
    BY <2>1, <2>4, <2>8 DEF Cached
  <2> QED BY <2>1, <2>6, <2>8, <2>9, <2>13, <2>14, <2>15 DEF q, k
<1> QED BY <1>1, <1>2

(* A slot that combiner c uses is brought up to date and gets its sampler.  *)
LEMMA UseSlotIs ==
  ASSUME Rdp, NEW p, Good(p, edits), NEW f \in {0, 1}, Showing(p, f), NEW i \in Slots, NEW c,
         NEW q, q = UseSlot(p, i, TileOf(f, i), c)
  PROVE      /\ Good(q, edits) /\ Showing(q, f)
             /\ Viewport(q) = Viewport(p) /\ Modal(q) = Modal(p)
             /\ i \notin Used[c] => q = p
             /\ i \in Used[c] =>
                  /\ q.changed = p.changed \ {i}
                  /\ Image(f, i) # Nothing =>
                       /\ q.cache.hw[Image(f, i)] = TileOf(f, i).hw
                       /\ \A l \in Cached(q.cache) \ {Image(f, i)} : q.cache.hw[l] = p.cache.hw[l]
<1>1. CASE i \notin Used[c]
  BY <1>1 DEF UseSlot
<1>2. CASE i \in Used[c]
  <2> DEFINE o == ImportTexture(p, i, TileOf(f, i))
             h == TileOf(f, i).hw
             k == Image(f, i)
  <2>1. /\ Good(o, edits) /\ Showing(o, f) /\ o.changed = p.changed \ {i}
        /\ Viewport(o) = Viewport(p) /\ Modal(o) = Modal(p)
        /\ k # Nothing => \A l \in Cached(o.cache) \ {k} : o.cache.hw[l] = p.cache.hw[l]
    BY ImportTextureIs
  <2>2. q = SetSampler(o, i, h)
    BY <1>2 DEF UseSlot
  <2>3. h \in Hw
    BY ImageIs
  <2> HIDE DEF o, h
  <2>4. /\ Good(q, edits) /\ q.changed = o.changed /\ q.ptr = o.ptr
        /\ q.cache.lru = o.cache.lru /\ Cached(q.cache) = Cached(o.cache)
        /\ Viewport(q) = Viewport(o) /\ Modal(q) = Modal(o)
        /\ o.ptr[i] # Nothing => q.cache.hw[o.ptr[i]] = h
        /\ \A l \in Cached(q.cache) : l # o.ptr[i] => q.cache.hw[l] = o.cache.hw[l]
    BY <2>1, <2>2, <2>3, SetSamplerIs
  <2>5. Showing(q, f)
    BY <2>1, <2>4 DEF Showing
  <2>6. k # Nothing => o.ptr[i] = k
    BY <2>1 DEF Showing
  <2> HIDE DEF k
  <2>7. k # Nothing => /\ q.cache.hw[k] = h
                       /\ \A l \in Cached(q.cache) \ {k} : q.cache.hw[l] = p.cache.hw[l]
    BY <2>1, <2>4, <2>6
  <2> QED BY <1>2, <2>1, <2>4, <2>5, <2>7 DEF k, h
<1> QED BY <1>1, <1>2

(* The program of g is loaded; what it was loaded over too soon is Late.    *)
LEMMA UseProgramIs ==
  ASSUME NEW e, NEW p, Good(p, e), NEW g \in Programs
  PROVE  LET q == UseProgram(p, g)
         IN  /\ Good(q, e) /\ Textures(q) = Textures(p)
             /\ Viewport(q) = Viewport(p) /\ Modal(q) = Modal(p) /\ q.gpu.prog = g
<1> DEFINE q == UseProgram(p, g)
<1>1. p \in Pipes
  BY DEF Good
<1>2. CASE g \notin p.progs
  <2> DEFINE b == IF p.buffer = {} THEN p.bad ELSE p.bad \union {Late}
  <2>1. q = [p EXCEPT !.progs = @ \union {g}, !.gpu.prog = g, !.bad = b]
    BY <1>2 DEF UseProgram
  <2> HIDE DEF q
  <2>2. b \subseteq Faults /\ p.bad \subseteq b /\ b \subseteq p.bad \union {Late}
    BY <1>1, GpuIs DEF Faults
  <2>3. p.buffer # {} => Late \in b
    OBVIOUS
  <2> HIDE DEF b
  <2>4. q \in Pipes
    BY <1>1, <2>1, <2>2 DEF Pipes, Gpus
  <2>5. /\ q.buffer = p.buffer /\ q.bad = b /\ q.cache = p.cache /\ q.ptr = p.ptr
        /\ q.changed = p.changed /\ q.viewChanged = p.viewChanged /\ q.seen = p.seen
        /\ q.gpu = [p.gpu EXCEPT !.prog = g]
    BY <1>1, <2>1 DEF Pipes
  <2>6. /\ q.gpu.depth = p.gpu.depth /\ q.gpu.alpha = p.gpu.alpha /\ q.gpu.view = p.gpu.view
        /\ q.gpu.frame = p.gpu.frame /\ q.gpu.unit = p.gpu.unit /\ q.gpu.hw = p.gpu.hw
        /\ q.gpu.content = p.gpu.content /\ q.gpu.prog = g
    BY <1>1, <2>5, GpuIs DEF Gpus
  <2>7. Clean(q)
    BY <2>2, <2>5 DEF Good, Clean, Flushed, Late
  <2>8. Waiting(q)
    <3> SUFFICES ASSUME NEW w \in p.buffer
                 PROVE  \A a \in Flushed : Right(q, w, a)
      BY <2>3, <2>5 DEF Waiting
    <3>1. \A a \in Flushed : Right(p, w, a)
      BY DEF Good, Waiting
    <3>2. /\ Right(q, w, "state") /\ Right(q, w, "frame")
          /\ Right(q, w, "texture") /\ Right(q, w, "sampler")
      <4>1. /\ Right(p, w, "state") /\ Right(p, w, "frame")
            /\ Right(p, w, "texture") /\ Right(p, w, "sampler")
        BY <3>1 DEF Flushed
      <4> QED BY <4>1, <2>6 DEF Right
    <3> QED BY <3>2 DEF Flushed
  <2>9. Good(q, e)
    BY <2>4, <2>5, <2>6, <2>7, <2>8 DEF Good, Bound, Uploaded
  <2> QED BY <2>5, <2>6, <2>9 DEF Textures, Viewport, Modal, q
<1>3. CASE g \in p.progs /\ p.gpu.prog = g
  BY <1>3 DEF UseProgram
<1>4. CASE g \in p.progs /\ p.gpu.prog # g
  <2> DEFINE o == Flush(p)
  <2>1. /\ o \in Pipes /\ o.buffer = {} /\ Good(o, e)
        /\ o.gpu = p.gpu /\ o.cache = p.cache /\ o.ptr = p.ptr
        /\ o.changed = p.changed /\ o.viewChanged = p.viewChanged /\ o.seen = p.seen
    BY FlushIs
  <2>2. q = [o EXCEPT !.gpu.prog = g]
    BY <1>4 DEF UseProgram
  <2> HIDE DEF o, q
  <2>3. q \in Pipes
    BY <2>1, <2>2 DEF Pipes, Gpus
  <2>4. /\ q.buffer = o.buffer /\ q.bad = o.bad /\ q.cache = o.cache /\ q.ptr = o.ptr
        /\ q.changed = o.changed /\ q.viewChanged = o.viewChanged /\ q.seen = o.seen
        /\ q.gpu = [o.gpu EXCEPT !.prog = g]
    BY <2>1, <2>2 DEF Pipes
  <2>5. /\ q.gpu.depth = o.gpu.depth /\ q.gpu.alpha = o.gpu.alpha /\ q.gpu.view = o.gpu.view
        /\ q.gpu.frame = o.gpu.frame /\ q.gpu.unit = o.gpu.unit /\ q.gpu.hw = o.gpu.hw
        /\ q.gpu.content = o.gpu.content /\ q.gpu.prog = g
    BY <2>1, <2>4, GpuIs DEF Gpus
  <2>6. Good(q, e)
    BY <2>1, <2>3, <2>4, <2>5, NothingWaits DEF Textures
  <2> QED BY <2>1, <2>4, <2>5, <2>6 DEF Textures, Viewport, Modal, q
<1> QED BY <1>2, <1>3, <1>4

(* A triangle that the GPU is ready for joins the buffer.                   *)
LEMMA BufferIs ==
  ASSUME NEW e, NEW p, Good(p, e), NEW w \in Wants, \A a \in Aspects : Right(p, w, a)
  PROVE  LET q == Buffer(p, w)
         IN  /\ Good(q, e) /\ Textures(q) = Textures(p)
             /\ Viewport(q) = Viewport(p) /\ Modal(q) = Modal(p)
<1> DEFINE q == Buffer(p, w)
           b == p.buffer \union {w}
           o == [p EXCEPT !.buffer = @ \union {w}, !.count = @ + 1]
<1>1. p \in Pipes /\ Waiting(p) /\ Clean(p)
  BY DEF Good
<1>2. p.buffer \subseteq Wants /\ p.count \in 0 .. MaxTris - 1 /\ p.bad \subseteq Faults
  BY <1>1, GpuIs
<1>3. /\ o.buffer = b /\ o.count = p.count + 1 /\ o.bad = p.bad /\ o.cache = p.cache
      /\ o.ptr = p.ptr /\ o.changed = p.changed /\ o.viewChanged = p.viewChanged
      /\ o.seen = p.seen /\ o.gpu = p.gpu
  BY <1>1 DEF Pipes
<1>4. q = IF o.count = MaxTris THEN [p EXCEPT !.buffer = {}, !.count = 0, !.bad = @ \union Wrongs(o)] ELSE o
  BY <1>1 DEF Buffer, Flush, Pipes
<1>5. Waiting(o)
  <2>1. \A x \in b : \A a \in Aspects : Right(o, x, a) = Right(p, x, a)
    <3>1. o.gpu = p.gpu
      BY <1>3
    <3> HIDE DEF o, b
    <3> QED BY <3>1, RightIs
  <2>2. Flushed \subseteq Aspects /\ "program" \in Aspects
    BY DEF Flushed, Aspects
  <2>3. \A x \in b : /\ \A a \in Flushed : Right(p, x, a)
                     /\ Right(p, x, "program") \/ Late \in p.bad
    BY <1>1, <2>2 DEF Waiting
  <2> HIDE DEF o, b
  <2> QED BY <1>3, <2>1, <2>2, <2>3 DEF Waiting
<1>6. o.count # MaxTris => o \in Pipes
  <2>1. b \subseteq Wants
    BY <1>2
  <2>2. p.count + 1 # MaxTris => p.count + 1 \in 0 .. MaxTris - 1
    BY <1>2, TriAssumption
  <2> QED BY <1>1, <1>3, <2>1, <2>2 DEF Pipes
<1> HIDE DEF o, q, b
<1>7. CASE o.count = MaxTris
  <2>1. /\ Wrongs(o) \subseteq Faults /\ Wrongs(o) \intersect Flushed = {}
        /\ "program" \in Wrongs(o) => Late \in p.bad
    BY <1>3, <1>5, WrongsAre
  <2>2. q = [p EXCEPT !.buffer = {}, !.count = 0, !.bad = @ \union Wrongs(o)]
    BY <1>4, <1>7
  <2>3. q \in Pipes
    <3>1. {} \subseteq Wants /\ 0 \in 0 .. MaxTris - 1 /\ p.bad \union Wrongs(o) \subseteq Faults
      BY <1>2, <2>1, TriAssumption
    <3> QED BY <1>1, <2>2, <3>1 DEF Pipes
  <2>4. /\ q.buffer = {} /\ q.bad = p.bad \union Wrongs(o) /\ q.cache = p.cache
        /\ q.ptr = p.ptr /\ q.changed = p.changed /\ q.viewChanged = p.viewChanged
        /\ q.seen = p.seen /\ q.gpu = p.gpu
    BY <1>1, <2>2 DEF Pipes
  <2>5. Clean(q)
    BY <1>1, <2>1, <2>4 DEF Clean
  <2> QED BY <2>3, <2>4, <2>5 DEF Good, Bound, Uploaded, Waiting, Textures, Viewport, Modal, q
<1>8. CASE o.count # MaxTris
  <2>1. q = o
    BY <1>4, <1>8
  <2>2. Good(o, e)
    BY <1>3, <1>5, <1>6, <1>8 DEF Good, Bound, Uploaded, Clean
  <2> QED BY <1>3, <2>1, <2>2 DEF Textures, Viewport, Modal, q
<1> QED BY <1>7, <1>8

LEMMA StillShowing ==
  ASSUME NEW p, NEW q, NEW f, Textures(q) = Textures(p), Showing(p, f)
  PROVE  Showing(q, f)
BY DEF Textures, Showing

LEMMA StillFacing ==
  ASSUME NEW p, NEW q, NEW v, Viewport(q) = Viewport(p), Facing(p, v)
  PROVE  Facing(q, v)
BY DEF Viewport, Facing

(* What a triangle is to be drawn with.                                     *)
LEMMA WantIs ==
  ASSUME Rdp, NEW p \in Pipes, NEW m \in Modes, NEW v \in Views, NEW f \in {0, 1}, NEW c \in Combiners
  PROVE  LET w == Want(p, m, v, f, c)
         IN  /\ w \in Wants
             /\ w.depth = m.depth /\ w.alpha = m.alpha /\ w.view = v /\ w.frame = p.gpu.frame
             /\ w.prog = <<c, ClampedBy(f, c)>> /\ <<c, ClampedBy(f, c)>> \in Programs
             /\ w.prog[1] = c
             /\ \A i \in Slots :
                  /\ w.hw[i] = TileOf(f, i).hw
                  /\ w.tex[i] = Nothing <=> Image(f, i) = Nothing
                  /\ Image(f, i) # Nothing => w.tex[i] = <<Image(f, i), edits[Image(f, i)]>>
<1> DEFINE w == Want(p, m, v, f, c)
           tex == [i \in Slots |-> IF Image(f, i) = Nothing THEN Nothing ELSE <<Image(f, i), edits[Image(f, i)]>>]
           hw == [i \in Slots |-> TileOf(f, i).hw]
<1>1. w = [depth |-> m.depth, alpha |-> m.alpha, view |-> v, frame |-> p.gpu.frame,
           prog |-> <<c, ClampedBy(f, c)>>, tex |-> tex, hw |-> hw]
  BY DEF Want, Image
<1>2. \A i \in Slots : Image(f, i) # Nothing =>
        <<Image(f, i), edits[Image(f, i)]>> \in Contents /\ <<Image(f, i), edits[Image(f, i)]>> # Nothing
  <2> TAKE i \in Slots
  <2> HAVE Image(f, i) # Nothing
  <2>1. Image(f, i) \in Images
    BY ImageIs
  <2>2. edits[Image(f, i)] \in 0 .. MaxEdits
    BY <2>1 DEF Rdp
  <2> QED BY <2>1, <2>2, NothingAssumption DEF Contents
<1>3. tex \in [Slots -> Contents \union {Nothing}]
  BY <1>2
<1>4. hw \in [Slots -> Hw]
  BY ImageIs
<1>5. <<c, ClampedBy(f, c)>> \in Programs
  BY CombinerAssumption DEF Programs, ClampedBy
<1>6. m.depth \in Depths /\ m.alpha \in Alphas /\ p.gpu.frame \in Framebuffers
  BY GpuIs DEF Depths, Alphas
<1>7. \A i \in Slots :
         /\ hw[i] = TileOf(f, i).hw
         /\ tex[i] = Nothing <=> Image(f, i) = Nothing
         /\ Image(f, i) # Nothing => tex[i] = <<Image(f, i), edits[Image(f, i)]>>
  BY <1>2
<1> HIDE DEF w, tex, hw
<1>8. w \in Wants
  BY <1>1, <1>3, <1>4, <1>5, <1>6 DEF Wants
<1> QED BY <1>1, <1>5, <1>7, <1>8 DEF w

(* A triangle is buffered only when the GPU is ready to draw it as asked.   *)
LEMMA GfxSpTri1Is ==
  ASSUME Rdp, NEW p, Good(p, edits), NEW m \in Modes, NEW v \in Views, Facing(p, v),
         NEW f \in {0, 1}, Showing(p, f), NEW c \in Combiners, NEW missed
  PROVE  LET q == GfxSpTri1(p, m, v, f, c, missed)
         IN  Good(q, edits) /\ Showing(q, f) /\ Facing(q, v)
<1> DEFINE a == SetDepth(p, m.depth)
           b == SetView(a, v)
           s == UseCombiner(b, c, missed)
           x == UseSlot(s, 0, TileOf(f, 0), c)
           y == UseSlot(x, 1, TileOf(f, 1), c)
           g == <<c, ClampedBy(f, c)>>
           z == UseProgram(y, g)
           r == SetUseAlpha(z, m.alpha)
           w == Want(p, m, v, f, c)
           q == Buffer(r, w)
<1>1. GfxSpTri1(p, m, v, f, c, missed) = q
  BY DEF GfxSpTri1
<1> HIDE DEF x, y, z, r, w, g, q
<1>2. p \in Pipes /\ m.depth \in Depths /\ m.alpha \in Alphas /\ 0 \in Slots /\ 1 \in Slots
  BY DEF Good, Depths, Alphas, Slots
<1>3. /\ Good(a, edits) /\ Textures(a) = Textures(p) /\ Viewport(a) = Viewport(p)
      /\ Modal(a) = <<m.depth, p.gpu.alpha, p.gpu.frame>>
  BY <1>2, SetDepthIs
<1> HIDE DEF a
<1>4. /\ Good(b, edits) /\ Textures(b) = Textures(a) /\ Modal(b) = Modal(a)
      /\ Facing(b, v) /\ b.gpu.view = v
  BY <1>3, StillFacing, SetViewIs
<1> HIDE DEF b
<1>5. /\ Good(s, edits) /\ Textures(s) = Textures(b) /\ Viewport(s) = Viewport(b) /\ Modal(s) = Modal(b)
  BY <1>4, UseCombinerIs
<1> HIDE DEF s
<1>6. Showing(s, f)
  BY <1>3, <1>4, <1>5, StillShowing
<1>7. /\ Good(x, edits) /\ Showing(x, f) /\ Viewport(x) = Viewport(s) /\ Modal(x) = Modal(s)
      /\ 0 \notin Used[c] => x = s
      /\ 0 \in Used[c] =>
           /\ x.changed = s.changed \ {0}
           /\ Image(f, 0) # Nothing => x.cache.hw[Image(f, 0)] = TileOf(f, 0).hw
  BY <1>2, <1>5, <1>6, UseSlotIs DEF x
<1>8. /\ Good(y, edits) /\ Showing(y, f) /\ Viewport(y) = Viewport(x) /\ Modal(y) = Modal(x)
      /\ 1 \notin Used[c] => y = x
      /\ 1 \in Used[c] =>
           /\ y.changed = x.changed \ {1}
           /\ Image(f, 1) # Nothing =>
                /\ y.cache.hw[Image(f, 1)] = TileOf(f, 1).hw
                /\ \A l \in Cached(y.cache) \ {Image(f, 1)} : y.cache.hw[l] = x.cache.hw[l]
  <2>1. Good(x, edits) /\ Showing(x, f) /\ 1 \in Slots
    BY <1>2, <1>7
  <2>2. y = UseSlot(x, 1, TileOf(f, 1), c)
    BY DEF y
  <2> QED BY <2>1, <2>2, UseSlotIs
<1>9. /\ w \in Wants
      /\ w.depth = m.depth /\ w.alpha = m.alpha /\ w.view = v /\ w.frame = p.gpu.frame
      /\ w.prog = g /\ g \in Programs /\ w.prog[1] = c
      /\ \A i \in Slots :
           /\ w.hw[i] = TileOf(f, i).hw
           /\ w.tex[i] = Nothing <=> Image(f, i) = Nothing
           /\ Image(f, i) # Nothing => w.tex[i] = <<Image(f, i), edits[Image(f, i)]>>
  BY <1>2, WantIs DEF w, g
<1>10. /\ Good(z, edits) /\ Textures(z) = Textures(y) /\ Viewport(z) = Viewport(y) /\ Modal(z) = Modal(y)
       /\ z.gpu.prog = g
  BY <1>8, <1>9, UseProgramIs DEF z
<1>11. /\ Good(r, edits) /\ Textures(r) = Textures(z) /\ Viewport(r) = Viewport(z)
       /\ Modal(r) = <<z.gpu.depth, m.alpha, z.gpu.frame>> /\ r.gpu.prog = z.gpu.prog
  BY <1>2, <1>10, SetUseAlphaIs DEF r
<1>12. Showing(r, f) /\ Facing(r, v) /\ r.gpu.view = v
  <2>1. Showing(r, f)
    BY <1>8, <1>10, <1>11, StillShowing
  <2>2. Viewport(r) = Viewport(b)
    BY <1>5, <1>7, <1>8, <1>10, <1>11
  <2> QED BY <1>4, <2>1, <2>2, StillFacing DEF Viewport
<1>13. r.gpu.depth = m.depth /\ r.gpu.alpha = m.alpha /\ r.gpu.frame = p.gpu.frame
  <2>1. Modal(z) = <<m.depth, p.gpu.alpha, p.gpu.frame>>
    BY <1>3, <1>4, <1>5, <1>7, <1>8, <1>10
  <2> QED BY <1>11, <2>1 DEF Modal
<1>14. \A i \in Used[c] : i \in Slots /\ i \notin r.changed
  <2>1. Used[c] \subseteq {0, 1}
    BY CombinerAssumption DEF Slots
  <2>2. r.changed = y.changed
    BY <1>10, <1>11 DEF Textures
  <2>3. 1 \in Used[c] => 1 \notin y.changed
    BY <1>8
  <2>4. 0 \in Used[c] => 0 \notin y.changed
    BY <1>7, <1>8
  <2> QED BY <2>1, <2>2, <2>3, <2>4 DEF Slots
<1>15. \A i \in Used[c] : Image(f, i) # Nothing =>
         /\ r.ptr[i] = Image(f, i) /\ Image(f, i) \in Cached(r.cache)
         /\ r.gpu.unit[i] = r.cache.id[Image(f, i)] /\ r.gpu.unit[i] # 0
         /\ r.gpu.content[r.gpu.unit[i]] = <<Image(f, i), edits[Image(f, i)]>>
         /\ r.gpu.hw[r.gpu.unit[i]] = r.cache.hw[Image(f, i)]
  <2> TAKE i \in Used[c]
  <2> HAVE Image(f, i) # Nothing
  <2>1. r.ptr[i] = Image(f, i)
    BY <1>12, <1>14 DEF Showing
  <2>2. Image(f, i) \in Cached(r.cache) /\ r.gpu.unit[i] = r.cache.id[Image(f, i)]
    BY <1>11, <1>14, <2>1 DEF Good, Bound
  <2> QED BY <1>11, <2>1, <2>2 DEF Good, Uploaded, Cached
<1> DEFINE used == {i \in Used[c] : w.tex[i] # Nothing}
<1>16. \A i \in used : i \in Used[c] /\ Image(f, i) # Nothing
  BY <1>9, <1>14
<1>17. Right(r, w, "texture")
  <2>1. \A i \in used : r.gpu.unit[i] # 0 /\ r.gpu.content[r.gpu.unit[i]] = w.tex[i]
    BY <1>9, <1>14, <1>15, <1>16
  <2> QED BY <1>9, <2>1 DEF Right
<1>18. ASSUME NEW i \in used, \A j \in used : j > i => r.gpu.unit[j] # r.gpu.unit[i]
       PROVE  r.cache.hw[Image(f, i)] = TileOf(f, i).hw
  <2>1. i \in Used[c] /\ Image(f, i) # Nothing /\ (i = 0 \/ i = 1)
    BY <1>14, <1>16 DEF Slots
  <2>2. r.cache = y.cache
    BY <1>10, <1>11 DEF Textures
  <2>3. CASE i = 1
    BY <1>8, <2>1, <2>2, <2>3
  <2>4. CASE i = 0 /\ 1 \notin Used[c]
    BY <1>7, <1>8, <2>1, <2>2, <2>4
  <2>5. CASE i = 0 /\ 1 \in Used[c]
    <3>1. Image(f, 1) # Nothing
      BY <1>2, <2>1, ImageIs
    <3>2. 1 \in used /\ 1 > i
      BY <1>2, <1>9, <2>5, <3>1
    <3>3. r.gpu.unit[1] # r.gpu.unit[0]
      BY <1>18, <2>5, <3>2
    <3>4. Image(f, 1) # Image(f, 0)
      BY <1>15, <2>1, <2>5, <3>1, <3>3
    <3>5. Image(f, 0) \in Cached(y.cache) \ {Image(f, 1)}
      BY <1>15, <2>1, <2>2, <2>5, <3>4
    <3> QED BY <1>7, <1>8, <2>1, <2>2, <2>5, <3>1, <3>5
  <2> QED BY <2>1, <2>3, <2>4, <2>5
<1>19. Right(r, w, "sampler")
  <2>1. \A i \in used : (\A j \in used : j > i => r.gpu.unit[j] # r.gpu.unit[i])
          => r.gpu.unit[i] # 0 /\ r.gpu.hw[r.gpu.unit[i]] = w.hw[i]
    BY <1>9, <1>14, <1>15, <1>16, <1>18
  <2> QED BY <1>9, <2>1 DEF Right
<1>20. Right(r, w, "state") /\ Right(r, w, "frame") /\ Right(r, w, "program")
  BY <1>9, <1>10, <1>11, <1>12, <1>13 DEF Right
<1>21. \A k \in Aspects : Right(r, w, k)
  BY <1>17, <1>19, <1>20 DEF Aspects
<1>22. Good(q, edits) /\ Textures(q) = Textures(r) /\ Viewport(q) = Viewport(r)
  BY <1>9, <1>11, <1>21, BufferIs DEF q
<1> QED BY <1>1, <1>12, <1>22, StillShowing, StillFacing

------------------------------------------------------------------------------
LEMMA InitKeepsRdp == RdpInit => RdpInv
<1> SUFFICES ASSUME RdpInit PROVE RdpInv
  OBVIOUS
<1>1. Rdp /\ settled = FALSE /\ view \in Views /\ edits = [k \in Images |-> 0]
  <2>1. 0 \in 0 .. MaxEdits
    BY TriAssumption
  <2> QED BY <2>1 DEF RdpInit, Rdp
<1>2. PICK m \in Modes : pipe = Fresh(m, view)
  BY DEF RdpInit
<1> DEFINE u == [i \in Slots |-> 0]
           h == [n \in 1 .. CacheSize |-> DefaultHw]
           t == [n \in 1 .. CacheSize |-> Nothing]
           g == [depth |-> m.depth, alpha |-> m.alpha, view |-> view, frame |-> Main,
                 prog |-> Nothing, unit |-> u, hw |-> h, content |-> t]
<1>3. /\ u \in [Slots -> 0 .. CacheSize] /\ h \in [1 .. CacheSize -> Hw]
      /\ t \in [1 .. CacheSize -> Contents \union {Nothing}]
  BY HwAssumption, CacheSizeAssumption
<1> HIDE DEF u, h, t
<1>4. g \in Gpus
  BY <1>1, <1>3, MainAssumption DEF Gpus, Depths, Alphas
<1>5. pipe = [buffer |-> {}, count |-> 0, bad |-> {}, changed |-> {}, viewChanged |-> TRUE,
              seen |-> NoView, progs |-> {}, cache |-> EmptyCache,
              ptr |-> [i \in Slots |-> Nothing], gpu |-> g]
  BY <1>2 DEF Fresh, g, u, h, t
<1> HIDE DEF g
<1>6. pipe \in Pipes
  <2>1. [i \in Slots |-> Nothing] \in [Slots -> Images \union {Nothing}] /\ 0 \in 0 .. MaxTris - 1
    BY TriAssumption
  <2> QED BY <1>4, <1>5, <2>1, EmptyIs DEF Pipes
<1>7. /\ pipe.buffer = {} /\ pipe.bad = {} /\ pipe.cache = EmptyCache /\ pipe.seen = NoView
      /\ pipe.viewChanged = TRUE /\ pipe.ptr = [i \in Slots |-> Nothing]
  BY <1>5
<1>8. Good(pipe, edits)
  BY <1>6, <1>7, EmptyIs DEF Good, Bound, Uploaded, Clean, Waiting
<1> QED BY <1>1, <1>7, <1>8 DEF RdpInv, Facing

LEMMA TriangleKeeps ==
  ASSUME RdpInv, NEW m \in Modes, NEW c \in Combiners, NEW missed, Triangle(m, c, missed)
  PROVE  RdpInv'
<1>1. /\ settled /\ pipe' = GfxSpTri1(pipe, m, view, first, c, missed)
      /\ view' = view /\ first' = first /\ tile' = tile /\ loaded' = loaded
      /\ edits' = edits /\ settled' = settled
  BY DEF Triangle, rdp
<1>2. /\ Rdp /\ Good(pipe, edits) /\ Facing(pipe, view) /\ Showing(pipe, first)
      /\ view \in Views /\ first \in {0, 1}
  BY <1>1 DEF RdpInv, Rdp
<1>3. LET q == GfxSpTri1(pipe, m, view, first, c, missed)
      IN  Good(q, edits) /\ Showing(q, first) /\ Facing(q, view)
  BY <1>2, GfxSpTri1Is
<1>4. Rdp'
  BY <1>1, <1>2 DEF Rdp
<1>5. Good(pipe', edits') /\ Facing(pipe', view')
  BY <1>1, <1>3
<1>6. Showing(pipe, first)'
  BY <1>1, <1>3 DEF Showing, Image, ImageOf, TileOf
<1> QED BY <1>4, <1>5, <1>6 DEF RdpInv

(* Marks do not matter to what is buffered.                                 *)
LEMMA SameGood ==
  ASSUME NEW e, NEW p, Good(p, e), NEW q \in Pipes, q.buffer = p.buffer, q.bad = p.bad,
         q.cache = p.cache, q.ptr = p.ptr, q.gpu = p.gpu
  PROVE  Good(q, e)
<1>1. \A w \in p.buffer : \A a \in Flushed \union {"program"} : Right(q, w, a) = Right(p, w, a)
  BY RightIs
<1>2. Waiting(q)
  BY <1>1 DEF Good, Waiting
<1> QED BY <1>2 DEF Good, Bound, Uploaded, Clean

LEMMA RectangleKeeps ==
  ASSUME RdpInv, NEW m \in FlatModes, NEW f \in {0, 1}, NEW c \in Combiners, NEW missed,
         Rectangle(m, f, c, missed)
  PROVE  RdpInv'
<1>1. /\ settled /\ pipe' = DrawRectangle(pipe, m, f, c, missed)
      /\ view' = view /\ first' = first /\ tile' = tile /\ loaded' = loaded
      /\ edits' = edits /\ settled' = settled
  BY DEF Rectangle, rdp
<1>2. /\ Rdp /\ Good(pipe, edits) /\ Facing(pipe, view) /\ Showing(pipe, first)
      /\ view \in Views /\ m \in Modes /\ Whole[view] \in Views /\ Whole[view] # NoView
      /\ pipe \in Pipes
  BY <1>1, ModeAssumption, ViewAssumption DEF RdpInv, Rdp, Good
<1> DEFINE touched == IF f = first THEN {} ELSE Slots
           v == Whole[view]
           before == [pipe EXCEPT !.changed = @ \union touched, !.viewChanged = TRUE]
           one == GfxSpTri1(before, m, v, f, c, missed)
           two == GfxSpTri1(one, m, v, f, c, missed)
           q == [two EXCEPT !.changed = @ \union touched, !.viewChanged = TRUE]
<1>3. pipe' = q
  BY <1>1 DEF DrawRectangle
<1>4. touched \subseteq Slots /\ pipe.changed \subseteq Slots
  BY <1>2, GpuIs
<1>5. /\ Good(before, edits) /\ before.changed = pipe.changed \union touched
      /\ before.viewChanged = TRUE /\ before.seen = pipe.seen /\ before.gpu = pipe.gpu
      /\ before.ptr = pipe.ptr /\ before.cache = pipe.cache
  <2> DEFINE s == pipe.changed \union touched
  <2>1. s \in SUBSET Slots
    BY <1>4
  <2>2. before = [pipe EXCEPT !.changed = s, !.viewChanged = TRUE]
    OBVIOUS
  <2> HIDE DEF s, before
  <2>3. before \in Pipes
    BY <1>2, <2>1, <2>2 DEF Pipes
  <2>4. /\ before.changed = s /\ before.viewChanged = TRUE /\ before.seen = pipe.seen
        /\ before.gpu = pipe.gpu /\ before.ptr = pipe.ptr /\ before.cache = pipe.cache
        /\ before.buffer = pipe.buffer /\ before.bad = pipe.bad
    BY <1>2, <2>2 DEF Pipes
  <2>5. Good(before, edits)
    BY <1>2, <2>3, <2>4, SameGood
  <2> QED BY <2>4, <2>5 DEF s
<1>6. Facing(before, v)
  <2> HIDE DEF before
  <2> QED BY <1>2, <1>5 DEF Facing
<1>7. Showing(before, f)
  <2> HIDE DEF before
  <2>1. CASE f = first
    BY <1>2, <1>5, <2>1 DEF Showing
  <2>2. CASE f # first
    BY <1>4, <1>5, <2>2 DEF Showing
  <2> QED BY <2>1, <2>2
<1> HIDE DEF before, v
<1>8. Good(one, edits) /\ Showing(one, f) /\ Facing(one, v)
  <2>1. v \in Views
    BY <1>2 DEF v
  <2> QED BY <1>2, <1>5, <1>6, <1>7, <2>1, GfxSpTri1Is
<1> HIDE DEF one
<1>9. Good(two, edits) /\ Showing(two, f)
  <2>1. v \in Views
    BY <1>2 DEF v
  <2> QED BY <1>2, <1>8, <2>1, GfxSpTri1Is
<1>10. two \in Pipes /\ two.changed \subseteq Slots
  BY <1>9, GpuIs DEF Good
<1>11. /\ Good(q, edits) /\ q.changed = two.changed \union touched /\ q.viewChanged = TRUE
       /\ q.ptr = two.ptr /\ q.cache = two.cache /\ q.seen = two.seen /\ q.gpu = two.gpu
  <2> DEFINE s == two.changed \union touched
  <2>1. s \in SUBSET Slots
    BY <1>4, <1>10
  <2>2. q = [two EXCEPT !.changed = s, !.viewChanged = TRUE]
    OBVIOUS
  <2> HIDE DEF s, two, q
  <2>3. q \in Pipes
    BY <1>10, <2>1, <2>2 DEF Pipes
  <2>4. /\ q.changed = s /\ q.viewChanged = TRUE /\ q.seen = two.seen
        /\ q.gpu = two.gpu /\ q.ptr = two.ptr /\ q.cache = two.cache
        /\ q.buffer = two.buffer /\ q.bad = two.bad
    BY <1>10, <2>2 DEF Pipes
  <2>5. Good(q, edits)
    BY <1>9, <2>3, <2>4, SameGood
  <2> QED BY <2>4, <2>5 DEF s
<1>12. two.seen # NoView => two.gpu.view = two.seen
  <2>1. Facing(two, v)
    <3>1. v \in Views
      BY <1>2 DEF v
    <3> QED BY <1>2, <1>8, <3>1, GfxSpTri1Is
  <2> HIDE DEF two
  <2> QED BY <2>1 DEF Facing
<1> HIDE DEF two, q
<1>13. Facing(q, view)
  BY <1>11, <1>12 DEF Facing
<1>14. Showing(q, first)
  <2>1. CASE f = first
    BY <1>9, <1>11, <2>1 DEF Showing
  <2>2. CASE f # first
    BY <1>4, <1>11, <2>2 DEF Showing
  <2> QED BY <2>1, <2>2
<1>15. Rdp'
  BY <1>1, <1>2 DEF Rdp
<1>16. Showing(pipe, first)'
  BY <1>1, <1>3, <1>14 DEF Showing, Image, ImageOf, TileOf
<1> QED BY <1>1, <1>3, <1>11, <1>13, <1>15, <1>16 DEF RdpInv

(* Entries that are given up take the pointers to them with them.           *)
LEMMA ForgottenIs ==
  ASSUME NEW e, NEW p, Good(p, e), NEW d \in Caches, CacheWell(d), Cached(d) \subseteq Cached(p.cache),
         \A l \in Cached(d) : d.id[l] = p.cache.id[l] /\ d.hw[l] = p.cache.hw[l],
         NEW n, \A l \in Cached(d) : n[l] = e[l],
         NEW q, q = Forgotten(p, d)
  PROVE  Good(q, n) /\ Viewport(q) = Viewport(p)
<1> DEFINE t == [j \in Slots |-> IF p.ptr[j] \in Cached(d) THEN p.ptr[j] ELSE Nothing]
<1>1. p \in Pipes /\ p.ptr \in [Slots -> Images \union {Nothing}]
  BY GpuIs DEF Good
<1>2. q = [p EXCEPT !.cache = d, !.ptr = t] /\ t \in [Slots -> Images \union {Nothing}]
  BY <1>1 DEF Forgotten
<1>3. \A j \in Slots : t[j] # Nothing => t[j] = p.ptr[j] /\ p.ptr[j] \in Cached(d)
  OBVIOUS
<1> HIDE DEF t
<1>4. q \in Pipes
  BY <1>1, <1>2 DEF Pipes
<1>5. /\ q.buffer = p.buffer /\ q.bad = p.bad /\ q.gpu = p.gpu /\ q.cache = d /\ q.ptr = t
      /\ q.changed = p.changed /\ q.viewChanged = p.viewChanged /\ q.seen = p.seen
  BY <1>1, <1>2 DEF Pipes
<1>6. Bound(q)
  BY <1>3, <1>5 DEF Good, Bound
<1>7. Uploaded(q, n)
  BY <1>5 DEF Good, Uploaded
<1>8. Waiting(q)
  <2>1. \A w \in p.buffer : \A a \in Flushed \union {"program"} : Right(q, w, a) = Right(p, w, a)
    BY <1>5, RightIs
  <2> QED BY <1>5, <2>1 DEF Good, Waiting
<1>9. Clean(q)
  BY <1>5 DEF Good, Clean
<1> QED BY <1>4, <1>5, <1>6, <1>7, <1>8, <1>9 DEF Good, Viewport

LEMMA CommandsKeep ==
  ASSUME RdpInv,
         \/ \E v \in Views : SetViewport(v)
         \/ \E f \in {0, 1} : SetTexture(f)
         \/ \E w \in TileWords : SetTile(w)
         \/ \E n \in {0, 1}, k \in Images : LoadBlock(n, k)
         \/ \E k \in Images : Invalidate(k)
         \/ InvalidateAll
         \/ \E f \in Framebuffers : SetFb(f)
         \/ ResetFb
         \/ BreakInFb
         \/ UNCHANGED rdpVars
  PROVE  RdpInv'
<1> USE DEF rdp
<1>1. /\ Rdp /\ Good(pipe, edits) /\ Facing(pipe, view) /\ (settled => Showing(pipe, first))
      /\ view \in Views /\ first \in {0, 1}
      /\ tile \in [Tiles -> TileWords \union {NoTile}]
      /\ loaded \in [{0, 1} -> Images \union {Nothing}]
      /\ edits \in [Images -> 0 .. MaxEdits] /\ settled \in BOOLEAN
  BY DEF RdpInv, Rdp
<1>2. pipe \in Pipes /\ pipe.changed \subseteq Slots /\ pipe.cache \in Caches /\ CacheWell(pipe.cache)
  BY <1>1, GpuIs DEF Good
<1>3. ASSUME NEW v \in Views, SetViewport(v) PROVE RdpInv'
  <2> DEFINE q == [pipe EXCEPT !.viewChanged = TRUE]
  <2>1. /\ pipe' = q /\ view' = v /\ first' = first /\ tile' = tile /\ loaded' = loaded
        /\ edits' = edits /\ settled' = settled
    BY <1>3 DEF SetViewport
  <2>2. q \in Pipes
    BY <1>2 DEF Pipes
  <2>3. /\ q.buffer = pipe.buffer /\ q.bad = pipe.bad /\ q.gpu = pipe.gpu /\ q.cache = pipe.cache
        /\ q.ptr = pipe.ptr /\ q.changed = pipe.changed /\ q.viewChanged = TRUE /\ q.seen = pipe.seen
    BY <1>2 DEF Pipes
  <2> HIDE DEF q
  <2>4. Good(q, edits)
    BY <1>1, <2>2, <2>3, SameGood
  <2>5. Facing(q, v)
    BY <1>1, <2>3 DEF Facing
  <2>6. settled => Showing(q, first)
    BY <1>1, <2>3 DEF Showing
  <2>7. Rdp'
    BY <1>1, <2>1 DEF Rdp
  <2>8. settled' => Showing(pipe, first)'
    BY <2>1, <2>6 DEF Showing, Image, ImageOf, TileOf
  <2> QED BY <2>1, <2>4, <2>5, <2>7, <2>8 DEF RdpInv
<1>4. ASSUME NEW f \in {0, 1}, SetTexture(f) PROVE RdpInv'
  <2> DEFINE s == IF f = first THEN pipe.changed ELSE Slots
             q == [pipe EXCEPT !.changed = s]
  <2>1. /\ pipe' = q /\ view' = view /\ first' = f /\ tile' = tile /\ loaded' = loaded
        /\ edits' = edits /\ settled' = settled
    BY <1>4 DEF SetTexture
  <2>2. s \in SUBSET Slots /\ (f # first => s = Slots) /\ (f = first => s = pipe.changed)
    BY <1>2
  <2> HIDE DEF s
  <2>3. q \in Pipes
    BY <1>2, <2>2 DEF Pipes
  <2>4. /\ q.buffer = pipe.buffer /\ q.bad = pipe.bad /\ q.gpu = pipe.gpu /\ q.cache = pipe.cache
        /\ q.ptr = pipe.ptr /\ q.changed = s /\ q.viewChanged = pipe.viewChanged /\ q.seen = pipe.seen
    BY <1>2 DEF Pipes
  <2> HIDE DEF q
  <2>5. Good(q, edits)
    BY <1>1, <2>3, <2>4, SameGood
  <2>6. Facing(q, view)
    BY <1>1, <2>4 DEF Facing
  <2>7. settled => Showing(q, f)
    BY <1>1, <2>2, <2>4 DEF Showing
  <2>8. Rdp'
    BY <1>1, <2>1 DEF Rdp
  <2>9. settled' => Showing(pipe, first)'
    BY <2>1, <2>7 DEF Showing, Image, ImageOf, TileOf
  <2> QED BY <2>1, <2>5, <2>6, <2>8, <2>9 DEF RdpInv
<1>5. ASSUME NEW w \in TileWords, SetTile(w) PROVE RdpInv'
  <2> DEFINE q == [pipe EXCEPT !.changed = Slots]
  <2>1. /\ pipe' = q /\ view' = view /\ first' = first /\ tile' = [tile EXCEPT ![w.tile] = w]
        /\ loaded' = loaded /\ edits' = edits /\ settled' = TRUE
    BY <1>5 DEF SetTile
  <2>2. q \in Pipes
    BY <1>2 DEF Pipes
  <2>3. /\ q.buffer = pipe.buffer /\ q.bad = pipe.bad /\ q.gpu = pipe.gpu /\ q.cache = pipe.cache
        /\ q.ptr = pipe.ptr /\ q.changed = Slots /\ q.viewChanged = pipe.viewChanged /\ q.seen = pipe.seen
    BY <1>2 DEF Pipes
  <2> HIDE DEF q
  <2>4. Good(q, edits)
    BY <1>1, <2>2, <2>3, SameGood
  <2>5. Facing(q, view)
    BY <1>1, <2>3 DEF Facing
  <2>6. Showing(pipe, first)'
    BY <2>1, <2>3 DEF Showing
  <2>7. Rdp'
    BY <1>1, <2>1 DEF Rdp
  <2> QED BY <2>1, <2>4, <2>5, <2>6, <2>7 DEF RdpInv
<1>6. ASSUME NEW n \in {0, 1}, NEW k \in Images, LoadBlock(n, k) PROVE RdpInv'
  <2> DEFINE s == pipe.changed \union {n}
             q == [pipe EXCEPT !.changed = s]
  <2>1. /\ pipe' = q /\ view' = view /\ first' = first /\ tile' = tile
        /\ loaded' = [loaded EXCEPT ![n] = k] /\ edits' = edits /\ settled' = FALSE
    BY <1>6 DEF LoadBlock
  <2>2. s \in SUBSET Slots
    BY <1>2 DEF Slots
  <2> HIDE DEF s
  <2>3. q \in Pipes
    BY <1>2, <2>2 DEF Pipes
  <2>4. /\ q.buffer = pipe.buffer /\ q.bad = pipe.bad /\ q.gpu = pipe.gpu /\ q.cache = pipe.cache
        /\ q.ptr = pipe.ptr /\ q.viewChanged = pipe.viewChanged /\ q.seen = pipe.seen
    BY <1>2 DEF Pipes
  <2> HIDE DEF q
  <2>5. Good(q, edits)
    BY <1>1, <2>3, <2>4, SameGood
  <2>6. Facing(q, view)
    BY <1>1, <2>4 DEF Facing
  <2>7. Rdp'
    BY <1>1, <2>1 DEF Rdp
  <2> QED BY <2>1, <2>5, <2>6, <2>7 DEF RdpInv
<1>7. ASSUME NEW k \in Images, Invalidate(k) PROVE RdpInv'
  <2> DEFINE d == Delete(pipe.cache, k)
             n == [edits EXCEPT ![k] = @ + 1]
             q == Forgotten(pipe, d)
  <2>1. /\ pipe' = q /\ view' = view /\ first' = first /\ tile' = tile /\ loaded' = loaded
        /\ edits' = n /\ settled' = FALSE /\ edits[k] < MaxEdits
    BY <1>7 DEF Invalidate
  <2>2. /\ d \in Caches /\ CacheWell(d) /\ Cached(d) = Cached(pipe.cache) \ {k}
        /\ \A l \in Cached(d) : d.id[l] = pipe.cache.id[l] /\ d.hw[l] = pipe.cache.hw[l]
    BY <1>2, DeleteIs
  <2>3. n \in [Images -> 0 .. MaxEdits] /\ \A l \in Images \ {k} : n[l] = edits[l]
    BY <1>1, <2>1, TriAssumption
  <2> HIDE DEF d, n
  <2>4. \A l \in Cached(d) : n[l] = edits[l]
    BY <2>2, <2>3 DEF Cached
  <2>5. q = Forgotten(pipe, d)
    OBVIOUS
  <2> HIDE DEF q
  <2>6. Good(q, n) /\ Viewport(q) = Viewport(pipe)
    <3>1. Cached(d) \subseteq Cached(pipe.cache)
      BY <2>2
    <3> QED BY <1>1, <2>2, <2>4, <2>5, <3>1, ForgottenIs
  <2>7. Facing(q, view)
    BY <1>1, <2>6, StillFacing
  <2>8. Rdp'
    BY <1>1, <2>1, <2>3 DEF Rdp
  <2> QED BY <2>1, <2>6, <2>7, <2>8 DEF RdpInv
<1>8. ASSUME InvalidateAll PROVE RdpInv'
  <2>1. PICK d \in Clears(pipe.cache) : pipe' = Forgotten(pipe, d)
    BY <1>8 DEF InvalidateAll
  <2>2. /\ view' = view /\ first' = first /\ tile' = tile /\ loaded' = loaded
        /\ edits' = edits /\ settled' = FALSE
    BY <1>8 DEF InvalidateAll
  <2>3. d \in Caches /\ CacheWell(d) /\ Cached(d) = {}
    BY <1>2, ClearsAre
  <2>4. Good(pipe', edits) /\ Viewport(pipe') = Viewport(pipe)
    BY <1>1, <2>1, <2>3, ForgottenIs
  <2>5. Facing(pipe', view)
    BY <1>1, <2>4, StillFacing
  <2>6. Rdp'
    BY <1>1, <2>2 DEF Rdp
  <2> QED BY <2>2, <2>4, <2>5, <2>6 DEF RdpInv
<1> DEFINE o == Flush(pipe)
<1>9. /\ o \in Pipes /\ o.buffer = {} /\ Good(o, edits)
      /\ o.gpu = pipe.gpu /\ o.cache = pipe.cache /\ o.ptr = pipe.ptr
      /\ o.changed = pipe.changed /\ o.viewChanged = pipe.viewChanged /\ o.seen = pipe.seen
  BY <1>1, FlushIs
<1>10. ASSUME NEW f \in Framebuffers, SetFb(f) PROVE RdpInv'
  <2> DEFINE q == [o EXCEPT !.gpu.frame = f]
  <2>1. /\ pipe' = q /\ view' = view /\ first' = first /\ tile' = tile /\ loaded' = loaded
        /\ edits' = edits /\ settled' = settled
    BY <1>10 DEF SetFb
  <2> HIDE DEF o
  <2>2. q \in Pipes
    BY <1>9 DEF Pipes, Gpus
  <2>3. /\ q.buffer = o.buffer /\ q.bad = o.bad /\ q.cache = o.cache /\ q.ptr = o.ptr
        /\ q.changed = o.changed /\ q.viewChanged = o.viewChanged /\ q.seen = o.seen
        /\ q.gpu = [o.gpu EXCEPT !.frame = f]
    BY <1>9 DEF Pipes
  <2>4. /\ q.gpu.view = o.gpu.view /\ q.gpu.unit = o.gpu.unit /\ q.gpu.hw = o.gpu.hw
        /\ q.gpu.content = o.gpu.content
    BY <1>9, <2>3, GpuIs DEF Gpus
  <2> HIDE DEF q
  <2>5. Good(q, edits)
    BY <1>9, <2>2, <2>3, <2>4, NothingWaits DEF Textures
  <2>6. Textures(q) = Textures(pipe) /\ Viewport(q) = Viewport(pipe)
    BY <1>9, <2>3, <2>4 DEF Textures, Viewport
  <2>7. Facing(q, view) /\ (settled => Showing(q, first))
    BY <1>1, <2>6, StillFacing, StillShowing
  <2>8. Rdp'
    BY <1>1, <2>1 DEF Rdp
  <2>9. settled' => Showing(pipe, first)'
    BY <2>1, <2>7 DEF Showing, Image, ImageOf, TileOf
  <2> QED BY <2>1, <2>5, <2>7, <2>8, <2>9 DEF RdpInv
<1>11. ASSUME ResetFb PROVE RdpInv'
  <2> DEFINE q == [o EXCEPT !.gpu.frame = Main, !.seen = NoView, !.viewChanged = TRUE]
  <2>1. /\ pipe' = q /\ view' = view /\ first' = first /\ tile' = tile /\ loaded' = loaded
        /\ edits' = edits /\ settled' = settled
    BY <1>11 DEF ResetFb
  <2> HIDE DEF o
  <2>2. q \in Pipes
    BY <1>9, MainAssumption DEF Pipes, Gpus
  <2>3. /\ q.buffer = o.buffer /\ q.bad = o.bad /\ q.cache = o.cache /\ q.ptr = o.ptr
        /\ q.changed = o.changed /\ q.viewChanged = TRUE /\ q.seen = NoView
        /\ q.gpu = [o.gpu EXCEPT !.frame = Main]
    BY <1>9 DEF Pipes
  <2>4. /\ q.gpu.unit = o.gpu.unit /\ q.gpu.hw = o.gpu.hw /\ q.gpu.content = o.gpu.content
    BY <1>9, <2>3, GpuIs DEF Gpus
  <2> HIDE DEF q
  <2>5. Good(q, edits)
    BY <1>9, <2>2, <2>3, <2>4, NothingWaits DEF Textures
  <2>6. Textures(q) = Textures(pipe)
    BY <1>9, <2>3, <2>4 DEF Textures
  <2>7. Facing(q, view)
    BY <2>3 DEF Facing
  <2>8. settled => Showing(q, first)
    BY <1>1, <2>6, StillShowing
  <2>9. Rdp'
    BY <1>1, <2>1 DEF Rdp
  <2>10. settled' => Showing(pipe, first)'
    BY <2>1, <2>8 DEF Showing, Image, ImageOf, TileOf
  <2> QED BY <2>1, <2>5, <2>7, <2>9, <2>10 DEF RdpInv
<1>12. ASSUME UNCHANGED rdpVars PROVE RdpInv'
  <2>1. /\ pipe' = pipe /\ view' = view /\ first' = first /\ tile' = tile /\ loaded' = loaded
        /\ edits' = edits /\ settled' = settled
    BY <1>12 DEF rdpVars
  <2>2. Rdp'
    BY <1>1, <2>1 DEF Rdp
  <2>3. settled' => Showing(pipe, first)'
    BY <1>1, <2>1 DEF Showing, Image, ImageOf, TileOf
  <2> QED BY <1>1, <2>1, <2>2, <2>3 DEF RdpInv
<1>13. ASSUME BreakInFb PROVE RdpInv'
  <2> DEFINE left == [pipe EXCEPT !.gpu.frame = Main]
             b == pipe.bad \union {IF a = "frame" THEN Stopped ELSE a : a \in Wrongs(left)}
             q == [Flush(left) EXCEPT !.seen = NoView, !.viewChanged = TRUE, !.bad = b]
  <2>1. /\ pipe' = q /\ view' = view /\ first' = first /\ tile' = tile /\ loaded' = loaded
        /\ edits' = edits /\ settled' = settled
    BY <1>13 DEF BreakInFb
  <2>2. /\ left \in Pipes /\ left.buffer = pipe.buffer /\ left.bad = pipe.bad
        /\ left.gpu = [pipe.gpu EXCEPT !.frame = Main] /\ Textures(left) = Textures(pipe)
    BY <1>2, GpuIs, MainAssumption DEF Pipes, Gpus, Textures
  <2>3. /\ left.gpu.depth = pipe.gpu.depth /\ left.gpu.alpha = pipe.gpu.alpha
        /\ left.gpu.view = pipe.gpu.view /\ left.gpu.unit = pipe.gpu.unit
        /\ left.gpu.hw = pipe.gpu.hw /\ left.gpu.content = pipe.gpu.content
        /\ left.gpu.prog = pipe.gpu.prog
    BY <1>2, <2>2, GpuIs DEF Gpus
  <2> HIDE DEF left
  <2>4. \A w \in pipe.buffer : \A a \in Aspects \ {"frame"} : Right(left, w, a) = Right(pipe, w, a)
    BY <2>3 DEF Right, Aspects
  <2>5. Wrongs(left) \subseteq Aspects /\ Wrongs(left) \intersect (Flushed \ {"frame"}) = {}
    BY <1>1, <2>2, <2>4 DEF Wrongs, Good, Waiting, Flushed, Aspects
  <2>6. "program" \in Wrongs(left) => Late \in pipe.bad
    BY <1>1, <2>2, <2>4 DEF Wrongs, Good, Waiting, Aspects
  <2>7. b \subseteq Faults /\ b \intersect Flushed = {} /\ ("program" \in b => Late \in b)
    <3>1. pipe.bad \subseteq Faults /\ Clean(pipe)
      BY <1>1, <1>2, GpuIs DEF Good
    <3>2. \A x \in b : x \in pipe.bad \/ x = Stopped \/ (x \in Wrongs(left) /\ x # "frame")
      OBVIOUS
    <3>3. Stopped \in Faults /\ Stopped \notin Flushed /\ Stopped # "program"
      BY DEF Stopped, Faults, Flushed
    <3>4. pipe.bad \subseteq b
      OBVIOUS
    <3> HIDE DEF b
    <3> QED BY <2>5, <2>6, <3>1, <3>2, <3>3, <3>4 DEF Clean, Faults
  <2> HIDE DEF b
  <2>8. q = [left EXCEPT !.buffer = {}, !.count = 0, !.bad = b, !.seen = NoView, !.viewChanged = TRUE]
    BY <2>2 DEF Flush, Pipes
  <2> HIDE DEF q
  <2>9. q \in Pipes
    <3>1. {} \subseteq Wants /\ 0 \in 0 .. MaxTris - 1 /\ b \subseteq Faults
      BY <2>7, TriAssumption
    <3>2. left \in Pipes
      BY <2>2
    <3> QED BY ONLY <2>8, <3>1, <3>2 DEF Pipes
  <2>10. /\ q.buffer = {} /\ q.bad = b /\ q.cache = left.cache /\ q.ptr = left.ptr
         /\ q.changed = left.changed /\ q.viewChanged = TRUE /\ q.seen = NoView
         /\ q.gpu = left.gpu
    BY <2>2, <2>8 DEF Pipes
  <2>11. Textures(q) = Textures(pipe)
    BY <2>2, <2>10 DEF Textures
  <2>12. Good(q, edits)
    <3>1. CacheWell(q.cache) /\ Bound(q) /\ Uploaded(q, edits)
      BY <1>1, <2>11 DEF Good, Textures, Bound, Uploaded
    <3>2. Clean(q) /\ Waiting(q)
      BY <2>7, <2>10 DEF Clean, Waiting
    <3> QED BY <2>9, <3>1, <3>2 DEF Good
  <2>13. Facing(q, view)
    BY <2>10 DEF Facing
  <2>14. settled => Showing(q, first)
    BY <1>1, <2>11, StillShowing
  <2>15. Rdp'
    BY <1>1, <2>1 DEF Rdp
  <2>16. settled' => Showing(pipe, first)'
    BY <2>1, <2>14 DEF Showing, Image, ImageOf, TileOf
  <2> QED BY <2>1, <2>12, <2>13, <2>15, <2>16 DEF RdpInv
<1> QED BY <1>3, <1>4, <1>5, <1>6, <1>7, <1>8, <1>10, <1>11, <1>12, <1>13

(* RdpInv is inductive.                                                     *)
THEOREM RdpInvHolds == RdpSpec => []RdpInv
<1>1. RdpInit => RdpInv
  BY InitKeepsRdp
<1>2. RdpInv /\ [RdpNext]_rdpVars => RdpInv'
  <2> SUFFICES ASSUME RdpInv, [RdpNext]_rdpVars PROVE RdpInv'
    OBVIOUS
  <2>1. CASE \E m \in Modes, c \in Combiners, missed \in BOOLEAN : Triangle(m, c, missed)
    BY <2>1, TriangleKeeps
  <2>2. CASE \E m \in FlatModes, f \in {0, 1}, c \in Combiners, missed \in BOOLEAN : Rectangle(m, f, c, missed)
    BY <2>2, RectangleKeeps
  <2>3. CASE \/ \E v \in Views : SetViewport(v)
             \/ \E f \in {0, 1} : SetTexture(f)
             \/ \E w \in TileWords : SetTile(w)
             \/ \E n \in {0, 1}, k \in Images : LoadBlock(n, k)
             \/ \E k \in Images : Invalidate(k)
             \/ InvalidateAll
             \/ \E f \in Framebuffers : SetFb(f)
             \/ ResetFb
             \/ BreakInFb
             \/ UNCHANGED rdpVars
    BY <2>3, CommandsKeep
  <2> QED BY <2>1, <2>2, <2>3 DEF RdpNext
<1> QED BY <1>1, <1>2, PTL DEF RdpSpec

(* The RDP, the buffer, the cache and the GPU keep their types.             *)
THEOREM RdpTypeCorrect == RdpSpec => []RdpTypeOK
<1>1. RdpInv => RdpTypeOK
  BY DEF RdpInv, Rdp, RdpTypeOK, Good
<1> QED BY <1>1, RdpInvHolds, PTL

(* Every triangle is drawn with the state and the textures it was issued    *)
(* with, however many are buffered and whatever is cached; and where it was *)
(* issued for, but for what a breakpoint finds buffered in a framebuffer.   *)
THEOREM DrawnAsAskedHolds == RdpSpec => []DrawnAsAsked
<1>1. RdpInv => DrawnAsAsked
  BY DEF RdpInv, Good, Clean, Flushed, DrawnAsAsked
<1> QED BY <1>1, RdpInvHolds, PTL

(* Every texture is sampled as the tile said.                               *)
THEOREM SampledAsAskedHolds == RdpSpec => []SampledAsAsked
<1>1. RdpInv => SampledAsAsked
  BY DEF RdpInv, Good, Clean, Flushed, SampledAsAsked
<1> QED BY <1>1, RdpInvHolds, PTL

(* A triangle is drawn by a wrong program only if a variant was compiled    *)
(* over the buffer.                                                         *)
THEOREM DrawnByItsProgramHolds == RdpSpec => []DrawnByItsProgram
<1>1. RdpInv => DrawnByItsProgram
  BY DEF RdpInv, Good, Clean, DrawnByItsProgram
<1> QED BY <1>1, RdpInvHolds, PTL

(* The cache stays consistent, at any size.                                 *)
THEOREM CacheConsistentHolds == RdpSpec => []CacheConsistent
<1>1. RdpInv => CacheConsistent
  BY DEF RdpInv, Good, Bound, CacheConsistent
<1> QED BY <1>1, RdpInvHolds, PTL
==============================================================================
