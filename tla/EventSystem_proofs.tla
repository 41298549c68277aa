------------------------ MODULE EventSystem_proofs ---------------------------
(***************************************************************************)
(* What EventSystem keeps for any events, priorities, numbers of listeners *)
(* and depth of calls: the order of every list of listeners, and that      *)
(* calls which nothing disturbs run over their list in order.              *)
(***************************************************************************)
EXTENDS EventSystem, SequenceTheorems, TLAPS

(* An iterator does not pass its end, and until its buffer is given back   *)
(* its end is a slot of that buffer; a list no call runs over has no slots *)
(* behind its end that matter.                                             *)
IteratorsInside ==
  /\ \A c \in DOMAIN calls :
       /\ calls[c].pos <= calls[c].end
       /\ ~calls[c].dangling =>
            calls[c].end <= Len(listeners[calls[c].event]) + Len(freed[calls[c].event])

IInv == TypeOK /\ IteratorsInside

------------------------------------------------------------------------------
(* vector::insert makes x the k-th element.                                *)
LEMMA InsertAtIs ==
  ASSUME NEW S, NEW s \in Seq(S), NEW k \in 1 .. Len(s) + 1, NEW x \in S
  PROVE  /\ InsertAt(s, k, x) \in Seq(S)
         /\ Len(InsertAt(s, k, x)) = Len(s) + 1
         /\ \A i \in 1 .. Len(s) + 1 :
              InsertAt(s, k, x)[i] = IF i < k THEN s[i] ELSE IF i = k THEN x ELSE s[i - 1]
<1> DEFINE a == SubSeq(s, 1, k - 1)
           b == SubSeq(s, k, Len(s))
           ax == a \o <<x>>
<1>0. Len(s) \in Nat /\ \A i \in 1 .. Len(s) : s[i] \in S
  BY LenProperties, ElementOfSeq
<1>1. /\ a \in Seq(S) /\ Len(a) = k - 1
      /\ \A i \in 1 .. k - 1 : a[i] = s[i]
  <2>1. \A i \in 1 .. k - 1 : s[i] \in S
    BY <1>0
  <2>2. /\ a \in Seq(S)
        /\ Len(a) = IF 1 <= k - 1 THEN k - 1 - 1 + 1 ELSE 0
        /\ \A i \in 1 .. k - 1 - 1 + 1 : a[i] = s[1 + i - 1]
    BY <1>0, <2>1, SubSeqProperties
  <2> QED
    BY <1>0, <2>2
<1>2. /\ b \in Seq(S) /\ Len(b) = Len(s) - k + 1
      /\ \A i \in 1 .. Len(s) - k + 1 : b[i] = s[k + i - 1]
  <2>1. \A i \in k .. Len(s) : s[i] \in S
    BY <1>0
  <2>2. /\ b \in Seq(S)
        /\ Len(b) = IF k <= Len(s) THEN Len(s) - k + 1 ELSE 0
        /\ \A i \in 1 .. Len(s) - k + 1 : b[i] = s[k + i - 1]
    BY <1>0, <2>1, SubSeqProperties
  <2> QED
    BY <1>0, <2>2
<1>3. <<x>> \in Seq(S) /\ Len(<<x>>) = 1 /\ <<x>>[1] = x
  OBVIOUS
<1> HIDE DEF a, b
<1>4. /\ ax \in Seq(S) /\ Len(ax) = k
      /\ \A i \in 1 .. k : ax[i] = IF i < k THEN s[i] ELSE x
  <2>1. /\ ax \in Seq(S)
        /\ Len(ax) = Len(a) + Len(<<x>>)
        /\ \A i \in 1 .. Len(a) + Len(<<x>>) : ax[i] =
             IF i <= Len(a) THEN a[i] ELSE <<x>>[i - Len(a)]
    BY <1>1, <1>3, ConcatProperties
  <2>2. ASSUME NEW i \in 1 .. k PROVE ax[i] = IF i < k THEN s[i] ELSE x
    <3>1. CASE i < k
      BY <1>1, <1>3, <2>1, <3>1
    <3>2. CASE i = k
      BY <1>1, <1>3, <2>1, <3>2
    <3>3. i < k \/ i = k
      OBVIOUS
    <3> QED
      BY <3>1, <3>2, <3>3
  <2> QED
    BY <1>0, <1>1, <1>3, <2>1, <2>2, SMTT(30)
<1> HIDE DEF ax
<1>5. /\ ax \o b \in Seq(S)
      /\ Len(ax \o b) = Len(ax) + Len(b)
      /\ \A i \in 1 .. Len(ax) + Len(b) : (ax \o b)[i] =
           IF i <= Len(ax) THEN ax[i] ELSE b[i - Len(ax)]
  BY <1>2, <1>4, ConcatProperties
<1>6. ASSUME NEW i \in 1 .. Len(s) + 1
      PROVE  (ax \o b)[i] = IF i < k THEN s[i] ELSE IF i = k THEN x ELSE s[i - 1]
  <2>1. CASE i <= k
    BY <1>0, <1>2, <1>4, <1>5, <2>1
  <2>2. CASE i > k
    <3>1. i - k \in 1 .. Len(s) - k + 1 /\ k + (i - k) - 1 = i - 1
      BY <1>0, <2>2
    <3>2. (ax \o b)[i] = b[i - k]
      BY <1>0, <1>2, <1>4, <1>5, <2>2
    <3>3. b[i - k] = s[k + (i - k) - 1]
      BY <1>2, <3>1
    <3> QED
      BY <2>2, <3>1, <3>2, <3>3, SMTT(30)
  <2>3. i <= k \/ i > k
    BY <1>0
  <2> QED
    BY <2>1, <2>2, <2>3
<1>7. InsertAt(s, k, x) = ax \o b
  BY DEF InsertAt, a, b, ax
<1> QED
  BY <1>0, <1>2, <1>4, <1>5, <1>6, <1>7

(* vector::erase takes the k-th element out and moves the rest down.       *)
LEMMA RemoveAtIs ==
  ASSUME NEW S, NEW s \in Seq(S), NEW k \in 1 .. Len(s)
  PROVE  /\ RemoveAt(s, k) \in Seq(S)
         /\ Len(RemoveAt(s, k)) = Len(s) - 1
         /\ \A i \in 1 .. Len(s) - 1 :
              RemoveAt(s, k)[i] = IF i < k THEN s[i] ELSE s[i + 1]
<1> DEFINE a == SubSeq(s, 1, k - 1)
           b == SubSeq(s, k + 1, Len(s))
<1>0. Len(s) \in Nat /\ \A i \in 1 .. Len(s) : s[i] \in S
  BY LenProperties, ElementOfSeq
<1>1. /\ a \in Seq(S) /\ Len(a) = k - 1
      /\ \A i \in 1 .. k - 1 : a[i] = s[i]
  <2>1. \A i \in 1 .. k - 1 : s[i] \in S
    BY <1>0
  <2>2. /\ a \in Seq(S)
        /\ Len(a) = IF 1 <= k - 1 THEN k - 1 - 1 + 1 ELSE 0
        /\ \A i \in 1 .. k - 1 - 1 + 1 : a[i] = s[1 + i - 1]
    BY <1>0, <2>1, SubSeqProperties
  <2> QED
    BY <1>0, <2>2
<1>2. /\ b \in Seq(S) /\ Len(b) = Len(s) - k
      /\ \A i \in 1 .. Len(s) - k : b[i] = s[k + i]
  <2>1. \A i \in k + 1 .. Len(s) : s[i] \in S
    BY <1>0
  <2>2. /\ b \in Seq(S)
        /\ Len(b) = IF k + 1 <= Len(s) THEN Len(s) - (k + 1) + 1 ELSE 0
        /\ \A i \in 1 .. Len(s) - (k + 1) + 1 : b[i] = s[(k + 1) + i - 1]
    BY <1>0, <2>1, SubSeqProperties
  <2> QED
    BY <1>0, <2>2
<1> HIDE DEF a, b
<1>3. /\ a \o b \in Seq(S)
      /\ Len(a \o b) = Len(a) + Len(b)
      /\ \A i \in 1 .. Len(a) + Len(b) : (a \o b)[i] =
           IF i <= Len(a) THEN a[i] ELSE b[i - Len(a)]
  BY <1>1, <1>2, ConcatProperties
<1>4. ASSUME NEW i \in 1 .. Len(s) - 1
      PROVE  (a \o b)[i] = IF i < k THEN s[i] ELSE s[i + 1]
  <2>1. CASE i < k
    BY <1>0, <1>1, <1>2, <1>3, <2>1
  <2>2. CASE i >= k
    <3>1. i - (k - 1) \in 1 .. Len(s) - k /\ k + (i - (k - 1)) = i + 1
      BY <1>0, <2>2
    <3>2. (a \o b)[i] = b[i - (k - 1)]
      BY <1>0, <1>1, <1>2, <1>3, <2>2, SMTT(30)
    <3>3. b[i - (k - 1)] = s[k + (i - (k - 1))]
      BY <1>2, <3>1
    <3> QED
      BY <2>2, <3>1, <3>2, <3>3
  <2>3. i < k \/ i >= k
    BY <1>0
  <2> QED
    BY <2>1, <2>2, <2>3
<1>5. RemoveAt(s, k) = a \o b
  BY DEF RemoveAt, a, b
<1> QED
  BY <1>0, <1>1, <1>2, <1>3, <1>4, <1>5, SMTT(30)

------------------------------------------------------------------------------
(* What a call of CallEvent is to the proofs.                              *)
LEMMA CallsAre ==
  ASSUME calls \in Seq(Call)
  PROVE  /\ Len(calls) \in Nat /\ DOMAIN calls = 1 .. Len(calls)
         /\ \A c \in DOMAIN calls : calls[c] \in Call
         /\ calls # <<>> => Len(calls) \in DOMAIN calls
  BY LenProperties, ElementOfSeq, EmptySeq

(* A change of a list only marks the calls that run over it.               *)
LEMMA MarkChangedIs ==
  ASSUME calls \in Seq(Call), NEW e \in Events, NEW moved \in BOOLEAN, MarkChanged(e, moved)
  PROVE  /\ calls' \in Seq(Call)
         /\ Len(calls') = Len(calls) /\ DOMAIN calls' = DOMAIN calls
         /\ \A c \in DOMAIN calls :
              /\ calls'[c].event = calls[c].event /\ calls'[c].pos = calls[c].pos
              /\ calls'[c].end = calls[c].end /\ calls'[c].called = calls[c].called
              /\ calls[c].event = e => calls'[c].changed
              /\ calls[c].event = e /\ moved => calls'[c].dangling
              /\ calls[c].event # e => calls'[c] = calls[c]
              /\ calls[c].dangling => calls'[c].dangling
<1>1. /\ Len(calls) \in Nat /\ DOMAIN calls = 1 .. Len(calls)
      /\ \A c \in DOMAIN calls : calls[c] \in Call
  BY CallsAre
<1>2. ASSUME NEW c \in DOMAIN calls
      PROVE  IF calls[c].event = e
             THEN /\ calls'[c] = [calls[c] EXCEPT !.changed = TRUE, !.dangling = @ \/ moved]
                  /\ calls'[c] \in Call
             ELSE calls'[c] = calls[c]
  BY <1>1 DEF MarkChanged, Call
<1>3. DOMAIN calls' = 1 .. Len(calls) /\ \A c \in 1 .. Len(calls) : calls'[c] \in Call
  BY <1>1, <1>2 DEF MarkChanged
<1>4. calls' = [c \in 1 .. Len(calls) |-> calls'[c]]
  BY <1>1 DEF MarkChanged
<1>5. calls' \in Seq(Call) /\ Len(calls') = Len(calls)
  BY <1>1, <1>3, <1>4
<1> QED
  BY <1>1, <1>2, <1>3, <1>5, ZenonT(60) DEF Call

LEMMA InitHolds == Init => IInv /\ Sorted /\ InOrder
<1> SUFFICES ASSUME Init PROVE IInv /\ Sorted /\ InOrder
  OBVIOUS
<1>1. MaxEvents \in Nat /\ MaxDepth \in Nat /\ MaxListeners \in [Events -> Nat]
  BY BoundAssumption
<1>2. \A e \in Events : nextListenerID[e] = 0 /\ listeners[e] = <<>> /\ freed[e] = <<>>
  BY DEF Init
<1>3. <<>> \in Seq(Listener) /\ <<>> \in Seq(Call) /\ Len(<<>>) = 0 /\ DOMAIN <<>> = {}
  OBVIOUS
<1>4. /\ listeners \in [Events -> Seq(Listener)]
      /\ freed \in [Events -> Seq(Listener)]
      /\ calls \in Seq(Call) /\ Len(calls) <= MaxDepth
  BY <1>1, <1>3 DEF Init
<1>5. \A e \in Events : /\ Len(listeners[e]) <= nextListenerID[e] /\ DOMAIN listeners[e] = {}
                        /\ nextListenerID[e] <= MaxListeners[e]
  BY <1>1, <1>2, <1>3
<1>6. nextListenerID \in [Events -> Nat] /\ mInternalEventID \in 0 .. MaxEvents
  BY <1>1 DEF Init
<1>7. TypeOK
  BY <1>4, <1>5, <1>6 DEF Init, TypeOK
<1> QED
  BY <1>2, <1>3, <1>7 DEF Init, IInv, IteratorsInside, Sorted, InOrder

Inv == IInv /\ Sorted /\ InOrder

(* A list that changes makes its calls' history void; the others' lists    *)
(* are as they were.                                                       *)
LEMMA InOrderChanged ==
  ASSUME Inv, NEW e \in Events, NEW moved \in BOOLEAN, MarkChanged(e, moved),
         \A f \in Events \ {e} : listeners'[f] = listeners[f]
  PROVE  InOrder'
<1>1. calls \in Seq(Call) /\ \A c \in DOMAIN calls : calls[c].event \in Events
  BY CallsAre DEF Inv, IInv, TypeOK, Call
<1>2. ASSUME NEW c \in DOMAIN calls, calls[c].event = e PROVE calls'[c].changed
  BY <1>1, <1>2, MarkChangedIs
<1>3. ASSUME NEW c \in DOMAIN calls, calls[c].event # e
      PROVE  calls'[c] = calls[c] /\ listeners'[calls[c].event] = listeners[calls[c].event]
  BY <1>1, <1>3, MarkChangedIs
<1>4. DOMAIN calls' = DOMAIN calls
  BY <1>1, MarkChangedIs
<1> QED
  BY <1>2, <1>3, <1>4 DEF Inv, InOrder

(* Inserting in front of the first listener whose priority is not lower    *)
(* keeps the order, because IDs only grow.                                 *)
LEMMA SortedInsert ==
  ASSUME NEW s \in Seq(Listener), NEW n \in Nat, NEW p \in Priorities,
         NEW k \in 1 .. Len(s) + 1, LowerBound(s, p, k),
         \A i \in DOMAIN s : s[i].id < n,
         \A i, j \in DOMAIN s : i < j =>
            \/ s[i].priority < s[j].priority
            \/ s[i].priority = s[j].priority /\ s[i].id > s[j].id,
         NEW t, t = InsertAt(s, k, [id |-> n, priority |-> p])
  PROVE  /\ t \in Seq(Listener) /\ Len(t) = Len(s) + 1
         /\ \A i \in DOMAIN t : t[i].id < n + 1
         /\ \A i, j \in DOMAIN t : i < j =>
               \/ t[i].priority < t[j].priority
               \/ t[i].priority = t[j].priority /\ t[i].id > t[j].id
<1> DEFINE x == [id |-> n, priority |-> p]
<1>1. x \in Listener /\ x.id = n /\ x.priority = p /\ Priorities \subseteq Int
  BY BoundAssumption DEF Listener
<1>2. /\ t \in Seq(Listener) /\ Len(t) = Len(s) + 1
      /\ \A i \in 1 .. Len(s) + 1 :
           t[i] = IF i < k THEN s[i] ELSE IF i = k THEN x ELSE s[i - 1]
  BY <1>1, InsertAtIs
<1>3. /\ Len(s) \in Nat /\ DOMAIN s = 1 .. Len(s) /\ DOMAIN t = 1 .. Len(s) + 1
      /\ \A i \in 1 .. Len(s) : s[i] \in Listener
  BY <1>2, LenProperties, ElementOfSeq
<1>4. \A i \in 1 .. Len(s) : s[i].id \in Nat /\ s[i].priority \in Int
  BY <1>1, <1>3 DEF Listener
<1> HIDE DEF x
<1>5. \A i \in DOMAIN t : t[i].id < n + 1
  <2> SUFFICES ASSUME NEW i \in 1 .. Len(s) + 1 PROVE t[i].id < n + 1
    BY <1>3
  <2>1. CASE i < k
    <3>1. t[i] = s[i] /\ i \in 1 .. Len(s)
      BY <1>2, <1>3, <2>1
    <3>2. t[i].id < n /\ t[i].id \in Nat
      BY <1>3, <1>4, <3>1
    <3> QED
      BY <3>2
  <2>2. CASE i = k
    <3>1. t[i] = x
      BY <1>2, <1>3, <2>2
    <3>2. t[i].id = n
      BY <1>1, <3>1, Zenon
    <3> QED
      BY <3>2
  <2>3. CASE i > k
    <3>1. t[i] = s[i - 1] /\ i - 1 \in 1 .. Len(s)
      BY <1>2, <1>3, <2>3
    <3>2. t[i].id < n /\ t[i].id \in Nat
      BY <1>3, <1>4, <3>1
    <3> QED
      BY <3>2
  <2>4. i < k \/ i = k \/ i > k
    BY <1>3
  <2> QED
    BY <2>1, <2>2, <2>3, <2>4
<1>6. ASSUME NEW i \in DOMAIN t, NEW j \in DOMAIN t, i < j
      PROVE  \/ t[i].priority < t[j].priority
             \/ t[i].priority = t[j].priority /\ t[i].id > t[j].id
  <2>0. i \in 1 .. Len(s) + 1 /\ j \in 1 .. Len(s) + 1
    BY <1>3
  <2>1. CASE j < k
    <3>1. t[i] = s[i] /\ t[j] = s[j] /\ i \in DOMAIN s /\ j \in DOMAIN s
      BY <1>2, <1>3, <1>6, <2>0, <2>1
    <3> QED
      BY <1>6, <3>1
  <2>2. CASE j = k
    <3>1. t[i] = s[i] /\ t[j] = x /\ i \in 1 .. k - 1 /\ i \in 1 .. Len(s)
      BY <1>2, <1>3, <1>6, <2>0, <2>2
    <3> QED
      BY <1>1, <3>1 DEF LowerBound
  <2>3. CASE j > k /\ i = k
    <3>1. t[i] = x /\ t[j] = s[j - 1] /\ j - 1 \in k .. Len(s) /\ j - 1 \in 1 .. Len(s)
      BY <1>2, <1>3, <1>6, <2>0, <2>3, SMTT(30)
    <3>2. s[j - 1].priority >= p /\ s[j - 1].id < n
      BY <1>3, <3>1 DEF LowerBound
    <3> QED
      BY <1>1, <1>4, <3>1, <3>2
  <2>4. CASE j > k /\ i < k
    <3>1. t[i] = s[i] /\ t[j] = s[j - 1]
      BY <1>2, <1>3, <1>6, <2>0, <2>4
    <3>2. i \in 1 .. k - 1 /\ j - 1 \in k .. Len(s) /\ i \in 1 .. Len(s) /\ j - 1 \in 1 .. Len(s)
      BY <1>3, <1>6, <2>0, <2>4
    <3>3. s[i].priority < p /\ s[j - 1].priority >= p
      BY <3>2 DEF LowerBound
    <3> QED
      BY <1>1, <1>4, <3>1, <3>2, <3>3
  <2>5. CASE j > k /\ i > k
    <3>1. t[i] = s[i - 1] /\ t[j] = s[j - 1]
      BY <1>2, <1>3, <1>6, <2>0, <2>5
    <3>2. i - 1 \in DOMAIN s /\ j - 1 \in DOMAIN s /\ i - 1 < j - 1
      BY <1>3, <1>6, <2>0, <2>5
    <3> QED
      BY <3>1, <3>2
  <2>6. j < k \/ j = k \/ (j > k /\ (i = k \/ i < k \/ i > k))
    BY <1>3, <2>0
  <2> QED
    BY <2>1, <2>2, <2>3, <2>4, <2>5, <2>6
<1> QED
  BY <1>2, <1>5, <1>6

LEMMA TypeParts ==
  ASSUME TypeOK
  PROVE  /\ listeners \in [Events -> Seq(Listener)] /\ freed \in [Events -> Seq(Listener)]
         /\ nextListenerID \in [Events -> Nat] /\ calls \in Seq(Call)
         /\ \A e \in Events : /\ Len(listeners[e]) \in Nat /\ Len(freed[e]) \in Nat
                              /\ DOMAIN listeners[e] = 1 .. Len(listeners[e])
         /\ \A c \in DOMAIN calls : /\ calls[c].event \in Events /\ calls[c].end \in Nat
                                    /\ calls[c].pos \in Nat
<1>1. \A c \in DOMAIN calls : calls[c] \in Call
  BY CallsAre DEF TypeOK
<1>2. \A e \in Events : listeners[e] \in Seq(Listener) /\ freed[e] \in Seq(Listener)
  BY DEF TypeOK
<1>3. \A e \in Events : /\ Len(listeners[e]) \in Nat /\ Len(freed[e]) \in Nat
                        /\ DOMAIN listeners[e] = 1 .. Len(listeners[e])
  BY <1>2, LenProperties
<1> QED
  BY <1>1, <1>3 DEF TypeOK, Call

(* A registration: the new listener gets an ID larger than every other's.  *)
LEMMA RegisterListenerStep ==
  ASSUME Inv, NEW e \in Events, NEW p \in Priorities, RegisterListener(e, p)
  PROVE  Inv'
<1> DEFINE s == listeners[e]
           n == nextListenerID[e]
<1>0. TypeOK /\ IteratorsInside /\ Sorted
  BY DEF Inv, IInv
<1>1. PICK k \in 1 .. Len(s) + 1 :
        /\ LowerBound(s, p, k)
        /\ listeners' = [listeners EXCEPT ![e] = InsertAt(s, k, [id |-> n, priority |-> p])]
  BY DEF RegisterListener
<1>2. PICK moved \in BOOLEAN :
        /\ MarkChanged(e, moved)
        /\ IF moved
           THEN freed[e] = <<>> /\ freed' = freed
           ELSE freed' = [freed EXCEPT ![e] = IF @ = <<>> THEN @ ELSE Tail(@)]
  BY DEF RegisterListener
<1>3. /\ n < MaxListeners[e] /\ nextListenerID' = [nextListenerID EXCEPT ![e] = @ + 1]
      /\ UNCHANGED <<mInternalEventID, undefined>>
  BY DEF RegisterListener
<1>4. /\ s \in Seq(Listener) /\ n \in Nat /\ freed[e] \in Seq(Listener)
      /\ \A i \in DOMAIN s : s[i].id < n
      /\ \A i, j \in DOMAIN s : i < j =>
           \/ s[i].priority < s[j].priority
           \/ s[i].priority = s[j].priority /\ s[i].id > s[j].id
      /\ Len(s) <= n /\ Len(s) \in Nat
  BY <1>0, TypeParts DEF TypeOK, Sorted
<1>5. listeners'[e] = InsertAt(s, k, [id |-> n, priority |-> p])
  BY <1>0, <1>1 DEF TypeOK
<1> DEFINE t == listeners'[e]
<1>6. /\ t \in Seq(Listener) /\ Len(t) = Len(s) + 1
      /\ \A i \in DOMAIN t : t[i].id < n + 1
      /\ \A i, j \in DOMAIN t : i < j =>
           \/ t[i].priority < t[j].priority
           \/ t[i].priority = t[j].priority /\ t[i].id > t[j].id
  <2> HIDE DEF s, n
  <2> QED
    BY <1>1, <1>4, <1>5, SortedInsert
<1>7. \A f \in Events \ {e} : listeners'[f] = listeners[f] /\ nextListenerID'[f] = nextListenerID[f]
  BY <1>0, <1>1, <1>3 DEF TypeOK
<1>8. nextListenerID'[e] = n + 1 /\ nextListenerID' \in [Events -> Nat]
  BY <1>0, <1>3, <1>4 DEF TypeOK
<1>9. listeners' \in [Events -> Seq(Listener)]
  BY <1>0, <1>1, <1>5, <1>6 DEF TypeOK
<1>10. /\ freed' \in [Events -> Seq(Listener)]
       /\ \A f \in Events \ {e} : freed'[f] = freed[f]
       /\ Len(freed'[e]) = IF moved \/ freed[e] = <<>> THEN Len(freed[e]) ELSE Len(freed[e]) - 1
       /\ moved => freed[e] = <<>>
  <2>1. freed[e] # <<>> => Tail(freed[e]) \in Seq(Listener) /\ Len(Tail(freed[e])) = Len(freed[e]) - 1
    BY <1>4, HeadTailProperties
  <2> QED
    BY <1>0, <1>2, <1>4, <2>1 DEF TypeOK
<1>11. /\ calls' \in Seq(Call)
       /\ Len(calls') = Len(calls) /\ DOMAIN calls' = DOMAIN calls
       /\ \A c \in DOMAIN calls :
            /\ calls'[c].event = calls[c].event /\ calls'[c].pos = calls[c].pos
            /\ calls'[c].end = calls[c].end
            /\ calls[c].event = e /\ moved => calls'[c].dangling
            /\ calls[c].dangling => calls'[c].dangling
  BY <1>0, <1>2, MarkChangedIs DEF TypeOK
<1>12. \A f \in Events : /\ nextListenerID'[f] <= MaxListeners[f]
                         /\ Len(listeners'[f]) <= nextListenerID'[f]
                         /\ \A i \in DOMAIN listeners'[f] : listeners'[f][i].id < nextListenerID'[f]
  <2> SUFFICES ASSUME NEW f \in Events
               PROVE  /\ nextListenerID'[f] <= MaxListeners[f]
                      /\ Len(listeners'[f]) <= nextListenerID'[f]
                      /\ \A i \in DOMAIN listeners'[f] : listeners'[f][i].id < nextListenerID'[f]
    OBVIOUS
  <2>1. CASE f = e
    <3>1. n + 1 <= MaxListeners[e]
      BY <1>3, <1>4, BoundAssumption
    <3>2. Len(t) <= n + 1
      BY <1>4, <1>6
    <3> HIDE DEF s, n
    <3> QED
      BY <1>6, <1>8, <2>1, <3>1, <3>2
  <2>2. CASE f # e
    BY <1>0, <1>7, <2>2 DEF TypeOK
  <2> QED
    BY <2>1, <2>2
<1>13. TypeOK'
  BY <1>0, <1>3, <1>8, <1>9, <1>10, <1>11, <1>12 DEF TypeOK
<1>14. IteratorsInside'
  <2> SUFFICES ASSUME NEW c \in DOMAIN calls
               PROVE  /\ calls'[c].pos <= calls'[c].end
                      /\ ~calls'[c].dangling =>
                           calls'[c].end <= Len(listeners'[calls'[c].event])
                                              + Len(freed'[calls'[c].event])
    BY <1>11 DEF IteratorsInside
  <2>1. calls[c].pos <= calls[c].end
    BY <1>0 DEF IteratorsInside
  <2>2. CASE calls[c].event = e /\ ~calls'[c].dangling
    <3>1. calls[c].end <= Len(s) + Len(freed[e]) /\ ~moved
      BY <1>0, <1>11, <2>2 DEF IteratorsInside
    <3>2. /\ Len(freed'[e]) \in Nat /\ Len(freed[e]) \in Nat /\ Len(freed'[e]) >= Len(freed[e]) - 1
          /\ Len(t) = Len(s) + 1 /\ Len(s) \in Nat /\ calls[c].end \in Nat
      BY <1>0, <1>4, <1>6, <1>10, <1>13, <3>1, TypeParts
    <3>3. calls[c].end <= Len(t) + Len(freed'[e])
      <4>1. \A a, b, u, v, w \in Nat :
              w <= a + u /\ v >= u - 1 /\ b = a + 1 => w <= b + v
        OBVIOUS
      <4>2. Len(t) \in Nat
        BY <3>2
      <4> QED
        BY <3>1, <3>2, <4>1, <4>2
    <3>4. /\ calls'[c].event = e /\ calls'[c].pos = calls[c].pos
          /\ calls'[c].end = calls[c].end
      BY <1>11, <2>2
    <3> QED
      BY <2>1, <3>3, <3>4
  <2>3. CASE calls[c].event # e
    <3>1. calls[c].event \in Events
      BY <1>0, TypeParts
    <3>2. calls'[c] = calls[c]
      BY <1>0, <1>2, <2>3, MarkChangedIs DEF TypeOK
    <3>3. listeners'[calls[c].event] = listeners[calls[c].event] /\ freed'[calls[c].event] = freed[calls[c].event]
      BY <1>7, <1>10, <2>3, <3>1
    <3> QED
      BY <1>0, <3>2, <3>3 DEF IteratorsInside
  <2> QED
    BY <1>11, <2>1, <2>2, <2>3
<1>15. Sorted'
  BY <1>0, <1>6, <1>7 DEF Sorted
<1>16. InOrder'
  BY <1>2, <1>7, InOrderChanged
<1> QED
  BY <1>13, <1>14, <1>15, <1>16 DEF Inv, IInv

(* Taking a listener out keeps the order of the others and leaves its slot *)
(* to the calls that run over the list.                                    *)
LEMMA UnregisterListenerStep ==
  ASSUME Inv, NEW e \in Events, NEW k \in DOMAIN listeners[e], UnregisterListener(e, k)
  PROVE  Inv'
<1> DEFINE s == listeners[e]
           t == listeners'[e]
<1>0. TypeOK /\ IteratorsInside /\ Sorted
  BY DEF Inv, IInv
<1>1. /\ s \in Seq(Listener) /\ freed[e] \in Seq(Listener) /\ Len(s) \in Nat
      /\ k \in 1 .. Len(s) /\ nextListenerID[e] \in Nat /\ s[Len(s)] \in Listener
  BY <1>0, TypeParts, ElementOfSeq
<1>2. t = RemoveAt(s, k) /\ \A f \in Events \ {e} : listeners'[f] = listeners[f]
  BY <1>0 DEF UnregisterListener, TypeOK
<1>3. /\ t \in Seq(Listener) /\ Len(t) = Len(s) - 1 /\ DOMAIN t = 1 .. Len(s) - 1
      /\ \A i \in 1 .. Len(s) - 1 : t[i] = IF i < k THEN s[i] ELSE s[i + 1]
  <2>1. /\ t \in Seq(Listener) /\ Len(t) = Len(s) - 1
        /\ \A i \in 1 .. Len(s) - 1 : t[i] = IF i < k THEN s[i] ELSE s[i + 1]
    BY <1>1, <1>2, RemoveAtIs, ZenonT(60)
  <2> QED
    BY <2>1, LenProperties
<1>4. \A i \in DOMAIN t : \E j \in DOMAIN s : t[i] = s[j] /\ j = IF i < k THEN i ELSE i + 1
  <2> SUFFICES ASSUME NEW i \in DOMAIN t
               PROVE  \E j \in DOMAIN s : t[i] = s[j] /\ j = IF i < k THEN i ELSE i + 1
    OBVIOUS
  <2> DEFINE j == IF i < k THEN i ELSE i + 1
  <2>1. DOMAIN s = 1 .. Len(s)
    BY <1>1, LenProperties
  <2>2. i \in 1 .. Len(s) - 1 /\ t[i] = IF i < k THEN s[i] ELSE s[i + 1]
    BY <1>3
  <2>3. j \in DOMAIN s
    BY <1>1, <2>1, <2>2
  <2>4. t[i] = s[j]
    BY <2>2
  <2> QED
    BY <2>3, <2>4
<1>5. /\ freed' \in [Events -> Seq(Listener)]
      /\ \A f \in Events \ {e} : freed'[f] = freed[f]
      /\ Calling(e) => Len(freed'[e]) = Len(freed[e]) + 1
  <2>1. /\ <<s[Len(s)]>> \in Seq(Listener) /\ Len(<<s[Len(s)]>>) = 1 /\ <<>> \in Seq(Listener)
    BY <1>1
  <2>2. /\ <<s[Len(s)]>> \o freed[e] \in Seq(Listener)
        /\ Len(<<s[Len(s)]>> \o freed[e]) = 1 + Len(freed[e]) /\ Len(freed[e]) \in Nat
    BY <1>1, <2>1, ConcatProperties, LenProperties
  <2>3. freed' = [freed EXCEPT ![e] = Leftover(e, <<s[Len(s)]>> \o freed[e])]
    BY DEF UnregisterListener
  <2> QED
    BY <1>0, <2>1, <2>2, <2>3 DEF TypeOK, Leftover
<1>6. MarkChanged(e, FALSE) /\ UNCHANGED <<mInternalEventID, nextListenerID, undefined>>
  BY DEF UnregisterListener
<1>7. /\ calls' \in Seq(Call)
      /\ Len(calls') = Len(calls) /\ DOMAIN calls' = DOMAIN calls
      /\ \A c \in DOMAIN calls :
           /\ calls'[c].event = calls[c].event /\ calls'[c].pos = calls[c].pos
           /\ calls'[c].end = calls[c].end
           /\ calls[c].event # e => calls'[c] = calls[c]
           /\ calls[c].dangling => calls'[c].dangling
  BY <1>0, <1>6, MarkChangedIs DEF TypeOK
<1>8. TypeOK'
  <2>1. listeners' \in [Events -> Seq(Listener)]
    BY <1>0, <1>2, <1>3 DEF UnregisterListener, TypeOK
  <2>2. Len(t) <= nextListenerID[e] /\ \A i \in DOMAIN t : t[i].id < nextListenerID[e]
    <3>1. Len(s) <= nextListenerID[e] /\ \A i \in DOMAIN s : s[i].id < nextListenerID[e]
      BY <1>0 DEF TypeOK
    <3>2. \A i \in DOMAIN t : t[i].id < nextListenerID[e]
      BY <1>4, <3>1
    <3>3. Len(t) <= nextListenerID[e]
      BY <1>1, <1>3, <3>1
    <3> QED
      BY <3>2, <3>3
  <2>3. \A f \in Events : /\ Len(listeners'[f]) <= nextListenerID[f]
                          /\ \A i \in DOMAIN listeners'[f] : listeners'[f][i].id < nextListenerID[f]
    BY <1>0, <1>2, <2>2 DEF TypeOK
  <2> QED
    BY <1>0, <1>5, <1>6, <1>7, <2>1, <2>3 DEF TypeOK
<1>9. IteratorsInside'
  <2> SUFFICES ASSUME NEW c \in DOMAIN calls
               PROVE  /\ calls'[c].pos <= calls'[c].end
                      /\ ~calls'[c].dangling =>
                           calls'[c].end <= Len(listeners'[calls'[c].event])
                                              + Len(freed'[calls'[c].event])
    BY <1>7 DEF IteratorsInside
  <2>1. calls[c].pos <= calls[c].end
    BY <1>0 DEF IteratorsInside
  <2>2. CASE calls[c].event = e
    <3>1. /\ calls'[c].event = e /\ calls'[c].pos = calls[c].pos /\ calls'[c].end = calls[c].end
          /\ calls[c].dangling => calls'[c].dangling
      BY <1>7, <2>2
    <3>2. /\ Len(t) = Len(s) - 1 /\ Len(freed'[e]) = Len(freed[e]) + 1
          /\ ~calls[c].dangling => calls[c].end <= Len(s) + Len(freed[e])
      BY <1>0, <1>3, <1>5, <2>2 DEF Calling, IteratorsInside
    <3>3. Len(t) + Len(freed'[e]) = Len(s) + Len(freed[e])
      BY <1>0, <1>1, <3>2, TypeParts
    <3> QED
      BY <2>1, <3>1, <3>2, <3>3
  <2>3. CASE calls[c].event # e
    <3>1. calls[c].event \in Events /\ calls'[c] = calls[c]
      BY <1>0, <1>7, <2>3, TypeParts
    <3>2. listeners'[calls[c].event] = listeners[calls[c].event] /\ freed'[calls[c].event] = freed[calls[c].event]
      BY <1>2, <1>5, <2>3, <3>1
    <3> QED
      BY <1>0, <3>1, <3>2 DEF IteratorsInside
  <2> QED
    BY <2>2, <2>3
<1>10. Sorted'
  <2>1. ASSUME NEW i \in DOMAIN t, NEW j \in DOMAIN t, i < j
        PROVE  \/ t[i].priority < t[j].priority
               \/ t[i].priority = t[j].priority /\ t[i].id > t[j].id
    <3>1. PICK a \in DOMAIN s : t[i] = s[a] /\ a = IF i < k THEN i ELSE i + 1
      BY <1>4
    <3>2. PICK b \in DOMAIN s : t[j] = s[b] /\ b = IF j < k THEN j ELSE j + 1
      BY <1>4
    <3>3. a < b
      BY <1>1, <1>3, <2>1, <3>1, <3>2
    <3> QED
      BY <1>0, <3>1, <3>2, <3>3 DEF Sorted
  <2> QED
    BY <1>0, <1>2, <2>1 DEF Sorted
<1>11. InOrder'
  BY <1>2, <1>6, InOrderChanged
<1> QED
  BY <1>8, <1>9, <1>10, <1>11 DEF Inv, IInv

------------------------------------------------------------------------------
(* Steps that leave the lists as they are and only move the innermost      *)
(* call, or end it or start one.                                           *)
LEMMA CallEventStep ==
  ASSUME Inv, NEW e \in Events, CallEvent(e)
  PROVE  Inv'
<1> DEFINE x == [event |-> e, pos |-> 0, end |-> Len(listeners[e]), dangling |-> FALSE,
                 changed |-> FALSE, inside |-> FALSE, called |-> <<>>]
<1>0. TypeOK /\ IteratorsInside /\ Sorted /\ InOrder
  BY DEF Inv, IInv
<1>1. Len(listeners[e]) \in Nat /\ Len(freed[e]) \in Nat
  BY <1>0, TypeParts
<1>2. x \in Call
  BY <1>1 DEF Call
<1>3. /\ calls' = Append(calls, x) /\ Len(calls) < MaxDepth
      /\ UNCHANGED <<mInternalEventID, listeners, freed, nextListenerID, undefined>>
  BY DEF CallEvent
<1>4. calls \in Seq(Call) /\ Len(calls) \in Nat /\ DOMAIN calls = 1 .. Len(calls)
  BY <1>0, CallsAre DEF TypeOK
<1>5. /\ x.event = e /\ x.pos = 0 /\ x.end = Len(listeners[e]) /\ ~x.dangling
      /\ x.called = <<>> /\ Len(x.called) = 0
  OBVIOUS
<1> HIDE DEF x
<1>6. /\ calls' \in Seq(Call) /\ Len(calls') = Len(calls) + 1
      /\ \A c \in DOMAIN calls : calls'[c] = calls[c]
      /\ calls'[Len(calls) + 1] = x
      /\ DOMAIN calls' = DOMAIN calls \union {Len(calls) + 1}
  BY <1>2, <1>3, <1>4
<1>7. TypeOK'
  <2>1. Len(calls') <= MaxDepth
    BY <1>3, <1>4, <1>6, BoundAssumption
  <2> QED
    BY <1>0, <1>3, <1>6, <2>1 DEF TypeOK
<1>8. IteratorsInside'
  <2>1. x.pos <= x.end /\ x.end <= Len(listeners[e]) + Len(freed[e])
    <3>1. \A a, b \in Nat : 0 <= a /\ a <= a + b
      OBVIOUS
    <3> QED
      BY <1>1, <1>5, <3>1
  <2>2. ASSUME NEW c \in DOMAIN calls'
        PROVE  /\ calls'[c].pos <= calls'[c].end
               /\ ~calls'[c].dangling =>
                    calls'[c].end <= Len(listeners[calls'[c].event]) + Len(freed[calls'[c].event])
    <3>1. CASE c \in DOMAIN calls
      BY <1>0, <1>6, <3>1 DEF IteratorsInside
    <3>2. CASE c = Len(calls) + 1
      BY <1>5, <1>6, <2>1, <3>2
    <3> QED
      BY <1>6, <3>1, <3>2
  <2> QED
    BY <1>3, <2>2 DEF IteratorsInside
<1>9. InOrder'
  BY <1>0, <1>1, <1>3, <1>5, <1>6 DEF InOrder
<1> QED
  BY <1>0, <1>3, <1>7, <1>8, <1>9 DEF Inv, IInv, Sorted

(* A step that changes the innermost call keeps what the others have.      *)
LEMMA TopStep ==
  ASSUME Inv, calls # <<>>, NEW x \in Call, x.event = Top.event, x.end = Top.end,
         x.pos <= x.end, Top.dangling => x.dangling,
         calls' = [calls EXCEPT ![Len(calls)] = x],
         UNCHANGED <<mInternalEventID, listeners, freed, nextListenerID, undefined>>,
         \/ x.changed
         \/ /\ ~Top.changed /\ Len(x.called) = x.pos
            /\ \A i \in 1 .. x.pos : x.called[i] = listeners[x.event][i].id
  PROVE  Inv'
<1>0. TypeOK /\ IteratorsInside /\ Sorted /\ InOrder
  BY DEF Inv, IInv
<1>1. /\ calls \in Seq(Call) /\ Len(calls) \in Nat /\ DOMAIN calls = 1 .. Len(calls)
      /\ Len(calls) \in DOMAIN calls
  BY <1>0, CallsAre DEF TypeOK
<1>2. /\ calls' \in Seq(Call) /\ Len(calls') = Len(calls) /\ DOMAIN calls' = DOMAIN calls
      /\ calls'[Len(calls)] = x
      /\ \A c \in DOMAIN calls \ {Len(calls)} : calls'[c] = calls[c]
  BY <1>1, ExceptSeq
<1>3. TypeOK'
  BY <1>0, <1>2 DEF TypeOK
<1>4. IteratorsInside'
  BY <1>0, <1>1, <1>2 DEF IteratorsInside, Top
<1>5. InOrder'
  BY <1>0, <1>1, <1>2 DEF InOrder, Top
<1> QED
  BY <1>0, <1>3, <1>4, <1>5 DEF Inv, IInv, Sorted

LEMMA InvokeStep == Inv /\ Invoke => Inv'
<1> SUFFICES ASSUME Inv, Invoke PROVE Inv'
  OBVIOUS
<1>0. TypeOK /\ IteratorsInside /\ Sorted /\ InOrder
  BY DEF Inv, IInv
<1>1. calls # <<>> /\ Len(calls) \in DOMAIN calls /\ Top \in Call
  BY <1>0, CallsAre DEF TypeOK, Invoke, Top
<1> DEFINE slots == listeners[Top.event] \o freed[Top.event]
<1>2. /\ Top.event \in Events /\ Top.pos \in Nat /\ Top.end \in Nat /\ Top.called \in Seq(Nat)
      /\ Top.changed \in BOOLEAN /\ Top.dangling \in BOOLEAN
  BY <1>1 DEF Call
<1>3. Top.pos < Top.end /\ ~Top.dangling
  BY DEF Invoke
<1>4. /\ listeners[Top.event] \in Seq(Listener) /\ freed[Top.event] \in Seq(Listener)
      /\ Len(listeners[Top.event]) \in Nat /\ Len(freed[Top.event]) \in Nat
  BY <1>0, <1>2, TypeParts
<1>5. Top.end <= Len(listeners[Top.event]) + Len(freed[Top.event])
  BY <1>0, <1>1, <1>3 DEF IteratorsInside, Top
<1>6. /\ slots \in Seq(Listener) /\ Len(slots) = Len(listeners[Top.event]) + Len(freed[Top.event])
      /\ \A i \in 1 .. Len(listeners[Top.event]) + Len(freed[Top.event]) :
           slots[i] = IF i <= Len(listeners[Top.event]) THEN listeners[Top.event][i]
                      ELSE freed[Top.event][i - Len(listeners[Top.event])]
  BY <1>4, ConcatProperties
<1> DEFINE n == Top.pos + 1
           id == Slot(Top, n).id
           x == [Top EXCEPT !.pos = @ + 1, !.inside = TRUE, !.called = Append(@, id)]
<1>7. n \in 1 .. Len(slots)
  <2>1. \A q, f, a, b \in Nat : q < f /\ f <= a + b => q + 1 \in 1 .. a + b
    OBVIOUS
  <2>2. n \in 1 .. Len(listeners[Top.event]) + Len(freed[Top.event])
    BY <1>2, <1>3, <1>4, <1>5, <2>1
  <2> QED
    BY <1>6, <2>2
<1>8. Slot(Top, n) \in Listener /\ id \in Nat
  <2>1. slots[n] \in Listener
    BY <1>6, <1>7, ElementOfSeq
  <2> QED
    BY <2>1 DEF Slot, Listener
<1>9. calls' = [calls EXCEPT ![Len(calls)] = x]
  BY DEF Invoke
<1>10. UNCHANGED <<mInternalEventID, listeners, freed, nextListenerID, undefined>>
  BY DEF Invoke
<1> HIDE DEF id
<1>11. /\ Append(Top.called, id) \in Seq(Nat)
       /\ Len(Append(Top.called, id)) = Len(Top.called) + 1
       /\ \A i \in 1 .. Len(Top.called) : Append(Top.called, id)[i] = Top.called[i]
       /\ Append(Top.called, id)[Len(Top.called) + 1] = id
  BY <1>2, <1>8
<1>12. /\ x \in Call /\ x.event = Top.event /\ x.end = Top.end /\ x.pos = n
       /\ x.dangling = Top.dangling /\ x.changed = Top.changed
       /\ x.called = Append(Top.called, id)
  <2>1. /\ x.event = Top.event /\ x.end = Top.end /\ x.pos = n /\ x.inside = TRUE
        /\ x.dangling = Top.dangling /\ x.changed = Top.changed
        /\ x.called = Append(Top.called, id)
    BY <1>1 DEF Call
  <2>2. ASSUME NEW k \in Nat, NEW q \in Seq(Nat)
        PROVE  [Top EXCEPT !.pos = k, !.inside = TRUE, !.called = q] \in Call
    <3>1. [Top EXCEPT !.pos = k] \in Call
      BY <1>1 DEF Call
    <3>2. [[Top EXCEPT !.pos = k] EXCEPT !.inside = TRUE] \in Call
      BY <3>1 DEF Call
    <3> DEFINE y == [[Top EXCEPT !.pos = k] EXCEPT !.inside = TRUE]
    <3> HIDE DEF y
    <3>3. [y EXCEPT !.called = q] \in Call
      BY <3>2 DEF Call, y
    <3> QED
      BY <3>3 DEF y
  <2>3. Top.pos + 1 \in Nat /\ Append(Top.called, id) \in Seq(Nat)
    BY <1>2, <1>11
  <2>4. x \in Call
    BY <2>2, <2>3, Zenon
  <2> QED
    BY <2>1, <2>4
<1> HIDE DEF x
<1>13. ~Top.changed => /\ Len(x.called) = x.pos
                       /\ \A i \in 1 .. x.pos : x.called[i] = listeners[x.event][i].id
  <2> SUFFICES ASSUME ~Top.changed
               PROVE  /\ Len(x.called) = x.pos
                      /\ \A i \in 1 .. x.pos : x.called[i] = listeners[x.event][i].id
    OBVIOUS
  <2>1. /\ Top.end = Len(listeners[Top.event]) /\ Len(Top.called) = Top.pos
        /\ \A i \in 1 .. Top.pos : Top.called[i] = listeners[Top.event][i].id
    BY <1>0, <1>1 DEF InOrder, Top
  <2>2. id = listeners[Top.event][n].id
    BY <1>2, <1>3, <1>6, <1>7, <2>1 DEF id, Slot
  <2>3. \A i \in 1 .. n : i \in 1 .. Top.pos \/ i = n
    BY <1>2
  <2> QED
    BY <1>2, <1>11, <1>12, <2>1, <2>2, <2>3, SMTT(30)
<1>14. x.pos <= x.end
  BY <1>2, <1>3, <1>12
<1> QED
  BY <1>1, <1>2, <1>9, <1>10, <1>12, <1>13, <1>14, TopStep

LEMMA ReturnStep == Inv /\ Return => Inv'
<1> SUFFICES ASSUME Inv, Return PROVE Inv'
  OBVIOUS
<1>0. TypeOK /\ IteratorsInside /\ Sorted /\ InOrder
  BY DEF Inv, IInv
<1>1. calls # <<>> /\ Len(calls) \in DOMAIN calls /\ Top \in Call
  BY <1>0, CallsAre DEF TypeOK, Return, Top
<1> DEFINE x == [Top EXCEPT !.inside = FALSE]
<1>2. /\ x \in Call /\ x.event = Top.event /\ x.end = Top.end /\ x.pos = Top.pos
      /\ x.dangling = Top.dangling /\ x.changed = Top.changed /\ x.called = Top.called
      /\ Top.changed \in BOOLEAN
  BY <1>1 DEF Call
<1>3. /\ calls' = [calls EXCEPT ![Len(calls)] = x]
      /\ UNCHANGED <<mInternalEventID, listeners, freed, nextListenerID, undefined>>
  BY <1>1 DEF Return, Top
<1>4. x.pos <= x.end
  BY <1>0, <1>1, <1>2 DEF IteratorsInside, Top
<1> HIDE DEF x
<1>5. ~Top.changed => /\ Len(x.called) = x.pos
                      /\ \A i \in 1 .. x.pos : x.called[i] = listeners[x.event][i].id
  BY <1>0, <1>1, <1>2 DEF InOrder, Top
<1> QED
  BY <1>1, <1>2, <1>3, <1>4, <1>5, TopStep

LEMMA FinishStep == Inv /\ Finish => Inv'
<1> SUFFICES ASSUME Inv, Finish PROVE Inv'
  OBVIOUS
<1>0. TypeOK /\ IteratorsInside /\ Sorted /\ InOrder
  BY DEF Inv, IInv
<1>1. /\ calls \in Seq(Call) /\ Len(calls) \in Nat /\ DOMAIN calls = 1 .. Len(calls)
      /\ Len(calls) \in DOMAIN calls /\ \A c \in 1 .. Len(calls) : calls[c] \in Call
  BY <1>0, CallsAre DEF TypeOK, Finish
<1>2. /\ calls' = SubSeq(calls, 1, Len(calls) - 1)
      /\ freed' = [e \in Events |->
                     IF \E c \in 1 .. Len(calls) - 1 : calls[c].event = e THEN freed[e] ELSE <<>>]
      /\ UNCHANGED <<mInternalEventID, listeners, nextListenerID, undefined>>
  BY DEF Finish
<1>3. /\ calls' \in Seq(Call) /\ Len(calls') = Len(calls) - 1
      /\ DOMAIN calls' = 1 .. Len(calls) - 1
      /\ \A c \in 1 .. Len(calls) - 1 : calls'[c] = calls[c]
  <2>1. \A c \in 1 .. Len(calls) - 1 : calls[c] \in Call
    BY <1>1
  <2>2. /\ calls' \in Seq(Call)
        /\ Len(calls') = IF 1 <= Len(calls) - 1 THEN Len(calls) - 1 - 1 + 1 ELSE 0
        /\ \A c \in 1 .. Len(calls) - 1 - 1 + 1 : calls'[c] = calls[1 + c - 1]
    BY <1>1, <1>2, <2>1, SubSeqProperties
  <2>3. Len(calls') = Len(calls) - 1 /\ \A c \in 1 .. Len(calls) - 1 : calls'[c] = calls[c]
    <3>1. \A n \in Nat : n \in 1 .. n =>
            /\ (IF 1 <= n - 1 THEN n - 1 - 1 + 1 ELSE 0) = n - 1
            /\ \A c \in 1 .. n - 1 : c \in 1 .. n - 1 - 1 + 1 /\ 1 + c - 1 = c
      OBVIOUS
    <3> QED
      BY <1>1, <2>2, <3>1
  <2> QED
    BY <2>2, <2>3, LenProperties
<1>4. TypeOK'
  <2>1. <<>> \in Seq(Listener)
    OBVIOUS
  <2>2. freed' \in [Events -> Seq(Listener)]
    BY <1>0, <1>2, <2>1 DEF TypeOK
  <2>3. Len(calls') <= MaxDepth
    BY <1>0, <1>1, <1>3, BoundAssumption DEF TypeOK
  <2> QED
    BY <1>0, <1>2, <1>3, <2>2, <2>3 DEF TypeOK
<1>5. \A c \in DOMAIN calls' : /\ c \in DOMAIN calls /\ calls'[c] = calls[c]
                               /\ freed'[calls[c].event] = freed[calls[c].event]
  <2> SUFFICES ASSUME NEW c \in 1 .. Len(calls) - 1
               PROVE  /\ c \in DOMAIN calls /\ calls'[c] = calls[c]
                      /\ freed'[calls[c].event] = freed[calls[c].event]
    BY <1>3
  <2>1. c \in 1 .. Len(calls)
    BY <1>1
  <2>2. calls[c].event \in Events
    BY <1>1, <2>1 DEF Call
  <2> QED
    BY <1>1, <1>2, <1>3, <2>1, <2>2
<1>6. IteratorsInside' /\ InOrder'
  <2>0. listeners' = listeners
    BY <1>2
  <2>1. \A c \in DOMAIN calls' :
          /\ c \in DOMAIN calls /\ calls'[c] = calls[c]
          /\ Len(freed'[calls'[c].event]) = Len(freed[calls[c].event])
    BY <1>5
  <2>2. IteratorsInside'
    BY <1>0, <2>0, <2>1 DEF IteratorsInside
  <2>3. InOrder'
    BY <1>0, <2>0, <2>1 DEF InOrder
  <2> QED
    BY <2>2, <2>3
<1> QED
  BY <1>0, <1>2, <1>4, <1>6 DEF Inv, IInv, Sorted

------------------------------------------------------------------------------
LEMMA InductiveStep == Inv /\ [Next]_vars => Inv'
<1> SUFFICES ASSUME Inv, [Next]_vars PROVE Inv'
  OBVIOUS
<1>1. CASE RegisterEvent
  <2>1. mInternalEventID' \in 0 .. MaxEvents
    BY <1>1, BoundAssumption DEF RegisterEvent, Inv, IInv, TypeOK
  <2> QED
    BY <1>1, <2>1 DEF RegisterEvent, Inv, IInv, TypeOK, IteratorsInside, Sorted, InOrder
<1>2. ASSUME NEW e \in Events, NEW p \in Priorities, RegisterListener(e, p) PROVE Inv'
  BY <1>2, RegisterListenerStep
<1>3. ASSUME NEW e \in Events, NEW i \in DOMAIN listeners[e], UnregisterListener(e, i) PROVE Inv'
  BY <1>3, UnregisterListenerStep
<1>4. ASSUME NEW e \in Events, CallEvent(e) PROVE Inv'
  BY <1>4, CallEventStep
<1>5. CASE Invoke \/ Return \/ Finish
  BY <1>5, InvokeStep, ReturnStep, FinishStep
<1>6. CASE InvokeDangling
  BY <1>6 DEF InvokeDangling, Inv, IInv, TypeOK, IteratorsInside, Sorted, InOrder
<1>7. CASE UNCHANGED vars
  BY <1>7 DEF vars, Inv, IInv, TypeOK, IteratorsInside, Sorted, InOrder
<1> QED
  BY <1>1, <1>2, <1>3, <1>4, <1>5, <1>6, <1>7 DEF Next

LEMMA AlwaysInv == Spec => []Inv
<1>1. Init => Inv
  BY InitHolds DEF Inv
<1> QED
  BY <1>1, InductiveStep, PTL DEF Spec

(* The registry and the running calls are always well formed.              *)
THEOREM TypeCorrect == Spec => []TypeOK
<1>1. Inv => TypeOK
  BY DEF Inv, IInv
<1> QED
  BY <1>1, AlwaysInv, PTL

(* RegisterListener and UnregisterListener keep each list in ascending     *)
(* order of priority, the newest first among equals.                       *)
THEOREM SortedHolds == Spec => []Sorted
<1>1. Inv => Sorted
  BY DEF Inv
<1> QED
  BY <1>1, AlwaysInv, PTL

(* CallEvent calls each listener of an event once and in order, however    *)
(* deep its listeners call events, until one of them changes the list.     *)
THEOREM InOrderHolds == Spec => []InOrder
<1>1. Inv => InOrder
  BY DEF Inv
<1> QED
  BY <1>1, AlwaysInv, PTL

(* An iterator that was not given back with its buffer is inside of it.    *)
THEOREM IteratorsStayInside == Spec => []IteratorsInside
<1>1. Inv => IteratorsInside
  BY DEF Inv, IInv
<1> QED
  BY <1>1, AlwaysInv, PTL
==============================================================================
