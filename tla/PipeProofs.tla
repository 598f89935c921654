----------------------------- MODULE PipeProofs -----------------------------
(***************************************************************************)
(* The pipe buffers of Pipes are correct for every set of coroutines and   *)
(* places, every list of size classes and every capacity of the index      *)
(* type, as long as a pipe is closed by its producer or after the          *)
(* producer's death (~ForeignClose).                                       *)
(*                                                                         *)
(* The inductive invariant PipeInv says of every place what its header     *)
(* means, of every coroutine what the place it stands at owes it, and of   *)
(* the free lists that they are disjoint and end.  Almost every operator   *)
(* is a step of one coroutine at one place; StepSound says what such a     *)
(* step must show.                                                         *)
(***************************************************************************)
EXTENDS Pipes, FiniteSetTheorems, SequenceTheorems, WellFoundedInduction, TLAPS

-----------------------------------------------------------------------------
(* The invariant's parts *)

CoOrNull == Co \cup {Null}

\* The values of the variables.
Header == [head : Nat, tail : Nat, count : Nat, capacity : Nat,
           closed : BOOLEAN, consumer_dead : BOOLEAN, error : BOOLEAN,
           producer : CoOrNull, consumer : CoOrNull,
           blocked_writer : CoOrNull \cup Buf, blocked_reader : CoOrNull,
           data : Seq(Value \cup {Null})]

Standing == [at : {"proc", "put", "get", "dead"}, asleep : BOOLEAN,
             on : Buf \cup {Null}, val : Value \cup {Null}]

Stream == [gen : 0..MaxGen, sent : 0..MaxSent, got : Nat]

PipeTypes ==
  /\ hdr \in [Buf -> Header]
  /\ pipePool \in [DOMAIN PipeClasses -> Buf \cup {Null}]
  /\ co \in [Co -> Standing]
  /\ pipe \in [Buf -> Stream]

\* A modulus of the code is taken of a number below twice the capacity.
Fold(x, n) == IF x < n THEN x ELSE x - n

\* The slot of the i-th value of a ring of n slots whose first index is x.
SlotAt(x, i, n) == Fold(x + i - 1, n) + 1

\* The ring of the header h of b holds the values of the stream p, in order.
PipeRing(b, h, p) ==
  /\ h.head < h.capacity /\ h.count <= h.capacity
  /\ h.tail + 1 = SlotAt(h.head, h.count + 1, h.capacity)
  /\ h.blocked_writer \in CoOrNull
  /\ \A i \in 1..h.count : h.data[SlotAt(h.head, i, h.capacity)]
                             = [place |-> b, gen |-> p.gen, n |-> p.got + i]

\* w is the number of values that wait to be put.
Flow(h, p, w) ==
  /\ p.got + h.count + w = p.sent
  /\ h.closed => w = 0
  /\ h.error => h.closed
  /\ h.consumer_dead => h.closed /\ h.count = 0

\* A place is new, parked, or has a sound ring.
Place(b, h, p, w) ==
  /\ Flow(h, p, w)
  /\ h.capacity = 0 => h = Unborn
  /\ h.capacity # 0 => /\ h.capacity <= MaxCapacity /\ p.gen # 0
                       /\ Len(h.data) = Physical(h.capacity)
  /\ h.head = Sentinel => /\ h.capacity # 0 /\ h.closed /\ h.consumer_dead
                          /\ h.blocked_writer \in Buf \cup {Null}
                          /\ pipe_class_for_capacity(h.capacity) # 0
  /\ h.head # Sentinel /\ h.capacity # 0 => PipeRing(b, h, p)

\* c waits to put a value into b; how many do.
Writes(c, b) == co[c].at = "put" /\ co[c].on = b
Writers(b) == IF \E c \in Co : Writes(c, b) THEN 1 ELSE 0

\* What holds of the header h and the stream p of the place c stands at.
Putting(k, c, b, h, p) ==
  /\ h.capacity # 0 /\ h.head # Sentinel /\ h.producer = c /\ ~h.closed
  /\ k.val = [place |-> b, gen |-> p.gen, n |-> p.sent]
  /\ k.asleep => h.count = h.capacity /\ h.blocked_writer = c

Getting(k, c, h) ==
  /\ h.capacity # 0 /\ h.head # Sentinel /\ h.consumer = c /\ ~h.consumer_dead
  /\ k.asleep => ~h.closed /\ h.count = 0 /\ h.blocked_reader = c

Stands(c) ==
  /\ co[c].asleep => co[c].at \in {"put", "get"}
  /\ co[c].at \in {"put", "get"} => co[c].on \in Buf
  /\ co[c].at = "put" => Putting(co[c], c, co[c].on, hdr[co[c].on], pipe[co[c].on])
  /\ co[c].at = "get" => Getting(co[c], c, hdr[co[c].on])

Link(b) == hdr[b].blocked_writer
Size(b) == Len(hdr[b].data)

\* The lists have the places of their class only, no two places are linked to
\* the same one, and none to a head.
FreeLists ==
  /\ \A i \in DOMAIN PipeClasses : pipePool[i] # Null =>
       InPool(pipePool[i]) /\ Size(pipePool[i]) = PipeClasses[i]
  /\ \A b \in Buf : InPool(b) /\ Link(b) # Null =>
       /\ Link(b) \in Buf /\ InPool(Link(b)) /\ Size(Link(b)) = Size(b)
       /\ \A i \in DOMAIN PipeClasses : Link(b) # pipePool[i]
       /\ \A d \in Buf : InPool(d) /\ Link(d) = Link(b) => d = b
  /\ PoolChain

PipeInv ==
  /\ PipeTypes
  /\ \A b \in Buf : Place(b, hdr[b], pipe[b], Writers(b))
  /\ \A c \in Co : Stands(c)
  /\ FreeLists

-----------------------------------------------------------------------------
(* Operators *)

\* A set of indices has a least one.
LEMMA LeastNat ==
  ASSUME NEW S, S \subseteq Nat, S # {}
  PROVE  \E m \in S : \A x \in S : m <= x
<1>1. PICK m \in S : \A x \in S : <<x, m>> \notin OpToRel(<, Nat)
  BY NatLessThanWellFounded, WFMin
<1>2. \A x \in S : ~(x < m)
  BY <1>1 DEF OpToRel
<1> QED
  BY <1>2

\* Below twice the capacity the modulus of the code is a subtraction.
LEMMA FoldMod ==
  ASSUME NEW x \in Nat, NEW n \in Nat \ {0}, x < 2 * n
  PROVE  x % n = Fold(x, n) /\ Fold(x, n) \in Nat /\ Fold(x, n) < n
  BY DEF Fold

\* The slots of a ring are its first n ones.
LEMMA SlotRange ==
  ASSUME NEW n \in Nat \ {0}, NEW x \in Nat, x < n, NEW i \in 1..n
  PROVE  SlotAt(x, i, n) \in 1..n
  BY DEF SlotAt, Fold

\* Every value of the ring has a slot of its own.
LEMMA SlotsApart ==
  ASSUME NEW n \in Nat \ {0}, NEW x \in Nat, x < n,
         NEW i \in 1..n, NEW k \in 1..n, i # k
  PROVE  SlotAt(x, i, n) # SlotAt(x, k, n)
  BY DEF SlotAt, Fold

\* The write index steps to the next slot.
LEMMA SlotAfter ==
  ASSUME NEW n \in Nat \ {0}, NEW x \in Nat, x < n, NEW i \in 1..n,
         NEW t \in Nat, t + 1 = SlotAt(x, i, n), NEW k \in Nat, k = i + 1
  PROVE  ((t + 1) % n) + 1 = SlotAt(x, k, n)
<1>1. t + 1 \in 1..n
  BY SlotRange
<1>2. (t + 1) % n = Fold(t + 1, n)
  BY <1>1, FoldMod
<1>3. Fold(t + 1, n) + 1 = SlotAt(x, k, n)
  BY DEF SlotAt, Fold
<1> QED
  BY <1>2, <1>3

\* The read index steps to the next slot.
LEMMA SlotBehind ==
  ASSUME NEW n \in Nat \ {0}, NEW x \in Nat, x < n
  PROVE  /\ (x + 1) % n \in 0..(n - 1)
         /\ \A i \in 1..n : SlotAt((x + 1) % n, i, n) = SlotAt(x, i + 1, n)
<1>1. (x + 1) % n = Fold(x + 1, n)
  BY FoldMod
<1>2. Fold(x + 1, n) \in 0..(n - 1)
  BY DEF Fold
<1>3. ASSUME NEW i \in 1..n PROVE SlotAt(Fold(x + 1, n), i, n) = SlotAt(x, i + 1, n)
  BY DEF SlotAt, Fold
<1> QED
  BY <1>1, <1>2, <1>3

\* Writing one slot of a data array leaves the others.
LEMMA StoreData ==
  ASSUME NEW S, NEW q \in Seq(S), NEW v \in S, NEW k \in 1..Len(q)
  PROVE  /\ [q EXCEPT ![k] = v] \in Seq(S)
         /\ Len([q EXCEPT ![k] = v]) = Len(q)
         /\ [q EXCEPT ![k] = v][k] = v
         /\ \A i \in 1..Len(q) : i # k => [q EXCEPT ![k] = v][i] = q[i]
<1>1. /\ [q EXCEPT ![k] = v] \in Seq(S)
      /\ Len([q EXCEPT ![k] = v]) = Len(q)
  BY ExceptSeq
<1>2. DOMAIN q = 1..Len(q)
  OBVIOUS
<1> QED
  BY <1>1, <1>2

\* coroutine_wake changes nothing but the sleep of the one it wakes.
LEMMA WokenValue ==
  ASSUME NEW who, NEW s \in [Co -> Standing]
  PROVE  /\ Woken(who, s) \in [Co -> Standing]
         /\ \A c \in Co : /\ Woken(who, s)[c].at = s[c].at
                          /\ Woken(who, s)[c].on = s[c].on
                          /\ Woken(who, s)[c].val = s[c].val
                          /\ Woken(who, s)[c].asleep <=> s[c].asleep /\ c # who
  BY DEF Woken, Standing

\* The class of a capacity is the first one that fits, and its size at least
\* the capacity.
LEMMA ClassValue ==
  ASSUME NEW n \in Nat
  PROVE  /\ pipe_class_for_capacity(n) \in {0} \cup DOMAIN PipeClasses
         /\ Physical(n) \in Nat /\ n <= Physical(n)
         /\ pipe_class_for_capacity(n) # 0 =>
              Physical(n) = PipeClasses[pipe_class_for_capacity(n)]
<1> DEFINE fits == {i \in DOMAIN PipeClasses : n <= PipeClasses[i]}
           k == pipe_class_for_capacity(n)
<1>1. PipeClasses \in Seq(Nat \ {0}) /\ DOMAIN PipeClasses = 1..Len(PipeClasses)
  BY PipeAssumption
<1>2. CASE fits = {}
  <2>1. k = 0
    BY <1>2 DEF pipe_class_for_capacity
  <2> QED
    BY <2>1 DEF Physical
<1>3. CASE fits # {}
  <2>1. PICK i \in fits : \A j \in fits : i <= j
    <3>1. fits \in SUBSET Nat
      BY <1>1
    <3> HIDE DEF fits
    <3> QED
      BY <1>3, <3>1, LeastNat
  <2>2. k \in fits
    <3>1. k = CHOOSE j \in fits : \A l \in fits : j <= l
      BY <1>3 DEF pipe_class_for_capacity
    <3> QED
      BY <2>1, <3>1
  <2>3. k # 0
    BY <1>1, <2>2
  <2>4. Physical(n) = PipeClasses[k]
    BY <2>3 DEF Physical
  <2> QED
    BY <1>1, <2>2, <2>4
<1> QED
  BY <1>2, <1>3

\* Different classes have different sizes.
LEMMA ClassesDiffer ==
  ASSUME NEW i \in DOMAIN PipeClasses, NEW j \in DOMAIN PipeClasses, i # j
  PROVE  PipeClasses[i] # PipeClasses[j]
<1>1. /\ PipeClasses \in Seq(Nat \ {0}) /\ DOMAIN PipeClasses = 1..Len(PipeClasses)
      /\ Len(PipeClasses) \in Nat
  BY PipeAssumption
<1>2. PipeClasses[i] \in Nat /\ PipeClasses[j] \in Nat /\ i \in Nat /\ j \in Nat
  BY <1>1
<1>3. i < j => PipeClasses[i] < PipeClasses[j]
  BY PipeAssumption
<1>4. j < i => PipeClasses[j] < PipeClasses[i]
  BY PipeAssumption
<1> QED
  BY <1>2, <1>3, <1>4

-----------------------------------------------------------------------------
(* Free lists *)

\* Only the parked places matter.
SameParked(b) ==
  /\ InPool(b)' <=> InPool(b)
  /\ InPool(b) => Link(b)' = Link(b) /\ Size(b)' = Size(b)

\* The free lists depend on the parked places only.
LEMMA ListsSame ==
  ASSUME FreeLists, pipePool \in [DOMAIN PipeClasses -> Buf \cup {Null}],
         pipePool' = pipePool, \A b \in Buf : SameParked(b)
  PROVE  FreeLists'
<1>1. ASSUME NEW S \in SUBSET Buf
      PROVE  Linked(S)' <=> Linked(S)
  BY DEF Linked, SameParked, Link
<1>2. ASSUME NEW i \in DOMAIN PipeClasses
      PROVE  Chain(i)' = Chain(i)
  BY <1>1 DEF Chain
<1>3. PoolChain'
  <2> SUFFICES ASSUME NEW i \in DOMAIN PipeClasses
               PROVE  Chain(i)' = {b \in Buf : InPool(b)' /\ Size(b)' = PipeClasses[i]}
    BY DEF PoolChain, Size
  <2>1. Chain(i) = {b \in Buf : InPool(b) /\ Size(b) = PipeClasses[i]}
    BY DEF FreeLists, PoolChain, Size
  <2> QED
    BY <1>2, <2>1 DEF SameParked
<1>4. ASSUME NEW i \in DOMAIN PipeClasses, pipePool'[i] # Null
      PROVE  (InPool(pipePool[i]) /\ Size(pipePool[i]) = PipeClasses[i])'
  <2>1. PICK y \in Buf : y = pipePool[i]
    BY <1>4
  <2>2. InPool(y) /\ Size(y) = PipeClasses[i]
    BY <1>4, <2>1 DEF FreeLists
  <2>3. InPool(y)' /\ Size(y)' = PipeClasses[i]
    BY <2>2 DEF SameParked
  <2> QED
    BY <2>1, <2>3
<1>5. ASSUME NEW x \in Buf, InPool(x)', Link(x)' # Null
      PROVE  /\ (Link(x) \in Buf /\ InPool(Link(x)) /\ Size(Link(x)) = Size(x))'
             /\ \A i \in DOMAIN PipeClasses : Link(x)' # pipePool'[i]
             /\ \A d \in Buf : InPool(d)' /\ Link(d)' = Link(x)' => d = x
  <2>1. InPool(x) /\ Link(x)' = Link(x) /\ Size(x)' = Size(x) /\ Link(x) # Null
    BY <1>5 DEF SameParked
  <2>2. /\ Link(x) \in Buf /\ InPool(Link(x)) /\ Size(Link(x)) = Size(x)
        /\ \A i \in DOMAIN PipeClasses : Link(x) # pipePool[i]
        /\ \A d \in Buf : InPool(d) /\ Link(d) = Link(x) => d = x
    BY <2>1 DEF FreeLists
  <2>3. (Link(x) \in Buf /\ InPool(Link(x)) /\ Size(Link(x)) = Size(x))'
    <3>1. PICK y \in Buf : y = Link(x)
      BY <2>2
    <3>2. InPool(y)' /\ Size(y)' = Size(y)
      BY <2>2, <3>1 DEF SameParked
    <3> QED
      BY <2>1, <2>2, <3>1, <3>2
  <2>4. ASSUME NEW d \in Buf, InPool(d)', Link(d)' = Link(x)'
        PROVE  d = x
    BY <2>1, <2>2, <2>4 DEF SameParked
  <2> QED
    BY <2>1, <2>2, <2>3, <2>4
<1> QED
  BY <1>3, <1>4, <1>5 DEF FreeLists

\* Parking b at the head of the list of class k.
LEMMA ListsPush ==
  ASSUME FreeLists, NEW k \in DOMAIN PipeClasses, NEW b \in Buf,
         pipePool \in [DOMAIN PipeClasses -> Buf \cup {Null}],
         ~InPool(b), InPool(b)', Link(b)' = pipePool[k], Size(b)' = PipeClasses[k],
         pipePool' = [pipePool EXCEPT ![k] = b],
         \A x \in Buf \ {b} : SameParked(x)
  PROVE  FreeLists'
<1>0. /\ pipePool'[k] = b
      /\ \A i \in DOMAIN PipeClasses : i # k => pipePool'[i] = pipePool[i]
      /\ b # Null
  BY PipeAssumption
<1>a. \A i \in DOMAIN PipeClasses : pipePool[i] # b
  BY PipeAssumption DEF FreeLists
<1>b. \A x \in Buf : InPool(x) => Link(x) # b
  BY <1>0 DEF FreeLists
<1>1. ASSUME NEW S \in SUBSET Buf
      PROVE  Linked(S)' <=> Linked(S) /\ (b \in S => pipePool[k] \in S \cup {Null})
  BY DEF Linked, SameParked, Link
<1>2. Chain(k)' = Chain(k) \cup {b}
  <2>1. ASSUME NEW x \in Buf, x \in Chain(k) \cup {b}, NEW S \in SUBSET Buf,
               b \in S, Linked(S)'
        PROVE  x \in S
    <3>1. pipePool[k] \in S \cup {Null} /\ Linked(S)
      BY <1>1, <2>1
    <3> QED
      BY <2>1, <3>1 DEF Chain
  <2>2. ASSUME NEW x \in Buf, x \in Chain(k)', x # b
        PROVE  x \in Chain(k)
    <3> SUFFICES ASSUME NEW S \in SUBSET Buf, pipePool[k] \in S \cup {Null}, Linked(S)
                 PROVE  x \in S
      BY DEF Chain
    <3>1. Linked(S \cup {b})
      BY DEF Linked
    <3>2. Linked(S \cup {b})' 
      BY <1>1, <3>1
    <3>3. x \in S \cup {b}
      BY <1>0, <2>2, <3>2 DEF Chain
    <3> QED
      BY <2>2, <3>3
  <2>3. b \in Chain(k)' /\ Chain(k) \subseteq Chain(k)'
    BY <1>0, <2>1 DEF Chain
  <2>4. Chain(k)' \subseteq Buf
    BY DEF Chain
  <2> QED
    BY <2>2, <2>3, <2>4
<1>3. ASSUME NEW i \in DOMAIN PipeClasses, i # k
      PROVE  Chain(i)' = Chain(i)
  <2>0. b \notin Chain(i)
    BY DEF FreeLists, PoolChain
  <2>1. ASSUME NEW x \in Buf, x \in Chain(i), NEW S \in SUBSET Buf,
               pipePool[i] \in S \cup {Null}, Linked(S)'
        PROVE  x \in S
    BY <1>1, <2>1 DEF Chain
  <2>2. ASSUME NEW x \in Buf, x \in Chain(i)'
        PROVE  x \in Chain(i)
    <3> SUFFICES ASSUME NEW S \in SUBSET Buf, pipePool[i] \in S \cup {Null}, Linked(S)
                 PROVE  x \in S
      BY DEF Chain
    <3>1. Linked(S \ {b})
      BY <1>b DEF Linked, Link
    <3>2. Linked(S \ {b})'
      BY <1>1, <3>1
    <3>3. pipePool'[i] \in (S \ {b}) \cup {Null}
      BY <1>0, <1>3, <1>a
    <3> QED
      BY <2>2, <3>2, <3>3 DEF Chain
  <2>3. Chain(i) \subseteq Chain(i)'
    BY <1>0, <1>3, <2>1 DEF Chain
  <2>4. Chain(i)' \subseteq Buf
    BY DEF Chain
  <2> QED
    BY <2>2, <2>3, <2>4
<1>4. PoolChain'
  <2> SUFFICES ASSUME NEW i \in DOMAIN PipeClasses
               PROVE  Chain(i)' = {x \in Buf : InPool(x)' /\ Size(x)' = PipeClasses[i]}
    BY DEF PoolChain, Size
  <2>1. Chain(i) = {x \in Buf : InPool(x) /\ Size(x) = PipeClasses[i]}
    BY DEF FreeLists, PoolChain, Size
  <2>2. CASE i = k
    BY <1>2, <2>1, <2>2 DEF SameParked
  <2>3. CASE i # k
    <3>1. PipeClasses[i] # PipeClasses[k]
      BY <2>3, ClassesDiffer
    <3> QED
      BY <1>3, <2>1, <2>3, <3>1 DEF SameParked
  <2> QED
    BY <2>2, <2>3
<1>5. ASSUME NEW i \in DOMAIN PipeClasses, pipePool'[i] # Null
      PROVE  (InPool(pipePool[i]) /\ Size(pipePool[i]) = PipeClasses[i])'
  <2>1. CASE i = k
    BY <1>0, <2>1
  <2>2. CASE i # k
    <3>1. PICK y \in Buf : y = pipePool[i]
      BY <1>0, <1>5, <2>2
    <3>2. InPool(y) /\ Size(y) = PipeClasses[i] /\ y # b
      BY <1>0, <1>5, <1>a, <2>2, <3>1 DEF FreeLists
    <3>3. InPool(y)' /\ Size(y)' = PipeClasses[i]
      BY <3>2 DEF SameParked
    <3> QED
      BY <1>0, <2>2, <3>1, <3>3
  <2> QED
    BY <2>1, <2>2
<1>6. ASSUME NEW x \in Buf, InPool(x)', Link(x)' # Null
      PROVE  /\ (Link(x) \in Buf /\ InPool(Link(x)) /\ Size(Link(x)) = Size(x))'
             /\ \A i \in DOMAIN PipeClasses : Link(x)' # pipePool'[i]
             /\ \A d \in Buf : InPool(d)' /\ Link(d)' = Link(x)' => d = x
  <2>1. CASE x = b
    <3>1. PICK y \in Buf : y = pipePool[k]
      BY <1>6, <2>1
    <3>2. InPool(y) /\ Size(y) = PipeClasses[k] /\ y # b
      BY <1>6, <1>a, <2>1, <3>1 DEF FreeLists
    <3>3. InPool(y)' /\ Size(y)' = PipeClasses[k]
      BY <3>2 DEF SameParked
    <3>4. (Link(x) \in Buf /\ InPool(Link(x)) /\ Size(Link(x)) = Size(x))'
      BY <2>1, <3>1, <3>3
    <3>5. ASSUME NEW i \in DOMAIN PipeClasses PROVE Link(x)' # pipePool'[i]
      <4>1. CASE i = k
        BY <1>0, <2>1, <3>1, <3>2, <4>1
      <4>2. CASE i # k
        <5>1. pipePool'[i] = pipePool[i] /\ PipeClasses[i] # PipeClasses[k]
          BY <1>0, <4>2, ClassesDiffer
        <5>2. pipePool[i] = y => Size(y) = PipeClasses[i]
          BY <1>6, <2>1, <3>1 DEF FreeLists
        <5> QED
          BY <2>1, <3>1, <3>2, <5>1, <5>2
      <4> QED
        BY <4>1, <4>2
    <3>6. ASSUME NEW d \in Buf, InPool(d)', Link(d)' = Link(x)' PROVE d = x
      <4>1. CASE d # b
        <5>1. InPool(d) /\ Link(d) = pipePool[k]
          BY <2>1, <3>6, <4>1 DEF SameParked
        <5> QED
          BY <1>6, <2>1, <5>1 DEF FreeLists
      <4> QED
        BY <2>1, <4>1
    <3> QED
      BY <3>4, <3>5, <3>6
  <2>2. CASE x # b
    <3>1. InPool(x) /\ Link(x)' = Link(x) /\ Size(x)' = Size(x) /\ Link(x) # Null
      BY <1>6, <2>2 DEF SameParked
    <3>2. /\ Link(x) \in Buf /\ InPool(Link(x)) /\ Size(Link(x)) = Size(x)
          /\ \A i \in DOMAIN PipeClasses : Link(x) # pipePool[i]
          /\ \A d \in Buf : InPool(d) /\ Link(d) = Link(x) => d = x
      BY <3>1 DEF FreeLists
    <3>3. (Link(x) \in Buf /\ InPool(Link(x)) /\ Size(Link(x)) = Size(x))'
      <4>1. PICK y \in Buf : y = Link(x)
        BY <3>2
      <4>2. InPool(y)' /\ Size(y)' = Size(y)
        BY <1>b, <3>1, <3>2, <4>1 DEF SameParked
      <4> QED
        BY <3>1, <3>2, <4>1, <4>2
    <3>4. \A i \in DOMAIN PipeClasses : Link(x)' # pipePool'[i]
      BY <1>0, <1>b, <3>1, <3>2
    <3>5. ASSUME NEW d \in Buf, InPool(d)', Link(d)' = Link(x)' PROVE d = x
      <4>1. d # b
        BY <3>1, <3>2, <3>5
      <4> QED
        BY <3>1, <3>2, <3>5, <4>1 DEF SameParked
    <3> QED
      BY <3>3, <3>4, <3>5
  <2> QED
    BY <2>1, <2>2
<1> QED
  BY <1>4, <1>5, <1>6 DEF FreeLists

\* Taking the head b of the list of class k.
LEMMA ListsPop ==
  ASSUME FreeLists, NEW k \in DOMAIN PipeClasses, NEW b \in Buf,
         pipePool \in [DOMAIN PipeClasses -> Buf \cup {Null}],
         pipePool[k] = b, ~InPool(b)',
         pipePool' = [pipePool EXCEPT ![k] = Link(b)],
         \A x \in Buf \ {b} : SameParked(x)
  PROVE  FreeLists'
<1>0. /\ pipePool'[k] = Link(b)
      /\ \A i \in DOMAIN PipeClasses : i # k => pipePool'[i] = pipePool[i]
      /\ b # Null /\ InPool(b) /\ Size(b) = PipeClasses[k]
  BY PipeAssumption DEF FreeLists
<1>a. \A i \in DOMAIN PipeClasses : i # k => pipePool[i] # b
  BY <1>0, ClassesDiffer DEF FreeLists
<1>b. \A x \in Buf : InPool(x) => Link(x) # b
  BY <1>0 DEF FreeLists
<1>c. Link(b) # Null =>
        /\ Link(b) \in Buf /\ InPool(Link(b)) /\ Size(Link(b)) = PipeClasses[k]
        /\ \A i \in DOMAIN PipeClasses : Link(b) # pipePool[i]
        /\ \A d \in Buf : InPool(d) /\ Link(d) = Link(b) => d = b
  BY <1>0 DEF FreeLists
<1>1. ASSUME NEW S \in SUBSET Buf
      PROVE  Linked(S) <=> Linked(S)' /\ (b \in S => Link(b) \in S \cup {Null})
  BY <1>0 DEF Linked, SameParked, Link
<1>2. Chain(k)' = Chain(k) \ {b}
  <2>1. ASSUME NEW x \in Buf, x \in Chain(k), x # b, NEW S \in SUBSET Buf,
               Link(b) \in S \cup {Null}, Linked(S)'
        PROVE  x \in S
    <3>1. Linked(S \cup {b})'
      BY <2>1 DEF Linked
    <3>2. Linked(S \cup {b})
      BY <1>1, <2>1, <3>1
    <3>3. x \in S \cup {b}
      BY <1>0, <2>1, <3>2 DEF Chain
    <3> QED
      BY <2>1, <3>3
  <2>2. ASSUME NEW x \in Buf, x \in Chain(k)'
        PROVE  x \in Chain(k) /\ x # b
    <3>1. ASSUME NEW S \in SUBSET Buf, b \in S, Linked(S)
          PROVE  x \in S /\ x # b
      <4>1. Linked(S \ {b})'
        <5>1. Linked(S)'
          BY <1>1, <3>1
        <5>2. \A y \in S : InPool(y)' => Link(y)' # b
          BY <1>b DEF SameParked
        <5> QED
          BY <5>1, <5>2 DEF Linked, Link
      <4>2. Link(b) \in (S \ {b}) \cup {Null}
        BY <1>0, <1>1, <1>b, <3>1
      <4> QED
        BY <1>0, <2>2, <4>1, <4>2 DEF Chain
    <3>2. Linked(Buf)
      BY DEF FreeLists, Linked, Link
    <3> QED
      BY <1>0, <3>1, <3>2 DEF Chain
  <2>3. Chain(k) \ {b} \subseteq Chain(k)'
    BY <1>0, <2>1 DEF Chain
  <2>4. Chain(k)' \subseteq Buf
    BY DEF Chain
  <2> QED
    BY <2>2, <2>3, <2>4
<1>3. ASSUME NEW i \in DOMAIN PipeClasses, i # k
      PROVE  Chain(i)' = Chain(i)
  <2>0. b \notin Chain(i)
    BY <1>0, <1>3, ClassesDiffer DEF FreeLists, PoolChain, Size
  <2>1. ASSUME NEW x \in Buf, x \in Chain(i)'
        PROVE  x \in Chain(i)
    BY <1>0, <1>1, <1>3, <2>1 DEF Chain
  <2>2. ASSUME NEW x \in Buf, x \in Chain(i)
        PROVE  x \in Chain(i)'
    <3> SUFFICES ASSUME NEW S \in SUBSET Buf, pipePool[i] \in S \cup {Null}, Linked(S)'
                 PROVE  x \in S
      BY <1>0, <1>3 DEF Chain
    <3>1. Linked(S \ {b})
      <4>1. ASSUME NEW y \in S \ {b}, InPool(y) PROVE Link(y) \in (S \ {b}) \cup {Null}
        <5>1. Link(y)' = Link(y) /\ InPool(y)'
          BY <4>1 DEF SameParked
        <5> QED
          BY <1>b, <4>1, <5>1 DEF Linked, Link
      <4> QED
        BY <4>1 DEF Linked, Link
    <3>2. pipePool[i] \in (S \ {b}) \cup {Null}
      BY <1>3, <1>a
    <3> QED
      BY <2>2, <3>1, <3>2 DEF Chain
  <2> QED
    BY <2>1, <2>2 DEF Chain
<1>4. PoolChain'
  <2> SUFFICES ASSUME NEW i \in DOMAIN PipeClasses
               PROVE  Chain(i)' = {x \in Buf : InPool(x)' /\ Size(x)' = PipeClasses[i]}
    BY DEF PoolChain, Size
  <2>1. Chain(i) = {x \in Buf : InPool(x) /\ Size(x) = PipeClasses[i]}
    BY DEF FreeLists, PoolChain, Size
  <2>2. CASE i = k
    BY <1>2, <2>1, <2>2 DEF SameParked
  <2>3. CASE i # k
    <3>1. PipeClasses[i] # PipeClasses[k]
      BY <2>3, ClassesDiffer
    <3> QED
      BY <1>0, <1>3, <2>1, <2>3, <3>1 DEF SameParked
  <2> QED
    BY <2>2, <2>3
<1>5. ASSUME NEW i \in DOMAIN PipeClasses, pipePool'[i] # Null
      PROVE  (InPool(pipePool[i]) /\ Size(pipePool[i]) = PipeClasses[i])'
  <2>1. PICK y \in Buf : y = pipePool'[i]
    BY <1>0, <1>5, <1>c
  <2>2. InPool(y) /\ Size(y) = PipeClasses[i] /\ y # b
    <3>1. CASE i = k
      BY <1>0, <1>5, <1>b, <1>c, <2>1, <3>1
    <3>2. CASE i # k
      BY <1>0, <1>5, <1>a, <2>1, <3>2 DEF FreeLists
    <3> QED
      BY <3>1, <3>2
  <2>3. InPool(y)' /\ Size(y)' = PipeClasses[i]
    BY <2>2 DEF SameParked
  <2> QED
    BY <2>1, <2>3
<1>6. ASSUME NEW x \in Buf, InPool(x)', Link(x)' # Null
      PROVE  /\ (Link(x) \in Buf /\ InPool(Link(x)) /\ Size(Link(x)) = Size(x))'
             /\ \A i \in DOMAIN PipeClasses : Link(x)' # pipePool'[i]
             /\ \A d \in Buf : InPool(d)' /\ Link(d)' = Link(x)' => d = x
  <2>1. x # b
    BY <1>6
  <2>2. InPool(x) /\ Link(x)' = Link(x) /\ Size(x)' = Size(x) /\ Link(x) # Null
    BY <1>6, <2>1 DEF SameParked
  <2>3. /\ Link(x) \in Buf /\ InPool(Link(x)) /\ Size(Link(x)) = Size(x)
        /\ \A i \in DOMAIN PipeClasses : Link(x) # pipePool[i]
        /\ \A d \in Buf : InPool(d) /\ Link(d) = Link(x) => d = x
    BY <2>2 DEF FreeLists
  <2>4. (Link(x) \in Buf /\ InPool(Link(x)) /\ Size(Link(x)) = Size(x))'
    <3>1. PICK y \in Buf : y = Link(x)
      BY <2>3
    <3>2. InPool(y)' /\ Size(y)' = Size(y)
      BY <1>b, <2>2, <2>3, <3>1 DEF SameParked
    <3> QED
      BY <2>2, <2>3, <3>1, <3>2
  <2>5. \A i \in DOMAIN PipeClasses : Link(x)' # pipePool'[i]
    BY <1>0, <2>1, <2>2, <2>3
  <2>6. ASSUME NEW d \in Buf, InPool(d)', Link(d)' = Link(x)' PROVE d = x
    BY <2>2, <2>3, <2>6 DEF SameParked
  <2> QED
    BY <2>4, <2>5, <2>6
<1> QED
  BY <1>4, <1>5, <1>6 DEF FreeLists

-----------------------------------------------------------------------------
(* Steps of one coroutine at one place *)

\* At most one coroutine waits to put into a place: its producer.
LEMMA WriterFacts ==
  ASSUME PipeInv, NEW b \in Buf
  PROVE  /\ Writers(b) \in {0, 1}
         /\ Writers(b) = 0 <=> \A c \in Co : ~Writes(c, b)
         /\ \A c \in Co : Writes(c, b) =>
              /\ Putting(co[c], c, b, hdr[b], pipe[b])
              /\ Writers(b) = 1
         /\ \A c, d \in Co : Writes(c, b) /\ Writes(d, b) => c = d
  BY DEF PipeInv, Stands, Writers, Writes, Putting

\* What a step of c at b must show: the place b, the coroutines that stand at
\* b, the coroutine c and the free lists are sound again.
OnlyAt(c, b) ==
  /\ \A x \in Buf \ {b} : hdr'[x] = hdr[x] /\ pipe'[x] = pipe[x]
  /\ \A d \in Co \ {c} :
       /\ co'[d].at = co[d].at /\ co'[d].on = co[d].on /\ co'[d].val = co[d].val
       /\ co'[d].asleep => co[d].asleep
  /\ \A x \in Buf \ {b} : Writes(c, x)' <=> Writes(c, x)

OthersAt(c, b) ==
  \A d \in Co \ {c} : co[d].on = b =>
    /\ co[d].at = "put" => Putting(co'[d], d, b, hdr'[b], pipe'[b])
    /\ co[d].at = "get" => Getting(co'[d], d, hdr'[b])

\* A step of c at b that shows these things preserves the invariant.
LEMMA StepSound ==
  ASSUME PipeInv, NEW c \in Co, NEW b \in Buf, PipeTypes', OnlyAt(c, b), OthersAt(c, b),
         Place(b, hdr'[b], pipe'[b], Writers(b)'), Stands(c)', FreeLists'
  PROVE  PipeInv'
<1>1. ASSUME NEW x \in Buf, x # b PROVE Place(x, hdr'[x], pipe'[x], Writers(x)')
  <2>1. \A d \in Co : Writes(d, x)' <=> Writes(d, x)
    BY <1>1 DEF OnlyAt, Writes
  <2>2. Writers(x)' = Writers(x)
    BY <2>1 DEF Writers
  <2> QED
    BY <1>1, <2>2 DEF OnlyAt, PipeInv
<1>2. ASSUME NEW d \in Co, d # c PROVE Stands(d)'
  <2>1. Stands(d)
    BY DEF PipeInv
  <2>2. /\ co'[d].at = co[d].at /\ co'[d].on = co[d].on /\ co'[d].val = co[d].val
        /\ co'[d].asleep => co[d].asleep
    BY <1>2 DEF OnlyAt
  <2>3. CASE co[d].on = b
    BY <1>2, <2>1, <2>2, <2>3 DEF OthersAt, Stands
  <2>4. CASE co[d].on # b
    <3>1. co[d].at \in {"put", "get"} =>
            hdr'[co[d].on] = hdr[co[d].on] /\ pipe'[co[d].on] = pipe[co[d].on]
      BY <2>1, <2>4 DEF OnlyAt, Stands
    <3> QED
      BY <2>1, <2>2, <3>1 DEF Stands, Putting, Getting
  <2> QED
    BY <2>3, <2>4
<1> QED
  BY <1>1, <1>2 DEF PipeInv

\* The header r after a value was stored in b with header h.
StoredIn(b, h, p, r) ==
  /\ r.head = h.head /\ r.capacity = h.capacity
  /\ r.closed = h.closed /\ r.consumer_dead = h.consumer_dead /\ r.error = h.error
  /\ r.consumer = h.consumer /\ r.blocked_reader = Null
  /\ r.tail = (h.tail + 1) % h.capacity /\ r.count = h.count + 1
  /\ r.data = [h.data EXCEPT ![h.tail + 1] =
                 [place |-> b, gen |-> p.gen, n |-> p.got + h.count + 1]]

\* Storing the next value keeps the ring in order.
LEMMA StorePlace ==
  ASSUME NEW b \in Buf, NEW h \in Header, NEW r \in Header,
         NEW p \in Stream, NEW q \in Stream, NEW w \in {0, 1},
         Place(b, h, p, w), h.capacity # 0, h.head # Sentinel, ~h.closed,
         h.count < h.capacity, StoredIn(b, h, p, r), r.blocked_writer \in CoOrNull,
         [place |-> b, gen |-> p.gen, n |-> p.got + h.count + 1] \in Value,
         q.gen = p.gen, q.got = p.got, q.sent = p.got + h.count + 1
  PROVE  Place(b, r, q, 0)
<1> DEFINE n == h.capacity
           v == [place |-> b, gen |-> p.gen, n |-> p.got + h.count + 1]
           D == Seq(Value \cup {Null})
<1>1. /\ h.head \in Nat /\ h.tail \in Nat /\ h.count \in Nat /\ n \in Nat
      /\ h.data \in Seq(Value \cup {Null}) /\ p.got \in Nat
  BY DEF Header, Stream
<1>2. /\ Flow(h, p, w) /\ PipeRing(b, h, p)
      /\ n <= MaxCapacity /\ Len(h.data) = Physical(n)
  BY DEF Place
<1>3. n <= Len(h.data)
  BY <1>1, <1>2, ClassValue
<1>4. /\ h.tail + 1 = SlotAt(h.head, h.count + 1, n) /\ h.head < n
      /\ h.count + 1 \in 1..n /\ n \in Nat \ {0} /\ h.tail + 1 \in 1..n
  <2>1. h.tail + 1 = SlotAt(h.head, h.count + 1, n) /\ h.head < n
    BY <1>2 DEF PipeRing
  <2>2. h.count + 1 \in 1..n /\ n \in Nat \ {0}
    BY <1>1
  <2> QED
    BY ONLY <1>1, <2>1, <2>2, SlotRange
<1>5. r.tail + 1 = SlotAt(h.head, h.count + 2, n)
  <2>1. h.count + 2 \in Nat /\ h.count + 2 = (h.count + 1) + 1
    BY ONLY <1>1
  <2>2. ((h.tail + 1) % n) + 1 = SlotAt(h.head, h.count + 2, n)
    <3>1. h.tail \in Nat /\ h.head \in Nat
      BY <1>1
    <3> QED
      BY ONLY <1>4, <2>1, <3>1, SlotAfter
  <2> QED
    BY <2>2 DEF StoredIn
<1>6. /\ r.data[h.tail + 1] = v /\ Len(r.data) = Len(h.data)
      /\ \A i \in 1..Len(h.data) : i # h.tail + 1 => r.data[i] = h.data[i]
  <2>1. h.tail + 1 \in 1..Len(h.data)
    BY <1>1, <1>2, <1>3, <1>4
  <2>2. v \in Value \cup {Null}
    OBVIOUS
  <2>3. r.data = [h.data EXCEPT ![h.tail + 1] = v]
    BY DEF StoredIn
  <2> HIDE DEF v
  <2> QED
    BY <1>1, <2>1, <2>2, <2>3, StoreData
<1>7. ASSUME NEW i \in 1..r.count
      PROVE  r.data[SlotAt(r.head, i, r.capacity)]
               = [place |-> b, gen |-> q.gen, n |-> q.got + i]
  <2>0. r.head = h.head /\ r.capacity = n /\ r.count = h.count + 1
    BY DEF StoredIn
  <2>1. CASE i = h.count + 1
    <3>1. SlotAt(r.head, i, r.capacity) = h.tail + 1
      BY <1>4, <2>0, <2>1
    <3>2. q.got + i = p.got + h.count + 1
      <4>1. p.got \in Nat /\ h.count \in Nat
        BY <1>1
      <4> QED
        BY ONLY <2>1, <4>1, q.got = p.got
    <3> QED
      BY <1>6, <3>1, <3>2
  <2>2. CASE i # h.count + 1
    <3> DEFINE k == SlotAt(h.head, i, n)
    <3>1. i \in 1..h.count
      BY <1>1, <2>0, <2>2
    <3>2. k \in 1..Len(h.data) /\ k # h.tail + 1
      <4>1. i \in 1..n /\ i # h.count + 1
        BY <1>1, <1>4, <3>1
      <4>2. k \in 1..n
        BY ONLY <1>1, <1>4, <4>1, SlotRange
      <4>3. k # h.tail + 1
        BY ONLY <1>1, <1>4, <4>1, SlotsApart
      <4>4. Len(h.data) \in Nat
        BY <1>1
      <4> HIDE DEF k
      <4> QED
        BY <1>1, <1>3, <4>2, <4>3, <4>4
    <3>3. h.data[k] = [place |-> b, gen |-> p.gen, n |-> p.got + i]
      BY <1>2, <3>1 DEF PipeRing
    <3>4. r.data[k] = h.data[k]
      BY <1>6, <3>2
    <3> QED
      BY <2>0, <3>3, <3>4
  <2> QED
    BY <2>1, <2>2
<1>8. PipeRing(b, r, q)
  <2>1. r.head = h.head /\ r.capacity = n /\ r.count = h.count + 1
    BY DEF StoredIn
  <2>2. r.head < r.capacity /\ r.count <= r.capacity
    BY <1>1, <1>4, <2>1
  <2>3. r.tail + 1 = SlotAt(r.head, r.count + 1, r.capacity)
    <3>1. r.count + 1 = h.count + 2
      BY <1>1, <2>1
    <3> QED
      BY <1>5, <2>1, <3>1
  <2> QED
    BY ONLY <1>7, <2>2, <2>3, r.blocked_writer \in CoOrNull DEF PipeRing
<1>9. Flow(r, q, 0)
  BY <1>1, <1>2 DEF Flow, StoredIn
<1> QED
  BY <1>2, <1>6, <1>8, <1>9 DEF Place, StoredIn

\* The header r after a value was taken from the ring of h.
TakenFrom(h, r) ==
  /\ r.tail = h.tail /\ r.capacity = h.capacity
  /\ r.closed = h.closed /\ r.consumer_dead = h.consumer_dead /\ r.error = h.error
  /\ r.producer = h.producer /\ r.blocked_writer = Null
  /\ r.head = (h.head + 1) % h.capacity /\ r.count = h.count - 1
  /\ r.data = [h.data EXCEPT ![h.head + 1] = Null]

\* Taking the oldest value keeps the ring in order.
LEMMA TakePlace ==
  ASSUME NEW b \in Buf, NEW h \in Header, NEW r \in Header,
         NEW p \in Stream, NEW q \in Stream, NEW w \in {0, 1},
         Place(b, h, p, w), h.capacity # 0, h.head # Sentinel, h.count > 0,
         TakenFrom(h, r),
         q.gen = p.gen, q.got = p.got + 1, q.sent = p.sent
  PROVE  Place(b, r, q, w)
<1> DEFINE n == h.capacity
<1>1. /\ h.head \in Nat /\ h.tail \in Nat /\ h.count \in Nat /\ n \in Nat \ {0}
      /\ h.data \in Seq(Value \cup {Null}) /\ p.got \in Nat /\ p.sent \in Nat
  BY DEF Header, Stream
<1>2. /\ Flow(h, p, w) /\ PipeRing(b, h, p)
      /\ n <= MaxCapacity /\ Len(h.data) = Physical(n)
  BY DEF Place
<1>3. n <= Len(h.data)
  BY <1>1, <1>2, ClassValue
<1>4. /\ h.tail + 1 = SlotAt(h.head, h.count + 1, n) /\ h.head < n
      /\ h.count \in 1..n
  <2>1. /\ h.tail + 1 = SlotAt(h.head, h.count + 1, n) /\ h.head < n
        /\ h.count <= n
    BY <1>2 DEF PipeRing
  <2> QED
    BY <1>1, <2>1
<1>5. /\ r.capacity = n /\ r.head \in 0..(n - 1) /\ r.count = h.count - 1
      /\ \A i \in 1..n : SlotAt(r.head, i, n) = SlotAt(h.head, i + 1, n)
  <2>1. r.head = (h.head + 1) % n /\ r.capacity = n /\ r.count = h.count - 1
    BY DEF TakenFrom
  <2>2. /\ (h.head + 1) % n \in 0..(n - 1)
        /\ \A i \in 1..n : SlotAt((h.head + 1) % n, i, n) = SlotAt(h.head, i + 1, n)
    BY ONLY <1>1, <1>4, SlotBehind
  <2> QED
    BY <2>1, <2>2
<1>6. r.tail + 1 = SlotAt(r.head, r.count + 1, n)
  <2>1. r.tail = h.tail /\ r.count + 1 = h.count
    BY <1>1, <1>5 DEF TakenFrom
  <2> QED
    BY <1>4, <1>5, <2>1
<1>7. /\ Len(r.data) = Len(h.data)
      /\ \A i \in 1..Len(h.data) : i # h.head + 1 => r.data[i] = h.data[i]
  <2>1. h.head + 1 \in 1..Len(h.data)
    BY <1>1, <1>2, <1>3, <1>4
  <2>2. r.data = [h.data EXCEPT ![h.head + 1] = Null]
    BY DEF TakenFrom
  <2> QED
    BY <1>1, <2>1, <2>2, StoreData
<1>8. ASSUME NEW i \in 1..r.count
      PROVE  r.data[SlotAt(r.head, i, r.capacity)]
               = [place |-> b, gen |-> q.gen, n |-> q.got + i]
  <2> DEFINE k == SlotAt(h.head, i + 1, n)
  <2>1. i \in 1..n /\ i + 1 \in 1..h.count /\ i + 1 \in 1..n /\ i + 1 # 1 /\ 1 \in 1..n
    <3>1. i \in 1..(h.count - 1)
      BY <1>5
    <3>2. n \in Nat \ {0} /\ h.count \in 1..n
      BY <1>1, <1>4
    <3> QED
      BY ONLY <3>1, <3>2
  <2>2. SlotAt(r.head, i, r.capacity) = k
    BY <1>5, <2>1
  <2>3. k \in 1..n
    BY ONLY <1>1, <1>4, <2>1, SlotRange
  <2>4. k # h.head + 1
    <3>1. SlotAt(h.head, 1, n) = h.head + 1
      BY <1>1, <1>4 DEF SlotAt, Fold
    <3> QED
      BY ONLY <1>1, <1>4, <2>1, <3>1, SlotsApart
  <2>5. h.data[k] = [place |-> b, gen |-> p.gen, n |-> p.got + (i + 1)]
    BY <1>2, <2>1 DEF PipeRing
  <2>6. q.got + i = p.got + (i + 1)
    <3>1. p.got \in Nat /\ i \in Nat
      BY <1>1, <2>1
    <3> QED
      BY ONLY <3>1, q.got = p.got + 1
  <2> HIDE DEF k
  <2>7. k \in 1..Len(h.data)
    <3>1. Len(h.data) \in Nat
      BY <1>1
    <3> QED
      BY <1>1, <1>3, <2>3, <3>1
  <2> QED
    BY <1>7, <2>2, <2>4, <2>5, <2>6, <2>7
<1>9. PipeRing(b, r, q)
  <2>1. r.head < r.capacity /\ r.count <= r.capacity
    <3>1. n \in Nat \ {0} /\ h.count \in 1..n
      BY <1>1, <1>4
    <3>2. r.capacity = n /\ r.head \in 0..(n - 1) /\ r.count = h.count - 1
      BY <1>5
    <3> QED
      BY ONLY <3>1, <3>2
  <2>2. r.tail + 1 = SlotAt(r.head, r.count + 1, r.capacity)
    BY <1>5, <1>6
  <2>3. r.blocked_writer \in CoOrNull
    BY DEF TakenFrom, CoOrNull
  <2> QED
    BY ONLY <1>8, <2>1, <2>2, <2>3 DEF PipeRing
<1>10. Flow(r, q, w)
  <2>1. /\ r.closed = h.closed /\ r.consumer_dead = h.consumer_dead /\ r.error = h.error
        /\ r.count = h.count - 1
    BY DEF TakenFrom
  <2>2. /\ p.got + h.count + w = p.sent /\ (h.closed => w = 0) /\ (h.error => h.closed)
        /\ ~h.consumer_dead
    BY <1>1, <1>2 DEF Flow
  <2>3. q.got + r.count + w = q.sent
    <3>1. p.got \in Nat /\ h.count \in Nat /\ w \in Nat
      BY <1>1
    <3>2. r.count = h.count - 1 /\ p.got + h.count + w = p.sent
      BY <2>1, <2>2
    <3> QED
      BY ONLY <3>1, <3>2, q.got = p.got + 1, q.sent = p.sent
  <2>4. r.consumer_dead => r.closed /\ r.count = 0
    BY <2>1, <2>2
  <2>5. (r.closed => w = 0) /\ (r.error => r.closed)
    BY <2>1, <2>2
  <2> QED
    BY ONLY <2>3, <2>4, <2>5 DEF Flow
<1>11. r.head # Sentinel
  <2>1. MaxCapacity \in 1..Sentinel /\ Sentinel \in Nat
    <3>1. MaxCapacity \in 1..Sentinel
      BY PipeAssumption
    <3>2. Sentinel \in Nat
      BY DEF Sentinel
    <3> QED
      BY ONLY <3>1, <3>2
  <2> QED
    BY <1>1, <1>2, <1>5, <2>1
<1> QED
  BY <1>1, <1>2, <1>5, <1>7, <1>9, <1>10, <1>11 DEF Place

\* A step that leaves the ring and the values of b alone.
LEMMA KeepPlace ==
  ASSUME NEW b \in Buf, NEW h, NEW r, NEW p, NEW q, NEW w, NEW u,
         Place(b, h, p, w), h.capacity # 0, h.head # Sentinel,
         r.head = h.head, r.tail = h.tail, r.count = h.count, r.capacity = h.capacity,
         r.data = h.data, r.blocked_writer \in CoOrNull,
         q.gen = p.gen, q.got = p.got, Flow(r, q, u)
  PROVE  Place(b, r, q, u)
  BY DEF Place, PipeRing

\* A step at a place in use leaves the free lists alone.
LEMMA ListsKeep ==
  ASSUME PipeInv, NEW b \in Buf, ~InPool(b), hdr'[b].head # Sentinel, pipePool' = pipePool,
         \A x \in Buf \ {b} : hdr'[x] = hdr[x]
  PROVE  FreeLists'
<1>1. ASSUME NEW x \in Buf PROVE SameParked(x)
  BY DEF SameParked, InPool, Link, Size
<1> QED
  BY <1>1, ListsSame DEF PipeInv, PipeTypes

\* A place in use has the value of its header, and its ring is sound.
LEMMA UsedPlace ==
  ASSUME PipeInv, NEW b \in Buf, InUse(b)
  PROVE  /\ Place(b, hdr[b], pipe[b], Writers(b)) /\ Writers(b) \in {0, 1}
         /\ Flow(hdr[b], pipe[b], Writers(b)) /\ PipeRing(b, hdr[b], pipe[b])
         /\ hdr[b] \in Header /\ pipe[b] \in Stream
         /\ hdr[b].capacity # 0 /\ hdr[b].head # Sentinel /\ ~InPool(b)
<1>1. Writers(b) \in {0, 1} /\ hdr[b].capacity # 0 /\ hdr[b].head # Sentinel
  BY DEF Writers, InUse, InPool, PipeInv, PipeTypes, Header
<1> QED
  BY <1>1 DEF PipeInv, PipeTypes, InUse, Place

\* pipe-put into a closed pipe only binds the producer.
LEMMA PutRefused ==
  ASSUME PipeInv, NEW c \in Co, CoRuns(c), NEW b \in Buf, InUse(b), MayProduce(c, b),
         hdr[b].closed \/ hdr[b].error,
         hdr' = [hdr EXCEPT ![b].producer = c], UNCHANGED <<co, pipe, pipePool>>
  PROVE  PipeInv'
<1> DEFINE h == hdr[b]
           r == [hdr[b] EXCEPT !.producer = c]
<1>1. /\ Place(b, h, pipe[b], Writers(b)) /\ Writers(b) \in {0, 1}
      /\ Flow(h, pipe[b], Writers(b)) /\ PipeRing(b, h, pipe[b])
      /\ h \in Header /\ pipe[b] \in Stream
      /\ h.capacity # 0 /\ h.head # Sentinel /\ ~InPool(b)
  BY UsedPlace
<1>2. hdr \in [Buf -> Header] /\ PipeTypes
  BY DEF PipeInv, PipeTypes
<1>3. /\ r \in Header /\ hdr' = [hdr EXCEPT ![b] = r]
      /\ r.head = h.head /\ r.tail = h.tail /\ r.count = h.count /\ r.capacity = h.capacity
      /\ r.data = h.data /\ r.closed = h.closed /\ r.consumer_dead = h.consumer_dead
      /\ r.error = h.error /\ r.blocked_writer = h.blocked_writer
      /\ r.blocked_reader = h.blocked_reader /\ r.consumer = h.consumer
  BY <1>1, <1>2 DEF Header, CoOrNull
<1> HIDE DEF r, h
<1>4. /\ hdr'[b] = r /\ \A x \in Buf \ {b} : hdr'[x] = hdr[x]
      /\ PipeTypes'
  BY <1>2, <1>3 DEF PipeTypes
<1>5. Writers(b)' = Writers(b)
  BY DEF Writers, Writes
<1>6. Place(b, hdr'[b], pipe'[b], Writers(b)')
  BY <1>1, <1>3, <1>4, <1>5, KeepPlace DEF Flow, PipeRing
<1>7. OnlyAt(c, b)
  BY <1>4 DEF OnlyAt, Writes
<1>8. OthersAt(c, b)
  <2> SUFFICES ASSUME NEW d \in Co \ {c}, co[d].on = b
               PROVE  /\ co[d].at = "put" => Putting(co'[d], d, b, hdr'[b], pipe'[b])
                      /\ co[d].at = "get" => Getting(co'[d], d, hdr'[b])
    BY DEF OthersAt
  <2>1. Stands(d)
    BY DEF PipeInv
  <2>2. h.closed
    BY <1>1 DEF Flow, h
  <2> QED
    BY <1>3, <1>4, <2>1, <2>2 DEF Stands, Putting, Getting, h
<1>9. Stands(c)'
  BY DEF Stands, CoRuns
<1>10. FreeLists'
  BY <1>1, <1>3, <1>4, ListsKeep
<1> QED
  BY <1>4, <1>6, <1>7, <1>8, <1>9, <1>10, StepSound

\* The state of the coroutines after c went on and woke who.
WentOn(c, who) ==
  \E s \in [Co -> Standing] :
    /\ co' = Woken(who, s)
    /\ \A d \in Co \ {c} : s[d] = co[d]
    /\ s[c].at = "proc" /\ ~s[c].asleep

\* c goes on with its procedure; the others keep their places.
LEMMA WentOnValue ==
  ASSUME NEW c \in Co, NEW who, WentOn(c, who)
  PROVE  /\ co' \in [Co -> Standing]
         /\ co'[c].at = "proc" /\ ~co'[c].asleep
         /\ \A d \in Co \ {c} :
              /\ co'[d].at = co[d].at /\ co'[d].on = co[d].on /\ co'[d].val = co[d].val
              /\ co'[d].asleep => co[d].asleep /\ d # who
<1>1. PICK s \in [Co -> Standing] :
        /\ co' = Woken(who, s)
        /\ \A d \in Co \ {c} : s[d] = co[d]
        /\ s[c].at = "proc" /\ ~s[c].asleep
  BY DEF WentOn
<1> QED
  BY <1>1, WokenValue

\* A value stored by a put or by its retry.
LEMMA PutStored ==
  ASSUME PipeInv, NEW c \in Co, NEW b \in Buf, InUse(b),
         ~hdr[b].closed, hdr[b].count < hdr[b].capacity,
         [place |-> b, gen |-> pipe[b].gen, n |-> pipe[b].got + hdr[b].count + 1] \in Value,
         hdr'[b] \in Header, StoredIn(b, hdr[b], pipe[b], hdr'[b]),
         hdr'[b].blocked_writer \in CoOrNull,
         pipe'[b].gen = pipe[b].gen, pipe'[b].got = pipe[b].got,
         pipe'[b].sent = pipe[b].got + hdr[b].count + 1,
         \A x \in Buf \ {b} : hdr'[x] = hdr[x] /\ pipe'[x] = pipe[x],
         PipeTypes', pipePool' = pipePool, WentOn(c, hdr[b].blocked_reader),
         \A d \in Co \ {c} : ~Writes(d, b),
         \A x \in Buf \ {b} : ~Writes(c, x)
  PROVE  PipeInv'
<1>1. /\ Place(b, hdr[b], pipe[b], Writers(b)) /\ Writers(b) \in {0, 1}
      /\ PipeRing(b, hdr[b], pipe[b])
      /\ hdr[b] \in Header /\ pipe[b] \in Stream
      /\ hdr[b].capacity # 0 /\ hdr[b].head # Sentinel /\ ~InPool(b)
  BY UsedPlace
<1>2. /\ co' \in [Co -> Standing] /\ co'[c].at = "proc" /\ ~co'[c].asleep
      /\ \A d \in Co \ {c} :
           /\ co'[d].at = co[d].at /\ co'[d].on = co[d].on /\ co'[d].val = co[d].val
           /\ co'[d].asleep => co[d].asleep /\ d # hdr[b].blocked_reader
  BY WentOnValue
<1>3. pipe'[b] \in Stream
  BY DEF PipeTypes
<1>4. Writers(b)' = 0
  <2>1. \A d \in Co : ~Writes(d, b)'
    BY <1>2 DEF Writes
  <2> QED
    BY <2>1 DEF Writers
<1>5. Place(b, hdr'[b], pipe'[b], 0)
  BY <1>1, <1>3, StorePlace
<1>6. OnlyAt(c, b)
  BY <1>2 DEF OnlyAt, Writes
<1>7. OthersAt(c, b)
  <2> SUFFICES ASSUME NEW d \in Co \ {c}, co[d].on = b
               PROVE  /\ co[d].at = "put" => Putting(co'[d], d, b, hdr'[b], pipe'[b])
                      /\ co[d].at = "get" => Getting(co'[d], d, hdr'[b])
    BY DEF OthersAt
  <2>1. Stands(d) /\ co[d].at # "put"
    BY DEF PipeInv, Writes
  <2> QED
    BY <1>1, <1>2, <2>1 DEF Stands, Getting, StoredIn
<1>8. Stands(c)'
  BY <1>2 DEF Stands
<1>9. FreeLists'
  BY <1>1, ListsKeep DEF StoredIn
<1> QED
  BY <1>4, <1>5, <1>6, <1>7, <1>8, <1>9, StepSound

\* A full pipe: the producer registers and sleeps.
LEMMA PutBlocks ==
  ASSUME PipeInv, NEW c \in Co, NEW b \in Buf, InUse(b),
         ~hdr[b].closed, hdr[b].count = hdr[b].capacity,
         hdr' = [hdr EXCEPT ![b].producer = c, ![b].blocked_writer = c],
         NEW v \in Value, v = [place |-> b, gen |-> pipe[b].gen, n |-> pipe'[b].sent],
         co' = Blocked(c, co, "put", b, v),
         pipe' \in [Buf -> Stream],
         pipe'[b].gen = pipe[b].gen, pipe'[b].got = pipe[b].got,
         pipe'[b].sent = pipe[b].got + hdr[b].count + 1,
         \A x \in Buf \ {b} : pipe'[x] = pipe[x],
         pipePool' = pipePool,
         \A d \in Co \ {c} : ~Writes(d, b),
         \A x \in Buf \ {b} : ~Writes(c, x)
  PROVE  PipeInv'
<1> DEFINE h == hdr[b]
           r == [hdr[b] EXCEPT !.producer = c, !.blocked_writer = c]
<1>1. /\ Place(b, h, pipe[b], Writers(b)) /\ Writers(b) \in {0, 1}
      /\ Flow(h, pipe[b], Writers(b)) /\ PipeRing(b, h, pipe[b])
      /\ h \in Header /\ pipe[b] \in Stream
      /\ h.capacity # 0 /\ h.head # Sentinel /\ ~InPool(b)
  BY UsedPlace
<1>2. hdr \in [Buf -> Header] /\ PipeTypes /\ co \in [Co -> Standing]
  BY DEF PipeInv, PipeTypes
<1>3. /\ r \in Header /\ hdr' = [hdr EXCEPT ![b] = r]
      /\ r.head = h.head /\ r.tail = h.tail /\ r.count = h.count /\ r.capacity = h.capacity
      /\ r.data = h.data /\ r.closed = h.closed /\ r.consumer_dead = h.consumer_dead
      /\ r.error = h.error /\ r.blocked_writer = c /\ r.producer = c
      /\ r.blocked_reader = h.blocked_reader /\ r.consumer = h.consumer
  BY <1>1, <1>2 DEF Header, CoOrNull
<1> HIDE DEF r, h
<1>4. /\ co' \in [Co -> Standing] /\ co'[c].at = "put" /\ co'[c].on = b /\ co'[c].val = v
      /\ \A d \in Co \ {c} : co'[d] = co[d]
  BY <1>2 DEF Blocked, Standing
<1>5. /\ hdr'[b] = r /\ \A x \in Buf \ {b} : hdr'[x] = hdr[x]
      /\ PipeTypes'
  BY <1>2, <1>3, <1>4 DEF PipeTypes
<1>6. Writers(b)' = 1
  <2>1. Writes(c, b)'
    BY <1>4 DEF Writes
  <2> QED
    BY <2>1 DEF Writers
<1>7. Flow(r, pipe'[b], 1)
  <2>1. r.count \in Nat /\ pipe[b].got \in Nat /\ r.capacity \in Nat
    BY <1>1, <1>3 DEF Header, Stream
  <2>2. pipe'[b].got + r.count + 1 = pipe'[b].sent
    BY <1>3 DEF h
  <2>3. ~r.closed /\ (r.error => r.closed) /\ ~r.consumer_dead
    BY <1>1, <1>3 DEF Flow, h
  <2> QED
    BY <2>2, <2>3 DEF Flow
<1>8. Place(b, hdr'[b], pipe'[b], Writers(b)')
  <2>1. r.blocked_writer \in CoOrNull
    BY <1>3 DEF CoOrNull
  <2> QED
    BY <1>1, <1>3, <1>5, <1>6, <1>7, <2>1, KeepPlace
<1>9. OnlyAt(c, b)
  BY <1>4, <1>5 DEF OnlyAt, Writes
<1>10. OthersAt(c, b)
  <2> SUFFICES ASSUME NEW d \in Co \ {c}, co[d].on = b
               PROVE  /\ co[d].at = "put" => Putting(co'[d], d, b, hdr'[b], pipe'[b])
                      /\ co[d].at = "get" => Getting(co'[d], d, hdr'[b])
    BY DEF OthersAt
  <2>1. Stands(d) /\ co[d].at # "put"
    BY DEF PipeInv, Writes
  <2> QED
    BY <1>3, <1>4, <1>5, <2>1 DEF Stands, Getting, h
<1>11. Stands(c)'
  <2>1. Putting(co'[c], c, b, hdr'[b], pipe'[b])
    BY <1>1, <1>3, <1>4, <1>5 DEF Putting, h
  <2> QED
    BY <1>4, <2>1 DEF Stands
<1>12. FreeLists'
  BY <1>1, <1>3, <1>5, ListsKeep
<1> QED
  BY <1>5, <1>8, <1>9, <1>10, <1>11, <1>12, StepSound

\* The value that is put next, as it is counted by the pipe.
LEMMA NextValueCount ==
  ASSUME PipeInv, NEW c \in Co, CoRuns(c), NEW b \in Buf, InUse(b), MayProduce(c, b),
         pipe[b].sent < MaxSent
  PROVE  /\ NextValue(b) \in Value
         /\ NextValue(b).n = pipe[b].sent + 1
         /\ pipe[b].sent = pipe[b].got + hdr[b].count
         /\ \A d \in Co : ~Writes(d, b)
         /\ \A x \in Buf : ~Writes(c, x)
<1>1. /\ Flow(hdr[b], pipe[b], Writers(b)) /\ hdr[b] \in Header /\ pipe[b] \in Stream
      /\ Place(b, hdr[b], pipe[b], Writers(b)) /\ hdr[b].capacity # 0
  BY UsedPlace
<1>2. \A x \in Buf : ~Writes(c, x)
  BY DEF Writes, CoRuns
<1>3. ASSUME NEW d \in Co, Writes(d, b) PROVE FALSE
  <2>1. hdr[b].producer = d
    BY <1>3, WriterFacts DEF Putting
  <2> QED
    BY <1>2, <1>3, <2>1, PipeAssumption DEF MayProduce
<1>4. Writers(b) = 0
  BY <1>3 DEF Writers
<1>5. pipe[b].sent = pipe[b].got + hdr[b].count
  BY <1>1, <1>4 DEF Flow, Header, Stream
<1>6. pipe[b].gen \in 1..MaxGen /\ pipe[b].sent + 1 \in 1..MaxSent
  BY <1>1, PipeAssumption DEF Stream, Place
<1> QED
  BY <1>2, <1>3, <1>5, <1>6 DEF NextValue, Value

\* The pipes after one more value was handed to pipe-put for b.
LEMMA SentOne ==
  ASSUME pipe \in [Buf -> Stream], NEW b \in Buf, pipe[b].sent < MaxSent,
         pipe' = [pipe EXCEPT ![b].sent = @ + 1]
  PROVE  /\ pipe' \in [Buf -> Stream]
         /\ pipe'[b].gen = pipe[b].gen /\ pipe'[b].got = pipe[b].got
         /\ pipe'[b].sent = pipe[b].sent + 1
         /\ \A x \in Buf \ {b} : pipe'[x] = pipe[x]
<1>1. pipe[b] \in Stream /\ pipe[b].sent + 1 \in 0..MaxSent
  BY PipeAssumption DEF Stream
<1>2. [pipe[b] EXCEPT !.sent = @ + 1] \in Stream
  BY <1>1 DEF Stream
<1> QED
  BY <1>1, <1>2 DEF Stream

\* What pipe_put_complete does to a header, whatever becomes of its producer x
\* and of its blocked writer y.
Completed(h, v, x, y) ==
  [[h EXCEPT !.data = [h.data EXCEPT ![h.tail + 1] = v],
             !.tail = (h.tail + 1) % h.capacity,
             !.count = h.count + 1,
             !.blocked_reader = Null]
     EXCEPT !.producer = x, !.blocked_writer = y]

\* Those headers are the ones StorePlace is about.
LEMMA CompleteHeader ==
  ASSUME PipeInv, NEW b \in Buf, InUse(b), hdr[b].count < hdr[b].capacity,
         NEW x \in CoOrNull, NEW y \in CoOrNull, NEW v \in Value,
         v = [place |-> b, gen |-> pipe[b].gen, n |-> pipe[b].got + hdr[b].count + 1]
  PROVE  /\ Completed(hdr[b], v, x, y) \in Header
         /\ StoredIn(b, hdr[b], pipe[b], Completed(hdr[b], v, x, y))
         /\ Completed(hdr[b], v, x, y).blocked_writer = y
<1> DEFINE h == hdr[b]
           D == [h.data EXCEPT ![h.tail + 1] = v]
           t == (h.tail + 1) % h.capacity
           r == [[h EXCEPT !.data = D, !.tail = t, !.count = h.count + 1,
                           !.blocked_reader = Null]
                   EXCEPT !.producer = x, !.blocked_writer = y]
<1>1. r = Completed(hdr[b], v, x, y)
  BY DEF Completed
<1>2. /\ Place(b, h, pipe[b], Writers(b)) /\ h \in Header /\ h.capacity # 0
      /\ PipeRing(b, h, pipe[b])
  BY UsedPlace
<1>3. /\ h.head \in Nat /\ h.tail \in Nat /\ h.count \in Nat /\ h.capacity \in Nat
      /\ h.data \in Seq(Value \cup {Null})
  BY <1>2 DEF Header
<1>4. h.tail + 1 \in 1..Len(h.data)
  <2>1. /\ h.tail + 1 = SlotAt(h.head, h.count + 1, h.capacity) /\ h.head < h.capacity
        /\ Len(h.data) = Physical(h.capacity)
    BY <1>2 DEF PipeRing, Place
  <2>2. h.capacity \in Nat \ {0} /\ h.count + 1 \in 1..h.capacity
    BY <1>2, <1>3
  <2>3. h.tail + 1 \in 1..h.capacity
    BY <1>3, <2>1, <2>2, SlotRange
  <2>4. h.capacity <= Len(h.data)
    BY <1>3, <2>1, ClassValue
  <2>5. Len(h.data) \in Nat
    BY <1>3
  <2> QED
    BY ONLY <1>3, <2>3, <2>4, <2>5
<1>5. D \in Seq(Value \cup {Null})
  <2>1. v \in Value \cup {Null}
    OBVIOUS
  <2> QED
    BY <1>3, <1>4, <2>1, StoreData
<1>6. t \in Nat /\ h.count + 1 \in Nat
  BY <1>2, <1>3
<1> HIDE DEF D, t, h
<1>7. r \in Header
  BY <1>2, <1>5, <1>6 DEF Header, CoOrNull
<1>8. /\ r.head = h.head /\ r.capacity = h.capacity
      /\ r.closed = h.closed /\ r.consumer_dead = h.consumer_dead /\ r.error = h.error
      /\ r.consumer = h.consumer /\ r.blocked_reader = Null /\ r.blocked_writer = y
      /\ r.tail = t /\ r.count = h.count + 1 /\ r.data = D
  BY <1>2 DEF Header
<1> HIDE DEF r
<1>9. StoredIn(b, h, pipe[b], r)
  BY <1>8 DEF StoredIn, D, t, h
<1> QED
  BY <1>7, <1>8, <1>9, <1>1 DEF h

\* The headers after a value was stored in b.
LEMMA CompleteHeaders ==
  ASSUME PipeInv, NEW b \in Buf, InUse(b), hdr[b].count < hdr[b].capacity,
         NEW x \in CoOrNull, NEW y \in CoOrNull, NEW v \in Value,
         v = [place |-> b, gen |-> pipe[b].gen, n |-> pipe[b].got + hdr[b].count + 1],
         hdr' = [pipe_put_complete(b, v) EXCEPT ![b].producer = x, ![b].blocked_writer = y]
  PROVE  /\ hdr' \in [Buf -> Header]
         /\ StoredIn(b, hdr[b], pipe[b], hdr'[b])
         /\ hdr'[b].blocked_writer = y
         /\ \A z \in Buf \ {b} : hdr'[z] = hdr[z]
<1> DEFINE h == hdr[b]
           r == Completed(h, v, x, y)
<1>1. hdr \in [Buf -> Header]
  BY DEF PipeInv, PipeTypes
<1>2. r \in Header /\ StoredIn(b, h, pipe[b], r) /\ r.blocked_writer = y
  BY CompleteHeader
<1>3. h \in Header
  BY <1>1
<1> DEFINE m == [h EXCEPT !.data = [h.data EXCEPT ![h.tail + 1] = v],
                          !.tail = (h.tail + 1) % h.capacity,
                          !.count = h.count + 1,
                          !.blocked_reader = Null]
<1>4. pipe_put_complete(b, v) = [hdr EXCEPT ![b] = m]
  BY <1>1, <1>3 DEF pipe_put_complete, Header
<1>5. [m EXCEPT !.producer = x, !.blocked_writer = y] = r
  BY DEF Completed
<1> HIDE DEF m
<1>6. hdr' = [hdr EXCEPT ![b] = [m EXCEPT !.producer = x, !.blocked_writer = y]]
  BY <1>1, <1>4
<1>7. hdr' = [hdr EXCEPT ![b] = r]
  BY <1>5, <1>6
<1> HIDE DEF r
<1> QED
  BY ONLY b \in Buf, <1>1, <1>2, <1>7

\* pipe-put
LEMMA PutSound ==
  ASSUME PipeInv, NEW c \in Co, pipe_put(c)
  PROVE  PipeInv'
<1>1. PICK b \in Buf :
        /\ InUse(b) /\ MayProduce(c, b)
        /\ IF hdr[b].closed \/ hdr[b].error
             THEN hdr' = [hdr EXCEPT ![b].producer = c] /\ UNCHANGED <<co, pipe>>
             ELSE /\ pipe[b].sent < MaxSent
                  /\ pipe' = [pipe EXCEPT ![b].sent = @ + 1]
                  /\ IF hdr[b].count < hdr[b].capacity
                       THEN /\ hdr' = [pipe_put_complete(b, NextValue(b)) EXCEPT ![b].producer = c]
                            /\ co' = Woken(hdr[b].blocked_reader, co)
                       ELSE /\ hdr' = [hdr EXCEPT ![b].producer = c, ![b].blocked_writer = c]
                            /\ co' = Blocked(c, co, "put", b, NextValue(b))
        /\ UNCHANGED pipePool
  BY DEF pipe_put
<1>2. CoRuns(c)
  BY DEF pipe_put
<1>3. CASE hdr[b].closed \/ hdr[b].error
  BY <1>1, <1>2, <1>3, PutRefused
<1>4. CASE ~(hdr[b].closed \/ hdr[b].error)
  <2>1. /\ pipe[b].sent < MaxSent
        /\ pipe' = [pipe EXCEPT ![b].sent = @ + 1]
        /\ pipePool' = pipePool
    BY <1>1, <1>4
  <2>2. /\ PipeTypes /\ hdr \in [Buf -> Header] /\ pipe \in [Buf -> Stream]
        /\ co \in [Co -> Standing]
    BY DEF PipeInv, PipeTypes
  <2>3. /\ NextValue(b) \in Value
        /\ NextValue(b) = [place |-> b, gen |-> pipe[b].gen, n |-> pipe[b].sent + 1]
        /\ pipe[b].sent = pipe[b].got + hdr[b].count
        /\ \A d \in Co : ~Writes(d, b)
        /\ \A x \in Buf : ~Writes(c, x)
    BY <1>1, <1>2, <2>1, NextValueCount DEF NextValue
  <2>4. /\ pipe' \in [Buf -> Stream]
        /\ pipe'[b].gen = pipe[b].gen /\ pipe'[b].got = pipe[b].got
        /\ pipe'[b].sent = pipe[b].sent + 1
        /\ \A x \in Buf \ {b} : pipe'[x] = pipe[x]
    BY <2>1, <2>2, SentOne
  <2>5. hdr[b] \in Header /\ PipeRing(b, hdr[b], pipe[b])
    BY <1>1, UsedPlace
  <2>6. CASE hdr[b].count < hdr[b].capacity
    <3> DEFINE v == NextValue(b)
               y == hdr[b].blocked_writer
    <3>1. v = [place |-> b, gen |-> pipe[b].gen, n |-> pipe[b].got + hdr[b].count + 1]
      BY <2>3
    <3>2. c \in CoOrNull /\ y \in CoOrNull
      BY <2>5 DEF CoOrNull, PipeRing
    <3>3. hdr' = [pipe_put_complete(b, v) EXCEPT ![b].producer = c, ![b].blocked_writer = y]
      <4>1. hdr' = [pipe_put_complete(b, v) EXCEPT ![b].producer = c]
        BY <1>1, <1>4, <2>6
      <4> QED
        BY <2>2, <2>5, <4>1 DEF pipe_put_complete, Header
    <3> HIDE DEF v, y
    <3>4. v \in Value
      BY <2>3 DEF v
    <3>5. /\ hdr' \in [Buf -> Header]
          /\ StoredIn(b, hdr[b], pipe[b], hdr'[b])
          /\ hdr'[b].blocked_writer = y
          /\ \A z \in Buf \ {b} : hdr'[z] = hdr[z]
      BY <1>1, <2>6, <3>1, <3>2, <3>3, <3>4, CompleteHeaders
    <3>6. co' = Woken(hdr[b].blocked_reader, co)
      BY <1>1, <1>4, <2>6
    <3>7. WentOn(c, hdr[b].blocked_reader)
      BY <1>2, <2>2, <3>6 DEF WentOn, CoRuns
    <3>8. PipeTypes'
      <4>1. co' \in [Co -> Standing]
        BY <2>2, <3>6, WokenValue
      <4> QED
        BY <2>1, <2>2, <2>4, <3>5, <4>1 DEF PipeTypes
    <3>9. pipe'[b].sent = pipe[b].got + hdr[b].count + 1
      BY <2>3, <2>4
    <3>10. hdr'[b] \in Header
      BY <3>5
    <3> QED
      BY <1>1, <1>4, <2>1, <2>3, <2>4, <2>6, <3>1, <3>2, <3>4, <3>5, <3>7, <3>8, <3>9, <3>10,
         PutStored
  <2>7. CASE ~(hdr[b].count < hdr[b].capacity)
    <3>1. hdr[b].count = hdr[b].capacity
      BY <2>5, <2>7 DEF PipeRing, Header
    <3>2. /\ hdr' = [hdr EXCEPT ![b].producer = c, ![b].blocked_writer = c]
          /\ co' = Blocked(c, co, "put", b, NextValue(b))
      BY <1>1, <1>4, <2>7
    <3>3. pipe'[b].sent = pipe[b].got + hdr[b].count + 1
      BY <2>3, <2>4
    <3>4. NextValue(b) = [place |-> b, gen |-> pipe[b].gen, n |-> pipe'[b].sent]
      BY <2>3, <2>4
    <3> QED
      BY <1>1, <1>4, <2>1, <2>3, <2>4, <3>1, <3>2, <3>3, <3>4, PutBlocks
  <2> QED
    BY <2>6, <2>7
<1> QED
  BY <1>3, <1>4

\* @pipe-put-retry: the pipe it comes back to is still the one it was
\* blocked on, open and in use, so it need not look.
LEMMA PutRetrySound ==
  ASSUME PipeInv, NEW c \in Co, pipe_put_retry(c)
  PROVE  PipeInv'
<1> DEFINE b == co[c].on
           v == co[c].val
<1>1. co[c].at = "put" /\ ~co[c].asleep /\ pipePool' = pipePool /\ Stands(c)
  BY DEF pipe_put_retry, PipeInv
<1>2. /\ PipeTypes /\ hdr \in [Buf -> Header] /\ pipe \in [Buf -> Stream]
      /\ co \in [Co -> Standing]
  BY DEF PipeInv, PipeTypes
<1>3. b \in Buf /\ Writes(c, b) /\ Putting(co[c], c, b, hdr[b], pipe[b])
  BY <1>1 DEF Stands, Writes
<1>4. InUse(b)
  BY <1>2, <1>3 DEF Putting, InUse, InPool, Header
<1>5. /\ Flow(hdr[b], pipe[b], Writers(b)) /\ PipeRing(b, hdr[b], pipe[b])
      /\ hdr[b] \in Header /\ pipe[b] \in Stream
  BY <1>3, <1>4, UsedPlace
<1>6. ~hdr[b].closed /\ ~hdr[b].error /\ hdr[b].producer = c
  BY <1>3, <1>5 DEF Putting, Flow
<1>7. /\ pipe' = pipe
      /\ IF hdr[b].count < hdr[b].capacity
           THEN /\ hdr' = [pipe_put_complete(b, v) EXCEPT ![b].blocked_writer = Null]
                /\ co' = Woken(hdr[b].blocked_reader, [co EXCEPT ![c] = CoIdle])
           ELSE /\ hdr' = [hdr EXCEPT ![b].blocked_writer = c]
                /\ co' = Blocked(c, co, "put", b, v)
  BY <1>6 DEF pipe_put_retry
<1>8. /\ \A d \in Co \ {c} : ~Writes(d, b)
      /\ \A x \in Buf \ {b} : ~Writes(c, x)
  <2>1. \A d \in Co : Writes(d, b) => d = c
    BY <1>3, WriterFacts
  <2> QED
    BY <2>1 DEF Writes
<1>9. /\ v = [place |-> b, gen |-> pipe[b].gen, n |-> pipe[b].sent]
      /\ pipe[b].sent = pipe[b].got + hdr[b].count + 1
  <2>1. Writers(b) = 1
    BY <1>3, WriterFacts
  <2> QED
    BY <1>3, <1>5, <2>1 DEF Putting, Flow
<1>10. v \in Value
  <2>1. v \in Value \cup {Null}
    BY <1>2 DEF Standing
  <2>2. pipe[b].gen \in 1..MaxGen /\ pipe[b].sent \in 1..MaxSent
    <3>1. Place(b, hdr[b], pipe[b], Writers(b)) /\ hdr[b].capacity # 0
      BY <1>3, <1>4, UsedPlace
    <3>2. pipe[b].gen \in 0..MaxGen /\ pipe[b].gen # 0 /\ pipe[b].sent \in 0..MaxSent
      BY <1>5, <3>1 DEF Stream, Place
    <3>3. pipe[b].got \in Nat /\ hdr[b].count \in Nat
      BY <1>5 DEF Stream, Header
    <3>4. MaxGen \in Nat /\ MaxSent \in Nat
      BY PipeAssumption
    <3>5. pipe[b].sent = pipe[b].got + hdr[b].count + 1
      BY <1>9
    <3> QED
      BY ONLY <3>2, <3>3, <3>4, <3>5
  <2> QED
    BY <1>3, <1>9, <2>2 DEF Value
<1> HIDE DEF b, v
<1>11. CASE hdr[b].count < hdr[b].capacity
  <2>1. v = [place |-> b, gen |-> pipe[b].gen, n |-> pipe[b].got + hdr[b].count + 1]
    BY <1>9
  <2>2. c \in CoOrNull /\ Null \in CoOrNull
    BY DEF CoOrNull
  <2>3. hdr' = [pipe_put_complete(b, v) EXCEPT ![b].producer = c, ![b].blocked_writer = Null]
    <3>1. hdr' = [pipe_put_complete(b, v) EXCEPT ![b].blocked_writer = Null]
      BY <1>7, <1>11
    <3> DEFINE P == pipe_put_complete(b, v)
    <3>2. [P EXCEPT ![b].producer = c] = P
      <4> DEFINE m == [hdr[b] EXCEPT !.data = [hdr[b].data EXCEPT ![hdr[b].tail + 1] = v],
                                     !.tail = (hdr[b].tail + 1) % hdr[b].capacity,
                                     !.count = hdr[b].count + 1,
                                     !.blocked_reader = Null]
      <4>1. P = [hdr EXCEPT ![b] = m]
        BY <1>2, <1>5 DEF pipe_put_complete, Header
      <4>2. m.producer = c
        BY <1>5, <1>6 DEF Header
      <4>3. [m EXCEPT !.producer = c] = m
        BY <1>5, <4>2 DEF Header
      <4> HIDE DEF m, P
      <4>4. [P EXCEPT ![b].producer = c] = [hdr EXCEPT ![b] = [m EXCEPT !.producer = c]]
        BY <1>2, <1>3, <4>1
      <4> QED
        BY <4>1, <4>3, <4>4
    <3> HIDE DEF P
    <3> QED
      BY ONLY <3>1, <3>2 DEF P
  <2>4. /\ hdr' \in [Buf -> Header]
        /\ StoredIn(b, hdr[b], pipe[b], hdr'[b])
        /\ hdr'[b].blocked_writer = Null
        /\ \A z \in Buf \ {b} : hdr'[z] = hdr[z]
    BY <1>3, <1>4, <1>10, <1>11, <2>1, <2>2, <2>3, CompleteHeaders
  <2>5. co' = Woken(hdr[b].blocked_reader, [co EXCEPT ![c] = CoIdle])
    BY <1>7, <1>11
  <2>6. [co EXCEPT ![c] = CoIdle] \in [Co -> Standing]
    BY <1>2 DEF CoIdle, Standing
  <2>7. WentOn(c, hdr[b].blocked_reader)
    <3>1. [co EXCEPT ![c] = CoIdle][c].at = "proc" /\ ~[co EXCEPT ![c] = CoIdle][c].asleep
      BY <1>2 DEF CoIdle
    <3>2. \A d \in Co \ {c} : [co EXCEPT ![c] = CoIdle][d] = co[d]
      BY <1>2
    <3> QED
      BY <2>5, <2>6, <3>1, <3>2 DEF WentOn
  <2>8. PipeTypes'
    <3>1. co' \in [Co -> Standing]
      BY <2>5, <2>6, WokenValue
    <3> QED
      BY <1>1, <1>2, <1>7, <2>4, <3>1 DEF PipeTypes
  <2>9. /\ hdr'[b] \in Header /\ pipe'[b].gen = pipe[b].gen /\ pipe'[b].got = pipe[b].got
        /\ pipe'[b].sent = pipe[b].got + hdr[b].count + 1
        /\ \A x \in Buf \ {b} : hdr'[x] = hdr[x] /\ pipe'[x] = pipe[x]
    BY <1>3, <1>7, <1>9, <2>4
  <2> QED
    BY <1>1, <1>3, <1>4, <1>6, <1>8, <1>10, <1>11, <2>1, <2>2, <2>4, <2>7, <2>8, <2>9,
       PutStored
<1>12. CASE ~(hdr[b].count < hdr[b].capacity)
  <2>1. hdr[b].count = hdr[b].capacity
    BY <1>5, <1>12 DEF PipeRing, Header
  <2>2. co' = Blocked(c, co, "put", b, v)
    BY <1>7, <1>12
  <2>3. hdr' = [hdr EXCEPT ![b].producer = c, ![b].blocked_writer = c]
    <3>1. hdr' = [hdr EXCEPT ![b].blocked_writer = c]
      BY <1>7, <1>12
    <3> QED
      BY <1>2, <1>3, <1>5, <1>6, <3>1 DEF Header
  <2> QED
    BY <1>1, <1>2, <1>3, <1>4, <1>6, <1>7, <1>8, <1>9, <1>10, <2>1, <2>2, <2>3, PutBlocks
<1> QED
  BY <1>11, <1>12

\* pipe_maybe_free of a place in use, with the headers g just written.
LEMMA MaybeFreed ==
  ASSUME PipeInv, NEW b \in Buf, InUse(b), NEW g \in [Buf -> Header], NEW w,
         \A x \in Buf \ {b} : g[x] = hdr[x],
         g[b].head = hdr[b].head, g[b].tail = hdr[b].tail, g[b].count = hdr[b].count,
         g[b].capacity = hdr[b].capacity, g[b].data = hdr[b].data,
         g[b].blocked_writer \in CoOrNull, Flow(g[b], pipe[b], w),
         pipe_maybe_free(b, g)
  PROVE  /\ hdr' \in [Buf -> Header]
         /\ pipePool' \in [DOMAIN PipeClasses -> Buf \cup {Null}]
         /\ Place(b, hdr'[b], pipe[b], w)
         /\ \A x \in Buf \ {b} : hdr'[x] = hdr[x]
         /\ ~(g[b].closed /\ g[b].consumer_dead) => hdr' = g
         /\ FreeLists'
<1> DEFINE k == pipe_class_for_capacity(g[b].capacity)
           h == hdr[b]
<1>1. /\ Place(b, h, pipe[b], Writers(b)) /\ PipeRing(b, h, pipe[b])
      /\ h \in Header /\ h.capacity # 0 /\ h.head # Sentinel /\ ~InPool(b)
  BY UsedPlace
<1>2. /\ pipePool \in [DOMAIN PipeClasses -> Buf \cup {Null}] /\ FreeLists
      /\ hdr \in [Buf -> Header]
  BY DEF PipeInv, PipeTypes
<1>3. Place(b, g[b], pipe[b], w)
  BY <1>1, KeepPlace
<1>4. CASE g[b].closed /\ g[b].consumer_dead /\ k # 0
  <2>1. /\ hdr' = [g EXCEPT ![b].blocked_writer = pipePool[k], ![b].head = Sentinel]
        /\ pipePool' = [pipePool EXCEPT ![k] = b]
    BY <1>4 DEF pipe_maybe_free
  <2>2. k \in DOMAIN PipeClasses /\ Physical(h.capacity) = PipeClasses[k]
        /\ Len(h.data) = PipeClasses[k]
    <3>1. h.capacity \in Nat /\ Len(h.data) = Physical(h.capacity)
      BY <1>1 DEF Header, Place
    <3> QED
      BY <1>4, <3>1, ClassValue
  <2>3. pipePool[k] \in Buf \cup {Null} /\ Sentinel \in Nat
    BY <1>2, <2>2 DEF Sentinel
  <2> HIDE DEF k
  <2> DEFINE r == [g[b] EXCEPT !.blocked_writer = pipePool[k], !.head = Sentinel]
  <2>a. g[b] \in Header
    OBVIOUS
  <2>b. hdr' = [g EXCEPT ![b] = r]
    BY <2>1
  <2>c. r \in Header
    BY ONLY <2>3, <2>a DEF Header, CoOrNull
  <2>4. /\ r.head = Sentinel /\ r.blocked_writer = pipePool[k]
        /\ r.count = h.count /\ r.capacity = h.capacity /\ r.data = h.data
        /\ r.closed = g[b].closed /\ r.consumer_dead = g[b].consumer_dead
        /\ r.error = g[b].error
    BY <2>a DEF Header
  <2> HIDE DEF r, h
  <2>5. /\ hdr' \in [Buf -> Header] /\ hdr'[b] = r
        /\ \A x \in Buf \ {b} : hdr'[x] = hdr[x]
    BY <2>b, <2>c
  <2>6. pipePool' \in [DOMAIN PipeClasses -> Buf \cup {Null}]
    BY <1>2, <2>1, <2>2
  <2>7. Place(b, r, pipe[b], w)
    <3>1. Flow(r, pipe[b], w)
      BY <2>4 DEF Flow, h
    <3>2. pipe_class_for_capacity(r.capacity) # 0
      BY <1>4, <2>4 DEF k, h
    <3> QED
      BY ONLY <1>1, <1>4, <2>3, <2>4, <3>1, <3>2 DEF Place
  <2>8. FreeLists'
    <3>1. ~InPool(b) /\ InPool(b)' /\ Link(b)' = pipePool[k] /\ Size(b)' = PipeClasses[k]
      BY <1>1, <2>2, <2>4, <2>5 DEF InPool, Link, Size, h
    <3>2. \A x \in Buf \ {b} : SameParked(x)
      BY <2>5 DEF SameParked, InPool, Link, Size
    <3> QED
      BY <1>2, <2>1, <2>2, <3>1, <3>2, ListsPush
  <2> QED
    BY <1>4, <2>5, <2>6, <2>7, <2>8
<1>5. CASE ~(g[b].closed /\ g[b].consumer_dead /\ k # 0)
  <2>1. hdr' = g /\ pipePool' = pipePool
    BY <1>5 DEF pipe_maybe_free
  <2>2. FreeLists'
    BY <1>1, <2>1, ListsKeep
  <2> QED
    BY <1>2, <1>3, <2>1, <2>2
<1> QED
  BY <1>4, <1>5

\* c may take from b: it executes pipe-get, or comes back from waiting.
Takes(c, b) ==
  /\ ~co[c].asleep /\ co[c].at \in {"proc", "get"}
  /\ InUse(b) /\ MayConsume(c, b)
  /\ co[c].at = "get" => co[c].on = b

\* The consumer waits nowhere to put, and nobody else waits at b to get.
LEMMA TakerFacts ==
  ASSUME PipeInv, NEW c \in Co, NEW b \in Buf, Takes(c, b)
  PROVE  /\ \A x \in Buf : ~Writes(c, x)
         /\ \A d \in Co \ {c} : co[d].on = b => co[d].at # "get"
<1>1. ASSUME NEW d \in Co \ {c}, co[d].on = b, co[d].at = "get" PROVE FALSE
  <2>1. hdr[b].consumer = d
    BY <1>1 DEF PipeInv, Stands, Getting
  <2> QED
    BY <1>1, <2>1, PipeAssumption DEF Takes, MayConsume
<1> QED
  BY <1>1 DEF Writes, Takes

\* An index of the ring is not the mark of a parked place.
LEMMA IndexNotSentinel ==
  ASSUME NEW n \in Nat, n <= MaxCapacity, NEW x \in 0..(n - 1)
  PROVE  x # Sentinel
<1>1. Sentinel \in Nat
  BY DEF Sentinel
<1>2. MaxCapacity \in 1..Sentinel
  BY PipeAssumption
<1> QED
  BY ONLY <1>1, <1>2, n \in Nat, n <= MaxCapacity, x \in 0..(n - 1)

\* A value taken by a get or by its retry.
LEMMA GetComplete ==
  ASSUME PipeInv, NEW c \in Co, NEW b \in Buf, Takes(c, b), hdr[b].count > 0,
         pipe_get_complete(c, b)
  PROVE  PipeInv'
<1> DEFINE h == hdr[b]
           D == [h.data EXCEPT ![h.head + 1] = Null]
           z == IF h.blocked_reader = c THEN Null ELSE h.blocked_reader
           r == [h EXCEPT !.consumer = c, !.data = D, !.head = (h.head + 1) % h.capacity,
                          !.count = h.count - 1, !.blocked_reader = z,
                          !.blocked_writer = Null]
<1>1. /\ Place(b, h, pipe[b], Writers(b)) /\ Writers(b) \in {0, 1}
      /\ Flow(h, pipe[b], Writers(b)) /\ PipeRing(b, h, pipe[b])
      /\ h \in Header /\ pipe[b] \in Stream
      /\ h.capacity # 0 /\ h.head # Sentinel /\ ~InPool(b)
  BY UsedPlace DEF Takes
<1>2. /\ PipeTypes /\ hdr \in [Buf -> Header] /\ pipe \in [Buf -> Stream]
      /\ co \in [Co -> Standing]
  BY DEF PipeInv, PipeTypes
<1>3. h.head \in Nat /\ h.count \in Nat /\ h.capacity \in Nat \ {0} /\ h.head < h.capacity
      /\ h.data \in Seq(Value \cup {Null})
  BY <1>1 DEF Header, PipeRing
<1>4. /\ D \in Seq(Value \cup {Null}) /\ (h.head + 1) % h.capacity \in Nat
      /\ h.count - 1 \in Nat /\ z \in CoOrNull
  <2>1. h.head + 1 \in 1..Len(h.data)
    <3>1. Len(h.data) = Physical(h.capacity) /\ Len(h.data) \in Nat
      BY <1>1, <1>3 DEF Place
    <3>2. h.capacity <= Len(h.data)
      BY <1>3, <3>1, ClassValue
    <3> QED
      BY ONLY <1>3, <3>1, <3>2
  <2>2. D \in Seq(Value \cup {Null})
    BY <1>3, <2>1, StoreData
  <2>3. z \in CoOrNull
    BY <1>1 DEF Header, CoOrNull
  <2> QED
    BY <1>3, <2>2, <2>3
<1>5. hdr' = [hdr EXCEPT ![b] = r]
  BY <1>1, <1>2 DEF pipe_get_complete, Header
<1> HIDE DEF D, z
<1>6. r \in Header
  BY <1>1, <1>4 DEF Header, CoOrNull
<1>7. /\ r.consumer = c /\ r.data = D /\ r.head = (h.head + 1) % h.capacity
      /\ r.count = h.count - 1 /\ r.blocked_reader = z /\ r.blocked_writer = Null
      /\ r.tail = h.tail /\ r.capacity = h.capacity /\ r.closed = h.closed
      /\ r.consumer_dead = h.consumer_dead /\ r.error = h.error /\ r.producer = h.producer
  BY <1>1 DEF Header
<1> HIDE DEF r, h
<1>8. TakenFrom(h, r)
  BY <1>7 DEF TakenFrom, D
<1>9. /\ hdr' \in [Buf -> Header] /\ hdr'[b] = r
      /\ \A x \in Buf \ {b} : hdr'[x] = hdr[x]
  BY <1>2, <1>5, <1>6
<1>10. pipe' = [pipe EXCEPT ![b].got = @ + 1] /\ pipePool' = pipePool
       /\ co' = Woken(h.blocked_writer, [co EXCEPT ![c] = CoIdle])
  BY DEF pipe_get_complete, h
<1>11. /\ pipe' \in [Buf -> Stream]
       /\ pipe'[b].gen = pipe[b].gen /\ pipe'[b].got = pipe[b].got + 1
       /\ pipe'[b].sent = pipe[b].sent
       /\ \A x \in Buf \ {b} : pipe'[x] = pipe[x]
  <2>1. pipe[b].got + 1 \in Nat
    BY <1>1 DEF Stream
  <2>2. pipe' = [pipe EXCEPT ![b].got = pipe[b].got + 1]
    BY <1>10
  <2> QED
    BY <1>1, <1>2, <2>1, <2>2 DEF Stream
<1>12. WentOn(c, h.blocked_writer)
  <2>1. [co EXCEPT ![c] = CoIdle] \in [Co -> Standing]
    BY <1>2 DEF CoIdle, Standing
  <2>2. [co EXCEPT ![c] = CoIdle][c].at = "proc" /\ ~[co EXCEPT ![c] = CoIdle][c].asleep
    BY <1>2 DEF CoIdle
  <2>3. \A d \in Co \ {c} : [co EXCEPT ![c] = CoIdle][d] = co[d]
    BY <1>2
  <2> QED
    BY <1>10, <2>1, <2>2, <2>3 DEF WentOn
<1>13. /\ co' \in [Co -> Standing] /\ co'[c].at = "proc" /\ ~co'[c].asleep
       /\ \A d \in Co \ {c} :
            /\ co'[d].at = co[d].at /\ co'[d].on = co[d].on /\ co'[d].val = co[d].val
            /\ co'[d].asleep => co[d].asleep /\ d # h.blocked_writer
  BY <1>12, WentOnValue
<1>14. PipeTypes'
  BY <1>2, <1>9, <1>10, <1>11, <1>13 DEF PipeTypes
<1>15. Writers(b)' = Writers(b)
  <2>1. \A d \in Co : Writes(d, b)' <=> Writes(d, b)
    BY <1>13, TakerFacts DEF Writes
  <2> QED
    BY <2>1 DEF Writers
<1>16. Place(b, r, pipe'[b], Writers(b))
  <2>1. pipe'[b] \in Stream
    BY <1>11
  <2>2. h.count > 0
    BY DEF h
  <2> QED
    BY <1>1, <1>6, <1>8, <1>11, <2>1, <2>2, TakePlace
<1>17. r.head # Sentinel
  <2>1. r.head \in 0..(h.capacity - 1)
    BY <1>3, <1>7, SlotBehind
  <2> QED
    BY <1>1, <1>3, <2>1, IndexNotSentinel DEF Place
<1>18. OnlyAt(c, b)
  BY <1>9, <1>11, <1>13, TakerFacts DEF OnlyAt, Writes
<1>19. OthersAt(c, b)
  <2> SUFFICES ASSUME NEW d \in Co \ {c}, co[d].on = b
               PROVE  /\ co[d].at = "put" => Putting(co'[d], d, b, hdr'[b], pipe'[b])
                      /\ co[d].at = "get" => Getting(co'[d], d, hdr'[b])
    BY DEF OthersAt
  <2>1. Stands(d) /\ co[d].at # "get"
    BY TakerFacts DEF PipeInv
  <2>3. co[d].at = "put" => Putting(co[d], d, b, h, pipe[b])
    BY <2>1 DEF Stands, h
  <2> QED
    BY <1>7, <1>9, <1>11, <1>13, <1>17, <2>1, <2>3 DEF Putting
<1>20. Stands(c)'
  BY <1>13 DEF Stands
<1>21. FreeLists'
  BY <1>1, <1>9, <1>10, <1>17, ListsKeep
<1> QED
  BY <1>9, <1>14, <1>15, <1>16, <1>18, <1>19, <1>20, <1>21, StepSound

\* Whether the end comes from a get or from a retry, nobody else stands at b.
LEMMA GetEnd ==
  ASSUME PipeInv, NEW c \in Co, NEW b \in Buf, Takes(c, b),
         hdr[b].closed, hdr[b].count = 0, pipe_get_end(c, b)
  PROVE  PipeInv'
<1> DEFINE h == hdr[b]
           z == IF h.blocked_reader = c THEN Null ELSE h.blocked_reader
           r == [h EXCEPT !.consumer = c, !.consumer_dead = TRUE, !.blocked_reader = z]
           g == [hdr EXCEPT ![b] = r]
<1>1. /\ Place(b, h, pipe[b], Writers(b)) /\ Writers(b) \in {0, 1}
      /\ Flow(h, pipe[b], Writers(b)) /\ PipeRing(b, h, pipe[b])
      /\ h \in Header /\ pipe[b] \in Stream
      /\ h.capacity # 0 /\ h.head # Sentinel /\ ~InPool(b)
  BY UsedPlace DEF Takes
<1>2. /\ PipeTypes /\ hdr \in [Buf -> Header] /\ pipe \in [Buf -> Stream]
      /\ co \in [Co -> Standing]
  BY DEF PipeInv, PipeTypes
<1>3. /\ pipe_maybe_free(b, [hdr EXCEPT ![b].consumer = c, ![b].consumer_dead = TRUE,
                                        ![b].blocked_reader = IF @ = c THEN Null ELSE @])
      /\ co' = [co EXCEPT ![c] = CoIdle] /\ pipe' = pipe
  BY DEF pipe_get_end
<1>4. pipe_maybe_free(b, g)
  <2>1. g = [hdr EXCEPT ![b].consumer = c, ![b].consumer_dead = TRUE,
                        ![b].blocked_reader = IF @ = c THEN Null ELSE @]
    BY <1>1, <1>2 DEF Header
  <2> QED
    BY <1>3, <2>1
<1>5. z \in CoOrNull
  BY <1>1 DEF Header, CoOrNull
<1> HIDE DEF z
<1>6. /\ r \in Header
      /\ r.head = h.head /\ r.tail = h.tail /\ r.count = h.count /\ r.capacity = h.capacity
      /\ r.data = h.data /\ r.closed = h.closed /\ r.error = h.error /\ r.consumer_dead
      /\ r.blocked_writer = h.blocked_writer
  BY <1>1, <1>5 DEF Header, CoOrNull
<1> HIDE DEF r
<1>7. g \in [Buf -> Header] /\ g[b] = r /\ \A x \in Buf \ {b} : g[x] = hdr[x]
  BY <1>2, <1>6
<1> HIDE DEF g
<1>8. Flow(r, pipe[b], Writers(b))
  BY <1>1, <1>6 DEF Flow
<1>9. /\ hdr' \in [Buf -> Header]
      /\ pipePool' \in [DOMAIN PipeClasses -> Buf \cup {Null}]
      /\ Place(b, hdr'[b], pipe[b], Writers(b))
      /\ \A x \in Buf \ {b} : hdr'[x] = hdr[x]
      /\ FreeLists'
  <2>1. r.blocked_writer \in CoOrNull /\ InUse(b)
    BY <1>1, <1>6 DEF PipeRing, Takes
  <2> QED
    BY <1>4, <1>6, <1>7, <1>8, <2>1, MaybeFreed
<1>10. /\ co' \in [Co -> Standing] /\ co'[c].at = "proc" /\ ~co'[c].asleep
       /\ \A d \in Co \ {c} : co'[d] = co[d]
  BY <1>2, <1>3 DEF CoIdle, Standing
<1>11. PipeTypes'
  BY <1>2, <1>3, <1>9, <1>10 DEF PipeTypes
<1>12. Writers(b)' = Writers(b)
  <2>1. \A d \in Co : Writes(d, b)' <=> Writes(d, b)
    BY <1>10, TakerFacts DEF Writes
  <2> QED
    BY <2>1 DEF Writers
<1>13. OnlyAt(c, b)
  BY <1>3, <1>9, <1>10, TakerFacts DEF OnlyAt, Writes
<1>14. OthersAt(c, b)
  <2> SUFFICES ASSUME NEW d \in Co \ {c}, co[d].on = b
               PROVE  co[d].at # "put" /\ co[d].at # "get"
    BY DEF OthersAt
  <2>1. Stands(d) /\ co[d].at # "get"
    BY TakerFacts DEF PipeInv
  <2> QED
    BY <2>1 DEF Stands, Putting
<1>15. Stands(c)'
  BY <1>10 DEF Stands
<1> QED
  BY <1>3, <1>9, <1>11, <1>12, <1>13, <1>14, <1>15, StepSound

\* An empty open pipe: the consumer registers and sleeps.
LEMMA GetWaits ==
  ASSUME PipeInv, NEW c \in Co, NEW b \in Buf, Takes(c, b),
         ~hdr[b].closed, hdr[b].count = 0, WaitForData(c, b)
  PROVE  PipeInv'
<1> DEFINE h == hdr[b]
           r == [h EXCEPT !.consumer = c, !.blocked_reader = c]
<1>1. /\ Place(b, h, pipe[b], Writers(b)) /\ Writers(b) \in {0, 1}
      /\ Flow(h, pipe[b], Writers(b)) /\ PipeRing(b, h, pipe[b])
      /\ h \in Header /\ pipe[b] \in Stream
      /\ h.capacity # 0 /\ h.head # Sentinel /\ ~InPool(b)
  BY UsedPlace DEF Takes
<1>2. /\ PipeTypes /\ hdr \in [Buf -> Header] /\ pipe \in [Buf -> Stream]
      /\ co \in [Co -> Standing]
  BY DEF PipeInv, PipeTypes
<1>3. /\ hdr' = [hdr EXCEPT ![b] = r]
      /\ co' = Blocked(c, co, "get", b, Null)
      /\ pipe' = pipe /\ pipePool' = pipePool
  BY <1>1, <1>2 DEF WaitForData, Header
<1>4. /\ r \in Header
      /\ r.head = h.head /\ r.tail = h.tail /\ r.count = h.count /\ r.capacity = h.capacity
      /\ r.data = h.data /\ r.closed = h.closed /\ r.error = h.error
      /\ r.consumer_dead = h.consumer_dead /\ r.consumer = c /\ r.blocked_reader = c
      /\ r.blocked_writer = h.blocked_writer /\ r.producer = h.producer
  BY <1>1 DEF Header, CoOrNull
<1> HIDE DEF r
<1>5. hdr' \in [Buf -> Header] /\ hdr'[b] = r /\ \A x \in Buf \ {b} : hdr'[x] = hdr[x]
  BY <1>2, <1>3, <1>4
<1>6. /\ co' \in [Co -> Standing] /\ co'[c].at = "get" /\ co'[c].on = b
      /\ \A d \in Co \ {c} : co'[d] = co[d]
  BY <1>2, <1>3 DEF Blocked, Standing
<1>7. PipeTypes'
  BY <1>2, <1>3, <1>5, <1>6 DEF PipeTypes
<1>8. Writers(b)' = Writers(b)
  <2>1. \A d \in Co : Writes(d, b)' <=> Writes(d, b)
    BY <1>6, TakerFacts DEF Writes
  <2> QED
    BY <2>1 DEF Writers
<1>9. Place(b, hdr'[b], pipe'[b], Writers(b)')
  <2>1. Flow(r, pipe[b], Writers(b)) /\ r.blocked_writer \in CoOrNull
    BY <1>1, <1>4 DEF Flow, PipeRing
  <2> QED
    BY <1>1, <1>3, <1>4, <1>5, <1>8, <2>1, KeepPlace
<1>10. OnlyAt(c, b)
  BY <1>3, <1>5, <1>6, TakerFacts DEF OnlyAt, Writes
<1>11. OthersAt(c, b)
  <2> SUFFICES ASSUME NEW d \in Co \ {c}, co[d].on = b
               PROVE  /\ co[d].at = "put" => Putting(co'[d], d, b, hdr'[b], pipe'[b])
                      /\ co[d].at # "get"
    BY DEF OthersAt
  <2>1. Stands(d) /\ co[d].at # "get"
    BY TakerFacts DEF PipeInv
  <2> QED
    BY <1>3, <1>4, <1>5, <1>6, <2>1 DEF Stands, Putting
<1>12. Stands(c)'
  <2>1. ~h.consumer_dead
    BY <1>1 DEF Flow
  <2>2. Getting(co'[c], c, hdr'[b])
    BY <1>1, <1>4, <1>5, <2>1 DEF Getting
  <2> QED
    BY <1>6, <2>2 DEF Stands
<1>13. FreeLists'
  BY <1>1, <1>3, <1>4, <1>5, ListsKeep
<1> QED
  BY <1>5, <1>7, <1>9, <1>10, <1>11, <1>12, <1>13, StepSound

\* Whatever the consumer finds.
LEMMA TakeSound ==
  ASSUME PipeInv, NEW c \in Co, NEW b \in Buf, Takes(c, b), TakeOrWait(c, b)
  PROVE  PipeInv'
<1>1. hdr[b].count \in Nat
  BY DEF PipeInv, PipeTypes, Header
<1>2. CASE hdr[b].count > 0
  BY <1>2, GetComplete DEF TakeOrWait
<1>3. CASE ~(hdr[b].count > 0)
  BY <1>1, <1>3, GetEnd, GetWaits DEF TakeOrWait
<1> QED
  BY <1>2, <1>3

\* pipe-get and @pipe-get-retry
LEMMA GetSound ==
  ASSUME PipeInv, NEW c \in Co, pipe_get(c) \/ pipe_get_retry(c)
  PROVE  PipeInv'
<1>1. CASE pipe_get(c)
  BY <1>1, TakeSound DEF pipe_get, CoRuns, Takes
<1>2. CASE pipe_get_retry(c)
  <2> DEFINE b == co[c].on
  <2>1. co[c].at = "get" /\ ~co[c].asleep /\ TakeOrWait(c, b)
    BY <1>2 DEF pipe_get_retry
  <2>2. b \in Buf /\ Getting(co[c], c, hdr[b]) /\ hdr[b] \in Header
    BY <2>1 DEF PipeInv, PipeTypes, Stands
  <2>3. Takes(c, b)
    BY <2>1, <2>2 DEF Takes, Getting, InUse, InPool, MayConsume, Header
  <2> HIDE DEF b
  <2> QED
    BY <2>1, <2>2, <2>3, TakeSound
<1> QED
  BY <1>1, <1>2

\* Closing b, with or without the error: the header becomes r, and the
\* reader registered with b is woken.  A writer could only be the live
\* producer, who leaves the closing to nobody else.
LEMMA CloseSound ==
  ASSUME PipeInv, ~ForeignClose, NEW c \in Co, CoRuns(c), NEW b \in Buf, InUse(b),
         MayClose(c, b), NEW r \in Header,
         r.head = hdr[b].head, r.tail = hdr[b].tail, r.count = hdr[b].count,
         r.capacity = hdr[b].capacity, r.data = hdr[b].data,
         r.consumer = hdr[b].consumer, r.consumer_dead = hdr[b].consumer_dead,
         r.closed, r.blocked_writer \in CoOrNull,
         pipe_maybe_free(b, [hdr EXCEPT ![b] = r]),
         co' \in [Co -> Standing], pipe' = pipe,
         \A d \in Co : /\ co'[d].at = co[d].at /\ co'[d].on = co[d].on
                       /\ co'[d].val = co[d].val
                       /\ co'[d].asleep => co[d].asleep /\ d # hdr[b].blocked_reader
  PROVE  PipeInv'
<1> DEFINE g == [hdr EXCEPT ![b] = r]
<1>1. /\ Flow(hdr[b], pipe[b], Writers(b)) /\ hdr[b].capacity # 0 /\ hdr[b].head # Sentinel
      /\ hdr[b] \in Header /\ pipe[b] \in Stream
  BY UsedPlace
<1>2. hdr \in [Buf -> Header] /\ PipeTypes
  BY DEF PipeInv, PipeTypes
<1>3. g \in [Buf -> Header] /\ g[b] = r /\ \A x \in Buf \ {b} : g[x] = hdr[x]
  BY <1>2
<1>4. \A d \in Co : ~Writes(d, b)
  <2> SUFFICES ASSUME NEW d \in Co, Writes(d, b) PROVE FALSE
    OBVIOUS
  <2>1. hdr[b].producer = d
    BY WriterFacts DEF Putting
  <2> QED
    BY <2>1 DEF MayClose, Writes, CoRuns
<1>5. Writers(b) = 0 /\ Writers(b)' = 0
  BY <1>4 DEF Writers, Writes
<1>6. Flow(r, pipe[b], 0)
  BY <1>1, <1>5 DEF Flow
<1>7. pipe_maybe_free(b, g)
  OBVIOUS
<1> HIDE DEF g
<1>8. /\ hdr' \in [Buf -> Header]
      /\ pipePool' \in [DOMAIN PipeClasses -> Buf \cup {Null}]
      /\ Place(b, hdr'[b], pipe[b], 0)
      /\ \A x \in Buf \ {b} : hdr'[x] = hdr[x]
      /\ ~(g[b].closed /\ g[b].consumer_dead) => hdr' = g
      /\ FreeLists'
  BY <1>3, <1>6, <1>7, MaybeFreed
<1>9. PipeTypes'
  BY <1>2, <1>8 DEF PipeTypes
<1>10. OnlyAt(c, b)
  BY <1>8 DEF OnlyAt, Writes
<1>11. OthersAt(c, b)
  <2> SUFFICES ASSUME NEW d \in Co \ {c}, co[d].on = b
               PROVE  /\ co[d].at # "put"
                      /\ co[d].at = "get" => Getting(co'[d], d, hdr'[b])
    BY DEF OthersAt
  <2>1. Stands(d)
    BY DEF PipeInv
  <2>2. co[d].at # "put"
    BY <1>4 DEF Writes
  <2>3. ASSUME co[d].at = "get" PROVE Getting(co'[d], d, hdr'[b])
    <3>1. Getting(co[d], d, hdr[b])
      BY <2>1, <2>3 DEF Stands
    <3>2. hdr'[b] = r
      BY <1>3, <1>8, <3>1 DEF Getting
    <3> QED
      BY <3>1, <3>2 DEF Getting
  <2> QED
    BY <2>2, <2>3
<1>12. Stands(c)'
  BY DEF Stands, CoRuns
<1> QED
  BY <1>5, <1>8, <1>9, <1>10, <1>11, <1>12, StepSound

\* pipe-close
LEMMA PipeCloseSound ==
  ASSUME PipeInv, ~ForeignClose, NEW c \in Co, pipe_close(c)
  PROVE  PipeInv'
<1>1. PICK b \in Buf :
        /\ InUse(b) /\ MayClose(c, b)
        /\ pipe_maybe_free(b, [hdr EXCEPT ![b].closed = TRUE, ![b].blocked_reader = Null])
        /\ co' = Woken(hdr[b].blocked_reader, co)
        /\ UNCHANGED pipe
  BY DEF pipe_close
<1> DEFINE r == [hdr[b] EXCEPT !.closed = TRUE, !.blocked_reader = Null]
<1>2. hdr \in [Buf -> Header] /\ hdr[b] \in Header /\ co \in [Co -> Standing] /\ CoRuns(c)
  BY DEF PipeInv, PipeTypes, pipe_close
<1>3. [hdr EXCEPT ![b].closed = TRUE, ![b].blocked_reader = Null] = [hdr EXCEPT ![b] = r]
  BY <1>2 DEF Header
<1>4. hdr[b].blocked_writer \in CoOrNull
  BY <1>1, UsedPlace DEF PipeRing
<1>5. /\ r \in Header
      /\ r.head = hdr[b].head /\ r.tail = hdr[b].tail /\ r.count = hdr[b].count
      /\ r.capacity = hdr[b].capacity /\ r.data = hdr[b].data
      /\ r.consumer = hdr[b].consumer /\ r.consumer_dead = hdr[b].consumer_dead
      /\ r.closed /\ r.blocked_writer \in CoOrNull
  BY <1>2, <1>4 DEF Header, CoOrNull
<1>6. /\ co' \in [Co -> Standing]
      /\ \A d \in Co : /\ co'[d].at = co[d].at /\ co'[d].on = co[d].on
                       /\ co'[d].val = co[d].val
                       /\ co'[d].asleep => co[d].asleep /\ d # hdr[b].blocked_reader
  BY <1>1, <1>2, WokenValue
<1>7. pipe_maybe_free(b, [hdr EXCEPT ![b] = r])
  BY <1>1, <1>3
<1> HIDE DEF r
<1> QED
  BY <1>1, <1>2, <1>5, <1>6, <1>7, CloseSound

\* pipe-error-close
LEMMA PipeErrorCloseSound ==
  ASSUME PipeInv, ~ForeignClose, NEW c \in Co, pipe_error_close(c)
  PROVE  PipeInv'
<1>1. PICK b \in Buf :
        /\ InUse(b) /\ MayClose(c, b)
        /\ pipe_maybe_free(b, [hdr EXCEPT ![b].closed = TRUE, ![b].error = TRUE,
                                          ![b].blocked_reader = Null,
                                          ![b].blocked_writer = Null])
        /\ co' = Woken(hdr[b].blocked_writer, Woken(hdr[b].blocked_reader, co))
        /\ UNCHANGED pipe
  BY DEF pipe_error_close
<1> DEFINE r == [hdr[b] EXCEPT !.closed = TRUE, !.error = TRUE, !.blocked_reader = Null,
                               !.blocked_writer = Null]
           s == Woken(hdr[b].blocked_reader, co)
<1>2. hdr \in [Buf -> Header] /\ hdr[b] \in Header /\ co \in [Co -> Standing] /\ CoRuns(c)
  BY DEF PipeInv, PipeTypes, pipe_error_close
<1>3. [hdr EXCEPT ![b].closed = TRUE, ![b].error = TRUE,
                  ![b].blocked_reader = Null, ![b].blocked_writer = Null]
        = [hdr EXCEPT ![b] = r]
  BY <1>2 DEF Header
<1>4. /\ r \in Header
      /\ r.head = hdr[b].head /\ r.tail = hdr[b].tail /\ r.count = hdr[b].count
      /\ r.capacity = hdr[b].capacity /\ r.data = hdr[b].data
      /\ r.consumer = hdr[b].consumer /\ r.consumer_dead = hdr[b].consumer_dead
      /\ r.closed /\ r.blocked_writer \in CoOrNull
  BY <1>2 DEF Header, CoOrNull
<1>5. /\ s \in [Co -> Standing]
      /\ \A d \in Co : /\ s[d].at = co[d].at /\ s[d].on = co[d].on /\ s[d].val = co[d].val
                       /\ s[d].asleep => co[d].asleep /\ d # hdr[b].blocked_reader
  BY <1>2, WokenValue
<1>6. co' = Woken(hdr[b].blocked_writer, s)
  BY <1>1
<1> HIDE DEF r, s
<1>7. /\ co' \in [Co -> Standing]
      /\ \A d \in Co : /\ co'[d].at = co[d].at /\ co'[d].on = co[d].on
                       /\ co'[d].val = co[d].val
                       /\ co'[d].asleep => co[d].asleep /\ d # hdr[b].blocked_reader
  <2>1. /\ co' \in [Co -> Standing]
        /\ \A d \in Co : /\ co'[d].at = s[d].at /\ co'[d].on = s[d].on
                         /\ co'[d].val = s[d].val
                         /\ co'[d].asleep => s[d].asleep
    BY <1>5, <1>6, WokenValue
  <2> QED
    BY ONLY <1>5, <2>1
<1>8. pipe_maybe_free(b, [hdr EXCEPT ![b] = r])
  BY <1>1, <1>3 DEF r
<1> QED
  BY <1>1, <1>2, <1>4, <1>7, <1>8, CloseSound

-----------------------------------------------------------------------------
(* Death of a coroutine *)

\* The header and the stream of the place b after c was killed.
LEMMA ScrubbedHeader ==
  ASSUME PipeInv, NEW c \in Co, KillUser(c), NEW b \in Buf
  PROVE  /\ hdr'[b] \in Header
         /\ hdr'[b].head = hdr[b].head /\ hdr'[b].tail = hdr[b].tail
         /\ hdr'[b].count = hdr[b].count /\ hdr'[b].capacity = hdr[b].capacity
         /\ hdr'[b].data = hdr[b].data /\ hdr'[b].closed = hdr[b].closed
         /\ hdr'[b].consumer_dead = hdr[b].consumer_dead /\ hdr'[b].error = hdr[b].error
         /\ hdr'[b].producer = hdr[b].producer /\ hdr'[b].consumer = hdr[b].consumer
         /\ InPool(b) => hdr'[b] = hdr[b]
         /\ ~InPool(b) /\ hdr[b].blocked_writer \in CoOrNull =>
              hdr'[b].blocked_writer \in CoOrNull
         /\ \A d \in Co \ {c} :
              /\ ~InPool(b) /\ hdr[b].blocked_writer = d => hdr'[b].blocked_writer = d
              /\ ~InPool(b) /\ hdr[b].blocked_reader = d => hdr'[b].blocked_reader = d
         /\ hdr[b] = Unborn => hdr'[b] = Unborn
<1> DEFINE h == hdr[b]
           z == IF h.blocked_reader = c THEN Null ELSE h.blocked_reader
           y == IF h.blocked_writer = c THEN Null ELSE h.blocked_writer
           r == [h EXCEPT !.blocked_reader = z, !.blocked_writer = y]
<1>1. h \in Header
  BY DEF PipeInv, PipeTypes
<1>2. hdr'[b] = IF InPool(b) THEN h ELSE r
  BY <1>1 DEF KillUser, coroutine_scrub_pipes, Header
<1>3. z \in CoOrNull /\ y \in CoOrNull \cup Buf /\ (h.blocked_writer \in CoOrNull => y \in CoOrNull)
  BY <1>1 DEF Header, CoOrNull
<1>4. /\ \A d \in Co \ {c} : /\ h.blocked_writer = d => y = d
                             /\ h.blocked_reader = d => z = d
      /\ h.blocked_writer = Null => y = Null
      /\ h.blocked_reader = Null => z = Null
  BY PipeAssumption
<1> HIDE DEF z, y
<1>5. /\ r \in Header
      /\ r.head = h.head /\ r.tail = h.tail /\ r.count = h.count /\ r.capacity = h.capacity
      /\ r.data = h.data /\ r.closed = h.closed /\ r.consumer_dead = h.consumer_dead
      /\ r.error = h.error /\ r.producer = h.producer /\ r.consumer = h.consumer
      /\ r.blocked_writer = y /\ r.blocked_reader = z
  BY <1>1, <1>3 DEF Header
<1>6. ASSUME h = Unborn PROVE r = Unborn
  <2>1. h.blocked_reader = Null /\ h.blocked_writer = Null
    BY <1>6 DEF Unborn
  <2>2. z = Null /\ y = Null
    BY <1>4, <2>1
  <2>3. z = h.blocked_reader /\ y = h.blocked_writer
    BY <2>1, <2>2
  <2>4. r = h
    BY <1>1, <2>3 DEF Header
  <2> QED
    BY <1>6, <2>4
<1> HIDE DEF r, h
<1>7. CASE InPool(b)
  BY <1>1, <1>2, <1>7 DEF h
<1>8. CASE ~InPool(b)
  <2>1. hdr'[b] = r
    BY <1>2, <1>8
  <2> QED
    BY <1>3, <1>4, <1>5, <1>6, <1>8, <2>1 DEF h
<1> QED
  BY <1>7, <1>8

\* The values that count as handed to b after c was killed.
LEMMA WithdrawnStream ==
  ASSUME PipeInv, NEW c \in Co, KillUser(c), NEW b \in Buf
  PROVE  /\ pipe'[b] \in Stream
         /\ pipe'[b].gen = pipe[b].gen /\ pipe'[b].got = pipe[b].got
         /\ ~Writes(c, b) => pipe'[b] = pipe[b]
         /\ Writes(c, b) => pipe'[b].sent = pipe[b].sent - 1 /\ Writers(b)' = 0
         /\ ~Writes(c, b) => Writers(b)' = Writers(b)
<1>1. /\ pipe[b] \in Stream /\ hdr[b] \in Header /\ Flow(hdr[b], pipe[b], Writers(b))
      /\ co \in [Co -> Standing]
  BY DEF PipeInv, PipeTypes, Place
<1>2. /\ co'[c].at = "dead" /\ \A d \in Co \ {c} : co'[d] = co[d]
      /\ pipe'[b] = IF co[c].at = "put" /\ co[c].on = b /\ co[c].val.gen = pipe[b].gen
                      THEN [pipe[b] EXCEPT !.sent = @ - 1] ELSE pipe[b]
  BY <1>1 DEF KillUser, CoIdle, Withdrawn
<1>3. CASE Writes(c, b)
  <2>1. Putting(co[c], c, b, hdr[b], pipe[b]) /\ Writers(b) = 1
    BY <1>3, WriterFacts
  <2>2. pipe'[b] = [pipe[b] EXCEPT !.sent = @ - 1]
    BY <1>2, <1>3, <2>1 DEF Putting, Writes
  <2>3. pipe[b].sent - 1 \in 0..MaxSent
    <3>1. pipe[b].got + hdr[b].count + 1 = pipe[b].sent
      BY <1>1, <2>1 DEF Flow
    <3>2. pipe[b].got \in Nat /\ hdr[b].count \in Nat /\ pipe[b].sent \in 0..MaxSent
      BY <1>1 DEF Stream, Header
    <3>3. MaxSent \in Nat
      BY PipeAssumption
    <3> QED
      BY ONLY <3>1, <3>2, <3>3
  <2>4. \A d \in Co : ~Writes(d, b)'
    BY <1>2, <1>3, WriterFacts DEF Writes
  <2> QED
    BY <1>1, <1>3, <2>2, <2>3, <2>4 DEF Stream, Writers
<1>4. CASE ~Writes(c, b)
  <2>1. pipe'[b] = pipe[b]
    BY <1>2, <1>4 DEF Writes
  <2>2. \A d \in Co : Writes(d, b)' <=> Writes(d, b)
    BY <1>2, <1>4 DEF Writes
  <2> QED
    BY <1>1, <1>4, <2>1, <2>2 DEF Writers
<1> QED
  BY <1>3, <1>4

\* coroutine_kill: the registrations of c are gone from every place in use,
\* the value it waited to put is withdrawn, and nobody else notices.
LEMMA KillSound ==
  ASSUME PipeInv, NEW c \in Co, KillUser(c)
  PROVE  PipeInv'
<1>1. /\ hdr \in [Buf -> Header] /\ pipe \in [Buf -> Stream] /\ co \in [Co -> Standing]
      /\ pipePool \in [DOMAIN PipeClasses -> Buf \cup {Null}] /\ FreeLists
  BY DEF PipeInv, PipeTypes
<1>2. /\ co' \in [Co -> Standing] /\ co'[c].at = "dead" /\ ~co'[c].asleep
      /\ \A d \in Co \ {c} : co'[d] = co[d]
      /\ pipePool' = pipePool
  BY <1>1 DEF KillUser, CoIdle, Standing
<1>3. hdr' \in [Buf -> Header] /\ pipe' \in [Buf -> Stream]
  <2>1. /\ hdr' = [b \in Buf |-> hdr'[b]] /\ pipe' = [b \in Buf |-> pipe'[b]]
    BY DEF KillUser, coroutine_scrub_pipes, Withdrawn
  <2> QED
    BY <2>1, ScrubbedHeader, WithdrawnStream
<1>4. PipeTypes'
  BY <1>1, <1>2, <1>3 DEF PipeTypes
<1>5. ASSUME NEW b \in Buf PROVE Place(b, hdr'[b], pipe'[b], Writers(b)')
  <2>1. /\ Place(b, hdr[b], pipe[b], Writers(b)) /\ hdr[b] \in Header /\ pipe[b] \in Stream
        /\ Writers(b) \in {0, 1}
    BY <1>1, WriterFacts DEF PipeInv
  <2>2. CASE InPool(b) \/ hdr[b].capacity = 0
    <3>1. hdr'[b] = hdr[b]
      BY <2>1, <2>2, ScrubbedHeader DEF Place
    <3>2. ~Writes(c, b)
      BY <2>2, WriterFacts DEF Putting, InPool
    <3> QED
      BY <2>1, <3>1, <3>2, WithdrawnStream
  <2>3. CASE ~InPool(b) /\ hdr[b].capacity # 0
    <3>1. InUse(b)
      BY <2>1, <2>3 DEF InUse, Header
    <3>2. /\ Flow(hdr[b], pipe[b], Writers(b)) /\ PipeRing(b, hdr[b], pipe[b])
          /\ hdr[b].head # Sentinel
      BY <3>1, UsedPlace
    <3>3. /\ hdr'[b].head = hdr[b].head /\ hdr'[b].tail = hdr[b].tail
          /\ hdr'[b].count = hdr[b].count /\ hdr'[b].capacity = hdr[b].capacity
          /\ hdr'[b].data = hdr[b].data /\ hdr'[b].closed = hdr[b].closed
          /\ hdr'[b].consumer_dead = hdr[b].consumer_dead /\ hdr'[b].error = hdr[b].error
          /\ hdr'[b].blocked_writer \in CoOrNull
      BY <2>3, <3>2, ScrubbedHeader DEF PipeRing
    <3>4. Flow(hdr'[b], pipe'[b], Writers(b)')
      <4>1. CASE Writes(c, b)
        <5>1. Writers(b) = 1 /\ Writers(b)' = 0 /\ pipe'[b].sent = pipe[b].sent - 1
          BY <4>1, WriterFacts, WithdrawnStream
        <5>2. pipe'[b].got = pipe[b].got /\ pipe[b].got \in Nat /\ hdr[b].count \in Nat
              /\ pipe[b].sent \in Nat
          BY <2>1, WithdrawnStream DEF Stream, Header
        <5>3. pipe[b].got + hdr[b].count + 1 = pipe[b].sent
          BY <3>2, <5>1 DEF Flow
        <5>4. pipe'[b].got + hdr'[b].count + 0 = pipe'[b].sent
          BY <3>3, <5>1, <5>2, <5>3
        <5> QED
          BY <3>2, <3>3, <5>1, <5>4 DEF Flow
      <4>2. CASE ~Writes(c, b)
        BY <3>2, <3>3, <4>2, WithdrawnStream DEF Flow
      <4> QED
        BY <4>1, <4>2
    <3>5. pipe'[b].gen = pipe[b].gen /\ pipe'[b].got = pipe[b].got
      BY WithdrawnStream
    <3> QED
      BY <2>1, <2>3, <3>2, <3>3, <3>4, <3>5, KeepPlace
  <2> QED
    BY <2>2, <2>3
<1>6. ASSUME NEW d \in Co PROVE Stands(d)'
  <2>1. CASE d = c
    BY <1>2, <2>1 DEF Stands
  <2>2. CASE d # c
    <3>1. Stands(d) /\ co'[d] = co[d]
      BY <1>2, <2>2 DEF PipeInv
    <3>2. ASSUME co[d].at = "put"
          PROVE  Putting(co[d], d, co[d].on, hdr'[co[d].on], pipe'[co[d].on])
      <4>1. co[d].on \in Buf /\ Putting(co[d], d, co[d].on, hdr[co[d].on], pipe[co[d].on])
        BY <3>1, <3>2 DEF Stands
      <4>2. PICK b \in Buf : b = co[d].on
        BY <4>1
      <4>3. Writes(d, b)
        BY <3>2, <4>2 DEF Writes
      <4>4. ~Writes(c, b)
        BY <2>2, <4>3, WriterFacts
      <4>5. pipe'[b] = pipe[b]
        BY <4>4, WithdrawnStream
      <4>6. ~InPool(b)
        BY <4>1, <4>2 DEF Putting, InPool
      <4>7. Putting(co[d], d, b, hdr'[b], pipe'[b])
        BY <2>2, <4>1, <4>2, <4>5, <4>6, ScrubbedHeader DEF Putting
      <4> QED
        BY <4>2, <4>7
    <3>3. ASSUME co[d].at = "get"
          PROVE  Getting(co[d], d, hdr'[co[d].on])
      <4>1. co[d].on \in Buf /\ Getting(co[d], d, hdr[co[d].on])
        BY <3>1, <3>3 DEF Stands
      <4>2. PICK b \in Buf : b = co[d].on
        BY <4>1
      <4>3. ~InPool(b)
        BY <4>1, <4>2 DEF Getting, InPool
      <4>4. Getting(co[d], d, hdr'[b])
        BY <2>2, <4>1, <4>2, <4>3, ScrubbedHeader DEF Getting
      <4> QED
        BY <4>2, <4>4
    <3> QED
      BY <3>1, <3>2, <3>3 DEF Stands
  <2> QED
    BY <2>1, <2>2
<1>7. FreeLists'
  <2>1. ASSUME NEW b \in Buf PROVE SameParked(b)
    BY ScrubbedHeader DEF SameParked, InPool, Link, Size
  <2> QED
    BY <1>1, <1>2, <2>1, ListsSame
<1> QED
  BY <1>4, <1>5, <1>6, <1>7 DEF PipeInv

\* A new coroutine in the context of a dead one stands at no place.
LEMMA RespawnSound ==
  ASSUME PipeInv, NEW c \in Co, Respawn(c)
  PROVE  PipeInv'
<1>1. /\ co[c].at = "dead" /\ co' = [co EXCEPT ![c] = CoIdle]
      /\ hdr' = hdr /\ pipePool' = pipePool /\ pipe' = pipe
  BY DEF Respawn
<1>2. /\ hdr \in [Buf -> Header] /\ pipe \in [Buf -> Stream] /\ co \in [Co -> Standing]
      /\ pipePool \in [DOMAIN PipeClasses -> Buf \cup {Null}] /\ FreeLists
  BY DEF PipeInv, PipeTypes
<1>3. /\ co' \in [Co -> Standing] /\ co'[c].at = "proc" /\ ~co'[c].asleep
      /\ \A d \in Co \ {c} : co'[d] = co[d]
  BY <1>1, <1>2 DEF CoIdle, Standing
<1>4. PipeTypes'
  BY <1>1, <1>2, <1>3 DEF PipeTypes
<1>5. ASSUME NEW b \in Buf PROVE Place(b, hdr'[b], pipe'[b], Writers(b)')
  <2>1. \A d \in Co : Writes(d, b)' <=> Writes(d, b)
    BY <1>1, <1>3 DEF Writes
  <2>2. Writers(b)' = Writers(b)
    BY <2>1 DEF Writers
  <2> QED
    BY <1>1, <2>2 DEF PipeInv
<1>6. ASSUME NEW d \in Co PROVE Stands(d)'
  <2>1. CASE d = c
    BY <1>3, <2>1 DEF Stands
  <2>2. CASE d # c
    BY <1>1, <1>3, <2>2 DEF PipeInv, Stands
  <2> QED
    BY <2>1, <2>2
<1>7. FreeLists'
  <2>1. ASSUME NEW b \in Buf PROVE SameParked(b)
    BY <1>1 DEF SameParked, InPool, Link, Size
  <2> QED
    BY <1>1, <1>2, <2>1, ListsSame
<1> QED
  BY <1>4, <1>5, <1>6, <1>7 DEF PipeInv

-----------------------------------------------------------------------------
(* Handing out a place *)

\* b, which no pipe uses, becomes a pipe of n values with the given array.
LEMMA HandedSound ==
  ASSUME PipeInv, NEW c \in Co, CoRuns(c), co' = co,
         NEW b \in Buf, InPool(b) \/ hdr[b].capacity = 0,
         NEW n \in 1..MaxCapacity, NEW data \in Seq(Value \cup {Null}),
         Len(data) = Physical(n), pipe[b].gen < MaxGen,
         hdr' = [hdr EXCEPT ![b] = [Unborn EXCEPT !.capacity = n, !.data = data]],
         pipe' = [pipe EXCEPT ![b] = [gen |-> @.gen + 1, sent |-> 0, got |-> 0]],
         pipePool' \in [DOMAIN PipeClasses -> Buf \cup {Null}], FreeLists'
  PROVE  PipeInv'
<1> DEFINE r == [Unborn EXCEPT !.capacity = n, !.data = data]
           q == [gen |-> pipe[b].gen + 1, sent |-> 0, got |-> 0]
<1>1. /\ hdr \in [Buf -> Header] /\ pipe \in [Buf -> Stream] /\ co \in [Co -> Standing]
      /\ pipe[b] \in Stream
  BY DEF PipeInv, PipeTypes
<1>2. n \in Nat \ {0} /\ n <= MaxCapacity /\ 0 # Sentinel
  <2>1. MaxCapacity \in 1..Sentinel
    BY PipeAssumption
  <2>2. 0 # Sentinel /\ Sentinel \in Nat
    BY DEF Sentinel
  <2> QED
    BY ONLY <2>1, <2>2, n \in 1..MaxCapacity
<1>3. /\ Unborn \in Header
      /\ Unborn.head = 0 /\ Unborn.tail = 0 /\ Unborn.count = 0
      /\ ~Unborn.closed /\ ~Unborn.consumer_dead /\ ~Unborn.error
      /\ Unborn.blocked_writer = Null
  BY DEF Unborn, Header, CoOrNull
<1>4. q \in Stream /\ q.gen # 0
  <2>1. pipe[b].gen + 1 \in 0..MaxGen /\ pipe[b].gen + 1 # 0
    <3>1. pipe[b].gen \in 0..MaxGen /\ MaxGen \in Nat
      BY <1>1, PipeAssumption DEF Stream
    <3> QED
      BY ONLY <3>1, pipe[b].gen < MaxGen
  <2>2. 0 \in 0..MaxSent
    BY PipeAssumption
  <2> QED
    BY <2>1, <2>2 DEF Stream
<1>5. q.sent = 0 /\ q.got = 0
  OBVIOUS
<1> HIDE DEF r, q
<1>6. /\ r \in Header
      /\ r.head = 0 /\ r.tail = 0 /\ r.count = 0 /\ r.capacity = n /\ r.data = data
      /\ ~r.closed /\ ~r.consumer_dead /\ ~r.error /\ r.blocked_writer = Null
  BY <1>2, <1>3 DEF r, Header
<1>7. /\ hdr'[b] = r /\ pipe'[b] = q
      /\ \A x \in Buf \ {b} : hdr'[x] = hdr[x] /\ pipe'[x] = pipe[x]
      /\ hdr' \in [Buf -> Header] /\ pipe' \in [Buf -> Stream]
  BY <1>1, <1>4, <1>6 DEF r, q
<1>8. PipeTypes'
  BY <1>1, <1>7 DEF PipeTypes
<1>9. \A d \in Co : co[d].at \in {"put", "get"} => co[d].on # b
  <2> SUFFICES ASSUME NEW d \in Co, co[d].at \in {"put", "get"}, co[d].on = b PROVE FALSE
    OBVIOUS
  <2>1. hdr[b].capacity # 0 /\ hdr[b].head # Sentinel
    BY DEF PipeInv, Stands, Putting, Getting
  <2> QED
    BY <2>1 DEF InPool
<1>10. Writers(b)' = 0
  BY <1>9 DEF Writers, Writes
<1>11. Place(b, r, q, 0)
  <2>1. SlotAt(0, 0 + 1, n) = 1
    BY <1>2 DEF SlotAt, Fold
  <2>2. PipeRing(b, r, q)
    BY <1>2, <1>6, <2>1 DEF PipeRing, CoOrNull
  <2>3. Flow(r, q, 0)
    BY <1>5, <1>6 DEF Flow
  <2> QED
    BY <1>2, <1>4, <1>6, <2>2, <2>3 DEF Place
<1>12. OnlyAt(c, b)
  BY <1>7 DEF OnlyAt, Writes
<1>13. OthersAt(c, b)
  BY <1>9 DEF OthersAt
<1>14. Stands(c)'
  BY DEF Stands, CoRuns
<1> QED
  BY <1>7, <1>8, <1>10, <1>11, <1>12, <1>13, <1>14, StepSound

\* A new data array has the size of its class.
LEMMA NewDataValue ==
  ASSUME NEW n \in Nat
  PROVE  NewData(n) \in Seq(Value \cup {Null}) /\ Len(NewData(n)) = Physical(n)
<1>1. Physical(n) \in Nat
  BY ClassValue
<1> HIDE DEF Physical
<1>2. NewData(n) \in [1..Physical(n) -> Value \cup {Null}]
  BY DEF NewData
<1>3. NewData(n) \in Seq(Value \cup {Null})
  BY <1>1, <1>2
<1>4. DOMAIN NewData(n) = 1..Physical(n)
  BY DEF NewData
<1>5. Len(NewData(n)) = Physical(n)
  BY <1>1, <1>3, <1>4, LenProperties
<1> QED
  BY <1>3, <1>5

\* pipe-buffer, from the pool or from new memory
LEMMA BufferSound ==
  ASSUME PipeInv, NEW c \in Co, pipe_buffer(c)
  PROVE  PipeInv'
<1> DEFINE Handed(b, n, data) ==
             /\ pipe[b].gen < MaxGen
             /\ hdr' = [hdr EXCEPT ![b] = [Unborn EXCEPT !.capacity = n, !.data = data]]
             /\ pipe' = [pipe EXCEPT ![b] = [gen |-> @.gen + 1, sent |-> 0, got |-> 0]]
<1>1. PICK n \in 1..MaxCapacity :
        IF pipe_class_for_capacity(n) # 0 /\ pipePool[pipe_class_for_capacity(n)] # Null
          THEN /\ Handed(pipePool[pipe_class_for_capacity(n)], n,
                         hdr[pipePool[pipe_class_for_capacity(n)]].data)
               /\ pipePool' = [pipePool EXCEPT ![pipe_class_for_capacity(n)] =
                                 hdr[pipePool[pipe_class_for_capacity(n)]].blocked_writer]
          ELSE /\ \E b \in Buf : hdr[b].capacity = 0 /\ Handed(b, n, NewData(n))
               /\ UNCHANGED pipePool
  BY DEF pipe_buffer
<1>2. CoRuns(c) /\ co' = co
  BY DEF pipe_buffer
<1>3. /\ hdr \in [Buf -> Header] /\ FreeLists /\ n \in Nat
      /\ pipePool \in [DOMAIN PipeClasses -> Buf \cup {Null}]
  BY PipeAssumption DEF PipeInv, PipeTypes
<1> DEFINE k == pipe_class_for_capacity(n)
<1>4. CASE k # 0 /\ pipePool[k] # Null
  <2>1. k \in DOMAIN PipeClasses /\ Physical(n) = PipeClasses[k]
    BY <1>3, <1>4, ClassValue
  <2>2. PICK b \in Buf : b = pipePool[k]
    BY <1>3, <1>4, <2>1
  <2>3. Handed(b, n, hdr[b].data) /\ pipePool' = [pipePool EXCEPT ![k] = hdr[b].blocked_writer]
    BY <1>1, <1>4, <2>2
  <2> HIDE DEF k
  <2>4. InPool(b) /\ Size(b) = PipeClasses[k]
    BY <1>3, <1>4, <2>1, <2>2 DEF FreeLists
  <2>5. hdr[b].blocked_writer \in Buf \cup {Null}
    BY <2>4 DEF PipeInv, Place, InPool
  <2>6. pipePool' \in [DOMAIN PipeClasses -> Buf \cup {Null}]
    BY <1>3, <2>3, <2>5
  <2>7. ~InPool(b)'
    BY <1>3, <2>3 DEF InPool, Unborn, Sentinel
  <2>8. FreeLists'
    <3>1. \A x \in Buf \ {b} : SameParked(x)
      BY <1>3, <2>3 DEF SameParked, InPool, Link, Size
    <3>2. pipePool' = [pipePool EXCEPT ![k] = Link(b)] /\ pipePool[k] = b
      BY <2>2, <2>3 DEF Link
    <3> QED
      BY <1>3, <2>1, <2>7, <3>1, <3>2, ListsPop
  <2>9. hdr[b].data \in Seq(Value \cup {Null}) /\ Len(hdr[b].data) = Physical(n)
    BY <1>3, <2>1, <2>4 DEF Header, Size
  <2> QED
    BY <1>2, <2>3, <2>4, <2>6, <2>8, <2>9, HandedSound
<1>5. CASE ~(k # 0 /\ pipePool[k] # Null)
  <2>1. pipePool' = pipePool
    BY <1>1, <1>5
  <2>2. PICK b \in Buf : hdr[b].capacity = 0 /\ Handed(b, n, NewData(n))
    BY <1>1, <1>5
  <2>3. ~InPool(b)
    BY <2>2 DEF PipeInv, Place, InPool
  <2>4. hdr'[b].head # Sentinel /\ \A x \in Buf \ {b} : hdr'[x] = hdr[x]
    BY <1>3, <2>2 DEF Unborn, Sentinel
  <2>5. FreeLists'
    BY <2>1, <2>3, <2>4, ListsKeep
  <2>6. NewData(n) \in Seq(Value \cup {Null}) /\ Len(NewData(n)) = Physical(n)
    BY <1>3, NewDataValue
  <2>7. pipePool' \in [DOMAIN PipeClasses -> Buf \cup {Null}]
    BY <1>3, <2>1
  <2> DEFINE data == NewData(n)
  <2>8. data \in Seq(Value \cup {Null}) /\ Len(data) = Physical(n) /\ Handed(b, n, data)
    BY <2>2, <2>6
  <2> HIDE DEF data, k
  <2> QED
    BY <1>2, <2>2, <2>5, <2>7, <2>8, HandedSound
<1> QED
  BY <1>4, <1>5

-----------------------------------------------------------------------------
(* The invariant *)

\* It holds of places that were never handed out.
LEMMA PipesInitSound == PipesInit => PipeInv
<1> SUFFICES ASSUME PipesInit PROVE PipeInv
  OBVIOUS
<1>1. /\ hdr = [b \in Buf |-> Unborn]
      /\ pipePool = [i \in DOMAIN PipeClasses |-> Null]
      /\ co = [c \in Co |-> CoIdle]
      /\ pipe = [b \in Buf |-> [gen |-> 0, sent |-> 0, got |-> 0]]
  BY DEF PipesInit
<1>2. Unborn \in Header /\ Unborn.head # Sentinel /\ Unborn.capacity = 0
  BY DEF Unborn, Header, CoOrNull, Sentinel
<1>3. CoIdle \in Standing /\ CoIdle.at = "proc" /\ ~CoIdle.asleep
  BY DEF CoIdle, Standing
<1>4. [gen |-> 0, sent |-> 0, got |-> 0] \in Stream
  BY PipeAssumption DEF Stream
<1>5. PipeTypes
  BY <1>1, <1>2, <1>3, <1>4 DEF PipeTypes
<1>6. \A c \in Co : co[c].at = "proc" /\ ~co[c].asleep
  BY <1>1, <1>3
<1>7. \A c \in Co : Stands(c)
  BY <1>6 DEF Stands
<1>8. ASSUME NEW b \in Buf PROVE Place(b, hdr[b], pipe[b], Writers(b))
  <2>1. Writers(b) = 0
    BY <1>6 DEF Writers, Writes
  <2>2. hdr[b] = Unborn /\ pipe[b].sent = 0 /\ pipe[b].got = 0
    BY <1>1
  <2>3. Flow(Unborn, pipe[b], 0)
    BY <2>2 DEF Flow, Unborn
  <2> QED
    BY <1>2, <2>1, <2>2, <2>3 DEF Place
<1>9. \A b \in Buf : ~InPool(b)
  BY <1>1, <1>2 DEF InPool
<1>10. ASSUME NEW i \in DOMAIN PipeClasses PROVE pipePool[i] = Null /\ Chain(i) = {}
  <2>1. pipePool[i] = Null
    BY <1>1
  <2>2. Linked({})
    BY DEF Linked
  <2> QED
    BY <2>1, <2>2 DEF Chain
<1>11. FreeLists
  BY <1>9, <1>10 DEF FreeLists, PoolChain
<1> QED
  BY <1>5, <1>7, <1>8, <1>11 DEF PipeInv

\* Every step preserves it, when nobody closes a pipe whose live producer is
\* another coroutine.
LEMMA PipesStepSound ==
  ASSUME ~ForeignClose, PipeInv, [PipesNext]_pipeVars
  PROVE  PipeInv'
<1>1. CASE UNCHANGED pipeVars
  <2>1. hdr' = hdr /\ pipePool' = pipePool /\ co' = co /\ pipe' = pipe
    BY <1>1 DEF pipeVars
  <2>2. PipeTypes' /\ FreeLists'
    <3>1. ASSUME NEW b \in Buf PROVE SameParked(b)
      BY <2>1 DEF SameParked, InPool, Link, Size
    <3> QED
      BY <2>1, <3>1, ListsSame DEF PipeInv, PipeTypes
  <2>3. ASSUME NEW b \in Buf PROVE Place(b, hdr'[b], pipe'[b], Writers(b)')
    BY <2>1 DEF PipeInv, Writers, Writes
  <2>4. ASSUME NEW c \in Co PROVE Stands(c)'
    BY <2>1 DEF PipeInv, Stands
  <2> QED
    BY <2>2, <2>3, <2>4 DEF PipeInv
<1>2. ASSUME NEW c \in Co, PipesStep(c) PROVE PipeInv'
  <2>1. CASE pipe_buffer(c)
    BY <2>1, BufferSound
  <2>2. CASE pipe_put(c)
    BY <2>2, PutSound
  <2>3. CASE pipe_put_retry(c)
    BY <2>3, PutRetrySound
  <2>4. CASE pipe_get(c) \/ pipe_get_retry(c)
    BY <2>4, GetSound
  <2>5. CASE pipe_close(c)
    BY <2>5, PipeCloseSound
  <2>6. CASE pipe_error_close(c)
    BY <2>6, PipeErrorCloseSound
  <2>7. CASE KillUser(c)
    BY <2>7, KillSound
  <2>8. CASE Respawn(c)
    BY <2>8, RespawnSound
  <2> QED
    BY <1>2, <2>1, <2>2, <2>3, <2>4, <2>5, <2>6, <2>7, <2>8 DEF PipesStep
<1> QED
  BY <1>1, <1>2 DEF PipesNext

-----------------------------------------------------------------------------
(* What follows from it *)

\* The values that wait to be put are those of the writers at b.
LEMMA WaitingCount ==
  ASSUME PipeInv, NEW b \in Buf
  PROVE  Cardinality(Waiting(b)) = Writers(b)
<1>1. ASSUME NEW c \in Co PROVE c \in Waiting(b) <=> Writes(c, b)
  <2>1. c \in Waiting(b) <=> Writes(c, b) /\ co[c].val.gen = pipe[b].gen
    BY DEF Waiting, Writes
  <2>2. Writes(c, b) => co[c].val.gen = pipe[b].gen
    <3>1. Writes(c, b) => Putting(co[c], c, b, hdr[b], pipe[b])
      BY WriterFacts
    <3> QED
      BY <3>1 DEF Putting
  <2> QED
    BY <2>1, <2>2
<1>2. Waiting(b) \subseteq Co
  BY DEF Waiting
<1>3. CASE \E c \in Co : Writes(c, b)
  <2>1. PICK c \in Co : Writes(c, b)
    BY <1>3
  <2>2. \A d \in Co : Writes(d, b) => d = c
    BY <2>1, WriterFacts
  <2>3. Waiting(b) = {c}
    BY <1>1, <1>2, <2>1, <2>2
  <2>4. Cardinality({c}) = 1
    BY FS_Singleton
  <2> QED
    BY <1>3, <2>3, <2>4 DEF Writers
<1>4. CASE ~\E c \in Co : Writes(c, b)
  <2>1. Waiting(b) = {}
    BY <1>1, <1>2, <1>4
  <2>2. Cardinality({}) = 0
    BY FS_EmptySet
  <2> QED
    BY <1>4, <2>1, <2>2 DEF Writers
<1> QED
  BY <1>3, <1>4

\* The ring read with the moduli of the code is the ring of the invariant.
LEMMA PipesOrdered == PipeInv => InOrder
<1> SUFFICES ASSUME PipeInv, NEW b \in Buf, InUse(b)
             PROVE  /\ \A i \in 1..hdr[b].count :
                         PipeContents(b)[i]
                           = [place |-> b, gen |-> pipe[b].gen, n |-> pipe[b].got + i]
                    /\ pipe[b].got + hdr[b].count + Cardinality(Waiting(b)) = pipe[b].sent
  BY DEF InOrder
<1>1. /\ PipeRing(b, hdr[b], pipe[b]) /\ Flow(hdr[b], pipe[b], Writers(b))
      /\ hdr[b] \in Header /\ hdr[b].capacity # 0
  BY UsedPlace
<1>2. /\ hdr[b].head \in Nat /\ hdr[b].count \in Nat /\ hdr[b].capacity \in Nat \ {0}
      /\ hdr[b].head < hdr[b].capacity /\ hdr[b].count <= hdr[b].capacity
  BY <1>1 DEF Header, PipeRing
<1>3. ASSUME NEW i \in 1..hdr[b].count
      PROVE  PipeContents(b)[i]
               = [place |-> b, gen |-> pipe[b].gen, n |-> pipe[b].got + i]
  <2> DEFINE x == hdr[b].head + i - 1
  <2>1. x \in Nat /\ x < 2 * hdr[b].capacity
    BY ONLY <1>2, i \in 1..hdr[b].count
  <2> HIDE DEF x
  <2>2. x % hdr[b].capacity = Fold(x, hdr[b].capacity)
    BY <1>2, <2>1, FoldMod
  <2>3. (x % hdr[b].capacity) + 1 = SlotAt(hdr[b].head, i, hdr[b].capacity)
    BY <2>2 DEF SlotAt, x
  <2>4. PipeContents(b)[i] = hdr[b].data[(x % hdr[b].capacity) + 1]
    BY DEF PipeContents, x
  <2> QED
    BY <1>1, <2>3, <2>4 DEF PipeRing
<1>4. pipe[b].got + hdr[b].count + Cardinality(Waiting(b)) = pipe[b].sent
  BY <1>1, WaitingCount DEF Flow
<1> QED
  BY <1>3, <1>4

\* The indices of a pipe in use stay inside its data array.
LEMMA IndicesInside ==
  ASSUME PipeInv, NEW b \in Buf, InUse(b)
  PROVE  /\ hdr[b].head < Len(hdr[b].data) /\ hdr[b].tail < Len(hdr[b].data)
         /\ hdr[b].count <= hdr[b].capacity /\ hdr[b].capacity <= Len(hdr[b].data)
<1> DEFINE h == hdr[b]
           n == hdr[b].capacity
<1>1. /\ PipeRing(b, h, pipe[b]) /\ Place(b, h, pipe[b], Writers(b))
      /\ h \in Header /\ n # 0
  BY UsedPlace
<1>2. /\ h.head \in Nat /\ h.count \in Nat /\ n \in Nat \ {0} /\ h.tail \in Nat
      /\ h.head < n /\ h.count <= n /\ h.tail + 1 = SlotAt(h.head, h.count + 1, n)
  BY <1>1 DEF Header, PipeRing
<1>3. Len(h.data) = Physical(n) /\ Physical(n) \in Nat /\ n <= Physical(n)
  BY <1>1, <1>2, ClassValue DEF Place
<1> HIDE DEF h, n
<1>4. h.tail < n
  <2>1. CASE h.count < n
    <3>1. h.count + 1 \in 1..n
      BY <1>2, <2>1
    <3> QED
      BY <1>2, <3>1, SlotRange
  <2>2. CASE h.count = n
    <3>1. SlotAt(h.head, n + 1, n) = h.head + 1
      BY <1>2 DEF SlotAt, Fold
    <3> QED
      BY <1>2, <2>2, <3>1
  <2> QED
    BY <1>2, <2>1, <2>2
<1> QED
  BY <1>2, <1>3, <1>4 DEF h, n

\* The rest of what the runs check.
LEMMA PipesServed == PipeInv => PipesSound
<1> SUFFICES ASSUME PipeInv PROVE PipesSound
  OBVIOUS
<1>1. /\ hdr \in [Buf -> Header] /\ pipe \in [Buf -> Stream] /\ co \in [Co -> Standing]
      /\ pipePool \in [DOMAIN PipeClasses -> Buf \cup {Null}] /\ FreeLists
  BY DEF PipeInv, PipeTypes
<1>2. PipesTypeOK
  <2>1. \A i \in DOMAIN PipeClasses : pipePool[i] \in Buf \cup {Null}
    BY <1>1
  <2>2. \A c \in Co : /\ co[c].at \in {"proc", "put", "get", "dead"}
                      /\ co[c].on \in Buf \cup {Null}
                      /\ co[c].val \in Value \cup {Null}
    BY <1>1 DEF Standing
  <2>3. ASSUME NEW b \in Buf
        PROVE  /\ hdr[b].blocked_writer \in IF InPool(b) THEN Buf \cup {Null} ELSE Co \cup {Null}
               /\ {hdr[b].producer, hdr[b].consumer, hdr[b].blocked_reader} \subseteq Co \cup {Null}
    <3>1. hdr[b] \in Header /\ Place(b, hdr[b], pipe[b], Writers(b))
      BY <1>1 DEF PipeInv
    <3>2. {hdr[b].producer, hdr[b].consumer, hdr[b].blocked_reader} \subseteq Co \cup {Null}
      BY <3>1 DEF Header, CoOrNull
    <3>3. CASE InPool(b)
      BY <3>1, <3>2, <3>3 DEF Place, InPool
    <3>4. CASE ~InPool(b) /\ hdr[b].capacity = 0
      BY <3>1, <3>2, <3>4 DEF Place, Unborn
    <3>5. CASE ~InPool(b) /\ hdr[b].capacity # 0
      BY <3>1, <3>2, <3>5 DEF Place, InPool, PipeRing, CoOrNull
    <3> QED
      BY <3>3, <3>4, <3>5
  <2> QED
    BY <2>1, <2>2, <2>3, IndicesInside DEF PipesTypeOK
<1>3. NoLostWakeup
  <2> SUFFICES ASSUME NEW c \in Co, co[c].asleep
               PROVE  IF co[c].at = "put"
                        THEN /\ ~hdr[co[c].on].error
                             /\ hdr[co[c].on].count = hdr[co[c].on].capacity
                             /\ hdr[co[c].on].blocked_writer = c
                        ELSE /\ ~hdr[co[c].on].closed /\ hdr[co[c].on].count = 0
                             /\ hdr[co[c].on].blocked_reader = c
    BY DEF NoLostWakeup
  <2>1. Stands(c)
    BY DEF PipeInv
  <2>2. CASE co[c].at = "put"
    <3>1. co[c].on \in Buf /\ Putting(co[c], c, co[c].on, hdr[co[c].on], pipe[co[c].on])
      BY <2>1, <2>2 DEF Stands
    <3>2. Flow(hdr[co[c].on], pipe[co[c].on], Writers(co[c].on))
      BY <3>1 DEF PipeInv, Place
    <3> QED
      BY <2>2, <3>1, <3>2 DEF Putting, Flow
  <2>3. CASE co[c].at # "put"
    BY <2>1, <2>3 DEF Stands, Getting
  <2> QED
    BY <2>2, <2>3
<1>4. PoolChain
  BY <1>1 DEF FreeLists
<1>5. EndIsFinal
  <2> SUFFICES ASSUME NEW b \in Buf, hdr[b].consumer_dead
               PROVE  /\ hdr[b].closed /\ hdr[b].count = 0
                      /\ ~hdr[b].error => pipe[b].got = pipe[b].sent
    BY DEF EndIsFinal
  <2>1. Flow(hdr[b], pipe[b], Writers(b)) /\ pipe[b] \in Stream
    BY <1>1 DEF PipeInv, Place
  <2> QED
    BY <2>1 DEF Flow, Stream
<1> QED
  BY <1>2, <1>3, <1>4, <1>5 DEF PipesSound

\* The ring of a pipe holds exactly the values handed to pipe-put and not yet
\* received, in order, for any number of coroutines, places and classes, as
\* long as a pipe is closed by its producer or after the producer's death.
THEOREM PipesInOrder ==
  ASSUME ~ForeignClose
  PROVE  PipesSpec => []InOrder
<1>1. PipesInit => PipeInv
  BY PipesInitSound
<1>2. PipeInv /\ [PipesNext]_pipeVars => PipeInv'
  BY PipesStepSound
<1>3. PipeInv => InOrder
  BY PipesOrdered
<1> QED
  BY <1>1, <1>2, <1>3, PTL DEF PipesSpec

\* Nobody sleeps on a pipe that could serve it, the end of a stream comes after
\* its last value, and the free lists hold exactly the places no pipe uses.
THEOREM PipesServeAll ==
  ASSUME ~ForeignClose
  PROVE  PipesSpec => []PipesSound
<1>1. PipesInit => PipeInv
  BY PipesInitSound
<1>2. PipeInv /\ [PipesNext]_pipeVars => PipeInv'
  BY PipesStepSound
<1>3. PipeInv => PipesSound
  BY PipesServed
<1> QED
  BY <1>1, <1>2, <1>3, PTL DEF PipesSpec

=============================================================================
