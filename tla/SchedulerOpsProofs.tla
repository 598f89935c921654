------------------------- MODULE SchedulerOpsProofs -------------------------
(***************************************************************************)
(* Lemmas about the operators of SchedulerOps: what they do to the linked  *)
(* lists, and that each of them maps a well-typed scheduler state to a     *)
(* well-typed one.                                                         *)
(***************************************************************************)
EXTENDS SchedulerOps, WellFoundedInduction, TLAPS

\* Every non-empty set of naturals has a least element.
LEMMA LeastNatural ==
  ASSUME NEW T, T \subseteq Nat, T # {}
  PROVE  \E x \in T : \A y \in T : x <= y
<1> DEFINE R == OpToRel(<, Nat)
<1>1. IsWellFoundedOn(R, Nat)
  BY NatLessThanWellFounded
<1>2. ASSUME NEW x \in Nat, NEW y \in Nat, ~(<<y, x>> \in R)
      PROVE  x <= y
  <2>1. ~(y < x)
    BY <1>2 DEF OpToRel
  <2> QED
    BY <2>1
<1> HIDE DEF R
<1>3. PICK x \in T : \A y \in T : ~(<<y, x>> \in R)
  BY <1>1, WFMin
<1>4. \A y \in T : x <= y
  BY <1>2, <1>3
<1> QED
  BY <1>4

-----------------------------------------------------------------------------
(* Lists *)

\* Appending links exactly the new node, and keeps a list free of duplicates
\* if the node was not linked.
LEMMA AppendList ==
  ASSUME NEW q \in Seq(Ctx), NEW c \in Ctx
  PROVE  /\ Append(q, c) \in Seq(Ctx)
         /\ Elems(Append(q, c)) = Elems(q) \cup {c}
         /\ NoDup(q) /\ c \notin Elems(q) => NoDup(Append(q, c))
<1> DEFINE r == Append(q, c)
<1>1. /\ r \in Seq(Ctx)
      /\ Len(r) = Len(q) + 1
      /\ \A i \in 1..Len(q) : r[i] = q[i]
      /\ r[Len(q) + 1] = c
  OBVIOUS
<1> HIDE DEF r
<1>2. Elems(r) = Elems(q) \cup {c}
  <2>1. ASSUME NEW x \in Elems(r) PROVE x \in Elems(q) \cup {c}
    <3>1. PICK i \in 1..(Len(q) + 1) : r[i] = x
      BY <1>1 DEF Elems
    <3>2. i \in 1..Len(q) \/ i = Len(q) + 1
      OBVIOUS
    <3> QED
      BY <1>1, <3>1, <3>2 DEF Elems
  <2>2. ASSUME NEW x \in Elems(q) PROVE x \in Elems(r)
    <3>1. PICK i \in 1..Len(q) : q[i] = x
      BY DEF Elems
    <3>2. i \in 1..Len(r) /\ r[i] = x
      BY <1>1, <3>1
    <3> QED
      BY <3>2 DEF Elems
  <2>3. c \in Elems(r)
    <3>1. Len(q) + 1 \in 1..Len(r)
      BY <1>1
    <3> QED
      BY <1>1, <3>1 DEF Elems
  <2> QED
    BY <2>1, <2>2, <2>3
<1>3. NoDup(q) /\ c \notin Elems(q) => NoDup(r)
  <2>1. SUFFICES ASSUME NoDup(q), c \notin Elems(q),
                        NEW i \in 1..(Len(q) + 1), NEW j \in 1..(Len(q) + 1),
                        r[i] = r[j]
                 PROVE  i = j
    BY <1>1 DEF NoDup
  <2>2. \A k \in 1..Len(q) : q[k] # c
    BY <2>1 DEF Elems
  <2> QED
    BY <1>1, <2>1, <2>2 DEF NoDup
<1> QED
  BY <1>1, <1>2, <1>3 DEF r

\* Putting an element in front of a list.
LEMMA ConsList ==
  ASSUME NEW q \in Seq(Ctx), NEW c \in Ctx, NoDup(q), c \notin Elems(q)
  PROVE  NoDup(<<c>> \o q) /\ Elems(<<c>> \o q) = Elems(q) \cup {c}
<1> DEFINE r == <<c>> \o q
<1>1. /\ Len(r) = Len(q) + 1 /\ Len(q) \in Nat
      /\ r[1] = c
      /\ \A i \in 1..Len(q) : r[i + 1] = q[i]
  OBVIOUS
<1> HIDE DEF r
<1>2. ASSUME NEW i \in 1..Len(r), i # 1
      PROVE  i - 1 \in 1..Len(q) /\ r[i] = q[i - 1]
  <2>1. i - 1 \in 1..Len(q) /\ (i - 1) + 1 = i
    BY <1>1, <1>2
  <2> QED
    BY <1>1, <2>1
<1>3. ASSUME NEW i \in 1..Len(r), NEW j \in 1..Len(r), r[i] = r[j]
      PROVE  i = j
  <2>1. CASE i = 1 \/ j = 1
    BY <1>1, <1>2, <1>3, <2>1 DEF Elems
  <2>2. CASE i # 1 /\ j # 1
    <3>1. i - 1 = j - 1
      BY <1>2, <1>3, <2>2 DEF NoDup
    <3> QED
      BY <3>1
  <2> QED
    BY <2>1, <2>2
<1>4. ASSUME NEW x \in Elems(r) PROVE x \in Elems(q) \cup {c}
  BY <1>1, <1>2 DEF Elems
<1>5. ASSUME NEW x \in Elems(q) PROVE x \in Elems(r)
  <2>1. PICK i \in 1..Len(q) : q[i] = x
    BY DEF Elems
  <2>2. i + 1 \in 1..Len(r) /\ r[i + 1] = x
    BY <1>1, <2>1
  <2> QED
    BY <2>2 DEF Elems
<1>6. c \in Elems(r)
  BY <1>1 DEF Elems
<1>7. NoDup(r) /\ Elems(r) = Elems(q) \cup {c}
  BY <1>3, <1>4, <1>5, <1>6 DEF NoDup
<1> QED
  BY <1>7 DEF r

\* Unlinking the head.
LEMMA TailList ==
  ASSUME NEW q \in Seq(Ctx), q # << >>
  PROVE  /\ Head(q) \in Ctx
         /\ Head(q) \in Elems(q)
         /\ Tail(q) \in Seq(Ctx)
         /\ Elems(q) = Elems(Tail(q)) \cup {Head(q)}
         /\ NoDup(q) => NoDup(Tail(q)) /\ Head(q) \notin Elems(Tail(q))
<1> DEFINE r == Tail(q)
<1>1. /\ Head(q) = q[1]
      /\ Len(q) \in Nat \ {0}
      /\ r \in Seq(Ctx)
      /\ Len(r) = Len(q) - 1
      /\ \A i \in 1..Len(r) : r[i] = q[i + 1]
  OBVIOUS
<1> HIDE DEF r
<1>2. Head(q) \in Ctx /\ Head(q) \in Elems(q)
  <2>1. 1 \in 1..Len(q)
    BY <1>1
  <2> QED
    BY <1>1, <2>1 DEF Elems
<1>3. ASSUME NEW x \in Elems(q) PROVE x \in Elems(r) \cup {Head(q)}
  <2>1. PICK i \in 1..Len(q) : q[i] = x
    BY DEF Elems
  <2>2. CASE i = 1
    BY <1>1, <2>1, <2>2
  <2>3. CASE i # 1
    <3>1. i - 1 \in 1..Len(r) /\ r[i - 1] = x
      BY <1>1, <2>1, <2>3
    <3> QED
      BY <3>1 DEF Elems
  <2> QED
    BY <2>2, <2>3
<1>4. ASSUME NEW x \in Elems(r)
      PROVE  x \in Elems(q) /\ (NoDup(q) => x # Head(q))
  <2>1. PICK i \in 1..Len(r) : r[i] = x
    BY DEF Elems
  <2>2. /\ i + 1 \in 1..Len(q)
        /\ q[i + 1] = x
        /\ 1 \in 1..Len(q)
        /\ i + 1 # 1
    BY <1>1, <2>1
  <2> QED
    BY <1>1, <2>2 DEF Elems, NoDup
<1>5. ASSUME NoDup(q) PROVE NoDup(r)
  <2>1. SUFFICES ASSUME NEW i \in 1..Len(r), NEW j \in 1..Len(r), r[i] = r[j]
                 PROVE  i = j
    BY DEF NoDup
  <2>2. /\ i + 1 \in 1..Len(q)
        /\ j + 1 \in 1..Len(q)
        /\ q[i + 1] = q[j + 1]
    BY <1>1, <2>1
  <2>3. i + 1 = j + 1
    BY <1>5, <2>2 DEF NoDup
  <2> QED
    BY <2>3
<1> QED
  BY <1>1, <1>2, <1>3, <1>4, <1>5 DEF r

\* Unlinking a node wherever it is.
LEMMA WithoutList ==
  ASSUME NEW q \in Seq(Ctx), NEW c \in Ctx
  PROVE  /\ Without(q, c) \in Seq(Ctx)
         /\ NoDup(q) => /\ NoDup(Without(q, c))
                        /\ Elems(Without(q, c)) = Elems(q) \ {c}
<1>1. CASE c \in Elems(q)
  <2> DEFINE k == CHOOSE i \in 1..Len(q) : q[i] = c
             r == [j \in 1..(Len(q) - 1) |-> IF j < k THEN q[j] ELSE q[j + 1]]
  <2>1. k \in 1..Len(q) /\ q[k] = c
    BY <1>1 DEF Elems
  <2>2. Without(q, c) = r
    BY <1>1 DEF Without
  <2> HIDE DEF k
  <2>3. r \in Seq(Ctx) /\ Len(r) = Len(q) - 1
    <3>1. Len(q) \in Nat /\ Len(q) - 1 \in Nat
      BY <2>1
    <3>2. \A j \in 1..(Len(q) - 1) : r[j] \in Ctx
      BY <2>1
    <3> QED
      BY <3>1, <3>2
  <2>4. ASSUME NoDup(q), NEW x \in Elems(r) PROVE x \in Elems(q) \ {c}
    <3>1. PICK i \in 1..(Len(q) - 1) : r[i] = x
      BY <2>3 DEF Elems
    <3>2. CASE i < k
      <4>1. x = q[i]
        BY <3>1, <3>2
      <4> QED
        BY <4>1, <3>2, <2>1, <2>4 DEF Elems, NoDup
    <3>3. CASE ~(i < k)
      <4>1. x = q[i + 1]
        BY <3>1, <3>3
      <4> QED
        BY <4>1, <3>3, <2>1, <2>4 DEF Elems, NoDup
    <3> QED
      BY <3>2, <3>3
  <2>5. ASSUME NEW x \in Elems(q) \ {c} PROVE x \in Elems(r)
    <3>1. PICK i \in 1..Len(q) : q[i] = x
      BY DEF Elems
    <3>2. CASE i < k
      BY <3>1, <3>2, <2>1, <2>3 DEF Elems
    <3>3. CASE i > k
      <4>1. i - 1 \in 1..(Len(q) - 1) /\ r[i - 1] = x
        BY <3>1, <3>3, <2>1, <2>3
      <4> QED
        BY <4>1, <2>3 DEF Elems
    <3> QED
      BY <3>1, <3>2, <3>3, <2>1
  <2>6. NoDup(q) => NoDup(r)
    BY <2>1, <2>3 DEF NoDup
  <2> QED
    BY <2>2, <2>3, <2>4, <2>5, <2>6
<1>2. CASE c \notin Elems(q)
  BY <1>2 DEF Without
<1> QED
  BY <1>1, <1>2

\* Linking a node in front of position k.
LEMMA InsertList ==
  ASSUME NEW q \in Seq(Ctx), NEW c \in Ctx, NEW k \in 1..(Len(q) + 1)
  PROVE  /\ InsertBefore(q, k, c) \in Seq(Ctx)
         /\ Elems(InsertBefore(q, k, c)) = Elems(q) \cup {c}
         /\ NoDup(q) /\ c \notin Elems(q) => NoDup(InsertBefore(q, k, c))
<1> DEFINE r == InsertBefore(q, k, c)
<1>1. /\ r \in Seq(Ctx)
      /\ Len(r) = Len(q) + 1
      /\ \A j \in 1..Len(r) :
            r[j] = IF j < k THEN q[j] ELSE IF j = k THEN c ELSE q[j - 1]
  <2>1. \A j \in 1..(Len(q) + 1) :
          (IF j < k THEN q[j] ELSE IF j = k THEN c ELSE q[j - 1]) \in Ctx
    OBVIOUS
  <2> QED
    BY <2>1 DEF InsertBefore
<1> HIDE DEF r
<1>2. ASSUME NEW x \in Elems(r) PROVE x \in Elems(q) \cup {c}
  <2>1. PICK j \in 1..(Len(q) + 1) : r[j] = x
    BY <1>1 DEF Elems
  <2>2. CASE j < k
    <3>1. j \in 1..Len(q) /\ q[j] = x
      BY <1>1, <2>1, <2>2
    <3> QED
      BY <3>1 DEF Elems
  <2>3. CASE j = k
    BY <1>1, <2>1, <2>3
  <2>4. CASE j > k
    <3>1. j - 1 \in 1..Len(q) /\ q[j - 1] = x
      BY <1>1, <2>1, <2>4
    <3> QED
      BY <3>1 DEF Elems
  <2> QED
    BY <2>2, <2>3, <2>4
<1>3. ASSUME NEW x \in Elems(q) PROVE x \in Elems(r)
  <2>1. PICK i \in 1..Len(q) : q[i] = x
    BY DEF Elems
  <2>2. CASE i < k
    <3>1. i \in 1..Len(r) /\ r[i] = x
      BY <1>1, <2>1, <2>2
    <3> QED
      BY <3>1 DEF Elems
  <2>3. CASE i >= k
    <3>1. i + 1 \in 1..Len(r) /\ r[i + 1] = x
      BY <1>1, <2>1, <2>3
    <3> QED
      BY <3>1 DEF Elems
  <2> QED
    BY <2>2, <2>3
<1>4. c \in Elems(r)
  BY <1>1 DEF Elems
<1>5. NoDup(q) /\ c \notin Elems(q) => NoDup(r)
  <2>1. SUFFICES ASSUME NoDup(q), c \notin Elems(q),
                        NEW i \in 1..(Len(q) + 1), NEW j \in 1..(Len(q) + 1),
                        r[i] = r[j]
                 PROVE  i = j
    BY <1>1 DEF NoDup
  <2>2. \A n \in 1..Len(q) : q[n] # c
    BY <2>1 DEF Elems
  <2>3. \A m, n \in 1..Len(q) : q[m] = q[n] => m = n
    BY <2>1 DEF NoDup
  <2> DEFINE old(m) == IF m < k THEN m ELSE m - 1
  <2>4. ASSUME NEW m \in 1..(Len(q) + 1), m # k
        PROVE  old(m) \in 1..Len(q) /\ r[m] = q[old(m)]
    BY <1>1, <2>4
  <2>5. r[k] = c
    BY <1>1
  <2>6. CASE i = k \/ j = k
    BY <2>1, <2>2, <2>4, <2>5, <2>6
  <2>7. CASE i # k /\ j # k
    <3>1. old(i) = old(j)
      BY <2>1, <2>3, <2>4, <2>7
    <3> QED
      BY <3>1, <2>7
  <2> QED
    BY <2>6, <2>7
<1> QED
  BY <1>1, <1>2, <1>3, <1>4, <1>5 DEF r

-----------------------------------------------------------------------------
(* Well-typed states *)

\* The type of each field.
LEMMA Fields ==
  ASSUME NEW s \in SchedType
  PROVE  /\ s.status \in [Ctx -> Statuses]
         /\ s.susp \subseteq Ctx
         /\ s.blk \subseteq Ctx
         /\ s.hi \subseteq Ctx
         /\ s.left \in [Ctx -> 0..MaxSleep]
         /\ s.joiner \in [Ctx -> CtxOrNone]
         /\ s.high \in Seq(Ctx)
         /\ s.norm \in Seq(Ctx)
         /\ s.timers \in Seq(Ctx)
         /\ s.stdin \in CtxOrNone
         /\ s.running \in CtxOrNone
         /\ s.cont \in [Ctx -> Conts]
         /\ s.on \in [Ctx -> CtxOrNone]
         /\ s.reg \subseteq Ctx
         /\ s.free \in Seq(Ctx)
         /\ s.live \in Nat
  BY DEF SchedType

\* The initial state is well typed, and each operator keeps a state so.
LEMMA InitType == InitSched \in SchedType
<1>1. << >> \in Seq(Ctx)
  OBVIOUS
<1>2. 0 \in 0..MaxSleep
  BY SleepAssumption
<1> QED
  BY <1>1, <1>2, CtxAssumption
     DEF InitSched, SchedType, Statuses, Conts, CtxOrNone

\* Queueing.
LEMMA PushType ==
  ASSUME NEW s \in SchedType, NEW c \in Ctx
  PROVE  ready_queue_push(s, c) \in SchedType
<1>1. Append(s.high, c) \in Seq(Ctx) /\ Append(s.norm, c) \in Seq(Ctx)
  BY Fields, AppendList
<1> QED
  BY <1>1 DEF ready_queue_push, SchedType

\* Unlinking from a ready queue or the timer list.
LEMMA RemoveType ==
  ASSUME NEW s \in SchedType, NEW c \in Ctx
  PROVE  /\ ready_queue_remove(s, c) \in SchedType
         /\ timer_list_remove(s, c) \in SchedType
<1>1. /\ Without(s.high, c) \in Seq(Ctx)
      /\ Without(s.norm, c) \in Seq(Ctx)
      /\ Without(s.timers, c) \in Seq(Ctx)
  BY Fields, WithoutList
<1> QED
  BY <1>1 DEF ready_queue_remove, timer_list_remove, SchedType

\* The insertion point exists: the search stops at the end of the list.
LEMMA TimerSlotExists ==
  ASSUME NEW s \in SchedType, NEW c \in Ctx
  PROVE  LET k == TimerSlot(s, c)
         IN  /\ k \in 1..(Len(s.timers) + 1)
             /\ k <= Len(s.timers) => s.left[c] < s.left[s.timers[k]]
             /\ \A i \in 1..(k - 1) : ~(s.left[c] < s.left[s.timers[i]])
<1> DEFINE n == Len(s.timers)
           Later(i) == i <= n => s.left[c] < s.left[s.timers[i]]
           T == {i \in 1..(n + 1) : Later(i)}
<1>1. n \in Nat
  BY Fields
<1>2. n + 1 \in T
  BY <1>1
<1>3. PICK k \in T : \A i \in T : k <= i
  <2>1. T \subseteq Nat
    BY <1>1
  <2> QED
    BY <1>2, <2>1, LeastNatural
<1>4. \A i \in 1..(k - 1) : ~(s.left[c] < s.left[s.timers[i]])
  <2>1. SUFFICES ASSUME NEW i \in 1..(k - 1), s.left[c] < s.left[s.timers[i]]
                 PROVE  FALSE
    OBVIOUS
  <2>2. i \in T
    BY <1>1, <2>1
  <2> QED
    BY <1>1, <1>3, <2>2
<1>5. \E j \in 1..(n + 1) :
         /\ Later(j)
         /\ \A i \in 1..(j - 1) : ~(s.left[c] < s.left[s.timers[i]])
  BY <1>3, <1>4
<1> QED
  BY <1>5 DEF TimerSlot

\* Linking into the timer list.
LEMMA InsertType ==
  ASSUME NEW s \in SchedType, NEW c \in Ctx
  PROVE  timer_list_insert(s, c) \in SchedType
<1>1. InsertBefore(s.timers, TimerSlot(s, c), c) \in Seq(Ctx)
  BY Fields, TimerSlotExists, InsertList
<1> QED
  BY <1>1 DEF timer_list_insert, SchedType

\* The tail of every wake-up.
LEMMA MakeReadyType ==
  ASSUME NEW s \in SchedType, NEW c \in Ctx
  PROVE  MakeReady(s, c) \in SchedType
<1> DEFINE t == [s EXCEPT !.status[c] = "Ready", !.blk = @ \ {c}]
<1>1. t \in SchedType
  BY DEF SchedType, Statuses
<1> HIDE DEF t
<1>2. ready_queue_push(t, c) \in SchedType
  BY <1>1, PushType
<1> QED
  BY <1>1, <1>2 DEF MakeReady, t

\* coroutine_wake, which accepts nulloffset.
LEMMA WakeType ==
  ASSUME NEW s \in SchedType, NEW c \in CtxOrNone
  PROVE  coroutine_wake(s, c) \in SchedType
<1>1. CASE c \in Ctx
  <2> DEFINE t == IF c \in s.blk THEN s ELSE timer_list_remove(s, c)
             u == [t EXCEPT !.stdin = IF @ = c THEN NoCtx ELSE @]
  <2>1. t \in SchedType
    BY <1>1, RemoveType
  <2> HIDE DEF t
  <2>2. u \in SchedType
    BY <2>1 DEF SchedType, CtxOrNone
  <2> HIDE DEF u
  <2>3. MakeReady(u, c) \in SchedType
    BY <1>1, <2>2, MakeReadyType
  <2> QED
    BY <2>3 DEF coroutine_wake, t, u
<1>2. CASE c = NoCtx
  BY <1>2 DEF coroutine_wake
<1> QED
  BY <1>1, <1>2 DEF CtxOrNone

\* Blocking.
LEMMA BlockType ==
  ASSUME NEW s \in SchedType, NEW c \in Ctx
  PROVE  Block(s, c) \in SchedType
  BY DEF Block, SchedType, Statuses, CtxOrNone

\* Yielding.
LEMMA YieldType ==
  ASSUME NEW s \in SchedType, NEW c \in Ctx
  PROVE  YieldCpu(s, c) \in SchedType
<1> DEFINE t == [s EXCEPT !.status[c] = "Ready", !.running = NoCtx]
<1>1. t \in SchedType
  BY DEF SchedType, Statuses, CtxOrNone
<1> HIDE DEF t
<1>2. ready_queue_push(t, c) \in SchedType
  BY <1>1, PushType
<1> QED
  BY <1>2 DEF YieldCpu, t

\* A timed sleep.
LEMMA SleepType ==
  ASSUME NEW s \in SchedType, NEW c \in Ctx, NEW d \in 0..MaxSleep
  PROVE  SleepFor(s, c, d) \in SchedType
<1> DEFINE t == [s EXCEPT !.status[c] = "Sleeping", !.left[c] = d,
                          !.running = NoCtx]
<1>1. t \in SchedType
  BY DEF SchedType, Statuses, CtxOrNone
<1> HIDE DEF t
<1>2. timer_list_insert(t, c) \in SchedType
  BY <1>1, InsertType
<1> QED
  BY <1>2 DEF SleepFor, t

\* Allocation.
LEMMA NewContextType ==
  ASSUME NEW s \in SchedType, NEW d \in Ctx
  PROVE  NewContext(s, d) \in SchedType
<1>1. (IF s.free # << >> THEN Tail(s.free) ELSE s.free) \in Seq(Ctx)
  BY Fields, TailList
<1> DEFINE f == [s EXCEPT !.free   = IF @ # << >> THEN Tail(@) ELSE @,
                         !.status[d] = "Ready",
                         !.susp   = @ \ {d},
                         !.blk    = @ \ {d},
                         !.hi     = @ \ {d}]
<1>2. f \in SchedType
  BY <1>1 DEF SchedType, Statuses
<1> DEFINE left   == [f.left EXCEPT ![d] = 0]
           joiner == [f.joiner EXCEPT ![d] = NoCtx]
           cont   == [f.cont EXCEPT ![d] = "proc"]
           on     == [f.on EXCEPT ![d] = NoCtx]
           reg    == f.reg \cup {d}
<1>3. NewContext(s, d) = [f EXCEPT !.left = left, !.joiner = joiner,
                                   !.cont = cont, !.on = on, !.reg = reg]
  BY DEF NewContext
<1> HIDE DEF f
<1>4. /\ left \in [Ctx -> 0..MaxSleep]
      /\ joiner \in [Ctx -> CtxOrNone]
      /\ cont \in [Ctx -> Conts]
      /\ on \in [Ctx -> CtxOrNone]
      /\ reg \subseteq Ctx
  <2>1. 0 \in 0..MaxSleep
    BY SleepAssumption
  <2> QED
    BY <1>2, <2>1, Fields DEF Conts, CtxOrNone
<1> HIDE DEF left, joiner, cont, on, reg
<1>5. [f EXCEPT !.left = left, !.joiner = joiner,
                !.cont = cont, !.on = on, !.reg = reg] \in SchedType
  BY <1>2, <1>4 DEF SchedType
<1> QED
  BY <1>3, <1>5

\* Launching.
LEMMA LaunchType ==
  ASSUME NEW s \in SchedType, NEW d \in Ctx
  PROVE  coroutine_launch(s, d) \in SchedType
<1> DEFINE t == ready_queue_push(NewContext(s, d), d)
<1>1. t \in SchedType
  BY NewContextType, PushType
<1> HIDE DEF t
<1>2. [t EXCEPT !.live = @ + 1] \in SchedType
  <2>1. t.live + 1 \in Nat
    BY <1>1, Fields
  <2> QED
    BY <1>1, <2>1 DEF SchedType
<1> QED
  BY <1>2 DEF coroutine_launch, t

\* Leaving the scheduling lists.
LEMMA UnscheduleType ==
  ASSUME NEW s \in SchedType, NEW c \in Ctx
  PROVE  Unschedule(s, c) \in SchedType
  BY RemoveType DEF Unschedule

\* A kill, up to the wake-up of the joiner.
LEMMA KillType ==
  ASSUME NEW s \in SchedType, NEW c \in Ctx
  PROVE  coroutine_kill(s, c) \in SchedType
<1> DEFINE u == Unschedule(s, c)
           t == coroutine_scrub_registrations(u, c)
           b == [t EXCEPT !.stdin = IF @ = c THEN NoCtx ELSE @,
                          !.status[c] = "Dead",
                          !.susp = @ \ {c},
                          !.blk  = @ \ {c},
                          !.live = IF @ > 0 THEN @ - 1 ELSE 0]
           j == b.joiner[c]
           w == IF j # NoCtx /\ b.status[j] = "Sleeping" THEN MakeReady(b, j) ELSE b
           r == [w EXCEPT !.joiner[c] = NoCtx]
<1>1. u \in SchedType
  BY UnscheduleType
<1> HIDE DEF u
<1>2. t \in SchedType
  BY <1>1 DEF coroutine_scrub_registrations, SchedType, CtxOrNone
<1> HIDE DEF t
<1>3. b \in SchedType
  <2>1. (IF t.live > 0 THEN t.live - 1 ELSE 0) \in Nat
    BY <1>2, Fields
  <2> QED
    BY <1>2, <2>1, ZenonT(40) DEF SchedType, Statuses, CtxOrNone
<1> HIDE DEF b
<1>4. j \in CtxOrNone
  BY <1>3, Fields
<1> HIDE DEF j
<1>5. w \in SchedType
  BY <1>3, <1>4, MakeReadyType DEF CtxOrNone
<1> HIDE DEF w
<1>6. r \in SchedType
  BY <1>5 DEF SchedType, CtxOrNone
<1> QED
  BY <1>6 DEF coroutine_kill, WakeJoiner, Bury, r, w, j, b, t, u

\* kill-all.
LEMMA KillAllType ==
  ASSUME NEW s \in SchedType
  PROVE  coroutine_kill_all(s) \in SchedType
<1> DEFINE status == [t \in Ctx |-> IF t \in Victims(s) THEN "Dead"
                                    ELSE IF t = Main /\ MainWoken(s) THEN "Ready"
                                    ELSE s.status[t]]
           joiner == [t \in Ctx |-> IF t \in Victims(s) \/ s.joiner[t] \in Victims(s)
                                    THEN NoCtx ELSE s.joiner[t]]
           susp   == s.susp \ Victims(s)
           blk    == s.blk \ (Victims(s) \cup IF MainWoken(s) THEN {Main} ELSE {})
           stdin  == IF s.stdin \in Victims(s) THEN NoCtx ELSE s.stdin
           r == [s EXCEPT !.status = status, !.susp = susp, !.blk = blk,
                          !.joiner = joiner, !.stdin = stdin,
                          !.high = << >>, !.norm = << >>, !.timers = << >>,
                          !.live = 0]
<1>1. /\ status \in [Ctx -> Statuses]
      /\ joiner \in [Ctx -> CtxOrNone]
      /\ susp \subseteq Ctx
      /\ blk \subseteq Ctx
      /\ stdin \in CtxOrNone
  BY Fields DEF Statuses, CtxOrNone
<1>2. coroutine_kill_all(s) = r
  BY DEF coroutine_kill_all
<1> HIDE DEF status, joiner, susp, blk, stdin
<1>3. << >> \in Seq(Ctx) /\ 0 \in Nat
  OBVIOUS
<1>4. r \in SchedType
  BY <1>1, <1>3 DEF SchedType
<1> QED
  BY <1>2, <1>4

\* Releasing a context.
LEMMA FreeContextType ==
  ASSUME NEW s \in SchedType, NEW t \in Ctx
  PROVE  coroutine_free_context(s, t) \in SchedType
<1>1. <<t>> \o s.free \in Seq(Ctx)
  BY Fields
<1> QED
  BY <1>1 DEF coroutine_free_context, SchedType

\* Loading a coroutine.
LEMMA LoadType ==
  ASSUME NEW s \in SchedType, NEW c \in Ctx
  PROVE  coroutine_load(s, c) \in SchedType
  BY DEF coroutine_load, SchedType, Statuses, CtxOrNone

\* Popping a ready queue and loading.
LEMMA LoadNextType ==
  ASSUME NEW s \in SchedType, SomeReady(s)
  PROVE  LoadNext(s) \in SchedType
<1>1. CASE s.high # << >>
  <2> DEFINE t == [s EXCEPT !.high = Tail(@)]
  <2>1. Head(s.high) \in Ctx /\ Tail(s.high) \in Seq(Ctx)
    BY <1>1, Fields, TailList
  <2>2. t \in SchedType
    BY <2>1 DEF SchedType
  <2> HIDE DEF t
  <2>3. coroutine_load(t, Head(s.high)) \in SchedType
    BY <2>1, <2>2, LoadType
  <2> QED
    BY <1>1, <2>3 DEF LoadNext, t
<1>2. CASE s.high = << >>
  <2> DEFINE t == [s EXCEPT !.norm = Tail(@)]
  <2>1. Head(s.norm) \in Ctx /\ Tail(s.norm) \in Seq(Ctx)
    BY <1>2, Fields, TailList DEF SomeReady
  <2>2. t \in SchedType
    BY <2>1 DEF SchedType
  <2> HIDE DEF t
  <2>3. coroutine_load(t, Head(s.norm)) \in SchedType
    BY <2>1, <2>2, LoadType
  <2> QED
    BY <1>2, <2>3 DEF LoadNext, t
<1> QED
  BY <1>1, <1>2

\* Sweeping an expired timer.
LEMMA SweepHeadType ==
  ASSUME NEW s \in SchedType, HeadExpired(s)
  PROVE  SweepHead(s) \in SchedType
<1> DEFINE c == Head(s.timers)
           t == [s EXCEPT !.timers = Tail(@),
                          !.stdin  = IF @ = c THEN NoCtx ELSE @]
           u == [t EXCEPT !.status[c] = "Ready"]
<1>1. c \in Ctx /\ Tail(s.timers) \in Seq(Ctx)
  BY Fields, TailList DEF HeadExpired
<1> HIDE DEF c
<1>2. t \in SchedType
  BY <1>1 DEF SchedType, CtxOrNone
<1> HIDE DEF t
<1>3. u \in SchedType
  BY <1>1, <1>2 DEF SchedType, Statuses
<1> HIDE DEF u
<1>4. ready_queue_push(u, c) \in SchedType
  BY <1>1, <1>3, PushType
<1> QED
  BY <1>2, <1>4 DEF SweepHead, c, t, u

\* The clock.
LEMMA ElapseType ==
  ASSUME NEW s \in SchedType
  PROVE  Elapse(s) \in SchedType
<1>1. [c \in Ctx |-> IF c \in Elems(s.timers) /\ s.left[c] > 0
                       THEN s.left[c] - 1 ELSE s.left[c]] \in [Ctx -> 0..MaxSleep]
  BY Fields, SleepAssumption
<1> QED
  BY <1>1 DEF Elapse, SchedType

-----------------------------------------------------------------------------
(* What the operators leave alone *)

\* Continuations, registry and free list: no scheduling operator touches them.
SamePrograms(s, t) ==
  /\ t.cont = s.cont
  /\ t.on = s.on
  /\ t.reg = s.reg
  /\ t.free = s.free

SameLinks(s, t) ==
  /\ t.joiner = s.joiner
  /\ t.running = s.running
  /\ t.live = s.live

SameFlags(s, t) ==
  /\ t.status = s.status
  /\ t.susp = s.susp
  /\ t.blk = s.blk
  /\ t.hi = s.hi
  /\ t.left = s.left
  /\ t.stdin = s.stdin

\* ready_queue_push appends to the queue of the tier and touches nothing else.
LEMMA PushFrame ==
  ASSUME NEW s \in SchedType, NEW c \in Ctx
  PROVE  LET r == ready_queue_push(s, c)
         IN  /\ SamePrograms(s, r) /\ SameLinks(s, r) /\ SameFlags(s, r)
             /\ r.timers = s.timers
             /\ r.high = IF c \in s.hi THEN Append(s.high, c) ELSE s.high
             /\ r.norm = IF c \in s.hi THEN s.norm ELSE Append(s.norm, c)
  BY DEF ready_queue_push, SchedType, SamePrograms, SameLinks, SameFlags

\* ready_queue_remove unlinks from it.
LEMMA RemoveFrame ==
  ASSUME NEW s \in SchedType, NEW c \in Ctx
  PROVE  LET r == ready_queue_remove(s, c)
         IN  /\ SamePrograms(s, r) /\ SameLinks(s, r) /\ SameFlags(s, r)
             /\ r.timers = s.timers
             /\ r.high = IF c \in s.hi THEN Without(s.high, c) ELSE s.high
             /\ r.norm = IF c \in s.hi THEN s.norm ELSE Without(s.norm, c)
  BY DEF ready_queue_remove, SchedType, SamePrograms, SameLinks, SameFlags

\* The timer list operations touch the timer list only.
LEMMA TimerFrame ==
  ASSUME NEW s \in SchedType, NEW c \in Ctx
  PROVE  /\ LET r == timer_list_insert(s, c)
            IN  /\ SamePrograms(s, r) /\ SameLinks(s, r) /\ SameFlags(s, r)
                /\ r.high = s.high /\ r.norm = s.norm
                /\ r.timers = InsertBefore(s.timers, TimerSlot(s, c), c)
         /\ LET r == timer_list_remove(s, c)
            IN  /\ SamePrograms(s, r) /\ SameLinks(s, r) /\ SameFlags(s, r)
                /\ r.high = s.high /\ r.norm = s.norm
                /\ r.timers = Without(s.timers, c)
  BY DEF timer_list_insert, timer_list_remove, SchedType,
         SamePrograms, SameLinks, SameFlags

\* A wake-up changes status and FlagBlocked of the one woken.
LEMMA MakeReadyFrame ==
  ASSUME NEW s \in SchedType, NEW c \in Ctx
  PROVE  LET r == MakeReady(s, c)
         IN  /\ SamePrograms(s, r) /\ SameLinks(s, r)
             /\ r.status = [s.status EXCEPT ![c] = "Ready"]
             /\ r.blk = s.blk \ {c}
             /\ r.susp = s.susp /\ r.hi = s.hi /\ r.left = s.left
             /\ r.stdin = s.stdin
             /\ r.timers = s.timers
<1> DEFINE t == [s EXCEPT !.status[c] = "Ready", !.blk = @ \ {c}]
<1>1. t \in SchedType
  BY DEF SchedType, Statuses
<1>2. /\ SamePrograms(s, t) /\ SameLinks(s, t)
      /\ t.status = [s.status EXCEPT ![c] = "Ready"]
      /\ t.blk = s.blk \ {c}
      /\ t.susp = s.susp /\ t.hi = s.hi /\ t.left = s.left
      /\ t.stdin = s.stdin
      /\ t.timers = s.timers
  BY DEF SchedType, SamePrograms, SameLinks
<1>3. MakeReady(s, c) = IF c \in s.susp THEN t ELSE ready_queue_push(t, c)
  BY DEF MakeReady
<1> HIDE DEF t
<1> QED
  BY <1>1, <1>2, <1>3, PushFrame DEF SamePrograms, SameLinks, SameFlags

\* coroutine_wake leaves programs and registrations alone.
LEMMA WakeFrame ==
  ASSUME NEW s \in SchedType, NEW c \in CtxOrNone
  PROVE  LET r == coroutine_wake(s, c)
         IN  SamePrograms(s, r) /\ SameLinks(s, r)
<1>1. CASE c \in Ctx
  <2> DEFINE t == IF c \in s.blk THEN s ELSE timer_list_remove(s, c)
             u == [t EXCEPT !.stdin = IF @ = c THEN NoCtx ELSE @]
  <2>1. t \in SchedType /\ SamePrograms(s, t) /\ SameLinks(s, t)
    BY <1>1, RemoveType, TimerFrame DEF SamePrograms, SameLinks
  <2> HIDE DEF t
  <2>2. u \in SchedType /\ SamePrograms(s, u) /\ SameLinks(s, u)
    BY <2>1 DEF SchedType, CtxOrNone, SamePrograms, SameLinks
  <2>3. coroutine_wake(s, c) = s \/ coroutine_wake(s, c) = MakeReady(u, c)
    BY DEF coroutine_wake, t
  <2> HIDE DEF u
  <2>4. SamePrograms(u, MakeReady(u, c)) /\ SameLinks(u, MakeReady(u, c))
    BY <1>1, <2>2, MakeReadyFrame
  <2> QED
    BY <2>2, <2>3, <2>4 DEF SamePrograms, SameLinks
<1>2. CASE c = NoCtx
  BY <1>2 DEF coroutine_wake, SamePrograms, SameLinks
<1> QED
  BY <1>1, <1>2 DEF CtxOrNone

\* Blocking changes status and FlagBlocked of the running coroutine.
LEMMA BlockFrame ==
  ASSUME NEW s \in SchedType, NEW c \in Ctx
  PROVE  LET r == Block(s, c)
         IN  /\ SamePrograms(s, r)
             /\ r.joiner = s.joiner /\ r.live = s.live /\ r.running = NoCtx
             /\ r.status = [s.status EXCEPT ![c] = "Sleeping"]
             /\ r.blk = s.blk \cup {c}
             /\ r.susp = s.susp /\ r.hi = s.hi /\ r.left = s.left
             /\ r.stdin = s.stdin
             /\ r.high = s.high /\ r.norm = s.norm /\ r.timers = s.timers
  BY DEF Block, SchedType, SamePrograms

\* Yielding changes its status.
LEMMA YieldFrame ==
  ASSUME NEW s \in SchedType, NEW c \in Ctx
  PROVE  LET r == YieldCpu(s, c)
         IN  /\ SamePrograms(s, r)
             /\ r.joiner = s.joiner /\ r.live = s.live /\ r.running = NoCtx
             /\ r.status = [s.status EXCEPT ![c] = "Ready"]
             /\ r.blk = s.blk /\ r.susp = s.susp /\ r.hi = s.hi
             /\ r.left = s.left
             /\ r.stdin = s.stdin
             /\ r.timers = s.timers
<1> DEFINE t == [s EXCEPT !.status[c] = "Ready", !.running = NoCtx]
<1>1. t \in SchedType
  BY DEF SchedType, Statuses, CtxOrNone
<1>2. /\ SamePrograms(s, t)
      /\ t.joiner = s.joiner /\ t.live = s.live /\ t.running = NoCtx
      /\ t.status = [s.status EXCEPT ![c] = "Ready"]
      /\ t.blk = s.blk /\ t.susp = s.susp /\ t.hi = s.hi
      /\ t.left = s.left
      /\ t.stdin = s.stdin
      /\ t.timers = s.timers
  BY DEF SchedType, SamePrograms
<1>3. YieldCpu(s, c) = ready_queue_push(t, c)
  BY DEF YieldCpu
<1> HIDE DEF t
<1> QED
  BY <1>1, <1>2, <1>3, PushFrame DEF SamePrograms, SameLinks, SameFlags

\* A timed sleep changes its status and its wake time.
LEMMA SleepFrame ==
  ASSUME NEW s \in SchedType, NEW c \in Ctx, NEW d \in 0..MaxSleep
  PROVE  LET r == SleepFor(s, c, d)
         IN  /\ SamePrograms(s, r)
             /\ r.joiner = s.joiner /\ r.live = s.live /\ r.running = NoCtx
             /\ r.status = [s.status EXCEPT ![c] = "Sleeping"]
             /\ r.left = [s.left EXCEPT ![c] = d]
             /\ r.blk = s.blk /\ r.susp = s.susp /\ r.hi = s.hi
             /\ r.stdin = s.stdin
             /\ r.high = s.high /\ r.norm = s.norm
<1> DEFINE t == [s EXCEPT !.status[c] = "Sleeping", !.left[c] = d,
                          !.running = NoCtx]
<1>1. t \in SchedType
  BY DEF SchedType, Statuses, CtxOrNone
<1>2. /\ SamePrograms(s, t)
      /\ t.joiner = s.joiner /\ t.live = s.live /\ t.running = NoCtx
      /\ t.status = [s.status EXCEPT ![c] = "Sleeping"]
      /\ t.left = [s.left EXCEPT ![c] = d]
      /\ t.blk = s.blk /\ t.susp = s.susp /\ t.hi = s.hi
      /\ t.stdin = s.stdin
      /\ t.high = s.high /\ t.norm = s.norm
  BY DEF SchedType, SamePrograms
<1>3. SleepFor(s, c, d) = timer_list_insert(t, c)
  BY DEF SleepFor
<1> HIDE DEF t
<1> QED
  BY <1>1, <1>2, <1>3, TimerFrame DEF SamePrograms, SameLinks, SameFlags

\* What allocation initialises.
LEMMA NewContextFrame ==
  ASSUME NEW s \in SchedType, NEW d \in Ctx
  PROVE  LET r == NewContext(s, d)
         IN  /\ r.free = IF s.free # << >> THEN Tail(s.free) ELSE s.free
             /\ r.status = [s.status EXCEPT ![d] = "Ready"]
             /\ r.susp = s.susp \ {d}
             /\ r.blk = s.blk \ {d}
             /\ r.hi = s.hi \ {d}
             /\ r.left = [s.left EXCEPT ![d] = 0]
             /\ r.joiner = [s.joiner EXCEPT ![d] = NoCtx]
             /\ r.cont = [s.cont EXCEPT ![d] = "proc"]
             /\ r.on = [s.on EXCEPT ![d] = NoCtx]
             /\ r.reg = s.reg \cup {d}
             /\ r.high = s.high /\ r.norm = s.norm /\ r.timers = s.timers
             /\ r.stdin = s.stdin /\ r.running = s.running /\ r.live = s.live
  BY DEF NewContext, SchedType

\* Launching adds the queueing and the count.
LEMMA LaunchFrame ==
  ASSUME NEW s \in SchedType, NEW d \in Ctx
  PROVE  LET n == NewContext(s, d)
             r == coroutine_launch(s, d)
         IN  /\ SamePrograms(n, r) /\ SameFlags(n, r)
             /\ r.joiner = n.joiner /\ r.running = n.running
             /\ r.live = s.live + 1
             /\ r.timers = n.timers
             /\ r.high = ready_queue_push(n, d).high
             /\ r.norm = ready_queue_push(n, d).norm
<1> DEFINE n == NewContext(s, d)
           t == ready_queue_push(n, d)
<1>1. n \in SchedType /\ t \in SchedType
  BY NewContextType, PushType
<1>2. n.live = s.live
  BY NewContextFrame
<1>3. coroutine_launch(s, d) = [t EXCEPT !.live = @ + 1]
  BY DEF coroutine_launch
<1> HIDE DEF n
<1>4. SamePrograms(n, t) /\ SameLinks(n, t) /\ SameFlags(n, t) /\ t.timers = n.timers
  BY <1>1, PushFrame
<1> HIDE DEF t
<1>5. LET r == [t EXCEPT !.live = @ + 1]
      IN  /\ SamePrograms(t, r) /\ SameFlags(t, r)
          /\ r.joiner = t.joiner /\ r.running = t.running
          /\ r.live = t.live + 1
          /\ r.timers = t.timers /\ r.high = t.high /\ r.norm = t.norm
  BY <1>1 DEF SchedType, SamePrograms, SameFlags
<1> QED
  BY <1>2, <1>3, <1>4, <1>5 DEF SamePrograms, SameLinks, SameFlags, n, t

\* Leaving the scheduling lists changes no flag and no registration.
LEMMA UnscheduleFrame ==
  ASSUME NEW s \in SchedType, NEW c \in Ctx
  PROVE  LET r == Unschedule(s, c)
         IN  SamePrograms(s, r) /\ SameLinks(s, r) /\ SameFlags(s, r)
  BY RemoveFrame, TimerFrame
     DEF Unschedule, SamePrograms, SameLinks, SameFlags

\* r is s after the death of c, with the ready queues and timers of u.
Buried(s, c, u, r) ==
  /\ SamePrograms(s, r)
  /\ r.running = s.running
  /\ \A t \in Ctx : r.joiner[t] = IF t \in s.reg /\ s.joiner[t] = c
                                    THEN NoCtx ELSE s.joiner[t]
  /\ r.status = [s.status EXCEPT ![c] = "Dead"]
  /\ r.susp = s.susp \ {c}
  /\ r.blk = s.blk \ {c}
  /\ r.hi = s.hi /\ r.left = s.left
  /\ r.stdin = IF s.stdin = c THEN NoCtx ELSE s.stdin
  /\ r.live = IF s.live > 0 THEN s.live - 1 ELSE 0
  /\ r.high = u.high /\ r.norm = u.norm /\ r.timers = u.timers

\* The first part of a kill.
LEMMA BuryFrame ==
  ASSUME NEW s \in SchedType, NEW c \in Ctx
  PROVE  Bury(s, c) \in SchedType /\ Buried(s, c, Unschedule(s, c), Bury(s, c))
<1> DEFINE u == Unschedule(s, c)
           t == coroutine_scrub_registrations(u, c)
           b == [t EXCEPT !.stdin = IF @ = c THEN NoCtx ELSE @,
                          !.status[c] = "Dead",
                          !.susp = @ \ {c},
                          !.blk  = @ \ {c},
                          !.live = IF @ > 0 THEN @ - 1 ELSE 0]
<1>1. /\ u \in SchedType
      /\ SamePrograms(s, u) /\ SameLinks(s, u) /\ SameFlags(s, u)
  BY UnscheduleType, UnscheduleFrame
<1>2. Bury(s, c) = b
  BY DEF Bury
<1> HIDE DEF u
<1>3. /\ t \in SchedType
      /\ SamePrograms(u, t) /\ SameFlags(u, t)
      /\ t.joiner = [x \in Ctx |-> IF x \in u.reg /\ u.joiner[x] = c
                                    THEN NoCtx ELSE u.joiner[x]]
      /\ t.running = u.running /\ t.live = u.live
      /\ t.high = u.high /\ t.norm = u.norm /\ t.timers = u.timers
  BY <1>1 DEF coroutine_scrub_registrations, SchedType, CtxOrNone,
              SamePrograms, SameFlags
<1> HIDE DEF t
<1>4. (IF t.live > 0 THEN t.live - 1 ELSE 0) \in Nat
  BY <1>3, Fields
<1>5. /\ b \in SchedType
      /\ SamePrograms(t, b)
      /\ b.joiner = t.joiner /\ b.running = t.running
      /\ b.status = [t.status EXCEPT ![c] = "Dead"]
      /\ b.susp = t.susp \ {c}
      /\ b.blk = t.blk \ {c}
      /\ b.hi = t.hi /\ b.left = t.left
      /\ b.stdin = IF t.stdin = c THEN NoCtx ELSE t.stdin
      /\ b.live = IF t.live > 0 THEN t.live - 1 ELSE 0
      /\ b.high = t.high /\ b.norm = t.norm /\ b.timers = t.timers
  BY <1>3, <1>4, ZenonT(40) DEF SchedType, Statuses, CtxOrNone, SamePrograms
<1> HIDE DEF b
<1>6. ASSUME NEW x \in Ctx
      PROVE  b.joiner[x] = IF x \in s.reg /\ s.joiner[x] = c THEN NoCtx ELSE s.joiner[x]
  BY <1>1, <1>3, <1>5 DEF SamePrograms, SameLinks
<1>7. /\ SamePrograms(s, b)
      /\ b.running = s.running
      /\ b.status = [s.status EXCEPT ![c] = "Dead"]
      /\ b.susp = s.susp \ {c}
      /\ b.blk = s.blk \ {c}
      /\ b.hi = s.hi /\ b.left = s.left
      /\ b.stdin = IF s.stdin = c THEN NoCtx ELSE s.stdin
      /\ b.live = IF s.live > 0 THEN s.live - 1 ELSE 0
      /\ b.high = u.high /\ b.norm = u.norm /\ b.timers = u.timers
  BY <1>1, <1>3, <1>5 DEF SamePrograms, SameLinks, SameFlags
<1>8. Buried(s, c, u, b)
  BY <1>6, <1>7 DEF Buried
<1> QED
  BY <1>2, <1>5, <1>8 DEF u

\* The second part: the joiner, if it sleeps, is woken and forgotten.
LEMMA WakeJoinerFrame ==
  ASSUME NEW s \in SchedType, NEW c \in Ctx
  PROVE  LET j == s.joiner[c]
             woken == j # NoCtx /\ s.status[j] = "Sleeping"
             w == MakeReady(s, j)
             r == WakeJoiner(s, c)
         IN  /\ r \in SchedType
             /\ SamePrograms(s, r)
             /\ r.running = s.running /\ r.live = s.live
             /\ r.joiner = [s.joiner EXCEPT ![c] = NoCtx]
             /\ r.status = IF woken THEN [s.status EXCEPT ![j] = "Ready"] ELSE s.status
             /\ r.blk = IF woken THEN s.blk \ {j} ELSE s.blk
             /\ r.susp = s.susp /\ r.hi = s.hi /\ r.left = s.left
             /\ r.stdin = s.stdin
             /\ r.timers = s.timers
             /\ r.high = IF woken THEN w.high ELSE s.high
             /\ r.norm = IF woken THEN w.norm ELSE s.norm
<1> DEFINE j == s.joiner[c]
           woken == j # NoCtx /\ s.status[j] = "Sleeping"
           w == MakeReady(s, j)
           t == IF woken THEN w ELSE s
           r == [t EXCEPT !.joiner[c] = NoCtx]
<1>1. j \in CtxOrNone
  BY Fields
<1>2. WakeJoiner(s, c) = r
  BY DEF WakeJoiner
<1> HIDE DEF j
<1>3. /\ t \in SchedType
      /\ SamePrograms(s, t) /\ SameLinks(s, t)
      /\ t.status = IF woken THEN [s.status EXCEPT ![j] = "Ready"] ELSE s.status
      /\ t.blk = IF woken THEN s.blk \ {j} ELSE s.blk
      /\ t.susp = s.susp /\ t.hi = s.hi /\ t.left = s.left
      /\ t.stdin = s.stdin
      /\ t.timers = s.timers
  <2>1. CASE woken
    BY <1>1, <2>1, MakeReadyType, MakeReadyFrame DEF CtxOrNone
  <2>2. CASE ~woken
    BY <2>2 DEF SamePrograms, SameLinks
  <2> QED
    BY <2>1, <2>2
<1>4. t.high = (IF woken THEN w.high ELSE s.high) /\ t.norm = (IF woken THEN w.norm ELSE s.norm)
  OBVIOUS
<1> HIDE DEF t, w, woken
<1>5. /\ r \in SchedType
      /\ SamePrograms(t, r)
      /\ r.running = t.running /\ r.live = t.live
      /\ r.joiner = [t.joiner EXCEPT ![c] = NoCtx]
      /\ r.status = t.status /\ r.blk = t.blk
      /\ r.susp = t.susp /\ r.hi = t.hi /\ r.left = t.left
      /\ r.stdin = t.stdin
      /\ r.timers = t.timers /\ r.high = t.high /\ r.norm = t.norm
  BY <1>3 DEF SchedType, CtxOrNone, SamePrograms
<1> HIDE DEF r
<1> QED
  BY <1>2, <1>3, <1>4, <1>5 DEF SamePrograms, SameLinks, j, w, woken

\* A kill touches no other coroutine's continuation, and frees nothing.
LEMMA KillFrame ==
  ASSUME NEW s \in SchedType, NEW c \in Ctx
  PROVE  LET r == coroutine_kill(s, c)
         IN  SamePrograms(s, r) /\ r.running = s.running
<1> DEFINE b == Bury(s, c)
<1>1. b \in SchedType /\ SamePrograms(s, b) /\ b.running = s.running
  BY BuryFrame, ZenonT(40) DEF Buried
<1> HIDE DEF b
<1>2. SamePrograms(b, WakeJoiner(b, c)) /\ WakeJoiner(b, c).running = b.running
  BY <1>1, WakeJoinerFrame
<1> QED
  BY <1>1, <1>2 DEF coroutine_kill, SamePrograms, b

\* kill-all touches no continuation, and frees nothing.
LEMMA KillAllFrame ==
  ASSUME NEW s \in SchedType
  PROVE  LET r == coroutine_kill_all(s)
         IN  SamePrograms(s, r) /\ r.running = s.running
  BY DEF coroutine_kill_all, SchedType, SamePrograms

\* Nor does loading the next coroutine,
LEMMA LoadNextFrame ==
  ASSUME NEW s \in SchedType, SomeReady(s)
  PROVE  SamePrograms(s, LoadNext(s))
<1>1. \A x \in Seq(Ctx), c \in Ctx :
         /\ SamePrograms(s, coroutine_load([s EXCEPT !.high = x], c))
         /\ SamePrograms(s, coroutine_load([s EXCEPT !.norm = x], c))
  BY DEF coroutine_load, SchedType, SamePrograms
<1>2. CASE s.high # << >>
  BY <1>1, <1>2, Fields, TailList DEF LoadNext
<1>3. CASE s.high = << >>
  BY <1>1, <1>3, Fields, TailList DEF LoadNext, SomeReady
<1> QED
  BY <1>2, <1>3

\* or sweeping a timer.
LEMMA SweepHeadFrame ==
  ASSUME NEW s \in SchedType, HeadExpired(s)
  PROVE  LET r == SweepHead(s)
         IN  SamePrograms(s, r) /\ SameLinks(s, r)
<1> DEFINE c == Head(s.timers)
           t == [s EXCEPT !.timers = Tail(@),
                          !.stdin  = IF @ = c THEN NoCtx ELSE @]
           u == [t EXCEPT !.status[c] = "Ready"]
<1>1. c \in Ctx /\ Tail(s.timers) \in Seq(Ctx)
  BY Fields, TailList DEF HeadExpired
<1>2. SweepHead(s) = t \/ SweepHead(s) = ready_queue_push(u, c)
  BY DEF SweepHead
<1> HIDE DEF c
<1>3. t \in SchedType /\ SamePrograms(s, t) /\ SameLinks(s, t)
  BY <1>1 DEF SchedType, CtxOrNone, SamePrograms, SameLinks
<1> HIDE DEF t
<1>4. u \in SchedType /\ SamePrograms(t, u) /\ SameLinks(t, u)
  BY <1>1, <1>3 DEF SchedType, Statuses, SamePrograms, SameLinks
<1> HIDE DEF u
<1>5. SamePrograms(u, ready_queue_push(u, c)) /\ SameLinks(u, ready_queue_push(u, c))
  BY <1>1, <1>4, PushFrame
<1> QED
  BY <1>2, <1>3, <1>4, <1>5 DEF SamePrograms, SameLinks

-----------------------------------------------------------------------------
(* The ready queues and the timer list as sets of coroutines. *)

\* The wake times along a list of sleepers do not decrease.
Sorted(q, left) ==
  \A i, j \in 1..Len(q) : i < j => left[q[i]] <= left[q[j]]

\* The ready queues hold exactly the coroutines of R, each once and in its
\* tier; the timer list holds exactly those of T, in the order of wake times.
Listed(s, R, T) ==
  /\ NoDup(s.high)
  /\ NoDup(s.norm)
  /\ NoDup(s.timers)
  /\ Elems(s.high) = R \cap s.hi
  /\ Elems(s.norm) = R \ s.hi
  /\ Elems(s.timers) = T
  /\ Sorted(s.timers, s.left)

\* The lists are right as long as links, tiers and wake times stay.
LEMMA SameListed ==
  ASSUME NEW s \in SchedType, NEW t \in SchedType, NEW R, NEW T, Listed(s, R, T),
         t.high = s.high, t.norm = s.norm, t.timers = s.timers,
         R \cap t.hi = R \cap s.hi,
         \A c \in T : t.left[c] = s.left[c]
  PROVE  Listed(t, R, T)
<1>1. R \ t.hi = R \ s.hi
  OBVIOUS
<1>2. Sorted(t.timers, t.left)
  <2>1. \A i \in 1..Len(s.timers) : s.timers[i] \in T
    BY DEF Listed, Elems
  <2> QED
    BY <2>1 DEF Sorted, Listed
<1> QED
  BY <1>1, <1>2 DEF Listed

\* ready_queue_push adds one coroutine to the ready queues.
LEMMA PushListed ==
  ASSUME NEW s \in SchedType, NEW R, NEW T, Listed(s, R, T),
         NEW c \in Ctx, c \notin R
  PROVE  Listed(ready_queue_push(s, c), R \cup {c}, T)
<1> DEFINE r == ready_queue_push(s, c)
<1>0. /\ SameFlags(s, r)
      /\ r.timers = s.timers
      /\ r.high = IF c \in s.hi THEN Append(s.high, c) ELSE s.high
      /\ r.norm = IF c \in s.hi THEN s.norm ELSE Append(s.norm, c)
  BY PushFrame
<1> HIDE DEF r
<1>1. s.high \in Seq(Ctx) /\ s.norm \in Seq(Ctx)
  BY Fields
<1>2. NoDup(r.timers) /\ Elems(r.timers) = T /\ Sorted(r.timers, r.left)
  BY <1>0 DEF Listed, SameFlags
<1>3. CASE c \in s.hi
  <2>1. r.high = Append(s.high, c) /\ r.norm = s.norm /\ r.hi = s.hi
    BY <1>0, <1>3 DEF SameFlags
  <2>2. c \notin Elems(s.high) /\ NoDup(s.high)
    BY DEF Listed
  <2>3. NoDup(r.high) /\ Elems(r.high) = Elems(s.high) \cup {c}
    BY <1>1, <2>1, <2>2, AppendList
  <2> QED
    BY <1>2, <1>3, <2>1, <2>3 DEF Listed, r
<1>4. CASE c \notin s.hi
  <2>1. r.norm = Append(s.norm, c) /\ r.high = s.high /\ r.hi = s.hi
    BY <1>0, <1>4 DEF SameFlags
  <2>2. c \notin Elems(s.norm) /\ NoDup(s.norm)
    BY DEF Listed
  <2>3. NoDup(r.norm) /\ Elems(r.norm) = Elems(s.norm) \cup {c}
    BY <1>1, <2>1, <2>2, AppendList
  <2> QED
    BY <1>2, <1>4, <2>1, <2>3 DEF Listed, r
<1> QED
  BY <1>3, <1>4

\* ready_queue_remove takes one out.
LEMMA RemoveListed ==
  ASSUME NEW s \in SchedType, NEW R, NEW T, Listed(s, R, T), NEW c \in Ctx
  PROVE  Listed(ready_queue_remove(s, c), R \ {c}, T)
<1> DEFINE r == ready_queue_remove(s, c)
<1>0. /\ SameFlags(s, r)
      /\ r.timers = s.timers
      /\ r.high = IF c \in s.hi THEN Without(s.high, c) ELSE s.high
      /\ r.norm = IF c \in s.hi THEN s.norm ELSE Without(s.norm, c)
  BY RemoveFrame
<1> HIDE DEF r
<1>1. s.high \in Seq(Ctx) /\ s.norm \in Seq(Ctx) /\ NoDup(s.high) /\ NoDup(s.norm)
  BY Fields DEF Listed
<1>2. NoDup(r.timers) /\ Elems(r.timers) = T /\ Sorted(r.timers, r.left) /\ r.hi = s.hi
  BY <1>0 DEF Listed, SameFlags
<1>3. CASE c \in s.hi
  <2>1. NoDup(r.high) /\ Elems(r.high) = Elems(s.high) \ {c} /\ r.norm = s.norm
    BY <1>0, <1>1, <1>3, WithoutList
  <2> QED
    BY <1>2, <1>3, <2>1 DEF Listed, r
<1>4. CASE c \notin s.hi
  <2>1. NoDup(r.norm) /\ Elems(r.norm) = Elems(s.norm) \ {c} /\ r.high = s.high
    BY <1>0, <1>1, <1>4, WithoutList
  <2> QED
    BY <1>2, <1>4, <2>1 DEF Listed, r
<1> QED
  BY <1>3, <1>4

\* Unlinking keeps a list sorted.
LEMMA WithoutSorted ==
  ASSUME NEW q \in Seq(Ctx), NEW left \in [Ctx -> Nat], NEW c \in Ctx, Sorted(q, left)
  PROVE  Sorted(Without(q, c), left)
<1>1. CASE c \in Elems(q)
  <2> DEFINE k == CHOOSE i \in 1..Len(q) : q[i] = c
             r == [j \in 1..(Len(q) - 1) |-> IF j < k THEN q[j] ELSE q[j + 1]]
             old(j) == IF j < k THEN j ELSE j + 1
  <2>1. k \in 1..Len(q) /\ q[k] = c
    BY <1>1 DEF Elems
  <2>2. Without(q, c) = r
    BY <1>1 DEF Without
  <2> HIDE DEF k
  <2>3. Len(q) \in Nat /\ Len(q) - 1 \in Nat
    BY <2>1
  <2>4. r \in Seq(Ctx) /\ Len(r) = Len(q) - 1
    <3>1. \A j \in 1..(Len(q) - 1) : r[j] \in Ctx
      BY <2>1
    <3> QED
      BY <2>3, <3>1
  <2>5. \A n \in Nat : \A i, j \in 1..(n - 1) :
          old(i) \in 1..n /\ (i < j => old(i) < old(j))
    BY <2>1
  <2>6. \A j \in 1..(Len(q) - 1) : r[j] = q[old(j)]
    <3>1. SUFFICES ASSUME NEW j \in 1..(Len(q) - 1) PROVE r[j] = q[old(j)]
      OBVIOUS
    <3>2. CASE j < k
      BY <3>2
    <3>3. CASE ~(j < k)
      BY <3>3
    <3> QED
      BY <3>2, <3>3
  <2> HIDE DEF r, old
  <2>7. SUFFICES ASSUME NEW i \in 1..(Len(q) - 1), NEW j \in 1..(Len(q) - 1), i < j
                 PROVE  left[r[i]] <= left[r[j]]
    BY <2>2, <2>4 DEF Sorted
  <2>8. old(i) \in 1..Len(q) /\ old(j) \in 1..Len(q) /\ old(i) < old(j)
    BY <2>3, <2>5, <2>7
  <2>9. left[q[old(i)]] <= left[q[old(j)]]
    BY <2>8 DEF Sorted
  <2> QED
    BY <2>6, <2>9
<1>2. CASE c \notin Elems(q)
  BY <1>2 DEF Without
<1> QED
  BY <1>1, <1>2

\* Wake times are naturals.
LEMMA LeftNat ==
  ASSUME NEW s \in SchedType
  PROVE  s.left \in [Ctx -> Nat]
<1>1. s.left \in [Ctx -> 0..MaxSleep]
  BY Fields
<1>2. 0..MaxSleep \subseteq Nat
  BY SleepAssumption
<1> QED
  BY <1>1, <1>2

\* timer_list_remove takes one sleeper out.
LEMMA TimerRemoveListed ==
  ASSUME NEW s \in SchedType, NEW R, NEW T, Listed(s, R, T), NEW c \in Ctx
  PROVE  Listed(timer_list_remove(s, c), R, T \ {c})
<1> DEFINE r == timer_list_remove(s, c)
<1>0. /\ SameFlags(s, r)
      /\ r.timers = Without(s.timers, c)
      /\ r.high = s.high /\ r.norm = s.norm
  BY TimerFrame
<1> HIDE DEF r
<1>1. s.timers \in Seq(Ctx) /\ NoDup(s.timers) /\ Sorted(s.timers, s.left)
  BY Fields DEF Listed
<1>2. NoDup(r.timers) /\ Elems(r.timers) = T \ {c}
  BY <1>0, <1>1, WithoutList DEF Listed
<1>3. Sorted(r.timers, r.left)
  BY <1>0, <1>1, WithoutSorted, LeftNat DEF SameFlags
<1> QED
  BY <1>0, <1>2, <1>3 DEF Listed, SameFlags, r

\* Inserting in front of the first node that expires later keeps the order.
LEMMA InsertSorted ==
  ASSUME NEW q \in Seq(Ctx), NEW left \in [Ctx -> Nat], NEW c \in Ctx, Sorted(q, left),
         NEW k \in 1..(Len(q) + 1),
         k <= Len(q) => left[c] < left[q[k]],
         \A i \in 1..(k - 1) : ~(left[c] < left[q[i]])
  PROVE  Sorted(InsertBefore(q, k, c), left)
<1> DEFINE r == InsertBefore(q, k, c)
<1>1. /\ r \in Seq(Ctx)
      /\ Len(r) = Len(q) + 1
      /\ \A j \in 1..Len(r) :
            r[j] = IF j < k THEN q[j] ELSE IF j = k THEN c ELSE q[j - 1]
  <2>1. \A j \in 1..(Len(q) + 1) :
          (IF j < k THEN q[j] ELSE IF j = k THEN c ELSE q[j - 1]) \in Ctx
    OBVIOUS
  <2> QED
    BY <2>1 DEF InsertBefore
<1> HIDE DEF r
<1>2. Len(q) \in Nat /\ \A i \in 1..Len(q) : q[i] \in Ctx /\ left[q[i]] \in Nat
  OBVIOUS
<1>2a. left[c] \in Nat
  OBVIOUS
<1>3. \A i, j \in 1..Len(q) : i < j => left[q[i]] <= left[q[j]]
  BY DEF Sorted
<1>4. \A i \in 1..Len(q) : i >= k => left[c] <= left[q[i]]
  <2>1. SUFFICES ASSUME NEW i \in 1..Len(q), i >= k PROVE left[c] <= left[q[i]]
    OBVIOUS
  <2>2. k \in 1..Len(q) /\ left[c] < left[q[k]]
    BY <1>2, <2>1
  <2>3. left[q[k]] <= left[q[i]]
    BY <1>2, <1>3, <2>1, <2>2
  <2> QED
    <3>1. \A a, b, d \in Nat : a < b /\ b <= d => a <= d
      OBVIOUS
    <3> QED
      BY <1>2, <1>2a, <2>1, <2>2, <2>3, <3>1
<1>5. \A i \in 1..Len(q) : i < k => left[q[i]] <= left[c]
  BY <1>2, <1>2a
<1>6. SUFFICES ASSUME NEW i \in 1..(Len(q) + 1), NEW j \in 1..(Len(q) + 1), i < j
               PROVE  left[r[i]] <= left[r[j]]
  BY <1>1 DEF Sorted, r
<1> DEFINE old(m) == IF m < k THEN m ELSE m - 1
<1>7. ASSUME NEW m \in 1..(Len(q) + 1), m # k
      PROVE  r[m] = q[old(m)] /\ old(m) \in 1..Len(q)
  <2>1. \A n \in Nat : \A x \in 1..(n + 1), y \in 1..(n + 1) :
          x # y => (IF x < y THEN x ELSE x - 1) \in 1..n
    OBVIOUS
  <2>2. old(m) \in 1..Len(q)
    BY <1>2, <1>7, <2>1
  <2>3. CASE m < k
    BY <1>1, <2>2, <2>3
  <2>4. CASE ~(m < k)
    BY <1>1, <1>7, <2>2, <2>4
  <2> QED
    BY <2>3, <2>4
<1>8. r[k] = c
  BY <1>1
<1>9. CASE i = k
  <2>1. old(j) >= k /\ j # k
    BY <1>6, <1>9
  <2>2. r[j] = q[old(j)] /\ old(j) \in 1..Len(q)
    BY <1>7, <2>1
  <2> QED
    BY <1>4, <1>8, <1>9, <2>1, <2>2
<1>10. CASE j = k
  <2>1. old(i) < k /\ i # k
    BY <1>6, <1>10
  <2>2. r[i] = q[old(i)] /\ old(i) \in 1..Len(q)
    BY <1>7, <2>1
  <2> QED
    BY <1>5, <1>8, <1>10, <2>1, <2>2
<1>11. CASE i # k /\ j # k
  <2>1. old(i) < old(j)
    BY <1>6, <1>11
  <2> HIDE DEF old
  <2> QED
    BY <1>3, <1>7, <1>11, <2>1
<1> QED
  BY <1>9, <1>10, <1>11

\* timer_list_insert adds one sleeper, in its place.
LEMMA InsertListed ==
  ASSUME NEW s \in SchedType, NEW R, NEW T, Listed(s, R, T), NEW c \in Ctx, c \notin T
  PROVE  Listed(timer_list_insert(s, c), R, T \cup {c})
<1> DEFINE r == timer_list_insert(s, c)
           k == TimerSlot(s, c)
<1>0. /\ SameFlags(s, r)
      /\ r.timers = InsertBefore(s.timers, k, c)
      /\ r.high = s.high /\ r.norm = s.norm
  BY TimerFrame
<1>1. /\ k \in 1..(Len(s.timers) + 1)
      /\ k <= Len(s.timers) => s.left[c] < s.left[s.timers[k]]
      /\ \A i \in 1..(k - 1) : ~(s.left[c] < s.left[s.timers[i]])
  BY TimerSlotExists
<1> HIDE DEF r, k
<1>2. s.timers \in Seq(Ctx) /\ NoDup(s.timers) /\ Sorted(s.timers, s.left) /\ Elems(s.timers) = T
  BY Fields DEF Listed
<1>3. NoDup(r.timers) /\ Elems(r.timers) = T \cup {c}
  BY <1>0, <1>1, <1>2, InsertList
<1>4. Sorted(r.timers, r.left)
  BY <1>0, <1>1, <1>2, InsertSorted, LeftNat DEF SameFlags
<1> QED
  BY <1>0, <1>3, <1>4 DEF Listed, SameFlags, r

\* Time passes for everything in the timer list alike.
LEMMA ElapseListed ==
  ASSUME NEW s \in SchedType, NEW R, NEW T, Listed(s, R, T)
  PROVE  Listed(Elapse(s), R, T)
<1> DEFINE left == [c \in Ctx |-> IF c \in Elems(s.timers) /\ s.left[c] > 0
                                    THEN s.left[c] - 1 ELSE s.left[c]]
<1>1. Elapse(s) = [s EXCEPT !.left = left]
  BY DEF Elapse
<1>2. \A i \in 1..Len(s.timers) :
        /\ s.timers[i] \in Ctx
        /\ s.left[s.timers[i]] \in Nat
        /\ left[s.timers[i]] = IF s.left[s.timers[i]] > 0 THEN s.left[s.timers[i]] - 1
                                                        ELSE s.left[s.timers[i]]
  <2>1. s.timers \in Seq(Ctx) /\ s.left \in [Ctx -> Nat]
    BY Fields, LeftNat
  <2>2. \A i \in 1..Len(s.timers) : s.timers[i] \in Ctx /\ s.timers[i] \in Elems(s.timers)
    BY <2>1 DEF Elems
  <2> QED
    BY <2>1, <2>2
<1> HIDE DEF left
<1>3. Sorted(s.timers, left)
  <2>1. SUFFICES ASSUME NEW i \in 1..Len(s.timers), NEW j \in 1..Len(s.timers), i < j
                 PROVE  left[s.timers[i]] <= left[s.timers[j]]
    BY DEF Sorted
  <2>2. s.left[s.timers[i]] <= s.left[s.timers[j]]
    BY <2>1 DEF Sorted, Listed
  <2>3. \A a, b \in Nat :
          a <= b => (IF a > 0 THEN a - 1 ELSE a) <= (IF b > 0 THEN b - 1 ELSE b)
    OBVIOUS
  <2> QED
    BY <1>2, <2>2, <2>3
<1>4. LET t == [s EXCEPT !.left = left]
      IN  t.high = s.high /\ t.norm = s.norm /\ t.timers = s.timers /\ t.hi = s.hi /\ t.left = left
  BY DEF SchedType
<1> QED
  BY <1>1, <1>3, <1>4 DEF Listed

\* Taking the head of a ready queue, and of the timer list.
LEMMA PopListed ==
  ASSUME NEW s \in SchedType, NEW t \in SchedType, NEW R, NEW T, Listed(s, R, T),
         t.hi = s.hi, t.left = s.left, t.timers = s.timers,
         \/ s.high # << >> /\ t.high = Tail(s.high) /\ t.norm = s.norm
         \/ s.norm # << >> /\ t.norm = Tail(s.norm) /\ t.high = s.high
  PROVE  LET c == IF t.norm = s.norm THEN Head(s.high) ELSE Head(s.norm)
         IN  c \in R /\ Listed(t, R \ {c}, T)
<1>1. s.high \in Seq(Ctx) /\ s.norm \in Seq(Ctx) /\ NoDup(s.high) /\ NoDup(s.norm)
  BY Fields DEF Listed
<1>2. NoDup(t.timers) /\ Elems(t.timers) = T /\ Sorted(t.timers, t.left)
  BY DEF Listed
<1>3. CASE s.high # << >> /\ t.high = Tail(s.high) /\ t.norm = s.norm
  <2> DEFINE c == Head(s.high)
  <2>1. /\ c \in Elems(s.high)
        /\ Elems(s.high) = Elems(t.high) \cup {c}
        /\ NoDup(t.high) /\ c \notin Elems(t.high)
    BY <1>1, <1>3, TailList
  <2> HIDE DEF c
  <2>2. c \in R /\ c \in s.hi /\ Listed(t, R \ {c}, T)
    BY <1>2, <1>3, <2>1 DEF Listed
  <2> QED
    BY <1>3, <2>2 DEF c
<1>4. CASE s.norm # << >> /\ t.norm = Tail(s.norm) /\ t.high = s.high
  <2> DEFINE c == Head(s.norm)
  <2>1. /\ c \in Elems(s.norm)
        /\ Elems(s.norm) = Elems(t.norm) \cup {c}
        /\ NoDup(t.norm) /\ c \notin Elems(t.norm)
    BY <1>1, <1>4, TailList
  <2> HIDE DEF c
  <2>2. c \in R /\ c \notin s.hi /\ Listed(t, R \ {c}, T)
    BY <1>2, <1>4, <2>1 DEF Listed
  <2>3. t.norm # s.norm
    BY <2>1
  <2> QED
    BY <2>2, <2>3 DEF c
<1> QED
  BY <1>3, <1>4

\* So does the sweep with the head of the timer list.
LEMMA PopTimerListed ==
  ASSUME NEW s \in SchedType, NEW t \in SchedType, NEW R, NEW T, Listed(s, R, T),
         s.timers # << >>, t.timers = Tail(s.timers),
         t.high = s.high, t.norm = s.norm, t.hi = s.hi, t.left = s.left
  PROVE  Head(s.timers) \in T /\ Listed(t, R, T \ {Head(s.timers)})
<1> DEFINE c == Head(s.timers)
<1>1. s.timers \in Seq(Ctx) /\ NoDup(s.timers) /\ Sorted(s.timers, s.left)
  BY Fields DEF Listed
<1>2. /\ c \in Elems(s.timers)
      /\ Elems(s.timers) = Elems(t.timers) \cup {c}
      /\ NoDup(t.timers) /\ c \notin Elems(t.timers)
  BY <1>1, TailList
<1>3. Sorted(t.timers, t.left)
  <2>1. /\ Len(t.timers) \in Nat
        /\ Len(s.timers) = Len(t.timers) + 1
        /\ \A i \in 1..Len(t.timers) : t.timers[i] = s.timers[i + 1]
    BY <1>1
  <2>2. \A i, j \in 1..Len(t.timers) :
          /\ i + 1 \in 1..Len(s.timers)
          /\ i < j => i + 1 < j + 1
    BY <2>1
  <2> QED
    BY <1>1, <2>1, <2>2 DEF Sorted
<1> HIDE DEF c
<1>4. c \in T /\ Listed(t, R, T \ {c})
  BY <1>2, <1>3 DEF Listed
<1> QED
  BY <1>4 DEF c

\* Taking the head off a list changes it.
LEMMA TailShorter ==
  ASSUME NEW q \in Seq(Ctx), q # << >>
  PROVE  Tail(q) # q
<1> DEFINE r == Tail(q)
<1>1. Len(q) \in Nat \ {0} /\ Len(r) = Len(q) - 1
  OBVIOUS
<1> HIDE DEF r
<1>2. r # q
  BY <1>1
<1> QED
  BY <1>2 DEF r

\* A wake-up adds the coroutine to the ready queues, unless it is suspended.
LEMMA MakeReadyListed ==
  ASSUME NEW s \in SchedType, NEW R, NEW T, Listed(s, R, T), NEW c \in Ctx, c \notin R
  PROVE  Listed(MakeReady(s, c), IF c \in s.susp THEN R ELSE R \cup {c}, T)
<1> DEFINE m == [s EXCEPT !.status[c] = "Ready", !.blk = @ \ {c}]
<1>1. /\ m \in SchedType
      /\ m.high = s.high /\ m.norm = s.norm /\ m.timers = s.timers
      /\ m.hi = s.hi /\ m.left = s.left
  BY DEF SchedType, Statuses
<1>2. MakeReady(s, c) = IF c \in s.susp THEN m ELSE ready_queue_push(m, c)
  BY DEF MakeReady
<1> HIDE DEF m
<1>3. Listed(m, R, T)
  BY <1>1, SameListed
<1>4. Listed(ready_queue_push(m, c), R \cup {c}, T)
  BY <1>1, <1>3, PushListed
<1> QED
  BY <1>2, <1>3, <1>4

=============================================================================
