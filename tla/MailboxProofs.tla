---------------------------- MODULE MailboxProofs ----------------------------
(***************************************************************************)
(* The circular buffer of a mailbox implements the bounded queue, for every *)
(* capacity and every set of messages, and reusing mailbox blocks is safe  *)
(* for every list of size classes and every sequence of requests.          *)
(***************************************************************************)
EXTENDS Mailbox, TLAPS

-----------------------------------------------------------------------------
(* The buffer *)

\* Every modulus in the code is taken of a number below twice the capacity.
Wrap(x) == IF x < Capacity THEN x ELSE x - Capacity

LEMMA SmallMod ==
  ASSUME NEW x \in Int, 0 <= x, x < 2 * Capacity
  PROVE  x % Capacity = Wrap(x)
  BY RingAssumption DEF Wrap

LEMMA WrapSum ==
  ASSUME NEW h \in Slots, NEW k \in 0..Capacity
  PROVE  /\ (h + k) % Capacity = Wrap(h + k)
         /\ Wrap(h + k) \in Slots
<1>1. /\ h + k \in Int /\ 0 <= h + k /\ h + k < 2 * Capacity
  BY RingAssumption DEF Slots
<1>2. (h + k) % Capacity = Wrap(h + k)
  BY <1>1, SmallMod
<1>3. Wrap(h + k) \in Slots
  BY RingAssumption DEF Wrap, Slots
<1> QED
  BY <1>2, <1>3

\* The moduli of the code without %.
LEMMA NextSlotValue ==
  ASSUME NEW p \in Slots
  PROVE  NextSlot(p) \in Slots /\ NextSlot(p) = Wrap(p + 1)
<1>1. 1 \in 0..Capacity
  BY RingAssumption
<1> QED
  BY <1>1, WrapSum DEF NextSlot

LEMMA SlotValue ==
  ASSUME RingOK, NEW i \in 0..Capacity
  PROVE  Slot(i) \in Slots /\ Slot(i) = Wrap(head + i)
<1>1. head \in Slots
  BY DEF RingOK
<1> QED
  BY <1>1, WrapSum DEF Slot

LEMMA IndexValue ==
  ASSUME RingOK, NEW p \in Slots
  PROVE  Index(p) \in Slots /\ Index(p) = Wrap(p + (Capacity - head))
<1>1. head \in Slots /\ Capacity - head \in 0..Capacity
  BY RingAssumption DEF RingOK, Slots
<1>2. p + Capacity - head = p + (Capacity - head)
  BY <1>1, RingAssumption DEF Slots
<1> QED
  BY <1>1, <1>2, WrapSum DEF Index

LEMMA PredValue ==
  ASSUME NEW p \in Slots
  PROVE  /\ (p + Capacity - 1) % Capacity \in Slots
         /\ (p + Capacity - 1) % Capacity = IF p = 0 THEN Capacity - 1 ELSE p - 1
<1>1. Capacity - 1 \in 0..Capacity
  BY RingAssumption
<1>2. p + Capacity - 1 = p + (Capacity - 1)
  BY RingAssumption DEF Slots
<1>3. (p + Capacity - 1) % Capacity = Wrap(p + (Capacity - 1))
  BY <1>1, <1>2, WrapSum
<1> QED
  BY <1>3, RingAssumption DEF Wrap, Slots

LEMMA TailValue ==
  ASSUME RingOK
  PROVE  tail = Wrap(head + count)
<1>1. count \in 0..Capacity /\ tail = Slot(count)
  BY DEF RingOK, Slot
<1> QED
  BY <1>1, SlotValue

-----------------------------------------------------------------------------
(* The ring stays consistent. *)

LEMMA InitRing == RingInit => RingOK
<1> SUFFICES ASSUME RingInit PROVE RingOK
  OBVIOUS
<1>1. 0 \in Slots /\ 0 \in 0..Capacity
  BY RingAssumption DEF Slots
<1>2. (0 + 0) % Capacity = Wrap(0 + 0)
  BY <1>1, WrapSum
<1>3. Wrap(0 + 0) = 0
  BY RingAssumption DEF Wrap
<1> QED
  BY <1>1, <1>2, <1>3 DEF RingInit, RingOK

LEMMA SendRing ==
  ASSUME RingOK, NEW x \in Msg, SendComplete(x)
  PROVE  RingOK'
<1>1. /\ tail \in Slots /\ head \in Slots /\ count \in 0..Capacity
      /\ data \in [Slots -> Msg] /\ count < Capacity
  BY DEF RingOK, SendComplete, HasRoom
<1>2. /\ data' = [data EXCEPT ![tail] = x] /\ tail' = NextSlot(tail)
      /\ count' = count + 1 /\ head' = head
  BY DEF SendComplete
<1>3. data' \in [Slots -> Msg]
  BY <1>1, <1>2
<1>4. tail' \in Slots /\ tail' = Wrap(tail + 1)
  BY <1>1, <1>2, NextSlotValue
<1>5. count' \in 0..Capacity
  BY <1>1, <1>2, RingAssumption
<1>6. (head' + count') % Capacity = Wrap(head' + count')
  BY <1>1, <1>2, <1>5, WrapSum
<1>7. tail' = Wrap(head' + count')
  BY <1>1, <1>2, <1>4, TailValue, RingAssumption DEF Slots, Wrap
<1> QED
  BY <1>1, <1>2, <1>3, <1>4, <1>5, <1>6, <1>7 DEF RingOK

LEMMA RecvRing ==
  ASSUME RingOK, RecvComplete
  PROVE  RingOK'
<1>1. /\ tail \in Slots /\ head \in Slots /\ count \in 0..Capacity
      /\ data \in [Slots -> Msg] /\ count > 0
  BY DEF RingOK, RecvComplete
<1>2. /\ data' = data /\ tail' = tail /\ count' = count - 1 /\ head' = NextSlot(head)
  BY DEF RecvComplete
<1>3. head' \in Slots /\ head' = Wrap(head + 1)
  BY <1>1, <1>2, NextSlotValue
<1>4. count' \in 0..Capacity
  BY <1>1, <1>2, RingAssumption
<1>5. (head' + count') % Capacity = Wrap(head' + count')
  BY <1>3, <1>4, WrapSum
<1>6. tail' = Wrap(head' + count')
  BY <1>1, <1>2, <1>3, TailValue, RingAssumption DEF Slots, Wrap
<1> QED
  BY <1>1, <1>2, <1>3, <1>4, <1>5, <1>6 DEF RingOK

LEMMA RemoveRing ==
  ASSUME RingOK, NEW i \in Slots, RemoveAt(i)
  PROVE  RingOK'
<1>1. /\ tail \in Slots /\ head \in Slots /\ count \in 0..Capacity
      /\ data \in [Slots -> Msg] /\ i < count
  BY DEF RingOK, RemoveAt
<1>2. /\ tail' = (tail + Capacity - 1) % Capacity
      /\ count' = count - 1 /\ head' = head
      /\ data' = [p \in Slots |-> IF i <= Index(p) /\ Index(p) + 1 < count
                                   THEN data[NextSlot(p)] ELSE data[p]]
  BY DEF RemoveAt
<1>3. data' \in [Slots -> Msg]
  BY <1>1, <1>2, NextSlotValue
<1>4. tail' \in Slots /\ tail' = IF tail = 0 THEN Capacity - 1 ELSE tail - 1
  BY <1>1, <1>2, PredValue
<1>5. count' \in 0..Capacity
  BY <1>1, <1>2, RingAssumption DEF Slots
<1>6. (head' + count') % Capacity = Wrap(head' + count')
  BY <1>1, <1>2, <1>5, WrapSum
<1>7. tail' = Wrap(head' + count')
  BY <1>1, <1>2, <1>4, TailValue, RingAssumption DEF Slots, Wrap
<1> QED
  BY <1>1, <1>2, <1>3, <1>4, <1>5, <1>6, <1>7 DEF RingOK

LEMMA FlushRing ==
  ASSUME RingOK, Flush
  PROVE  RingOK'
<1>1. /\ tail \in Slots /\ head \in Slots /\ count \in 0..Capacity
      /\ data \in [Slots -> Msg] /\ tail = (head + count) % Capacity
  BY DEF RingOK
<1>2. data' = data /\ tail' = tail /\ count' = 0 /\ head' = (head + count) % Capacity
  BY DEF Flush
<1>3. head' \in Slots /\ head' = tail /\ 0 \in 0..Capacity
  BY <1>1, <1>2, RingAssumption
<1>4. (head' + 0) % Capacity = Wrap(head' + 0)
  BY <1>3, WrapSum
<1>5. Wrap(head' + 0) = head'
  BY <1>3, RingAssumption DEF Wrap, Slots
<1> QED
  BY <1>1, <1>2, <1>3, <1>4, <1>5 DEF RingOK

LEMMA NextRing == RingOK /\ [RingNext]_ringVars => RingOK'
<1> SUFFICES ASSUME RingOK, [RingNext]_ringVars PROVE RingOK'
  OBVIOUS
<1>1. CASE \E x \in Msg : SendComplete(x)
  BY <1>1, SendRing
<1>2. CASE RecvComplete
  BY <1>2, RecvRing
<1>3. CASE \E i \in Slots : RemoveAt(i)
  BY <1>3, RemoveRing
<1>4. CASE Flush
  BY <1>4, FlushRing
<1>5. CASE UNCHANGED ringVars
  BY <1>5 DEF ringVars, RingOK
<1> QED
  BY <1>1, <1>2, <1>3, <1>4, <1>5 DEF RingNext

\* Head, tail and count agree at all times, for every capacity, and m_head of a
\* mailbox in use is never the recycle sentinel: every capacity that fits
\* length_t leaves the largest value unused as a slot number.
THEOREM RingConsistent == RingSpec => []RingSound
<1>1. RingOK => RingSound
  BY RingAssumption DEF RingSound, RingOK, NotRecycled, Slots
<1> QED
  BY <1>1, InitRing, NextRing, PTL DEF RingSpec

-----------------------------------------------------------------------------
(* The ring implements the bounded queue. *)

\* The queue that slots d show from slot h on.
View(d, h, n) == [i \in 1..n |-> d[(h + (i - 1)) % Capacity]]

\* The slot of the i-th message.
Pos(h, i) == Wrap(h + (i - 1))

LEMMA ViewSeq ==
  ASSUME NEW d \in [Slots -> Msg], NEW h \in Slots, NEW n \in 0..Capacity
  PROVE  /\ View(d, h, n) \in Seq(Msg)
         /\ Len(View(d, h, n)) = n
         /\ \A i \in 1..n : /\ Pos(h, i) \in Slots
                            /\ View(d, h, n)[i] = d[Pos(h, i)]
<1>1. \A i \in 1..n : i - 1 \in 0..Capacity
  BY RingAssumption
<1>2. \A i \in 1..n : /\ Pos(h, i) \in Slots
                      /\ (h + (i - 1)) % Capacity = Pos(h, i)
  BY <1>1, WrapSum DEF Pos
<1>3. View(d, h, n) \in [1..n -> Msg]
  BY <1>2 DEF View
<1>4. n \in Nat
  BY RingAssumption
<1>5. View(d, h, n) \in Seq(Msg) /\ Len(View(d, h, n)) = n
  BY <1>3, <1>4
<1> QED
  BY <1>2, <1>5 DEF View

LEMMA ContentsView ==
  Contents = View(data, head, count) /\ Contents' = View(data', head', count')
  BY DEF Contents, Slot, View

\* Two sequences of the same length with the same elements are equal.
LEMMA SameSeq ==
  ASSUME NEW S, NEW q \in Seq(S), NEW r \in Seq(S), Len(q) = Len(r),
         \A i \in 1..Len(q) : q[i] = r[i]
  PROVE  q = r
  OBVIOUS

\* A delivered message becomes the newest one; the others stay.
LEMMA SendContents ==
  ASSUME RingOK, NEW x \in Msg, SendComplete(x)
  PROVE  Contents' = Append(Contents, x) /\ Len(Contents) < Capacity
<1>1. /\ tail \in Slots /\ head \in Slots /\ count \in Nat /\ count < Capacity
      /\ data \in [Slots -> Msg] /\ Capacity \in Nat
      /\ count \in 0..Capacity /\ count + 1 \in 0..Capacity
  BY RingAssumption DEF RingOK, SendComplete, HasRoom
<1>2. /\ data' = [data EXCEPT ![tail] = x] /\ count' = count + 1 /\ head' = head
      /\ data' \in [Slots -> Msg]
  BY <1>1 DEF SendComplete
<1> DEFINE old == View(data, head, count)
           new == View(data', head, count + 1)
<1>3. /\ old \in Seq(Msg) /\ Len(old) = count
      /\ \A i \in 1..count : old[i] = data[Pos(head, i)]
  BY <1>1, ViewSeq
<1>4. /\ new \in Seq(Msg) /\ Len(new) = count + 1
      /\ \A i \in 1..(count + 1) : /\ Pos(head, i) \in Slots
                                   /\ new[i] = data'[Pos(head, i)]
  <2>1. data' \in [Slots -> Msg] /\ head \in Slots /\ count + 1 \in 0..Capacity
    BY <1>1, <1>2
  <2> QED
    BY <2>1, ViewSeq
<1> HIDE DEF old, new
<1>5. \A i \in 1..count : Pos(head, i) # tail
  BY <1>1, TailValue DEF Pos, Wrap, Slots
<1>6. Pos(head, count + 1) = tail
  BY <1>1, TailValue DEF Pos
<1>7. \A i \in 1..count : new[i] = old[i]
  BY <1>1, <1>2, <1>3, <1>4, <1>5
<1>8. new[count + 1] = x
  BY <1>1, <1>2, <1>4, <1>6
<1>9. Append(old, x) \in Seq(Msg) /\ Len(Append(old, x)) = count + 1
  BY <1>3
<1>10. \A i \in 1..(count + 1) : new[i] = Append(old, x)[i]
  BY <1>1, <1>3, <1>7, <1>8
<1>11. new = Append(old, x)
  BY <1>4, <1>9, <1>10, SameSeq
<1> QED
  BY <1>1, <1>2, <1>3, <1>11, ContentsView DEF old, new

\* What remains when the message at position k is taken out of q.
Minus(q, k) == [j \in 1..(Len(q) - 1) |-> IF j < k THEN q[j] ELSE q[j + 1]]

LEMMA MinusSeq ==
  ASSUME NEW q \in Seq(Msg), NEW k \in 1..Len(q)
  PROVE  /\ Minus(q, k) \in Seq(Msg)
         /\ Len(Minus(q, k)) = Len(q) - 1
         /\ \A j \in 1..(Len(q) - 1) :
              Minus(q, k)[j] = IF j < k THEN q[j] ELSE q[j + 1]
<1>1. Minus(q, k) \in [1..(Len(q) - 1) -> Msg]
  BY DEF Minus
<1>2. Len(q) - 1 \in Nat
  OBVIOUS
<1> QED
  BY <1>1, <1>2 DEF Minus

\* actor-recv takes the oldest message.
LEMMA RecvContents ==
  ASSUME RingOK, RecvComplete
  PROVE  /\ 1 \in 1..Len(Contents)
         /\ got' = <<Contents[1]>>
         /\ Contents' = Minus(Contents, 1)
<1>1. /\ head \in Slots /\ count \in Nat /\ 0 < count /\ count \in 0..Capacity
      /\ data \in [Slots -> Msg] /\ Capacity \in Nat /\ count - 1 \in 0..Capacity
  BY RingAssumption DEF RingOK, RecvComplete
<1>2. /\ data' = data /\ count' = count - 1 /\ head' = NextSlot(head)
      /\ got' = <<data[head]>>
  BY DEF RecvComplete
<1>3. head' \in Slots /\ head' = Wrap(head + 1)
  BY <1>1, <1>2, NextSlotValue
<1> DEFINE old == View(data, head, count)
           new == View(data, head', count - 1)
<1>4. /\ old \in Seq(Msg) /\ Len(old) = count
      /\ \A i \in 1..count : old[i] = data[Pos(head, i)]
  BY <1>1, ViewSeq
<1>5. /\ new \in Seq(Msg) /\ Len(new) = count - 1
      /\ \A i \in 1..(count - 1) : new[i] = data[Pos(head', i)]
  BY <1>1, <1>3, ViewSeq
<1> HIDE DEF old, new
<1>6. \A i \in 1..(count - 1) : Pos(head', i) = Pos(head, i + 1)
  BY <1>1, <1>3 DEF Pos, Wrap, Slots
<1>7. \A i \in 1..(count - 1) : new[i] = old[i + 1]
  BY <1>1, <1>4, <1>5, <1>6
<1>8. 1 \in 1..Len(old)
  BY <1>1, <1>4
<1>9. /\ Minus(old, 1) \in Seq(Msg) /\ Len(Minus(old, 1)) = count - 1
      /\ \A i \in 1..(count - 1) : Minus(old, 1)[i] = old[i + 1]
  <2>1. /\ Minus(old, 1) \in Seq(Msg) /\ Len(Minus(old, 1)) = Len(old) - 1
        /\ \A i \in 1..(Len(old) - 1) :
             Minus(old, 1)[i] = IF i < 1 THEN old[i] ELSE old[i + 1]
    BY <1>4, <1>8, MinusSeq
  <2> QED
    BY <1>1, <1>4, <2>1
<1>10. new = Minus(old, 1)
  BY <1>5, <1>7, <1>9, SameSeq
<1>11. old[1] = data[head]
  BY <1>1, <1>4 DEF Pos, Wrap, Slots
<1> QED
  BY <1>2, <1>8, <1>10, <1>11, ContentsView DEF old, new

\* Selective receive takes the message it picked and closes the gap.
LEMMA RemoveContents ==
  ASSUME RingOK, NEW k \in Slots, RemoveAt(k)
  PROVE  /\ k + 1 \in 1..Len(Contents)
         /\ got' = <<Contents[k + 1]>>
         /\ Contents' = Minus(Contents, k + 1)
<1>1. /\ head \in Slots /\ count \in Nat /\ k < count /\ count \in 0..Capacity
      /\ data \in [Slots -> Msg] /\ Capacity \in Nat /\ count - 1 \in 0..Capacity
      /\ k \in Nat /\ k \in 0..Capacity
  BY RingAssumption DEF RingOK, RemoveAt, Slots
<1>2. /\ data' = [p \in Slots |-> IF k <= Index(p) /\ Index(p) + 1 < count
                                   THEN data[NextSlot(p)] ELSE data[p]]
      /\ count' = count - 1 /\ head' = head /\ got' = <<data[Slot(k)]>>
  BY DEF RemoveAt
<1>3. data' \in [Slots -> Msg]
  BY <1>1, <1>2, NextSlotValue
<1> DEFINE old == View(data, head, count)
           new == View(data', head, count - 1)
<1>4. /\ old \in Seq(Msg) /\ Len(old) = count
      /\ \A i \in 1..count : /\ Pos(head, i) \in Slots
                             /\ old[i] = data[Pos(head, i)]
  BY <1>1, ViewSeq
<1>5. /\ new \in Seq(Msg) /\ Len(new) = count - 1
      /\ \A i \in 1..(count - 1) : new[i] = data'[Pos(head, i)]
  BY <1>1, <1>3, ViewSeq
<1> HIDE DEF old, new
<1>6. \A i \in 1..(count - 1) : Index(Pos(head, i)) = i - 1
  <2> SUFFICES ASSUME NEW i \in 1..(count - 1)
               PROVE  Index(Pos(head, i)) = i - 1
    OBVIOUS
  <2> DEFINE p == Pos(head, i)
  <2>1. p \in Slots /\ p = IF head + (i - 1) < Capacity THEN head + (i - 1)
                           ELSE head + (i - 1) - Capacity
    <3>1. i \in 1..count
      BY <1>1
    <3>2. p \in Slots
      BY <3>1, <1>4
    <3>3. p = IF head + (i - 1) < Capacity THEN head + (i - 1)
              ELSE head + (i - 1) - Capacity
      BY <1>1 DEF Pos, Wrap, Slots
    <3> HIDE DEF p
    <3> QED
      BY <3>2, <3>3
  <2> HIDE DEF p
  <2>2. Index(p) = Wrap(p + (Capacity - head))
    BY <2>1, IndexValue
  <2>3. Wrap(p + (Capacity - head)) = i - 1
    BY <1>1, <2>1 DEF Wrap, Slots
  <2> QED
    BY <2>2, <2>3 DEF p
<1>7. \A i \in 1..(count - 1) : NextSlot(Pos(head, i)) = Pos(head, i + 1)
  <2> SUFFICES ASSUME NEW i \in 1..(count - 1)
               PROVE  NextSlot(Pos(head, i)) = Pos(head, i + 1)
    OBVIOUS
  <2> DEFINE p == Pos(head, i)
  <2>1. p \in Slots /\ p = IF head + (i - 1) < Capacity THEN head + (i - 1)
                           ELSE head + (i - 1) - Capacity
    <3>1. i \in 1..count
      BY <1>1
    <3>2. p \in Slots
      BY <3>1, <1>4
    <3>3. p = IF head + (i - 1) < Capacity THEN head + (i - 1)
              ELSE head + (i - 1) - Capacity
      BY <1>1 DEF Pos, Wrap, Slots
    <3> HIDE DEF p
    <3> QED
      BY <3>2, <3>3
  <2> HIDE DEF p
  <2>2. NextSlot(p) = Wrap(p + 1)
    BY <2>1, NextSlotValue
  <2>3. Wrap(p + 1) = Pos(head, i + 1)
    BY <1>1, <2>1 DEF Pos, Wrap, Slots
  <2> QED
    BY <2>2, <2>3 DEF p
<1>8. \A i \in 1..(count - 1) : new[i] = IF i < k + 1 THEN old[i] ELSE old[i + 1]
  <2> SUFFICES ASSUME NEW i \in 1..(count - 1)
               PROVE  new[i] = IF i < k + 1 THEN old[i] ELSE old[i + 1]
    OBVIOUS
  <2> DEFINE p == Pos(head, i)
  <2>1. p \in Slots /\ Index(p) = i - 1 /\ NextSlot(p) = Pos(head, i + 1)
    BY <1>1, <1>4, <1>6, <1>7
  <2>2. new[i] = data'[p]
    BY <1>5
  <2>3. old[i] = data[p] /\ old[i + 1] = data[Pos(head, i + 1)]
    BY <1>1, <1>4
  <2> HIDE DEF p
  <2>4. data'[p] = IF k <= i - 1 THEN data[NextSlot(p)] ELSE data[p]
    BY <1>1, <1>2, <2>1
  <2> QED
    BY <1>1, <2>1, <2>2, <2>3, <2>4
<1>9. k + 1 \in 1..Len(old)
  BY <1>1, <1>4
<1>10. /\ Minus(old, k + 1) \in Seq(Msg) /\ Len(Minus(old, k + 1)) = count - 1
       /\ \A i \in 1..(count - 1) :
            Minus(old, k + 1)[i] = IF i < k + 1 THEN old[i] ELSE old[i + 1]
  BY <1>1, <1>4, <1>9, MinusSeq
<1>11. new = Minus(old, k + 1)
  <2>1. \A i \in 1..Len(new) : new[i] = Minus(old, k + 1)[i]
    BY <1>5, <1>8, <1>10
  <2> QED
    BY <1>5, <1>10, <2>1, SameSeq
<1>12. old[k + 1] = data[Slot(k)]
  <2>1. old[k + 1] = data[Pos(head, k + 1)]
    BY <1>1, <1>4
  <2>2. Pos(head, k + 1) = Slot(k)
    BY <1>1, SlotValue DEF Pos
  <2> QED
    BY <2>1, <2>2
<1> QED
  BY <1>2, <1>9, <1>11, <1>12, ContentsView DEF old, new

LEMMA EmptyContents ==
  ASSUME count = 0 PROVE Contents = << >>
  BY DEF Contents

LEMMA FlushContents ==
  ASSUME Flush PROVE Contents' = << >>
  BY DEF Flush, Contents

\* No message is lost, duplicated or reordered: for every capacity the ring
\* with its head, tail and count implements the bounded queue.
THEOREM RingImplementsQueue == RingSpec => ImplementsQueue
<1>1. RingInit => Queue!QueueInit
  BY EmptyContents DEF RingInit, Queue!QueueInit
<1>2. RingOK /\ [RingNext]_ringVars => [Queue!QueueNext]_(Queue!queueVars)
  <2> SUFFICES ASSUME RingOK, [RingNext]_ringVars
               PROVE  [Queue!QueueNext]_(Queue!queueVars)
    OBVIOUS
  <2>1. ASSUME NEW x \in Msg, SendComplete(x) PROVE Queue!Put(x)
    BY <2>1, SendContents DEF Queue!Put, SendComplete
  <2>2. CASE RecvComplete
    BY <2>2, RecvContents DEF Queue!QueueNext, Queue!Take, Minus
  <2>3. ASSUME NEW k \in Slots, RemoveAt(k) PROVE Queue!QueueNext
    <3>1. /\ k + 1 \in 1..Len(Contents) /\ got' = <<Contents[k + 1]>>
          /\ Contents' = Minus(Contents, k + 1)
      BY <2>3, RemoveContents
    <3>2. Queue!Take(k + 1)
      BY <3>1 DEF Queue!Take, Minus
    <3> QED
      BY <3>1, <3>2 DEF Queue!QueueNext
  <2>4. CASE Flush
    BY <2>4, FlushContents DEF Queue!QueueNext, Queue!Clear, Flush
  <2>5. CASE UNCHANGED ringVars
    BY <2>5, ContentsView DEF ringVars, Queue!queueVars
  <2> QED
    BY <2>1, <2>2, <2>3, <2>4, <2>5 DEF RingNext, Queue!QueueNext
<1> QED
  BY <1>1, <1>2, InitRing, NextRing, PTL DEF RingSpec, ImplementsQueue, Queue!QueueSpec

-----------------------------------------------------------------------------
(* The pool of blocks *)

PoolInv == PoolTypeOK /\ SizedByClass /\ PoolSorted

\* A request has at most one class, and the class is large enough.
LEMMA ClassUnique ==
  ASSUME NEW n \in Nat, NEW i \in mailbox_class_for_capacity(n),
         NEW j \in mailbox_class_for_capacity(n)
  PROVE  /\ i = j
         /\ i \in 1..Len(Classes)
         /\ n <= Classes[i]
         /\ Classes[i] \in Nat \ {0}
<1>1. /\ Len(Classes) \in Nat
      /\ \A k \in 1..Len(Classes) : Classes[k] \in Nat \ {0}
  BY ClassAssumption
<1>2. i \in 1..Len(Classes) /\ j \in 1..Len(Classes) /\ i <= j /\ j <= i /\ n <= Classes[i]
  BY DEF mailbox_class_for_capacity, Covering
<1> QED
  BY <1>1, <1>2

\* Different classes have different sizes.
LEMMA ClassSizes ==
  ASSUME NEW i \in 1..Len(Classes), NEW j \in 1..Len(Classes), Classes[i] = Classes[j]
  PROVE  i = j
<1>1. /\ Len(Classes) \in Nat
      /\ \A k \in 1..Len(Classes) : Classes[k] \in Nat \ {0}
  BY ClassAssumption
<1>2. i < j => Classes[i] < Classes[j]
  BY ClassAssumption
<1>3. j < i => Classes[j] < Classes[i]
  BY ClassAssumption
<1> QED
  BY <1>1, <1>2, <1>3

\* The ends of a free list.
LEMMA PopList ==
  ASSUME NEW S, NEW q \in Seq(S), q # << >>
  PROVE  /\ Head(q) = q[1] /\ Head(q) \in S /\ 1 \in 1..Len(q)
         /\ Tail(q) \in Seq(S) /\ Len(Tail(q)) = Len(q) - 1 /\ Len(q) \in Nat
         /\ \A k \in 1..Len(Tail(q)) : Tail(q)[k] = q[k + 1] /\ k + 1 \in 1..Len(q)
  OBVIOUS

LEMMA PushList ==
  ASSUME NEW S, NEW q \in Seq(S), NEW b \in S
  PROVE  /\ <<b>> \o q \in Seq(S) /\ Len(<<b>> \o q) = Len(q) + 1 /\ Len(q) \in Nat
         /\ \A k \in 1..Len(<<b>> \o q) :
              (<<b>> \o q)[k] = IF k = 1 THEN b ELSE q[k - 1]
  OBVIOUS

LEMMA InitPool == PoolInit => PoolInv
<1> SUFFICES ASSUME PoolInit PROVE PoolInv
  OBVIOUS
<1>1. \A i \in 1..Len(Classes) : pool[i] = << >>
  BY DEF PoolInit
<1>2. PoolTypeOK
  BY DEF PoolInit, PoolTypeOK
<1>3. SizedByClass
  BY DEF PoolInit, SizedByClass
<1>4. PoolSorted
  BY <1>1 DEF PoolSorted, Parked
<1> QED
  BY <1>2, <1>3, <1>4 DEF PoolInv

LEMMA AllocPooledStep ==
  ASSUME PoolInv, NEW n \in 1..MaxRequest, AllocPooled(n)
  PROVE  PoolInv'
<1>0. /\ physical \in [Blocks -> Nat] /\ capacity \in [Blocks -> Nat] /\ live \subseteq Blocks
      /\ pool \in [1..Len(Classes) -> Seq(Blocks)] /\ n \in Nat /\ n >= 1
  BY RequestAssumption DEF PoolInv, PoolTypeOK
<1>1. PICK i \in mailbox_class_for_capacity(n) :
        /\ pool[i] # << >>
        /\ pool' = [pool EXCEPT ![i] = Tail(@)]
        /\ capacity' = [capacity EXCEPT ![Head(pool[i])] = n]
        /\ live' = live \cup {Head(pool[i])}
        /\ physical' = physical
  BY DEF AllocPooled
<1>2. i \in 1..Len(Classes) /\ n <= Classes[i] /\ Classes[i] \in Nat \ {0}
  BY <1>0, <1>1, ClassUnique
<1> DEFINE b == Head(pool[i])
<1>3. /\ pool[i] \in Seq(Blocks) /\ b = pool[i][1] /\ b \in Blocks /\ 1 \in 1..Len(pool[i])
      /\ Tail(pool[i]) \in Seq(Blocks)
      /\ \A k \in 1..Len(Tail(pool[i])) : /\ Tail(pool[i])[k] = pool[i][k + 1]
                                          /\ k + 1 \in 1..Len(pool[i])
  BY <1>0, <1>1, <1>2, PopList
<1>4. b \in Parked(i)
  BY <1>3 DEF Parked
<1>5. physical[b] = Classes[i] /\ b \notin live
  BY <1>2, <1>4 DEF PoolInv, PoolSorted
<1>6. /\ capacity' = [capacity EXCEPT ![b] = n] /\ live' = live \cup {b}
      /\ pool' = [pool EXCEPT ![i] = Tail(pool[i])] /\ physical' = physical
  BY <1>1
<1>7. \A j \in 1..Len(Classes) : Parked(j)' \subseteq Parked(j) /\ b \notin Parked(j)'
  <2> SUFFICES ASSUME NEW j \in 1..Len(Classes)
               PROVE  Parked(j)' \subseteq Parked(j) /\ b \notin Parked(j)'
    OBVIOUS
  <2>1. CASE j = i
    <3>1. pool'[j] = Tail(pool[i])
      BY <2>1, <1>0, <1>2, <1>6
    <3>2. \A k \in 1..Len(pool[i]) : k # 1 => pool[i][k] # b
      BY <1>2, <1>3 DEF PoolInv, PoolSorted
    <3>3. \A k \in 1..Len(Tail(pool[i])) : k + 1 # 1
      OBVIOUS
    <3> QED
      BY <2>1, <3>1, <3>2, <3>3, <1>3 DEF Parked
  <2>2. CASE j # i
    <3>1. pool'[j] = pool[j]
      BY <2>2, <1>0, <1>2, <1>6
    <3>2. b \notin Parked(j)
      BY <2>2, <1>2, <1>5, ClassSizes DEF PoolInv, PoolSorted
    <3> QED
      BY <3>1, <3>2 DEF Parked
  <2> QED
    BY <2>1, <2>2
<1> HIDE DEF b
<1>8. PoolTypeOK'
  BY <1>0, <1>2, <1>3, <1>6 DEF PoolTypeOK
<1>9. SizedByClass'
  <2> SUFFICES ASSUME NEW c \in live'
               PROVE  /\ capacity'[c] >= 1
                      /\ \A j \in mailbox_class_for_capacity(capacity'[c]) :
                           physical'[c] = Classes[j]
                      /\ mailbox_class_for_capacity(capacity'[c]) = {} =>
                           physical'[c] = capacity'[c]
    BY DEF SizedByClass, mailbox_class_for_capacity, Covering
  <2>1. CASE c = b
    <3>1. capacity'[c] = n /\ physical'[c] = Classes[i]
      BY <2>1, <1>0, <1>3, <1>5, <1>6
    <3>2. \A j \in mailbox_class_for_capacity(n) : j = i
      BY <1>0, <1>1, ClassUnique
    <3> QED
      BY <3>1, <3>2, <1>0, <1>1
  <2>2. CASE c # b
    <3>1. c \in live /\ capacity'[c] = capacity[c] /\ physical'[c] = physical[c]
      BY <2>2, <1>0, <1>3, <1>6
    <3> QED
      BY <3>1 DEF PoolInv, SizedByClass
  <2> QED
    BY <2>1, <2>2
<1>10. PoolSorted'
  <2> SUFFICES ASSUME NEW j \in 1..Len(Classes)
               PROVE  /\ \A c \in Parked(j)' : physical'[c] = Classes[j] /\ c \notin live'
                      /\ \A k, l \in 1..Len(pool'[j]) : pool'[j][k] = pool'[j][l] => k = l
    BY DEF PoolSorted
  <2>1. \A c \in Parked(j)' : physical'[c] = Classes[j] /\ c \notin live'
    BY <1>6, <1>7 DEF PoolInv, PoolSorted
  <2>2. CASE j = i
    <3>1. pool'[j] = Tail(pool[i])
      BY <2>2, <1>0, <1>2, <1>6
    <3>2. \A k, l \in 1..Len(pool[i]) : pool[i][k] = pool[i][l] => k = l
      BY <1>2 DEF PoolInv, PoolSorted
    <3>3. \A k, l \in 1..Len(Tail(pool[i])) : k + 1 = l + 1 => k = l
      OBVIOUS
    <3>4. \A k, l \in 1..Len(pool'[j]) : pool'[j][k] = pool'[j][l] => k = l
      BY <3>1, <3>2, <3>3, <1>3
    <3> QED
      BY <2>1, <3>4
  <2>3. CASE j # i
    <3>1. pool'[j] = pool[j]
      BY <2>3, <1>0, <1>2, <1>6
    <3> QED
      BY <2>1, <3>1 DEF PoolInv, PoolSorted
  <2> QED
    BY <2>2, <2>3
<1> QED
  BY <1>8, <1>9, <1>10 DEF PoolInv

LEMMA AllocFreshStep ==
  ASSUME PoolInv, NEW n \in 1..MaxRequest, AllocFresh(n)
  PROVE  PoolInv'
<1>0. /\ physical \in [Blocks -> Nat] /\ capacity \in [Blocks -> Nat] /\ live \subseteq Blocks
      /\ pool \in [1..Len(Classes) -> Seq(Blocks)] /\ n \in Nat /\ n >= 1
  BY RequestAssumption DEF PoolInv, PoolTypeOK
<1>1. PICK b \in Blocks :
        /\ physical[b] = 0
        /\ \/ \E i \in mailbox_class_for_capacity(n) :
                physical' = [physical EXCEPT ![b] = Classes[i]]
           \/ /\ mailbox_class_for_capacity(n) = {}
              /\ physical' = [physical EXCEPT ![b] = n]
        /\ capacity' = [capacity EXCEPT ![b] = n]
        /\ live' = live \cup {b}
  BY DEF AllocFresh
<1>2. pool' = pool
  BY DEF AllocFresh
<1>3. PICK size \in Nat : /\ physical' = [physical EXCEPT ![b] = size]
                          /\ \A j \in mailbox_class_for_capacity(n) : size = Classes[j]
                          /\ mailbox_class_for_capacity(n) = {} => size = n
  <2>1. ASSUME NEW i \in mailbox_class_for_capacity(n),
               physical' = [physical EXCEPT ![b] = Classes[i]]
        PROVE  /\ Classes[i] \in Nat
               /\ \A j \in mailbox_class_for_capacity(n) : Classes[i] = Classes[j]
    BY <1>0, <2>1, ClassUnique
  <2> QED
    BY <1>0, <1>1, <2>1
<1>4. b \notin live
  <2> SUFFICES ASSUME b \in live PROVE FALSE
    OBVIOUS
  <2>1. \A i \in mailbox_class_for_capacity(capacity[b]) : Classes[i] \in Nat \ {0}
    BY <1>0, <1>1, ClassUnique
  <2>2. /\ capacity[b] >= 1
        /\ \A i \in mailbox_class_for_capacity(capacity[b]) : physical[b] = Classes[i]
        /\ mailbox_class_for_capacity(capacity[b]) = {} => physical[b] = capacity[b]
    BY DEF PoolInv, SizedByClass
  <2> QED
    BY <1>0, <1>1, <2>1, <2>2
<1>5. \A i \in 1..Len(Classes) : b \notin Parked(i) /\ Parked(i)' = Parked(i)
  <2>1. \A i \in 1..Len(Classes) : Classes[i] # 0
    BY ClassAssumption
  <2> QED
    BY <1>1, <1>2, <2>1 DEF PoolInv, PoolSorted, Parked
<1>6. PoolTypeOK'
  BY <1>0, <1>1, <1>2, <1>3 DEF PoolTypeOK
<1>7. SizedByClass'
  <2> SUFFICES ASSUME NEW c \in live'
               PROVE  /\ capacity'[c] >= 1
                      /\ \A j \in mailbox_class_for_capacity(capacity'[c]) :
                           physical'[c] = Classes[j]
                      /\ mailbox_class_for_capacity(capacity'[c]) = {} =>
                           physical'[c] = capacity'[c]
    BY DEF SizedByClass, mailbox_class_for_capacity, Covering
  <2>1. CASE c = b
    <3>1. capacity'[c] = n /\ physical'[c] = size
      BY <2>1, <1>0, <1>1, <1>3
    <3> QED
      BY <3>1, <1>0, <1>3
  <2>2. CASE c # b
    <3>1. c \in live /\ capacity'[c] = capacity[c] /\ physical'[c] = physical[c]
      BY <2>2, <1>0, <1>1, <1>3
    <3> QED
      BY <3>1 DEF PoolInv, SizedByClass
  <2> QED
    BY <2>1, <2>2
<1>8. PoolSorted'
  <2> SUFFICES ASSUME NEW j \in 1..Len(Classes)
               PROVE  /\ \A c \in Parked(j)' : physical'[c] = Classes[j] /\ c \notin live'
                      /\ \A k, l \in 1..Len(pool'[j]) : pool'[j][k] = pool'[j][l] => k = l
    BY DEF PoolSorted
  <2>1. \A c \in Parked(j) : physical[c] = Classes[j] /\ c \notin live /\ c # b
    BY <1>5 DEF PoolInv, PoolSorted
  <2>2. Parked(j) \subseteq Blocks
    BY <1>0 DEF Parked
  <2>3. \A c \in Parked(j)' : physical'[c] = Classes[j] /\ c \notin live'
    BY <1>0, <1>1, <1>3, <1>5, <2>1, <2>2
  <2> QED
    BY <1>2, <2>3 DEF PoolInv, PoolSorted
<1> QED
  BY <1>6, <1>7, <1>8 DEF PoolInv

LEMMA RecycleStep ==
  ASSUME PoolInv, NEW b \in Blocks, mailbox_recycle(b)
  PROVE  PoolInv'
<1>0. /\ physical \in [Blocks -> Nat] /\ capacity \in [Blocks -> Nat] /\ live \subseteq Blocks
      /\ pool \in [1..Len(Classes) -> Seq(Blocks)] /\ b \in live /\ capacity[b] \in Nat
  BY DEF PoolInv, PoolTypeOK, mailbox_recycle
<1>1. /\ live' = live \ {b} /\ physical' = physical /\ capacity' = capacity
      /\ pool' = [i \in 1..Len(Classes) |->
                    IF i \in mailbox_class_for_capacity(capacity[b])
                      THEN <<b>> \o pool[i] ELSE pool[i]]
  BY DEF mailbox_recycle
<1>2. \A j \in 1..Len(Classes) : b \notin Parked(j)
  BY <1>0 DEF PoolInv, PoolSorted
<1>3. \A j \in 1..Len(Classes) :
        /\ <<b>> \o pool[j] \in Seq(Blocks)
        /\ Len(<<b>> \o pool[j]) = Len(pool[j]) + 1 /\ Len(pool[j]) \in Nat
        /\ \A k \in 1..Len(<<b>> \o pool[j]) :
             (<<b>> \o pool[j])[k] = IF k = 1 THEN b ELSE pool[j][k - 1]
  BY <1>0, PushList, SMTT(40)
<1>4. PoolTypeOK'
  BY <1>0, <1>1, <1>3 DEF PoolTypeOK
<1>5. SizedByClass'
  BY <1>0, <1>1 DEF PoolInv, SizedByClass, mailbox_class_for_capacity, Covering
<1>6. PoolSorted'
  <2> SUFFICES ASSUME NEW j \in 1..Len(Classes)
               PROVE  /\ \A c \in Parked(j)' : physical'[c] = Classes[j] /\ c \notin live'
                      /\ \A k, l \in 1..Len(pool'[j]) : pool'[j][k] = pool'[j][l] => k = l
    BY DEF PoolSorted
  <2>1. /\ \A c \in Parked(j) : physical[c] = Classes[j] /\ c \notin live
        /\ \A k, l \in 1..Len(pool[j]) : pool[j][k] = pool[j][l] => k = l
    BY DEF PoolInv, PoolSorted
  <2>2. CASE j \in mailbox_class_for_capacity(capacity[b])
    <3> DEFINE q == <<b>> \o pool[j]
    <3>1. pool'[j] = q
      BY <2>2, <1>1
    <3>2. /\ Len(q) = Len(pool[j]) + 1 /\ Len(pool[j]) \in Nat
          /\ \A k \in 1..Len(q) : q[k] = IF k = 1 THEN b ELSE pool[j][k - 1]
      BY <1>3
    <3> HIDE DEF q
    <3>3. \A k \in 1..Len(pool[j]) : pool[j][k] # b /\ pool[j][k] \in Parked(j)
      BY <1>2 DEF Parked
    <3>4. \A k \in 1..Len(q) : k # 1 => /\ k - 1 \in 1..Len(pool[j])
                                        /\ q[k] = pool[j][k - 1]
      BY <3>2
    <3>5. physical[b] = Classes[j]
      BY <2>2, <1>0 DEF PoolInv, SizedByClass
    <3>6. \A k \in 1..Len(q) : q[k] = b \/ q[k] \in Parked(j)
      BY <3>2, <3>3, <3>4
    <3>7. \A c \in Parked(j)' : c = b \/ c \in Parked(j)
      <4>1. Parked(j)' = {q[k] : k \in 1..Len(q)}
        BY <3>1 DEF Parked
      <4> QED
        BY <4>1, <3>6
    <3>9. \A c \in Parked(j)' : physical'[c] = Classes[j] /\ c \notin live'
      BY <3>5, <3>7, <1>1, <2>1
    <3>8. \A k, l \in 1..Len(q) : q[k] = q[l] => k = l
      <4> SUFFICES ASSUME NEW k \in 1..Len(q), NEW l \in 1..Len(q), q[k] = q[l]
                   PROVE  k = l
        OBVIOUS
      <4>1. CASE k = 1 \/ l = 1
        BY <4>1, <3>2, <3>3, <3>4, ZenonT(40)
      <4>2. CASE k # 1 /\ l # 1
        <5>1. k - 1 = l - 1
          BY <4>2, <3>4, <2>1, ZenonT(40)
        <5> QED
          BY <5>1
      <4> QED
        BY <4>1, <4>2
    <3> QED
      BY <3>1, <3>8, <3>9
  <2>3. CASE j \notin mailbox_class_for_capacity(capacity[b])
    <3>1. pool'[j] = pool[j]
      BY <2>3, <1>1
    <3>2. Parked(j)' = Parked(j)
      BY <3>1 DEF Parked
    <3> QED
      BY <3>1, <3>2, <2>1, <1>1
  <2> QED
    BY <2>2, <2>3
<1> QED
  BY <1>4, <1>5, <1>6 DEF PoolInv

LEMMA NextPool == PoolInv /\ [PoolNext]_poolVars => PoolInv'
<1> SUFFICES ASSUME PoolInv, [PoolNext]_poolVars PROVE PoolInv'
  OBVIOUS
<1>1. ASSUME NEW n \in 1..MaxRequest, AllocPooled(n) PROVE PoolInv'
  BY <1>1, AllocPooledStep
<1>2. ASSUME NEW n \in 1..MaxRequest, AllocFresh(n) PROVE PoolInv'
  BY <1>2, AllocFreshStep
<1>3. ASSUME NEW b \in Blocks, mailbox_recycle(b) PROVE PoolInv'
  BY <1>3, RecycleStep
<1>4. CASE UNCHANGED poolVars
  <2>1. physical' = physical /\ capacity' = capacity /\ live' = live /\ pool' = pool
    BY <1>4 DEF poolVars
  <2>2. PoolTypeOK'
    BY <2>1 DEF PoolInv, PoolTypeOK
  <2>3. SizedByClass'
    BY <2>1 DEF PoolInv, SizedByClass, mailbox_class_for_capacity, Covering
  <2>4. \A i \in 1..Len(Classes) : Parked(i)' = Parked(i)
    BY <2>1 DEF Parked
  <2>5. PoolSorted'
    BY <2>1, <2>4 DEF PoolInv, PoolSorted
  <2> QED
    BY <2>2, <2>3, <2>5 DEF PoolInv
<1> QED
  BY <1>1, <1>2, <1>3, <1>4 DEF PoolNext

\* Reuse is safe for any size classes: a free list holds only blocks of exactly
\* its class, once, and none that an actor owns, so the capacity of a mailbox
\* always fits the slots its block was allocated with.
THEOREM PoolCorrect == PoolSpec => []PoolSound
<1>1. ASSUME PoolInv, NEW b \in live
      PROVE  1 <= capacity[b] /\ capacity[b] <= physical[b]
  <2>1. capacity[b] \in Nat /\ physical[b] \in Nat
    BY <1>1 DEF PoolInv, PoolTypeOK
  <2>2. \A i \in mailbox_class_for_capacity(capacity[b]) : capacity[b] <= Classes[i]
    BY <2>1, ClassUnique
  <2> QED
    BY <1>1, <2>1, <2>2 DEF PoolInv, SizedByClass
<1>2. PoolInv => PoolSound
  BY <1>1 DEF PoolSound, PoolInv, BufferFits
<1> QED
  BY <1>2, InitPool, NextPool, PTL DEF PoolSpec

=============================================================================
