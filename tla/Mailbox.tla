-------------------------------- MODULE Mailbox -------------------------------
(***************************************************************************)
(* A mailbox (src/src/ops_actor.inl).  First the circular buffer behind it *)
(* (MailboxHeader and the slots after it): m_head, m_tail and m_count over *)
(* Capacity slots, with the removal of a message in the middle that        *)
(* selective receive needs.  A parked mailbox is marked by an m_head no    *)
(* live one may have.  Then the pool that blocks of dead actors go to.     *)
(***************************************************************************)
EXTENDS Integers, Sequences

CONSTANTS Msg,       \* messages
          Capacity,  \* m_capacity, the logical capacity
          LengthMax  \* largest length_t; also MailboxRecycleSentinel

ASSUME RingAssumption ==
  /\ LengthMax \in Nat
  /\ Capacity \in 1..LengthMax

VARIABLES data,   \* the slots 0..Capacity-1
          head,   \* m_head
          tail,   \* m_tail
          count,  \* m_count
          got     \* the message the last operation handed out, if any

ringVars == <<data, head, tail, count, got>>

Slots == 0..(Capacity - 1)

RingInit ==
  /\ data \in [Slots -> Msg]
  /\ head = 0
  /\ tail = 0
  /\ count = 0
  /\ got = << >>

\* Physical slot of the message with logical index i.
Slot(i) == (head + i) % Capacity

\* Mutant: no wrap-around.
NextUnwrapped(p) == p + 1

NextSlot(p) == (p + 1) % Capacity

HasRoom == count < Capacity

\* actor_send_complete
SendComplete(x) ==
  /\ HasRoom
  /\ data' = [data EXCEPT ![tail] = x]
  /\ tail' = NextSlot(tail)
  /\ count' = count + 1
  /\ got' = << >>
  /\ UNCHANGED head

\* actor_recv_complete
RecvComplete ==
  /\ count > 0
  /\ got' = <<data[head]>>
  /\ head' = NextSlot(head)
  /\ count' = count - 1
  /\ UNCHANGED <<data, tail>>

\* Logical index of the message in slot p.
Index(p) == (p + Capacity - head) % Capacity

\* Mutant: the messages behind the hole are not moved.
RemoveWithoutShift(i) ==
  /\ i < count
  /\ got' = <<data[Slot(i)]>>
  /\ tail' = (tail + Capacity - 1) % Capacity
  /\ count' = count - 1
  /\ UNCHANGED <<data, head>>

\* A match at logical index i: take the message, then mailbox_remove_at, whose
\* loop moves every later message one slot down.
RemoveAt(i) ==
  /\ i < count
  /\ got' = <<data[Slot(i)]>>
  /\ data' = [p \in Slots |-> IF i <= Index(p) /\ Index(p) + 1 < count
                               THEN data[NextSlot(p)] ELSE data[p]]
  /\ tail' = (tail + Capacity - 1) % Capacity
  /\ count' = count - 1
  /\ UNCHANGED head

\* actor-flush takes message after message off the head.
Flush ==
  /\ head' = (head + count) % Capacity
  /\ count' = 0
  /\ got' = << >>
  /\ UNCHANGED <<data, tail>>

RingNext ==
  \/ \E x \in Msg : SendComplete(x)
  \/ RecvComplete
  \/ \E i \in Slots : RemoveAt(i)
  \/ Flush

RingSpec == RingInit /\ [][RingNext]_ringVars

-----------------------------------------------------------------------------
(* Properties *)

\* Head, tail and count are in range and agree with one another.
RingOK ==
  /\ data \in [Slots -> Msg]
  /\ head \in Slots
  /\ tail \in Slots
  /\ count \in 0..Capacity
  /\ tail = (head + count) % Capacity

\* A mailbox in use never looks recycled: m_head is not the sentinel, even at
\* the largest capacity, so neither the double-recycle guard nor the walks over
\* all mailboxes take it for a parked one.
NotRecycled == head # LengthMax

\* The messages in the buffer, oldest first.
Contents == [i \in 1..count |-> data[Slot(i - 1)]]

Queue == INSTANCE BoundedQueue WITH contents <- Contents

\* The ring implements the bounded queue: no message is lost, duplicated or
\* reordered by wrap-around or by a removal in the middle.
ImplementsQueue == Queue!QueueSpec

\* Head, tail and count agree, also after a removal in the middle, and a
\* mailbox in use is never taken for a recycled one.
RingSound == RingOK /\ NotRecycled

-----------------------------------------------------------------------------
(* The pool of mailbox blocks.  A request is rounded up to a size class;   *)
(* the block of a dead actor goes to the free list of the class its        *)
(* logical capacity falls into, and the next request of that class gets it *)
(* with a new logical capacity.  Only the header remembers a size, so the  *)
(* list a block is on is all that says how large it is.                    *)

CONSTANTS Blocks,       \* blocks the global heap can still provide
          Classes,     \* sm_mailbox_pool_classes
          MaxRequest   \* largest capacity a program asks for

ASSUME ClassAssumption ==
  /\ Classes \in Seq(Nat \ {0})
  /\ \A i, j \in 1..Len(Classes) : i < j => Classes[i] < Classes[j]
ASSUME RequestAssumption == MaxRequest \in Nat

VARIABLES physical,  \* slots a block was allocated with; 0 = not yet allocated
          capacity,  \* m_capacity
          live,      \* blocks that belong to an actor
          pool       \* the free list of every class, most recent first

poolVars == <<physical, capacity, live, pool>>

PoolInit ==
  /\ physical = [b \in Blocks |-> 0]
  /\ capacity = [b \in Blocks |-> 0]
  /\ live = {}
  /\ pool = [i \in 1..Len(Classes) |-> << >>]

\* The classes large enough for a request; none if it bypasses the pool.
Covering(n) == {i \in 1..Len(Classes) : n <= Classes[i]}

\* The class of a request, as a set of at most one element.
mailbox_class_for_capacity(n) == {i \in Covering(n) : \A j \in Covering(n) : i <= j}

\* Mutant: a parked block of any class that is large enough is taken.
AllocFirstFit(n) ==
  \E i \in Covering(n) :
    /\ pool[i] # << >>
    /\ LET b == Head(pool[i])
       IN  /\ pool' = [pool EXCEPT ![i] = Tail(@)]
           /\ capacity' = [capacity EXCEPT ![b] = n]
           /\ live' = live \cup {b}
    /\ UNCHANGED physical

\* actor_alloc_mailbox: take the most recently parked block of the class.
AllocPooled(n) ==
  \E i \in mailbox_class_for_capacity(n) :
    /\ pool[i] # << >>
    /\ LET b == Head(pool[i])
       IN  /\ pool' = [pool EXCEPT ![i] = Tail(@)]
           /\ capacity' = [capacity EXCEPT ![b] = n]
           /\ live' = live \cup {b}
    /\ UNCHANGED physical

\* actor_alloc_mailbox: no parked block; a new one of the class size, or of the
\* exact size above the largest class.
AllocFresh(n) ==
  /\ \A i \in mailbox_class_for_capacity(n) : pool[i] = << >>
  /\ \E b \in Blocks :
       /\ physical[b] = 0
       /\ \/ \E i \in mailbox_class_for_capacity(n) :
               physical' = [physical EXCEPT ![b] = Classes[i]]
          \/ /\ mailbox_class_for_capacity(n) = {}
             /\ physical' = [physical EXCEPT ![b] = n]
       /\ capacity' = [capacity EXCEPT ![b] = n]
       /\ live' = live \cup {b}
  /\ UNCHANGED pool

\* mailbox_recycle, once for every actor: coroutine_cleanup_mailbox forgets the
\* block.  A block above the largest class is abandoned.
mailbox_recycle(b) ==
  /\ b \in live
  /\ live' = live \ {b}
  /\ pool' = [i \in 1..Len(Classes) |->
                IF i \in mailbox_class_for_capacity(capacity[b])
                  THEN <<b>> \o pool[i] ELSE pool[i]]
  /\ UNCHANGED <<physical, capacity>>

PoolNext ==
  \/ \E n \in 1..MaxRequest : AllocPooled(n) \/ AllocFresh(n)
  \/ \E b \in Blocks : mailbox_recycle(b)

PoolSpec == PoolInit /\ [][PoolNext]_poolVars

-----------------------------------------------------------------------------
(* Properties *)

\* Sizes, owners and free lists are well typed.
PoolTypeOK ==
  /\ physical \in [Blocks -> Nat]
  /\ capacity \in [Blocks -> Nat]
  /\ live \subseteq Blocks
  /\ pool \in [1..Len(Classes) -> Seq(Blocks)]

\* Every block was allocated with the size its capacity is rounded up to, which
\* is what makes the class of a block derivable from its capacity.
SizedByClass ==
  \A b \in live :
    /\ capacity[b] >= 1
    /\ \A i \in mailbox_class_for_capacity(capacity[b]) : physical[b] = Classes[i]
    /\ mailbox_class_for_capacity(capacity[b]) = {} => physical[b] = capacity[b]

\* A mailbox's logical capacity fits the block, however often the block has
\* been reused with other capacities: no send writes behind its end.
BufferFits == \A b \in live : 1 <= capacity[b] /\ capacity[b] <= physical[b]

\* The free list of a class holds only blocks of exactly that size, each block
\* is on at most one list, once, and no block of a living actor is on any.
Parked(i) == {pool[i][k] : k \in 1..Len(pool[i])}

PoolSorted ==
  \A i \in 1..Len(Classes) :
    /\ \A b \in Parked(i) : physical[b] = Classes[i] /\ b \notin live
    /\ \A k, l \in 1..Len(pool[i]) : pool[i][k] = pool[i][l] => k = l

\* A block is large enough for its mailbox, and on the free list of its size
\* once or in use, however often it was reused with other capacities.
PoolSound == SizedByClass /\ BufferFits /\ PoolSorted

=============================================================================
