---------------------------- MODULE BoundedQueue ----------------------------
(***************************************************************************)
(* What an actor's mailbox promises: a queue of at most Capacity messages  *)
(* from which the owner takes the oldest message, or one that a selective  *)
(* receive picked, leaving the others in their order.                      *)
(***************************************************************************)
EXTENDS Integers, Sequences

CONSTANTS Msg, Capacity

VARIABLES contents,  \* the messages, oldest first
          got        \* the messages the last operation handed out

queueVars == <<contents, got>>

QueueInit == contents = << >> /\ got = << >>

Put(x) ==
  /\ Len(contents) < Capacity
  /\ contents' = Append(contents, x)
  /\ got' = << >>

\* The message at position i leaves.
Take(i) ==
  /\ got' = <<contents[i]>>
  /\ contents' = [j \in 1..(Len(contents) - 1) |->
                    IF j < i THEN contents[j] ELSE contents[j + 1]]

Clear ==
  /\ contents' = << >>
  /\ got' = << >>

QueueNext ==
  \/ \E x \in Msg : Put(x)
  \/ \E i \in 1..Len(contents) : Take(i)
  \/ Clear

QueueSpec == QueueInit /\ [][QueueNext]_queueVars

=============================================================================
