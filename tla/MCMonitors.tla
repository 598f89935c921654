----------------------------- MODULE MCMonitors -----------------------------
(* Instances of Monitors for TLC. *)
EXTENDS Monitors, TLC

\* Actors other than main are interchangeable, and so are the blocks.
Peers == {p @@ q : p \in Permutations(Actor \ {Main}), q \in Permutations(Entry)}

\* Mailboxes of one message.
OneEach == [a \in Actor |-> 1]

=============================================================================
