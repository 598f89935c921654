----------------------------- MODULE MCChannels -----------------------------
(* The buffers coroutines exchange values through, for TLC: pipe buffers     *)
(* with their pool, the buffer of a mailbox, and the pool mailbox blocks     *)
(* come from.  One part moves while the others rest in an initial state.     *)
EXTENDS Pipes, Mailbox, TLC

VARIABLE part

channelVars == <<part, pipeVars, ringVars, poolVars>>

\* Three size classes of mailbox blocks, one of them of size 1; one of pipe
\* buffers, with an array larger than the smallest capacity.
SmallClasses == <<1, 2, 4>>
SmallPipeClasses == <<2>>

\* Coroutines and places are interchangeable.
PipeSym == Permutations(Co) \cup Permutations(Buf)

ChannelsInit ==
  /\ part \in {"pipes", "ring", "pool"}
  /\ PipesInit /\ PoolInit
  /\ RingInit /\ (part # "ring" => data = [i \in Slots |-> CHOOSE x \in Msg : TRUE])

\* A block above the largest class is not pooled, so requests end when no
\* block is left.
PoolUsedUp == part = "pool" /\ UNCHANGED channelVars

ChannelsNext ==
  \/ part = "pipes" /\ PipesNext /\ UNCHANGED <<part, ringVars, poolVars>>
  \/ part = "ring" /\ RingNext /\ UNCHANGED <<part, pipeVars, poolVars>>
  \/ part = "pool" /\ PoolNext /\ UNCHANGED <<part, pipeVars, ringVars>>
  \/ PoolUsedUp

ChannelsSpec == ChannelsInit /\ [][ChannelsNext]_channelVars

=============================================================================
