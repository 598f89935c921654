----------------------------- MODULE MCServices -----------------------------
(* The services built on coroutines, for TLC: supervisors, gen-servers and   *)
(* pipelines, and the interrupts through which the host reaches the          *)
(* interpreter.  One part runs; the others rest in an initial state.         *)
EXTENDS Supervisor, GenServer, Pipeline, Interrupts

-----------------------------------------------------------------------------
(* Supervisors of two children. *)

Child(i, p) == [id |-> i, pol |-> p]

TwoChildren == {<<Child("a", "permanent"), Child("b", "temporary")>>,
                <<Child("a", "transient"), Child("b", "permanent")>>}

Requests == {StartMsg("b", "temporary"), IdMsg("terminate-child", "a"),
             IdMsg("restart-child", "a"), StopMsg}

(* Gen-servers with two clients, whose mailboxes hold one message. *)

OneMessage == [a \in GClients \cup {GServer} |-> 1]

SmallBoxes == [a \in GClients \cup {GServer} |-> IF a = GServer THEN 2 ELSE 1]

(* Pipelines. *)

K(t) == [type |-> t]
N(t, n) == [type |-> t, n |-> n]

Plain == {K(t) : t \in {"map", "filter", "flat-map", "tap", "scan", "distinct"}}
Sized == {N("batch", 2), N("take", 2), N("drop", 1), N("window", 2)}

Desc(root, sources, lazy, chain) ==
  [root |-> root, sources |-> sources, lazy |-> lazy, chain |-> chain]

S(ns) == [i \in DOMAIN ns |-> <<ns[i]>>]

\* Every chain of at most two stages over an array that repeats an item, over
\* one that a user procedure fails on, and over an empty one; lazy sources
\* that fail; two-way merges and zips of unequal length; a zip that fails.
SmallPrograms ==
  LET chains == {<< >>} \cup {<<k>> : k \in Plain \cup Sized}
                 \cup {<<k, l>> : k \in Plain \cup Sized, l \in Plain \cup Sized}
      short == {<< >>, <<N("take", 2)>>, <<N("batch", 2)>>, <<K("map")>>}
  IN       {Desc("single", <<src>>, FALSE, c) :
              src \in {S(<<1, 2, 1, 3>>), S(<<1, 9, 3>>), << >>}, c \in chains}
      \cup {Desc("single", <<S(<<1, 2, 9>>)>>, TRUE, c) : c \in short}
      \cup {Desc(r, <<S(<<1>>), S(<<2, 3, 9>>)>>, FALSE, c) : r \in {"merge", "zip"}, c \in short}
      \cup {Desc("zip", <<S(<<1, 3>>), S(<<2, 9>>)>>, TRUE, c) : c \in short}

\* A merge with a lazy source that fails.
FailingMerge == {Desc("merge", <<S(<<1, 3>>), S(<<9>>)>>, TRUE, << >>)}

-----------------------------------------------------------------------------

VARIABLE part

Parts == {"supervisor", "server", "pipeline", "interrupts"}

servicesVars == <<part, supVars, gsVars, plVars, irqVars>>

Resting ==
  /\ part # "supervisor" => SupInit /\ strategy = "OneForOne" /\ s.tab[1].pol = "permanent"
  /\ part # "pipeline" => PipelineInit /\ cap = 1 /\ prog = Desc("single", << << >> >>, FALSE, << >>)

ServicesInit ==
  /\ part \in Parts
  /\ GenInit /\ IrqInit /\ Resting
  /\ part = "supervisor" => SupInit
  /\ part = "pipeline" => PipelineInit

OthersRest ==
  /\ UNCHANGED part
  /\ part # "supervisor" => UNCHANGED supVars
  /\ part # "server" => UNCHANGED gsVars
  /\ part # "pipeline" => UNCHANGED plVars
  /\ part # "interrupts" => UNCHANGED irqVars

ServicesNext ==
  \/ part = "supervisor" /\ SupNext /\ OthersRest
  \/ part = "server" /\ GenNext /\ OthersRest
  \/ part = "pipeline" /\ PipelineNext /\ OthersRest
  \/ part = "interrupts" /\ IrqNext /\ OthersRest

\* The fairness of each part (SupSpec, GenFairness, PipelineFairness, IrqFair)
\* while that part runs.
ServicesFairness ==
  /\ WF_servicesVars(part = "supervisor" /\ Drain /\ OthersRest)
  /\ WF_servicesVars(part = "server" /\ ServerSteps /\ OthersRest)
  /\ \A c \in Callers : WF_servicesVars(part = "server" /\ ClientSteps(c) /\ OthersRest)
  /\ \A i \in 1..MaxPipeCoroutines :
       WF_servicesVars(part = "pipeline" /\ i \in DOMAIN stage /\ StageStep(i) /\ OthersRest)
  /\ WF_servicesVars(part = "pipeline" /\ (SinkGet \/ SinkEnd \/ SinkFail) /\ OthersRest)
  /\ WF_servicesVars(part = "interrupts" /\ Interpreter /\ OthersRest)
  /\ SF_servicesVars(part = "interrupts" /\ enableinterrupts /\ OthersRest)

ServicesSpec == ServicesInit /\ [][ServicesNext]_servicesVars /\ ServicesFairness

\* PipelineEnds, for the part that runs pipelines: every pipeline over finite
\* sources ends, no stage waits for ever.
PipelinesEnd == []<>(part = "pipeline" => sink.status # "running")

\* Every service comes to an end with what it was asked: children come back,
\* calls are answered, pipelines end, interrupts and exits are served.
ServicesProceed ==
  /\ ComesBack
  /\ CallsAnswered
  /\ PipelinesEnd
  /\ ExitHonoured
  /\ Served

=============================================================================
