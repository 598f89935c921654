----------------------------- MODULE MCProgress -----------------------------
(* What must eventually happen, for TLC: coroutines that sleep, wait in a    *)
(* ready queue or in a receive go on, and a quantum keeps the others from    *)
(* starving.  One part runs, the others rest in their initial state; the     *)
(* scheduler and the actors share the state of the scheduler.                *)
EXTENDS Actors, SaveScheduler, Quantum

VARIABLE part

Parts == {"scheduler", "actors", "quantum"}

progressVars == <<part, order, actorVars, quantumVars>>

\* Programs that launch, with or without success, sleep, yield, suspend, resume, re-prioritise and kill:
\* everything that decides who runs when.
SchedulingNext ==
  \/ Schedule
  \/ Tick
  \/ \E c \in Ctx : \/ Launch(c) \/ LaunchVmFull(c) \/ Yield(c) \/ Sleep(c) \/ Die(c)
                     \/ KillOther(c) \/ Suspend(c) \/ Resume(c) \/ SetPriority(c)

\* Programs that only launch, yield and restore.
RestoringNext ==
  \/ Otherwise(Schedule \/ \E c \in Ctx : Launch(c) \/ Yield(c))
  \/ \E c \in Ctx : Restore(c)

RestoringSpec == SaveSchedInit /\ [][RestoringNext]_saveSchedVars /\ Fairness

FirstQueue == CHOOSE q \in SetToSeqs(Coroutine \ {Main}) : TRUE

ProgressInit ==
  /\ part \in Parts /\ ActorInit /\ order = <<Main>>
  /\ part # "quantum" => QuantumInit /\ running = Main /\ quantum = [c \in Coroutine |-> 0] /\ ready = FirstQueue
  /\ part = "quantum" => QuantumInit

\* Each part with everything else at rest.
SchedulerRuns(step) ==
  /\ part = "scheduler" /\ Otherwise(step)
  /\ UNCHANGED <<part, mail, op, due, quantumVars>>
ActorsRun(step) == part = "actors" /\ step /\ UNCHANGED <<part, order, quantumVars>>
QuantumRuns(step) == part = "quantum" /\ step /\ UNCHANGED <<part, order, actorVars>>

ProgressNext == SchedulerRuns(SchedulingNext) \/ ActorsRun(ActorNext) \/ QuantumRuns(QuantumNext)

\* The fairness of each part (Fairness, ActorFairness, QuantumSpec) while that
\* part runs.
ProgressFairness ==
  /\ WF_progressVars(SchedulerRuns(Schedule) \/ ActorsRun(ActorSchedule) \/ QuantumRuns(QuantumNext))
  /\ WF_progressVars(SchedulerRuns(\E c \in Ctx : Yield(c)))
  /\ SF_progressVars(\/ SchedulerRuns(Tick \/ ParkTimer)
                     \/ ActorsRun(ActorTick \/ (ParkTimer /\ Sooner /\ UNCHANGED <<mail, op>>)))
  /\ \A c \in Ctx :
       /\ WF_progressVars(ActorsRun(Yield(c) /\ UNCHANGED <<mail, op, due>>))
       /\ SF_progressVars(ActorsRun(RecvCheck(c)) \/ QuantumRuns(running = c /\ quantum[c] = 0 /\ GiveUp))
  /\ <>[][~QuantumRuns(SetQuantum)]_progressVars

ProgressSpec == ProgressInit /\ [][ProgressNext]_progressVars /\ ProgressFairness

\* A quantum prevents starvation: in the part that runs quanta every coroutine
\* executes something again and again, whatever mixture of quanta and
\* voluntary switches there is.
NobodyStarves == \A c \in Coroutine : []<>(part = "quantum" => ran = c)

=============================================================================
