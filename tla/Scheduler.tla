------------------------------ MODULE Scheduler ------------------------------
(***************************************************************************)
(* Coroutines and their scheduler (src/src/ops_coroutine.inl, with the     *)
(* stdin reader of src/src/ops_stream_io.inl and the quantum check of      *)
(* src/src/interpreter.inl).  One interpreter thread runs one coroutine at *)
(* a time; the running coroutine's program is arbitrary, so any operator   *)
(* may be its next one.  A coroutine that gave up the processor resumes at *)
(* the control operator recorded in cont.                                  *)
(*                                                                         *)
(* coroutine_schedule is a loop.  While it runs, running = NoCtx and no    *)
(* coroutine can take a step; its turns are the actions SweepTimer,        *)
(* LoadReady, ParkTimer, ParkStdin and LoadMain.                           *)
(***************************************************************************)
EXTENDS SchedulerOps, FiniteSets

CONSTANTS KillAllCallers,  \* contexts whose program calls coroutine-kill-all
          ShareJoined,     \* may a third coroutine release or join a dead
                           \* context that some join is waiting to collect?
          SuspendExpired,  \* may a stdin reader be suspended after its
                           \* timeout has passed but before the sweep?
          VmFull           \* may the stack block allocation of a launch fail?

ASSUME FeatureAssumption ==
  /\ KillAllCallers \subseteq Ctx
  /\ {ShareJoined, SuspendExpired, VmFull} \subseteq BOOLEAN

VARIABLE sched

vars == <<sched>>

Init == sched = InitSched

\* c is at an operator of its own procedure.
InProc(c) == sched.running = c /\ sched.cont[c] = "proc"

\* c resumes at the control operator k.
At(c, k) == sched.running = c /\ sched.cont[c] = k

\* Handles to contexts that were not freed yet (a freed handle must not be
\* used again: docs/coroutines.md 12.6).
Handles == sched.reg

\* Pending join checks that will read context t.
Collectors(t) == {j \in Ctx : sched.status[j] \notin {"Dead", "Unborn"}
                               /\ sched.cont[j] = "join" /\ sched.on[j] = t}

MayCollect(c, t) == ShareJoined \/ Collectors(t) \subseteq {c}

-----------------------------------------------------------------------------
(* Operators of the running coroutine c. *)

\* coroutine-launch
Launch(c) ==
  /\ InProc(c)
  /\ \E d \in Allocatable(sched) : sched' = coroutine_launch(sched, d)

\* coroutine-launch when coroutine_alloc_stacks raises /vm-full: the context
\* is already initialised and linked into the registry.
LaunchVmFull(c) ==
  /\ VmFull
  /\ InProc(c)
  /\ \E d \in Allocatable(sched) : sched' = NewContext(sched, d)

\* coroutine-sleep with 0 ms, and the quantum running out: the latter may
\* hit a coroutine that was loaded a moment ago and has not yet executed the
\* control operator it resumes at.
Yield(c) ==
  /\ sched.running = c
  /\ sched' = YieldCpu(sched, c)

\* coroutine-sleep; without live coroutines main sleeps in nanosleep.
Sleep(c) ==
  /\ InProc(c)
  /\ sched.live > 0
  /\ \E d \in 1..MaxSleep : sched' = SleepFor(sched, c, d)

\* coroutine-die, @coroutine-complete and an uncaught error.
Die(c) ==
  /\ InProc(c)
  /\ c # Main
  /\ sched' = [coroutine_kill(sched, c) EXCEPT !.running = NoCtx]

\* coroutine-kill
KillOther(c) ==
  /\ InProc(c)
  /\ \E t \in Handles \ {c, Main} :
       /\ sched.status[t] # "Dead"
       /\ sched' = coroutine_kill(sched, t)

\* coroutine-suspend
Suspend(c) ==
  /\ InProc(c)
  /\ \E t \in Handles \ {c, Main} :
       /\ sched.status[t] # "Dead"
       /\ t \notin sched.susp
       /\ SuspendExpired \/ sched.stdin # t \/ t \in sched.blk \/ sched.left[t] > 0
       /\ sched' = [Unschedule(sched, t) EXCEPT !.susp = @ \cup {t}]

\* Mutant: the remaining sleep is forgotten.
ResumeAtOnce(c) ==
  /\ InProc(c)
  /\ \E t \in Handles \cap sched.susp :
       LET s == [sched EXCEPT !.susp = @ \ {t}]
       IN  sched' = IF t \in s.blk THEN s
                    ELSE ready_queue_push([s EXCEPT !.status[t] = "Ready"], t)

\* coroutine-resume
Resume(c) ==
  /\ InProc(c)
  /\ \E t \in Handles \cap sched.susp :
       LET s == [sched EXCEPT !.susp = @ \ {t}]
       IN  sched' =
             IF s.status[t] = "Ready" THEN ready_queue_push(s, t)
             ELSE IF t \in s.blk THEN s
             ELSE IF s.left[t] = 0
               THEN ready_queue_push([s EXCEPT !.status[t] = "Ready"], t)
             ELSE timer_list_insert(s, t)

\* Mutant: a queued coroutine stays in its old tier.
SetPriorityInPlace(c) ==
  /\ InProc(c)
  /\ \E t \in Handles :
       /\ sched.status[t] # "Dead"
       /\ sched' = [sched EXCEPT !.hi = IF t \in @ THEN @ \ {t} ELSE @ \cup {t}]

\* coroutine-priority
SetPriority(c) ==
  /\ InProc(c)
  /\ \E t \in Handles :
       LET Flip(s) == [s EXCEPT !.hi = IF t \in @ THEN @ \ {t} ELSE @ \cup {t}]
       IN  /\ sched.status[t] # "Dead"
           /\ sched' = IF sched.status[t] = "Ready" /\ t \notin sched.susp
                         THEN ready_queue_push(Flip(ready_queue_remove(sched, t)), t)
                         ELSE Flip(sched)

\* coroutine-join and coroutine-await of a live target: register and block.
Join(c) ==
  /\ InProc(c)
  /\ \E t \in Handles \ {c} :
       /\ sched.status[t] # "Dead"
       /\ sched.joiner[t] = NoCtx
       /\ sched' = Block([sched EXCEPT !.joiner[t] = c, !.cont[c] = "join",
                                       !.on[c] = t], c)

\* coroutine-join and coroutine-await of a dead target, and coroutine-release:
\* take the result and free the context.
Collect(c) ==
  /\ InProc(c)
  /\ \E t \in Handles \ {c} :
       /\ sched.status[t] = "Dead"
       /\ MayCollect(c, t)
       /\ sched' = coroutine_free_context(sched, t)

\* @coroutine-join-check and @coroutine-await-check
JoinCheck(c) ==
  /\ At(c, "join")
  /\ LET t == sched.on[c]
     IN  sched' = IF sched.status[t] # "Dead"
                    THEN Block([sched EXCEPT !.joiner[t] = c], c)
                    ELSE coroutine_free_context(
                           [sched EXCEPT !.cont[c] = "proc", !.on[c] = NoCtx], t)

\* coroutine-wait-all and @coroutine-wait-all-check poll with a yield.
OthersLive(c) == sched.live > (IF c = Main THEN 0 ELSE 1)

WaitAll(c) ==
  /\ InProc(c)
  /\ OthersLive(c)
  /\ sched' = YieldCpu([sched EXCEPT !.cont[c] = "waitall"], c)

WaitAllCheck(c) ==
  /\ At(c, "waitall")
  /\ sched' = IF OthersLive(c) THEN YieldCpu(sched, c)
                               ELSE [sched EXCEPT !.cont[c] = "proc"]

\* coroutine-kill-all, and main's @coroutine-complete.
KillAll(c) ==
  /\ InProc(c)
  /\ c \in KillAllCallers
  /\ sched.live > 0
  /\ sched' = coroutine_kill_all(sched)

\* read-key-byte when no byte is available.
ReadKey(c) ==
  /\ InProc(c)
  /\ sched.stdin = NoCtx
  /\ sched' = Block([sched EXCEPT !.stdin = c, !.cont[c] = "readkey"], c)

\* read-key-byte-timeout when no byte is available; the granted time is 0 once
\* the sleep budget is spent.
ReadKeyTimeout(c) ==
  /\ InProc(c)
  /\ sched.stdin = NoCtx
  /\ \E d \in 0..MaxSleep :
       sched' = SleepFor([sched EXCEPT !.stdin = c, !.cont[c] = "readkeyT"], c, d)

\* @read-key-retry: a byte, end of file or an error; or another process took the
\* byte: block again (an error, too, if somebody else has taken the slot).
ReadKeyRetry(c) ==
  /\ At(c, "readkey")
  /\ \/ sched' = [sched EXCEPT !.cont[c] = "proc"]
     \/ /\ sched.stdin = NoCtx
        /\ sched' = Block([sched EXCEPT !.stdin = c], c)

\* @read-key-timeout-retry: one more read, whose outcome ends the operator.
ReadKeyTimeoutRetry(c) ==
  /\ At(c, "readkeyT")
  /\ sched' = [sched EXCEPT !.cont[c] = "proc"]

CoroutineStep(c) ==
  \/ Launch(c)      \/ LaunchVmFull(c) \/ Yield(c)        \/ Sleep(c)
  \/ Die(c)         \/ KillOther(c)    \/ Suspend(c)      \/ Resume(c)
  \/ SetPriority(c) \/ Join(c)         \/ Collect(c)      \/ JoinCheck(c)
  \/ WaitAll(c)     \/ WaitAllCheck(c) \/ KillAll(c)      \/ ReadKey(c)
  \/ ReadKeyTimeout(c) \/ ReadKeyRetry(c) \/ ReadKeyTimeoutRetry(c)

-----------------------------------------------------------------------------
(* coroutine_schedule *)

SweepTimer ==
  /\ sched.running = NoCtx
  /\ HeadExpired(sched)
  /\ sched' = SweepHead(sched)

LoadReady ==
  /\ sched.running = NoCtx
  /\ ~HeadExpired(sched)
  /\ SomeReady(sched)
  /\ sched' = LoadNext(sched)

\* Nothing is ready and no timer has expired.
Idle == sched.running = NoCtx /\ ~HeadExpired(sched) /\ ~SomeReady(sched)

\* Sleep the thread until the next timer; it may wake up early and loop.
ParkTimer ==
  /\ Idle
  /\ sched.timers # << >>
  /\ sched' = Elapse(sched)

\* poll() reports that stdin is readable.
ParkStdin ==
  /\ Idle
  /\ sched.stdin # NoCtx
  /\ sched' = coroutine_wake([sched EXCEPT !.stdin = NoCtx], sched.stdin)

\* Nothing to wait for: fall back to main, whatever its status.
LoadMain ==
  /\ Idle
  /\ sched.timers = << >>
  /\ sched.stdin = NoCtx
  /\ sched' = coroutine_load(sched, Main)

Schedule == SweepTimer \/ LoadReady \/ ParkTimer \/ ParkStdin \/ LoadMain

\* Time passes while a coroutine executes.
Tick ==
  /\ sched.running # NoCtx
  /\ \E c \in Elems(sched.timers) : sched.left[c] > 0
  /\ sched' = Elapse(sched)

Next == Schedule \/ Tick \/ \E c \in Ctx : CoroutineStep(c)

Spec == Init /\ [][Next]_vars

-----------------------------------------------------------------------------
(* Properties *)

\* The scheduler state is well typed.
TypeOK == sched \in SchedType

\* The ready queues hold each Ready, unsuspended coroutine exactly once, in
\* the tier of its priority, and nothing else (scheduler_validate, part 2).
Runnable(s) == {c \in Ctx : s.status[c] = "Ready" /\ c \notin s.susp}

ReadyQueues ==
  /\ NoDup(sched.high)
  /\ NoDup(sched.norm)
  /\ Elems(sched.high) = Runnable(sched) \cap sched.hi
  /\ Elems(sched.norm) = Runnable(sched) \ sched.hi

\* The timer list holds each timed, unsuspended sleeper exactly once, in the
\* order of wake times (scheduler_validate, part 1, and the orphan rule for
\* timed sleepers).
TimedSleepers(s) ==
  {c \in Ctx : s.status[c] = "Sleeping" /\ c \notin s.blk /\ c \notin s.susp}

TimerList ==
  /\ NoDup(sched.timers)
  /\ Elems(sched.timers) = TimedSleepers(sched)
  /\ \A i, j \in 1..Len(sched.timers) :
       i < j => sched.left[sched.timers[i]] <= sched.left[sched.timers[j]]

\* The orphan rule for blocked sleepers: each is the stdin reader or the
\* joiner of a coroutine that is still alive, so its wake-up is still ahead.
NoOrphan ==
  \A c \in Ctx :
    sched.status[c] = "Sleeping" /\ c \in sched.blk =>
      \/ sched.stdin = c
      \/ \E t \in sched.reg : sched.joiner[t] = c /\ sched.status[t] # "Dead"

\* A recorded joiner is parked in the join of exactly that target, unless it
\* is main, which the scheduler may have loaded as a last resort.
JoinersParked ==
  \A t \in Ctx :
    sched.joiner[t] # NoCtx =>
      LET j == sched.joiner[t]
      IN  /\ sched.cont[j] = "join"
          /\ sched.on[j] = t
          /\ \/ sched.status[j] = "Sleeping" /\ j \in sched.blk
             \/ j = Main /\ sched.status[Main] \in {"Running", "Ready"}

\* The stdin slot names a coroutine that is asleep in a read (scheduler_validate,
\* part 3): nobody else can be woken by a key press, or be refused a read.
StdinSlot ==
  sched.stdin # NoCtx =>
    /\ sched.status[sched.stdin] = "Sleeping"
    /\ sched.cont[sched.stdin] \in {"readkey", "readkeyT"}

\* m_live_coroutine_count counts the registered coroutines that are not dead,
\* main aside (scheduler_validate, part 5).  wait-all and the binding cache
\* gate rely on it.
LiveCount ==
  sched.live = Cardinality({c \in sched.reg \ {Main} : sched.status[c] # "Dead"})

\* While a join is pending its target's context is not freed, so the check
\* reads the coroutine that was joined and not a later tenant of the block.
JoinTargetKept ==
  \A j \in Ctx :
    sched.status[j] \in {"Sleeping", "Ready", "Running"} /\ sched.cont[j] = "join" =>
      sched.on[j] \in sched.reg

\* coroutine-sleep is never cut short: neither a kill, a suspend and resume,
\* a key press nor a priority change makes the sleeper eligible before its
\* time has run out.
SleepIsMinimum ==
  [][\A c \in Ctx :
       /\ sched.status[c] = "Sleeping"
       /\ c \notin sched.blk
       /\ sched.cont[c] = "proc"
       /\ sched'.status[c] = "Ready"
       => sched.left[c] = 0]_vars

\* What the thread guarantees: coroutine_schedule runs on to the next load,
\* the clock never stops, and no coroutine keeps the processor for ever (it
\* yields, or its quantum runs out).
Fairness ==
  /\ WF_vars(Schedule)
  /\ SF_vars(Tick \/ ParkTimer)
  /\ WF_vars(\E c \in Ctx : Yield(c))

\* A timed sleeper is not starved by coroutines that keep the ready queues
\* busy (ENGINE BUG #14): it wakes up, unless it dies or is suspended.
SleepersWake ==
  \A c \in Ctx : []<>(c \notin TimedSleepers(sched))

\* No coroutine stays in the high queue for ever, and none stays in the normal
\* queue for ever while the high one is empty.
ReadyRuns ==
  \A c \in Ctx :
    /\ []<>(c \notin Elems(sched.high))
    /\ []<>(c \notin Elems(sched.norm) \/ sched.high # << >>)

\* scheduler_validate: whatever coroutine operators and restores ran, the ready
\* queues, the timer list, the stdin slot and the live count say the same as
\* the states of the coroutines.
QueuesSound == ReadyQueues /\ TimerList /\ StdinSlot /\ LiveCount

\* Whoever waits for another coroutine can still be woken by it: the target is
\* alive or the waiter has been told, the registration is the one of this wait,
\* and the context waited for has not been given away.
WaitersSafe == NoOrphan /\ JoinersParked /\ JoinTargetKept

\* Timed sleepers wake and ready coroutines run, whatever the others do.
EveryoneRuns == SleepersWake /\ ReadyRuns

=============================================================================
