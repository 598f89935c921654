--------------------------- MODULE SchedulerProofs ---------------------------
(***************************************************************************)
(* Theorems about Scheduler, for every set of contexts and every bound on  *)
(* sleeps.                                                                 *)
(***************************************************************************)
EXTENDS Scheduler, SchedulerOpsProofs, FiniteSetTheorems

\* Type correctness is not inductive by itself: @coroutine-join-check follows
\* the handle on its stack, so a coroutine that resumes there must have one.
JoinHasTarget(s) == \A c \in Ctx : s.cont[c] = "join" => s.on[c] \in Ctx

WellFormed(s) == s \in SchedType /\ JoinHasTarget(s)

\* A join has a target as long as continuations and handles stay.
LEMMA SameJoins ==
  ASSUME NEW s \in SchedType, JoinHasTarget(s), NEW t \in SchedType, SamePrograms(s, t)
  PROVE  WellFormed(t)
  BY DEF JoinHasTarget, WellFormed, SamePrograms

\* Reserving a context and resetting the fields of its new tenant.
LEMMA AllocatableCtx ==
  ASSUME NEW s \in SchedType
  PROVE  Allocatable(s) \subseteq Ctx
  BY Fields, TailList DEF Allocatable

\* A new tenant starts with no join.
LEMMA NewContextWellFormed ==
  ASSUME NEW s, WellFormed(s), NEW d \in Ctx
  PROVE  WellFormed(NewContext(s, d))
<1>1. NewContext(s, d) \in SchedType
  BY NewContextType DEF WellFormed
<1>2. s \in SchedType /\ JoinHasTarget(s)
  BY DEF WellFormed
<1>3. /\ NewContext(s, d).cont = [s.cont EXCEPT ![d] = "proc"]
      /\ NewContext(s, d).on = [s.on EXCEPT ![d] = NoCtx]
  BY <1>2, NewContextFrame
<1>4. JoinHasTarget(NewContext(s, d))
  BY <1>2, <1>3, Fields DEF JoinHasTarget
<1> QED
  BY <1>1, <1>4 DEF WellFormed

\* A step of the running coroutine keeps the state well formed, whatever the
\* feature constants are.
LEMMA CoroutineStepWellFormed ==
  ASSUME WellFormed(sched), NEW c \in Ctx, CoroutineStep(c)
  PROVE  WellFormed(sched')
<1>0. sched \in SchedType /\ JoinHasTarget(sched)
  BY DEF WellFormed
<1>1. CASE Launch(c)
  <2>1. PICK d \in Allocatable(sched) : sched' = coroutine_launch(sched, d)
    BY <1>1 DEF Launch
  <2>2. d \in Ctx
    BY <1>0, AllocatableCtx
  <2>3. /\ WellFormed(NewContext(sched, d))
        /\ sched' \in SchedType
        /\ SamePrograms(NewContext(sched, d), sched')
    BY <1>0, <2>1, <2>2, NewContextWellFormed, LaunchType, LaunchFrame
  <2> QED
    BY <2>3, SameJoins DEF WellFormed
<1>2. CASE LaunchVmFull(c)
  <2>1. PICK d \in Allocatable(sched) : sched' = NewContext(sched, d)
    BY <1>2 DEF LaunchVmFull
  <2> QED
    BY <1>0, <2>1, AllocatableCtx, NewContextWellFormed
<1>3. CASE Yield(c)
  BY <1>0, <1>3, YieldType, YieldFrame, SameJoins DEF Yield
<1>4. CASE Sleep(c)
  <2>1. PICK d \in 1..MaxSleep : sched' = SleepFor(sched, c, d)
    BY <1>4 DEF Sleep
  <2>2. d \in 0..MaxSleep
    BY SleepAssumption
  <2> QED
    BY <1>0, <2>1, <2>2, SleepType, SleepFrame, SameJoins
<1>5. CASE Die(c)
  <2> DEFINE k == coroutine_kill(sched, c)
  <2>1. k \in SchedType /\ SamePrograms(sched, k)
    BY <1>0, KillType, KillFrame
  <2>2. sched' = [k EXCEPT !.running = NoCtx]
    BY <1>5 DEF Die
  <2> HIDE DEF k
  <2>3. sched' \in SchedType /\ SamePrograms(k, sched')
    BY <2>1, <2>2 DEF SchedType, CtxOrNone, SamePrograms
  <2>4. SamePrograms(sched, sched')
    BY <2>1, <2>3 DEF SamePrograms
  <2> QED
    BY <1>0, <2>3, <2>4, SameJoins
<1>6. CASE KillOther(c)
  <2>1. PICK t \in Handles : sched' = coroutine_kill(sched, t)
    BY <1>6 DEF KillOther
  <2>2. t \in Ctx
    BY <1>0, Fields DEF Handles
  <2> QED
    BY <1>0, <2>1, <2>2, KillType, KillFrame, SameJoins
<1>7. CASE Suspend(c)
  <2>1. PICK t \in Handles :
          sched' = [Unschedule(sched, t) EXCEPT !.susp = @ \cup {t}]
    BY <1>7 DEF Suspend
  <2> DEFINE u == Unschedule(sched, t)
  <2>2. t \in Ctx
    BY <1>0, Fields DEF Handles
  <2>3. u \in SchedType /\ SamePrograms(sched, u)
    BY <1>0, <2>2, UnscheduleType, UnscheduleFrame
  <2>4. sched' = [u EXCEPT !.susp = @ \cup {t}]
    BY <2>1
  <2> HIDE DEF u
  <2>5. sched' \in SchedType /\ SamePrograms(u, sched')
    BY <2>2, <2>3, <2>4 DEF SchedType, SamePrograms
  <2>6. SamePrograms(sched, sched')
    BY <2>3, <2>5 DEF SamePrograms
  <2> QED
    BY <1>0, <2>5, <2>6, SameJoins
<1>8. CASE Resume(c)
  <2>1. PICK t \in Handles :
          LET s == [sched EXCEPT !.susp = @ \ {t}]
          IN  \/ sched' = ready_queue_push(s, t)
              \/ sched' = s
              \/ sched' = ready_queue_push([s EXCEPT !.status[t] = "Ready"], t)
              \/ sched' = timer_list_insert(s, t)
    BY <1>8 DEF Resume
  <2> DEFINE s == [sched EXCEPT !.susp = @ \ {t}]
             r == [s EXCEPT !.status[t] = "Ready"]
  <2>2. t \in Ctx
    BY <1>0, Fields DEF Handles
  <2>3. s \in SchedType /\ SamePrograms(sched, s)
    BY <1>0 DEF SchedType, SamePrograms
  <2>4. \/ sched' = ready_queue_push(s, t)
        \/ sched' = s
        \/ sched' = ready_queue_push(r, t)
        \/ sched' = timer_list_insert(s, t)
    BY <2>1
  <2> HIDE DEF s
  <2>5. r \in SchedType /\ SamePrograms(s, r)
    BY <2>2, <2>3 DEF SchedType, Statuses, SamePrograms
  <2> HIDE DEF r
  <2>6. /\ ready_queue_push(s, t) \in SchedType
        /\ SamePrograms(s, ready_queue_push(s, t))
        /\ timer_list_insert(s, t) \in SchedType
        /\ SamePrograms(s, timer_list_insert(s, t))
        /\ ready_queue_push(r, t) \in SchedType
        /\ SamePrograms(r, ready_queue_push(r, t))
    BY <2>2, <2>3, <2>5, PushType, PushFrame, InsertType, TimerFrame
  <2>7. sched' \in SchedType /\ SamePrograms(sched, sched')
    BY <2>3, <2>4, <2>5, <2>6 DEF SamePrograms
  <2> QED
    BY <1>0, <2>7, SameJoins
<1>9. CASE SetPriority(c)
  <2>1. PICK t \in Handles :
          LET Flip(s) == [s EXCEPT !.hi = IF t \in @ THEN @ \ {t} ELSE @ \cup {t}]
          IN  \/ sched' = ready_queue_push(Flip(ready_queue_remove(sched, t)), t)
              \/ sched' = Flip(sched)
    BY <1>9 DEF SetPriority
  <2> DEFINE u == ready_queue_remove(sched, t)
             f == [u EXCEPT !.hi = IF t \in @ THEN @ \ {t} ELSE @ \cup {t}]
             g == [sched EXCEPT !.hi = IF t \in @ THEN @ \ {t} ELSE @ \cup {t}]
  <2>2. t \in Ctx
    BY <1>0, Fields DEF Handles
  <2>3. u \in SchedType /\ SamePrograms(sched, u)
    BY <1>0, <2>2, RemoveType, RemoveFrame
  <2>4. sched' = ready_queue_push(f, t) \/ sched' = g
    BY <2>1
  <2>5. g \in SchedType /\ SamePrograms(sched, g)
    BY <1>0, <2>2 DEF SchedType, SamePrograms
  <2> HIDE DEF u, g
  <2>6. f \in SchedType /\ SamePrograms(u, f)
    BY <2>2, <2>3 DEF SchedType, SamePrograms
  <2> HIDE DEF f
  <2>7. ready_queue_push(f, t) \in SchedType /\ SamePrograms(f, ready_queue_push(f, t))
    BY <2>2, <2>6, PushType, PushFrame
  <2>8. sched' \in SchedType /\ SamePrograms(sched, sched')
    BY <2>3, <2>4, <2>5, <2>6, <2>7 DEF SamePrograms
  <2> QED
    BY <1>0, <2>8, SameJoins
<1>10. CASE Join(c)
  <2>1. PICK t \in Handles :
          sched' = Block([sched EXCEPT !.joiner[t] = c, !.cont[c] = "join",
                                       !.on[c] = t], c)
    BY <1>10 DEF Join
  <2> DEFINE s == [sched EXCEPT !.joiner[t] = c, !.cont[c] = "join", !.on[c] = t]
  <2>2. t \in Ctx
    BY <1>0, Fields DEF Handles
  <2>3. /\ s \in SchedType
        /\ s.cont = [sched.cont EXCEPT ![c] = "join"]
        /\ s.on = [sched.on EXCEPT ![c] = t]
    BY <1>0, <2>2 DEF SchedType, Conts, CtxOrNone
  <2> HIDE DEF s
  <2>4. JoinHasTarget(s)
    BY <1>0, <2>2, <2>3, Fields DEF JoinHasTarget
  <2> QED
    BY <2>1, <2>3, <2>4, BlockType, BlockFrame, SameJoins DEF s
<1>11. CASE Collect(c)
  <2>1. PICK t \in Handles : sched' = coroutine_free_context(sched, t)
    BY <1>11 DEF Collect
  <2>2. t \in Ctx
    BY <1>0, Fields DEF Handles
  <2>3. /\ sched' \in SchedType
        /\ sched'.cont = sched.cont
        /\ sched'.on = sched.on
    BY <1>0, <2>1, <2>2, FreeContextType DEF coroutine_free_context, SchedType
  <2> QED
    BY <1>0, <2>3 DEF WellFormed, JoinHasTarget
<1>12. CASE JoinCheck(c)
  <2> DEFINE t == sched.on[c]
             b == [sched EXCEPT !.joiner[t] = c]
             f == [sched EXCEPT !.cont[c] = "proc", !.on[c] = NoCtx]
  <2>1. sched' = Block(b, c) \/ sched' = coroutine_free_context(f, t)
    BY <1>12 DEF JoinCheck
  <2>2. t \in Ctx
    BY <1>0, <1>12 DEF JoinCheck, At, JoinHasTarget
  <2>3. b \in SchedType /\ SamePrograms(sched, b)
    BY <1>0, <2>2 DEF SchedType, CtxOrNone, SamePrograms
  <2>4. /\ f \in SchedType
        /\ f.cont = [sched.cont EXCEPT ![c] = "proc"]
        /\ f.on = [sched.on EXCEPT ![c] = NoCtx]
    BY <1>0 DEF SchedType, Conts, CtxOrNone
  <2> HIDE DEF t, b, f
  <2>5. JoinHasTarget(f)
    BY <1>0, <2>4, Fields DEF JoinHasTarget
  <2>6. WellFormed(b)
    BY <1>0, <2>3, SameJoins
  <2>7. WellFormed(Block(b, c))
    BY <2>6, BlockType, BlockFrame, SameJoins DEF WellFormed
  <2>8. WellFormed(coroutine_free_context(f, t))
    <3> DEFINE r == coroutine_free_context(f, t)
    <3>1. r \in SchedType /\ r.cont = f.cont /\ r.on = f.on
      BY <2>2, <2>4, FreeContextType DEF coroutine_free_context, SchedType
    <3> QED
      BY <2>5, <3>1 DEF WellFormed, JoinHasTarget
  <2> QED
    BY <2>1, <2>7, <2>8
<1>13. CASE WaitAll(c)
  <2> DEFINE s == [sched EXCEPT !.cont[c] = "waitall"]
  <2>1. s \in SchedType /\ s.cont = [sched.cont EXCEPT ![c] = "waitall"] /\ s.on = sched.on
    BY <1>0 DEF SchedType, Conts
  <2>2. sched' = YieldCpu(s, c)
    BY <1>13 DEF WaitAll
  <2> HIDE DEF s
  <2>3. JoinHasTarget(s)
    BY <1>0, <2>1, Fields DEF JoinHasTarget
  <2> QED
    BY <2>1, <2>2, <2>3, YieldType, YieldFrame, SameJoins
<1>14. CASE WaitAllCheck(c)
  <2> DEFINE s == [sched EXCEPT !.cont[c] = "proc"]
  <2>1. s \in SchedType /\ s.cont = [sched.cont EXCEPT ![c] = "proc"] /\ s.on = sched.on
    BY <1>0 DEF SchedType, Conts
  <2>2. sched' = YieldCpu(sched, c) \/ sched' = s
    BY <1>14 DEF WaitAllCheck
  <2> HIDE DEF s
  <2>3. JoinHasTarget(s)
    BY <1>0, <2>1, Fields DEF JoinHasTarget
  <2> QED
    BY <1>0, <2>1, <2>2, <2>3, YieldType, YieldFrame, SameJoins DEF WellFormed
<1>15. CASE KillAll(c)
  BY <1>0, <1>15, KillAllType, KillAllFrame, SameJoins DEF KillAll
<1>16. CASE ReadKey(c)
  <2> DEFINE s == [sched EXCEPT !.stdin = c, !.cont[c] = "readkey"]
  <2>1. s \in SchedType /\ s.cont = [sched.cont EXCEPT ![c] = "readkey"] /\ s.on = sched.on
    BY <1>0 DEF SchedType, Conts, CtxOrNone
  <2>2. sched' = Block(s, c)
    BY <1>16 DEF ReadKey
  <2> HIDE DEF s
  <2>3. JoinHasTarget(s)
    BY <1>0, <2>1, Fields DEF JoinHasTarget
  <2> QED
    BY <2>1, <2>2, <2>3, BlockType, BlockFrame, SameJoins
<1>17. CASE ReadKeyTimeout(c)
  <2> DEFINE s == [sched EXCEPT !.stdin = c, !.cont[c] = "readkeyT"]
  <2>1. s \in SchedType /\ s.cont = [sched.cont EXCEPT ![c] = "readkeyT"] /\ s.on = sched.on
    BY <1>0 DEF SchedType, Conts, CtxOrNone
  <2>2. PICK d \in 0..MaxSleep : sched' = SleepFor(s, c, d)
    BY <1>17 DEF ReadKeyTimeout
  <2> HIDE DEF s
  <2>3. JoinHasTarget(s)
    BY <1>0, <2>1, Fields DEF JoinHasTarget
  <2> QED
    BY <2>1, <2>2, <2>3, SleepType, SleepFrame, SameJoins
<1>18. CASE ReadKeyRetry(c)
  <2> DEFINE p == [sched EXCEPT !.cont[c] = "proc"]
             s == [sched EXCEPT !.stdin = c]
  <2>1. p \in SchedType /\ p.cont = [sched.cont EXCEPT ![c] = "proc"] /\ p.on = sched.on
    BY <1>0 DEF SchedType, Conts
  <2>2. s \in SchedType /\ SamePrograms(sched, s)
    BY <1>0 DEF SchedType, CtxOrNone, SamePrograms
  <2>3. sched' = p \/ sched' = Block(s, c)
    BY <1>18 DEF ReadKeyRetry
  <2> HIDE DEF p, s
  <2>4. WellFormed(p)
    BY <1>0, <2>1, Fields DEF WellFormed, JoinHasTarget
  <2>5. WellFormed(s)
    BY <1>0, <2>2, SameJoins
  <2>6. WellFormed(Block(s, c))
    BY <2>5, BlockType, BlockFrame, SameJoins DEF WellFormed
  <2> QED
    BY <2>3, <2>4, <2>6
<1>19. CASE ReadKeyTimeoutRetry(c)
  <2>1. /\ sched' \in SchedType
        /\ sched'.cont = [sched.cont EXCEPT ![c] = "proc"]
        /\ sched'.on = sched.on
    BY <1>0, <1>19 DEF ReadKeyTimeoutRetry, SchedType, Conts
  <2> QED
    BY <1>0, <2>1, Fields DEF WellFormed, JoinHasTarget
<1> QED
  BY <1>1, <1>2, <1>3, <1>4, <1>5, <1>6, <1>7, <1>8, <1>9, <1>10, <1>11,
     <1>12, <1>13, <1>14, <1>15, <1>16, <1>17, <1>18, <1>19
     DEF CoroutineStep

\* So do a turn of coroutine_schedule's loop and the passing of time.
LEMMA ScheduleWellFormed ==
  ASSUME WellFormed(sched), Schedule \/ Tick
  PROVE  WellFormed(sched')
<1>0. sched \in SchedType /\ JoinHasTarget(sched)
  BY DEF WellFormed
<1>1. CASE SweepTimer
  <2>1. sched' = SweepHead(sched) /\ HeadExpired(sched)
    BY <1>1 DEF SweepTimer
  <2>2. sched' \in SchedType /\ SamePrograms(sched, sched')
    BY <1>0, <2>1, SweepHeadType, SweepHeadFrame
  <2> QED
    BY <1>0, <2>2, SameJoins
<1>2. CASE LoadReady
  BY <1>0, <1>2, LoadNextType, LoadNextFrame, SameJoins DEF LoadReady
<1>3. CASE ParkTimer \/ Tick
  <2>1. sched' = Elapse(sched)
    BY <1>3 DEF ParkTimer, Tick
  <2>2. sched' \in SchedType
    BY <1>0, <2>1, ElapseType
  <2>3. SamePrograms(sched, sched')
    BY <1>0, <2>1 DEF Elapse, SchedType, SamePrograms
  <2> QED
    BY <1>0, <2>2, <2>3, SameJoins
<1>4. CASE ParkStdin
  <2> DEFINE s == [sched EXCEPT !.stdin = NoCtx]
  <2>1. s \in SchedType /\ SamePrograms(sched, s) /\ sched.stdin \in CtxOrNone
    BY <1>0 DEF SchedType, CtxOrNone, SamePrograms
  <2>2. sched' = coroutine_wake(s, sched.stdin)
    BY <1>4 DEF ParkStdin
  <2> HIDE DEF s
  <2>3. sched' \in SchedType /\ SamePrograms(s, sched')
    BY <2>1, <2>2, WakeType, WakeFrame
  <2>4. SamePrograms(sched, sched')
    BY <2>1, <2>3 DEF SamePrograms
  <2> QED
    BY <1>0, <2>3, <2>4, SameJoins
<1>5. CASE LoadMain
  <2>1. sched' = coroutine_load(sched, Main)
    BY <1>5 DEF LoadMain
  <2>2. sched' \in SchedType
    BY <1>0, <2>1, LoadType, CtxAssumption
  <2>3. SamePrograms(sched, sched')
    BY <1>0, <2>1 DEF coroutine_load, SchedType, SamePrograms
  <2> QED
    BY <1>0, <2>2, <2>3, SameJoins
<1> QED
  BY <1>1, <1>2, <1>3, <1>4, <1>5 DEF Schedule

\* Type correctness of the scheduler, for any number of contexts, any bound on
\* sleeps and every combination of the feature constants.
THEOREM TypeCorrect == Spec => []TypeOK
<1>1. Init => WellFormed(sched)
  <2>1. JoinHasTarget(InitSched)
    BY DEF JoinHasTarget, InitSched
  <2> QED
    BY <2>1, InitType DEF Init, WellFormed
<1>2. WellFormed(sched) /\ [Next]_vars => WellFormed(sched)'
  <2>1. SUFFICES ASSUME WellFormed(sched), [Next]_vars PROVE WellFormed(sched')
    OBVIOUS
  <2>2. CASE UNCHANGED vars
    BY <2>1, <2>2 DEF vars
  <2>3. CASE Next
    BY <2>1, <2>3, CoroutineStepWellFormed, ScheduleWellFormed DEF Next
  <2> QED
    BY <2>1, <2>2, <2>3
<1>3. WellFormed(sched) => TypeOK
  BY DEF WellFormed, TypeOK
<1> QED
  BY <1>1, <1>2, <1>3, PTL DEF Spec

-----------------------------------------------------------------------------
(* The inductive invariant of the safety theorems.  Core is about the        *)
(* coroutines and their registrations, Lists about the queues.               *)

\* c has been launched and has not died.
Alive(s, c) == s.status[c] # "Unborn" /\ s.status[c] # "Dead"

\* The coroutines that the live count is about.
Counted(s) == {c \in s.reg \ {Main} : s.status[c] # "Dead"}

\* The registry holds every coroutine that lives, the free list none, and the
\* live count counts.
Registered(s) ==
  /\ Main \in s.reg /\ Alive(s, Main)
  /\ \A c \in Ctx : Alive(s, c) => c \in s.reg
  /\ \A c \in s.reg : s.status[c] # "Unborn"
  /\ NoDup(s.free)
  /\ \A c \in Elems(s.free) : s.status[c] = "Dead" /\ c \notin s.reg

\* The live count is their number.
CountRight(s) == IsFiniteSet(s.reg) /\ s.live = Cardinality(Counted(s))

\* Who is running, and whom the suspended and blocked flags may be on: only main is
\* ever blocked without being asleep.
Flags(s) ==
  /\ \A c \in Ctx : s.status[c] = "Running" <=> s.running = c
  /\ \A c \in s.susp : c # Main /\ s.status[c] \in {"Ready", "Sleeping"}
  /\ \A c \in s.blk : s.status[c] = "Sleeping" \/ c = Main

\* c has a join to finish: it sleeps in it or will run its check.
AtJoin(s, c) == Alive(s, c) /\ s.cont[c] = "join"

\* Joiner and target know each other, until the target dies.
Joins(s) ==
  /\ \A t \in Ctx : s.joiner[t] # NoCtx =>
       /\ Alive(s, t)
       /\ s.joiner[t] \in Ctx
       /\ AtJoin(s, s.joiner[t])
       /\ s.on[s.joiner[t]] = t
  /\ \A c \in Ctx : AtJoin(s, c) =>
       /\ s.on[c] \in s.reg
       /\ s.status[s.on[c]] # "Dead" => s.joiner[s.on[c]] = c /\ c \in s.blk
       /\ s.status[s.on[c]] = "Dead" => s.status[c] # "Sleeping" /\ c \notin s.blk
  /\ \A b, c \in Ctx : AtJoin(s, b) /\ AtJoin(s, c) /\ s.on[b] = s.on[c] => b = c

\* The stdin slot and who is blocked without being in a join.
Reads(s) ==
  /\ s.stdin # NoCtx =>
       /\ s.stdin \in Ctx
       /\ s.status[s.stdin] = "Sleeping"
       /\ s.cont[s.stdin] \in {"readkey", "readkeyT"}
       /\ s.stdin \in s.susp /\ s.stdin \notin s.blk => s.left[s.stdin] > 0
  /\ \A c \in Ctx : s.status[c] = "Sleeping" /\ c \in s.blk /\ s.cont[c] # "join" => s.stdin = c

\* Main runs although it is blocked only when nobody else can.
Forced(s) ==
  Main \in s.blk /\ s.status[Main] # "Sleeping" =>
    /\ s.cont[Main] = "join"
    /\ s.stdin = NoCtx
    /\ s.running \in {Main, NoCtx}
    /\ \A c \in Ctx \ {Main} : c \notin Runnable(s) \cup TimedSleepers(s)

\* What holds of the coroutines themselves, whatever the lists say.
Core(s) == Registered(s) /\ CountRight(s) /\ Flags(s) /\ Joins(s) /\ Reads(s) /\ Forced(s)

\* The ready queues and the timer list say the same.
Lists(s) == Listed(s, Runnable(s), TimedSleepers(s))

\* The inductive invariant.
Sound(s) == s \in SchedType /\ Core(s) /\ Lists(s)

\* No timed sleeper becomes ready before its time.
NotEarly(s, t) ==
  \A c \in Ctx :
    /\ s.status[c] = "Sleeping" /\ c \notin s.blk /\ s.cont[c] = "proc"
    /\ t.status[c] = "Ready"
    => s.left[c] = 0

\* What a step owes, the lists aside.
Good(s, t) == Core(t) /\ NotEarly(s, t)

-----------------------------------------------------------------------------

\* The same registry with the same coroutines alive.
LEMMA SameRegistry ==
  ASSUME NEW s \in SchedType, NEW t \in SchedType, Registered(s), CountRight(s),
         t.reg = s.reg, t.free = s.free, t.live = s.live,
         \A c \in Ctx : t.status[c] = "Unborn" <=> s.status[c] = "Unborn",
         \A c \in Ctx : t.status[c] = "Dead" <=> s.status[c] = "Dead"
  PROVE  Registered(t) /\ CountRight(t)
<1>0. /\ s.reg \subseteq Ctx /\ s.free \in Seq(Ctx) /\ Main \in Ctx
      /\ s.status \in [Ctx -> Statuses] /\ t.status \in [Ctx -> Statuses]
  BY Fields, CtxAssumption
<1>1. Counted(t) = Counted(s)
  BY <1>0 DEF Counted
<1>2. Elems(s.free) \subseteq Ctx
  BY <1>0 DEF Elems
<1>3. ASSUME NEW c \in s.reg PROVE t.status[c] # "Unborn"
  BY <1>0 DEF Registered
<1>4. Alive(t, Main) /\ \A c \in Ctx : Alive(t, c) => c \in s.reg
  BY <1>0 DEF Registered, Alive
<1> QED
  BY <1>0, <1>1, <1>2, <1>3, <1>4 DEF Registered, CountRight

\* The running coroutine is not suspended, does not hold the stdin slot, and
\* if it is blocked it is main, forced to run in its join check.
LEMMA RunningFree ==
  ASSUME NEW s \in SchedType, Core(s), NEW c \in Ctx, s.running = c
  PROVE  /\ s.status[c] = "Running"
         /\ c \notin s.susp
         /\ s.stdin # c
         /\ c \notin Runnable(s)
         /\ c \notin TimedSleepers(s)
         /\ s.cont[c] # "join" => c \notin s.blk
         /\ s.cont[c] # "join" \/ c # Main => ~(Main \in s.blk /\ s.status[Main] # "Sleeping")
<1>1. s.status[c] = "Running"
  BY DEF Core, Flags
<1>2. c \in Ctx /\ c # NoCtx /\ Main \in Ctx
  BY CtxAssumption
<1>3. c \notin s.susp /\ s.stdin # c
  BY <1>1, <1>2 DEF Core, Flags, Reads
<1>4. c \notin Runnable(s) /\ c \notin TimedSleepers(s)
  BY <1>1 DEF Runnable, TimedSleepers
<1>5. s.cont[c] # "join" \/ c # Main => ~(Main \in s.blk /\ s.status[Main] # "Sleeping")
  BY <1>2 DEF Core, Forced
<1>6. s.cont[c] # "join" => c \notin s.blk
  BY <1>1, <1>5 DEF Core, Flags
<1> QED
  BY <1>1, <1>3, <1>4, <1>5, <1>6

\* The running coroutine c yields or falls asleep (x) and goes on at k when it is
\* loaded again: a sleeper may have taken the stdin slot.
GivesUp(s, t, c, x, k) ==
  /\ t.status = [s.status EXCEPT ![c] = x]
  /\ t.cont = [s.cont EXCEPT ![c] = k]
  /\ t.running = NoCtx
  /\ t.on = s.on /\ t.reg = s.reg /\ t.free = s.free /\ t.joiner = s.joiner
  /\ t.live = s.live /\ t.susp = s.susp
  /\ \A d \in Ctx : d # c => t.left[d] = s.left[d]
  /\ k = "join" <=> s.cont[c] = "join"
  /\ x = "Sleeping" => k # "join"
  /\ \/ t.stdin = s.stdin /\ t.blk = s.blk
     \/ /\ s.stdin = NoCtx /\ t.stdin = c /\ x = "Sleeping" /\ k \in {"readkey", "readkeyT"}
        /\ t.blk = s.blk \/ t.blk = s.blk \cup {c}

\* Giving up the processor, by yield, sleep or read, keeps the core.
LEMMA GiveUpCore ==
  ASSUME NEW s \in SchedType, NEW t \in SchedType, Core(s), NEW c \in Ctx, s.running = c,
         NEW x \in {"Ready", "Sleeping"}, NEW k \in Conts, GivesUp(s, t, c, x, k)
  PROVE  Good(s, t)
<1> USE DEF GivesUp
<1>0. /\ s.status \in [Ctx -> Statuses] /\ s.cont \in [Ctx -> Conts]
      /\ s.susp \subseteq Ctx /\ s.blk \subseteq Ctx /\ s.reg \subseteq Ctx
      /\ s.joiner \in [Ctx -> CtxOrNone] /\ s.on \in [Ctx -> CtxOrNone]
      /\ Main \in Ctx /\ NoCtx \notin Ctx
  BY Fields, CtxAssumption
<1>1. /\ s.status[c] = "Running" /\ c \notin s.susp /\ s.stdin # c
      /\ s.cont[c] # "join" => c \notin s.blk
      /\ s.cont[c] # "join" \/ c # Main => ~(Main \in s.blk /\ s.status[Main] # "Sleeping")
  BY RunningFree
<1>2. /\ \A d \in Ctx \ {c} : t.status[d] = s.status[d] /\ t.cont[d] = s.cont[d]
      /\ t.status[c] = x /\ t.cont[c] = k
  BY <1>0
<1>3. ASSUME NEW d \in Ctx
      PROVE  /\ t.status[d] = "Unborn" <=> s.status[d] = "Unborn"
             /\ t.status[d] = "Dead" <=> s.status[d] = "Dead"
  BY <1>1, <1>2
<1>3a. ASSUME NEW d \in Ctx
       PROVE  /\ Alive(s, d) => Alive(t, d)
              /\ AtJoin(t, d) <=> AtJoin(s, d)
  BY <1>1, <1>2, <1>3 DEF Alive, AtJoin
<1>4. Registered(t) /\ CountRight(t)
  <2>1. t.reg = s.reg /\ t.free = s.free /\ t.live = s.live
    OBVIOUS
  <2> HIDE DEF GivesUp
  <2> QED
    BY <1>3, <2>1, SameRegistry DEF Core
<1>5. Flags(t)
  BY <1>0, <1>1, <1>2 DEF Core, Flags
<1>6. Joins(t)
  <2>1. \A d \in Ctx : AtJoin(s, d) => (d \in t.blk <=> d \in s.blk)
                                       /\ (t.status[d] = "Sleeping" => s.status[d] = "Sleeping")
    BY <1>1, <1>2 DEF AtJoin
  <2> QED
    BY <1>0, <1>3, <1>3a, <2>1 DEF Core, Joins
<1>7. Reads(t)
  BY <1>0, <1>1, <1>2 DEF Core, Reads
<1>8. Forced(t)
  <2>1. SUFFICES ASSUME Main \in t.blk, t.status[Main] # "Sleeping" PROVE Forced(t)
    BY DEF Forced
  <2>2. Main \in s.blk /\ s.status[Main] # "Sleeping"
    BY <1>0, <1>1, <1>2, <2>1
  <2>3. c = Main /\ s.cont[Main] = "join"
    BY <1>1, <2>2
  <2>4. /\ s.stdin = NoCtx
        /\ \A d \in Ctx \ {Main} : d \notin Runnable(s) \cup TimedSleepers(s)
    BY <2>2 DEF Core, Forced
  <2>5. t.stdin = NoCtx /\ t.blk = s.blk /\ k = "join"
    BY <2>3, <2>4
  <2> QED
    BY <1>2, <2>3, <2>4, <2>5 DEF Forced, Runnable, TimedSleepers
<1>9. NotEarly(s, t)
  BY <1>1, <1>2 DEF NotEarly
<1> QED
  BY <1>4, <1>5, <1>6, <1>7, <1>8, <1>9 DEF Good, Core

\* The running coroutine goes on to an operator of its own procedure.
LEMMA ProceedCore ==
  ASSUME NEW s \in SchedType, NEW t \in SchedType, Core(s), NEW c \in Ctx, s.running = c,
         s.cont[c] # "join",
         t.cont = [s.cont EXCEPT ![c] = "proc"],
         t.status = s.status, t.running = s.running,
         t.on = s.on, t.reg = s.reg, t.free = s.free, t.joiner = s.joiner, t.live = s.live,
         t.susp = s.susp, t.blk = s.blk, t.left = s.left, t.stdin = s.stdin
  PROVE  Good(s, t)
<1>0. /\ s.status \in [Ctx -> Statuses] /\ s.cont \in [Ctx -> Conts]
      /\ s.joiner \in [Ctx -> CtxOrNone] /\ s.on \in [Ctx -> CtxOrNone]
      /\ Main \in Ctx /\ NoCtx \notin Ctx
  BY Fields, CtxAssumption
<1>1. /\ s.status[c] = "Running" /\ s.stdin # c
      /\ ~(Main \in s.blk /\ s.status[Main] # "Sleeping")
  BY RunningFree
<1>2. \A d \in Ctx : d # c => t.cont[d] = s.cont[d]
  BY <1>0
<1>3. ASSUME NEW d \in Ctx
      PROVE  /\ Alive(s, d) => Alive(t, d)
             /\ AtJoin(t, d) <=> AtJoin(s, d)
  BY <1>0, <1>2 DEF Alive, AtJoin
<1>4. Registered(t) /\ CountRight(t)
  BY SameRegistry DEF Core
<1>5. Flags(t)
  BY DEF Core, Flags
<1>6. Joins(t)
  BY <1>0, <1>3 DEF Core, Joins
<1>7. Reads(t)
  BY <1>0, <1>1, <1>2 DEF Core, Reads
<1>8. Forced(t)
  BY <1>1 DEF Forced
<1>9. NotEarly(s, t)
  BY DEF NotEarly
<1> QED
  BY <1>4, <1>5, <1>6, <1>7, <1>8, <1>9 DEF Good, Core

\* The running coroutine registers as the joiner of r and blocks; for main, back
\* in its join check by force, this is a registration it already has.
LEMMA JoinCore ==
  ASSUME NEW s \in SchedType, NEW t \in SchedType, Core(s), NEW c \in Ctx, s.running = c,
         NEW r \in s.reg, s.status[r] # "Dead",
         \/ s.cont[c] # "join" /\ s.joiner[r] = NoCtx
         \/ s.cont[c] = "join" /\ s.on[c] = r,
         t.status = [s.status EXCEPT ![c] = "Sleeping"],
         t.cont = [s.cont EXCEPT ![c] = "join"],
         t.on = [s.on EXCEPT ![c] = r],
         t.joiner = [s.joiner EXCEPT ![r] = c],
         t.running = NoCtx, t.blk = s.blk \cup {c},
         t.reg = s.reg, t.free = s.free, t.live = s.live,
         t.susp = s.susp, t.left = s.left, t.stdin = s.stdin
  PROVE  Good(s, t)
<1>0. /\ s.status \in [Ctx -> Statuses] /\ s.cont \in [Ctx -> Conts]
      /\ s.susp \subseteq Ctx /\ s.blk \subseteq Ctx /\ s.reg \subseteq Ctx
      /\ s.joiner \in [Ctx -> CtxOrNone] /\ s.on \in [Ctx -> CtxOrNone]
      /\ Main \in Ctx /\ NoCtx \notin Ctx /\ r \in Ctx
  BY Fields, CtxAssumption
<1>1. /\ s.status[c] = "Running" /\ c \notin s.susp /\ s.stdin # c
      /\ c # Main => ~(Main \in s.blk /\ s.status[Main] # "Sleeping")
  BY RunningFree
<1>2. /\ \A d \in Ctx \ {c} : /\ t.status[d] = s.status[d]
                              /\ t.cont[d] = s.cont[d]
                              /\ t.on[d] = s.on[d]
      /\ t.status[c] = "Sleeping" /\ t.cont[c] = "join" /\ t.on[c] = r
      /\ \A d \in Ctx \ {r} : t.joiner[d] = s.joiner[d]
      /\ t.joiner[r] = c
  BY <1>0
<1>3. ASSUME NEW d \in Ctx
      PROVE  /\ t.status[d] = "Unborn" <=> s.status[d] = "Unborn"
             /\ t.status[d] = "Dead" <=> s.status[d] = "Dead"
  BY <1>1, <1>2
<1>4. Registered(t) /\ CountRight(t)
  BY <1>3, SameRegistry, ZenonT(40) DEF Core
<1>5. Flags(t)
  BY <1>0, <1>1, <1>2 DEF Core, Flags
<1>6. ASSUME NEW d \in Ctx \ {c} PROVE AtJoin(t, d) <=> AtJoin(s, d)
  BY <1>2 DEF AtJoin, Alive
<1>7. AtJoin(t, c) /\ \A d \in Ctx : Alive(s, d) => Alive(t, d)
  BY <1>2, <1>3 DEF AtJoin, Alive
<1>8. ASSUME NEW d \in Ctx \ {c}, AtJoin(s, d) PROVE s.on[d] # r
  <2>1. CASE s.cont[c] # "join" /\ s.joiner[r] = NoCtx
    BY <1>0, <1>8, <2>1 DEF Core, Joins
  <2>2. CASE s.cont[c] = "join" /\ s.on[c] = r
    <3>1. AtJoin(s, c)
      BY <1>1, <2>2 DEF AtJoin, Alive
    <3> QED
      BY <1>0, <1>8, <2>2, <3>1 DEF Core, Joins
  <2> QED
    BY <2>1, <2>2
<1>8a. Alive(s, r)
  BY <1>0 DEF Core, Registered, Alive
<1>9. ASSUME NEW d \in Ctx, t.joiner[d] # NoCtx
      PROVE  /\ Alive(t, d) /\ t.joiner[d] \in Ctx
             /\ AtJoin(t, t.joiner[d]) /\ t.on[t.joiner[d]] = d
  <2>1. CASE d = r
    BY <1>2, <1>7, <1>8a, <2>1
  <2>2. CASE d # r
    <3> DEFINE j == s.joiner[d]
    <3>1. t.joiner[d] = j /\ j # NoCtx
      BY <1>2, <1>9, <2>2
    <3>2. Alive(s, d) /\ j \in Ctx /\ AtJoin(s, j) /\ s.on[j] = d
      BY <3>1 DEF Core, Joins
    <3>3. j # c
      <4>1. CASE s.cont[c] # "join"
        BY <3>2, <4>1 DEF AtJoin
      <4>2. CASE s.on[c] = r
        BY <2>2, <3>2, <4>2
      <4> QED
        BY <4>1, <4>2
    <3> HIDE DEF j
    <3> QED
      BY <1>2, <1>6, <1>7, <3>1, <3>2, <3>3
  <2> QED
    BY <2>1, <2>2
<1>10. ASSUME NEW d \in Ctx, AtJoin(t, d)
       PROVE  /\ t.on[d] \in t.reg
              /\ t.status[t.on[d]] # "Dead" => t.joiner[t.on[d]] = d /\ d \in t.blk
              /\ t.status[t.on[d]] = "Dead" => t.status[d] # "Sleeping" /\ d \notin t.blk
  <2>1. CASE d = c
    BY <1>0, <1>2, <1>3, <2>1
  <2>2. CASE d # c
    <3>1. AtJoin(s, d) /\ t.on[d] = s.on[d] /\ s.on[d] # r /\ t.status[d] = s.status[d]
      BY <1>2, <1>6, <1>8, <1>10, <2>2
    <3>2. /\ s.on[d] \in s.reg
          /\ s.status[s.on[d]] # "Dead" => s.joiner[s.on[d]] = d /\ d \in s.blk
          /\ s.status[s.on[d]] = "Dead" => s.status[d] # "Sleeping" /\ d \notin s.blk
      BY <3>1 DEF Core, Joins
    <3> QED
      BY <1>0, <1>2, <1>3, <2>2, <3>1, <3>2
  <2> QED
    BY <2>1, <2>2
<1>11. ASSUME NEW a \in Ctx, NEW b \in Ctx, AtJoin(t, a), AtJoin(t, b), t.on[a] = t.on[b]
       PROVE  a = b
  <2>1. CASE a = c
    BY <1>2, <1>6, <1>8, <1>11, <2>1
  <2>2. CASE b = c
    BY <1>2, <1>6, <1>8, <1>11, <2>2
  <2>3. CASE a # c /\ b # c
    BY <1>2, <1>6, <1>11, <2>3 DEF Core, Joins
  <2> QED
    BY <2>1, <2>2, <2>3
<1>12. Joins(t)
  BY <1>9, <1>10, <1>11 DEF Joins
<1>13. Reads(t)
  BY <1>0, <1>1, <1>2 DEF Core, Reads
<1>14. Forced(t)
  BY <1>0, <1>1, <1>2 DEF Forced
<1>15. NotEarly(s, t)
  BY <1>1, <1>2 DEF NotEarly
<1> QED
  BY <1>4, <1>5, <1>12, <1>13, <1>14, <1>15 DEF Good, Core

\* The running coroutine frees the dead context r that nobody else waits for.
LEMMA FreeCore ==
  ASSUME NEW s \in SchedType, NEW t \in SchedType, Core(s), NEW c \in Ctx, s.running = c,
         NEW r \in s.reg, s.status[r] = "Dead",
         s.cont[c] # "join" \/ s.on[c] = r,
         \A d \in Ctx \ {c} : AtJoin(s, d) => s.on[d] # r,
         t.cont = [s.cont EXCEPT ![c] = "proc"],
         \A d \in Ctx \ {c} : t.on[d] = s.on[d],
         t.reg = s.reg \ {r}, t.free = <<r>> \o s.free,
         t.status = s.status, t.running = s.running, t.joiner = s.joiner, t.live = s.live,
         t.susp = s.susp, t.blk = s.blk, t.left = s.left, t.stdin = s.stdin
  PROVE  Good(s, t)
<1>0. /\ s.status \in [Ctx -> Statuses] /\ s.cont \in [Ctx -> Conts]
      /\ s.susp \subseteq Ctx /\ s.blk \subseteq Ctx /\ s.reg \subseteq Ctx
      /\ s.joiner \in [Ctx -> CtxOrNone] /\ s.on \in [Ctx -> CtxOrNone]
      /\ s.free \in Seq(Ctx)
      /\ Main \in Ctx /\ NoCtx \notin Ctx /\ r \in Ctx
  BY Fields, CtxAssumption
<1>1. s.status[c] = "Running" /\ s.stdin # c
  BY RunningFree
<1>1a. ~(Main \in s.blk /\ s.status[Main] # "Sleeping")
  <2>1. CASE s.cont[c] # "join" \/ c # Main
    BY <2>1, RunningFree
  <2>2. CASE s.cont[c] = "join" /\ c = Main
    <3>1. AtJoin(s, Main) /\ s.on[Main] = r
      BY <1>1, <2>2 DEF AtJoin, Alive
    <3> QED
      BY <1>0, <3>1 DEF Core, Joins
  <2> QED
    BY <2>1, <2>2
<1>2. t.cont[c] = "proc" /\ \A d \in Ctx \ {c} : t.cont[d] = s.cont[d]
  BY <1>0
<1>3. NoDup(t.free) /\ Elems(t.free) = Elems(s.free) \cup {r}
  <2>1. r \notin Elems(s.free) /\ NoDup(s.free)
    BY DEF Core, Registered
  <2> QED
    BY <1>0, <2>1, ConsList
<1>4. Registered(t)
  <2>1. ASSUME NEW d \in Ctx, Alive(t, d) PROVE d \in t.reg
    <3>1. Alive(s, d) /\ d # r
      BY <2>1 DEF Alive
    <3> QED
      BY <3>1 DEF Core, Registered
  <2>2. Main \in t.reg /\ Alive(t, Main)
    BY <1>0, <2>1 DEF Core, Registered, Alive
  <2>3. ASSUME NEW d \in t.reg PROVE t.status[d] # "Unborn"
    BY DEF Core, Registered
  <2>4. ASSUME NEW d \in Elems(t.free) PROVE t.status[d] = "Dead" /\ d \notin t.reg
    BY <1>3, <2>4 DEF Core, Registered
  <2> QED
    BY <1>3, <2>1, <2>2, <2>3, <2>4 DEF Registered
<1>5. CountRight(t)
  <2>1. Counted(t) = Counted(s)
    BY DEF Counted
  <2>2. IsFiniteSet(t.reg)
    BY FS_Subset DEF Core, CountRight
  <2> QED
    BY <2>1, <2>2 DEF Core, CountRight
<1>6. Flags(t)
  BY DEF Core, Flags
<1>7. ASSUME NEW d \in Ctx
      PROVE  /\ AtJoin(t, d) => AtJoin(s, d) /\ d # c
             /\ AtJoin(s, d) /\ d # c => AtJoin(t, d)
             /\ Alive(s, d) => Alive(t, d)
  BY <1>2 DEF AtJoin, Alive
<1>8. ASSUME NEW d \in Ctx, t.joiner[d] # NoCtx
      PROVE  /\ Alive(t, d) /\ t.joiner[d] \in Ctx
             /\ AtJoin(t, t.joiner[d]) /\ t.on[t.joiner[d]] = d
  <2> DEFINE j == s.joiner[d]
  <2>1. j # NoCtx
    BY <1>8
  <2>2. Alive(s, d) /\ j \in Ctx /\ AtJoin(s, j) /\ s.on[j] = d
    BY <2>1 DEF Core, Joins
  <2>3. d # r
    BY <2>2 DEF Alive
  <2>4. j # c
    BY <2>2, <2>3 DEF AtJoin
  <2> HIDE DEF j
  <2> QED
    BY <1>7, <2>2, <2>4 DEF j
<1>9. ASSUME NEW d \in Ctx, AtJoin(t, d)
      PROVE  /\ t.on[d] \in t.reg
             /\ t.status[t.on[d]] # "Dead" => t.joiner[t.on[d]] = d /\ d \in t.blk
             /\ t.status[t.on[d]] = "Dead" => t.status[d] # "Sleeping" /\ d \notin t.blk
  <2>1. AtJoin(s, d) /\ d # c /\ s.on[d] # r /\ t.on[d] = s.on[d]
    BY <1>7, <1>9
  <2> QED
    BY <2>1 DEF Core, Joins
<1>10. ASSUME NEW a \in Ctx, NEW b \in Ctx, AtJoin(t, a), AtJoin(t, b), t.on[a] = t.on[b]
       PROVE  a = b
  BY <1>7, <1>10 DEF Core, Joins
<1>11. Joins(t)
  BY <1>8, <1>9, <1>10 DEF Joins
<1>12. Reads(t)
  BY <1>0, <1>1, <1>2 DEF Core, Reads
<1>13. Forced(t)
  BY <1>1a DEF Forced
<1>14. NotEarly(s, t)
  BY DEF NotEarly
<1> QED
  BY <1>4, <1>5, <1>6, <1>11, <1>12, <1>13, <1>14 DEF Good, Core

\* What is allocated is in no list, registry or registration.
LEMMA LaunchCore ==
  ASSUME NEW s \in SchedType, NEW t \in SchedType, Core(s), NEW c \in Ctx, s.running = c,
         s.cont[c] # "join",
         NEW d \in Allocatable(s), d \in Ctx,
         t.free = IF s.free # << >> THEN Tail(s.free) ELSE s.free,
         t.status = [s.status EXCEPT ![d] = "Ready"],
         t.susp = s.susp \ {d}, t.blk = s.blk \ {d},
         t.left = [s.left EXCEPT ![d] = 0],
         t.joiner = [s.joiner EXCEPT ![d] = NoCtx],
         t.cont = [s.cont EXCEPT ![d] = "proc"],
         t.on = [s.on EXCEPT ![d] = NoCtx],
         t.reg = s.reg \cup {d},
         t.stdin = s.stdin, t.running = s.running, t.live = s.live + 1
  PROVE  /\ Good(s, t)
         /\ ~Alive(s, d) /\ d \notin s.susp
<1>0. /\ s.status \in [Ctx -> Statuses] /\ s.cont \in [Ctx -> Conts]
      /\ s.susp \subseteq Ctx /\ s.blk \subseteq Ctx /\ s.reg \subseteq Ctx
      /\ s.joiner \in [Ctx -> CtxOrNone] /\ s.on \in [Ctx -> CtxOrNone]
      /\ s.left \in [Ctx -> 0..MaxSleep]
      /\ s.free \in Seq(Ctx) /\ s.live \in Nat
      /\ Main \in Ctx /\ NoCtx \notin Ctx
  BY Fields, CtxAssumption
<1>1. s.status[c] = "Running" /\ ~(Main \in s.blk /\ s.status[Main] # "Sleeping")
  BY RunningFree
<1>2. d \notin s.reg /\ ~Alive(s, d)
  <2>1. CASE s.free # << >>
    <3>1. d \in Elems(s.free)
      BY <1>0, <2>1, TailList DEF Allocatable
    <3> QED
      BY <3>1 DEF Core, Registered, Alive
  <2>2. CASE s.free = << >>
    <3>1. s.status[d] = "Unborn"
      BY <2>2 DEF Allocatable
    <3> QED
      BY <3>1 DEF Core, Registered, Alive
  <2> QED
    BY <2>1, <2>2
<1>3. d # Main /\ d # c /\ d \notin s.susp /\ d \notin s.blk /\ s.stdin # d
  <2>1. d # Main /\ d # c
    BY <1>1, <1>2 DEF Core, Registered, Alive
  <2>2. d \notin s.susp
    BY <1>2 DEF Core, Flags, Alive
  <2>3. d \notin s.blk
    BY <1>2, <2>1 DEF Core, Flags, Alive
  <2>4. s.stdin # d
    BY <1>0, <1>2 DEF Core, Reads, Alive
  <2> QED
    BY <2>1, <2>2, <2>3, <2>4
<1>4. /\ t.status[d] = "Ready" /\ t.cont[d] = "proc" /\ t.joiner[d] = NoCtx
      /\ \A x \in Ctx \ {d} : /\ t.status[x] = s.status[x] /\ t.cont[x] = s.cont[x]
                              /\ t.on[x] = s.on[x] /\ t.joiner[x] = s.joiner[x]
                              /\ t.left[x] = s.left[x]
  BY <1>0
<1>5. Registered(t)
  <2>1. NoDup(t.free) /\ Elems(t.free) \subseteq Elems(s.free) \ {d}
    <3>1. CASE s.free # << >>
      <4>1. d = Head(s.free) /\ t.free = Tail(s.free)
        BY <3>1 DEF Allocatable
      <4>2. NoDup(s.free)
        BY DEF Core, Registered
      <4> QED
        BY <1>0, <3>1, <4>1, <4>2, TailList
    <3>2. CASE s.free = << >>
      <4>1. t.free = s.free /\ Elems(s.free) = {}
        BY <3>2 DEF Elems
      <4> QED
        BY <4>1 DEF Core, Registered
    <3> QED
      BY <3>1, <3>2
  <2>2. Elems(s.free) \subseteq Ctx
    BY <1>0 DEF Elems
  <2>3. ASSUME NEW x \in Elems(t.free) PROVE t.status[x] = "Dead" /\ x \notin t.reg
    BY <1>4, <2>1, <2>2, <2>3 DEF Core, Registered
  <2>4. ASSUME NEW x \in Ctx, Alive(t, x) PROVE x \in t.reg
    <3>1. CASE x = d
      BY <3>1
    <3>2. CASE x # d
      <4>1. Alive(s, x)
        BY <1>4, <2>4, <3>2 DEF Alive
      <4> QED
        BY <4>1 DEF Core, Registered
    <3> QED
      BY <3>1, <3>2
  <2>5. ASSUME NEW x \in t.reg PROVE t.status[x] # "Unborn"
    BY <1>0, <1>4 DEF Core, Registered
  <2>6. Main \in t.reg /\ Alive(t, Main)
    BY <1>0, <1>3, <1>4 DEF Core, Registered, Alive
  <2> QED
    BY <2>1, <2>3, <2>4, <2>5, <2>6 DEF Registered
<1>6. CountRight(t)
  <2>1. Counted(t) = Counted(s) \cup {d} /\ d \notin Counted(s)
    BY <1>0, <1>2, <1>3, <1>4 DEF Counted
  <2>2. IsFiniteSet(s.reg) /\ s.live = Cardinality(Counted(s))
    BY DEF Core, CountRight
  <2>3. IsFiniteSet(Counted(s))
    BY <2>2, FS_Subset DEF Counted
  <2>4. IsFiniteSet(t.reg)
    BY <2>2, FS_AddElement
  <2>5. Cardinality(Counted(s) \cup {d}) = Cardinality(Counted(s)) + 1
    BY <2>1, <2>3, FS_AddElement
  <2> QED
    BY <2>1, <2>2, <2>4, <2>5 DEF CountRight
<1>7. Flags(t)
  BY <1>0, <1>1, <1>3, <1>4 DEF Core, Flags
<1>8. ASSUME NEW x \in Ctx
      PROVE  /\ AtJoin(t, x) <=> AtJoin(s, x) /\ x # d
             /\ Alive(s, x) => Alive(t, x) /\ x # d
  BY <1>2, <1>4 DEF AtJoin, Alive
<1>9. ASSUME NEW x \in Ctx, t.joiner[x] # NoCtx
      PROVE  /\ Alive(t, x) /\ t.joiner[x] \in Ctx
             /\ AtJoin(t, t.joiner[x]) /\ t.on[t.joiner[x]] = x
  <2> DEFINE j == s.joiner[x]
  <2>1. x # d /\ t.joiner[x] = j /\ j # NoCtx
    BY <1>4, <1>9
  <2>2. Alive(s, x) /\ j \in Ctx /\ AtJoin(s, j) /\ s.on[j] = x
    BY <2>1 DEF Core, Joins
  <2>3. j # d
    BY <1>2, <2>2 DEF AtJoin
  <2> HIDE DEF j
  <2> QED
    BY <1>4, <1>8, <2>1, <2>2, <2>3
<1>10. ASSUME NEW x \in Ctx, AtJoin(t, x)
       PROVE  /\ t.on[x] \in t.reg
              /\ t.status[t.on[x]] # "Dead" => t.joiner[t.on[x]] = x /\ x \in t.blk
              /\ t.status[t.on[x]] = "Dead" => t.status[x] # "Sleeping" /\ x \notin t.blk
  <2>1. AtJoin(s, x) /\ x # d /\ t.on[x] = s.on[x] /\ t.status[x] = s.status[x]
    BY <1>4, <1>8, <1>10
  <2>2. /\ s.on[x] \in s.reg
        /\ s.status[s.on[x]] # "Dead" => s.joiner[s.on[x]] = x /\ x \in s.blk
        /\ s.status[s.on[x]] = "Dead" => s.status[x] # "Sleeping" /\ x \notin s.blk
    BY <2>1 DEF Core, Joins
  <2>3. s.on[x] # d
    BY <1>2, <2>2
  <2> QED
    BY <1>0, <1>4, <2>1, <2>2, <2>3
<1>11. ASSUME NEW a \in Ctx, NEW b \in Ctx, AtJoin(t, a), AtJoin(t, b), t.on[a] = t.on[b]
       PROVE  a = b
  BY <1>4, <1>8, <1>11 DEF Core, Joins
<1>12. Joins(t)
  BY <1>9, <1>10, <1>11 DEF Joins
<1>13. Reads(t)
  BY <1>0, <1>3, <1>4 DEF Core, Reads
<1>14. Forced(t)
  BY <1>0, <1>1, <1>3, <1>4 DEF Forced
<1>15. NotEarly(s, t)
  BY <1>2, <1>4 DEF NotEarly, Alive
<1> QED
  BY <1>2, <1>3, <1>5, <1>6, <1>7, <1>12, <1>13, <1>14, <1>15 DEF Good, Core

\* The joiner of a coroutine that is not dead is asleep, unless it is main that
\* has been forced to run and nobody else runs.
LEMMA JoinerAsleep ==
  ASSUME NEW s \in SchedType, Core(s), NEW c \in Ctx, s.running = c, s.cont[c] # "join",
         NEW v \in Ctx, s.joiner[v] # NoCtx
  PROVE  LET j == s.joiner[v]
         IN  /\ j \in Ctx /\ s.status[j] = "Sleeping" /\ s.cont[j] = "join"
             /\ s.on[j] = v /\ j \in s.blk
<1> DEFINE j == s.joiner[v]
<1>1. Alive(s, v) /\ j \in Ctx /\ AtJoin(s, j) /\ s.on[j] = v
  BY DEF Core, Joins
<1> HIDE DEF j
<1>2. j \in s.blk
  BY <1>1 DEF Core, Joins, Alive
<1>3. s.status[j] = "Sleeping"
  BY <1>2, RunningFree DEF Core, Flags
<1> QED
  BY <1>1, <1>2, <1>3 DEF AtJoin, j

\* Coroutine v dies by the hand of c, possibly its own.
LEMMA KillCore ==
  ASSUME NEW s \in SchedType, NEW t \in SchedType, Core(s), NEW c \in Ctx, s.running = c,
         s.cont[c] # "join",
         NEW v \in s.reg, v # Main, s.status[v] # "Dead",
         NEW j \in CtxOrNone, j = IF s.joiner[v] = v THEN NoCtx ELSE s.joiner[v],
         t.running = IF v = c THEN NoCtx ELSE c,
         t.cont = s.cont, t.on = s.on, t.reg = s.reg, t.free = s.free,
         t.left = s.left, t.susp = s.susp \ {v}, t.blk = s.blk \ {v, j},
         t.live = IF s.live > 0 THEN s.live - 1 ELSE 0,
         t.stdin = IF s.stdin = v THEN NoCtx ELSE s.stdin,
         t.status[v] = "Dead",
         j # NoCtx => t.status[j] = "Ready",
         \A x \in Ctx \ {v, j} : t.status[x] = s.status[x],
         t.joiner[v] = NoCtx,
         \A x \in Ctx \ {v} : t.joiner[x] = IF x \in s.reg /\ s.joiner[x] = v
                                            THEN NoCtx ELSE s.joiner[x]
  PROVE  Good(s, t)
<1>0. /\ s.status \in [Ctx -> Statuses] /\ s.cont \in [Ctx -> Conts]
      /\ s.susp \subseteq Ctx /\ s.blk \subseteq Ctx /\ s.reg \subseteq Ctx
      /\ s.joiner \in [Ctx -> CtxOrNone] /\ s.on \in [Ctx -> CtxOrNone]
      /\ s.live \in Nat
      /\ Main \in Ctx /\ NoCtx \notin Ctx /\ v \in Ctx
  BY Fields, CtxAssumption
<1>1. /\ s.status[c] = "Running" /\ ~(Main \in s.blk /\ s.status[Main] # "Sleeping")
      /\ c \notin s.susp /\ s.stdin # c
  BY RunningFree
<1>2. j # NoCtx => /\ j \in Ctx /\ s.status[j] = "Sleeping" /\ s.cont[j] = "join"
                   /\ s.on[j] = v /\ j # v
  BY <1>0, JoinerAsleep
<1>2a. j # NoCtx => j # c /\ s.stdin # j
  BY <1>1, <1>2 DEF Core, Reads
<1>3. ASSUME NEW x \in Ctx \ {v}
      PROVE  /\ t.status[x] = "Unborn" <=> s.status[x] = "Unborn"
             /\ t.status[x] = "Dead" <=> s.status[x] = "Dead"
             /\ t.status[x] = "Running" <=> s.status[x] = "Running"
             /\ t.status[x] = "Sleeping" => s.status[x] = "Sleeping" /\ x # j
             /\ t.status[x] # s.status[x] => x = j
  <2>1. CASE x = j
    BY <1>0, <1>2, <2>1
  <2>2. CASE x # j
    BY <2>2
  <2> QED
    BY <2>1, <2>2
<1>4. Registered(t)
  <2>1. Elems(s.free) \subseteq Ctx
    <3>1. s.free \in Seq(Ctx)
      BY Fields
    <3> QED
      BY <3>1 DEF Elems
  <2>2. ASSUME NEW x \in Elems(s.free) PROVE t.status[x] = "Dead" /\ x \notin t.reg
    BY <1>3, <2>1, <2>2 DEF Core, Registered
  <2>3. ASSUME NEW x \in Ctx, Alive(t, x) PROVE x \in t.reg
    BY <1>3, <2>3 DEF Core, Registered, Alive
  <2>4. ASSUME NEW x \in t.reg PROVE t.status[x] # "Unborn"
    BY <1>0, <1>3 DEF Core, Registered
  <2>5. Main \in t.reg /\ Alive(t, Main)
    BY <1>0, <1>3 DEF Core, Registered, Alive
  <2> QED
    BY <2>2, <2>3, <2>4, <2>5 DEF Core, Registered
<1>5. CountRight(t)
  <2>1. Counted(t) = Counted(s) \ {v} /\ v \in Counted(s)
    <3>1. v \in Counted(s) /\ v \notin Counted(t)
      BY DEF Counted
    <3>2. ASSUME NEW x \in s.reg \ {v} PROVE x \in Counted(t) <=> x \in Counted(s)
      BY <1>0, <1>3 DEF Counted
    <3>3. Counted(t) \subseteq s.reg /\ Counted(s) \subseteq s.reg
      BY DEF Counted
    <3> QED
      BY <3>1, <3>2, <3>3
  <2>2. IsFiniteSet(s.reg) /\ s.live = Cardinality(Counted(s))
    BY DEF Core, CountRight
  <2>3. IsFiniteSet(Counted(s))
    BY <2>2, FS_Subset DEF Counted
  <2>4. Cardinality(Counted(s) \ {v}) = Cardinality(Counted(s)) - 1
    BY <2>1, <2>3, FS_RemoveElement
  <2>4a. Cardinality(Counted(s) \ {v}) \in Nat
    BY <2>3, FS_RemoveElement, FS_CardinalityType
  <2>5. s.live > 0
    BY <1>0, <2>2, <2>4, <2>4a
  <2> QED
    BY <2>1, <2>2, <2>4, <2>5 DEF CountRight
<1>6. Flags(t)
  <2>1. ASSUME NEW x \in Ctx PROVE t.status[x] = "Running" <=> t.running = x
    BY <1>0, <1>3 DEF Core, Flags
  <2>2. ASSUME NEW x \in t.susp PROVE x # Main /\ t.status[x] \in {"Ready", "Sleeping"}
    <3>1. x \in Ctx \ {v} /\ x # Main /\ s.status[x] \in {"Ready", "Sleeping"}
      BY <1>0, <2>2 DEF Core, Flags
    <3>2. CASE x = j
      BY <1>0, <1>2, <3>1, <3>2
    <3>3. CASE x # j
      BY <3>1, <3>3
    <3> QED
      BY <3>1, <3>2, <3>3
  <2>3. ASSUME NEW x \in t.blk PROVE t.status[x] = "Sleeping" \/ x = Main
    <3>1. x \in Ctx \ {v, j} /\ x \in s.blk
      BY <1>0
    <3> QED
      BY <3>1 DEF Core, Flags
  <2> QED
    BY <2>1, <2>2, <2>3 DEF Flags
<1>7. ASSUME NEW x \in Ctx
      PROVE  /\ AtJoin(t, x) <=> AtJoin(s, x) /\ x # v
             /\ Alive(t, x) <=> Alive(s, x) /\ x # v
  <2>1. CASE x = v
    BY <2>1 DEF AtJoin, Alive
  <2>2. CASE x # v
    BY <1>3, <2>2 DEF AtJoin, Alive
  <2> QED
    BY <2>1, <2>2
<1>8. ASSUME NEW x \in Ctx, t.joiner[x] # NoCtx
      PROVE  /\ Alive(t, x) /\ t.joiner[x] \in Ctx
             /\ AtJoin(t, t.joiner[x]) /\ t.on[t.joiner[x]] = x
  <2> DEFINE i == s.joiner[x]
  <2>1. x # v /\ i # NoCtx /\ t.joiner[x] = i
    BY <1>8
  <2>2. Alive(s, x) /\ i \in Ctx /\ AtJoin(s, i) /\ s.on[i] = x
    BY <2>1 DEF Core, Joins
  <2>3. x \in s.reg
    BY <2>2 DEF Core, Registered
  <2>4. i # v
    BY <1>0, <2>1, <2>2, <2>3
  <2> HIDE DEF i
  <2> QED
    BY <1>7, <2>1, <2>2, <2>4
<1>9. ASSUME NEW x \in Ctx, AtJoin(t, x)
      PROVE  /\ t.on[x] \in t.reg
             /\ t.status[t.on[x]] # "Dead" => t.joiner[t.on[x]] = x /\ x \in t.blk
             /\ t.status[t.on[x]] = "Dead" => t.status[x] # "Sleeping" /\ x \notin t.blk
  <2>1. AtJoin(s, x) /\ x # v
    BY <1>7, <1>9
  <2>2. /\ s.on[x] \in s.reg
        /\ s.status[s.on[x]] # "Dead" => s.joiner[s.on[x]] = x /\ x \in s.blk
        /\ s.status[s.on[x]] = "Dead" => s.status[x] # "Sleeping" /\ x \notin s.blk
    BY <2>1 DEF Core, Joins
  <2>3. CASE s.on[x] = v
    <3>1. x = j
      BY <2>1, <2>2, <2>3
    <3> QED
      BY <1>0, <2>1, <2>2, <2>3, <3>1
  <2>4. CASE s.on[x] # v
    <3>1. x # j
      BY <1>0, <1>2, <2>1, <2>4
    <3>2. t.status[x] = s.status[x]
      BY <2>1, <3>1
    <3>3. s.on[x] \in Ctx \ {v}
      BY <1>0, <2>2, <2>4
    <3>4. t.status[s.on[x]] = "Dead" <=> s.status[s.on[x]] = "Dead"
      BY <1>3, <3>3
    <3>5. s.joiner[s.on[x]] = x => t.joiner[s.on[x]] = x
      BY <1>0, <2>1, <3>3
    <3> QED
      BY <2>1, <2>2, <3>1, <3>2, <3>3, <3>4, <3>5
  <2> QED
    BY <2>3, <2>4
<1>10. ASSUME NEW a \in Ctx, NEW b \in Ctx, AtJoin(t, a), AtJoin(t, b), t.on[a] = t.on[b]
       PROVE  a = b
  BY <1>7, <1>10 DEF Core, Joins
<1>11. Joins(t)
  BY <1>8, <1>9, <1>10 DEF Joins
<1>12. Reads(t)
  <2>1. ASSUME t.stdin # NoCtx
        PROVE  /\ t.stdin \in Ctx
               /\ t.status[t.stdin] = "Sleeping"
               /\ t.cont[t.stdin] \in {"readkey", "readkeyT"}
               /\ t.stdin \in t.susp /\ t.stdin \notin t.blk => t.left[t.stdin] > 0
    <3>1. t.stdin = s.stdin /\ s.stdin # v /\ s.stdin # NoCtx
      BY <2>1
    <3>2. /\ s.stdin \in Ctx
          /\ s.status[s.stdin] = "Sleeping"
          /\ s.cont[s.stdin] \in {"readkey", "readkeyT"}
          /\ s.stdin \in s.susp /\ s.stdin \notin s.blk => s.left[s.stdin] > 0
      BY <3>1 DEF Core, Reads
    <3>3. s.stdin # j
      BY <1>2a, <3>1
    <3> QED
      BY <3>1, <3>2, <3>3
  <2>2. ASSUME NEW x \in Ctx, t.status[x] = "Sleeping", x \in t.blk, t.cont[x] # "join"
        PROVE  t.stdin = x
    <3>1. x # v /\ x # j /\ x \in s.blk /\ s.status[x] = "Sleeping"
      BY <1>0, <1>3, <2>2
    <3> QED
      BY <2>2, <3>1 DEF Core, Reads
  <2> QED
    BY <2>1, <2>2 DEF Reads
<1>13. Forced(t)
  <2>1. ~(Main \in t.blk /\ t.status[Main] # "Sleeping")
    BY <1>0, <1>1
  <2> QED
    BY <2>1 DEF Forced
<1>14. NotEarly(s, t)
  <2>1. ASSUME NEW x \in Ctx, s.status[x] = "Sleeping", s.cont[x] = "proc", t.status[x] = "Ready"
        PROVE  FALSE
    <3>1. x # v
      BY <2>1
    <3>2. x = j
      BY <1>3, <2>1, <3>1
    <3> QED
      BY <1>0, <1>2, <2>1, <3>2
  <2> QED
    BY <2>1 DEF NotEarly
<1> QED
  BY <1>4, <1>5, <1>6, <1>11, <1>12, <1>13, <1>14 DEF Good, Core

\* Main kills everybody else.
LEMMA KillAllCore ==
  ASSUME NEW s \in SchedType, NEW t \in SchedType, Core(s), s.running = Main,
         s.cont[Main] # "join",
         NEW V, V = {x \in s.reg \ {Main} : s.status[x] # "Dead"},
         \A x \in V : t.status[x] = "Dead",
         \A x \in Ctx \ V : t.status[x] = s.status[x],
         t.susp = s.susp \ V, t.blk = s.blk \ V,
         \A x \in Ctx : t.joiner[x] = IF x \in V \/ s.joiner[x] \in V THEN NoCtx ELSE s.joiner[x],
         t.stdin = IF s.stdin \in V THEN NoCtx ELSE s.stdin,
         t.live = 0,
         t.running = s.running, t.cont = s.cont, t.on = s.on, t.reg = s.reg, t.free = s.free,
         t.left = s.left
  PROVE  /\ Good(s, t)
         /\ Runnable(t) = {} /\ TimedSleepers(t) = {}
<1>0. /\ s.status \in [Ctx -> Statuses] /\ s.cont \in [Ctx -> Conts]
      /\ s.susp \subseteq Ctx /\ s.blk \subseteq Ctx /\ s.reg \subseteq Ctx
      /\ s.joiner \in [Ctx -> CtxOrNone] /\ s.on \in [Ctx -> CtxOrNone]
      /\ Main \in Ctx /\ NoCtx \notin Ctx /\ V \subseteq Ctx /\ Main \notin V /\ V \subseteq s.reg
  BY Fields, CtxAssumption
<1>1. /\ s.status[Main] = "Running" /\ Main \notin s.blk /\ Main \notin s.susp /\ s.stdin # Main
  BY <1>0, RunningFree
<1>2. ASSUME NEW x \in Ctx \ {Main} PROVE t.status[x] \in {"Dead", "Unborn"}
  <2>1. CASE x \in V
    BY <2>1
  <2>2. CASE x \notin V
    <3>1. CASE x \in s.reg
      BY <2>2, <3>1
    <3>2. CASE x \notin s.reg
      <4>1. ~Alive(s, x)
        BY <3>2 DEF Core, Registered
      <4> QED
        BY <2>2, <4>1 DEF Alive
    <3> QED
      BY <3>1, <3>2
  <2> QED
    BY <2>1, <2>2
<1>3. t.status[Main] = "Running"
  BY <1>0, <1>1
<1>4. Registered(t)
  <2>1. Elems(s.free) \subseteq Ctx
    <3>1. s.free \in Seq(Ctx)
      BY Fields
    <3> QED
      BY <3>1 DEF Elems
  <2>2. ASSUME NEW x \in Elems(s.free) PROVE t.status[x] = "Dead" /\ x \notin t.reg
    BY <1>0, <2>1, <2>2 DEF Core, Registered
  <2>3. ASSUME NEW x \in Ctx, Alive(t, x) PROVE x \in t.reg
    <3>1. x = Main
      BY <1>2, <2>3 DEF Alive
    <3> QED
      BY <3>1 DEF Core, Registered
  <2>4. ASSUME NEW x \in t.reg PROVE t.status[x] # "Unborn"
    BY <1>0 DEF Core, Registered
  <2>5. Main \in t.reg /\ Alive(t, Main)
    BY <1>3 DEF Core, Registered, Alive
  <2> QED
    BY <2>2, <2>3, <2>4, <2>5 DEF Core, Registered
<1>5. CountRight(t)
  <2>1. Counted(t) = {}
    BY <1>0, <1>2, <1>4 DEF Counted, Registered
  <2> QED
    BY <2>1, FS_EmptySet DEF Core, CountRight
<1>6. Flags(t)
  <2>1. ASSUME NEW x \in Ctx PROVE t.status[x] = "Running" <=> t.running = x
    BY <1>2, <1>3
  <2>2. t.susp = {}
    <3>1. SUFFICES ASSUME NEW x \in t.susp PROVE FALSE
      OBVIOUS
    <3>2. x \in s.susp /\ x \notin V /\ x \in Ctx
      BY <1>0
    <3>3. x # Main /\ Alive(s, x)
      BY <1>1, <3>2 DEF Core, Flags, Alive
    <3>4. x \in s.reg
      BY <3>2, <3>3 DEF Core, Registered
    <3> QED
      BY <3>2, <3>3, <3>4 DEF Alive
  <2>3. t.blk = {}
    <3>1. SUFFICES ASSUME NEW x \in t.blk PROVE FALSE
      OBVIOUS
    <3>2. x \in s.blk /\ x \notin V /\ x \in Ctx
      BY <1>0
    <3>3. x # Main /\ Alive(s, x)
      BY <1>1, <3>2 DEF Core, Flags, Alive
    <3>4. x \in s.reg
      BY <3>2, <3>3 DEF Core, Registered
    <3> QED
      BY <3>2, <3>3, <3>4 DEF Alive
  <2> QED
    BY <2>1, <2>2, <2>3 DEF Flags
<1>7. ASSUME NEW x \in Ctx PROVE ~AtJoin(t, x)
  BY <1>2 DEF AtJoin, Alive
<1>8. ASSUME NEW x \in Ctx PROVE t.joiner[x] = NoCtx
  <2>1. SUFFICES ASSUME s.joiner[x] # NoCtx PROVE s.joiner[x] \in V
    BY <1>0
  <2> DEFINE i == s.joiner[x]
  <2>2. i \in Ctx /\ AtJoin(s, i)
    BY <2>1 DEF Core, Joins
  <2> HIDE DEF i
  <2>3. i # Main /\ i \in s.reg
    BY <2>2 DEF AtJoin, Core, Registered
  <2>4. i \in V
    BY <2>2, <2>3 DEF AtJoin, Alive
  <2> QED
    BY <2>4 DEF i
<1>9. Joins(t)
  BY <1>7, <1>8 DEF Joins
<1>10. t.stdin = NoCtx
  <2>1. SUFFICES ASSUME s.stdin # NoCtx PROVE s.stdin \in V
    OBVIOUS
  <2>2. s.stdin \in Ctx /\ s.status[s.stdin] = "Sleeping"
    BY <2>1 DEF Core, Reads
  <2>3. s.stdin \in s.reg
    BY <2>2 DEF Core, Registered, Alive
  <2> QED
    BY <1>1, <2>2, <2>3
<1>11. Reads(t)
  <2>1. ASSUME NEW x \in Ctx PROVE t.status[x] # "Sleeping"
    BY <1>2, <1>3
  <2> QED
    BY <1>10, <2>1 DEF Reads
<1>12. Forced(t)
  BY <1>1 DEF Forced
<1>13. NotEarly(s, t)
  <2>1. ASSUME NEW x \in Ctx PROVE t.status[x] # "Ready"
    BY <1>2, <1>3
  <2> QED
    BY <2>1 DEF NotEarly
<1>14. Runnable(t) = {} /\ TimedSleepers(t) = {}
  <2>1. ASSUME NEW x \in Ctx PROVE t.status[x] # "Ready" /\ t.status[x] # "Sleeping"
    BY <1>2, <1>3
  <2> QED
    BY <2>1 DEF Runnable, TimedSleepers
<1> QED
  BY <1>4, <1>5, <1>6, <1>9, <1>11, <1>12, <1>13, <1>14 DEF Good, Core

\* Suspending v, or changing its priority: nobody's status changes.
LEMMA SuspendCore ==
  ASSUME NEW s \in SchedType, NEW t \in SchedType, Core(s), NEW c \in Ctx, s.running = c,
         s.cont[c] # "join",
         NEW S \in SUBSET Ctx, t.susp = s.susp \cup S,
         \A v \in S : /\ v # c /\ v # Main /\ v \in s.reg /\ s.status[v] # "Dead"
                      /\ s.stdin # v \/ v \in s.blk \/ s.left[v] > 0,
         t.status = s.status, t.cont = s.cont, t.on = s.on, t.reg = s.reg, t.free = s.free,
         t.joiner = s.joiner, t.live = s.live, t.running = s.running, t.blk = s.blk,
         t.left = s.left, t.stdin = s.stdin
  PROVE  Good(s, t)
<1>0. s.status \in [Ctx -> Statuses] /\ Main \in Ctx
  BY Fields, CtxAssumption
<1>1. ~(Main \in s.blk /\ s.status[Main] # "Sleeping")
  BY RunningFree
<1>2. Registered(t) /\ CountRight(t)
  BY SameRegistry DEF Core
<1>3. Flags(t)
  <2>1. ASSUME NEW v \in S PROVE v # Main /\ s.status[v] \in {"Ready", "Sleeping"}
    <3>1. v # Main /\ s.status[v] # "Dead" /\ s.status[v] # "Unborn"
      BY DEF Core, Registered
    <3>2. s.status[v] # "Running"
      BY DEF Core, Flags
    <3> QED
      BY <1>0, <3>1, <3>2 DEF Statuses
  <2> QED
    BY <2>1 DEF Core, Flags
<1>4. Joins(t)
  BY DEF Core, Joins, AtJoin, Alive
<1>5. Reads(t)
  BY DEF Core, Reads
<1>6. Forced(t)
  BY <1>1 DEF Forced
<1>7. NotEarly(s, t)
  BY DEF NotEarly
<1> QED
  BY <1>2, <1>3, <1>4, <1>5, <1>6, <1>7 DEF Good, Core

\* A blocked sleeper at a join check is not woken by time or a key.
LEMMA NotAtJoin ==
  ASSUME NEW s \in SchedType, Core(s), NEW v \in Ctx, s.status[v] = "Sleeping",
         v \notin s.blk \/ s.stdin = v
  PROVE  s.cont[v] # "join"
<1>1. v \notin s.blk => ~AtJoin(s, v)
  BY DEF Core, Joins
<1>2. s.stdin = v => s.cont[v] # "join"
  BY CtxAssumption DEF Core, Reads
<1> QED
  BY <1>1, <1>2 DEF AtJoin, Alive

\* v, asleep until its time or for a key, becomes ready, or is resumed as it is;
\* the stdin slot no longer names it if it is ready.
LEMMA ReadyCore ==
  ASSUME NEW s \in SchedType, NEW t \in SchedType, Core(s), NEW v \in Ctx,
         s.status[v] = "Sleeping", s.cont[v] # "join",
         ~(Main \in s.blk /\ s.status[Main] # "Sleeping"),
         s.cont[v] = "proc" => s.left[v] = 0,
         t.status = [s.status EXCEPT ![v] = "Ready"],
         t.blk = s.blk \ {v},
         t.susp = s.susp \/ t.susp = s.susp \ {v},
         t.stdin = IF s.stdin = v THEN NoCtx ELSE s.stdin,
         t.cont = s.cont, t.on = s.on, t.reg = s.reg, t.free = s.free,
         t.joiner = s.joiner, t.live = s.live, t.running = s.running, t.left = s.left
  PROVE  Good(s, t)
<1>0. /\ s.status \in [Ctx -> Statuses] /\ s.cont \in [Ctx -> Conts]
      /\ s.susp \subseteq Ctx /\ s.blk \subseteq Ctx /\ s.reg \subseteq Ctx
      /\ s.joiner \in [Ctx -> CtxOrNone] /\ s.on \in [Ctx -> CtxOrNone]
      /\ Main \in Ctx /\ NoCtx \notin Ctx
  BY Fields, CtxAssumption
<1>2. t.status[v] = "Ready" /\ \A d \in Ctx \ {v} : t.status[d] = s.status[d]
  BY <1>0
<1>3. ASSUME NEW d \in Ctx
      PROVE  /\ t.status[d] = "Unborn" <=> s.status[d] = "Unborn"
             /\ t.status[d] = "Dead" <=> s.status[d] = "Dead"
             /\ AtJoin(t, d) <=> AtJoin(s, d)
             /\ AtJoin(s, d) => d # v
             /\ Alive(s, d) => Alive(t, d)
  BY <1>2 DEF AtJoin, Alive
<1>4. Registered(t) /\ CountRight(t)
  BY <1>3, SameRegistry DEF Core
<1>5. Flags(t)
  <2>1. ASSUME NEW x \in Ctx PROVE t.status[x] = "Running" <=> t.running = x
    BY <1>2 DEF Core, Flags
  <2>2. ASSUME NEW x \in t.susp PROVE x # Main /\ t.status[x] \in {"Ready", "Sleeping"}
    BY <1>0, <1>2 DEF Core, Flags
  <2>3. ASSUME NEW x \in t.blk PROVE t.status[x] = "Sleeping" \/ x = Main
    BY <1>0, <1>2 DEF Core, Flags
  <2> QED
    BY <2>1, <2>2, <2>3 DEF Flags
<1>6. Joins(t)
  <2>1. ASSUME NEW d \in Ctx, AtJoin(s, d) PROVE d \in t.blk <=> d \in s.blk
    BY <1>3, <2>1
  <2>2. ASSUME NEW d \in Ctx, AtJoin(s, d) PROVE t.status[d] = s.status[d]
    BY <1>2, <1>3, <2>2
  <2> QED
    BY <1>0, <1>3, <2>1, <2>2 DEF Core, Joins
<1>7. Reads(t)
  <2>1. ASSUME t.stdin # NoCtx
        PROVE  /\ t.stdin \in Ctx
               /\ t.status[t.stdin] = "Sleeping"
               /\ t.cont[t.stdin] \in {"readkey", "readkeyT"}
               /\ t.stdin \in t.susp /\ t.stdin \notin t.blk => t.left[t.stdin] > 0
    BY <1>2, <2>1 DEF Core, Reads
  <2>2. ASSUME NEW x \in Ctx, t.status[x] = "Sleeping", x \in t.blk, t.cont[x] # "join"
        PROVE  t.stdin = x
    BY <1>2, <2>2 DEF Core, Reads
  <2> QED
    BY <2>1, <2>2 DEF Reads
<1>8. Forced(t)
  BY <1>0, <1>2 DEF Forced
<1>9. NotEarly(s, t)
  <2>1. ASSUME NEW x \in Ctx, s.status[x] = "Sleeping", s.cont[x] = "proc", t.status[x] = "Ready"
        PROVE  s.left[x] = 0
    BY <1>2, <2>1
  <2> QED
    BY <2>1 DEF NotEarly
<1> QED
  BY <1>4, <1>5, <1>6, <1>7, <1>8, <1>9 DEF Good, Core

\* Resuming v without changing its status.
LEMMA UnsuspendCore ==
  ASSUME NEW s \in SchedType, NEW t \in SchedType, Core(s), NEW v,
         ~(Main \in s.blk /\ s.status[Main] # "Sleeping"),
         t.susp = s.susp \ {v},
         t.status = s.status, t.cont = s.cont, t.on = s.on, t.reg = s.reg, t.free = s.free,
         t.joiner = s.joiner, t.live = s.live, t.running = s.running, t.blk = s.blk,
         t.left = s.left, t.stdin = s.stdin
  PROVE  Good(s, t)
<1>2. Registered(t) /\ CountRight(t)
  BY SameRegistry DEF Core
<1>3. Flags(t)
  BY DEF Core, Flags
<1>4. Joins(t)
  BY DEF Core, Joins, AtJoin, Alive
<1>5. Reads(t)
  BY DEF Core, Reads
<1>6. Forced(t)
  BY DEF Forced
<1>7. NotEarly(s, t)
  BY DEF NotEarly
<1> QED
  BY <1>2, <1>3, <1>4, <1>5, <1>6, <1>7 DEF Good, Core

\* Time passes for those in the timer list, which no suspended reader is in.
LEMMA ElapseCore ==
  ASSUME NEW s \in SchedType, NEW t \in SchedType, Core(s),
         \A x \in s.susp : t.left[x] = s.left[x],
         t.susp = s.susp, t.status = s.status, t.cont = s.cont, t.on = s.on, t.reg = s.reg,
         t.free = s.free, t.joiner = s.joiner, t.live = s.live, t.running = s.running,
         t.blk = s.blk, t.stdin = s.stdin
  PROVE  Good(s, t)
<1>2. Registered(t) /\ CountRight(t)
  BY SameRegistry DEF Core
<1>3. Flags(t)
  BY DEF Core, Flags
<1>4. Joins(t)
  BY DEF Core, Joins, AtJoin, Alive
<1>5. Reads(t)
  BY DEF Core, Reads
<1>6. Forced(t)
  BY DEF Core, Forced, Runnable, TimedSleepers
<1>7. NotEarly(s, t)
  BY DEF NotEarly
<1> QED
  BY <1>2, <1>3, <1>4, <1>5, <1>6, <1>7 DEF Good, Core

\* The scheduler loads v: a ready coroutine, or main when nobody is ready or
\* waits for a key or a timer.
LEMMA LoadCore ==
  ASSUME NEW s \in SchedType, NEW t \in SchedType, Core(s), NEW v \in Ctx, s.running = NoCtx,
         \/ v \in Runnable(s)
         \/ /\ v = Main /\ s.stdin = NoCtx
            /\ Runnable(s) = {} /\ TimedSleepers(s) = {},
         t.status = [s.status EXCEPT ![v] = "Running"], t.running = v,
         t.susp = s.susp, t.cont = s.cont, t.on = s.on, t.reg = s.reg,
         t.free = s.free, t.joiner = s.joiner, t.live = s.live,
         t.blk = s.blk, t.stdin = s.stdin, t.left = s.left
  PROVE  Good(s, t)
<1>0. /\ s.status \in [Ctx -> Statuses] /\ s.cont \in [Ctx -> Conts]
      /\ s.susp \subseteq Ctx /\ s.blk \subseteq Ctx /\ s.reg \subseteq Ctx
      /\ s.joiner \in [Ctx -> CtxOrNone] /\ s.on \in [Ctx -> CtxOrNone]
      /\ Main \in Ctx /\ NoCtx \notin Ctx
  BY Fields, CtxAssumption
<1>1. t.status[v] = "Running" /\ \A d \in Ctx \ {v} : t.status[d] = s.status[d]
  BY <1>0
<1>2. \/ s.status[v] = "Ready" /\ v \notin s.susp
      \/ /\ v = Main /\ s.status[Main] = "Sleeping" /\ v \notin s.susp
         /\ s.cont[Main] = "join" /\ Main \in s.blk
         /\ s.stdin = NoCtx /\ Runnable(s) = {} /\ TimedSleepers(s) = {}
  <2>1. CASE v \in Runnable(s)
    BY <2>1 DEF Runnable
  <2>2. CASE v = Main /\ s.stdin = NoCtx /\ Runnable(s) = {} /\ TimedSleepers(s) = {}
    <3>1. Main \notin s.susp /\ s.status[Main] # "Running"
      BY <1>0 DEF Core, Flags
    <3>2. s.status[Main] # "Ready"
      BY <1>0, <2>2, <3>1 DEF Runnable
    <3>3. s.status[Main] = "Sleeping"
      BY <1>0, <3>1, <3>2 DEF Core, Registered, Alive, Statuses
    <3>4. Main \in s.blk
      BY <1>0, <2>2, <3>1, <3>3 DEF TimedSleepers
    <3>5. s.cont[Main] = "join"
      BY <1>0, <2>2, <3>3, <3>4 DEF Core, Reads
    <3> QED
      BY <2>2, <3>1, <3>3, <3>4, <3>5
  <2> QED
    BY <2>1, <2>2
<1>3. ASSUME NEW d \in Ctx
      PROVE  /\ t.status[d] = "Unborn" <=> s.status[d] = "Unborn"
             /\ t.status[d] = "Dead" <=> s.status[d] = "Dead"
             /\ AtJoin(t, d) <=> AtJoin(s, d)
             /\ Alive(s, d) => Alive(t, d)
             /\ t.status[d] = "Sleeping" => s.status[d] = "Sleeping"
  BY <1>1, <1>2 DEF AtJoin, Alive
<1>4. Registered(t) /\ CountRight(t)
  BY <1>3, SameRegistry DEF Core
<1>5. Flags(t)
  <2>1. ASSUME NEW x \in Ctx PROVE t.status[x] = "Running" <=> t.running = x
    BY <1>0, <1>1 DEF Core, Flags
  <2>2. ASSUME NEW x \in t.susp PROVE x # Main /\ t.status[x] \in {"Ready", "Sleeping"}
    BY <1>0, <1>1, <1>2 DEF Core, Flags
  <2>3. ASSUME NEW x \in t.blk PROVE t.status[x] = "Sleeping" \/ x = Main
    BY <1>0, <1>1, <1>2 DEF Core, Flags
  <2> QED
    BY <2>1, <2>2, <2>3 DEF Flags
<1>6. Joins(t)
  BY <1>0, <1>3 DEF Core, Joins
<1>7. Reads(t)
  <2>1. s.stdin # NoCtx => s.stdin # v
    BY <1>2 DEF Core, Reads
  <2>2. ASSUME NEW x \in Ctx, t.status[x] = "Sleeping", x \in t.blk, t.cont[x] # "join"
        PROVE  t.stdin = x
    BY <1>3, <2>2 DEF Core, Reads
  <2> QED
    BY <1>1, <2>1, <2>2 DEF Core, Reads
<1>8. Forced(t)
  <2>1. SUFFICES ASSUME Main \in t.blk, t.status[Main] # "Sleeping" PROVE Forced(t)
    BY DEF Forced
  <2>2. CASE v = Main /\ s.status[Main] = "Sleeping"
    BY <1>1, <1>2, <2>2 DEF Forced, Runnable, TimedSleepers
  <2>3. CASE ~(v = Main /\ s.status[Main] = "Sleeping")
    <3>1. s.status[v] = "Ready" /\ v \notin s.susp
      BY <1>2, <2>3
    <3>2. Main \in s.blk /\ s.status[Main] # "Sleeping"
      BY <1>0, <1>1, <2>1, <2>3
    <3>3. /\ s.cont[Main] = "join" /\ s.stdin = NoCtx
          /\ \A d \in Ctx \ {Main} : d \notin Runnable(s) \cup TimedSleepers(s)
      BY <3>2 DEF Core, Forced
    <3>4. v = Main
      BY <3>1, <3>3 DEF Runnable
    <3> QED
      BY <1>1, <3>3, <3>4 DEF Forced, Runnable, TimedSleepers
  <2> QED
    BY <2>2, <2>3
<1>9. NotEarly(s, t)
  BY <1>1 DEF NotEarly
<1> QED
  BY <1>4, <1>5, <1>6, <1>7, <1>8, <1>9 DEF Good, Core

-----------------------------------------------------------------------------
(* Each operator keeps the core and the lists. *)

\* u differs from s at most in continuations, registrations and the stdin slot.
SameState(s, u) ==
  /\ u.status = s.status /\ u.susp = s.susp /\ u.blk = s.blk
  /\ u.hi = s.hi /\ u.left = s.left
  /\ u.high = s.high /\ u.norm = s.norm /\ u.timers = s.timers
  /\ u.reg = s.reg /\ u.free = s.free /\ u.live = s.live

\* Steps that change neither status, flags nor links keep the lists right.
LEMMA SameLists ==
  ASSUME NEW s \in SchedType, NEW t \in SchedType, Lists(s),
         t.status = s.status, t.susp = s.susp, t.blk = s.blk,
         t.hi = s.hi, t.left = s.left,
         t.high = s.high, t.norm = s.norm, t.timers = s.timers
  PROVE  Lists(t)
<1>1. Runnable(t) = Runnable(s) /\ TimedSleepers(t) = TimedSleepers(s)
  BY DEF Runnable, TimedSleepers
<1>2. Listed(t, Runnable(s), TimedSleepers(s))
  BY SameListed DEF Lists
<1> QED
  BY <1>1, <1>2 DEF Lists

\* A yield: u is s with the continuation k of the running coroutine c.
LEMMA YieldSound ==
  ASSUME NEW s, Sound(s), NEW c \in Ctx, s.running = c, NEW k \in Conts,
         NEW u \in SchedType, SameState(s, u), u.stdin = s.stdin, u.joiner = s.joiner,
         u.on = s.on, u.cont = [s.cont EXCEPT ![c] = k],
         k = "join" <=> s.cont[c] = "join"
  PROVE  Good(s, YieldCpu(u, c)) /\ Lists(YieldCpu(u, c))
<1> DEFINE t == YieldCpu(u, c)
           w == [u EXCEPT !.status[c] = "Ready", !.running = NoCtx]
           R == Runnable(s)
           T == TimedSleepers(s)
<1>0. s \in SchedType /\ Core(s) /\ Listed(s, R, T) /\ s.status \in [Ctx -> Statuses]
  BY Fields DEF Sound, Lists
<1>1. /\ t \in SchedType /\ SamePrograms(u, t)
      /\ t.joiner = u.joiner /\ t.live = u.live /\ t.running = NoCtx
      /\ t.status = [u.status EXCEPT ![c] = "Ready"]
      /\ t.blk = u.blk /\ t.susp = u.susp /\ t.hi = u.hi
      /\ t.left = u.left
      /\ t.stdin = u.stdin
  BY YieldType, YieldFrame, ZenonT(40)
<1>2. s.status[c] = "Running" /\ c \notin s.susp /\ c \notin R /\ c \notin T
  BY <1>0, RunningFree
<1>3. Good(s, t)
  <2>1. /\ t.status = [s.status EXCEPT ![c] = "Ready"]
        /\ t.cont = [s.cont EXCEPT ![c] = k]
        /\ t.on = s.on /\ t.reg = s.reg /\ t.free = s.free /\ t.joiner = s.joiner
        /\ t.live = s.live /\ t.susp = s.susp /\ t.left = s.left
        /\ t.stdin = s.stdin /\ t.blk = s.blk
    BY <1>1 DEF SameState, SamePrograms
  <2>2. t \in SchedType /\ t.running = NoCtx
    BY <1>1
  <2> HIDE DEF t
  <2>3. GivesUp(s, t, c, "Ready", k)
    BY <2>1, <2>2 DEF GivesUp
  <2> QED
    BY <1>0, <2>2, <2>3, GiveUpCore
<1>4. t = ready_queue_push(w, c)
  BY DEF YieldCpu
<1>5. /\ w \in SchedType
      /\ w.high = u.high /\ w.norm = u.norm /\ w.timers = u.timers
      /\ w.hi = u.hi /\ w.left = u.left
  BY DEF SchedType, Statuses, CtxOrNone
<1> HIDE DEF w, t, R, T
<1>6. Listed(w, R, T)
  BY <1>0, <1>5, SameListed DEF SameState
<1>7. Listed(t, R \cup {c}, T)
  BY <1>2, <1>4, <1>5, <1>6, PushListed
<1>8. t.status[c] = "Ready" /\ \A x \in Ctx \ {c} : t.status[x] = s.status[x]
  BY <1>0, <1>1 DEF SameState
<1>9. Runnable(t) = R \cup {c} /\ TimedSleepers(t) = T
  BY <1>1, <1>2, <1>8 DEF Runnable, TimedSleepers, R, T, SameState
<1> QED
  BY <1>3, <1>7, <1>9 DEF Lists, t

\* A timed sleep, or a read with a timeout.
LEMMA SleepSound ==
  ASSUME NEW s, Sound(s), NEW c \in Ctx, s.running = c, NEW k \in Conts,
         NEW u \in SchedType, SameState(s, u), u.joiner = s.joiner,
         u.on = s.on, u.cont = [s.cont EXCEPT ![c] = k],
         k # "join", s.cont[c] # "join",
         \/ u.stdin = s.stdin
         \/ s.stdin = NoCtx /\ u.stdin = c /\ k = "readkeyT",
         NEW d \in 0..MaxSleep
  PROVE  Good(s, SleepFor(u, c, d)) /\ Lists(SleepFor(u, c, d))
<1> DEFINE t == SleepFor(u, c, d)
           w == [u EXCEPT !.status[c] = "Sleeping", !.left[c] = d, !.running = NoCtx]
           R == Runnable(s)
           T == TimedSleepers(s)
<1>0. /\ s \in SchedType /\ Core(s) /\ Listed(s, R, T) /\ s.status \in [Ctx -> Statuses]
      /\ s.left \in [Ctx -> 0..MaxSleep]
  BY Fields DEF Sound, Lists
<1>1. /\ t \in SchedType /\ SamePrograms(u, t)
      /\ t.joiner = u.joiner /\ t.live = u.live /\ t.running = NoCtx
      /\ t.status = [u.status EXCEPT ![c] = "Sleeping"]
      /\ t.left = [u.left EXCEPT ![c] = d]
      /\ t.blk = u.blk /\ t.susp = u.susp /\ t.hi = u.hi
      /\ t.stdin = u.stdin
  <2>1. t \in SchedType
    BY SleepType
  <2> QED
    BY <2>1, SleepFrame
<1>2. s.status[c] = "Running" /\ c \notin s.susp /\ c \notin R /\ c \notin T /\ c \notin s.blk
  BY <1>0, RunningFree
<1>3. Good(s, t)
  <2>1. \A x \in Ctx : x # c => t.left[x] = s.left[x]
    BY <1>0, <1>1 DEF SameState
  <2>2. /\ t.status = [s.status EXCEPT ![c] = "Sleeping"]
        /\ t.cont = [s.cont EXCEPT ![c] = k]
        /\ t.on = s.on /\ t.reg = s.reg /\ t.free = s.free /\ t.joiner = s.joiner
        /\ t.live = s.live /\ t.susp = s.susp /\ t.blk = s.blk
    BY <1>1 DEF SameState, SamePrograms
  <2>3. t \in SchedType /\ t.running = NoCtx
    BY <1>1
  <2>4. \/ t.stdin = s.stdin
        \/ s.stdin = NoCtx /\ t.stdin = c /\ k \in {"readkey", "readkeyT"}
    BY <1>1
  <2> HIDE DEF t
  <2>5. GivesUp(s, t, c, "Sleeping", k)
    BY <2>1, <2>2, <2>3, <2>4 DEF GivesUp
  <2> QED
    BY <1>0, <2>3, <2>5, GiveUpCore
<1>4. t = timer_list_insert(w, c)
  BY DEF SleepFor
<1>5. /\ w \in SchedType
      /\ w.high = u.high /\ w.norm = u.norm /\ w.timers = u.timers
      /\ w.hi = u.hi /\ w.left = [u.left EXCEPT ![c] = d]
  BY DEF SchedType, Statuses, CtxOrNone
<1>5a. T \subseteq Ctx
  BY DEF TimedSleepers
<1> HIDE DEF w, t, R, T
<1>6. Listed(w, R, T)
  <2>1. \A x \in T : w.left[x] = s.left[x]
    BY <1>0, <1>2, <1>5, <1>5a DEF SameState
  <2>2. w.high = s.high /\ w.norm = s.norm /\ w.timers = s.timers /\ w.hi = s.hi
    BY <1>5 DEF SameState
  <2> QED
    BY <1>0, <1>5, <2>1, <2>2, SameListed
<1>7. Listed(t, R, T \cup {c})
  BY <1>2, <1>4, <1>5, <1>6, InsertListed
<1>8. t.status[c] = "Sleeping" /\ \A x \in Ctx \ {c} : t.status[x] = s.status[x]
  BY <1>0, <1>1 DEF SameState
<1>9. Runnable(t) = R /\ TimedSleepers(t) = T \cup {c}
  BY <1>1, <1>2, <1>8 DEF Runnable, TimedSleepers, R, T, SameState
<1> QED
  BY <1>3, <1>7, <1>9 DEF Lists, t

\* A blocked coroutine is in no list.
LEMMA BlockLists ==
  ASSUME NEW s, Sound(s), NEW c \in Ctx, s.running = c,
         NEW u \in SchedType, SameState(s, u)
  PROVE  Lists(Block(u, c))
<1> DEFINE t == Block(u, c)
           R == Runnable(s)
           T == TimedSleepers(s)
<1>0. s \in SchedType /\ Core(s) /\ Listed(s, R, T) /\ s.status \in [Ctx -> Statuses]
  BY Fields DEF Sound, Lists
<1>1. /\ t \in SchedType
      /\ t.status = [u.status EXCEPT ![c] = "Sleeping"]
      /\ t.blk = u.blk \cup {c}
      /\ t.susp = u.susp /\ t.hi = u.hi /\ t.left = u.left
      /\ t.high = u.high /\ t.norm = u.norm /\ t.timers = u.timers
  BY ONLY u \in SchedType, c \in Ctx, BlockType, BlockFrame
<1>2. c \notin R /\ c \notin T
  BY <1>0, RunningFree
<1> HIDE DEF t, R, T
<1>3. Listed(t, R, T)
  BY <1>0, <1>1, SameListed DEF SameState
<1>4. t.status[c] = "Sleeping" /\ \A x \in Ctx \ {c} : t.status[x] = s.status[x]
  BY <1>0, <1>1 DEF SameState
<1>5. Runnable(t) = R /\ TimedSleepers(t) = T
  BY <1>1, <1>2, <1>4 DEF Runnable, TimedSleepers, R, T, SameState
<1> QED
  BY <1>3, <1>5 DEF Lists, t

\* A read without a timeout.
LEMMA BlockReadSound ==
  ASSUME NEW s, Sound(s), NEW c \in Ctx, s.running = c, s.stdin = NoCtx, s.cont[c] # "join",
         NEW u \in SchedType, SameState(s, u), u.joiner = s.joiner,
         u.on = s.on, u.cont = [s.cont EXCEPT ![c] = "readkey"], u.stdin = c
  PROVE  Good(s, Block(u, c)) /\ Lists(Block(u, c))
<1> DEFINE t == Block(u, c)
<1>0. s \in SchedType /\ Core(s)
  BY DEF Sound
<1>1. /\ t \in SchedType /\ SamePrograms(u, t)
      /\ t.joiner = u.joiner /\ t.live = u.live /\ t.running = NoCtx
      /\ t.status = [u.status EXCEPT ![c] = "Sleeping"]
      /\ t.blk = u.blk \cup {c}
      /\ t.susp = u.susp /\ t.left = u.left /\ t.stdin = u.stdin
  <2>1. t \in SchedType
    BY BlockType
  <2> QED
    BY ONLY <2>1, u \in SchedType, c \in Ctx, BlockFrame
<1>2. "readkey" \in Conts
  BY DEF Conts
<1> HIDE DEF t
<1>3. Good(s, t)
  <2>1. /\ t.status = [s.status EXCEPT ![c] = "Sleeping"]
        /\ t.cont = [s.cont EXCEPT ![c] = "readkey"]
        /\ t.on = s.on /\ t.reg = s.reg /\ t.free = s.free /\ t.joiner = s.joiner
        /\ t.live = s.live /\ t.susp = s.susp /\ t.left = s.left
        /\ t.stdin = c /\ t.blk = s.blk \cup {c}
    BY <1>1 DEF SameState, SamePrograms
  <2>2. t \in SchedType /\ t.running = NoCtx
    BY <1>1
  <2>3. GivesUp(s, t, c, "Sleeping", "readkey")
    BY <2>1, <2>2 DEF GivesUp
  <2> QED
    BY <1>0, <1>2, <2>2, <2>3, GiveUpCore
<1> QED
  BY <1>3, BlockLists DEF t

\* Registering as the joiner of r and blocking, the first time and again.
LEMMA BlockJoinSound ==
  ASSUME NEW s, Sound(s), NEW c \in Ctx, s.running = c,
         NEW r \in s.reg, s.status[r] # "Dead",
         \/ s.cont[c] # "join" /\ s.joiner[r] = NoCtx
         \/ s.cont[c] = "join" /\ s.on[c] = r,
         NEW u \in SchedType, SameState(s, u), u.stdin = s.stdin,
         u.joiner = [s.joiner EXCEPT ![r] = c],
         u.on = [s.on EXCEPT ![c] = r], u.cont = [s.cont EXCEPT ![c] = "join"]
  PROVE  Good(s, Block(u, c)) /\ Lists(Block(u, c))
<1> DEFINE t == Block(u, c)
<1>0. s \in SchedType /\ Core(s)
  BY DEF Sound
<1>1. /\ t \in SchedType /\ SamePrograms(u, t)
      /\ t.joiner = u.joiner /\ t.live = u.live /\ t.running = NoCtx
      /\ t.status = [u.status EXCEPT ![c] = "Sleeping"]
      /\ t.blk = u.blk \cup {c}
      /\ t.susp = u.susp /\ t.left = u.left /\ t.stdin = u.stdin
  <2>1. t \in SchedType
    BY BlockType
  <2> QED
    BY ONLY <2>1, u \in SchedType, c \in Ctx, BlockFrame
<1> HIDE DEF t
<1>3. Good(s, t)
  BY <1>0, <1>1, JoinCore DEF SameState, SamePrograms
<1> QED
  BY <1>3, BlockLists DEF t

\* A control operator is done, its coroutine runs on.
LEMMA ProceedSound ==
  ASSUME NEW s, Sound(s), NEW c \in Ctx, s.running = c, s.cont[c] # "join",
         NEW t \in SchedType, SameState(s, t), t.stdin = s.stdin, t.joiner = s.joiner,
         t.running = s.running, t.on = s.on, t.cont = [s.cont EXCEPT ![c] = "proc"]
  PROVE  Good(s, t) /\ Lists(t)
  BY ProceedCore, SameLists DEF Sound, SameState

\* Collecting the dead context r, which no other join is about.
LEMMA FreeSound ==
  ASSUME NEW s, Sound(s), NEW c \in Ctx, s.running = c,
         NEW r \in s.reg, s.status[r] = "Dead",
         s.cont[c] # "join" \/ s.on[c] = r,
         \A d \in Ctx \ {c} : AtJoin(s, d) => s.on[d] # r,
         NEW u \in SchedType, SameState(s, u), u.stdin = s.stdin, u.joiner = s.joiner,
         u.running = s.running, u.cont = [s.cont EXCEPT ![c] = "proc"],
         \A d \in Ctx \ {c} : u.on[d] = s.on[d]
  PROVE  Good(s, coroutine_free_context(u, r)) /\ Lists(coroutine_free_context(u, r))
<1> DEFINE t == coroutine_free_context(u, r)
<1>0. s \in SchedType /\ Core(s) /\ Lists(s) /\ r \in Ctx
  BY Fields DEF Sound
<1>1. /\ t \in SchedType
      /\ t.reg = u.reg \ {r} /\ t.free = <<r>> \o u.free
      /\ t.status = u.status /\ t.susp = u.susp /\ t.blk = u.blk
      /\ t.hi = u.hi /\ t.left = u.left
      /\ t.high = u.high /\ t.norm = u.norm /\ t.timers = u.timers
      /\ t.live = u.live /\ t.stdin = u.stdin /\ t.joiner = u.joiner
      /\ t.running = u.running /\ t.cont = u.cont /\ t.on = u.on
  <2>1. t \in SchedType
    BY <1>0, FreeContextType
  <2> QED
    BY <2>1 DEF coroutine_free_context, SchedType
<1> HIDE DEF t
<1>2. Good(s, t)
  BY <1>0, <1>1, FreeCore DEF SameState
<1>3. Lists(t)
  BY <1>0, <1>1, SameLists DEF SameState
<1> QED
  BY <1>2, <1>3 DEF t

\* coroutine-launch
LEMMA LaunchSound ==
  ASSUME NEW s, Sound(s), NEW c \in Ctx, s.running = c, s.cont[c] # "join",
         NEW d \in Allocatable(s)
  PROVE  Good(s, coroutine_launch(s, d)) /\ Lists(coroutine_launch(s, d))
<1> DEFINE n == NewContext(s, d)
           p == ready_queue_push(n, d)
           t == coroutine_launch(s, d)
           R == Runnable(s)
           T == TimedSleepers(s)
<1>0. /\ s \in SchedType /\ Core(s) /\ Listed(s, R, T)
      /\ s.status \in [Ctx -> Statuses] /\ s.left \in [Ctx -> 0..MaxSleep]
  BY Fields DEF Sound, Lists
<1>1. d \in Ctx
  BY <1>0, AllocatableCtx
<1>2. /\ n \in SchedType
      /\ n.free = IF s.free # << >> THEN Tail(s.free) ELSE s.free
      /\ n.status = [s.status EXCEPT ![d] = "Ready"]
      /\ n.susp = s.susp \ {d}
      /\ n.blk = s.blk \ {d}
      /\ n.hi = s.hi \ {d}
      /\ n.left = [s.left EXCEPT ![d] = 0]
      /\ n.joiner = [s.joiner EXCEPT ![d] = NoCtx]
      /\ n.cont = [s.cont EXCEPT ![d] = "proc"]
      /\ n.on = [s.on EXCEPT ![d] = NoCtx]
      /\ n.reg = s.reg \cup {d}
      /\ n.high = s.high /\ n.norm = s.norm /\ n.timers = s.timers
      /\ n.stdin = s.stdin /\ n.running = s.running
  <2>1. n \in SchedType
    BY <1>0, <1>1, NewContextType
  <2>2. /\ n.free = IF s.free # << >> THEN Tail(s.free) ELSE s.free
        /\ n.status = [s.status EXCEPT ![d] = "Ready"]
        /\ n.susp = s.susp \ {d}
        /\ n.blk = s.blk \ {d}
        /\ n.hi = s.hi \ {d}
    BY ONLY <1>0, <1>1, NewContextFrame, ZenonT(40)
  <2>3. /\ n.left = [s.left EXCEPT ![d] = 0]
        /\ n.joiner = [s.joiner EXCEPT ![d] = NoCtx]
        /\ n.cont = [s.cont EXCEPT ![d] = "proc"]
        /\ n.on = [s.on EXCEPT ![d] = NoCtx]
    BY ONLY <1>0, <1>1, NewContextFrame
  <2>4. /\ n.reg = s.reg \cup {d}
        /\ n.high = s.high /\ n.norm = s.norm /\ n.timers = s.timers
        /\ n.stdin = s.stdin /\ n.running = s.running
    BY ONLY <1>0, <1>1, NewContextFrame
  <2> HIDE DEF n
  <2> QED
    BY <2>1, <2>2, <2>3, <2>4
<1>3. /\ t \in SchedType /\ SamePrograms(n, t) /\ SameFlags(n, t)
      /\ t.joiner = n.joiner /\ t.running = n.running
      /\ t.live = s.live + 1
      /\ t.timers = n.timers /\ t.high = p.high /\ t.norm = p.norm
  BY <1>0, <1>1, LaunchType, LaunchFrame
<1>4. p \in SchedType /\ SameFlags(n, p) /\ p.timers = n.timers
  BY <1>1, <1>2, PushType, PushFrame
<1> HIDE DEF t, n
<1>5. Good(s, t) /\ ~Alive(s, d) /\ d \notin s.susp
  <2>1. /\ t.free = IF s.free # << >> THEN Tail(s.free) ELSE s.free
        /\ t.status = [s.status EXCEPT ![d] = "Ready"]
        /\ t.susp = s.susp \ {d} /\ t.blk = s.blk \ {d}
        /\ t.left = [s.left EXCEPT ![d] = 0]
        /\ t.joiner = [s.joiner EXCEPT ![d] = NoCtx]
        /\ t.cont = [s.cont EXCEPT ![d] = "proc"]
        /\ t.on = [s.on EXCEPT ![d] = NoCtx]
        /\ t.reg = s.reg \cup {d}
        /\ t.stdin = s.stdin /\ t.running = s.running /\ t.live = s.live + 1
    BY <1>2, <1>3 DEF SamePrograms, SameFlags
  <2>2. t \in SchedType
    BY <1>3
  <2> QED
    BY <1>0, <1>1, <2>1, <2>2, LaunchCore
<1>6. d \notin R /\ d \notin T /\ T \subseteq Ctx
  BY <1>5 DEF Alive, Runnable, TimedSleepers
<1> HIDE DEF R, T
<1>7. Listed(n, R, T)
  <2>1. \A x \in T : n.left[x] = s.left[x]
    BY <1>0, <1>2, <1>6
  <2>2. R \cap n.hi = R \cap s.hi
    BY <1>2, <1>6
  <2> QED
    BY <1>0, <1>2, <2>1, <2>2, SameListed
<1>8. Listed(p, R \cup {d}, T)
  BY <1>1, <1>2, <1>6, <1>7, PushListed
<1> HIDE DEF p
<1>9. Listed(t, R \cup {d}, T)
  BY <1>3, <1>4, <1>8, SameListed DEF SameFlags
<1>10. t.status[d] = "Ready" /\ \A x \in Ctx \ {d} : t.status[x] = s.status[x]
  BY <1>0, <1>1, <1>2, <1>3 DEF SameFlags
<1>11. d \notin t.susp /\ t.susp = s.susp \ {d} /\ t.blk = s.blk \ {d}
  BY <1>2, <1>3 DEF SameFlags
<1>12. Runnable(t) = R \cup {d} /\ TimedSleepers(t) = T
  BY <1>1, <1>6, <1>10, <1>11 DEF Runnable, TimedSleepers, R, T
<1> QED
  BY <1>5, <1>9, <1>12 DEF Lists, t

\* A coroutine leaves whichever list it is in.
LEMMA UnscheduleListed ==
  ASSUME NEW s \in SchedType, Lists(s), NEW v \in Ctx
  PROVE  Listed(Unschedule(s, v), Runnable(s) \ {v}, TimedSleepers(s) \ {v})
<1> DEFINE R == Runnable(s)
           T == TimedSleepers(s)
<1>0. Listed(s, R, T)
  BY DEF Lists
<1>1. CASE v \in s.susp
  <2>1. v \notin R /\ v \notin T
    BY <1>1 DEF Runnable, TimedSleepers
  <2>2. R \ {v} = R /\ T \ {v} = T /\ Unschedule(s, v) = s
    BY <1>1, <2>1 DEF Unschedule
  <2> QED
    BY <1>0, <2>2
<1>2. CASE v \notin s.susp /\ s.status[v] = "Ready"
  <2>1. v \notin T
    BY <1>2 DEF TimedSleepers
  <2>2. T \ {v} = T /\ Unschedule(s, v) = ready_queue_remove(s, v)
    BY <1>2, <2>1 DEF Unschedule
  <2> HIDE DEF R, T
  <2> QED
    BY <1>0, <2>2, RemoveListed DEF R, T
<1>3. CASE v \notin s.susp /\ s.status[v] = "Sleeping" /\ v \notin s.blk
  <2>1. v \notin R
    BY <1>3 DEF Runnable
  <2>2. R \ {v} = R /\ Unschedule(s, v) = timer_list_remove(s, v)
    BY <1>3, <2>1 DEF Unschedule
  <2> HIDE DEF R, T
  <2> QED
    BY <1>0, <2>2, TimerRemoveListed DEF R, T
<1>4. CASE /\ v \notin s.susp /\ s.status[v] # "Ready"
           /\ ~(s.status[v] = "Sleeping" /\ v \notin s.blk)
  <2>1. v \notin R /\ v \notin T
    BY <1>4 DEF Runnable, TimedSleepers
  <2>2. R \ {v} = R /\ T \ {v} = T /\ Unschedule(s, v) = s
    BY <1>4, <2>1 DEF Unschedule
  <2> QED
    BY <1>0, <2>2
<1> QED
  BY <1>1, <1>2, <1>3, <1>4

\* t differs from s at most in who is running.
SameButRunning(s, t) ==
  /\ SamePrograms(s, t) /\ SameFlags(s, t)
  /\ t.joiner = s.joiner /\ t.live = s.live
  /\ t.high = s.high /\ t.norm = s.norm /\ t.timers = s.timers

\* coroutine_kill
LEMMA KillSound ==
  ASSUME NEW s, Sound(s), NEW c \in Ctx, s.running = c, s.cont[c] # "join",
         NEW v \in s.reg, v # Main, s.status[v] # "Dead",
         NEW t \in SchedType, SameButRunning(coroutine_kill(s, v), t),
         t.running = IF v = c THEN NoCtx ELSE c
  PROVE  Good(s, t) /\ Lists(t)
<1> DEFINE u == Unschedule(s, v)
           b == Bury(s, v)
           j == b.joiner[v]
           w == MakeReady(b, j)
           k == WakeJoiner(b, v)
           R == Runnable(s)
           T == TimedSleepers(s)
<1>0. /\ s \in SchedType /\ Core(s) /\ Lists(s)
      /\ s.status \in [Ctx -> Statuses] /\ s.blk \subseteq Ctx
      /\ s.joiner \in [Ctx -> CtxOrNone] /\ s.reg \subseteq Ctx
      /\ v \in Ctx /\ NoCtx \notin Ctx
  BY Fields, CtxAssumption DEF Sound
<1>1. /\ u \in SchedType /\ SameFlags(s, u)
      /\ Listed(u, R \ {v}, T \ {v})
  BY <1>0, UnscheduleType, UnscheduleFrame, UnscheduleListed
<1>2. /\ b \in SchedType
      /\ SamePrograms(s, b)
      /\ b.status = [s.status EXCEPT ![v] = "Dead"]
      /\ b.susp = s.susp \ {v}
      /\ b.blk = s.blk \ {v}
      /\ b.hi = s.hi /\ b.left = s.left
      /\ b.stdin = IF s.stdin = v THEN NoCtx ELSE s.stdin
      /\ b.live = IF s.live > 0 THEN s.live - 1 ELSE 0
      /\ b.high = u.high /\ b.norm = u.norm /\ b.timers = u.timers
  <2>1. b \in SchedType /\ Buried(s, v, u, b)
    BY <1>0, BuryFrame
  <2> HIDE DEF u, b
  <2> QED
    BY <2>1 DEF Buried
<1>2a. \A x \in Ctx : b.joiner[x] = IF x \in s.reg /\ s.joiner[x] = v
                                     THEN NoCtx ELSE s.joiner[x]
  <2>1. Buried(s, v, u, b)
    BY <1>0, BuryFrame
  <2> HIDE DEF u, b
  <2> QED
    BY <2>1 DEF Buried
<1> HIDE DEF u, b
<1>3. /\ b.status[v] = "Dead"
      /\ \A x \in Ctx \ {v} : b.status[x] = s.status[x]
      /\ \A x \in Ctx : b.joiner[x] = IF x \in s.reg /\ s.joiner[x] = v
                                       THEN NoCtx ELSE s.joiner[x]
  BY <1>0, <1>2, <1>2a
<1>4. j = IF s.joiner[v] = v THEN NoCtx ELSE s.joiner[v]
  BY <1>0, <1>3
<1>5. j # NoCtx => /\ j \in Ctx /\ s.status[j] = "Sleeping" /\ s.cont[j] = "join"
                   /\ j \in s.blk /\ j # v /\ b.status[j] = "Sleeping"
  BY <1>0, <1>3, <1>4, JoinerAsleep
<1>6. j \in CtxOrNone
  BY <1>0, <1>4 DEF CtxOrNone
<1>7. /\ k \in SchedType
      /\ SamePrograms(b, k)
      /\ k.live = b.live
      /\ k.joiner = [b.joiner EXCEPT ![v] = NoCtx]
      /\ k.status = IF j # NoCtx THEN [b.status EXCEPT ![j] = "Ready"] ELSE b.status
      /\ k.blk = IF j # NoCtx THEN b.blk \ {j} ELSE b.blk
      /\ k.susp = b.susp /\ k.hi = b.hi /\ k.left = b.left
      /\ k.stdin = b.stdin
      /\ k.timers = b.timers
      /\ k.high = IF j # NoCtx THEN w.high ELSE b.high
      /\ k.norm = IF j # NoCtx THEN w.norm ELSE b.norm
  <2> DEFINE woken == j # NoCtx /\ b.status[j] = "Sleeping"
  <2>1. /\ k \in SchedType
        /\ SamePrograms(b, k)
        /\ k.live = b.live
        /\ k.joiner = [b.joiner EXCEPT ![v] = NoCtx]
        /\ k.status = IF woken THEN [b.status EXCEPT ![j] = "Ready"] ELSE b.status
        /\ k.blk = IF woken THEN b.blk \ {j} ELSE b.blk
        /\ k.susp = b.susp /\ k.hi = b.hi /\ k.left = b.left
        /\ k.stdin = b.stdin
        /\ k.timers = b.timers
        /\ k.high = IF woken THEN w.high ELSE b.high
        /\ k.norm = IF woken THEN w.norm ELSE b.norm
    <3>0. b \in SchedType /\ v \in Ctx
      BY <1>0, <1>2
    <3>1. k \in SchedType /\ SamePrograms(b, k) /\ k.live = b.live
      BY <3>0, WakeJoinerFrame
    <3>2. /\ k.joiner = [b.joiner EXCEPT ![v] = NoCtx]
          /\ k.susp = b.susp /\ k.hi = b.hi /\ k.left = b.left
          /\ k.stdin = b.stdin
          /\ k.timers = b.timers
      BY <3>0, WakeJoinerFrame
    <3>3. /\ k.status = IF woken THEN [b.status EXCEPT ![j] = "Ready"] ELSE b.status
          /\ k.blk = IF woken THEN b.blk \ {j} ELSE b.blk
      BY <3>0, WakeJoinerFrame
    <3>4. /\ k.high = IF woken THEN w.high ELSE b.high
          /\ k.norm = IF woken THEN w.norm ELSE b.norm
      BY <3>0, WakeJoinerFrame
    <3> QED
      BY <3>1, <3>2, <3>3, <3>4
  <2>2. woken <=> j # NoCtx
    BY <1>5
  <2> HIDE DEF woken, k, w, j
  <2> QED
    BY <2>1, <2>2
<1>8. coroutine_kill(s, v) = k
  BY DEF coroutine_kill, b
<1>9. /\ SamePrograms(k, t) /\ SameFlags(k, t)
      /\ t.joiner = k.joiner /\ t.live = k.live
      /\ t.high = k.high /\ t.norm = k.norm /\ t.timers = k.timers
  BY <1>8 DEF SameButRunning
<1> HIDE DEF k, j, w, R, T
<1>10. /\ t.cont = s.cont /\ t.on = s.on /\ t.reg = s.reg /\ t.free = s.free
       /\ t.left = s.left /\ t.hi = s.hi /\ t.susp = s.susp \ {v}
       /\ t.live = IF s.live > 0 THEN s.live - 1 ELSE 0
       /\ t.stdin = IF s.stdin = v THEN NoCtx ELSE s.stdin
  BY <1>2, <1>7, <1>9 DEF SamePrograms, SameFlags
<1>11. t.blk = s.blk \ {v, j}
  <2>1. b.blk = s.blk \ {v} /\ t.blk = k.blk
    BY <1>2, <1>9 DEF SameFlags
  <2>2. CASE j = NoCtx
    BY <1>0, <1>7, <2>1, <2>2
  <2>3. CASE j # NoCtx
    BY <1>7, <2>1, <2>3
  <2> QED
    BY <2>2, <2>3
<1>12. /\ t.status[v] = "Dead"
       /\ j # NoCtx => t.status[j] = "Ready"
       /\ \A x \in Ctx \ {v, j} : t.status[x] = s.status[x]
  <2>1. t.status = k.status /\ b.status \in [Ctx -> Statuses]
    BY <1>2, <1>9, Fields DEF SameFlags
  <2>2. CASE j = NoCtx
    BY <1>3, <1>7, <2>1, <2>2
  <2>3. CASE j # NoCtx
    BY <1>0, <1>3, <1>5, <1>7, <2>1, <2>3
  <2> QED
    BY <2>2, <2>3
<1>13. /\ t.joiner[v] = NoCtx
       /\ \A x \in Ctx \ {v} : t.joiner[x] = IF x \in s.reg /\ s.joiner[x] = v
                                            THEN NoCtx ELSE s.joiner[x]
  <2>1. b.joiner \in [Ctx -> CtxOrNone]
    BY <1>2, Fields
  <2> QED
    BY <1>0, <1>3, <1>7, <1>9, <2>1
<1>14. Good(s, t)
  BY <1>0, <1>4, <1>6, <1>10, <1>11, <1>12, <1>13, KillCore
<1>15. Listed(b, R \ {v}, T \ {v})
  <2>1. b.hi = u.hi /\ b.left = u.left
    BY <1>1, <1>2 DEF SameFlags
  <2> QED
    BY <1>1, <1>2, <2>1, SameListed
<1>16. CASE j = NoCtx
  <2>1. Listed(k, R \ {v}, T \ {v})
    BY <1>2, <1>7, <1>15, <1>16, SameListed
  <2>2. Listed(t, R \ {v}, T \ {v})
    BY <1>7, <1>9, <2>1, SameListed DEF SameFlags
  <2>3. \A x \in Ctx \ {v} : t.status[x] = s.status[x]
    BY <1>0, <1>12, <1>16
  <2>4. Runnable(t) = R \ {v} /\ TimedSleepers(t) = T \ {v}
    BY <1>0, <1>10, <1>11, <1>12, <1>16, <2>3 DEF Runnable, TimedSleepers, R, T
  <2> QED
    BY <1>14, <2>2, <2>4 DEF Lists
<1>17. CASE j # NoCtx
  <2> DEFINE R2 == IF j \in b.susp THEN R \ {v} ELSE (R \ {v}) \cup {j}
  <2>1. j \in Ctx /\ j # v /\ s.status[j] = "Sleeping" /\ j \in s.blk
    BY <1>5, <1>17
  <2>2. j \notin R /\ j \notin T
    BY <2>1 DEF Runnable, TimedSleepers, R, T
  <2>3. Listed(w, R2, T \ {v}) /\ w \in SchedType
    BY <1>2, <1>15, <2>1, <2>2, MakeReadyListed, MakeReadyType DEF w
  <2>4. w.hi = b.hi /\ w.left = b.left /\ w.timers = b.timers
    BY ONLY <1>2, <2>1, MakeReadyFrame DEF w
  <2> HIDE DEF R2
  <2>5. Listed(k, R2, T \ {v})
    BY <1>7, <1>17, <2>3, <2>4, SameListed
  <2>6. Listed(t, R2, T \ {v})
    BY <1>7, <1>9, <2>5, SameListed DEF SameFlags
  <2>7. Runnable(t) = R2
    <3>1. b.susp = s.susp \ {v}
      BY <1>2
    <3> QED
      BY <1>0, <1>10, <1>12, <1>17, <2>1, <3>1 DEF Runnable, R, R2
  <2>8. TimedSleepers(t) = T \ {v}
    BY <1>0, <1>10, <1>11, <1>12, <1>17, <2>1 DEF TimedSleepers, T
  <2> QED
    BY <1>14, <2>6, <2>7, <2>8 DEF Lists
<1> QED
  BY <1>16, <1>17

\* coroutine_kill_all, called by main.
LEMMA KillAllSound ==
  ASSUME NEW s, Sound(s), s.running = Main, s.cont[Main] # "join"
  PROVE  Good(s, coroutine_kill_all(s)) /\ Lists(coroutine_kill_all(s))
<1> DEFINE t == coroutine_kill_all(s)
           V == Victims(s)
<1>0. /\ s \in SchedType /\ Core(s) /\ t \in SchedType
      /\ Main \in Ctx /\ s.status \in [Ctx -> Statuses] /\ s.reg \subseteq Ctx
  BY KillAllType, Fields, CtxAssumption DEF Sound
<1>1. ~MainWoken(s)
  BY <1>0, RunningFree DEF MainWoken
<1>2. V = {x \in s.reg \ {Main} : s.status[x] # "Dead"}
  BY DEF Victims
<1> DEFINE status == [x \in Ctx |-> IF x \in V THEN "Dead"
                                    ELSE IF x = Main /\ MainWoken(s) THEN "Ready"
                                    ELSE s.status[x]]
           joiner == [x \in Ctx |-> IF x \in V \/ s.joiner[x] \in V THEN NoCtx ELSE s.joiner[x]]
           blk    == s.blk \ (V \cup IF MainWoken(s) THEN {Main} ELSE {})
           stdin  == IF s.stdin \in V THEN NoCtx ELSE s.stdin
<1>3. t = [s EXCEPT !.status = status, !.susp = s.susp \ V, !.blk = blk, !.joiner = joiner,
                    !.stdin = stdin, !.high = << >>, !.norm = << >>, !.timers = << >>,
                    !.live = 0]
  BY DEF coroutine_kill_all
<1> HIDE DEF t, V
<1>4. /\ \A x \in V : x \in Ctx /\ status[x] = "Dead"
      /\ \A x \in Ctx \ V : status[x] = s.status[x]
      /\ \A x \in Ctx : joiner[x] = IF x \in V \/ s.joiner[x] \in V THEN NoCtx ELSE s.joiner[x]
      /\ blk = s.blk \ V
  <2>1. V \subseteq Ctx
    BY <1>0, <1>2
  <2> QED
    BY <1>1, <2>1
<1> HIDE DEF status, joiner, blk, stdin
<1>5. /\ t.status = status /\ t.susp = s.susp \ V /\ t.blk = blk /\ t.joiner = joiner
      /\ t.stdin = stdin
      /\ t.high = << >> /\ t.norm = << >> /\ t.timers = << >>
      /\ t.live = 0
      /\ t.running = s.running /\ t.cont = s.cont /\ t.on = s.on
      /\ t.reg = s.reg /\ t.free = s.free /\ t.left = s.left
  <2>0. s \in SchedType
    BY <1>0
  <2>1. t.status = status /\ t.susp = s.susp \ V /\ t.blk = blk
    BY <2>0, <1>3 DEF SchedType
  <2>2. t.joiner = joiner /\ t.stdin = stdin /\ t.live = 0
    BY <2>0, <1>3 DEF SchedType
  <2>3. t.high = << >> /\ t.norm = << >> /\ t.timers = << >>
    BY <2>0, <1>3 DEF SchedType
  <2>4. /\ t.running = s.running /\ t.cont = s.cont /\ t.on = s.on
        /\ t.reg = s.reg /\ t.free = s.free /\ t.left = s.left
    BY <2>0, <1>3 DEF SchedType
  <2> QED
    BY <2>1, <2>2, <2>3, <2>4
<1>5a. Good(s, t) /\ Runnable(t) = {} /\ TimedSleepers(t) = {}
  <2>1. /\ \A x \in V : t.status[x] = "Dead"
        /\ \A x \in Ctx \ V : t.status[x] = s.status[x]
        /\ \A x \in Ctx : t.joiner[x] = IF x \in V \/ s.joiner[x] \in V THEN NoCtx ELSE s.joiner[x]
        /\ t.blk = s.blk \ V
    BY <1>4, <1>5
  <2>2. /\ t.susp = s.susp \ V /\ t.live = 0
        /\ t.stdin = IF s.stdin \in V THEN NoCtx ELSE s.stdin
        /\ t.running = s.running /\ t.cont = s.cont /\ t.on = s.on
        /\ t.reg = s.reg /\ t.free = s.free /\ t.left = s.left
    BY <1>5 DEF stdin
  <2> QED
    BY ONLY <1>0, <1>2, <2>1, <2>2, s.running = Main, s.cont[Main] # "join", KillAllCore
<1>6. Lists(t)
  <2>1. /\ NoDup(<< >>) /\ Elems(<< >>) = {} /\ Sorted(<< >>, t.left)
    BY DEF NoDup, Elems, Sorted
  <2> QED
    BY <1>5, <1>5a, <2>1 DEF Lists, Listed
<1> QED
  BY <1>5a, <1>6 DEF t

\* coroutine-suspend
LEMMA SuspendSound ==
  ASSUME NEW s, Sound(s), NEW c \in Ctx, s.running = c, s.cont[c] # "join",
         NEW v \in s.reg, v # c, v # Main, s.status[v] # "Dead",
         s.stdin # v \/ v \in s.blk \/ s.left[v] > 0,
         NEW t \in SchedType, t = [Unschedule(s, v) EXCEPT !.susp = @ \cup {v}]
  PROVE  Good(s, t) /\ Lists(t)
<1> DEFINE u == Unschedule(s, v)
           R == Runnable(s)
           T == TimedSleepers(s)
<1>0. s \in SchedType /\ Core(s) /\ Lists(s) /\ v \in Ctx
  BY Fields DEF Sound
<1>1. /\ u \in SchedType
      /\ SamePrograms(s, u) /\ SameLinks(s, u) /\ SameFlags(s, u)
      /\ Listed(u, R \ {v}, T \ {v})
  BY <1>0, UnscheduleType, UnscheduleFrame, UnscheduleListed
<1>2. t = [u EXCEPT !.susp = @ \cup {v}]
  OBVIOUS
<1> HIDE DEF u
<1>3. /\ SamePrograms(u, t) /\ SameLinks(u, t)
      /\ t.status = u.status /\ t.susp = u.susp \cup {v} /\ t.blk = u.blk
      /\ t.hi = u.hi /\ t.left = u.left /\ t.stdin = u.stdin
      /\ t.high = u.high /\ t.norm = u.norm /\ t.timers = u.timers
  BY <1>1, <1>2 DEF SchedType, SamePrograms, SameLinks
<1>4. /\ t.cont = s.cont /\ t.on = s.on /\ t.reg = s.reg /\ t.free = s.free
      /\ t.joiner = s.joiner /\ t.live = s.live /\ t.running = s.running
      /\ t.status = s.status /\ t.susp = s.susp \cup {v} /\ t.blk = s.blk
      /\ t.left = s.left /\ t.stdin = s.stdin
  BY <1>1, <1>3 DEF SamePrograms, SameLinks, SameFlags
<1>5. Good(s, t)
  <2> DEFINE S == {v}
  <2>1. /\ S \in SUBSET Ctx /\ t.susp = s.susp \cup S
        /\ \A x \in S : /\ x # c /\ x # Main /\ x \in s.reg /\ s.status[x] # "Dead"
                        /\ s.stdin # x \/ x \in s.blk \/ s.left[x] > 0
    BY <1>0, <1>4
  <2> HIDE DEF S
  <2> QED
    BY ONLY t \in SchedType, c \in Ctx, s.running = c, s.cont[c] # "join",
            <1>0, <1>4, <2>1, SuspendCore
<1>6. Listed(t, R \ {v}, T \ {v})
  BY <1>1, <1>3, SameListed
<1>7. Runnable(t) = R \ {v} /\ TimedSleepers(t) = T \ {v}
  BY <1>4 DEF Runnable, TimedSleepers
<1> QED
  BY <1>5, <1>6, <1>7 DEF Lists

\* u is s with v no longer suspended.
Unsuspended(s, v, u) ==
  /\ SamePrograms(s, u) /\ SameLinks(s, u)
  /\ u.status = s.status /\ u.susp = s.susp \ {v} /\ u.blk = s.blk
  /\ u.hi = s.hi /\ u.left = s.left /\ u.stdin = s.stdin
  /\ u.high = s.high /\ u.norm = s.norm /\ u.timers = s.timers

\* What resume_op does once the flag is cleared.
Rescheduled(u, v) ==
  IF u.status[v] = "Ready" THEN ready_queue_push(u, v)
  ELSE IF v \in u.blk THEN u
  ELSE IF u.left[v] = 0 THEN ready_queue_push([u EXCEPT !.status[v] = "Ready"], v)
  ELSE timer_list_insert(u, v)

\* coroutine-resume
LEMMA ResumeSound ==
  ASSUME NEW s, Sound(s), NEW c \in Ctx, s.running = c, s.cont[c] # "join",
         NEW v \in s.reg, v \in s.susp,
         NEW u \in SchedType, Unsuspended(s, v, u),
         NEW t \in SchedType, t = Rescheduled(u, v)
  PROVE  Good(s, t) /\ Lists(t)
<1> DEFINE R == Runnable(s)
           T == TimedSleepers(s)
<1>0. /\ s \in SchedType /\ Core(s) /\ Lists(s) /\ v \in Ctx
      /\ s.status \in [Ctx -> Statuses] /\ Listed(s, R, T)
  BY Fields DEF Sound, Lists
<1>1. /\ SamePrograms(s, u) /\ SameLinks(s, u)
      /\ u.status = s.status /\ u.susp = s.susp \ {v} /\ u.blk = s.blk
      /\ u.hi = s.hi /\ u.left = s.left /\ u.stdin = s.stdin
      /\ u.high = s.high /\ u.norm = s.norm /\ u.timers = s.timers
  BY DEF Unsuspended
<1>2. ~(Main \in s.blk /\ s.status[Main] # "Sleeping")
  BY <1>0, RunningFree
<1>3. v \notin R /\ v \notin T
  BY DEF Runnable, TimedSleepers
<1>4. Listed(u, R, T)
  BY <1>0, <1>1, SameListed
<1>5. s.status[v] = "Ready" \/ s.status[v] = "Sleeping"
  BY <1>0 DEF Core, Flags
<1> HIDE DEF R, T
<1>6. CASE u.status[v] = "Ready"
  <2>1. t = ready_queue_push(u, v)
    BY <1>6 DEF Rescheduled
  <2>2. SamePrograms(u, t) /\ SameLinks(u, t) /\ SameFlags(u, t)
    BY <1>0, <2>1, PushFrame
  <2>3. Listed(t, R \cup {v}, T)
    BY <1>0, <1>3, <1>4, <2>1, PushListed
  <2>4. /\ t.cont = s.cont /\ t.on = s.on /\ t.reg = s.reg /\ t.free = s.free
        /\ t.joiner = s.joiner /\ t.live = s.live /\ t.running = s.running
        /\ t.status = s.status /\ t.susp = s.susp \ {v} /\ t.blk = s.blk
        /\ t.left = s.left /\ t.stdin = s.stdin
    BY <1>1, <2>2 DEF SamePrograms, SameLinks, SameFlags
  <2>5. Good(s, t)
    BY ONLY t \in SchedType, <1>0, <1>2, <2>4, UnsuspendCore
  <2>6. Runnable(t) = R \cup {v} /\ TimedSleepers(t) = T
    BY <1>0, <1>1, <1>6, <2>4 DEF Runnable, TimedSleepers, R, T
  <2> QED
    BY <2>3, <2>5, <2>6 DEF Lists
<1>7. CASE u.status[v] # "Ready" /\ v \in u.blk
  <2>1. t = u
    BY <1>7 DEF Rescheduled
  <2>4. /\ t.cont = s.cont /\ t.on = s.on /\ t.reg = s.reg /\ t.free = s.free
        /\ t.joiner = s.joiner /\ t.live = s.live /\ t.running = s.running
        /\ t.status = s.status /\ t.susp = s.susp \ {v} /\ t.blk = s.blk
        /\ t.left = s.left /\ t.stdin = s.stdin
    BY <1>1, <2>1 DEF SamePrograms, SameLinks
  <2>5. Good(s, t)
    BY ONLY t \in SchedType, <1>0, <1>2, <2>4, UnsuspendCore
  <2>6. Runnable(t) = R /\ TimedSleepers(t) = T
    BY <1>1, <1>7, <2>4 DEF Runnable, TimedSleepers, R, T
  <2> QED
    BY <1>4, <2>1, <2>5, <2>6 DEF Lists
<1>8. CASE u.status[v] # "Ready" /\ v \notin u.blk /\ u.left[v] = 0
  <2> DEFINE w == [u EXCEPT !.status[v] = "Ready"]
  <2>1. t = ready_queue_push(w, v)
    BY <1>8 DEF Rescheduled
  <2>2. /\ w \in SchedType /\ SamePrograms(u, w) /\ SameLinks(u, w)
        /\ w.status = [u.status EXCEPT ![v] = "Ready"] /\ w.susp = u.susp /\ w.blk = u.blk
        /\ w.hi = u.hi /\ w.left = u.left /\ w.stdin = u.stdin
        /\ w.high = u.high /\ w.norm = u.norm /\ w.timers = u.timers
    BY <1>0 DEF SchedType, Statuses, SamePrograms, SameLinks
  <2> HIDE DEF w
  <2>3. SamePrograms(w, t) /\ SameLinks(w, t) /\ SameFlags(w, t)
    BY <1>0, <2>1, <2>2, PushFrame
  <2>4. Listed(t, R \cup {v}, T)
    <3>1. Listed(w, R, T)
      BY <1>4, <2>2, SameListed
    <3> QED
      BY <1>0, <1>3, <2>1, <2>2, <3>1, PushListed
  <2>5. /\ s.status[v] = "Sleeping" /\ v \notin s.blk /\ s.left[v] = 0
    BY <1>1, <1>5, <1>8
  <2>6. s.stdin # v
    <3>1. s.stdin = v => s.left[v] > 0
      BY <1>0, <2>5, CtxAssumption DEF Core, Reads
    <3> QED
      BY <2>5, <3>1
  <2>7. /\ t.cont = s.cont /\ t.on = s.on /\ t.reg = s.reg /\ t.free = s.free
        /\ t.joiner = s.joiner /\ t.live = s.live /\ t.running = s.running
        /\ t.status = [s.status EXCEPT ![v] = "Ready"] /\ t.susp = s.susp \ {v}
        /\ t.blk = s.blk \ {v}
        /\ t.left = s.left /\ t.stdin = IF s.stdin = v THEN NoCtx ELSE s.stdin
    BY <1>1, <2>2, <2>3, <2>5, <2>6 DEF SamePrograms, SameLinks, SameFlags
  <2>8. Good(s, t)
    <3>1. s.cont[v] # "join" /\ (s.cont[v] = "proc" => s.left[v] = 0)
      BY <1>0, <2>5, NotAtJoin
    <3> QED
      BY ONLY t \in SchedType, <1>0, <1>2, <2>5, <2>7, <3>1, ReadyCore
  <2>9. Runnable(t) = R \cup {v} /\ TimedSleepers(t) = T
    BY <1>0, <2>5, <2>7 DEF Runnable, TimedSleepers, R, T
  <2> QED
    BY <2>4, <2>8, <2>9 DEF Lists
<1>9. CASE u.status[v] # "Ready" /\ v \notin u.blk /\ u.left[v] # 0
  <2>1. t = timer_list_insert(u, v)
    BY <1>9 DEF Rescheduled
  <2>2. SamePrograms(u, t) /\ SameLinks(u, t) /\ SameFlags(u, t)
    BY <1>0, <2>1, TimerFrame
  <2>3. Listed(t, R, T \cup {v})
    BY <1>0, <1>3, <1>4, <2>1, InsertListed
  <2>4. /\ t.cont = s.cont /\ t.on = s.on /\ t.reg = s.reg /\ t.free = s.free
        /\ t.joiner = s.joiner /\ t.live = s.live /\ t.running = s.running
        /\ t.status = s.status /\ t.susp = s.susp \ {v} /\ t.blk = s.blk
        /\ t.left = s.left /\ t.stdin = s.stdin
    BY <1>1, <2>2 DEF SamePrograms, SameLinks, SameFlags
  <2>5. Good(s, t)
    BY ONLY t \in SchedType, <1>0, <1>2, <2>4, UnsuspendCore
  <2>6. Runnable(t) = R /\ TimedSleepers(t) = T \cup {v}
    BY <1>0, <1>1, <1>5, <1>9, <2>4 DEF Runnable, TimedSleepers, R, T
  <2> QED
    BY <2>3, <2>5, <2>6 DEF Lists
<1> QED
  BY <1>6, <1>7, <1>8, <1>9

\* u is s with the priority of v flipped.
Flipped(s, v, u) ==
  /\ SamePrograms(s, u) /\ SameLinks(s, u)
  /\ u.status = s.status /\ u.susp = s.susp /\ u.blk = s.blk
  /\ u.hi = (IF v \in s.hi THEN s.hi \ {v} ELSE s.hi \cup {v})
  /\ u.left = s.left /\ u.stdin = s.stdin
  /\ u.high = s.high /\ u.norm = s.norm /\ u.timers = s.timers

\* coroutine-priority changes nothing but the tier.
LEMMA PriorityCore ==
  ASSUME NEW s, Sound(s), NEW c \in Ctx, s.running = c, s.cont[c] # "join",
         NEW t \in SchedType, SamePrograms(s, t), SameLinks(s, t),
         t.status = s.status, t.susp = s.susp, t.blk = s.blk, t.left = s.left,
         t.stdin = s.stdin
  PROVE  Good(s, t) /\ Runnable(t) = Runnable(s) /\ TimedSleepers(t) = TimedSleepers(s)
<1>0. s \in SchedType /\ Core(s)
  BY DEF Sound
<1>1. /\ t.cont = s.cont /\ t.on = s.on /\ t.reg = s.reg /\ t.free = s.free
      /\ t.joiner = s.joiner /\ t.live = s.live /\ t.running = s.running
      /\ t.status = s.status /\ t.blk = s.blk
      /\ t.left = s.left /\ t.stdin = s.stdin
  BY DEF SamePrograms, SameLinks
<1>2. Good(s, t)
  <2> DEFINE S == {}
  <2>1. /\ S \in SUBSET Ctx /\ t.susp = s.susp \cup S
        /\ \A x \in S : /\ x # c /\ x # Main /\ x \in s.reg /\ s.status[x] # "Dead"
                        /\ s.stdin # x \/ x \in s.blk \/ s.left[x] > 0
    OBVIOUS
  <2> HIDE DEF S
  <2> QED
    BY ONLY t \in SchedType, c \in Ctx, s.running = c, s.cont[c] # "join",
            <1>0, <1>1, <2>1, SuspendCore
<1>3. Runnable(t) = Runnable(s) /\ TimedSleepers(t) = TimedSleepers(s)
  BY <1>1 DEF Runnable, TimedSleepers
<1> QED
  BY <1>2, <1>3

\* coroutine-priority of a coroutine that is in no ready queue.
LEMMA FlipSound ==
  ASSUME NEW s, Sound(s), NEW c \in Ctx, s.running = c, s.cont[c] # "join",
         NEW v \in s.reg, v \notin Runnable(s),
         NEW t \in SchedType, Flipped(s, v, t)
  PROVE  Good(s, t) /\ Lists(t)
<1> DEFINE R == Runnable(s)
           T == TimedSleepers(s)
<1>0. s \in SchedType /\ Listed(s, R, T)
  BY DEF Sound, Lists
<1>1. Good(s, t) /\ Runnable(t) = R /\ TimedSleepers(t) = T
  BY PriorityCore DEF Flipped
<1>2. /\ t.high = s.high /\ t.norm = s.norm /\ t.timers = s.timers
      /\ R \cap t.hi = R \cap s.hi /\ t.left = s.left
  BY DEF Flipped
<1> HIDE DEF R, T
<1>3. Listed(t, R, T)
  BY <1>0, <1>2, SameListed
<1> QED
  BY <1>1, <1>3 DEF Lists

\* coroutine-priority of a queued one: it moves to the tail of its new tier.
LEMMA RequeueSound ==
  ASSUME NEW s, Sound(s), NEW c \in Ctx, s.running = c, s.cont[c] # "join",
         NEW v \in s.reg, v \in Runnable(s),
         NEW u \in SchedType, Flipped(ready_queue_remove(s, v), v, u)
  PROVE  Good(s, ready_queue_push(u, v)) /\ Lists(ready_queue_push(u, v))
<1> DEFINE R == Runnable(s)
           T == TimedSleepers(s)
           r == ready_queue_remove(s, v)
           t == ready_queue_push(u, v)
<1>0. s \in SchedType /\ Listed(s, R, T) /\ v \in Ctx /\ v \in R
  BY DEF Sound, Lists, Runnable
<1>1. /\ r \in SchedType /\ SamePrograms(s, r) /\ SameLinks(s, r) /\ SameFlags(s, r)
      /\ Listed(r, R \ {v}, T)
  BY <1>0, RemoveType, RemoveFrame, RemoveListed
<1>2. t \in SchedType /\ SamePrograms(u, t) /\ SameLinks(u, t) /\ SameFlags(u, t)
  BY <1>0, PushType, PushFrame
<1>3. Flipped(r, v, u)
  OBVIOUS
<1> HIDE DEF r, t
<1>4. /\ SamePrograms(s, t) /\ SameLinks(s, t)
      /\ t.status = s.status /\ t.susp = s.susp /\ t.blk = s.blk /\ t.left = s.left
      /\ t.stdin = s.stdin
  BY <1>1, <1>2, <1>3 DEF SamePrograms, SameLinks, SameFlags, Flipped
<1>5. Good(s, t) /\ Runnable(t) = R /\ TimedSleepers(t) = T
  BY <1>2, <1>4, PriorityCore
<1> HIDE DEF R, T
<1>6. Listed(u, R \ {v}, T)
  <2>1. /\ u.high = r.high /\ u.norm = r.norm /\ u.timers = r.timers
        /\ (R \ {v}) \cap u.hi = (R \ {v}) \cap r.hi /\ u.left = r.left
    BY <1>3 DEF Flipped
  <2> QED
    BY <1>1, <2>1, SameListed
<1>7. Listed(t, (R \ {v}) \cup {v}, T)
  BY <1>0, <1>6, PushListed DEF t
<1>8. (R \ {v}) \cup {v} = R
  BY <1>0
<1> QED
  BY <1>5, <1>7, <1>8 DEF Lists, t

\* Time passes.
LEMMA ElapseSound ==
  ASSUME NEW s, Sound(s)
  PROVE  Good(s, Elapse(s)) /\ Lists(Elapse(s))
<1> DEFINE t == Elapse(s)
           R == Runnable(s)
           T == TimedSleepers(s)
<1>0. /\ s \in SchedType /\ Core(s) /\ Listed(s, R, T) /\ t \in SchedType
      /\ s.susp \subseteq Ctx
  BY ElapseType, Fields DEF Sound, Lists
<1>1. Listed(t, R, T)
  BY <1>0, ElapseListed
<1>2. /\ t.cont = s.cont /\ t.on = s.on /\ t.reg = s.reg /\ t.free = s.free
      /\ t.joiner = s.joiner /\ t.live = s.live /\ t.running = s.running
      /\ t.status = s.status /\ t.susp = s.susp /\ t.blk = s.blk /\ t.stdin = s.stdin
      /\ t.left = [c \in Ctx |-> IF c \in Elems(s.timers) /\ s.left[c] > 0
                                  THEN s.left[c] - 1 ELSE s.left[c]]
  BY <1>0 DEF Elapse, SchedType
<1>3. ASSUME NEW x \in s.susp PROVE t.left[x] = s.left[x]
  <2>1. x \notin Elems(s.timers)
    BY <1>0 DEF Listed, TimedSleepers
  <2> QED
    BY <1>0, <1>2, <2>1
<1> HIDE DEF t
<1>4. Good(s, t)
  <2>1. /\ t.cont = s.cont /\ t.on = s.on /\ t.reg = s.reg /\ t.free = s.free
        /\ t.joiner = s.joiner /\ t.live = s.live /\ t.running = s.running
        /\ t.status = s.status /\ t.susp = s.susp /\ t.blk = s.blk /\ t.stdin = s.stdin
    BY <1>2
  <2> QED
    BY <1>0, <1>3, <2>1, ElapseCore
<1>5. Runnable(t) = R /\ TimedSleepers(t) = T
  BY <1>2 DEF Runnable, TimedSleepers
<1> QED
  BY <1>1, <1>4, <1>5 DEF Lists, t

\* The scheduler is choosing: main is blocked only if it sleeps, or there is
\* nobody else.
LEMMA NotForced ==
  ASSUME NEW s \in SchedType, Core(s), NEW v \in Ctx, s.status[v] = "Sleeping",
         v \in TimedSleepers(s) \/ s.stdin # NoCtx
  PROVE  ~(Main \in s.blk /\ s.status[Main] # "Sleeping")
<1>1. CASE v \in TimedSleepers(s) /\ v # Main
  BY <1>1 DEF Core, Forced
<1>2. CASE v = Main
  BY <1>2
<1>3. CASE s.stdin # NoCtx
  BY <1>3 DEF Core, Forced
<1> QED
  BY <1>1, <1>2, <1>3

\* ready_queue_pop and load
LEMMA LoadReadySound ==
  ASSUME NEW s, Sound(s), s.running = NoCtx, SomeReady(s)
  PROVE  Good(s, LoadNext(s)) /\ Lists(LoadNext(s))
<1> DEFINE R == Runnable(s)
           T == TimedSleepers(s)
<1>0. /\ s \in SchedType /\ Core(s) /\ Listed(s, R, T)
      /\ s.status \in [Ctx -> Statuses]
  BY Fields DEF Sound, Lists
<1>1. ASSUME NEW v, NEW u \in SchedType, SamePrograms(s, u), SameLinks(s, u), SameFlags(s, u),
             v \in R, Listed(u, R \ {v}, T)
      PROVE  Good(s, coroutine_load(u, v)) /\ Lists(coroutine_load(u, v))
  <2> DEFINE t == coroutine_load(u, v)
  <2>1. v \in Ctx /\ s.status[v] = "Ready"
    BY <1>1 DEF Runnable
  <2>2. t \in SchedType
    BY <1>1, <2>1, LoadType
  <2>3. /\ t.cont = u.cont /\ t.on = u.on /\ t.reg = u.reg /\ t.free = u.free
        /\ t.joiner = u.joiner /\ t.live = u.live /\ t.running = v
        /\ t.status = [u.status EXCEPT ![v] = "Running"] /\ t.susp = u.susp /\ t.blk = u.blk
        /\ t.stdin = u.stdin /\ t.left = u.left /\ t.hi = u.hi
        /\ t.high = u.high /\ t.norm = u.norm /\ t.timers = u.timers
    BY <1>1 DEF coroutine_load, SchedType
  <2> HIDE DEF t
  <2>4. /\ t.cont = s.cont /\ t.on = s.on /\ t.reg = s.reg /\ t.free = s.free
        /\ t.joiner = s.joiner /\ t.live = s.live /\ t.running = v
        /\ t.status = [s.status EXCEPT ![v] = "Running"] /\ t.susp = s.susp /\ t.blk = s.blk
        /\ t.stdin = s.stdin /\ t.left = s.left
    BY <1>1, <2>3 DEF SamePrograms, SameLinks, SameFlags
  <2>5. Good(s, t)
    BY <1>0, <1>1, <2>1, <2>2, <2>4, LoadCore
  <2>6. Listed(t, R \ {v}, T)
    BY <1>1, <2>2, <2>3, SameListed
  <2>7. Runnable(t) = R \ {v} /\ TimedSleepers(t) = T
    BY <1>0, <2>1, <2>4 DEF Runnable, TimedSleepers
  <2> QED
    BY <2>5, <2>6, <2>7 DEF Lists, t
<1>2. CASE s.high # << >>
  <2> DEFINE u == [s EXCEPT !.high = Tail(@)]
             v == Head(s.high)
  <2>1. Tail(s.high) \in Seq(Ctx)
    BY <1>0, <1>2, Fields, TailList
  <2>2. /\ u \in SchedType /\ SamePrograms(s, u) /\ SameLinks(s, u) /\ SameFlags(s, u)
        /\ u.high = Tail(s.high) /\ u.norm = s.norm /\ u.timers = s.timers
        /\ u.hi = s.hi /\ u.left = s.left
    BY <1>0, <2>1 DEF SchedType, SamePrograms, SameLinks, SameFlags
  <2>3. LoadNext(s) = coroutine_load(u, v)
    BY <1>2 DEF LoadNext
  <2> HIDE DEF u, R, T
  <2>4. v \in R /\ Listed(u, R \ {v}, T)
    BY <1>0, <1>2, <2>2, PopListed
  <2> QED
    BY <1>1, <2>2, <2>3, <2>4
<1>3. CASE s.high = << >>
  <2> DEFINE u == [s EXCEPT !.norm = Tail(@)]
             v == Head(s.norm)
  <2>0. s.norm # << >>
    BY <1>3 DEF SomeReady
  <2>1. Tail(s.norm) \in Seq(Ctx)
    BY <1>0, <2>0, Fields, TailList
  <2>2. /\ u \in SchedType /\ SamePrograms(s, u) /\ SameLinks(s, u) /\ SameFlags(s, u)
        /\ u.norm = Tail(s.norm) /\ u.high = s.high /\ u.timers = s.timers
        /\ u.hi = s.hi /\ u.left = s.left
    BY <1>0, <2>1 DEF SchedType, SamePrograms, SameLinks, SameFlags
  <2>3. LoadNext(s) = coroutine_load(u, v)
    BY <1>3 DEF LoadNext
  <2>5. u.norm # s.norm
    <3>2. s.norm \in Seq(Ctx) /\ u.norm = Tail(s.norm)
      BY <1>0, <2>2, Fields
    <3> HIDE DEF u
    <3> QED
      BY <2>0, <3>2, TailShorter
  <2> HIDE DEF u, R, T
  <2>4. v \in R /\ Listed(u, R \ {v}, T)
    BY <1>0, <2>0, <2>2, <2>5, PopListed
  <2> QED
    BY <1>1, <2>2, <2>3, <2>4
<1> QED
  BY <1>2, <1>3

\* Nothing to wait for: main is loaded.
LEMMA LoadMainSound ==
  ASSUME NEW s, Sound(s), s.running = NoCtx, ~SomeReady(s), s.timers = << >>, s.stdin = NoCtx
  PROVE  Good(s, coroutine_load(s, Main)) /\ Lists(coroutine_load(s, Main))
<1> DEFINE t == coroutine_load(s, Main)
<1>0. /\ s \in SchedType /\ Core(s) /\ Lists(s) /\ t \in SchedType /\ Main \in Ctx
      /\ s.status \in [Ctx -> Statuses]
  BY LoadType, Fields, CtxAssumption DEF Sound
<1>1. Runnable(s) = {} /\ TimedSleepers(s) = {}
  <2>1. s.high = << >> /\ s.norm = << >>
    BY DEF SomeReady
  <2>2. Elems(<< >>) = {}
    BY DEF Elems
  <2> QED
    BY <1>0, <2>1, <2>2 DEF Lists, Listed
<1>2. /\ t.cont = s.cont /\ t.on = s.on /\ t.reg = s.reg /\ t.free = s.free
      /\ t.joiner = s.joiner /\ t.live = s.live /\ t.running = Main
      /\ t.status = [s.status EXCEPT ![Main] = "Running"] /\ t.susp = s.susp /\ t.blk = s.blk
      /\ t.stdin = s.stdin /\ t.left = s.left /\ t.hi = s.hi
      /\ t.high = s.high /\ t.norm = s.norm /\ t.timers = s.timers
  BY <1>0 DEF coroutine_load, SchedType
<1> HIDE DEF t
<1>3. Good(s, t)
  <2>1. /\ t.cont = s.cont /\ t.on = s.on /\ t.reg = s.reg /\ t.free = s.free
        /\ t.joiner = s.joiner /\ t.live = s.live /\ t.running = Main
        /\ t.status = [s.status EXCEPT ![Main] = "Running"] /\ t.susp = s.susp /\ t.blk = s.blk
        /\ t.stdin = s.stdin /\ t.left = s.left
    BY <1>2
  <2> QED
    BY <1>0, <1>1, <2>1, LoadCore
<1>4. Runnable(t) = Runnable(s) /\ TimedSleepers(t) = TimedSleepers(s)
  BY <1>0, <1>1, <1>2 DEF Runnable, TimedSleepers
<1>5. Listed(t, Runnable(s), TimedSleepers(s))
  BY <1>0, <1>2, SameListed DEF Lists
<1> QED
  BY <1>3, <1>4, <1>5 DEF Lists, t

\* timer_sweep_expired
LEMMA SweepSound ==
  ASSUME NEW s, Sound(s), HeadExpired(s)
  PROVE  Good(s, SweepHead(s)) /\ Lists(SweepHead(s))
<1> DEFINE v == Head(s.timers)
           w == [s EXCEPT !.timers = Tail(@), !.stdin  = IF @ = v THEN NoCtx ELSE @]
           u == [w EXCEPT !.status[v] = "Ready"]
           t == ready_queue_push(u, v)
           R == Runnable(s)
           T == TimedSleepers(s)
<1>0. /\ s \in SchedType /\ Core(s) /\ Listed(s, R, T)
      /\ s.status \in [Ctx -> Statuses] /\ s.timers # << >> /\ s.left[v] = 0
      /\ Tail(s.timers) \in Seq(Ctx) /\ v \in Elems(s.timers) /\ v \in Ctx
  BY Fields, TailList DEF Sound, Lists, HeadExpired
<1>1. v \in T /\ v \notin R /\ s.status[v] = "Sleeping" /\ v \notin s.blk /\ v \notin s.susp
  BY <1>0 DEF Listed, TimedSleepers, Runnable
<1>2. SweepHead(s) = t
  BY <1>1 DEF SweepHead
<1> HIDE DEF v
<1>3. /\ w \in SchedType /\ SamePrograms(s, w) /\ SameLinks(s, w)
      /\ w.status = s.status /\ w.susp = s.susp /\ w.blk = s.blk /\ w.hi = s.hi
      /\ w.left = s.left /\ w.high = s.high /\ w.norm = s.norm
      /\ w.timers = Tail(s.timers) /\ w.stdin = IF s.stdin = v THEN NoCtx ELSE s.stdin
  BY <1>0 DEF SchedType, CtxOrNone, SamePrograms, SameLinks
<1> HIDE DEF w
<1>4. /\ u \in SchedType /\ SamePrograms(w, u) /\ SameLinks(w, u)
      /\ u.status = [w.status EXCEPT ![v] = "Ready"] /\ u.susp = w.susp /\ u.blk = w.blk
      /\ u.hi = w.hi /\ u.left = w.left /\ u.high = w.high /\ u.norm = w.norm
      /\ u.timers = w.timers /\ u.stdin = w.stdin
  BY <1>0, <1>3 DEF SchedType, Statuses, SamePrograms, SameLinks
<1> HIDE DEF u
<1>5. t \in SchedType /\ SamePrograms(u, t) /\ SameLinks(u, t) /\ SameFlags(u, t)
  BY <1>0, <1>4, PushType, PushFrame
<1> HIDE DEF R, T
<1>6. Listed(t, R \cup {v}, T \ {v})
  <2>1. Listed(u, R, T \ {v})
    <3>1. /\ u.timers = Tail(s.timers) /\ u.high = s.high /\ u.norm = s.norm
          /\ u.hi = s.hi /\ u.left = s.left
      BY <1>3, <1>4
    <3> QED
      BY <1>0, <1>4, <3>1, PopTimerListed DEF v
  <2> QED
    BY <1>0, <1>1, <1>4, <2>1, PushListed
<1> HIDE DEF t
<1>7. /\ t.cont = s.cont /\ t.on = s.on /\ t.reg = s.reg /\ t.free = s.free
      /\ t.joiner = s.joiner /\ t.live = s.live /\ t.running = s.running
      /\ t.status = [s.status EXCEPT ![v] = "Ready"] /\ t.susp = s.susp
      /\ t.blk = s.blk \ {v}
      /\ t.left = s.left /\ t.stdin = IF s.stdin = v THEN NoCtx ELSE s.stdin
  BY <1>1, <1>3, <1>4, <1>5 DEF SamePrograms, SameLinks, SameFlags
<1>8. Good(s, t)
  <2>1. s.cont[v] # "join" /\ (s.cont[v] = "proc" => s.left[v] = 0)
    BY <1>0, <1>1, NotAtJoin
  <2>2. ~(Main \in s.blk /\ s.status[Main] # "Sleeping")
    BY <1>0, <1>1, NotForced DEF T
  <2> QED
    BY ONLY <1>0, <1>1, <1>5, <1>7, <2>1, <2>2, ReadyCore
<1>9. Runnable(t) = R \cup {v} /\ TimedSleepers(t) = T \ {v}
  BY <1>0, <1>1, <1>7 DEF Runnable, TimedSleepers, R, T
<1> QED
  BY <1>2, <1>6, <1>8, <1>9 DEF Lists

\* poll() reports that stdin is readable.
LEMMA WakeReaderSound ==
  ASSUME NEW s, Sound(s), NEW v \in Ctx, s.stdin = v,
         NEW u \in SchedType, SamePrograms(s, u), SameLinks(s, u),
         u.status = s.status, u.susp = s.susp, u.blk = s.blk, u.hi = s.hi,
         u.left = s.left, u.high = s.high, u.norm = s.norm, u.timers = s.timers,
         u.stdin = NoCtx
  PROVE  Good(s, coroutine_wake(u, v)) /\ Lists(coroutine_wake(u, v))
<1> DEFINE w == IF v \in u.blk THEN u ELSE timer_list_remove(u, v)
           x == [w EXCEPT !.stdin = IF @ = v THEN NoCtx ELSE @]
           t == MakeReady(x, v)
           R == Runnable(s)
           T == TimedSleepers(s)
<1>0. /\ s \in SchedType /\ Core(s) /\ Listed(s, R, T)
      /\ s.status \in [Ctx -> Statuses] /\ v # NoCtx
  BY Fields, CtxAssumption DEF Sound, Lists
<1>1. /\ s.status[v] = "Sleeping" /\ s.cont[v] \in {"readkey", "readkeyT"}
      /\ v \notin R
  BY <1>0 DEF Core, Reads, Runnable
<1>2. coroutine_wake(u, v) = t
  BY <1>0, <1>1 DEF coroutine_wake
<1> HIDE DEF R, T
<1>3. Listed(u, R, T)
  BY <1>0, SameListed
<1>4. /\ w \in SchedType /\ SamePrograms(u, w) /\ SameLinks(u, w) /\ SameFlags(u, w)
      /\ Listed(w, R, T \ {v})
  <2>1. CASE v \in u.blk
    <3>1. w = u
      BY <2>1
    <3>2. T \ {v} = T
      BY <2>1 DEF T, TimedSleepers
    <3>3. SamePrograms(u, u) /\ SameLinks(u, u) /\ SameFlags(u, u)
      BY DEF SamePrograms, SameLinks, SameFlags
    <3> QED
      BY <1>3, <3>1, <3>2, <3>3, SMT
  <2>2. CASE v \notin u.blk
    <3>1. w = timer_list_remove(u, v)
      BY <2>2
    <3> QED
      BY <1>3, <3>1, RemoveType, TimerFrame, TimerRemoveListed
  <2> QED
    BY <2>1, <2>2
<1> HIDE DEF w
<1>5. /\ x \in SchedType /\ SamePrograms(w, x) /\ SameLinks(w, x)
      /\ x.status = w.status /\ x.susp = w.susp /\ x.blk = w.blk /\ x.hi = w.hi
      /\ x.left = w.left /\ x.high = w.high /\ x.norm = w.norm /\ x.timers = w.timers
      /\ x.stdin = IF w.stdin = v THEN NoCtx ELSE w.stdin
  <2>1. w \in SchedType
    BY <1>4
  <2> QED
    BY ONLY <2>1 DEF SchedType, CtxOrNone, SamePrograms, SameLinks, x
<1> HIDE DEF x
<1>6. /\ t \in SchedType /\ SamePrograms(x, t) /\ SameLinks(x, t)
      /\ t.status = [x.status EXCEPT ![v] = "Ready"]
      /\ t.blk = x.blk \ {v}
      /\ t.susp = x.susp /\ t.left = x.left
      /\ t.stdin = x.stdin
  BY ONLY v \in Ctx, <1>5, MakeReadyType, MakeReadyFrame
<1>7. Listed(t, IF v \in s.susp THEN R ELSE R \cup {v}, T \ {v})
  <2>1. Listed(x, R, T \ {v})
    BY <1>4, <1>5, SameListed
  <2>2. x.susp = s.susp
    BY <1>4, <1>5 DEF SameFlags
  <2> QED
    BY <1>1, <1>5, <2>1, <2>2, MakeReadyListed
<1> HIDE DEF t
<1>8. /\ t.cont = s.cont /\ t.on = s.on /\ t.reg = s.reg /\ t.free = s.free
      /\ t.joiner = s.joiner /\ t.live = s.live /\ t.running = s.running
      /\ t.status = [s.status EXCEPT ![v] = "Ready"] /\ t.susp = s.susp
      /\ t.blk = s.blk \ {v}
      /\ t.left = s.left /\ t.stdin = IF s.stdin = v THEN NoCtx ELSE s.stdin
  BY <1>0, <1>4, <1>5, <1>6 DEF SamePrograms, SameLinks, SameFlags
<1>9. Good(s, t)
  <2>1. s.cont[v] # "join" /\ (s.cont[v] = "proc" => s.left[v] = 0)
    BY <1>1
  <2>2. ~(Main \in s.blk /\ s.status[Main] # "Sleeping")
    BY <1>0, <1>1, NotForced
  <2> QED
    BY ONLY v \in Ctx, <1>0, <1>1, <1>6, <1>8, <2>1, <2>2, ReadyCore
<1>10. /\ Runnable(t) = IF v \in s.susp THEN R ELSE R \cup {v}
       /\ TimedSleepers(t) = T \ {v}
  BY <1>0, <1>1, <1>8 DEF Runnable, TimedSleepers, R, T
<1> QED
  BY <1>2, <1>7, <1>9, <1>10 DEF Lists

-----------------------------------------------------------------------------
(* Each action does, and the theorems. *)

\* What the runtime does not defend itself against does not happen: a third
\* coroutine takes no context that a join is about (docs/coroutines.md 12.6), no
\* stdin reader is suspended between its timeout and the sweep, no launch fails
\* half way for lack of VM, and only main calls coroutine-kill-all.  Each of the
\* four is needed: without it one of the properties fails.
Disciplined ==
  /\ ~ShareJoined /\ ~SuspendExpired /\ ~VmFull
  /\ KillAllCallers \subseteq {Main}

\* A state has the same state as itself.
LEMMA SameStateRefl ==
  ASSUME NEW s, NEW t, t = s
  PROVE  SameState(s, t)
  BY DEF SameState

\* A step of the running coroutine that only changes its program, its
\* registration or the stdin slot before it gives up the processor.
LEMMA WaitStepSound ==
  ASSUME Sound(sched), NEW c \in Ctx,
         \/ Yield(c) \/ Sleep(c) \/ WaitAll(c) \/ WaitAllCheck(c)
         \/ ReadKey(c) \/ ReadKeyTimeout(c) \/ ReadKeyRetry(c) \/ ReadKeyTimeoutRetry(c)
  PROVE  Good(sched, sched') /\ Lists(sched')
<1>0. sched \in SchedType /\ sched.cont \in [Ctx -> Conts] /\ SameState(sched, sched)
  BY Fields, SameStateRefl DEF Sound
<1>0a. \A k \in Conts : sched.cont[c] = k => sched.cont = [sched.cont EXCEPT ![c] = k]
  BY <1>0
<1>0b. /\ "proc" \in Conts /\ "waitall" \in Conts /\ "readkey" \in Conts /\ "readkeyT" \in Conts
       /\ sched.cont[c] \in Conts
  BY <1>0 DEF Conts
<1>1. CASE Yield(c)
  <2>1. sched.running = c /\ sched' = YieldCpu(sched, c)
    BY <1>1 DEF Yield
  <2> QED
    BY <1>0, <1>0a, <1>0b, <2>1, YieldSound
<1>2. CASE Sleep(c)
  <2>1. PICK d \in 1..MaxSleep : sched' = SleepFor(sched, c, d)
    BY <1>2 DEF Sleep
  <2>2. d \in 0..MaxSleep
    BY SleepAssumption
  <2>3. sched.running = c /\ sched.cont[c] = "proc"
    BY <1>2 DEF Sleep, InProc
  <2> QED
    BY <1>0, <1>0a, <1>0b, <2>1, <2>2, <2>3, SleepSound
<1>3. CASE WaitAll(c)
  <2> DEFINE u == [sched EXCEPT !.cont[c] = "waitall"]
  <2>1. /\ u \in SchedType /\ SameState(sched, u) /\ u.stdin = sched.stdin
        /\ u.joiner = sched.joiner /\ u.on = sched.on
        /\ u.cont = [sched.cont EXCEPT ![c] = "waitall"]
    BY <1>0 DEF SchedType, Conts, SameState
  <2>2. sched.running = c /\ sched.cont[c] = "proc" /\ sched' = YieldCpu(u, c)
    BY <1>3 DEF WaitAll, InProc
  <2> HIDE DEF u
  <2> QED
    BY <1>0b, <2>1, <2>2, YieldSound
<1>4. CASE WaitAllCheck(c)
  <2>0. sched.running = c /\ sched.cont[c] = "waitall"
    BY <1>4 DEF WaitAllCheck, At
  <2>1. CASE sched' = YieldCpu(sched, c)
    BY <1>0, <1>0a, <1>0b, <2>0, <2>1, YieldSound
  <2>2. CASE sched' = [sched EXCEPT !.cont[c] = "proc"]
    <3>1. /\ sched' \in SchedType /\ SameState(sched, sched') /\ sched'.stdin = sched.stdin
          /\ sched'.joiner = sched.joiner /\ sched'.running = sched.running
          /\ sched'.on = sched.on /\ sched'.cont = [sched.cont EXCEPT ![c] = "proc"]
      BY <1>0, <2>2 DEF SchedType, Conts, SameState
    <3> QED
      BY <2>0, <3>1, ProceedSound
  <2> QED
    BY <1>4, <2>1, <2>2 DEF WaitAllCheck
<1>5. CASE ReadKey(c)
  <2> DEFINE u == [sched EXCEPT !.stdin = c, !.cont[c] = "readkey"]
  <2>1. /\ u \in SchedType /\ SameState(sched, u) /\ u.stdin = c
        /\ u.joiner = sched.joiner /\ u.on = sched.on
        /\ u.cont = [sched.cont EXCEPT ![c] = "readkey"]
    BY <1>0 DEF SchedType, Conts, CtxOrNone, SameState
  <2>2. /\ sched.running = c /\ sched.cont[c] = "proc" /\ sched.stdin = NoCtx
        /\ sched' = Block(u, c)
    BY <1>5 DEF ReadKey, InProc
  <2> HIDE DEF u
  <2> QED
    BY <2>1, <2>2, BlockReadSound
<1>6. CASE ReadKeyTimeout(c)
  <2> DEFINE u == [sched EXCEPT !.stdin = c, !.cont[c] = "readkeyT"]
  <2>1. /\ u \in SchedType /\ SameState(sched, u) /\ u.stdin = c
        /\ u.joiner = sched.joiner /\ u.on = sched.on
        /\ u.cont = [sched.cont EXCEPT ![c] = "readkeyT"]
    BY <1>0 DEF SchedType, Conts, CtxOrNone, SameState
  <2>2. /\ sched.running = c /\ sched.cont[c] = "proc" /\ sched.stdin = NoCtx
    BY <1>6 DEF ReadKeyTimeout, InProc
  <2>3. PICK d \in 0..MaxSleep : sched' = SleepFor(u, c, d)
    BY <1>6 DEF ReadKeyTimeout
  <2> HIDE DEF u
  <2> QED
    BY <1>0b, <2>1, <2>2, <2>3, SleepSound
<1>7. CASE ReadKeyRetry(c)
  <2>0. sched.running = c /\ sched.cont[c] = "readkey"
    BY <1>7 DEF ReadKeyRetry, At
  <2>1. CASE sched' = [sched EXCEPT !.cont[c] = "proc"]
    <3>1. /\ sched' \in SchedType /\ SameState(sched, sched') /\ sched'.stdin = sched.stdin
          /\ sched'.joiner = sched.joiner /\ sched'.running = sched.running
          /\ sched'.on = sched.on /\ sched'.cont = [sched.cont EXCEPT ![c] = "proc"]
      BY <1>0, <2>1 DEF SchedType, Conts, SameState
    <3> QED
      BY <2>0, <3>1, ProceedSound
  <2>2. CASE sched.stdin = NoCtx /\ sched' = Block([sched EXCEPT !.stdin = c], c)
    <3> DEFINE u == [sched EXCEPT !.stdin = c]
    <3>1. /\ u \in SchedType /\ SameState(sched, u) /\ u.stdin = c
          /\ u.joiner = sched.joiner /\ u.on = sched.on
          /\ u.cont = sched.cont
      BY <1>0 DEF SchedType, CtxOrNone, SameState
    <3>2. sched' = Block(u, c)
      BY <2>2
    <3> HIDE DEF u
    <3>3. u.cont = [sched.cont EXCEPT ![c] = "readkey"]
      BY <1>0a, <1>0b, <2>0, <3>1
    <3>4. sched.stdin = NoCtx /\ sched.cont[c] # "join"
      BY <2>0, <2>2
    <3>5. Good(sched, Block(u, c)) /\ Lists(Block(u, c))
      BY <2>0, <3>1, <3>3, <3>4, BlockReadSound
    <3> QED
      BY <3>2, <3>5
  <2> QED
    BY <1>7, <2>1, <2>2 DEF ReadKeyRetry
<1>8. CASE ReadKeyTimeoutRetry(c)
  <2>0. sched.running = c /\ sched.cont[c] = "readkeyT"
    BY <1>8 DEF ReadKeyTimeoutRetry, At
  <2>1. /\ sched' \in SchedType /\ SameState(sched, sched') /\ sched'.stdin = sched.stdin
        /\ sched'.joiner = sched.joiner /\ sched'.running = sched.running
        /\ sched'.on = sched.on /\ sched'.cont = [sched.cont EXCEPT ![c] = "proc"]
    BY <1>0, <1>8 DEF ReadKeyTimeoutRetry, SchedType, Conts, SameState
  <2> QED
    BY <2>0, <2>1, ProceedSound
<1> QED
  BY <1>1, <1>2, <1>3, <1>4, <1>5, <1>6, <1>7, <1>8

\* Steps of a join, and what frees a dead context.
LEMMA JoinStepSound ==
  ASSUME Disciplined, Sound(sched), NEW c \in Ctx, Join(c) \/ Collect(c) \/ JoinCheck(c)
  PROVE  Good(sched, sched') /\ Lists(sched')
<1>0. /\ sched \in SchedType /\ sched.cont \in [Ctx -> Conts] /\ SameState(sched, sched)
      /\ sched.on \in [Ctx -> CtxOrNone] /\ sched.joiner \in [Ctx -> CtxOrNone]
      /\ sched.reg \subseteq Ctx /\ Core(sched) /\ sched.status \in [Ctx -> Statuses]
  BY Fields, SameStateRefl DEF Sound
<1>1. CASE Join(c)
  <2>0. sched.running = c /\ sched.cont[c] = "proc"
    BY <1>1 DEF Join, InProc
  <2>1. PICK r \in sched.reg :
          /\ sched.status[r] # "Dead"
          /\ sched.joiner[r] = NoCtx
          /\ sched' = Block([sched EXCEPT !.joiner[r] = c, !.cont[c] = "join", !.on[c] = r], c)
    BY <1>1 DEF Join, Handles
  <2> DEFINE u == [sched EXCEPT !.joiner[r] = c, !.cont[c] = "join", !.on[c] = r]
  <2>2. r \in Ctx
    BY <1>0
  <2>3. /\ u \in SchedType /\ SameState(sched, u) /\ u.stdin = sched.stdin
        /\ u.joiner = [sched.joiner EXCEPT ![r] = c]
        /\ u.on = [sched.on EXCEPT ![c] = r]
        /\ u.cont = [sched.cont EXCEPT ![c] = "join"]
    BY <1>0, <2>2 DEF SchedType, Conts, CtxOrNone, SameState
  <2>4. sched' = Block(u, c)
    BY <2>1
  <2>5. sched.status[r] # "Dead" /\ sched.joiner[r] = NoCtx
    BY <2>1
  <2> HIDE DEF u
  <2>6. Good(sched, Block(u, c)) /\ Lists(Block(u, c))
    BY <2>0, <2>3, <2>5, BlockJoinSound
  <2> QED
    BY <2>4, <2>6
<1>2. CASE Collect(c)
  <2>0. sched.running = c /\ sched.cont[c] = "proc"
    BY <1>2 DEF Collect, InProc
  <2>1. PICK r \in sched.reg :
          /\ sched.status[r] = "Dead"
          /\ MayCollect(c, r)
          /\ sched' = coroutine_free_context(sched, r)
    BY <1>2 DEF Collect, Handles
  <2>2. ASSUME NEW d \in Ctx \ {c}, AtJoin(sched, d) PROVE sched.on[d] # r
    BY <2>1, <2>2 DEF AtJoin, Alive, MayCollect, Collectors, Disciplined
  <2>3. sched.cont = [sched.cont EXCEPT ![c] = "proc"]
    BY <1>0, <2>0
  <2>4. sched.status[r] = "Dead"
    BY <2>1
  <2>5. Good(sched, coroutine_free_context(sched, r)) /\ Lists(coroutine_free_context(sched, r))
    BY <1>0, <2>0, <2>2, <2>3, <2>4, FreeSound
  <2> QED
    BY <2>1, <2>5
<1>3. CASE JoinCheck(c)
  <2> DEFINE r == sched.on[c]
  <2>0. sched.running = c /\ sched.cont[c] = "join"
    BY <1>3 DEF JoinCheck, At
  <2>1. sched.status[c] = "Running"
    BY <1>0, <2>0, RunningFree
  <2>2. AtJoin(sched, c)
    BY <2>0, <2>1 DEF AtJoin, Alive
  <2>3. r \in sched.reg /\ r \in Ctx
    BY <1>0, <2>2 DEF Core, Joins
  <2>4. CASE sched.status[r] # "Dead"
    <3> DEFINE u == [sched EXCEPT !.joiner[r] = c]
    <3>1. sched' = Block(u, c)
      BY <1>3, <2>4 DEF JoinCheck
    <3> HIDE DEF r
    <3>2. /\ u \in SchedType /\ SameState(sched, u) /\ u.stdin = sched.stdin
          /\ u.joiner = [sched.joiner EXCEPT ![r] = c]
          /\ u.on = sched.on
          /\ u.cont = sched.cont
      BY <1>0, <2>3 DEF SchedType, CtxOrNone, SameState
    <3> HIDE DEF u
    <3>3. u.on = [sched.on EXCEPT ![c] = r] /\ u.cont = [sched.cont EXCEPT ![c] = "join"]
      BY <1>0, <2>0, <3>2 DEF r
    <3>4. sched.on[c] = r
      BY DEF r
    <3>5. Good(sched, Block(u, c)) /\ Lists(Block(u, c))
      BY <2>0, <2>3, <2>4, <3>2, <3>3, <3>4, BlockJoinSound
    <3> QED
      BY <3>1, <3>5
  <2>5. CASE sched.status[r] = "Dead"
    <3> DEFINE u == [sched EXCEPT !.cont[c] = "proc", !.on[c] = NoCtx]
    <3>1. sched' = coroutine_free_context(u, r)
      BY <1>3, <2>5 DEF JoinCheck
    <3>2. ASSUME NEW d \in Ctx \ {c}, AtJoin(sched, d) PROVE sched.on[d] # r
      BY <1>0, <2>2, <3>2 DEF Core, Joins
    <3> HIDE DEF r
    <3>3. /\ u \in SchedType /\ SameState(sched, u) /\ u.stdin = sched.stdin
          /\ u.joiner = sched.joiner /\ u.running = sched.running
          /\ u.on = [sched.on EXCEPT ![c] = NoCtx]
          /\ u.cont = [sched.cont EXCEPT ![c] = "proc"]
      BY <1>0 DEF SchedType, Conts, CtxOrNone, SameState
    <3> HIDE DEF u
    <3>4. \A d \in Ctx \ {c} : u.on[d] = sched.on[d]
      BY <1>0, <3>3
    <3>5. sched.on[c] = r
      BY DEF r
    <3>6. Good(sched, coroutine_free_context(u, r)) /\ Lists(coroutine_free_context(u, r))
      BY ONLY Sound(sched), c \in Ctx, <2>0, <2>3, <2>5, <3>2, <3>3, <3>4, <3>5, FreeSound, ZenonT(40)
    <3> QED
      BY <3>1, <3>6
  <2> QED
    BY <2>4, <2>5
<1> QED
  BY <1>1, <1>2, <1>3

\* Steps that launch, kill, suspend, resume or reorder other coroutines.
LEMMA OtherStepSound ==
  ASSUME Disciplined, Sound(sched), sched' \in SchedType, NEW c \in Ctx,
         \/ Launch(c) \/ LaunchVmFull(c) \/ Die(c) \/ KillOther(c) \/ KillAll(c)
         \/ Suspend(c) \/ Resume(c) \/ SetPriority(c)
  PROVE  Good(sched, sched') /\ Lists(sched')
<1>0. sched \in SchedType /\ sched.reg \subseteq Ctx /\ Core(sched)
  BY Fields DEF Sound
<1>0a. sched.running = c /\ sched.cont[c] # "join"
  BY DEF Launch, LaunchVmFull, Die, KillOther, KillAll, Suspend, Resume, SetPriority, InProc
<1>1. CASE Launch(c)
  BY <1>0a, <1>1, LaunchSound DEF Launch
<1>2. CASE LaunchVmFull(c)
  BY <1>2 DEF LaunchVmFull, Disciplined
<1>3. CASE Die(c)
  <2> DEFINE k == coroutine_kill(sched, c)
  <2>1. k \in SchedType
    BY <1>0, KillType
  <2>2. sched' = [k EXCEPT !.running = NoCtx] /\ c # Main
    BY <1>3 DEF Die
  <2> HIDE DEF k
  <2>3. SameButRunning(k, sched') /\ sched'.running = NoCtx
    BY <2>1, <2>2 DEF SameButRunning, SamePrograms, SameFlags, SchedType
  <2>4. sched.status[c] = "Running" /\ c \in sched.reg
    <3>1. sched.status[c] = "Running"
      BY <1>0, <1>0a, RunningFree
    <3> QED
      BY <1>0, <3>1 DEF Core, Registered, Alive
  <2>5. sched.status[c] # "Dead"
    BY <2>4
  <2> QED
    BY <1>0a, <2>2, <2>3, <2>4, <2>5, KillSound DEF k
<1>4. CASE KillOther(c)
  <2>1. PICK v \in sched.reg : /\ v # c /\ v # Main /\ sched.status[v] # "Dead"
                               /\ sched' = coroutine_kill(sched, v)
    BY <1>4 DEF KillOther, Handles
  <2>2. sched'.running = c
    BY <1>0, <1>0a, <2>1, KillFrame
  <2>3. SameButRunning(coroutine_kill(sched, v), sched')
    BY <2>1 DEF SameButRunning, SamePrograms, SameFlags
  <2> QED
    BY <1>0a, <2>1, <2>2, <2>3, KillSound
<1>5. CASE KillAll(c)
  <2>1. c = Main /\ sched' = coroutine_kill_all(sched)
    BY <1>5 DEF KillAll, Disciplined
  <2> QED
    BY <1>0a, <2>1, KillAllSound
<1>6. CASE Suspend(c)
  <2>1. PICK v \in sched.reg :
          /\ v # c /\ v # Main /\ sched.status[v] # "Dead"
          /\ sched.stdin # v \/ v \in sched.blk \/ sched.left[v] > 0
          /\ sched' = [Unschedule(sched, v) EXCEPT !.susp = @ \cup {v}]
    BY <1>6 DEF Suspend, Handles, Disciplined
  <2> QED
    BY <1>0a, <2>1, SuspendSound
<1>7. CASE Resume(c)
  <2>1. PICK v \in sched.reg \cap sched.susp :
          sched' = Rescheduled([sched EXCEPT !.susp = @ \ {v}], v)
    BY <1>7 DEF Resume, Handles, Rescheduled
  <2> DEFINE u == [sched EXCEPT !.susp = @ \ {v}]
  <2>2. u \in SchedType /\ Unsuspended(sched, v, u)
    BY <1>0 DEF SchedType, Unsuspended, SamePrograms, SameLinks
  <2>3. sched' = Rescheduled(u, v)
    BY <2>1
  <2> HIDE DEF u
  <2> QED
    BY <1>0a, <2>1, <2>2, <2>3, ResumeSound
<1>8. CASE SetPriority(c)
  <2>1. PICK v \in sched.reg :
          LET Flip(s) == [s EXCEPT !.hi = IF v \in @ THEN @ \ {v} ELSE @ \cup {v}]
          IN  sched' = IF sched.status[v] = "Ready" /\ v \notin sched.susp
                         THEN ready_queue_push(Flip(ready_queue_remove(sched, v)), v)
                         ELSE Flip(sched)
    BY <1>8 DEF SetPriority, Handles
  <2>2. v \in Ctx
    BY <1>0
  <2>3. CASE v \in Runnable(sched)
    <3> DEFINE r == ready_queue_remove(sched, v)
               u == [r EXCEPT !.hi = IF v \in @ THEN @ \ {v} ELSE @ \cup {v}]
    <3>1. sched' = ready_queue_push(u, v)
      BY <2>1, <2>3 DEF Runnable
    <3>2. r \in SchedType
      BY <1>0, <2>2, RemoveType
    <3> HIDE DEF r
    <3>3. u \in SchedType /\ Flipped(r, v, u)
      BY <2>2, <3>2 DEF SchedType, Flipped, SamePrograms, SameLinks
    <3> HIDE DEF u
    <3> QED
      BY <1>0a, <2>3, <3>1, <3>3, RequeueSound DEF r
  <2>4. CASE v \notin Runnable(sched)
    <3>1. sched' = [sched EXCEPT !.hi = IF v \in @ THEN @ \ {v} ELSE @ \cup {v}]
      BY <2>1, <2>2, <2>4 DEF Runnable
    <3>2. Flipped(sched, v, sched')
      BY <1>0, <2>2, <3>1 DEF SchedType, Flipped, SamePrograms, SameLinks
    <3> QED
      BY <1>0a, <2>4, <3>2, FlipSound
  <2> QED
    BY <2>3, <2>4
<1> QED
  BY <1>1, <1>2, <1>3, <1>4, <1>5, <1>6, <1>7, <1>8

\* A turn of coroutine_schedule's loop, or time passing.
LEMMA ScheduleSound ==
  ASSUME Sound(sched), Schedule \/ Tick
  PROVE  Good(sched, sched') /\ Lists(sched')
<1>0. sched \in SchedType /\ sched.stdin \in CtxOrNone
  BY Fields DEF Sound
<1>1. CASE SweepTimer
  BY <1>1, SweepSound DEF SweepTimer
<1>2. CASE LoadReady
  BY <1>2, LoadReadySound DEF LoadReady
<1>3. CASE ParkTimer \/ Tick
  BY <1>3, ElapseSound DEF ParkTimer, Tick
<1>4. CASE ParkStdin
  <2> DEFINE u == [sched EXCEPT !.stdin = NoCtx]
             v == sched.stdin
  <2>1. v \in Ctx /\ sched' = coroutine_wake(u, v)
    BY <1>0, <1>4 DEF ParkStdin, CtxOrNone
  <2>2. /\ u \in SchedType /\ SamePrograms(sched, u) /\ SameLinks(sched, u)
        /\ u.status = sched.status /\ u.susp = sched.susp /\ u.blk = sched.blk
        /\ u.hi = sched.hi /\ u.left = sched.left /\ u.high = sched.high
        /\ u.norm = sched.norm /\ u.timers = sched.timers /\ u.stdin = NoCtx
    BY <1>0 DEF SchedType, CtxOrNone, SamePrograms, SameLinks
  <2> HIDE DEF u
  <2> QED
    BY <2>1, <2>2, WakeReaderSound
<1>5. CASE LoadMain
  BY <1>5, LoadMainSound DEF LoadMain, Idle
<1> QED
  BY <1>1, <1>2, <1>3, <1>4, <1>5 DEF Schedule

\* The invariant of the specification.
SchedulerInv == WellFormed(sched) /\ Sound(sched)

\* The initial state satisfies the invariant.
LEMMA InitSound == Init => SchedulerInv
<1> SUFFICES ASSUME Init PROVE SchedulerInv
  OBVIOUS
<1> DEFINE s == InitSched
<1>0. sched = s /\ s \in SchedType /\ Main \in Ctx /\ NoCtx \notin Ctx
  BY InitType, CtxAssumption DEF Init
<1>1. /\ s.status = [c \in Ctx |-> IF c = Main THEN "Running" ELSE "Unborn"]
      /\ s.susp = {} /\ s.blk = {} /\ s.joiner = [c \in Ctx |-> NoCtx]
      /\ s.high = << >> /\ s.norm = << >> /\ s.timers = << >> /\ s.free = << >>
      /\ s.stdin = NoCtx /\ s.running = Main /\ s.cont = [c \in Ctx |-> "proc"]
      /\ s.reg = {Main} /\ s.live = 0
  BY DEF InitSched
<1> HIDE DEF s
<1>2. s.status[Main] = "Running" /\ \A c \in Ctx \ {Main} : s.status[c] = "Unborn"
  BY <1>0, <1>1
<1>3. \A c \in Ctx : s.joiner[c] = NoCtx /\ s.cont[c] = "proc"
  BY <1>1
<1>4. NoDup(<< >>) /\ Elems(<< >>) = {} /\ Sorted(<< >>, s.left)
  BY DEF NoDup, Elems, Sorted
<1>5. Registered(s)
  BY <1>0, <1>1, <1>2, <1>4 DEF Registered, Alive
<1>6. CountRight(s)
  <2>1. Counted(s) = {}
    BY <1>1 DEF Counted
  <2>2. IsFiniteSet({Main}) /\ Cardinality({}) = 0
    BY FS_Singleton, FS_EmptySet
  <2> QED
    BY <1>1, <2>1, <2>2 DEF CountRight
<1>7. Flags(s)
  BY <1>0, <1>1, <1>2 DEF Flags
<1>8. Joins(s) /\ Reads(s) /\ Forced(s)
  BY <1>1, <1>3 DEF Joins, AtJoin, Reads, Forced
<1>9. Lists(s)
  <2>1. Runnable(s) = {} /\ TimedSleepers(s) = {}
    BY <1>2 DEF Runnable, TimedSleepers
  <2> QED
    BY <1>1, <1>4, <2>1 DEF Lists, Listed
<1>10. JoinHasTarget(s)
  BY <1>3 DEF JoinHasTarget
<1> QED
  BY <1>0, <1>5, <1>6, <1>7, <1>8, <1>9, <1>10 DEF SchedulerInv, WellFormed, Sound, Core

\* Every step keeps it, and ends no sleep early.
LEMMA StepSound ==
  ASSUME Disciplined, SchedulerInv, Next
  PROVE  SchedulerInv' /\ NotEarly(sched, sched')
<1>1. WellFormed(sched') /\ sched' \in SchedType
  BY CoroutineStepWellFormed, ScheduleWellFormed DEF SchedulerInv, Next, WellFormed
<1>2. Good(sched, sched') /\ Lists(sched')
  <2>1. CASE Schedule \/ Tick
    BY <2>1, ScheduleSound DEF SchedulerInv
  <2>2. ASSUME NEW c \in Ctx, CoroutineStep(c) PROVE Good(sched, sched') /\ Lists(sched')
    BY <1>1, <2>2, WaitStepSound, JoinStepSound, OtherStepSound DEF SchedulerInv, CoroutineStep
  <2> QED
    BY <2>1, <2>2 DEF Next
<1> QED
  BY <1>1, <1>2 DEF SchedulerInv, Sound, Good

\* The invariant implies the consistency that scheduler_validate checks,
LEMMA InvQueues ==
  ASSUME SchedulerInv
  PROVE  QueuesSound
<1>0. Core(sched) /\ Lists(sched)
  BY DEF SchedulerInv, Sound
<1>1. ReadyQueues /\ TimerList
  BY <1>0 DEF Lists, Listed, Sorted, ReadyQueues, TimerList
<1>2. StdinSlot /\ LiveCount
  BY <1>0 DEF Core, Reads, CountRight, Counted, StdinSlot, LiveCount
<1> QED
  BY <1>1, <1>2 DEF QueuesSound

\* and that every waiter can still be woken.
LEMMA InvWaiters ==
  ASSUME SchedulerInv
  PROVE  WaitersSafe
<1>0. Flags(sched) /\ Joins(sched) /\ Reads(sched) /\ sched.status \in [Ctx -> Statuses]
      /\ sched.reg \subseteq Ctx
  BY Fields DEF SchedulerInv, Sound, Core
<1>1. NoOrphan
  <2> SUFFICES ASSUME NEW c \in Ctx, sched.status[c] = "Sleeping", c \in sched.blk,
                      sched.stdin # c
               PROVE  \E t \in sched.reg : sched.joiner[t] = c /\ sched.status[t] # "Dead"
    BY DEF NoOrphan
  <2>1. sched.cont[c] = "join"
    BY <1>0 DEF Reads
  <2>2. AtJoin(sched, c)
    BY <2>1 DEF AtJoin, Alive
  <2>3. /\ sched.on[c] \in sched.reg
        /\ sched.status[sched.on[c]] # "Dead"
        /\ sched.joiner[sched.on[c]] = c
    BY <1>0, <2>2 DEF Joins
  <2> QED
    BY <2>3
<1>2. JoinersParked
  <2> SUFFICES ASSUME NEW t \in Ctx, sched.joiner[t] # NoCtx
               PROVE  LET j == sched.joiner[t]
                      IN  /\ sched.cont[j] = "join"
                          /\ sched.on[j] = t
                          /\ \/ sched.status[j] = "Sleeping" /\ j \in sched.blk
                             \/ j = Main /\ sched.status[Main] \in {"Running", "Ready"}
    BY DEF JoinersParked
  <2> DEFINE j == sched.joiner[t]
  <2>1. j \in Ctx /\ Alive(sched, t) /\ AtJoin(sched, j) /\ sched.on[j] = t
    BY <1>0 DEF Joins
  <2> HIDE DEF j
  <2>2. j \in sched.blk
    BY <1>0, <2>1 DEF Joins, Alive
  <2>3. sched.status[j] = "Sleeping" \/ j = Main
    BY <1>0, <2>2 DEF Flags
  <2>4. sched.status[j] \in {"Sleeping", "Ready", "Running"}
    BY <1>0, <2>1 DEF AtJoin, Alive, Statuses
  <2>5. sched.cont[j] = "join"
    BY <2>1 DEF AtJoin
  <2>6. \/ sched.status[j] = "Sleeping" /\ j \in sched.blk
        \/ j = Main /\ sched.status[Main] \in {"Running", "Ready"}
    BY <2>2, <2>3, <2>4
  <2> QED
    BY <2>1, <2>5, <2>6 DEF j
<1>3. JoinTargetKept
  BY <1>0 DEF Joins, AtJoin, Alive, JoinTargetKept
<1> QED
  BY <1>1, <1>2, <1>3 DEF WaitersSafe

\* The invariant holds throughout every behaviour of disciplined programs.
LEMMA InvInvariant == Disciplined => (Spec => []SchedulerInv)
<1> SUFFICES ASSUME Disciplined PROVE Spec => []SchedulerInv
  OBVIOUS
<1>1. Init => SchedulerInv
  BY InitSound
<1>2. SchedulerInv /\ [Next]_vars => SchedulerInv'
  <2> SUFFICES ASSUME SchedulerInv, [Next]_vars PROVE SchedulerInv'
    OBVIOUS
  <2>1. CASE Next
    BY <2>1, StepSound
  <2>2. CASE UNCHANGED vars
    BY <2>2 DEF vars, SchedulerInv
  <2> QED
    BY <2>1, <2>2
<1> QED
  BY <1>1, <1>2, PTL DEF Spec

\* For any number of contexts and any bound on sleeps, programs that keep to the
\* rules never bring the scheduler into a state that scheduler_validate rejects:
\* each runnable coroutine is in exactly one ready queue, that of its tier, each
\* timed sleeper once in the timer list, in order, the stdin slot names a
\* sleeping reader and the live count counts.
THEOREM QueuesCorrect == Disciplined => (Spec => []QueuesSound)
<1>1. SchedulerInv => QueuesSound
  BY InvQueues
<1> QED
  BY <1>1, InvInvariant, PTL

\* Nor does anybody wait in vain: every blocked sleeper is the stdin reader or the
\* joiner of a live coroutine, every recorded joiner is in that join, and the
\* context a join is about is not freed before its check has run.
THEOREM WaitersCorrect == Disciplined => (Spec => []WaitersSafe)
<1>1. SchedulerInv => WaitersSafe
  BY InvWaiters
<1> QED
  BY <1>1, InvInvariant, PTL

\* And no step makes a sleeping coroutine ready before its time has run out, be
\* it a kill, a suspend and resume, a key press or a change of priority.
THEOREM SleepCorrect == Disciplined => (Spec => SleepIsMinimum)
<1> SUFFICES ASSUME Disciplined PROVE Spec => SleepIsMinimum
  OBVIOUS
<1>1. Spec => []SchedulerInv
  BY InvInvariant
<1>2. SchedulerInv /\ [Next]_vars =>
        [\A c \in Ctx :
           /\ sched.status[c] = "Sleeping"
           /\ c \notin sched.blk
           /\ sched.cont[c] = "proc"
           /\ sched'.status[c] = "Ready"
           => sched.left[c] = 0]_vars
  BY StepSound DEF NotEarly
<1> QED
  BY <1>1, <1>2, PTL DEF Spec, SleepIsMinimum

=============================================================================
