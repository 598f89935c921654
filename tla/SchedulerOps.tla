---------------------------- MODULE SchedulerOps ----------------------------
(***************************************************************************)
(* The scheduler's helper functions of src/src/ops_coroutine.inl as pure   *)
(* operators.  Each one maps a scheduler state s to the state the C++      *)
(* function leaves behind, so that a handler, which calls several of them  *)
(* without ever releasing the (single) interpreter thread, is one TLA+     *)
(* action built by composing them.                                         *)
(*                                                                         *)
(* A scheduler state is a record:                                          *)
(*   status  m_status of every context; "Unborn" = never allocated         *)
(*   susp    contexts with FlagSuspended                                   *)
(*   blk     contexts with FlagBlocked                                     *)
(*   hi      contexts with m_priority = PriorityHigh                       *)
(*   left    time until m_wake_time_ns (kept relative to the clock, so     *)
(*           that time needs no bound); for a suspended timed sleeper it   *)
(*           is m_suspend_remaining_ns and stands still                    *)
(*   joiner  m_joiner of every context                                     *)
(*   high, norm   the two ready queues                                     *)
(*   timers  the timer list                                                *)
(*   stdin   m_stdin_blocked_reader                                        *)
(*   running m_running_coroutine; NoCtx while coroutine_schedule is        *)
(*           choosing the next one                                         *)
(*   cont    what the coroutine executes when it is next loaded: its own   *)
(*           procedure or the control operator it pushed before sleeping   *)
(*   on      the coroutine handle that a join check finds on its stack     *)
(*   reg     the registry (circular list through m_next)                   *)
(*   free    the context free list m_coroutine_ctx_free                    *)
(*   live    m_live_coroutine_count                                        *)
(***************************************************************************)
EXTENDS Naturals, Sequences

CONSTANTS Ctx,      \* context blocks, main's included
          Main,     \* m_main_context
          NoCtx,    \* nulloffset
          MaxSleep  \* bound on the durations programs ask for, in ticks

ASSUME CtxAssumption == Main \in Ctx /\ NoCtx \notin Ctx
ASSUME SleepAssumption == MaxSleep \in Nat \ {0}

Statuses == {"Unborn", "Sleeping", "Ready", "Running", "Dead"}
Conts == {"proc", "join", "waitall", "readkey", "readkeyT", "actor"}
CtxOrNone == Ctx \cup {NoCtx}

SchedType ==
  [status  : [Ctx -> Statuses],
   susp    : SUBSET Ctx,
   blk     : SUBSET Ctx,
   hi      : SUBSET Ctx,
   left    : [Ctx -> 0..MaxSleep],
   joiner  : [Ctx -> CtxOrNone],
   high    : Seq(Ctx),
   norm    : Seq(Ctx),
   timers  : Seq(Ctx),
   stdin   : CtxOrNone,
   running : CtxOrNone,
   cont    : [Ctx -> Conts],
   on      : [Ctx -> CtxOrNone],
   reg     : SUBSET Ctx,
   free    : Seq(Ctx),
   live    : Nat]

InitSched ==
  [status  |-> [c \in Ctx |-> IF c = Main THEN "Running" ELSE "Unborn"],
   susp    |-> {},
   blk     |-> {},
   hi      |-> {},
   left    |-> [c \in Ctx |-> 0],
   joiner  |-> [c \in Ctx |-> NoCtx],
   high    |-> << >>,
   norm    |-> << >>,
   timers  |-> << >>,
   stdin   |-> NoCtx,
   running |-> Main,
   cont    |-> [c \in Ctx |-> "proc"],
   on      |-> [c \in Ctx |-> NoCtx],
   reg     |-> {Main},
   free    |-> << >>,
   live    |-> 0]

-----------------------------------------------------------------------------
(* Linked lists as sequences. *)

Elems(q) == {q[i] : i \in 1..Len(q)}

NoDup(q) == \A i, j \in 1..Len(q) : q[i] = q[j] => i = j

\* Unlinking a node; a no-op for a node that is not linked.
Without(q, c) ==
  IF c \in Elems(q)
    THEN LET k == CHOOSE i \in 1..Len(q) : q[i] = c
         IN  [j \in 1..(Len(q) - 1) |-> IF j < k THEN q[j] ELSE q[j + 1]]
    ELSE q

\* Linking c in front of position k.
InsertBefore(q, k, c) ==
  [j \in 1..(Len(q) + 1) |->
     IF j < k THEN q[j] ELSE IF j = k THEN c ELSE q[j - 1]]

-----------------------------------------------------------------------------
(* Ready queues and timer list. *)

ready_queue_push(s, c) ==
  IF c \in s.hi THEN [s EXCEPT !.high = Append(@, c)]
                ELSE [s EXCEPT !.norm = Append(@, c)]

ready_queue_remove(s, c) ==
  IF c \in s.hi THEN [s EXCEPT !.high = Without(@, c)]
                ELSE [s EXCEPT !.norm = Without(@, c)]

\* The first node that expires later than c, or the end of the list: equal
\* wake times keep their order of insertion.
TimerSlot(s, c) ==
  CHOOSE k \in 1..(Len(s.timers) + 1) :
    /\ k <= Len(s.timers) => s.left[c] < s.left[s.timers[k]]
    /\ \A i \in 1..(k - 1) : ~(s.left[c] < s.left[s.timers[i]])

timer_list_insert(s, c) ==
  [s EXCEPT !.timers = InsertBefore(@, TimerSlot(s, c), c)]

timer_list_remove(s, c) == [s EXCEPT !.timers = Without(@, c)]

-----------------------------------------------------------------------------
(* Waking, and giving up the processor. *)

\* The tail shared by every wake-up: clear FlagBlocked, become Ready, and
\* enter a ready queue unless suspended.
MakeReady(s, c) ==
  LET t == [s EXCEPT !.status[c] = "Ready", !.blk = @ \ {c}]
  IN  IF c \in s.susp THEN t ELSE ready_queue_push(t, c)

coroutine_wake(s, c) ==
  IF c # NoCtx /\ s.status[c] = "Sleeping"
    THEN LET t == IF c \in s.blk THEN s ELSE timer_list_remove(s, c)
             u == [t EXCEPT !.stdin = IF @ = c THEN NoCtx ELSE @]
         IN  MakeReady(u, c)
    ELSE s

\* coroutine_sleep_and_schedule with wake time UINT64_MAX: only a producer
\* can wake the coroutine.
Block(s, c) ==
  [s EXCEPT !.status[c] = "Sleeping", !.blk = @ \cup {c}, !.running = NoCtx]

\* A sleep whose wake time has come: to the tail of the ready queue.
YieldCpu(s, c) ==
  ready_queue_push([s EXCEPT !.status[c] = "Ready", !.running = NoCtx], c)

\* A timed sleep of d ticks.
SleepFor(s, c, d) ==
  timer_list_insert([s EXCEPT !.status[c] = "Sleeping", !.left[c] = d,
                              !.running = NoCtx], c)

-----------------------------------------------------------------------------
(* Birth, death and release of a context. *)

\* coroutine_alloc_context followed by the field initialisation and the
\* registry insertion of coroutine_launch_common.
Allocatable(s) ==
  IF s.free # << >> THEN {Head(s.free)}
                    ELSE {d \in Ctx : s.status[d] = "Unborn"}

NewContext(s, d) ==
  [s EXCEPT !.free   = IF @ # << >> THEN Tail(@) ELSE @,
            !.status[d] = "Ready",
            !.susp   = @ \ {d},
            !.blk    = @ \ {d},
            !.hi     = @ \ {d},
            !.left[d]   = 0,
            !.joiner[d] = NoCtx,
            !.cont[d]   = "proc",
            !.on[d]     = NoCtx,
            !.reg    = @ \cup {d}]

coroutine_launch(s, d) ==
  LET t == ready_queue_push(NewContext(s, d), d)
  IN  [t EXCEPT !.live = @ + 1]

\* coroutine_kill up to m_status = Dead: leave the scheduling lists, scrub
\* the registrations naming the dying coroutine, drop the live count.
Unschedule(s, c) ==
  IF c \in s.susp THEN s
  ELSE IF s.status[c] = "Ready" THEN ready_queue_remove(s, c)
  ELSE IF s.status[c] = "Sleeping" /\ c \notin s.blk THEN timer_list_remove(s, c)
  ELSE s

\* Mutant: join targets keep the dead coroutine as their joiner.
NoScrub(s, c) == s

coroutine_scrub_registrations(s, c) ==
  [s EXCEPT !.joiner = [t \in Ctx |-> IF t \in s.reg /\ s.joiner[t] = c
                                       THEN NoCtx ELSE s.joiner[t]]]

Bury(s, c) ==
  LET t == coroutine_scrub_registrations(Unschedule(s, c), c)
  IN  [t EXCEPT !.stdin = IF @ = c THEN NoCtx ELSE @,
                !.status[c] = "Dead",
                !.susp = @ \ {c},
                !.blk  = @ \ {c},
                !.live = IF @ > 0 THEN @ - 1 ELSE 0]

\* The last lines of coroutine_kill.
WakeJoiner(s, c) ==
  LET j == s.joiner[c]
      t == IF j # NoCtx /\ s.status[j] = "Sleeping" THEN MakeReady(s, j) ELSE s
  IN  [t EXCEPT !.joiner[c] = NoCtx]

coroutine_kill(s, c) == WakeJoiner(Bury(s, c), c)

\* Every kill wakes the victim's joiner, so of the survivors only main can
\* change status; then all scheduling structures are reset.
Victims(s) == {t \in s.reg \ {Main} : s.status[t] # "Dead"}

MainWoken(s) == s.status[Main] = "Sleeping" /\ \E t \in Victims(s) : s.joiner[t] = Main

coroutine_kill_all(s) ==
  [s EXCEPT !.status = [t \in Ctx |-> IF t \in Victims(s) THEN "Dead"
                                      ELSE IF t = Main /\ MainWoken(s) THEN "Ready"
                                      ELSE s.status[t]],
            !.susp   = @ \ Victims(s),
            !.blk    = @ \ (Victims(s) \cup IF MainWoken(s) THEN {Main} ELSE {}),
            !.joiner = [t \in Ctx |-> IF t \in Victims(s) \/ s.joiner[t] \in Victims(s)
                                      THEN NoCtx ELSE s.joiner[t]],
            !.stdin  = IF @ \in Victims(s) THEN NoCtx ELSE @,
            !.high   = << >>,
            !.norm   = << >>,
            !.timers = << >>,
            !.live   = 0]

\* Unlink from the registry and push on the free list.
coroutine_free_context(s, t) ==
  [s EXCEPT !.reg = @ \ {t}, !.free = <<t>> \o @]

-----------------------------------------------------------------------------
(* The turns of coroutine_schedule's loop. *)

\* timer_sweep_expired takes the expired head off the list.
SweepHead(s) ==
  LET c == Head(s.timers)
      t == [s EXCEPT !.timers = Tail(@),
                     !.stdin  = IF @ = c THEN NoCtx ELSE @]
  IN  IF s.status[c] = "Sleeping"
        THEN ready_queue_push([t EXCEPT !.status[c] = "Ready"], c)
        ELSE t

\* Mutant: the sweep runs only when nothing is ready.
HeadExpiredWhenIdle(s) ==
  /\ s.timers # << >> /\ s.left[Head(s.timers)] = 0
  /\ s.high = << >> /\ s.norm = << >>

HeadExpired(s) == s.timers # << >> /\ s.left[Head(s.timers)] = 0

SomeReady(s) == s.high # << >> \/ s.norm # << >>

coroutine_load(s, c) == [s EXCEPT !.status[c] = "Running", !.running = c]

\* ready_queue_pop and load.
LoadNext(s) ==
  IF s.high # << >>
    THEN coroutine_load([s EXCEPT !.high = Tail(@)], Head(s.high))
    ELSE coroutine_load([s EXCEPT !.norm = Tail(@)], Head(s.norm))

\* Mutant: the clock runs on below zero.
ElapseUnclamped(s) ==
  [s EXCEPT !.left = [c \in Ctx |->
     IF c \in Elems(s.timers) THEN s.left[c] - 1 ELSE s.left[c]]]

\* The monotonic clock moves on by one tick for everything in the timer list.
Elapse(s) ==
  [s EXCEPT !.left = [c \in Ctx |->
     IF c \in Elems(s.timers) /\ s.left[c] > 0 THEN s.left[c] - 1 ELSE s.left[c]]]

=============================================================================
