--------------------------- MODULE SaveScheduler ---------------------------
(***************************************************************************)
(* restore and the scheduler (restore_scheduler_lists, src/src/save.inl):  *)
(* a restore empties the ready queues and the timer list and fills them    *)
(* again from the registry.  What else restore does is in SaveRestore;     *)
(* here it is an operator that any coroutine may execute at any time.      *)
(*                                                                         *)
(*   order   the registry as a list: the ring through m_next, from         *)
(*           m_coroutine_head, which is main                               *)
(***************************************************************************)
EXTENDS Scheduler, SequencesExt

VARIABLE order

saveSchedVars == <<sched, order>>

\* Linking a launched context behind the coroutine that launched it, and
\* unlinking a freed one (coroutine_unlink).
Relinked(q, reg, by) ==
  LET kept == SelectSeq(q, LAMBDA c : c \in reg)
      new == reg \ Range(q)
  IN  IF new = {} THEN kept
      ELSE InsertBefore(kept, SelectInSeq(kept, LAMBDA c : c = by) + 1,
                        CHOOSE d \in new : TRUE)

\* restore_scheduler_lists: both passes.
restore_scheduler_lists(s) ==
  LET listed == IF s.live = 0 THEN << >>
                ELSE SelectSeq(order, LAMBDA c : c # s.running /\ c \notin s.susp \cup s.blk)
      ready == SelectSeq(listed, LAMBDA c : s.status[c] = "Ready")
      asleep == SelectSeq(listed, LAMBDA c : s.status[c] = "Sleeping")
  IN  FoldLeft(timer_list_insert,
               [s EXCEPT !.high = SelectSeq(ready, LAMBDA c : c \in s.hi),
                         !.norm = SelectSeq(ready, LAMBDA c : c \notin s.hi),
                         !.timers = << >>],
               asleep)

Restore(c) ==
  /\ InProc(c)
  /\ sched' = restore_scheduler_lists(sched)
  /\ UNCHANGED order

\* A step of the coroutines or the scheduler.
Otherwise(step) == step /\ order' = Relinked(order, sched'.reg, sched.running)

SaveSchedInit == Init /\ order = <<Main>>

SaveSchedNext == Otherwise(Next) \/ \E c \in Ctx : Restore(c)

SaveSchedSpec == SaveSchedInit /\ [][SaveSchedNext]_saveSchedVars

-----------------------------------------------------------------------------
(* Properties *)

\* "Two priority tiers (FIFO within each tier)": with restore in the programs,
\* too, nobody stays in a ready queue for ever while its tier is served.
TiersAreFair == ReadyRuns

=============================================================================
