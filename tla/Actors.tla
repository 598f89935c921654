------------------------------- MODULE Actors -------------------------------
(***************************************************************************)
(* Actors (src/src/ops_actor.inl) on top of the scheduler: every spawned   *)
(* coroutine owns a bounded mailbox.  A sender that finds it full parks in *)
(* the mailbox's chain of blocked senders; a receiver that finds nothing   *)
(* to take registers as its blocked reader.  Both resume at a control      *)
(* operator that tries again, and between the wake-up and that retry any   *)
(* other coroutine may run.                                                *)
(*                                                                         *)
(*   mail.queue[a]   the messages of a's mailbox, oldest first             *)
(*   mail.reader[a]  m_blocked_reader                                      *)
(*   mail.chain[a]   the list from m_blocked_sender through                *)
(*                   m_blocked_sender_next; a repeated last element stands *)
(*                   for a node linked to itself                           *)
(*   op[c]           the pending operator with its companions on the       *)
(*                   execution stack                                       *)
(*   due[c]          time until the deadline of a pending timed receive    *)
(*                                                                         *)
(* The circular buffer and the pool of mailbox blocks are the module       *)
(* Mailbox.                                                                *)
(***************************************************************************)
EXTENDS Scheduler, SequencesExt

CONSTANTS Msg,             \* messages
          Matching,        \* the ones the predicates of recv-match accept
          Capacity,        \* logical capacity of every mailbox
          MainSends,       \* may main block in actor-send?
          Meddle,          \* may coroutines kill or suspend one another?
          Fragile,         \* may the message of a blocked send turn out to be
                           \* restore-fragile when it is retried?
          ReleasePending   \* may an actor be released while a send to it is
                           \* still to be retried?

ASSUME ActorAssumption ==
  /\ Matching \subseteq Msg
  /\ Capacity \in Nat \ {0}
  /\ {MainSends, Meddle, Fragile, ReleasePending} \subseteq BOOLEAN

VARIABLES mail, op, due

actorVars == <<sched, mail, op, due>>

NoOp == [k |-> "none"]
SendOp(a, x) == [k |-> "send", to |-> a, msg |-> x]
RecvOp(timed) == [k |-> "recv", timed |-> timed]
MatchOp(timed, i) == [k |-> "match", timed |-> timed, scan |-> i]

Ops == {NoOp} \cup {SendOp(a, x) : a \in Ctx, x \in Msg}
        \cup {RecvOp(t) : t \in BOOLEAN}
        \cup {MatchOp(t, i) : t \in BOOLEAN, i \in -1..(Capacity - 1)}

MailType == [queue  : [Ctx -> Seq(Msg)],
             reader : [Ctx -> CtxOrNone],
             chain  : [Ctx -> Seq(Ctx)]]

ActorInit ==
  /\ Init
  /\ mail = [queue  |-> [a \in Ctx |-> << >>],
             reader |-> [a \in Ctx |-> NoCtx],
             chain  |-> [a \in Ctx |-> << >>]]
  /\ op  = [c \in Ctx |-> NoOp]
  /\ due = [c \in Ctx |-> 0]

-----------------------------------------------------------------------------
(* Helpers on the pair of scheduler and mailboxes. *)

Here == [s |-> sched, m |-> mail]

Becomes(st) == sched' = st.s /\ mail' = st.m

Full(a) == Len(mail.queue[a]) >= Capacity

\* Mutant: the registration is dropped but the reader is not woken.
DeliverQuietly(st, a, x) ==
  [s |-> st.s,
   m |-> [st.m EXCEPT !.queue[a] = Append(@, x), !.reader[a] = NoCtx]]

actor_send_complete(st, a, x) ==
  [s |-> coroutine_wake(st.s, st.m.reader[a]),
   m |-> [st.m EXCEPT !.queue[a] = Append(@, x), !.reader[a] = NoCtx]]

\* Mutant: a freed slot wakes nobody.
WakeNobody(st, a) == st

mailbox_wake_head_sender(st, a) ==
  IF st.m.chain[a] = << >> THEN st
  ELSE [s |-> coroutine_wake(st.s, Head(st.m.chain[a])),
        m |-> [st.m EXCEPT !.chain[a] = Tail(@)]]

\* The running coroutine's own link is reset first, which cuts off whatever
\* followed it, and the last node is linked to it.
mailbox_append_blocked_sender(m, a, c) ==
  [m EXCEPT !.chain[a] =
     IF c \in Elems(@)
       THEN Append(SubSeq(@, 1, CHOOSE i \in 1..Len(@) : @[i] = c), c)
       ELSE Append(@, c)]

\* Taking the message at position i frees a slot.
TakeAt(st, a, i) ==
  mailbox_wake_head_sender([st EXCEPT !.m.queue[a] = RemoveAt(@, i)], a)

\* Death: leave the other mailboxes' chains, wake the senders parked on the
\* own one, drop the messages.
WakeSender(s, c) == IF s.status[c] = "Sleeping" THEN MakeReady(s, c) ELSE s

WakeSenders(s, q) ==
  LET woken[i \in 0..Len(q)] == IF i = 0 THEN s ELSE WakeSender(woken[i - 1], q[i])
  IN  woken[Len(q)]

coroutine_cleanup_mailbox(st, t) ==
  [s |-> WakeSenders(st.s, st.m.chain[t]),
   m |-> [st.m EXCEPT !.queue[t] = << >>, !.reader[t] = NoCtx, !.chain[t] = << >>]]

\* Mutant: the senders parked on the dead actor's mailbox are forgotten.
KillForgetsSenders(st, t) ==
  [s |-> coroutine_kill(st.s, t),
   m |-> [st.m EXCEPT !.queue[t] = << >>, !.reader[t] = NoCtx,
                      !.chain = [a \in Ctx |-> IF a = t THEN << >>
                                               ELSE Without(st.m.chain[a], t)]]]

KillActor(st, t) ==
  LET u == [s |-> Bury(st.s, t),
            m |-> [st.m EXCEPT !.chain = [a \in Ctx |-> Without(st.m.chain[a], t)]]]
      v == coroutine_cleanup_mailbox(u, t)
  IN  [s |-> WakeJoiner(v.s, t), m |-> v.m]

\* Register as the mailbox's reader and sleep, with a deadline d ticks away if
\* the receive is timed.
ParkReader(st, c, timed, d) ==
  LET s == [st.s EXCEPT !.cont[c] = "actor"]
  IN  [s |-> IF ~timed THEN Block(s, c)
             ELSE IF d = 0 THEN YieldCpu(s, c)
             ELSE SleepFor(s, c, d),
       m |-> [st.m EXCEPT !.reader[c] = c]]

ParkSender(st, a, c) ==
  [s |-> Block([st.s EXCEPT !.cont[c] = "actor"], c),
   m |-> mailbox_append_blocked_sender(st.m, a, c)]

\* The pending operator is over; the coroutine goes on with its procedure.
Resumed(st, c) == [s |-> [st.s EXCEPT !.cont[c] = "proc"], m |-> st.m]

Unregistered(st, c) == [s |-> st.s, m |-> [st.m EXCEPT !.reader[c] = NoCtx]]

-----------------------------------------------------------------------------
(* Operators of the running coroutine c.  A send to a dead actor, a try-send *)
(* to a full one and a rejected message change nothing.                      *)

Idling(c) == op' = [op EXCEPT ![c] = NoOp] /\ due' = [due EXCEPT ![c] = 0]

\* actor-spawn
Spawn(c) ==
  /\ Launch(c)
  /\ UNCHANGED <<mail, op, due>>

\* actor-send and actor-try-send to a live actor with room.
Send(c) ==
  /\ InProc(c)
  /\ \E a \in Handles \ {Main}, x \in Msg :
       /\ sched.status[a] # "Dead"
       /\ ~Full(a)
       /\ Becomes(actor_send_complete(Here, a, x))
  /\ UNCHANGED <<op, due>>

\* actor-send to a live actor whose mailbox is full.
SendBlocks(c) ==
  /\ InProc(c)
  /\ c = Main => MainSends
  /\ \E a \in Handles \ {Main}, x \in Msg :
       /\ sched.status[a] # "Dead"
       /\ Full(a)
       /\ Becomes(ParkSender(Here, a, c))
       /\ op' = [op EXCEPT ![c] = SendOp(a, x)]
  /\ UNCHANGED due

\* @actor-send-retry
SendRetry(c) ==
  /\ At(c, "actor")
  /\ op[c].k = "send"
  /\ LET a == op[c].to
     IN  \/ /\ sched.status[a] = "Dead"
            /\ Becomes(Resumed(Here, c))
            /\ Idling(c)
         \/ /\ sched.status[a] # "Dead"
            /\ ~Full(a)
            /\ Becomes(Resumed(actor_send_complete(Here, a, op[c].msg), c))
            /\ Idling(c)
         \/ /\ sched.status[a] # "Dead"
            /\ Full(a)
            /\ Becomes(ParkSender(Here, a, c))
            /\ UNCHANGED <<op, due>>

\* @actor-send-retry raises invalid-access for a restore-fragile message.
SendRetryRejected(c) ==
  /\ Fragile
  /\ At(c, "actor")
  /\ op[c].k = "send"
  /\ sched.status[op[c].to] # "Dead"
  /\ ~Full(op[c].to)
  /\ Becomes(Resumed(Here, c))
  /\ Idling(c)

\* actor-broadcast to an array of two actors; the full and the dead are skipped.
OfferTo(st, a, x) ==
  IF st.s.status[a] # "Dead" /\ Len(st.m.queue[a]) < Capacity
    THEN actor_send_complete(st, a, x)
    ELSE st

Broadcast(c) ==
  /\ InProc(c)
  /\ \E a, b \in Handles \ {Main}, x \in Msg :
       Becomes(OfferTo(OfferTo(Here, a, x), b, x))
  /\ UNCHANGED <<op, due>>

\* actor-recv and actor-recv-timeout
Receive(c) ==
  /\ InProc(c)
  /\ c # Main
  /\ \/ /\ mail.queue[c] # << >>
        /\ Becomes(TakeAt(Here, c, 1))
        /\ UNCHANGED <<op, due>>
     \/ /\ mail.queue[c] = << >>
        /\ Becomes(ParkReader(Here, c, FALSE, 0))
        /\ op' = [op EXCEPT ![c] = RecvOp(FALSE)]
        /\ UNCHANGED due
     \/ /\ mail.queue[c] = << >>
        /\ \E d \in 0..MaxSleep :
             /\ Becomes(ParkReader(Here, c, TRUE, d))
             /\ op' = [op EXCEPT ![c] = RecvOp(TRUE)]
             /\ due' = [due EXCEPT ![c] = d]

\* The pending timed receive of c has run out of time.
DeadlinePassed(c) == op[c].timed /\ due[c] = 0

\* @actor-recv-check and @actor-recv-timeout-check
RecvCheck(c) ==
  /\ At(c, "actor")
  /\ op[c].k = "recv"
  /\ \/ /\ mail.queue[c] # << >>
        /\ Becomes(Resumed(TakeAt(Unregistered(Here, c), c, 1), c))
        /\ Idling(c)
     \/ /\ mail.queue[c] = << >>
        /\ DeadlinePassed(c)
        /\ Becomes(Resumed(Unregistered(Here, c), c))
        /\ Idling(c)
     \/ /\ mail.queue[c] = << >>
        /\ ~DeadlinePassed(c)
        /\ Becomes(ParkReader(Here, c, op[c].timed, due[c]))
        /\ UNCHANGED <<op, due>>

\* actor-recv-match and actor-recv-match-timeout: park on an empty mailbox,
\* else run the predicate on the first message.
ReceiveMatch(c) ==
  /\ InProc(c)
  /\ c # Main
  /\ \E timed \in BOOLEAN, d \in 0..MaxSleep :
       /\ ~timed => d = 0
       /\ due' = [due EXCEPT ![c] = d]
       /\ \/ /\ mail.queue[c] = << >>
             /\ Becomes(ParkReader(Here, c, timed, d))
             /\ op' = [op EXCEPT ![c] = MatchOp(timed, -1)]
          \/ /\ mail.queue[c] # << >>
             /\ sched' = [sched EXCEPT !.cont[c] = "actor"]
             /\ op' = [op EXCEPT ![c] = MatchOp(timed, 0)]
             /\ UNCHANGED mail

\* What @actor-recv-match-check and its timed form do when nothing in the
\* mailbox matched: give up, or park until the next message.
MatchExhausted(c) ==
  \/ /\ DeadlinePassed(c)
     /\ Becomes(Resumed(Unregistered(Here, c), c))
     /\ Idling(c)
  \/ /\ ~DeadlinePassed(c)
     /\ Becomes(ParkReader(Here, c, op[c].timed, due[c]))
     /\ op' = [op EXCEPT ![c].scan = -1]
     /\ UNCHANGED due

\* Woken from sleep: start a scan.
MatchWoken(c) ==
  /\ At(c, "actor")
  /\ op[c].k = "match"
  /\ op[c].scan = -1
  /\ \/ /\ mail.queue[c] # << >>
        /\ Becomes(Unregistered(Here, c))
        /\ op' = [op EXCEPT ![c].scan = 0]
        /\ UNCHANGED due
     \/ /\ mail.queue[c] = << >>
        /\ MatchExhausted(c)

\* Mutant: only the messages that were there when the scan began are looked
\* at; here a scan is taken to begin with one message.
MatchScannedShort(c) ==
  /\ At(c, "actor")
  /\ op[c].k = "match"
  /\ op[c].scan >= 0
  /\ LET i == op[c].scan + 1
     IN  \/ /\ mail.queue[c][i] \in Matching
            /\ Becomes(Resumed(TakeAt(Here, c, i), c))
            /\ Idling(c)
         \/ /\ mail.queue[c][i] \notin Matching
            /\ MatchExhausted(c)

\* The predicate has returned a verdict on the message at scan.
MatchScanned(c) ==
  /\ At(c, "actor")
  /\ op[c].k = "match"
  /\ op[c].scan >= 0
  /\ LET i == op[c].scan + 1
     IN  \/ /\ mail.queue[c][i] \in Matching
            /\ Becomes(Resumed(TakeAt(Here, c, i), c))
            /\ Idling(c)
         \/ /\ mail.queue[c][i] \notin Matching
            /\ i < Len(mail.queue[c])
            /\ op' = [op EXCEPT ![c].scan = i]
            /\ UNCHANGED <<sched, mail, due>>
         \/ /\ mail.queue[c][i] \notin Matching
            /\ i >= Len(mail.queue[c])
            /\ MatchExhausted(c)

\* The predicate raises an error or returns no boolean.
MatchFails(c) ==
  /\ At(c, "actor")
  /\ op[c].k = "match"
  /\ op[c].scan >= 0
  /\ Becomes(Resumed(Here, c))
  /\ Idling(c)

\* Flushing wakes the blocked senders one after another.
WakeAll(s, q) ==
  LET woken[i \in 0..Len(q)] == IF i = 0 THEN s ELSE coroutine_wake(woken[i - 1], q[i])
  IN  woken[Len(q)]

\* actor-flush
Flush(c) ==
  /\ InProc(c)
  /\ c # Main
  /\ Becomes([s |-> WakeAll(sched, mail.chain[c]),
              m |-> [mail EXCEPT !.queue[c] = << >>, !.chain[c] = << >>]])
  /\ UNCHANGED <<op, due>>

\* coroutine-die, completion or an uncaught error, also inside a predicate.
ActorDies(c) ==
  /\ InProc(c) \/ (At(c, "actor") /\ op[c].k = "match" /\ op[c].scan >= 0)
  /\ c # Main
  /\ Becomes([KillActor(Here, c) EXCEPT !.s.running = NoCtx])
  /\ Idling(c)

\* coroutine-kill
ActorKilled(c) ==
  /\ Meddle
  /\ InProc(c)
  /\ \E t \in Handles \ {c, Main} :
       /\ sched.status[t] # "Dead"
       /\ Becomes(KillActor(Here, t))
       /\ Idling(t)

\* coroutine-release of a dead actor.
Release(c) ==
  /\ InProc(c)
  /\ \E t \in Handles \ {c} :
       /\ sched.status[t] = "Dead"
       /\ ReleasePending \/ \A d \in Ctx : op[d].k = "send" => op[d].to # t
       /\ sched' = coroutine_free_context(sched, t)
  /\ UNCHANGED <<mail, op, due>>

\* The scheduling operators of Scheduler.
Other(c) ==
  /\ Yield(c) \/ Sleep(c) \/ (Meddle /\ (Suspend(c) \/ Resume(c)))
  /\ UNCHANGED <<mail, op, due>>

ActorStep(c) ==
  \/ Spawn(c)      \/ Send(c)         \/ SendBlocks(c)   \/ SendRetry(c)
  \/ SendRetryRejected(c) \/ Broadcast(c) \/ Receive(c)  \/ RecvCheck(c)
  \/ ReceiveMatch(c) \/ MatchWoken(c) \/ MatchScanned(c) \/ MatchFails(c)
  \/ Flush(c)      \/ ActorDies(c)    \/ ActorKilled(c)  \/ Release(c)
  \/ Other(c)

\* The scheduler's turns; deadlines come nearer whenever the clock moves.
Sooner == due' = [c \in Ctx |-> IF due[c] > 0 THEN due[c] - 1 ELSE 0]

ActorSchedule ==
  \/ (SweepTimer \/ LoadReady \/ LoadMain) /\ UNCHANGED <<mail, op, due>>
  \/ ParkTimer /\ Sooner /\ UNCHANGED <<mail, op>>

ActorTick ==
  /\ sched.running # NoCtx
  /\ (\E c \in Elems(sched.timers) : sched.left[c] > 0) \/ (\E c \in Ctx : due[c] > 0)
  /\ sched' = Elapse(sched)
  /\ Sooner
  /\ UNCHANGED <<mail, op>>

ActorNext == ActorSchedule \/ ActorTick \/ \E c \in Ctx : ActorStep(c)

ActorSpec == ActorInit /\ [][ActorNext]_actorVars

\* Contexts other than main are interchangeable: the symmetry of the runs.
Spawned == Permutations(Ctx \ {Main})

-----------------------------------------------------------------------------
(* Properties *)

\* Mailboxes, pending operators and deadlines are well typed, and a mailbox
\* never holds more than its capacity.
ActorTypeOK ==
  /\ sched \in SchedType
  /\ mail \in MailType
  /\ op \in [Ctx -> Ops]
  /\ due \in [Ctx -> 0..MaxSleep]
  /\ \A a \in Ctx : Len(mail.queue[a]) <= Capacity

\* scheduler_validate, part 4: blocked-sender chains are closed.
ChainsClosed == \A a \in Ctx : NoDup(mail.chain[a])

\* scheduler_validate, part 4, for senders: a chain has no cycle, and each of
\* its members sleeps in a send to exactly that, still living, actor.
SendersParked ==
  /\ ChainsClosed
  /\ \A a \in Ctx :
       \A c \in Elems(mail.chain[a]) :
         /\ sched.status[c] = "Sleeping"
         /\ c \in sched.blk
         /\ op[c].k = "send"
         /\ op[c].to = a
         /\ sched.status[a] # "Dead"

\* Only the owner is ever registered as a mailbox's reader, while a receive is
\* pending whose check will take the registration back.  (scheduler_validate,
\* part 4, demands that the reader is asleep; a timed receive that ran out of
\* time is Ready and registered until its check.)
ReaderPending ==
  \A a \in Ctx :
    mail.reader[a] # NoCtx =>
      /\ mail.reader[a] = a
      /\ sched.status[a] \in {"Sleeping", "Ready", "Running"}
      /\ op[a].k \in {"recv", "match"}
      /\ op[a].k = "match" => op[a].scan = -1

\* No receiver sleeps on a message it would take: a send that arrives between
\* a receiver's look at the mailbox and its sleep, or during a scan, is not
\* missed.
NoMissedMessage ==
  \A c \in Ctx :
    sched.status[c] = "Sleeping" /\ op[c].k \in {"recv", "match"} =>
      /\ mail.reader[c] = c
      /\ op[c].k = "recv" => mail.queue[c] = << >>
      /\ op[c].k = "match" => Elems(mail.queue[c]) \cap Matching = {}

\* The orphan rule: whoever sleeps without a timer is registered somewhere
\* that can still wake it.
NoActorOrphan ==
  \A c \in Ctx :
    sched.status[c] = "Sleeping" /\ c \in sched.blk =>
      \/ mail.reader[c] = c
      \/ \E a \in sched.reg : sched.status[a] # "Dead" /\ c \in Elems(mail.chain[a])

\* No free slot is wasted on a sleeper: senders stay parked only while the
\* mailbox is full, counting the slots whose senders are on their way.
OnTheWay(a) == {c \in Ctx : /\ op[c].k = "send"
                             /\ op[c].to = a
                             /\ sched.status[c] \in {"Ready", "Running"}}

SlotWakeups ==
  \A a \in Ctx :
    mail.chain[a] # << >> =>
      Len(mail.queue[a]) + Cardinality(OnTheWay(a)) >= Capacity

\* A send that waits to be retried is retried on the actor it was meant for:
\* the context has not been given back in the meantime.
AddresseeKept ==
  \A c \in Ctx : op[c].k = "send" => op[c].to \in sched.reg

\* A timed receive wakes up no earlier than its deadline unless a message
\* comes, whatever suspends, resumes or spurious wake-ups happen.
NotBeforeDeadline ==
  \A c \in Ctx :
    sched.status[c] = "Sleeping" /\ op[c].k \in {"recv", "match"} /\ c \notin sched.blk =>
      due[c] <= sched.left[c]

\* The scheduler runs on, no coroutine keeps the processor for ever, and a
\* coroutine that resumes at a check executes it.
ActorFairness ==
  /\ WF_actorVars(ActorSchedule)
  /\ SF_actorVars(ActorTick \/ (ParkTimer /\ Sooner /\ UNCHANGED <<mail, op>>))
  /\ \A c \in Ctx :
       /\ WF_actorVars(Yield(c) /\ UNCHANGED <<mail, op, due>>)
       /\ SF_actorVars(RecvCheck(c))

\* A message that reaches a waiting receiver is received, and a timed receive
\* ends even if none does.
ReceiveReturns ==
  \A c \in Ctx :
    /\ op[c].k = "recv" /\ mail.queue[c] # << >> ~> op[c].k # "recv"
    /\ op[c].k = "recv" /\ op[c].timed ~> op[c].k # "recv"

\* Mailboxes, chains of blocked senders, reader registrations and the
\* scheduler's lists agree with each other, and nobody sleeps without someone
\* left to wake it, whoever is killed, suspended or released in between.
ActorsSound ==
  /\ ActorTypeOK
  /\ ReadyQueues
  /\ TimerList
  /\ SendersParked
  /\ ReaderPending
  /\ NoActorOrphan
  /\ AddresseeKept
  /\ NotBeforeDeadline

=============================================================================
