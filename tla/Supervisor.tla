----------------------------- MODULE Supervisor -----------------------------
(***************************************************************************)
(* A supervisor and its children (src/src/ops_supervision.inl).            *)
(*                                                                         *)
(* The supervisor is an actor whose whole program is a receive loop: it    *)
(* drains its mailbox without ever yielding, handles /down and control     *)
(* messages, and sleeps.  Between two drains children die, programs send   *)
(* control messages and time passes.                                       *)
(*                                                                         *)
(*   sup       "asleep" as m_blocked_reader, "ready", "draining", or how   *)
(*             it ended: "stopped", "gaveup" (intensity), "killed"         *)
(*   todo      what is left of the message being handled: children to kill *)
(*             and to spawn, in order, and the supervisor's own end        *)
(*   s.tab     the ChildEntry table: id, policy, active, and the           *)
(*             incarnation, which stands for both actor and monitor_ref    *)
(*             (0 is nulloffset)                                           *)
(*   s.alive   incarnations that run; s.link, the linked pair if any       *)
(*   s.mail    the supervisor's mailbox                                    *)
(*   s.lost    history: incarnations whose /down met a full mailbox        *)
(*   stamps    timestamps[0..restart_count), milliseconds mod Wrap         *)
(*   granted   history: the same restarts in true time                     *)
(*   stuck     programs asleep in the actor-send of a control operator     *)
(*   sent      control messages sent so far                               *)
(*   over      history: entries whose child ended by itself and is not     *)
(*             wanted back by its policy                                   *)
(*                                                                         *)
(* The monitors and links that carry the deaths are those of Monitors; at  *)
(* most one link between children exists at a time, so that the order in   *)
(* which the two /down messages arrive is the code's: partner first.       *)
(***************************************************************************)
EXTENDS Naturals, Sequences, FiniteSets, SequencesExt

CONSTANTS Specs,       \* the child lists supervisors may be created with
          Controls,    \* the control messages programs may send
          MaxControls, \* bound on how many they do send
          Strategies,
          Spare,       \* entries reserved for supervisor-start-child (8 in the code)
          Headroom,    \* mailbox slots for control messages (4 in the code)
          MaxIntensity, Period,
          ClockWrap,   \* 2^32: timestamps are uint32_t
          Boot,        \* the clock when the supervisor is created
          Horizon,     \* bound on the time the model looks at
          Askers       \* coroutines that use the control operators

ASSUME SupervisorAssumption ==
  /\ Strategies \subseteq {"OneForOne", "OneForAll", "RestForOne"}
  /\ {Spare, Headroom, MaxIntensity, Boot, Horizon, MaxControls} \subseteq Nat
  /\ Period \in Nat \ {0} /\ ClockWrap \in Nat \ {0}

VARIABLES sup, todo, strategy, size, s, stamps, now, granted, stuck, sent, over

supVars == <<sup, todo, strategy, size, s, stamps, now, granted, stuck, sent, over>>

Policies == {"permanent", "temporary", "transient"}

DownMsg(inc, why) == [k |-> "down", inc |-> inc, why |-> why]
StartMsg(i, p) == [k |-> "start-child", id |-> i, pol |-> p]
IdMsg(k, i)    == [k |-> k, id |-> i]
StopMsg        == [k |-> "sup-stop"]

Over == sup \in {"stopped", "gaveup", "killed"}

max_children == size + Spare
mbox_cap     == max_children + Headroom

Incs(v) == {v.tab[i].inc : i \in DOMAIN v.tab} \ {0}

\* References are only compared, so the smallest one that is nowhere in use
\* stands for m_next_monitor_ref++.
Fresh(v) ==
  LET used == v.alive \cup Incs(v) \cup v.lost
                \cup {m.inc : m \in {x \in Range(v.mail) : x.k = "down"}}
  IN  CHOOSE n \in 1..(Cardinality(used) + 1) : n \notin used /\ \A j \in 1..(n - 1) : j \in used

-----------------------------------------------------------------------------
(* The table operations. *)

\* supervisor_spawn_child
supervisor_spawn_child(v, i) ==
  LET inc == Fresh(v)
  IN  [v EXCEPT !.tab[i].inc = inc, !.tab[i].active = TRUE, !.alive = @ \cup {inc}]

\* supervision_deliver_message to the supervisor; a full mailbox drops it.
PostDown(v, inc, why) ==
  IF Len(v.mail) < mbox_cap THEN [v EXCEPT !.mail = Append(@, DownMsg(inc, why))]
  ELSE [v EXCEPT !.lost = @ \cup {inc}]

Partner(v, inc) == IF inc \in v.link THEN v.link \ {inc} ELSE {}

\* The death of a child, its linked partner first; watched says whether the
\* supervisor's monitor of the child is still there.
Dies(v, inc, why, watched) ==
  LET cut == [v EXCEPT !.alive = @ \ {inc}, !.link = IF inc \in @ THEN {} ELSE @]
      took == IF why = "normal" THEN {} ELSE Partner(v, inc)
      w == IF took = {} THEN cut
           ELSE LET p == CHOOSE x \in took : TRUE
                    c == [cut EXCEPT !.alive = @ \ {p}]
                IN  IF Over THEN c ELSE PostDown(c, p, why)
  IN  IF watched THEN PostDown(w, inc, why) ELSE w

Clear(v, i) == [v EXCEPT !.tab[i].active = FALSE, !.tab[i].inc = 0]

\* supervisor_kill_child: a child found dead is only taken off the table, its
\* /down stays in the mailbox.
supervisor_kill_child(v, i) ==
  LET e == v.tab[i]
  IN  IF e.inc = 0 \/ ~e.active THEN v
      ELSE IF e.inc \notin v.alive THEN Clear(v, i)
      ELSE Clear(Dies(v, e.inc, "shutdown", FALSE), i)

\* The work a handler has left to do.
Ascending(S) == SetToSortSeq(S, <)
Kills(S)     == [j \in 1..Cardinality(S) |-> [do |-> "kill", i |-> Reverse(Ascending(S))[j]]]
Spawns(S)    == [j \in 1..Cardinality(S) |-> [do |-> "spawn", i |-> Ascending(S)[j]]]

\* supervisor_kill_all_children, in reverse order, and then the supervisor.
Shutdown(v, how) == Kills(DOMAIN v.tab) \o <<[do |-> how]>>

\* Mutant: a cutoff clamped at zero instead of modular ages.
InWindowClamped(t) ==
  LET clock == (Boot + now) % ClockWrap
  IN  t > (IF clock >= Period THEN clock - Period ELSE 0)

\* Is a recorded timestamp younger than the period?
InWindow(t) == (((Boot + now) % ClockWrap) + ClockWrap - t) % ClockWrap < Period

\* supervisor_check_intensity: the timestamps kept, and whether one more fits.
KeptStamps == SelectSeq(stamps, InWindow)

MayRestart == MaxIntensity # 0 /\ Len(KeptStamps) < MaxIntensity

\* The children a failure of child k takes down, and who is started again:
\* the failed one and those the wave found active.
Wave(v, k) ==
  {i \in DOMAIN v.tab :
     /\ v.tab[i].active
     /\ \/ strategy = "OneForAll" /\ i # k
        \/ strategy = "RestForOne" /\ i > k}

Restarted(v, k) == Kills(Wave(v, k)) \o Spawns(Wave(v, k) \cup {k})

\* Which policies want the child back?
ShouldRestart(pol, why) ==
  pol = "permanent" \/ (pol = "transient" /\ why # "normal")

EntryOf(v, inc) == SelectInSeq(v.tab, LAMBDA e : e.inc = inc)

Active(v, i) == SelectInSeq(v.tab, LAMBDA e : e.active /\ e.id = i)
Stopped(v, i) == SelectInSeq(v.tab, LAMBDA e : ~e.active /\ e.id = i)

-----------------------------------------------------------------------------
(* Creation, and the receive loop. *)

\* supervisor: entries, then every child spawned before it returns.
Launched(spec) ==
  LET v == [tab |-> [i \in DOMAIN spec |-> [id |-> spec[i].id, pol |-> spec[i].pol,
                                            inc |-> i, active |-> TRUE]],
            alive |-> DOMAIN spec, link |-> {}, mail |-> << >>, lost |-> {}]
  IN  v

SupInit ==
  /\ sup = "ready" /\ todo = << >>
  /\ strategy \in Strategies
  /\ \E spec \in Specs : s = Launched(spec) /\ size = Len(spec)
  /\ stamps = << >> /\ now = 0 /\ granted = << >>
  /\ stuck = {} /\ sent = 0 /\ over = {}

Draining(k) == sup = "draining" /\ todo = << >> /\ s.mail # << >> /\ Head(s.mail).k = k

Popped == [s EXCEPT !.mail = Tail(@)]

\* @supervisor-init and @supervisor-check: the scheduler resumes it.
WakeUp ==
  /\ sup = "ready"
  /\ sup' = "draining"
  /\ UNCHANGED <<todo, strategy, size, s, stamps, now, granted, stuck, sent, over>>

\* The mailbox is empty: block as its reader.
BlockOnRecv ==
  /\ sup = "draining" /\ todo = << >> /\ s.mail = << >>
  /\ sup' = "asleep"
  /\ UNCHANGED <<todo, strategy, size, s, stamps, now, granted, stuck, sent, over>>

\* supervisor_handle_down: a /down of an incarnation no entry holds any more.
DownStale ==
  /\ Draining("down")
  /\ EntryOf(s, Head(s.mail).inc) = 0
  /\ s' = Popped
  /\ UNCHANGED <<sup, todo, strategy, size, stamps, now, granted, stuck, sent, over>>

\* The policy lets the child go.
DownLeaves ==
  /\ Draining("down")
  /\ LET k == EntryOf(s, Head(s.mail).inc)
     IN  /\ k # 0
         /\ ~ShouldRestart(s.tab[k].pol, Head(s.mail).why)
         /\ s' = Clear(Popped, k)
  /\ UNCHANGED <<sup, todo, strategy, size, stamps, now, granted, stuck, sent, over>>

\* It is started again, with the siblings the strategy names.
DownRestarts ==
  /\ Draining("down")
  /\ LET k == EntryOf(s, Head(s.mail).inc)
     IN  /\ k # 0
         /\ ShouldRestart(s.tab[k].pol, Head(s.mail).why)
         /\ MayRestart
         /\ s' = Clear(Popped, k)
         /\ todo' = Restarted(s', k)
  /\ stamps' = Append(KeptStamps, (Boot + now) % ClockWrap)
  /\ granted' = Append(granted, now)
  /\ UNCHANGED <<sup, strategy, size, now, stuck, sent, over>>

\* Too many restarts: the supervisor takes everybody down.
DownGivesUp ==
  /\ Draining("down")
  /\ LET k == EntryOf(s, Head(s.mail).inc)
     IN  /\ k # 0
         /\ ShouldRestart(s.tab[k].pol, Head(s.mail).why)
         /\ ~MayRestart
         /\ s' = Clear(Popped, k)
         /\ todo' = Shutdown(s', "gaveup")
  /\ stamps' = KeptStamps
  /\ UNCHANGED <<sup, strategy, size, now, granted, stuck, sent, over>>

\* supervisor_handle_start_child: an active namesake or a full table discards.
HandleStartChild ==
  /\ Draining("start-child")
  /\ LET m == Head(s.mail)
         n == Len(s.tab)
         grown == [Popped EXCEPT !.tab = Append(@, [id |-> m.id, pol |-> m.pol,
                                                    inc |-> 0, active |-> FALSE])]
     IN  s' = IF Active(s, m.id) # 0 \/ n >= max_children THEN Popped
              ELSE supervisor_spawn_child(grown, n + 1)
  /\ UNCHANGED <<sup, todo, strategy, size, stamps, now, granted, stuck, sent, over>>

\* supervisor_handle_terminate_child
HandleTerminateChild ==
  /\ Draining("terminate-child")
  /\ LET k == Active(s, Head(s.mail).id)
     IN  s' = IF k = 0 THEN Popped ELSE supervisor_kill_child(Popped, k)
  /\ UNCHANGED <<sup, todo, strategy, size, stamps, now, granted, stuck, sent, over>>

\* supervisor_handle_restart_child
HandleRestartChild ==
  /\ Draining("restart-child")
  /\ LET k == Stopped(s, Head(s.mail).id)
     IN  /\ s' = IF k = 0 THEN Popped ELSE supervisor_spawn_child(Popped, k)
         /\ over' = over \ {k}
  /\ UNCHANGED <<sup, todo, strategy, size, stamps, now, granted, stuck, sent>>

\* supervisor_handle_stop
HandleStop ==
  /\ Draining("sup-stop")
  /\ s' = Popped
  /\ todo' = Shutdown(s, "stopped")
  /\ UNCHANGED <<sup, strategy, size, stamps, now, granted, stuck, sent, over>>

Doing(k) == todo # << >> /\ Head(todo).do = k

KillOne ==
  /\ Doing("kill")
  /\ s' = supervisor_kill_child(s, Head(todo).i)
  /\ todo' = Tail(todo)
  /\ UNCHANGED <<sup, strategy, size, stamps, now, granted, stuck, sent, over>>

SpawnOne ==
  /\ Doing("spawn")
  /\ s' = supervisor_spawn_child(s, Head(todo).i)
  /\ todo' = Tail(todo)
  /\ UNCHANGED <<sup, strategy, size, stamps, now, granted, stuck, sent, over>>

\* coroutine_kill of the supervisor itself drops its mailbox and wakes everybody
\* blocked on it.
EndSelf ==
  /\ Doing("stopped") \/ Doing("gaveup")
  /\ sup' = Head(todo).do
  /\ todo' = << >>
  /\ s' = [s EXCEPT !.mail = << >>]
  /\ stuck' = {}
  /\ UNCHANGED <<strategy, size, stamps, now, granted, sent, over>>

Drain ==
  \/ WakeUp \/ BlockOnRecv \/ DownStale \/ DownLeaves \/ DownRestarts \/ DownGivesUp
  \/ HandleStartChild \/ HandleTerminateChild \/ HandleRestartChild \/ HandleStop
  \/ KillOne \/ SpawnOne \/ EndSelf

-----------------------------------------------------------------------------
(* Everybody else, while the supervisor is not draining. *)

Others == sup # "draining"

\* Delivery wakes a sleeping supervisor.
WakeIf(v) == sup' = IF sup = "asleep" /\ v.mail # << >> THEN "ready" ELSE sup

\* A child ends by itself.
ChildEnds(inc, why) ==
  /\ Others /\ inc \in s.alive
  /\ LET v == Dies(s, inc, why, ~Over)
     IN  /\ s' = v /\ WakeIf(v)
         /\ over' = over \cup {k \in DOMAIN s.tab : /\ s.tab[k].inc \in s.alive \ v.alive
                                                    /\ ~ShouldRestart(s.tab[k].pol, why)}
  /\ UNCHANGED <<todo, strategy, size, stamps, now, granted, stuck, sent>>

\* Two children link.
ChildrenLink(x, y) ==
  /\ Others /\ {x, y} \subseteq s.alive /\ x # y /\ s.link = {}
  /\ s' = [s EXCEPT !.link = {x, y}]
  /\ UNCHANGED <<sup, todo, strategy, size, stamps, now, granted, stuck, sent, over>>

\* supervisor-start-child and the other control operators: actor-send.
Control(p, msg) ==
  /\ Others /\ ~Over /\ p \notin stuck
  /\ Len(s.mail) < mbox_cap
  /\ sent < MaxControls /\ sent' = sent + 1
  /\ LET v == [s EXCEPT !.mail = Append(@, msg)]
     IN  s' = v /\ WakeIf(v)
  /\ UNCHANGED <<todo, strategy, size, stamps, now, granted, stuck, over>>

\* The mailbox is full: the sender sleeps until somebody wakes it.
ControlBlocks(p) ==
  /\ Others /\ ~Over /\ p \notin stuck
  /\ Len(s.mail) >= mbox_cap
  /\ stuck' = stuck \cup {p}
  /\ UNCHANGED <<sup, todo, strategy, size, s, stamps, now, granted, sent, over>>

\* coroutine-kill of the supervisor: its children live on.
KillSupervisor ==
  /\ Others /\ ~Over
  /\ sup' = "killed"
  /\ s' = [s EXCEPT !.mail = << >>]
  /\ stuck' = {}
  /\ UNCHANGED <<todo, strategy, size, stamps, now, granted, sent, over>>

ClockTick ==
  /\ Others /\ ~Over /\ now < Horizon
  /\ now' = now + 1
  /\ UNCHANGED <<sup, todo, strategy, size, s, stamps, granted, stuck, sent, over>>

SupNext ==
  \/ Drain
  \/ \E inc \in s.alive, why \in {"normal", "abnormal"} : ChildEnds(inc, why)
  \/ \E x, y \in s.alive : ChildrenLink(x, y)
  \/ \E p \in Askers : ControlBlocks(p) \/ \E msg \in Controls : Control(p, msg)
  \/ KillSupervisor \/ ClockTick

\* The scheduler runs a ready supervisor, and its drain is one operator.
SupSpec == SupInit /\ [][SupNext]_supVars /\ WF_supVars(Drain)

-----------------------------------------------------------------------------
(* Properties *)

\* The tables are well typed and within the sizes supervisor allocated.
SupTypeOK ==
  /\ sup \in {"asleep", "ready", "draining", "stopped", "gaveup", "killed"}
  /\ Len(s.tab) <= max_children /\ Len(s.mail) <= mbox_cap
  /\ Len(stamps) <= MaxIntensity
  /\ stuck \subseteq Askers /\ over \subseteq DOMAIN s.tab
  /\ Cardinality(s.link) \in {0, 2} /\ s.link \subseteq s.alive

\* As long as the supervisor lives, its table and the children agree: an active
\* entry has a running child, or one whose /down is still in the mailbox or
\* found it full; and every running child is in exactly one active entry, so
\* none runs unsupervised.
TableTrue ==
  ~Over /\ todo = << >> =>
    /\ \A i \in DOMAIN s.tab : s.tab[i].active =>
         s.tab[i].inc \in s.alive \cup s.lost \cup {m.inc : m \in {x \in Range(s.mail) : x.k = "down"}}
    /\ \A c \in s.alive : Cardinality({i \in DOMAIN s.tab : s.tab[i].active /\ s.tab[i].inc = c}) = 1

\* A supervisor that stops or gives up leaves no child behind, also when
\* killing one child takes linked siblings along.
NobodyLeft == sup \in {"stopped", "gaveup"} => s.alive = {}

\* Never more than max_intensity restarts within a period, and the supervisor
\* gives up only when that many did happen, also across the point where the
\* 32-bit clock wraps.
RestartRate ==
  /\ \A j \in DOMAIN granted : j + MaxIntensity \in DOMAIN granted =>
       granted[j + MaxIntensity] - granted[j] >= Period
  /\ sup = "gaveup" =>
       /\ Len(granted) >= MaxIntensity
       /\ \A j \in DOMAIN granted : j > Len(granted) - MaxIntensity => now - granted[j] < Period

\* Child k is permanent and dead, and not for want of mailbox space.
Missing(k) ==
  /\ ~Over /\ k \in DOMAIN s.tab
  /\ s.tab[k].pol = "permanent" /\ s.tab[k].active
  /\ s.tab[k].inc \notin s.alive \cup s.lost

\* A permanent child that dies is replaced, or terminated by request, or its
\* supervisor ends: no /down is forgotten, whatever else is in the mailbox.
ComesBack == \A k \in 1..2 : []<>~Missing(k)

\* "An already-stopped /temporary child must not be resurrected by a sibling
\* failure": a temporary child that ended by itself does not run again until
\* supervisor-restart-child asks for it.
NotResurrected == \A k \in over : s.tab[k].pol = "temporary" => s.tab[k].inc \notin s.alive

\* The control operators "post a control message to the supervisor's mailbox
\* and return immediately": whoever uses one goes on.
ControlReturns == \A p \in Askers : p \in stuck ~> p \notin stuck

\* A supervisor knows its children, leaves none behind and restarts them no
\* more often than it may.
SupervisorSound == SupTypeOK /\ TableTrue /\ NobodyLeft /\ RestartRate

=============================================================================
