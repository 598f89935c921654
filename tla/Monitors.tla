------------------------------ MODULE Monitors ------------------------------
(***************************************************************************)
(* Monitors and links between actors (src/src/ops_supervision.inl).        *)
(*                                                                         *)
(* A MonitorEntry is linked into two lists at once: the target's           *)
(* m_monitors, through m_next_target, and the source's m_monitoring,       *)
(* through m_next_source.  Death walks both lists and, for links, kills    *)
(* the partner from inside the walk, whose death walks its own lists in    *)
(* turn.  The lists are therefore kept as pointers, and the C++ call stack *)
(* as a sequence of pending tasks, the agenda: while it is not empty no    *)
(* actor runs.                                                             *)
(*                                                                         *)
(*   life[a]   unborn, live or dead                                        *)
(*   why[a]    m_exit_reason: is it /normal?                               *)
(*   trap      actors with m_trap_exit                                     *)
(*   box[a]    supervision messages in a's mailbox                         *)
(*   w         the entries and their lists: mons = m_monitors, mong =      *)
(*             m_monitoring, nt = m_next_target, ns = m_next_source, src,  *)
(*             tgt, ref and kind of every entry                            *)
(*   gone      history: who ought to be dead by now                        *)
(*                                                                         *)
(* Which actor runs is left open: any live one may execute the next        *)
(* operator.  Contexts without mailbox are represented by main.  Free      *)
(* blocks (the pool's and the heap's) are interchangeable: any one of them *)
(* may be the next.  Of a message the model keeps the kind and, of /down,  *)
(* the reference.                                                          *)
(***************************************************************************)
EXTENDS Naturals, Sequences, FiniteSets

CONSTANTS Actor,     \* contexts
          Main,      \* m_main_context
          Nil,       \* nulloffset
          Entry,     \* the MonitorEntry blocks the heap has room for
          MaxRef,    \* bound on the references in use at the same time
          MainLinked,\* may an actor monitor main or link to it?
          Room       \* mailbox capacity of every actor

ASSUME MonitorAssumption ==
  /\ Main \in Actor
  /\ Nil \notin Actor \cup Entry
  /\ IsFiniteSet(Entry) /\ MaxRef \in Nat /\ MainLinked \in BOOLEAN
  /\ Room \in [Actor -> Nat]

VARIABLES life, why, trap, box, w, agenda, gone

monVars == <<life, why, trap, box, w, agenda, gone>>

EntryOrNil == Entry \cup {Nil}
ActorOrNil == Actor \cup {Nil}
Reasons == {"normal", "abnormal"}

Live == {a \in Actor : life[a] = "live"}
Dead == {a \in Actor : life[a] = "dead"}

\* Messages the supervision code itself builds.
Down(r) == [k |-> "down", ref |-> r]
ExitMsg == [k |-> "exit"]

\* Tasks: what is left to do in the calls that are in progress.
KillT(a, y)       == [t |-> "kill", a |-> a, why |-> y]
WalkT(a, e)       == [t |-> "walk", a |-> a, e |-> e]
DoneT(a, e, next) == [t |-> "done", a |-> a, e |-> e, next |-> next]
WatchT(a, e)      == [t |-> "watch", a |-> a, e |-> e]
ReturnT(c)        == [t |-> "return", a |-> c]

MonInit ==
  /\ life = [a \in Actor |-> IF a = Main THEN "live" ELSE "unborn"]
  /\ why  = [a \in Actor |-> "normal"]
  /\ trap = {}
  /\ box  = [a \in Actor |-> << >>]
  /\ w    = [mons |-> [a \in Actor |-> Nil], mong |-> [a \in Actor |-> Nil],
             nt   |-> [e \in Entry |-> Nil], ns   |-> [e \in Entry |-> Nil],
             src  |-> [e \in Entry |-> Nil], tgt  |-> [e \in Entry |-> Nil],
             ref  |-> [e \in Entry |-> 0],   kind |-> [e \in Entry |-> "free"]]
  /\ agenda = << >>
  /\ gone = {}

-----------------------------------------------------------------------------
(* Lists through pointers. *)

\* The k-th node of the list that starts at h, Nil beyond its end.
Nth(h, nx) ==
  LET at[k \in 0..Cardinality(Entry)] ==
        IF k = 0 THEN h ELSE IF at[k - 1] = Nil THEN Nil ELSE nx[at[k - 1]]
  IN  at

Nodes(h, nx) == {Nth(h, nx)[k] : k \in 0..Cardinality(Entry)} \ {Nil}

Ends(h, nx) == Nth(h, nx)[Cardinality(Entry)] = Nil

\* The first node in S, Nil if there is none.
FirstOf(h, nx, S) ==
  IF Nodes(h, nx) \cap S = {} THEN Nil
  ELSE LET at == Nth(h, nx)
       IN  at[CHOOSE k \in DOMAIN at : at[k] \in S /\ \A j \in 0..(k - 1) : at[j] \notin S]

Links(v) == {e \in Entry : v.kind[e] = "link"}

\* supervision_remove_from_list on a target's and on a source's list; a no-op
\* for an entry that is not there.
FromTarget(v, t, e) ==
  IF v.mons[t] = e THEN [v EXCEPT !.mons[t] = v.nt[e]]
  ELSE [v EXCEPT !.nt = [p \in Entry |->
          IF p \in Nodes(v.mons[t], v.nt) /\ v.nt[p] = e THEN v.nt[e] ELSE v.nt[p]]]

FromSource(v, s, e) ==
  IF v.mong[s] = e THEN [v EXCEPT !.mong[s] = v.ns[e]]
  ELSE [v EXCEPT !.ns = [p \in Entry |->
          IF p \in Nodes(v.mong[s], v.ns) /\ v.ns[p] = e THEN v.ns[e] ELSE v.ns[p]]]

\* supervision_free_monitor; recycling a block twice is an internal error
\* (MonitorEntryRecycleSentinel).
supervision_free_monitor(v, e) ==
  [v EXCEPT !.nt[e] = Nil, !.ns[e] = Nil, !.src[e] = Nil, !.tgt[e] = Nil, !.ref[e] = 0,
            !.kind[e] = IF @ = "free" THEN "twice" ELSE "free"]

\* supervision_create_monitor; raises vm-full, changing nothing, when there is
\* no block.
supervision_create_monitor(v, s, t, r, k) ==
  LET usable == {e \in Entry : v.kind[e] = "free"}
      e == CHOOSE x \in usable : TRUE
  IN  IF usable = {} THEN v
      ELSE [v EXCEPT !.nt[e] = v.mons[t], !.ns[e] = v.mong[s],
                     !.src[e] = s, !.tgt[e] = t, !.ref[e] = r, !.kind[e] = k,
                     !.mons[t] = e, !.mong[s] = e]

\* Entries that a cascade abandoned are in no list when it is over; the
\* collector gets them back.
Swept(v) ==
  LET listed == UNION {Nodes(v.mons[a], v.nt) \cup Nodes(v.mong[a], v.ns) : a \in Actor}
      Clear(f, x) == [e \in Entry |-> IF e \in listed THEN f[e] ELSE x]
  IN  [v EXCEPT !.nt = Clear(@, Nil), !.ns = Clear(@, Nil), !.src = Clear(@, Nil),
                !.tgt = Clear(@, Nil), !.ref = Clear(@, 0), !.kind = Clear(@, "free")]

\* Both directions of a link, whose reference is never looked at; a vm-full in
\* between leaves only the first.
CreateLink(v, c, t) ==
  supervision_create_monitor(supervision_create_monitor(v, c, t, 0, "link"), t, c, 0, "link")

\* m_next_monitor_ref++ yields a number that no entry and no message carries;
\* numbers are only ever compared, so the smallest such one will do.
Refs ==
  {w.ref[e] : e \in Entry}
  \cup {m.ref : m \in UNION {{box[a][i] : i \in {j \in 1..Len(box[a]) : box[a][j].k = "down"}}
                              : a \in Actor}}

HasBox(a) == a # Main /\ life[a] = "live"

\* supervision_deliver_message: a full mailbox drops the message.
supervision_deliver_message(b, a, msg) ==
  IF HasBox(a) /\ Len(b[a]) < Room[a] THEN [b EXCEPT ![a] = Append(@, msg)] ELSE b

Fresh(used) ==
  {r \in 1..MaxRef : r \notin used /\ \A q \in 1..(r - 1) : q \in used}

-----------------------------------------------------------------------------
(* The history variable: who must die with root. *)

\* The partners that x's abnormal death takes along.
Partners(x) == {w.src[e] : e \in {f \in Links(w) : w.tgt[f] = x /\ life[w.src[f]] = "live"
                                     /\ f \in Nodes(w.mons[x], w.nt)}} \ trap

Closed(S) == \A x \in S : Partners(x) \subseteq S

Casualties(root, y) ==
  IF y = "normal" THEN {root}
  ELSE {a \in Actor : \A S \in SUBSET Actor : root \in S /\ Closed(S) => a \in S}

\* The death of root begins; rest is what the caller does afterwards.
Death(root, y, rest) ==
  /\ agenda' = <<KillT(root, y)>> \o rest
  /\ gone' = gone \cup Casualties(root, y)

-----------------------------------------------------------------------------
(* Operators of a live actor c. *)

Runs(c) == agenda = << >> /\ life[c] = "live"

\* A context that coroutine_launch_common initialises (the fields it resets are
\* reset by the death and the release of the last tenant here).
Born(d) ==
  /\ life[d] = "unborn"
  /\ life' = [life EXCEPT ![d] = "live"]
  /\ UNCHANGED <<why, trap, box>>

\* actor-spawn
Spawn(c) ==
  /\ Runs(c)
  /\ \E d \in Actor : Born(d)
  /\ UNCHANGED <<w, agenda, gone>>

\* spawn-monitor and spawn-link
SpawnMonitor(c, r) ==
  /\ Runs(c) /\ HasBox(c)
  /\ \E d \in Actor : /\ Born(d)
                      /\ w' = supervision_create_monitor(w, c, d, r, "monitor")
  /\ UNCHANGED <<agenda, gone>>

SpawnLink(c) ==
  /\ Runs(c) /\ HasBox(c)
  /\ \E d \in Actor : Born(d) /\ w' = CreateLink(w, c, d)
  /\ UNCHANGED <<agenda, gone>>

\* Live coroutines whose handle c may have.
Others(c) == (IF MainLinked THEN Live ELSE Live \ {Main}) \ {c}

\* monitor
MonitorLive(c, r) ==
  /\ Runs(c) /\ HasBox(c)
  /\ \E t \in Others(c) : w' = supervision_create_monitor(w, c, t, r, "monitor")
  /\ UNCHANGED <<life, why, trap, box, agenda, gone>>

MonitorDead(c, r) ==
  /\ Runs(c) /\ HasBox(c)
  /\ \E t \in Dead : box' = supervision_deliver_message(box, c, Down(r))
  /\ UNCHANGED <<life, why, trap, w, agenda, gone>>

\* demonitor
Demonitor(c) ==
  /\ Runs(c)
  /\ \E e \in Nodes(w.mong[c], w.ns) \ Links(w) :
       w' = supervision_free_monitor(FromTarget(FromSource(w, c, e), w.tgt[e], e), e)
  /\ UNCHANGED <<life, why, trap, box, agenda, gone>>

\* The entry of c's m_monitoring that links it to t.
LinkTo(v, c, t) == FirstOf(v.mong[c], v.ns, {e \in Links(v) : v.tgt[e] = t})

\* link to a live target
Link(c) ==
  /\ Runs(c) /\ HasBox(c)
  /\ \E t \in Others(c) : /\ LinkTo(w, c, t) = Nil
                          /\ w' = CreateLink(w, c, t)
  /\ UNCHANGED <<life, why, trap, box, agenda, gone>>

\* link to a target that died abnormally: the caller is signalled at once
LinkDead(c) ==
  /\ Runs(c) /\ HasBox(c)
  /\ \E t \in Dead :
       /\ LinkTo(w, c, t) = Nil
       /\ why[t] = "abnormal"
       /\ IF c \in trap
            THEN /\ box' = supervision_deliver_message(box, c, ExitMsg)
                 /\ UNCHANGED <<agenda, gone>>
            ELSE Death(c, "abnormal", << >>) /\ UNCHANGED box
  /\ UNCHANGED <<life, why, trap, w>>

\* unlink
Cut(v, c, t) ==
  LET e == LinkTo(v, c, t)
  IN  IF e = Nil THEN v
      ELSE supervision_free_monitor(FromTarget(FromSource(v, c, e), t, e), e)

Unlink(c) ==
  /\ Runs(c)
  /\ \E t \in Others(c) : w' = Cut(Cut(w, c, t), t, c)
  /\ UNCHANGED <<life, why, trap, box, agenda, gone>>

\* actor-trap-exit
TrapExit(c) ==
  /\ Runs(c) /\ HasBox(c)
  /\ \E t \in {trap \cup {c}, trap \ {c}} : trap' = t
  /\ UNCHANGED <<life, why, box, w, agenda, gone>>

\* actor-exit, coroutine-die, the end of the procedure, an uncaught error
Exit(c) ==
  /\ Runs(c) /\ c # Main
  /\ \E y \in Reasons : Death(c, y, << >>)
  /\ UNCHANGED <<life, why, trap, box, w>>

\* coroutine-kill, which returns to its caller
Kill(c) ==
  /\ Runs(c)
  /\ \E t \in Live \ {c, Main} : Death(t, "abnormal", <<ReturnT(c)>>)
  /\ UNCHANGED <<life, why, trap, box, w>>

\* actor-recv of a supervision message
Receive(c) ==
  /\ Runs(c)
  /\ box[c] # << >>
  /\ box' = [box EXCEPT ![c] = Tail(@)]
  /\ UNCHANGED <<life, why, trap, w, agenda, gone>>

\* coroutine-release of a dead context
Release(c) ==
  /\ Runs(c)
  /\ \E t \in Dead : /\ life' = [life EXCEPT ![t] = "unborn"]
                     /\ why'  = [why EXCEPT ![t] = "normal"]
                     /\ gone' = gone \ {t}
  /\ UNCHANGED <<trap, box, w, agenda>>

-----------------------------------------------------------------------------
(* coroutine_kill and supervision_notify_death, task by task. *)

At(k) == agenda # << >> /\ Head(agenda).t = k

\* The task at the head is replaced by ts.
Then(ts) == agenda' = ts \o Tail(agenda)

\* coroutine_kill
KillStep ==
  /\ At("kill")
  /\ LET a == Head(agenda).a
     IN  /\ life' = [life EXCEPT ![a] = "dead"]
         /\ why'  = [why EXCEPT ![a] = Head(agenda).why]
         /\ box'  = [box EXCEPT ![a] = << >>]
         /\ trap' = trap \ {a}
         /\ Then(IF w.mons[a] = Nil /\ w.mong[a] = Nil THEN << >>
                 ELSE <<WalkT(a, w.mons[a])>>)
  /\ UNCHANGED <<w, gone>>

\* Mutant: an entry whose source died is recycled instead of abandoned.
WalkSkipsRecycles ==
  /\ At("walk")
  /\ LET a == Head(agenda).a
         e == Head(agenda).e
     IN  /\ e # Nil /\ life[w.src[e]] # "live"
         /\ w' = supervision_free_monitor(w, e)
         /\ Then(<<WalkT(a, w.nt[e])>>)
  /\ UNCHANGED <<life, why, trap, box, gone>>

\* The source died further up the call stack: the entry is abandoned.
WalkSkips ==
  /\ At("walk")
  /\ LET a == Head(agenda).a
         e == Head(agenda).e
     IN  /\ e # Nil /\ life[w.src[e]] # "live"
         /\ Then(<<WalkT(a, w.nt[e])>>)
  /\ UNCHANGED <<life, why, trap, box, w, gone>>

\* Mutant: a monitor that fired is not recycled.
WalkMonitorKeeps ==
  /\ At("walk")
  /\ LET a == Head(agenda).a
         e == Head(agenda).e
         s == w.src[e]
     IN  /\ e # Nil /\ life[s] = "live" /\ w.kind[e] = "monitor"
         /\ box' = supervision_deliver_message(box, s, Down(w.ref[e]))
         /\ w' = FromSource(w, s, e)
         /\ Then(<<WalkT(a, w.nt[e])>>)
  /\ UNCHANGED <<life, why, trap, gone>>

\* A monitor fires.
WalkMonitor ==
  /\ At("walk")
  /\ LET a == Head(agenda).a
         e == Head(agenda).e
         s == w.src[e]
     IN  /\ e # Nil /\ life[s] = "live" /\ w.kind[e] = "monitor"
         /\ box' = supervision_deliver_message(box, s, Down(w.ref[e]))
         /\ w' = supervision_free_monitor(FromSource(w, s, e), e)
         /\ Then(<<WalkT(a, w.nt[e])>>)
  /\ UNCHANGED <<life, why, trap, gone>>

\* A link propagates: nothing, an /exit message, or the death of the partner.
WalkLink ==
  /\ At("walk")
  /\ LET a == Head(agenda).a
         e == Head(agenda).e
         s == w.src[e]
         done == DoneT(a, e, w.nt[e])
     IN  /\ e # Nil /\ life[s] = "live" /\ w.kind[e] = "link"
         /\ w' = FromSource(w, s, e)
         /\ \/ /\ why[a] = "normal"
               /\ Then(<<done>>) /\ UNCHANGED box
            \/ /\ why[a] = "abnormal" /\ s \in trap
               /\ box' = supervision_deliver_message(box, s, ExitMsg)
               /\ Then(<<done>>)
            \/ /\ why[a] = "abnormal" /\ s \notin trap
               /\ Then(<<KillT(s, why[a]), done>>) /\ UNCHANGED box
  /\ UNCHANGED <<life, why, trap, gone>>

\* Back from the partner: take the reverse entry off its m_monitors (it is
\* recycled by the second loop) and recycle this one.
LinkDone ==
  /\ At("done")
  /\ LET a == Head(agenda).a
         e == Head(agenda).e
         s == w.src[e]
         rev == FirstOf(w.mons[s], w.nt, {f \in Links(w) : w.src[f] = a})
         v == IF rev = Nil THEN w ELSE FromTarget(w, s, rev)
     IN  /\ w' = supervision_free_monitor(v, e)
         /\ Then(<<WalkT(a, Head(agenda).next)>>)
  /\ UNCHANGED <<life, why, trap, box, gone>>

WalkEnds ==
  /\ At("walk") /\ Head(agenda).e = Nil
  /\ LET a == Head(agenda).a
     IN  /\ w' = [w EXCEPT !.mons[a] = Nil]
         /\ Then(<<WatchT(a, w.mong[a])>>)
  /\ UNCHANGED <<life, why, trap, box, gone>>

\* Second loop: leave the list of everybody the dead actor watched.
WatchStep ==
  /\ At("watch") /\ Head(agenda).e # Nil
  /\ LET a == Head(agenda).a
         e == Head(agenda).e
         t == w.tgt[e]
     IN  /\ w' = IF life[t] = "live" THEN supervision_free_monitor(FromTarget(w, t, e), e)
                                     ELSE w
         /\ Then(<<WatchT(a, w.ns[e])>>)
  /\ UNCHANGED <<life, why, trap, box, gone>>

WatchEnds ==
  /\ At("watch") /\ Head(agenda).e = Nil
  /\ LET v == [w EXCEPT !.mong[Head(agenda).a] = Nil]
     IN  w' = IF \E i \in 2..Len(agenda) : agenda[i].t = "done" THEN v ELSE Swept(v)
  /\ Then(<< >>)
  /\ UNCHANGED <<life, why, trap, box, gone>>

\* coroutine-kill returns.
Returns ==
  /\ At("return")
  /\ Then(<< >>)
  /\ UNCHANGED <<life, why, trap, box, w, gone>>

DeathStep ==
  \/ KillStep \/ WalkSkips \/ WalkMonitor \/ WalkLink \/ LinkDone
  \/ WalkEnds \/ WatchStep \/ WatchEnds   \/ Returns

\* Operators that take a new reference, and the others.
RefStep(c, r) == SpawnMonitor(c, r) \/ MonitorLive(c, r) \/ MonitorDead(c, r)

ActorStep(c) ==
  \/ Spawn(c)  \/ SpawnLink(c) \/ Demonitor(c) \/ Link(c) \/ LinkDead(c)
  \/ Unlink(c) \/ TrapExit(c)  \/ Exit(c)      \/ Kill(c) \/ Receive(c) \/ Release(c)

MonNext ==
  \/ DeathStep
  \/ \E c \in Actor : ActorStep(c) \/ \E r \in Fresh(Refs) : RefStep(c, r)

MonSpec == MonInit /\ [][MonNext]_monVars

-----------------------------------------------------------------------------
(* Properties *)

\* The tables are well typed.
MonTypeOK ==
  /\ life \in [Actor -> {"unborn", "live", "dead"}]
  /\ why \in [Actor -> Reasons]
  /\ trap \subseteq Actor /\ gone \subseteq Actor
  /\ \A a \in Actor : Len(box[a]) <= Room[a]
  /\ {w.mons, w.mong} \subseteq [Actor -> EntryOrNil]
  /\ {w.nt, w.ns} \subseteq [Entry -> EntryOrNil]
  /\ {w.src, w.tgt} \subseteq [Entry -> ActorOrNil]
  /\ w.kind \in [Entry -> {"free", "monitor", "link"}]

\* No walk in progress, however deeply nested, is about to step on an entry
\* that was recycled in the meantime: the next pointer a walk saved before
\* killing a partner is still good when the partner's cascade returns.
WalkSafe ==
  \A i \in 1..Len(agenda) :
    /\ agenda[i].t \in {"walk", "watch", "done"} /\ agenda[i].e # Nil =>
         w.kind[agenda[i].e] \in {"monitor", "link"}
    /\ agenda[i].t = "done" /\ agenda[i].next # Nil =>
         w.kind[agenda[i].next] \in {"monitor", "link"}

\* When no death is in progress every list ends, an entry is in its target's
\* list exactly if it is in its source's, and both are alive: no actor will be
\* notified, or killed, on behalf of a former tenant of a context.
ListsAgree ==
  agenda = << >> =>
    /\ \A a \in Actor : Ends(w.mons[a], w.nt) /\ Ends(w.mong[a], w.ns)
    /\ \A a \in Actor : \A e \in Nodes(w.mons[a], w.nt) :
         w.tgt[e] = a /\ w.src[e] \in Live /\ e \in Nodes(w.mong[w.src[e]], w.ns)
    /\ \A a \in Actor : \A e \in Nodes(w.mong[a], w.ns) :
         w.src[e] = a /\ w.tgt[e] \in Live /\ e \in Nodes(w.mons[w.tgt[e]], w.nt)

\* The recursive walk kills exactly the actors that the links say must fail
\* together: everybody reachable from the victim over links without passing
\* an actor that traps exits, and nobody on a normal exit.
CascadeExact == agenda = << >> => Dead = gone

\* A monitor fires once: nobody keeps a monitor whose /down was delivered, and
\* no two messages carry the same reference.
FiresOnce ==
  LET Downs == {<<a, i>> \in Actor \X (1..4) : i <= Len(box[a]) /\ box[a][i].k = "down"}
      R(p) == box[p[1]][p[2]].ref
  IN  /\ \A p, q \in Downs : R(p) = R(q) => p = q
      /\ \A p \in Downs : \A e \in Entry : w.kind[e] = "monitor" => w.ref[e] # R(p)

\* coroutine-kill cannot kill its caller ("cannot kill self"), so whoever
\* executes the operator is alive when it returns.
ReturnsAlive == At("return") => life[Head(agenda).a] = "live"

\* The two lists every monitor and link is on agree, and a death notification
\* never walks over an entry that was given away during the walk.
ListsSound == MonTypeOK /\ WalkSafe /\ ListsAgree

\* A death reaches exactly the linked and the watching coroutines, each once,
\* however the links cross and whoever dies on the way.
DeathsExact == CascadeExact /\ FiresOnce

=============================================================================
