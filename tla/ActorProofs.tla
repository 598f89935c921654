----------------------------- MODULE ActorProofs -----------------------------
(***************************************************************************)
(* The mailboxes of Actors and the scheduler under them agree with each    *)
(* other for every set of coroutines and messages and every capacity, as   *)
(* long as main does not block in actor-send and no actor is released      *)
(* while a send to it is still to be retried (Addressed).                  *)
(*                                                                         *)
(* The inductive invariant ActorInv has three parts: Calm is about the     *)
(* scheduler, Alone about each coroutine with its own mailbox, and Chained *)
(* about the coroutines parked in a mailbox.  An action touches one or two *)
(* coroutines; KeptAlone and the Chained lemmas say what it owes to the    *)
(* others.                                                                 *)
(*                                                                         *)
(* Last come the free slots: SlotInv counts the senders on their way, and  *)
(* Steady is what a step owes to the count.                                *)
(***************************************************************************)
EXTENDS Actors, SchedulerProofs

\* What the programs must observe.
Addressed == ~MainSends /\ ~ReleasePending

-----------------------------------------------------------------------------
(* The invariant.  s, m, o and d stand for sched, mail, op and due. *)

\* The scheduler: nobody joins or reads keys here, main is neither suspended
\* nor blocked, and whatever is in a list belongs there.
Calm(s) ==
  /\ s \in SchedType
  /\ Registered(s)
  /\ Lists(s)
  /\ s.stdin = NoCtx
  /\ \A c \in Ctx : /\ s.joiner[c] = NoCtx
                    /\ s.status[c] = "Running" => s.running = c
                    /\ c \in s.susp => c # Main /\ s.status[c] \in {"Ready", "Sleeping"}
                    /\ c \in s.blk => c # Main /\ s.status[c] = "Sleeping"

\* The coroutine that runs has been loaded.
Loaded(s) == s.running # NoCtx => s.status[s.running] = "Running"

\* An operator is pending only in an actor that lives and resumes at it.
Pending(s, o, c) ==
  o[c].k # "none" =>
    /\ s.cont[c] = "actor"
    /\ s.status[c] \in {"Sleeping", "Ready", "Running"}
    /\ c # Main
    /\ o[c].k = "send" => o[c].to \in s.reg

\* A scan stands at a message of the mailbox and has passed none that matches.
Scans(s, m, o, c) ==
  o[c].k = "match" /\ o[c].scan >= 0 =>
    /\ s.status[c] # "Sleeping"
    /\ o[c].scan < Len(m.queue[c])
    /\ \A i \in 1..o[c].scan : m.queue[c][i] \notin Matching

\* A registered reader is the owner with a receive pending.
Registers(s, m, o, c) ==
  m.reader[c] # NoCtx =>
    /\ m.reader[c] = c
    /\ s.status[c] \in {"Sleeping", "Ready", "Running"}
    /\ o[c].k \in {"recv", "match"}
    /\ o[c].k = "match" => o[c].scan = -1

\* Asleep in a receive: registered, and nothing to take.
Listens(s, m, o, c) ==
  s.status[c] = "Sleeping" /\ o[c].k \in {"recv", "match"} =>
    /\ m.reader[c] = c
    /\ o[c].k = "recv" => m.queue[c] = << >>
    /\ o[c].k = "match" => \A i \in 1..Len(m.queue[c]) : m.queue[c][i] \notin Matching

\* Not woken before the deadline.
OnTime(s, o, d, c) ==
  s.status[c] = "Sleeping" /\ o[c].k \in {"recv", "match"} /\ c \notin s.blk =>
    d[c] <= s.left[c]

Alone(s, m, o, d, c) ==
  /\ Pending(s, o, c)
  /\ Scans(s, m, o, c)
  /\ Registers(s, m, o, c)
  /\ Listens(s, m, o, c)
  /\ OnTime(s, o, d, c)
  /\ Len(m.queue[c]) <= Capacity

\* c is parked in a send to a, and nothing else will wake it.
ParkedAt(s, o, c, a) ==
  /\ s.status[c] = "Sleeping"
  /\ c \in s.blk
  /\ o[c].k = "send"
  /\ o[c].to = a
  /\ s.status[a] # "Dead"

\* A chain holds, once each, coroutines parked in a send to its owner, and
\* whoever is blocked waits for a message or in a chain.
Chained(s, m, o) ==
  /\ \A a \in Ctx : /\ NoDup(m.chain[a])
                    /\ \A c \in Elems(m.chain[a]) : ParkedAt(s, o, c, a)
  /\ \A c \in s.blk : m.reader[c] = c \/ (o[c].k = "send" /\ c \in Elems(m.chain[o[c].to]))

\* The values of the variables.
Typed(m, o, d) == m \in MailType /\ o \in [Ctx -> Ops] /\ d \in [Ctx -> 0..MaxSleep]

\* All of it, but for a moment in which the running coroutine has just died.
Sane(s, m, o, d) ==
  /\ Calm(s)
  /\ Typed(m, o, d)
  /\ \A c \in Ctx : Alone(s, m, o, d, c)
  /\ Chained(s, m, o)

Inv(s, m, o, d) == Sane(s, m, o, d) /\ Loaded(s)

ActorInv == Inv(sched, mail, op, due)

-----------------------------------------------------------------------------
(* The scheduler's helpers keep Calm *)

\* The registry is right as long as nobody is born, dies or is released.
LEMMA RegistryKept ==
  ASSUME NEW s \in SchedType, NEW t \in SchedType, Registered(s),
         t.reg = s.reg, t.free = s.free,
         \A c \in Ctx : t.status[c] = "Unborn" <=> s.status[c] = "Unborn",
         \A c \in Ctx : t.status[c] = "Dead" <=> s.status[c] = "Dead"
  PROVE  Registered(t)
<1>1. s.reg \subseteq Ctx /\ s.free \in Seq(Ctx) /\ Main \in Ctx
  BY Fields, CtxAssumption
<1>2. Elems(s.free) \subseteq Ctx
  BY <1>1 DEF Elems
<1>3. Main \in t.reg /\ Alive(t, Main)
  BY <1>1 DEF Registered, Alive
<1>4. \A c \in Ctx : Alive(t, c) => c \in t.reg
  BY DEF Registered, Alive
<1>5. \A c \in t.reg : t.status[c] # "Unborn"
  BY <1>1 DEF Registered
<1>6. NoDup(t.free) /\ \A c \in Elems(t.free) : t.status[c] = "Dead" /\ c \notin t.reg
  BY <1>2 DEF Registered
<1> QED
  BY <1>3, <1>4, <1>5, <1>6 DEF Registered

\* In particular when one coroutine that lives changes its status.
LEMMA RegistryChanged ==
  ASSUME NEW s \in SchedType, NEW t \in SchedType, Registered(s),
         t.reg = s.reg, t.free = s.free,
         NEW c \in Ctx, Alive(s, c), Alive(t, c),
         \A d \in Ctx \ {c} : t.status[d] = s.status[d]
  PROVE  Registered(t)
<1>1. ASSUME NEW d \in Ctx
      PROVE  /\ t.status[d] = "Unborn" <=> s.status[d] = "Unborn"
             /\ t.status[d] = "Dead" <=> s.status[d] = "Dead"
  <2>1. CASE d = c
    BY <2>1 DEF Alive
  <2>2. CASE d # c
    BY <2>2
  <2> QED
    BY <2>1, <2>2
<1> QED
  BY <1>1, RegistryKept

\* t is s after those of X that slept were woken.
Roused(s, t, X) ==
  /\ SamePrograms(s, t)
  /\ t.running = s.running
  /\ t.left = s.left
  /\ \A d \in Ctx : t.status[d] = IF d \in X /\ s.status[d] = "Sleeping" THEN "Ready"
                                  ELSE s.status[d]
  /\ t.blk = s.blk \ X

\* Waking nobody, and waking some and then others.
LEMMA RousedNone ==
  ASSUME NEW s, NEW X, Calm(s), X \subseteq Ctx, \A c \in X : s.status[c] # "Sleeping"
  PROVE  Roused(s, s, X)
  BY DEF Roused, SamePrograms, Calm

LEMMA RousedTwice ==
  ASSUME NEW s, NEW t, NEW u, NEW X, NEW Y, Roused(s, t, X), Roused(t, u, Y)
  PROVE  Roused(s, u, X \cup Y)
  BY DEF Roused, SamePrograms

\* A sleeper that has left the timer list becomes ready.
LEMMA ReadiedCalm ==
  ASSUME NEW s, Calm(s), NEW c \in Ctx, s.status[c] = "Sleeping",
         NEW u \in SchedType, SamePrograms(s, u), SameLinks(s, u), SameFlags(s, u),
         Listed(u, Runnable(s), TimedSleepers(s) \ {c})
  PROVE  Calm(MakeReady(u, c)) /\ Roused(s, MakeReady(u, c), {c})
<1> DEFINE r == MakeReady(u, c)
           R == Runnable(s)
           T == TimedSleepers(s)
<1>0. s \in SchedType /\ s.status \in [Ctx -> Statuses]
  BY Fields DEF Calm
<1>1. c \notin R
  BY DEF Runnable
<1>2. /\ r \in SchedType
      /\ SamePrograms(u, r) /\ SameLinks(u, r)
      /\ r.status = [u.status EXCEPT ![c] = "Ready"]
      /\ r.blk = u.blk \ {c} /\ r.susp = u.susp /\ r.stdin = u.stdin /\ r.left = u.left
  BY MakeReadyType, MakeReadyFrame, ZenonT(40)
<1>3. Listed(r, IF c \in u.susp THEN R ELSE R \cup {c}, T \ {c})
  BY <1>1, MakeReadyListed
<1> HIDE DEF r
<1>4. /\ \A d \in Ctx : r.status[d] = IF d = c THEN "Ready" ELSE s.status[d]
      /\ r.blk = s.blk \ {c} /\ r.susp = s.susp /\ r.stdin = s.stdin /\ r.left = s.left
      /\ SamePrograms(s, r) /\ SameLinks(s, r)
  BY <1>0, <1>2 DEF SameFlags, SamePrograms, SameLinks
<1>5. Runnable(r) = (IF c \in u.susp THEN R ELSE R \cup {c})
  BY <1>4 DEF Runnable, SameFlags, R
<1>6. TimedSleepers(r) = T \ {c}
  BY <1>4 DEF TimedSleepers, T
<1>7. Lists(r)
  BY <1>3, <1>5, <1>6 DEF Lists
<1>8. Registered(r)
  <2>1. /\ \A d \in Ctx : r.status[d] = "Unborn" <=> s.status[d] = "Unborn"
        /\ \A d \in Ctx : r.status[d] = "Dead" <=> s.status[d] = "Dead"
        /\ r.reg = s.reg /\ r.free = s.free
    BY <1>4 DEF SamePrograms
  <2>2. Registered(s) /\ r \in SchedType
    BY <1>2 DEF Calm
  <2> QED
    BY <1>0, <2>1, <2>2, RegistryKept
<1>9. Calm(r)
  BY <1>2, <1>4, <1>7, <1>8 DEF Calm, SameLinks
<1>10. Roused(s, r, {c})
  BY <1>4 DEF Roused, SameLinks
<1> QED
  BY <1>9, <1>10 DEF r

\* coroutine_wake
LEMMA WakeCalm ==
  ASSUME NEW s, Calm(s), NEW c \in CtxOrNone
  PROVE  Calm(coroutine_wake(s, c)) /\ Roused(s, coroutine_wake(s, c), {c} \ {NoCtx})
<1>0. s \in SchedType /\ s.blk \subseteq Ctx /\ NoCtx \notin Ctx
  BY Fields, CtxAssumption DEF Calm
<1>1. CASE c \in Ctx /\ s.status[c] = "Sleeping"
  <2> DEFINE R == Runnable(s)
             T == TimedSleepers(s)
             t == IF c \in s.blk THEN s ELSE timer_list_remove(s, c)
             u == [t EXCEPT !.stdin = IF @ = c THEN NoCtx ELSE @]
  <2>1. /\ t \in SchedType
        /\ SamePrograms(s, t) /\ SameLinks(s, t) /\ SameFlags(s, t)
        /\ Listed(t, R, T \ {c})
    <3>1. CASE c \in s.blk
      <4>1. T \ {c} = T
        BY <3>1 DEF TimedSleepers
      <4> QED
        BY <1>0, <3>1, <4>1 DEF SamePrograms, SameLinks, SameFlags, Calm, Lists
    <3>2. CASE c \notin s.blk
      BY <1>0, <1>1, <3>2, RemoveType, TimerFrame, TimerRemoveListed DEF Calm, Lists
    <3> QED
      BY <3>1, <3>2
  <2> HIDE DEF t
  <2>2. t.stdin = NoCtx
    BY <2>1 DEF SameFlags, Calm
  <2>3. /\ u \in SchedType
        /\ SamePrograms(s, u) /\ SameLinks(s, u) /\ SameFlags(s, u)
        /\ u.high = t.high /\ u.norm = t.norm /\ u.timers = t.timers
        /\ u.hi = t.hi /\ u.left = t.left
    <3>1. u = [t EXCEPT !.stdin = NoCtx]
      BY <2>1, <2>2 DEF SchedType
    <3> HIDE DEF u
    <3>2. u \in SchedType
      BY <2>1, <3>1 DEF SchedType, CtxOrNone
    <3>3. /\ u.high = t.high /\ u.norm = t.norm /\ u.timers = t.timers
          /\ u.hi = t.hi /\ u.left = t.left /\ u.stdin = t.stdin
          /\ u.reg = t.reg /\ u.free = t.free /\ u.cont = t.cont /\ u.joiner = t.joiner
          /\ u.on = t.on /\ u.live = t.live /\ u.running = t.running /\ u.status = t.status /\ u.susp = t.susp /\ u.blk = t.blk
      BY <2>1, <2>2, <3>1 DEF SchedType
    <3> QED
      BY <2>1, <3>2, <3>3 DEF SamePrograms, SameLinks, SameFlags
  <2> HIDE DEF u
  <2>4. Listed(u, R, T \ {c})
    BY <2>1, <2>3, SameListed
  <2>5. coroutine_wake(s, c) = MakeReady(u, c)
    BY <1>0, <1>1 DEF coroutine_wake, t, u
  <2>6. {c} \ {NoCtx} = {c}
    BY <1>0, <1>1
  <2> QED
    BY <1>1, <2>3, <2>4, <2>5, <2>6, ReadiedCalm
<1>2. CASE ~(c \in Ctx /\ s.status[c] = "Sleeping")
  <2>1. coroutine_wake(s, c) = s
    BY <1>2 DEF coroutine_wake, CtxOrNone
  <2>2. {c} \ {NoCtx} \subseteq Ctx /\ \A x \in {c} \ {NoCtx} : s.status[x] # "Sleeping"
    BY <1>2 DEF CtxOrNone
  <2> QED
    BY <2>1, <2>2, RousedNone
<1> QED
  BY <1>1, <1>2

\* Waking a sender that is parked, if it still sleeps.
LEMMA WakeSenderCalm ==
  ASSUME NEW s, Calm(s), NEW c \in Ctx, s.status[c] = "Sleeping" => c \in s.blk
  PROVE  Calm(WakeSender(s, c)) /\ Roused(s, WakeSender(s, c), {c})
<1>1. CASE s.status[c] = "Sleeping"
  <2>1. TimedSleepers(s) \ {c} = TimedSleepers(s)
    BY <1>1 DEF TimedSleepers
  <2>2. s \in SchedType /\ SamePrograms(s, s) /\ SameLinks(s, s) /\ SameFlags(s, s)
    BY DEF Calm, SamePrograms, SameLinks, SameFlags
  <2>3. Listed(s, Runnable(s), TimedSleepers(s) \ {c})
    BY <2>1 DEF Calm, Lists
  <2> QED
    BY <1>1, <2>2, <2>3, ReadiedCalm DEF WakeSender
<1>2. CASE s.status[c] # "Sleeping"
  BY <1>2, RousedNone DEF WakeSender
<1> QED
  BY <1>1, <1>2

\* The first i coroutines of a list.
Firsts(q, i) == {q[j] : j \in 1..i}

\* A number of wake-ups, one after another.
LEMMA RousedChain ==
  ASSUME NEW q \in Seq(Ctx), NEW w, Calm(w[0]),
         \A i \in 1..Len(q) :
           Calm(w[i - 1]) /\ Roused(w[0], w[i - 1], Firsts(q, i - 1))
             => Calm(w[i]) /\ Roused(w[i - 1], w[i], {q[i]})
  PROVE  Calm(w[Len(q)]) /\ Roused(w[0], w[Len(q)], Elems(q))
<1> DEFINE P(i) == Calm(w[i]) /\ Roused(w[0], w[i], Firsts(q, i))
           B == {i \in Nat : i <= Len(q) /\ ~P(i)}
<1>0. Len(q) \in Nat
  OBVIOUS
<1>1. P(0)
  <2>1. Firsts(q, 0) = {}
    BY DEF Firsts
  <2> QED
    BY <2>1, RousedNone
<1>2. ASSUME NEW i \in 1..Len(q), P(i - 1) PROVE P(i)
  <2>1. Calm(w[i]) /\ Roused(w[i - 1], w[i], {q[i]})
    BY <1>2
  <2>2. Firsts(q, i) = Firsts(q, i - 1) \cup {q[i]}
    <3>1. 1..i = (1..(i - 1)) \cup {i}
      BY <1>0
    <3> QED
      BY <3>1 DEF Firsts
  <2> QED
    BY <1>2, <2>1, <2>2, RousedTwice
<1> HIDE DEF P
<1>3. B = {}
  <2>1. SUFFICES ASSUME B # {} PROVE FALSE
    OBVIOUS
  <2>2. PICK i \in B : \A j \in B : i <= j
    BY <2>1, LeastNatural
  <2>3. i # 0
    BY <1>1, <2>2
  <2>4. i \in 1..Len(q) /\ i - 1 \in Nat /\ i - 1 <= Len(q) /\ i - 1 \notin B
    BY <1>0, <2>2, <2>3
  <2> QED
    BY <1>2, <2>2, <2>4
<1>4. P(Len(q))
  BY <1>0, <1>3
<1>5. Firsts(q, Len(q)) = Elems(q)
  BY DEF Firsts, Elems
<1> QED
  BY <1>4, <1>5 DEF P

\* The recursion that wakes the senders of a dead actor has its steps.
LEMMA WakeSendersSteps ==
  ASSUME NEW s, NEW q \in Seq(Ctx)
  PROVE  \E w : /\ w[0] = s
                /\ \A i \in 1..Len(q) : w[i] = WakeSender(w[i - 1], q[i])
                /\ WakeSenders(s, q) = w[Len(q)]
<1> DEFINE Steps(f, n) == f = [i \in 0..n |-> IF i = 0 THEN s ELSE WakeSender(f[i - 1], q[i])]
           B == {n \in Nat : \A f : ~Steps(f, n)}
           W == CHOOSE f : Steps(f, Len(q))
<1>0. Len(q) \in Nat
  OBVIOUS
<1>1. \E f : Steps(f, 0)
  <2>1. Steps([i \in 0..0 |-> s], 0)
    OBVIOUS
  <2> QED
    BY <2>1
<1>2. ASSUME NEW n \in Nat \ {0}, NEW f, Steps(f, n - 1)
      PROVE  \E g : Steps(g, n)
  <2> DEFINE g == [i \in 0..n |-> IF i = n THEN WakeSender(f[n - 1], q[n]) ELSE f[i]]
  <2>1. ASSUME NEW i \in 0..n
        PROVE  g[i] = IF i = 0 THEN s ELSE WakeSender(g[i - 1], q[i])
    <3>1. CASE i = 0
      BY <1>2, <3>1
    <3>2. CASE i = n
      BY <3>2
    <3>3. CASE i # 0 /\ i # n
      BY <1>2, <3>3
    <3> QED
      BY <3>1, <3>2, <3>3
  <2>2. g = [i \in 0..n |-> g[i]]
    OBVIOUS
  <2> HIDE DEF g
  <2>3. Steps(g, n)
    BY <2>1, <2>2
  <2> QED
    BY <2>3
<1> HIDE DEF Steps
<1>3. B = {}
  <2>1. SUFFICES ASSUME B # {} PROVE FALSE
    OBVIOUS
  <2>2. PICK n \in B : \A j \in B : n <= j
    BY <2>1, LeastNatural
  <2>3. n # 0 /\ n \in Nat
    BY <1>1, <2>2
  <2>4. n - 1 \in Nat /\ n - 1 \notin B
    BY <2>2, <2>3
  <2> QED
    BY <1>2, <2>2, <2>3, <2>4
<1>4. \E f : Steps(f, Len(q))
  BY <1>0, <1>3
<1>5. Steps(W, Len(q))
  BY <1>4
<1>6. WakeSenders(s, q) = W[Len(q)]
  BY DEF WakeSenders, W, Steps
<1> HIDE DEF W
<1>7. W[0] = s /\ \A i \in 1..Len(q) : W[i] = WakeSender(W[i - 1], q[i])
  BY <1>0, <1>5 DEF Steps
<1> QED
  BY <1>6, <1>7

\* So has the one of actor-flush.
LEMMA WakeAllSteps ==
  ASSUME NEW s, NEW q \in Seq(Ctx)
  PROVE  \E w : /\ w[0] = s
                /\ \A i \in 1..Len(q) : w[i] = coroutine_wake(w[i - 1], q[i])
                /\ WakeAll(s, q) = w[Len(q)]
<1> DEFINE Steps(f, n) == f = [i \in 0..n |-> IF i = 0 THEN s ELSE coroutine_wake(f[i - 1], q[i])]
           B == {n \in Nat : \A f : ~Steps(f, n)}
           W == CHOOSE f : Steps(f, Len(q))
<1>0. Len(q) \in Nat
  OBVIOUS
<1>1. \E f : Steps(f, 0)
  <2>1. Steps([i \in 0..0 |-> s], 0)
    OBVIOUS
  <2> QED
    BY <2>1
<1>2. ASSUME NEW n \in Nat \ {0}, NEW f, Steps(f, n - 1)
      PROVE  \E g : Steps(g, n)
  <2> DEFINE g == [i \in 0..n |-> IF i = n THEN coroutine_wake(f[n - 1], q[n]) ELSE f[i]]
  <2>1. ASSUME NEW i \in 0..n
        PROVE  g[i] = IF i = 0 THEN s ELSE coroutine_wake(g[i - 1], q[i])
    <3>1. CASE i = 0
      BY <1>2, <3>1
    <3>2. CASE i = n
      BY <3>2
    <3>3. CASE i # 0 /\ i # n
      BY <1>2, <3>3
    <3> QED
      BY <3>1, <3>2, <3>3
  <2>2. g = [i \in 0..n |-> g[i]]
    OBVIOUS
  <2> HIDE DEF g
  <2>3. Steps(g, n)
    BY <2>1, <2>2
  <2> QED
    BY <2>3
<1> HIDE DEF Steps
<1>3. B = {}
  <2>1. SUFFICES ASSUME B # {} PROVE FALSE
    OBVIOUS
  <2>2. PICK n \in B : \A j \in B : n <= j
    BY <2>1, LeastNatural
  <2>3. n # 0 /\ n \in Nat
    BY <1>1, <2>2
  <2>4. n - 1 \in Nat /\ n - 1 \notin B
    BY <2>2, <2>3
  <2> QED
    BY <1>2, <2>2, <2>3, <2>4
<1>4. \E f : Steps(f, Len(q))
  BY <1>0, <1>3
<1>5. Steps(W, Len(q))
  BY <1>4
<1>6. WakeAll(s, q) = W[Len(q)]
  BY DEF WakeAll, W, Steps
<1> HIDE DEF W
<1>7. W[0] = s /\ \A i \in 1..Len(q) : W[i] = coroutine_wake(W[i - 1], q[i])
  BY <1>0, <1>5 DEF Steps
<1> QED
  BY <1>6, <1>7

\* Every parked sender is woken, and nobody else.
LEMMA WakeSendersCalm ==
  ASSUME NEW s, Calm(s), NEW q \in Seq(Ctx),
         \A c \in Elems(q) : s.status[c] = "Sleeping" => c \in s.blk
  PROVE  Calm(WakeSenders(s, q)) /\ Roused(s, WakeSenders(s, q), Elems(q))
<1>1. PICK w : /\ w[0] = s
               /\ \A i \in 1..Len(q) : w[i] = WakeSender(w[i - 1], q[i])
               /\ WakeSenders(s, q) = w[Len(q)]
  BY WakeSendersSteps
<1>2. ASSUME NEW i \in 1..Len(q), Calm(w[i - 1]), Roused(w[0], w[i - 1], Firsts(q, i - 1))
      PROVE  Calm(w[i]) /\ Roused(w[i - 1], w[i], {q[i]})
  <2>1. q[i] \in Ctx /\ q[i] \in Elems(q)
    BY DEF Elems
  <2>2. w[i - 1].status[q[i]] = "Sleeping" => q[i] \in w[i - 1].blk
    BY <1>1, <1>2, <2>1 DEF Roused
  <2> QED
    BY <1>1, <1>2, <2>1, <2>2, WakeSenderCalm
<1> QED
  BY <1>1, <1>2, RousedChain

LEMMA WakeAllCalm ==
  ASSUME NEW s, Calm(s), NEW q \in Seq(Ctx)
  PROVE  Calm(WakeAll(s, q)) /\ Roused(s, WakeAll(s, q), Elems(q))
<1>1. PICK w : /\ w[0] = s
               /\ \A i \in 1..Len(q) : w[i] = coroutine_wake(w[i - 1], q[i])
               /\ WakeAll(s, q) = w[Len(q)]
  BY WakeAllSteps
<1>2. ASSUME NEW i \in 1..Len(q), Calm(w[i - 1]), Roused(w[0], w[i - 1], Firsts(q, i - 1))
      PROVE  Calm(w[i]) /\ Roused(w[i - 1], w[i], {q[i]})
  <2>1. q[i] \in Ctx /\ q[i] \in CtxOrNone /\ {q[i]} \ {NoCtx} = {q[i]}
    BY CtxAssumption DEF CtxOrNone
  <2> QED
    BY <1>1, <1>2, <2>1, WakeCalm
<1> QED
  BY <1>1, <1>2, RousedChain

\* The running coroutine is in no list and carries no flag.
LEMMA RunsFree ==
  ASSUME NEW s, Calm(s), Loaded(s), NEW c \in Ctx, s.running = c
  PROVE  /\ s.status[c] = "Running"
         /\ c \notin s.susp /\ c \notin s.blk
         /\ c \notin Runnable(s) /\ c \notin TimedSleepers(s)
  BY CtxAssumption DEF Calm, Loaded, Runnable, TimedSleepers

\* u is s with the continuation k of c.
Continues(s, u, c, k) ==
  /\ u \in SchedType
  /\ SameState(s, u)
  /\ u.stdin = s.stdin /\ u.joiner = s.joiner /\ u.running = s.running
  /\ u.on = s.on /\ u.cont = [s.cont EXCEPT ![c] = k]

\* The running coroutine c has given up the processor with status x, to go on
\* at k.
GaveUp(s, t, c, x, k) ==
  /\ \A d \in Ctx : /\ t.status[d] = IF d = c THEN x ELSE s.status[d]
                    /\ t.cont[d] = IF d = c THEN k ELSE s.cont[d]
                    /\ d # c => t.left[d] = s.left[d]
  /\ t.running = NoCtx
  /\ t.reg = s.reg

LEMMA BlockCalm ==
  ASSUME NEW s, Calm(s), Loaded(s), NEW c \in Ctx, s.running = c, c # Main,
         NEW k, NEW u, Continues(s, u, c, k)
  PROVE  /\ Calm(Block(u, c))
         /\ GaveUp(s, Block(u, c), c, "Sleeping", k)
         /\ Block(u, c).blk = s.blk \cup {c}
<1> DEFINE t == Block(u, c)
           R == Runnable(s)
           T == TimedSleepers(s)
<1>0. /\ s \in SchedType /\ Listed(s, R, T) /\ u \in SchedType
      /\ s.status \in [Ctx -> Statuses] /\ s.cont \in [Ctx -> Conts]
  BY Fields DEF Calm, Lists, Continues
<1>1. /\ t \in SchedType /\ SamePrograms(u, t)
      /\ t.joiner = u.joiner /\ t.running = NoCtx
      /\ t.status = [u.status EXCEPT ![c] = "Sleeping"]
      /\ t.blk = u.blk \cup {c}
      /\ t.susp = u.susp /\ t.hi = u.hi /\ t.left = u.left /\ t.stdin = u.stdin
      /\ t.high = u.high /\ t.norm = u.norm /\ t.timers = u.timers
  BY ONLY <1>0, c \in Ctx, BlockType, BlockFrame, ZenonT(40)
<1>2. s.status[c] = "Running" /\ c \notin R /\ c \notin T
  BY RunsFree
<1> HIDE DEF t, R, T
<1>3. /\ \A d \in Ctx : t.status[d] = IF d = c THEN "Sleeping" ELSE s.status[d]
      /\ t.blk = s.blk \cup {c} /\ t.susp = s.susp /\ t.hi = s.hi /\ t.left = s.left
      /\ t.high = s.high /\ t.norm = s.norm /\ t.timers = s.timers
      /\ t.stdin = s.stdin /\ t.joiner = s.joiner
      /\ t.reg = s.reg /\ t.free = s.free
      /\ t.cont = [s.cont EXCEPT ![c] = k]
  BY <1>0, <1>1 DEF Continues, SameState, SamePrograms
<1>4. Listed(t, R, T)
  BY <1>0, <1>1, <1>3, SameListed
<1>5. Runnable(t) = R /\ TimedSleepers(t) = T
  BY <1>2, <1>3 DEF Runnable, TimedSleepers, R, T
<1>6. Registered(t)
  <2>1. Registered(s) /\ Alive(s, c) /\ Alive(t, c)
    BY <1>2, <1>3 DEF Calm, Alive
  <2>2. \A x \in Ctx \ {c} : t.status[x] = s.status[x]
    BY <1>3
  <2> QED
    BY <1>0, <1>1, <1>3, <2>1, <2>2, RegistryChanged
<1>7. Calm(t)
  BY <1>1, <1>2, <1>3, <1>4, <1>5, <1>6 DEF Calm, Lists
<1>8. GaveUp(s, t, c, "Sleeping", k)
  BY <1>0, <1>1, <1>3 DEF GaveUp
<1> QED
  BY <1>3, <1>7, <1>8 DEF t

\* A yield.
LEMMA YieldCalm ==
  ASSUME NEW s, Calm(s), Loaded(s), NEW c \in Ctx, s.running = c,
         NEW k, NEW u, Continues(s, u, c, k)
  PROVE  /\ Calm(YieldCpu(u, c))
         /\ GaveUp(s, YieldCpu(u, c), c, "Ready", k)
         /\ YieldCpu(u, c).blk = s.blk
<1> DEFINE t == YieldCpu(u, c)
           w == [u EXCEPT !.status[c] = "Ready", !.running = NoCtx]
           R == Runnable(s)
           T == TimedSleepers(s)
<1>0. /\ s \in SchedType /\ Listed(s, R, T) /\ u \in SchedType
      /\ s.status \in [Ctx -> Statuses] /\ s.cont \in [Ctx -> Conts]
  BY Fields DEF Calm, Lists, Continues
<1>1. /\ t \in SchedType /\ SamePrograms(u, t)
      /\ t.joiner = u.joiner /\ t.running = NoCtx
      /\ t.status = [u.status EXCEPT ![c] = "Ready"]
      /\ t.blk = u.blk /\ t.susp = u.susp /\ t.hi = u.hi /\ t.left = u.left /\ t.stdin = u.stdin
  BY ONLY <1>0, c \in Ctx, YieldType, YieldFrame, ZenonT(40)
<1>2. s.status[c] = "Running" /\ c \notin R /\ c \notin T /\ c \notin s.susp
  BY RunsFree
<1>3. t = ready_queue_push(w, c)
  BY DEF YieldCpu
<1>4. /\ w \in SchedType
      /\ w.high = u.high /\ w.norm = u.norm /\ w.timers = u.timers
      /\ w.hi = u.hi /\ w.left = u.left
  BY <1>0 DEF SchedType, Statuses, CtxOrNone
<1> HIDE DEF t, w, R, T
<1>5. /\ \A d \in Ctx : t.status[d] = IF d = c THEN "Ready" ELSE s.status[d]
      /\ t.blk = s.blk /\ t.susp = s.susp /\ t.left = s.left
      /\ t.stdin = s.stdin /\ t.joiner = s.joiner
      /\ t.reg = s.reg /\ t.free = s.free
      /\ t.cont = [s.cont EXCEPT ![c] = k]
  BY <1>0, <1>1 DEF Continues, SameState, SamePrograms
<1>6. Listed(w, R, T)
  BY <1>0, <1>4, SameListed DEF Continues, SameState
<1>7. Listed(t, R \cup {c}, T)
  BY <1>2, <1>3, <1>4, <1>6, PushListed
<1>8. Runnable(t) = R \cup {c} /\ TimedSleepers(t) = T
  BY <1>2, <1>5 DEF Runnable, TimedSleepers, R, T
<1>9. Registered(t)
  <2>1. Registered(s) /\ Alive(s, c) /\ Alive(t, c)
    BY <1>2, <1>5 DEF Calm, Alive
  <2>2. \A x \in Ctx \ {c} : t.status[x] = s.status[x]
    BY <1>5
  <2> QED
    BY <1>0, <1>1, <1>5, <2>1, <2>2, RegistryChanged
<1>10. Calm(t)
  BY <1>1, <1>2, <1>5, <1>7, <1>8, <1>9 DEF Calm, Lists
<1>11. GaveUp(s, t, c, "Ready", k)
  BY <1>0, <1>1, <1>5 DEF GaveUp
<1> QED
  BY <1>5, <1>10, <1>11 DEF t

\* c sleeps in t for d ticks, to go on at k.
Dozes(s, t, c, d, k) ==
  /\ Calm(t) /\ GaveUp(s, t, c, "Sleeping", k)
  /\ t.blk = s.blk /\ t.left[c] = d

\* A timed sleep of d ticks.
LEMMA SleepCalm ==
  ASSUME NEW s, Calm(s), Loaded(s), NEW c \in Ctx, s.running = c,
         NEW k, NEW u, Continues(s, u, c, k), NEW d \in 0..MaxSleep
  PROVE  Dozes(s, SleepFor(u, c, d), c, d, k)
<1> DEFINE t == SleepFor(u, c, d)
           w == [u EXCEPT !.status[c] = "Sleeping", !.left[c] = d, !.running = NoCtx]
           R == Runnable(s)
           T == TimedSleepers(s)
<1>0. /\ s \in SchedType /\ Listed(s, R, T) /\ u \in SchedType
      /\ s.status \in [Ctx -> Statuses] /\ s.cont \in [Ctx -> Conts]
      /\ s.left \in [Ctx -> 0..MaxSleep]
  BY Fields DEF Calm, Lists, Continues
<1>1. /\ t \in SchedType /\ SamePrograms(u, t)
      /\ t.joiner = u.joiner /\ t.running = NoCtx
      /\ t.status = [u.status EXCEPT ![c] = "Sleeping"]
      /\ t.left = [u.left EXCEPT ![c] = d]
      /\ t.blk = u.blk /\ t.susp = u.susp /\ t.hi = u.hi /\ t.stdin = u.stdin
  <2>1. t \in SchedType
    BY <1>0, SleepType
  <2>2. u \in SchedType
    BY <1>0
  <2> QED
    BY ONLY <2>2, c \in Ctx, d \in 0..MaxSleep, <2>1, SleepFrame, ZenonT(90)
<1>2. s.status[c] = "Running" /\ c \notin R /\ c \notin T /\ c \notin s.susp /\ c \notin s.blk
  BY RunsFree
<1>3. t = timer_list_insert(w, c)
  BY DEF SleepFor
<1>4. /\ w \in SchedType
      /\ w.high = u.high /\ w.norm = u.norm /\ w.timers = u.timers
      /\ w.hi = u.hi /\ w.left = [u.left EXCEPT ![c] = d]
  BY <1>0 DEF SchedType, Statuses, CtxOrNone
<1>4a. T \subseteq Ctx
  BY DEF TimedSleepers
<1> HIDE DEF t, w, R, T
<1>5. /\ \A x \in Ctx : t.status[x] = IF x = c THEN "Sleeping" ELSE s.status[x]
      /\ t.blk = s.blk /\ t.susp = s.susp
      /\ t.left = [s.left EXCEPT ![c] = d]
      /\ t.stdin = s.stdin /\ t.joiner = s.joiner
      /\ t.reg = s.reg /\ t.free = s.free
      /\ t.cont = [s.cont EXCEPT ![c] = k]
  BY <1>0, <1>1 DEF Continues, SameState, SamePrograms
<1>6. Listed(w, R, T)
  <2>1. \A x \in T : w.left[x] = s.left[x]
    BY <1>0, <1>2, <1>4, <1>4a DEF Continues, SameState
  <2>2. w.high = s.high /\ w.norm = s.norm /\ w.timers = s.timers /\ w.hi = s.hi
    BY <1>4 DEF Continues, SameState
  <2> QED
    BY <1>0, <1>4, <2>1, <2>2, SameListed
<1>7. Listed(t, R, T \cup {c})
  BY <1>2, <1>3, <1>4, <1>6, InsertListed
<1>8. Runnable(t) = R /\ TimedSleepers(t) = T \cup {c}
  BY <1>2, <1>5 DEF Runnable, TimedSleepers, R, T
<1>9. Registered(t)
  <2>1. Registered(s) /\ Alive(s, c) /\ Alive(t, c)
    BY <1>2, <1>5 DEF Calm, Alive
  <2>2. \A x \in Ctx \ {c} : t.status[x] = s.status[x]
    BY <1>5
  <2> QED
    BY <1>0, <1>1, <1>5, <2>1, <2>2, RegistryChanged
<1>10. Calm(t)
  BY <1>1, <1>2, <1>5, <1>7, <1>8, <1>9 DEF Calm, Lists
<1>11. GaveUp(s, t, c, "Sleeping", k)
  BY <1>0, <1>1, <1>5 DEF GaveUp
<1> QED
  BY <1>0, <1>5, <1>10, <1>11 DEF t, Dozes

\* t is s with the new tenant d.
Born(s, t, d) ==
  /\ \A x \in Ctx : /\ t.status[x] = IF x = d THEN "Ready" ELSE s.status[x]
                    /\ x # d => t.cont[x] = s.cont[x] /\ t.left[x] = s.left[x]
  /\ t.blk = s.blk
  /\ t.reg = s.reg \cup {d}
  /\ t.running = s.running

\* coroutine-launch takes a context that nobody lives in.
LEMMA LaunchCalm ==
  ASSUME NEW s, Calm(s), NEW d \in Allocatable(s)
  PROVE  /\ d \in Ctx /\ ~Alive(s, d)
         /\ Calm(coroutine_launch(s, d))
         /\ Born(s, coroutine_launch(s, d), d)
<1> DEFINE n == NewContext(s, d)
           p == ready_queue_push(n, d)
           t == coroutine_launch(s, d)
           R == Runnable(s)
           T == TimedSleepers(s)
<1>0. /\ s \in SchedType /\ Listed(s, R, T) /\ Registered(s)
      /\ s.status \in [Ctx -> Statuses] /\ s.cont \in [Ctx -> Conts]
      /\ s.left \in [Ctx -> 0..MaxSleep] /\ s.joiner \in [Ctx -> CtxOrNone]
      /\ s.free \in Seq(Ctx) /\ s.reg \subseteq Ctx
  BY Fields DEF Calm, Lists
<1>1. d \in Ctx
  BY <1>0, AllocatableCtx
<1>2. d \notin s.reg /\ ~Alive(s, d)
  <2>1. CASE s.free # << >>
    <3>1. d \in Elems(s.free)
      BY <1>0, <2>1, TailList DEF Allocatable
    <3> QED
      BY <1>0, <3>1 DEF Registered, Alive
  <2>2. CASE s.free = << >>
    <3>1. s.status[d] = "Unborn"
      BY <2>2 DEF Allocatable
    <3> QED
      BY <1>0, <3>1 DEF Registered, Alive
  <2> QED
    BY <2>1, <2>2
<1>3. d \notin s.susp /\ d \notin s.blk /\ d \notin R /\ d \notin T /\ T \subseteq Ctx
  BY <1>1, <1>2 DEF Calm, Alive, Runnable, TimedSleepers
<1>4. /\ n \in SchedType
      /\ n.free = IF s.free # << >> THEN Tail(s.free) ELSE s.free
      /\ n.status = [s.status EXCEPT ![d] = "Ready"]
      /\ n.susp = s.susp \ {d}
      /\ n.blk = s.blk \ {d}
      /\ n.hi = s.hi \ {d}
      /\ n.left = [s.left EXCEPT ![d] = 0]
      /\ n.joiner = [s.joiner EXCEPT ![d] = NoCtx]
      /\ n.cont = [s.cont EXCEPT ![d] = "proc"]
      /\ n.reg = s.reg \cup {d}
      /\ n.high = s.high /\ n.norm = s.norm /\ n.timers = s.timers
      /\ n.stdin = s.stdin /\ n.running = s.running
  <2>1. n \in SchedType
    BY <1>0, <1>1, NewContextType
  <2>0. s \in SchedType
    BY <1>0
  <2>2. /\ n.free = IF s.free # << >> THEN Tail(s.free) ELSE s.free
        /\ n.status = [s.status EXCEPT ![d] = "Ready"]
        /\ n.susp = s.susp \ {d}
        /\ n.blk = s.blk \ {d}
        /\ n.hi = s.hi \ {d}
    BY ONLY <2>0, <1>1, NewContextFrame, ZenonT(40)
  <2>3. /\ n.left = [s.left EXCEPT ![d] = 0]
        /\ n.joiner = [s.joiner EXCEPT ![d] = NoCtx]
        /\ n.cont = [s.cont EXCEPT ![d] = "proc"]
    BY ONLY <2>0, <1>1, NewContextFrame
  <2>4. /\ n.reg = s.reg \cup {d}
        /\ n.high = s.high /\ n.norm = s.norm /\ n.timers = s.timers
        /\ n.stdin = s.stdin /\ n.running = s.running
    BY ONLY <2>0, <1>1, NewContextFrame
  <2> HIDE DEF n
  <2> QED
    BY <2>1, <2>2, <2>3, <2>4
<1>5. /\ t \in SchedType /\ SamePrograms(n, t) /\ SameFlags(n, t)
      /\ t.joiner = n.joiner /\ t.running = n.running
      /\ t.timers = n.timers /\ t.high = p.high /\ t.norm = p.norm
  BY <1>0, <1>1, LaunchType, LaunchFrame
<1>6. p \in SchedType /\ SameFlags(n, p) /\ p.timers = n.timers
  BY <1>1, <1>4, PushType, PushFrame
<1> HIDE DEF t, n, R, T
<1>7. /\ \A x \in Ctx : /\ t.status[x] = IF x = d THEN "Ready" ELSE s.status[x]
                        /\ x # d => t.cont[x] = s.cont[x] /\ t.left[x] = s.left[x]
                        /\ t.joiner[x] = NoCtx
      /\ t.blk = s.blk /\ t.susp = s.susp
      /\ t.reg = s.reg \cup {d} /\ t.running = s.running /\ t.stdin = s.stdin
      /\ t.free = n.free
  <2>1. \A x \in Ctx : s.joiner[x] = NoCtx
    BY DEF Calm
  <2> QED
    BY <1>0, <1>1, <1>3, <1>4, <1>5, <2>1 DEF SamePrograms, SameFlags
<1>8. Listed(n, R, T)
  <2>1. \A x \in T : n.left[x] = s.left[x]
    BY <1>0, <1>3, <1>4
  <2>2. R \cap n.hi = R \cap s.hi
    BY <1>3, <1>4
  <2> QED
    BY <1>0, <1>4, <2>1, <2>2, SameListed
<1>9. Listed(p, R \cup {d}, T)
  BY <1>1, <1>3, <1>4, <1>8, PushListed
<1> HIDE DEF p
<1>10. Listed(t, R \cup {d}, T)
  BY <1>5, <1>6, <1>9, SameListed DEF SameFlags
<1>11. Runnable(t) = R \cup {d} /\ TimedSleepers(t) = T
  BY <1>1, <1>3, <1>7 DEF Runnable, TimedSleepers, R, T
<1>12. Registered(t)
  <2>1. NoDup(t.free) /\ Elems(t.free) \subseteq Elems(s.free) \ {d}
    <3>1. CASE s.free # << >>
      <4>1. d = Head(s.free) /\ t.free = Tail(s.free)
        BY <1>4, <1>7, <3>1 DEF Allocatable
      <4>2. NoDup(s.free)
        BY <1>0 DEF Registered
      <4> QED
        BY <1>0, <3>1, <4>1, <4>2, TailList
    <3>2. CASE s.free = << >>
      <4>1. t.free = s.free /\ Elems(s.free) = {}
        BY <1>4, <1>7, <3>2 DEF Elems
      <4> QED
        BY <1>0, <4>1 DEF Registered
    <3> QED
      BY <3>1, <3>2
  <2>2. Elems(s.free) \subseteq Ctx
    BY <1>0 DEF Elems
  <2>3. ASSUME NEW x \in Elems(t.free) PROVE t.status[x] = "Dead" /\ x \notin t.reg
    BY <1>0, <1>7, <2>1, <2>2, <2>3 DEF Registered
  <2>4. ASSUME NEW x \in Ctx, Alive(t, x) PROVE x \in t.reg
    BY <1>0, <1>7, <2>4 DEF Registered, Alive
  <2>5. ASSUME NEW x \in t.reg PROVE t.status[x] # "Unborn"
    BY <1>0, <1>1, <1>7 DEF Registered
  <2>6. Main \in t.reg /\ Alive(t, Main)
    BY <1>0, <1>7, CtxAssumption DEF Registered, Alive
  <2> QED
    BY <2>1, <2>3, <2>4, <2>5, <2>6 DEF Registered
<1>13. Calm(t)
  <2>1. \A x \in Ctx : /\ x \in t.susp => x # Main /\ t.status[x] \in {"Ready", "Sleeping"}
                       /\ x \in t.blk => x # Main /\ t.status[x] = "Sleeping"
                       /\ t.status[x] = "Running" => t.running = x
    BY <1>3, <1>7 DEF Calm
  <2>2. Lists(t)
    BY <1>10, <1>11 DEF Lists
  <2>3. t.stdin = NoCtx /\ t \in SchedType /\ \A x \in Ctx : t.joiner[x] = NoCtx
    BY <1>5, <1>7 DEF Calm
  <2> QED
    BY <1>12, <2>1, <2>2, <2>3 DEF Calm
<1>14. Born(s, t, d)
  BY <1>7 DEF Born
<1> QED
  BY <1>1, <1>2, <1>13, <1>14 DEF t

\* t is s after the death of v.
Died(s, t, v) ==
  /\ SamePrograms(s, t)
  /\ t.running = s.running
  /\ t.left = s.left
  /\ \A d \in Ctx : t.status[d] = IF d = v THEN "Dead" ELSE s.status[d]
  /\ t.blk = s.blk \ {v}

\* A coroutine other than main dies.
LEMMA BuryCalm ==
  ASSUME NEW s, Calm(s), NEW v \in s.reg, v # Main
  PROVE  Calm(Bury(s, v)) /\ Died(s, Bury(s, v), v)
<1> DEFINE u == Unschedule(s, v)
           b == Bury(s, v)
           R == Runnable(s)
           T == TimedSleepers(s)
<1>0. /\ s \in SchedType /\ Lists(s) /\ v \in Ctx /\ Registered(s)
      /\ s.status \in [Ctx -> Statuses] /\ s.reg \subseteq Ctx /\ s.free \in Seq(Ctx)
  BY Fields DEF Calm
<1>1. /\ u \in SchedType
      /\ SamePrograms(s, u) /\ SameLinks(s, u) /\ SameFlags(s, u)
      /\ Listed(u, R \ {v}, T \ {v})
  BY <1>0, UnscheduleType, UnscheduleFrame, UnscheduleListed
<1>2. b \in SchedType /\ Buried(s, v, u, b)
  BY <1>0, BuryFrame
<1> HIDE DEF b, u, R, T
<1>3. /\ SamePrograms(s, b)
      /\ b.running = s.running
      /\ \A d \in Ctx : b.status[d] = IF d = v THEN "Dead" ELSE s.status[d]
      /\ b.susp = s.susp \ {v} /\ b.blk = s.blk \ {v} /\ b.hi = s.hi /\ b.left = s.left
      /\ b.high = u.high /\ b.norm = u.norm /\ b.timers = u.timers
  BY <1>0, <1>2 DEF Buried
<1>4. b.stdin = NoCtx /\ \A d \in Ctx : b.joiner[d] = NoCtx
  BY <1>2 DEF Buried, Calm
<1>5. Listed(b, R \ {v}, T \ {v})
  BY <1>1, <1>2, <1>3, SameListed DEF SameFlags
<1>6. Runnable(b) = R \ {v} /\ TimedSleepers(b) = T \ {v}
  BY <1>3 DEF Runnable, TimedSleepers, R, T
<1>7. Registered(b)
  <2>1. Main \in b.reg /\ Alive(b, Main)
    BY <1>0, <1>3, CtxAssumption DEF Registered, Alive, SamePrograms
  <2>2. \A d \in Ctx : Alive(b, d) => d \in b.reg
    BY <1>0, <1>3 DEF Registered, Alive, SamePrograms
  <2>3. \A d \in b.reg : b.status[d] # "Unborn"
    BY <1>0, <1>3 DEF Registered, SamePrograms
  <2>4. Elems(s.free) \subseteq Ctx
    BY <1>0 DEF Elems
  <2>5. NoDup(b.free) /\ \A d \in Elems(b.free) : b.status[d] = "Dead" /\ d \notin b.reg
    BY <1>0, <1>3, <2>4 DEF Registered, SamePrograms
  <2> QED
    BY <2>1, <2>2, <2>3, <2>5 DEF Registered
<1>8. Calm(b)
  <2>1. \A x \in Ctx : /\ x \in b.susp => x # Main /\ b.status[x] \in {"Ready", "Sleeping"}
                       /\ x \in b.blk => x # Main /\ b.status[x] = "Sleeping"
                       /\ b.status[x] = "Running" => b.running = x
    BY <1>3 DEF Calm
  <2>2. Lists(b)
    BY <1>5, <1>6 DEF Lists
  <2>3. b \in SchedType
    BY <1>2
  <2> QED
    BY <1>4, <1>7, <2>1, <2>2, <2>3 DEF Calm
<1>9. Died(s, b, v)
  BY <1>3 DEF Died
<1> QED
  BY <1>8, <1>9 DEF b

\* Nobody waits in a join, so the end of a kill wakes nobody.
LEMMA ForgetJoinerCalm ==
  ASSUME NEW s, Calm(s), NEW v \in Ctx
  PROVE  Calm(WakeJoiner(s, v)) /\ Roused(s, WakeJoiner(s, v), {})
<1> DEFINE t == [s EXCEPT !.joiner[v] = NoCtx]
<1>1. s \in SchedType /\ s.joiner[v] = NoCtx /\ s.joiner \in [Ctx -> CtxOrNone]
  BY Fields DEF Calm
<1>2. WakeJoiner(s, v) = t
  BY <1>1 DEF WakeJoiner
<1>3. /\ t \in SchedType
      /\ SamePrograms(s, t)
      /\ t.joiner = [s.joiner EXCEPT ![v] = NoCtx]
      /\ t.status = s.status /\ t.susp = s.susp /\ t.blk = s.blk /\ t.hi = s.hi
      /\ t.left = s.left /\ t.stdin = s.stdin /\ t.running = s.running
      /\ t.high = s.high /\ t.norm = s.norm /\ t.timers = s.timers
  BY <1>1 DEF SchedType, CtxOrNone, SamePrograms
<1> HIDE DEF t
<1>4. Lists(t)
  BY <1>1, <1>3, SameLists DEF Calm
<1>5. Registered(t)
  BY <1>1, <1>3, RegistryKept DEF Calm, SamePrograms
<1>6. \A c \in Ctx : t.joiner[c] = NoCtx
  BY <1>1, <1>3 DEF Calm
<1>7. Calm(t)
  BY <1>3, <1>4, <1>5, <1>6 DEF Calm
<1> QED
  BY <1>2, <1>3, <1>7 DEF Roused

\* A dead coroutine is no longer running.
LEMMA UnrunCalm ==
  ASSUME NEW s, Calm(s), s.running = NoCtx \/ s.status[s.running] # "Running",
         NEW t, t = [s EXCEPT !.running = NoCtx]
  PROVE  /\ Calm(t)
         /\ SamePrograms(s, t) /\ t.status = s.status /\ t.blk = s.blk /\ t.left = s.left
         /\ t.running = NoCtx
<1>1. s \in SchedType
  BY DEF Calm
<1>2. /\ t \in SchedType
      /\ SamePrograms(s, t)
      /\ t.joiner = s.joiner
      /\ t.status = s.status /\ t.susp = s.susp /\ t.blk = s.blk /\ t.hi = s.hi
      /\ t.left = s.left /\ t.stdin = s.stdin /\ t.running = NoCtx
      /\ t.high = s.high /\ t.norm = s.norm /\ t.timers = s.timers
  BY <1>1 DEF SchedType, CtxOrNone, SamePrograms
<1>3. Lists(t)
  BY <1>1, <1>2, SameLists DEF Calm
<1>4. Registered(t)
  <2>1. Registered(s) /\ t.reg = s.reg /\ t.free = s.free
    BY <1>2 DEF Calm, SamePrograms
  <2>2. /\ \A c \in Ctx : t.status[c] = "Unborn" <=> s.status[c] = "Unborn"
        /\ \A c \in Ctx : t.status[c] = "Dead" <=> s.status[c] = "Dead"
    BY <1>2
  <2>3. s \in SchedType /\ t \in SchedType
    BY <1>1, <1>2
  <2> QED
    BY <2>1, <2>2, <2>3, RegistryKept
<1>5. \A c \in Ctx : t.status[c] # "Running"
  BY <1>2, CtxAssumption DEF Calm
<1>6. Calm(t)
  BY <1>2, <1>3, <1>4, <1>5 DEF Calm
<1> QED
  BY <1>2, <1>6

\* The running coroutine goes on at k.
LEMMA ContinueCalm ==
  ASSUME NEW s, Calm(s), NEW c \in Ctx, NEW k, NEW t, Continues(s, t, c, k)
  PROVE  Calm(t)
<1>1. /\ s \in SchedType /\ t \in SchedType
      /\ t.joiner = s.joiner /\ t.running = s.running
      /\ t.status = s.status /\ t.susp = s.susp /\ t.blk = s.blk /\ t.hi = s.hi
      /\ t.left = s.left /\ t.stdin = s.stdin
      /\ t.high = s.high /\ t.norm = s.norm /\ t.timers = s.timers
      /\ t.reg = s.reg /\ t.free = s.free
  BY DEF Continues, SameState, Calm
<1>2. Lists(t)
  BY <1>1, SameLists DEF Calm
<1>3. Registered(t)
  BY <1>1, RegistryKept DEF Calm
<1> QED
  BY <1>1, <1>2, <1>3 DEF Calm

\* coroutine-suspend changes no status.
LEMMA SuspendCalm ==
  ASSUME NEW s, Calm(s), NEW v \in s.reg, v # Main, s.status[v] \in {"Ready", "Sleeping"},
         NEW t, t = [Unschedule(s, v) EXCEPT !.susp = @ \cup {v}]
  PROVE  Calm(t) /\ Roused(s, t, {})
<1> DEFINE u == Unschedule(s, v)
           R == Runnable(s)
           T == TimedSleepers(s)
<1>0. s \in SchedType /\ Lists(s) /\ v \in Ctx
  BY Fields DEF Calm
<1>1. /\ u \in SchedType
      /\ SamePrograms(s, u) /\ SameLinks(s, u) /\ SameFlags(s, u)
      /\ Listed(u, R \ {v}, T \ {v})
  BY <1>0, UnscheduleType, UnscheduleFrame, UnscheduleListed
<1>2. t = [u EXCEPT !.susp = @ \cup {v}]
  OBVIOUS
<1> HIDE DEF u
<1>3. /\ t \in SchedType
      /\ SamePrograms(u, t) /\ SameLinks(u, t)
      /\ t.status = u.status /\ t.susp = u.susp \cup {v} /\ t.blk = u.blk
      /\ t.hi = u.hi /\ t.left = u.left /\ t.stdin = u.stdin
      /\ t.high = u.high /\ t.norm = u.norm /\ t.timers = u.timers
  <2>1. u \in SchedType /\ u.susp \cup {v} \in SUBSET Ctx
    BY <1>0, <1>1 DEF SchedType
  <2> QED
    BY ONLY <1>2, <2>1 DEF SchedType, SamePrograms, SameLinks
<1>4. /\ SamePrograms(s, t) /\ SameLinks(s, t)
      /\ t.status = s.status /\ t.susp = s.susp \cup {v} /\ t.blk = s.blk
      /\ t.left = s.left /\ t.stdin = s.stdin
  BY <1>1, <1>3 DEF SamePrograms, SameLinks, SameFlags
<1>5. Listed(t, R \ {v}, T \ {v})
  BY <1>1, <1>3, SameListed
<1>6. Runnable(t) = R \ {v} /\ TimedSleepers(t) = T \ {v}
  BY <1>4 DEF Runnable, TimedSleepers
<1>7. Lists(t)
  BY <1>5, <1>6 DEF Lists
<1>8. Registered(t)
  <2>1. Registered(s) /\ t.reg = s.reg /\ t.free = s.free
    BY <1>4 DEF Calm, SamePrograms
  <2>2. /\ \A c \in Ctx : t.status[c] = "Unborn" <=> s.status[c] = "Unborn"
        /\ \A c \in Ctx : t.status[c] = "Dead" <=> s.status[c] = "Dead"
    BY <1>4
  <2>3. s \in SchedType /\ t \in SchedType
    BY <1>0, <1>3
  <2> QED
    BY <2>1, <2>2, <2>3, RegistryKept
<1>9. Calm(t)
  BY <1>3, <1>4, <1>7, <1>8 DEF Calm, SameLinks
<1> QED
  BY <1>4, <1>9 DEF Roused, SameLinks

\* coroutine-resume makes ready at most a timed sleeper whose time has come.
LEMMA ResumeCalm ==
  ASSUME NEW s, Calm(s), NEW v \in s.susp,
         NEW u \in SchedType, Unsuspended(s, v, u),
         NEW t, t = Rescheduled(u, v)
  PROVE  Calm(t) /\ \E X \in SUBSET Ctx : Roused(s, t, X) /\ X \cap s.blk = {}
<1> DEFINE R == Runnable(s)
           T == TimedSleepers(s)
<1>0. /\ s \in SchedType /\ Lists(s) /\ v \in Ctx
      /\ s.status \in [Ctx -> Statuses] /\ Listed(s, R, T)
  BY Fields DEF Calm, Lists
<1>1. /\ SamePrograms(s, u) /\ SameLinks(s, u)
      /\ u.status = s.status /\ u.susp = s.susp \ {v} /\ u.blk = s.blk
      /\ u.hi = s.hi /\ u.left = s.left /\ u.stdin = s.stdin
      /\ u.high = s.high /\ u.norm = s.norm /\ u.timers = s.timers
  BY DEF Unsuspended
<1>2. v \notin R /\ v \notin T /\ T \subseteq Ctx
  BY DEF Runnable, TimedSleepers
<1>3. Listed(u, R, T)
  BY <1>0, <1>1, SameListed
<1>4. s.status[v] = "Ready" \/ s.status[v] = "Sleeping"
  BY <1>0 DEF Calm
<1> HIDE DEF R, T
<1>5. SUFFICES ASSUME t \in SchedType, SamePrograms(u, t), SameLinks(u, t),
                      t.susp = u.susp, t.blk = u.blk, t.left = u.left, t.stdin = u.stdin,
                      Lists(t),
                      \/ t.status = u.status
                      \/ /\ u.status[v] = "Sleeping" /\ v \notin u.blk
                         /\ t.status = [u.status EXCEPT ![v] = "Ready"]
               PROVE  Calm(t) /\ \E X \in SUBSET Ctx : Roused(s, t, X) /\ X \cap s.blk = {}
  <2>1. CASE u.status[v] = "Ready"
    <3>1. t = ready_queue_push(u, v)
      BY <2>1 DEF Rescheduled
    <3>2. t \in SchedType /\ SamePrograms(u, t) /\ SameLinks(u, t) /\ SameFlags(u, t)
      BY <1>0, <3>1, PushType, PushFrame
    <3>3. Listed(t, R \cup {v}, T)
      BY <1>0, <1>2, <1>3, <3>1, PushListed
    <3>4. Runnable(t) = R \cup {v} /\ TimedSleepers(t) = T
      BY <1>0, <1>1, <2>1, <3>2 DEF Runnable, TimedSleepers, SameFlags, R, T
    <3>5. Lists(t)
      BY <3>3, <3>4 DEF Lists
    <3> QED
      BY <1>5, <3>2, <3>5 DEF SameFlags
  <2>2. CASE u.status[v] # "Ready" /\ v \in u.blk
    <3>1. t = u
      BY <2>2 DEF Rescheduled
    <3>2. Runnable(t) = R /\ TimedSleepers(t) = T
      BY <1>1, <2>2, <3>1 DEF Runnable, TimedSleepers, R, T
    <3>3. Lists(t)
      BY <1>3, <3>1, <3>2 DEF Lists
    <3>4. SamePrograms(u, t) /\ SameLinks(u, t)
      BY <3>1 DEF SamePrograms, SameLinks
    <3> QED
      BY <1>5, <3>1, <3>3, <3>4
  <2>3. CASE u.status[v] # "Ready" /\ v \notin u.blk /\ u.left[v] = 0
    <3> DEFINE w == [u EXCEPT !.status[v] = "Ready"]
    <3>1. t = ready_queue_push(w, v)
      BY <2>3 DEF Rescheduled
    <3>2. /\ w \in SchedType /\ SamePrograms(u, w) /\ SameLinks(u, w)
          /\ w.status = [u.status EXCEPT ![v] = "Ready"] /\ w.susp = u.susp /\ w.blk = u.blk
          /\ w.hi = u.hi /\ w.left = u.left /\ w.stdin = u.stdin
          /\ w.high = u.high /\ w.norm = u.norm /\ w.timers = u.timers
      BY <1>0 DEF SchedType, Statuses, SamePrograms, SameLinks
    <3> HIDE DEF w
    <3>3. t \in SchedType /\ SamePrograms(w, t) /\ SameLinks(w, t) /\ SameFlags(w, t)
      BY <1>0, <3>1, <3>2, PushType, PushFrame
    <3>4. Listed(t, R \cup {v}, T)
      <4>1. Listed(w, R, T)
        BY <1>3, <3>2, SameListed
      <4> QED
        BY <1>0, <1>2, <3>1, <3>2, <4>1, PushListed
    <3>5. /\ SamePrograms(u, t) /\ SameLinks(u, t)
          /\ t.status = [u.status EXCEPT ![v] = "Ready"]
          /\ t.susp = u.susp /\ t.blk = u.blk /\ t.left = u.left /\ t.stdin = u.stdin
      BY <3>2, <3>3 DEF SamePrograms, SameLinks, SameFlags
    <3>6. Runnable(t) = R \cup {v} /\ TimedSleepers(t) = T
      BY <1>0, <1>1, <2>3, <1>4, <3>5 DEF Runnable, TimedSleepers, R, T
    <3>7. Lists(t)
      BY <3>4, <3>6 DEF Lists
    <3>8. u.status[v] = "Sleeping" /\ v \notin u.blk
      BY <1>1, <1>4, <2>3
    <3> QED
      BY <1>5, <3>3, <3>5, <3>7, <3>8
  <2>4. CASE u.status[v] # "Ready" /\ v \notin u.blk /\ u.left[v] # 0
    <3>1. t = timer_list_insert(u, v)
      BY <2>4 DEF Rescheduled
    <3>2. t \in SchedType /\ SamePrograms(u, t) /\ SameLinks(u, t) /\ SameFlags(u, t)
      BY <1>0, <3>1, InsertType, TimerFrame
    <3>3. Listed(t, R, T \cup {v})
      BY <1>0, <1>2, <1>3, <3>1, InsertListed
    <3>4. Runnable(t) = R /\ TimedSleepers(t) = T \cup {v}
      BY <1>0, <1>1, <1>4, <2>4, <3>2 DEF Runnable, TimedSleepers, SameFlags, R, T
    <3>5. Lists(t)
      BY <3>3, <3>4 DEF Lists
    <3> QED
      BY <1>5, <3>2, <3>5 DEF SameFlags
  <2> QED
    BY <2>1, <2>2, <2>3, <2>4
<1>6. /\ SamePrograms(s, t) /\ SameLinks(s, t)
      /\ t.susp = s.susp \ {v} /\ t.blk = s.blk /\ t.left = s.left /\ t.stdin = s.stdin
      /\ \/ t.status = s.status
         \/ /\ s.status[v] = "Sleeping" /\ v \notin s.blk
            /\ t.status = [s.status EXCEPT ![v] = "Ready"]
  BY <1>1, <1>5 DEF SamePrograms, SameLinks
<1>7. Registered(t)
  <2>1. CASE t.status = s.status
    BY <1>0, <1>5, <1>6, <2>1, RegistryKept DEF Calm, SamePrograms
  <2>2. CASE s.status[v] = "Sleeping" /\ t.status = [s.status EXCEPT ![v] = "Ready"]
    <3>1. Alive(s, v) /\ Alive(t, v) /\ \A x \in Ctx \ {v} : t.status[x] = s.status[x]
      BY <1>0, <2>2 DEF Alive
    <3>2. Registered(s) /\ t.reg = s.reg /\ t.free = s.free
      BY <1>6 DEF Calm, SamePrograms
    <3> QED
      BY <1>0, <1>5, <3>1, <3>2, RegistryChanged
  <2> QED
    BY <1>6, <2>1, <2>2
<1>8. Calm(t)
  <2>1. \A x \in Ctx : /\ x \in t.susp => x # Main /\ t.status[x] \in {"Ready", "Sleeping"}
                       /\ x \in t.blk => x # Main /\ t.status[x] = "Sleeping"
                       /\ t.status[x] = "Running" => t.running = x
                       /\ t.joiner[x] = NoCtx
    BY <1>0, <1>6 DEF Calm, SameLinks
  <2>2. t.stdin = NoCtx
    BY <1>6 DEF Calm
  <2> QED
    BY <1>5, <1>7, <2>1, <2>2 DEF Calm
<1>9. CASE t.status = s.status
  <2>1. Roused(s, t, {})
    BY <1>6, <1>9 DEF Roused, SameLinks
  <2> QED
    BY <1>8, <2>1
<1>10. CASE s.status[v] = "Sleeping" /\ v \notin s.blk /\ t.status = [s.status EXCEPT ![v] = "Ready"]
  <2>1. Roused(s, t, {v})
    BY <1>0, <1>6, <1>10 DEF Roused, SameLinks
  <2>2. {v} \in SUBSET Ctx /\ {v} \cap s.blk = {}
    BY <1>0, <1>10
  <2> QED
    BY <1>8, <2>1, <2>2
<1> QED
  BY <1>6, <1>9, <1>10

\* coroutine-release of a dead coroutine.
LEMMA ReleaseCalm ==
  ASSUME NEW s, Calm(s), NEW v \in s.reg, s.status[v] = "Dead"
  PROVE  LET t == coroutine_free_context(s, v)
         IN  /\ Calm(t)
             /\ t.status = s.status /\ t.cont = s.cont /\ t.blk = s.blk /\ t.left = s.left
             /\ t.running = s.running /\ t.reg = s.reg \ {v}
<1> DEFINE t == coroutine_free_context(s, v)
<1>0. s \in SchedType /\ v \in Ctx /\ s.free \in Seq(Ctx) /\ s.reg \subseteq Ctx
  BY Fields DEF Calm
<1>1. /\ t \in SchedType
      /\ t.reg = s.reg \ {v} /\ t.free = <<v>> \o s.free
      /\ t.status = s.status /\ t.susp = s.susp /\ t.blk = s.blk
      /\ t.hi = s.hi /\ t.left = s.left
      /\ t.high = s.high /\ t.norm = s.norm /\ t.timers = s.timers
      /\ t.stdin = s.stdin /\ t.joiner = s.joiner
      /\ t.running = s.running /\ t.cont = s.cont
  <2>1. t \in SchedType
    BY <1>0, FreeContextType
  <2> QED
    BY <2>1 DEF coroutine_free_context, SchedType
<1> HIDE DEF t
<1>2. Lists(t)
  BY <1>0, <1>1, SameLists DEF Calm
<1>3. Registered(t)
  <2>0. Registered(s)
    BY DEF Calm
  <2>1. v \notin Elems(s.free) /\ NoDup(s.free)
    BY <2>0 DEF Registered
  <2>2. NoDup(t.free) /\ Elems(t.free) = Elems(s.free) \cup {v}
    BY <1>0, <1>1, <2>1, ConsList
  <2>3. \A c \in Ctx : Alive(t, c) => c \in t.reg
    BY <1>1, <2>0 DEF Registered, Alive
  <2>4. Main \in t.reg /\ Alive(t, Main)
    BY <1>1, <2>0 DEF Registered, Alive
  <2>5. \A c \in t.reg : t.status[c] # "Unborn"
    <3>1. \A c \in s.reg : s.status[c] # "Unborn"
      BY <2>0, Zenon DEF Registered
    <3>2. t.reg \subseteq s.reg /\ t.status = s.status
      BY <1>1
    <3> QED
      BY <3>1, <3>2
  <2>6. \A c \in Elems(t.free) : t.status[c] = "Dead" /\ c \notin t.reg
    <3>1. \A c \in Elems(s.free) : s.status[c] = "Dead" /\ c \notin s.reg
      BY <2>0, Zenon DEF Registered
    <3> QED
      BY <1>1, <2>2, <3>1
  <2> QED
    BY <2>2, <2>3, <2>4, <2>5, <2>6 DEF Registered
<1>4. Calm(t)
  BY <1>1, <1>2, <1>3 DEF Calm
<1>5. /\ Calm(t)
      /\ t.status = s.status /\ t.cont = s.cont /\ t.blk = s.blk /\ t.left = s.left
      /\ t.running = s.running /\ t.reg = s.reg \ {v}
  BY <1>1, <1>4
<1> QED
  BY <1>5 DEF t

\* timer_sweep_expired makes the head of the timer list ready.
LEMMA SweepCalm ==
  ASSUME NEW s, Calm(s), HeadExpired(s)
  PROVE  /\ Calm(SweepHead(s))
         /\ \E v \in Ctx : /\ v \notin s.blk /\ s.left[v] = 0
                           /\ Roused(s, SweepHead(s), {v})
<1> DEFINE v == Head(s.timers)
           w == [s EXCEPT !.timers = Tail(@), !.stdin  = IF @ = v THEN NoCtx ELSE @]
           u == [w EXCEPT !.status[v] = "Ready"]
           t == ready_queue_push(u, v)
           R == Runnable(s)
           T == TimedSleepers(s)
<1>0. /\ s \in SchedType /\ Listed(s, R, T)
      /\ s.status \in [Ctx -> Statuses] /\ s.timers # << >> /\ s.left[v] = 0
      /\ Tail(s.timers) \in Seq(Ctx) /\ v \in Elems(s.timers) /\ v \in Ctx
  BY Fields, TailList DEF Calm, Lists, HeadExpired
<1>1. v \in T /\ v \notin R /\ s.status[v] = "Sleeping" /\ v \notin s.blk /\ v \notin s.susp
  BY <1>0 DEF Listed, TimedSleepers, Runnable
<1>2. SweepHead(s) = t
  BY <1>1 DEF SweepHead
<1> HIDE DEF v
<1>3. /\ w \in SchedType /\ SamePrograms(s, w) /\ SameLinks(s, w)
      /\ w.status = s.status /\ w.susp = s.susp /\ w.blk = s.blk /\ w.hi = s.hi
      /\ w.left = s.left /\ w.high = s.high /\ w.norm = s.norm
      /\ w.timers = Tail(s.timers) /\ w.stdin = NoCtx
  <2>1. s.stdin = NoCtx
    BY DEF Calm
  <2>2. w = [s EXCEPT !.timers = Tail(s.timers), !.stdin = NoCtx]
    BY <1>0, <2>1 DEF SchedType
  <2> HIDE DEF w
  <2>3. w \in SchedType
    BY <1>0, <2>2 DEF SchedType, CtxOrNone
  <2> QED
    BY <1>0, <2>2, <2>3 DEF SchedType, SamePrograms, SameLinks
<1> HIDE DEF w
<1>4. /\ u \in SchedType /\ SamePrograms(w, u) /\ SameLinks(w, u)
      /\ u.status = [w.status EXCEPT ![v] = "Ready"] /\ u.susp = w.susp /\ u.blk = w.blk
      /\ u.hi = w.hi /\ u.left = w.left /\ u.high = w.high /\ u.norm = w.norm
      /\ u.timers = w.timers /\ u.stdin = w.stdin
  BY <1>0, <1>3 DEF SchedType, Statuses, SamePrograms, SameLinks
<1> HIDE DEF u
<1>5. t \in SchedType /\ SamePrograms(u, t) /\ SameLinks(u, t) /\ SameFlags(u, t)
  BY <1>0, <1>4, PushType, PushFrame
<1> HIDE DEF R, T
<1>6. Listed(t, R \cup {v}, T \ {v})
  <2>1. Listed(u, R, T \ {v})
    <3>1. /\ u.timers = Tail(s.timers) /\ u.high = s.high /\ u.norm = s.norm
          /\ u.hi = s.hi /\ u.left = s.left
      BY <1>3, <1>4
    <3> QED
      BY <1>0, <1>4, <3>1, PopTimerListed DEF v
  <2> QED
    BY <1>0, <1>1, <1>4, <2>1, PushListed
<1> HIDE DEF t
<1>7. /\ SamePrograms(s, t) /\ SameLinks(s, t)
      /\ \A x \in Ctx : t.status[x] = IF x = v THEN "Ready" ELSE s.status[x]
      /\ t.susp = s.susp /\ t.blk = s.blk
      /\ t.left = s.left /\ t.stdin = NoCtx
  BY <1>0, <1>3, <1>4, <1>5 DEF SamePrograms, SameLinks, SameFlags
<1>8. Runnable(t) = R \cup {v} /\ TimedSleepers(t) = T \ {v}
  BY <1>0, <1>1, <1>7 DEF Runnable, TimedSleepers, R, T
<1>9. Registered(t)
  <2>1. Registered(s) /\ t.reg = s.reg /\ t.free = s.free
    BY <1>7 DEF Calm, SamePrograms
  <2>2. Alive(s, v) /\ Alive(t, v) /\ \A x \in Ctx \ {v} : t.status[x] = s.status[x]
    BY <1>0, <1>1, <1>7 DEF Alive
  <2> QED
    BY <1>0, <1>5, <2>1, <2>2, RegistryChanged
<1>10. Calm(t)
  <2>1. \A x \in Ctx : /\ x \in t.susp => x # Main /\ t.status[x] \in {"Ready", "Sleeping"}
                       /\ x \in t.blk => x # Main /\ t.status[x] = "Sleeping"
                       /\ t.status[x] = "Running" => t.running = x
                       /\ t.joiner[x] = NoCtx
    BY <1>0, <1>1, <1>7 DEF Calm, SameLinks
  <2>2. Lists(t)
    BY <1>6, <1>8 DEF Lists
  <2> QED
    BY <1>5, <1>7, <1>9, <2>1, <2>2 DEF Calm
<1>11. Roused(s, t, {v})
  BY <1>0, <1>1, <1>7 DEF Roused, SameLinks
<1> QED
  BY <1>0, <1>1, <1>2, <1>10, <1>11

\* The next coroutine of the ready queues runs.
LEMMA LoadCalm ==
  ASSUME NEW s, Calm(s), s.running = NoCtx, SomeReady(s)
  PROVE  LET t == LoadNext(s)
         IN  /\ Calm(t) /\ Loaded(t)
             /\ SamePrograms(s, t) /\ t.left = s.left /\ t.blk = s.blk
             /\ \E v \in Ctx : /\ s.status[v] = "Ready"
                               /\ t.status = [s.status EXCEPT ![v] = "Running"]
<1> DEFINE R == Runnable(s)
           T == TimedSleepers(s)
           Done(t) == /\ Calm(t) /\ Loaded(t)
                      /\ SamePrograms(s, t) /\ t.left = s.left /\ t.blk = s.blk
                      /\ \E v \in Ctx : /\ s.status[v] = "Ready"
                                        /\ t.status = [s.status EXCEPT ![v] = "Running"]
<1>0. /\ s \in SchedType /\ Listed(s, R, T)
      /\ s.status \in [Ctx -> Statuses]
  BY Fields DEF Calm, Lists
<1>1. ASSUME NEW v, NEW u \in SchedType, SamePrograms(s, u), SameLinks(s, u), SameFlags(s, u),
             v \in R, Listed(u, R \ {v}, T)
      PROVE  Done(coroutine_load(u, v))
  <2> DEFINE t == coroutine_load(u, v)
  <2>1. v \in Ctx /\ s.status[v] = "Ready" /\ v \notin s.susp
    BY <1>1 DEF Runnable
  <2>2. t \in SchedType
    BY <1>1, <2>1, LoadType
  <2>3. /\ t.cont = u.cont /\ t.on = u.on /\ t.reg = u.reg /\ t.free = u.free
        /\ t.joiner = u.joiner /\ t.live = u.live /\ t.running = v
        /\ t.status = [u.status EXCEPT ![v] = "Running"] /\ t.susp = u.susp /\ t.blk = u.blk
        /\ t.stdin = u.stdin /\ t.left = u.left /\ t.hi = u.hi
        /\ t.high = u.high /\ t.norm = u.norm /\ t.timers = u.timers
    BY <1>1 DEF coroutine_load, SchedType
  <2> HIDE DEF t
  <2>4. /\ SamePrograms(s, t)
        /\ t.joiner = s.joiner /\ t.running = v
        /\ t.status = [s.status EXCEPT ![v] = "Running"] /\ t.susp = s.susp /\ t.blk = s.blk
        /\ t.stdin = s.stdin /\ t.left = s.left
    BY <1>1, <2>3 DEF SamePrograms, SameLinks, SameFlags
  <2>5. \A x \in Ctx : t.status[x] = IF x = v THEN "Running" ELSE s.status[x]
    BY <1>0, <2>4
  <2>6. Listed(t, R \ {v}, T)
    BY <1>1, <2>2, <2>3, SameListed
  <2>7. Runnable(t) = R \ {v} /\ TimedSleepers(t) = T
    BY <1>0, <2>1, <2>4, <2>5 DEF Runnable, TimedSleepers
  <2>8. Registered(t)
    <3>1. Registered(s) /\ t.reg = s.reg /\ t.free = s.free
      BY <2>4 DEF Calm, SamePrograms
    <3>2. Alive(s, v) /\ Alive(t, v) /\ \A x \in Ctx \ {v} : t.status[x] = s.status[x]
      BY <2>1, <2>5 DEF Alive
    <3> QED
      BY <1>0, <2>1, <2>2, <3>1, <3>2, RegistryChanged
  <2>9. Calm(t)
    <3>0. v \notin s.blk /\ \A x \in Ctx : s.status[x] # "Running"
      BY <2>1, CtxAssumption DEF Calm
    <3>1. \A x \in Ctx : /\ x \in t.susp => x # Main /\ t.status[x] \in {"Ready", "Sleeping"}
                         /\ x \in t.blk => x # Main /\ t.status[x] = "Sleeping"
                         /\ t.status[x] = "Running" => t.running = x
                         /\ t.joiner[x] = NoCtx
      <4>1. SUFFICES ASSUME NEW x \in Ctx
                     PROVE  /\ x \in t.susp => x # Main /\ t.status[x] \in {"Ready", "Sleeping"}
                            /\ x \in t.blk => x # Main /\ t.status[x] = "Sleeping"
                            /\ t.status[x] = "Running" => t.running = x
                            /\ t.joiner[x] = NoCtx
        OBVIOUS
      <4>2. CASE x = v
        BY <2>1, <2>4, <3>0, <4>2 DEF Calm
      <4>3. CASE x # v
        BY <2>4, <2>5, <3>0, <4>3 DEF Calm
      <4> QED
        BY <4>2, <4>3
    <3>2. Lists(t)
      BY <2>6, <2>7 DEF Lists
    <3> QED
      BY <2>2, <2>4, <2>8, <3>1, <3>2 DEF Calm
  <2>10. Loaded(t)
    BY <2>1, <2>4, <2>5 DEF Loaded
  <2> QED
    BY <2>1, <2>4, <2>9, <2>10 DEF t
<1> HIDE DEF R, T, Done
<1>2. CASE s.high # << >>
  <2> DEFINE u == [s EXCEPT !.high = Tail(@)]
             v == Head(s.high)
  <2>1. Tail(s.high) \in Seq(Ctx)
    BY <1>0, <1>2, Fields, TailList
  <2>2. /\ u \in SchedType /\ SamePrograms(s, u) /\ SameLinks(s, u) /\ SameFlags(s, u)
        /\ u.high = Tail(s.high) /\ u.norm = s.norm /\ u.timers = s.timers
        /\ u.hi = s.hi /\ u.left = s.left
    BY <1>0, <2>1 DEF SchedType, SamePrograms, SameLinks, SameFlags
  <2>3. LoadNext(s) = coroutine_load(u, v)
    BY <1>2 DEF LoadNext
  <2> HIDE DEF u
  <2>4. v \in R /\ Listed(u, R \ {v}, T)
    BY <1>0, <1>2, <2>2, PopListed
  <2> QED
    BY <1>1, <2>2, <2>3, <2>4 DEF Done
<1>3. CASE s.high = << >>
  <2> DEFINE u == [s EXCEPT !.norm = Tail(@)]
             v == Head(s.norm)
  <2>0. s.norm # << >>
    BY <1>3 DEF SomeReady
  <2>1. Tail(s.norm) \in Seq(Ctx) /\ Tail(s.norm) # s.norm
    BY <1>0, <2>0, Fields, TailList, TailShorter
  <2>2. /\ u \in SchedType /\ SamePrograms(s, u) /\ SameLinks(s, u) /\ SameFlags(s, u)
        /\ u.norm = Tail(s.norm) /\ u.high = s.high /\ u.timers = s.timers
        /\ u.hi = s.hi /\ u.left = s.left
    BY <1>0, <2>1 DEF SchedType, SamePrograms, SameLinks, SameFlags
  <2>3. LoadNext(s) = coroutine_load(u, v)
    BY <1>3 DEF LoadNext
  <2> HIDE DEF u
  <2>4. v \in R /\ Listed(u, R \ {v}, T)
    BY <1>0, <2>0, <2>1, <2>2, PopListed
  <2> QED
    BY <1>1, <2>2, <2>3, <2>4 DEF Done
<1> QED
  BY <1>2, <1>3

\* The clock moves on.
LEMMA ElapseCalm ==
  ASSUME NEW s, Calm(s)
  PROVE  LET t == Elapse(s)
         IN  /\ Calm(t)
             /\ SamePrograms(s, t) /\ t.status = s.status /\ t.blk = s.blk
             /\ t.running = s.running
             /\ \A c \in Ctx : t.left[c] >= s.left[c] - 1 /\ t.left[c] >= 0
<1> DEFINE t == Elapse(s)
           R == Runnable(s)
           T == TimedSleepers(s)
<1>0. s \in SchedType /\ Listed(s, R, T) /\ t \in SchedType /\ s.left \in [Ctx -> 0..MaxSleep]
  BY ElapseType, Fields DEF Calm, Lists
<1>1. Listed(t, R, T)
  BY <1>0, ElapseListed
<1>2. /\ SamePrograms(s, t)
      /\ t.joiner = s.joiner /\ t.running = s.running
      /\ t.status = s.status /\ t.susp = s.susp /\ t.blk = s.blk /\ t.stdin = s.stdin
      /\ t.left = [c \in Ctx |-> IF c \in Elems(s.timers) /\ s.left[c] > 0
                                  THEN s.left[c] - 1 ELSE s.left[c]]
  BY <1>0 DEF Elapse, SchedType, SamePrograms
<1> HIDE DEF t
<1>3. \A c \in Ctx : t.left[c] >= s.left[c] - 1 /\ t.left[c] >= 0
  <2>1. SUFFICES ASSUME NEW c \in Ctx PROVE t.left[c] >= s.left[c] - 1 /\ t.left[c] >= 0
    OBVIOUS
  <2>2. s.left[c] \in 0..MaxSleep
    BY <1>0
  <2>3. (t.left[c] = s.left[c] - 1 /\ s.left[c] > 0) \/ t.left[c] = s.left[c]
    BY <1>2
  <2> QED
    BY <2>2, <2>3, SleepAssumption
<1>4. Runnable(t) = R /\ TimedSleepers(t) = T
  BY <1>2 DEF Runnable, TimedSleepers
<1>5. Lists(t)
  BY <1>1, <1>4 DEF Lists
<1>6. Registered(t)
  <2>1. Registered(s) /\ t.reg = s.reg /\ t.free = s.free
    BY <1>2 DEF Calm, SamePrograms
  <2>2. /\ \A c \in Ctx : t.status[c] = "Unborn" <=> s.status[c] = "Unborn"
        /\ \A c \in Ctx : t.status[c] = "Dead" <=> s.status[c] = "Dead"
    BY <1>2
  <2> QED
    BY <1>0, <2>1, <2>2, RegistryKept
<1>7. Calm(t)
  BY <1>0, <1>2, <1>5, <1>6 DEF Calm
<1>8. /\ Calm(t)
      /\ SamePrograms(s, t) /\ t.status = s.status /\ t.blk = s.blk
      /\ t.running = s.running
      /\ \A c \in Ctx : t.left[c] >= s.left[c] - 1 /\ t.left[c] >= 0
  BY <1>2, <1>3, <1>7
<1> QED
  BY <1>8 DEF t

\* Main is always runnable or in the timer list, so that the scheduler never
\* falls back to it.
LEMMA MainWaits ==
  ASSUME NEW s, Calm(s), s.running = NoCtx, ~SomeReady(s)
  PROVE  s.timers # << >>
<1>1. SUFFICES ASSUME s.timers = << >> PROVE FALSE
  OBVIOUS
<1>2. s \in SchedType /\ s.status \in [Ctx -> Statuses] /\ Main \in Ctx /\ NoCtx \notin Ctx
  BY Fields, CtxAssumption DEF Calm
<1>3. Elems(<< >>) = {}
  BY DEF Elems
<1>4. s.high = << >> /\ s.norm = << >>
  BY DEF SomeReady
<1>5. Runnable(s) = {} /\ TimedSleepers(s) = {}
  BY <1>1, <1>3, <1>4 DEF Calm, Lists, Listed
<1>6. s.status[Main] \in {"Sleeping", "Ready", "Running"}
  BY <1>2 DEF Calm, Registered, Alive, Statuses
<1>7. Main \notin s.susp /\ Main \notin s.blk /\ s.status[Main] # "Running"
  BY <1>2 DEF Calm
<1> QED
  BY <1>2, <1>5, <1>6, <1>7 DEF Runnable, TimedSleepers

LEMMA InitCalm == Calm(InitSched) /\ Loaded(InitSched)
<1> DEFINE s == InitSched
<1>0. s \in SchedType /\ Main \in Ctx /\ NoCtx \notin Ctx
  BY InitType, CtxAssumption
<1>1. /\ s.status = [c \in Ctx |-> IF c = Main THEN "Running" ELSE "Unborn"]
      /\ s.susp = {} /\ s.blk = {} /\ s.joiner = [c \in Ctx |-> NoCtx]
      /\ s.high = << >> /\ s.norm = << >> /\ s.timers = << >> /\ s.free = << >>
      /\ s.stdin = NoCtx /\ s.running = Main
      /\ s.reg = {Main}
  BY DEF InitSched
<1> HIDE DEF s
<1>2. s.status[Main] = "Running" /\ \A c \in Ctx \ {Main} : s.status[c] = "Unborn"
  BY <1>0, <1>1
<1>3. NoDup(<< >>) /\ Elems(<< >>) = {} /\ Sorted(<< >>, s.left)
  BY DEF NoDup, Elems, Sorted
<1>4. Registered(s)
  BY <1>0, <1>1, <1>2, <1>3 DEF Registered, Alive
<1>5. Lists(s)
  <2>1. Runnable(s) = {} /\ TimedSleepers(s) = {}
    BY <1>2 DEF Runnable, TimedSleepers
  <2> QED
    BY <1>1, <1>3, <2>1 DEF Lists, Listed
<1>6. Calm(s) /\ Loaded(s)
  BY <1>0, <1>1, <1>2, <1>4, <1>5 DEF Calm, Loaded
<1> QED
  BY <1>6 DEF s

-----------------------------------------------------------------------------
(* Pending operators and mailboxes.  A step goes from s, m, o, d to t, n, p, e. *)

\* What a pending operator can be.
LEMMA OpCases ==
  ASSUME NEW q \in Ops
  PROVE  /\ q.k \in {"none", "send", "recv", "match"}
         /\ q.k = "send" => q.to \in Ctx /\ q.msg \in Msg
         /\ q.k = "recv" => q.timed \in BOOLEAN /\ q = RecvOp(q.timed)
         /\ q.k = "match" => /\ q.timed \in BOOLEAN /\ q.scan \in -1..(Capacity - 1)
                             /\ q = MatchOp(q.timed, q.scan)
                             /\ \A i : [q EXCEPT !.scan = i] = MatchOp(q.timed, i)
<1>1. CASE q = NoOp
  BY <1>1 DEF NoOp
<1>2. ASSUME NEW a \in Ctx, NEW x \in Msg, q = SendOp(a, x)
      PROVE  q.k = "send" /\ q.to \in Ctx /\ q.msg \in Msg
  BY <1>2 DEF SendOp
<1>3. ASSUME NEW y \in BOOLEAN, q = RecvOp(y)
      PROVE  q.k = "recv" /\ q.timed \in BOOLEAN /\ q = RecvOp(q.timed)
  BY <1>3 DEF RecvOp
<1>4. ASSUME NEW y \in BOOLEAN, NEW j \in -1..(Capacity - 1), q = MatchOp(y, j)
      PROVE  /\ q.k = "match" /\ q.timed \in BOOLEAN /\ q.scan \in -1..(Capacity - 1)
             /\ q = MatchOp(q.timed, q.scan)
             /\ \A i : [q EXCEPT !.scan = i] = MatchOp(q.timed, i)
  BY <1>4 DEF MatchOp
<1> QED
  BY <1>1, <1>2, <1>3, <1>4 DEF Ops

LEMMA OpTypes ==
  /\ NoOp \in Ops /\ NoOp.k = "none"
  /\ \A a \in Ctx, x \in Msg : /\ SendOp(a, x) \in Ops /\ SendOp(a, x).k = "send"
                               /\ SendOp(a, x).to = a
  /\ \A y \in BOOLEAN : RecvOp(y) \in Ops /\ RecvOp(y).k = "recv"
  /\ \A y, i : MatchOp(y, i).k = "match" /\ MatchOp(y, i).scan = i /\ MatchOp(y, i).timed = y
  /\ \A y \in BOOLEAN, i \in -1..(Capacity - 1) : MatchOp(y, i) \in Ops
<1>1. NoOp \in Ops /\ NoOp.k = "none"
  BY DEF Ops, NoOp
<1>2. \A a \in Ctx, x \in Msg : SendOp(a, x) \in Ops
  BY DEF Ops
<1>3. \A a \in Ctx, x \in Msg : SendOp(a, x).k = "send" /\ SendOp(a, x).to = a
  BY DEF SendOp
<1>4. \A y \in BOOLEAN : RecvOp(y) \in Ops
  BY DEF Ops
<1>5. \A y \in BOOLEAN : RecvOp(y).k = "recv"
  BY DEF RecvOp
<1>6. \A y, i : MatchOp(y, i).k = "match" /\ MatchOp(y, i).scan = i /\ MatchOp(y, i).timed = y
  BY DEF MatchOp
<1>7. \A y \in BOOLEAN, i \in -1..(Capacity - 1) : MatchOp(y, i) \in Ops
  BY DEF Ops
<1> QED
  BY <1>1, <1>2, <1>3, <1>4, <1>5, <1>6, <1>7

LEMMA MailFields ==
  ASSUME NEW m \in MailType
  PROVE  /\ m.queue \in [Ctx -> Seq(Msg)]
         /\ m.reader \in [Ctx -> CtxOrNone]
         /\ m.chain \in [Ctx -> Seq(Ctx)]
  BY SMTT(40) DEF MailType

\* Taking a message out.
LEMMA RemoveAtType ==
  ASSUME NEW q \in Seq(Msg), NEW i \in 1..Len(q)
  PROVE  RemoveAt(q, i) \in Seq(Msg) /\ Len(RemoveAt(q, i)) = Len(q) - 1
<1>1. /\ SubSeq(q, 1, i - 1) \in Seq(Msg) /\ Len(SubSeq(q, 1, i - 1)) = i - 1
      /\ SubSeq(q, i + 1, Len(q)) \in Seq(Msg) /\ Len(SubSeq(q, i + 1, Len(q))) = Len(q) - i
  OBVIOUS
<1>2. \A x, y \in Seq(Msg) : x \o y \in Seq(Msg) /\ Len(x \o y) = Len(x) + Len(y)
  OBVIOUS
<1>3. (i - 1) + (Len(q) - i) = Len(q) - 1
  OBVIOUS
<1>4. RemoveAt(q, i) = SubSeq(q, 1, i - 1) \o SubSeq(q, i + 1, Len(q))
  BY DEF RemoveAt
<1> QED
  BY <1>1, <1>2, <1>3, <1>4

\* A coroutine that has no operator pending.
LEMMA IdleAlone ==
  ASSUME NEW t, NEW n, NEW p, NEW e, NEW c,
         p[c].k = "none", n.reader[c] = NoCtx, Len(n.queue[c]) <= Capacity
  PROVE  Alone(t, n, p, e, c)
  BY DEF Alone, Pending, Scans, Registers, Listens, OnTime

\* A coroutine whose operator and mailbox a step leaves alone, and which the
\* step wakes or moves on at most.
LEMMA KeptAlone ==
  ASSUME NEW s, NEW m, NEW o, NEW d, NEW t, NEW n, NEW p, NEW e, NEW c,
         Alone(s, m, o, d, c),
         p[c] = o[c], t.cont[c] = s.cont[c],
         n.queue[c] = m.queue[c], n.reader[c] = m.reader[c],
         \/ t.status[c] = s.status[c]
         \/ /\ s.status[c] \in {"Sleeping", "Ready", "Running"}
            /\ t.status[c] \in {"Ready", "Running"},
         t.status[c] = "Sleeping" /\ c \notin t.blk
           => c \notin s.blk /\ (d[c] <= s.left[c] => e[c] <= t.left[c]),
         o[c].k = "send" /\ o[c].to \in s.reg => o[c].to \in t.reg
  PROVE  Alone(t, n, p, e, c)
<1>1. Pending(t, p, c)
  BY DEF Alone, Pending
<1>2. t.status[c] = "Sleeping" => s.status[c] = "Sleeping"
  OBVIOUS
<1>3. Scans(t, n, p, c)
  <2>1. SUFFICES ASSUME p[c].k = "match" /\ p[c].scan >= 0 PROVE Scans(t, n, p, c)
    BY DEF Scans
  <2>2. /\ s.status[c] # "Sleeping"
        /\ o[c].scan < Len(m.queue[c])
        /\ \A i \in 1..o[c].scan : m.queue[c][i] \notin Matching
    BY <2>1 DEF Alone, Scans
  <2>3. t.status[c] # "Sleeping"
    BY <1>2, <2>2
  <2> QED
    BY <2>2, <2>3 DEF Scans
<1>4. Registers(t, n, p, c)
  BY DEF Alone, Registers
<1>5. Listens(t, n, p, c)
  BY <1>2 DEF Alone, Listens
<1>6. OnTime(t, p, e, c)
  BY <1>2 DEF Alone, OnTime
<1> QED
  BY <1>1, <1>3, <1>4, <1>5, <1>6 DEF Alone

\* The coroutines of X leave the chains; the other parked senders are left as
\* they are.
Shrunk(s, m, o, t, n, p, X) ==
  /\ \A a \in Ctx : NoDup(n.chain[a]) /\ Elems(n.chain[a]) = Elems(m.chain[a]) \ X
  /\ \A c \in s.blk \ X : o[c].k = "send" =>
                             t.status[c] = s.status[c] /\ c \in t.blk /\ p[c] = o[c]
  /\ \A a \in Ctx : t.status[a] = "Dead" => s.status[a] = "Dead" \/ n.chain[a] = << >>
  /\ \A c \in t.blk : n.reader[c] = c \/ (c \in s.blk \ X /\ m.reader[c] # c)
  /\ \A c \in s.blk : o[c].k = "send" => o[c].to \in Ctx

LEMMA ChainsShrink ==
  ASSUME NEW s, NEW m, NEW o, NEW t, NEW n, NEW p, NEW X,
         Chained(s, m, o), Shrunk(s, m, o, t, n, p, X)
  PROVE  Chained(t, n, p)
<1>1. ASSUME NEW a \in Ctx, NEW c \in Elems(n.chain[a])
      PROVE  ParkedAt(t, p, c, a)
  <2>1. c \in Elems(m.chain[a]) /\ c \notin X
    BY <1>1 DEF Shrunk
  <2>2. ParkedAt(s, o, c, a)
    BY <2>1 DEF Chained
  <2>3. t.status[a] # "Dead"
    <3>1. Elems(<< >>) = {}
      BY DEF Elems
    <3> QED
      BY <1>1, <2>2, <3>1 DEF ParkedAt, Shrunk
  <2> QED
    BY <2>1, <2>2, <2>3 DEF ParkedAt, Chained, Shrunk
<1>2. ASSUME NEW c \in t.blk, n.reader[c] # c
      PROVE  p[c].k = "send" /\ c \in Elems(n.chain[p[c].to])
  <2>1. c \in s.blk \ X /\ m.reader[c] # c
    BY <1>2 DEF Shrunk
  <2>2. o[c].k = "send" /\ c \in Elems(m.chain[o[c].to])
    BY <2>1 DEF Chained
  <2> QED
    BY <2>1, <2>2 DEF Shrunk
<1> QED
  BY <1>1, <1>2 DEF Chained, Shrunk

\* Nobody leaves a chain.
LEMMA ChainsStay ==
  ASSUME NEW s, NEW m, NEW o, NEW t, NEW n, NEW p, Chained(s, m, o), n.chain = m.chain,
         \A c \in s.blk : o[c].k = "send" =>
                            t.status[c] = s.status[c] /\ c \in t.blk /\ p[c] = o[c],
         \A a \in Ctx : t.status[a] = "Dead" => s.status[a] = "Dead",
         \A c \in t.blk : n.reader[c] = c \/ (c \in s.blk /\ m.reader[c] # c)
  PROVE  Chained(t, n, p)
<1>1. ASSUME NEW a \in Ctx, NEW c \in Elems(n.chain[a])
      PROVE  ParkedAt(t, p, c, a)
  <2>1. ParkedAt(s, o, c, a)
    BY <1>1 DEF Chained
  <2> QED
    BY <2>1 DEF ParkedAt
<1>2. ASSUME NEW c \in t.blk, n.reader[c] # c
      PROVE  p[c].k = "send" /\ c \in Elems(n.chain[p[c].to])
  BY <1>2 DEF Chained
<1> QED
  BY <1>1, <1>2 DEF Chained

\* c parks in a send to a.
Grown(s, m, o, t, n, p, c, a) ==
  /\ m \in MailType /\ c \in Ctx /\ a \in Ctx /\ s.blk \subseteq Ctx
  /\ s.status[c] # "Sleeping" /\ t.status[c] = "Sleeping" /\ s.status[a] # "Dead"
  /\ n.chain = [m.chain EXCEPT ![a] = Append(@, c)] /\ n.reader = m.reader
  /\ \A x \in Ctx \ {c} : t.status[x] = s.status[x] /\ p[x] = o[x]
  /\ t.blk = s.blk \cup {c}
  /\ p[c].k = "send" /\ p[c].to = a
  /\ \A x \in s.blk : o[x].k = "send" => o[x].to \in Ctx

LEMMA ChainsGrow ==
  ASSUME NEW s, NEW m, NEW o, NEW t, NEW n, NEW p, NEW c, NEW a,
         Chained(s, m, o), Grown(s, m, o, t, n, p, c, a)
  PROVE  Chained(t, n, p)
<1> USE DEF Grown
<1>0. m.chain \in [Ctx -> Seq(Ctx)]
  BY MailFields
<1>1. \A b \in Ctx : c \notin Elems(m.chain[b]) /\ Elems(m.chain[b]) \subseteq Ctx
  BY <1>0 DEF Chained, ParkedAt, Elems
<1>2. \A b \in Ctx : n.chain[b] = IF b = a THEN Append(m.chain[a], c) ELSE m.chain[b]
  BY <1>0
<1>3. /\ NoDup(n.chain[a])
      /\ Elems(n.chain[a]) = Elems(m.chain[a]) \cup {c}
  BY <1>0, <1>1, <1>2, AppendList DEF Chained
<1>4. ASSUME NEW b \in Ctx, NEW x \in Elems(n.chain[b])
      PROVE  ParkedAt(t, p, x, b)
  <2>1. t.status[b] # "Dead" \/ s.status[b] = "Dead"
    OBVIOUS
  <2>2. CASE x = c
    <3>1. b = a
      BY <1>1, <1>2, <2>2
    <3> QED
      BY <2>1, <2>2, <3>1 DEF ParkedAt
  <2>3. CASE x # c
    <3>1. x \in Elems(m.chain[b]) /\ x \in Ctx
      BY <1>1, <1>2, <1>3, <2>3
    <3>2. ParkedAt(s, o, x, b)
      BY <3>1 DEF Chained
    <3> QED
      BY <2>1, <2>3, <3>1, <3>2 DEF ParkedAt
  <2> QED
    BY <2>2, <2>3
<1>5. ASSUME NEW x \in t.blk, n.reader[x] # x
      PROVE  p[x].k = "send" /\ x \in Elems(n.chain[p[x].to])
  <2>1. CASE x = c
    BY <1>3, <2>1
  <2>2. CASE x # c
    <3>1. x \in s.blk /\ x \in Ctx /\ p[x] = o[x]
      BY <2>2
    <3>2. o[x].k = "send" /\ x \in Elems(m.chain[o[x].to]) /\ o[x].to \in Ctx
      BY <1>5, <3>1 DEF Chained
    <3>3. Elems(m.chain[o[x].to]) \subseteq Elems(n.chain[o[x].to])
      BY <1>2, <1>3, <3>2
    <3> QED
      BY <3>1, <3>2, <3>3
  <2> QED
    BY <2>1, <2>2
<1>6. \A b \in Ctx : NoDup(n.chain[b])
  BY <1>2, <1>3 DEF Chained
<1> QED
  BY <1>4, <1>5, <1>6 DEF Chained

\* The addressee of a pending send is a coroutine.
LEMMA Addressees ==
  ASSUME NEW s, NEW m, NEW o, NEW d, Typed(m, o, d), s \in SchedType
  PROVE  \A c \in s.blk : o[c].k = "send" => o[c].to \in Ctx
  BY OpCases, Fields DEF Typed

\* No operator is pending in a coroutine that executes its own procedure.
LEMMA ProcIdle ==
  ASSUME NEW s, NEW m, NEW o, NEW d, Inv(s, m, o, d), NEW c \in Ctx, s.cont[c] = "proc"
  PROVE  o[c].k = "none" /\ m.reader[c] = NoCtx
  BY DEF Inv, Sane, Alone, Pending, Registers

-----------------------------------------------------------------------------
(* What keeps the invariant. *)

\* Waking does not disturb the coroutine that runs.
LEMMA RousedLoaded ==
  ASSUME NEW s, NEW t, NEW X, Calm(s), Loaded(s), Roused(s, t, X)
  PROVE  Loaded(t)
<1>1. s.running \in Ctx \/ s.running = NoCtx
  BY Fields DEF Calm, CtxOrNone
<1> QED
  BY <1>1 DEF Loaded, Roused

\* A coroutine that is merely woken: for the sake of whatever is still pending
\* in it, it does not matter why.
LEMMA RousedAlone ==
  ASSUME NEW s, NEW m, NEW o, NEW d, NEW t, NEW n, NEW p, NEW e, NEW X, NEW c \in Ctx,
         Alone(s, m, o, d, c), Roused(s, t, X),
         p[c] = o[c], e[c] = d[c], n.queue[c] = m.queue[c], n.reader[c] = m.reader[c]
  PROVE  Alone(t, n, p, e, c)
<1>1. /\ t.cont[c] = s.cont[c] /\ t.left[c] = s.left[c] /\ t.reg = s.reg
      /\ t.blk = s.blk \ X
      /\ t.status[c] = IF c \in X /\ s.status[c] = "Sleeping" THEN "Ready" ELSE s.status[c]
  BY DEF Roused, SamePrograms
<1>2. t.status[c] = "Sleeping" /\ c \notin t.blk
        => c \notin s.blk /\ (d[c] <= s.left[c] => e[c] <= t.left[c])
  BY <1>1
<1>3. \/ t.status[c] = s.status[c]
      \/ /\ s.status[c] \in {"Sleeping", "Ready", "Running"}
         /\ t.status[c] \in {"Ready", "Running"}
  BY <1>1
<1> QED
  BY <1>1, <1>2, <1>3, KeptAlone

\* Waking coroutines that are not blocked, as the timer sweep and
\* coroutine-resume do.
LEMMA RouseInv ==
  ASSUME NEW s, NEW m, NEW o, NEW d, Inv(s, m, o, d),
         NEW t, Calm(t), NEW X \in SUBSET Ctx, X \cap s.blk = {}, Roused(s, t, X)
  PROVE  Inv(t, m, o, d)
<1>0. Calm(s) /\ Loaded(s) /\ Typed(m, o, d) /\ Chained(s, m, o) /\ s.blk \subseteq Ctx
  BY Fields DEF Inv, Sane, Calm
<1>1. Loaded(t)
  BY <1>0, RousedLoaded
<1>2. \A c \in Ctx : Alone(t, m, o, d, c)
  BY RousedAlone DEF Inv, Sane
<1>3. /\ t.blk = s.blk
      /\ \A c \in s.blk : t.status[c] = s.status[c]
      /\ \A a \in Ctx : t.status[a] = "Dead" => s.status[a] = "Dead"
  BY <1>0 DEF Roused
<1>4. Chained(t, m, o)
  BY <1>0, <1>3, ChainsStay
<1> QED
  BY <1>0, <1>1, <1>2, <1>4 DEF Inv, Sane

\* A coroutine loses the processor, or is given it, at the operator where it
\* stands: a yield and a load.
LEMMA TurnInv ==
  ASSUME NEW s, NEW m, NEW o, NEW d, Inv(s, m, o, d),
         NEW t, Calm(t), Loaded(t), t.blk = s.blk, t.reg = s.reg, NEW c \in Ctx,
         s.status[c] \in {"Ready", "Running"}, t.status[c] \in {"Ready", "Running"},
         \A x \in Ctx : /\ t.cont[x] = s.cont[x]
                        /\ x # c => t.status[x] = s.status[x] /\ t.left[x] = s.left[x]
  PROVE  Inv(t, m, o, d)
<1>0. Calm(s) /\ Typed(m, o, d) /\ Chained(s, m, o) /\ s.blk \subseteq Ctx
  BY Fields DEF Inv, Sane, Calm
<1>1. ASSUME NEW x \in Ctx PROVE Alone(t, m, o, d, x)
  <2>1. \/ t.status[x] = s.status[x]
        \/ /\ s.status[x] \in {"Sleeping", "Ready", "Running"}
           /\ t.status[x] \in {"Ready", "Running"}
    OBVIOUS
  <2>2. t.status[x] = "Sleeping" /\ x \notin t.blk
          => x \notin s.blk /\ (d[x] <= s.left[x] => d[x] <= t.left[x])
    OBVIOUS
  <2>3. Alone(s, m, o, d, x)
    BY DEF Inv, Sane
  <2> QED
    BY <2>1, <2>2, <2>3, KeptAlone
<1>2. c \notin s.blk
  BY <1>0 DEF Calm
<1>3. /\ \A x \in s.blk : t.status[x] = s.status[x]
      /\ \A a \in Ctx : t.status[a] = "Dead" => s.status[a] = "Dead"
  BY <1>0, <1>2
<1>4. Chained(t, m, o)
  BY <1>0, <1>3, ChainsStay
<1> QED
  BY <1>0, <1>1, <1>4 DEF Inv, Sane

\* actor_send_complete
LEMMA DeliverInv ==
  ASSUME NEW s, NEW m, NEW o, NEW d, Inv(s, m, o, d),
         NEW a \in Ctx, NEW x \in Msg, Len(m.queue[a]) < Capacity
  PROVE  LET st == actor_send_complete([s |-> s, m |-> m], a, x)
         IN  /\ Inv(st.s, st.m, o, d)
             /\ SamePrograms(s, st.s) /\ st.s.running = s.running
<1> DEFINE t == coroutine_wake(s, m.reader[a])
           n == [m EXCEPT !.queue[a] = Append(@, x), !.reader[a] = NoCtx]
           X == {m.reader[a]} \ {NoCtx}
<1>0. /\ Calm(s) /\ Loaded(s) /\ Typed(m, o, d) /\ Chained(s, m, o) /\ s.blk \subseteq Ctx
      /\ m \in MailType /\ m.queue \in [Ctx -> Seq(Msg)] /\ m.reader \in [Ctx -> CtxOrNone]
      /\ m.queue[a] \in Seq(Msg) /\ m.reader[a] \in CtxOrNone
  BY Fields, MailFields DEF Inv, Sane, Calm, Typed
<1>1. Calm(t) /\ Roused(s, t, X)
  BY <1>0, WakeCalm
<1>2. /\ n \in MailType
      /\ n.queue = [m.queue EXCEPT ![a] = Append(@, x)]
      /\ n.reader = [m.reader EXCEPT ![a] = NoCtx]
      /\ n.chain = m.chain
  <2>1. Append(m.queue[a], x) \in Seq(Msg) /\ NoCtx \in CtxOrNone
    BY <1>0 DEF CtxOrNone
  <2> QED
    BY <1>0, <2>1 DEF MailType
<1> HIDE DEF t, n
<1>3. m.reader[a] = NoCtx \/ m.reader[a] = a
  BY DEF Inv, Sane, Alone, Registers
<1>4. Loaded(t)
  BY <1>0, <1>1, RousedLoaded
<1>5. Alone(s, m, o, d, a)
  BY DEF Inv, Sane
<1>6. X \subseteq {a}
  BY <1>3
<1>7. /\ t.cont = s.cont /\ t.left = s.left /\ t.reg = s.reg /\ t.blk = s.blk \ X
      /\ \A c \in Ctx : t.status[c] = IF c \in X /\ s.status[c] = "Sleeping" THEN "Ready"
                                      ELSE s.status[c]
  BY <1>1 DEF Roused, SamePrograms
<1> HIDE DEF X
<1>8. Alone(t, n, o, d, a)
  <2>1. Pending(t, o, a)
    BY <1>5, <1>7 DEF Alone, Pending
  <2>2. t.status[a] = "Sleeping" => o[a].k \notin {"recv", "match"}
    BY <1>5, <1>7, CtxAssumption DEF Alone, Listens, X
  <2>3. Scans(t, n, o, a)
    <3>1. SUFFICES ASSUME o[a].k = "match" /\ o[a].scan >= 0 PROVE Scans(t, n, o, a)
      BY DEF Scans
    <3>2. /\ o[a].scan < Len(m.queue[a])
          /\ \A i \in 1..o[a].scan : m.queue[a][i] \notin Matching
      BY <1>5, <3>1 DEF Alone, Scans
    <3>3. /\ n.queue[a] = Append(m.queue[a], x) /\ Len(n.queue[a]) = Len(m.queue[a]) + 1
          /\ Len(m.queue[a]) \in Nat
          /\ \A i \in 1..Len(m.queue[a]) : n.queue[a][i] = m.queue[a][i]
      BY <1>0, <1>2
    <3>4. o[a].scan \in -1..(Capacity - 1)
      BY <1>0, <3>1, OpCases DEF Typed
    <3>5. o[a].scan < Len(n.queue[a]) /\ 1..o[a].scan \subseteq 1..Len(m.queue[a])
      BY <3>2, <3>3, <3>4, ActorAssumption
    <3>6. \A i \in 1..o[a].scan : n.queue[a][i] \notin Matching
      BY <3>2, <3>3, <3>5
    <3> QED
      BY <2>2, <3>1, <3>5, <3>6 DEF Scans
  <2>4. Registers(t, n, o, a)
    BY <1>0, <1>2 DEF Registers
  <2>5. Listens(t, n, o, a) /\ OnTime(t, o, d, a)
    BY <2>2 DEF Listens, OnTime
  <2>6. Len(n.queue[a]) <= Capacity
    BY <1>0, <1>2, ActorAssumption
  <2> QED
    BY <2>1, <2>3, <2>4, <2>5, <2>6 DEF Alone
<1>9. ASSUME NEW c \in Ctx PROVE Alone(t, n, o, d, c)
  <2>1. CASE c # a
    <3>1. n.queue[c] = m.queue[c] /\ n.reader[c] = m.reader[c] /\ Alone(s, m, o, d, c)
      BY <1>0, <1>2, <2>1 DEF Inv, Sane
    <3> QED
      BY <1>1, <3>1, RousedAlone
  <2> QED
    BY <1>8, <2>1
<1>10. Chained(t, n, o)
  <2>1. ASSUME NEW c \in s.blk, o[c].k = "send"
        PROVE  t.status[c] = s.status[c] /\ c \in t.blk
    <3>1. m.reader[c] = NoCtx
      BY <1>0, <2>1 DEF Inv, Sane, Alone, Registers
    <3>2. c \notin X
      BY <1>0, <1>6, <3>1 DEF X
    <3> QED
      BY <1>0, <1>7, <2>1, <3>2
  <2>2. \A c \in Ctx : t.status[c] = "Dead" => s.status[c] = "Dead"
    BY <1>7
  <2>3. ASSUME NEW c \in t.blk
        PROVE  n.reader[c] = c \/ (c \in s.blk /\ m.reader[c] # c)
    <3>1. c \in s.blk /\ c \notin X /\ c \in Ctx
      BY <1>0, <1>7, <2>3
    <3>2. CASE c = a
      BY <3>1, <3>2, CtxAssumption DEF X
    <3>3. CASE c # a
      BY <1>0, <1>2, <3>1, <3>3
    <3> QED
      BY <3>2, <3>3
  <2>4. Chained(s, m, o) /\ n.chain = m.chain
    BY <1>0, <1>2
  <2>5. \A c \in s.blk : o[c].k = "send" =>
                           t.status[c] = s.status[c] /\ c \in t.blk /\ o[c] = o[c]
    BY <2>1
  <2>6. \A c \in t.blk : n.reader[c] = c \/ (c \in s.blk /\ m.reader[c] # c)
    BY <2>3
  <2> QED
    BY ONLY <2>2, <2>4, <2>5, <2>6, ChainsStay
<1>11. Typed(n, o, d)
  BY <1>0, <1>2 DEF Typed
<1>12. SamePrograms(s, t) /\ t.running = s.running
  BY <1>1 DEF Roused
<1>13. actor_send_complete([s |-> s, m |-> m], a, x) = [s |-> t, m |-> n]
  BY DEF actor_send_complete, t, n
<1> QED
  BY <1>1, <1>4, <1>9, <1>10, <1>11, <1>12, <1>13 DEF Inv, Sane

\* The running coroutine has nothing pending any more.
LEMMA ForgetInv ==
  ASSUME NEW s, NEW m, NEW o, NEW d, Inv(s, m, o, d), NEW c \in Ctx, s.running = c,
         m.reader[c] = NoCtx
  PROVE  Inv(s, m, [o EXCEPT ![c] = NoOp], [d EXCEPT ![c] = 0])
<1> DEFINE p == [o EXCEPT ![c] = NoOp]
           e == [d EXCEPT ![c] = 0]
<1>0. /\ Calm(s) /\ Loaded(s) /\ Typed(m, o, d) /\ Chained(s, m, o) /\ s.blk \subseteq Ctx
      /\ o \in [Ctx -> Ops] /\ d \in [Ctx -> 0..MaxSleep]
  BY Fields DEF Inv, Sane, Calm, Typed
<1>1. /\ p \in [Ctx -> Ops] /\ e \in [Ctx -> 0..MaxSleep] /\ p[c].k = "none"
      /\ \A x \in Ctx \ {c} : p[x] = o[x] /\ e[x] = d[x]
  BY <1>0, OpTypes, SleepAssumption
<1> HIDE DEF p, e
<1>2. ASSUME NEW x \in Ctx PROVE Alone(s, m, p, e, x)
  <2>0. Alone(s, m, o, d, x)
    BY DEF Inv, Sane
  <2>1. CASE x = c
    BY <1>1, <2>0, <2>1, IdleAlone DEF Alone
  <2>2. CASE x # c
    BY <1>1, <2>0, <2>2, KeptAlone
  <2> QED
    BY <2>1, <2>2
<1>3. c \notin s.blk
  BY <1>0, RunsFree
<1>4. Chained(s, m, p)
  BY <1>0, <1>1, <1>3, ChainsStay
<1> QED
  BY <1>0, <1>1, <1>2, <1>4 DEF Inv, Sane, Typed, p, e

\* The running coroutine takes back its registration as a reader.
LEMMA UnregisterInv ==
  ASSUME NEW s, NEW m, NEW o, NEW d, Inv(s, m, o, d), NEW c \in Ctx, s.running = c
  PROVE  LET n == [m EXCEPT !.reader[c] = NoCtx]
         IN  /\ Inv(s, n, o, d) /\ n.reader[c] = NoCtx
             /\ n.queue = m.queue /\ n.chain = m.chain
<1> DEFINE n == [m EXCEPT !.reader[c] = NoCtx]
<1>0. /\ Calm(s) /\ Loaded(s) /\ Typed(m, o, d) /\ Chained(s, m, o) /\ s.blk \subseteq Ctx
      /\ m \in MailType /\ m.reader \in [Ctx -> CtxOrNone]
  BY Fields, MailFields DEF Inv, Sane, Calm, Typed
<1>1. /\ n \in MailType /\ n.queue = m.queue /\ n.chain = m.chain
      /\ n.reader = [m.reader EXCEPT ![c] = NoCtx]
  BY <1>0 DEF MailType, CtxOrNone
<1> HIDE DEF n
<1>2. c \notin s.blk /\ s.status[c] = "Running" /\ n.reader[c] = NoCtx
  BY <1>0, <1>1, RunsFree
<1>3. ASSUME NEW x \in Ctx PROVE Alone(s, n, o, d, x)
  <2>0. Alone(s, m, o, d, x)
    BY DEF Inv, Sane
  <2>1. CASE x = c
    BY <1>1, <1>2, <2>0, <2>1 DEF Alone, Pending, Scans, Registers, Listens, OnTime
  <2>2. CASE x # c
    <3>1. n.queue[x] = m.queue[x] /\ n.reader[x] = m.reader[x]
      BY <1>0, <1>1, <2>2
    <3> QED
      BY <2>0, <3>1, KeptAlone
  <2> QED
    BY <2>1, <2>2
<1>4. \A x \in s.blk : n.reader[x] = x \/ m.reader[x] # x
  BY <1>0, <1>1, <1>2
<1>5. Chained(s, n, o)
  BY <1>0, <1>1, <1>4, ChainsStay
<1> QED
  BY <1>0, <1>1, <1>2, <1>3, <1>5 DEF Inv, Sane, Typed, n

\* The running coroutine goes on with its procedure.
LEMMA ProceedInv ==
  ASSUME NEW s, NEW m, NEW o, NEW d, Inv(s, m, o, d), NEW c \in Ctx, s.running = c,
         o[c].k = "none"
  PROVE  Inv([s EXCEPT !.cont[c] = "proc"], m, o, d)
<1> DEFINE t == [s EXCEPT !.cont[c] = "proc"]
<1>0. /\ Calm(s) /\ Loaded(s) /\ Typed(m, o, d) /\ Chained(s, m, o) /\ s \in SchedType
      /\ s.cont \in [Ctx -> Conts]
  BY Fields DEF Inv, Sane, Calm
<1>1. Continues(s, t, c, "proc")
  BY <1>0 DEF Continues, SameState, SchedType, Conts
<1> HIDE DEF t
<1>2. Calm(t)
  BY <1>0, <1>1, ContinueCalm
<1>3. /\ t.status = s.status /\ t.blk = s.blk /\ t.left = s.left /\ t.reg = s.reg
      /\ t.running = s.running /\ \A x \in Ctx \ {c} : t.cont[x] = s.cont[x]
  BY <1>0, <1>1 DEF Continues, SameState
<1>4. ASSUME NEW x \in Ctx PROVE Alone(t, m, o, d, x)
  <2>0. Alone(s, m, o, d, x)
    BY DEF Inv, Sane
  <2>1. CASE x = c
    <3>1. m.reader[x] = NoCtx /\ Len(m.queue[x]) <= Capacity
      BY <2>0, <2>1 DEF Alone, Registers
    <3> QED
      BY <2>1, <3>1, IdleAlone
  <2>2. CASE x # c
    BY <1>3, <2>0, <2>2, KeptAlone
  <2> QED
    BY <2>1, <2>2
<1>5. Chained(t, m, o)
  BY <1>0, <1>3, ChainsStay
<1> QED
  BY <1>0, <1>2, <1>3, <1>4, <1>5 DEF Inv, Sane, Loaded, t

\* c empties slots of its mailbox and lets the coroutines of X out of its chain.
Frees(m, n, c, X) ==
  /\ n \in MailType
  /\ n.reader = m.reader
  /\ \A a \in Ctx \ {c} : n.queue[a] = m.queue[a] /\ n.chain[a] = m.chain[a]
  /\ Len(n.queue[c]) <= Capacity
  /\ X \subseteq Elems(m.chain[c])
  /\ NoDup(n.chain[c])
  /\ Elems(n.chain[c]) = Elems(m.chain[c]) \ X

LEMMA WakeParkedInv ==
  ASSUME NEW s, NEW m, NEW o, NEW d, Inv(s, m, o, d), NEW c \in Ctx, s.running = c,
         m.reader[c] = NoCtx, o[c].k = "none",
         NEW t, NEW n, NEW X, Calm(t), Roused(s, t, X), Frees(m, n, c, X)
  PROVE  Inv(t, n, o, d)
<1>0. /\ Calm(s) /\ Loaded(s) /\ Typed(m, o, d) /\ Chained(s, m, o) /\ s.blk \subseteq Ctx
      /\ s \in SchedType
  BY Fields DEF Inv, Sane, Calm
<1>1. Loaded(t)
  BY <1>0, RousedLoaded
<1>2. ASSUME NEW x \in Ctx PROVE Alone(t, n, o, d, x)
  <2>1. CASE x = c
    BY <2>1, IdleAlone DEF Frees
  <2>2. CASE x # c
    <3>1. n.queue[x] = m.queue[x] /\ n.reader[x] = m.reader[x] /\ Alone(s, m, o, d, x)
      BY <2>2 DEF Inv, Sane, Frees
    <3> QED
      BY <3>1, RousedAlone
  <2> QED
    BY <2>1, <2>2
<1>3. ASSUME NEW x \in X PROVE o[x].k = "send" /\ o[x].to = c
  BY <1>0 DEF Chained, ParkedAt, Frees
<1>4. ASSUME NEW a \in Ctx
      PROVE  NoDup(n.chain[a]) /\ Elems(n.chain[a]) = Elems(m.chain[a]) \ X
  <2>1. CASE a = c
    BY <2>1 DEF Frees
  <2>2. CASE a # c
    <3>1. \A x \in Elems(m.chain[a]) : o[x].to = a
      BY <1>0 DEF Chained, ParkedAt
    <3>2. n.chain[a] = m.chain[a] /\ NoDup(m.chain[a])
      BY <1>0, <2>2 DEF Chained, Frees
    <3> QED
      BY <1>3, <2>2, <3>1, <3>2
  <2> QED
    BY <2>1, <2>2
<1>5. /\ \A x \in s.blk \ X : t.status[x] = s.status[x] /\ x \in t.blk
      /\ \A a \in Ctx : t.status[a] = "Dead" => s.status[a] = "Dead"
      /\ t.blk = s.blk \ X
  BY <1>0 DEF Roused
<1>6. Chained(t, n, o)
  <2>1. \A x \in s.blk \ X : o[x].k = "send" =>
                               t.status[x] = s.status[x] /\ x \in t.blk /\ o[x] = o[x]
    BY <1>5
  <2>2. \A a \in Ctx : t.status[a] = "Dead" => s.status[a] = "Dead" \/ n.chain[a] = << >>
    BY <1>5
  <2>3. \A x \in t.blk : n.reader[x] = x \/ (x \in s.blk \ X /\ m.reader[x] # x)
    BY <1>5 DEF Frees
  <2>4. \A x \in s.blk : o[x].k = "send" => o[x].to \in Ctx
    BY <1>0, Addressees
  <2>5. Shrunk(s, m, o, t, n, o, X)
    BY <1>4, <2>1, <2>2, <2>3, <2>4 DEF Shrunk
  <2> QED
    BY <1>0, <2>5, ChainsShrink
<1>7. Typed(n, o, d)
  BY <1>0 DEF Typed, Frees
<1> QED
  BY <1>1, <1>2, <1>6, <1>7 DEF Inv, Sane

\* The running coroutine takes the message at i, which lets in the sender that
\* has waited longest.
LEMMA TakeInv ==
  ASSUME NEW s, NEW m, NEW o, NEW d, Inv(s, m, o, d), NEW c \in Ctx, s.running = c,
         m.reader[c] = NoCtx, o[c].k = "none", NEW i \in 1..Len(m.queue[c])
  PROVE  LET st == TakeAt([s |-> s, m |-> m], c, i)
         IN  /\ Inv(st.s, st.m, o, d)
             /\ st.s.running = s.running
<1> DEFINE k == [m EXCEPT !.queue[c] = RemoveAt(@, i)]
           st == TakeAt([s |-> s, m |-> m], c, i)
<1>0. /\ Calm(s) /\ Chained(s, m, o)
      /\ m \in MailType /\ m.queue \in [Ctx -> Seq(Msg)] /\ m.chain \in [Ctx -> Seq(Ctx)]
      /\ m.queue[c] \in Seq(Msg) /\ m.chain[c] \in Seq(Ctx) /\ Len(m.queue[c]) <= Capacity
  BY MailFields DEF Inv, Sane, Typed, Alone
<1>1. RemoveAt(m.queue[c], i) \in Seq(Msg) /\ Len(RemoveAt(m.queue[c], i)) = Len(m.queue[c]) - 1
  BY <1>0, RemoveAtType
<1>2. /\ k \in MailType
      /\ k.queue = [m.queue EXCEPT ![c] = RemoveAt(m.queue[c], i)]
      /\ k.reader = m.reader /\ k.chain = m.chain
  BY <1>0, <1>1 DEF MailType
<1>3. st = mailbox_wake_head_sender([s |-> s, m |-> k], c)
  BY DEF TakeAt
<1> HIDE DEF k, st
<1>4. /\ \A a \in Ctx \ {c} : k.queue[a] = m.queue[a]
      /\ Len(k.queue[c]) <= Capacity
  BY <1>0, <1>1, <1>2, ActorAssumption
<1>5. CASE m.chain[c] = << >>
  <2>0. PICK X : X = {}
    OBVIOUS
  <2>1. Roused(s, s, X)
    BY <1>0, <2>0, RousedNone
  <2>2. Elems(k.chain[c]) = Elems(m.chain[c]) \ X /\ NoDup(k.chain[c])
    BY <1>0, <1>2, <2>0 DEF Chained
  <2>3. X \subseteq Elems(m.chain[c])
    BY <2>0
  <2>4. \A a \in Ctx \ {c} : k.queue[a] = m.queue[a] /\ k.chain[a] = m.chain[a]
    BY <1>2, <1>4
  <2>5. Inv(s, k, o, d)
    <3>1. Frees(m, k, c, X)
      BY <1>2, <1>4, <2>2, <2>3, <2>4 DEF Frees
    <3> QED
      BY <1>0, <2>1, <3>1, WakeParkedInv
  <2>6. st = [s |-> s, m |-> k]
    BY <1>2, <1>3, <1>5 DEF mailbox_wake_head_sender
  <2> QED
    BY <2>5, <2>6 DEF st
<1>6. CASE m.chain[c] # << >>
  <2>0. PICK h \in Ctx : h = Head(m.chain[c])
    BY <1>0, <1>6, TailList
  <2>1. PICK X : X = {h}
    OBVIOUS
  <2> DEFINE t == coroutine_wake(s, h)
             n == [k EXCEPT !.chain[c] = Tail(@)]
  <2>2. Calm(t) /\ Roused(s, t, X)
    <3>1. h \in CtxOrNone /\ {h} \ {NoCtx} = X
      BY <2>1, CtxAssumption DEF CtxOrNone
    <3> QED
      BY <1>0, <3>1, WakeCalm
  <2>3. /\ Tail(m.chain[c]) \in Seq(Ctx) /\ h \in Elems(m.chain[c])
        /\ NoDup(Tail(m.chain[c]))
        /\ Elems(Tail(m.chain[c])) = Elems(m.chain[c]) \ X
    <3>1. NoDup(m.chain[c])
      BY <1>0 DEF Chained
    <3> QED
      BY <1>0, <1>6, <2>0, <2>1, <3>1, TailList
  <2>4. /\ n \in MailType
        /\ n.queue = k.queue /\ n.reader = m.reader
        /\ n.chain = [m.chain EXCEPT ![c] = Tail(m.chain[c])]
    BY <1>0, <1>2, <2>3 DEF MailType
  <2>5. st = [s |-> t, m |-> n]
    BY <1>2, <1>3, <1>6, <2>0 DEF mailbox_wake_head_sender
  <2> HIDE DEF n, t
  <2>6. /\ \A a \in Ctx \ {c} : n.queue[a] = m.queue[a] /\ n.chain[a] = m.chain[a]
        /\ Len(n.queue[c]) <= Capacity
        /\ n.chain[c] = Tail(m.chain[c])
    BY <1>0, <1>4, <2>4
  <2>7. X \subseteq Elems(m.chain[c])
    BY <2>1, <2>3
  <2>8. NoDup(n.chain[c]) /\ Elems(n.chain[c]) = Elems(m.chain[c]) \ X
    BY <2>3, <2>6
  <2>9. Inv(t, n, o, d)
    <3>1. Frees(m, n, c, X)
      BY <2>4, <2>6, <2>7, <2>8 DEF Frees
    <3> QED
      BY <2>2, <3>1, WakeParkedInv
  <2>10. t.running = s.running
    BY <2>2 DEF Roused
  <2> QED
    BY <2>5, <2>9, <2>10 DEF st
<1> QED
  BY <1>5, <1>6

\* actor-flush
LEMMA FlushInv ==
  ASSUME NEW s, NEW m, NEW o, NEW d, Inv(s, m, o, d), NEW c \in Ctx, s.running = c,
         m.reader[c] = NoCtx, o[c].k = "none"
  PROVE  Inv(WakeAll(s, m.chain[c]), [m EXCEPT !.queue[c] = << >>, !.chain[c] = << >>], o, d)
<1> DEFINE t == WakeAll(s, m.chain[c])
           k == [m EXCEPT !.queue[c] = << >>]
           n == [k EXCEPT !.chain[c] = << >>]
           X == Elems(m.chain[c])
<1>0. /\ Calm(s) /\ m \in MailType /\ m.queue \in [Ctx -> Seq(Msg)]
      /\ m.chain \in [Ctx -> Seq(Ctx)] /\ m.chain[c] \in Seq(Ctx)
      /\ << >> \in Seq(Msg) /\ << >> \in Seq(Ctx)
  BY MailFields DEF Inv, Sane, Typed
<1>1. Calm(t) /\ Roused(s, t, X)
  BY <1>0, WakeAllCalm
<1>2. /\ k \in MailType
      /\ k.queue = [m.queue EXCEPT ![c] = << >>]
      /\ k.chain = m.chain /\ k.reader = m.reader
  BY <1>0 DEF MailType
<1>2a. n = [m EXCEPT !.queue[c] = << >>, !.chain[c] = << >>]
  BY <1>0 DEF MailType
<1> HIDE DEF t, k
<1>2b. /\ n \in MailType
       /\ n.queue = k.queue /\ n.reader = k.reader
       /\ n.chain = [m.chain EXCEPT ![c] = << >>]
  BY <1>0, <1>2 DEF MailType
<1> HIDE DEF n, X
<1>3. /\ \A a \in Ctx \ {c} : n.queue[a] = m.queue[a] /\ n.chain[a] = m.chain[a]
      /\ n.queue[c] = << >> /\ n.chain[c] = << >> /\ n.reader = m.reader
  BY <1>0, <1>2, <1>2b
<1>4. Len(n.queue[c]) <= Capacity
  BY <1>3, ActorAssumption
<1>5. NoDup(n.chain[c]) /\ Elems(n.chain[c]) = Elems(m.chain[c]) \ X
  BY <1>3 DEF NoDup, Elems, X
<1>6. X \subseteq Elems(m.chain[c])
  BY DEF X
<1>7. Inv(t, n, o, d)
  <2>1. Frees(m, n, c, X)
    BY <1>2b, <1>3, <1>4, <1>5, <1>6 DEF Frees
  <2> QED
    BY <1>1, <2>1, WakeParkedInv
<1> QED
  BY <1>2a, <1>7 DEF t

\* The running coroutine gives up the processor, and whatever it waits for is
\* registered where it belongs.
Parks(s, m, o, d, t, n, p, e, c, x, k) ==
  /\ GaveUp(s, t, c, x, k) /\ x # "Dead"
  /\ Typed(n, p, e)
  /\ \A a \in Ctx \ {c} : /\ p[a] = o[a] /\ e[a] = d[a]
                          /\ n.queue[a] = m.queue[a] /\ n.reader[a] = m.reader[a]
  /\ n.chain = m.chain
  /\ Alone(t, n, p, e, c)
  /\ t.blk = s.blk \/ (t.blk = s.blk \cup {c} /\ n.reader[c] = c)

LEMMA GaveUpInv ==
  ASSUME NEW s, NEW m, NEW o, NEW d, Inv(s, m, o, d), NEW c \in Ctx, s.running = c,
         NEW t, NEW n, NEW p, NEW e, Calm(t), NEW x, NEW k,
         Parks(s, m, o, d, t, n, p, e, c, x, k)
  PROVE  Inv(t, n, p, e)
<1> USE DEF Parks
<1>0. /\ Calm(s) /\ Loaded(s) /\ Chained(s, m, o) /\ s.blk \subseteq Ctx
  BY Fields DEF Inv, Sane, Calm
<1>1. c \notin s.blk /\ s.status[c] = "Running"
  BY <1>0, RunsFree
<1>2. ASSUME NEW y \in Ctx PROVE Alone(t, n, p, e, y)
  <2>1. CASE y # c
    <3>1. /\ t.cont[y] = s.cont[y] /\ t.status[y] = s.status[y] /\ t.left[y] = s.left[y]
          /\ t.reg = s.reg
      BY <2>1 DEF GaveUp
    <3>2. Alone(s, m, o, d, y)
      BY DEF Inv, Sane
    <3>3. y \notin t.blk => y \notin s.blk
      BY <2>1
    <3> QED
      BY <2>1, <3>1, <3>2, <3>3, KeptAlone
  <2> QED
    BY <2>1
<1>3. \A a \in Ctx : t.status[a] = IF a = c THEN x ELSE s.status[a]
  BY DEF GaveUp
<1>4. Chained(t, n, p)
  <2>1. \A y \in s.blk : o[y].k = "send" =>
                           t.status[y] = s.status[y] /\ y \in t.blk /\ p[y] = o[y]
    BY <1>0, <1>1, <1>3
  <2>2. \A a \in Ctx : t.status[a] = "Dead" => s.status[a] = "Dead"
    BY <1>3
  <2>3. ASSUME NEW y \in t.blk PROVE n.reader[y] = y \/ (y \in s.blk /\ m.reader[y] # y)
    <3>1. CASE y = c
      BY <1>1, <2>3, <3>1
    <3>2. CASE y # c
      <4>1. y \in s.blk /\ y \in Ctx \ {c}
        BY <1>0, <2>3, <3>2
      <4>2. n.reader[y] = m.reader[y]
        BY <4>1
      <4> QED
        BY <4>1, <4>2
    <3> QED
      BY <3>1, <3>2
  <2> QED
    BY <1>0, <2>1, <2>2, <2>3, ChainsStay
<1>5. Loaded(t)
  BY DEF GaveUp, Loaded
<1> QED
  BY <1>2, <1>4, <1>5 DEF Inv, Sane

\* Nothing in the mailbox ends the receive q.
Waits(m, c, q, timed) ==
  \/ q = RecvOp(timed) /\ m.queue[c] = << >>
  \/ /\ q = MatchOp(timed, -1)
     /\ \A i \in 1..Len(m.queue[c]) : m.queue[c][i] \notin Matching

\* Parking as a reader for r ticks at most.
LEMMA ParkReaderInv ==
  ASSUME NEW s, NEW m, NEW o, NEW d, Inv(s, m, o, d), NEW c \in Ctx, s.running = c, c # Main,
         NEW timed \in BOOLEAN, NEW r \in 0..MaxSleep, NEW q, Waits(m, c, q, timed),
         NEW e \in [Ctx -> 0..MaxSleep], \A x \in Ctx \ {c} : e[x] = d[x],
         timed => e[c] = r
  PROVE  LET st == ParkReader([s |-> s, m |-> m], c, timed, r)
         IN  Inv(st.s, st.m, [o EXCEPT ![c] = q], e)
<1> DEFINE u == [s EXCEPT !.cont[c] = "actor"]
           n == [m EXCEPT !.reader[c] = c]
           p == [o EXCEPT ![c] = q]
           w == IF ~timed THEN Block(u, c)
                ELSE IF r = 0 THEN YieldCpu(u, c)
                ELSE SleepFor(u, c, r)
<1>0. /\ Calm(s) /\ Loaded(s) /\ Typed(m, o, d) /\ s.blk \subseteq Ctx
      /\ s \in SchedType /\ s.cont \in [Ctx -> Conts]
      /\ m \in MailType /\ m.reader \in [Ctx -> CtxOrNone] /\ o \in [Ctx -> Ops]
  BY Fields, MailFields DEF Inv, Sane, Calm, Typed
<1>1. Continues(s, u, c, "actor")
  BY <1>0 DEF Continues, SameState, SchedType, Conts
<1>2. /\ n \in MailType /\ n.queue = m.queue /\ n.chain = m.chain
      /\ n.reader = [m.reader EXCEPT ![c] = c]
  BY <1>0 DEF MailType, CtxOrNone
<1>3. /\ q \in Ops /\ q.k \in {"recv", "match"} /\ (q.k = "match" => q.scan = -1)
      /\ q.k = "recv" => m.queue[c] = << >>
      /\ q.k = "match" => \A i \in 1..Len(m.queue[c]) : m.queue[c][i] \notin Matching
  <2>1. -1 \in -1..(Capacity - 1)
    BY ActorAssumption
  <2>2. CASE q = RecvOp(timed) /\ m.queue[c] = << >>
    BY <2>2, OpTypes
  <2>3. CASE q = MatchOp(timed, -1) /\ \A i \in 1..Len(m.queue[c]) : m.queue[c][i] \notin Matching
    BY <2>1, <2>3, OpTypes
  <2> QED
    BY <2>2, <2>3 DEF Waits
<1>4. /\ p \in [Ctx -> Ops] /\ p[c] = q /\ \A x \in Ctx \ {c} : p[x] = o[x]
  BY <1>0, <1>3
<1> HIDE DEF u, n, p
<1>5. n.reader[c] = c /\ \A x \in Ctx \ {c} : n.reader[x] = m.reader[x]
  BY <1>0, <1>2
<1>6. ASSUME NEW t, Calm(t), NEW x \in {"Sleeping", "Ready"}, GaveUp(s, t, c, x, "actor"),
             \/ t.blk = s.blk \cup {c}
             \/ t.blk = s.blk /\ (x = "Sleeping" => timed /\ t.left[c] = r)
      PROVE  Inv(t, n, p, e)
  <2>1. t.status[c] = x /\ t.cont[c] = "actor" /\ x # "Dead"
    BY <1>6 DEF GaveUp
  <2>2. Pending(t, p, c)
    BY <1>3, <1>4, <2>1 DEF Pending
  <2>3. Scans(t, n, p, c)
    BY <1>3, <1>4 DEF Scans
  <2>4. Registers(t, n, p, c)
    BY <1>3, <1>4, <1>5, <2>1 DEF Registers
  <2>5. Listens(t, n, p, c)
    BY <1>2, <1>3, <1>4, <1>5 DEF Listens
  <2>6. OnTime(t, p, e, c)
    <3>1. SUFFICES ASSUME t.status[c] = "Sleeping", c \notin t.blk PROVE e[c] <= t.left[c]
      BY DEF OnTime
    <3>2. e[c] = r /\ t.left[c] = r
      BY <1>6, <2>1, <3>1
    <3> QED
      BY <3>2, SleepAssumption
  <2>7. Alone(t, n, p, e, c)
    <3>1. Len(m.queue[c]) <= Capacity
      BY DEF Inv, Sane, Alone
    <3> QED
      BY <1>2, <2>2, <2>3, <2>4, <2>5, <2>6, <3>1 DEF Alone
  <2>8. Typed(n, p, e)
    BY <1>2, <1>4 DEF Typed
  <2>9. \A a \in Ctx \ {c} : /\ p[a] = o[a] /\ e[a] = d[a]
                             /\ n.queue[a] = m.queue[a] /\ n.reader[a] = m.reader[a]
    BY <1>2, <1>4, <1>5
  <2>10. t.blk = s.blk \/ (t.blk = s.blk \cup {c} /\ n.reader[c] = c)
    BY <1>5, <1>6
  <2> QED
    <3>1. Parks(s, m, o, d, t, n, p, e, c, x, "actor")
      BY <1>2, <1>6, <2>1, <2>7, <2>8, <2>9, <2>10 DEF Parks
    <3> QED
      BY <1>6, <3>1, GaveUpInv
<1>7. Inv(w, n, p, e)
  <2>1. CASE ~timed
    <3>1. w = Block(u, c)
      BY <2>1
    <3> HIDE DEF w
    <3>2. /\ Calm(w) /\ GaveUp(s, w, c, "Sleeping", "actor")
          /\ w.blk = s.blk \cup {c}
      BY <1>0, <1>1, <3>1, BlockCalm
    <3> QED
      BY <1>6, <3>2
  <2>2. CASE timed /\ r = 0
    <3>1. w = YieldCpu(u, c)
      BY <2>2
    <3> HIDE DEF w
    <3>2. Calm(w) /\ GaveUp(s, w, c, "Ready", "actor") /\ w.blk = s.blk
      BY <1>0, <1>1, <3>1, YieldCalm
    <3> QED
      BY <1>6, <3>2
  <2>3. CASE timed /\ r # 0
    <3>1. w = SleepFor(u, c, r)
      BY <2>3
    <3> HIDE DEF w
    <3>2. /\ Calm(w) /\ GaveUp(s, w, c, "Sleeping", "actor") /\ w.blk = s.blk
          /\ w.left[c] = r
      <4>1. /\ Calm(s) /\ Loaded(s) /\ c \in Ctx /\ s.running = c
            /\ r \in 0..MaxSleep
        BY <1>0
      <4>2. Dozes(s, SleepFor(u, c, r), c, r, "actor")
        BY ONLY <1>1, <4>1, SleepCalm, ZenonT(60)
      <4> QED
        BY <3>1, <4>2 DEF Dozes
    <3> QED
      BY <1>6, <2>3, <3>2
  <2> QED
    BY <2>1, <2>2, <2>3
<1>8. ParkReader([s |-> s, m |-> m], c, timed, r) = [s |-> w, m |-> n]
  BY DEF ParkReader, u, n
<1> HIDE DEF w
<1> QED
  BY <1>7, <1>8 DEF p

\* Parking as a sender.
LEMMA ParkSenderInv ==
  ASSUME NEW s, NEW m, NEW o, NEW d, Inv(s, m, o, d), NEW c \in Ctx, s.running = c, c # Main,
         m.reader[c] = NoCtx, NEW a \in s.reg, s.status[a] # "Dead",
         NEW q \in Ops, q.k = "send", q.to = a
  PROVE  LET st == ParkSender([s |-> s, m |-> m], a, c)
         IN  Inv(st.s, st.m, [o EXCEPT ![c] = q], d)
<1> DEFINE u == [s EXCEPT !.cont[c] = "actor"]
           n == [m EXCEPT !.chain[a] = Append(@, c)]
           p == [o EXCEPT ![c] = q]
           t == Block(u, c)
<1>0. /\ Calm(s) /\ Loaded(s) /\ Typed(m, o, d) /\ s.blk \subseteq Ctx /\ Chained(s, m, o)
      /\ s \in SchedType /\ s.cont \in [Ctx -> Conts] /\ a \in Ctx
      /\ m \in MailType /\ m.chain \in [Ctx -> Seq(Ctx)] /\ o \in [Ctx -> Ops]
  BY Fields, MailFields DEF Inv, Sane, Calm, Typed
<1>1. Continues(s, u, c, "actor")
  BY <1>0 DEF Continues, SameState, SchedType, Conts
<1>2. /\ n \in MailType /\ n.queue = m.queue /\ n.reader = m.reader
      /\ n.chain = [m.chain EXCEPT ![a] = Append(@, c)]
  <2>1. Append(m.chain[a], c) \in Seq(Ctx)
    BY <1>0
  <2> QED
    BY <1>0, <2>1 DEF MailType
<1>3. /\ p \in [Ctx -> Ops] /\ p[c] = q /\ \A x \in Ctx \ {c} : p[x] = o[x]
  BY <1>0
<1>4. s.status[c] = "Running"
  BY <1>0, RunsFree
<1>5. ParkSender([s |-> s, m |-> m], a, c) = [s |-> t, m |-> n]
  <2>1. c \notin Elems(m.chain[a])
    BY <1>0, <1>4 DEF Chained, ParkedAt
  <2>2. mailbox_append_blocked_sender(m, a, c) = n
    BY <2>1 DEF mailbox_append_blocked_sender
  <2> HIDE DEF n
  <2> QED
    BY <2>2 DEF ParkSender
<1>6. Calm(t) /\ GaveUp(s, t, c, "Sleeping", "actor") /\ t.blk = s.blk \cup {c}
  <2>1. t = Block(u, c) /\ Calm(s) /\ Loaded(s)
    BY <1>0
  <2>2. c \in Ctx /\ c # Main /\ s.running = c
    OBVIOUS
  <2> HIDE DEF u, t
  <2> QED
    BY ONLY <1>1, <2>1, <2>2, BlockCalm
<1> HIDE DEF u, n, p, t
<1>7. /\ t.status[c] = "Sleeping" /\ t.cont[c] = "actor" /\ t.reg = s.reg
      /\ \A x \in Ctx \ {c} : /\ t.status[x] = s.status[x] /\ t.cont[x] = s.cont[x]
                              /\ t.left[x] = s.left[x]
  BY <1>6 DEF GaveUp
<1>8. ASSUME NEW x \in Ctx PROVE Alone(t, n, p, d, x)
  <2>0. Alone(s, m, o, d, x)
    BY DEF Inv, Sane
  <2>1. CASE x = c
    <3>1. Pending(t, p, c)
      BY <1>3, <1>7 DEF Pending
    <3>2. /\ Scans(t, n, p, c) /\ Registers(t, n, p, c)
          /\ Listens(t, n, p, c) /\ OnTime(t, p, d, c)
      BY <1>2, <1>3 DEF Scans, Registers, Listens, OnTime
    <3> QED
      BY <1>2, <2>0, <2>1, <3>1, <3>2 DEF Alone
  <2>2. CASE x # c
    <3>1. x \notin t.blk => x \notin s.blk
      BY <1>6
    <3> QED
      BY <1>2, <1>3, <1>7, <2>0, <2>2, <3>1, KeptAlone
  <2> QED
    BY <2>1, <2>2
<1>9. Chained(t, n, p)
  <2>1. \A x \in s.blk : o[x].k = "send" => o[x].to \in Ctx
    BY <1>0, Addressees
  <2>2. \A x \in Ctx \ {c} : t.status[x] = s.status[x] /\ p[x] = o[x]
    BY <1>3, <1>7
  <2> QED
    <3>1. Grown(s, m, o, t, n, p, c, a)
      BY <1>0, <1>2, <1>3, <1>4, <1>6, <1>7, <2>1, <2>2 DEF Grown
    <3> QED
      BY <1>0, <3>1, ChainsGrow
<1>10. Loaded(t)
  BY <1>6 DEF GaveUp, Loaded
<1>11. Inv(t, n, p, d)
  BY <1>0, <1>2, <1>3, <1>6, <1>8, <1>9, <1>10 DEF Inv, Sane, Typed
<1> QED
  BY <1>5, <1>11 DEF p

\* A scan stands at the message after the first i, none of which matches.
LEMMA ScanInv ==
  ASSUME NEW s, NEW m, NEW o, NEW d, Inv(s, m, o, d), NEW c \in Ctx, s.running = c, c # Main,
         m.reader[c] = NoCtx,
         NEW timed \in BOOLEAN, NEW i \in 0..(Len(m.queue[c]) - 1),
         \A j \in 1..i : m.queue[c][j] \notin Matching,
         NEW e \in [Ctx -> 0..MaxSleep], \A x \in Ctx \ {c} : e[x] = d[x],
         NEW t, Continues(s, t, c, "actor")
  PROVE  Inv(t, m, [o EXCEPT ![c] = MatchOp(timed, i)], e)
<1> DEFINE q == MatchOp(timed, i)
           p == [o EXCEPT ![c] = q]
<1>0. /\ Calm(s) /\ Loaded(s) /\ Typed(m, o, d) /\ s.blk \subseteq Ctx /\ Chained(s, m, o)
      /\ s.cont \in [Ctx -> Conts] /\ m.queue \in [Ctx -> Seq(Msg)] /\ o \in [Ctx -> Ops]
      /\ Len(m.queue[c]) <= Capacity
  BY Fields, MailFields DEF Inv, Sane, Calm, Typed, Alone
<1>1. /\ q \in Ops /\ q.k = "match" /\ q.scan = i
  <2>1. m.queue[c] \in Seq(Msg)
    BY <1>0
  <2>2. i \in -1..(Capacity - 1)
    BY <1>0, <2>1, ActorAssumption
  <2> QED
    BY <2>2, OpTypes
<1> HIDE DEF q
<1>2. /\ p \in [Ctx -> Ops] /\ p[c] = q /\ \A x \in Ctx \ {c} : p[x] = o[x]
  BY <1>0, <1>1
<1> HIDE DEF p
<1>3. /\ t.status = s.status /\ t.blk = s.blk /\ t.left = s.left /\ t.reg = s.reg
      /\ t.running = s.running /\ t.cont[c] = "actor"
      /\ \A x \in Ctx \ {c} : t.cont[x] = s.cont[x]
  BY <1>0 DEF Continues, SameState
<1>4. Calm(t)
  BY <1>0, ContinueCalm
<1>5. s.status[c] = "Running" /\ c \notin s.blk
  BY <1>0, RunsFree
<1>6. ASSUME NEW x \in Ctx PROVE Alone(t, m, p, e, x)
  <2>0. Alone(s, m, o, d, x)
    BY DEF Inv, Sane
  <2>1. CASE x = c
    <3>1. Pending(t, p, c)
      BY <1>1, <1>2, <1>3, <1>5 DEF Pending
    <3>2. Scans(t, m, p, c)
      <4>1. i < Len(m.queue[c])
        BY <1>0
      <4> QED
        BY <1>1, <1>2, <1>3, <1>5, <4>1 DEF Scans
    <3>3. Registers(t, m, p, c) /\ Listens(t, m, p, c) /\ OnTime(t, p, e, c)
      BY <1>3, <1>5 DEF Registers, Listens, OnTime
    <3> QED
      BY <1>0, <2>1, <3>1, <3>2, <3>3 DEF Alone
  <2>2. CASE x # c
    BY <1>2, <1>3, <2>0, <2>2, KeptAlone
  <2> QED
    BY <2>1, <2>2
<1>7. Chained(t, m, p)
  <2>1. \A x \in s.blk : o[x].k = "send" =>
                           t.status[x] = s.status[x] /\ x \in t.blk /\ p[x] = o[x]
    BY <1>0, <1>2, <1>3, <1>5
  <2>2. \A x \in t.blk : m.reader[x] = x \/ (x \in s.blk /\ m.reader[x] # x)
    BY <1>3
  <2> QED
    BY <1>0, <1>3, <2>1, <2>2, ChainsStay
<1>8. Loaded(t)
  BY <1>0, <1>3 DEF Loaded
<1> QED
  BY <1>0, <1>2, <1>4, <1>6, <1>7, <1>8 DEF Inv, Sane, Typed, p, q


\* coroutine-sleep of a coroutine that has no operator pending.
LEMMA SleepInv ==
  ASSUME NEW s, NEW m, NEW o, NEW d, Inv(s, m, o, d), NEW c \in Ctx, s.running = c,
         o[c].k = "none", m.reader[c] = NoCtx, NEW r \in 0..MaxSleep
  PROVE  Inv(SleepFor(s, c, r), m, o, d)
<1> DEFINE t == SleepFor(s, c, r)
           k == s.cont[c]
<1>0. /\ Calm(s) /\ Loaded(s) /\ Typed(m, o, d) /\ s \in SchedType
      /\ s.cont \in [Ctx -> Conts] /\ Len(m.queue[c]) <= Capacity
  BY Fields DEF Inv, Sane, Calm, Alone
<1>1. Continues(s, s, c, k)
  BY <1>0 DEF Continues, SameState
<1> HIDE DEF k
<1>2. Dozes(s, t, c, r, k)
  <2>1. /\ Calm(s) /\ Loaded(s) /\ c \in Ctx /\ s.running = c /\ r \in 0..MaxSleep
    BY <1>0
  <2> QED
    BY ONLY <1>1, <2>1, SleepCalm, ZenonT(60)
<1> HIDE DEF t
<1>3. Alone(t, m, o, d, c)
  BY <1>0, IdleAlone
<1>4. Calm(t) /\ Parks(s, m, o, d, t, m, o, d, c, "Sleeping", k)
  BY <1>0, <1>2, <1>3 DEF Dozes, Parks
<1>5. Inv(t, m, o, d)
  BY <1>4, GaveUpInv
<1> QED
  BY <1>5 DEF t

\* The running coroutine yields, wherever it stands.
LEMMA YieldInv ==
  ASSUME NEW s, NEW m, NEW o, NEW d, Inv(s, m, o, d), NEW c \in Ctx, s.running = c
  PROVE  Inv(YieldCpu(s, c), m, o, d)
<1> DEFINE t == YieldCpu(s, c)
           k == s.cont[c]
<1>0. /\ Calm(s) /\ Loaded(s) /\ s \in SchedType /\ s.cont \in [Ctx -> Conts]
      /\ s.status[c] = "Running"
  BY Fields, RunsFree DEF Inv, Sane, Calm
<1>1. Continues(s, s, c, k)
  BY <1>0 DEF Continues, SameState
<1>2. Calm(t) /\ GaveUp(s, t, c, "Ready", k) /\ t.blk = s.blk
  BY <1>0, <1>1, YieldCalm
<1> HIDE DEF t
<1>3. /\ Loaded(t) /\ t.reg = s.reg
      /\ s.status[c] \in {"Ready", "Running"} /\ t.status[c] \in {"Ready", "Running"}
      /\ \A x \in Ctx : /\ t.cont[x] = s.cont[x]
                        /\ x # c => t.status[x] = s.status[x] /\ t.left[x] = s.left[x]
  BY <1>0, <1>2 DEF GaveUp, Loaded
<1>4. Inv(t, m, o, d)
  BY <1>2, <1>3, TurnInv
<1> QED
  BY <1>4 DEF t

\* actor-spawn: nothing is left of the context's last tenant.
LEMMA SpawnInv ==
  ASSUME NEW s, NEW m, NEW o, NEW d, Inv(s, m, o, d), NEW y \in Allocatable(s)
  PROVE  Inv(coroutine_launch(s, y), m, o, d)
<1> DEFINE t == coroutine_launch(s, y)
<1>0. /\ Calm(s) /\ Loaded(s) /\ Typed(m, o, d) /\ Chained(s, m, o)
      /\ s \in SchedType /\ s.running \in CtxOrNone /\ s.status \in [Ctx -> Statuses]
      /\ s.blk \subseteq Ctx
  BY Fields DEF Inv, Sane, Calm
<1>1. y \in Ctx /\ ~Alive(s, y) /\ Calm(t) /\ Born(s, t, y)
  BY <1>0, LaunchCalm
<1> HIDE DEF t
<1>2. ASSUME NEW x \in Ctx PROVE Alone(t, m, o, d, x)
  <2>0. Alone(s, m, o, d, x)
    BY DEF Inv, Sane
  <2>1. CASE x = y
    <3>1. s.status[y] \notin {"Sleeping", "Ready", "Running"}
      BY <1>1 DEF Alive, Loaded, Calm
    <3>2. o[y].k = "none" /\ m.reader[y] = NoCtx /\ Len(m.queue[y]) <= Capacity
      BY <2>0, <2>1, <3>1 DEF Alone, Pending, Registers
    <3> QED
      BY <2>1, <3>2, IdleAlone
  <2>2. CASE x # y
    <3>1. /\ t.status[x] = s.status[x] /\ t.cont[x] = s.cont[x] /\ t.left[x] = s.left[x]
          /\ t.blk = s.blk /\ s.reg \subseteq t.reg
      BY <1>1, <2>2 DEF Born
    <3> QED
      BY <2>0, <3>1, KeptAlone
  <2> QED
    BY <2>1, <2>2
<1>3. Chained(t, m, o)
  <2>1. t.blk = s.blk /\ \A x \in s.blk : t.status[x] = s.status[x]
    BY <1>0, <1>1 DEF Born, Calm, Alive
  <2>2. \A x \in Ctx : t.status[x] = "Dead" => s.status[x] = "Dead"
    BY <1>1 DEF Born
  <2> QED
    BY <1>0, <2>1, <2>2, ChainsStay
<1>4. Loaded(t)
  BY <1>0, <1>1 DEF Born, Loaded, Alive, CtxOrNone
<1>5. Inv(t, m, o, d)
  BY <1>0, <1>1, <1>2, <1>3, <1>4 DEF Inv, Sane
<1> QED
  BY <1>5 DEF t

\* coroutine-release of a dead actor to which no send is pending.
LEMMA ReleaseInv ==
  ASSUME NEW s, NEW m, NEW o, NEW d, Inv(s, m, o, d), NEW v \in s.reg, s.status[v] = "Dead",
         \A c \in Ctx : o[c].k = "send" => o[c].to # v
  PROVE  Inv(coroutine_free_context(s, v), m, o, d)
<1> DEFINE t == coroutine_free_context(s, v)
<1>0. /\ Calm(s) /\ Loaded(s) /\ Typed(m, o, d) /\ Chained(s, m, o)
      /\ s.blk \subseteq Ctx
  BY Fields DEF Inv, Sane, Calm
<1>1. /\ Calm(t)
      /\ t.status = s.status /\ t.cont = s.cont /\ t.blk = s.blk /\ t.left = s.left
      /\ t.running = s.running /\ t.reg = s.reg \ {v}
  BY <1>0, ReleaseCalm
<1> HIDE DEF t
<1>2. ASSUME NEW x \in Ctx PROVE Alone(t, m, o, d, x)
  <2>1. Alone(s, m, o, d, x)
    BY DEF Inv, Sane
  <2>2. o[x].k = "send" /\ o[x].to \in s.reg => o[x].to \in t.reg
    BY <1>1
  <2> QED
    BY <1>1, <2>1, <2>2, KeptAlone
<1>3. Chained(t, m, o)
  BY <1>0, <1>1, ChainsStay
<1>4. Loaded(t)
  BY <1>0, <1>1 DEF Loaded
<1>5. Inv(t, m, o, d)
  BY <1>0, <1>1, <1>2, <1>3, <1>4 DEF Inv, Sane
<1> QED
  BY <1>5 DEF t

\* Time passes; the deadlines come nearer with the timers.
LEMMA ElapseInv ==
  ASSUME NEW s, NEW m, NEW o, NEW d, Inv(s, m, o, d)
  PROVE  Inv(Elapse(s), m, o, [c \in Ctx |-> IF d[c] > 0 THEN d[c] - 1 ELSE 0])
<1> DEFINE t == Elapse(s)
           e == [c \in Ctx |-> IF d[c] > 0 THEN d[c] - 1 ELSE 0]
<1>0. /\ Calm(s) /\ Loaded(s) /\ Typed(m, o, d) /\ Chained(s, m, o)
      /\ s.blk \subseteq Ctx /\ s.left \in [Ctx -> 0..MaxSleep]
      /\ d \in [Ctx -> 0..MaxSleep]
  BY Fields DEF Inv, Sane, Calm, Typed
<1>1. /\ Calm(t)
      /\ SamePrograms(s, t) /\ t.status = s.status /\ t.blk = s.blk
      /\ t.running = s.running
      /\ \A c \in Ctx : t.left[c] >= s.left[c] - 1 /\ t.left[c] >= 0
  BY <1>0, ElapseCalm
<1>1a. /\ t.cont = s.cont /\ t.reg = s.reg /\ t.left \in [Ctx -> 0..MaxSleep]
  BY <1>1, Fields DEF Calm, SamePrograms
<1>2. e \in [Ctx -> 0..MaxSleep]
  <2>1. ASSUME NEW c \in Ctx PROVE (IF d[c] > 0 THEN d[c] - 1 ELSE 0) \in 0..MaxSleep
    <3>1. d[c] \in 0..MaxSleep
      BY <1>0
    <3> QED
      BY <3>1, SleepAssumption
  <2> QED
    BY <2>1
<1>3. \A c \in Ctx : e[c] = IF d[c] > 0 THEN d[c] - 1 ELSE 0
  OBVIOUS
<1> HIDE DEF t, e
<1>4. ASSUME NEW x \in Ctx PROVE Alone(t, m, o, e, x)
  <2>1. Alone(s, m, o, d, x)
    BY DEF Inv, Sane
  <2>2. d[x] <= s.left[x] => e[x] <= t.left[x]
    <3>1. d[x] \in 0..MaxSleep /\ s.left[x] \in 0..MaxSleep /\ t.left[x] \in 0..MaxSleep
      BY <1>0, <1>1a
    <3>2. e[x] = IF d[x] > 0 THEN d[x] - 1 ELSE 0
      BY <1>3
    <3> QED
      BY <1>1, <3>1, <3>2, SleepAssumption
  <2> QED
    BY <1>1, <1>1a, <2>1, <2>2, KeptAlone
<1>5. Chained(t, m, o)
  BY <1>0, <1>1, ChainsStay
<1>6. Loaded(t)
  BY <1>0, <1>1 DEF Loaded
<1>7. Inv(t, m, o, e)
  BY <1>0, <1>1, <1>2, <1>4, <1>5, <1>6 DEF Inv, Sane, Typed
<1> QED
  BY <1>7 DEF t, e


\* The victim v and the senders parked in its mailbox have left the chains.
Interred(s, m, o, d, t, n, p, e, v) ==
  /\ Calm(t) /\ SamePrograms(s, t) /\ t.running = s.running /\ t.left = s.left
  /\ \A c \in Ctx : t.status[c] = IF c = v THEN "Dead"
                                  ELSE IF c \in Elems(m.chain[v]) /\ s.status[c] = "Sleeping"
                                    THEN "Ready" ELSE s.status[c]
  /\ t.blk = s.blk \ (Elems(m.chain[v]) \cup {v})
  /\ Typed(n, p, e)
  /\ p[v].k = "none" /\ n.reader[v] = NoCtx /\ n.queue[v] = << >> /\ n.chain[v] = << >>
  /\ \A c \in Ctx \ {v} : /\ p[c] = o[c] /\ e[c] = d[c]
                          /\ n.queue[c] = m.queue[c] /\ n.reader[c] = m.reader[c]
                          /\ n.chain[c] = Without(m.chain[c], v)

LEMMA InterredSane ==
  ASSUME NEW s, NEW m, NEW o, NEW d, Inv(s, m, o, d), NEW v \in Ctx,
         NEW t, NEW n, NEW p, NEW e, Interred(s, m, o, d, t, n, p, e, v)
  PROVE  Sane(t, n, p, e)
<1> DEFINE Y == Elems(m.chain[v])
           X == Y \cup {v}
<1> USE DEF Interred
<1>0. /\ Calm(s) /\ Typed(m, o, d) /\ Chained(s, m, o) /\ s.blk \subseteq Ctx
      /\ s \in SchedType /\ m.chain \in [Ctx -> Seq(Ctx)]
  BY Fields, MailFields DEF Inv, Sane, Calm, Typed
<1>1. t.cont = s.cont /\ t.reg = s.reg
  BY DEF SamePrograms
<1>2. \A c \in Y : ParkedAt(s, o, c, v)
  BY <1>0 DEF Chained
<1>3. /\ t.blk = s.blk \ X
      /\ \A c \in Ctx : t.status[c] = IF c = v THEN "Dead"
                                      ELSE IF c \in Y /\ s.status[c] = "Sleeping"
                                        THEN "Ready" ELSE s.status[c]
  OBVIOUS
<1> HIDE DEF Y
<1>4. ASSUME NEW x \in Ctx PROVE Alone(t, n, p, e, x)
  <2>0. Alone(s, m, o, d, x)
    BY DEF Inv, Sane
  <2>1. CASE x = v
    <3>1. Len(n.queue[v]) <= Capacity
      BY ActorAssumption
    <3> QED
      BY <2>1, <3>1, IdleAlone
  <2>2. CASE x # v
    <3>1. /\ p[x] = o[x] /\ e[x] = d[x] /\ n.queue[x] = m.queue[x] /\ n.reader[x] = m.reader[x]
          /\ t.cont[x] = s.cont[x] /\ t.left[x] = s.left[x]
      BY <1>1, <2>2
    <3>2. \/ t.status[x] = s.status[x]
          \/ /\ s.status[x] \in {"Sleeping", "Ready", "Running"}
             /\ t.status[x] \in {"Ready", "Running"}
      BY <1>3, <2>2
    <3>3. t.status[x] = "Sleeping" /\ x \notin t.blk => x \notin s.blk
      BY <1>2, <1>3, <2>2 DEF ParkedAt
    <3> QED
      BY <1>1, <2>0, <3>1, <3>2, <3>3, KeptAlone
  <2> QED
    BY <2>1, <2>2
<1>5. ASSUME NEW a \in Ctx
      PROVE  NoDup(n.chain[a]) /\ Elems(n.chain[a]) = Elems(m.chain[a]) \ X
  <2>1. CASE a = v
    <3>1. NoDup(<< >>) /\ Elems(<< >>) = {}
      BY DEF NoDup, Elems
    <3> QED
      BY <2>1, <3>1 DEF Y
  <2>2. CASE a # v
    <3>1. m.chain[a] \in Seq(Ctx) /\ NoDup(m.chain[a])
      BY <1>0 DEF Chained
    <3>2. n.chain[a] = Without(m.chain[a], v)
      BY <2>2
    <3>3. NoDup(n.chain[a]) /\ Elems(n.chain[a]) = Elems(m.chain[a]) \ {v}
      BY <3>1, <3>2, WithoutList, SMTT(30)
    <3>4. \A x \in Elems(m.chain[a]) : x \notin Y
      BY <1>0, <1>2, <2>2 DEF Chained, ParkedAt
    <3> QED
      BY <3>3, <3>4
  <2> QED
    BY <2>1, <2>2
<1>6. \A x \in s.blk \ X : o[x].k = "send" =>
                             t.status[x] = s.status[x] /\ x \in t.blk /\ p[x] = o[x]
  BY <1>0, <1>3
<1>7. \A a \in Ctx : t.status[a] = "Dead" => s.status[a] = "Dead" \/ n.chain[a] = << >>
  BY <1>3
<1>8. \A x \in t.blk : n.reader[x] = x \/ (x \in s.blk \ X /\ m.reader[x] # x)
  BY <1>0, <1>3
<1>9. \A x \in s.blk : o[x].k = "send" => o[x].to \in Ctx
  BY <1>0, Addressees
<1> HIDE DEF X
<1>10. Chained(t, n, p)
  <2>1. Shrunk(s, m, o, t, n, p, X)
    BY <1>5, <1>6, <1>7, <1>8, <1>9 DEF Shrunk
  <2> QED
    BY <1>0, <2>1, ChainsShrink
<1> QED
  BY <1>4, <1>10 DEF Sane

\* KillActor
LEMMA KillInters ==
  ASSUME NEW s, NEW m, NEW o, NEW d, Inv(s, m, o, d), NEW v \in s.reg, v # Main
  PROVE  LET st == KillActor([s |-> s, m |-> m], v)
         IN  Interred(s, m, o, d, st.s, st.m, [o EXCEPT ![v] = NoOp], [d EXCEPT ![v] = 0], v)
<1> DEFINE b == Bury(s, v)
           q == Without(m.chain[v], v)
           w == WakeSenders(b, q)
           t == WakeJoiner(w, v)
           l == [m EXCEPT !.chain = [a \in Ctx |-> Without(m.chain[a], v)]]
           n == [l EXCEPT !.queue[v] = << >>, !.reader[v] = NoCtx, !.chain[v] = << >>]
           p == [o EXCEPT ![v] = NoOp]
           e == [d EXCEPT ![v] = 0]
<1>0. /\ Calm(s) /\ Chained(s, m, o) /\ s.blk \subseteq Ctx /\ v \in Ctx
      /\ m \in MailType /\ m.queue \in [Ctx -> Seq(Msg)] /\ m.reader \in [Ctx -> CtxOrNone]
      /\ m.chain \in [Ctx -> Seq(Ctx)] /\ m.chain[v] \in Seq(Ctx) /\ NoDup(m.chain[v])
      /\ o \in [Ctx -> Ops] /\ d \in [Ctx -> 0..MaxSleep]
      /\ << >> \in Seq(Msg) /\ << >> \in Seq(Ctx) /\ NoCtx \in CtxOrNone
  BY Fields, MailFields DEF Inv, Sane, Calm, Typed, Chained, CtxOrNone
<1>1. Calm(b) /\ Died(s, b, v)
  BY <1>0, BuryCalm
<1>2. q \in Seq(Ctx) /\ Elems(q) = Elems(m.chain[v]) \ {v}
  BY <1>0, WithoutList
<1> HIDE DEF b, q
<1>3. Calm(w) /\ Roused(b, w, Elems(q))
  <2>1. \A c \in Elems(q) : c \in b.blk
    BY <1>0, <1>1, <1>2 DEF Chained, ParkedAt, Died
  <2> QED
    BY <1>1, <1>2, <2>1, WakeSendersCalm
<1> HIDE DEF w
<1>4. Calm(t) /\ Roused(w, t, {})
  BY <1>0, <1>3, ForgetJoinerCalm
<1> HIDE DEF t
<1>5. /\ SamePrograms(s, t) /\ t.running = s.running /\ t.left = s.left
  BY <1>1, <1>3, <1>4 DEF Died, Roused, SamePrograms
<1>6. ASSUME NEW c \in Ctx
      PROVE  t.status[c] = IF c = v THEN "Dead"
                           ELSE IF c \in Elems(m.chain[v]) /\ s.status[c] = "Sleeping"
                             THEN "Ready" ELSE s.status[c]
  <2>1. b.status[c] = IF c = v THEN "Dead" ELSE s.status[c]
    BY <1>1 DEF Died
  <2>2. w.status[c] = IF c \in Elems(q) /\ b.status[c] = "Sleeping" THEN "Ready"
                      ELSE b.status[c]
    BY <1>3 DEF Roused
  <2>3. t.status[c] = w.status[c]
    BY <1>4 DEF Roused
  <2> QED
    BY <1>2, <2>1, <2>2, <2>3
<1>7. t.blk = s.blk \ (Elems(m.chain[v]) \cup {v})
  BY <1>1, <1>2, <1>3, <1>4 DEF Died, Roused
<1>8. /\ l \in MailType /\ l.queue = m.queue /\ l.reader = m.reader
      /\ l.chain = [a \in Ctx |-> Without(m.chain[a], v)]
  <2>1. \A a \in Ctx : Without(m.chain[a], v) \in Seq(Ctx)
    BY <1>0, WithoutList
  <2> QED
    BY <1>0, <2>1 DEF MailType
<1> HIDE DEF l
<1>9. /\ n \in MailType
      /\ n.queue = [m.queue EXCEPT ![v] = << >>]
      /\ n.reader = [m.reader EXCEPT ![v] = NoCtx]
      /\ n.chain = [l.chain EXCEPT ![v] = << >>]
  BY <1>0, <1>8 DEF MailType
<1>10. /\ NoOp \in Ops /\ NoOp.k = "none" /\ 0 \in 0..MaxSleep
  BY OpTypes, SleepAssumption
<1>11. Typed(n, p, e)
  BY <1>0, <1>9, <1>10 DEF Typed
<1>12. p[v].k = "none" /\ \A c \in Ctx \ {v} : p[c] = o[c] /\ e[c] = d[c]
  BY <1>0, <1>10
<1>13. KillActor([s |-> s, m |-> m], v) = [s |-> t, m |-> n]
  <2>1. l.chain[v] = q
    BY <1>0, <1>8 DEF q
  <2>2. coroutine_cleanup_mailbox([s |-> b, m |-> l], v) = [s |-> w, m |-> n]
    BY <2>1 DEF coroutine_cleanup_mailbox, w
  <2> HIDE DEF n
  <2> QED
    BY <2>2 DEF KillActor, b, l, t
<1> HIDE DEF n, p, e
<1>14. /\ n.reader[v] = NoCtx /\ n.queue[v] = << >> /\ n.chain[v] = << >>
       /\ \A c \in Ctx \ {v} : /\ n.queue[c] = m.queue[c] /\ n.reader[c] = m.reader[c]
                               /\ n.chain[c] = Without(m.chain[c], v)
  BY <1>0, <1>8, <1>9
<1>15. Interred(s, m, o, d, t, n, p, e, v)
  BY <1>4, <1>5, <1>6, <1>7, <1>11, <1>12, <1>14 DEF Interred
<1> QED
  BY <1>13, <1>15 DEF p, e

\* Somebody else is killed.
LEMMA KillOtherInv ==
  ASSUME NEW s, NEW m, NEW o, NEW d, Inv(s, m, o, d),
         NEW v \in s.reg, v # Main, v # s.running
  PROVE  LET st == KillActor([s |-> s, m |-> m], v)
         IN  Inv(st.s, st.m, [o EXCEPT ![v] = NoOp], [d EXCEPT ![v] = 0])
<1> DEFINE st == KillActor([s |-> s, m |-> m], v)
           p == [o EXCEPT ![v] = NoOp]
           e == [d EXCEPT ![v] = 0]
<1>0. Loaded(s) /\ s.running \in CtxOrNone /\ v \in Ctx
  BY Fields DEF Inv, Sane, Calm
<1>1. Interred(s, m, o, d, st.s, st.m, p, e, v)
  BY KillInters
<1> HIDE DEF st, p, e
<1>2. Sane(st.s, st.m, p, e)
  BY <1>0, <1>1, InterredSane
<1>3. Loaded(st.s)
  BY <1>0, <1>1 DEF Interred, Loaded, CtxOrNone
<1>4. Inv(st.s, st.m, p, e)
  BY <1>2, <1>3 DEF Inv
<1> QED
  BY <1>4 DEF st, p, e

\* The running coroutine dies.
LEMMA DieInv ==
  ASSUME NEW s, NEW m, NEW o, NEW d, Inv(s, m, o, d),
         NEW c \in Ctx, s.running = c, c # Main
  PROVE  LET st == KillActor([s |-> s, m |-> m], c)
         IN  Inv([st.s EXCEPT !.running = NoCtx], st.m,
                 [o EXCEPT ![c] = NoOp], [d EXCEPT ![c] = 0])
<1> DEFINE st == KillActor([s |-> s, m |-> m], c)
           t == [st.s EXCEPT !.running = NoCtx]
           p == [o EXCEPT ![c] = NoOp]
           e == [d EXCEPT ![c] = 0]
<1>0. Calm(s) /\ Loaded(s) /\ s.status[c] = "Running"
  BY RunsFree DEF Inv, Sane
<1>0a. c \in s.reg
  BY <1>0 DEF Calm, Registered, Alive
<1>1. Interred(s, m, o, d, st.s, st.m, p, e, c)
  BY <1>0a, KillInters
<1> HIDE DEF st, p, e
<1>2. Sane(st.s, st.m, p, e)
  BY <1>1, InterredSane
<1>3. /\ Calm(t)
      /\ SamePrograms(st.s, t) /\ t.status = st.s.status /\ t.blk = st.s.blk
      /\ t.left = st.s.left /\ t.running = NoCtx
  <2>1. Calm(st.s) /\ st.s.status[st.s.running] # "Running"
    BY <1>1 DEF Interred
  <2> QED
    BY <2>1, UnrunCalm
<1> HIDE DEF t
<1>3a. t.cont = st.s.cont /\ t.reg = st.s.reg
  BY <1>3 DEF SamePrograms
<1>4. ASSUME NEW x \in Ctx PROVE Alone(t, st.m, p, e, x)
  <2>1. Alone(st.s, st.m, p, e, x)
    BY <1>2 DEF Sane
  <2> QED
    BY <1>3, <1>3a, <2>1, KeptAlone
<1>5. Chained(t, st.m, p)
  <2>1. Chained(st.s, st.m, p) /\ st.s.blk \subseteq Ctx
    BY <1>2, Fields DEF Sane, Calm
  <2> QED
    BY <1>3, <2>1, ChainsStay
<1>6. Loaded(t)
  BY <1>3 DEF Loaded
<1>7. Inv(t, st.m, p, e)
  BY <1>2, <1>3, <1>4, <1>5, <1>6 DEF Inv, Sane
<1> QED
  BY <1>7 DEF st, t, p, e


-----------------------------------------------------------------------------
(* The actions keep ActorInv. *)

\* What the variables range over.
LEMMA VarTypes ==
  ASSUME ActorInv
  PROVE  /\ sched \in SchedType /\ mail \in MailType
         /\ op \in [Ctx -> Ops] /\ due \in [Ctx -> 0..MaxSleep]
         /\ mail.queue \in [Ctx -> Seq(Msg)]
         /\ sched.reg \subseteq Ctx /\ sched.susp \subseteq Ctx
         /\ sched.cont \in [Ctx -> Conts]
         /\ Calm(sched) /\ Loaded(sched)
  BY Fields, MailFields DEF ActorInv, Inv, Sane, Typed, Calm

\* The coroutine that executes its procedure, and one that resumes at the
\* operator that is pending.
LEMMA AtProc ==
  ASSUME ActorInv, NEW c \in Ctx, InProc(c)
  PROVE  /\ Inv(sched, mail, op, due) /\ sched.running = c
         /\ op[c].k = "none" /\ mail.reader[c] = NoCtx
<1>1. Inv(sched, mail, op, due) /\ sched.running = c /\ sched.cont[c] = "proc"
  BY DEF ActorInv, InProc
<1> QED
  BY <1>1, ProcIdle

LEMMA AtCheck ==
  ASSUME ActorInv, NEW c \in Ctx, At(c, "actor"), op[c].k # "none"
  PROVE  /\ Inv(sched, mail, op, due) /\ sched.running = c /\ c # Main
         /\ sched.cont[c] = "actor"
         /\ op[c].k = "send" => op[c].to \in sched.reg /\ mail.reader[c] = NoCtx
         /\ op[c].k = "match" /\ op[c].scan >= 0 =>
              /\ mail.reader[c] = NoCtx
              /\ op[c].scan < Len(mail.queue[c])
              /\ \A i \in 1..op[c].scan : mail.queue[c][i] \notin Matching
<1>1. Inv(sched, mail, op, due) /\ sched.running = c /\ sched.cont[c] = "actor"
  BY DEF ActorInv, At
<1>2. /\ Pending(sched, op, c) /\ Scans(sched, mail, op, c) /\ Registers(sched, mail, op, c)
  BY <1>1 DEF Inv, Sane, Alone
<1>3. c # Main /\ (op[c].k = "send" => op[c].to \in sched.reg)
  BY <1>2 DEF Pending
<1>4. op[c].k = "send" => mail.reader[c] = NoCtx
  BY <1>2 DEF Registers
<1>5. op[c].k = "match" /\ op[c].scan >= 0 =>
        /\ op[c].scan < Len(mail.queue[c])
        /\ \A i \in 1..op[c].scan : mail.queue[c][i] \notin Matching
  BY <1>2 DEF Scans
<1>6. op[c].k = "match" /\ op[c].scan >= 0 => mail.reader[c] = NoCtx
  <2>1. op[c] \in Ops
    BY VarTypes
  <2>2. op[c].k = "match" => op[c].scan \in -1..(Capacity - 1)
    BY <2>1, OpCases
  <2>3. op[c].scan >= 0 => op[c].scan # -1
    BY ActorAssumption
  <2> QED
    BY <1>2, <2>3 DEF Registers
<1> QED
  BY <1>1, <1>3, <1>4, <1>5, <1>6

\* The pending operator is over.
LEMMA FinishInv ==
  ASSUME NEW s, NEW m, NEW o, NEW d, Inv(s, m, o, d), NEW c \in Ctx, s.running = c,
         m.reader[c] = NoCtx
  PROVE  Inv([s EXCEPT !.cont[c] = "proc"], m, [o EXCEPT ![c] = NoOp], [d EXCEPT ![c] = 0])
<1> DEFINE p == [o EXCEPT ![c] = NoOp]
           e == [d EXCEPT ![c] = 0]
<1>1. Inv(s, m, p, e)
  BY ForgetInv
<1>2. p[c].k = "none"
  BY OpTypes DEF Inv, Sane, Typed
<1> HIDE DEF p, e
<1>3. Inv([s EXCEPT !.cont[c] = "proc"], m, p, e)
  BY <1>1, <1>2, ProceedInv
<1> QED
  BY <1>3 DEF p, e

LEMMA SpawnPreserves ==
  ASSUME ActorInv, NEW c \in Ctx, Spawn(c)
  PROVE  Inv(sched', mail', op', due')
<1>1. PICK y \in Allocatable(sched) : sched' = coroutine_launch(sched, y)
  BY DEF Spawn, Launch
<1>2. Inv(coroutine_launch(sched, y), mail, op, due)
  BY SpawnInv DEF ActorInv
<1> QED
  BY <1>1, <1>2 DEF Spawn

LEMMA SendPreserves ==
  ASSUME ActorInv, NEW c \in Ctx, Send(c)
  PROVE  Inv(sched', mail', op', due')
<1>1. PICK a \in Handles \ {Main}, x \in Msg :
        /\ ~Full(a)
        /\ Becomes(actor_send_complete(Here, a, x))
  BY DEF Send
<1> DEFINE st == actor_send_complete([s |-> sched, m |-> mail], a, x)
<1>2. a \in Ctx /\ Len(mail.queue[a]) < Capacity
  <2>1. a \in Ctx
    BY VarTypes DEF Handles
  <2>2. Len(mail.queue[a]) \in Nat
    BY <2>1, VarTypes
  <2> QED
    BY <1>1, <2>1, <2>2, ActorAssumption DEF Full
<1>3. Inv(st.s, st.m, op, due)
  BY <1>2, DeliverInv DEF ActorInv
<1> HIDE DEF st
<1>4. sched' = st.s /\ mail' = st.m /\ op' = op /\ due' = due
  BY <1>1 DEF Send, Becomes, Here, st
<1> QED
  BY <1>3, <1>4

LEMMA SendBlocksPreserves ==
  ASSUME Addressed, ActorInv, NEW c \in Ctx, SendBlocks(c)
  PROVE  Inv(sched', mail', op', due')
<1>1. PICK a \in Handles \ {Main}, x \in Msg :
        /\ sched.status[a] # "Dead"
        /\ Becomes(ParkSender(Here, a, c))
        /\ op' = [op EXCEPT ![c] = SendOp(a, x)]
  BY DEF SendBlocks
<1> DEFINE st == ParkSender([s |-> sched, m |-> mail], a, c)
           q == SendOp(a, x)
<1>2. /\ Inv(sched, mail, op, due) /\ sched.running = c /\ mail.reader[c] = NoCtx /\ c # Main
      /\ a \in sched.reg /\ a \in Ctx
  BY AtProc, VarTypes DEF SendBlocks, Addressed, Handles
<1>3. q \in Ops /\ q.k = "send" /\ q.to = a
  BY <1>2, OpTypes
<1> HIDE DEF q
<1>4. Inv(st.s, st.m, [op EXCEPT ![c] = q], due)
  BY <1>1, <1>2, <1>3, ParkSenderInv
<1> HIDE DEF st
<1>5. sched' = st.s /\ mail' = st.m /\ op' = [op EXCEPT ![c] = q] /\ due' = due
  BY <1>1 DEF SendBlocks, Becomes, Here, st, q
<1> QED
  BY <1>4, <1>5

\* A send that ends, with what it leaves of scheduler and mailboxes.
LEMMA ResumedPreserves ==
  ASSUME NEW st, Inv(st.s, st.m, op, due), NEW c \in Ctx, st.s.running = c,
         st.m.reader[c] = NoCtx,
         Becomes(Resumed(st, c)), Idling(c)
  PROVE  Inv(sched', mail', op', due')
<1>1. Inv([st.s EXCEPT !.cont[c] = "proc"], st.m, [op EXCEPT ![c] = NoOp],
          [due EXCEPT ![c] = 0])
  BY FinishInv
<1>2. /\ sched' = [st.s EXCEPT !.cont[c] = "proc"] /\ mail' = st.m
      /\ op' = [op EXCEPT ![c] = NoOp] /\ due' = [due EXCEPT ![c] = 0]
  BY DEF Becomes, Resumed, Idling
<1> QED
  BY <1>1, <1>2

LEMMA SendRetryPreserves ==
  ASSUME ActorInv, NEW c \in Ctx, SendRetry(c)
  PROVE  Inv(sched', mail', op', due')
<1> DEFINE a == op[c].to
           x == op[c].msg
<1>1. /\ Inv(sched, mail, op, due) /\ sched.running = c /\ c # Main
      /\ a \in sched.reg /\ mail.reader[c] = NoCtx
  BY AtCheck DEF SendRetry
<1>2. op[c] \in Ops /\ a \in Ctx /\ x \in Msg
  BY VarTypes, OpCases DEF SendRetry
<1>3. CASE Becomes(Resumed(Here, c)) /\ Idling(c)
  <2> DEFINE st == [s |-> sched, m |-> mail]
  <2>1. Inv(st.s, st.m, op, due) /\ st.s.running = c /\ st.m.reader[c] = NoCtx
    BY <1>1
  <2>2. Becomes(Resumed(st, c))
    BY <1>3 DEF Here
  <2> HIDE DEF st
  <2> QED
    BY <1>3, <2>1, <2>2, ResumedPreserves
<1>4. CASE ~Full(a) /\ Becomes(Resumed(actor_send_complete(Here, a, x), c)) /\ Idling(c)
  <2> DEFINE st == actor_send_complete([s |-> sched, m |-> mail], a, x)
  <2>1. Len(mail.queue[a]) < Capacity
    <3>1. Len(mail.queue[a]) \in Nat
      BY <1>2, VarTypes
    <3> QED
      BY <1>4, <3>1, ActorAssumption DEF Full
  <2>2. Inv(st.s, st.m, op, due) /\ st.s.running = c
    <3>1. /\ Inv(st.s, st.m, op, due)
          /\ SamePrograms(sched, st.s) /\ st.s.running = sched.running
      BY <1>1, <1>2, <2>1, DeliverInv
    <3> QED
      BY <1>1, <3>1
  <2>3. Becomes(Resumed(st, c))
    BY <1>4 DEF Here
  <2> HIDE DEF st
  <2>4. st.m.reader[c] = NoCtx
    BY <2>2 DEF Inv, Sane, Alone, Registers, SendRetry
  <2> QED
    BY <1>4, <2>2, <2>3, <2>4, ResumedPreserves
<1>5. CASE sched.status[a] # "Dead" /\ Becomes(ParkSender(Here, a, c)) /\ UNCHANGED <<op, due>>
  <2> DEFINE st == ParkSender([s |-> sched, m |-> mail], a, c)
             q == op[c]
  <2>1. q \in Ops /\ q.k = "send" /\ q.to = a
    BY <1>2 DEF SendRetry
  <2>2. [op EXCEPT ![c] = q] = op
    BY VarTypes
  <2>3. sched' = st.s /\ mail' = st.m /\ op' = op /\ due' = due
    BY <1>5 DEF Becomes, Here
  <2> HIDE DEF q, a
  <2>4. Inv(st.s, st.m, [op EXCEPT ![c] = q], due)
    BY <1>1, <1>5, <2>1, ParkSenderInv
  <2> HIDE DEF st
  <2> QED
    BY <2>2, <2>3, <2>4
<1> QED
  BY <1>3, <1>4, <1>5 DEF SendRetry

LEMMA SendRetryRejectedPreserves ==
  ASSUME ActorInv, NEW c \in Ctx, SendRetryRejected(c)
  PROVE  Inv(sched', mail', op', due')
<1> DEFINE st == [s |-> sched, m |-> mail]
<1>1. /\ Inv(st.s, st.m, op, due) /\ st.s.running = c /\ st.m.reader[c] = NoCtx
  BY AtCheck DEF SendRetryRejected
<1>2. Becomes(Resumed(st, c)) /\ Idling(c)
  BY DEF SendRetryRejected, Here
<1> HIDE DEF st
<1> QED
  BY <1>1, <1>2, ResumedPreserves


\* One addressee of a broadcast.
LEMMA OfferInv ==
  ASSUME NEW o, NEW d, NEW st, Inv(st.s, st.m, o, d), NEW a \in Ctx, NEW x \in Msg
  PROVE  LET r == OfferTo(st, a, x)
         IN  Inv(r.s, r.m, o, d)
<1> DEFINE s == st.s
           m == st.m
           r == actor_send_complete([s |-> s, m |-> m], a, x)
<1>1. CASE st.s.status[a] # "Dead" /\ Len(st.m.queue[a]) < Capacity
  <2>1. Inv(s, m, o, d) /\ Len(m.queue[a]) < Capacity
    BY <1>1
  <2>2. OfferTo(st, a, x) = r
    BY <1>1 DEF OfferTo, actor_send_complete
  <2> HIDE DEF s, m
  <2>3. Inv(r.s, r.m, o, d)
    BY <2>1, DeliverInv
  <2> QED
    BY <2>2, <2>3
<1>2. CASE ~(st.s.status[a] # "Dead" /\ Len(st.m.queue[a]) < Capacity)
  BY <1>2 DEF OfferTo
<1> QED
  BY <1>1, <1>2

LEMMA BroadcastPreserves ==
  ASSUME ActorInv, NEW c \in Ctx, Broadcast(c)
  PROVE  Inv(sched', mail', op', due')
<1>1. PICK a, b \in Handles \ {Main}, x \in Msg :
        Becomes(OfferTo(OfferTo(Here, a, x), b, x))
  BY DEF Broadcast
<1> DEFINE st == OfferTo(Here, a, x)
           r == OfferTo(st, b, x)
<1>2. a \in Ctx /\ b \in Ctx
  BY VarTypes DEF Handles
<1>3. Inv(st.s, st.m, op, due)
  <2>1. Inv(Here.s, Here.m, op, due)
    BY DEF ActorInv, Here
  <2> QED
    BY <1>2, <2>1, OfferInv
<1>4. sched' = r.s /\ mail' = r.m /\ op' = op /\ due' = due
  BY <1>1 DEF Broadcast, Becomes
<1> HIDE DEF st
<1>5. Inv(r.s, r.m, op, due)
  BY <1>2, <1>3, OfferInv
<1> QED
  BY <1>4, <1>5

\* The pending receive ends with the message at i.
LEMMA TakenInv ==
  ASSUME NEW s, NEW m, NEW o, NEW d, Inv(s, m, o, d), NEW c \in Ctx, s.running = c,
         m.reader[c] = NoCtx, NEW i \in 1..Len(m.queue[c])
  PROVE  LET st == TakeAt([s |-> s, m |-> m], c, i)
         IN  Inv([st.s EXCEPT !.cont[c] = "proc"], st.m,
                 [o EXCEPT ![c] = NoOp], [d EXCEPT ![c] = 0])
<1> DEFINE p == [o EXCEPT ![c] = NoOp]
           e == [d EXCEPT ![c] = 0]
           st == TakeAt([s |-> s, m |-> m], c, i)
<1>1. Inv(s, m, p, e)
  BY ForgetInv
<1>2. p[c].k = "none"
  BY OpTypes DEF Inv, Sane, Typed
<1> HIDE DEF p, e
<1>3. Inv(st.s, st.m, p, e) /\ st.s.running = s.running
  BY <1>1, <1>2, TakeInv
<1> HIDE DEF st
<1>4. Inv([st.s EXCEPT !.cont[c] = "proc"], st.m, p, e)
  BY <1>2, <1>3, ProceedInv
<1> QED
  BY <1>4 DEF p, e, st

LEMMA TakenPreserves ==
  ASSUME NEW m, Inv(sched, m, op, due), NEW c \in Ctx, sched.running = c,
         m.reader[c] = NoCtx, NEW i \in 1..Len(m.queue[c]),
         Becomes(Resumed(TakeAt([s |-> sched, m |-> m], c, i), c)), Idling(c)
  PROVE  Inv(sched', mail', op', due')
<1> DEFINE st == TakeAt([s |-> sched, m |-> m], c, i)
<1>1. Inv([st.s EXCEPT !.cont[c] = "proc"], st.m, [op EXCEPT ![c] = NoOp],
          [due EXCEPT ![c] = 0])
  BY TakenInv
<1> HIDE DEF st
<1>2. /\ sched' = [st.s EXCEPT !.cont[c] = "proc"] /\ mail' = st.m
      /\ op' = [op EXCEPT ![c] = NoOp] /\ due' = [due EXCEPT ![c] = 0]
  BY DEF Becomes, Resumed, Idling, st
<1> QED
  BY <1>1, <1>2

\* Parking until a message comes, or for r ticks.
LEMMA ParkedPreserves ==
  ASSUME Inv(sched, mail, op, due), NEW c \in Ctx, sched.running = c, c # Main,
         NEW timed \in BOOLEAN, NEW r \in 0..MaxSleep, NEW q, Waits(mail, c, q, timed),
         NEW e \in [Ctx -> 0..MaxSleep], \A x \in Ctx \ {c} : e[x] = due[x],
         timed => e[c] = r,
         Becomes(ParkReader(Here, c, timed, r)), op' = [op EXCEPT ![c] = q], due' = e
  PROVE  Inv(sched', mail', op', due')
<1> DEFINE st == ParkReader([s |-> sched, m |-> mail], c, timed, r)
<1>1. Inv(st.s, st.m, [op EXCEPT ![c] = q], e)
  BY ONLY Inv(sched, mail, op, due), c \in Ctx, sched.running = c, c # Main,
          timed \in BOOLEAN, r \in 0..MaxSleep, Waits(mail, c, q, timed),
          e \in [Ctx -> 0..MaxSleep], \A x \in Ctx \ {c} : e[x] = due[x],
          timed => e[c] = r, ParkReaderInv, SMTT(30)
<1>2. sched' = st.s /\ mail' = st.m
  BY DEF Becomes, Here
<1> HIDE DEF st
<1> QED
  BY <1>1, <1>2

\* A receive finds the mailbox empty or not.
LEMMA NoneOrFirst ==
  ASSUME NEW q \in Seq(Msg)
  PROVE  IF q = << >> THEN \A i \in 1..Len(q) : q[i] \notin Matching
                      ELSE 1 \in 1..Len(q) /\ 0 \in 0..(Len(q) - 1)
<1>1. Len(q) \in Nat /\ (q = << >> <=> Len(q) = 0)
  OBVIOUS
<1> QED
  BY <1>1

LEMMA ReceivePreserves ==
  ASSUME ActorInv, NEW c \in Ctx, Receive(c)
  PROVE  Inv(sched', mail', op', due')
<1>1. /\ Inv(sched, mail, op, due) /\ sched.running = c /\ c # Main
      /\ op[c].k = "none" /\ mail.reader[c] = NoCtx
      /\ mail.queue[c] \in Seq(Msg) /\ due \in [Ctx -> 0..MaxSleep]
      /\ 0 \in 0..MaxSleep
  BY AtProc, VarTypes, SleepAssumption DEF Receive
<1>2. CASE /\ mail.queue[c] # << >>
           /\ Becomes(TakeAt(Here, c, 1))
           /\ UNCHANGED <<op, due>>
  <2> DEFINE st == TakeAt([s |-> sched, m |-> mail], c, 1)
  <2>1. 1 \in 1..Len(mail.queue[c])
    BY <1>1, <1>2, NoneOrFirst
  <2>2. Inv(st.s, st.m, op, due)
    BY <1>1, <2>1, TakeInv
  <2>3. sched' = st.s /\ mail' = st.m
    BY <1>2 DEF Becomes, Here
  <2> HIDE DEF st
  <2> QED
    BY <1>2, <2>2, <2>3
<1>3. CASE /\ mail.queue[c] = << >>
           /\ Becomes(ParkReader(Here, c, FALSE, 0))
           /\ op' = [op EXCEPT ![c] = RecvOp(FALSE)]
           /\ UNCHANGED due
  <2>1. Waits(mail, c, RecvOp(FALSE), FALSE)
    BY <1>3 DEF Waits
  <2> QED
    BY <1>1, <1>3, <2>1, ParkedPreserves
<1>4. ASSUME NEW r \in 0..MaxSleep,
             mail.queue[c] = << >>,
             Becomes(ParkReader(Here, c, TRUE, r)),
             op' = [op EXCEPT ![c] = RecvOp(TRUE)],
             due' = [due EXCEPT ![c] = r]
      PROVE  Inv(sched', mail', op', due')
  <2> DEFINE e == [due EXCEPT ![c] = r]
  <2>1. Waits(mail, c, RecvOp(TRUE), TRUE)
    BY <1>4 DEF Waits
  <2>2. e \in [Ctx -> 0..MaxSleep] /\ e[c] = r /\ \A x \in Ctx \ {c} : e[x] = due[x]
    BY <1>1
  <2>3. due' = e
    BY <1>4
  <2> HIDE DEF e
  <2> QED
    BY <1>1, <1>4, <2>1, <2>2, <2>3, ParkedPreserves
<1> QED
  BY <1>2, <1>3, <1>4 DEF Receive

\* The owner's registration is taken back.
LEMMA UnregisteredHere ==
  ASSUME ActorInv, NEW c \in Ctx, sched.running = c
  PROVE  \E n : /\ Unregistered(Here, c) = [s |-> sched, m |-> n]
                /\ Inv(sched, n, op, due) /\ n.reader[c] = NoCtx
                /\ n.queue = mail.queue /\ n.chain = mail.chain
<1> DEFINE n == [mail EXCEPT !.reader[c] = NoCtx]
<1>1. /\ Inv(sched, n, op, due) /\ n.reader[c] = NoCtx
      /\ n.queue = mail.queue /\ n.chain = mail.chain
  BY UnregisterInv DEF ActorInv
<1>2. Unregistered(Here, c) = [s |-> sched, m |-> n]
  BY DEF Unregistered, Here
<1> QED
  BY <1>1, <1>2

\* A receive whose time is up.
LEMMA ExpiredPreserves ==
  ASSUME ActorInv, NEW c \in Ctx, sched.running = c,
         Becomes(Resumed(Unregistered(Here, c), c)), Idling(c)
  PROVE  Inv(sched', mail', op', due')
<1>1. PICK n : /\ Unregistered(Here, c) = [s |-> sched, m |-> n]
               /\ Inv(sched, n, op, due) /\ n.reader[c] = NoCtx
               /\ n.queue = mail.queue
  BY UnregisteredHere
<1> DEFINE st == [s |-> sched, m |-> n]
<1>2. Inv(st.s, st.m, op, due) /\ st.s.running = c /\ st.m.reader[c] = NoCtx
  BY <1>1
<1>3. Becomes(Resumed(st, c)) /\ Idling(c)
  BY <1>1
<1> HIDE DEF st
<1> QED
  BY <1>2, <1>3, ResumedPreserves

LEMMA RecvCheckPreserves ==
  ASSUME ActorInv, NEW c \in Ctx, RecvCheck(c)
  PROVE  Inv(sched', mail', op', due')
<1>1. /\ Inv(sched, mail, op, due) /\ sched.running = c /\ c # Main
      /\ op[c] \in Ops /\ op[c].k = "recv"
      /\ mail.queue[c] \in Seq(Msg) /\ due \in [Ctx -> 0..MaxSleep]
      /\ op \in [Ctx -> Ops]
  BY AtCheck, VarTypes DEF RecvCheck
<1>2. CASE /\ mail.queue[c] # << >>
           /\ Becomes(Resumed(TakeAt(Unregistered(Here, c), c, 1), c))
           /\ Idling(c)
  <2>1. PICK n : /\ Unregistered(Here, c) = [s |-> sched, m |-> n]
                 /\ Inv(sched, n, op, due) /\ n.reader[c] = NoCtx
                 /\ n.queue = mail.queue
    BY <1>1, UnregisteredHere
  <2>2. 1 \in 1..Len(n.queue[c])
    BY <1>1, <1>2, <2>1, NoneOrFirst
  <2>3. Becomes(Resumed(TakeAt([s |-> sched, m |-> n], c, 1), c))
    BY <1>2, <2>1
  <2> QED
    BY <1>1, <1>2, <2>1, <2>2, <2>3, TakenPreserves
<1>3. CASE /\ Becomes(Resumed(Unregistered(Here, c), c))
           /\ Idling(c)
  BY <1>1, <1>3, ExpiredPreserves
<1>4. CASE /\ mail.queue[c] = << >>
           /\ Becomes(ParkReader(Here, c, op[c].timed, due[c]))
           /\ UNCHANGED <<op, due>>
  <2> DEFINE q == op[c]
             timed == op[c].timed
             r == due[c]
  <2>1. /\ q = RecvOp(timed) /\ timed \in BOOLEAN /\ r \in 0..MaxSleep
    BY <1>1, OpCases
  <2>2. op' = [op EXCEPT ![c] = q] /\ due' = due
    BY <1>1, <1>4
  <2>3. Waits(mail, c, q, timed)
    BY <1>4, <2>1 DEF Waits
  <2>4. Becomes(ParkReader(Here, c, timed, r)) /\ due[c] = r
    BY <1>4
  <2> HIDE DEF q, timed, r
  <2> QED
    BY <1>1, <2>1, <2>2, <2>3, <2>4, ParkedPreserves
<1> QED
  BY <1>2, <1>3, <1>4 DEF RecvCheck


\* The coroutine resumes at its check as it stands.
LEMMA SameContinues ==
  ASSUME ActorInv, NEW c \in Ctx, sched.cont[c] = "actor"
  PROVE  Continues(sched, sched, c, "actor")
  BY VarTypes DEF Continues, SameState

LEMMA ReceiveMatchPreserves ==
  ASSUME ActorInv, NEW c \in Ctx, ReceiveMatch(c)
  PROVE  Inv(sched', mail', op', due')
<1>1. /\ Inv(sched, mail, op, due) /\ sched.running = c /\ c # Main
      /\ mail.reader[c] = NoCtx
      /\ mail.queue[c] \in Seq(Msg) /\ due \in [Ctx -> 0..MaxSleep]
  BY AtProc, VarTypes DEF ReceiveMatch
<1>2. PICK timed \in BOOLEAN, r \in 0..MaxSleep :
        /\ due' = [due EXCEPT ![c] = r]
        /\ \/ /\ mail.queue[c] = << >>
              /\ Becomes(ParkReader(Here, c, timed, r))
              /\ op' = [op EXCEPT ![c] = MatchOp(timed, -1)]
           \/ /\ mail.queue[c] # << >>
              /\ sched' = [sched EXCEPT !.cont[c] = "actor"]
              /\ op' = [op EXCEPT ![c] = MatchOp(timed, 0)]
              /\ UNCHANGED mail
  BY DEF ReceiveMatch
<1> DEFINE e == [due EXCEPT ![c] = r]
<1>3. e \in [Ctx -> 0..MaxSleep] /\ e[c] = r /\ \A x \in Ctx \ {c} : e[x] = due[x]
  BY <1>1
<1>4. due' = e
  BY <1>2
<1> HIDE DEF e
<1>5. CASE /\ mail.queue[c] = << >>
           /\ Becomes(ParkReader(Here, c, timed, r))
           /\ op' = [op EXCEPT ![c] = MatchOp(timed, -1)]
  <2>1. Waits(mail, c, MatchOp(timed, -1), timed)
    BY <1>1, <1>5, NoneOrFirst DEF Waits
  <2> QED
    BY <1>1, <1>3, <1>4, <1>5, <2>1, ParkedPreserves
<1>6. CASE /\ mail.queue[c] # << >>
           /\ sched' = [sched EXCEPT !.cont[c] = "actor"]
           /\ op' = [op EXCEPT ![c] = MatchOp(timed, 0)]
           /\ UNCHANGED mail
  <2> DEFINE t == [sched EXCEPT !.cont[c] = "actor"]
  <2>1. Continues(sched, t, c, "actor")
    BY VarTypes DEF Continues, SameState, SchedType, Conts
  <2>2. 0 \in 0..(Len(mail.queue[c]) - 1)
    BY <1>1, <1>6, NoneOrFirst
  <2>3. \A j \in 1..0 : mail.queue[c][j] \notin Matching
    OBVIOUS
  <2>4. sched' = t
    BY <1>6
  <2> HIDE DEF t
  <2>5. Inv(t, mail, [op EXCEPT ![c] = MatchOp(timed, 0)], e)
    BY <1>1, <1>3, <2>1, <2>2, <2>3, ScanInv
  <2> QED
    BY <1>4, <1>6, <2>4, <2>5
<1> QED
  BY <1>2, <1>5, <1>6

\* Nothing in the mailbox matches.
LEMMA MatchExhaustedPreserves ==
  ASSUME ActorInv, NEW c \in Ctx, At(c, "actor"), op[c].k = "match",
         \A i \in 1..Len(mail.queue[c]) : mail.queue[c][i] \notin Matching,
         MatchExhausted(c)
  PROVE  Inv(sched', mail', op', due')
<1>1. /\ Inv(sched, mail, op, due) /\ sched.running = c /\ c # Main
      /\ op[c] \in Ops /\ due \in [Ctx -> 0..MaxSleep]
  BY AtCheck, VarTypes
<1>2. CASE /\ Becomes(Resumed(Unregistered(Here, c), c))
           /\ Idling(c)
  BY <1>1, <1>2, ExpiredPreserves
<1>3. CASE /\ Becomes(ParkReader(Here, c, op[c].timed, due[c]))
           /\ op' = [op EXCEPT ![c].scan = -1]
           /\ UNCHANGED due
  <2> DEFINE q == [op[c] EXCEPT !.scan = -1]
             timed == op[c].timed
             r == due[c]
  <2>1. timed \in BOOLEAN /\ r \in 0..MaxSleep /\ q = MatchOp(timed, -1)
    BY <1>1, OpCases
  <2>2. op' = [op EXCEPT ![c] = q] /\ due' = due
    BY <1>3
  <2>3. Waits(mail, c, q, timed)
    BY <2>1 DEF Waits
  <2>4. Becomes(ParkReader(Here, c, timed, r)) /\ due[c] = r
    BY <1>3
  <2> HIDE DEF q, timed, r
  <2> QED
    BY <1>1, <2>1, <2>2, <2>3, <2>4, ParkedPreserves
<1> QED
  BY <1>2, <1>3 DEF MatchExhausted

LEMMA MatchWokenPreserves ==
  ASSUME ActorInv, NEW c \in Ctx, MatchWoken(c)
  PROVE  Inv(sched', mail', op', due')
<1>1. /\ Inv(sched, mail, op, due) /\ sched.running = c /\ c # Main
      /\ sched.cont[c] = "actor" /\ op[c] \in Ops /\ op[c].k = "match"
      /\ mail.queue[c] \in Seq(Msg) /\ due \in [Ctx -> 0..MaxSleep]
  BY AtCheck, VarTypes DEF MatchWoken
<1>2. CASE /\ mail.queue[c] # << >>
           /\ Becomes(Unregistered(Here, c))
           /\ op' = [op EXCEPT ![c].scan = 0]
           /\ UNCHANGED due
  <2> DEFINE q == [op[c] EXCEPT !.scan = 0]
             timed == op[c].timed
  <2>1. PICK n : /\ Unregistered(Here, c) = [s |-> sched, m |-> n]
                 /\ Inv(sched, n, op, due) /\ n.reader[c] = NoCtx
                 /\ n.queue = mail.queue
    BY <1>1, UnregisteredHere
  <2>2. timed \in BOOLEAN /\ q = MatchOp(timed, 0)
    BY <1>1, OpCases
  <2>3. /\ sched' = sched /\ mail' = n
        /\ op' = [op EXCEPT ![c] = q] /\ due' = due
    BY <1>2, <2>1 DEF Becomes
  <2> HIDE DEF q, timed
  <2>4. 0 \in 0..(Len(n.queue[c]) - 1)
    BY <1>1, <1>2, <2>1, NoneOrFirst
  <2>5. \A j \in 1..0 : n.queue[c][j] \notin Matching
    OBVIOUS
  <2>6. Continues(sched, sched, c, "actor")
    BY <1>1, SameContinues
  <2>7. Inv(sched, n, [op EXCEPT ![c] = MatchOp(timed, 0)], due)
    BY <1>1, <2>1, <2>2, <2>4, <2>5, <2>6, ScanInv
  <2> QED
    BY <2>2, <2>3, <2>7
<1>3. CASE mail.queue[c] = << >> /\ MatchExhausted(c)
  <2>1. \A i \in 1..Len(mail.queue[c]) : mail.queue[c][i] \notin Matching
    BY <1>1, <1>3, NoneOrFirst
  <2> QED
    BY <1>1, <1>3, <2>1, MatchExhaustedPreserves DEF MatchWoken
<1> QED
  BY <1>2, <1>3 DEF MatchWoken

LEMMA MatchScannedPreserves ==
  ASSUME ActorInv, NEW c \in Ctx, MatchScanned(c)
  PROVE  Inv(sched', mail', op', due')
<1> DEFINE i == op[c].scan + 1
<1>1. /\ Inv(sched, mail, op, due) /\ sched.running = c /\ c # Main
      /\ sched.cont[c] = "actor" /\ op[c] \in Ops /\ op[c].k = "match"
      /\ mail.reader[c] = NoCtx /\ op[c].scan < Len(mail.queue[c])
      /\ \A j \in 1..op[c].scan : mail.queue[c][j] \notin Matching
      /\ mail.queue[c] \in Seq(Msg) /\ due \in [Ctx -> 0..MaxSleep]
  BY AtCheck, VarTypes DEF MatchScanned
<1>2. /\ op[c].scan \in Nat /\ Len(mail.queue[c]) \in Nat /\ i \in 1..Len(mail.queue[c])
  <2>1. op[c].scan \in -1..(Capacity - 1) /\ op[c].scan >= 0
    BY <1>1, OpCases DEF MatchScanned
  <2>2. op[c].scan \in Nat
    BY <2>1, ActorAssumption
  <2>3. Len(mail.queue[c]) \in Nat
    BY <1>1
  <2> QED
    BY <1>1, <2>2, <2>3
<1>3. CASE /\ mail.queue[c][i] \in Matching
           /\ Becomes(Resumed(TakeAt(Here, c, i), c))
           /\ Idling(c)
  <2>1. Becomes(Resumed(TakeAt([s |-> sched, m |-> mail], c, i), c))
    BY <1>3 DEF Here
  <2> HIDE DEF i
  <2> QED
    BY <1>1, <1>2, <1>3, <2>1, TakenPreserves
<1>4. CASE /\ mail.queue[c][i] \notin Matching
           /\ i < Len(mail.queue[c])
           /\ op' = [op EXCEPT ![c].scan = i]
           /\ UNCHANGED <<sched, mail, due>>
  <2> DEFINE q == [op[c] EXCEPT !.scan = i]
             timed == op[c].timed
  <2>1. timed \in BOOLEAN /\ q = MatchOp(timed, i)
    BY <1>1, OpCases
  <2>2. /\ sched' = sched /\ mail' = mail
        /\ op' = [op EXCEPT ![c] = q] /\ due' = due
    BY <1>4
  <2>3. i \in 0..(Len(mail.queue[c]) - 1)
    BY <1>2, <1>4
  <2>4. \A j \in 1..i : mail.queue[c][j] \notin Matching
    <3>1. \A j \in 1..i : j \in 1..op[c].scan \/ j = i
      BY <1>2
    <3> QED
      BY <1>1, <1>4, <3>1
  <2> HIDE DEF q, timed, i
  <2>5. Continues(sched, sched, c, "actor")
    BY <1>1, SameContinues
  <2>6. Inv(sched, mail, [op EXCEPT ![c] = MatchOp(timed, i)], due)
    BY <1>1, <2>1, <2>3, <2>4, <2>5, ScanInv
  <2> QED
    BY <2>1, <2>2, <2>6
<1>5. CASE /\ mail.queue[c][i] \notin Matching
           /\ i >= Len(mail.queue[c])
           /\ MatchExhausted(c)
  <2>1. \A j \in 1..Len(mail.queue[c]) : j \in 1..op[c].scan \/ j = i
    BY <1>2, <1>5
  <2>2. \A j \in 1..Len(mail.queue[c]) : mail.queue[c][j] \notin Matching
    BY <1>1, <1>5, <2>1
  <2> QED
    BY <1>1, <1>5, <2>2, MatchExhaustedPreserves DEF MatchScanned
<1> QED
  BY <1>3, <1>4, <1>5 DEF MatchScanned

LEMMA MatchFailsPreserves ==
  ASSUME ActorInv, NEW c \in Ctx, MatchFails(c)
  PROVE  Inv(sched', mail', op', due')
<1> DEFINE st == [s |-> sched, m |-> mail]
<1>1. /\ Inv(st.s, st.m, op, due) /\ st.s.running = c /\ st.m.reader[c] = NoCtx
  BY AtCheck DEF MatchFails
<1>2. Becomes(Resumed(st, c)) /\ Idling(c)
  BY DEF MatchFails, Here
<1> HIDE DEF st
<1> QED
  BY <1>1, <1>2, ResumedPreserves

LEMMA FlushPreserves ==
  ASSUME ActorInv, NEW c \in Ctx, Flush(c)
  PROVE  Inv(sched', mail', op', due')
<1>1. /\ Inv(sched, mail, op, due) /\ sched.running = c
      /\ op[c].k = "none" /\ mail.reader[c] = NoCtx
  BY AtProc DEF Flush
<1>2. Inv(WakeAll(sched, mail.chain[c]),
          [mail EXCEPT !.queue[c] = << >>, !.chain[c] = << >>], op, due)
  BY <1>1, FlushInv
<1> QED
  BY <1>2 DEF Flush, Becomes


LEMMA ActorDiesPreserves ==
  ASSUME ActorInv, NEW c \in Ctx, ActorDies(c)
  PROVE  Inv(sched', mail', op', due')
<1> DEFINE st == KillActor([s |-> sched, m |-> mail], c)
<1>1. Inv(sched, mail, op, due) /\ sched.running = c /\ c # Main
  BY DEF ActorDies, ActorInv, InProc, At
<1>2. Inv([st.s EXCEPT !.running = NoCtx], st.m, [op EXCEPT ![c] = NoOp],
          [due EXCEPT ![c] = 0])
  BY <1>1, DieInv
<1>3. st = [s |-> st.s, m |-> st.m]
  BY DEF KillActor, coroutine_cleanup_mailbox
<1>4. st = KillActor(Here, c)
  BY DEF Here
<1> HIDE DEF st
<1>5. /\ sched' = [st.s EXCEPT !.running = NoCtx] /\ mail' = st.m
      /\ op' = [op EXCEPT ![c] = NoOp] /\ due' = [due EXCEPT ![c] = 0]
  BY <1>3, <1>4 DEF ActorDies, Becomes, Idling
<1> QED
  BY <1>2, <1>5

LEMMA ActorKilledPreserves ==
  ASSUME ActorInv, NEW c \in Ctx, ActorKilled(c)
  PROVE  Inv(sched', mail', op', due')
<1>1. PICK v \in Handles \ {c, Main} : Becomes(KillActor(Here, v)) /\ Idling(v)
  BY DEF ActorKilled
<1> DEFINE st == KillActor([s |-> sched, m |-> mail], v)
<1>2. /\ Inv(sched, mail, op, due) /\ sched.running = c
      /\ v \in sched.reg /\ v # Main /\ v # sched.running
  BY AtProc DEF ActorKilled, Handles
<1>3. Inv(st.s, st.m, [op EXCEPT ![v] = NoOp], [due EXCEPT ![v] = 0])
  BY <1>2, KillOtherInv
<1>4. /\ sched' = st.s /\ mail' = st.m
      /\ op' = [op EXCEPT ![v] = NoOp] /\ due' = [due EXCEPT ![v] = 0]
  BY <1>1 DEF Becomes, Idling, Here
<1> HIDE DEF st
<1> QED
  BY <1>3, <1>4

LEMMA ReleasePreserves ==
  ASSUME Addressed, ActorInv, NEW c \in Ctx, Release(c)
  PROVE  Inv(sched', mail', op', due')
<1>1. PICK v \in Handles \ {c} :
        /\ sched.status[v] = "Dead"
        /\ \A x \in Ctx : op[x].k = "send" => op[x].to # v
        /\ sched' = coroutine_free_context(sched, v)
  BY DEF Release, Addressed
<1>2. Inv(coroutine_free_context(sched, v), mail, op, due)
  BY <1>1, ReleaseInv DEF ActorInv, Handles
<1> QED
  BY <1>1, <1>2 DEF Release

LEMMA SuspendKeeps ==
  ASSUME ActorInv, NEW c \in Ctx, Suspend(c)
  PROVE  Inv(sched', mail, op, due)
<1>1. PICK v \in Handles \ {c, Main} :
        /\ sched.status[v] # "Dead"
        /\ sched' = [Unschedule(sched, v) EXCEPT !.susp = @ \cup {v}]
  BY DEF Suspend
<1> DEFINE t == [Unschedule(sched, v) EXCEPT !.susp = @ \cup {v}]
<1>2. Inv(sched, mail, op, due) /\ Calm(sched) /\ sched.running = c /\ v \in sched.reg
  BY AtProc, VarTypes DEF Suspend, Handles
<1>3. sched.status[v] \in {"Ready", "Sleeping"} /\ v # Main
  <2>1. v \in Ctx /\ sched.status \in [Ctx -> Statuses]
    BY <1>2, Fields DEF Calm
  <2>2. sched.status[v] # "Running" /\ sched.status[v] # "Unborn"
    BY <1>2, <2>1 DEF Calm, Registered
  <2> QED
    BY <1>1, <2>1, <2>2 DEF Statuses
<1>4. Calm(t) /\ Roused(sched, t, {})
  BY <1>2, <1>3, SuspendCalm
<1>5. sched' = t
  BY <1>1
<1> HIDE DEF t
<1>6. Inv(t, mail, op, due)
  <2>1. {} \in SUBSET Ctx /\ {} \cap sched.blk = {}
    OBVIOUS
  <2> QED
    BY <1>2, <1>4, <2>1, RouseInv
<1> QED
  BY <1>5, <1>6

LEMMA ResumeKeeps ==
  ASSUME ActorInv, NEW c \in Ctx, Resume(c)
  PROVE  Inv(sched', mail, op, due)
<1>1. PICK v \in Handles \cap sched.susp :
        LET s == [sched EXCEPT !.susp = @ \ {v}]
        IN  sched' = IF s.status[v] = "Ready" THEN ready_queue_push(s, v)
                     ELSE IF v \in s.blk THEN s
                     ELSE IF s.left[v] = 0
                       THEN ready_queue_push([s EXCEPT !.status[v] = "Ready"], v)
                     ELSE timer_list_insert(s, v)
  BY DEF Resume
<1> DEFINE u == [sched EXCEPT !.susp = @ \ {v}]
           t == Rescheduled(u, v)
<1>2. Inv(sched, mail, op, due) /\ Calm(sched) /\ v \in sched.susp
  BY VarTypes DEF ActorInv
<1>3. u \in SchedType /\ Unsuspended(sched, v, u)
  BY <1>2 DEF Calm, SchedType, Unsuspended, SamePrograms, SameLinks
<1>4. sched' = t
  BY <1>1 DEF Rescheduled
<1> HIDE DEF u
<1>5. Calm(t) /\ \E X \in SUBSET Ctx : Roused(sched, t, X) /\ X \cap sched.blk = {}
  BY <1>2, <1>3, ResumeCalm
<1> HIDE DEF t
<1>6. Inv(t, mail, op, due)
  BY <1>2, <1>5, RouseInv
<1> QED
  BY <1>4, <1>6

LEMMA OtherPreserves ==
  ASSUME ActorInv, NEW c \in Ctx, Other(c)
  PROVE  Inv(sched', mail', op', due')
<1>1. ASSUME Yield(c) PROVE Inv(sched', mail, op, due)
  <2>1. Inv(sched, mail, op, due) /\ sched.running = c /\ sched' = YieldCpu(sched, c)
    BY <1>1 DEF ActorInv, Yield
  <2> QED
    BY <2>1, YieldInv
<1>2. ASSUME Sleep(c) PROVE Inv(sched', mail, op, due)
  <2>1. PICK r \in 1..MaxSleep : sched' = SleepFor(sched, c, r)
    BY <1>2 DEF Sleep
  <2>2. /\ Inv(sched, mail, op, due) /\ sched.running = c
        /\ op[c].k = "none" /\ mail.reader[c] = NoCtx
    BY <1>2, AtProc DEF Sleep
  <2>3. r \in 0..MaxSleep
    BY SleepAssumption
  <2>4. Inv(SleepFor(sched, c, r), mail, op, due)
    BY <2>2, <2>3, SleepInv
  <2> QED
    BY <2>1, <2>4
<1>3. Inv(sched', mail, op, due)
  BY <1>1, <1>2, SuspendKeeps, ResumeKeeps DEF Other
<1> QED
  BY <1>3 DEF Other

\* The turns of the scheduler, and the clock.
LEMMA SchedulePreserves ==
  ASSUME ActorInv, ActorSchedule \/ ActorTick
  PROVE  Inv(sched', mail', op', due')
<1>0. Inv(sched, mail, op, due) /\ Calm(sched) /\ Loaded(sched) /\ sched \in SchedType
  BY VarTypes DEF ActorInv
<1>1. ASSUME SweepTimer PROVE Inv(sched', mail, op, due)
  <2> DEFINE t == SweepHead(sched)
  <2>1. Calm(t) /\ \E v \in Ctx : /\ v \notin sched.blk /\ sched.left[v] = 0
                                  /\ Roused(sched, t, {v})
    BY <1>0, <1>1, SweepCalm DEF SweepTimer
  <2>2. sched' = t
    BY <1>1 DEF SweepTimer
  <2> HIDE DEF t
  <2>3. PICK v \in Ctx : v \notin sched.blk /\ Roused(sched, t, {v})
    BY <2>1
  <2>4. {v} \in SUBSET Ctx /\ {v} \cap sched.blk = {}
    BY <2>3
  <2>5. Inv(t, mail, op, due)
    BY <1>0, <2>1, <2>3, <2>4, RouseInv
  <2> QED
    BY <2>2, <2>5
<1>2. ASSUME LoadReady PROVE Inv(sched', mail, op, due)
  <2> DEFINE t == LoadNext(sched)
  <2>1. /\ Calm(t) /\ Loaded(t)
        /\ SamePrograms(sched, t) /\ t.left = sched.left /\ t.blk = sched.blk
        /\ \E v \in Ctx : /\ sched.status[v] = "Ready"
                          /\ t.status = [sched.status EXCEPT ![v] = "Running"]
    BY <1>0, <1>2, LoadCalm DEF LoadReady
  <2>2. sched' = t
    BY <1>2 DEF LoadReady
  <2> HIDE DEF t
  <2>3. PICK v \in Ctx : /\ sched.status[v] = "Ready"
                         /\ t.status = [sched.status EXCEPT ![v] = "Running"]
    BY <2>1
  <2>4. sched.status \in [Ctx -> Statuses]
    BY <1>0, Fields
  <2>5. /\ sched.status[v] \in {"Ready", "Running"} /\ t.status[v] \in {"Ready", "Running"}
        /\ \A x \in Ctx : /\ t.cont[x] = sched.cont[x]
                          /\ x # v => t.status[x] = sched.status[x] /\ t.left[x] = sched.left[x]
        /\ t.reg = sched.reg
    BY <2>1, <2>3, <2>4 DEF SamePrograms
  <2>6. Inv(t, mail, op, due)
    BY <1>0, <2>1, <2>5, TurnInv
  <2> QED
    BY <2>2, <2>6
<1>3. ~LoadMain
  BY <1>0, MainWaits DEF LoadMain, Idle
<1>4. ASSUME sched' = Elapse(sched), Sooner PROVE Inv(sched', mail, op, due')
  BY <1>0, <1>4, ElapseInv DEF Sooner
<1>5. CASE (SweepTimer \/ LoadReady \/ LoadMain) /\ UNCHANGED <<mail, op, due>>
  BY <1>1, <1>2, <1>3, <1>5
<1>6. CASE ParkTimer /\ Sooner /\ UNCHANGED <<mail, op>>
  BY <1>4, <1>6 DEF ParkTimer
<1>7. CASE ActorTick
  BY <1>4, <1>7 DEF ActorTick
<1> QED
  BY <1>5, <1>6, <1>7 DEF ActorSchedule

LEMMA StepPreserves ==
  ASSUME Addressed, ActorInv, NEW c \in Ctx, ActorStep(c)
  PROVE  Inv(sched', mail', op', due')
  BY SpawnPreserves, SendPreserves, SendBlocksPreserves, SendRetryPreserves,
     SendRetryRejectedPreserves, BroadcastPreserves, ReceivePreserves, RecvCheckPreserves,
     ReceiveMatchPreserves, MatchWokenPreserves, MatchScannedPreserves, MatchFailsPreserves,
     FlushPreserves, ActorDiesPreserves, ActorKilledPreserves, ReleasePreserves,
     OtherPreserves
  DEF ActorStep

\* Nobody has spoken yet.
LEMMA InitEstablishes ==
  ASSUME ActorInit
  PROVE  ActorInv
<1>1. sched = InitSched /\ Calm(sched) /\ Loaded(sched) /\ sched.blk \subseteq Ctx
  BY InitCalm, Fields DEF ActorInit, Init, Calm
<1>2. /\ mail = [queue  |-> [a \in Ctx |-> << >>],
                 reader |-> [a \in Ctx |-> NoCtx],
                 chain  |-> [a \in Ctx |-> << >>]]
      /\ op = [c \in Ctx |-> NoOp] /\ due = [c \in Ctx |-> 0]
  BY DEF ActorInit
<1>3. NoOp \in Ops /\ NoOp.k = "none"
  BY OpTypes
<1>4. Typed(mail, op, due)
  <2>1. << >> \in Seq(Msg) /\ << >> \in Seq(Ctx) /\ NoCtx \in CtxOrNone /\ 0 \in 0..MaxSleep
    BY SleepAssumption DEF CtxOrNone
  <2> QED
    BY <1>2, <1>3, <2>1 DEF Typed, MailType
<1>5. /\ \A c \in Ctx : /\ op[c].k = "none" /\ mail.reader[c] = NoCtx
                        /\ mail.queue[c] = << >> /\ mail.chain[c] = << >>
  BY <1>2, <1>3
<1>6. \A c \in Ctx : Alone(sched, mail, op, due, c)
  <2>1. \A c \in Ctx : Len(mail.queue[c]) <= Capacity
    <3>1. Len(<< >>) <= Capacity
      BY ActorAssumption
    <3> QED
      BY <1>5, <3>1
  <2> QED
    BY <1>5, <2>1, IdleAlone
<1>7. Chained(sched, mail, op)
  <2>1. sched.blk = {}
    BY <1>1 DEF InitSched
  <2>2. NoDup(<< >>) /\ Elems(<< >>) = {}
    BY DEF NoDup, Elems
  <2> QED
    BY <1>5, <2>1, <2>2 DEF Chained
<1> QED
  BY <1>1, <1>4, <1>6, <1>7 DEF ActorInv, Inv, Sane


LEMMA ActorInvInvariant == Addressed => (ActorSpec => []ActorInv)
<1> SUFFICES ASSUME Addressed PROVE ActorSpec => []ActorInv
  OBVIOUS
<1>1. ActorInit => ActorInv
  BY InitEstablishes
<1>2. ActorInv /\ [ActorNext]_actorVars => ActorInv'
  <2> SUFFICES ASSUME ActorInv, [ActorNext]_actorVars PROVE ActorInv'
    OBVIOUS
  <2>1. Inv(sched', mail', op', due')
    <3>1. CASE ActorNext
      BY <3>1, SchedulePreserves, StepPreserves DEF ActorNext
    <3>2. CASE UNCHANGED actorVars
      BY <3>2 DEF actorVars, ActorInv
    <3> QED
      BY <3>1, <3>2
  <2> QED
    BY <2>1 DEF ActorInv
<1> QED
  BY <1>1, <1>2, PTL DEF ActorSpec

-----------------------------------------------------------------------------
(* What follows from ActorInv *)

LEMMA InvNoMissed ==
  ASSUME ActorInv
  PROVE  NoMissedMessage
<1> SUFFICES ASSUME NEW c \in Ctx, sched.status[c] = "Sleeping", op[c].k \in {"recv", "match"}
             PROVE  /\ mail.reader[c] = c
                    /\ op[c].k = "recv" => mail.queue[c] = << >>
                    /\ op[c].k = "match" => Elems(mail.queue[c]) \cap Matching = {}
  BY DEF NoMissedMessage
<1>1. /\ mail.reader[c] = c
      /\ op[c].k = "recv" => mail.queue[c] = << >>
      /\ op[c].k = "match" =>
           \A i \in 1..Len(mail.queue[c]) : mail.queue[c][i] \notin Matching
  BY DEF ActorInv, Inv, Sane, Alone, Listens
<1> QED
  BY <1>1 DEF Elems

LEMMA InvSound ==
  ASSUME ActorInv
  PROVE  ActorsSound
<1>0. /\ Calm(sched) /\ Lists(sched) /\ Typed(mail, op, due) /\ Chained(sched, mail, op)
      /\ sched \in SchedType
  BY DEF ActorInv, Inv, Sane, Calm
<1>1. ASSUME NEW c \in Ctx PROVE Alone(sched, mail, op, due, c)
  BY DEF ActorInv, Inv, Sane
<1>2. ActorTypeOK
  <2>1. \A a \in Ctx : Len(mail.queue[a]) <= Capacity
    BY <1>1 DEF Alone
  <2> QED
    BY <1>0, <2>1 DEF ActorTypeOK, Typed
<1>3. ReadyQueues /\ TimerList
  BY <1>0 DEF Lists, Listed, Sorted, ReadyQueues, TimerList
<1>4. SendersParked
  BY <1>0 DEF Chained, ParkedAt, SendersParked, ChainsClosed
<1>5. ReaderPending
  BY <1>1 DEF Alone, Registers, ReaderPending
<1>6. AddresseeKept
  BY <1>1 DEF Alone, Pending, AddresseeKept
<1>7. NoActorOrphan
  <2> SUFFICES ASSUME NEW c \in Ctx, c \in sched.blk, mail.reader[c] # c
               PROVE  \E a \in sched.reg :
                        sched.status[a] # "Dead" /\ c \in Elems(mail.chain[a])
    BY DEF NoActorOrphan
  <2>1. op[c].k = "send" /\ c \in Elems(mail.chain[op[c].to])
    BY <1>0 DEF Chained
  <2>2. op[c].to \in sched.reg /\ op[c].to \in Ctx
    BY <1>0, <1>6, <2>1, Fields DEF AddresseeKept
  <2>3. sched.status[op[c].to] # "Dead"
    BY <1>0, <2>1, <2>2 DEF Chained, ParkedAt
  <2> QED
    BY <2>1, <2>2, <2>3
<1>8. NotBeforeDeadline
  BY <1>1 DEF Alone, OnTime, NotBeforeDeadline
<1> QED
  BY <1>2, <1>3, <1>4, <1>5, <1>6, <1>7, <1>8 DEF ActorsSound

\* For any number of actors, any messages and any capacity: a send that comes in
\* between a receiver's look at its mailbox and its sleep, or while a selective
\* receive is scanning it, is not missed; whoever sleeps in a receive is
\* registered, and its mailbox holds nothing that it would take.
THEOREM MessagesNotMissed == Addressed => (ActorSpec => []NoMissedMessage)
<1>1. ActorInv => NoMissedMessage
  BY InvNoMissed
<1> QED
  BY <1>1, ActorInvInvariant, PTL

\* And mailboxes, chains of blocked senders, reader registrations, deadlines and
\* the scheduler's lists agree with each other, whoever is killed, suspended or
\* released in between: nobody sleeps without somebody who can still wake it.
THEOREM ActorsCorrect == Addressed => (ActorSpec => []ActorsSound)
<1>1. ActorInv => ActorsSound
  BY InvSound
<1> QED
  BY <1>1, ActorInvInvariant, PTL

-----------------------------------------------------------------------------
(* Free slots.  Where nobody is killed, suspended or rejected on the way to   *)
(* a slot, the senders that are on their way make up for the free ones.       *)

\* What the programs must observe for that.
Peaceful == Addressed /\ ~Meddle /\ ~Fragile /\ IsFiniteSet(Ctx)

\* The senders on their way to a's mailbox.
OnWay(s, o, a) == {c \in Ctx : /\ o[c].k = "send"
                                /\ o[c].to = a
                                /\ s.status[c] \in {"Ready", "Running"}}

Slots(s, m, o) ==
  \A a \in Ctx : m.chain[a] # << >> => Len(m.queue[a]) + Cardinality(OnWay(s, o, a)) >= Capacity

SlotInv == ActorInv /\ Slots(sched, mail, op)

\* How a step may leave the mailbox a: full; at least as full, with nobody lost
\* on the way; with the message of one who has arrived; or with one sender
\* called for the message that was taken.
Steady(s, m, o, t, n, p, a) ==
  \/ Len(n.queue[a]) >= Capacity
  \/ n.chain[a] = << >>
  \/ /\ m.chain[a] # << >>
     /\ \/ /\ Len(n.queue[a]) >= Len(m.queue[a])
           /\ OnWay(s, o, a) \subseteq OnWay(t, p, a)
        \/ /\ Len(n.queue[a]) = Len(m.queue[a]) + 1
           /\ \E c \in Ctx : OnWay(s, o, a) \ {c} \subseteq OnWay(t, p, a)
        \/ /\ Len(n.queue[a]) = Len(m.queue[a]) - 1
           /\ \E h \in Ctx : h \notin OnWay(s, o, a) /\ OnWay(s, o, a) \cup {h} \subseteq OnWay(t, p, a)

\* Nobody who is on the way is stopped.
Forward(s, o, t, p) ==
  \A x \in Ctx : o[x].k = "send" /\ s.status[x] \in {"Ready", "Running"}
                   => p[x] = o[x] /\ t.status[x] \in {"Ready", "Running"}

\* Nor is a chain begun or a message taken.
Smooth(s, m, o, t, n, p) ==
  /\ Forward(s, o, t, p)
  /\ \A a \in Ctx : n.chain[a] # << >> => /\ m.chain[a] # << >>
                                           /\ Len(n.queue[a]) >= Len(m.queue[a])

LEMMA CountOnWay ==
  ASSUME IsFiniteSet(Ctx), NEW s, NEW o, NEW t, NEW p, NEW a
  PROVE  /\ Cardinality(OnWay(s, o, a)) \in Nat
         /\ OnWay(s, o, a) \subseteq OnWay(t, p, a)
              => Cardinality(OnWay(s, o, a)) <= Cardinality(OnWay(t, p, a))
         /\ \A c \in Ctx : OnWay(s, o, a) \ {c} \subseteq OnWay(t, p, a)
              => Cardinality(OnWay(s, o, a)) - 1 <= Cardinality(OnWay(t, p, a))
         /\ \A h \in Ctx :
              h \notin OnWay(s, o, a) /\ OnWay(s, o, a) \cup {h} \subseteq OnWay(t, p, a)
              => Cardinality(OnWay(s, o, a)) + 1 <= Cardinality(OnWay(t, p, a))
<1> DEFINE A == OnWay(s, o, a)
           B == OnWay(t, p, a)
<1>1. A \in SUBSET Ctx /\ B \in SUBSET Ctx
  BY DEF OnWay
<1> HIDE DEF A, B
<1>2. IsFiniteSet(A) /\ IsFiniteSet(B)
  BY <1>1, FS_Subset
<1>3. Cardinality(A) \in Nat /\ Cardinality(B) \in Nat
  BY <1>2, FS_CardinalityType
<1>4. A \subseteq B => Cardinality(A) <= Cardinality(B)
  BY <1>2, FS_Subset
<1>5. ASSUME NEW c \in Ctx, A \ {c} \subseteq B
      PROVE  Cardinality(A) - 1 <= Cardinality(B)
  <2>1. /\ IsFiniteSet(A \ {c})
        /\ Cardinality(A \ {c}) = IF c \in A THEN Cardinality(A) - 1 ELSE Cardinality(A)
    BY <1>2, FS_RemoveElement
  <2>2. Cardinality(A \ {c}) <= Cardinality(B)
    BY <1>2, <1>5, FS_Subset
  <2> QED
    BY <1>3, <2>1, <2>2
<1>6. ASSUME NEW h \in Ctx, h \notin A, A \cup {h} \subseteq B
      PROVE  Cardinality(A) + 1 <= Cardinality(B)
  <2>1. Cardinality(A \cup {h}) = Cardinality(A) + 1
    BY <1>2, <1>6, FS_AddElement
  <2>2. Cardinality(A \cup {h}) <= Cardinality(B)
    BY <1>2, <1>6, FS_Subset
  <2> QED
    BY <2>1, <2>2
<1> QED
  BY <1>3, <1>4, <1>5, <1>6 DEF A, B

LEMMA SlotsSteady ==
  ASSUME IsFiniteSet(Ctx), NEW s, NEW m \in MailType, NEW o, Slots(s, m, o),
         NEW t, NEW n \in MailType, NEW p, \A a \in Ctx : Steady(s, m, o, t, n, p, a)
  PROVE  Slots(t, n, p)
<1> SUFFICES ASSUME NEW a \in Ctx, n.chain[a] # << >>
             PROVE  Len(n.queue[a]) + Cardinality(OnWay(t, p, a)) >= Capacity
  BY DEF Slots
<1>1. Len(n.queue[a]) \in Nat /\ Len(m.queue[a]) \in Nat /\ Capacity \in Nat
  <2>1. m.queue[a] \in Seq(Msg) /\ n.queue[a] \in Seq(Msg)
    BY MailFields
  <2> QED
    BY <2>1, ActorAssumption
<1>2. Cardinality(OnWay(s, o, a)) \in Nat /\ Cardinality(OnWay(t, p, a)) \in Nat
  BY CountOnWay
<1>3. Steady(s, m, o, t, n, p, a)
  OBVIOUS
<1>4. CASE Len(n.queue[a]) >= Capacity
  BY <1>1, <1>2, <1>4
<1>5. ASSUME m.chain[a] # << >>
      PROVE  Len(m.queue[a]) + Cardinality(OnWay(s, o, a)) >= Capacity
  BY <1>5 DEF Slots
<1>6. CASE /\ m.chain[a] # << >> /\ Len(n.queue[a]) >= Len(m.queue[a])
           /\ OnWay(s, o, a) \subseteq OnWay(t, p, a)
  <2>1. Cardinality(OnWay(s, o, a)) <= Cardinality(OnWay(t, p, a))
    BY <1>6, CountOnWay
  <2> QED
    BY <1>1, <1>2, <1>5, <1>6, <2>1
<1>7. CASE /\ m.chain[a] # << >> /\ Len(n.queue[a]) = Len(m.queue[a]) + 1
           /\ \E c \in Ctx : OnWay(s, o, a) \ {c} \subseteq OnWay(t, p, a)
  <2>1. Cardinality(OnWay(s, o, a)) - 1 <= Cardinality(OnWay(t, p, a))
    BY <1>7, CountOnWay
  <2> QED
    BY <1>1, <1>2, <1>5, <1>7, <2>1
<1>8. CASE /\ m.chain[a] # << >> /\ Len(n.queue[a]) = Len(m.queue[a]) - 1
           /\ \E h \in Ctx : /\ h \notin OnWay(s, o, a)
                             /\ OnWay(s, o, a) \cup {h} \subseteq OnWay(t, p, a)
  <2>1. Cardinality(OnWay(s, o, a)) + 1 <= Cardinality(OnWay(t, p, a))
    BY <1>8, CountOnWay
  <2> QED
    BY <1>1, <1>2, <1>5, <1>8, <2>1
<1> QED
  BY <1>3, <1>4, <1>6, <1>7, <1>8 DEF Steady

LEMMA SmoothSteady ==
  ASSUME NEW s, NEW m, NEW o, NEW t, NEW n, NEW p, Smooth(s, m, o, t, n, p), NEW a \in Ctx
  PROVE  Steady(s, m, o, t, n, p, a)
  BY DEF Smooth, Forward, Steady, OnWay

\* Waking stops nobody.
LEMMA RousedForward ==
  ASSUME NEW s, NEW t, NEW X, Roused(s, t, X), NEW o
  PROVE  Forward(s, o, t, o)
  BY DEF Roused, Forward

\* Nor does a step of c that has no send pending.
LEMMA OthersForward ==
  ASSUME NEW s, NEW o, NEW t, NEW p, NEW c, o[c].k # "send",
         \A x \in Ctx \ {c} :
           /\ p[x] = o[x]
           /\ s.status[x] \in {"Ready", "Running"} => t.status[x] \in {"Ready", "Running"}
  PROVE  Forward(s, o, t, p)
  BY DEF Forward

LEMMA QueueLengths ==
  ASSUME NEW m \in MailType
  PROVE  \A a \in Ctx : Len(m.queue[a]) \in Nat
<1> SUFFICES ASSUME NEW a \in Ctx PROVE Len(m.queue[a]) \in Nat
  OBVIOUS
<1>1. m.queue[a] \in Seq(Msg)
  BY MailFields
<1> QED
  BY <1>1

-----------------------------------------------------------------------------
(* The parts of the operators, as the free slots see them. *)

\* actor_send_complete
LEMMA DeliverSlots ==
  ASSUME NEW s, NEW m, NEW o, NEW d, Inv(s, m, o, d), NEW a \in Ctx, NEW x \in Msg
  PROVE  LET st == actor_send_complete([s |-> s, m |-> m], a, x)
         IN  /\ \E X : Roused(s, st.s, X)
             /\ st.m.chain = m.chain
             /\ Len(st.m.queue[a]) = Len(m.queue[a]) + 1
             /\ \A b \in Ctx \ {a} : st.m.queue[b] = m.queue[b]
<1> DEFINE t == coroutine_wake(s, m.reader[a])
           n == [m EXCEPT !.queue[a] = Append(@, x), !.reader[a] = NoCtx]
<1>0. /\ Calm(s) /\ m \in MailType /\ m.queue \in [Ctx -> Seq(Msg)]
      /\ m.queue[a] \in Seq(Msg) /\ m.reader[a] \in CtxOrNone
  BY MailFields DEF Inv, Sane, Typed
<1>1. \E X : Roused(s, t, X)
  BY <1>0, WakeCalm
<1>2. n.queue = [m.queue EXCEPT ![a] = Append(m.queue[a], x)] /\ n.chain = m.chain
  BY <1>0 DEF MailType
<1>3. Len(Append(m.queue[a], x)) = Len(m.queue[a]) + 1
  BY <1>0
<1>4. actor_send_complete([s |-> s, m |-> m], a, x) = [s |-> t, m |-> n]
  BY DEF actor_send_complete
<1> HIDE DEF t, n
<1>5. n.queue[a] = Append(m.queue[a], x) /\ \A b \in Ctx \ {a} : n.queue[b] = m.queue[b]
  BY <1>0, <1>2
<1>6. PICK X : Roused(s, t, X)
  BY <1>1
<1> DEFINE st == actor_send_complete([s |-> s, m |-> m], a, x)
<1>7. st.s = t /\ st.m = n
  BY <1>4
<1> HIDE DEF st
<1>8. Roused(s, st.s, X)
  BY <1>6, <1>7
<1> QED
  BY <1>2, <1>3, <1>5, <1>7, <1>8 DEF st

LEMMA DeliverSmooth ==
  ASSUME NEW s, NEW m, NEW o, NEW d, Inv(s, m, o, d), NEW a \in Ctx, NEW x \in Msg
  PROVE  LET st == actor_send_complete([s |-> s, m |-> m], a, x)
         IN  Smooth(s, m, o, st.s, st.m, o)
<1> DEFINE st == actor_send_complete([s |-> s, m |-> m], a, x)
<1>1. /\ \E X : Roused(s, st.s, X)
      /\ st.m.chain = m.chain
      /\ Len(st.m.queue[a]) = Len(m.queue[a]) + 1
      /\ \A b \in Ctx \ {a} : st.m.queue[b] = m.queue[b]
  BY DeliverSlots
<1> HIDE DEF st
<1>2. Forward(s, o, st.s, o)
  BY <1>1, RousedForward
<1>3. \A b \in Ctx : Len(m.queue[b]) \in Nat
  BY QueueLengths DEF Inv, Sane, Typed
<1>4. ASSUME NEW b \in Ctx PROVE Len(st.m.queue[b]) >= Len(m.queue[b])
  BY <1>1, <1>3
<1>5. Smooth(s, m, o, st.s, st.m, o)
  BY <1>1, <1>2, <1>4 DEF Smooth
<1> QED
  BY <1>5 DEF st

LEMMA SmoothTwice ==
  ASSUME NEW s, NEW m \in MailType, NEW o, NEW t, NEW n \in MailType, NEW p,
         NEW u, NEW k \in MailType, NEW q,
         Smooth(s, m, o, t, n, p), Smooth(t, n, p, u, k, q)
  PROVE  Smooth(s, m, o, u, k, q)
<1>1. Forward(s, o, u, q)
  BY DEF Smooth, Forward
<1>2. \A a \in Ctx : /\ Len(m.queue[a]) \in Nat /\ Len(n.queue[a]) \in Nat
                     /\ Len(k.queue[a]) \in Nat
  BY QueueLengths
<1>3. ASSUME NEW a \in Ctx, k.chain[a] # << >>
      PROVE  m.chain[a] # << >> /\ Len(k.queue[a]) >= Len(m.queue[a])
  <2>1. n.chain[a] # << >> /\ Len(k.queue[a]) >= Len(n.queue[a])
    BY <1>3 DEF Smooth
  <2>2. m.chain[a] # << >> /\ Len(n.queue[a]) >= Len(m.queue[a])
    BY <2>1 DEF Smooth
  <2>3. Len(m.queue[a]) \in Nat /\ Len(n.queue[a]) \in Nat /\ Len(k.queue[a]) \in Nat
    BY <1>2
  <2> QED
    BY ONLY <2>1, <2>2, <2>3, SMTT(30)
<1> QED
  BY <1>1, <1>3 DEF Smooth

\* ParkReader: nobody else changes status.
LEMMA ParkReaderSlots ==
  ASSUME NEW s, NEW m, NEW o, NEW d, Inv(s, m, o, d), NEW c \in Ctx, s.running = c, c # Main,
         NEW timed \in BOOLEAN, NEW r \in 0..MaxSleep
  PROVE  LET st == ParkReader([s |-> s, m |-> m], c, timed, r)
         IN  /\ \A x \in Ctx \ {c} : st.s.status[x] = s.status[x]
             /\ st.m.queue = m.queue /\ st.m.chain = m.chain
<1> DEFINE u == [s EXCEPT !.cont[c] = "actor"]
           n == [m EXCEPT !.reader[c] = c]
           w == IF ~timed THEN Block(u, c)
                ELSE IF r = 0 THEN YieldCpu(u, c)
                ELSE SleepFor(u, c, r)
<1>0. Calm(s) /\ Loaded(s) /\ s \in SchedType /\ s.cont \in [Ctx -> Conts] /\ m \in MailType
  BY Fields DEF Inv, Sane, Calm, Typed
<1>1. Continues(s, u, c, "actor")
  BY <1>0 DEF Continues, SameState, SchedType, Conts
<1>2. n.queue = m.queue /\ n.chain = m.chain
  BY <1>0 DEF MailType
<1>3. ParkReader([s |-> s, m |-> m], c, timed, r) = [s |-> w, m |-> n]
  BY DEF ParkReader
<1> HIDE DEF u, n
<1>4. \A x \in Ctx \ {c} : w.status[x] = s.status[x]
  <2>1. CASE ~timed
    <3>1. GaveUp(s, Block(u, c), c, "Sleeping", "actor")
      BY <1>0, <1>1, BlockCalm
    <3> QED
      BY <2>1, <3>1 DEF GaveUp
  <2>2. CASE timed /\ r = 0
    <3>1. GaveUp(s, YieldCpu(u, c), c, "Ready", "actor")
      BY <1>0, <1>1, YieldCalm
    <3> QED
      BY <2>2, <3>1 DEF GaveUp
  <2>3. CASE timed /\ r # 0
    <3>1. Dozes(s, SleepFor(u, c, r), c, r, "actor")
      <4>1. /\ Calm(s) /\ Loaded(s) /\ c \in Ctx /\ s.running = c
            /\ r \in 0..MaxSleep
        BY <1>0
      <4> QED
        BY ONLY <1>1, <4>1, SleepCalm, ZenonT(60)
    <3> QED
      BY <2>3, <3>1 DEF Dozes, GaveUp
  <2> QED
    BY <2>1, <2>2, <2>3
<1> HIDE DEF w
<1> QED
  BY <1>2, <1>3, <1>4

\* ParkSender: the chain of a grows, nobody else changes status.
LEMMA ParkSenderSlots ==
  ASSUME NEW s, NEW m, NEW o, NEW d, Inv(s, m, o, d), NEW c \in Ctx, s.running = c, c # Main,
         NEW a \in Ctx
  PROVE  LET st == ParkSender([s |-> s, m |-> m], a, c)
         IN  /\ \A x \in Ctx \ {c} : st.s.status[x] = s.status[x]
             /\ st.m.queue = m.queue
             /\ \A b \in Ctx \ {a} : st.m.chain[b] = m.chain[b]
<1> DEFINE u == [s EXCEPT !.cont[c] = "actor"]
           n == mailbox_append_blocked_sender(m, a, c)
           t == Block(u, c)
<1>0. /\ Calm(s) /\ Loaded(s) /\ s \in SchedType /\ s.cont \in [Ctx -> Conts] /\ m \in MailType
      /\ m.chain \in [Ctx -> Seq(Ctx)]
  BY Fields, MailFields DEF Inv, Sane, Calm, Typed
<1>1. Continues(s, u, c, "actor")
  BY <1>0 DEF Continues, SameState, SchedType, Conts
<1>2. n.queue = m.queue /\ \A b \in Ctx \ {a} : n.chain[b] = m.chain[b]
  BY <1>0 DEF MailType, mailbox_append_blocked_sender
<1>3. ParkSender([s |-> s, m |-> m], a, c) = [s |-> t, m |-> n]
  BY DEF ParkSender
<1> HIDE DEF n
<1>4. GaveUp(s, t, c, "Sleeping", "actor")
  <2>1. t = Block(u, c) /\ Calm(s) /\ Loaded(s)
    BY <1>0
  <2>2. c \in Ctx /\ c # Main /\ s.running = c
    OBVIOUS
  <2> HIDE DEF u, t
  <2> QED
    BY ONLY <1>1, <2>1, <2>2, BlockCalm
<1> HIDE DEF u, t
<1> QED
  BY <1>2, <1>3, <1>4 DEF GaveUp

\* TakeAt: one message less, and the first of the chain is on its way.
LEMMA TakeSlots ==
  ASSUME NEW s, NEW m, NEW o, NEW d, Inv(s, m, o, d), NEW c \in Ctx,
         NEW i \in 1..Len(m.queue[c])
  PROVE  LET st == TakeAt([s |-> s, m |-> m], c, i)
         IN  /\ \E X : /\ Roused(s, st.s, X)
                       /\ \/ st.m.chain[c] = << >>
                          \/ \E h \in Elems(m.chain[c]) : h \in X
             /\ m.chain[c] = << >> => st.m.chain[c] = << >>
             /\ Len(st.m.queue[c]) = Len(m.queue[c]) - 1
             /\ \A b \in Ctx \ {c} : /\ st.m.queue[b] = m.queue[b]
                                     /\ st.m.chain[b] = m.chain[b]
<1> DEFINE k == [m EXCEPT !.queue[c] = RemoveAt(@, i)]
           st == TakeAt([s |-> s, m |-> m], c, i)
<1>0. /\ Calm(s) /\ Chained(s, m, o)
      /\ m \in MailType /\ m.queue \in [Ctx -> Seq(Msg)] /\ m.chain \in [Ctx -> Seq(Ctx)]
      /\ m.queue[c] \in Seq(Msg) /\ m.chain[c] \in Seq(Ctx)
  BY MailFields DEF Inv, Sane, Typed
<1>1. RemoveAt(m.queue[c], i) \in Seq(Msg) /\ Len(RemoveAt(m.queue[c], i)) = Len(m.queue[c]) - 1
  BY <1>0, RemoveAtType
<1>2. /\ k \in MailType
      /\ k.queue = [m.queue EXCEPT ![c] = RemoveAt(m.queue[c], i)]
      /\ k.chain = m.chain
  BY <1>0, <1>1 DEF MailType
<1>3. st = mailbox_wake_head_sender([s |-> s, m |-> k], c)
  BY DEF TakeAt
<1> HIDE DEF k, st
<1>4. /\ \A b \in Ctx \ {c} : k.queue[b] = m.queue[b]
      /\ Len(k.queue[c]) = Len(m.queue[c]) - 1
  BY <1>0, <1>1, <1>2
<1>5. CASE m.chain[c] = << >>
  <2>1. st = [s |-> s, m |-> k]
    BY <1>2, <1>3, <1>5 DEF mailbox_wake_head_sender
  <2>2. PICK X : X = {}
    OBVIOUS
  <2>3. st.s = s /\ st.m = k
    BY <2>1
  <2>4. Roused(s, st.s, X)
    <3>1. Roused(s, s, X)
      BY <1>0, <2>2, RousedNone
    <3> QED
      BY <2>3, <3>1
  <2>5. st.m.chain[c] = << >> /\ Len(st.m.queue[c]) = Len(m.queue[c]) - 1
    BY <1>2, <1>4, <1>5, <2>3
  <2>6. \A b \in Ctx \ {c} : st.m.queue[b] = m.queue[b] /\ st.m.chain[b] = m.chain[b]
    BY <1>2, <1>4, <2>3
  <2> QED
    BY <2>4, <2>5, <2>6 DEF st
<1>6. CASE m.chain[c] # << >>
  <2>0. PICK h \in Ctx : h = Head(m.chain[c])
    BY <1>0, <1>6, TailList
  <2>1. PICK X : X = {h}
    OBVIOUS
  <2> DEFINE t == coroutine_wake(s, h)
             n == [k EXCEPT !.chain[c] = Tail(@)]
  <2>2. Roused(s, t, X)
    <3>1. h \in CtxOrNone /\ {h} \ {NoCtx} = X
      BY <2>1, CtxAssumption DEF CtxOrNone
    <3> QED
      BY <1>0, <3>1, WakeCalm
  <2>3. h \in Elems(m.chain[c])
    BY <1>0, <1>6, <2>0, TailList DEF Chained
  <2>4. n.queue = k.queue /\ \A b \in Ctx \ {c} : n.chain[b] = m.chain[b]
    BY <1>0, <1>2 DEF MailType
  <2>5. st = [s |-> t, m |-> n]
    BY <1>2, <1>3, <1>6, <2>0 DEF mailbox_wake_head_sender
  <2> HIDE DEF n, t
  <2>6. st.s = t /\ st.m = n
    BY <2>5
  <2>7. Roused(s, st.s, X) /\ h \in X
    BY <2>1, <2>2, <2>6
  <2>8. /\ Len(st.m.queue[c]) = Len(m.queue[c]) - 1
        /\ \A b \in Ctx \ {c} : st.m.queue[b] = m.queue[b] /\ st.m.chain[b] = m.chain[b]
    BY <1>4, <2>4, <2>6
  <2> QED
    BY <1>6, <2>3, <2>7, <2>8 DEF st
<1> QED
  BY <1>5, <1>6

\* A message taken by the running coroutine c, which has no send pending.
LEMMA TakeSteady ==
  ASSUME NEW s, NEW m, NEW o, NEW d, Inv(s, m, o, d), NEW c \in Ctx, s.running = c,
         NEW i \in 1..Len(m.queue[c]), o[c].k # "send",
         NEW t, NEW n, NEW p,
         LET st == TakeAt([s |-> s, m |-> m], c, i)
         IN  t.status = st.s.status /\ n = st.m,
         \A x \in Ctx \ {c} : p[x] = o[x],
         NEW a \in Ctx
  PROVE  Steady(s, m, o, t, n, p, a)
<1> DEFINE st == TakeAt([s |-> s, m |-> m], c, i)
<1>0. /\ \E X : /\ Roused(s, st.s, X)
               /\ \/ st.m.chain[c] = << >>
                  \/ \E h \in Elems(m.chain[c]) : h \in X
      /\ m.chain[c] = << >> => st.m.chain[c] = << >>
      /\ Len(st.m.queue[c]) = Len(m.queue[c]) - 1
      /\ \A b \in Ctx \ {c} : st.m.queue[b] = m.queue[b] /\ st.m.chain[b] = m.chain[b]
  BY TakeSlots
<1>1. t.status = st.s.status /\ n = st.m
  OBVIOUS
<1> HIDE DEF st
<1>2. PICK X : /\ Roused(s, st.s, X)
               /\ \/ st.m.chain[c] = << >>
                  \/ \E h \in Elems(m.chain[c]) : h \in X
  BY <1>0
<1>3. /\ \A x \in Ctx : t.status[x] = IF x \in X /\ s.status[x] = "Sleeping" THEN "Ready"
                                      ELSE s.status[x]
  BY <1>1, <1>2 DEF Roused
<1>4. OnWay(s, o, a) \subseteq OnWay(t, p, a)
  BY <1>3 DEF OnWay
<1>5. Len(m.queue[a]) \in Nat
  BY QueueLengths DEF Inv, Sane, Typed
<1>6. CASE a # c
  BY <1>0, <1>1, <1>4, <1>5, <1>6 DEF Steady
<1>7. CASE a = c /\ n.chain[a] # << >>
  <2>1. PICK h \in Elems(m.chain[c]) : h \in X
    BY <1>1, <1>2, <1>7
  <2>2. ParkedAt(s, o, h, c) /\ h \in Ctx /\ s.status[c] = "Running"
    <3>1. m.chain[c] \in Seq(Ctx) /\ Chained(s, m, o) /\ s.status[c] = "Running"
      BY MailFields, RunsFree DEF Inv, Sane, Typed
    <3> QED
      BY <2>1, <3>1 DEF Chained, Elems
  <2>3. s.status[h] = "Sleeping" /\ o[h].k = "send" /\ o[h].to = c /\ h # c
    BY <2>2 DEF ParkedAt
  <2>4. t.status[h] = "Ready" /\ p[h] = o[h]
    BY <1>3, <2>1, <2>2, <2>3
  <2>5. h \notin OnWay(s, o, a) /\ h \in OnWay(t, p, a)
    BY <1>7, <2>2, <2>3, <2>4 DEF OnWay
  <2>6. m.chain[a] # << >> /\ Len(n.queue[a]) = Len(m.queue[a]) - 1
    BY <1>0, <1>1, <1>7
  <2> QED
    BY <1>4, <2>2, <2>5, <2>6 DEF Steady
<1>8. CASE n.chain[a] = << >>
  BY <1>8 DEF Steady
<1> QED
  BY <1>6, <1>7, <1>8

-----------------------------------------------------------------------------
(* The actions keep the free slots made up for. *)

\* Every mailbox, in a step of the system.
Keeps == \A a \in Ctx : Steady(sched, mail, op, sched', mail', op', a)

\* A step that stops nobody on the way and takes no message.
LEMMA SmoothKeeps ==
  ASSUME Smooth(sched, mail, op, sched', mail', op')
  PROVE  Keeps
  BY SmoothSteady DEF Keeps

\* Nor does it touch a mailbox.
LEMMA StillKeeps ==
  ASSUME ActorInv, Forward(sched, op, sched', op'),
         mail'.queue = mail.queue, mail'.chain = mail.chain
  PROVE  Keeps
<1>1. \A a \in Ctx : Len(mail.queue[a]) \in Nat
  BY QueueLengths, VarTypes
<1>2. Smooth(sched, mail, op, sched', mail', op')
  BY <1>1 DEF Smooth
<1> QED
  BY <1>2, SmoothKeeps

LEMMA SpawnKeeps ==
  ASSUME ActorInv, NEW c \in Ctx, Spawn(c)
  PROVE  Keeps
<1>1. PICK y \in Allocatable(sched) : sched' = coroutine_launch(sched, y)
  BY DEF Spawn, Launch
<1> DEFINE t == coroutine_launch(sched, y)
<1>2. y \in Ctx /\ ~Alive(sched, y) /\ Born(sched, t, y)
  BY VarTypes, LaunchCalm
<1>3. sched' = t /\ mail' = mail /\ op' = op
  BY <1>1 DEF Spawn
<1> HIDE DEF t
<1>4. \A x \in Ctx : sched.status[x] \in {"Ready", "Running"}
                       => t.status[x] \in {"Ready", "Running"}
  BY <1>2 DEF Born
<1>5. Forward(sched, op, sched', op')
  BY <1>3, <1>4 DEF Forward
<1> QED
  BY <1>3, <1>5, StillKeeps

LEMMA SendKeeps ==
  ASSUME ActorInv, NEW c \in Ctx, Send(c)
  PROVE  Keeps
<1>1. PICK a \in Handles \ {Main}, x \in Msg : Becomes(actor_send_complete(Here, a, x))
  BY DEF Send
<1> DEFINE st == actor_send_complete([s |-> sched, m |-> mail], a, x)
<1>2. a \in Ctx
  BY VarTypes DEF Handles
<1>3. Smooth(sched, mail, op, st.s, st.m, op)
  BY <1>2, DeliverSmooth DEF ActorInv
<1>4. sched' = st.s /\ mail' = st.m /\ op' = op
  BY <1>1 DEF Send, Becomes, Here
<1> HIDE DEF st
<1> QED
  BY <1>3, <1>4, SmoothKeeps

\* One addressee of a broadcast.
LEMMA OfferSmooth ==
  ASSUME NEW o, NEW d, NEW st, Inv(st.s, st.m, o, d), NEW a \in Ctx, NEW x \in Msg
  PROVE  LET r == OfferTo(st, a, x)
         IN  Smooth(st.s, st.m, o, r.s, r.m, o)
<1> DEFINE s == st.s
           m == st.m
           r == actor_send_complete([s |-> s, m |-> m], a, x)
<1>1. CASE st.s.status[a] # "Dead" /\ Len(st.m.queue[a]) < Capacity
  <2>1. OfferTo(st, a, x) = r /\ Inv(s, m, o, d)
    BY <1>1 DEF OfferTo, actor_send_complete
  <2>2. s = st.s /\ m = st.m
    OBVIOUS
  <2> HIDE DEF s, m
  <2>3. Smooth(s, m, o, r.s, r.m, o)
    BY <2>1, DeliverSmooth
  <2> QED
    BY <2>1, <2>2, <2>3
<1>2. CASE ~(st.s.status[a] # "Dead" /\ Len(st.m.queue[a]) < Capacity)
  <2>1. OfferTo(st, a, x) = st
    BY <1>2 DEF OfferTo
  <2>2. \A b \in Ctx : Len(m.queue[b]) \in Nat
    <3>1. m \in MailType
      BY DEF Inv, Sane, Typed
    <3> QED
      BY <3>1, QueueLengths
  <2>3. Smooth(s, m, o, s, m, o)
    BY <2>2 DEF Smooth, Forward
  <2> QED
    BY <2>1, <2>3
<1> QED
  BY <1>1, <1>2

LEMMA BroadcastKeeps ==
  ASSUME ActorInv, NEW c \in Ctx, Broadcast(c)
  PROVE  Keeps
<1>1. PICK a, b \in Handles \ {Main}, x \in Msg :
        Becomes(OfferTo(OfferTo(Here, a, x), b, x))
  BY DEF Broadcast
<1> DEFINE st == OfferTo(Here, a, x)
           r == OfferTo(st, b, x)
<1>2. a \in Ctx /\ b \in Ctx
  BY VarTypes DEF Handles
<1>3. Inv(Here.s, Here.m, op, due) /\ Here.s = sched /\ Here.m = mail
  BY DEF ActorInv, Here
<1>4. Inv(st.s, st.m, op, due) /\ Smooth(sched, mail, op, st.s, st.m, op)
  <2>1. Inv(st.s, st.m, op, due)
    BY <1>2, <1>3, OfferInv
  <2>2. Smooth(Here.s, Here.m, op, st.s, st.m, op)
    BY <1>2, <1>3, OfferSmooth
  <2> QED
    BY <1>3, <2>1, <2>2
<1>5. sched' = r.s /\ mail' = r.m /\ op' = op
  BY <1>1 DEF Broadcast, Becomes
<1> HIDE DEF st
<1>6. Inv(r.s, r.m, op, due) /\ Smooth(st.s, st.m, op, r.s, r.m, op)
  BY <1>2, <1>4, OfferInv, OfferSmooth
<1> HIDE DEF r
<1>7. mail \in MailType /\ st.m \in MailType /\ r.m \in MailType
  BY <1>4, <1>6, VarTypes DEF Inv, Sane, Typed
<1>8. Smooth(sched, mail, op, r.s, r.m, op)
  BY <1>4, <1>6, <1>7, SmoothTwice
<1> QED
  BY <1>5, <1>8, SmoothKeeps

\* A sender joins the chain of a full mailbox.
LEMMA ParkSenderKeeps ==
  ASSUME ActorInv, NEW c \in Ctx, sched.running = c, c # Main, NEW a \in Ctx,
         op[c].k = "send" => op[c].to = a,
         Full(a), Becomes(ParkSender(Here, a, c)),
         \A x \in Ctx \ {c} : op'[x] = op[x]
  PROVE  Keeps
<1> DEFINE st == ParkSender([s |-> sched, m |-> mail], a, c)
<1>1. /\ \A x \in Ctx \ {c} : st.s.status[x] = sched.status[x]
      /\ st.m.queue = mail.queue
      /\ \A b \in Ctx \ {a} : st.m.chain[b] = mail.chain[b]
  BY ParkSenderSlots DEF ActorInv
<1>2. sched' = st.s /\ mail' = st.m
  BY DEF Becomes, Here
<1> HIDE DEF st
<1>3. Steady(sched, mail, op, sched', mail', op', a)
  BY <1>1, <1>2 DEF Steady, Full
<1>4. ASSUME NEW b \in Ctx \ {a} PROVE Steady(sched, mail, op, sched', mail', op', b)
  <2>1. OnWay(sched, op, b) \subseteq OnWay(sched', op', b)
    BY <1>1, <1>2, <1>4 DEF OnWay
  <2>2. Len(mail.queue[b]) \in Nat
    BY QueueLengths, VarTypes
  <2> QED
    BY <1>1, <1>2, <1>4, <2>1, <2>2 DEF Steady
<1> QED
  BY <1>3, <1>4 DEF Keeps

LEMMA SendBlocksKeeps ==
  ASSUME Addressed, ActorInv, NEW c \in Ctx, SendBlocks(c)
  PROVE  Keeps
<1>1. PICK a \in Handles \ {Main}, x \in Msg :
        /\ Full(a)
        /\ Becomes(ParkSender(Here, a, c))
        /\ op' = [op EXCEPT ![c] = SendOp(a, x)]
  BY DEF SendBlocks
<1>2. sched.running = c /\ op[c].k = "none" /\ c # Main /\ a \in Ctx
  BY AtProc, VarTypes DEF SendBlocks, Addressed, Handles
<1>3. \A y \in Ctx \ {c} : op'[y] = op[y]
  BY <1>1, VarTypes
<1> QED
  BY <1>1, <1>2, <1>3, ParkSenderKeeps

LEMMA SendRetryKeeps ==
  ASSUME ActorInv, NEW c \in Ctx, SendRetry(c)
  PROVE  Keeps
<1> DEFINE a == op[c].to
           x == op[c].msg
<1>1. /\ Inv(sched, mail, op, due) /\ sched.running = c /\ c # Main
      /\ op[c].k = "send" /\ op \in [Ctx -> Ops]
  BY AtCheck, VarTypes DEF SendRetry
<1>2. a \in Ctx /\ x \in Msg
  BY VarTypes, OpCases DEF SendRetry
<1>3. \A b \in Ctx : Len(mail.queue[b]) \in Nat
  BY QueueLengths, VarTypes
<1>4. CASE sched.status[a] = "Dead" /\ Becomes(Resumed(Here, c)) /\ Idling(c)
  <2>1. sched'.status = sched.status /\ mail' = mail /\ \A y \in Ctx \ {c} : op'[y] = op[y]
    <3>1. sched' = [sched EXCEPT !.cont[c] = "proc"] /\ mail' = mail
      BY <1>4 DEF Becomes, Resumed, Here
    <3>2. sched'.status = sched.status
      BY <3>1, VarTypes DEF SchedType
    <3>3. op' = [op EXCEPT ![c] = NoOp]
      BY <1>4 DEF Idling
    <3> QED
      BY <1>1, <3>1, <3>2, <3>3
  <2>2. mail.chain[a] = << >>
    <3>1. mail.chain[a] \in Seq(Ctx) /\ Chained(sched, mail, op)
      BY <1>1, <1>2, MailFields DEF Inv, Sane, Typed
    <3>2. \A y \in Elems(mail.chain[a]) : FALSE
      BY <1>2, <1>4, <3>1 DEF Chained, ParkedAt
    <3> QED
      BY <3>1, <3>2, TailList
  <2>3. ASSUME NEW b \in Ctx PROVE Steady(sched, mail, op, sched', mail', op', b)
    <3>1. CASE b = a
      BY <2>1, <2>2, <3>1 DEF Steady
    <3>2. CASE b # a
      <4>1. OnWay(sched, op, b) \subseteq OnWay(sched', op', b)
        BY <2>1, <3>2 DEF OnWay
      <4> QED
        BY <1>3, <2>1, <4>1 DEF Steady
    <3> QED
      BY <3>1, <3>2
  <2> QED
    BY <2>3 DEF Keeps
<1>5. CASE Becomes(Resumed(actor_send_complete(Here, a, x), c)) /\ Idling(c)
  <2> DEFINE st == actor_send_complete([s |-> sched, m |-> mail], a, x)
  <2>1. /\ \E X : Roused(sched, st.s, X)
        /\ st.m.chain = mail.chain
        /\ Len(st.m.queue[a]) = Len(mail.queue[a]) + 1
        /\ \A b \in Ctx \ {a} : st.m.queue[b] = mail.queue[b]
    BY <1>1, <1>2, DeliverSlots
  <2>2. sched' = [st.s EXCEPT !.cont[c] = "proc"] /\ mail' = st.m
    BY <1>5 DEF Becomes, Resumed, Here
  <2>3. \A y \in Ctx \ {c} : op'[y] = op[y]
    BY <1>1, <1>5 DEF Idling
  <2> HIDE DEF st, a, x
  <2>4. PICK X : Roused(sched, st.s, X)
    BY <2>1
  <2>5. \A y \in Ctx : sched.status[y] \in {"Ready", "Running"}
                         => sched'.status[y] \in {"Ready", "Running"}
    <3>1. sched'.status = st.s.status
      BY <2>2, <2>4 DEF Roused, SamePrograms
    <3> QED
      BY <2>4, <3>1 DEF Roused
  <2>6. ASSUME NEW b \in Ctx PROVE Steady(sched, mail, op, sched', mail', op', b)
    <3>1. OnWay(sched, op, b) \ {c} \subseteq OnWay(sched', op', b)
      BY <2>3, <2>5 DEF OnWay
    <3>2. CASE b = a
      BY <1>2, <2>1, <2>2, <3>1, <3>2 DEF Steady
    <3>3. CASE b # a
      <4>1. c \notin OnWay(sched, op, b)
        BY <3>3 DEF OnWay, a
      <4> QED
        BY <1>3, <2>1, <2>2, <3>1, <3>3, <4>1 DEF Steady
    <3> QED
      BY <3>2, <3>3
  <2> QED
    BY <2>6 DEF Keeps
<1>6. CASE Full(a) /\ Becomes(ParkSender(Here, a, c)) /\ UNCHANGED <<op, due>>
  <2>1. \A y \in Ctx \ {c} : op'[y] = op[y]
    BY <1>6
  <2>2. op[c].to = a
    OBVIOUS
  <2> HIDE DEF a
  <2> QED
    BY <1>1, <1>2, <1>6, <2>1, <2>2, ParkSenderKeeps
<1> QED
  BY <1>4, <1>5, <1>6 DEF SendRetry

\* The pending receive of c ends with the message at i.
LEMMA TakenKeeps ==
  ASSUME ActorInv, NEW c \in Ctx, sched.running = c, op[c].k # "send",
         NEW n, Inv(sched, n, op, due), n.queue = mail.queue, n.chain = mail.chain,
         NEW i \in 1..Len(n.queue[c]),
         Becomes(Resumed(TakeAt([s |-> sched, m |-> n], c, i), c)), Idling(c)
  PROVE  Keeps
<1> DEFINE st == TakeAt([s |-> sched, m |-> n], c, i)
<1>1. sched' = [st.s EXCEPT !.cont[c] = "proc"] /\ mail' = st.m
  BY DEF Becomes, Resumed
<1>2. op' = [op EXCEPT ![c] = NoOp]
  BY DEF Idling
<1>3. \A x \in Ctx \ {c} : op'[x] = op[x]
  BY <1>2, VarTypes
<1>4. sched'.status = st.s.status
  <2> HIDE DEF st
  <2> QED
    BY <1>1
<1> HIDE DEF st
<1>5. ASSUME NEW a \in Ctx PROVE Steady(sched, mail, op, sched', mail', op', a)
  <2>1. Steady(sched, n, op, sched', mail', op', a)
    BY <1>1, <1>3, <1>4, TakeSteady DEF st
  <2> QED
    BY <2>1 DEF Steady
<1> QED
  BY <1>5 DEF Keeps

\* A receiver parks, or looks at nothing.
LEMMA ParkedKeeps ==
  ASSUME ActorInv, NEW c \in Ctx, sched.running = c, c # Main, op[c].k # "send",
         NEW timed \in BOOLEAN, NEW r \in 0..MaxSleep,
         Becomes(ParkReader(Here, c, timed, r)), NEW q, op' = [op EXCEPT ![c] = q]
  PROVE  Keeps
<1> DEFINE st == ParkReader([s |-> sched, m |-> mail], c, timed, r)
<1>1. /\ \A x \in Ctx \ {c} : st.s.status[x] = sched.status[x]
      /\ st.m.queue = mail.queue /\ st.m.chain = mail.chain
  BY ParkReaderSlots DEF ActorInv
<1>2. sched' = st.s /\ mail' = st.m
  BY DEF Becomes, Here
<1> HIDE DEF st
<1>3. \A x \in Ctx \ {c} : op'[x] = op[x]
  BY VarTypes
<1>4. Forward(sched, op, sched', op')
  <2>1. ASSUME NEW x \in Ctx, op[x].k = "send", sched.status[x] \in {"Ready", "Running"}
        PROVE  op'[x] = op[x] /\ sched'.status[x] \in {"Ready", "Running"}
    <3>1. x # c
      BY <2>1
    <3>2. op'[x] = op[x]
      BY <1>3, <3>1
    <3>3. sched'.status[x] = sched.status[x]
      BY <1>1, <1>2, <3>1
    <3> QED
      BY <2>1, <3>2, <3>3
  <2> QED
    BY <2>1, Zenon DEF Forward
<1> QED
  BY <1>1, <1>2, <1>4, StillKeeps

\* The pending receive of c ends, or goes on, with the mailbox as it was.
LEMMA LeftKeeps ==
  ASSUME ActorInv, NEW c \in Ctx, op[c].k # "send",
         sched'.status = sched.status,
         mail'.queue = mail.queue, mail'.chain = mail.chain,
         NEW q, op' = [op EXCEPT ![c] = q]
  PROVE  Keeps
<1>1. \A x \in Ctx \ {c} : op'[x] = op[x]
  BY VarTypes
<1>2. Forward(sched, op, sched', op')
  BY <1>1, OthersForward
<1> QED
  BY <1>2, StillKeeps

LEMMA ExpiredKeeps ==
  ASSUME ActorInv, NEW c \in Ctx, sched.running = c, op[c].k # "send",
         Becomes(Resumed(Unregistered(Here, c), c)), Idling(c)
  PROVE  Keeps
<1>1. PICK n : /\ Unregistered(Here, c) = [s |-> sched, m |-> n]
               /\ n.queue = mail.queue /\ n.chain = mail.chain
  BY UnregisteredHere
<1>2. sched' = [sched EXCEPT !.cont[c] = "proc"] /\ mail' = n
  BY <1>1 DEF Becomes, Resumed
<1>3. sched'.status = sched.status
  BY <1>2, VarTypes DEF SchedType
<1>4. op' = [op EXCEPT ![c] = NoOp]
  BY DEF Idling
<1> QED
  BY <1>1, <1>2, <1>3, <1>4, LeftKeeps

LEMMA ReceiveKeeps ==
  ASSUME ActorInv, NEW c \in Ctx, Receive(c)
  PROVE  Keeps
<1>1. /\ Inv(sched, mail, op, due) /\ sched.running = c /\ c # Main
      /\ op[c].k # "send" /\ mail.queue[c] \in Seq(Msg) /\ 0 \in 0..MaxSleep
  BY AtProc, VarTypes, SleepAssumption DEF Receive
<1>2. CASE /\ mail.queue[c] # << >>
           /\ Becomes(TakeAt(Here, c, 1))
           /\ UNCHANGED <<op, due>>
  <2> DEFINE st == TakeAt([s |-> sched, m |-> mail], c, 1)
  <2>1. 1 \in 1..Len(mail.queue[c])
    BY <1>1, <1>2, NoneOrFirst
  <2>2. sched' = st.s /\ mail' = st.m /\ op' = op
    BY <1>2 DEF Becomes, Here
  <2> HIDE DEF st
  <2>3. sched'.status = st.s.status
    BY <2>2
  <2>4. ASSUME NEW a \in Ctx PROVE Steady(sched, mail, op, sched', mail', op', a)
    BY <1>1, <2>1, <2>2, <2>3, TakeSteady DEF st
  <2> QED
    BY <2>4 DEF Keeps
<1>3. CASE Becomes(ParkReader(Here, c, FALSE, 0)) /\ op' = [op EXCEPT ![c] = RecvOp(FALSE)]
  BY <1>1, <1>3, ParkedKeeps
<1>4. ASSUME NEW r \in 0..MaxSleep, Becomes(ParkReader(Here, c, TRUE, r)),
             op' = [op EXCEPT ![c] = RecvOp(TRUE)]
      PROVE  Keeps
  BY <1>1, <1>4, ParkedKeeps
<1> QED
  BY <1>2, <1>3, <1>4 DEF Receive

LEMMA RecvCheckKeeps ==
  ASSUME ActorInv, NEW c \in Ctx, RecvCheck(c)
  PROVE  Keeps
<1>1. /\ Inv(sched, mail, op, due) /\ sched.running = c /\ c # Main
      /\ op[c] \in Ops /\ op[c].k = "recv" /\ op[c].k # "send"
      /\ mail.queue[c] \in Seq(Msg) /\ due \in [Ctx -> 0..MaxSleep]
      /\ op \in [Ctx -> Ops]
  BY AtCheck, VarTypes DEF RecvCheck
<1>2. CASE /\ mail.queue[c] # << >>
           /\ Becomes(Resumed(TakeAt(Unregistered(Here, c), c, 1), c))
           /\ Idling(c)
  <2>1. PICK n : /\ Unregistered(Here, c) = [s |-> sched, m |-> n]
                 /\ Inv(sched, n, op, due)
                 /\ n.queue = mail.queue /\ n.chain = mail.chain
    BY <1>1, UnregisteredHere
  <2>2. 1 \in 1..Len(n.queue[c])
    BY <1>1, <1>2, <2>1, NoneOrFirst
  <2>3. Becomes(Resumed(TakeAt([s |-> sched, m |-> n], c, 1), c))
    BY <1>2, <2>1
  <2> QED
    BY <1>1, <1>2, <2>1, <2>2, <2>3, TakenKeeps
<1>3. CASE Becomes(Resumed(Unregistered(Here, c), c)) /\ Idling(c)
  BY <1>1, <1>3, ExpiredKeeps
<1>4. CASE Becomes(ParkReader(Here, c, op[c].timed, due[c])) /\ UNCHANGED <<op, due>>
  <2>1. op[c].timed \in BOOLEAN /\ due[c] \in 0..MaxSleep
    BY <1>1, OpCases
  <2>2. op' = [op EXCEPT ![c] = op[c]]
    BY <1>1, <1>4
  <2> QED
    BY <1>1, <1>4, <2>1, <2>2, ParkedKeeps
<1> QED
  BY <1>2, <1>3, <1>4 DEF RecvCheck

LEMMA ReceiveMatchKeeps ==
  ASSUME ActorInv, NEW c \in Ctx, ReceiveMatch(c)
  PROVE  Keeps
<1>1. sched.running = c /\ c # Main /\ op[c].k # "send"
  BY AtProc DEF ReceiveMatch
<1>2. PICK timed \in BOOLEAN, r \in 0..MaxSleep :
        \/ /\ Becomes(ParkReader(Here, c, timed, r))
           /\ op' = [op EXCEPT ![c] = MatchOp(timed, -1)]
        \/ /\ sched' = [sched EXCEPT !.cont[c] = "actor"]
           /\ op' = [op EXCEPT ![c] = MatchOp(timed, 0)]
           /\ UNCHANGED mail
  BY DEF ReceiveMatch
<1>3. CASE Becomes(ParkReader(Here, c, timed, r)) /\ op' = [op EXCEPT ![c] = MatchOp(timed, -1)]
  BY <1>1, <1>3, ParkedKeeps
<1>4. CASE /\ sched' = [sched EXCEPT !.cont[c] = "actor"]
           /\ op' = [op EXCEPT ![c] = MatchOp(timed, 0)]
           /\ UNCHANGED mail
  <2>1. sched'.status = sched.status
    BY <1>4, VarTypes DEF SchedType
  <2> QED
    BY <1>1, <1>4, <2>1, LeftKeeps
<1> QED
  BY <1>2, <1>3, <1>4

LEMMA MatchExhaustedKeeps ==
  ASSUME ActorInv, NEW c \in Ctx, At(c, "actor"), op[c].k = "match", MatchExhausted(c)
  PROVE  Keeps
<1>1. /\ sched.running = c /\ c # Main /\ op[c].k # "send"
      /\ op[c] \in Ops /\ due \in [Ctx -> 0..MaxSleep]
  BY AtCheck, VarTypes
<1>2. CASE Becomes(Resumed(Unregistered(Here, c), c)) /\ Idling(c)
  BY <1>1, <1>2, ExpiredKeeps
<1>3. CASE Becomes(ParkReader(Here, c, op[c].timed, due[c])) /\ op' = [op EXCEPT ![c].scan = -1]
  <2> DEFINE q == [op[c] EXCEPT !.scan = -1]
  <2>1. op[c].timed \in BOOLEAN /\ due[c] \in 0..MaxSleep
    BY <1>1, OpCases
  <2>2. op' = [op EXCEPT ![c] = q]
    BY <1>3
  <2> HIDE DEF q
  <2> QED
    BY <1>1, <1>3, <2>1, <2>2, ParkedKeeps
<1> QED
  BY <1>2, <1>3 DEF MatchExhausted

LEMMA MatchWokenKeeps ==
  ASSUME ActorInv, NEW c \in Ctx, MatchWoken(c)
  PROVE  Keeps
<1>1. sched.running = c /\ At(c, "actor") /\ op[c].k = "match" /\ op[c].k # "send"
  BY AtCheck DEF MatchWoken
<1>2. CASE Becomes(Unregistered(Here, c)) /\ op' = [op EXCEPT ![c].scan = 0]
  <2> DEFINE q == [op[c] EXCEPT !.scan = 0]
  <2>1. PICK n : /\ Unregistered(Here, c) = [s |-> sched, m |-> n]
                 /\ n.queue = mail.queue /\ n.chain = mail.chain
    BY <1>1, UnregisteredHere
  <2>2. sched' = sched /\ mail' = n
    BY <1>2, <2>1 DEF Becomes
  <2>3. op' = [op EXCEPT ![c] = q]
    BY <1>2
  <2> HIDE DEF q
  <2> QED
    BY <1>1, <2>1, <2>2, <2>3, LeftKeeps
<1> QED
  BY <1>1, <1>2, MatchExhaustedKeeps DEF MatchWoken

LEMMA MatchScannedKeeps ==
  ASSUME ActorInv, NEW c \in Ctx, MatchScanned(c)
  PROVE  Keeps
<1> DEFINE i == op[c].scan + 1
<1>1. /\ Inv(sched, mail, op, due) /\ sched.running = c
      /\ At(c, "actor") /\ op[c] \in Ops /\ op[c].k = "match" /\ op[c].k # "send"
      /\ op[c].scan < Len(mail.queue[c])
      /\ mail.queue[c] \in Seq(Msg)
  BY AtCheck, VarTypes DEF MatchScanned
<1>2. i \in 1..Len(mail.queue[c])
  <2>1. op[c].scan \in -1..(Capacity - 1) /\ op[c].scan >= 0
    BY <1>1, OpCases DEF MatchScanned
  <2>2. op[c].scan \in Nat
    BY <2>1, ActorAssumption
  <2>3. Len(mail.queue[c]) \in Nat
    BY <1>1
  <2> QED
    BY <1>1, <2>2, <2>3
<1>3. CASE Becomes(Resumed(TakeAt(Here, c, i), c)) /\ Idling(c)
  <2>1. Becomes(Resumed(TakeAt([s |-> sched, m |-> mail], c, i), c))
    BY <1>3 DEF Here
  <2> HIDE DEF i
  <2> QED
    BY <1>1, <1>2, <1>3, <2>1, TakenKeeps
<1>4. CASE op' = [op EXCEPT ![c].scan = i] /\ UNCHANGED <<sched, mail, due>>
  <2> DEFINE q == [op[c] EXCEPT !.scan = i]
  <2>1. op' = [op EXCEPT ![c] = q] /\ sched' = sched /\ mail' = mail
    BY <1>4
  <2> HIDE DEF q
  <2> QED
    BY <1>1, <2>1, LeftKeeps
<1> QED
  BY <1>1, <1>3, <1>4, MatchExhaustedKeeps DEF MatchScanned

LEMMA MatchFailsKeeps ==
  ASSUME ActorInv, NEW c \in Ctx, MatchFails(c)
  PROVE  Keeps
<1>1. sched' = [sched EXCEPT !.cont[c] = "proc"] /\ mail' = mail
  BY DEF MatchFails, Becomes, Resumed, Here
<1>2. sched'.status = sched.status
  BY <1>1, VarTypes DEF SchedType
<1>3. op' = [op EXCEPT ![c] = NoOp] /\ op[c].k # "send"
  BY DEF MatchFails, Idling
<1> QED
  BY <1>1, <1>2, <1>3, LeftKeeps

LEMMA FlushKeeps ==
  ASSUME ActorInv, NEW c \in Ctx, Flush(c)
  PROVE  Keeps
<1> DEFINE t == WakeAll(sched, mail.chain[c])
<1>1. /\ mail.chain \in [Ctx -> Seq(Ctx)] /\ mail.queue \in [Ctx -> Seq(Msg)]
      /\ mail \in MailType /\ Calm(sched)
  BY VarTypes, MailFields
<1>2. /\ sched' = t /\ op' = op
      /\ mail' = [mail EXCEPT !.queue[c] = << >>, !.chain[c] = << >>]
  BY DEF Flush, Becomes
<1>3. Roused(sched, t, Elems(mail.chain[c]))
  BY <1>1, WakeAllCalm
<1> HIDE DEF t
<1>4. Forward(sched, op, sched', op')
  BY <1>2, <1>3, RousedForward
<1>5. /\ mail'.chain = [mail.chain EXCEPT ![c] = << >>]
      /\ mail'.queue = [mail.queue EXCEPT ![c] = << >>]
  BY <1>1, <1>2 DEF MailType
<1>6. ASSUME NEW a \in Ctx, mail'.chain[a] # << >>
      PROVE  mail.chain[a] # << >> /\ Len(mail'.queue[a]) >= Len(mail.queue[a])
  <2>1. a # c
    BY <1>1, <1>5, <1>6
  <2>2. Len(mail.queue[a]) \in Nat
    BY <1>1
  <2> QED
    BY <1>1, <1>5, <1>6, <2>1, <2>2
<1>7. Smooth(sched, mail, op, sched', mail', op')
  BY <1>4, <1>6 DEF Smooth
<1> QED
  BY <1>7, SmoothKeeps

LEMMA ActorDiesKeeps ==
  ASSUME ActorInv, NEW c \in Ctx, ActorDies(c)
  PROVE  Keeps
<1> DEFINE st == KillActor([s |-> sched, m |-> mail], c)
           p == [op EXCEPT ![c] = NoOp]
           e == [due EXCEPT ![c] = 0]
<1>1. /\ Inv(sched, mail, op, due) /\ sched.running = c /\ c # Main
      /\ mail.chain \in [Ctx -> Seq(Ctx)]
  BY VarTypes, MailFields DEF ActorDies, ActorInv, InProc, At
<1>2. op[c].k # "send"
  BY AtProc DEF ActorDies
<1>3. c \in sched.reg
  BY <1>1, RunsFree DEF Inv, Sane, Calm, Registered, Alive
<1>4. Interred(sched, mail, op, due, st.s, st.m, p, e, c)
  BY <1>1, <1>3, KillInters
<1>5. st = [s |-> st.s, m |-> st.m]
  BY DEF KillActor, coroutine_cleanup_mailbox
<1>6. st = KillActor(Here, c)
  BY DEF Here
<1> HIDE DEF st
<1>7. sched' = [st.s EXCEPT !.running = NoCtx] /\ mail' = st.m /\ op' = p
  BY <1>5, <1>6 DEF ActorDies, Becomes, Idling
<1> HIDE DEF p, e
<1>8. sched'.status = st.s.status
  BY <1>4, <1>7 DEF Interred, Calm, SchedType
<1>9. Forward(sched, op, sched', op')
  <2>1. \A x \in Ctx \ {c} :
          /\ p[x] = op[x]
          /\ sched.status[x] \in {"Ready", "Running"} => st.s.status[x] \in {"Ready", "Running"}
    BY <1>4 DEF Interred
  <2> QED
    BY <1>2, <1>7, <1>8, <2>1, OthersForward
<1>10. ASSUME NEW a \in Ctx, mail'.chain[a] # << >>
       PROVE  mail.chain[a] # << >> /\ Len(mail'.queue[a]) >= Len(mail.queue[a])
  <2>1. a # c
    BY <1>4, <1>7, <1>10 DEF Interred
  <2>2. mail'.chain[a] = Without(mail.chain[a], c) /\ mail'.queue[a] = mail.queue[a]
    BY <1>4, <1>7, <2>1 DEF Interred
  <2>3. mail.chain[a] # << >>
    <3>1. mail.chain[a] \in Seq(Ctx) /\ mail'.chain[a] \in Seq(Ctx)
      BY <1>1, <1>4, <1>7, MailFields DEF Interred, Typed
    <3>2. Elems(mail'.chain[a]) # {}
      BY <1>10, <3>1, TailList
    <3>3. Elems(mail'.chain[a]) \subseteq Elems(mail.chain[a])
      <4>1. NoDup(mail.chain[a])
        BY <1>1 DEF Inv, Sane, Chained
      <4> QED
        BY <2>2, <3>1, <4>1, WithoutList
    <3>4. Elems(<< >>) = {}
      BY DEF Elems
    <3> QED
      BY <3>2, <3>3, <3>4
  <2>4. Len(mail.queue[a]) \in Nat
    BY QueueLengths, VarTypes
  <2> QED
    BY <1>10, <2>2, <2>3, <2>4
<1>11. Smooth(sched, mail, op, sched', mail', op')
  BY <1>9, <1>10 DEF Smooth
<1> QED
  BY <1>11, SmoothKeeps

LEMMA ReleaseKeeps ==
  ASSUME ActorInv, NEW c \in Ctx, Release(c)
  PROVE  Keeps
<1>1. PICK v \in Handles \ {c} :
        /\ sched.status[v] = "Dead"
        /\ sched' = coroutine_free_context(sched, v)
  BY DEF Release
<1>2. sched'.status = sched.status
  BY <1>1, VarTypes, ReleaseCalm DEF Handles
<1>3. Forward(sched, op, sched', op')
  BY <1>2 DEF Forward, Release
<1> QED
  BY <1>3, StillKeeps DEF Release

LEMMA OtherKeeps ==
  ASSUME Peaceful, ActorInv, NEW c \in Ctx, Other(c)
  PROVE  Keeps
<1> DEFINE k == sched.cont[c]
<1>0. /\ Calm(sched) /\ Loaded(sched) /\ sched \in SchedType
      /\ sched.cont \in [Ctx -> Conts]
      /\ mail' = mail /\ op' = op
  BY VarTypes DEF Other
<1>1. Continues(sched, sched, c, k)
  BY <1>0 DEF Continues, SameState
<1>2. Yield(c) \/ Sleep(c)
  BY DEF Other, Peaceful
<1> HIDE DEF k
<1>3. ASSUME Yield(c) PROVE Forward(sched, op, sched', op')
  <2>1. sched.running = c /\ sched' = YieldCpu(sched, c)
    BY <1>3 DEF Yield
  <2>2. GaveUp(sched, YieldCpu(sched, c), c, "Ready", k)
    BY <1>0, <1>1, <2>1, YieldCalm
  <2> QED
    BY <1>0, <2>1, <2>2 DEF GaveUp, Forward
<1>4. ASSUME Sleep(c) PROVE Forward(sched, op, sched', op')
  <2>1. PICK r \in 1..MaxSleep : sched' = SleepFor(sched, c, r)
    BY <1>4 DEF Sleep
  <2>2. op[c].k # "send" /\ sched.running = c
    BY <1>4, AtProc DEF Sleep
  <2>3. Dozes(sched, SleepFor(sched, c, r), c, r, k)
    <3>1. /\ Calm(sched) /\ Loaded(sched) /\ c \in Ctx /\ sched.running = c
          /\ r \in 0..MaxSleep
      BY <1>0, <2>2, SleepAssumption
    <3> QED
      BY ONLY <1>1, <3>1, SleepCalm, ZenonT(60)
  <2>4. \A x \in Ctx \ {c} : sched'.status[x] = sched.status[x]
    BY <2>1, <2>3 DEF Dozes, GaveUp
  <2> QED
    BY <1>0, <2>2, <2>4, OthersForward
<1> QED
  BY <1>0, <1>2, <1>3, <1>4, StillKeeps

\* The turns of the scheduler, and the clock.
LEMMA ScheduleKeeps ==
  ASSUME ActorInv, ActorSchedule \/ ActorTick
  PROVE  Keeps
<1>0. Calm(sched) /\ Loaded(sched) /\ sched \in SchedType /\ mail' = mail /\ op' = op
  BY VarTypes DEF ActorSchedule, ActorTick
<1>1. ASSUME SweepTimer PROVE Forward(sched, op, sched', op')
  <2> DEFINE t == SweepHead(sched)
  <2>1. \E v \in Ctx : Roused(sched, t, {v})
    BY <1>0, <1>1, SweepCalm DEF SweepTimer
  <2>2. sched' = t
    BY <1>1 DEF SweepTimer
  <2> HIDE DEF t
  <2> QED
    BY <1>0, <2>1, <2>2, RousedForward
<1>2. ASSUME LoadReady PROVE Forward(sched, op, sched', op')
  <2> DEFINE t == LoadNext(sched)
  <2>1. \E v \in Ctx : t.status = [sched.status EXCEPT ![v] = "Running"]
    BY <1>0, <1>2, LoadCalm DEF LoadReady
  <2>2. sched' = t
    BY <1>2 DEF LoadReady
  <2> HIDE DEF t
  <2>3. sched.status \in [Ctx -> Statuses]
    BY <1>0, Fields
  <2> QED
    BY <1>0, <2>1, <2>2, <2>3 DEF Forward
<1>3. ~LoadMain
  BY <1>0, MainWaits DEF LoadMain, Idle
<1>4. ASSUME sched' = Elapse(sched) PROVE Forward(sched, op, sched', op')
  <2>1. sched'.status = sched.status
    BY <1>0, <1>4, ElapseCalm
  <2> QED
    BY <1>0, <2>1 DEF Forward
<1>5. Forward(sched, op, sched', op')
  <2>1. CASE SweepTimer \/ LoadReady \/ LoadMain
    BY <1>1, <1>2, <1>3, <2>1
  <2>2. CASE ParkTimer \/ ActorTick
    BY <1>4, <2>2 DEF ParkTimer, ActorTick
  <2> QED
    BY <2>1, <2>2 DEF ActorSchedule
<1> QED
  BY <1>0, <1>5, StillKeeps

LEMMA StepKeeps ==
  ASSUME Peaceful, ActorInv, NEW c \in Ctx, ActorStep(c)
  PROVE  Keeps
<1>1. Addressed /\ ~SendRetryRejected(c) /\ ~ActorKilled(c)
  BY DEF Peaceful, SendRetryRejected, ActorKilled
<1> QED
  BY <1>1, SpawnKeeps, SendKeeps, SendBlocksKeeps, SendRetryKeeps, BroadcastKeeps,
     ReceiveKeeps, RecvCheckKeeps, ReceiveMatchKeeps, MatchWokenKeeps, MatchScannedKeeps,
     MatchFailsKeeps, FlushKeeps, ActorDiesKeeps, ReleaseKeeps, OtherKeeps
  DEF ActorStep

LEMMA SlotInvInvariant == Peaceful => (ActorSpec => []SlotInv)
<1> SUFFICES ASSUME Peaceful PROVE ActorSpec => []SlotInv
  OBVIOUS
<1>1. ActorInit => SlotInv
  <2> SUFFICES ASSUME ActorInit PROVE SlotInv
    OBVIOUS
  <2>1. \A a \in Ctx : mail.chain[a] = << >>
    BY DEF ActorInit
  <2> QED
    BY <2>1, InitEstablishes DEF SlotInv, Slots
<1>2. SlotInv /\ [ActorNext]_actorVars => SlotInv'
  <2> SUFFICES ASSUME SlotInv, [ActorNext]_actorVars PROVE SlotInv'
    OBVIOUS
  <2>1. ActorInv /\ Slots(sched, mail, op) /\ Addressed /\ IsFiniteSet(Ctx)
    BY DEF SlotInv, Peaceful
  <2>2. CASE ActorNext
    <3>1. Inv(sched', mail', op', due')
      BY <2>1, <2>2, StepPreserves, SchedulePreserves DEF ActorNext
    <3>2. Keeps
      BY <2>1, <2>2, StepKeeps, ScheduleKeeps DEF ActorNext
    <3>3. mail \in MailType /\ mail' \in MailType
      BY <2>1, <3>1, VarTypes DEF Inv, Sane, Typed
    <3>4. Slots(sched', mail', op')
      BY <2>1, <3>2, <3>3, SlotsSteady DEF Keeps
    <3> QED
      BY <3>1, <3>4 DEF SlotInv, ActorInv
  <2>3. CASE UNCHANGED actorVars
    BY <2>1, <2>3 DEF SlotInv, ActorInv, actorVars
  <2> QED
    BY <2>2, <2>3
<1> QED
  BY <1>1, <1>2, PTL DEF ActorSpec

\* No free slot is wasted on a sleeper: as long as a sender is parked in a
\* mailbox, its messages and the senders on their way to it fill it.  It is
\* the one wake-up per message taken of mailbox_wake_head_sender
\* (ops_actor.inl) that this depends on.
THEOREM SlotsServed == Peaceful => (ActorSpec => []SlotWakeups)
<1>1. SlotInv => SlotWakeups
  BY DEF SlotInv, Slots, SlotWakeups, OnWay, OnTheWay
<1> QED
  BY <1>1, SlotInvInvariant, PTL

=============================================================================
