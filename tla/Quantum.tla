------------------------------- MODULE Quantum -------------------------------
(***************************************************************************)
(* The interpreter's time slices (src/src/interpreter.inl, end of the      *)
(* dispatch loop; coroutine-quantum in src/src/ops_coroutine.inl).  After  *)
(* every dispatched object the loop decrements one counter, which a        *)
(* context switch saves and loads with the coroutine.  The operator just   *)
(* dispatched may itself have switched: then the counter decremented is    *)
(* the next coroutine's.                                                   *)
(*                                                                         *)
(* Coroutines here are runnable all the time and of one priority.          *)
(***************************************************************************)
EXTENDS Naturals, FiniteSets, SequencesExt

CONSTANTS Coroutine,
          Quanta      \* arguments of coroutine-quantum; 0 = unlimited

ASSUME QuantaAssumption == Quanta \subseteq Nat /\ IsFiniteSet(Coroutine)

VARIABLES quantum,    \* m_quantum
          saved,      \* m_ops_remaining
          remaining,  \* m_coroutine_ops_remaining
          running,    \* m_running_coroutine
          ready,      \* the ready queue
          ran         \* the coroutine whose object was dispatched last

quantumVars == <<quantum, saved, remaining, running, ready, ran>>

QuantumInit ==
  /\ quantum \in [Coroutine -> Quanta]
  /\ saved = quantum
  /\ running \in Coroutine
  /\ remaining = quantum[running]
  /\ ready \in SetToSeqs(Coroutine \ {running})
  /\ ran = running

\* What the loop works on: the running coroutine, the counters, the queue.
Loop == [run |-> running, rem |-> remaining, sav |-> saved, rdy |-> ready]

\* Mutant: a stack instead of a queue.
SwitchToNewest(l, rem) ==
  LET q == <<Last(l.rdy)>> \o Front(l.rdy) \o <<l.run>>
      s == [l.sav EXCEPT ![l.run] = rem]
  IN  [run |-> Head(q), rem |-> s[Head(q)], sav |-> s, rdy |-> Tail(q)]

\* Put the running coroutine at the tail of the ready queue with the counter
\* value rem, and load the head.
Switch(l, rem) ==
  LET q == Append(l.rdy, l.run)
      s == [l.sav EXCEPT ![l.run] = rem]
  IN  [run |-> Head(q), rem |-> s[Head(q)], sav |-> s, rdy |-> Tail(q)]

\* Mutant: the counter of the coroutine that is switched out is not reloaded.
QuantumCheckNoReload(l, quanta) ==
  IF l.rem = 0 THEN l
  ELSE IF l.rem - 1 = 0 THEN Switch(l, 0)
  ELSE [l EXCEPT !.rem = @ - 1]

\* The check at the end of the dispatch loop.
QuantumCheck(l, quanta) ==
  IF l.rem = 0 THEN l
  ELSE IF l.rem - 1 = 0 THEN Switch(l, quanta[l.run])
  ELSE [l EXCEPT !.rem = @ - 1]

After(l) ==
  LET m == QuantumCheck(l, quantum')
  IN  /\ running' = m.run
      /\ remaining' = m.rem
      /\ saved' = m.sav
      /\ ready' = m.rdy
      /\ ran' = running

\* Any object that does not switch.
Dispatch ==
  /\ UNCHANGED quantum
  /\ After(Loop)

\* An operator that gives up the processor, such as 0 coroutine-sleep.
GiveUp ==
  /\ UNCHANGED quantum
  /\ After(Switch(Loop, remaining))

\* coroutine-quantum
SetQuantum ==
  \E q \in Quanta :
    /\ quantum' = [quantum EXCEPT ![running] = q]
    /\ After([run |-> running, rem |-> q, sav |-> [saved EXCEPT ![running] = q], rdy |-> ready])

QuantumNext == Dispatch \/ GiveUp \/ SetQuantum

\* The interpreter keeps dispatching, a coroutine without a quantum gives up the
\* processor now and then, and programs settle on their quanta.
QuantumFairness ==
  /\ WF_quantumVars(QuantumNext)
  /\ \A c \in Coroutine : SF_quantumVars(running = c /\ quantum[c] = 0 /\ GiveUp)
  /\ <>[][~SetQuantum]_quantumVars

QuantumSpec == QuantumInit /\ [][QuantumNext]_quantumVars /\ QuantumFairness

-----------------------------------------------------------------------------
(* Properties *)

\* The counter is between 1 and the quantum of the coroutine it belongs to,
\* or 0 if that is unlimited: no switch, reload or change of quantum lets one
\* coroutine run on another's budget or for ever on a spent one.
SliceEnds ==
  \A c \in Coroutine :
    LET left == IF c = running THEN remaining ELSE saved[c]
    IN  left \in IF quantum[c] = 0 THEN {0} ELSE 1..quantum[c]

=============================================================================
