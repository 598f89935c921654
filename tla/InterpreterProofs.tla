-------------------------- MODULE InterpreterProofs --------------------------
(***************************************************************************)
(* The dispatch loop, for any coroutines and any quanta, any interrupts, any *)
(* capacity of the execution stack and any number of requests.             *)
(*                                                                         *)
(* A time slice always ends: the counter that the loop decrements is within *)
(* the quantum of the coroutine it belongs to, also when the operator that *)
(* was just dispatched has switched coroutines or changed the quantum.  And *)
(* no request of a host thread is hidden, slept through, lost or delivered *)
(* twice.                                                                  *)
(***************************************************************************)
EXTENDS Quantum, Interrupts, FiniteSetTheorems, SequenceTheorems, TLAPS

-----------------------------------------------------------------------------
(* Time slices *)

\* What is left of c's slice: in the counter while it runs, saved otherwise.
Left(l, c) == IF c = l.run THEN l.rem ELSE l.sav[c]

Within(n, q) == n \in IF q = 0 THEN {0} ELSE 1..q

LoopType == [run : Coroutine, rem : Nat, sav : [Coroutine -> Nat], rdy : Seq(Coroutine)]

\* The loop's state l is in order with respect to the quanta qs.
InOrder(l, qs) == l \in LoopType /\ \A c \in Coroutine : Within(Left(l, c), qs[c])

QuantumInv == quantum \in [Coroutine -> Nat] /\ InOrder(Loop, quantum)

LEMMA LoopFields ==
  ASSUME NEW l \in LoopType
  PROVE  /\ l.run \in Coroutine /\ l.rem \in Nat
         /\ l.sav \in [Coroutine -> Nat] /\ l.rdy \in Seq(Coroutine)
  BY DEF LoopType

\* The queue with the running coroutine at its tail has a head.
LEMMA QueueHead ==
  ASSUME NEW q \in Seq(Coroutine), NEW c \in Coroutine
  PROVE  /\ Head(Append(q, c)) \in Coroutine
         /\ Tail(Append(q, c)) \in Seq(Coroutine)
<1>1. Append(q, c) \in Seq(Coroutine) /\ Append(q, c) # << >>
  BY AppendProperties
<1> QED
  BY <1>1, HeadTailProperties

\* A switch keeps every slice within its quantum if what it stores for the
\* coroutine it switches out is.
LEMMA SwitchInOrder ==
  ASSUME NEW l, NEW qs \in [Coroutine -> Nat], InOrder(l, qs),
         NEW rem \in Nat, Within(rem, qs[l.run])
  PROVE  InOrder(Switch(l, rem), qs)
<1>1. l \in LoopType /\ l.run \in Coroutine /\ l.sav \in [Coroutine -> Nat] /\ l.rdy \in Seq(Coroutine)
  BY LoopFields DEF InOrder
<1> DEFINE q == Append(l.rdy, l.run)
           s == [l.sav EXCEPT ![l.run] = rem]
           k == [run |-> Head(q), rem |-> s[Head(q)], sav |-> s, rdy |-> Tail(q)]
<1>2. s \in [Coroutine -> Nat] /\ Head(q) \in Coroutine /\ Tail(q) \in Seq(Coroutine)
  BY <1>1, QueueHead
<1>3. Switch(l, rem) = k
  BY DEF Switch
<1>4. k \in LoopType
  BY <1>2 DEF LoopType
<1>5. ASSUME NEW c \in Coroutine PROVE Within(Left(k, c), qs[c])
  <2>1. Left(k, c) = s[c]
    BY DEF Left
  <2>2. CASE c = l.run
    BY <1>1, <2>1, <2>2
  <2>3. CASE c # l.run
    <3>1. s[c] = Left(l, c)
      BY <1>1, <2>3 DEF Left
    <3> QED
      BY <2>1, <3>1 DEF InOrder
  <2> QED
    BY <2>2, <2>3
<1> QED
  BY <1>3, <1>4, <1>5 DEF InOrder

\* The check at the end of the dispatch loop keeps the slices in order.
LEMMA CheckInOrder ==
  ASSUME NEW l, NEW qs \in [Coroutine -> Nat], InOrder(l, qs)
  PROVE  InOrder(QuantumCheck(l, qs), qs)
<1>1. l \in LoopType /\ l.run \in Coroutine /\ l.rem \in Nat /\ l.sav \in [Coroutine -> Nat] /\ l.rdy \in Seq(Coroutine)
  BY LoopFields DEF InOrder
<1>2. Within(l.rem, qs[l.run])
  BY <1>1 DEF InOrder, Left
<1>3. CASE l.rem = 0
  BY <1>3 DEF QuantumCheck
<1>4. CASE l.rem = 1
  <2>1. qs[l.run] \in Nat /\ Within(qs[l.run], qs[l.run])
    BY <1>1, <1>2, <1>4 DEF Within
  <2>2. QuantumCheck(l, qs) = Switch(l, qs[l.run])
    BY <1>4 DEF QuantumCheck
  <2> QED
    BY <2>1, <2>2, SwitchInOrder
<1>5. CASE l.rem > 1
  <2> DEFINE k == [l EXCEPT !.rem = l.rem - 1]
  <2>1. QuantumCheck(l, qs) = k
    BY <1>1, <1>5 DEF QuantumCheck
  <2>2. k.run = l.run /\ k.rem = l.rem - 1 /\ k.sav = l.sav /\ k \in LoopType
    <3>1. l.rem - 1 \in Nat
      BY <1>1, <1>5
    <3> HIDE DEF k
    <3>2. l = [run |-> l.run, rem |-> l.rem, sav |-> l.sav, rdy |-> l.rdy]
      BY <1>1 DEF LoopType
    <3>3. k = [run |-> l.run, rem |-> l.rem - 1, sav |-> l.sav, rdy |-> l.rdy]
      BY <3>2 DEF k
    <3> QED
      BY <1>1, <3>1, <3>3 DEF LoopType
  <2>3. ASSUME NEW c \in Coroutine PROVE Within(Left(k, c), qs[c])
    <3>1. CASE c = l.run
      BY <1>1, <1>2, <1>5, <2>2, <3>1 DEF Left, Within
    <3>2. CASE c # l.run
      BY <2>2, <3>2 DEF Left, InOrder
    <3> QED
      BY <3>1, <3>2
  <2> QED
    BY <2>1, <2>2, <2>3 DEF InOrder
<1> QED
  BY <1>1, <1>3, <1>4, <1>5

\* What an object leaves is checked: if it is in order, so is the next state.
LEMMA AfterInOrder ==
  ASSUME NEW l, quantum' \in [Coroutine -> Nat], InOrder(l, quantum'), After(l)
  PROVE  QuantumInv'
<1>1. InOrder(QuantumCheck(l, quantum'), quantum')
  BY CheckInOrder
<1>2. QuantumCheck(l, quantum') \in LoopType
  BY <1>1 DEF InOrder
<1>3. Loop' = QuantumCheck(l, quantum')
  BY <1>2 DEF After, Loop, LoopType
<1> QED
  BY <1>1, <1>3 DEF QuantumInv

LEMMA QuantumStep == QuantumInv /\ [QuantumNext]_quantumVars => QuantumInv'
<1> SUFFICES ASSUME QuantumInv, [QuantumNext]_quantumVars PROVE QuantumInv'
  OBVIOUS
<1>1. /\ quantum \in [Coroutine -> Nat] /\ InOrder(Loop, quantum) /\ Loop \in LoopType
      /\ running \in Coroutine /\ remaining \in Nat /\ saved \in [Coroutine -> Nat]
  BY LoopFields DEF QuantumInv, InOrder, Loop
<1>2. Within(remaining, quantum[running])
  BY <1>1 DEF InOrder, Left, Loop
<1>3. CASE Dispatch
  BY <1>1, <1>3, AfterInOrder DEF Dispatch
<1>4. CASE GiveUp
  <2>1. InOrder(Switch(Loop, remaining), quantum)
    BY <1>1, <1>2, SwitchInOrder DEF Loop
  <2> QED
    BY <1>1, <1>4, <2>1, AfterInOrder DEF GiveUp
<1>5. CASE SetQuantum
  <2>1. PICK q \in Quanta : /\ quantum' = [quantum EXCEPT ![running] = q]
                            /\ After([run |-> running, rem |-> q, sav |-> [saved EXCEPT ![running] = q], rdy |-> ready])
    BY <1>5 DEF SetQuantum
  <2> DEFINE k == [run |-> running, rem |-> q, sav |-> [saved EXCEPT ![running] = q], rdy |-> ready]
  <2>2. q \in Nat /\ quantum' \in [Coroutine -> Nat]
    BY <1>1, <2>1, QuantaAssumption
  <2>3. k.run = running /\ k.rem = q /\ k.sav = [saved EXCEPT ![running] = q]
    OBVIOUS
  <2>4. k \in LoopType
    BY <1>1, <2>2, <2>3 DEF LoopType, Loop
  <2>5. ASSUME NEW c \in Coroutine PROVE Within(Left(k, c), quantum'[c])
    <3>1. CASE c = running
      <4>1. Left(k, c) = q /\ quantum'[c] = q
        BY <1>1, <2>1, <2>3, <3>1 DEF Left
      <4> QED
        BY <2>2, <4>1 DEF Within
    <3>2. CASE c # running
      <4>1. Left(k, c) = Left(Loop, c)
        BY <1>1, <2>3, <3>2 DEF Left, Loop
      <4> QED
        BY <1>1, <2>1, <3>2, <4>1 DEF InOrder
    <3> QED
      BY <3>1, <3>2
  <2>6. InOrder(k, quantum')
    BY <2>4, <2>5 DEF InOrder
  <2> QED
    BY <2>1, <2>2, <2>6, AfterInOrder
<1>6. CASE UNCHANGED quantumVars
  BY <1>6 DEF quantumVars, QuantumInv, Loop
<1> QED
  BY <1>3, <1>4, <1>5, <1>6 DEF QuantumNext

LEMMA QuantumStart == QuantumInit => QuantumInv
<1> SUFFICES ASSUME QuantumInit PROVE QuantumInv
  OBVIOUS
<1>1. /\ quantum \in [Coroutine -> Nat] /\ saved = quantum
      /\ running \in Coroutine /\ remaining = quantum[running]
  BY QuantaAssumption DEF QuantumInit
<1>2. ready \in Seq(Coroutine)
  <2>1. IsFiniteSet(Coroutine \ {running})
    BY QuantaAssumption, FS_Subset
  <2>2. Cardinality(Coroutine \ {running}) \in Nat
    BY <2>1, FS_CardinalityType
  <2>3. ready \in [1..Cardinality(Coroutine \ {running}) -> Coroutine \ {running}]
    BY DEF QuantumInit, SetToSeqs
  <2>4. ready \in [1..Cardinality(Coroutine \ {running}) -> Coroutine]
    BY <2>3
  <2> QED
    BY <2>2, <2>4, SeqDef, Zenon
<1>3. Loop \in LoopType
  BY <1>1, <1>2 DEF Loop, LoopType
<1>4. ASSUME NEW c \in Coroutine PROVE Within(Left(Loop, c), quantum[c])
  <2>1. Left(Loop, c) = quantum[c]
    BY <1>1 DEF Left, Loop
  <2> QED
    BY <1>1, <2>1 DEF Within
<1> QED
  BY <1>1, <1>3, <1>4 DEF QuantumInv, InOrder

\* Every slice ends, for any number of coroutines and any mixture of quanta.
THEOREM SlicesEnd == QuantumSpec => []SliceEnds
<1>1. QuantumInv => SliceEnds
  BY DEF QuantumInv, InOrder, SliceEnds, Within, Left, Loop
<1> QED
  BY <1>1, QuantumStart, QuantumStep, PTL DEF QuantumSpec

-----------------------------------------------------------------------------
(* Requests of host threads *)

\* The requests are numbered: accepted ones have numbers already given out, and
\* the two slots never hold the same one.
Numbered ==
  /\ iraised \in Nat /\ ierror \in Nat /\ iinvoke \in Nat
  /\ iacc \subseteq 1..iraised
  /\ ierror = iinvoke => ierror = 0

IrqInv == InterruptsSound /\ Numbered

LEMMA IrqStart == IrqInit => IrqInv
  BY DEF IrqInit, IrqInv, InterruptsSound, NothingHidden, ParkedInVain, OnceEach, Numbered, Actionable

-----------------------------------------------------------------------------
(* What is published. *)

LEMMA HiddenStep == NothingHidden /\ [IrqNext]_irqVars => NothingHidden'
<1> SUFFICES ASSUME NothingHidden, [IrqNext]_irqVars PROVE NothingHidden'
  OBVIOUS
<1> USE DEF NothingHidden, Actionable
<1>1. ASSUME NEW irq \in HostIRQs, raise_interrupt(irq) PROVE NothingHidden'
  BY <1>1 DEF raise_interrupt
<1>2. CASE raise_error
  BY <1>2 DEF raise_error
<1>3. CASE invoke
  BY <1>3 DEF invoke
<1>4. ASSUME NEW irq \in HostIRQs, Deliver(irq) PROVE NothingHidden'
  <2>1. irq \in Levels \/ irq \in {"error", "suspend", "invoke", "exit"}
    BY <1>4 DEF Deliver, Servable, Levels
  <2>2. imask' = imask /\ ipub' = Actionable(ipend', imask)
    BY <1>4, <2>1 DEF Deliver, Serve, Levels
  <2> QED
    BY <2>2
<1>5. CASE DeliverNone
  BY <1>5 DEF DeliverNone
<1>6. CASE Resumes
  BY <1>6 DEF Resumes
<1>7. CASE Tests \/ Wakes \/ \E work \in 0 .. IMaxWork : Runs(work)
  BY <1>7 DEF Tests, Wakes, Runs
<1>8. CASE disableinterrupts \/ enableinterrupts \/ clearinterrupts
  BY <1>8 DEF disableinterrupts, enableinterrupts, clearinterrupts
<1>9. CASE UNCHANGED irqVars
  BY <1>9 DEF irqVars
<1> QED
  BY <1>1, <1>2, <1>3, <1>4, <1>5, <1>6, <1>7, <1>8, <1>9 DEF IrqNext, Interpreter

-----------------------------------------------------------------------------
(* What wakes the interpreter. *)

LEMMA ParkedStep == ParkedInVain /\ [IrqNext]_irqVars => ParkedInVain'
<1> SUFFICES ASSUME ParkedInVain, [IrqNext]_irqVars PROVE ParkedInVain'
  OBVIOUS
<1> USE DEF ParkedInVain
<1>1. ASSUME NEW irq \in HostIRQs, raise_interrupt(irq) PROVE ParkedInVain'
  BY <1>1 DEF raise_interrupt
<1>2. CASE raise_error
  BY <1>2 DEF raise_error
<1>3. CASE invoke
  BY <1>3 DEF invoke
<1>4. ASSUME NEW irq \in HostIRQs, Deliver(irq) PROVE ParkedInVain'
  <2>1. irq \in Levels \/ irq \in {"error", "suspend", "invoke", "exit"}
    BY <1>4 DEF Deliver, Servable, Levels
  <2>2. iat' \in {"run", "top", "suspend", "exited"} /\ (iat' = "suspend" => irq = "suspend")
    BY <1>4, <2>1 DEF Deliver, Serve, Levels
  <2>3. inote' = (irq = "suspend")
    BY <1>4 DEF Deliver
  <2> QED
    BY <2>2, <2>3
<1>5. CASE DeliverNone
  BY <1>5 DEF DeliverNone, Onward
<1>6. CASE Resumes
  BY <1>6 DEF Resumes, Onward, Actionable
<1>7. CASE Tests \/ Wakes
  BY <1>7 DEF Tests, Wakes, Nothing, Actionable, CanPush
<1>8. CASE \E work \in 0 .. IMaxWork : Runs(work)
  BY <1>8 DEF Runs
<1>9. CASE disableinterrupts \/ enableinterrupts \/ clearinterrupts
  BY <1>9 DEF disableinterrupts, enableinterrupts, clearinterrupts
<1>10. CASE UNCHANGED irqVars
  BY <1>10 DEF irqVars, Nothing, Actionable, CanPush
<1> QED
  BY <1>1, <1>2, <1>3, <1>4, <1>5, <1>6, <1>7, <1>8, <1>9, <1>10 DEF IrqNext, Interpreter

-----------------------------------------------------------------------------
(* What is delivered. *)

\* The part of the state that requests live in.
slotVars == <<ierror, iinvoke, igot, iacc>>

\* A step that leaves the slots, and errors and invocations pending, alone.
LEMMA SlotsFrame ==
  ASSUME OnceEach, Numbered, iraised' \in Nat, iraised <= iraised', UNCHANGED slotVars,
         ("error" \in ipend') = ("error" \in ipend), ("invoke" \in ipend') = ("invoke" \in ipend)
  PROVE  OnceEach' /\ Numbered'
<1>1. OnceEach'
  BY DEF OnceEach, slotVars
<1>2. Numbered'
  BY DEF Numbered, slotVars
<1> QED
  BY <1>1, <1>2

LEMMA OnceStep == OnceEach /\ Numbered /\ [IrqNext]_irqVars => OnceEach' /\ Numbered'
<1> SUFFICES ASSUME OnceEach, Numbered, [IrqNext]_irqVars PROVE OnceEach' /\ Numbered'
  OBVIOUS
<1>0. iraised \in Nat /\ iraised <= iraised /\ iraised + 1 \in Nat /\ iraised <= iraised + 1
  BY DEF Numbered
<1>1. ASSUME NEW irq \in HostIRQs, raise_interrupt(irq) PROVE OnceEach' /\ Numbered'
  <2>1. irq # "error" /\ irq # "invoke"
    BY <1>1 DEF raise_interrupt, Levels
  <2> QED
    BY <1>0, <1>1, <2>1, SlotsFrame DEF raise_interrupt, slotVars
<1>2. CASE raise_error
  <2>1. /\ ierror = 0 /\ ierror' = iraised + 1 /\ iraised' = iraised + 1 /\ iinvoke' = iinvoke
        /\ igot' = igot /\ iacc' = iacc \cup {iraised + 1} /\ ipend' = ipend \cup {"error"}
    BY <1>2 DEF raise_error
  <2>2. iraised + 1 \notin iacc
    BY DEF Numbered
  <2>3. Numbered'
    BY <2>1, <2>2 DEF Numbered, OnceEach
  <2>4. OnceEach'
    BY <1>0, <2>1, <2>2 DEF Numbered, OnceEach
  <2> QED
    BY <2>3, <2>4
<1>3. CASE invoke
  <2>1. /\ iinvoke = 0 /\ iinvoke' = iraised + 1 /\ iraised' = iraised + 1 /\ ierror' = ierror
        /\ igot' = igot /\ iacc' = iacc \cup {iraised + 1} /\ ipend' = ipend \cup {"invoke"}
    BY <1>3 DEF invoke, OnceEach
  <2>2. iraised + 1 \notin iacc
    BY DEF Numbered
  <2>3. Numbered'
    BY <2>1, <2>2 DEF Numbered, OnceEach
  <2>4. OnceEach'
    BY <1>0, <2>1, <2>2 DEF Numbered, OnceEach
  <2> QED
    BY <2>3, <2>4
<1>4. ASSUME NEW irq \in HostIRQs, Deliver(irq) PROVE OnceEach' /\ Numbered'
  <2>1. irq \in Levels \/ irq \in {"error", "suspend", "invoke", "exit"}
    BY <1>4 DEF Deliver, Servable, Levels
  <2>2. irq \in ipend /\ UNCHANGED <<iraised, iacc>>
    BY <1>4 DEF Deliver, Servable, Actionable
  <2>3. CASE irq = "error"
    <3>1. ipend' = ipend \ {"error"} /\ ierror' = 0 /\ igot' = igot \cup {ierror} /\ iinvoke' = iinvoke
      BY <1>4, <2>3 DEF Deliver, Serve, Levels
    <3> QED
      BY <2>2, <2>3, <3>1 DEF OnceEach, Numbered
  <2>4. CASE irq = "invoke"
    <3>1. ipend' = ipend \ {"invoke"} /\ iinvoke' = 0 /\ igot' = igot \cup {iinvoke} /\ ierror' = ierror
      BY <1>4, <2>4 DEF Deliver, Serve, Levels
    <3> QED
      BY <2>2, <2>4, <3>1 DEF OnceEach, Numbered
  <2>5. CASE irq \in Levels \cup {"suspend", "exit"}
    <3>1. ipend' = ipend \ {irq} /\ UNCHANGED slotVars
      BY <1>4, <2>5 DEF Deliver, Serve, Levels, slotVars
    <3>2. irq # "error" /\ irq # "invoke"
      BY <2>5 DEF Levels
    <3> QED
      BY <1>0, <2>2, <3>1, <3>2, SlotsFrame
  <2> QED
    BY <2>1, <2>3, <2>4, <2>5
<1>5. CASE DeliverNone \/ Tests \/ Wakes \/ (\E work \in 0 .. IMaxWork : Runs(work)) \/ UNCHANGED irqVars
  BY <1>0, <1>5, SlotsFrame DEF DeliverNone, Tests, Wakes, Runs, irqVars, slotVars
<1>6. CASE Resumes
  BY <1>0, <1>6, SlotsFrame DEF Resumes, slotVars
<1>7. CASE disableinterrupts \/ enableinterrupts
  BY <1>0, <1>7, SlotsFrame DEF disableinterrupts, enableinterrupts, slotVars
<1>8. CASE clearinterrupts
  BY <1>0, <1>8, SlotsFrame DEF clearinterrupts, slotVars, Levels
<1> QED
  BY <1>1, <1>2, <1>3, <1>4, <1>5, <1>6, <1>7, <1>8 DEF IrqNext, Interpreter

\* The three together, whatever host threads raise and however their calls fall
\* between the interpreter's look at the published copy, its test under the
\* lock and its wait.
THEOREM InterruptsSafe == IrqSpec => []InterruptsSound
<1>1. IrqInv /\ [IrqNext]_irqVars => IrqInv'
  BY HiddenStep, ParkedStep, OnceStep DEF IrqInv, InterruptsSound
<1>2. IrqInv => InterruptsSound
  BY DEF IrqInv
<1> QED
  BY <1>1, <1>2, IrqStart, PTL DEF IrqSpec

=============================================================================
