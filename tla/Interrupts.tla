----------------------------- MODULE Interrupts -----------------------------
(***************************************************************************)
(* Interrupts raised by host threads and served by the interpreter         *)
(* (src/src/api.inl raise_interrupt, raise_error, invoke; src/src/         *)
(* interpreter.inl process_interrupt, wait_for_exec_ready, interpreter).   *)
(*                                                                         *)
(* The interpreter looks at a published copy of the pending set without    *)
(* the lock, and parks on a condition variable when it is suspended or has *)
(* no work.  Every other access is under m_mutex and is one step.          *)
(*                                                                         *)
(*   ipend    m_interrupt                                                  *)
(*   imask    are interrupts disabled (m_interrupt_mask)?                  *)
(*   ipub     m_pending_irq                                                *)
(*   iat      where the interpreter is: top (wait_for_exec_ready), test    *)
(*            (before its wait), park, suspend, run, exited                *)
(*   inote    has m_cond been signalled since the interpreter waits?       *)
(*   iwork    objects on the execution stack                               *)
(*   iraised  requests made so far                                         *)
(*   ierror, iinvoke   the one-place slots of raise_error and invoke: the  *)
(*            request in it, or 0                                          *)
(*   iacc, igot   requests of raise_error and invoke accepted, delivered   *)
(***************************************************************************)
EXTENDS Integers, FiniteSets

CONSTANTS
  HostIRQs,      \* interrupts that hosts raise
  IMaxWork,      \* capacity of the execution stack
  IMaxRaised,    \* bound: requests
  Masking        \* may the program disable interrupts?

VARIABLES ipend, imask, ipub, iat, inote, iwork, iraised, ierror, iinvoke, igot, iacc

irqVars == <<ipend, imask, ipub, iat, inote, iwork, iraised, ierror, iinvoke, igot, iacc>>

Levels == {"L0", "L1", "L2"}

\* A resident instance with its startup work to do.
IrqInit ==
  /\ ipend = {} /\ imask = FALSE /\ ipub = {} /\ iat = "top" /\ inote = FALSE
  /\ iwork = 1 /\ iraised = 0 /\ ierror = 0 /\ iinvoke = 0 /\ igot = {} /\ iacc = {}

Actionable(p, mask) == IF mask THEN {} ELSE p

-----------------------------------------------------------------------------
(* Host threads *)

\* raise_interrupt.
raise_interrupt(irq) ==
  /\ irq \in HostIRQs \cap (Levels \cup {"suspend", "resume", "exit"}) /\ iraised < IMaxRaised
  /\ iraised' = iraised + 1 /\ ipend' = ipend \cup {irq}
  /\ ipub' = Actionable(ipend', imask) /\ inote' = TRUE
  /\ UNCHANGED <<imask, iat, iwork, ierror, iinvoke, igot, iacc>>

\* raise_error is refused while one is pending.
raise_error ==
  /\ "error" \in HostIRQs /\ iraised < IMaxRaised /\ ierror = 0
  /\ iraised' = iraised + 1 /\ ierror' = iraised + 1 /\ iacc' = iacc \cup {iraised + 1} /\ ipend' = ipend \cup {"error"}
  /\ ipub' = Actionable(ipend', imask) /\ inote' = TRUE
  /\ UNCHANGED <<imask, iat, iwork, iinvoke, igot>>

\* invoke is refused while one is pending.
invoke ==
  /\ "invoke" \in HostIRQs /\ iraised < IMaxRaised /\ "invoke" \notin ipend
  /\ iraised' = iraised + 1 /\ iinvoke' = iraised + 1 /\ iacc' = iacc \cup {iraised + 1} /\ ipend' = ipend \cup {"invoke"}
  /\ ipub' = Actionable(ipend', imask) /\ inote' = TRUE
  /\ UNCHANGED <<imask, iat, iwork, ierror, igot>>

-----------------------------------------------------------------------------
(* The interpreter *)

\* With every interrupt taken, m_pending_irq is published again.
Serve(irq, work, to) ==
  /\ ipend' = ipend \ {irq} /\ ipub' = Actionable(ipend', imask)
  /\ iwork' = iwork + work /\ iat' = to

\* wait_for_exec_ready after an interrupt or without one: run what there is.
Onward(work) == IF work > 0 THEN "run" ELSE "test"

CanPush == iwork < IMaxWork

\* process_interrupt: the first in the order of priority that can be served.
Servable(irq) ==
  /\ irq \in Actionable(ipend, imask)
  /\ \/ irq = "L0" /\ CanPush
     \/ irq = "error" /\ ("L0" \in ipend => ~CanPush)
     \/ irq = "L1" /\ CanPush /\ ipend \cap {"L0", "error"} = {}
     \/ irq = "suspend" /\ "error" \notin ipend /\ (CanPush => ipend \cap {"L0", "L1"} = {})
     \/ irq = "invoke" /\ iwork + 1 < IMaxWork /\ ipend \cap {"L0", "error", "L1", "suspend"} = {}
     \/ irq = "L2" /\ CanPush /\ ipend \cap {"L0", "error", "L1", "suspend"} = {} /\ (iwork + 1 < IMaxWork => "invoke" \notin ipend)
     \/ irq = "exit" /\ ipend \cap {"error", "suspend"} = {} /\ (CanPush => ipend \cap {"L0", "L1", "L2"} = {})
        /\ (iwork + 1 < IMaxWork => "invoke" \notin ipend)

Deliver(irq) ==
  /\ iat = "top" /\ ipub # {} /\ Servable(irq)
  /\ inote' = (irq = "suspend")      \* it looks for a Resume before it waits
  /\ CASE irq \in Levels ->
            Serve(irq, 1, "run") /\ UNCHANGED <<ierror, iinvoke, igot>>
       [] irq = "error" ->
            Serve(irq, 0, "top") /\ ierror' = 0 /\ igot' = igot \cup {ierror} /\ UNCHANGED iinvoke
       [] irq = "suspend" ->
            Serve(irq, 0, "suspend") /\ UNCHANGED <<ierror, iinvoke, igot>>
       [] irq = "invoke" ->
            Serve(irq, 2, "run") /\ iinvoke' = 0 /\ igot' = igot \cup {iinvoke} /\ UNCHANGED ierror
       [] irq = "exit" ->
            Serve(irq, 0, "exited") /\ UNCHANGED <<ierror, iinvoke, igot>>
  /\ UNCHANGED <<imask, iraised, iacc>>

\* Nothing published, or nothing that can be served.
DeliverNone ==
  /\ iat = "top" /\ (ipub # {} => \A irq \in HostIRQs : ~Servable(irq))
  /\ iat' = Onward(iwork)
  /\ ipub' = IF ipub # {} THEN Actionable(ipend, imask) ELSE ipub
  /\ UNCHANGED <<ipend, imask, inote, iwork, iraised, ierror, iinvoke, igot, iacc>>

\* The wait for Resume or Exit; an Exit stays pending.
Resumes ==
  /\ iat = "suspend"
  /\ IF Actionable(ipend, imask) \cap {"resume", "exit"} # {}
     THEN /\ ipend' = IF "exit" \in ipend THEN ipend ELSE ipend \ {"resume"}
          /\ ipub' = Actionable(ipend', imask) /\ iat' = Onward(iwork) /\ inote' = FALSE
     ELSE inote /\ inote' = FALSE /\ UNCHANGED <<ipend, ipub, iat>>
  /\ UNCHANGED <<imask, iwork, iraised, ierror, iinvoke, igot, iacc>>

\* wait_for_exec_ready with no work: under the lock, wait unless something
\* can be served.
Nothing == LET p == Actionable(ipend, imask) IN p = {} \/ (~CanPush /\ p \cap {"error", "exit"} = {})

\* Mutant: it waits without a look.
TestsBlind ==
  /\ iat = "test" /\ inote' = FALSE /\ iat' = "park"
  /\ UNCHANGED <<ipend, imask, ipub, iwork, iraised, ierror, iinvoke, igot, iacc>>

Tests ==
  /\ iat = "test" /\ inote' = FALSE
  /\ iat' = IF Nothing THEN "park" ELSE "top"
  /\ UNCHANGED <<ipend, imask, ipub, iwork, iraised, ierror, iinvoke, igot, iacc>>

Wakes ==
  /\ iat = "park" /\ inote
  /\ inote' = FALSE /\ iat' = IF Nothing THEN "park" ELSE "top"
  /\ UNCHANGED <<ipend, imask, ipub, iwork, iraised, ierror, iinvoke, igot, iacc>>

\* dispatch_loop: objects are executed until the stack is empty or the
\* countdown to the next look at the interrupts ends.
Runs(work) ==
  /\ iat = "run" /\ work < iwork /\ iwork' = work /\ iat' = "top"
  /\ UNCHANGED <<ipend, imask, ipub, inote, iraised, ierror, iinvoke, igot, iacc>>

\* disable-interrupts leaves the published copy.
disableinterrupts ==
  /\ iat = "run" /\ Masking /\ ~imask /\ iraised < IMaxRaised
  /\ imask' = TRUE /\ UNCHANGED <<ipend, ipub, iat, inote, iwork, iraised, ierror, iinvoke, igot, iacc>>

\* enable-interrupts.
enableinterrupts ==
  /\ iat = "run" /\ imask /\ imask' = FALSE /\ ipub' = ipend
  /\ UNCHANGED <<ipend, iat, inote, iwork, iraised, ierror, iinvoke, igot, iacc>>

\* clear-interrupts drops the user levels only.
clearinterrupts ==
  /\ iat = "run" /\ ipend \cap Levels # {}
  /\ ipend' = ipend \ Levels /\ ipub' = Actionable(ipend', imask)
  /\ UNCHANGED <<imask, iat, inote, iwork, iraised, ierror, iinvoke, igot, iacc>>

-----------------------------------------------------------------------------
Interpreter ==
  \/ \E irq \in HostIRQs : Deliver(irq)
  \/ DeliverNone \/ Resumes \/ Tests \/ Wakes
  \/ \E work \in 0 .. IMaxWork : Runs(work)

IrqNext ==
  \/ \E irq \in HostIRQs : raise_interrupt(irq)
  \/ raise_error \/ invoke \/ Interpreter
  \/ disableinterrupts \/ enableinterrupts \/ clearinterrupts

\* The interpreter thread runs; a program that disables interrupts enables
\* them again before its work is done.
IrqFair == WF_irqVars(Interpreter) /\ SF_irqVars(enableinterrupts)

IrqSpec == IrqInit /\ [][IrqNext]_irqVars /\ IrqFair

-----------------------------------------------------------------------------
\* The copy read without the lock never hides an interrupt that can be
\* delivered.
NothingHidden == Actionable(ipend, imask) # {} => ipub # {}

\* No lost wakeup: parked without work and not signalled, the interpreter has
\* nothing to serve; suspended and not signalled, no Resume or Exit is pending.
ParkedInVain ==
  /\ iat = "park" /\ ~inote => Nothing
  /\ iat = "suspend" /\ ~inote => Actionable(ipend, imask) \cap {"resume", "exit"} = {}

\* Every request that raise_error or invoke has accepted is in its slot, with
\* its interrupt pending, or has been delivered, once.
OnceEach ==
  LET waiting == {ierror, iinvoke} \ {0} IN
  /\ iacc = igot \cup waiting /\ igot \cap waiting = {}
  /\ ("error" \in ipend) = (ierror # 0) /\ ("invoke" \in ipend) = (iinvoke # 0)

\* An Exit ends the interpreter, suspended, parked or busy, unless the program
\* leaves interrupts disabled.
ExitHonoured == "exit" \in ipend ~> (iat = "exited" \/ imask)

\* What is raised is served unless the interpreter stays suspended, has
\* exited or keeps interrupts disabled.
Served == \A irq \in HostIRQs \cap (Levels \cup {"error", "invoke"}) :
  []<>(irq \notin ipend \/ iat \in {"suspend", "exited"} \/ imask)

\* A resident instance without work parks.
ParksWhenIdle == (iwork = 0 /\ iraised = IMaxRaised) ~> (iat \in {"park", "suspend", "exited"} \/ iwork > 0)

\* No request of a host thread is hidden from the interpreter, slept through,
\* lost or delivered twice.
InterruptsSound == NothingHidden /\ ParkedInVain /\ OnceEach

=============================================================================
