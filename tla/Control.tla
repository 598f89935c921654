------------------------------- MODULE Control -------------------------------
(***************************************************************************)
(* Non-local control: the execution stack of control operators and the     *)
(* stacks that must follow it (src/src/ops_flow.inl, ops_continuation.inl, *)
(* ops_effect.inl, the error path of ops_system.inl).                      *)
(*                                                                         *)
(* A control operator on the execution stack stands for the procedure      *)
(* running above it.  Some keep a companion on the error stack or own the  *)
(* top of the dictionary stack.  Six walks discard a part of the execution *)
(* stack: return, exit or stop, error, capture, perform, and abort-exec;   *)
(* each has its own code for the companions.  The walks transform the      *)
(* whole machine, which is therefore one variable:                         *)
(*                                                                         *)
(*   cm.exec     control operators, outermost first: kind k and x, what it *)
(*               keeps (operand depth, stream, dictionary, flag, block)    *)
(*   cm.err      the error stack: a tag and a value                        *)
(*   cm.dicts    the dictionary stack above the permanent dictionaries     *)
(*   cm.ops      operands (continuations and resume values aside): for     *)
(*               each, how many operators ran below it when it was pushed, *)
(*               counting those that still do                              *)
(*   cm.glob     m_curr_alloc_global                                       *)
(*   cm.open     open streams                                              *)
(*   cm.cleaned  block of a finally -> how often it has run                *)
(*   cm.conts    continuations captured, in order                          *)
(*   cm.pool     dictionaries given back to the frame pool                 *)
(*   cm.last     m_last_error                                              *)
(*   cm.ids      streams, blocks, dictionaries made so far                 *)
(*   cm.halted   has the global handler taken over?                        *)
(*   cm.uses     the kinds of scope the program opens                      *)
(***************************************************************************)
EXTENDS Integers, Sequences, SequencesExt, FiniteSets, FiniteSetsExt

CONSTANTS
  MaxExec,      \* bound: control operators on the stack
  MaxOp,        \* bound: operands, for each program
  MaxIds,       \* bound: streams, blocks and dictionaries made
  MaxConts,     \* bound: continuations captured, for each program
  ErrorNames,   \* errors a program raises
  Programs,     \* for each program considered, the kinds of scope it opens
  Loose         \* what else a program does: "begin" a dictionary in a scope,
                \* "end" the dictionary of a closure, "global" or "closure"
                \* within a delimit or an effect scope, "leave" a finally by
                \* exit or stop, "catch" an error in a cleanup, "abort" after
                \* a handler has consumed operands of its surroundings

VARIABLE cm

NoErr == "no-error"

ControlInit ==
  \E uses \in Programs :
  cm = [uses |-> uses, exec |-> << >>, err |-> << >>, dicts |-> << >>, ops |-> << >>, glob |-> FALSE, open |-> {},
        cleaned |-> << >>, conts |-> << >>, pool |-> {}, last |-> NoErr, ids |-> 0, halted |-> FALSE]

-----------------------------------------------------------------------------
(* The descriptor table and the operator flags *)

\* err_companions: how many entries of the error stack belong to an operator.
ErrCompanions(k) ==
  CASE k \in {"trycatch", "catch", "finally", "withstream", "delimit", "effect", "global"} -> 1
    [] k = "scope" -> 2
    [] OTHER -> 0

\* dict_companions: capture and perform take along only locals frames.
DictCompanions(k) == IF k = "locals" THEN 1 ELSE 0

\* DictPopOp: the operators that own the top of the dictionary stack.
DictPops == {"locals", "closure", "module"}

\* BarrierOp with an unwind action other than PopAndContinue.
Catches == {"try", "trycatch", "finally", "withstream"}

\* needs_op_rewrite: the last companion is an operand depth.
OpRewrites == {"delimit", "scope"}

\* The operators an exit may not cross, and those it leaves.
ExitFences == {"run", "stop"}
Loops == {"loop"}

SumOver(f(_), s) == FoldLeft(LAMBDA a, x : a + f(x.k), 0, s)
TopWith(m, kinds) == Max({0} \cup {i \in DOMAIN m.exec : m.exec[i].k \in kinds})
Above(m, i) == SubSeq(m.exec, i + 1, Len(m.exec))

\* Down to operator i, which inherits the operands of those above it.
Cut(m, i) == [m EXCEPT !.exec = SubSeq(@, 1, i), !.ops = [p \in DOMAIN @ |-> Min({@[p], i})]]
CutTop(m) == Cut(m, Len(m.exec) - 1)
DropErr(m, n) == [m EXCEPT !.err = SubSeq(@, 1, Len(@) - n)]
CloseTop(m) == [DropErr(m, 1) EXCEPT !.open = @ \ {Last(m.err)[2]}]
RestoreFlag(m) == [DropErr(m, 1) EXCEPT !.glob = Last(m.err)[2]]
CloseRun(m, f) == [m EXCEPT !.open = @ \ {f.x}]

\* The operand stack: a push, a cut to a depth that leaves a lower stack alone,
\* and the assignment of a depth, which brings words back that were consumed.
Consumed == -1
Pushed(m) == [m EXCEPT !.ops = Append(@, Len(m.exec))]
Trimmed(m, d) == [m EXCEPT !.ops = SubSeq(@, 1, Min({d, Len(@)}))]
AtDepth(m, d) == [m EXCEPT !.ops = [p \in 1 .. d |-> IF p \in DOMAIN @ THEN @[p] ELSE Consumed]]

\* pop_frame_dict_if_present, and recycle where the operator is @end-locals.
PopDict(m, f) ==
  IF m.dicts = << >> THEN m
  ELSE [m EXCEPT !.dicts = Front(@), !.pool = IF f.k = "locals" THEN @ \cup {Last(m.dicts)} ELSE @]

-----------------------------------------------------------------------------
(* Errors *)

\* try_catch_handler walks past one operator that does not handle errors.
ErrorPasses(m, f) ==
  CASE f.k = "global" -> RestoreFlag(m)
    [] f.k = "run" -> CloseRun(m, f)
    [] f.k \in DictPops -> PopDict(m, f)
    [] OTHER -> DropErr(m, ErrCompanions(f.k))

\* @try-barrier is cut away; @try-rollback goes back to the depth at entry
\* and leaves the error name there.
TryCaught(m, f) == Pushed(Trimmed(CutTop(m), f.x))

Ran(m, f) == [m EXCEPT !.cleaned[f.x] = @ + 1]

\* @finally-barrier becomes @finally-reraise, with the block above it; x is
\* the error it interrupted.
FinallyCaught(m, f) == [DropErr(Ran(m, f), 1) EXCEPT !.exec[Len(m.exec)] = [k |-> "reraise", x |-> m.last]]

\* global_handler: the stacks are saved for the handler in handlersdict and
\* emptied; after it the program quits.
GlobalHandler(m, e) ==
  [m EXCEPT !.halted = TRUE, !.last = e, !.exec = << >>, !.err = << >>, !.dicts = << >>, !.ops = << >>]

\* error: down to the innermost handler.  try ends, try-catch goes on to look
\* the error up, finally runs its block, with-stream closes its stream; with
\* no handler the global handler empties the stacks.
Raised(m0, e) ==
  LET i == TopWith(m0, Catches)
      m == Cut(FoldRight(LAMBDA f, n : ErrorPasses(n, f), Above(m0, i), [m0 EXCEPT !.last = e]), i)
      f == m0.exec[i] IN
  IF i = 0 THEN GlobalHandler(m0, e)
  ELSE CASE f.k = "try" -> TryCaught(m, f)
         [] f.k = "trycatch" -> [m EXCEPT !.exec[i].k = "catch"]
         [] f.k = "finally" -> FinallyCaught(m, f)
         [] f.k = "withstream" -> [CloseTop(m) EXCEPT !.exec[i] = [k |-> "raising", x |-> e]]

\* User code runs: no operator that acts at once is on top.
Running == ~cm.halted /\ (cm.exec # << >> => Last(cm.exec).k \notin {"catch", "raising"})

\* An operator fails, or throw.
Throw(e) == Running /\ cm' = Raised(cm, e)

\* @catch-error: the handler for the error, with its name as operand, or the
\* error once more.
CatchError ==
  /\ ~cm.halted /\ cm.exec # << >> /\ Last(cm.exec).k = "catch"
  /\ LET m == DropErr(CutTop(cm), 1) IN
     cm' = IF cm.last \in Last(cm.err)[2] THEN m ELSE Raised(m, cm.last)

\* @finally-reraise, at once or after the block: m_last_error.
Reraise ==
  /\ ~cm.halted /\ cm.exec # << >> /\ Last(cm.exec).k \in {"raising", "reraise"}
  /\ cm' = Raised(CutTop(cm), cm.last)

-----------------------------------------------------------------------------
(* Entering scopes *)

Delimited == \E i \in DOMAIN cm.exec : cm.exec[i].k \in {"delimit", "effect"}
InCleanup == \E i \in DOMAIN cm.exec : cm.exec[i].k = "reraise"
Entered(m, k, x) == [m EXCEPT !.exec = Append(@, [k |-> k, x |-> x])]
WithErr(m, tag, v) == [m EXCEPT !.err = Append(@, <<tag, v>>)]
CanEnter(k) == Running /\ Len(cm.exec) < MaxExec /\ k \in cm.uses
New == [cm EXCEPT !.ids = @ + 1]

\* loop, do-while, while, repeat, for, for-all.
EnterLoop == CanEnter("loop") /\ cm' = Entered(cm, "loop", 0)

\* stopped.
EnterStopped == CanEnter("stop") /\ cm' = Entered(cm, "stop", 0)

\* try notes the operand depth.
EnterTry ==
  /\ CanEnter("try") /\ Len(cm.ops) < MaxOp[cm.uses] /\ (InCleanup => "catch" \in Loose)
  /\ cm' = Entered(cm, "try", Len(cm.ops))

\* try-catch, with the errors that its dictionary handles.
EnterTryCatch(handled) ==
  /\ CanEnter("trycatch") /\ (InCleanup => "catch" \in Loose)
  /\ cm' = WithErr(Entered(cm, "trycatch", 0), "handlers", handled)

\* handle-effect.
EnterEffect == CanEnter("effect") /\ cm' = WithErr(Entered(cm, "effect", 0), "handlers", {})

\* finally.
EnterFinally ==
  /\ CanEnter("finally") /\ cm.ids < MaxIds
  /\ cm' = WithErr([Entered(New, "finally", New.ids) EXCEPT
       !.cleaned = [b \in DOMAIN @ \cup {New.ids} |-> IF b = New.ids THEN 0 ELSE @[b]]], "block", New.ids)

\* with-stream keeps its stream on the error stack.
EnterWithStream ==
  /\ CanEnter("withstream") /\ cm.ids < MaxIds
  /\ cm' = WithErr([Entered(New, "withstream", New.ids) EXCEPT !.open = @ \cup {New.ids}], "stream", New.ids)

\* run keeps it on the execution stack.
EnterRun ==
  /\ CanEnter("run") /\ cm.ids < MaxIds
  /\ cm' = [Entered(New, "run", New.ids) EXCEPT !.open = @ \cup {New.ids}]

\* in-global and in-local.
EnterAlloc(to) ==
  /\ CanEnter("global") /\ (Delimited => "global" \in Loose)
  /\ cm' = [WithErr(Entered(cm, "global", to), "flag", cm.glob) EXCEPT !.glob = to]

\* begin-locals.
EnterLocals ==
  /\ CanEnter("locals") /\ cm.ids < MaxIds
  /\ cm' = [Entered(New, "locals", New.ids) EXCEPT !.dicts = Append(@, <<"locals", New.ids>>)]

\* The call of a closure, closure-with-dict, module.
EnterClosure ==
  /\ CanEnter("closure") /\ cm.ids < MaxIds /\ (Delimited => "closure" \in Loose)
  /\ cm' = [Entered(New, "closure", New.ids) EXCEPT !.dicts = Append(@, <<"closure", New.ids>>)]

\* delimit notes the operand depth.
delimit == CanEnter("delimit") /\ cm' = WithErr(Entered(cm, "delimit", 0), "depth", Len(cm.ops))

\* begin: a dictionary of the program's own, which no operator owns.
begin ==
  /\ Running /\ "begin" \in cm.uses /\ cm.ids < MaxIds /\ (cm.exec # << >> => "begin" \in Loose)
  /\ cm' = [New EXCEPT !.dicts = Append(@, <<"user", New.ids>>)]

\* end fails on a locals frame and on the permanent dictionaries.
end ==
  /\ Running
  /\ IF cm.dicts # << >> /\ Last(cm.dicts)[1] # "locals"
     THEN /\ Last(cm.dicts)[1] = "closure" => "end" \in Loose
          /\ cm' = [cm EXCEPT !.dicts = Front(@)]
     ELSE \E e \in ErrorNames : cm' = Raised(cm, e)

\* Other operators leave operands, and consume them, those that were there
\* before the scopes they run in among them.
PushOperand == Running /\ Len(cm.ops) < MaxOp[cm.uses] /\ cm' = Pushed(cm)
PopOperand == Running /\ cm.ops # << >> /\ cm' = [cm EXCEPT !.ops = Front(@)]

-----------------------------------------------------------------------------
(* Leaving scopes *)

\* The operator on top runs when its procedure has ended: @try-barrier and
\* @stop leave a value, @finally-barrier runs the block.
ReturnOf(m, f) ==
  CASE f.k \in {"try", "stop"} -> Pushed(m)
    [] f.k = "finally" -> DropErr(Ran(m, f), 1)
    [] f.k = "global" -> RestoreFlag(m)
    [] f.k = "withstream" -> CloseTop(m)
    [] f.k = "run" -> CloseRun(m, f)
    [] f.k \in DictPops -> PopDict(m, f)
    [] OTHER -> DropErr(m, ErrCompanions(f.k))

Return ==
  /\ Running /\ cm.exec # << >> /\ Last(cm.exec).k # "reraise"
  /\ Last(cm.exec).k \in {"try", "stop"} => Len(cm.ops) < MaxOp[cm.uses]
  /\ cm' = ReturnOf(CutTop(cm), Last(cm.exec))

\* unwind_exec_to: exit, stop and abort-exec discard one operator.
Unwind(m, f) ==
  CASE f.k = "global" -> RestoreFlag(m)
    [] f.k = "withstream" -> CloseTop(m)
    [] f.k = "run" -> CloseRun(m, f)
    [] f.k \in DictPops -> PopDict(m, f)
    [] OTHER -> DropErr(m, ErrCompanions(f.k))

UnwoundTo(m, i) == Cut(FoldRight(LAMBDA f, n : Unwind(n, f), Above(m, i), m), i)

LeavesFinally(i) == \E j \in i + 1 .. Len(cm.exec) : cm.exec[j].k \in {"finally", "reraise"}

\* exit: the innermost loop, unless a fence is nearer.
exit ==
  LET i == TopWith(cm, Loops \cup ExitFences) IN
  /\ Running /\ "loop" \in cm.uses
  /\ IF i = 0 \/ cm.exec[i].k \in ExitFences THEN \E e \in ErrorNames : cm' = Raised(cm, e)
     ELSE /\ LeavesFinally(i) => "leave" \in Loose
          /\ cm' = Cut(UnwoundTo(cm, i), i - 1)

\* stop: the innermost stopped, which yields true.
stop ==
  LET i == TopWith(cm, {"stop"}) IN
  /\ Running /\ Len(cm.ops) < MaxOp[cm.uses] /\ "stop" \in cm.uses
  /\ IF i = 0 THEN \E e \in ErrorNames : cm' = Raised(cm, e)
     ELSE /\ LeavesFinally(i) => "leave" \in Loose
          /\ cm' = Pushed(Cut(UnwoundTo(cm, i), i - 1))

-----------------------------------------------------------------------------
(* Continuations *)

\* The segment above operator i with its companions: what capture and perform
\* take off the stacks.
Segment(m, i, ops) ==
  LET fs == Above(m, i)
      e == SumOver(ErrCompanions, fs)
      d == SumOver(DictCompanions, fs) IN
  [spent |-> FALSE, exec |-> fs, err |-> SubSeq(m.err, Len(m.err) - e + 1, Len(m.err)),
   dicts |-> SubSeq(m.dicts, Len(m.dicts) - d + 1, Len(m.dicts)), ops |-> ops, glob |-> m.glob]

TakenOff(m, i, seg) ==
  [Cut(DropErr(m, Len(seg.err)), i) EXCEPT
     !.dicts = SubSeq(@, 1, Len(@) - Len(seg.dicts)), !.conts = Append(@, seg)]

\* capture: the segment up to the innermost delimit and the operands above
\* its depth, none if the body has consumed others below; the handler runs in a handler scope in place of the delimit.
capture ==
  LET i == TopWith(cm, {"delimit"})
      below == cm.err[Len(cm.err) - SumOver(ErrCompanions, Above(cm, i))][2]
      slice == SubSeq(cm.ops, below + 1, Len(cm.ops))
      m == TakenOff(cm, i, Segment(cm, i, [p \in DOMAIN slice |-> slice[p] - i]))
      n == Cut(DropErr(Trimmed(m, below), 1), i - 1) IN
  /\ Running /\ Len(cm.conts) < MaxConts[cm.uses] /\ (InCleanup => "catch" \in Loose)
  /\ cm' = IF i = 0 THEN Raised(cm, CHOOSE e \in ErrorNames : TRUE)
           ELSE WithErr(WithErr(Entered(n, "scope", Len(n.conts)), "ctx", Len(n.conts)), "depth", Len(n.ops))

\* perform: the segment with the innermost effect scope that has a handler
\* for the effect, which runs outside of it.
perform(i) ==
  /\ Running /\ Len(cm.conts) < MaxConts[cm.uses] /\ (InCleanup => "catch" \in Loose)
  /\ i \in DOMAIN cm.exec /\ cm.exec[i].k = "effect"
  /\ cm' = TakenOff(cm, i - 1, Segment(cm, i - 1, << >>))

\* The depths of delimits, handler scopes and tries in the segment become
\* those of the machine that resumes it.
Rewritten(err, fs, floor) ==
  LET ends == {SumOver(ErrCompanions, SubSeq(fs, 1, j)) : j \in {j \in DOMAIN fs : fs[j].k \in OpRewrites}} IN
  [p \in DOMAIN err |-> IF p \in ends THEN <<"depth", floor>> ELSE err[p]]

\* Mutant: a try keeps the depth that it had where it was captured.
TriesKept(fs, floor) == fs

RewrittenTries(fs, floor) == [j \in DOMAIN fs |-> IF fs[j].k = "try" THEN [fs[j] EXCEPT !.x = floor] ELSE fs[j]]

\* Mutant: a continuation may be resumed again.
SpentNot(m, c) == m

\* mark_spent: the continuation can not be resumed again.
Spent(m, c) ==
  [m EXCEPT !.conts[c] = [@ EXCEPT !.spent = TRUE, !.exec = << >>, !.err = << >>, !.dicts = << >>, !.ops = << >>]]

\* execute_continuation: under a new delimit.
Resumed(m0, c) ==
  LET s == m0.conts[c]
      m == Spent(m0, c)
      floor == Len(m0.ops)
      at == Len(m0.exec) + 1 IN
  IF s.spent THEN Raised(m0, CHOOSE e \in ErrorNames : TRUE)
  ELSE [m EXCEPT !.exec = @ \o << [k |-> "delimit", x |-> 0] >> \o RewrittenTries(s.exec, floor),
                 !.err = @ \o << <<"depth", floor>> >> \o Rewritten(s.err, s.exec, floor),
                 !.dicts = @ \o s.dicts, !.ops = @ \o [p \in DOMAIN s.ops |-> s.ops[p] + at], !.glob = s.glob]

Resume(c) ==
  /\ Running /\ (InCleanup => "catch" \in Loose) /\ Len(cm.exec) + Len(cm.conts[c].exec) < MaxExec + 1
  /\ Len(cm.ops) + Len(cm.conts[c].ops) <= MaxOp[cm.uses] /\ (cm.conts[c].glob # cm.glob => "global" \in Loose)
  /\ cm' = Resumed(cm, c)

\* abort-exec: resumes in place of the handler scope of the continuation, at
\* the operand depth of that scope whether the handler has left operands above
\* it or consumed some below.
abort_exec(c) ==
  LET is == {i \in DOMAIN cm.exec : cm.exec[i].k = "scope" /\ cm.exec[i].x = c}
      i == Max(is)
      depth == cm.err[SumOver(ErrCompanions, SubSeq(cm.exec, 1, i))][2] IN
  /\ Running /\ is # {}
  /\ LeavesFinally(i) => "leave" \in Loose
  /\ i + Len(cm.conts[c].exec) < MaxExec + 1 /\ depth + Len(cm.conts[c].ops) <= MaxOp[cm.uses]
  /\ Len(cm.ops) < depth => "abort" \in Loose
  /\ cm' = Resumed(AtDepth(Cut(DropErr(UnwoundTo(cm, i), 2), i - 1), depth), c)

-----------------------------------------------------------------------------
ControlNext ==
  \/ EnterLoop \/ EnterStopped \/ EnterTry \/ EnterEffect \/ EnterFinally \/ EnterWithStream \/ EnterRun
  \/ EnterLocals \/ EnterClosure \/ delimit \/ begin \/ end \/ PushOperand \/ PopOperand
  \/ Return \/ exit \/ stop \/ CatchError \/ Reraise \/ capture
  \/ \E handled \in SUBSET ErrorNames : EnterTryCatch(handled)
  \/ \E to \in BOOLEAN : EnterAlloc(to)
  \/ \E e \in ErrorNames : Throw(e)
  \/ \E i \in 1 .. MaxExec : perform(i)
  \/ \E c \in DOMAIN cm.conts : Resume(c) \/ abort_exec(c)

ControlSpec == ControlInit /\ [][ControlNext]_cm

-----------------------------------------------------------------------------
(* Properties *)

TagsOf(k) ==
  CASE k \in {"trycatch", "catch", "effect"} -> << "handlers" >>
    [] k = "finally" -> << "block" >>
    [] k = "withstream" -> << "stream" >>
    [] k = "delimit" -> << "depth" >>
    [] k = "global" -> << "flag" >>
    [] k = "scope" -> << "ctx", "depth" >>
    [] OTHER -> << >>

\* Whatever walk discarded or moved operators, the error stack holds exactly
\* the companions of those on the execution stack, in their order.
CompanionsMatch ==
  ~cm.halted => [p \in DOMAIN cm.err |-> cm.err[p][1]] = FlattenSeq([i \in DOMAIN cm.exec |-> TagsOf(cm.exec[i].k)])

\* Apart from what the program has begun, the dictionary stack holds exactly
\* the dictionaries of the locals frames, closures and modules that are
\* running, in their order.
DictsMatch ==
  ~cm.halted =>
    SelectSeq(cm.dicts, LAMBDA d : d[1] # "user") =
      LET owners == SelectSeq(cm.exec, LAMBDA f : f.k \in DictPops) IN [i \in DOMAIN owners |-> <<owners[i].k, owners[i].x>>]

\* Only the dictionaries of locals frames go to the pool of frames.
FramesPooled == \A d \in cm.pool : d[1] = "locals"

Scopes(q, k) == {q[i].x : i \in {j \in DOMAIN q : q[j].k = k}}
Moved(k) == UNION {Scopes(cm.conts[c].exec, k) : c \in {d \in DOMAIN cm.conts : ~cm.conts[d].spent}}
OnStack(k) == Scopes(cm.exec, k)

\* A stream opened by run or with-stream is open exactly as long as its scope
\* is running or may be resumed.
StreamsScoped ==
  ~cm.halted => cm.open = UNION {OnStack(k) \cup Moved(k) : k \in {"run", "withstream"}}

\* The cleanup of a finally runs exactly once, when its scope is left.
CleanedOnce ==
  ~cm.halted => \A b \in DOMAIN cm.cleaned :
    cm.cleaned[b] = IF b \in OnStack("finally") \cup Moved("finally") THEN 0 ELSE 1

\* The allocation flag is the one of the innermost in-global or in-local.
FlagScoped ==
  ~cm.halted => cm.glob = LET i == TopWith(cm, {"global"}) IN IF i = 0 THEN FALSE ELSE cm.exec[i].x

DepthAt(i) == IF cm.exec[i].k = "try" THEN cm.exec[i].x ELSE cm.err[SumOver(ErrCompanions, SubSeq(cm.exec, 1, i))][2]

\* However bodies consume the operands around them, and wherever a segment is
\* resumed: no walk brings a consumed operand back, and the operands above the
\* depth that a try, a delimit or a handler scope holds, those that its
\* rollback or capture would take, were pushed within it.  In a segment that
\* was resumed every depth is that of the new delimit, within which they were
\* pushed.
OperandsScoped ==
  ~cm.halted =>
    /\ Consumed \notin Range(cm.ops)
    /\ \A i \in DOMAIN cm.exec : cm.exec[i].k \in {"try"} \cup OpRewrites =>
         \A p \in DepthAt(i) + 1 .. Len(cm.ops) :
           \/ cm.ops[p] >= i
           \/ \E j \in 1 .. i : cm.exec[j].k = "delimit" /\ DepthAt(j) = DepthAt(i) /\ cm.ops[p] >= j

\* After a cleanup the error that it interrupted goes on.
ReraisesOriginal ==
  ~cm.halted /\ cm.exec # << >> => (Last(cm.exec).k = "reraise" => cm.last = Last(cm.exec).x)

\* Whatever walk unwound, captured or resumed operators, what belongs to them
\* on the other stacks and outside is there exactly as long as they are.
ControlSound ==
  /\ CompanionsMatch
  /\ DictsMatch
  /\ StreamsScoped
  /\ CleanedOnce
  /\ FlagScoped
  /\ OperandsScoped

-----------------------------------------------------------------------------
(* for over the fixed-width types (ops_flow.inl).  The loop keeps its limit,  *)
(* increment and control on the execution stack and adds the increment       *)
(* modulo the width of the type, so it must notice when the sum has wrapped. *)
(*                                                                           *)
(*   floop   kind of number, control, increment, limit, and whether the      *)
(*           loop has ended; init and last are the operands of for           *)
(*   fsent   the values the body has been given                              *)

CONSTANT FWidth      \* bits of a number

VARIABLES floop, fsent

forVars == <<floop, fsent>>

Signed == -(2 ^ (FWidth - 1)) .. 2 ^ (FWidth - 1) - 1
Unsigned == 0 .. 2 ^ FWidth - 1
ToUnsigned(n) == n % 2 ^ FWidth
ToSigned(n) == LET u == ToUnsigned(n) IN IF u \in Signed THEN u ELSE u - 2 ^ FWidth

\* byte, uinteger, ulong; integer, long; address with an integer increment.
RangeOf(kind) == IF kind = "signed" THEN Signed ELSE Unsigned
IncrementOf(kind) == IF kind = "unsigned" THEN Unsigned ELSE Signed

\* for: a zero increment is refused.
ForInit ==
  /\ \E kind \in {"signed", "unsigned", "address"} :
     \E init, last \in RangeOf(kind), inc \in IncrementOf(kind) \ {0} :
       floop = [kind |-> kind, control |-> init, inc |-> inc, limit |-> last, ended |-> FALSE, init |-> init, last |-> last]
  /\ fsent = << >>

Done == IF floop.inc > 0 THEN floop.control > floop.limit ELSE floop.control < floop.limit

Sum == LET s == floop.control + floop.inc IN IF floop.kind = "signed" THEN ToSigned(s) ELSE ToUnsigned(s)

\* After a wrap the loop is left with a control beyond its limit.
Stepped ==
  IF (floop.inc > 0 /\ Sum < floop.control) \/ (floop.inc < 0 /\ Sum > floop.control)
  THEN IF floop.kind = "address" THEN IF floop.inc > 0 THEN [control |-> 1, limit |-> 0] ELSE [control |-> 0, limit |-> 1]
       ELSE [control |-> floop.control, limit |-> floop.control + (IF floop.inc > 0 THEN -1 ELSE 1)]
  ELSE [control |-> Sum, limit |-> floop.limit]

\* at_typed_for_op, at_address_for_op.
at_typed_for ==
  /\ ~floop.ended
  /\ IF Done THEN floop' = [floop EXCEPT !.ended = TRUE] /\ UNCHANGED fsent
     ELSE /\ fsent' = Append(fsent, floop.control)
          /\ floop' = [floop EXCEPT !.control = Stepped.control, !.limit = Stepped.limit]

ForSpec == ForInit /\ [][at_typed_for]_forVars

\* How many multiples of the increment fit between the operands.
Count ==
  LET span == (floop.last - floop.init) * (IF floop.inc > 0 THEN 1 ELSE -1)
      step == IF floop.inc > 0 THEN floop.inc ELSE -floop.inc IN
  IF span < 0 THEN 0 ELSE span \div step + 1

\* The body gets init, init + inc, ... in unbounded arithmetic as far as the
\* limit and nothing else, and the loop ends after the last of them, although
\* every sum is taken modulo the width.
ForExact ==
  /\ Len(fsent) <= Count /\ fsent = [i \in 1 .. Len(fsent) |-> floop.init + (i - 1) * floop.inc]
  /\ floop.ended => Len(fsent) = Count
  /\ floop.control \in RangeOf(floop.kind) /\ floop.limit \in RangeOf(floop.kind)

=============================================================================
