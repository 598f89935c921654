-------------------------------- MODULE Logic --------------------------------
(***************************************************************************)
(* The logic engine (src/src/ops_logic.inl): logic variables, unification, *)
(* and the search operators, which are built from error unwinding and      *)
(* save/restore.  A search operator opens a save level, puts a barrier on  *)
(* the execution stack and runs an alternative above it; Fail unwinds to   *)
(* the nearest barrier, whose fail handler restores the level.             *)
(*                                                                         *)
(*   lg.exec     execution stack, top last: procedures and barrier frames  *)
(*   lg.ops      operand stack: terms, with the save level of their storage *)
(*   lg.above    the words above the top: what was popped and not yet      *)
(*               written over, nearest first                               *)
(*   lg.cells    binding cells of the logic variables, with the save level *)
(*               they were last written at                                 *)
(*   lg.save     open save levels: the journal, the number of cells, and   *)
(*               (history) the cells when the level was opened             *)
(*   lg.scratch  results a find-all or find-n has collected                *)
(*   lg.err      the error being raised                                    *)
(*   lg.last     history: the last unification                             *)
(*   gprog       the program                                               *)
(*                                                                         *)
(* A procedure is a sequence of goals.  Cyclic terms, exit and stop out of *)
(* a search, and logic variables in global storage are left out.           *)
(***************************************************************************)
EXTENDS Integers, Sequences, SequencesExt, FiniteSets, FiniteSetsExt

CONSTANTS
  GPrograms,   \* programs considered
  GVars,       \* number of logic variables a program starts with
  GSaveCount,  \* save levels available
  GMaxDepth    \* depth limit of unify and copy-term

VARIABLES lg, gprog

logicVars == <<lg, gprog>>

Atom(n) == [k |-> "atom", v |-> n]
Var(i) == [k |-> "var", v |-> i]
Arr(s) == [k |-> "arr", e |-> s]
Null == [k |-> "null"]

\* A procedure on the execution stack, and a barrier frame.
Run(p) == [k |-> "run", p |-> p]
Frame(k, alts, body, n) ==
  [k |-> k, alts |-> alts, body |-> body, n |-> n, i |-> 1, tok |-> 0, dep |-> 0]

Level(m) == Len(m.save)
Pop(m) == [m EXCEPT !.exec = Front(@)]
PushExec(m, f) == [m EXCEPT !.exec = Append(@, f)]
PushOp(m, t, lv) ==
  [m EXCEPT !.ops = Append(@, [t |-> t, lv |-> lv]), !.above = IF @ = << >> THEN @ ELSE Tail(@)]

\* m_op_ptr = m_op_base + d: cuts the stack or, when operands below d were
\* consumed, brings back whatever their words hold now.
SetDepth(m, d) ==
  LET words == m.ops \o m.above
  IN  [m EXCEPT !.ops = SubSeq(words, 1, d), !.above = SubSeq(words, d + 1, Len(words))]
PopOps(m, n) == SetDepth(m, Len(m.ops) - n)

\* while (m_op_ptr > target): only cuts.
TrimTo(m, d) == IF Len(m.ops) > d THEN SetDepth(m, d) ELSE m

\* Operands pushed and taken again by one operator leave their words above.
Passing(m, ts) == PopOps(FoldLeft(LAMBDA n, t : PushOp(n, t, 0), m, ts), Len(ts))

Persistable(t) == t.k \in {"atom", "null"}

\* error: anything but Fail gives up what find-all has collected.
Raise(m, e) ==
  [m EXCEPT !.err = e, !.scratch = IF e = "fail" THEN @ ELSE << >>]
-----------------------------------------------------------------------------
(* Variables and unification.                                              *)

Unbound(m, i) == m.cells[i].v = Null

RECURSIVE Deref(_, _)
Deref(m, t) ==
  IF t.k = "var" /\ ~Unbound(m, t.v) THEN Deref(m, m.cells[t.v].v) ELSE t

logic_var(m) ==
  [m EXCEPT !.cells = Append(@, [v |-> Null, lv |-> Level(m)])]

\* lvar_bind: the old cell is journaled unless this level wrote it already.
lvar_bind(m, i, t) ==
  LET j == IF m.cells[i].lv = Level(m) THEN m
           ELSE [m EXCEPT !.save[Level(m)].jr = Append(@, <<i, m.cells[i]>>)]
  IN  [j EXCEPT !.cells[i] = [v |-> t, lv |-> Level(m)]]

\* unify_impl: the state with what was bound, and whether it matched; what a
\* mismatch has bound before stays bound.
RECURSIVE unify_impl(_, _, _, _)
RECURSIVE UnifyAll(_, _, _, _)
unify_impl(m, a0, b0, d) ==
  LET a == Deref(m, a0)
      b == Deref(m, b0)
  IN  CASE d > GMaxDepth -> [m |-> Raise(m, "limit"), ok |-> FALSE]
        [] d <= GMaxDepth /\ a = b -> [m |-> m, ok |-> TRUE]
        [] d <= GMaxDepth /\ a # b /\ a.k = "var" ->
             [m |-> lvar_bind(m, a.v, b), ok |-> TRUE]
        [] d <= GMaxDepth /\ a.k # "var" /\ b.k = "var" ->
             [m |-> lvar_bind(m, b.v, a), ok |-> TRUE]
        [] OTHER ->
             IF a.k = "arr" /\ b.k = "arr" /\ Len(a.e) = Len(b.e)
             THEN UnifyAll(m, a.e, b.e, d + 1)
             ELSE [m |-> m, ok |-> FALSE]
UnifyAll(m, as, bs, d) ==
  IF as = << >> THEN [m |-> m, ok |-> TRUE]
  ELSE LET x == unify_impl(m, Head(as), Head(bs), d)
       IN  IF x.ok THEN UnifyAll(x.m, Tail(as), Tail(bs), d) ELSE x

\* copy_term_impl: the state with the fresh variables, the copy, and the
\* fresh variable of each old one met so far.
RECURSIVE copy_term_impl(_, _, _)
copy_term_var(m, i, map) ==
  IF \E p \in map : p[1] = i
  THEN [m |-> m, map |-> map, t |-> Var((CHOOSE p \in map : p[1] = i)[2])]
  ELSE LET f == Len(m.cells) + 1
       IN  [m |-> logic_var(m), map |-> map \cup {<<i, f>>}, t |-> Var(f)]
copy_term_impl(m, t0, map) ==
  LET t == Deref(m, t0)
      Next1(x, e) == LET y == copy_term_impl(x.m, e, x.map)
                     IN  [m |-> y.m, map |-> y.map, es |-> Append(x.es, y.t)]
      z == FoldLeft(Next1, [m |-> m, map |-> map, es |-> << >>], t.e)
  IN  CASE t.k = "var" -> copy_term_var(m, t.v, map)
        [] t.k = "arr" -> [m |-> z.m, map |-> z.map, t |-> Arr(z.es)]
        [] OTHER -> [m |-> m, map |-> map, t |-> t]
-----------------------------------------------------------------------------
(* Save levels.                                                            *)

Save(m) ==
  [Passing(m, <<Atom(Level(m))>>) EXCEPT !.save = Append(@, [jr |-> << >>, n |-> Len(m.cells), snap |-> m.cells])]

\* Restore to tok open levels: refused (the token stays on the operand
\* stack) when an operand's storage would go.
Restore(m, tok) ==
  LET js == [l \in 1..(Level(m) - tok) |-> m.save[tok + l].jr]
      Undo(c, e) == [c EXCEPT ![e[1]] = e[2]]
  IN  IF \E o \in ToSet(m.ops) : o.lv > tok
      THEN Raise(PushOp(m, Atom(tok), 0), "error")
      ELSE [Passing(m, <<Atom(tok)>>) EXCEPT
                     !.save = SubSeq(@, 1, tok),
                     !.cells = SubSeq(FoldLeft(Undo, @, Reverse(FlattenSeq(js))),
                                      1, m.save[tok + 1].n)]
-----------------------------------------------------------------------------
(* Search operators: trying the next alternative of a frame, and what its  *)
(* barrier does when the alternative succeeds or fails.                    *)

\* scratch_collect and the results of the exhausted operators.
Exhausted(m, f) ==
  CASE f.k = "choice" -> Raise(m, "fail")
    [] f.k \in {"all", "n"} ->
         [PushOp(m, Arr(m.scratch), Level(m)) EXCEPT !.scratch = << >>]
    [] f.k = "count" -> PushOp(m, Atom(f.n), 0)
    [] f.k = "agg" -> PushOp(m, f.n, 0)
    [] f.k = "each" -> m

\* Open a level, push the barrier and what runs above it.
Open(m, f, procs) ==
  IF Level(m) = GSaveCount THEN Raise(m, "limit")
  ELSE LET g == [f EXCEPT !.tok = Level(m), !.dep = Len(m.ops)]
       IN  [Save(PushExec(m, g)) EXCEPT !.exec = @ \o [j \in 1..Len(procs) |-> Run(procs[j])]]

\* ..._try_next: for-each-solution puts its body under the alternative.
try_next(m, f) ==
  IF f.i > Len(f.alts) \/ (f.k = "n" /\ f.n = 0) THEN Exhausted(m, f)
  ELSE Open(m, f, (IF f.k = "each" THEN <<f.body>> ELSE << >>) \o <<f.alts[f.i]>>)

\* Restore, then go on as told unless the restore was refused.
Then(m, tok, Go(_)) == LET r == Restore(m, tok) IN IF r.err # "none" THEN r ELSE Go(r)

\* The next alternative, once the level of the last one is restored.
Retry(m, f) == LET Go(r) == try_next(r, [f EXCEPT !.i = @ + 1]) IN Then(m, f.tok, Go)

\* A success of choice, once or unify-match keeps its level open.
at_choice_barrier(m, f) == m
at_once_barrier(m, f) == m
at_unify_match_barrier(m, f) == m

\* find-all and find-n keep the top operand, which has to survive the restore.
Keep(m, f, left) ==
  LET Go(r) == try_next(PopOps([r EXCEPT !.scratch = Append(@, Last(r.ops).t)], 1),
                        [f EXCEPT !.i = @ + 1, !.n = left])
  IN  IF m.ops = << >> THEN Raise(m, "error")
      ELSE IF ~Persistable(Last(m.ops).t) THEN Raise(PopOps(m, 1), "error")
      ELSE Then(m, f.tok, Go)
Keep_bound(m, f, left) ==
  IF m.ops = << >> THEN Raise(m, "error")
  ELSE IF ~Persistable(Last(m.ops).t) THEN Raise(PopOps(m, 1), "error")
  ELSE try_next(PopOps([m EXCEPT !.scratch = Append(@, Last(m.ops).t)], 1),
                [f EXCEPT !.i = @ + 1, !.n = left])
at_find_all_bound(m, f) == Keep_bound(m, f, 0)
at_find_all_barrier(m, f) == Keep(m, f, 0)
at_find_n_barrier(m, f) == Keep(m, f, f.n - 1)
at_count_barrier(m, f) ==
  LET Go(r) == try_next(r, [f EXCEPT !.i = @ + 1, !.n = @ + 1])
  IN  Then(SetDepth(m, f.dep), f.tok, Go)
at_each_barrier(m, f) == Retry(SetDepth(m, f.dep), f)
at_naf_barrier(m, f) ==
  LET Go(r) == PushOp(r, Atom(0), 0)
  IN  Then(TrimTo(m, f.dep), f.tok, Go)
\* The result goes to the reducer, still inside the level of the alternative.
at_aggregate_barrier(m, f) ==
  IF m.ops = << >> THEN Raise(m, "error")
  ELSE LET t == PushOp(TrimTo(PopOps(m, 1), f.dep), f.n, 0)
       IN  PushExec(PushExec(PushOp(t, Last(m.ops).t, Last(m.ops).lv), [f EXCEPT !.k = "reduce"]),
                    Run(f.body))
at_aggregate_reduce_barrier(m, f) ==
  IF m.ops = << >> \/ ~Persistable(Last(m.ops).t) THEN Raise(TrimTo(m, f.dep), "error")
  ELSE LET acc == Last(m.ops).t
           Go(r) == try_next(PopOps(r, 1), [f EXCEPT !.k = "agg", !.i = @ + 1, !.n = acc])
       IN  Then(PushOp(TrimTo(PopOps(m, 1), f.dep), acc, Last(m.ops).lv), f.tok, Go)

Succeed(m, f) ==
  CASE f.k = "choice" -> at_choice_barrier(m, f)
    [] f.k = "once" -> at_once_barrier(m, f)
    [] f.k = "match" -> at_unify_match_barrier(m, f)
    [] f.k = "all" -> at_find_all_barrier(m, f)
    [] f.k = "n" -> at_find_n_barrier(m, f)
    [] f.k = "count" -> at_count_barrier(m, f)
    [] f.k = "each" -> at_each_barrier(m, f)
    [] f.k = "naf" -> at_naf_barrier(m, f)
    [] f.k = "agg" -> at_aggregate_barrier(m, f)
    [] f.k = "reduce" -> at_aggregate_reduce_barrier(m, f)
    [] f.k = "nop" -> m

\* The fail handlers; an error that is not Fail is raised again, and only
\* the reducer's handler restores before it does.
at_choice_fail(m, f) == Retry(m, f)
at_find_all_fail(m, f) == Retry(m, f)
at_find_n_fail(m, f) == Retry(m, f)
at_count_fail(m, f) == Retry(SetDepth(m, f.dep), f)

\* Mutant: only what lies above the depth noted is dropped.
at_each_fail_cut(m, f) == Retry(TrimTo(m, f.dep), f)

at_each_fail(m, f) == Retry(SetDepth(m, f.dep), f)
at_aggregate_fail(m, f) == Retry(TrimTo(m, f.dep), f)
at_once_fail(m, f) == LET Go(r) == Raise(r, "fail") IN Then(m, f.tok, Go)
at_unify_match_fail(m, f) == LET Go(r) == Raise(r, "fail") IN Then(m, f.tok, Go)
at_naf_fail(m, f) ==
  LET Go(r) == PushOp(r, Atom(1), 0)
  IN  Then(m, f.tok, Go)
at_aggregate_reduce_fail(m, f, e) ==
  LET Go(r) == Raise(r, e)
  IN  Then(TrimTo(m, f.dep), f.tok, Go)

Fail(m0, f, e) ==
  LET m == [m0 EXCEPT !.err = "none"]
  IN  CASE f.k = "reduce" -> at_aggregate_reduce_fail(m, f, e)
        [] f.k # "reduce" /\ e # "fail" -> Raise(m, e)
        [] OTHER ->
             CASE f.k = "choice" -> at_choice_fail(m, f)
               [] f.k = "all" -> at_find_all_fail(m, f)
               [] f.k = "n" -> at_find_n_fail(m, f)
               [] f.k = "count" -> at_count_fail(m, f)
               [] f.k = "each" -> at_each_fail(m, f)
               [] f.k = "agg" -> at_aggregate_fail(m, f)
               [] f.k = "once" -> at_once_fail(m, f)
               [] f.k = "match" -> at_unify_match_fail(m, f)
               [] f.k = "naf" -> at_naf_fail(m, f)

\* cut: the frame of the nearest choice becomes no-ops.
cut(m) ==
  LET cs == {j \in DOMAIN m.exec : m.exec[j].k = "choice"}
  IN  IF cs = {} THEN Raise(m, "error")
      ELSE [m EXCEPT !.exec[Max(cs)].k = "nop"]

\* unify-match: the pairs are tried in turn, each under a level of its own.
\* Its two operands stay on the stack until one has matched or none is left.
RECURSIVE unify_match(_, _, _)
unify_match(m, t, pairs) ==
  IF pairs = << >> THEN Raise(PopOps(m, 2), "fail")
  ELSE LET o == Open(m, Frame("match", << >>, << >>, 0), <<pairs[1][2]>>)
           x == unify_impl(o, t, pairs[1][1], 0)
           back == [Restore(x.m, Level(m)) EXCEPT !.exec = m.exec]
       IN  IF o.err # "none" \/ x.m.err # "none" THEN x.m
           ELSE IF x.ok THEN PopOps(x.m, 2)
           ELSE unify_match(back, t, Tail(pairs))
-----------------------------------------------------------------------------
(* A step of the interpreter: one goal, or what the top frame does.        *)

unify(m, a, b) ==
  LET x == unify_impl(m, a, b, 0)
      y == [x.m EXCEPT !.last = [a |-> a, b |-> b, ok |-> x.ok, was |-> m.cells]]
  IN  IF x.ok \/ x.m.err # "none" THEN y ELSE Raise(y, "fail")

\* The operators that start a search.  Only one find-all or find-n can have
\* results in the scratch area at a time.
choice(m, alts) == try_next(m, Frame("choice", alts, << >>, 0))
once(m, p) == Open(m, Frame("once", << >>, << >>, 0), <<p>>)
naf(m, p) == Open(m, Frame("naf", << >>, << >>, 0), <<p>>)
find_all(m, alts) ==
  IF alts = << >> THEN PushOp(m, Arr(<< >>), Level(m))
  ELSE IF m.scratch # << >> THEN Raise(m, "limit")
  ELSE try_next(m, Frame("all", alts, << >>, 0))
find_n(m, n, alts) ==
  IF n < 0 THEN Raise(m, "error")
  ELSE IF n = 0 \/ alts = << >> THEN PushOp(m, Arr(<< >>), Level(m))
  ELSE IF m.scratch # << >> THEN Raise(m, "limit")
  ELSE try_next(m, Frame("n", alts, << >>, n))
choice_count(m, alts) == try_next(m, Frame("count", alts, << >>, 0))
for_each_solution(m, p, alts) == try_next(m, Frame("each", alts, p, 0))
aggregate(m, init, p, alts) ==
  IF ~Persistable(init) THEN Raise(m, "error") ELSE try_next(m, Frame("agg", alts, p, init))

\* The operands of a goal that it takes off the stack before anything else;
\* Code is a procedure or an array of the program.
Code == Arr(<< >>)
Operands(g) ==
  CASE g.op = "unify" -> <<g.a, g.b>>
    [] g.op = "copy" -> <<g.a>>
    [] g.op \in {"once", "naf", "all", "choice", "count"} -> <<Code>>
    [] g.op = "n" -> <<Atom(g.n), Code>>
    [] g.op = "each" -> <<Code, Code>>
    [] g.op = "agg" -> <<g.t, Code, Code>>
    [] OTHER -> << >>

Goal(m0, g) ==
  LET m == Passing(m0, Operands(g)) IN
  CASE g.op = "unify" -> unify(m, g.a, g.b)
    [] g.op = "push" -> PushOp(m, g.t, 0)
    [] g.op = "new" -> PushOp(m, Arr(<< >>), Level(m))
    [] g.op = "value" -> PushOp(m, Deref(m, g.t), 0)
    [] g.op = "add" ->
         LET n == Len(m.ops)
         IN  IF n < 2 THEN Raise(m, "error")
             ELSE IF m.ops[n].t.k # "atom" \/ m.ops[n - 1].t.k # "atom" THEN Raise(m, "error")
             ELSE PushOp(PopOps(m, 2), Atom(m.ops[n].t.v + m.ops[n - 1].t.v), 0)
    [] g.op = "pop" -> IF m.ops = << >> THEN Raise(m, "error") ELSE PopOps(m, 1)
    [] g.op = "copy" ->
         LET c == copy_term_impl(m, g.a, {}) IN unify(Passing(c.m, <<c.t, g.b>>), c.t, g.b)
    [] g.op = "fail" -> Raise(m, "fail")
    [] g.op = "throw" -> Raise(m, "error")
    [] g.op = "cut" -> cut(m)
    [] g.op = "once" -> once(m, g.body)
    [] g.op = "naf" -> naf(m, g.body)
    [] g.op = "match" -> unify_match(PushOp(PushOp(m, g.a, 0), Code, 0), g.a, g.alts)
    [] g.op = "all" -> find_all(m, g.alts)
    [] g.op = "n" -> find_n(m, g.n, g.alts)
    [] g.op = "choice" -> choice(m, g.alts)
    [] g.op = "count" -> choice_count(m, g.alts)
    [] g.op = "each" -> for_each_solution(m, g.body, g.alts)
    [] g.op = "agg" -> aggregate(m, g.t, g.body, g.alts)

\* Procedures above the nearest barrier are dropped when an error is raised.
Barriers(m) == {j \in DOMAIN m.exec : m.exec[j].k \notin {"run", "nop"}}

Step(m0) ==
  LET m == [m0 EXCEPT !.last = [ok |-> TRUE, a |-> Null, b |-> Null, was |-> << >>]]
      f == Last(m.exec)
  IN  IF m.err # "none"
      THEN LET b == IF Barriers(m) = {} THEN 0 ELSE Max(Barriers(m))
           IN  IF b = 0 THEN [m EXCEPT !.exec = << >>]
               ELSE Fail([m EXCEPT !.exec = SubSeq(@, 1, b - 1)], m.exec[b], m.err)
      ELSE IF f.k # "run" THEN Succeed(Pop(m), f)
      ELSE IF f.p = << >> THEN Pop(m)
      ELSE Goal([m EXCEPT !.exec[Len(m.exec)].p = Tail(@)], Head(f.p))

LogicStep == /\ lg.exec # << >>
             /\ lg' = Step(lg)
             /\ UNCHANGED gprog

LogicInit ==
  /\ gprog \in GPrograms
  /\ lg = [exec |-> <<Run(gprog)>>, ops |-> << >>, above |-> << >>,
           cells |-> [i \in 1..GVars |-> [v |-> Null, lv |-> 0]],
           save |-> << >>, scratch |-> << >>, err |-> "none",
           last |-> [ok |-> TRUE, a |-> Null, b |-> Null, was |-> << >>]]

LogicNext == LogicStep
LogicSpec == LogicInit /\ [][LogicNext]_logicVars
-----------------------------------------------------------------------------
(* What the operators promise: a search over immutable states.  A state is *)
(* the bindings c, the operands o (n marks storage of the scope in which   *)
(* they were made), how many of them, counted from the bottom, have not    *)
(* been touched (low) and the number d of choices that a cut can still     *)
(* reach.                                                                  *)

Free == [k |-> "null"]
RECURSIVE Walk(_, _)
Walk(c, t) == IF t.k = "var" /\ c[t.v] # Free THEN Walk(c, c[t.v]) ELSE t

\* A term with every bound variable replaced.
RECURSIVE Resolve(_, _)
Resolve(c, t0) ==
  LET t == Walk(c, t0)
  IN  IF t.k = "arr" THEN Arr([j \in DOMAIN t.e |-> Resolve(c, t.e[j])]) ELSE t

\* The bindings that make all equations hold, or {} when there are none.
RECURSIVE Solve(_, _)
Solve(c, eqs) ==
  IF eqs = << >> THEN {c}
  ELSE LET a == Walk(c, eqs[1][1])
           b == Walk(c, eqs[1][2])
           es == Tail(eqs)
       IN  CASE a = b -> Solve(c, es)
             [] a # b /\ a.k = "var" -> Solve([c EXCEPT ![a.v] = b], es)
             [] a.k # "var" /\ b.k = "var" -> Solve([c EXCEPT ![b.v] = a], es)
             [] OTHER ->
                  IF a.k = "arr" /\ b.k = "arr" /\ Len(a.e) = Len(b.e)
                  THEN Solve(c, [j \in DOMAIN a.e |-> <<a.e[j], b.e[j]>>] \o es)
                  ELSE {}

RECURSIVE VarsIn(_)
VarsIn(t) == CASE t.k = "var" -> {t.v}
               [] t.k = "arr" -> UNION {VarsIn(t.e[j]) : j \in DOMAIN t.e}
               [] OTHER -> {}
RECURSIVE Rename(_, _)
Rename(t, h) == CASE t.k = "var" -> Var(h[t.v])
                  [] t.k = "arr" -> Arr([j \in DOMAIN t.e |-> Rename(t.e[j], h)])
                  [] OTHER -> t

Ok(s) == [r |-> "ok", s |-> s]
Put(s, t, n) == [s EXCEPT !.o = Append(@, [t |-> t, n |-> n])]
Smaller(a, b) == IF a < b THEN a ELSE b
CutOperands(s, len) == LET d == Smaller(len, Len(s.o)) IN [s EXCEPT !.o = SubSeq(@, 1, d), !.low = Smaller(@, d)]

\* choice-count and for-each-solution put the depth of their caller's operands
\* back.  Those an alternative has consumed are some operand, it is not said
\* which.
SomeOperand == [k |-> "any"]
BackToDepth(s, x, b) ==
  [b EXCEPT !.o = [j \in 1..Len(s.o) |-> IF j <= x.low THEN s.o[j] ELSE [t |-> SomeOperand, n |-> FALSE]]]

\* Back to the bindings of s: what the scope x left on the operand stack stays,
\* and may not have its storage in the scope, which is given up.
Back(s, x, Go(_)) ==
  IF \E j \in (x.low + 1)..Len(x.o) : x.o[j].n
  THEN [r |-> "error", s |-> s]
  ELSE Go([x EXCEPT !.c = s.c, !.low = Smaller(@, s.low)])

RECURSIVE Proc(_, _)
Inside(p, s) == Proc(p, [s EXCEPT !.low = Len(s.o)])
Leaving(s, x) == [x EXCEPT !.s.low = Smaller(@, s.low)]
RECURSIVE Prove(_, _)
RECURSIVE FirstOf(_, _)
RECURSIVE Collect(_, _, _, _)
RECURSIVE Fold(_, _, _, _)
RECURSIVE Cases(_, _, _)

Proc(p, s) ==
  IF p = << >> THEN Ok(s)
  ELSE LET x == Prove(Head(p), s) IN IF x.r = "ok" THEN Proc(Tail(p), x.s) ELSE x

\* The first alternative that succeeds; a cut in it makes its failure final.
FirstOf(alts, s) ==
  IF alts = << >> THEN [r |-> "fail", s |-> s]
  ELSE LET x == Inside(Head(alts), [s EXCEPT !.d = @ + 1])
           d == Smaller(x.s.d, s.d)
           Go(b) == FirstOf(Tail(alts), [b EXCEPT !.d = d])
       IN  IF x.r = "fail" /\ x.s.d > s.d THEN Back(s, x.s, Go)
           ELSE [Leaving(s, x) EXCEPT !.s.d = d]

\* The results of the first n alternatives that succeed.
Collect(alts, s, n, got) ==
  IF alts = << >> \/ n = 0 THEN Ok(Put(s, Arr(got), TRUE))
  ELSE LET x == Inside(Head(alts), s)
           Miss(b) == Collect(Tail(alts), b, n, got)
           Hit(b) == Collect(Tail(alts), b, n - 1, Append(got, Last(x.s.o).t))
       IN  CASE x.r = "fail" -> Back(s, x.s, Miss)
             [] x.r = "error" -> x
             [] x.r = "ok" ->
                  IF x.s.o = << >> \/ ~Persistable(Last(x.s.o).t) THEN [x EXCEPT !.r = "error"]
                  ELSE Back(s, CutOperands(x.s, Len(x.s.o) - 1), Hit)

\* choice-count, for-each-solution and aggregate: fold over the solutions,
\* operands and bindings of each given up.  What an aggregate consumes of its
\* caller's operands is gone.
Fold(kind, g, s, acc) ==
  IF g.alts = << >> THEN Ok(IF kind = "each" THEN s ELSE Put(s, acc, FALSE))
  ELSE LET x == Inside(Head(g.alts), s)
           fed == [CutOperands(x.s, Smaller(Len(s.o), Len(x.s.o) - 1))
                     EXCEPT !.o = @ \o <<[t |-> acc, n |-> FALSE], Last(x.s.o)>>]
           y == CASE kind = "agg" -> Proc(g.body, fed)
                  [] kind = "each" -> Proc(g.body, x.s)
                  [] OTHER -> x
           new == IF kind = "agg" THEN Last(y.s.o).t
                  ELSE IF kind = "count" THEN Atom(acc.v + 1) ELSE acc
           taken == IF x.r = "ok" THEN 1 ELSE 0
           Left(z, k) == CutOperands(z, Smaller(Len(s.o), Len(z.o) - k))
           On(z, a) == LET Go(b) == Fold(kind, [g EXCEPT !.alts = Tail(@)], b, a)
                           Deep(b) == Go(BackToDepth(s, z, b))
                       IN  IF kind = "agg" THEN Back(s, Left(z, taken), Go) ELSE Back(s, Left(z, 0), Deep)
       IN  CASE x.r = "fail" -> On(x.s, acc)
             [] x.r = "error" -> x
             [] x.r = "ok" /\ kind = "agg" /\ x.s.o = << >> -> [x EXCEPT !.r = "error"]
             [] OTHER ->
                  CASE y.r = "error" -> y
                    [] y.r = "fail" -> IF kind = "agg" THEN LET Go(b) == [r |-> "fail", s |-> b] IN Back(s, Left(y.s, 0), Go)
                                       ELSE On(y.s, acc)
                    [] OTHER -> IF kind = "agg" /\ (y.s.o = << >> \/ ~Persistable(new))
                                THEN [y EXCEPT !.r = "error"] ELSE On(y.s, new)

\* unify-match: the body of the first pattern that unifies, and no other.
Cases(t, pairs, s) ==
  IF pairs = << >> THEN [r |-> "fail", s |-> s]
  ELSE LET u == Solve(s.c, <<<<t, pairs[1][1]>>>>)
           x == Inside(pairs[1][2], [s EXCEPT !.c = CHOOSE c \in u : TRUE])
           Go(b) == [r |-> "fail", s |-> b]
       IN  IF u = {} THEN Cases(t, Tail(pairs), s)
           ELSE IF x.r = "fail" THEN Back(s, x.s, Go) ELSE Leaving(s, x)

Equate(s, a, b) ==
  LET u == Solve(s.c, <<<<a, b>>>>)
  IN  IF u = {} THEN [r |-> "fail", s |-> s] ELSE Ok([s EXCEPT !.c = CHOOSE c \in u : TRUE])

Prove(g, s) ==
  CASE g.op = "unify" -> Equate(s, g.a, g.b)
    [] g.op = "copy" ->
         LET t == Resolve(s.c, g.a)
             vs == SetToSortSeq(VarsIn(t), <)
             h == [i \in VarsIn(t) |-> Len(s.c) + (CHOOSE j \in DOMAIN vs : vs[j] = i)]
             c2 == s.c \o [j \in DOMAIN vs |-> Free]
         IN  Equate([s EXCEPT !.c = c2], Rename(t, h), g.b)
    [] g.op = "push" -> Ok(Put(s, g.t, FALSE))
    [] g.op = "new" -> Ok(Put(s, Arr(<< >>), TRUE))
    [] g.op = "value" -> Ok(Put(s, Walk(s.c, g.t), FALSE))
    [] g.op = "add" ->
         LET n == Len(s.o)
         IN  IF n < 2 THEN [r |-> "error", s |-> s]
             ELSE IF SomeOperand \in {s.o[n].t, s.o[n - 1].t} THEN Ok(Put(CutOperands(s, n - 2), SomeOperand, FALSE))
             ELSE IF s.o[n].t.k # "atom" \/ s.o[n - 1].t.k # "atom" THEN [r |-> "error", s |-> s]
             ELSE Ok(Put(CutOperands(s, n - 2), Atom(s.o[n].t.v + s.o[n - 1].t.v), FALSE))
    [] g.op = "pop" -> IF s.o = << >> THEN [r |-> "error", s |-> s] ELSE Ok(CutOperands(s, Len(s.o) - 1))
    [] g.op = "fail" -> [r |-> "fail", s |-> s]
    [] g.op = "throw" -> [r |-> "error", s |-> s]
    [] g.op = "cut" -> IF s.d = 0 THEN [r |-> "error", s |-> s] ELSE Ok([s EXCEPT !.d = @ - 1])
    [] g.op = "choice" -> FirstOf(g.alts, s)
    [] g.op = "all" -> Collect(g.alts, s, -1, << >>)
    [] g.op = "n" -> Collect(g.alts, s, g.n, << >>)
    [] g.op = "count" -> Fold("count", g, s, Atom(0))
    [] g.op = "each" -> Fold("each", g, s, Null)
    [] g.op = "agg" -> Fold("agg", g, s, g.t)
    [] g.op = "match" -> Cases(g.a, g.alts, s)
    [] g.op = "once" ->
         LET x == Inside(g.body, s)
             Go(b) == [r |-> "fail", s |-> b]
         IN  IF x.r = "fail" THEN Back(s, x.s, Go) ELSE Leaving(s, x)
    [] g.op = "naf" ->
         LET x == Inside(g.body, s)
             Go(b) == Ok(Put(b, Atom(IF x.r = "ok" THEN 0 ELSE 1), FALSE))
         IN  IF x.r = "error" THEN x ELSE Back(s, CutOperands(x.s, Len(s.o)), Go)
-----------------------------------------------------------------------------
(* Properties.                                                             *)

\* A finished program has the outcome, the results and the bindings of the
\* search over immutable states: every failed alternative is undone exactly,
\* every success is kept, cut prunes the nearest choice and nothing else
\* (ops_logic.inl; a limit-check ends the comparison).
LogicExact ==
  lg.exec = << >> /\ lg.err # "limit" =>
    LET x == Proc(gprog, [c |-> SubSeq([i \in 1..GVars |-> Free], 1, GVars), o |-> << >>, low |-> 0, d |-> 0])
    IN  /\ x.r = IF lg.err = "none" THEN "ok" ELSE lg.err
        /\ x.r # "error" => /\ Len(lg.ops) = Len(x.s.o)
                            /\ \A j \in DOMAIN lg.ops : x.s.o[j].t \in {lg.ops[j].t, SomeOperand}
        /\ x.r = "ok" => \A i \in 1..GVars :
             Resolve([j \in DOMAIN lg.cells |-> lg.cells[j].v], Var(i)) = Resolve(x.s.c, Var(i))

\* A unification that succeeds makes both terms the same, and one that fails
\* could not have (unify_impl).
UnifyExact ==
  LET c == [j \in DOMAIN lg.cells |-> lg.cells[j].v]
      w == [j \in DOMAIN lg.last.was |-> lg.last.was[j].v]
      u == lg.last
  IN  u.was # << >> /\ lg.err # "limit" =>
        IF u.ok THEN Resolve(c, u.a) = Resolve(c, u.b) ELSE Solve(w, <<<<u.a, u.b>>>>) = {}

\* Undoing the journals down to an open level gives the bindings at the time
\* it was opened, whatever was bound, rebound and left bound since
\* (lvar_bind journals a cell once per level).
LevelsUndoable ==
  \A l \in 1..Len(lg.save) :
    LET m == [lg EXCEPT !.ops = << >>]
    IN  Restore(m, l - 1).cells = lg.save[l].snap

\* The barriers on the execution stack hold tokens of open levels, each
\* newer than the one below: no handler can restore a level that is gone.
TokensLive ==
  LET fs == SelectSeq(lg.exec, LAMBDA f : f.k \notin {"run", "nop"})
  IN  \A i \in DOMAIN fs : /\ fs[i].tok < Len(lg.save)
                           /\ i > 1 => fs[i - 1].tok < fs[i].tok

\* Collected results belong to a find-all or find-n that is still running:
\* none are left over to be mixed into, or to block, the next one.
ScratchOwned ==
  lg.scratch # << >> /\ lg.err # "fail" =>
    \E i \in DOMAIN lg.exec : lg.exec[i].k \in {"all", "n"}

\* The logic operators find exactly the solutions of the reference solver, and
\* every binding can be undone by the level it was made at.
LogicSound ==
  /\ LogicExact
  /\ UnifyExact
  /\ LevelsUndoable
  /\ TokensLive
  /\ ScratchOwned

=============================================================================
