-------------------------------- MODULE Lazy --------------------------------
(***************************************************************************)
(* Lazy sequences (src/src/ops_lazy.inl) and the thunks they are made of   *)
(* (force in src/src/ops_higher.inl).                                      *)
(*                                                                         *)
(* A sequence is empty or a cell with a head and a tail thunk.  An operator *)
(* runs until it can deliver the first cell of its result and leaves the   *)
(* rest in a thunk: the sources to force, the operator to apply to them    *)
(* and what it carries.  Whenever user code or a force comes between, the  *)
(* operator parks what it needs below it on the execution stack.           *)
(*                                                                         *)
(*   lctl    what runs: force a thunk, op apply an operator to its         *)
(*           arguments, call user code, or ret a value to the top frame    *)
(*   lstk    the execution stack: force frames, and wait frames (operator, *)
(*           what it carries, sources still to force, arguments so far)    *)
(*   lth     the thunks                                                    *)
(*   lprog   the program: source, stages, two uses of the sequence, and    *)
(*           how often its procedures fail                                 *)
(*   lat     build, first use, second use, done          *)
(*   lseq    the sequence once it is built                                 *)
(*   lout    results of the uses                                           *)
(*   lprod   elements the source has produced                              *)
(*   lcalls  successful calls of the procedure of lazy-map                 *)
(*   lfail   errors raised by user code                                    *)
(***************************************************************************)
EXTENDS Integers, Sequences, SequencesExt, FiniteSets, FiniteSetsExt

CONSTANTS
  LPrograms,   \* programs considered
  LMaxProd,    \* bound: elements of an infinite source
  LMaxInt,     \* largest integer
  LLeave       \* may user code leave a force by exit?

VARIABLES lctl, lstk, lth, lprog, lat, lseq, lout, lprod, lcalls, lfail

lazyVars == <<lctl, lstk, lth, lprog, lat, lseq, lout, lprod, lcalls, lfail>>

Nil == [nil |-> TRUE]
Cell(h, t) == [nil |-> FALSE, hd |-> h, tl |-> t]

\* A tail: a thunk of the table, or one made with its result.
Later(n) == [id |-> n, v |-> Nil]
Made(s) == [id |-> 0, v |-> s]
Evaluated(t) == t.id = 0 \/ lth[t.id].st = "evaluated"
Result(t) == IF t.id = 0 THEN t.v ELSE lth[t.id].res

\* Integers wrap; an array of integers is packed into one (data only).
Wrap(n) == IF n > LMaxInt THEN n - 2 * (LMaxInt + 1) ELSE n
Pack(s) == FoldLeft(LAMBDA acc, x : 10 * acc + x, 0, s)

LazyOf(s) == FoldRight(LAMBDA x, acc : Cell(x, Made(acc)), s, Nil)

\* The procedures of the programs.  A procedure of flat-map returns a sequence.
LProc(f, x) ==
  CASE f = "inc" -> x[1] + 1
    [] f = "odd" -> x[1] % 2 = 1
    [] f = "even" -> x[1] % 2 = 0
    [] f = "small" -> x[1] < 3
    [] f = "big" -> x[1] > 2
    [] f = "huge" -> x[1] > 1000
    [] f = "same" -> x[1] = x[2]
    [] f = "half" -> IF x[1] % 2 = 0 THEN <<x[1] \div 2>> ELSE << >>
    [] f = "dup" -> IF x[1] % 2 = 0 THEN << >> ELSE <<x[1], x[1]>>
    [] f = "add" -> x[1] + x[2]
    [] f = "down" -> IF x[1] = 0 THEN << >> ELSE <<x[1], x[1] - 1>>

-----------------------------------------------------------------------------
(* What an operator does next: frames pushed, thunks made, control *)

Do(c, push, new) == [c |-> c, push |-> push, new |-> new]
OpOn(op, a, g) == [m |-> "op", op |-> op, a |-> a, g |-> g]
Wait(op, a, srcs, got) == [k |-> "wait", op |-> op, a |-> a, srcs |-> srcs, got |-> got]
Delay(op, a, srcs) == [st |-> "unevaluated", op |-> op, a |-> a, srcs |-> srcs, res |-> Nil]

Ret(v) == Do([m |-> "ret", v |-> v], << >>, << >>)
LRaise == Do([m |-> "raise"], << >>, << >>)

\* make_lazy over make_lazy_thunk; over make_pre_evaluated_thunk.
Emit(h, op, a, srcs) == Do([m |-> "ret", v |-> Cell(h, Later(Len(lth) + 1))], << >>, <<Delay(op, a, srcs)>>)
EmitMade(h, s) == Ret(Cell(h, Made(s)))

\* Force t, then op; call f, then op.
Ask(t, op, a) == Do([m |-> "force", t |-> t], <<Wait(op, a, << >>, << >>)>>, << >>)
CallThen(f, x, op, a) == Do([m |-> "call", f |-> f, x |-> x], <<Wait(op, a, << >>, << >>)>>, << >>)

-----------------------------------------------------------------------------
(* Sources *)

\* lazy-from and lazy-repeat: for ever.
lazy_from(a) == Emit(a.n, "from", [a EXCEPT !.n = Wrap(a.n + 1)], << >>)
lazy_repeat(a) == Emit(a.v, "repeat", a, << >>)

lazy_repeat_n(a) ==
  IF a.n <= 0 THEN Ret(Nil)
  ELSE IF a.n = 1 THEN EmitMade(a.v, Nil) ELSE Emit(a.v, "repeat_n", [a EXCEPT !.n = a.n - 1], << >>)

lazy_range(a) ==
  IF (a.step > 0 /\ a.n >= a.stop) \/ (a.step < 0 /\ a.n <= a.stop) THEN Ret(Nil)
  ELSE Emit(a.n, "range", [a EXCEPT !.n = Wrap(a.n + a.step)], << >>)

\* lazy-iterate; @lazy-iterate-build calls the procedure for the next seed.
lazy_iterate(a) == Emit(a.n, "iterate_build", a, << >>)
at_lazy_iterate_build(a) == CallThen(a.f, <<a.n>>, "iterate_next", a)
lazy_iterate_next(a, g) == lazy_iterate([a EXCEPT !.n = g[1]])

\* lazy-unfold: the procedure returns an element and a seed, or null.
lazy_unfold(a) == CallThen(a.f, <<a.n>>, "unfold_build", a)
at_lazy_unfold_build(a, g) ==
  IF g[1] = << >> THEN Ret(Nil) ELSE Emit(g[1][1], "unfold", [a EXCEPT !.n = g[1][2]], << >>)

\* lazy-seq; lazy-cycle makes one round of the array at a time.
lazy_seq(a) == Ret(LazyOf(a.s))
lazy_cycle(a) ==
  LET s == a.s
      last == Cell(s[Len(s)], Later(Len(lth) + 1))
      round == FoldRight(LAMBDA x, acc : Cell(x, Made(acc)), SubSeq(s, 1, Len(s) - 1), last) IN
  IF s = << >> THEN Ret(Nil) ELSE Do([m |-> "ret", v |-> round], << >>, <<Delay("cycle", a, << >>)>>)

-----------------------------------------------------------------------------
(* Transformers: g[1] is the source, forced *)

lazy_map(a, g) == IF g[1].nil THEN Ret(Nil) ELSE CallThen(a.f, <<g[1].hd>>, "map_build", [f |-> a.f, tl |-> g[1].tl])
at_lazy_map_build(a, g) == Emit(g[1], "map", [f |-> a.f], <<a.tl>>)

\* lazy-filter looks for the next element that passes; lazy-filter-not has its
\* predicate composed with not.
lazy_filter(a, g) ==
  IF g[1].nil THEN Ret(Nil) ELSE CallThen(a.f, <<g[1].hd>>, "filter_test", [f |-> a.f, hd |-> g[1].hd, tl |-> g[1].tl])
at_lazy_filter_test(a, g) ==
  IF g[1] THEN Emit(a.hd, "filter", [f |-> a.f], <<a.tl>>) ELSE Ask(a.tl, "filter", [f |-> a.f])

\* The tail after the last element does not touch the source.
lazy_take(a, g) ==
  IF a.n <= 0 \/ g[1].nil THEN Ret(Nil)
  ELSE IF a.n = 1 THEN EmitMade(g[1].hd, Nil) ELSE Emit(g[1].hd, "take", [n |-> a.n - 1], <<g[1].tl>>)

lazy_drop(a, g) == IF a.n <= 0 \/ g[1].nil THEN Ret(g[1]) ELSE Ask(g[1].tl, "drop", [n |-> a.n - 1])

lazy_take_while(a, g) ==
  IF g[1].nil THEN Ret(Nil) ELSE CallThen(a.f, <<g[1].hd>>, "take_while_test", [f |-> a.f, hd |-> g[1].hd, tl |-> g[1].tl])
at_lazy_take_while_test(a, g) == IF g[1] THEN Emit(a.hd, "take_while", [f |-> a.f], <<a.tl>>) ELSE Ret(Nil)

\* The element that stops the drop keeps its own tail thunk.
lazy_drop_while(a, g) ==
  IF g[1].nil THEN Ret(Nil)
  ELSE CallThen(a.f, <<g[1].hd>> \o a.than, "drop_while_test", [f |-> a.f, than |-> a.than, cell |-> g[1]])
at_lazy_drop_while_test(a, g) ==
  IF g[1] THEN Ask(a.cell.tl, "drop_while", [f |-> a.f, than |-> a.than]) ELSE Ret(a.cell)

lazy_filter_map(a, g) ==
  IF g[1].nil THEN Ret(Nil) ELSE CallThen(a.f, <<g[1].hd>>, "filter_map_test", [f |-> a.f, tl |-> g[1].tl])
at_lazy_filter_map_test(a, g) ==
  IF g[1] = << >> THEN Ask(a.tl, "filter_map", [f |-> a.f]) ELSE Emit(g[1][1], "filter_map", [f |-> a.f], <<a.tl>>)

\* lazy-flat-map: the rest of the outer sequence is a thunk that the rest of
\* the inner one carries; lazy-flatten is the same with the identity.
lazy_flat_map(a, g) ==
  IF g[1].nil THEN Ret(Nil) ELSE CallThen(a.f, <<g[1].hd>>, "flat_map_build", [f |-> a.f, tl |-> g[1].tl])
at_lazy_flat_map_build(a, g) ==
  LET inner == LazyOf(g[1])
      outer == Delay("flat_map", [f |-> a.f], <<a.tl>>)
      rest == Later(Len(lth) + 1) IN
  IF inner.nil THEN Do([m |-> "force", t |-> rest], << >>, <<outer>>)
  ELSE Do([m |-> "ret", v |-> Cell(inner.hd, Later(Len(lth) + 2))], << >>,
          <<outer, Delay("flat_map_resume", [rest |-> rest], <<inner.tl>>)>>)
at_lazy_flat_map_resume(a, g) ==
  IF g[1].nil THEN Do([m |-> "force", t |-> a.rest], << >>, << >>)
  ELSE Emit(g[1].hd, "flat_map_resume", a, <<g[1].tl>>)

lazy_map_indexed(a, g) ==
  IF g[1].nil THEN Ret(Nil)
  ELSE CallThen(a.f, <<g[1].hd, a.n>>, "map_indexed_build", [f |-> a.f, n |-> a.n, tl |-> g[1].tl])
at_lazy_map_indexed_build(a, g) == Emit(g[1], "map_indexed", [f |-> a.f, n |-> a.n + 1], <<a.tl>>)

\* lazy-scan delivers its initial value first.
lazy_scan(a, g) == IF g[1].nil THEN EmitMade(a.n, Nil) ELSE Emit(a.n, "scan_build", a, <<Made(g[1])>>)
at_lazy_scan_build(a, g) ==
  IF g[1].nil THEN Ret(Nil) ELSE CallThen(a.f, <<a.n, g[1].hd>>, "scan_next", [f |-> a.f, tl |-> g[1].tl])
lazy_scan_next(a, g) == Emit(g[1], "scan_build", [f |-> a.f, n |-> g[1]], <<a.tl>>)

\* lazy-dedupe: drop what equals the head, then dedupe again.
lazy_dedupe(g) == IF g[1].nil THEN Ret(Nil) ELSE Emit(g[1].hd, "dedupe_rest", [hd |-> g[1].hd], <<g[1].tl>>)
lazy_dedupe_rest(a, g) ==
  Do(OpOn("drop_while", [f |-> "same", than |-> <<a.hd>>], g), <<Wait("dedupe", << >>, << >>, << >>)>>, << >>)

\* lazy-intersperse must know whether there is another element.
lazy_intersperse(a, g) ==
  LET l == g[1] IN
  IF l.nil THEN Ret(Nil)
  ELSE IF ~Evaluated(l.tl) THEN Ask(l.tl, "intersperse_again", [a |-> a, l |-> l])
  ELSE IF Result(l.tl).nil THEN EmitMade(l.hd, Nil)
  ELSE Do([m |-> "ret", v |-> Cell(l.hd, Made(Cell(a.v, Later(Len(lth) + 1))))], << >>,
          <<Delay("intersperse", a, <<Made(Result(l.tl))>>)>>)
lazy_intersperse_again(a) == Do(OpOn("intersperse", a.a, <<a.l>>), << >>, << >>)

lazy_step_by(a, g) == IF g[1].nil THEN Ret(Nil) ELSE Emit(g[1].hd, "step_by_rest", a, <<g[1].tl>>)
lazy_step_by_rest(a, g) ==
  Do(OpOn("drop", [n |-> a.n - 1], g), <<Wait("step_by", a, << >>, << >>)>>, << >>)

\* lazy-zip forces both tails, in order; lazy-enumerate zips with lazy-from.
lazy_zip(g) ==
  IF g[1].nil \/ g[2].nil THEN Ret(Nil)
  ELSE Emit(Pack(<<g[1].hd, g[2].hd>>), "zip", << >>, <<g[1].tl, g[2].tl>>)
lazy_enumerate(g) ==
  IF g[1].nil THEN Ret(Nil)
  ELSE Do(OpOn("from", [n |-> 0, main |-> FALSE], << >>), <<Wait("enumerate_zip", [l |-> g[1]], << >>, << >>)>>, << >>)
lazy_enumerate_zip(a, g) == Do(OpOn("zip", << >>, <<g[1], a.l>>), << >>, << >>)
lazy_zip_with(a, g) ==
  IF g[1].nil \/ g[2].nil THEN Ret(Nil)
  ELSE CallThen(a.f, <<g[1].hd, g[2].hd>>, "zip_with_build", [f |-> a.f, t1 |-> g[1].tl, t2 |-> g[2].tl])
at_lazy_zip_with_build(a, g) == Emit(g[1], "zip_with", [f |-> a.f], <<a.t1, a.t2>>)

\* lazy-chain and lazy-interleave keep the second sequence as it is.
lazy_chain(a, g) ==
  IF g[1].nil THEN Ret(a.l2)
  ELSE IF a.l2.nil THEN Ret(g[1]) ELSE Emit(g[1].hd, "chain", a, <<g[1].tl>>)
lazy_interleave(a, g) == IF g[1].nil THEN Ret(a.l2) ELSE Emit(g[1].hd, "interleave_swap", a, <<g[1].tl>>)
lazy_interleave_swap(a, g) == Do(OpOn("interleave", [l2 |-> g[1]], <<a.l2>>), << >>, << >>)

\* lazy-chunked fills an array; a short one is the last.
ChunkNext(a, buf, tl) ==
  IF Len(buf) >= a.n THEN Emit(Pack(buf), "chunked", [n |-> a.n], <<tl>>)
  ELSE Ask(tl, "chunked_collect", [n |-> a.n, buf |-> buf])
lazy_chunked(a, g) == IF g[1].nil THEN Ret(Nil) ELSE ChunkNext(a, <<g[1].hd>>, g[1].tl)
at_lazy_chunked_collect(a, g) ==
  IF g[1].nil THEN EmitMade(Pack(a.buf), Nil) ELSE ChunkNext(a, Append(a.buf, g[1].hd), g[1].tl)

\* lazy-windowed: take, to-array, and the next window from the tail.
\* lazy-pairwise is the window of two.
lazy_windowed(a, g) ==
  IF g[1].nil THEN Ret(Nil)
  ELSE Do(OpOn("take", [n |-> a.n], g),
          <<Wait("window_build", [n |-> a.n, tl |-> g[1].tl], << >>, << >>), Wait("to_array", << >>, << >>, << >>)>>, << >>)
lazy_window_build(a, g) == Emit(Pack(g[1]), "windowed", [n |-> a.n], <<a.tl>>)

-----------------------------------------------------------------------------
(* Consumers *)

\* lazy_drive_forcing and lazy_drive_count: force the first tail that is not
\* evaluated and go on from its cell.
Drive(a, g) ==
  IF g[1].nil THEN Ret(IF a.count THEN <<Len(a.seen)>> ELSE a.seen)
  ELSE IF Evaluated(g[1].tl)
  THEN Do(OpOn("drive", [a EXCEPT !.seen = Append(a.seen, g[1].hd)], <<Result(g[1].tl)>>), << >>, << >>)
  ELSE Ask(g[1].tl, "drive_again", [a |-> a, l |-> g[1]])
DriveAgain(a) == Do(OpOn("drive", a.a, <<a.l>>), << >>, << >>)
lazy_to_array(g) == Drive([count |-> FALSE, seen |-> << >>], g)
lazy_count(g) == Drive([count |-> TRUE, seen |-> << >>], g)

\* lazy-fold; lazy-sum folds add; lazy-for-each folds without a result.
lazy_fold(a, g) ==
  IF g[1].nil THEN Ret(<<a.acc>>) ELSE CallThen("add", <<a.acc, g[1].hd>>, "fold_step", [tl |-> g[1].tl])
at_lazy_fold_step(a, g) == Ask(a.tl, "fold", [acc |-> g[1]])

\* lazy-any and lazy-all stop at the element that decides.
lazy_any(a, g) == IF g[1].nil THEN Ret(<<FALSE>>) ELSE CallThen(a.f, <<g[1].hd>>, "any_step", [f |-> a.f, tl |-> g[1].tl])
at_lazy_any_step(a, g) == IF g[1] THEN Ret(<<TRUE>>) ELSE Ask(a.tl, "any", [f |-> a.f])
lazy_all(a, g) == IF g[1].nil THEN Ret(<<TRUE>>) ELSE CallThen(a.f, <<g[1].hd>>, "all_step", [f |-> a.f, tl |-> g[1].tl])
at_lazy_all_step(a, g) == IF g[1] THEN Ask(a.tl, "all", [f |-> a.f]) ELSE Ret(<<FALSE>>)

\* lazy-find and lazy-find-index: range-check when there is none.
lazy_find(a, g) ==
  IF g[1].nil THEN LRaise
  ELSE CallThen(a.f, <<g[1].hd>>, "find_step", [f |-> a.f, n |-> a.n, index |-> a.index, hd |-> g[1].hd, tl |-> g[1].tl])
at_lazy_find_step(a, g) ==
  IF g[1] THEN Ret(<<IF a.index THEN a.n ELSE a.hd>>) ELSE Ask(a.tl, "find", [f |-> a.f, n |-> a.n + 1, index |-> a.index])

\* lazy-nth drops, then takes the head; lazy-head, lazy-tail are its steps.
lazy_nth(a, g) ==
  IF g[1].nil THEN LRaise
  ELSE IF a.n = 0 THEN Ret(<<g[1].hd>>) ELSE Do(OpOn("drop", a, g), <<Wait("nth_head", << >>, << >>, << >>)>>, << >>)
at_lazy_nth_head(g) == IF g[1].nil THEN LRaise ELSE Ret(<<g[1].hd>>)

-----------------------------------------------------------------------------
(* The machine *)

Apply(op, a, g) ==
  CASE op = "from" -> lazy_from(a) [] op = "repeat" -> lazy_repeat(a) [] op = "repeat_n" -> lazy_repeat_n(a)
    [] op = "range" -> lazy_range(a) [] op = "iterate" -> lazy_iterate(a)
    [] op = "iterate_build" -> at_lazy_iterate_build(a) [] op = "iterate_next" -> lazy_iterate_next(a, g)
    [] op = "unfold" -> lazy_unfold(a) [] op = "unfold_build" -> at_lazy_unfold_build(a, g)
    [] op = "seq" -> lazy_seq(a) [] op = "cycle" -> lazy_cycle(a)
    [] op = "map" -> lazy_map(a, g) [] op = "map_build" -> at_lazy_map_build(a, g)
    [] op = "filter" -> lazy_filter(a, g) [] op = "filter_test" -> at_lazy_filter_test(a, g)
    [] op = "take" -> lazy_take(a, g) [] op = "drop" -> lazy_drop(a, g)
    [] op = "take_while" -> lazy_take_while(a, g) [] op = "take_while_test" -> at_lazy_take_while_test(a, g)
    [] op = "drop_while" -> lazy_drop_while(a, g) [] op = "drop_while_test" -> at_lazy_drop_while_test(a, g)
    [] op = "filter_map" -> lazy_filter_map(a, g) [] op = "filter_map_test" -> at_lazy_filter_map_test(a, g)
    [] op = "flat_map" -> lazy_flat_map(a, g) [] op = "flat_map_build" -> at_lazy_flat_map_build(a, g)
    [] op = "flat_map_resume" -> at_lazy_flat_map_resume(a, g)
    [] op = "map_indexed" -> lazy_map_indexed(a, g) [] op = "map_indexed_build" -> at_lazy_map_indexed_build(a, g)
    [] op = "scan" -> lazy_scan(a, g) [] op = "scan_build" -> at_lazy_scan_build(a, g)
    [] op = "scan_next" -> lazy_scan_next(a, g)
    [] op = "dedupe" -> lazy_dedupe(g) [] op = "dedupe_rest" -> lazy_dedupe_rest(a, g)
    [] op = "intersperse" -> lazy_intersperse(a, g) [] op = "intersperse_again" -> lazy_intersperse_again(a)
    [] op = "step_by" -> lazy_step_by(a, g) [] op = "step_by_rest" -> lazy_step_by_rest(a, g)
    [] op = "zip" -> lazy_zip(g) [] op = "enumerate" -> lazy_enumerate(g)
    [] op = "enumerate_zip" -> lazy_enumerate_zip(a, g)
    [] op = "zip_with" -> lazy_zip_with(a, g) [] op = "zip_with_build" -> at_lazy_zip_with_build(a, g)
    [] op = "chain" -> lazy_chain(a, g) [] op = "interleave" -> lazy_interleave(a, g)
    [] op = "interleave_swap" -> lazy_interleave_swap(a, g)
    [] op = "chunked" -> lazy_chunked(a, g) [] op = "chunked_collect" -> at_lazy_chunked_collect(a, g)
    [] op = "windowed" -> lazy_windowed(a, g) [] op = "window_build" -> lazy_window_build(a, g)
    [] op = "to_array" -> lazy_to_array(g) [] op = "count" -> lazy_count(g)
    [] op = "drive" -> Drive(a, g) [] op = "drive_again" -> DriveAgain(a)
    [] op = "fold" -> lazy_fold(a, g) [] op = "fold_step" -> at_lazy_fold_step(a, g)
    [] op = "any" -> lazy_any(a, g) [] op = "any_step" -> at_lazy_any_step(a, g)
    [] op = "all" -> lazy_all(a, g) [] op = "all_step" -> at_lazy_all_step(a, g)
    [] op = "find" -> lazy_find(a, g) [] op = "find_step" -> at_lazy_find_step(a, g)
    [] op = "nth" -> lazy_nth(a, g) [] op = "nth_head" -> at_lazy_nth_head(g)

\* A stage of the program: its second sequence is the first one again or a
\* constant.
StageOn(st, l) ==
  LET other == IF st.other = "self" THEN l ELSE LazyOf(<<7, 8>>) IN
  CASE st.op \in {"zip", "zip_with"} -> OpOn(st.op, st.a, <<l, other>>)
    [] st.op \in {"chain", "interleave"} -> OpOn(st.op, [l2 |-> other], <<l>>)
    [] OTHER -> OpOn(st.op, st.a, <<l>>)

StartBuild(p) == OpOn(p.src.op, p.src.a, << >>)
StageFrames(p) == [i \in 1 .. Len(p.stages) |-> [k |-> "stage", st |-> p.stages[Len(p.stages) + 1 - i]]]

LazyInit ==
  /\ lprog \in LPrograms
  /\ lctl = StartBuild(lprog) /\ lstk = StageFrames(lprog)
  /\ lth = << >> /\ lat = "build" /\ lseq = Nil /\ lout = << >> /\ lprod = 0 /\ lcalls = << >> /\ lfail = 0

Sources == {"from", "repeat", "repeat_n", "range", "iterate", "iterate_next", "unfold_build", "cycle"}

ApplyOp ==
  /\ lctl.m = "op" /\ lprod < LMaxProd
  /\ LET r == Apply(lctl.op, lctl.a, lctl.g) IN
     /\ lctl' = r.c /\ lstk' = lstk \o r.push /\ lth' = lth \o r.new
     /\ lprod' = lprod + (IF /\ lctl.op \in Sources /\ lctl.a.main /\ r.c.m = "ret"
                          THEN IF r.c.v.nil THEN 0 ELSE 1
                          ELSE 0)
  /\ UNCHANGED <<lprog, lat, lseq, lout, lcalls, lfail>>

\* User code returns.
CallProc ==
  /\ lctl.m = "call"
  /\ lctl' = [m |-> "ret", v |-> LProc(lctl.f, lctl.x)]
  /\ lcalls' = IF lctl.f = "inc" /\ Last(lstk).op = "map_build" THEN Append(lcalls, lctl.x) ELSE lcalls
  /\ UNCHANGED <<lstk, lth, lprog, lat, lseq, lout, lprod, lfail>>

\* force.
force ==
  /\ lctl.m = "force"
  /\ LET t == lctl.t IN
     IF Evaluated(t) THEN lctl' = [m |-> "ret", v |-> Result(t)] /\ UNCHANGED <<lstk, lth>>
     ELSE IF lth[t.id].st = "evaluating" THEN lctl' = [m |-> "raise"] /\ UNCHANGED <<lstk, lth>>
     ELSE LET d == lth[t.id]
              f == [k |-> "force", t |-> t.id] IN
          /\ lth' = [lth EXCEPT ![t.id].st = "evaluating"]
          /\ IF d.srcs = << >> THEN lctl' = OpOn(d.op, d.a, << >>) /\ lstk' = Append(lstk, f)
             ELSE /\ lctl' = [m |-> "force", t |-> Head(d.srcs)]
                  /\ lstk' = lstk \o <<f, Wait(d.op, d.a, Tail(d.srcs), << >>)>>
  /\ UNCHANGED <<lprog, lat, lseq, lout, lprod, lcalls, lfail>>

\* Mutant: the result is not kept.
CompleteForgets(t, v) == [lth EXCEPT ![t].st = "unevaluated"]

\* @force-complete keeps the result.
at_force_complete(t, v) == [lth EXCEPT ![t].st = "evaluated", ![t].res = v]

\* A value returns to the frame below it.
ReturnTo ==
  /\ lctl.m = "ret" /\ lstk # << >>
  /\ LET f == Last(lstk)
         v == lctl.v IN
     CASE f.k = "force" -> lth' = at_force_complete(f.t, v) /\ lstk' = Front(lstk) /\ UNCHANGED lctl
       [] f.k = "stage" -> lctl' = StageOn(f.st, v) /\ lstk' = Front(lstk) /\ UNCHANGED lth
       [] f.k = "wait" /\ f.srcs = << >> ->
            lctl' = OpOn(f.op, f.a, Append(f.got, v)) /\ lstk' = Front(lstk) /\ UNCHANGED lth
       [] OTHER ->
            /\ lctl' = [m |-> "force", t |-> Head(f.srcs)] /\ UNCHANGED lth
            /\ lstk' = Append(Front(lstk), Wait(f.op, f.a, Tail(f.srcs), Append(f.got, v)))
  /\ UNCHANGED <<lprog, lat, lseq, lout, lprod, lcalls, lfail>>

StartUse(at, l) == LET u == lprog.uses[IF at = "first" THEN 1 ELSE 2] IN OpOn(u.op, u.a, <<l>>)

\* The program gets the sequence, or the result of a use of it.
Finish ==
  /\ lctl.m = "ret" /\ lstk = << >> /\ lat \in {"build", "first", "second"}
  /\ IF lat = "build" THEN lseq' = lctl.v /\ lat' = "first" /\ lctl' = StartUse("first", lctl.v) /\ UNCHANGED lout
     ELSE /\ lout' = Append(lout, <<lctl.v>>) /\ UNCHANGED lseq
          /\ IF lat = "first" THEN lat' = "second" /\ lctl' = StartUse("second", lseq) ELSE lat' = "done" /\ UNCHANGED lctl
  /\ UNCHANGED <<lstk, lth, lprog, lprod, lcalls, lfail>>

\* @force-fail, for every force that the error unwinds.
at_force_fail ==
  [i \in DOMAIN lth |-> IF \E j \in DOMAIN lstk : lstk[j].k = "force" /\ lstk[j].t = i
                        THEN [lth[i] EXCEPT !.st = "unevaluated"] ELSE lth[i]]

\* The program catches an error of its own procedure and tries again.
UserError ==
  /\ lctl.m = "call" /\ lfail < lprog.fails /\ lfail' = lfail + 1
  /\ lth' = at_force_fail
  /\ IF lat = "build" THEN lctl' = StartBuild(lprog) /\ lstk' = StageFrames(lprog) /\ lprod' = 0
     ELSE lctl' = StartUse(lat, lseq) /\ lstk' = << >> /\ UNCHANGED lprod
  /\ UNCHANGED <<lprog, lat, lseq, lout, lcalls>>

\* exit leaves a loop around the use (unwind_exec_to); the program tries again.
UserExit ==
  /\ LLeave /\ lctl.m = "call" /\ lfail < lprog.fails /\ lfail' = lfail + 1
  /\ lat # "build" /\ lctl' = StartUse(lat, lseq) /\ lstk' = << >>
  /\ UNCHANGED <<lth, lprog, lat, lseq, lout, lprod, lcalls>>

\* A use raises an error of its own.
LibraryError ==
  /\ lctl.m = "raise"
  /\ lth' = at_force_fail /\ lstk' = << >> /\ lout' = Append(lout, << >>)
  /\ IF lat = "first" THEN lat' = "second" /\ lctl' = StartUse("second", lseq) ELSE lat' = "done" /\ lctl' = [m |-> "ret", v |-> Nil]
  /\ UNCHANGED <<lprog, lseq, lprod, lcalls, lfail>>

LazyNext == ApplyOp \/ CallProc \/ force \/ ReturnTo \/ Finish \/ UserError \/ UserExit \/ LibraryError

LazySpec == LazyInit /\ [][LazyNext]_lazyVars

-----------------------------------------------------------------------------
(* What the operators mean for sequences that are all there *)

First(s, k) == SubSeq(s, 1, Min({k, Len(s)}))
Drops(s, n) == SubSeq(s, n + 1, Len(s))

\* The first elements of the source.
Prefix(src, n) ==
  LET a == src.a
      steps == IF (a.stop - a.n) * a.step > 0
               THEN ((a.stop - a.n) + (IF a.step > 0 THEN a.step - 1 ELSE a.step + 1)) \div a.step ELSE 0
      upto(k) == Min({k, n}) IN
  CASE src.op = "from" -> [i \in 1 .. n |-> a.n + i - 1]
    [] src.op = "iterate" -> [i \in 1 .. n |-> a.n + i - 1]
    [] src.op = "repeat" -> [i \in 1 .. n |-> a.v]
    [] src.op = "repeat_n" -> [i \in 1 .. upto(a.n) |-> a.v]
    [] src.op = "range" -> [i \in 1 .. upto(steps) |-> a.n + (i - 1) * a.step]
    [] src.op = "unfold" -> [i \in 1 .. upto(a.n) |-> a.n - i + 1]
    [] src.op = "seq" -> First(a.s, n)
    [] src.op = "cycle" -> IF a.s = << >> THEN << >> ELSE [i \in 1 .. n |-> a.s[((i - 1) % Len(a.s)) + 1]]

Flat(ss) == FoldLeft(LAMBDA x, y : x \o y, << >>, ss)
While(s, f) == Min({i \in 1 .. Len(s) : ~LProc(f, <<s[i]>>)} \cup {Len(s) + 1}) - 1
Sums(s, init) == [i \in 1 .. Len(s) + 1 |-> FoldLeft(LAMBDA x, y : x + y, init, SubSeq(s, 1, i - 1))]
ElementAt(s, i) == IF i <= Len(s) THEN <<s[i]>> ELSE << >>
Alternate(s, r) == Flat([i \in 1 .. Max({Len(s), Len(r)}) |-> ElementAt(s, i) \o ElementAt(r, i)])

Means(st, s) ==
  LET a == st.a
      r == IF st.other = "self" THEN s ELSE <<7, 8>>
      both == 1 .. Min({Len(s), Len(r)}) IN
  CASE st.op = "map" -> [i \in 1 .. Len(s) |-> LProc(a.f, <<s[i]>>)]
    [] st.op = "filter" -> SelectSeq(s, LAMBDA x : LProc(a.f, <<x>>))
    [] st.op = "take" -> First(s, a.n)
    [] st.op = "drop" -> Drops(s, a.n)
    [] st.op = "take_while" -> SubSeq(s, 1, While(s, a.f))
    [] st.op = "drop_while" -> Drops(s, While(s, a.f))
    [] st.op \in {"filter_map", "flat_map"} -> Flat([i \in 1 .. Len(s) |-> LProc(a.f, <<s[i]>>)])
    [] st.op = "map_indexed" -> [i \in 1 .. Len(s) |-> s[i] + i - 1]
    [] st.op = "scan" -> Sums(s, a.n)
    [] st.op = "dedupe" -> Flat([i \in 1 .. Len(s) |-> IF i > 1 /\ s[i] = s[i - 1] THEN << >> ELSE <<s[i]>>])
    [] st.op = "intersperse" -> Flat([i \in 1 .. Len(s) |-> IF i = 1 THEN <<s[i]>> ELSE <<a.v, s[i]>>])
    [] st.op = "step_by" -> [i \in 1 .. (Len(s) + a.n - 1) \div a.n |-> s[(i - 1) * a.n + 1]]
    [] st.op = "zip" -> [i \in both |-> Pack(<<s[i], r[i]>>)]
    [] st.op = "enumerate" -> [i \in 1 .. Len(s) |-> Pack(<<i - 1, s[i]>>)]
    [] st.op = "zip_with" -> [i \in both |-> s[i] + r[i]]
    [] st.op = "chain" -> s \o r
    [] st.op = "interleave" -> Alternate(s, r)
    [] st.op = "chunked" ->
         [i \in 1 .. (Len(s) + a.n - 1) \div a.n |-> Pack(SubSeq(s, (i - 1) * a.n + 1, Min({i * a.n, Len(s)})))]
    [] st.op = "windowed" -> [i \in 1 .. Len(s) |-> Pack(SubSeq(s, i, Min({i + a.n - 1, Len(s)})))]

\* More elements than the source may produce (a round of lazy-cycle counts one).
Enough == 3 * LMaxProd

Meaning(n) == FoldLeft(LAMBDA s, st : Means(st, s), Prefix(lprog.src, n), lprog.stages)

UseMeans(u, s) ==
  LET hits == {i \in 1 .. Len(s) : LProc(u.a.f, <<s[i]>>)} IN
  CASE u.op = "to_array" -> <<s>>
    [] u.op = "count" -> <<<<Len(s)>>>>
    [] u.op = "fold" -> <<<<FoldLeft(LAMBDA x, y : x + y, 0, s)>>>>
    [] u.op = "any" -> <<<<hits # {}>>>>
    [] u.op = "all" -> <<<<hits = 1 .. Len(s)>>>>
    [] u.op = "find" -> IF hits = {} THEN << >> ELSE <<<<IF u.a.index THEN Min(hits) - 1 ELSE s[Min(hits)]>>>>
    [] u.op = "nth" -> IF u.a.n >= Len(s) THEN << >> ELSE <<<<s[u.a.n + 1]>>>>

-----------------------------------------------------------------------------
\* However the stages are combined, and whatever user code raised on the way,
\* each use of the sequence yields what the eager operators would yield on
\* the first elements of the source.
LazyExact == lat = "done" => \A i \in DOMAIN lout : lout[i] = UseMeans(lprog.uses[i], Meaning(Enough))

\* lazy-map computes each element at most once, however often the sequence is
\* traversed and by however many later stages at the same time
\* (docs/lazy-sequences.md, Memoization Guarantee).
ComputedOnce == (lfail = 0 /\ lprog.distinct) => \A i, j \in DOMAIN lcalls : i # j => lcalls[i] # lcalls[j]

\* Elements that a stage holds ahead of what it has delivered.
Ahead(st) == IF st.op \in {"intersperse", "interleave"} THEN 1 ELSE 0

\* How many elements stage i must be given for its first k results.
After(i) == FoldLeft(LAMBDA s, st : Means(st, s), Prefix(lprog.src, Enough), SubSeq(lprog.stages, 1, i))
Wants(i, k) ==
  LET given == After(i - 1)
      out(n) == First(Means(lprog.stages[i], First(given, n)), k) IN
  Max({1, Min({n \in 0 .. Len(given) : out(n) = out(Len(given))}) + Ahead(lprog.stages[i])})

\* The source produces no element that the results taken do not need, apart
\* from the first one of every stage.
ReadsNoFurther ==
  (lprog.limited /\ lat = "done") =>
    LET n == Len(lprog.stages) - 1
        k == Max({1, Last(lprog.stages).a.n}) IN
    Len(After(n)) > k + n => lprod <= FoldRight(LAMBDA i, m : Wants(i, m), [i \in 1 .. n |-> i], k)

\* A finite source delivers its elements and then ends
\* (docs/trix-reference.md, lazy-range: "finite: [start, stop) with step").
SourceEnds == lprod <= Len(Prefix(lprog.src, Enough))

\* force says "circular thunk" only of a thunk whose evaluation is still under
\* way: not after an evaluation that failed and was given up.
CircularIsReal ==
  (lctl.m = "force" /\ lctl.t.id # 0) =>
    (lth[lctl.t.id].st = "evaluating" => \E j \in DOMAIN lstk : lstk[j].k = "force" /\ lstk[j].t = lctl.t.id)

\* A lazy sequence delivers what its definition means, computes each element
\* once, reads no further than asked, and calls only real cycles circular.
LazySound == LazyExact /\ ComputedOnce /\ ReadsNoFurther /\ CircularIsReal

=============================================================================
