------------------------------ MODULE Pipeline ------------------------------
(***************************************************************************)
(* A materialized pipeline (src/src/ops_pipeline.inl): source feeders,     *)
(* stage coroutines and the sink, joined by bounded pipes.  A pipe is used *)
(* here as module Pipes shows it to behave: a bounded queue with an end    *)
(* and an error signal, on which getting and putting wait.                 *)
(*                                                                         *)
(* An item is a sequence of numbers; an array of items is encoded by its   *)
(* length and its items one after the other, so that distinct items have   *)
(* distinct encodings.                                                     *)
(***************************************************************************)
EXTENDS Naturals, Sequences, SequencesExt

CONSTANTS Programs,    \* descriptors to run: see pipe_walk_chain
          Capacities,  \* capacities to run them with
          MaxPipeCoroutines

\* pipe-map ... pipe-window: a count must be positive.
StageKind(k) ==
  \/ k.type \in {"map", "filter", "flat-map", "tap", "scan", "distinct"}
  \/ k.type \in {"batch", "take", "drop", "window"} /\ k.n \in Nat \ {0}

\* A descriptor: one source, or several under pipe-merge or pipe-zip, and the
\* stages, the outermost first.
Descriptor(d) ==
  /\ d.root \in {"single", "merge", "zip"}
  /\ Len(d.sources) > 0 /\ (d.root = "single" => Len(d.sources) = 1)
  /\ d.lazy \in BOOLEAN
  /\ \A i \in DOMAIN d.chain : StageKind(d.chain[i])
  /\ Len(d.sources) + 1 + Len(d.chain) <= MaxPipeCoroutines

ASSUME ProgramAssumption ==
  /\ Capacities \subseteq Nat \ {0}
  /\ MaxPipeCoroutines \in Nat
  /\ \A d \in Programs : Descriptor(d)

VARIABLES prog,    \* the descriptor being run
          cap,     \* its capacity
          pipe,    \* the pipes
          stage,   \* the coroutines: feeders first, then the stages in order
          sink     \* the terminal operator

plVars == <<prog, cap, pipe, stage, sink>>

\* An array of items.
Arr(items) == <<100 + Len(items)>> \o FlattenSeq(items)

-----------------------------------------------------------------------------
(* The programs' procedures, chosen to tell items apart: they fail on Bad.  *)

Bad == <<9>>

MapProc(v)  == <<50>> \o v
Pred(v)     == v[Len(v)] # 2
Explode(v)  == IF Pred(v) THEN <<v, <<60>> \o v>> ELSE << >>
ScanProc(a, v) == a \o v

UserProc == {"map", "filter", "flat-map", "tap", "scan"}

-----------------------------------------------------------------------------
(* Materialization. *)

\* The chain of descriptors is read from the outermost stage to the root.
pipe_walk_chain(d) == Reverse(d.chain)

\* State of a stage before its first item, by kind: the array of a window is
\* filled cyclically, its write index counts from 0.
Start(k) ==
  CASE k.type = "window" -> [arr |-> [i \in 1..k.n |-> << >>], write |-> 0, filled |-> 0]
    [] k.type = "batch" -> << >>
    [] k.type \in {"take", "drop"} -> k.n
    [] k.type = "distinct" -> {}
    [] k.type = "scan" -> <<70>>
    [] OTHER -> 0

OpenPipe == [items |-> << >>, closed |-> FALSE, error |-> FALSE]

\* A coroutine: what it does, the pipes it reads, the pipe it writes, its
\* state, the items it still has to put, and what comes after they are put.
StageCoroutine(k, in, out, pending) ==
  [kind |-> k, in |-> in, out |-> out, state |-> Start(k), idx |-> 1, items |-> << >>,
   pending |-> pending, after |-> IF k.type = "source" THEN "close" ELSE "get",
   status |-> "live"]

\* Pipes 1..n come from the n feeders; a merge or zip coroutine writes pipe
\* n + 1; each stage reads the last pipe so far and writes the next.
pipe_materialize(d) ==
  LET n == Len(d.sources)
      feeders == [i \in 1..n |-> StageCoroutine([type |-> "source", lazy |-> d.lazy], << >>, i,
                                           d.sources[i])]
      joined == IF d.root = "single" THEN << >>
                ELSE <<StageCoroutine([type |-> d.root], [i \in 1..n |-> i], n + 1, << >>)>>
      m == n + Len(joined)
      ks == pipe_walk_chain(d)
  IN  feeders \o joined
        \o [j \in 1..Len(ks) |-> StageCoroutine(ks[j], <<m + j - 1>>, m + j, << >>)]

PipelineInit ==
  /\ prog \in Programs
  /\ cap \in Capacities
  /\ stage = pipe_materialize(prog)
  /\ pipe = [i \in 1..Len(stage) |-> OpenPipe]
  /\ sink = [items |-> << >>, status |-> "running"]

-----------------------------------------------------------------------------
(* What a stage does with an item: its new state, the items it puts, and    *)
(* whether it closes its output afterwards.                                 *)

Result(st, out, done) == [state |-> st, out |-> out, done |-> done]

\* @pipe-stage, batch: the array goes out when full.
at_pipe_stage_batch(n, st, v) ==
  IF Len(st) + 1 >= n THEN Result(<< >>, <<Arr(Append(st, v))>>, FALSE)
  ELSE Result(Append(st, v), << >>, FALSE)

\* @pipe-stage, take: the limit is tested after the put.
at_pipe_stage_take(st, v) == Result(st - 1, <<v>>, st - 1 = 0)

\* @pipe-stage, drop
at_pipe_stage_drop(st, v) ==
  IF st > 0 THEN Result(st - 1, << >>, FALSE) ELSE Result(st, <<v>>, FALSE)

\* @pipe-stage, distinct
at_pipe_stage_distinct(st, v) ==
  IF v \in st THEN Result(st, << >>, FALSE) ELSE Result(st \cup {v}, <<v>>, FALSE)

\* @pipe-stage, window: overwrite the oldest slot, then read from it onwards.
at_pipe_stage_window(n, st, v) ==
  LET w == (st.write + 1) % n
      f == IF st.filled < n THEN st.filled + 1 ELSE st.filled
      arr == [st.arr EXCEPT ![st.write + 1] = v]
  IN  Result([arr |-> arr, write |-> w, filled |-> f],
             IF f >= n THEN <<Arr([i \in 1..n |-> arr[((w + i - 1) % n) + 1]])>> ELSE << >>,
             FALSE)

OnItem(k, st, v) ==
  CASE k.type = "map" -> Result(st, <<MapProc(v)>>, FALSE)
    [] k.type = "filter" -> Result(st, IF Pred(v) THEN <<v>> ELSE << >>, FALSE)
    [] k.type = "flat-map" -> Result(st, Explode(v), FALSE)
    [] k.type = "tap" -> Result(st, <<v>>, FALSE)
    [] k.type = "scan" -> Result(ScanProc(st, v), <<ScanProc(st, v)>>, FALSE)
    [] k.type = "batch" -> at_pipe_stage_batch(k.n, st, v)
    [] k.type = "take" -> at_pipe_stage_take(st, v)
    [] k.type = "drop" -> at_pipe_stage_drop(st, v)
    [] k.type = "distinct" -> at_pipe_stage_distinct(st, v)
    [] k.type = "window" -> at_pipe_stage_window(k.n, st, v)

\* What is still put at the end of the input: only a batch has something left.
OnEnd(k, st) == IF k.type = "batch" /\ st # << >> THEN <<Arr(st)>> ELSE << >>

-----------------------------------------------------------------------------
(* Steps of coroutine s. *)

Live(s) == stage[s].status = "live"
Getting(s) == Live(s) /\ stage[s].pending = << >> /\ stage[s].after = "get"

\* The pipe s reads from next.
Input(s) == stage[s].in[stage[s].idx]

\* Mutant: an error is recorded, but the pipe stays open.
CloseOutForgets(s, p, err) == [p EXCEPT ![stage[s].out].closed = ~err, ![stage[s].out].error = err]

CloseOut(s, p, err) == [p EXCEPT ![stage[s].out].closed = TRUE, ![stage[s].out].error = err]

\* An error inside the stage: @try-barrier and @pipe-cleanup, then the
\* coroutine completes.
Fail(s, p) ==
  /\ stage' = [stage EXCEPT ![s].status = "dead"]
  /\ pipe' = CloseOut(s, p, TRUE)

Taken(i) == [pipe EXCEPT ![i].items = Tail(@)]

\* One put of a pending item, when the output has room.
Put(s) ==
  LET o == stage[s].out
  IN  /\ Live(s)
      /\ stage[s].pending # << >>
      /\ ~(stage[s].kind.type = "source" /\ stage[s].kind.lazy /\ Head(stage[s].pending) = Bad)
      /\ Len(pipe[o].items) < cap
      /\ pipe' = [pipe EXCEPT ![o].items = Append(@, Head(stage[s].pending))]
      /\ stage' = [stage EXCEPT ![s].pending = Tail(@)]
      /\ UNCHANGED <<prog, cap, sink>>

\* All items are put: close the output and complete.
Close(s) ==
  /\ Live(s)
  /\ stage[s].pending = << >> /\ stage[s].after = "close"
  /\ stage' = [stage EXCEPT ![s].status = "dead"]
  /\ pipe' = CloseOut(s, pipe, FALSE)
  /\ UNCHANGED <<prog, cap, sink>>

\* An ordinary stage takes an item, or learns that there are no more.
StageGet(s) ==
  LET k == stage[s].kind
      i == Input(s)
  IN  /\ k.type \notin {"source", "merge", "zip"}
      /\ Getting(s)
      /\ \/ /\ pipe[i].items # << >>
            /\ LET v == Head(pipe[i].items)
                   r == OnItem(k, stage[s].state, v)
               IN  IF k.type \in UserProc /\ v = Bad
                     THEN Fail(s, Taken(i))
                     ELSE /\ pipe' = Taken(i)
                          /\ stage' = [stage EXCEPT ![s].state = r.state,
                                                    ![s].pending = r.out,
                                                    ![s].after = IF r.done THEN "close"
                                                                 ELSE "get"]
         \/ /\ pipe[i].items = << >> /\ pipe[i].closed
            /\ IF pipe[i].error
                 THEN Fail(s, pipe)
                 ELSE /\ stage' = [stage EXCEPT ![s].pending = OnEnd(k, stage[s].state),
                                                ![s].after = "close"]
                      /\ UNCHANGED pipe
      /\ UNCHANGED <<prog, cap, sink>>

Drained(i) == pipe[i].closed /\ pipe[i].items = << >>

Following(s, i) == (i % Len(stage[s].in)) + 1

\* The first source from idx on, round robin, that is not drained; 0 if all are.
NextSource(s) ==
  LET n == Len(stage[s].in)
      At(j) == ((stage[s].idx - 1 + j) % n) + 1
      open == {j \in 0..n - 1 : ~Drained(stage[s].in[At(j)])}
  IN  IF open = {} THEN 0 ELSE At(CHOOSE j \in open : \A h \in open : j <= h)

\* @pipe-stage, merge.  In phase "get" the sources are scanned and one is
\* committed to; the get on that one then waits, takes, ends or fails.  The
\* scan skips every source that is closed and empty.
MergeScan(s) ==
  /\ stage[s].kind.type = "merge"
  /\ Getting(s)
  /\ stage' = IF NextSource(s) = 0
                THEN [stage EXCEPT ![s].after = "close"]
                ELSE [stage EXCEPT ![s].after = "committed", ![s].idx = NextSource(s)]
  /\ UNCHANGED <<prog, cap, pipe, sink>>

MergeGet(s) ==
  LET i == Input(s)
  IN  /\ stage[s].kind.type = "merge"
      /\ Live(s) /\ stage[s].after = "committed"
      /\ \/ /\ pipe[i].items # << >>
            /\ pipe' = Taken(i)
            /\ stage' = [stage EXCEPT ![s].pending = <<Head(pipe[i].items)>>,
                                      ![s].idx = Following(s, @), ![s].after = "get"]
         \/ /\ Drained(i)
            /\ IF pipe[i].error
                 THEN Fail(s, pipe)
                 ELSE /\ stage' = [stage EXCEPT ![s].idx = Following(s, @), ![s].after = "get"]
                      /\ UNCHANGED pipe
      /\ UNCHANGED <<prog, cap, sink>>

\* @pipe-stage, zip: one item of each source, in order; the end of any ends all.
ZipGet(s) ==
  LET i == Input(s)
      z == stage[s]
  IN  /\ z.kind.type = "zip"
      /\ Getting(s)
      /\ \/ /\ pipe[i].items # << >>
            /\ pipe' = Taken(i)
            /\ LET got == Append(z.items, Head(pipe[i].items))
               IN  stage' = IF Len(got) < Len(z.in)
                              THEN [stage EXCEPT ![s].items = got, ![s].idx = @ + 1]
                              ELSE [stage EXCEPT ![s].items = << >>, ![s].idx = 1,
                                                 ![s].pending = <<Arr(got)>>]
         \/ /\ Drained(i)
            /\ IF pipe[i].error
                 THEN Fail(s, pipe)
                 ELSE /\ stage' = [stage EXCEPT ![s].after = "close"]
                      /\ UNCHANGED pipe
      /\ UNCHANGED <<prog, cap, sink>>

\* Forcing the next item of a lazy source fails.
ForceFails(s) ==
  /\ stage[s].kind.type = "source"
  /\ Live(s)
  /\ stage[s].kind.lazy /\ stage[s].pending # << >> /\ Head(stage[s].pending) = Bad
  /\ Fail(s, pipe)
  /\ UNCHANGED <<prog, cap, sink>>

StageStep(s) ==
  \/ ForceFails(s) \/ Put(s) \/ Close(s) \/ StageGet(s) \/ MergeScan(s) \/ MergeGet(s) \/ ZipGet(s)

-----------------------------------------------------------------------------
(* The terminal operator, in the caller's coroutine. *)

SinkBuf == Len(pipe)

\* Mutant: stages are killed only after an error.
CleanupOnError(res) ==
  /\ sink' = [sink EXCEPT !.status = res]
  /\ stage' = IF res = "ended" THEN stage
              ELSE [s \in DOMAIN stage |-> [stage[s] EXCEPT !.status = "dead"]]

\* pipe_build_cleanup_wrapper: whatever the outcome, every coroutine is killed.
Cleanup(res) ==
  /\ sink' = [sink EXCEPT !.status = res]
  /\ stage' = [s \in DOMAIN stage |-> [stage[s] EXCEPT !.status = "dead"]]

\* pipe-run, pipe-collect and pipe-reduce get, and do something with the item.
SinkGet ==
  /\ sink.status = "running"
  /\ pipe[SinkBuf].items # << >>
  /\ pipe' = Taken(SinkBuf)
  /\ sink' = [sink EXCEPT !.items = Append(@, Head(pipe[SinkBuf].items))]
  /\ UNCHANGED <<prog, cap, stage>>

\* The end, or the error that travelled down; the wrapper kills and rethrows.
SinkEnd ==
  /\ sink.status = "running"
  /\ Drained(SinkBuf)
  /\ Cleanup(IF pipe[SinkBuf].error THEN "failed" ELSE "ended")
  /\ UNCHANGED <<prog, cap, pipe>>

\* The sink's own procedure fails.
SinkFail ==
  /\ sink.status = "running"
  /\ pipe[SinkBuf].items # << >> /\ Head(pipe[SinkBuf].items) = Bad
  /\ pipe' = Taken(SinkBuf)
  /\ Cleanup("failed")
  /\ UNCHANGED <<prog, cap>>

PipelineNext ==
  \/ \E s \in DOMAIN stage : StageStep(s)
  \/ SinkGet \/ SinkEnd \/ SinkFail

\* The scheduler runs ready coroutines round robin, and a coroutine that waits
\* on a pipe is woken (module Pipes), so each one that can go on does.
PipelineFairness ==
  /\ \A s \in 1..MaxPipeCoroutines : WF_plVars(s \in DOMAIN stage /\ StageStep(s))
  /\ WF_plVars(SinkGet \/ SinkEnd \/ SinkFail)

PipelineSpec == PipelineInit /\ [][PipelineNext]_plVars /\ PipelineFairness

-----------------------------------------------------------------------------
(* What a pipeline computes, stage by stage on whole sequences: the items   *)
(* and whether an error follows them.                                       *)

Stream(xs, e) == [items |-> xs, error |-> e]

UpTo(n, xs) == SubSeq(xs, 1, n)

\* The items in front of the first bad one.
Good(x) ==
  LET bad == {i \in DOMAIN x.items : x.items[i] = Bad}
  IN  IF bad = {} THEN x
      ELSE Stream(UpTo((CHOOSE i \in bad : \A j \in bad : i <= j) - 1, x.items), TRUE)

RefBatch(n, x) ==
  LET whole == Len(x.items) \div n
      rest == SubSeq(x.items, whole * n + 1, Len(x.items))
  IN  [i \in 1..whole |-> Arr(SubSeq(x.items, (i - 1) * n + 1, i * n))]
        \o (IF rest = << >> \/ x.error THEN << >> ELSE <<Arr(rest)>>)

RefDistinct(xs) ==
  LET first == {i \in DOMAIN xs : \A j \in 1..i - 1 : xs[j] # xs[i]}
  IN  [i \in DOMAIN SetToSortSeq(first, <) |-> xs[SetToSortSeq(first, <)[i]]]

RefStage(k, y) ==
  LET x == IF k.type \in UserProc THEN Good(y) ELSE y
      xs == x.items
      n == Len(xs)
  IN  CASE k.type = "map" -> Stream([i \in 1..n |-> MapProc(xs[i])], x.error)
        [] k.type = "filter" -> Stream(SelectSeq(xs, Pred), x.error)
        [] k.type = "flat-map" -> Stream(FlattenSeq([i \in 1..n |-> Explode(xs[i])]), x.error)
        [] k.type = "tap" -> x
        [] k.type = "scan" ->
             Stream([i \in 1..n |-> <<70>> \o FlattenSeq(UpTo(i, xs))], x.error)
        [] k.type = "batch" -> Stream(RefBatch(k.n, x), x.error)
        [] k.type = "take" -> IF n >= k.n THEN Stream(UpTo(k.n, xs), FALSE) ELSE x
        [] k.type = "drop" -> Stream(SubSeq(xs, k.n + 1, n), x.error)
        [] k.type = "distinct" -> Stream(RefDistinct(xs), x.error)
        [] k.type = "window" ->
             Stream([i \in 1..(IF n < k.n THEN 0 ELSE n - k.n + 1) |->
                       Arr(SubSeq(xs, i, i + k.n - 1))], x.error)

\* Turns of a round robin over the sources: <<round, source>> in order.
Turns(xss) ==
  LET longest == CHOOSE m \in {Len(xss[i].items) : i \in DOMAIN xss} :
                   \A i \in DOMAIN xss : Len(xss[i].items) <= m
      k == Len(xss)
  IN  [t \in 1..((longest + 1) * k) |-> <<((t - 1) \div k) + 1, ((t - 1) % k) + 1>>]

\* Merging stops at the first turn of a source that ended with an error.
RefMerge(xss) ==
  LET ts == Turns(xss)
      Failing(t) == xss[ts[t][2]].error /\ ts[t][1] > Len(xss[ts[t][2]].items)
      fail == {t \in DOMAIN ts : Failing(t)}
      upto == IF fail = {} THEN Len(ts)
              ELSE (CHOOSE t \in fail : \A u \in fail : t <= u) - 1
      HasItem(t) == t[1] <= Len(xss[t[2]].items)
      taken == SelectSeq(UpTo(upto, ts), HasItem)
  IN  Stream([i \in DOMAIN taken |-> xss[taken[i][2]].items[taken[i][1]]], fail # {})

RefZip(xss) ==
  LET k == Len(xss)
      shortest == CHOOSE m \in {Len(xss[i].items) : i \in 1..k} :
                    \A i \in 1..k : m <= Len(xss[i].items)
      stop == CHOOSE i \in 1..k : /\ Len(xss[i].items) = shortest
                                  /\ \A j \in 1..i - 1 : Len(xss[j].items) > shortest
  IN  Stream([r \in 1..shortest |-> Arr([i \in 1..k |-> xss[i].items[r]])], xss[stop].error)

RefRoot(d) ==
  LET xss == [i \in DOMAIN d.sources |->
                IF d.lazy THEN Good(Stream(d.sources[i], FALSE))
                ELSE Stream(d.sources[i], FALSE)]
  IN  CASE d.root = "single" -> xss[1]
        [] d.root = "merge" -> RefMerge(xss)
        [] d.root = "zip" -> RefZip(xss)

Reference(d) == FoldRight(RefStage, d.chain, RefRoot(d))

-----------------------------------------------------------------------------
(* Properties. *)

PipelineTypeOK ==
  /\ \A i \in DOMAIN pipe : Len(pipe[i].items) <= cap
  /\ \A s \in DOMAIN stage : /\ stage[s].status \in {"live", "dead"}
                             /\ stage[s].after \in {"get", "committed", "close"}
                             /\ stage[s].idx <= Len(stage[s].in) + 1
  /\ sink.status \in {"running", "ended", "failed"}

\* However the coroutines interleave, the sink receives the items the stages
\* compute one after the other on whole sequences: a prefix of them while it
\* runs, all of them when it is told the end, and it is told the error exactly
\* when one follows the items (or its own procedure failed).
SinkReceives ==
  LET r == Reference(prog)
  IN  /\ IsPrefix(sink.items, r.items)
      /\ sink.status = "ended" => sink.items = r.items /\ ~r.error
      /\ sink.status = "failed" => \/ sink.items = r.items /\ r.error
                                   \/ /\ Len(sink.items) < Len(r.items)
                                      /\ r.items[Len(sink.items) + 1] = Bad

\* Once the terminal operator returns, no coroutine of the pipeline lives on:
\* not even one that was waiting for room downstream of an early take.
NothingLeftRunning ==
  sink.status # "running" => \A s \in DOMAIN stage : stage[s].status = "dead"

\* An error in any source of a merge reaches the caller (docs/pipeline.md 6.2).
ErrorReachesSink == sink.status = "ended" => ~Reference(prog).error

\* The sink gets what the chain of stages means, and no stage outlives the
\* pipeline.
PipelineSound == PipelineTypeOK /\ SinkReceives /\ NothingLeftRunning

=============================================================================
