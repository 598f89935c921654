------------------------------ MODULE Reactive ------------------------------
(***************************************************************************)
(* Reactive cells (src/src/ops_reactive.inl): base cells that programs     *)
(* set, computed cells that cache a proc's result, dependencies recorded   *)
(* by the reads of a running proc, eager invalidation, lazy recomputation, *)
(* watchers, batches that defer them, and disposal.                        *)
(*                                                                         *)
(*   val, dirty, gone   m_value, m_dirty, m_base = CellDisposed            *)
(*   deps, rdeps        m_deps and m_rdeps as sets                         *)
(*   current            m_current_cell, one for the whole interpreter      *)
(*   frames             per coroutine, its evaluations, innermost last:    *)
(*                      [cell, prev, dep, at, acc], the number of reads    *)
(*                      done and what they have added up to                *)
(*   depth, deferred    m_batch_depth, the watcher buffer [cell, old]      *)
(*   told               per watched base cell, the last value its watcher  *)
(*                      got, or that a failure or a restore kept from it   *)
(*   inSave, old        is a save in force; cell -> its journaled m_value  *)
(***************************************************************************)
EXTENDS Integers, Sequences, SequencesExt, FiniteSetsExt

CONSTANTS
  Bases, Comps,    \* base cells, computed cells
  Reads,           \* Reads[c]: the cells the proc of c reads, in order
  Watched,         \* cells that have a watcher
  BaseValues,
  Runners,         \* coroutines
  MaxInvalidate,   \* MaxInvalidateDepth
  MaxCollect,      \* MaxWatcherCollect
  MaxBatch,        \* bound: nesting of batches
  SwitchInProc,    \* may another coroutine run while a proc does?
  ComputeInSave    \* may a save in force see a recomputation?

NoCell == "no cell"
CellSet == Bases \cup Comps

ASSUME ReactiveAssumption ==
  /\ \A c \in Comps : Len(Reads[c]) > 0 /\ Range(Reads[c]) \subseteq CellSet
  /\ NoCell \notin CellSet /\ Watched \subseteq CellSet /\ BaseValues \subseteq Nat

VARIABLES val, dirty, gone, deps, rdeps, current, frames, depth, deferred, told, inSave, old

reactVars == <<val, dirty, gone, deps, rdeps, current, frames, depth, deferred, told, inSave, old>>
graphVars == <<deps, rdeps, current, frames>>
watchVars == <<depth, deferred, told>>
saveVars == <<inSave, old>>

Never == -1      \* the null of a cell never computed

ReactiveInit ==
  /\ val = [c \in CellSet |-> IF c \in Bases THEN 0 ELSE Never]
  /\ dirty = Comps /\ gone = {}
  /\ deps = [c \in CellSet |-> {}] /\ rdeps = [c \in CellSet |-> {}]
  /\ current = NoCell /\ frames = [p \in Runners |-> << >>]
  /\ depth = 0 /\ deferred = << >> /\ told = [c \in Watched \cap Bases |-> val[c]]
  /\ inSave = FALSE /\ old = << >>

\* The coroutine that may run: any, or only the one inside a proc.
Runs(p) == SwitchInProc \/ \A q \in Runners : frames[q] # << >> => q = p

-----------------------------------------------------------------------------
(* The dependency graph *)

RecordedDeps(d, reader, c) == IF reader = NoCell THEN d ELSE [d EXCEPT ![reader] = @ \cup {c}]
RecordedRdeps(r, reader, c) == IF reader = NoCell THEN r ELSE [r EXCEPT ![c] = @ \cup {reader}]

\* cell_clear_deps: c leaves the reverse lists of what it read.
RdepsCleared(r, c) == [x \in CellSet |-> IF x \in deps[c] THEN r[x] \ {c} ELSE r[x]]

\* Cells within n reverse edges of c, not going through a cell in stop.
Within(c, n, stop) ==
  FoldLeft(LAMBDA S, i : S \cup ((UNION {rdeps[x] : x \in S \ (stop \ {c})}) \ stop),
           {c}, [i \in 1..n |-> i])

\* cell_collect_watcher_cells goes deeper than it may: some path is too long.
TooDeep(c) == \E x \in CellSet :
                x \in FoldLeft(LAMBDA S, i : UNION {rdeps[y] : y \in S}, {c}, [i \in 1..(MaxInvalidate + 1) |-> i])

\* Mutant: only the direct dependents are marked.
InvalidatedOnce(c) == rdeps[c]

\* cell_invalidate: what becomes dirty; a dirty cell is not passed.
cell_invalidate(c) == Within(c, Cardinality(Comps), dirty) \ {c}

-----------------------------------------------------------------------------
(* Reading *)

Evaluate(p, c, flag) ==
  /\ ComputeInSave \/ ~inSave
  /\ frames' = [frames EXCEPT ![p] = Append(@, [cell |-> c, prev |-> current, dep |-> flag, at |-> 0, acc |-> 0])]
  /\ current' = c
  /\ rdeps' = RdepsCleared(IF flag THEN RecordedRdeps(rdeps, current, c) ELSE rdeps, c)
  /\ deps' = [(IF flag THEN RecordedDeps(deps, current, c) ELSE deps) EXCEPT ![c] = {}]
  /\ UNCHANGED <<val, dirty, gone>>

\* cell-get or cell-value of a dirty computed cell by the program itself.
ReadDirty(p, c, flag) ==
  /\ Runs(p) /\ frames[p] = << >> /\ c \in (dirty \cap Comps) \ gone
  /\ Evaluate(p, c, flag)
  /\ UNCHANGED <<watchVars, saveVars>>

\* The program reads a clean cell with cell-get while another coroutine's
\* proc is running: the read is recorded for that proc's cell.
ReadClean(p, c) ==
  /\ Runs(p) /\ frames[p] = << >> /\ current # NoCell /\ c \notin (dirty \cap Comps) \cup gone
  /\ deps' = RecordedDeps(deps, current, c) /\ rdeps' = RecordedRdeps(rdeps, current, c)
  /\ UNCHANGED <<val, dirty, gone, current, frames, watchVars, saveVars>>

Frame(p) == Last(frames[p])
Next1(p) == Reads[Frame(p).cell][Frame(p).at + 1]
Added(f, v) == [f EXCEPT !.at = @ + 1, !.acc = 3 * @ + v + 1]

\* The running proc does its next cell-get.
ProcReads(p) ==
  /\ Runs(p) /\ frames[p] # << >> /\ Frame(p).at < Len(Reads[Frame(p).cell])
  /\ Next1(p) \notin gone
  /\ LET c == Next1(p)
     IN  IF c \in dirty \cap Comps THEN Evaluate(p, c, TRUE)
         ELSE /\ frames' = [frames EXCEPT ![p] = Append(Front(@), Added(Frame(p), val[c]))]
              /\ deps' = RecordedDeps(deps, current, c) /\ rdeps' = RecordedRdeps(rdeps, current, c)
              /\ UNCHANGED <<val, dirty, gone, current>>
  /\ UNCHANGED <<watchVars, saveVars>>

\* The error unwinds every evaluation of p; each restores m_current_cell.
Unwound(p) == frames[p][1].prev

JournalOld(c) ==
  IF inSave /\ c \notin DOMAIN old
  THEN [x \in DOMAIN old \cup {c} |-> IF x = c THEN val[c] ELSE old[x]] ELSE old

\* @cell-eval: cache the result, clean, and hand it to the proc outside.
at_cell_eval(p) ==
  /\ Runs(p) /\ frames[p] # << >> /\ Frame(p).at = Len(Reads[Frame(p).cell])
  /\ LET f == Frame(p)
         outer == Front(frames[p])
     IN  /\ val' = [val EXCEPT ![f.cell] = f.acc] /\ dirty' = dirty \ {f.cell}
         /\ old' = JournalOld(f.cell)
         /\ current' = f.prev
         /\ rdeps' = IF f.dep THEN RecordedRdeps(rdeps, f.prev, f.cell) ELSE rdeps
         /\ frames' = [frames EXCEPT ![p] = IF outer = << >> THEN outer
                                            ELSE Append(Front(outer), Added(Last(outer), f.acc))]
         /\ UNCHANGED <<gone, deps, watchVars, inSave>>

\* The proc raises, if only because the next cell it reads is disposed.
at_cell_eval_fail(p) ==
  /\ Runs(p) /\ frames[p] # << >>
  /\ current' = Unwound(p) /\ frames' = [frames EXCEPT ![p] = << >>]
  /\ UNCHANGED <<val, dirty, gone, deps, rdeps, watchVars, saveVars>>

-----------------------------------------------------------------------------
(* Writing, watching, disposing *)

\* The cells whose watchers a set of c concerns: its own and those below it.
Concerned(c) == {x \in Watched \cap Within(c, Cardinality(CellSet), {}) : x \notin gone}

\* cell_defer_watcher: the first old value of a cell is kept; a full buffer
\* takes no more.
Deferred(d, c) ==
  LET fresh == SetToSeq({[cell |-> x, old |-> val[x]] : x \in Concerned(c) \ {d[i].cell : i \in DOMAIN d}})
      room == MaxCollect - Len(d)
  IN  d \o SubSeq(fresh, 1, Min({room, Len(fresh)}))

\* cell-set by a program (a validator that rejects leaves all as it is).  Of
\* a graph that is too deep the value is written and nothing else is done.
cell_set(p, c, v) ==
  /\ Runs(p) /\ frames[p] = << >> /\ c \in Bases \ gone /\ v # val[c]
  /\ val' = [val EXCEPT ![c] = v] /\ old' = JournalOld(c)
  /\ IF TooDeep(c) THEN UNCHANGED <<dirty, deferred, told>>
     ELSE /\ dirty' = dirty \cup cell_invalidate(c)
          /\ IF depth = 0
             THEN /\ told' = [x \in DOMAIN told |-> IF x \in Concerned(c) THEN val'[x] ELSE told[x]]
                  /\ UNCHANGED deferred
             ELSE deferred' = Deferred(deferred, c) /\ UNCHANGED told
  /\ UNCHANGED <<gone, graphVars, depth, inSave>>

batch(p) ==
  /\ Runs(p) /\ frames[p] = << >> /\ depth < MaxBatch
  /\ depth' = depth + 1 /\ deferred' = IF depth = 0 THEN << >> ELSE deferred
  /\ UNCHANGED <<val, dirty, gone, graphVars, told, saveVars>>

Pending == {deferred[i].cell : i \in DOMAIN deferred}

\* @batch-end and @batch-fire: the outermost batch has its dirty deferred
\* cells recomputed (here: read by the program first), then tells the
\* watchers of every cell whose value has changed.
at_batch_end(p) ==
  /\ Runs(p) /\ frames[p] = << >> /\ depth > 0
  /\ depth = 1 => (Pending \cap dirty \cap Comps) \ gone = {}
  /\ depth' = depth - 1
  /\ IF depth > 1 THEN UNCHANGED <<deferred, told>>
     ELSE /\ deferred' = << >>
          /\ told' = [x \in DOMAIN told |->
                        IF \E i \in DOMAIN deferred : deferred[i].cell = x /\ deferred[i].old # val[x]
                        THEN val[x] ELSE told[x]]
  /\ UNCHANGED <<val, dirty, gone, graphVars, saveVars>>

\* @batch-fail and @batch-fire-fail: the watchers are not told.
at_batch_fail(p) ==
  /\ Runs(p) /\ frames[p] = << >> /\ depth > 0
  /\ depth' = depth - 1
  /\ deferred' = IF depth = 1 THEN << >> ELSE deferred
  /\ told' = IF depth = 1 THEN [x \in DOMAIN told |-> IF x \in Pending THEN val[x] ELSE told[x]] ELSE told
  /\ UNCHANGED <<val, dirty, gone, graphVars, saveVars>>

cell_dispose(p, c) ==
  /\ Runs(p) /\ frames[p] = << >> /\ c \notin gone
  /\ gone' = gone \cup {c}
  /\ rdeps' = [x \in CellSet |-> IF x = c THEN {} ELSE IF x \in deps[c] THEN rdeps[x] \ {c} ELSE rdeps[x]]
  /\ deps' = [x \in CellSet |-> IF x = c THEN {} ELSE IF x \in rdeps[c] THEN deps[x] \ {c} ELSE deps[x]]
  /\ val' = [val EXCEPT ![c] = Never]
  /\ UNCHANGED <<dirty, current, frames, watchVars, saveVars>>

SaveCells ==
  /\ ~inSave /\ \A p \in Runners : frames[p] = << >>
  /\ inSave' = TRUE /\ UNCHANGED <<val, dirty, gone, graphVars, watchVars, old>>

\* Only the values come back: no dirty flag, no edge, no watcher is told.
RestoreCellValues ==
  /\ inSave /\ depth = 0 /\ \A p \in Runners : frames[p] = << >>
  /\ inSave' = FALSE /\ old' = << >>
  /\ val' = [c \in CellSet |-> IF c \in DOMAIN old \ gone THEN old[c] ELSE val[c]]
  /\ told' = [x \in DOMAIN told |-> IF x \in DOMAIN old THEN val'[x] ELSE told[x]]
  /\ UNCHANGED <<dirty, gone, graphVars, depth, deferred>>

ReactiveNext ==
  \/ \E p \in Runners :
       \/ \E c \in CellSet : ReadClean(p, c) \/ cell_dispose(p, c)
       \/ \E c \in CellSet, flag \in BOOLEAN : ReadDirty(p, c, flag)
       \/ \E c \in Bases, v \in BaseValues : cell_set(p, c, v)
       \/ ProcReads(p) \/ at_cell_eval(p) \/ at_cell_eval_fail(p)
       \/ batch(p) \/ at_batch_end(p) \/ at_batch_fail(p)
  \/ SaveCells \/ RestoreCellValues

ReactiveSpec == ReactiveInit /\ [][ReactiveNext]_reactVars

-----------------------------------------------------------------------------
(* Properties *)

\* What the proc of c would compute now from clean cells.
WouldBe(c) == FoldLeft(LAMBDA acc, x : 3 * acc + val[x] + 1, 0, Reads[c])

\* "The result is cached until a dependency changes": a clean computed cell
\* holds what its proc would return now, whatever was set, failed, batched or
\* restored in between.
CleanIsCurrent ==
  \A c \in Comps \ (dirty \cup gone) :
    Range(Reads[c]) \cap gone = {} =>
      /\ Range(Reads[c]) \cap dirty \cap Comps = {}
      /\ val[c] = WouldBe(c)

\* The two lists are each other's mirror, so no invalidation is lost.
DepsMirrored == \A c, d \in CellSet : d \in deps[c] <=> c \in rdeps[d]

\* When no proc is running, no reader is recorded for what is read.
CurrentRestored == (\A p \in Runners : frames[p] = << >>) => current = NoCell

\* Outside batches the watcher of a base cell has been told its value.
WatchersTold == depth = 0 => \A c \in (Watched \cap Bases) \ gone : told[c] = val[c]

\* A clean cell is current, the edges along which changes travel are there in
\* both directions, no reader stays recorded, and watchers are told.
ReactiveSound ==
  /\ CleanIsCurrent
  /\ DepsMirrored
  /\ CurrentRestored
  /\ WatchersTold

=============================================================================
