------------------------------ MODULE Iteration ------------------------------
(***************************************************************************)
(* The operators that call a procedure for every element of an array or a  *)
(* dict (src/src/ops_array_iteration.inl, ops_higher.inl).  Each keeps its *)
(* state in a frame of the execution stack and comes back after every call *)
(* of the procedure.  A 64-bit number lives in a heap cell that must have  *)
(* exactly one owner: the source, the frame, the operand stack or the      *)
(* result.  Every element and every answer that is no boolean is such a    *)
(* number here, named by its cell.                                         *)
(*                                                                         *)
(*   it.op           the operator                                          *)
(*   it.src, pos     the source's cells; the next one to be popped         *)
(*   it.keys         the cells of the keys, when the source is a dict      *)
(*   it.dst, dkeys, at, acc, best, bkey, saved    the frame (0: no cell)   *)
(*   it.arg          the cells on the operand stack for the procedure      *)
(*   it.st           "proc" while the procedure runs, "done", "error"      *)
(*   it.out, plain   the result: cells, and a number or boolean            *)
(*   it.val, live    the content of each cell ever made; the cells in use  *)
(*   it.bad          a cell was freed twice, or read after it was freed    *)
(*   it.seen, ans    the elements handed out and the procedure's answers   *)
(***************************************************************************)
EXTENDS Integers, Sequences, SequencesExt, FiniteSets

CONSTANTS IOps,       \* operators
          IVals,      \* elements, keys and accumulators (numbers)
          ILen,       \* bound: length of the source
          IMuts,      \* bound: stores into the source by the procedure
          IOwnEntry,  \* the procedure of filter-dict may store to the entry it is given
          INull,      \* a key procedure may answer null
          ILeakFree   \* operators claimed to free what they do not return

VARIABLE it

Predicates == {"any", "all", "count", "find", "filter", "take_while", "drop_while", "filter_dict", "partition"}
DictOps == {"map_dict", "filter_dict"}
Yes == 1
No == 0

-----------------------------------------------------------------------------
(* Cells.                                                                  *)

Newest(m) == Len(m.val)
MakeCell(m, v) == [m EXCEPT !.val = Append(@, v), !.live = @ \union {Len(m.val) + 1}]
make_clone(m, c) == [MakeCell(m, m.val[c]) EXCEPT !.bad = @ \/ c \notin m.live]
maybe_free_extvalue(m, c) == IF c = 0 THEN m ELSE [m EXCEPT !.live = @ \ {c}, !.bad = @ \/ c \notin m.live]
RECURSIVE FreeAll(_, _)
FreeAll(m, cells) == IF cells = << >> THEN m ELSE FreeAll(maybe_free_extvalue(m, Head(cells)), Tail(cells))
RECURSIVE CloneAll(_, _, _)
CloneAll(m, cells, made) ==
  IF cells = << >> THEN [m |-> m, made |-> made]
  ELSE LET a == make_clone(m, Head(cells)) IN CloneAll(a, Tail(cells), Append(made, Newest(a)))

AtEnd(m) == m.pos > Len(m.src)
\* arrays_pop_clone_head: the element as it is now.
PopCloneHead(m) == [make_clone(m, m.src[m.pos]) EXCEPT !.pos = @ + 1, !.seen = Append(@, m.val[m.src[m.pos]])]
Give(m, cells) == [m EXCEPT !.arg = cells, !.st = "proc"]
GiveHead(m) == LET a == PopCloneHead(m) IN Give(a, <<Newest(a)>>)
\* The frame keeps one clone, the procedure gets another.
GiveSaved(m) ==
  LET a == PopCloneHead(m)
      b == make_clone([a EXCEPT !.saved = Newest(a)], Newest(a)) IN
  Give(b, <<Newest(b)>>)
DoneCells(m, cells) == [m EXCEPT !.st = "done", !.out = cells]
DonePlain(m, v) == [m EXCEPT !.st = "done", !.plain = v]
DropSaved(m) == maybe_free_extvalue(m, m.saved)
KeepSaved(m) == LET a == make_clone(m, m.saved) IN [a EXCEPT !.dst = Append(@, Newest(a))]

-----------------------------------------------------------------------------
(* The control operators: r is the cell of the procedure's answer, or the  *)
(* boolean it answered.                                                    *)

at_any_all(m, r, stop) ==
  CASE r = stop -> DonePlain(m, stop) [] r # stop /\ AtEnd(m) -> DonePlain(m, 1 - stop) [] OTHER -> GiveHead(m)

at_count(m, r) ==
  LET a == [m EXCEPT !.at = @ + r] IN IF AtEnd(a) THEN DonePlain(a, a.at) ELSE GiveHead(a)

at_scan(m, r) ==
  LET a == [maybe_free_extvalue(m, m.acc) EXCEPT !.acc = r]
      b == make_clone(a, r)
      c == [b EXCEPT !.dst = Append(@, Newest(b))] IN
  IF AtEnd(c) THEN DoneCells(maybe_free_extvalue(c, r), c.dst)
  ELSE LET d == make_clone(c, r)
           e == PopCloneHead(d) IN Give(e, <<Newest(d), Newest(e)>>)

\* A null key is taken for "no key yet".
at_extremeby(m, r, max) ==
  LET Better(x, y) == IF max THEN x > y ELSE x < y
      told ==
        IF m.bkey = 0 THEN [m EXCEPT !.bkey = r]
        ELSE IF r # 0 /\ Better(m.val[r], m.val[m.bkey])
        THEN [FreeAll(m, <<m.best, m.bkey>>) EXCEPT !.best = m.saved, !.bkey = r]
        ELSE FreeAll(m, <<m.saved, r>>) IN
  IF ~AtEnd(told) THEN GiveSaved(told)
  ELSE LET a == make_clone(told, told.best) IN DoneCells(FreeAll(a, <<a.best, a.bkey>>), <<Newest(a)>>)

\* Mutant: the saved element is not freed when a match ends the search.
at_find_kept(m, r) ==
  CASE r = Yes -> LET a == make_clone(m, m.saved) IN DonePlain(DoneCells(a, <<Newest(a)>>), Yes)
    [] r = No /\ AtEnd(m) -> DonePlain(DropSaved(m), No)
    [] OTHER -> GiveSaved(DropSaved(m))

at_find(m, r) ==
  CASE r = Yes -> LET a == make_clone(m, m.saved) IN DonePlain(DoneCells(DropSaved(a), <<Newest(a)>>), Yes)
    [] r = No /\ AtEnd(m) -> DonePlain(DropSaved(m), No)
    [] OTHER -> GiveSaved(DropSaved(m))

\* for-all with the accumulator of reduce below the element.
at_forall(m, r) ==
  LET a == [m EXCEPT !.acc = r] IN
  IF AtEnd(a) THEN DoneCells(a, <<r>>) ELSE LET b == PopCloneHead(a) IN Give(b, <<r, Newest(b)>>)

at_map(m, r) ==
  LET a == [m EXCEPT !.dst = Append(@, r)] IN IF AtEnd(a) THEN DoneCells(a, a.dst) ELSE GiveHead(a)

\* The index goes to the procedure too.
at_map_indexed(m, r) == LET a == at_map(m, r) IN IF a.st = "done" THEN a ELSE [a EXCEPT !.at = Len(a.dst)]

at_filter(m, r) ==
  LET a == DropSaved(IF r = Yes THEN KeepSaved(m) ELSE m) IN
  IF AtEnd(a) THEN DoneCells(a, a.dst) ELSE GiveSaved(a)

at_takewhile(m, r) ==
  LET a == DropSaved(IF r = Yes THEN KeepSaved(m) ELSE m) IN
  IF r = No \/ AtEnd(a) THEN DoneCells(a, a.dst) ELSE GiveSaved(a)

\* From the first failure on, the rest is copied as it is then.
at_dropwhile(m, r) ==
  CASE r = Yes /\ AtEnd(m) -> DoneCells(DropSaved(m), << >>)
    [] r = Yes /\ ~AtEnd(m) -> GiveSaved(DropSaved(m))
    [] OTHER -> LET a == DropSaved(KeepSaved(m))
                    all == CloneAll(a, SubSeq(a.src, a.pos, Len(a.src)), a.dst) IN DoneCells(all.m, all.made)

\* Both halves are collected in scratch; the cells move to the results.
at_partition(m, r) ==
  LET a == make_clone(m, m.saved)
      b == DropSaved(IF r = Yes THEN [a EXCEPT !.dst = Append(@, Newest(a))] ELSE [a EXCEPT !.dkeys = Append(@, Newest(a))]) IN
  IF AtEnd(b) THEN DonePlain(DoneCells(b, b.dst \o b.dkeys), Len(b.dst)) ELSE GiveSaved(b)

\* sort-by: the keys are collected beside the elements, then the elements
\* are cloned in the order of a stable sort by key.
StableOrder(m) ==
  LET n == Len(m.dst)
      key(i) == m.val[m.dkeys[i]] IN
  CHOOSE p \in [1 .. n -> 1 .. n] :
    /\ \A i, j \in 1 .. n : i < j => p[i] # p[j] /\ key(p[i]) <= key(p[j]) /\ (key(p[i]) = key(p[j]) => p[i] < p[j])

at_sortby(m, r) ==
  LET a == [m EXCEPT !.dkeys = Append(@, r)] IN
  IF ~AtEnd(a) THEN LET b == PopCloneHead(a)
                        c == make_clone([b EXCEPT !.dst = Append(@, Newest(b))], Newest(b)) IN Give(c, <<Newest(c)>>)
  ELSE LET all == CloneAll(a, [i \in 1 .. Len(a.dst) |-> a.dst[StableOrder(a)[i]]], << >>) IN
       DoneCells(FreeAll(all.m, a.dkeys \o a.dst), all.made)

\* The saved key is the source's own cell, not a clone.
Borrowed(m) == [m EXCEPT !.saved = m.src[m.pos], !.at = m.pos]
GiveEntry(m, withKey) ==
  LET a == PopCloneHead(Borrowed(m))
      b == make_clone(a, a.keys[a.at]) IN
  IF withKey THEN Give(b, <<Newest(a), Newest(b)>>) ELSE Give(a, <<Newest(a)>>)

at_dict_map(m, r) ==
  LET a == make_clone(m, m.keys[m.at])
      b == [a EXCEPT !.dst = Append(@, r), !.dkeys = Append(@, Newest(a))] IN
  IF AtEnd(b) THEN DoneCells(b, b.dkeys \o b.dst) ELSE GiveEntry(b, FALSE)

at_dict_filter(m, r) ==
  LET a == make_clone(m, m.keys[m.at])
      b == make_clone([a EXCEPT !.dkeys = Append(@, Newest(a))], m.saved)
      c == IF r = Yes THEN [b EXCEPT !.dst = Append(@, Newest(b))] ELSE m IN
  IF AtEnd(c) THEN DoneCells(c, c.dkeys \o c.dst) ELSE GiveEntry(c, TRUE)

-----------------------------------------------------------------------------
(* The operators themselves; reduce and scan take an initial accumulator,  *)
(* an operand in a cell of its own.                                        *)

WithInit(m, v) == MakeCell(m, v)

scan(m, v) ==
  LET a == WithInit(m, v)
      b == make_clone(a, Newest(a))
      c == [b EXCEPT !.dst = <<Newest(b)>>] IN
  IF AtEnd(c) THEN DoneCells(c, c.dst)
  ELSE LET d == PopCloneHead(c)
           e == make_clone(d, Newest(a))
           f == make_clone([e EXCEPT !.acc = Newest(e)], Newest(e)) IN Give(f, <<Newest(f), Newest(d)>>)

reduce(m, v) == LET a == WithInit(m, v) IN at_forall(a, Newest(a))

extremeby(m) ==
  CASE Len(m.src) = 0 -> [m EXCEPT !.st = "error"]
    [] Len(m.src) = 1 -> LET a == make_clone([m EXCEPT !.seen = <<m.val[m.src[1]]>>, !.pos = 2], m.src[1]) IN DoneCells(a, <<Newest(a)>>)
    [] OTHER -> LET a == make_clone(m, m.src[1]) IN GiveSaved([a EXCEPT !.best = Newest(a)])

sort_by(m) ==
  CASE AtEnd(m) -> DoneCells(m, << >>)
    [] Len(m.src) = 1 -> LET a == PopCloneHead(m) IN DoneCells(a, <<Newest(a)>>)
    [] OTHER -> LET b == PopCloneHead(m)
                    c == make_clone([b EXCEPT !.dst = <<Newest(b)>>], Newest(b)) IN Give(c, <<Newest(c)>>)

Start(m, v) ==
  CASE m.op = "scan" -> scan(m, v)
    [] m.op = "reduce" -> reduce(m, v)
    [] m.op \in {"min_by", "max_by"} -> extremeby(m)
    [] m.op = "sort_by" -> sort_by(m)
    [] m.op \in {"any", "all", "count", "find"} /\ AtEnd(m) -> DonePlain(m, IF m.op = "all" THEN Yes ELSE No)
    [] m.op \notin {"any", "all", "count", "find"} /\ AtEnd(m) -> DoneCells(m, << >>)
    [] m.op \in {"any", "all", "count", "map", "map_indexed"} -> GiveHead(m)
    [] m.op = "map_dict" -> GiveEntry(m, FALSE)
    [] m.op = "filter_dict" -> GiveEntry(m, TRUE)
    [] OTHER -> GiveSaved(m)

Greater(x, y) == x > y
Less(x, y) == x < y

ReturnFrom(m, r) ==
  CASE m.op = "any" -> at_any_all(m, r, Yes)
    [] m.op = "all" -> at_any_all(m, r, No)
    [] m.op = "count" -> at_count(m, r)
    [] m.op = "scan" -> at_scan(m, r)
    [] m.op = "min_by" -> at_extremeby(m, r, FALSE)
    [] m.op = "max_by" -> at_extremeby(m, r, TRUE)
    [] m.op = "find" -> at_find(m, r)
    [] m.op = "reduce" -> at_forall(m, r)
    [] m.op = "map" -> at_map(m, r)
    [] m.op = "map_indexed" -> at_map_indexed(m, r)
    [] m.op = "filter" -> at_filter(m, r)
    [] m.op = "take_while" -> at_takewhile(m, r)
    [] m.op = "drop_while" -> at_dropwhile(m, r)
    [] m.op = "partition" -> at_partition(m, r)
    [] m.op = "sort_by" -> at_sortby(m, r)
    [] m.op = "map_dict" -> at_dict_map(m, r)
    [] m.op = "filter_dict" -> at_dict_filter(m, r)

-----------------------------------------------------------------------------
Blank(op, vals) ==
  LET n == Len(vals)
      dict == op \in DictOps IN
  [op |-> op, src |-> [i \in 1 .. n |-> i], keys |-> IF dict THEN [i \in 1 .. n |-> n + i] ELSE << >>, pos |-> 1,
   dst |-> << >>, dkeys |-> << >>, at |-> 0, acc |-> 0, best |-> 0, bkey |-> 0, saved |-> 0, arg |-> << >>, st |-> "idle",
   out |-> << >>, plain |-> 0, val |-> IF dict THEN vals \o [i \in 1 .. n |-> i] ELSE vals,
   live |-> 1 .. (IF dict THEN 2 * n ELSE n), bad |-> FALSE, seen |-> << >>, ans |-> << >>, muts |-> 0, init |-> 0]

IInit == \E op \in IOps : \E n \in 0 .. ILen : \E vals \in [1 .. n -> IVals] : it = Blank(op, vals)

Call == /\ it.st = "idle"
        /\ \E v \in IVals : it' = [Start(it, v) EXCEPT !.init = v]

\* The procedure consumes its operands and leaves one answer.
Answer ==
  /\ it.st = "proc"
  /\ LET eaten == FreeAll([it EXCEPT !.arg = << >>], it.arg) IN
     \/ /\ it.op \in Predicates
        /\ \E b \in {No, Yes} : it' = ReturnFrom([eaten EXCEPT !.ans = Append(@, b)], b)
     \/ /\ it.op \notin Predicates
        /\ \E v \in IVals : it' = ReturnFrom([MakeCell(eaten, v) EXCEPT !.ans = Append(@, v)], Len(eaten.val) + 1)
     \/ /\ INull /\ it.op \in {"min_by", "max_by"}
        /\ it' = ReturnFrom([eaten EXCEPT !.ans = Append(@, -1)], 0)

\* The procedure stores to an element of the source, which frees the old one.
Store ==
  /\ it.st = "proc" /\ it.muts < IMuts
  /\ \E i \in 1 .. Len(it.src), v \in IVals :
       /\ it.op = "filter_dict" /\ i = it.at => IOwnEntry
       /\ LET a == MakeCell(maybe_free_extvalue(it, it.src[i]), v) IN
          it' = [a EXCEPT !.src[i] = Newest(a), !.muts = @ + 1]

INext == Call \/ Answer \/ Store

ISpec == IInit /\ [][INext]_it

-----------------------------------------------------------------------------
Vals(cells) == [i \in 1 .. Len(cells) |-> it.val[cells[i]]]
Chosen(b) == LET hits == SelectSeq([i \in 1 .. Len(it.ans) |-> i], LAMBDA i : it.ans[i] = b) IN [k \in 1 .. Len(hits) |-> it.seen[hits[k]]]
Hits == Cardinality({i \in 1 .. Len(it.ans) : it.ans[i] = Yes})
\* Null keys come before all numbers.
FirstBest(Better(_, _)) ==
  CHOOSE i \in 1 .. Len(it.ans) : \A j \in 1 .. Len(it.ans) : ~Better(it.ans[j], it.ans[i]) /\ (j < i => Better(it.ans[i], it.ans[j]))
Sorted ==
  CHOOSE p \in [1 .. Len(it.ans) -> 1 .. Len(it.ans)] :
    \A i, j \in 1 .. Len(it.ans) : i < j => p[i] # p[j] /\ (it.ans[p[i]] < it.ans[p[j]] \/ (it.ans[p[i]] = it.ans[p[j]] /\ p[i] < p[j]))

\* What each operator promises, in terms of the elements the procedure was
\* given, in order, and its answers: stores to the source during the
\* iteration show in elements not yet handed out and nowhere else.
IterExact ==
  it.st = "done" =>
    CASE it.op = "any" -> it.plain = (IF Hits > 0 THEN Yes ELSE No)
      [] it.op = "all" -> it.plain = (IF Hits = Len(it.ans) THEN Yes ELSE No)
      [] it.op = "count" -> it.plain = Hits
      [] it.op = "scan" -> Vals(it.out) = <<it.init>> \o it.ans
      [] it.op = "reduce" -> Vals(it.out) = <<IF it.ans = << >> THEN it.init ELSE Last(it.ans)>>
      [] it.op = "find" -> Vals(it.out) = Chosen(Yes) /\ it.plain = Len(it.out)
      [] it.op \in {"map", "map_indexed"} -> Vals(it.out) = it.ans
      [] it.op \in {"filter", "take_while"} -> Vals(it.out) = Chosen(Yes)
      [] it.op = "drop_while" -> Vals(it.out) = Chosen(No) \o Vals(SubSeq(it.src, it.pos, Len(it.src)))
      [] it.op = "partition" -> Vals(it.out) = Chosen(Yes) \o Chosen(No) /\ it.plain = Hits
      [] it.op = "min_by" -> Vals(it.out) = <<it.seen[IF Len(it.seen) = 1 THEN 1 ELSE FirstBest(Less)]>>
      [] it.op = "max_by" -> Vals(it.out) = <<it.seen[IF Len(it.seen) = 1 THEN 1 ELSE FirstBest(Greater)]>>
      [] it.op = "sort_by" -> Vals(it.out) = (IF Len(it.seen) <= 1 THEN it.seen ELSE [i \in 1 .. Len(it.ans) |-> it.seen[Sorted[i]]])
      [] it.op = "map_dict" -> Vals(it.out) = [i \in 1 .. Len(it.src) |-> i] \o it.ans
      [] it.op = "filter_dict" -> Vals(it.out) = SelectSeq([i \in 1 .. Len(it.src) |-> i], LAMBDA i : it.ans[i] = Yes) \o Chosen(Yes)

\* No element is handed out twice or left out before the operator may stop.
VisitsAll ==
  it.st = "done" =>
    /\ Len(it.seen) = it.pos - 1
    /\ it.pos <= Len(it.src) =>
         CASE it.op \in {"any", "find"} -> Last(it.ans) = Yes [] it.op \in {"all", "take_while", "drop_while"} -> Last(it.ans) = No [] OTHER -> FALSE

\* A number's cell has one owner: it is never freed twice nor read after it
\* was freed, and no cell is in two places of the source and the result.
OneOwner ==
  /\ ~it.bad
  /\ it.st = "done" => /\ \A i, j \in 1 .. Len(it.out) : i # j => it.out[i] # it.out[j]
                       /\ ToSet(it.out) \subseteq it.live \ ToSet(it.src \o it.keys)

\* When the operator has finished, the cells in use are those of the source
\* and of the result.
NothingLeaks ==
  it.st = "done" /\ it.op \in ILeakFree => it.live = ToSet(it.src) \union ToSet(it.keys) \union ToSet(it.out)

\* An iteration returns what its operator promises, visits every element once,
\* and hands every number's cell to exactly one owner, also when it fails.
IterationSound == IterExact /\ VisitsAll /\ OneOwner /\ NothingLeaks

=============================================================================
