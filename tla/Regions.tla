------------------------------- MODULE Regions -------------------------------
(***************************************************************************)
(* The heap between its two ends (src/src/vm_heap.inl): local storage      *)
(* grows up from the base, global storage grows down from the limit, and   *)
(* temporary scratch grows down below the global storage.  Three           *)
(* watermarks keep them apart.  sort-by, group-by, partition and batch     *)
(* keep scratch while they run user code, zip and its kin only inside one  *)
(* operator, filter and take-while give the unused tail of a local array   *)
(* back.  Addresses are Objects, so alignment is not modelled.             *)
(*                                                                         *)
(*   rg.ptr, temp, global   the watermarks                                 *)
(*   rg.mem     who wrote each cell last (0 when nobody holds it)          *)
(*   rg.stk     for each coroutine, the frames of the operators under way  *)
(*   rg.flag    for each coroutine, whether it allocates globally          *)
(*   rg.cur     the running coroutine                                      *)
(*   rg.saves   the open save levels: barrier and temp watermark           *)
(*   rg.lost    scratch has been abandoned by an error or a restore        *)
(***************************************************************************)
EXTENDS Integers, Sequences, SequencesExt, FiniteSetsExt

CONSTANTS RSize,        \* cells of the heap
          RCoros,       \* number of coroutines
          RDepth,       \* bound: frames of a coroutine
          RMaxSaves,    \* bound: save levels
          RSpawnInside, \* user code called while scratch is live may spawn, make a mailbox, fill a global dict
          RYieldInside, \* ... or yield
          RTryInside,   \* a try may stand inside ${ }
          RRestoreInside \* a batch may restore a save older than itself

VARIABLE rg

Local == -1
Global == -2
Coros == 1 .. RCoros
Cells == 0 .. RSize - 1

Stack(m) == m.stk[m.cur]
Top(m) == Last(Stack(m))
IdOf(c, i) == 10 * c + i
NewId(m) == IdOf(m.cur, Len(Stack(m)) + 1)
TopId(m) == IdOf(m.cur, Len(Stack(m)))
Flag(m) == m.flag[m.cur]
SetFlag(m, b) == [m EXCEPT !.flag[m.cur] = b]

Own(m, a, n, who) == [m EXCEPT !.mem = [c \in Cells |-> IF c \in a .. a + n - 1 THEN who ELSE @[c]]]
Push(m, f) == [m EXCEPT !.stk[m.cur] = Append(@, f)]
\* The frame goes; what it still holds of its scratch belongs to nobody.
DropFrame(m) == [m EXCEPT !.stk[m.cur] = Front(@), !.mem = [c \in Cells |-> IF @[c] = TopId(m) THEN 0 ELSE @[c]]]
RFrame(op, m, lo, n) == [op |-> op, temp |-> m.temp, flag |-> Flag(m), lo |-> lo, n |-> n, at |-> 0, left |-> n, saves |-> Len(m.saves)]

Collecting == {"sort", "group", "part"}
\* Operators whose scratch outlives a call of user code, and its extent.
Extent(f) == CASE f.op \in Collecting -> 2 * f.n [] f.op = "batch" -> f.n [] OTHER -> 0
Scratch(m) == {<<c, i>> \in Coros \X (1 .. RDepth) : i <= Len(m.stk[c]) /\ Extent(m.stk[c][i]) > 0}
\* Where the temp watermark stands when nothing is lost.
TempTop(m) == Min({m.global} \union {m.stk[x[1]][x[2]].lo : x \in Scratch(m)})
Settle(m) == [m EXCEPT !.lost = @ /\ m.temp # m.global]

-----------------------------------------------------------------------------
(* Errors: the frames above the innermost try are unwound.  ${ } puts its  *)
(* flag back and batch frees its buffer; the others just go.               *)

Unwind1(m) ==
  LET f == Top(m) IN
  CASE f.op = "global" -> DropFrame(SetFlag(m, f.flag))
    [] f.op = "batch" /\ f.temp >= m.temp -> DropFrame([m EXCEPT !.temp = f.temp])
    [] f.op \in Collecting -> [DropFrame(m) EXCEPT !.lost = TRUE]
    [] OTHER -> DropFrame(m)

Raise(m) ==
  LET tries == {i \in 1 .. Len(Stack(m)) : Stack(m)[i].op = "try"}
      keep == IF tries = {} THEN 0 ELSE Max(tries)
      bare == FoldLeft(LAMBDA acc, x : Unwind1(acc), m, SubSeq(Stack(m), keep + 1, Len(Stack(m)))) IN
  Settle(IF keep = 0 THEN bare ELSE DropFrame(bare))

-----------------------------------------------------------------------------
(* The allocators.                                                         *)

LocalTaken(m, n) == Own([m EXCEPT !.ptr = @ + n], m.ptr, n, Local)
GlobalTaken(m, n) == Own([m EXCEPT !.global = @ - n, !.temp = Min({@, m.global - n})], m.global - n, n, Global)
TempTaken(m, n, who) == Own([m EXCEPT !.temp = @ - n], m.temp - n, n, who)

\* Each goes on with After, or raises vm-full.
vm_alloc(m, n, After(_)) == IF m.ptr + n <= m.temp THEN After(LocalTaken(m, n)) ELSE Raise(m)

vm_alloc_global(m, n, After(_)) == IF m.global - n >= m.ptr THEN After(GlobalTaken(m, n)) ELSE Raise(m)

vm_alloc_dispatch(m, n, After(_)) == IF Flag(m) THEN vm_alloc_global(m, n, After) ELSE vm_alloc(m, n, After)

vm_temp_alloc(m, n, who, After(_)) == IF m.temp - n >= m.ptr THEN After(TempTaken(m, n, who)) ELSE Raise(m)

\* A watermark is only ever moved back up.
TempBack(m, saved) == [m EXCEPT !.temp = saved]
vm_temp_restore(m, saved, After(_)) == IF saved < m.temp THEN Raise(m) ELSE After(TempBack(m, saved))

\* Only the newest local allocation can be shortened.
vm_trim_alloc(m, f) ==
  IF f.n > f.at /\ f.lo + f.n = m.ptr THEN Own([m EXCEPT !.ptr = f.lo + f.at], f.lo + f.at, f.n - f.at, 0) ELSE m

\* A local result is copied when the flag asks for a global one.
Promoted(m) == Flag(m)
promote_result_if_global(m, n, After(_)) == IF Promoted(m) THEN vm_alloc_global(m, n, After) ELSE After(m)

-----------------------------------------------------------------------------
(* sort-by, group-by and partition over n elements: two arrays in scratch, *)
(* the user code called n times with local allocation, a local result.     *)

Enough(m) == Len(Stack(m)) < RDepth

Collect(m, op, n) ==
  vm_temp_alloc(SetFlag(m, FALSE), n, 0, LAMBDA a :
    IF a.temp - n < a.ptr THEN Raise([a EXCEPT !.lost = TRUE])
    ELSE vm_temp_alloc(a, n, 0, LAMBDA b : Push(Own(b, b.temp, 2 * n, NewId(m)), RFrame(op, m, b.temp, n))))

sort_by(m, n) == Collect(m, "sort", n)
group_by(m, n) == Collect(m, "group", n)
partition(m, n) == Collect(m, "part", n)

\* The scratch array written by a step, and the step itself.
Keys(f) == f.lo + f.n
Elems(f) == f.lo
Stepped(m, f) == [m EXCEPT !.stk[m.cur][Len(Stack(m))] = f]

\* The key of the last element and, unless there is none, the next element.
TakeKey(m) ==
  LET f == Top(m)
      keyed == Own(m, Keys(f) + f.at, 1, TopId(m)) IN
  Stepped(IF f.left > 1 THEN Own(keyed, Elems(f) + f.at + 1, 1, TopId(m)) ELSE keyed, [f EXCEPT !.at = @ + 1, !.left = @ - 1])

\* The local result is made: scratch and flag go back, the result may move.
Finish(m, n) ==
  LET f == Top(m) IN
  vm_temp_restore(m, f.temp, LAMBDA b : promote_result_if_global(SetFlag(b, f.flag), n, LAMBDA c : Settle(DropFrame(c))))

at_sortby(m) ==
  LET f == Top(m) IN
  IF f.left > 1 THEN TakeKey(m) ELSE vm_alloc(TakeKey(m), f.n, LAMBDA a : Finish(a, f.n))

\* A key that cannot be a dict key is found when all keys are there;
\* otherwise a temporary dict counts the groups.
at_groupby(m, bad) ==
  LET f == Top(m) IN
  CASE f.left > 1 -> TakeKey(m)
    [] f.left <= 1 /\ bad -> vm_temp_restore(TakeKey(m), f.temp, LAMBDA b : Raise(DropFrame(SetFlag(b, f.flag))))
    [] OTHER -> vm_temp_alloc(TakeKey(m), 1, 0, LAMBDA a : vm_alloc(a, f.n, LAMBDA b : Finish(b, f.n)))

\* at counts the elements that passed.
at_partition(m, pass) ==
  LET f == Top(m)
      put == Own(m, IF pass THEN Keys(f) + f.at ELSE Elems(f) + (f.n - f.left - f.at), 1, TopId(m))
      g == [f EXCEPT !.at = IF pass THEN @ + 1 ELSE @, !.left = @ - 1] IN
  IF f.left > 1 THEN Stepped(put, g)
  ELSE vm_alloc(Stepped(put, g), g.at, LAMBDA a : vm_alloc(a, f.n - g.at, LAMBDA b : Finish(b, f.n)))

-----------------------------------------------------------------------------
(* Scratch inside one operator: packed arrays are expanded, sets of keys   *)
(* kept in temporary dicts.  An error in the middle loses the scratch.     *)

vm_alloc_or_lose(m, n, After(_)) == IF m.ptr + n > m.temp THEN Raise([m EXCEPT !.lost = TRUE]) ELSE vm_alloc(m, n, After)

\* Scratch for the elements of a packed source.
PackedCells(packed) == IF packed THEN 1 ELSE 0
expand_packed_to_temp(m, packed, After(_)) == vm_temp_alloc(m, PackedCells(packed), 0, After)

\* n local cells over one expanded source.
Expanded(m, packed, n) ==
  expand_packed_to_temp(m, packed, LAMBDA a : vm_alloc_or_lose(a, n, LAMBDA b :
    vm_temp_restore(b, m.temp, LAMBDA c : promote_result_if_global(c, n, Settle))))

zip(m, packed) == Expanded(m, packed, 2)
interpose(m, packed) == Expanded(m, packed, 2)
chunk(m, packed) == Expanded(m, packed, 2)

frequencies(m, packed, bad) ==
  expand_packed_to_temp(m, packed, LAMBDA a :
    IF bad THEN vm_temp_restore(a, m.temp, Raise)
    ELSE vm_alloc_or_lose(a, 1, LAMBDA b : vm_temp_restore(b, m.temp, LAMBDA c : promote_result_if_global(c, 1, Settle))))

\* A temporary dict of the keys seen, a result of two cells cut to what was
\* found.
Distinct(m, packed, bad, found) ==
  expand_packed_to_temp(m, packed, LAMBDA a :
    IF bad THEN vm_temp_restore(a, m.temp, Raise)
    ELSE IF a.temp - 1 < a.ptr THEN Raise([a EXCEPT !.lost = @ \/ packed])
    ELSE vm_temp_alloc(a, 1, 0, LAMBDA b : vm_alloc_or_lose(b, 2, LAMBDA c :
           vm_temp_restore(vm_trim_alloc(c, [lo |-> b.ptr, n |-> 2, at |-> found]), m.temp, LAMBDA d :
             promote_result_if_global(d, found, Settle)))))

intersect(m, packed, bad, found) == Distinct(m, packed, bad, found)
union(m, packed, bad, found) == Distinct(m, packed, bad, found)

-----------------------------------------------------------------------------
(* filter, take-while: a result as long as the source, shortened.          *)

filter(m, n) == vm_alloc_dispatch(m, n, LAMBDA a : Push(a, RFrame("filter", a, IF Flag(m) THEN a.global ELSE m.ptr, n)))

at_filter(m, keep) ==
  LET f == [Top(m) EXCEPT !.at = IF keep THEN @ + 1 ELSE @, !.left = @ - 1]
      told == [m EXCEPT !.stk[m.cur][Len(Stack(m))] = f] IN
  IF f.left > 0 THEN told ELSE DropFrame(vm_trim_alloc(told, f))

-----------------------------------------------------------------------------
(* batch: a buffer of deferred watchers, with the flag as it is.           *)

batch(m) == vm_temp_alloc(m, 1, NewId(m), LAMBDA a : Push(a, [RFrame("batch", a, a.temp, 1) EXCEPT !.temp = m.temp]))
Defer(m) == Own(m, Top(m).lo, 1, TopId(m))
at_batch_end(m) == vm_temp_restore(m, Top(m).temp, LAMBDA a : Settle(DropFrame(a)))

-----------------------------------------------------------------------------
(* ${ }, try, save and restore.                                            *)

in_global(m) == Push(SetFlag(m, TRUE), RFrame("global", m, 0, 0))

at_in_global_end(m) == DropFrame(SetFlag(m, Top(m).flag))

save(m) == vm_alloc(m, 1, LAMBDA a : [a EXCEPT !.saves = Append(@, [barrier |-> m.ptr, temp |-> m.temp])])

\* check_stack: an array past the barrier and not global stops the restore.
PastBarrier(m, k) ==
  \E c \in Coros : \E i \in 1 .. Len(m.stk[c]) :
    LET f == m.stk[c][i] IN f.op \in Collecting \union {"filter"} /\ f.lo >= m.saves[k].barrier /\ f.lo < m.global

Restored(m, k, temp) ==
  LET s == m.saves[k]
      back == [m EXCEPT !.ptr = s.barrier, !.temp = temp, !.saves = SubSeq(@, 1, k - 1),
                        !.mem = [c \in Cells |-> IF c >= s.barrier /\ @[c] = Local THEN 0 ELSE @[c]]] IN
  [back EXCEPT !.lost = temp # m.global /\ (@ \/ temp # TempTop(back))]

\* Mutant: the saved watermark is not held below the global storage.
restore_op_unclamped(m, k) == IF PastBarrier(m, k) THEN Raise(m) ELSE Restored(m, k, m.saves[k].temp)

restore_op(m, k) == IF PastBarrier(m, k) THEN Raise(m) ELSE Restored(m, k, Min({m.saves[k].temp, m.global}))

-----------------------------------------------------------------------------
RInit ==
  rg = [ptr |-> 0, temp |-> RSize, global |-> RSize, mem |-> [c \in Cells |-> 0], stk |-> [c \in Coros |-> << >>],
        flag |-> [c \in Coros |-> FALSE], cur |-> 1, saves |-> << >>, lost |-> FALSE]

On(op) == Stack(rg) # << >> /\ Top(rg).op = op
InScratch == \E x \in Scratch(rg) : x[1] = rg.cur
InGlobal == \E i \in 1 .. Len(Stack(rg)) : Stack(rg)[i].op = "global"
\* Global storage may be taken while scratch is live.
MayGlobal == RSpawnInside \/ Scratch(rg) = {}

DoAlloc == \E n \in 1 .. 2 : rg' = vm_alloc_dispatch(rg, n, LAMBDA a : a)
\* spawn, actors, pipes, supervisors and global containers take global storage whatever the flag says.
DoSpawn == MayGlobal /\ rg' = vm_alloc_global(rg, 1, LAMBDA a : a)
DoCollect == Enough(rg) /\ (rg' = sort_by(rg, 2) \/ rg' = group_by(rg, 2) \/ rg' = partition(rg, 2))
DoSortStep == On("sort") /\ rg' = at_sortby(rg)
DoGroupStep == On("group") /\ \E bad \in BOOLEAN : rg' = at_groupby(rg, bad)
DoPartStep == On("part") /\ \E pass \in BOOLEAN : rg' = at_partition(rg, pass)
DoTempOp ==
  \/ \E packed \in BOOLEAN : rg' = zip(rg, packed)
  \/ rg' = interpose(rg, TRUE)
  \/ rg' = chunk(rg, TRUE)
  \/ \E bad \in BOOLEAN : rg' = frequencies(rg, TRUE, bad)
  \/ rg' = intersect(rg, TRUE, FALSE, 0)
  \/ \E bad \in BOOLEAN : rg' = union(rg, FALSE, bad, 1)
DoFilter == Enough(rg) /\ rg' = filter(rg, 2)
DoFilterStep == On("filter") /\ \E keep \in BOOLEAN : rg' = at_filter(rg, keep)
DoBatch == Enough(rg) /\ (RSpawnInside \/ ~Flag(rg)) /\ (\A c \in Coros : \A i \in 1 .. Len(rg.stk[c]) : rg.stk[c][i].op # "batch") /\ rg' = batch(rg)
DoDefer == On("batch") /\ rg' = Defer(rg)
DoBatchEnd == On("batch") /\ rg' = at_batch_end(rg)
DoInGlobal == Enough(rg) /\ MayGlobal /\ rg' = in_global(rg)
DoInGlobalEnd == On("global") /\ rg' = at_in_global_end(rg)
DoTry == Enough(rg) /\ (RTryInside \/ ~InGlobal) /\ rg' = Push(rg, RFrame("try", rg, 0, 0))
DoTryEnd == On("try") /\ rg' = DropFrame(rg)
DoRaise == rg' = Raise(rg)
DoSave == Len(rg.saves) < RMaxSaves /\ rg' = save(rg)
DoRestore ==
  \E k \in 1 .. Len(rg.saves) :
    /\ RRestoreInside \/ \A x \in Scratch(rg) : LET f == rg.stk[x[1]][x[2]] IN f.op = "batch" => f.saves < k
    /\ rg' = restore_op(rg, k)
DoYield == (RYieldInside \/ Scratch(rg) = {}) /\ rg' = [rg EXCEPT !.cur = (@ % RCoros) + 1]

RNext == \/ DoAlloc \/ DoSpawn \/ DoCollect \/ DoSortStep \/ DoGroupStep \/ DoPartStep \/ DoTempOp \/ DoFilter \/ DoFilterStep
         \/ DoBatch \/ DoDefer \/ DoBatchEnd \/ DoInGlobal \/ DoInGlobalEnd \/ DoTry \/ DoTryEnd \/ DoRaise
         \/ DoSave \/ DoRestore \/ DoYield

RSpec == RInit /\ [][RNext]_rg

-----------------------------------------------------------------------------
\* The three watermarks are in order, so the regions do not overlap (the
\* invariant stated in vm_heap.inl).
RegionsOrdered == 0 <= rg.ptr /\ rg.ptr <= rg.temp /\ rg.temp <= rg.global /\ rg.global <= RSize

\* Whatever the user code of sort-by, group-by, partition or batch did, the
\* scratch of the operator still holds what the operator put there.
ScratchIntact ==
  \A x \in Scratch(rg) :
    LET f == rg.stk[x[1]][x[2]] IN
    /\ \A a \in f.lo .. f.lo + Extent(f) - 1 : rg.mem[a] = IdOf(x[1], x[2])
    /\ f.lo >= rg.temp

\* Local storage fills the heap up to its watermark, global storage down to
\* its own, and nobody else has written there.
HeapIntact ==
  \A c \in Cells : (rg.mem[c] = Local <=> c < rg.ptr) /\ (rg.mem[c] = Global <=> c >= rg.global)

\* Scratch is given back: the temp watermark stands at the oldest live
\* scratch, or at the global storage, unless an error or a restore lost some.
TempReturned == ~rg.lost => rg.temp = TempTop(rg)

\* A coroutine allocates globally exactly when ${ } is the innermost of its
\* frames that decide.
RegionFlagScoped ==
  \A c \in Coros :
    LET deciding == {i \in 1 .. Len(rg.stk[c]) : rg.stk[c][i].op \in Collecting \union {"global"}} IN
    rg.flag[c] <=> deciding # {} /\ rg.stk[c][Max(deciding)].op = "global"

\* Local, scratch and global storage never overlap, scratch held across user
\* code is intact and given back, and the allocation flag follows its scopes.
RegionsSound ==
  /\ RegionsOrdered
  /\ ScratchIntact
  /\ HeapIntact
  /\ TempReturned
  /\ RegionFlagScoped

=============================================================================
