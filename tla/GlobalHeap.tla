------------------------------ MODULE GlobalHeap ------------------------------
(***************************************************************************)
(* The allocator of the global heap (src/src/gvm_heap.inl): boundary-tag   *)
(* blocks that grow down from m_vm_limit, fast bins for the small sizes,   *)
(* one address-ordered free list for the rest, and the collector's scratch *)
(* block, which lives as long as any other block does.                     *)
(*                                                                         *)
(* Offsets and sizes count 8-byte words.  A state of the heap, gvm, is     *)
(*   blk      block start -> its header [size, kind, free]                 *)
(*   tag      word -> the tail tag last written to its upper half          *)
(*   top      m_vm_global                                                  *)
(*   list     the free list from m_gvm_free_head                           *)
(*   bins     m_gvm_fastbins, one LIFO list per size                       *)
(*   nfree    m_gvm_free_block_count                                       *)
(*   users    m_gvm_user_block_count                                       *)
(*   scratch  m_gc_scratch_offset, or NoBlock                              *)
(* and held maps every block the program can reach to the size it asked    *)
(* for; the others are garbage.                                            *)
(***************************************************************************)
EXTENDS Integers, Sequences, SequencesExt, FiniteSetsExt

CONSTANTS
  HeapLimit,     \* words between m_vm_ptr and m_vm_limit
  MinBlock,      \* GvmMinBlockSize
  BinLimit,      \* GvmFastBinThreshold
  ScratchWords,  \* block size of GcScratchTotalEntries entries
  AskedSizes     \* bound: the block sizes programs ask for

ASSUME GlobalHeapAssumption ==
  /\ MinBlock \in Nat \ {0} /\ BinLimit > MinBlock /\ HeapLimit >= ScratchWords
  /\ ScratchWords >= MinBlock /\ \A s \in AskedSizes : s >= MinBlock

VARIABLES gvm, held

heapVars == <<gvm, held>>

NoBlock == -1
Payload == 0             \* a word that is no tail tag; it is never read as one

HeapInit ==
  /\ gvm = [blk |-> << >>, tag |-> [w \in 0..(HeapLimit - 1) |-> Payload], top |-> HeapLimit,
             list |-> << >>, bins |-> [s \in MinBlock..(BinLimit - 1) |-> << >>],
             nfree |-> 0, users |-> 0, scratch |-> NoBlock]
  /\ held = << >>

Placed(h, o, header) ==
  [h EXCEPT !.blk = [p \in DOMAIN @ \cup {o} |-> IF p = o THEN header ELSE @[p]],
            !.tag = [w \in DOMAIN @ |-> IF w \notin o..(o + header.size - 1) THEN @[w]
                                        ELSE IF w = o + header.size - 1 THEN header.size ELSE Payload]]
Absorbed(h, o) == [h EXCEPT !.blk = [p \in DOMAIN @ \ {o} |-> @[p]],
                            !.tag[o + h.blk[o].size - 1] = Payload]
Taken(size, kind) == [size |-> size, kind |-> kind, free |-> FALSE]

-----------------------------------------------------------------------------
(* Free blocks *)

\* The list keeps its nodes by ascending address.
gvm_free_list_insert(h, o) ==
  [h EXCEPT !.list = SetToSortSeq(Range(@) \cup {o}, <), !.nfree = @ + 1]
gvm_free_list_remove(h, o) == [h EXCEPT !.list = SelectSeq(@, LAMBDA p : p # o), !.nfree = @ - 1]

gvm_fastbin_insert(h, o, size) == [h EXCEPT !.bins[size] = << o >> \o @, !.nfree = @ + 1]
gvm_fastbin_unlink(h, o, size) ==
  [h EXCEPT !.bins[size] = SelectSeq(@, LAMBDA p : p # o), !.nfree = @ - 1]

gvm_free_insert_anywhere(h, o, size) ==
  IF size < BinLimit THEN gvm_fastbin_insert(h, o, size) ELSE gvm_free_list_insert(h, o)
gvm_free_unlink_anywhere(h, o, size) ==
  IF size < BinLimit THEN gvm_fastbin_unlink(h, o, size) ELSE gvm_free_list_remove(h, o)

\* Mutant: the neighbour is merged but stays linked.
CoalesceLinked(h, o) ==
  LET n == o + h.blk[o].size
  IN  IF n < HeapLimit /\ h.blk[n].free
      THEN [Absorbed(h, n) EXCEPT !.blk[o].size = @ + h.blk[n].size]
      ELSE h

\* The block after o merges into it if it is free.
CoalesceForward(h, o) ==
  LET n == o + h.blk[o].size
  IN  IF n < HeapLimit /\ h.blk[n].free
      THEN [Absorbed(gvm_free_unlink_anywhere(h, n, h.blk[n].size), n)
              EXCEPT !.blk[o].size = @ + h.blk[n].size]
      ELSE h

\* The free block that ends where o starts, found through its tail tag.
PrevFree(h, o) ==
  LET p == o - h.tag[o - 1]
  IN  IF o > h.top /\ h.tag[o - 1] > 0 /\ p >= h.top /\ p \in DOMAIN h.blk /\ h.blk[p].free
      THEN p ELSE NoBlock

\* A block is given back to the gap below the heap if it is the lowest, else
\* indexed.
GiveBack(h, b) ==
  IF b = h.top THEN [Absorbed(h, b) EXCEPT !.top = @ + h.blk[b].size]
  ELSE gvm_free_insert_anywhere(Placed(h, b, [h.blk[b] EXCEPT !.free = TRUE]), b, h.blk[b].size)

\* Block o merges into p, the free block before it, if there is one.
CoalesceBackward(h, o, p) ==
  IF p = NoBlock THEN GiveBack(h, o)
  ELSE GiveBack([Absorbed(gvm_free_unlink_anywhere(h, p, h.blk[p].size), o)
                   EXCEPT !.blk[p].size = @ + h.blk[o].size], p)
MergedForward(h, o) == CoalesceBackward(h, o, PrevFree(h, o))

\* gvm_free_impl: merge both ways, then give the block back.
gvm_free_impl(h, o) == MergedForward(CoalesceForward(h, o), o)

\* gvm_free of a user block: the last one takes the scratch block with it.
WithoutUser(h) ==
  IF h.users = 1 /\ h.scratch # NoBlock
  THEN gvm_free_impl([h EXCEPT !.users = 0, !.scratch = NoBlock], h.scratch)
  ELSE [h EXCEPT !.users = @ - 1]
gvm_free(h, o) == WithoutUser(gvm_free_impl(h, o))

-----------------------------------------------------------------------------
(* Allocation *)

\* gvm_reissue_free_block: the block keeps its size.
gvm_reissue_free_block(h, o, kind) == [h EXCEPT !.blk[o] = Taken(h.blk[o].size, kind)]

\* The first block of the list that is large enough, cut if the rest makes a
\* block of its own.
TakeFromList(h, o, size, kind) ==
  LET rest == h.blk[o].size - size
      r == gvm_free_list_remove(h, o)
  IN  IF rest >= MinBlock
      THEN gvm_free_insert_anywhere(
             Placed(Placed(r, o, Taken(size, kind)), o + size,
                    [size |-> rest, kind |-> kind, free |-> TRUE]), o + size, rest)
      ELSE gvm_reissue_free_block(r, o, kind)

\* One attempt: exact bin, next bin up, first fit, fresh words.
Attempt(h, size, kind) ==
  LET binned == {s \in {size, size + 1} : size < BinLimit /\ s < BinLimit /\ h.bins[s] # << >>}
      fits == {o \in Range(h.list) : h.blk[o].size >= size}
      b == Head(h.bins[Min(binned)])
  IN  IF binned # {}
      THEN [h |-> gvm_reissue_free_block(gvm_fastbin_unlink(h, b, Min(binned)), b, kind), off |-> b]
      ELSE IF fits # {}
      THEN [h |-> TakeFromList(h, Min(fits), size, kind), off |-> Min(fits)]
      ELSE IF h.top >= size
      THEN [h |-> Placed([h EXCEPT !.top = @ - size], h.top - size, Taken(size, kind)),
            off |-> h.top - size]
      ELSE [h |-> h, off |-> NoBlock]

\* gc_sweep_unmarked: the doomed list is built by ascending address from its
\* head, so the highest block is freed first.
gc_sweep_unmarked(h, kept) ==
  LET doomed == {o \in DOMAIN h.blk : ~h.blk[o].free /\ h.blk[o].kind # "scratch"} \ kept
  IN  FoldLeft(gvm_free, h, SetToSortSeq(doomed, >))

\* vm_global_gc raises internal-error for want of the scratch block.
GcFails(h) == h.users > 0 /\ h.scratch = NoBlock

\* gvm_alloc_impl: a second attempt after one collection.
OrCollected(first, h, size, kind) ==
  IF first.off # NoBlock \/ GcFails(h) THEN first
  ELSE Attempt(gc_sweep_unmarked(h, DOMAIN held), size, kind)
gvm_alloc_impl(h, size, kind) == OrCollected(Attempt(h, size, kind), h, size, kind)

AsScratch(a) == [a.h EXCEPT !.scratch = a.off]
ensure_gc_scratch(h) ==
  IF h.scratch # NoBlock THEN h ELSE AsScratch(gvm_alloc_impl(h, ScratchWords, "scratch"))

\* gvm_alloc by the program; it raises vm-full, or internal-error, with what
\* the failed attempts have changed.
Allocated(a, size) ==
  IF a.off = NoBlock THEN gvm' = a.h /\ UNCHANGED held
  ELSE /\ gvm' = [a.h EXCEPT !.users = @ + 1]
       /\ held' = [o \in DOMAIN held \cup {a.off} |-> IF o = a.off THEN size ELSE held[o]]
WithScratch(h, size) ==
  IF h.scratch = NoBlock THEN gvm' = h /\ UNCHANGED held ELSE Allocated(gvm_alloc_impl(h, size, "user"), size)
gvm_alloc(size) == WithScratch(ensure_gc_scratch(gvm), size)

Unheld(o) == [p \in DOMAIN held \ {o} |-> held[p]]

\* A scalar's cell is freed at once; any other block becomes garbage.
FreeCell(o) == gvm' = gvm_free(gvm, o) /\ held' = Unheld(o)
Forget(o) == held' = Unheld(o) /\ UNCHANGED gvm

vm_global_gc_op ==
  /\ ~GcFails(gvm)
  /\ gvm' = gc_sweep_unmarked(gvm, DOMAIN held)
  /\ UNCHANGED held

HeapNext ==
  \/ \E size \in AskedSizes : gvm_alloc(size)
  \/ \E o \in DOMAIN held : FreeCell(o) \/ Forget(o)
  \/ vm_global_gc_op

HeapSpec == HeapInit /\ [][HeapNext]_heapVars

-----------------------------------------------------------------------------
(* Properties *)

FreeBlocks == {o \in DOMAIN gvm.blk : gvm.blk[o].free}
EndOf(o) == o + gvm.blk[o].size

\* "corrupt block header": the walk of gvm_for_each from m_vm_global meets
\* every block and ends exactly at m_vm_limit, and each tail tag is right.
Tiled ==
  /\ \A o \in DOMAIN gvm.blk :
       /\ gvm.blk[o].size >= MinBlock
       /\ EndOf(o) = HeapLimit \/ EndOf(o) \in DOMAIN gvm.blk
       /\ gvm.tag[EndOf(o) - 1] = gvm.blk[o].size
  /\ MapThenSumSet(LAMBDA o : gvm.blk[o].size, DOMAIN gvm.blk) = HeapLimit - gvm.top
  /\ gvm.top < HeapLimit => gvm.top \in DOMAIN gvm.blk

\* "A block is in EXACTLY one structure at a time": every free block is
\* indexed once, by its size; free neighbours are merged; none is lowest.
FreeIndexed ==
  /\ \A s \in DOMAIN gvm.bins :
       /\ IsInjective(gvm.bins[s])
       /\ Range(gvm.bins[s]) = {o \in FreeBlocks : gvm.blk[o].size = s}
  /\ Range(gvm.list) = {o \in FreeBlocks : gvm.blk[o].size >= BinLimit}
  /\ IsInjective(gvm.list)
  /\ gvm.nfree = Cardinality(FreeBlocks)
  /\ \A o \in FreeBlocks : EndOf(o) \notin FreeBlocks /\ o # gvm.top

\* No free, merge, split or sweep takes a block the program still uses, and
\* each is as large as it was asked for.
HeldKept ==
  /\ \A o \in DOMAIN held : o \in DOMAIN gvm.blk /\ ~gvm.blk[o].free /\ gvm.blk[o].size >= held[o]
  /\ gvm.users = Cardinality({o \in DOMAIN gvm.blk : ~gvm.blk[o].free /\ gvm.blk[o].kind = "user"})

\* When the last user block goes, the whole region does: "m_vm_global then
\* advances all the way back to m_vm_limit".
IdleIsEmpty == [][gvm.users > 0 /\ gvm'.users = 0 => gvm'.top = HeapLimit]_heapVars

\* "gc: scratch block missing": a collection finds its scratch block.
ScratchPresent == gvm.users > 0 => gvm.scratch # NoBlock

\* The blocks tile the region, each free one is indexed once, and no block in
\* use is taken; when the last one goes, the region does.
HeapSound ==
  /\ [](Tiled /\ FreeIndexed /\ HeldKept)
  /\ IdleIsEmpty

-----------------------------------------------------------------------------
(* The mark-and-sweep collector of the global heap (src/src/gc.inl): one   *)
(* mark bit per block whose meaning flips with every pass, so that no pass *)
(* clears marks; a flag that lets a pass skip localdict as long as no      *)
(* store can have made it own a global block; pool free lists that are     *)
(* dropped; and journals of a save as roots.                               *)
(*                                                                         *)
(* A container, global block or local box, has one slot.                   *)
(*   alive      live global blocks and names                               *)
(*   mark, curGen   m_mark_gen of each block, m_gc_current_gen             *)
(*   slot       what each container holds, or Nil                          *)
(*   onStack    what the stacks and the coroutines hold                    *)
(*   pooled     blocks in a runtime free list (monitors, contexts, ...)    *)
(*   saving, jour   is a save in force, and its journal: box -> old slot   *)
(*   maybeGlobal    m_localdict_maybe_global                               *)

CONSTANTS
  GBlocks, GNames,   \* global blocks with a slot; global name blocks
  LBoxes, Home,      \* local containers; localdict, one of them
  Nil,
  MaxHand,           \* bound: references on the stacks
  VrgDepth,          \* VRG_MAX_DEPTH
  VisitedCap,        \* capacity of the visited set of the scratch block
  GrowFails,         \* may the visited set fail to grow (vm-full in a pass)?
  JournalsGlobals    \* may a save journal the last local reference to a block?

ASSUME CollectorAssumption == Home \in LBoxes /\ Cardinality(LBoxes) >= 2 /\ VrgDepth \in Nat

VARIABLES alive, mark, curGen, slot, onStack, pooled, saving, jour, maybeGlobal

gcVars == <<alive, mark, curGen, slot, onStack, pooled, saving, jour, maybeGlobal>>

Globals == GBlocks \cup GNames
Owners == GBlocks \cup LBoxes
JournalHolds == Range([b \in DOMAIN jour |-> jour[b]])

CollectorInit ==
  /\ alive = {} /\ mark = [g \in Globals |-> 0] /\ curGen = 0
  /\ slot = [c \in Owners |-> Nil] /\ onStack = {} /\ pooled = {}
  /\ saving = FALSE /\ jour = << >> /\ maybeGlobal = FALSE

\* What is reached from a set of references, not looking into skipped.
Closure(refs, skipped) ==
  FoldLeft(LAMBDA S, i : S \cup ({slot[x] : x \in (S \cap Owners) \ skipped} \ {Nil}),
           refs \ {Nil}, [i \in 1..Cardinality(Owners) |-> i])

-----------------------------------------------------------------------------
(* The program *)

\* Mutant: only the top level of the stored value is looked at.
vrg_shallow(r) == r \in GBlocks

\* value_reaches_global: a global block other than a name below r, or more
\* nesting than the workspace has frames.
value_reaches_global(r) ==
  LET Down[n \in 0..VrgDepth] == IF n = 0 THEN r
                                 ELSE IF Down[n - 1] \in LBoxes THEN slot[Down[n - 1]] ELSE Down[n - 1]
  IN  Down[VrgDepth] \in GBlocks \cup LBoxes

\* note_global_into_local, called by every store.
note_global_into_local(c, r) ==
  maybeGlobal' = (maybeGlobal \/ (c \in LBoxes /\ (r \in GBlocks \/ (alive # {} /\ value_reaches_global(r)))))

Hold(r) == onStack' = onStack \cup {r} /\ Cardinality(onStack') <= MaxHand

\* A fresh block carries the bit of the pass before.
NewBlock(b) ==
  /\ b \notin alive
  /\ alive' = alive \cup {b} /\ mark' = [mark EXCEPT ![b] = curGen]
  /\ slot' = IF b \in GBlocks THEN [slot EXCEPT ![b] = Nil] ELSE slot
  /\ Hold(b)
  /\ UNCHANGED <<curGen, pooled, saving, jour, maybeGlobal>>

NewBox(l) ==
  /\ l \notin Closure(onStack \cup {Home} \cup JournalHolds \cup DOMAIN jour, {})
  /\ slot' = [slot EXCEPT ![l] = Nil] /\ Hold(l)
  /\ UNCHANGED <<alive, mark, curGen, pooled, saving, jour, maybeGlobal>>

Fetch(c) ==
  /\ slot[c] # Nil /\ Hold(slot[c])
  /\ UNCHANGED <<alive, mark, curGen, slot, pooled, saving, jour, maybeGlobal>>

LetGo(r) ==
  /\ onStack' = onStack \ {r}
  /\ UNCHANGED <<alive, mark, curGen, slot, pooled, saving, jour, maybeGlobal>>

\* def, put, ...: a global container takes no local box; a local one is
\* journaled once per save.
PutRef(c, r) ==
  /\ c # r /\ c \in GBlocks => r \in Globals
  /\ r = Home => FALSE
  /\ LET journals == saving /\ c \in LBoxes /\ c \notin DOMAIN jour
     IN  /\ (journals /\ ~JournalsGlobals) => Closure({slot[c]}, {}) \cap GBlocks = {}
         /\ jour' = IF journals
                    THEN [b \in DOMAIN jour \cup {c} |-> IF b = c THEN slot[c] ELSE jour[b]]
                    ELSE jour
  /\ slot' = [slot EXCEPT ![c] = r] /\ onStack' = onStack \ {r}
  /\ note_global_into_local(c, r)
  /\ UNCHANGED <<alive, mark, curGen, pooled, saving>>

\* undef, or a store of a scalar.
Clear(c) ==
  /\ slot[c] # Nil
  /\ LET journals == saving /\ c \in LBoxes /\ c \notin DOMAIN jour
     IN  /\ (journals /\ ~JournalsGlobals) => Closure({slot[c]}, {}) \cap GBlocks = {}
         /\ jour' = IF journals
                    THEN [b \in DOMAIN jour \cup {c} |-> IF b = c THEN slot[c] ELSE jour[b]]
                    ELSE jour
  /\ slot' = [slot EXCEPT ![c] = Nil]
  /\ UNCHANGED <<alive, mark, curGen, onStack, pooled, saving, maybeGlobal>>

\* A runtime block that nothing else refers to goes to its free list, and the
\* next request takes it from there.
Recycle(b) ==
  /\ b \notin Closure((onStack \ {b}) \cup {Home} \cup JournalHolds, {})
  /\ onStack' = onStack \ {b} /\ pooled' = pooled \cup {b}
  /\ slot' = [slot EXCEPT ![b] = Nil]
  /\ UNCHANGED <<alive, mark, curGen, saving, jour, maybeGlobal>>

Reuse(b) ==
  /\ pooled' = pooled \ {b} /\ Hold(b)
  /\ UNCHANGED <<alive, mark, curGen, slot, saving, jour, maybeGlobal>>

SaveHere ==
  /\ ~saving /\ saving' = TRUE
  /\ UNCHANGED <<alive, mark, curGen, slot, onStack, pooled, jour, maybeGlobal>>

\* replay_journals writes the old slots back, past every write barrier.
ReplayHere ==
  /\ saving /\ saving' = FALSE /\ jour' = << >>
  /\ slot' = [c \in Owners |-> IF c \in DOMAIN jour THEN jour[c] ELSE slot[c]]
  /\ UNCHANGED <<alive, mark, curGen, onStack, pooled, maybeGlobal>>

-----------------------------------------------------------------------------
(* A pass *)

\* walk_all_roots: the stacks, the names, the journals and the owners they
\* pin; localdict only if the flag is set.
walk_all_roots == onStack \cup (GNames \cap alive) \cup JournalHolds
Skipped == IF maybeGlobal THEN {} ELSE {Home}

\* gc_mark_object: blocks that already carry the bit g are not entered.
Reached(refs, g) ==
  Closure(refs, Skipped \cup {b \in GBlocks : mark[b] = g})
Marked(refs, g) == {b \in Reached(refs, g) \cap alive : mark[b] # g}

\* The local boxes of a pass, each recorded in the visited set once.
Visits(g) == (Reached(walk_all_roots \cup ({Home} \ Skipped), g) \cap LBoxes) \ {Home}

\* vm_global_gc_impl first forgets every pool head.
PoolDrained == {}

\* The flag after the pass over localdict alone, which comes first.
FlagAfter(g) ==
  maybeGlobal /\ Marked({slot[Home]}, g) \ GNames # {}

\* A pass that completes: mark, then free every block without the new bit.
\* The sweep is skipped when all blocks have been marked.
vm_global_gc_pass ==
  LET g == 1 - curGen
      roots == walk_all_roots \cup (IF maybeGlobal THEN {slot[Home]} ELSE {})
      marked == Marked(roots, g)
  IN  /\ curGen' = g /\ pooled' = PoolDrained
      /\ IF alive = {} THEN UNCHANGED <<alive, mark, maybeGlobal>>
         ELSE /\ mark' = [b \in Globals |-> IF b \in marked THEN g ELSE IF b \in alive THEN mark[b] ELSE 0]
              /\ maybeGlobal' = FlagAfter(g)
              /\ alive' = IF Cardinality(marked) = Cardinality(alive) THEN alive
                          ELSE {b \in alive : b \in marked \/ mark[b] = g}
      /\ slot' = [c \in Owners |-> IF c \in GBlocks \ alive' THEN Nil ELSE slot[c]]
      /\ UNCHANGED <<onStack, saving, jour>>

\* grow_gc_local_visited raises vm-full: the queues are drained, the bits
\* that were set and the flipped generation stay.
PassAborts(part) ==
  LET g == 1 - curGen
      roots == walk_all_roots \cup (IF maybeGlobal THEN {slot[Home]} ELSE {})
  IN  /\ GrowFails /\ alive # {} /\ Cardinality(Visits(g)) > VisitedCap
      /\ part \subseteq Marked(roots, g) /\ \A b \in part : b \in Closure(roots, Skipped \cup (GBlocks \ part))
      /\ mark' = [b \in Globals |-> IF b \in part THEN g ELSE mark[b]]
      /\ curGen' = g /\ pooled' = PoolDrained
      /\ maybeGlobal' \in {maybeGlobal, FlagAfter(g)}
      /\ UNCHANGED <<alive, slot, onStack, saving, jour>>

\* vm-global-gc-probe and vm-heap-verify: mark, count, put the bits and the
\* generation back.
ProbeOrVerify ==
  /\ alive # {}
  /\ mark' = [b \in Globals |-> IF b \in alive THEN curGen ELSE mark[b]]
  /\ UNCHANGED <<alive, curGen, slot, onStack, pooled, saving, jour, maybeGlobal>>

CollectorNext ==
  \/ \E b \in Globals : NewBlock(b)
  \/ \E l \in LBoxes : NewBox(l)
  \/ \E c \in (onStack \cap Owners) \cup {Home} : Fetch(c) \/ Clear(c) \/ \E r \in onStack : PutRef(c, r)
  \/ \E r \in onStack : LetGo(r)
  \/ \E b \in onStack \cap GBlocks : Recycle(b)
  \/ \E b \in pooled : Reuse(b)
  \/ SaveHere \/ ReplayHere
  \/ vm_global_gc_pass \/ ProbeOrVerify
  \/ \E part \in SUBSET alive : PassAborts(part)

CollectorSpec == CollectorInit /\ [][CollectorNext]_gcVars

-----------------------------------------------------------------------------
(* Properties *)

InReach == Closure(onStack \cup {Home} \cup JournalHolds, {})

\* No pass frees a block the program can still reach from its stacks, from
\* localdict or through a restore, and no free list keeps one that was freed.
ReachableKept == (InReach \cap Globals) \cup pooled \subseteq alive

\* The oracle of the debug build: "localdict skipped by GC but reaches a
\* non-name live global block" never fires.
SkipSound == ~maybeGlobal => Closure({slot[Home]}, {}) \cap GBlocks = {}

\* A pass that completes leaves no garbage.
PassExact ==
  [][curGen' # curGen => alive' = (InReach \cap GBlocks) \cup (GNames \cap alive)]_gcVars

\* A pass frees nothing that is in reach, may skip what it skips, and when it
\* completes has freed everything else.
CollectorSound ==
  /\ [](ReachableKept /\ SkipSound)
  /\ PassExact

=============================================================================
