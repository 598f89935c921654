---------------------------- MODULE SaveRestore ----------------------------
(***************************************************************************)
(* save and restore (src/src/save.inl): the save stack, the journals, the  *)
(* checks a restore makes of the stacks, and the writes that are or are    *)
(* not journaled.  What restore does to the scheduler's lists is in        *)
(* SaveScheduler, what it does to 64- and 128-bit scalars in HeapCells.    *)
(*                                                                         *)
(* An offset is a word of the local heap.  An array has one slot and takes *)
(* a word; so do a dictionary, a barrier and a journal entry.  Word 0 is   *)
(* an array made before the program started and named in localdict.  A     *)
(* value is the offset of a block, or Atom, which stands for every value   *)
(* that is not one; Null is the unbound logic variable.  A slot also       *)
(* records the save level it was last written at.                          *)
(*                                                                         *)
(*   brk      m_vm_ptr: the first free word                                *)
(*   heap     the slots of the blocks below brk                            *)
(*   kept     the slot of an array in global memory                        *)
(*   lvar     the binding cell of a logic variable in global memory        *)
(*   saves    m_save_stack: barrier, journal (newest first) and, for the   *)
(*            properties, the slots as they were when the save was made    *)
(*   gens     m_save_generation                                            *)
(*   tokens   the tokens a program may still hold, with their barrier and  *)
(*            generation                                                   *)
(*   ops      blocks on each coroutine's operand and execution stack       *)
(*   dicts    each coroutine's dictionary stack above the system's own     *)
(*   pool     m_frame_dict_pool, one bucket                                *)
(*   cur      m_running_coroutine                                          *)
(*   act      m_activation_sl                                              *)
(*   outcome  how the last operator ended                                  *)
(*   writes   counts the writes to slots, up to MaxWrites                  *)
(***************************************************************************)
EXTENDS Integers, Sequences, SequencesExt, FiniteSetsExt, Bitwise

CONSTANTS
  Co,             \* coroutines
  Words,          \* the size of the local heap
  MaxSaveLevel,   \* m_max_save_level
  GenMod,         \* SaveGenerationMask + 1
  MaxHeld,        \* bound: blocks on the stacks and in the pool
  MaxWrites,      \* bound: writes to slots
  MaxWork,        \* bound: writes made, and two for each block held
  StaleTokens,    \* do programs restore to tokens of saves that are gone?
  SaveThenYield   \* do coroutines yield with blocks above a save they made in the same turn?

ASSUME SaveAssumptions == /\ Words \in Nat \ {0} /\ MaxSaveLevel \in Nat /\ GenMod \in Nat \ {0}
                          /\ {StaleTokens, SaveThenYield} \subseteq BOOLEAN

VARIABLES brk, heap, kept, lvar, saves, gens, tokens, ops, dicts, pool, cur, act, outcome, writes

mem == <<brk, heap, kept, lvar>>
stacks == <<ops, dicts, pool>>
saveVars == <<mem, saves, gens, tokens, stacks, cur, act, outcome, writes>>

Null == -1
Atom == -2
BASE == 0
Slot(v, l) == [val |-> v, lev |-> l]
Level == Len(saves)
Barrier(l) == saves[l].barrier
LvarCell == Words       \* where a journal entry says the logic variable is

SaveInit ==
  /\ brk = 1 /\ heap = << Slot(Atom, BASE) >>
  /\ kept = Atom /\ lvar = Slot(Null, BASE)
  /\ saves = << >> /\ gens = [l \in 1..(MaxSaveLevel - 1) |-> 0] /\ tokens = {}
  /\ ops = [c \in Co |-> << >>] /\ dicts = [c \in Co |-> << >>] /\ pool = << >>
  /\ cur \in Co /\ act = [c \in Co |-> BASE] /\ outcome = "ok" /\ writes = 0

At(o) == heap[o + 1]
SlotAt(o) == IF o = LvarCell THEN lvar ELSE At(o)

\* A word of new local storage, at the level in force.
Grown(h, l) == Append(h, Slot(Atom, l))

-----------------------------------------------------------------------------
(* The journal *)

\* save_data: the entry for a slot about to be overwritten, unless the newest
\* entry is already for that slot.
Journaled(o) ==
  LET log == saves[Level].log
  IN  IF log # << >> /\ Head(log).at = o THEN saves
      ELSE [saves EXCEPT ![Level].log = << [at |-> o, was |-> SlotAt(o)] >> \o @]

EntryFits(o) == Journaled(o) = saves \/ brk < Words

\* The word an entry takes.
JournalWord(o, h) == IF Journaled(o) = saves THEN h ELSE Grown(h, Level)

\* The values the running coroutine can name.
InHand == {Atom} \cup Range(ops[cur])
Containers == {0} \cup Range(ops[cur])

Done == outcome' = "ok"

Held == Len(pool) + FoldFunction(+, 0, [c \in Co |-> Len(ops[c]) + Len(dicts[c])])

CanHold == brk < Words /\ Held < MaxHeld /\ writes + 2 * Held + 2 <= MaxWork
CanWrite == writes < MaxWrites /\ writes + 2 * Held + 1 <= MaxWork

\* Mutant: a slot written inside any save is taken for one that needs no entry.
WrittenInSave(o) == At(o).lev \in {Level} \cup 1..Level

\* The level stamped on a slot tells whether the save in force has its old value.
WrittenHere(o) == At(o).lev = Level

\* put_op into a local array.
Put(o, v) ==
  /\ IF WrittenHere(o)
     THEN /\ heap' = [heap EXCEPT ![o + 1] = Slot(v, Level)]
          /\ UNCHANGED <<brk, saves>>
          /\ Done
     ELSE IF Level = BASE
     THEN outcome' = "invalid-restore" /\ UNCHANGED <<heap, brk, saves>>
     ELSE /\ EntryFits(o)
          /\ saves' = Journaled(o)
          /\ heap' = [JournalWord(o, heap) EXCEPT ![o + 1] = Slot(v, Level)]
          /\ brk' = Len(heap')
          /\ Done
  /\ UNCHANGED <<kept, lvar, gens, tokens, stacks, cur, act>>

\* put_persist_op, array path, with a save active: no journal, and the slot is
\* stamped BASE.  Programs persist values made before the outermost save, into
\* slots that no save in force has journaled.
PutPersist(o, v) ==
  /\ Level # BASE
  /\ v < Barrier(1)
  /\ \A l \in 1..Level : \A i \in DOMAIN saves[l].log : saves[l].log[i].at # o
  /\ heap' = [heap EXCEPT ![o + 1] = Slot(v, BASE)]
  /\ saves' = [l \in 1..Level |-> [saves[l] EXCEPT
                 !.image = [i \in DOMAIN @ |-> IF i = o + 1 THEN Slot(v, BASE) ELSE @[i]]]]
  /\ Done
  /\ UNCHANGED <<brk, kept, lvar, gens, tokens, stacks, cur, act>>

\* is_restore_fragile_local, reject_local_into_global
is_restore_fragile_local(v) == Level # BASE /\ v >= Barrier(1)

\* put_op into a global array.
PutGlobal(v) ==
  /\ ~is_restore_fragile_local(v)
  /\ kept' = v
  /\ Done
  /\ UNCHANGED <<brk, heap, lvar, saves, gens, tokens, stacks, cur, act>>

\* lvar_bind of a logic variable in global memory.
Bind(v) ==
  /\ IF lvar.lev = Level \/ Level = BASE
     THEN UNCHANGED <<brk, heap, saves>>
     ELSE /\ EntryFits(LvarCell)
          /\ saves' = Journaled(LvarCell)
          /\ heap' = JournalWord(LvarCell, heap)
          /\ brk' = Len(heap')
  /\ lvar' = Slot(v, Level)
  /\ Done
  /\ UNCHANGED <<kept, gens, tokens, stacks, cur, act>>

-----------------------------------------------------------------------------
(* Blocks and stacks of the running coroutine *)

\* array_op: a new array, on the operand stack.
MakeArray ==
  /\ CanHold
  /\ heap' = Grown(heap, Level) /\ brk' = brk + 1
  /\ ops' = [ops EXCEPT ![cur] = Append(@, brk)]
  /\ Done
  /\ UNCHANGED <<kept, lvar, saves, gens, tokens, dicts, pool, cur, act>>

Drop ==
  /\ ops[cur] # << >>
  /\ ops' = [ops EXCEPT ![cur] = Front(@)]
  /\ Done
  /\ UNCHANGED <<mem, saves, gens, tokens, dicts, pool, cur, act>>

\* begin of a new dictionary, or the frame of a |locals| procedure, which
\* comes from the frame pool when that has one.
Begin(frame) ==
  LET pooled == frame /\ pool # << >>
      d == IF pooled THEN Head(pool) ELSE brk
  IN  /\ pooled \/ CanHold
      /\ IF pooled THEN UNCHANGED <<heap, brk>> ELSE heap' = Grown(heap, Level) /\ brk' = brk + 1
      /\ pool' = IF pooled THEN Tail(pool) ELSE pool
      /\ dicts' = [dicts EXCEPT ![cur] = Append(@, [off |-> d, frame |-> frame])]
      /\ Done
      /\ UNCHANGED <<kept, lvar, saves, gens, tokens, ops, cur, act>>

\* end, or the end of a |locals| procedure, which recycles the frame.
End ==
  /\ dicts[cur] # << >>
  /\ dicts' = [dicts EXCEPT ![cur] = Front(@)]
  /\ pool' = IF Last(dicts[cur]).frame THEN << Last(dicts[cur]).off >> \o pool ELSE pool
  /\ Done
  /\ UNCHANGED <<mem, saves, gens, tokens, ops, cur, act>>

\* Blocks of c above the barrier of level l.
Above(c, b) == \E o \in Range(ops[c]) \cup {d.off : d \in Range(dicts[c])} : o >= b

\* A switch to another coroutine: coroutine_load stamps the activation level.
Switch(c) ==
  /\ c # cur
  /\ SaveThenYield \/ \A l \in (act[cur] + 1)..Level : ~Above(cur, Barrier(l))
  /\ cur' = c
  /\ act' = [act EXCEPT ![c] = Level]
  /\ Done
  /\ UNCHANGED <<mem, saves, gens, tokens, stacks>>

-----------------------------------------------------------------------------
(* save and restore *)

\* pack_token: the level, and generation and barrier folded into one field.
\* Barriers are multiples of four.
Packed(l, g, b) == [level |-> l, field |-> g ^^ ((4 * b) % GenMod)]

Save ==
  LET l == Level + 1
      g == (gens[l] + 1) % GenMod
  IN  /\ l < MaxSaveLevel
      /\ brk < Words
      /\ heap' = Grown(heap, Level) /\ brk' = brk + 1
      /\ saves' = Append(saves, [barrier |-> brk, log |-> << >>, image |-> heap, bound |-> lvar])
      /\ gens' = [gens EXCEPT ![l] = g]
      /\ tokens' = (IF StaleTokens THEN tokens ELSE {t \in tokens : t.level # l})
                     \cup {[level |-> l, gen |-> g, barrier |-> brk]}
      /\ Done
      /\ UNCHANGED <<kept, lvar, stacks, cur, act>>

\* validate_token
ValidToken(t) ==
  /\ t.level \in 1..Level
  /\ Packed(t.level, t.gen, t.barrier) = Packed(t.level, gens[t.level], Barrier(t.level))

\* Mutant: the journals are replayed outermost level first.
replay_outwards(r) ==
  FoldLeft(LAMBDA s, e : [s EXCEPT ![e.at + 1] = e.was],
           Append(heap \o [i \in 1..(Words - brk) |-> Slot(Atom, BASE)], lvar),
           FlattenSeq([i \in 1..(Level - r + 1) |-> saves[r + i - 1].log]))

\* replay_journals: the slots after the journals of the levels down to r, each
\* newest entry first; the logic variable comes last.
replay_journals(r) ==
  FoldLeft(LAMBDA s, e : [s EXCEPT ![e.at + 1] = e.was],
           Append(heap \o [i \in 1..(Words - brk) |-> Slot(Atom, BASE)], lvar),
           FlattenSeq([i \in 1..(Level - r + 1) |-> saves[Level - i + 1].log]))

\* check_stack, on operand, execution and error stack
check_stack(c, b) == \A o \in Range(ops[c]) : o < b

\* check_and_compact_dict_stack: the check, and what is left of the stack
dict_stack_ok(c, b) == \A d \in Range(dicts[c]) : d.off >= b => d.frame
compacted(c, b) == SelectSeq(dicts[c], LAMBDA d : d.off < b)

\* check_suspended_dict_stack
check_suspended_dict_stack(c, b) == \A d \in Range(dicts[c]) : d.off < b

\* Mutant: coroutines that ran at the level restored are not looked at.
ScannedAbove(r) == {c \in Co \ {cur} : act[c] > r}

\* The suspended coroutines a restore to level r looks at.
Scanned(r) == {c \in Co \ {cur} : act[c] >= r}

\* prune_dict_chain
prune_dict_chain(b) == SelectSeq(pool, LAMBDA o : o < b)

\* restore of level r when everything is in order.
Rollback(r) ==
  LET b == Barrier(r)
      slots == replay_journals(r)
  IN  /\ heap' = SubSeq(slots, 1, b)
      /\ lvar' = slots[Words + 1]
      /\ brk' = b
      /\ saves' = SubSeq(saves, 1, r - 1)
      /\ dicts' = [dicts EXCEPT ![cur] = compacted(cur, b)]
      /\ pool' = prune_dict_chain(b)
      /\ tokens' = IF StaleTokens THEN tokens ELSE {t \in tokens : t.level < r}
      /\ Done
      /\ UNCHANGED <<kept, gens, ops, cur, act>>

\* A restore that fails one of its checks of the stacks.  By the time the
\* suspended coroutines are checked, the running one's dictionary stack has
\* been compacted.
Rejected(r) ==
  LET b == Barrier(r)
      late == check_stack(cur, b) /\ dict_stack_ok(cur, b)
  IN  /\ outcome' = "invalid-restore"
      /\ dicts' = IF late THEN [dicts EXCEPT ![cur] = compacted(cur, b)] ELSE dicts
      /\ UNCHANGED <<mem, saves, gens, tokens, ops, pool, cur, act>>

restore(r) ==
  LET b == Barrier(r)
      sound == /\ check_stack(cur, b) /\ dict_stack_ok(cur, b)
               /\ \A c \in Scanned(r) : check_stack(c, b) /\ check_suspended_dict_stack(c, b)
  IN  IF sound THEN Rollback(r) ELSE Rejected(r)

\* restore_signed_token with a token, and with -n.
RestoreToken(t) == ValidToken(t) /\ restore(t.level)
RestoreRelative(n) == n \in 1..Level /\ restore(Level - n + 1)

SaveNext ==
  \/ /\ CanWrite /\ writes' = writes + 1
     /\ \E v \in InHand :
          \/ \E o \in Containers : Put(o, v) \/ PutPersist(o, v)
          \/ PutGlobal(v)
          \/ Bind(v)
  \/ /\ UNCHANGED writes
     /\ \/ MakeArray \/ Drop \/ End \/ Save
        \/ \E frame \in BOOLEAN : Begin(frame)
        \/ \E c \in Co : Switch(c)
        \/ \E t \in tokens : RestoreToken(t)
        \/ \E n \in 1..MaxSaveLevel : RestoreRelative(n)

SaveSpec == SaveInit /\ [][SaveNext]_saveVars

-----------------------------------------------------------------------------
(* Properties *)

\* Every variable has its type; barriers ascend, below the break.
SaveTypeOK ==
  /\ brk = Len(heap) /\ brk \in 1..Words
  /\ \A i \in 1..brk : heap[i] \in [val : -2..(Words - 1), lev : 0..MaxSaveLevel]
  /\ \A l \in 1..Level : Barrier(l) < brk /\ (l > 1 => Barrier(l - 1) < Barrier(l))
  /\ Held <= MaxHeld
  /\ outcome \in {"ok", "invalid-restore"}

Live(v) == v < brk

\* Nothing that survives a restore refers to storage the restore gave back:
\* no stack of any coroutine, no slot, no global block and no pooled frame.
NoDangling ==
  /\ \A c \in Co : (\A o \in Range(ops[c]) : Live(o)) /\ (\A d \in Range(dicts[c]) : Live(d.off))
  /\ \A i \in 1..brk : Live(heap[i].val)
  /\ Live(kept) /\ Live(lvar.val) /\ \A o \in Range(pool) : Live(o)

\* A slot never carries a level above the one in force: a put at BASE would
\* take it for a slot to be journaled and fail, with no save to journal it in.
NoLevelLeft == /\ \A i \in 1..brk : heap[i].lev <= Level
               /\ lvar.lev <= Level

\* Whatever was written since a save, in whatever order and at however many
\* levels, a restore puts every older slot and every binding back as it was,
\* except for what was persisted.
RestoreUndoes ==
  [][Level' < Level => /\ heap' = saves[Level' + 1].image
                       /\ lvar' = saves[Level' + 1].bound]_saveVars

\* "An invalid restore ... raises a catchable error with the VM untouched."
RejectedUntouched ==
  [][outcome' = "invalid-restore" => UNCHANGED <<mem, saves, stacks>>]_saveVars

\* "Stale tokens (slot recycled by a subsequent save+restore cycle) raise
\* /invalid-restore": a token that validates is the token of a save in force.
StaleRejected ==
  \A t \in tokens : ValidToken(t) => t.gen = gens[t.level] /\ t.barrier = Barrier(t.level)

\* What survives a restore refers only to what survives it, and carries no
\* level that is gone.
SaveSound == SaveTypeOK /\ NoDangling /\ NoLevelLeft

=============================================================================
