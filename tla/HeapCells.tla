----------------------------- MODULE HeapCells -----------------------------
(***************************************************************************)
(* The heap cells behind 64- and 128-bit scalars (Object::ExtValue and     *)
(* Object::WideValue, src/src/object.inl): one cell per object, recycled   *)
(* through one free list per save level, and moved below the barrier by a  *)
(* restore when an object on a stack still needs its cell.                 *)
(*                                                                         *)
(* An offset is an 8-byte word; an ExtValue takes one, a WideValue two, a  *)
(* save barrier one.  An object is [off, wide, lev, tag]: its cell, the    *)
(* save level the object carries and a tag that stands for its value.      *)
(*                                                                         *)
(*   word    what each word of the heap holds                              *)
(*   cbrk    m_vm_ptr                                                      *)
(*   csaves  per save level, its barrier and the journaled old content of  *)
(*           the slot, if there is one                                     *)
(*   hand    the objects on the operand stack                              *)
(*   box     the object in an array slot made before any save, or Nothing  *)
(*   eFree, wFree   m_extvalue_free_list, m_widevalue_free_list by level   *)
(***************************************************************************)
EXTENDS Integers, Sequences, SequencesExt, FiniteSetsExt

CONSTANTS
  CellWords,     \* the size of the local heap
  CellLevels,    \* m_max_save_level - 1
  Tags,          \* bound: values in play
  MixedWidths    \* do programs hold 64- and 128-bit values at once?

VARIABLES word, cbrk, csaves, hand, box, eFree, wFree

cellVars == <<word, cbrk, csaves, hand, box, eFree, wFree>>

Dead == 0                \* the sentinel of a freed cell
Nothing == [off |-> 0, wide |-> FALSE, lev |-> 0, tag |-> 0]
CellLevel == Len(csaves)
Empty == [l \in 0..CellLevels |-> << >>]

CellInit ==
  /\ word = [o \in 0..(CellWords - 1) |-> Dead] /\ cbrk = 1
  /\ csaves = << >> /\ hand = << >> /\ box = Nothing
  /\ eFree = Empty /\ wFree = Empty

WordsOf(off, wide) == IF wide THEN {off, off + 1} ELSE {off}
Filled(w, off, wide, t) == [o \in DOMAIN w |-> IF o \in WordsOf(off, wide) THEN t ELSE w[o]]

\* alloc_local: from the free list of the level in force, else fresh.
alloc_local(free, brk, lev, wide) ==
  IF free[lev] # << >>
  THEN [off |-> Head(free[lev]), free |-> [free EXCEPT ![lev] = Tail(@)], brk |-> brk]
  ELSE [off |-> brk, free |-> free, brk |-> brk + (IF wide THEN 2 ELSE 1)]

\* make_long, make_int128, ...: a value in a cell of its own.
Make(t, wide) ==
  LET a == alloc_local(IF wide THEN wFree ELSE eFree, cbrk, CellLevel, wide)
  IN  /\ \A x \in Range(hand) \cup {box} : x.tag # t
      /\ \A l \in DOMAIN csaves : csaves[l].was.tag # t
      /\ MixedWidths \/ \A x \in Range(hand) : x.wide = wide
      /\ a.brk <= CellWords
      /\ hand' = Append(hand, [off |-> a.off, wide |-> wide, lev |-> CellLevel, tag |-> t])
      /\ word' = Filled(word, a.off, wide, t)
      /\ cbrk' = a.brk
      /\ IF wide THEN wFree' = a.free /\ UNCHANGED eFree ELSE eFree' = a.free /\ UNCHANGED wFree
      /\ UNCHANGED <<csaves, box>>

\* free: the cell goes to the list of the level its object carries.
Freed(free, x) == [free EXCEPT ![x.lev] = << x.off >> \o @]

\* An operator consumes its operand.
Consume(i) ==
  LET x == hand[i]
  IN  /\ hand' = RemoveAt(hand, i)
      /\ word' = Filled(word, x.off, x.wide, Dead)
      /\ IF x.wide THEN wFree' = Freed(wFree, x) /\ UNCHANGED eFree
                   ELSE eFree' = Freed(eFree, x) /\ UNCHANGED wFree
      /\ UNCHANGED <<cbrk, csaves, box>>

\* put_op: the object moves into the slot and takes the level in force.  What
\* was there is freed if it was put at this level, else journaled.
Store(i) ==
  LET x == hand[i]
      fresh == box = Nothing \/ box.lev # CellLevel
  IN  /\ ~x.wide
      /\ box' = [x EXCEPT !.lev = CellLevel]
      /\ hand' = RemoveAt(hand, i)
      /\ IF fresh THEN UNCHANGED <<word, eFree>>
         ELSE /\ word' = Filled(word, box.off, FALSE, Dead)
              /\ eFree' = Freed(eFree, box)
      /\ csaves' = IF CellLevel = 0 \/ ~fresh \/ csaves[CellLevel].put THEN csaves
                   ELSE [csaves EXCEPT ![CellLevel] = [@ EXCEPT !.put = TRUE, !.was = box]]
      /\ UNCHANGED <<cbrk, wFree>>

MakeSave ==
  /\ CellLevel < CellLevels /\ cbrk < CellWords
  /\ csaves' = Append(csaves, [barrier |-> cbrk, put |-> FALSE, was |-> Nothing])
  /\ cbrk' = cbrk + 1
  /\ word' = Filled(word, cbrk, FALSE, Dead)
  /\ UNCHANGED <<hand, box, eFree, wFree>>

\* The journals of the levels down to r give the slot its old content back.
Unboxed(r) ==
  LET put == {l \in r..CellLevel : csaves[l].put}
  IN  IF put = {} THEN box ELSE csaves[Min(put)].was

\* find_lowest_relocatable: positions of the objects of one width whose cell
\* lies at or above the break; the lowest cell first.
find_lowest_relocatable(h, brk, wide) ==
  {i \in DOMAIN h : /\ h[i].wide = wide /\ h[i].off >= brk
                    /\ \A j \in DOMAIN h : (h[j].wide = wide /\ h[j].off >= brk) => h[i].off <= h[j].off}

\* Mutant: the objects are moved from the top of the stack down.
MoveTopmost(s, wide) ==
  LET found == {i \in DOMAIN s.hand : s.hand[i].wide = wide /\ s.hand[i].off >= s.brk}
      i == Max(found)
      a == alloc_local(s.free, s.brk, s.lev, wide)
  IN  IF found = {} THEN s
      ELSE [s EXCEPT !.hand[i].off = a.off, !.hand[i].lev = s.lev, !.free = a.free, !.brk = a.brk,
                     !.word = [o \in DOMAIN @ |-> IF o \in WordsOf(a.off, wide)
                                                  THEN @[s.hand[i].off + (o - a.off)] ELSE @[o]]]

\* One round of ExtValue::restore or WideValue::restore.
MoveLowest(s, wide) ==
  LET found == find_lowest_relocatable(s.hand, s.brk, wide)
      i == Min(found)
      a == alloc_local(s.free, s.brk, s.lev, wide)
  IN  IF found = {} THEN s       \* the code raises internal-error here
      ELSE [s EXCEPT !.hand[i].off = a.off, !.hand[i].lev = s.lev, !.free = a.free, !.brk = a.brk,
                     !.word = [o \in DOMAIN @ |-> IF o \in WordsOf(a.off, wide)
                                                  THEN @[s.hand[i].off + (o - a.off)] ELSE @[o]]]

\* All of them: as many rounds as check_stack has counted objects above b.
Relocated(s, wide, b) ==
  LET n == Cardinality({i \in DOMAIN s.hand : s.hand[i].wide = wide /\ s.hand[i].off >= b})
  IN  FoldLeft(LAMBDA t, i : MoveLowest(t, wide), s, [i \in 1..n |-> i])

\* The free lists of the levels given up are dropped.
TrimmedLists(free, lev) == [l \in DOMAIN free |-> IF l > lev THEN << >> ELSE free[l]]

\* restore of level r: replay frees what the slot holds, and the lists above
\* r - 1 go; then first all ExtValues move, then all WideValues.
RestoreCells(r) ==
  LET b == csaves[r].barrier
      replayed == IF \E l \in r..CellLevel : csaves[l].put
                  THEN [word |-> Filled(word, box.off, FALSE, Dead), free |-> Freed(eFree, box)]
                  ELSE [word |-> word, free |-> eFree]
      s == [word |-> replayed.word, brk |-> b, hand |-> hand, lev |-> r - 1,
            free |-> TrimmedLists(replayed.free, r - 1)]
      e == Relocated(s, FALSE, b)
      w == Relocated([e EXCEPT !.free = TrimmedLists(wFree, r - 1)], TRUE, b)
  IN  /\ word' = w.word /\ cbrk' = w.brk /\ hand' = w.hand
      /\ eFree' = e.free /\ wFree' = w.free
      /\ box' = Unboxed(r)
      /\ csaves' = SubSeq(csaves, 1, r - 1)

CellNext ==
  \/ \E t \in Tags, wide \in BOOLEAN : Make(t, wide)
  \/ \E i \in DOMAIN hand : Consume(i) \/ Store(i)
  \/ MakeSave
  \/ \E r \in DOMAIN csaves : RestoreCells(r)

CellSpec == CellInit /\ [][CellNext]_cellVars

-----------------------------------------------------------------------------
(* Properties *)

InUse == Range(hand) \cup ({box} \ {Nothing})

\* "The value on the stack is unchanged": every 64- and 128-bit value keeps
\* its own cell, with its own bits, through frees, reuse, saves, journaled
\* overwrites and the relocations of a restore.
CellsIntact ==
  \A x \in InUse : \A o \in WordsOf(x.off, x.wide) : o < cbrk /\ word[o] = x.tag

\* What ExtValue::restore checks with an internal-error: a free list of a level
\* that survives a restore never holds a cell the restore gives back.  No cell
\* is in a free list twice, and none that an object uses is.
FreeListsSound ==
  \A l \in 0..CellLevels :
    /\ \A o \in Range(eFree[l]) \cup Range(wFree[l]) :
         /\ o < (IF l < CellLevel THEN csaves[l + 1].barrier ELSE cbrk)
         /\ word[o] = Dead
         /\ \A x \in InUse : o \notin WordsOf(x.off, x.wide)
    /\ IsInjective(eFree[l]) /\ IsInjective(wFree[l])
    /\ \A k \in 0..CellLevels : k # l => Range(eFree[k]) \cap Range(eFree[l]) = {}

\* A wide value keeps its cell and its bits, and the free lists of the levels
\* never hold a cell in use.
CellsSound == CellsIntact /\ FreeListsSound

=============================================================================
