----------------------------- MODULE OperandStack -----------------------------
(***************************************************************************)
(* The operators that move operands (src/src/ops_stack.inl).  An Object is *)
(* eight bytes; a 64- or 128-bit number keeps its value in a heap cell     *)
(* that the Object names.  So a move must leave one Object with the cell,  *)
(* a copy must have a cell of its own (make_clone), and what is discarded  *)
(* must give its cell back (maybe_free_extvalue).                          *)
(*                                                                         *)
(*   sk.op      the operand stack, the top last                            *)
(*   sk.exec    procedures to run, @dip and the operands hidden below it   *)
(*   sk.arr     the elements of the program's array                        *)
(*   sk.level   the save level of each element                             *)
(*   sk.global  is the array in global VM?                                 *)
(*   sk.jour    elements the journal keeps for restore                     *)
(*   sk.save    m_curr_save_level, 0 or 1; what a restore does is the      *)
(*              subject of SaveRestore and HeapCells                       *)
(*   sk.free    cells not in use;  sk.mem  the number in each cell         *)
(*   sk.born    the save level a cell was allocated at                     *)
(*   sk.lost    cells of elements overwritten in a global array            *)
(***************************************************************************)
EXTENDS Integers, Sequences, FiniteSets

CONSTANTS
  SkCells,      \* cells, by number
  SkNumbers,    \* bound: integers programs push
  SkWide,       \* those that are pushed as 64-bit numbers too
  SkSlots,      \* room on the operand stack and in the array
  SkExecSlots,  \* room on the execution stack
  SkHeld,       \* bound: operands and procedures on both stacks, journal entries, and array elements twice
  SkLengths,    \* lengths of the array
  SkFragile     \* may an operator fail after it has begun to change things?

ASSUME StackAssumption ==
  /\ SkNumbers \subseteq Int /\ SkWide \subseteq SkNumbers
  /\ SkSlots \in Nat /\ SkExecSlots \in Nat /\ SkHeld \in Nat /\ SkLengths \subseteq Nat
  /\ SkCells \subseteq Nat \ {0}

VARIABLE sk

\* No cell, and a cell that was freed while its Object stayed.
NoCell == 0
Void == -1

\* An operand: an integer, with its cell if it is wide, or something without a cell.
Item(kind, v, c) == [kind |-> kind, v |-> v, c |-> c]
Plain(v) == Item("int", v, NoCell)
Other(kind) == Item(kind, 0, NoCell)

-----------------------------------------------------------------------------
(* Operands and cells *)

Depth == Len(sk.op)
Length == Len(sk.arr)

\* Where an empty array is makes no difference, nor does a save around it.
StackInit ==
  /\ sk \in {[op |-> << >>, exec |-> << >>, arr |-> [i \in 1..n |-> Plain(0)], level |-> [i \in 1..n |-> 0],
              global |-> g, jour |-> << >>, save |-> 0, free |-> SkCells, mem |-> [c \in SkCells |-> 0],
              born |-> [c \in SkCells |-> 0], lost |-> {}] : n \in SkLengths, g \in BOOLEAN}
  /\ Length = 0 => ~sk.global

Nth(k) == sk.op[Depth - k]
Lower(k) == SubSeq(sk.op, 1, Depth - k)
Upper(k) == SubSeq(sk.op, Depth - k + 1, Depth)
CellsOf(items) == {items[i].c : i \in DOMAIN items} \cap SkCells

require_op_count(n) == Depth >= n
require_op_capacity(n) == Depth + n <= SkSlots - Length
require_exec_capacity(n) == Len(sk.exec) + n <= SkExecSlots
IsNumber(o) == o.kind = "int" /\ o.c # Void

\* Cells for clones of items out of the cells in room, one for each wide item, the lowest first (any would do).
Fresh(items, room) ==
  {f \in [DOMAIN items -> room \cup {NoCell}] :
     /\ \A i \in DOMAIN items : f[i] = NoCell <=> items[i].c \notin SkCells
     /\ \A i, j \in DOMAIN items : f[i] = f[j] /\ f[i] # NoCell => i = j
     /\ \A i \in DOMAIN items : \A c \in room : c < f[i] => \E j \in DOMAIN items : j < i /\ f[j] = c}
make_clones(items, f) == [i \in DOMAIN items |-> [items[i] EXCEPT !.c = f[i]]]

\* The state s in which the clones made got the values of items.
Supplied(s, items, f) ==
  LET Taken == {f[i] : i \in DOMAIN items} \cap SkCells
      Of(c) == CHOOSE i \in DOMAIN items : f[i] = c
  IN [s EXCEPT !.free = @ \ Taken,
               !.mem = [c \in SkCells |-> IF c \in Taken THEN items[Of(c)].v ELSE @[c]],
               !.born = [c \in SkCells |-> IF c \in Taken THEN s.save ELSE @[c]]]

\* A freed cell holds nothing.
Returned(s, cells) ==
  [s EXCEPT !.free = @ \cup cells,
            !.mem = [c \in SkCells |-> IF c \in cells THEN 0 ELSE @[c]],
            !.born = [c \in SkCells |-> IF c \in cells THEN 0 ELSE @[c]]]
maybe_free_extvalue(s, items) == Returned(s, CellsOf(items))

\* What is left of an operand whose cell was freed while it stays on the stack.
Gutted(o) == IF o.c \in SkCells THEN [o EXCEPT !.c = Void] ELSE o

-----------------------------------------------------------------------------
(* Moving, copying and discarding *)

pop ==
  /\ require_op_count(1)
  /\ sk' = maybe_free_extvalue([sk EXCEPT !.op = Lower(1)], Upper(1))

popn ==
  /\ require_op_count(1) /\ IsNumber(Nth(0)) /\ Nth(0).v \in 0..(Depth - 1)
  /\ LET n == Nth(0).v IN sk' = maybe_free_extvalue([sk EXCEPT !.op = Lower(n + 1)], Upper(n + 1))

exch == /\ require_op_count(2)
        /\ sk' = [sk EXCEPT !.op = Lower(2) \o <<Nth(0), Nth(1)>>]

\* over, dup: a clone of the operand at depth k on top.
PushClone(k) ==
  /\ require_op_count(k + 1) /\ require_op_capacity(1)
  /\ \E f \in Fresh(<<Nth(k)>>, sk.free) :
       sk' = [Supplied(sk, <<Nth(k)>>, f) EXCEPT !.op = @ \o make_clones(<<Nth(k)>>, f)]
over == PushClone(1)
dup == PushClone(0)

nip == /\ require_op_count(2)
       /\ sk' = maybe_free_extvalue([sk EXCEPT !.op = Lower(2) \o <<Nth(0)>>], <<Nth(1)>>)

tuck ==
  /\ require_op_count(2) /\ require_op_capacity(1)
  /\ \E f \in Fresh(<<Nth(0)>>, sk.free) :
       sk' = [Supplied(sk, <<Nth(0)>>, f) EXCEPT !.op = Lower(2) \o make_clones(<<Nth(0)>>, f) \o <<Nth(1), Nth(0)>>]

rot == /\ require_op_count(3)
       /\ sk' = [sk EXCEPT !.op = Lower(3) \o <<Nth(1), Nth(0), Nth(2)>>]
revrot == /\ require_op_count(3)
          /\ sk' = [sk EXCEPT !.op = Lower(3) \o <<Nth(0), Nth(2), Nth(1)>>]

\* The operand N is freed before the room for the copies is asked for, and the copies are above the top until all are made.
dupn ==
  /\ require_op_count(1) /\ IsNumber(Nth(0)) /\ Nth(0).v \in 0..(Depth - 1)
  /\ LET n == Nth(0).v
         src == SubSeq(sk.op, Depth - n, Depth - 1)
         freed == maybe_free_extvalue(sk, Upper(1))
     IN \/ /\ require_op_capacity(n - 1)
           /\ \E f \in Fresh(src, freed.free) :
                sk' = [Supplied(freed, src, f) EXCEPT !.op = Lower(1) \o make_clones(src, f)]
        \/ /\ SkFragile /\ ~require_op_capacity(n - 1)
           /\ sk' = [freed EXCEPT !.op = Lower(1) \o <<Gutted(Nth(0))>>]
        \/ /\ SkFragile /\ require_op_capacity(n - 1)
           /\ \E k \in 0..(n - 1) : \E f \in Fresh(SubSeq(src, 1, k), freed.free) :
                sk' = [Supplied(freed, SubSeq(src, 1, k), f) EXCEPT
                         !.op = Lower(1) \o (IF k = 0 THEN <<Gutted(Nth(0))>> ELSE <<make_clones(src, f)[1]>>)]

\* Like dup-n, index frees its operand before it makes the clone.
index ==
  /\ require_op_count(2) /\ IsNumber(Nth(0)) /\ Nth(0).v \in 0..(Depth - 2)
  /\ LET src == <<Nth(Nth(0).v + 1)>>
         freed == maybe_free_extvalue(sk, Upper(1))
     IN \/ \E f \in Fresh(src, freed.free) : sk' = [Supplied(freed, src, f) EXCEPT !.op = Lower(1) \o make_clones(src, f)]
        \/ SkFragile /\ src[1].c \in SkCells /\ sk' = [freed EXCEPT !.op = Lower(1) \o <<Gutted(Nth(0))>>]

\* Mutant: the amount of a downward roll is taken as it is.
RotatedUp(items, j) ==
  LET n == Len(items)
      k == (IF j < 0 THEN -j ELSE j) % n
  IN SubSeq(items, n - k + 1, n) \o SubSeq(items, 1, n - k)

\* std::rotate to the left or to the right by |j| % n.
Rotated(items, j) ==
  LET n == Len(items)
      k == (IF j < 0 THEN -j ELSE j) % n
  IN IF j < 0 THEN SubSeq(items, k + 1, n) \o SubSeq(items, 1, k)
     ELSE SubSeq(items, n - k + 1, n) \o SubSeq(items, 1, n - k)

roll ==
  /\ require_op_count(2) /\ IsNumber(Nth(0)) /\ IsNumber(Nth(1)) /\ Nth(1).v \in 0..(Depth - 2)
  /\ LET n == Nth(1).v
         items == SubSeq(sk.op, Depth - n - 1, Depth - 2)
     IN sk' = maybe_free_extvalue([sk EXCEPT !.op = Lower(n + 2) \o (IF n = 0 THEN << >> ELSE Rotated(items, Nth(0).v))], Upper(2))

clear == sk' = maybe_free_extvalue([sk EXCEPT !.op = << >>], sk.op)

count == require_op_capacity(1) /\ sk' = [sk EXCEPT !.op = Append(@, Plain(Depth))]

push_mark == require_op_capacity(1) /\ sk' = [sk EXCEPT !.op = Append(@, Other("mark"))]

\* find_opstack_mark: the place of the nearest mark.
Marks == {i \in 1..Depth : sk.op[i].kind = "mark"}
NearestMark == CHOOSE i \in Marks : \A j \in Marks : j <= i

clear_to_mark ==
  /\ Marks # {}
  /\ LET k == Depth - NearestMark + 1 IN sk' = maybe_free_extvalue([sk EXCEPT !.op = Lower(k)], Upper(k))

count_to_mark ==
  /\ Marks # {} /\ require_op_capacity(1)
  /\ sk' = [sk EXCEPT !.op = Append(@, Plain(Depth - NearestMark))]

-----------------------------------------------------------------------------
(* Procedures that run with an operand out of the way *)

dip ==
  /\ require_op_count(2) /\ Nth(0).kind = "proc" /\ require_exec_capacity(3)
  /\ sk' = [sk EXCEPT !.op = Lower(2), !.exec = @ \o <<Nth(1), Other("@dip"), Nth(0)>>]

at_dip ==
  /\ Len(sk.exec) >= 2 /\ sk.exec[Len(sk.exec)].kind = "@dip" /\ require_op_capacity(1)
  /\ sk' = [sk EXCEPT !.op = Append(@, sk.exec[Len(sk.exec) - 1]), !.exec = SubSeq(@, 1, Len(@) - 2)]

\* The first procedure gets a clone, the second the original.  If there is no cell, the procedures are gone.
bi ==
  /\ require_op_count(3) /\ Nth(0).kind = "proc" /\ Nth(1).kind = "proc" /\ require_exec_capacity(5)
  /\ \/ \E f \in Fresh(<<Nth(2)>>, sk.free) :
          sk' = [Supplied(sk, <<Nth(2)>>, f) EXCEPT
                   !.op = Lower(3) \o make_clones(<<Nth(2)>>, f),
                   !.exec = @ \o <<Nth(0), Nth(2), Other("@dip"), Nth(1)>>]
     \/ Fresh(<<Nth(2)>>, sk.free) = {} /\ sk' = [sk EXCEPT !.op = Lower(2)]

\* The procedure gets the original, what comes back is a clone.
keep ==
  /\ require_op_count(2) /\ Nth(0).kind = "proc" /\ require_exec_capacity(3)
  /\ \/ \E f \in Fresh(<<Nth(1)>>, sk.free) :
          sk' = [Supplied(sk, <<Nth(1)>>, f) EXCEPT
                   !.op = Lower(1),
                   !.exec = @ \o make_clones(<<Nth(1)>>, f) \o <<Other("@dip"), Nth(0)>>]
     \/ Fresh(<<Nth(1)>>, sk.free) = {} /\ sk' = [sk EXCEPT !.op = Lower(1)]

\* A procedure begins; what it does are the program's steps until the next return.
EnterProc ==
  /\ sk.exec # << >> /\ sk.exec[Len(sk.exec)].kind = "proc"
  /\ sk' = [sk EXCEPT !.exec = SubSeq(@, 1, Len(@) - 1)]

-----------------------------------------------------------------------------
(* The array *)

Source == SubSeq(sk.op, Depth - Length, Depth - 1)
Storable == require_op_count(Length + 1) /\ Nth(0).kind = "array"

\* Supplied since the save, and not in global VM: a restore takes it back.
Fragile(o) == sk.save > 0 /\ o.c \in SkCells /\ sk.born[o.c] > 0

\* Into a global array go clones of such numbers, made one by one in place of the operands.
Moved(k) == [i \in 1..Length |-> IF i <= k /\ sk.global /\ Fragile(Source[i]) THEN Source[i] ELSE Plain(0)]
Cloned(k, f) == [i \in 1..Length |-> IF Moved(k)[i].c \in SkCells THEN [Source[i] EXCEPT !.c = f[i]] ELSE Source[i]]
WithClones(k, f) ==
  [maybe_free_extvalue(Supplied(sk, Moved(k), f), Moved(k)) EXCEPT
     !.op = Lower(Length + 1) \o Cloned(k, f) \o Upper(1),
     !.born = [c \in SkCells |-> IF c \in CellsOf(make_clones(Moved(k), f)) THEN 0 ELSE @[c]]]

\* A procedure made since the save is refused (the model does not tell it from an older one), or a clone finds no cell.
StopsAt(k) == sk.global /\ sk.save > 0 /\ (Source[k].kind = "proc" \/ Fresh(Moved(k), sk.free) = {})

\* The first k elements stored over the old ones, which are freed, journalled if they are older than the save, or, in a global
\* array, which is never journalled, forgotten.
Stored(s, items, k) ==
  LET Kept(i) == s.level[i] # s.save
      old == [i \in 1..k |-> s.arr[i]]
      kept == SelectSeq([i \in 1..k |-> [o |-> old[i], keep |-> Kept(i)]], LAMBDA e : e.keep)
      gone == {old[i].c : i \in {j \in 1..k : ~Kept(j)}} \cap SkCells
      forgotten == {old[i].c : i \in {j \in 1..k : Kept(j)}} \cap SkCells
  IN [Returned(s, gone) EXCEPT
               !.arr = [i \in 1..Length |-> IF i <= k THEN items[i] ELSE @[i]],
               !.level = [i \in 1..Length |-> IF i <= k THEN s.save ELSE @[i]],
               !.jour = IF s.global THEN @ ELSE @ \o [i \in 1..Len(kept) |-> kept[i].o],
               !.lost = IF s.global THEN @ \cup forgotten ELSE @]

array_store ==
  /\ Storable
  /\ \E k \in 0..Length : \E f \in Fresh(Moved(k), sk.free) :
       LET s == WithClones(k, f)
       IN \/ k = Length /\ sk' = [Stored(s, Cloned(k, f), Length) EXCEPT !.op = Lower(Length + 1) \o Upper(1)]
          \/ k < Length /\ StopsAt(k + 1) /\ sk' = s
          \/ /\ SkFragile /\ ~sk.global /\ k = Length
             /\ \E n \in 0..(Length - 1) : s.level[n + 1] # s.save /\ sk' = Stored(s, Cloned(k, f), n)

\* No journal: the old elements are freed; numbers a restore would take back are refused before anything is changed.
array_store_persist ==
  /\ Storable /\ \A i \in 1..Length : ~Fragile(Source[i])
  /\ sk' = [maybe_free_extvalue(sk, sk.arr) EXCEPT
              !.arr = [i \in 1..Length |-> Source[i]], !.level = [i \in 1..Length |-> 0], !.op = Lower(Length + 1) \o Upper(1)]

\* The clones overwrite the array operand from the first one on.
array_load ==
  /\ require_op_count(1) /\ Nth(0).kind = "array" /\ require_op_capacity(Length)
  /\ \/ \E f \in Fresh(sk.arr, sk.free) :
          sk' = [Supplied(sk, sk.arr, f) EXCEPT !.op = Lower(1) \o make_clones(sk.arr, f) \o Upper(1)]
     \/ /\ SkFragile
        /\ \E k \in 1..(Length - 1) : \E f \in Fresh(SubSeq(sk.arr, 1, k), sk.free) :
             sk' = [Supplied(sk, SubSeq(sk.arr, 1, k), f) EXCEPT !.op = Lower(1) \o <<make_clones(sk.arr, f)[1]>>]

-----------------------------------------------------------------------------
(* Programs *)

PushLiteral ==
  /\ require_op_capacity(1)
  /\ \/ \E v \in SkNumbers : sk' = [sk EXCEPT !.op = Append(@, Plain(v))]
     \/ \E kind \in {"proc", "array"} : sk' = [sk EXCEPT !.op = Append(@, Other(kind))]
     \/ \E v \in SkWide, c \in sk.free :
          (\A d \in sk.free : c <= d) /\ sk' = [sk EXCEPT !.op = Append(@, Item("int", v, c)), !.free = @ \ {c}, !.mem[c] = v, !.born[c] = sk.save]

BeginSave == Length > 0 /\ sk.save = 0 /\ sk' = [sk EXCEPT !.save = 1]

StackNext ==
  /\ \/ pop \/ popn \/ exch \/ over \/ dup \/ nip \/ tuck \/ rot \/ revrot \/ dupn \/ index \/ roll
     \/ clear \/ count \/ push_mark \/ clear_to_mark \/ count_to_mark
     \/ dip \/ at_dip \/ bi \/ keep \/ EnterProc
     \/ array_store \/ array_store_persist \/ array_load
     \/ PushLiteral \/ BeginSave
  /\ Len(sk'.op) + Len(SelectSeq(sk'.exec, LAMBDA o : o.kind # "@dip")) + Len(sk'.jour) + 2 * Length <= SkHeld

StackSpec == StackInit /\ [][StackNext]_sk

-----------------------------------------------------------------------------
(* Properties *)

\* Everything that may own a cell, in some order.
Places == sk.op \o sk.exec \o sk.arr \o sk.jour

\* "Operations that duplicate Objects must create independent ExtValue copies": no two Objects share a cell, none names a freed
\* one, and each reads the number it was made with.
OneOwner ==
  LET all == Places IN
    /\ \A i \in DOMAIN all :
         LET c == all[i].c IN c # Void /\ (c \in SkCells => c \notin sk.free /\ sk.mem[c] = all[i].v)
    /\ \A c \in SkCells : Cardinality({i \in DOMAIN all : all[i].c = c}) <= 1

\* "Stack operations that discard Objects must call maybe_free_extvalue": a cell in use has an owner, but for the old elements
\* of a global array overwritten inside a save.
NoLeak == SkCells \subseteq sk.free \cup sk.lost \cup CellsOf(Places)

\* roll moves the operand at place k of n to place k + j modulo n, whatever the signs, and the three-operand shuffles are rolls.
\* (Every part of a stack that a roll turns is some other state's whole stack.)
RollExact ==
  /\ \A j \in -(Depth + 1)..(Depth + 1) :
       LET turned == Rotated(sk.op, j) IN \A k \in 0..(Depth - 1) : turned[((k + j) % Depth) + 1] = sk.op[k + 1]
  /\ Depth = 3 => /\ Rotated(sk.op, -1) = <<Nth(1), Nth(0), Nth(2)>>
                  /\ Rotated(sk.op, 1) = <<Nth(0), Nth(2), Nth(1)>>

\* Every cell has one owner, and roll is a rotation.
StackSound == OneOwner /\ NoLeak /\ RollExact

=============================================================================
