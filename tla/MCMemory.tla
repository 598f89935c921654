------------------------------ MODULE MCMemory ------------------------------
(* Memory, for TLC: save and restore, the cells of wide values and the       *)
(* operands that own them, the blocks and the collector of global VM, and    *)
(* the scratch region.  One part runs; the others rest in their initial      *)
(* state.                                                                    *)
EXTENDS SaveRestore, HeapCells, OperandStack, GlobalHeap, Regions, TLC

VARIABLE part

Parts == {"save", "cells", "stack", "heap", "collector", "regions"}

memoryVars == <<part, saveVars, cellVars, sk, heapVars, gcVars, rg>>

\* Global blocks are interchangeable, and so are the coroutines.
Alike == Permutations(GBlocks) \cup Permutations(Co)

MemoryInit ==
  /\ part \in Parts
  /\ SaveInit
  /\ CellInit /\ StackInit /\ (part # "stack" => sk.arr = << >> /\ ~sk.global)
  /\ HeapInit /\ CollectorInit /\ RInit

OthersRest ==
  /\ UNCHANGED part
  /\ part # "save" => UNCHANGED saveVars
  /\ part # "cells" => UNCHANGED cellVars
  /\ part # "stack" => UNCHANGED sk
  /\ part # "heap" => UNCHANGED heapVars
  /\ part # "collector" => UNCHANGED gcVars
  /\ part # "regions" => UNCHANGED rg

\* The bounds on saves and cells let these programs stop; global
\* VM, the collector and the scratch region always have a next step.
Finished == part \in {"save", "cells"} /\ UNCHANGED memoryVars

MemoryNext ==
  \/ part = "save" /\ SaveNext /\ OthersRest
  \/ part = "cells" /\ CellNext /\ OthersRest
  \/ part = "stack" /\ StackNext /\ OthersRest
  \/ part = "heap" /\ HeapNext /\ OthersRest
  \/ part = "collector" /\ CollectorNext /\ OthersRest
  \/ part = "regions" /\ RNext /\ OthersRest
  \/ Finished

MemorySpec == MemoryInit /\ [][MemoryNext]_memoryVars

\* A cell in use has one owner: the free cells and the live ones never overlap (HeapCells), and whatever the operators do to
\* operands, no two Objects name one cell and none is forgotten (OperandStack).
WideSound == CellsSound /\ StackSound

=============================================================================
