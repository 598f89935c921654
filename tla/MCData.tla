------------------------------- MODULE MCData -------------------------------
(* Data that outlives an operator, for TLC: dictionaries, reactive cells,    *)
(* streams and snapshots of the whole VM.  One part runs; the others rest in *)
(* their initial state.                                                      *)
EXTENDS HashDict, Reactive, Streams, Snapshot

VARIABLE part

Parts == {"dict", "reactive", "streams", "snapshot"}

dataVars == <<part, dictVars, reactVars, sm, sn>>

\* Three keys, two of which collide, in two buckets.
MCHash == [k \in DKeys |-> IF k = "c" THEN 1 ELSE 0]
MCVals == [k \in DKeys |-> IF k = "a" THEN {1, 2} ELSE {1}]

\* Two base cells and a chain of two computed ones, the second of which also
\* reads a base cell directly.
MCBases == {"b1", "b2"}
MCComps == {"c1", "c2"}
MCReads == [c \in MCComps |-> IF c = "c1" THEN << "b1" >> ELSE << "c1", "b2" >>]
MCWatched == {"b1", "c2"}

\* Two hosts: the second has a smaller VM and other user operators.
SnHostsMC == {[cap |-> 4, ops |-> 1], [cap |-> 2, ops |-> 2]}

DataInit ==
  /\ part \in Parts
  /\ DictInit /\ (part # "dict" => flags = [set |-> FALSE, dynamic |-> FALSE])
  /\ ReactiveInit /\ StInit /\ SnInit

OthersRest ==
  /\ UNCHANGED part
  /\ part # "dict" => UNCHANGED dictVars
  /\ part # "reactive" => UNCHANGED reactVars
  /\ part # "streams" => UNCHANGED sm
  /\ part # "snapshot" => UNCHANGED sn

DataNext ==
  \/ part = "dict" /\ DictNext /\ OthersRest
  \/ part = "reactive" /\ ReactiveNext /\ OthersRest
  \/ part = "streams" /\ StNext /\ OthersRest
  \/ part = "snapshot" /\ SnNext /\ OthersRest

DataSpec == DataInit /\ [][DataNext]_dataVars

=============================================================================
