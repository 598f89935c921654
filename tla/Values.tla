------------------------------- MODULE Values -------------------------------
(***************************************************************************)
(* Comparing values: Object::equal and Object::hash (object.inl), deep-eq  *)
(* (ops_convert.inl), and the order `sort` uses (ops_array.inl).           *)
(*                                                                         *)
(* A simple value has a type, a payload and, for the zeros of the floating *)
(* types, the bits that tell them apart; a composite one names             *)
(* a block of the store, so two composites can be the same object or only  *)
(* have the same contents, and an array that is stored into itself is a    *)
(* cycle.  Tagged stands for the pairs Tagged, Curry and Thunk; Array for  *)
(* Array and Packed; the hash mixers are taken to be injective, which is   *)
(* the least favourable case for keys that must land in one bucket.        *)
(***************************************************************************)
EXTENDS Integers, Sequences, SequencesExt, FiniteSetsExt

CONSTANTS
    VScalars,    \* the simple values [t, v]
    VComposite,  \* the composite types built
    VStore,      \* bound on the blocks
    VTop,        \* bound on the operand stack
    VDepth,      \* MaxRecursionDepth, scaled
    VMant        \* step between the doubles next to a large integer

VARIABLE vl  \* [store, ops, done, out]

VNumbers == {"Byte", "Integer", "UInteger", "Long", "ULong", "Real", "Double", "Int128", "UInt128"}

\* Positions in enum Type.
type_ordinal(t) ==
    (CHOOSE n \in 1 .. 30 :
        <<"Null", "Byte", "Integer", "UInteger", "Long", "ULong", "Address", "Real", "Double", "Boolean", "Operator", "Mark",
          "Name", "Array", "Packed", "String", "Stream", "Dict", "SourceLoc", "Curry", "Thunk", "Set", "Tagged", "Record",
          "Coroutine", "PipeBuffer", "Cell", "Continuation", "Int128", "UInt128">>[n] = t) - 1

\* The types with the attribute IsDeepeq (a packed array counts as an array; curries and thunks do not occur here).
is_deepeq(o) == o.t \in {"Array", "Set", "Dict", "Tagged", "Record"}
VObj(t, v) == [t |-> t, v |-> v, bits |-> v]

-----------------------------------------------------------------------------
(* Object::equal and Object::hash *)

\* Identity for composites, contents for strings, a name and a string with the same characters are equal, the two zeros of
\* a floating type are equal.
equal(a, b) ==
    a.v = b.v /\ (a.t = b.t \/ {a.t, b.t} = {"Name", "String"})

hash_signed(o) ==
    CASE o.t \in {"Name", "String"} -> <<"text", o.v>>
      [] OTHER -> <<o.t, o.bits>>

\* What is fed to the mixer: the characters of a name or string, the payload with its zero made positive, the offset.
hash(o) ==
    CASE o.t \in {"Name", "String"} -> <<"text", o.v>>
      [] o.t \in {"Real", "Double"} -> <<o.t, IF o.v = 0 THEN 0 ELSE o.bits>>
      [] OTHER -> <<o.t, o.v>>

-----------------------------------------------------------------------------
(* deep-eq: "yes", "no", or "deep" for the limit-check *)

VBlock(st, o) == st[o.v]

RECURSIVE deep_equal(_, _, _, _)

\* All of the pairs, in order; the first that is not "yes" decides.
VAll(st, as, bs, d) ==
    LET r == [i \in DOMAIN as |-> deep_equal(st, as[i], bs[i], d)]
        bad == {i \in DOMAIN as : r[i] # "yes"}
    IN IF bad = {} THEN "yes" ELSE r[Min(bad)]

deep_equal_sequences(st, a, b, d) ==
    IF Len(VBlock(st, a).e) # Len(VBlock(st, b).e) THEN "no" ELSE VAll(st, VBlock(st, a).e, VBlock(st, b).e, d + 1)

deep_equal_records(st, a, b, d) ==
    IF Len(VBlock(st, a).e) # Len(VBlock(st, b).e) \/ VBlock(st, a).names # VBlock(st, b).names THEN "no"
    ELSE VAll(st, VBlock(st, a).e, VBlock(st, b).e, d + 1)

\* Some element of b for every element of a.
deep_equal_sets(st, a, b, d) ==
    LET as == VBlock(st, a).e
        bs == VBlock(st, b).e
        First(x) == LET r == [j \in DOMAIN bs |-> deep_equal(st, x, bs[j], d + 1)]
                        hit == {j \in DOMAIN bs : r[j] # "no"}
                    IN IF hit = {} THEN "no" ELSE r[Min(hit)]
        found == [i \in DOMAIN as |-> First(as[i])]
        bad == {i \in DOMAIN as : found[i] # "yes"}
    IN IF Len(as) # Len(bs) THEN "no" ELSE IF bad = {} THEN "yes" ELSE found[Min(bad)]

\* The value under the same key, looked up with equal.
deep_equal_dicts(st, a, b, d) ==
    LET as == VBlock(st, a).e
        bs == VBlock(st, b).e
        At(k) == {j \in DOMAIN bs : equal(bs[j][1], k)}
        r == [i \in DOMAIN as |-> IF At(as[i][1]) = {} THEN "no" ELSE deep_equal(st, as[i][2], bs[CHOOSE j \in At(as[i][1]) : TRUE][2], d + 1)]
        bad == {i \in DOMAIN as : r[i] # "yes"}
    IN IF Len(as) # Len(bs) THEN "no" ELSE IF bad = {} THEN "yes" ELSE r[Min(bad)]

deep_equal(st, a, b, d) ==
    CASE d > VDepth -> "deep"
      [] d <= VDepth /\ a.t = "Array" /\ b.t = "Array" -> deep_equal_sequences(st, a, b, d)
      [] d <= VDepth /\ a.t = "Tagged" /\ b.t = "Tagged" -> VAll(st, VBlock(st, a).e, VBlock(st, b).e, d + 1)
      [] d <= VDepth /\ a.t = "Record" /\ b.t = "Record" -> deep_equal_records(st, a, b, d)
      [] d <= VDepth /\ a.t = "Set" /\ b.t = "Set" -> deep_equal_sets(st, a, b, d)
      [] d <= VDepth /\ a.t = "Dict" /\ b.t = "Dict" -> deep_equal_dicts(st, a, b, d)
      [] OTHER -> IF equal(a, b) THEN "yes" ELSE "no"

-----------------------------------------------------------------------------
(* The order of sort *)

\* Large integers are rounded when they become doubles.
object_to_double(o) == IF o.v > VMant \/ o.v < -VMant THEN (o.v \div VMant) * VMant ELSE o.v

\* Same type: by value, or unordered when the type has no order; two number types: as doubles; otherwise by type ordinal.
object_less_than(a, b) ==
    CASE a.t = b.t -> IF a.t \in VNumbers \union {"String", "Name", "Boolean", "Address"} THEN a.v < b.v ELSE FALSE
      [] a.t # b.t /\ a.t \in VNumbers /\ b.t \in VNumbers -> object_to_double(a) < object_to_double(b)
      [] OTHER -> type_ordinal(a.t) < type_ordinal(b.t)

\* std::sort's contract.
VStrictWeak(S) ==
    LET Apart(x, y) == object_less_than(x, y) \/ object_less_than(y, x) IN
    /\ \A x \in S : ~object_less_than(x, x)
    /\ \A x, y, z \in S : object_less_than(x, y) /\ object_less_than(y, z) => object_less_than(x, z)
    /\ \A x, y, z \in S : ~Apart(x, y) /\ ~Apart(y, z) => ~Apart(x, z)

\* std::sort: any arrangement without an inversion when the order is one, any arrangement at all when it is not.
std_sort(s) ==
    LET perms == {p \in [DOMAIN s -> DOMAIN s] : Range(p) = DOMAIN s}
        out == {[i \in DOMAIN s |-> s[p[i]]] : p \in perms}
    IN IF VStrictWeak(Range(s))
       THEN {q \in out : \A i, j \in DOMAIN q : i < j => ~object_less_than(q[j], q[i])}
       ELSE out

-----------------------------------------------------------------------------
(* The specification *)

VInit == vl = [store |-> <<>>, ops |-> <<>>, done |-> "no", out |-> <<>>]

VPush(o) == /\ Len(vl.ops) < IF Len(vl.store) < VStore THEN VTop ELSE 2
            /\ vl' = [vl EXCEPT !.ops = Append(@, o)]

\* Build a composite of the top k operands: the block goes to the store.
VMake(t, k) ==
    LET n == Len(vl.ops)
        e == SubSeq(vl.ops, n - k + 1, n)
        block == CASE t = "Set" -> [e |-> IF k = 2 /\ equal(e[1], e[2]) THEN <<e[1]>> ELSE e, names |-> <<>>, set |-> t = "Set"]
                   [] t = "Dict" -> [e |-> <<e>>, names |-> <<>>, set |-> t = "Set"]
                   [] t = "Record" -> [e |-> e, names |-> SubSeq(<<"x", "y">>, 1, k), set |-> FALSE]
                   [] OTHER -> [e |-> e, names |-> <<>>, set |-> t = "Set"]
    IN /\ t \in VComposite /\ n >= k /\ Len(vl.store) < VStore
       /\ k \in (IF t \in {"Dict", "Tagged"} THEN {2} ELSE IF t = "Array" THEN 1 .. 2 ELSE {2})
       /\ t = "Tagged" => e[1].t = "Name"
       /\ vl' = [vl EXCEPT !.store = Append(@, block), !.ops = Append(SubSeq(@, 1, n - k), VObj(t, Len(vl.store) + 1))]

VDup == /\ vl.ops # <<>> /\ is_deepeq(Last(vl.ops)) /\ Len(vl.ops) < VTop
        /\ vl' = [vl EXCEPT !.ops = Append(@, Last(@))]

\* put: the top operand into the first element of an array, itself included.
VPut == /\ Len(vl.ops) >= 2 /\ vl.ops[Len(vl.ops) - 1].t = "Array"
        /\ vl' = [vl EXCEPT !.store[vl.ops[Len(vl.ops) - 1].v].e[1] = Last(vl.ops), !.ops = Front(@)]

compare(kind, r) == /\ Len(vl.ops) = 2
                    /\ vl' = [vl EXCEPT !.done = kind, !.out = r]
compare_eq == compare("eq", <<equal(vl.ops[1], vl.ops[2])>>)
compare_deep_eq == compare("deep-eq", <<deep_equal(vl.store, vl.ops[1], vl.ops[2], 0), deep_equal(vl.store, vl.ops[2], vl.ops[1], 0)>>)
sort == /\ Len(vl.ops) >= 2 /\ vl.store = <<>> /\ \A i \in DOMAIN vl.ops : ~is_deepeq(vl.ops[i])
        /\ \E q \in std_sort(vl.ops) : vl' = [vl EXCEPT !.done = "sort", !.out = q]

VNext ==
    /\ vl.done = "no"
    /\ \/ \E o \in VScalars : VPush(o)
       \/ \E t \in VComposite, k \in 1 .. 2 : VMake(t, k)
       \/ VDup
       \/ VPut
       \/ compare_eq
       \/ compare_deep_eq
       \/ sort

VSpec == VInit /\ [][VNext]_vl

-----------------------------------------------------------------------------
(* Reference: the tree a value denotes, cut off at the depth limit *)

RECURSIVE VTree(_, _, _)
VTree(st, o, d) ==
    LET kids == [i \in DOMAIN VBlock(st, o).e |-> IF o.t = "Dict" THEN VTree(st, VBlock(st, o).e[i][2], d + 1)
                                                                  ELSE VTree(st, VBlock(st, o).e[i], d + 1)]
    IN CASE d > VDepth -> <<"deep">>
         [] d <= VDepth /\ ~is_deepeq(o) -> hash(o)
         [] d <= VDepth /\ o.t \in {"Array", "Tagged"} -> <<o.t, kids>>
         [] d <= VDepth /\ o.t = "Record" -> <<o.t, kids, VBlock(st, o).names>>
         [] d <= VDepth /\ o.t = "Dict" -> <<o.t, {<<hash(VBlock(st, o).e[i][1]), kids[i]>> : i \in DOMAIN kids}>>
         [] OTHER -> <<o.t, [k \in Range(kids) |-> Cardinality({i \in DOMAIN kids : kids[i] = k})]>>

RECURSIVE VCut(_, _, _)
VCut(st, o, d) == \/ d > VDepth
                  \/ is_deepeq(o) /\ \E i \in DOMAIN VBlock(st, o).e :
                        VCut(st, IF o.t = "Dict" THEN VBlock(st, o).e[i][2] ELSE VBlock(st, o).e[i], d + 1)

\* No set of the store holds a composite value.
VFlatSets == \A b \in DOMAIN vl.store : vl.store[b].set => \A i \in DOMAIN vl.store[b].e : ~is_deepeq(vl.store[b].e[i])

\* Two values that are equal as dictionary keys are looked for under the same hash: names and strings, both zeros.
HashAgrees == \A i, j \in DOMAIN vl.ops : equal(vl.ops[i], vl.ops[j]) => hash(vl.ops[i]) = hash(vl.ops[j])

\* deep-eq says what the two values look like: true and false only when the structures agree or differ, in both operand
\* orders, and the depth limit only when a structure really goes deeper -- cycles included.
DeepEqExact ==
    vl.done = "deep-eq" /\ VFlatSets =>
        \A k \in 1 .. 2 :
            CASE vl.out[k] = "yes" -> VTree(vl.store, vl.ops[1], 0) = VTree(vl.store, vl.ops[2], 0)
              [] vl.out[k] = "no" -> VTree(vl.store, vl.ops[1], 0) # VTree(vl.store, vl.ops[2], 0)
              [] OTHER -> VCut(vl.store, vl.ops[1], 0) \/ VCut(vl.store, vl.ops[2], 0)

\* Sorting values of one type, or numbers small enough for a double, leaves no larger value before a smaller one.
SortExact ==
    vl.done = "sort" /\ (\/ Cardinality({vl.ops[i].t : i \in DOMAIN vl.ops}) = 1
                         \/ \A i \in DOMAIN vl.ops : vl.ops[i].t \in VNumbers /\ vl.ops[i].v \in -VMant .. VMant)
        => \A i, j \in DOMAIN vl.out : i < j /\ vl.out[i].t \in VNumbers \union {"String"} => vl.out[i].v <= vl.out[j].v

\* deep-eq on sets does not depend on the order of its operands.
DeepEqSymmetric == vl.done = "deep-eq" => (vl.out[1] = "yes" <=> vl.out[2] = "yes")

\* The order given to std::sort is one on any mixture of values.
OrderWeak == VStrictWeak(Range(vl.ops))

\* Equality, hashing and order are consistent with each other and with what
\* the values look like.
ValuesSound == HashAgrees /\ DeepEqExact /\ SortExact

=============================================================================
