----------------------------- MODULE MCLanguage -----------------------------
(* The operators of the language, for TLC: control flow and errors, numeric  *)
(* loops, lazy sequences, the logic engine, iteration over arrays, numbers,  *)
(* number literals, equality, hashing and order of values, and the caches of *)
(* name bindings.  One part runs; the others rest in an initial state.       *)
EXTENDS Control, Lazy, Logic, Iteration, Numbers, NumberScan, Values, BindingCache

-----------------------------------------------------------------------------
(* Control flow: which constructs a program may nest. *)

Kinds == {"loop", "stop", "try", "trycatch", "finally", "withstream", "run", "global", "locals", "closure", "delimit", "effect", "begin"}

\* Every kind by itself, and with each of those that catch or capture others.
Programs2 ==
  kSubset(1, Kinds) \cup {S \in kSubset(2, Kinds) : S \cap {"try", "finally", "delimit"} # {}}
    \cup {{"loop", "run"}, {"loop", "stop"}, {"trycatch", "global"}, {"effect", "locals"}, {"begin", "locals"},
          {"begin", "closure"}, {"begin", "try", "closure"}, {"begin", "delimit", "locals"}}

\* A second operand where operand depths are held and moved, a second
\* continuation where they are rewritten.
OperandBound == [S \in Programs2 |-> IF S \subseteq {"try", "delimit", "effect"} THEN 2 ELSE 1]
ContinuationBound == [S \in Programs2 |-> IF S = {"delimit"} THEN 2 ELSE 1]

-----------------------------------------------------------------------------
(* Lazy sequences: sources, stages and the programs built from them. *)

Src(op, a) == [op |-> op, a |-> a]
Stage(op, a) == [op |-> op, a |-> a, other |-> "fixed"]
With(op, a, o) == [op |-> op, a |-> a, other |-> o]

Finite ==
  {Src("seq", [s |-> <<1, 2, 2, 3>>]), Src("unfold", [f |-> "down", n |-> 3, main |-> TRUE]),
   Src("range", [n |-> 5, stop |-> 0, step |-> -2, main |-> TRUE]), Src("repeat_n", [v |-> 1, n |-> 2, main |-> TRUE])}
Infinite ==
  {Src("from", [n |-> 1, main |-> TRUE]), Src("iterate", [f |-> "inc", n |-> 2, main |-> TRUE]),
   Src("cycle", [s |-> <<1, 2>>, main |-> TRUE]), Src("repeat", [v |-> 3, main |-> TRUE])}
Distinct == {"from", "iterate", "range", "unfold"}
Counted == {"from", "iterate", "repeat"}

Stages ==
  {Stage("map", [f |-> "inc"]), Stage("filter", [f |-> "odd"]), Stage("drop", [n |-> 2]), Stage("take", [n |-> 2]),
   Stage("take_while", [f |-> "small"]), Stage("drop_while", [f |-> "small", than |-> << >>]),
   Stage("filter_map", [f |-> "half"]), Stage("flat_map", [f |-> "dup"]), Stage("map_indexed", [f |-> "add", n |-> 0]),
   Stage("scan", [f |-> "add", n |-> 0]), Stage("dedupe", << >>), Stage("intersperse", [v |-> 5]),
   Stage("step_by", [n |-> 2]), Stage("enumerate", << >>), Stage("chunked", [n |-> 2]), Stage("windowed", [n |-> 2]),
   With("zip", << >>, "self"), With("zip_with", [f |-> "add"], "self"), With("chain", << >>, "fixed"),
   With("interleave", << >>, "fixed"), With("interleave", << >>, "self"), With("chain", << >>, "self")}

Use(op, a) == [op |-> op, a |-> a]
Uses ==
  {<<Use("nth", [n |-> 1]), Use("to_array", << >>)>>, <<Use("to_array", << >>), Use("fold", [acc |-> 0])>>,
   <<Use("find", [f |-> "big", n |-> 0, index |-> TRUE]), Use("count", << >>)>>,
   <<Use("any", [f |-> "even"]), Use("all", [f |-> "small"])>>}

Program(src, stages, uses, lim, fails) ==
  [src |-> src, stages |-> stages, uses |-> uses, fails |-> fails,
   distinct |-> src.op \in Distinct /\ {i \in DOMAIN stages : stages[i].op = "map"} = {1},
   limited |-> lim /\ src.op \in Counted /\ \A i \in DOMAIN stages : stages[i].op # "chain"]

Take(k) == Stage("take", [n |-> k])
ToArray == CHOOSE u \in Uses : u[1].op = "to_array"
Nth == CHOOSE u \in Uses : u[1].op = "nth"
Of(srcs, ops) == {s \in srcs : s.op \in ops}

OneStage ==
  {Program(src, <<s>>, u, FALSE, 0) : src \in Finite, s \in Stages, u \in Uses}
  \cup {Program(src, <<s, Take(k)>>, ToArray, TRUE, 0) : src \in Infinite, s \in Stages, k \in {0, 3}}
TwoStage ==
  {Program(src, <<s1, s2>>, Nth, FALSE, 0) : src \in Of(Finite, {"seq"}), s1 \in Stages, s2 \in Stages}
  \cup {Program(src, <<s1, s2, Take(3)>>, ToArray, TRUE, 0) : src \in Of(Infinite, {"from"}), s1 \in Stages, s2 \in Stages}

\* User code fails once, anywhere.
Failing ==
  {Program(src, <<Stage("map", [f |-> "inc"]), s, Take(3)>>, ToArray, FALSE, 1) :
     src \in Of(Infinite, {"iterate"}), s \in Stages}

LazyPrograms == OneStage \cup TwoStage \cup Failing

-----------------------------------------------------------------------------
(* Goals for the logic engine. *)

U(a, b) == [op |-> "unify", a |-> a, b |-> b]
P(n) == [op |-> "push", t |-> Atom(n)]
V(i) == [op |-> "value", t |-> Var(i)]
O(op) == [op |-> op]
B(op, body) == [op |-> op, body |-> body]
A(op, alts) == [op |-> op, alts |-> alts]

X == Var(1)
Y == Var(2)
Pair(a, b) == Arr(<<a, b>>)

\* What an alternative may do before its inner search, and after it.
Bodies == {<<U(X, Atom(1)), V(1)>>, <<U(X, Atom(2)), V(1)>>, <<U(X, Y), P(3)>>,
           <<U(X, Atom(1)), O("fail")>>, <<O("cut"), P(4)>>, <<O("cut"), O("fail")>>,
           <<P(5), O("fail")>>, <<U(Pair(X, Atom(1)), Pair(Atom(2), Y)), V(2)>>,
           <<U(Pair(X, X), Pair(Atom(1), Atom(2)))>>}
Rare == {<<O("new")>>, <<O("new"), O("fail")>>, <<O("throw")>>, << >>}

Goals2(ps) ==
  {A("choice", <<p, q>>) : p \in ps, q \in Bodies}
  \cup {A("all", <<p, q>>) : p \in ps, q \in Bodies}
  \cup {A("count", <<p, q>>) : p \in ps, q \in Bodies}
Goals1(ps) ==
  {[op |-> "n", n |-> 1, alts |-> <<p, q>>] : p \in ps, q \in {<<U(X, Atom(2)), V(1)>>}}
  \cup {[op |-> "each", body |-> b, alts |-> <<p>>] :
          p \in ps, b \in {<<O("fail")>>, <<U(Y, X)>>}}
  \cup {[op |-> "agg", t |-> Atom(1), body |-> b, alts |-> <<p, <<V(1)>>>>] :
          p \in ps, b \in {<<O("add")>>, <<O("fail")>>, <<O("throw")>>}}
  \cup {B("once", p) : p \in ps} \cup {B("naf", <<U(Y, Atom(7))>> \o p) : p \in ps \ {<<P(5), O("fail")>>, <<O("new"), O("fail")>>}}
  \cup {[op |-> "match", a |-> Pair(X, Y),
         alts |-> <<<<Pair(Atom(1), Atom(2)), p>>, <<Y, <<P(8)>>>>>>] : p \in ps}
  \cup {[op |-> "copy", a |-> Pair(X, X), b |-> Pair(Atom(1), c)] : c \in {Atom(1), Atom(2), Y}}

Outer == Goals2(Bodies \cup Rare) \cup Goals1(Bodies \cup Rare)

\* An inner search as the first or second alternative of an outer one.
Inner == {A("choice", <<p, q>>) : p \in Bodies, q \in {<<U(X, Atom(2)), V(1)>>}}
         \cup Goals1(Bodies)
         \cup {A("all", <<<<P(1)>>, p>>) : p \in {<<P(2)>>, <<O("fail")>>}}
Nested(op) ==
  {A(op, <<<<U(Y, Atom(1)), g, P(6)>>, <<P(9)>>>>) : g \in Inner}
  \cup {A(op, <<<<P(9)>>, <<g>>>>) : g \in Inner}
  \cup {A(op, <<<<g, O("cut"), O("fail")>>, <<P(9)>>>>) : g \in Inner}

\* Alternatives and bodies that consume operands of the caller of the search.
Consuming == {<<O("pop")>>, <<O("pop"), O("pop")>>, <<O("pop"), O("fail")>>, <<P(1), O("add")>>, <<V(1), O("add"), O("fail")>>,
              <<O("pop"), U(X, Atom(1)), V(1)>>, <<O("pop"), P(4), P(5)>>}
Plain == {<<P(9)>>, <<O("pop"), P(7)>>, <<O("fail")>>}
OverCallers ==
  {A(op, <<p, q>>) : op \in {"choice", "all", "count"}, p \in Consuming, q \in Plain}
  \cup {[op |-> "each", body |-> b, alts |-> <<p, q>>] : b \in Consuming, p \in {<<P(9)>>, <<O("pop")>>}, q \in Plain}
  \cup {[op |-> "agg", t |-> Atom(1), body |-> b, alts |-> <<p, q>>] :
          p \in Consuming \cup {<<P(9)>>}, q \in Plain, b \in {<<O("add")>>, <<O("add"), O("add")>>, <<O("pop"), O("fail")>>}}
  \cup {B(op, p) : op \in {"once", "naf"}, p \in Consuming}
  \cup {[op |-> "match", a |-> X, alts |-> <<<<Atom(2), p>>>>] : p \in Consuming}

\* An alternative consumes an operand of the caller and drops a composite it made.
Dropping == {<<P(3), A("count", <<<<O("pop"), O("new"), O("pop")>>>>)>>}

LogicPrograms ==
  {<<P(2), P(3), g, U(Y, Atom(1)), V(2)>> : g \in OverCallers}
  \cup {<<P(2), P(3), A(op, <<<<P(6), g, P(8)>>, <<P(9)>>>>)>> : op \in {"all", "count"}, g \in OverCallers}
  \cup {<<g, U(X, Atom(1)), V(1)>> : g \in Outer}
  \cup {<<U(Y, Atom(2)), g>> : g \in Outer}
  \cup {<<g, U(Y, Atom(1))>> : g \in UNION {Nested(op) : op \in {"choice", "all", "count"}}}

-----------------------------------------------------------------------------
(* Narrow number types. *)

MCNBits == [t \in NInts |-> CASE t = "Byte" -> 2 [] t \in {"Integer", "UInteger"} -> 3 [] t \in {"Long", "ULong"} -> 4 [] OTHER -> 5]
MCNMant == [t \in NFloats |-> IF t = "Real" THEN 2 ELSE 3]
MCNPrimes == 0 .. 60 \union 961 .. 1000

-----------------------------------------------------------------------------
(* Texts for the number scanner. *)

ScChars == {"0", "1", "2", "9", "b", "u", "l", "q", "f", "d", "e", "x", "p", ".", "#", "+", "-", "_", " "}
ScWords(n) == UNION {[1 .. k -> ScChars] : k \in 1 .. n}
MCScTexts == ScWords(3) \union {b \o w : b \in {<<"0", "x">>, <<"2", "#">>, <<"1", ".">>, <<"-", "1">>}, w \in ScWords(2)}
             \union {<<"0", "x", "1">> \o w : w \in ScWords(2)}
MCScBits == [t \in {"Byte", "Integer", "UInteger", "Long", "ULong", "Int128", "UInt128", "Address"} |->
               CASE t = "Byte" -> 2 [] t \in {"Integer", "UInteger"} -> 3 [] t \in {"Int128", "UInt128"} -> 5 [] OTHER -> 4]
MCScReach == [t \in {"Real", "Double"} |-> IF t = "Real" THEN 2 ELSE 3]

-----------------------------------------------------------------------------
(* Scalars to build values from. *)

MCVScalars == {VObj("Integer", 9), [t |-> "Real", v |-> 0, bits |-> 1], VObj("Real", 0), VObj("Name", 1), VObj("String", 1)}

-----------------------------------------------------------------------------

VARIABLE part

Parts == {"control", "for", "lazy", "logic", "iteration", "numbers", "scan", "values", "bindings"}

languageVars == <<part, cm, forVars, lazyVars, logicVars, it, nm, sc, vl, bindVars>>

LazyProgram == CHOOSE p \in Failing : TRUE
LogicProgram == CHOOSE p \in GPrograms : TRUE

Resting ==
  /\ part # "control" => ControlInit /\ cm.uses = {"loop"}
  /\ part # "for" => ForInit /\ floop = [kind |-> "unsigned", control |-> 0, inc |-> 1, limit |-> 0,
                                         ended |-> FALSE, init |-> 0, last |-> 0]
  /\ part # "lazy" => LazyInit /\ lprog = LazyProgram
  /\ part # "logic" => LogicInit /\ gprog = LogicProgram
  /\ part # "iteration" => it = Blank("any", << >>)
  /\ part # "numbers" => nm = Ready("prime", <<Operand("Prime", 0, 1)>>)

LanguageInit ==
  /\ part \in Parts
  /\ ScInit /\ VInit /\ BindInit /\ Resting
  /\ part = "control" => ControlInit
  /\ part = "for" => ForInit
  /\ part = "lazy" => LazyInit
  /\ part = "logic" => LogicInit
  /\ part = "iteration" => IInit
  /\ part = "numbers" => NInit

OthersRest ==
  /\ UNCHANGED part
  /\ part # "control" => UNCHANGED cm
  /\ part # "for" => UNCHANGED forVars
  /\ part # "lazy" => UNCHANGED lazyVars
  /\ part # "logic" => UNCHANGED logicVars
  /\ part # "iteration" => UNCHANGED it
  /\ part # "numbers" => UNCHANGED nm
  /\ part # "scan" => UNCHANGED sc
  /\ part # "values" => UNCHANGED vl
  /\ part # "bindings" => UNCHANGED bindVars

LanguageNext ==
  \/ part = "control" /\ ControlNext /\ OthersRest
  \/ part = "for" /\ at_typed_for /\ OthersRest
  \/ part = "lazy" /\ LazyNext /\ OthersRest
  \/ part = "logic" /\ LogicNext /\ OthersRest
  \/ part = "iteration" /\ INext /\ OthersRest
  \/ part = "numbers" /\ NNext /\ OthersRest
  \/ part = "scan" /\ ScNext /\ OthersRest
  \/ part = "values" /\ VNext /\ OthersRest
  \/ part = "bindings" /\ BindNext /\ OthersRest

LanguageSpec == LanguageInit /\ [][LanguageNext]_languageVars

\* Numbers are read, computed and counted through exactly, at machine width.
NumbersExact == ForExact /\ NumbersSound /\ ScanSound

=============================================================================
