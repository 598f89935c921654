------------------------------- MODULE Numbers -------------------------------
(***************************************************************************)
(* Arithmetic, bit operations and conversions of the seven integer types   *)
(* (src/src/ops_math.inl, ops_bitwise.inl, ops_convert.inl) and the shims  *)
(* that read the operands, free or reuse their heap cells and store the    *)
(* result (src/src/shims.inl).  Widths are scaled down; the floating types *)
(* take part in conversions only, as the integers they can hold.           *)
(*                                                                         *)
(*   nm.op, args     the operator and its operands [t, v, c]: type, value, *)
(*                   heap cell (0 for the types that need none)            *)
(*   nm.out          what is on the operand stack afterwards               *)
(*   nm.live, bad    cells in use; a cell was freed twice                  *)
(*   nm.err          "" or the error raised                                *)
(***************************************************************************)
EXTENDS Integers, Sequences, FiniteSets, FiniteSetsExt, Bitwise

CONSTANTS NBits,     \* width of each integer type
          NMant,     \* significant bits of each floating type
          NOps,      \* operators
          NPrimes    \* arguments of prime?

VARIABLE nm

NUnsigned == {"Byte", "UInteger", "ULong", "UInt128"}
NSigned == {"Integer", "Long", "Int128"}
NInts == NUnsigned \union NSigned
NFloats == {"Real", "Double"}
OnHeap == {"Long", "ULong", "Int128", "UInt128", "Double"}
WideInts == {"Int128", "UInt128"}

NMax(t) == IF t \in NUnsigned THEN 2 ^ NBits[t] - 1 ELSE 2 ^ (NBits[t] - 1) - 1
NMin(t) == IF t \in NUnsigned THEN 0 ELSE -(2 ^ (NBits[t] - 1))
Fits(t, v) == NMin(t) <= v /\ v <= NMax(t)
\* static_cast to an integer type.
NWrap(t, v) == LET u == v % (2 ^ NBits[t]) IN IF u > NMax(t) THEN u - 2 ^ NBits[t] ELSE u
Abs(v) == IF v < 0 THEN -v ELSE v
\* C++ division truncates.
Quot(x, y) == LET q == Abs(x) \div Abs(y) IN IF (x < 0) = (y < 0) THEN q ELSE -q
Rem(x, y) == x - y * Quot(x, y)

Good(v) == [v |-> v, e |-> ""]
Bad(e) == [v |-> 0, e |-> e]
Checked(t, v) == IF Fits(t, v) THEN Good(v) ELSE Bad("overflow")

-----------------------------------------------------------------------------
(* Arithmetic.                                                             *)

add(t, x, y) == IF t = "Byte" THEN IF x + y > NMax("Byte") THEN Bad("overflow") ELSE Good(x + y) ELSE Checked(t, x + y)
sub(t, x, y) == IF t = "Byte" THEN IF y > x THEN Bad("overflow") ELSE Good(x - y) ELSE Checked(t, x - y)
mul(t, x, y) == IF t = "Byte" THEN IF x * y > NMax("Byte") THEN Bad("overflow") ELSE Good(x * y) ELSE Checked(t, x * y)

\* Mutant: the one quotient that does not fit is not caught.
div_wraps(t, x, y) == IF y = 0 THEN Bad("div-by-zero") ELSE Good(NWrap(t, Quot(x, y)))

div(t, x, y) ==
  CASE y = 0 -> Bad("div-by-zero")
    [] t \in NSigned /\ y = -1 /\ x = NMin(t) -> Bad("overflow")
    [] OTHER -> Good(Quot(x, y))

mod(t, x, y) ==
  CASE y = 0 -> Bad("div-by-zero")
    [] t \in NSigned /\ y = -1 /\ x = NMin(t) -> Bad("overflow")
    [] OTHER -> Good(Rem(x, y))

neg(t, x) == IF x = NMin(t) THEN Bad("overflow") ELSE Good(-x)
abs(t, x) == IF x = NMin(t) THEN Bad("overflow") ELSE Good(Abs(x))
sign(x) == IF x > 0 THEN 1 ELSE IF x < 0 THEN -1 ELSE 0

\* Euclid's loop on the magnitudes.
RECURSIVE Euclid(_, _)
Euclid(a, b) == IF b = 0 THEN a ELSE Euclid(b, a % b)
gcd(t, x, y) == IF t \in NSigned /\ NMin(t) \in {x, y} THEN Bad("overflow") ELSE Good(Euclid(Abs(x), Abs(y)))

lcm(t, x, y) ==
  CASE t \in NSigned /\ NMin(t) \in {x, y} -> Bad("overflow")
    [] 0 \in {x, y} /\ ~(t \in NSigned /\ NMin(t) \in {x, y}) -> Good(0)
    [] OTHER ->
         LET g == Euclid(Abs(x), Abs(y)) IN
         IF t \in WideInts THEN Checked(t, (Abs(x) \div g) * Abs(y))
         ELSE LET r == Quot(x, g) * y IN
              IF ~Fits(t, r) THEN Bad("overflow") ELSE Good(NWrap(t, IF r < 0 THEN -r ELSE r))

\* std::midpoint rounds towards its first argument.
midpoint(t, x, y) ==
  IF t = "UInt128" THEN Good(x \div 2 + y \div 2 + (x % 2) * (y % 2))
  ELSE Good(IF x <= y THEN x + (y - x) \div 2 ELSE x - (x - y) \div 2)

RECURSIVE ChooseFrom(_, _, _, _, _)
ChooseFrom(t, n, r, i, acc) ==
  IF i = r THEN Good(acc)
  ELSE IF ~Fits(t, acc * (n - i)) THEN Bad("overflow")
  ELSE ChooseFrom(t, n, r, i + 1, (acc * (n - i)) \div (i + 1))
ncr(t, n, r) ==
  IF n < 0 \/ r < 0 \/ r > n THEN Bad("range-check")
  ELSE ChooseFrom(t, n, IF r > n - r THEN n - r ELSE r, 0, 1)

\* The estimate is std::sqrt of the argument as a double: exact or one too
\* large (the double may be rounded up).
isqrt_estimate(n) == LET r == CHOOSE k \in 0 .. n : k * k <= n /\ (k + 1) * (k + 1) > n IN {r, r + 1}
RECURSIVE Newton(_, _)
Newton(n, x) == LET x1 == (x + n \div x) \div 2 IN IF x1 >= x THEN x ELSE Newton(n, x1)
RECURSIVE Down(_, _)
Down(n, x) == IF x * x > n THEN Down(n, x - 1) ELSE x
RECURSIVE Up(_, _)
Up(n, x) == IF (x + 1) * (x + 1) <= n THEN Up(n, x + 1) ELSE x
isqrt(t, n, x0) ==
  CASE t \in WideInts -> Bad("type-check")
    [] t \notin WideInts /\ n < 0 -> Bad("range-check")
    [] t \in {"Byte", "Integer", "UInteger"} /\ n >= 0 -> Good(Up(n, Down(n, x0)))
    [] t \in {"Long", "ULong"} /\ n = 0 -> Good(0)
    [] OTHER -> Good(Down(n, Newton(n, x0)))

RECURSIVE mod_pow(_, _, _, _)
mod_pow(b, e, m, acc) == IF e = 0 THEN acc ELSE mod_pow((b * b) % m, e \div 2, m, IF e % 2 = 1 THEN (acc * b) % m ELSE acc)
\* A modulus of 1 still starts from 1.
powmod(t, b, e, m) ==
  CASE t \in WideInts -> Bad("type-check")
    [] t \notin WideInts /\ (b < 0 \/ e < 0 \/ m <= 0) -> Bad("range-check")
    [] OTHER -> Checked(t, mod_pow(b % m, e, m, 1))

Witnesses == {2, 3, 5, 7, 11, 13, 17, 19, 23, 29, 31, 37}
RECURSIVE OddPart(_)
OddPart(n) == IF n % 2 = 0 THEN OddPart(n \div 2) ELSE n
RECURSIVE ReachesMinusOne(_, _, _)
ReachesMinusOne(x, n, k) == x = n - 1 \/ (k > 1 /\ ReachesMinusOne((x * x) % n, n, k - 1))
Twos(n) == CHOOSE r \in 1 .. 31 : OddPart(n) * 2 ^ r = n
prime_pred(n) ==
  CASE n < 2 -> FALSE
    [] n \in {2, 3} -> TRUE
    [] n >= 4 /\ (n % 2 = 0 \/ n % 3 = 0) -> FALSE
    [] n >= 4 /\ n % 2 # 0 /\ n % 3 # 0
         /\ (\E d \in {5, 11, 17, 23, 29, 35} : d * d <= n /\ (n % d = 0 \/ n % (d + 2) = 0)) -> FALSE
    [] OTHER -> n <= 1000 \/ \A a \in Witnesses :
                  LET x == mod_pow(a % n, OddPart(n - 1), n, 1) IN a < n => x = 1 \/ ReachesMinusOne(x, n, Twos(n - 1))

-----------------------------------------------------------------------------
(* Bits; y is an Integer.                                                  *)

ShiftLeft(t, x, k) == NWrap(t, x * 2 ^ (k % NBits[t]))
ShiftRight(t, x, k) == x \div 2 ^ (k % NBits[t])
shift_left(t, x, y) == IF y >= 0 THEN ShiftLeft(t, x, y) ELSE ShiftRight(t, x, -y)
shift_right(t, x, y) == IF y >= 0 THEN ShiftRight(t, x, y) ELSE ShiftLeft(t, x, -y)
\* The 128-bit rotation is written out with a remainder that keeps its sign.
RotateLeft(t, x, k) == NWrap(t, x * 2 ^ k) | (x \div 2 ^ (NBits[t] - k))
RotateRight(t, x, k) == (x \div 2 ^ k) | NWrap(t, x * 2 ^ (NBits[t] - k))
rotate_left(t, x, y) ==
  LET r == Rem(y, NBits[t]) IN IF r = 0 THEN x ELSE IF r > 0 THEN RotateLeft(t, x, r) ELSE RotateRight(t, x, -r)
rotate_right(t, x, y) ==
  LET r == Rem(y, NBits[t]) IN IF r = 0 THEN x ELSE IF r > 0 THEN RotateRight(t, x, r) ELSE RotateLeft(t, x, -r)

Complement(t, x) == NMax(t) - x
bit_width(t, x) == CHOOSE w \in 0 .. NBits[t] : (w = 0 \/ x >= 2 ^ (w - 1)) /\ x < 2 ^ w
countl_zero(t, x) == NBits[t] - bit_width(t, x)
countr_zero(t, x) == IF x = 0 THEN NBits[t] ELSE CHOOSE k \in 0 .. NBits[t] - 1 : x % 2 ^ k = 0 /\ (x \div 2 ^ k) % 2 = 1
bit_ceil(t, x) ==
  IF x > 2 ^ (NBits[t] - 1) THEN Bad("overflow") ELSE Good(IF x <= 1 THEN 1 ELSE 2 ^ bit_width(t, x - 1))
bit_floor(t, x) == IF x = 0 THEN 0 ELSE 2 ^ (bit_width(t, x) - 1)
has_single_bit(x) == x # 0 /\ (x & (x - 1)) = 0

-----------------------------------------------------------------------------
(* Conversions.                                                            *)

\* The nearest value with p significant bits, ties to even.
RoundTo(p, v) ==
  LET a == Abs(v)
      s == CHOOSE k \in 0 .. 12 : a < 2 ^ (p + k) /\ (k = 0 \/ a >= 2 ^ (p + k - 1))
      lo == a \div 2 ^ s
      rest == a % 2 ^ s
      up == s > 0 /\ (2 * rest > 2 ^ s \/ (2 * rest = 2 ^ s /\ lo % 2 = 1))
      r == (IF up THEN lo + 1 ELSE lo) * 2 ^ s IN
  IF v < 0 THEN -r ELSE r
cast_to_type(t, v) == IF t \in NFloats THEN RoundTo(NMant[t], v) ELSE NWrap(t, v)

promote_common_type(a, b) ==
  LET either(t) == t \in {a, b} IN
  CASE either("Double") -> "Double"
    [] ~either("Double") /\ either("UInt128") ->
         IF either("Real") THEN "Double" ELSE IF either("Integer") THEN "Int128" ELSE "UInt128"
    [] ~either("Double") /\ ~either("UInt128") /\ either("Int128") -> IF either("Real") THEN "Double" ELSE "Int128"
    [] {a, b} \intersect {"Double", "UInt128", "Int128"} = {} /\ either("Real") ->
         IF either("Long") \/ either("ULong") THEN "Double" ELSE "Real"
    [] {a, b} \intersect {"Double", "UInt128", "Int128", "Real"} = {} /\ either("ULong") -> "ULong"
    [] {a, b} \intersect {"Double", "UInt128", "Int128", "Real", "ULong"} = {} /\ either("Long") -> "Long"
    [] {a, b} = {"Integer", "UInteger"} -> "Long"
    [] {a, b} \in {{"UInteger"}, {"UInteger", "Byte"}} -> "UInteger"
    [] OTHER -> "Integer"

is_valid_coercion(s, t) ==
  \/ s = t
  \/ s = "Byte"
  \/ s = "Integer" /\ t \in {"Long", "Int128", "Real", "Double"}
  \/ s = "UInteger" /\ t \in {"Long", "ULong", "Int128", "UInt128", "Real", "Double"}
  \/ s = "Long" /\ t \in {"Int128", "Double"}
  \/ s = "ULong" /\ t \in {"Int128", "UInt128", "Double"}
  \/ s \in {"Int128", "UInt128", "Real"} /\ t = "Double"

SameSize == {{"Integer", "UInteger"}, {"Long", "ULong"}, {"Int128", "UInt128"}}

-----------------------------------------------------------------------------
(* The shims.                                                              *)

NFree(m, c) == IF c = 0 THEN m ELSE [m EXCEPT !.live = @ \ {c}, !.bad = @ \/ c \notin m.live]
NNew(m, t) == IF t \in OnHeap THEN Max(m.live \union {0, 3}) + 1 ELSE 0
Alloc(m, t) == IF t \in OnHeap THEN [m EXCEPT !.live = @ \union {NNew(m, t)}] ELSE m
NRaise(m, e) == [m EXCEPT !.err = e, !.out = m.args]
Arg(m, i) == m.args[i]

\* The result replaces the first operand in its own cell.
update_first(m, r) ==
  IF r.e # "" THEN NRaise(m, r.e)
  ELSE LET a == IF Len(m.args) >= 3 THEN NFree(m, Arg(m, 3).c) ELSE m
           b == IF Len(m.args) >= 2 THEN NFree(a, Arg(m, 2).c) ELSE a IN
       [b EXCEPT !.out = <<[Arg(m, 1) EXCEPT !.v = r.v]>>]
\* ... as an Integer or a Boolean of its own.
plain_result(m, t, v) ==
  LET a == NFree(m, Arg(m, 1).c)
      b == IF Len(m.args) >= 2 THEN NFree(a, Arg(m, 2).c) ELSE a
      c == IF Len(m.args) >= 3 THEN NFree(b, Arg(m, 3).c) ELSE b IN
  [c EXCEPT !.out = <<[t |-> t, v |-> v, c |-> 0]>>]
bool_result(m, b) == plain_result(m, "Boolean", IF b THEN 1 ELSE 0)
quotrem(m) ==
  LET x == Arg(m, 1) y == Arg(m, 2)
      q == div(x.t, x.v, y.v) IN
  IF q.e # "" THEN NRaise(m, q.e)
  ELSE [m EXCEPT !.out = <<[x EXCEPT !.v = q.v], [y EXCEPT !.v = Rem(x.v, y.v)]>>]

\* A converted value is made first, then the old one is freed.
cast_object(m, i, t) ==
  LET old == m.out[i]
      a == Alloc(m, t) IN
  [NFree(a, old.c) EXCEPT !.out[i] = [t |-> t, v |-> cast_to_type(t, old.v), c |-> NNew(m, t)]]
promote(m) ==
  LET s == Arg(m, 1).t u == Arg(m, 2).t
      t == promote_common_type(s, u)
      a == [m EXCEPT !.out = m.args]
      b == IF s \notin {u, t} THEN cast_object(a, 1, t) ELSE a IN
  IF u \notin {s, t} THEN cast_object(b, 2, t) ELSE b
\* The array form, of a pair.
promote_array(m) ==
  LET t == promote_common_type(Arg(m, 1).t, Arg(m, 2).t)
      a == [m EXCEPT !.out = m.args]
      b == IF Arg(m, 1).t # t THEN cast_object(a, 1, t) ELSE a IN
  IF Arg(m, 2).t # t THEN cast_object(b, 2, t) ELSE b

\* The second operand is a type name.
cast(m, t) ==
  LET a == [m EXCEPT !.out = m.args] IN IF t = Arg(m, 1).t THEN a ELSE cast_object(a, 1, t)
coerce(m, t) == IF is_valid_coercion(Arg(m, 1).t, t) THEN cast(m, t) ELSE NRaise(m, "type-check")
reinterpret(m, t) ==
  LET s == Arg(m, 1).t IN
  CASE s = t -> [m EXCEPT !.out = m.args]
    [] s # t /\ {s, t} \in SameSize -> [m EXCEPT !.out = <<[t |-> t, v |-> NWrap(t, Arg(m, 1).v), c |-> Arg(m, 1).c]>>]
    [] OTHER -> NRaise(m, "type-check")

clamp(v, lo, hi) == IF v < lo THEN lo ELSE IF hi < v THEN hi ELSE v

Arith2 == {"add", "sub", "mul", "div", "mod", "gcd", "lcm", "midpoint", "ncr", "min", "max"}
Compare2 == {"lt", "le", "gt", "ge", "eq"}
Bits2 == {"and", "or", "xor"}
Shifts == {"shl", "shr", "rotl", "rotr"}
Bits1 == {"not", "bit_ceil", "bit_floor"}
Counts1 == {"popcount", "bit_width", "clz", "clo", "ctz", "cto"}
Signed1 == {"neg", "abs"}
Converts == {"cast", "coerce", "reinterpret"}

Value2(op, t, x, y) ==
  CASE op = "add" -> add(t, x, y) [] op = "sub" -> sub(t, x, y) [] op = "mul" -> mul(t, x, y)
    [] op = "div" -> div(t, x, y) [] op = "mod" -> mod(t, x, y) [] op = "gcd" -> gcd(t, x, y)
    [] op = "lcm" -> lcm(t, x, y) [] op = "midpoint" -> midpoint(t, x, y) [] op = "ncr" -> ncr(t, x, y)
    [] op = "min" -> Good(IF y < x THEN y ELSE x) [] op = "max" -> Good(IF x < y THEN y ELSE x)
    [] op = "and" -> Good(x & y) [] op = "or" -> Good(x | y) [] op = "xor" -> Good(x ^^ y)
    [] op = "shl" -> Good(shift_left(t, x, y)) [] op = "shr" -> Good(shift_right(t, x, y))
    [] op = "rotl" -> Good(rotate_left(t, x, y)) [] op = "rotr" -> Good(rotate_right(t, x, y))

Compared(op, x, y) ==
  CASE op = "lt" -> x < y [] op = "le" -> x <= y [] op = "gt" -> x > y [] op = "ge" -> x >= y [] op = "eq" -> x = y

NCounted(op, t, x) ==
  CASE op = "popcount" -> Cardinality({i \in 0 .. NBits[t] - 1 : (x \div 2 ^ i) % 2 = 1})
    [] op = "bit_width" -> bit_width(t, x) [] op = "clz" -> countl_zero(t, x) [] op = "clo" -> countl_zero(t, Complement(t, x))
    [] op = "ctz" -> countr_zero(t, x) [] op = "cto" -> countr_zero(t, Complement(t, x))

Value1(op, t, x) ==
  CASE op = "neg" -> neg(t, x) [] op = "abs" -> abs(t, x) [] op = "not" -> Good(Complement(t, x))
    [] op = "bit_ceil" -> bit_ceil(t, x) [] op = "bit_floor" -> Good(bit_floor(t, x))

\* aux: the target type of a conversion, or the estimate of a square root.
Perform(m, aux) ==
  LET x == Arg(m, 1) IN
  CASE m.op \in Arith2 \union Bits2 \union Shifts -> update_first(m, Value2(m.op, x.t, x.v, Arg(m, 2).v))
    [] m.op \in Compare2 -> bool_result(m, Compared(m.op, x.v, Arg(m, 2).v))
    [] m.op \in Signed1 \union Bits1 -> update_first(m, Value1(m.op, x.t, x.v))
    [] m.op \in Counts1 -> plain_result(m, "Integer", NCounted(m.op, x.t, x.v))
    [] m.op = "sign" -> plain_result(m, "Integer", sign(x.v))
    [] m.op = "has_single_bit" -> bool_result(m, has_single_bit(x.v))
    [] m.op = "isqrt" -> update_first(m, isqrt(x.t, x.v, aux))
    [] m.op = "quotrem" -> quotrem(m)
    [] m.op = "clamp" -> update_first(m, Good(clamp(x.v, Arg(m, 2).v, Arg(m, 3).v)))
    [] m.op = "between" -> bool_result(m, ~(x.v < Arg(m, 2).v) /\ ~(Arg(m, 3).v < x.v))
    [] m.op = "powmod" -> update_first(m, powmod(x.t, x.v, Arg(m, 2).v, Arg(m, 3).v))
    [] m.op = "prime" -> bool_result(m, prime_pred(x.v))
    [] m.op = "promote" -> promote(m)
    [] m.op = "promote_array" -> promote_array(m)
    [] m.op = "cast" -> cast(m, aux)
    [] m.op = "coerce" -> coerce(m, aux)
    [] m.op = "reinterpret" -> reinterpret(m, aux)

-----------------------------------------------------------------------------
NValues(t) ==
  IF t \in NFloats THEN {v \in -(2 ^ NBits["Int128"]) .. 2 ^ NBits["Int128"] : RoundTo(NMant[t], v) = v} ELSE NMin(t) .. NMax(t)
Operand(t, v, i) == [t |-> t, v |-> v, c |-> IF t \in OnHeap THEN i ELSE 0]
Ready(op, args) ==
  [op |-> op, args |-> args, out |-> << >>, live |-> {args[i].c : i \in 1 .. Len(args)} \ {0}, bad |-> FALSE, err |-> "", st |-> "ready", aux |-> 0]

NInit ==
  \E op \in NOps :
    \/ /\ op \in Arith2 \union Compare2
       /\ \E t \in NInts : \E x, y \in NValues(t) : nm = Ready(op, <<Operand(t, x, 1), Operand(t, y, 2)>>)
    \/ /\ op \in Bits2
       /\ \E t \in NUnsigned : \E x, y \in NValues(t) : nm = Ready(op, <<Operand(t, x, 1), Operand(t, y, 2)>>)
    \/ /\ op = "quotrem"
       /\ \E t \in NSigned : \E x, y \in NValues(t) : nm = Ready(op, <<Operand(t, x, 1), Operand(t, y, 2)>>)
    \/ /\ op \in Shifts
       /\ \E t \in NUnsigned : \E x \in NValues(t), y \in NValues("Integer") : nm = Ready(op, <<Operand(t, x, 1), Operand("Integer", y, 2)>>)
    \/ /\ op \in Bits1 \union Counts1 \union {"has_single_bit"}
       /\ \E t \in NUnsigned : \E x \in NValues(t) : nm = Ready(op, <<Operand(t, x, 1)>>)
    \/ /\ op \in Signed1
       /\ \E t \in NSigned : \E x \in NValues(t) : nm = Ready(op, <<Operand(t, x, 1)>>)
    \/ /\ op \in {"isqrt", "sign"}
       /\ \E t \in NInts : \E x \in NValues(t) : nm = Ready(op, <<Operand(t, x, 1)>>)
    \/ /\ op \in {"clamp", "between", "powmod"}
       /\ \E t \in {"Byte", "Integer", "Long"} : \E x, y, z \in NValues(t) :
            nm = Ready(op, <<Operand(t, x, 1), Operand(t, y, 2), Operand(t, z, 3)>>)
    \/ /\ op = "prime" /\ \E n \in NPrimes : nm = Ready(op, <<Operand("Prime", n, 1)>>)
    \/ /\ op \in {"promote", "promote_array"}
       /\ \E t, u \in NInts \union NFloats : \E x \in NValues(t), y \in NValues(u) :
            /\ x \in {1, Max(NValues(t)), Min(NValues(t))} /\ y \in {1, Max(NValues(u)), Min(NValues(u))}
            /\ nm = Ready(op, <<Operand(t, x, 1), Operand(u, y, 2)>>)
    \/ /\ op \in Converts
       /\ \E t \in NInts \union NFloats : \E x \in NValues(t) : nm = Ready(op, <<Operand(t, x, 1)>>)

Auxes ==
  CASE nm.op \in {"cast", "coerce"} /\ nm.args[1].t \in NFloats -> NFloats
    [] nm.op \in {"cast", "coerce"} /\ nm.args[1].t \notin NFloats -> NInts \union NFloats
    [] nm.op = "reinterpret" -> NInts
    [] nm.op = "isqrt" /\ nm.args[1].v >= 0 -> isqrt_estimate(nm.args[1].v)
    [] OTHER -> {0}

NNext == /\ nm.st = "ready"
         /\ \E aux \in Auxes : nm' = [Perform(nm, aux) EXCEPT !.st = "done", !.aux = aux]

NSpec == NInit /\ [][NNext]_nm

-----------------------------------------------------------------------------
NDone == nm.st = "done"
NOk == NDone /\ nm.err = ""
NX == nm.args[1].v
NY == nm.args[2].v
T == nm.args[1].t
R == nm.out[1].v
Overflows == NDone /\ nm.err = "overflow"
Divides(d, n) == n % d = 0
Bit(v, i) == (v \div 2 ^ i) % 2
\* The binomial coefficient, or some number of at least BinomialCap.
BinomialCap == 1000
RECURSIVE Binomial(_, _)
Binomial(n, r) == IF r = 0 THEN 1 ELSE LET b == (Binomial(n - 1, r - 1) * n) \div r IN IF b > BinomialCap THEN BinomialCap ELSE b
RECURSIVE PowerMod(_, _, _)
PowerMod(b, e, m) == IF e = 0 THEN 1 % m ELSE (b * PowerMod(b, e - 1, m)) % m

\* Integer arithmetic gives the mathematical result, and an overflow error
\* exactly when that does not fit the operands' type.
NumExact ==
  /\ nm.op = "add" => (NOk => R = NX + NY) /\ (Overflows => ~Fits(T, NX + NY))
  /\ nm.op = "sub" => (NOk => R = NX - NY) /\ (Overflows => ~Fits(T, NX - NY))
  /\ nm.op = "mul" => (NOk => R = NX * NY) /\ (Overflows => ~Fits(T, NX * NY))
  /\ nm.op = "neg" => (NOk => R = -NX) /\ (Overflows => ~Fits(T, -NX))
  /\ nm.op = "abs" => (NOk => R \in {NX, -NX} /\ R >= 0) /\ (Overflows => ~Fits(T, -NX))
  /\ NOk /\ nm.op \in {"div", "quotrem"} => Abs(NX - NY * R) < Abs(NY) /\ (NX - NY * R # 0 => (NX - NY * R < 0) = (NX < 0)) /\ Fits(T, R)
  /\ NOk /\ nm.op = "quotrem" => NX = NY * R + nm.out[2].v
  /\ NOk /\ nm.op = "mod" => Divides(Abs(NY), Abs(NX - R)) /\ Abs(R) < Abs(NY) /\ (R # 0 => (R < 0) = (NX < 0))
  /\ NOk /\ nm.op = "isqrt" => R >= 0 /\ R * R <= NX /\ (R + 1) * (R + 1) > NX
  /\ NOk /\ nm.op = "midpoint" => Abs(2 * R - NX - NY) <= 1
  /\ NOk /\ nm.op = "prime" => (R = 1) = (NX > 1 /\ \A d \in 2 .. 40 : d < NX => ~Divides(d, NX))

\* The operators built on loops: gcd and lcm, the binomial coefficient (which
\* may overflow on the way, but never when r times the result fits), powers.
NumberTheory ==
  /\ NOk /\ nm.op = "gcd" /\ {NX, NY} # {0} =>
       /\ R > 0 /\ Divides(R, Abs(NX)) /\ Divides(R, Abs(NY))
       /\ \A d \in 1 .. NMax(T) : Divides(d, Abs(NX)) /\ Divides(d, Abs(NY)) => d <= R
  /\ NOk /\ nm.op = "lcm" /\ 0 \notin {NX, NY} =>
       /\ R > 0 /\ Divides(Abs(NX), R) /\ Divides(Abs(NY), R)
       /\ \A d \in 1 .. R - 1 : ~(Divides(Abs(NX), d) /\ Divides(Abs(NY), d))
  /\ nm.op = "lcm" /\ Overflows /\ NMin(T) \notin {NX, NY} =>
       \A d \in 1 .. NMax(T) : ~(Divides(Abs(NX), d) /\ Divides(Abs(NY), d))
  /\ nm.op = "ncr" /\ NOk => R = Binomial(NX, NY)
  /\ nm.op = "ncr" /\ Overflows => ~Fits(T, Binomial(NX, NY) * (IF NY > NX - NY THEN NX - NY ELSE NY))
  /\ nm.op = "powmod" /\ NOk /\ nm.args[3].v > 1 => R = PowerMod(NX, NY, nm.args[3].v)

\* x^e mod m, as the reference manual has it, for every modulus.
PowerExact == nm.op = "powmod" /\ NOk => R = PowerMod(NX, NY, nm.args[3].v)

\* Shifts and rotations move each bit by the count modulo the width, counts
\* are those of the bits, and powers of two bracket their argument.
BitsExact ==
  LET N == NBits[T] k == Abs(NY) % N left == (nm.op = "shl") = (NY >= 0) IN
  NOk =>
    CASE nm.op \in {"shl", "shr"} ->
           \A i \in 0 .. N - 1 : Bit(R, i) = (IF left THEN IF i >= k THEN Bit(NX, i - k) ELSE 0 ELSE IF i + k < N THEN Bit(NX, i + k) ELSE 0)
      [] nm.op = "rotl" -> \A i \in 0 .. N - 1 : Bit(R, i) = Bit(NX, (i - NY) % N)
      [] nm.op = "rotr" -> \A i \in 0 .. N - 1 : Bit(R, i) = Bit(NX, (i + NY) % N)
      [] nm.op = "bit_ceil" -> R >= NX /\ has_single_bit(R) /\ (NX > 1 => R < 2 * NX)
      [] nm.op = "bit_floor" -> R <= NX /\ (NX > 0 => has_single_bit(R) /\ 2 * R > NX)
      [] nm.op = "clz" -> \A i \in 0 .. N - 1 : i >= N - R => Bit(NX, i) = 0
      [] nm.op = "cto" -> \A i \in 0 .. R - 1 : Bit(NX, i) = 1
      [] nm.op = "has_single_bit" -> (R = 1) = (\E i \in 0 .. N - 1 : NX = 2 ^ i)
      [] OTHER -> TRUE

\* promote gives both operands one type, coerce loses nothing but precision
\* of a float, and a cast there and back to a type that holds the value is
\* the identity.
ConvertExact ==
  NOk =>
    /\ nm.op \in {"promote", "promote_array"} => nm.out[1].t = nm.out[2].t
    /\ nm.op = "coerce" => R = NX \/ nm.out[1].t \in NFloats
    /\ nm.op = "cast" /\ nm.aux \in NInts => (Fits(nm.aux, NX) => R = NX) /\ (R - NX) % 2 ^ NBits[nm.aux] = 0
    /\ nm.op = "reinterpret" => NWrap(T, R) = NX

\* promote chooses a type that represents both operands.
PromoteLossless == NOk /\ nm.op = "promote" /\ {T, nm.args[2].t} \subseteq NInts => R = NX /\ nm.out[2].v = NY

\* promote is a no-op when all operands already have the same type.
PromoteIdle == NOk /\ nm.op \in {"promote", "promote_array"} /\ T = nm.args[2].t => nm.out = nm.args

\* Every heap cell on the stack is in use and owned once, nothing else is in
\* use, and a failed operator leaves operands and cells as they were.
NumOwners ==
  NDone =>
    /\ ~nm.bad
    /\ nm.live = {nm.out[i].c : i \in 1 .. Len(nm.out)} \ {0}
    /\ \A i, j \in 1 .. Len(nm.out) : nm.out[i].c # 0 /\ nm.out[i].c = nm.out[j].c => i = j
    /\ \A i \in 1 .. Len(nm.out) : (nm.out[i].c # 0) = (nm.out[i].t \in OnHeap)
    /\ nm.err # "" => nm.out = nm.args

\* Integer operators at machine width return the exact result or the error
\* they document, and hand on or free every wide operand once.
NumbersSound ==
  /\ NumExact
  /\ NumberTheory
  /\ BitsExact
  /\ ConvertExact
  /\ NumOwners

=============================================================================
