----------------------------- MODULE NumberScan -----------------------------
(***************************************************************************)
(* Reading numbers from text: class Number (number.inl), the scanner's     *)
(* try_parse_number with its underscore rule (scanner.inl), the operator   *)
(* to-number (ops_convert.inl) and the numeric fields of scan-fmt          *)
(* (scanfmt.inl).                                                          *)
(*                                                                         *)
(* A text is a sequence of lower-case characters; upper case is read the   *)
(* same way and is left out.  The widths of the integer types and the      *)
(* decades the floating-point types reach are constants, scaled down so    *)
(* that short texts meet every limit.  A floating-point value is kept as   *)
(* the exact mantissa and exponent the text spells; how the C++ library    *)
(* rounds it is not modelled.                                              *)
(***************************************************************************)
EXTENDS Integers, Sequences, SequencesExt, FiniteSetsExt

CONSTANTS
    ScTexts,    \* the texts read
    ScBits,     \* width of each integer type
    ScReach,    \* decades (or binary octades) each floating type reaches
    ScTargets   \* the types scan-fmt arguments have in this instance

VARIABLE sc     \* [how, text, want, out]: the last reading and its outcome

ScDigits == {"0", "1", "2", "3", "4", "5", "6", "7", "8", "9"}
ScLetters == <<"a", "b", "c", "d", "e", "f", "g", "h", "i", "j", "k", "l", "m", "n", "o", "p", "q", "r", "s", "t", "u", "v", "w", "x", "y", "z">>
ScAlpha == Range(ScLetters)
ScHex == ScDigits \union {"a", "b", "c", "d", "e", "f"}
ScSuffix == {"a", "b", "i", "l", "q", "u"}

\* What a character is worth as a digit of any radix.
digit_value(c) ==
    IF c \in ScAlpha THEN 9 + CHOOSE n \in 1 .. 26 : ScLetters[n] = c
    ELSE CHOOSE n \in 0 .. 9 : c = <<"0", "1", "2", "3", "4", "5", "6", "7", "8", "9">>[n + 1]

\* '.' ends a token for the character tables although a number may hold one.
is_terminator(c) == c \in {" ", "."}

\* The hint table, without the upper-case rows.
get_hint(c) ==
    CASE c \in ScDigits \union {"+", "-"} -> {"may integer"}
      [] c = "." -> {"not integer", "not radix", "may real"}
      [] c = "#" -> {"not integer", "may radix", "not real"}
      [] c \in ScSuffix -> {"not real"}
      [] c \in {"d", "e", "r"} -> {"not integer", "may real"}
      [] c \in ScAlpha \ (ScSuffix \union {"d", "e", "r"}) -> {"not integer", "not real"}
      [] c = " " -> {}
      [] OTHER -> {"name"}

ScNo == [st |-> "no"]
ScOverflow == [st |-> "overflow"]
ScNum(t, v) == [st |-> "number", type |-> t, value |-> v]

-----------------------------------------------------------------------------
(* Integers *)

ScSigned == {"Integer", "Long", "Int128"}

\* The type a set of suffix letters selects.
suffix_type(S) ==
    CASE "b" \in S -> "Byte"
      [] "q" \in S -> IF "u" \in S THEN "UInt128" ELSE "Int128"
      [] "l" \in S -> IF "u" \in S THEN "ULong" ELSE "Long"
      [] "a" \in S -> "Address"
      [] S = {"u"} \/ S = {"u", "i"} -> "UInteger"
      [] OTHER -> "Integer"

\* The suffix a wanted type stands for when the text carries none.
hint_suffix(t) ==
    CASE t = "Byte" -> {"b"} [] t = "UInteger" -> {"u"} [] t = "Long" -> {"l"} [] t = "ULong" -> {"u", "l"}
      [] t = "Address" -> {"a"} [] t = "Int128" -> {"q"} [] t = "UInt128" -> {"u", "q"} [] OTHER -> {}

\* The magnitude and the sign become a value of the selected type, or an error when they do not fit.  A sign that an
\* unsigned suffix would have refused is dropped when the type comes from the hint.
determine_integer_type(s, hint) ==
    LET t == suffix_type(IF s.mask = {} THEN hint_suffix(hint) ELSE s.mask)
        top == 2 ^ ScBits[t]
        limit == IF t \in ScSigned THEN (IF s.neg THEN top \div 2 + 1 ELSE top \div 2) ELSE top
    IN IF s.wrapped \/ s.u >= limit THEN ScOverflow ELSE ScNum(t, IF t \in ScSigned /\ s.neg THEN -s.u ELSE s.u)

ScStop(s) == [s EXCEPT !.st = "no"]

\* One more digit, in the 128-bit accumulator; a wrap is remembered.
take_digit(s, c) ==
    LET top == 2 ^ ScBits["UInt128"]
        scaled == s.u * s.radix
    IN IF digit_value(c) >= s.radix THEN ScStop(s)
       ELSE [s EXCEPT !.valid = TRUE, !.wrapped = @ \/ scaled + digit_value(c) >= top,
                      !.u = IF scaled >= top THEN @ ELSE (scaled + digit_value(c)) % top]

\* One suffix letter: b, u and a come first and not after a minus, i, l and q may follow u.
take_suffix(s, c) ==
    IF \/ c \in {"b", "u", "a"} /\ s.mask = {} /\ ~s.neg
       \/ c \in {"i", "l", "q"} /\ s.mask \subseteq {"u"}
    THEN [s EXCEPT !.mask = @ \union {c}] ELSE ScStop(s)

\* One character of the loop.
integer_char(s, c) ==
    CASE s.st # "go" -> s
      [] s.st = "go" /\ c \in ScDigits /\ s.mask # {} -> ScStop(s)
      [] s.st = "go" /\ c \in ScAlpha /\ (s.radixForm => s.suffix) -> take_suffix(s, c)
      [] s.st = "go" /\ c = "#" -> IF s.radixForm /\ ~s.suffix THEN [s EXCEPT !.suffix = TRUE] ELSE ScStop(s)
      [] s.st = "go" /\ is_terminator(c) -> [s EXCEPT !.st = "end"]
      [] s.st = "go" /\ c \in ScDigits \union ScAlpha /\ (c \in ScDigits => s.mask = {}) /\ (c \in ScAlpha => ~(s.radixForm => s.suffix)) -> take_digit(s, c)
      [] OTHER -> ScStop(s)

\* digits[suffix], or digits[#suffix] in the given radix (0: decimal, no separator).
scan_integer_value_and_suffix(text, radix, hint) ==
    LET signed == text[1] \in {"+", "-"}
        start == [st |-> "go", neg |-> text[1] = "-", mask |-> {}, radixForm |-> radix # 0, suffix |-> FALSE,
                  radix |-> IF radix = 0 THEN 10 ELSE radix, u |-> 0, wrapped |-> FALSE, valid |-> FALSE]
        end == FoldLeft(integer_char, start, IF signed THEN Tail(text) ELSE text)
    IN IF end.st # "no" /\ end.valid THEN determine_integer_type(end, hint) ELSE ScNo

scan_integer(text, hint) == scan_integer_value_and_suffix(text, 0, hint)

\* The run of characters of C that starts at position i.
ScRun(text, i, C) ==
    CHOOSE k \in 0 .. Len(text) : /\ \A j \in i .. i + k - 1 : j <= Len(text) /\ text[j] \in C
                                  /\ i + k > Len(text) \/ text[i + k] \notin C
ScFrom(text, i) == SubSeq(text, i, Len(text))

\* base#digits[#suffix], base 2 .. 36.
scan_radix(text) ==
    LET k == ScRun(text, 1, ScDigits)
        base == FoldLeft(LAMBDA r, c : IF r > 36 THEN r ELSE 10 * r + digit_value(c), 0, SubSeq(text, 1, k))
    IN IF k < Len(text) - 1 /\ text[k + 1] = "#" /\ base \in 2 .. 36
       THEN scan_integer_value_and_suffix(ScFrom(text, k + 2), base, "Null")
       ELSE ScNo

-----------------------------------------------------------------------------
(* Floating point *)

ScValue(s, b) == FoldLeft(LAMBDA v, c : b * v + digit_value(c), 0, s)

\* The value of the digits whole and frac at position i, times the base to the power exp.
ScSpelledOut(text, base, i, whole, frac, exp) ==
    [neg |-> i = 2, base |-> base, exp |-> exp - (IF base = 10 THEN frac ELSE 4 * frac),
     mant |-> ScValue(SubSeq(text, i, i + whole - 1) \o SubSeq(text, i + whole + 1, i + whole + frac), base)]

\* The exponent at position e, if the text has one: what was used up, and its value.
ScExponent(text, base, e) ==
    IF ~(e < Len(text) /\ text[e] = IF base = 10 THEN "e" ELSE "p") THEN [used |-> e - 1, exp |-> 0]
    ELSE LET first == IF text[e + 1] \in {"+", "-"} THEN e + 2 ELSE e + 1
             last == first + ScRun(text, first, ScDigits) - 1
             v == ScValue(SubSeq(text, first, last), 10)
         IN IF last < first THEN [used |-> e - 1, exp |-> 0]
            ELSE [used |-> last, exp |-> IF text[e + 1] = "-" THEN -v ELSE v]

\* The number whose digits before the point are the run of length whole at position i.
ScNumberAt(text, base, C, i, whole) ==
    LET dot == i + whole <= Len(text) /\ text[i + whole] = "."
        frac == IF dot THEN ScRun(text, i + whole + 1, C) ELSE 0
        x == ScExponent(text, base, i + whole + (IF dot THEN 1 + frac ELSE 0))
    IN IF whole + frac = 0 THEN [used |-> 0]
       ELSE [used |-> x.used, value |-> ScSpelledOut(text, base, i, whole, frac, x.exp)]

\* std::from_chars: the longest prefix that is a number in base 10 or 16.
from_chars(text, base) ==
    LET C == IF base = 10 THEN ScDigits ELSE ScHex
        i == IF text # <<>> /\ text[1] = "-" THEN 2 ELSE 1
    IN ScNumberAt(text, base, C, i, ScRun(text, i, C))

\* The decade a value lies in, and whether a type reaches it.
ScDecade(v) == v.exp + (CHOOSE k \in 1 .. 24 : LET b == IF v.base = 10 THEN 10 ELSE 2 IN b ^ (k - 1) <= v.mant /\ v.mant < b ^ k)
ScReaches(t, v) == v.mant = 0 \/ ScDecade(v) \in -ScReach[t] .. ScReach[t]

\* A double out of range, or a real the double does not fit, is an overflow.
finalize_float_parse(v, isDouble) ==
    IF ~ScReaches("Double", v) \/ (~isDouble /\ ~ScReaches("Real", v)) THEN ScOverflow
    ELSE ScNum(IF isDouble THEN "Double" ELSE "Real", v)

\* What follows the digits must end the number: a mark of the width, then no more, or where it may, a terminator.
ScMarked(rest, hash) == Len(rest) > Len(hash) /\ SubSeq(rest, 1, Len(hash)) = hash /\ rest[Len(hash) + 1] \in {"d", "r"}
ScEnded(f, rest, hash, whole, hint) ==
    LET marked == ScMarked(rest, hash)
        after == IF ~marked THEN rest ELSE IF whole THEN ScFrom(rest, Len(hash) + 2) ELSE <<>>
    IN IF f.used = 0 \/ ~(after = <<>> \/ is_terminator(after[1])) THEN ScNo
       ELSE finalize_float_parse(f.value, IF marked THEN rest[Len(hash) + 1] = "d" ELSE hint = "Double")
ScFloat(text, f, hash, whole, hint) == ScEnded(f, ScFrom(text, f.used + 1), hash, whole, hint)

\* digits[.frac]p[+-]exp[#d|#r], after the 0x; nothing behind the mark is looked at.
scan_hex_float(text, hint) == ScFloat(text, from_chars(text, 16), <<"#">>, FALSE, hint)

\* A decimal fraction or exponent, with its suffix d or r.
scan_real(text, hint) ==
    LET body == IF text[1] = "+" THEN Tail(text) ELSE text
        k == ScRun(body, IF body # <<>> /\ text[1] = "-" THEN 2 ELSE 1, ScDigits \union {"+", "-", "#"})
        at == k + (IF text[1] = "-" THEN 2 ELSE 1)
    IN IF at > Len(body) \/ body[at] \notin {".", "e"} THEN ScNo
       ELSE ScFloat(body, from_chars(body, 10), <<>>, TRUE, hint)

-----------------------------------------------------------------------------
(* Prefixes, the gate and the entry points *)

\* 0x, 0o and 0b; 0x with a p exponent is a hexadecimal float.
scan_prefix(text, hint) ==
    LET rest == ScFrom(text, 3)
        k == ScRun(rest, 1, ScHex \union {"."})
    IN CASE Len(text) < 3 \/ text[1] # "0" -> ScNo
         [] Len(text) >= 3 /\ text[1] = "0" /\ text[2] = "x" ->
              IF k < Len(rest) /\ rest[k + 1] = "p" THEN scan_hex_float(rest, hint) ELSE scan_integer_value_and_suffix(rest, 16, hint)
         [] Len(text) >= 3 /\ text[1] = "0" /\ text[2] = "o" -> scan_integer_value_and_suffix(rest, 8, hint)
         [] Len(text) >= 3 /\ text[1] = "0" /\ text[2] = "b" ->
              IF text[3] \in {"0", "1"} THEN scan_integer_value_and_suffix(rest, 2, hint) ELSE ScNo
         [] OTHER -> ScNo

\* A reading that was not refused is the one that counts.
ScFirst(r, otherwise) == IF r.st # "no" THEN r ELSE otherwise

\* The gate: the hints of the text decide which readings are tried, in the order integer, real, radix, prefix.
scan_impl(text, hint) ==
    LET k == ScRun(text, 1, (ScAlpha \union ScDigits) \union {"+", "-", ".", "#", "_", "|"})
        hints == UNION {get_hint(text[i]) : i \in 1 .. k}
        prefix == Len(text) >= 3 /\ text[1] = "0" /\ k >= 3
        Try(may, not, r) == IF may \in hints /\ not \notin hints THEN r ELSE ScNo
    IN IF "name" \in hints \/ hints = {} \/ (~prefix /\ {"not integer", "not radix", "not real"} \subseteq hints) THEN ScNo
       ELSE ScFirst(Try("may integer", "not integer", scan_integer(text, hint)),
              ScFirst(Try("may real", "not real", scan_real(text, hint)),
                ScFirst(Try("may radix", "not radix", scan_radix(text)), IF prefix THEN scan_prefix(text, hint) ELSE ScNo)))

\* A number of another type than the wanted one is refused.
ScStrict(r, t) == IF r.st = "number" /\ r.type # t THEN ScNo ELSE r

scan_strict(text, t) == ScStrict(scan_impl(text, t), t)

scan_hex(text, hint) ==
    LET payload == IF Len(text) >= 2 /\ text[1] = "0" /\ text[2] = "x" THEN ScFrom(text, 3) ELSE text
    IN IF payload = <<>> THEN ScNo ELSE scan_integer_value_and_suffix(payload, 16, hint)

scan_hex_strict(text, t) == ScStrict(scan_hex(text, t), t)

\* Underscores between digits of the region they stand in are taken out; one in the wrong place leaves the text alone.
strip_number_underscores(text) ==
    LET hashes == {i \in DOMAIN text : text[i] = "#"}
        first == IF hashes = {} THEN 0 ELSE Min(hashes)
        second == IF Cardinality(hashes) < 2 THEN 0 ELSE Min(hashes \ {first})
        kind == IF Len(text) >= 3 /\ text[1] = "0" THEN text[2] ELSE "none"
        ps == {i \in 3 .. Len(text) : text[i] = "p"}
        Region(i) ==
            CASE first # 0 /\ i > first + 1 /\ i < second -> ScHex
              [] ~(first # 0 /\ i > first + 1 /\ i < second) /\ kind = "x" /\ i >= 3 /\ (\A p \in ps : i < p) -> ScHex
              [] ~(first # 0 /\ i > first + 1 /\ i < second) /\ kind = "o" /\ i >= 3 -> ScDigits \ {"8", "9"}
              [] ~(first # 0 /\ i > first + 1 /\ i < second) /\ kind = "b" /\ i >= 3 -> {"0", "1"}
              [] OTHER -> ScDigits
        Fine(i) == i \in 2 .. Len(text) - 1 /\ text[i - 1] \in Region(i) /\ text[i + 1] \in Region(i)
    IN IF \A i \in DOMAIN text : text[i] = "_" => Fine(i) THEN SelectSeq(text, LAMBDA c : c # "_") ELSE text

\* The scanner's reading of a token; ScNo means the token is a name.
try_parse_number(text) == scan_impl(IF Len(text) > 1 THEN strip_number_underscores(text) ELSE text, "Null")

\* to-number.
to_number(text) == scan_impl(text, "Null")

ScReading(s, want, hex) ==
    IF want = "Null" THEN (IF hex THEN scan_hex(s, "Null") ELSE scan_impl(s, "Null"))
    ELSE IF hex THEN scan_hex_strict(s, want) ELSE scan_strict(s, want)

\* The readings of the prefixes, longest first, as long as what is given up is a fill character.
ScGiveUp(text, fill, readings) ==
    LET good == {n \in DOMAIN readings : /\ readings[n].st # "no"
                                         /\ \A j \in n + 1 .. Len(readings) : text[j] = fill /\ readings[j].st = "no"}
    IN IF good = {} THEN [st |-> "scan-type-fail"] ELSE readings[Max(good)]

\* A numeric field of scan-fmt: the numeric characters of the input, the trailing fill characters given up one by one
\* when the text is refused.
scan_numeric(text, want, hex, fill) ==
    ScGiveUp(text, fill, [n \in 1 .. ScRun(text, 1, (ScAlpha \union ScDigits) \union {"+", "-", ".", "#"}) |->
                            ScReading(SubSeq(text, 1, n), want, hex)])

-----------------------------------------------------------------------------
(* The specification: one reading after another *)

ScInit == sc = [how |-> "none", text |-> <<>>, want |-> "Null", out |-> ScNo]

ReadToken(text) ==
    /\ " " \notin Range(text) /\ Cardinality({i \in DOMAIN text : text[i] = "."}) <= 1
    /\ "." \in Range(text) => text[1] \in ScDigits \union {"+", "-", "."}
    /\ sc' = [how |-> "token", text |-> text, want |-> "Null", out |-> try_parse_number(text)]
ReadString(text) == sc' = [how |-> "to-number", text |-> text, want |-> "Null", out |-> to_number(text)]
ReadField(text, want) == sc' = [how |-> "field", text |-> text, want |-> want, out |-> scan_numeric(text, want, FALSE, "0")]
ReadHexField(text, want) == sc' = [how |-> "hex field", text |-> text, want |-> want, out |-> scan_numeric(text, want, TRUE, " ")]

ScNext ==
    /\ sc.how = "none"
    /\ \E text \in ScTexts :
        \/ ReadToken(text)
        \/ ReadString(text)
        \/ \E want \in ScTargets : ReadField(text, want)
        \/ \E want \in ScTargets : ReadHexField(text, want)

ScSpec == ScInit /\ [][ScNext]_sc

-----------------------------------------------------------------------------
(* The documented forms, written as a grammar *)

RefSuffixes == {<<>>, <<"b">>, <<"i">>, <<"u">>, <<"u", "i">>, <<"l">>, <<"u", "l">>, <<"q">>, <<"u", "q">>, <<"a">>}
RefSigns == {<<>>, <<"+">>, <<"-">>}
RefAll(s, C) == \A i \in DOMAIN s : s[i] \in C
RefPositional(s, base) == FoldLeft(LAMBDA v, c : base * v + digit_value(c), 0, s)
RefDigit(base) == {c \in ScDigits \union ScAlpha : digit_value(c) < base}

\* The pieces of a text at two cuts.
RefCuts(s) == {c \in (0 .. Len(s)) \X (0 .. Len(s)) : c[1] <= c[2]}
RefA(s, c) == SubSeq(s, 1, c[1])
RefB(s, c) == SubSeq(s, c[1] + 1, c[2])
RefC(s, c) == SubSeq(s, c[2] + 1, Len(s))

\* The number a sign, digits and a suffix denote, when its type holds it.
RefInteger(sign, digits, base, suffix) ==
    LET t == suffix_type(Range(suffix))
        v == IF sign = <<"-">> THEN -RefPositional(digits, base) ELSE RefPositional(digits, base)
        top == 2 ^ ScBits[t]
    IN IF v \in (IF t \in ScSigned THEN -(top \div 2) .. top \div 2 - 1 ELSE 0 .. top - 1) THEN ScNum(t, v) ELSE ScOverflow

\* [sign] digits [sep suffix], an unsigned suffix only without a minus.
RefIntegers(s, base, sep) ==
    {RefInteger(RefA(s, c), RefB(s, c), base, IF sep = <<>> \/ RefC(s, c) = <<>> THEN RefC(s, c) ELSE Tail(RefC(s, c))) :
        c \in {d \in RefCuts(s) :
            /\ RefA(s, d) \in RefSigns /\ RefB(s, d) # <<>> /\ RefAll(RefB(s, d), RefDigit(base))
            /\ RefC(s, d) \in {<<>>} \union {sep \o x : x \in RefSuffixes}
            /\ RefA(s, d) = <<"-">> => Range(RefC(s, d)) \intersect {"b", "u", "a"} = {}}}

\* base#[sign]digits[#suffix]
RefRadix(s) == UNION {RefIntegers(SubSeq(s, h + 1, Len(s)), RefPositional(SubSeq(s, 1, h - 1), 10), <<"#">>) :
                        h \in {i \in 2 .. Len(s) - 1 : /\ s[i] = "#" /\ RefAll(SubSeq(s, 1, i - 1), ScDigits)
                                                       /\ RefPositional(SubSeq(s, 1, i - 1), 10) \in 2 .. 36}}

\* 0x, 0o, 0b digits[#suffix], without a sign.
RefPrefix(s) ==
    IF Len(s) < 3 \/ s[1] # "0" \/ s[2] \notin {"x", "o", "b"} \/ s[3] \in {"+", "-"} THEN {}
    ELSE RefIntegers(ScFrom(s, 3), CASE s[2] = "x" -> 16 [] s[2] = "o" -> 8 [] OTHER -> 2, <<"#">>)

\* mantissa [exponent] of a floating-point literal: the exact value, if the text is one.
RefFloat(neg, s, base) ==
    LET C == RefDigit(base)
        mark == IF base = 10 THEN "e" ELSE "p"
        marks == {i \in DOMAIN s : s[i] = mark}
        m == IF marks = {} THEN s ELSE SubSeq(s, 1, Min(marks) - 1)
        x == IF marks = {} THEN <<"0">> ELSE ScFrom(s, Min(marks) + 1)
        xd == IF x # <<>> /\ x[1] \in {"+", "-"} THEN Tail(x) ELSE x
        dots == {i \in DOMAIN m : m[i] = "."}
        frac == IF dots = {} THEN 0 ELSE Len(m) - Min(dots)
        digits == SelectSeq(m, LAMBDA c : c # ".")
    IN IF /\ Cardinality(dots) <= 1 /\ digits # <<>> /\ RefAll(digits, C) /\ xd # <<>> /\ RefAll(xd, ScDigits)
          /\ (dots # {} \/ marks # {}) /\ (base = 16 => marks # {})
       THEN {[neg |-> neg, mant |-> RefPositional(digits, base), base |-> base,
              exp |-> (IF x[1] = "-" THEN -RefPositional(xd, 10) ELSE RefPositional(xd, 10)) - (IF base = 10 THEN frac ELSE 4 * frac)]}
       ELSE {}

RefTyped(V, isDouble) == {IF ScReaches("Double", v) /\ (isDouble \/ ScReaches("Real", v))
                          THEN ScNum(IF isDouble THEN "Double" ELSE "Real", v) ELSE ScOverflow : v \in V}

\* [sign] decimal [d|r], and 0x hex p exponent [#d|#r].
RefReal(s) ==
    LET t == IF s # <<>> /\ s[Len(s)] \in {"d", "r"} THEN Front(s) ELSE s
        b == IF t # <<>> /\ t[1] \in {"+", "-"} THEN Tail(t) ELSE t
    IN IF s = <<>> \/ Range(b) \intersect (ScAlpha \ {"e"}) # {} THEN {} ELSE RefTyped(RefFloat(s[1] = "-", b, 10), s[Len(s)] = "d")
RefHexFloat(s) ==
    LET marked == Len(s) >= 2 /\ s[Len(s) - 1] = "#" /\ s[Len(s)] \in {"d", "r"}
        t == IF marked THEN SubSeq(s, 1, Len(s) - 2) ELSE s
    IN IF Len(t) < 3 \/ SubSeq(s, 1, 2) # <<"0", "x">> THEN {} ELSE RefTyped(RefFloat(FALSE, ScFrom(t, 3), 16), marked /\ s[Len(s)] = "d")

RefReadings(s) == RefIntegers(s, 10, <<>>) \union RefRadix(s) \union RefPrefix(s) \union RefReal(s) \union RefHexFloat(s)

ScBody(s) == SubSeq(s, 1, ScRun(s, 1, {c \in Range(s) : c # " "}))

\* Every text of a documented form is read as that form demands: its type by suffix, its exact value, NumericalOverflow
\* exactly when the type cannot hold it -- whatever the hint gate, the order of the readings and the accumulator's width do.
ScanExact == sc.how = "to-number" => RefReadings(ScBody(sc.text)) \subseteq {sc.out}

\* Texts with at most one point, no sign or point behind a prefix, no digit behind the '#' of a suffix, one sign in a real.
ScPlain(s) ==
    /\ Cardinality({i \in DOMAIN s : s[i] = "."}) <= 1
    /\ ~(Len(s) >= 3 /\ s[1] = "0" /\ s[2] \in {"x", "b", "o"} /\ Range(s) \intersect {".", "+", "-"} # {})
    /\ \A i, j \in DOMAIN s : i < j /\ (s[i] = "#" \/ (i = 2 /\ s[i] \in {"x", "b", "o"})) /\ s[j] = "#" => \A k \in j + 1 .. Len(s) : s[k] \notin ScDigits
    /\ ~(Len(s) >= 2 /\ s[1] = "+" /\ s[2] = "-")
    /\ ~(Len(s) >= 2 /\ Range(s) \intersect {".", "e"} # {} /\ "#" \in Range(s))

\* Nothing else is a number: a token that fits no documented form becomes a name, an underscore anywhere but between two
\* digits included.
NothingInvented ==
    /\ sc.how = "to-number" /\ ScPlain(ScBody(sc.text)) /\ RefReadings(ScBody(sc.text)) = {} => sc.out = ScNo
    /\ sc.how = "token" /\ "_" \in Range(sc.text) /\ sc.out # ScNo =>
        \A i \in DOMAIN sc.text : sc.text[i] = "_" => /\ i \in 2 .. Len(sc.text) - 1
                                                     /\ {sc.text[i - 1], sc.text[i + 1]} \subseteq ScHex

\* The wanted type acts as a suffix: an unsigned text read into a field of that type is what the text with the suffix
\* spelled out would be, or the field is refused.
ScSpelled(t) == CASE t = "Byte" -> <<"b">> [] t = "UInteger" -> <<"u">> [] t = "Long" -> <<"l">> [] t = "ULong" -> <<"u", "l">>
                  [] t = "Int128" -> <<"q">> [] t = "UInt128" -> <<"u", "q">> [] t = "Double" -> <<"d">> [] OTHER -> <<>>
HintIsSuffix ==
    sc.how = "field" /\ sc.want # "Null" /\ RefAll(sc.text, ScDigits) /\ sc.want # "Double"
        => sc.out = to_number(sc.text \o ScSpelled(sc.want))

\* The same for every decimal text, a minus included: "-5" in a Byte field must be refused as "-5b" is.
HintIsSuffixSigned ==
    sc.how = "field" /\ sc.want # "Null" /\ sc.want # "Double" /\ Len(sc.text) >= 2 /\ sc.text[1] = "-" /\ RefAll(Tail(sc.text), ScDigits)
        => (sc.out.st = "number" => sc.out = to_number(sc.text \o ScSpelled(sc.want)))

\* A number uses its whole text: what was read is a documented form of all of it.
WholeText == sc.how = "token" /\ sc.out.st = "number" => RefReadings(strip_number_underscores(sc.text)) # {}

\* A text is read as the number it spells, with the type its suffix names.
ScanSound == ScanExact /\ NothingInvented /\ HintIsSuffix

=============================================================================
