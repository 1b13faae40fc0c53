-------------------------------- MODULE Parse -------------------------------
(***************************************************************************)
(* The number parsers of str/parse.c.  A view is a sequence of characters  *)
(* or NoText, the NULL view; int64_t is scaled to -IntMax - 1 .. IntMax.   *)
(* A few characters stand for their kinds, and lower case for both cases.  *)
(***************************************************************************)
EXTENDS Integers, Sequences, SequencesExt

CONSTANTS
    ParseTexts, NoText,
    Radixes,
    IntMax,         \* INT64_MAX, at least the largest digit
    Scratch,        \* sizeof(buf) in parse_float
    FloatMax        \* the largest double, among the numbers strtod reads here

ASSUME ParseAssumption == IntMax >= 35 /\ NoText \notin ParseTexts /\ Scratch > 1

VARIABLES asked, answer     \* the arguments of the last call and what it returned

parseVars == <<asked, answer>>

Idle == [call |-> "none"]
ParseStart == asked = Idle /\ answer = Idle

DigitValue(c) ==
    CASE c = "0" -> 0 [] c = "1" -> 1 [] c = "7" -> 7 [] c = "9" -> 9
      [] c = "f" -> 15 [] c = "x" -> 33 [] OTHER -> -1

IsSpace(c) == c = " "

Refused(why) == [call |-> why]

\* The first position from i on whose character is not a space.
SkipSpace(s, i) ==
    CHOOSE k \in i..(Len(s) + 1) :
        /\ \A j \in i..(k - 1) : IsSpace(s[j])
        /\ k > Len(s) \/ ~IsSpace(s[k])

HexPrefix(s, i) == i + 1 <= Len(s) /\ s[i] = "0" /\ s[i + 1] = "x"

\* Seeded fault: the limit is the same for both signs.
LimitOneSided(negative) == IntMax

Limit(negative) == IF negative THEN IntMax + 1 ELSE IntMax

\* The digit loop from position i: where it stops, and the number so far.
Digits(s, start, base, limit) ==
    LET run[i \in start..(Len(s) + 1)] ==
            LET p == run[i - 1]
                d == DigitValue(s[i - 1])
            IN  IF i = start THEN [at |-> start, acc |-> 0, over |-> FALSE]
                ELSE IF p.over \/ p.at < i - 1 \/ d < 0 \/ d >= base THEN p
                ELSE IF p.acc > (limit - d) \div base THEN [p EXCEPT !.over = TRUE]
                ELSE [p EXCEPT !.at = i, !.acc = @ * base + d]
    IN  run[Len(s) + 1]

ParseInt(s, askedBase) ==
    IF s = NoText \/ (askedBase # 0 /\ askedBase \notin 2..36) THEN Refused("invalid")
    ELSE
    LET first    == SkipSpace(s, 1)
        blank    == first > Len(s)
        signed   == ~blank /\ s[first] \in {"+", "-"}
        negative == signed /\ s[first] = "-"
        i        == IF signed THEN first + 1 ELSE first
        octal    == i <= Len(s) /\ s[i] = "0"
        hex      == HexPrefix(s, i) /\ askedBase \in {0, 16}
        base     == IF askedBase # 0 THEN askedBase
                    ELSE IF hex THEN 16 ELSE IF octal THEN 8 ELSE 10
        start    == IF hex THEN i + 2 ELSE i
        n        == Digits(s, start, base, Limit(negative))
    IN  IF blank THEN Refused("invalid")
        ELSE IF n.over THEN Refused("overflow")
        ELSE IF n.at = start \/ SkipSpace(s, n.at) # Len(s) + 1 THEN Refused("invalid")
        ELSE [call |-> "ok", value |-> IF negative THEN -n.acc ELSE n.acc]

\* strtod on a token that starts with no space, for decimal and hexadecimal
\* integers: where it stops reading, and what it has read.
Strtod(t) ==
    LET signed == t[1] \in {"+", "-"}
        i      == IF signed THEN 2 ELSE 1
        hex    == HexPrefix(t, i) /\ i + 2 <= Len(t) /\ DigitValue(t[i + 2]) \in 0..15
        start  == IF hex THEN i + 2 ELSE i
        n      == Digits(t, start, IF hex THEN 16 ELSE 10, 16^Len(t))
    IN  [end   |-> IF n.at = start THEN 1 ELSE n.at,
         value |-> IF t[1] = "-" THEN -n.acc ELSE n.acc,
         huge  |-> n.acc > FloatMax]

ParseFloat(s) ==
    IF s = NoText THEN Refused("invalid")
    ELSE
    LET i     == SkipSpace(s, 1)
        n     == Len(s) + 1 - SkipSpace(Reverse(s), 1)
        token == SubSeq(s, i, n)
        r     == Strtod(token)
    IN  IF i > Len(s) \/ Len(token) >= Scratch \/ r.end # Len(token) + 1 THEN Refused("invalid")
        ELSE IF r.huge THEN Refused("overflow")
        ELSE [call |-> "ok", value |-> r.value]

CallParseInt ==
    /\ asked = Idle
    /\ \E s \in ParseTexts \cup {NoText}, base \in Radixes :
           /\ asked' = [call |-> "int", text |-> s, base |-> base]
           /\ answer' = ParseInt(s, base)

CallParseFloat ==
    /\ asked = Idle
    /\ \E s \in ParseTexts \cup {NoText} :
           /\ asked' = [call |-> "float", text |-> s]
           /\ answer' = ParseFloat(s)

ParseReturn == asked # Idle /\ asked' = Idle /\ answer' = Idle

ParseNext == CallParseInt \/ CallParseFloat \/ ParseReturn

-----------------------------------------------------------------------------
\* The reading of a text as a number in mathematics: blanks around it, a sign,
\* a prefix of one of the radixes that a prefix may select, and digits.
Reading(text, base, prefixed) ==
    LET core   == SubSeq(text, SkipSpace(text, 1), Len(text) + 1 - SkipSpace(Reverse(text), 1))
        plain  == IF core # <<>> /\ Head(core) \in {"+", "-"} THEN Tail(core) ELSE core
        hex    == 16 \in prefixed /\ IsPrefix(<<"0", "x">>, plain)
        digits == IF hex THEN SubSeq(plain, 3, Len(plain)) ELSE plain
        octal  == 8 \in prefixed /\ IsPrefix(<<"0">>, plain)
        radix  == IF hex THEN 16 ELSE IF octal THEN 8 ELSE base
        value  == FoldLeft(LAMBDA acc, c : acc * radix + DigitValue(c), 0, digits)
    IN  [number |-> digits # <<>> /\ \A k \in DOMAIN digits : DigitValue(digits[k]) \in 0..(radix - 1),
         value  |-> IF IsPrefix(<<"-">>, core) THEN -value ELSE value,
         width  |-> Len(core)]

\* parse_int and parse_float say OK exactly for a text that is, as a whole, a
\* number of the radix asked for and fits the type, with its exact value; one
\* that does not fit is an overflow, at -IntMax - 1 and IntMax to the unit.
ParseExact ==
    asked # Idle /\ asked.text # NoText =>
    LET int == asked.call = "int"
        r   == IF ~int THEN Reading(asked.text, 10, {16})
               ELSE IF asked.base = 0 THEN Reading(asked.text, 10, {8, 16})
               ELSE Reading(asked.text, asked.base, {asked.base} \cap {16})
        ask == IF int THEN asked.base \in {0} \cup 2..36 ELSE r.width < Scratch
        fit == r.value \in IF int THEN (-IntMax - 1)..IntMax ELSE (-FloatMax)..FloatMax
    IN  /\ answer.call = "ok" <=> ask /\ r.number /\ fit
        /\ answer.call = "ok" => answer.value = r.value
        /\ ask /\ r.number /\ ~fit => answer.call = "overflow"
=============================================================================
