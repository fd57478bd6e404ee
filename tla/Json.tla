-------------------------------- MODULE Json --------------------------------
(***************************************************************************)
(* jsonxx (jsonxx.cc, jsonxx.h): the parser that turns a text into a       *)
(* value, permissively, and the << that turns a value back into a text.    *)
(* Every parse function takes the text t and the place p it reads from,    *)
(* and returns [ok, p, v]: whether it succeeded, the place it leaves the   *)
(* stream at, and what it read.                                            *)
(*                                                                         *)
(* A number is [m, e], that is m * 10^e, m not divisible by ten.  A float  *)
(* has 24 bits: an integer is rounded to them; a fraction is not, so a     *)
(* fraction must have few enough digits for the six that << writes.        *)
(***************************************************************************)
EXTENDS Text

LOCAL INSTANCE SequencesExt

Abs(n) == IF n < 0 THEN -n ELSE n
Power(b, n) == LET f[i \in Nat] == IF i = 0 THEN 1 ELSE b * f[i - 1] IN f[n]

\* m * 10^e without trailing zeros
Norm(m, e) ==
    LET f[q \in Int \X Int] ==
            IF q[1] = 0 THEN [m |-> 0, e |-> 0]
            ELSE IF Abs(q[1]) % 10 # 0 THEN [m |-> q[1], e |-> q[2]]
            ELSE f[<<(IF q[1] < 0 THEN -1 ELSE 1) * (Abs(q[1]) \div 10), q[2] + 1>>]
    IN  f[<<m, e>>]
Integer(n) == Norm(n, 0)

\* n / d, to the nearest, a tie to the even quotient
RoundDiv(n, d) ==
    LET r == n % d IN
    n \div d + IF 2 * r < d \/ (2 * r = d /\ (n \div d) % 2 = 0) THEN 0 ELSE 1

Sign(m) == IF m < 0 THEN -1 ELSE 1
\* The bits a natural number has beyond 24
Excess(n) == CHOOSE k \in 0..7 : /\ n \div Power(2, k) < 16777216
                                 /\ k > 0 => n \div Power(2, k - 1) >= 16777216
Rounded(n, unit) == RoundDiv(n, unit) * unit
ToFloat(x) ==
    LET n == Abs(x.m) * Power(10, x.e)
    IN  IF x.e < 0 THEN x ELSE Integer(Sign(x.m) * Rounded(n, Power(2, Excess(n))))

-----------------------------------------------------------------------------
\* Reading

Fail(p) == [ok |-> FALSE, p |-> p, v |-> <<>>]
Read(p, v) == [ok |-> TRUE, p |-> p, v |-> v]
Peek(t, p) == IF p > Len(t) THEN NUL ELSE t[p]

ws(t, p) == Behind(t, p, Spaces)

\* A // comment ends with its line; the spaces behind it go with it
parse_comment(t, p) ==
    IF Peek(t, p) = "/" /\ Peek(t, p + 1) = "/"
    THEN Read(ws(t, Behind(t, p + 2, Codes \ {"\r", "\n"})), <<>>)
    ELSE Fail(p)

\* match reads the pattern from its i-th character on.  What it read of a pattern
\* that fails is put back, unless the text ends in the middle of it: then the last
\* character read stands for the one that is missing
RECURSIVE Matching(_, _, _, _)
Matching(t, q, pattern, i) ==
    IF i > Len(pattern) THEN Read(q, <<>>)
    ELSE IF q > Len(t)
    THEN IF i > 1 /\ i = Len(pattern) /\ pattern[i] = t[q - 1] THEN Read(q, <<>>) ELSE Fail(q)
    ELSE IF t[q] = pattern[i] THEN Matching(t, q + 1, pattern, i + 1)
    ELSE LET comment == parse_comment(t, q) IN
         IF comment.ok THEN Matching(t, comment.p, pattern, i) ELSE Fail(q - (i - 1))

match(t, p, pattern) == Matching(t, ws(t, p), Chars(pattern), 1)

Short == [b |-> "x08", f |-> "\f", n |-> "\n", r |-> "\r", t |-> "\t"]

\* \u takes four characters and reads the number they begin with, in decimal
Unicode(four) ==
    LET end == Behind(four, 1, Digits) IN
    IF end = 1 THEN <<>> ELSE <<ByteName[NumberOf(SubSeq(four, 1, end - 1)) % 256]>>

RECURSIVE StringBody(_, _, _, _)
StringBody(t, q, delimiter, value) ==
    LET c == Peek(t, q)
        d == Peek(t, q + 1)
    IN  CASE q > Len(t) -> Fail(q)
          [] c = delimiter -> Read(q + 1, value)
          [] c # "\\" /\ c # delimiter -> StringBody(t, q + 1, delimiter, Append(value, c))
          [] c = "\\" /\ d = "u" ->
               IF q + 5 > Len(t) THEN Fail(Len(t) + 1)
               ELSE StringBody(t, q + 6, delimiter, value \o Unicode(SubSeq(t, q + 2, q + 5)))
          [] c = "\\" /\ d \in DOMAIN Short ->
               StringBody(t, q + 2, delimiter, Append(value, Short[d]))
          [] c = "\\" /\ d \in {"\\", "/", delimiter} ->
               StringBody(t, q + 2, delimiter, Append(value, d))
          [] OTHER -> StringBody(t, q + 2, delimiter, value \o <<c, d>>)

\* The permissive parser also takes '...'
parse_string(t, p) ==
    LET quote == match(t, p, "\"") IN
    IF quote.ok THEN StringBody(t, quote.p, "\"", <<>>)
    ELSE IF Peek(t, quote.p) = "'" THEN StringBody(t, quote.p + 1, "'", <<>>)
    ELSE quote

\* The number that digits write, with the exponent of the last of them
Scaled(digits, kept, exponent) ==
    Norm(NumberOf(SubSeq(digits, 1, kept)), exponent + Len(digits) - kept)
\* The place of the last digit that is not zero
Significant(digits) ==
    CHOOSE k \in 0..Len(digits) : /\ k > 0 => digits[k] # "0"
                                  /\ \A i \in (k + 1)..Len(digits) : digits[i] = "0"
Decimals(digits, exponent) == Scaled(digits, Significant(digits), exponent)

PastSign(t, p) == IF Peek(t, p) \in {"+", "-"} THEN p + 1 ELSE p
PastPoint(t, p) == IF Peek(t, p) = "." THEN p + 1 ELSE p
Negated(negative, n) == IF negative THEN -n ELSE n

\* The exponent whose digits are those from x to end
ExponentDigits(t, x, end, negative) ==
    IF end = x THEN Fail(end) ELSE Read(end, Negated(negative, NumberOf(SubSeq(t, x, end - 1))))
SignedExponent(t, p, x) == ExponentDigits(t, x, Behind(t, x, Digits), Peek(t, p) = "-")
Exponent(t, p) ==
    IF Peek(t, p) \in {"e", "E"} THEN SignedExponent(t, p + 1, PastSign(t, p + 1)) ELSE Read(p, 0)

Limited(p, n, negative, largest) ==
    IF n.e > largest THEN Fail(p) ELSE Read(p, [n EXCEPT !.m = Negated(negative, @)])
\* A number whose digits are those from i to point, and from f to end
Mantissa(t, i, point, f, end, largest) ==
    LET exponent == Exponent(t, end) IN
    IF point = i /\ end = f THEN Fail(end)
    ELSE IF ~exponent.ok THEN exponent
    ELSE Limited(exponent.p,
                 Decimals(SubSeq(t, i, point - 1) \o SubSeq(t, f, end - 1), exponent.v - (end - f)),
                 i > 1 /\ t[i - 1] = "-", largest)
Fraction(t, i, point, f, largest) == Mantissa(t, i, point, f, Behind(t, f, Digits), largest)
Unsigned(t, i, point, largest) == Fraction(t, i, point, PastPoint(t, point), largest)
Digital(t, i, largest) == Unsigned(t, i, Behind(t, i, Digits), largest)

\* input >> value for a floating number: what looks like one is consumed even
\* when it is none, or too large
Floating(t, p, largest) == Digital(t, PastSign(t, ws(t, p)), largest)

parse_float(t, p) ==
    LET f == Floating(t, p, 38) IN IF f.ok THEN [f EXCEPT !.v = ToFloat(@)] ELSE f
parse_number(t, p) == Floating(t, p, 4931)

\* A failed word puts back what it read and leaves the place it skipped to
parse_bool(t, p) ==
    LET true == match(t, p, "true")
        False(false) == IF false.ok THEN Read(false.p, FALSE) ELSE false
    IN  IF true.ok THEN Read(true.p, TRUE) ELSE False(match(t, true.p, "false"))

\* The permissive parser takes nothing before a comma for null
parse_null(t, p) ==
    LET null == match(t, p, "null") IN
    IF null.ok \/ Peek(t, null.p) # "," THEN null ELSE Read(null.p, <<>>)

RECURSIVE parse_value(_, _), parse_array(_, _), parse_object(_, _), Members(_, _, _), Items(_, _, _)

Typed(type, r) == Read(r.p, [type |-> type, v |-> r.v])

\* Value::parse tries one type after the other, each from the place the last one
\* left the stream at; r is what trying the type of the name returned
ObjectOr(r) == IF r.ok THEN Typed("OBJECT_", r) ELSE r
ArrayOr(t, r) == IF r.ok THEN Typed("ARRAY_", r) ELSE ObjectOr(parse_object(t, r.p))
NullOr(t, r) ==
    IF r.ok THEN Typed("NULL_", r)
    ELSE ArrayOr(t, IF Peek(t, r.p) = "[" THEN parse_array(t, r.p) ELSE r)
BoolOr(t, r) == IF r.ok THEN Typed("BOOL_", r) ELSE NullOr(t, parse_null(t, r.p))
NumberOr(t, r) == IF r.ok THEN Typed("NUMBER_", r) ELSE BoolOr(t, parse_bool(t, r.p))
FloatOr(t, r) == IF r.ok THEN Typed("FLOAT_", r) ELSE NumberOr(t, parse_number(t, r.p))
StringOr(t, r) == IF r.ok THEN Typed("STRING_", r) ELSE FloatOr(t, parse_float(t, r.p))
parse_value(t, p) == StringOr(t, parse_string(t, p))

\* The bracket that end matched, behind the value v
ClosedBy(end, v) == IF end.ok THEN Read(end.p, v) ELSE end
Closed(t, p, bracket, v) == ClosedBy(match(t, p, bracket), v)

\* The do loops of Array::parse and Object::parse: a value that does not parse
\* ends the list, as a missing comma does
MoreItems(t, comma, values) ==
    IF comma.ok THEN Items(t, comma.p, values) ELSE Closed(t, comma.p, "]", values)
Items(t, p, values) ==
    LET item == parse_value(t, p) IN
    IF item.ok THEN MoreItems(t, match(t, item.p, ","), Append(values, item.v))
    ELSE Closed(t, item.p, "]", values)

Listed(t, close) == IF close.ok THEN Read(close.p, <<>>) ELSE Items(t, close.p, <<>>)
parse_array(t, p) ==
    LET open == match(t, p, "[") IN IF open.ok THEN Listed(t, match(t, open.p, "]")) ELSE open

\* value_map_[key] = v
With(map, key, value) == [k \in DOMAIN map \cup {key} |-> IF k = key THEN value ELSE map[k]]

MoreMembers(t, comma, map) ==
    IF comma.ok THEN Members(t, comma.p, map) ELSE Closed(t, comma.p, "}", map)
Member(t, key, value, map) ==
    IF value.ok THEN MoreMembers(t, match(t, value.p, ","), With(map, key, value.v))
    ELSE Closed(t, value.p, "}", map)
Keyed(t, key, colon, map) ==
    IF colon.ok THEN Member(t, key, parse_value(t, colon.p), map) ELSE colon
Members(t, p, map) ==
    LET key == parse_string(t, p) IN
    IF key.ok THEN Keyed(t, key.v, match(t, key.p, ":"), map)
    ELSE IF Peek(t, key.p) = "}" THEN Closed(t, key.p, "}", map) ELSE key

Mapped(t, close) == IF close.ok THEN Read(close.p, <<>>) ELSE Members(t, close.p, <<>>)
parse_object(t, p) ==
    LET open == match(t, p, "{") IN
    IF open.ok THEN Mapped(t, match(t, open.p, "}")) ELSE open

\* Value::parse of a text: INVALID_ when it does not parse; what follows the
\* value is not looked at
Invalid == [type |-> "INVALID_", v |-> <<>>]
Parse(t) == LET r == parse_value(t, 1) IN IF r.ok THEN r.v ELSE Invalid

\* is<T> and get<T>: a value of another type throws jsonxx_exception
is(value, type) == value.type = type
has(object, key, type) == key \in DOMAIN object /\ is(object[key], type)

\* The order of std::map<std::string, ...>
Before(a, b) ==
    \E i \in 1..(Len(a) + 1) :
        /\ i <= Len(b) /\ SubSeq(a, 1, i - 1) = SubSeq(b, 1, i - 1)
        /\ i <= Len(a) => Code(a[i]) < Code(b[i])
Sorted(keys) == SetToSortSeq(keys, Before)

-----------------------------------------------------------------------------
\* Writing

Quoted(s) == <<"\"">> \o s \o <<"\"">>
\* The texts of a sequence with a separator between them
Joined(texts, separator) ==
    FlattenSeq([i \in DOMAIN texts |->
        IF i < Len(texts) THEN texts[i] \o Chars(separator) ELSE texts[i]])

\* Mutant: a backslash is not escaped
EscapeQuotes(c) ==
    CASE c = "\"" -> <<"\\", c>>
      [] \E k \in DOMAIN Short : Short[k] = c ->
           <<"\\", CHOOSE k \in DOMAIN Short : Short[k] = c>>
      [] OTHER -> <<c>>

\* A character is a signed char: from 128 on it is below 32, and its code is
\* written as that of a negative int
Escape(c) ==
    CASE c \in {"\"", "\\", "/"} -> <<"\\", c>>
      [] \E k \in DOMAIN Short : Short[k] = c ->
           <<"\\", CHOOSE k \in DOMAIN Short : Short[k] = c>>
      [] Code(c) >= 128 -> Chars("\\uffffff" \o Hex(Code(c)))
      [] Code(c) < 32 /\ \A k \in DOMAIN Short : Short[k] # c -> Chars("\\u00" \o Hex(Code(c)))
      [] OTHER -> <<c>>
stream_string(s) == Quoted(FlattenSeq([i \in DOMAIN s |-> Escape(s[i])]))

Zeros(n) == IF n <= 0 THEN <<>> ELSE [i \in 1..n |-> "0"]
Signed(m, text) == IF m < 0 THEN <<"-">> \o text ELSE text

Cut(digits, cut) == SubSeq(digits, 1, cut) \o <<".">> \o SubSeq(digits, cut + 1, Len(digits))
\* A number written in full, with its point
Full(ds, e) ==
    IF e >= 0 THEN ds \o Zeros(e)
    ELSE Cut(Zeros(1 - e - Len(ds)) \o ds, IF Len(ds) + e > 1 THEN Len(ds) + e ELSE 1)
Plain(x) == Signed(x.m, Full(Decimal[Abs(x.m)], x.e))

\* stream << number: six significant digits, and an exponent when the first of
\* them stands at or above 10^6 or below 10^-4
Power10(digits, negative) ==
    <<"e", IF negative THEN "-" ELSE "+">> \o Zeros(2 - Len(digits)) \o digits
Scientific(ds, first) ==
    <<ds[1]>> \o (IF Len(ds) > 1 THEN <<".">> \o Tail(ds) ELSE <<>>)
              \o Power10(Decimal[Abs(first)], first < 0)
WriteDigits(m, e, ds, first) ==
    Signed(m, IF first \in -4..5 THEN Full(ds, e) ELSE Scientific(ds, first))
Written(x, ds) == WriteDigits(x.m, x.e, ds, Len(ds) - 1 + x.e)
ToSix(x, excess) ==
    IF excess <= 0 THEN x
    ELSE Norm(Sign(x.m) * RoundDiv(Abs(x.m), Power(10, excess)), x.e + excess)
WriteShort(x) == Written(x, Decimal[Abs(x.m)])
WriteNumber(x) == WriteShort(ToSix(x, Len(Decimal[Abs(x.m)]) - 6))

\* operator<<.  Nothing is written for a value that did not parse
RECURSIVE Write(_)
Write(value) ==
    CASE value.type = "STRING_" -> stream_string(value.v)
      [] value.type \in {"FLOAT_", "NUMBER_"} -> WriteNumber(value.v)
      [] value.type = "BOOL_" -> Chars(IF value.v THEN "true" ELSE "false")
      [] value.type = "NULL_" -> Chars("null")
      [] value.type = "ARRAY_" ->
           <<"[">> \o Joined([i \in DOMAIN value.v |-> Write(value.v[i])], ", ") \o <<"]">>
      [] value.type = "OBJECT_" ->
           LET keys == Sorted(DOMAIN value.v) IN
           <<"{">> \o Joined([i \in DOMAIN keys |->
                        stream_string(keys[i]) \o <<":", " ">> \o Write(value.v[keys[i]])], ", ")
           \o <<"}">>
      [] OTHER -> <<>>

\* Object::getKeyValues: a key is read again between two quotes
getKeyValues(map) ==
    LET keys == Sorted(DOMAIN map) IN
    [i \in DOMAIN keys |-> <<Parse(Quoted(keys[i])), map[keys[i]]>>]
=============================================================================
