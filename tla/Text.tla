-------------------------------- MODULE Text --------------------------------
(***************************************************************************)
(* Characters and texts, for the modules that read them one by one.  A     *)
(* text is a sequence of characters, a character is the string of length   *)
(* one, and a byte that is no printable character has a name of its own.   *)
(***************************************************************************)
EXTENDS Integers, Sequences

LOCAL INSTANCE SequencesExt

Chars(s) == [i \in 1..Len(s) |-> SubSeq(s, i, i)]
CharSet(s) == {SubSeq(s, i, i) : i \in 1..Len(s)}
\* The string of a text
String(cs) == FoldLeft(LAMBDA s, c : s \o c, "", cs)

NUL == "NUL"  \* what ends a C string

Lower  == CharSet("abcdefghijklmnopqrstuvwxyz")
Upper  == CharSet("ABCDEFGHIJKLMNOPQRSTUVWXYZ")
Digits == CharSet("0123456789")
Spaces == {" ", "\t", "\n", "\f", "\r", "x0b"}
Punct  == CharSet("!#$%&'()*+,-./:;<=>?@[]^_{|}~") \cup {"\"", "\\", "x60"}
isprint(c) == c \in Lower \cup Upper \cup Digits \cup Punct \cup {" "}

\* The characters 32 to 126
Printable ==
    Chars(" !") \o <<"\"">> \o Chars("#$%&'()*+,-./0123456789:;<=>?@ABCDEFGHIJKLMNOPQRSTUVWXYZ[")
    \o <<"\\">> \o Chars("]^_") \o <<"x60">> \o Chars("abcdefghijklmnopqrstuvwxyz{|}~")

HexDigits == Chars("0123456789abcdef")
Hex(n) == HexDigits[(n \div 16) + 1] \o HexDigits[(n % 16) + 1]

ByteName == [n \in 0..255 |->
    CASE n = 0 -> NUL [] n = 9 -> "\t" [] n = 10 -> "\n" [] n = 12 -> "\f" [] n = 13 -> "\r"
      [] n \in 32..126 -> Printable[n - 31]
      [] OTHER -> "x" \o Hex(n)]

Codes == {ByteName[n] : n \in 0..255}
CodeOf == [c \in Codes |-> CHOOSE n \in 0..255 : ByteName[n] = c]
Code(c) == CodeOf[c]

DigitOf == [c \in Digits |-> CHOOSE d \in 0..9 : HexDigits[d + 1] = c]

\* The decimal digits of a natural number, and the number of a run of digits
Decimal[n \in Nat] ==
    IF n < 10 THEN <<HexDigits[n + 1]>> ELSE Append(Decimal[n \div 10], HexDigits[(n % 10) + 1])
NumberOf(ds) == FoldLeft(LAMBDA n, d : 10 * n + DigitOf[d], 0, ds)

\* The first place from p on that is behind t or holds no character of S
Behind(t, p, S) ==
    CHOOSE q \in p..(Len(t) + 1) :
        /\ q = Len(t) + 1 \/ t[q] \notin S
        /\ \A r \in p..(q - 1) : t[r] \in S
=============================================================================
