-------------------------------- MODULE RpcMC --------------------------------
(***************************************************************************)
(* Calls for TLC, and what a page and a method may rely on: every type of  *)
(* field, alone and in another, with values at the edges of what the relay *)
(* keeps, values of the wrong shape, and arguments that are left out.      *)
(***************************************************************************)
EXTENDS Rpc, FiniteSets, TLC

BoolType == Fundamental("bool")
CharType == Fundamental("char")
IntType == Fundamental("int")
DoubleType == Fundamental("double")
FloatType == Fundamental("float")
Ints == VectorOf(IntType)
Ages == MapOf(StdString, IntType)
Names == MapOf(IntType, StdString)
Point == Class("Point", << <<"y", IntType>>, <<"x", CharType>>, <<"at", DoubleType>> >>)
Long == Fundamental("long int")
Tally == MapOf(CharType, DoubleType)
Counter == Class("Counter", << <<"ages", PointerTo(Ages)>> >>)
Marks == Class("Marks", << <<"at", PointerTo(IntType)>> >>)
Route == Class("Route", << <<"way", ArrayOf(DoubleType, 3)>> >>)
Line == Class("Line", << <<"ends", ArrayOf(Point, 2)>>, <<"name", StdString>>, <<"marks", PointerTo(IntType)>> >>)
Album == Class("Album", << <<"open", BoolType>>, <<"pages", Ints>>, <<"index", Ages>>, <<"scale", FloatType>> >>)

N(m, e) == [type |-> "FLOAT_", v |-> Norm(m, e)]
S(s) == JsonText(Chars(s))
A(values) == [type |-> "ARRAY_", v |-> values]
JsonNull == [type |-> "NULL_", v |-> <<>>]
B(b) == [type |-> "BOOL_", v |-> b]
\* pairs: a sequence of <<name, value>>
O(pairs) == [type |-> "OBJECT_",
             v |-> [k \in {Chars(pairs[i][1]) : i \in DOMAIN pairs} |->
                       pairs[CHOOSE i \in DOMAIN pairs : Chars(pairs[i][1]) = k][2]]]

APoint(x, y, at) == O(<< <<"x", x>>, <<"y", y>>, <<"at", at>> >>)
ALine(ends, name, marks) == O(<< <<"ends", ends>>, <<"name", name>>, <<"marks", marks>> >>)
AnAlbum(open, pages, index, scale) ==
    O(<< <<"open", open>>, <<"pages", pages>>, <<"index", index>>, <<"scale", scale>> >>)

P1 == APoint(N(7, 0), N(-12, 0), N(25, -1))
P2 == APoint(N(0, 0), N(999999, 0), N(1, -4))

Shapes == {N(5, 0), N(37, -1), S("5"), B(TRUE), JsonNull, A(<<>>), A(<<N(1, 0), S("b")>>), O(<<>>),
           O(<< <<"7", S("seven")>>, <<"10", S("ten")>>, <<"9", S("nine")>> >>)}

Sent ==
    {<<IntType, v>> : v \in Shapes \cup {N(-1, 0), N(999999, 0), N(1234567, 0), N(2147, 6), N(1, 39)}}
    \cup {<<Names, v>> : v \in Shapes}
    \cup {<<DoubleType, v>> : v \in {N(999999, 0), N(125, -3), N(-123456, 3), N(1, 39)}}
    \cup {<<BoolType, v>> : v \in {N(0, 0), N(1, 0), B(FALSE)}}
    \cup {<<CharType, N(65, 0)>>}
    \cup {<<Ages, v>> : v \in {O(<<>>), O(<< <<"b/c", N(2, 0)>>, <<"a", N(-1, 0)>>, <<"d e", N(30, 0)>> >>),
                               O(<< <<"a", N(1, 0)>>, <<"b", S("2")>> >>), A(<<N(1, 0)>>),
                               O(<< <<"a\\", N(1, 0)>> >>), O(<< <<"a", N(1, 0)>>, <<"b\\", N(2, 0)>> >>)}}
    \cup {<<Names, O(<< <<"7\\", S("seven")>> >>)>>}
    \cup {<<Counter, O(<< <<"ages", A(<<O(<< <<"a", N(1, 0)>>, <<"b", N(2, 0)>> >>), O(<<>>)>>)>> >>)>>}
    \cup {<<Line, v>> : v \in {
            ALine(A(<<P1, P2>>), S("to {the} [end], 'here'"), A(<<N(3, 0), N(4, 0), N(5, 0)>>)),
            ALine(A(<<P2, P1, P1>>), S(""), A(<<N(3, 0)>>)),
            ALine(A(<<P1, P2>>), S("\"\\/\n"), A(<<>>)),
            ALine(A(<<P1>>), S("short"), A(<<N(3, 0)>>)),
            ALine(A(<<P1, APoint(N(1, 0), S("1"), N(1, 0))>>), S("wrong"), A(<<N(3, 0)>>)),
            ALine(A(<<P1, P2>>), S("none"), JsonNull),
            O(<< <<"ends", A(<<P1, P2>>)>>, <<"name", S("unmarked")>> >>)}}
    \cup {<<Album, v>> : v \in {
            AnAlbum(N(1, 0), A(<<N(1, 0), N(2, 0)>>), O(<< <<"x", N(1, 0)>>, <<"y", N(2, 0)>> >>), N(15, -1)),
            AnAlbum(N(0, 0), A(<<>>), O(<<>>), N(-1, -6)),
            AnAlbum(N(1, 0), A(<<N(1, 0)>>), O(<<>>), S("1")),
            AnAlbum(N(1, 0), A(<<N(1, 0)>>), O(<< <<"x", JsonNull>> >>), N(1, 0))}}

\* What a method may return whatever it is sent
V(n) == Norm(n, 0)
Returned ==
    {<<StdString, Chars("plain")>>, <<StdString, Chars("a \"quoted\" one")>>,
     <<Ints, <<V(1), V(-2), V(3)>> >>, <<Ints, <<>> >>,
     <<Marks, [at |-> [from |-> "malloc", items |-> <<V(1), V(2)>>]]>>,
     <<Marks, [at |-> [from |-> "malloc", items |-> <<>>]]>>,
     <<Marks, [at |-> [from |-> "realloc", items |-> <<V(1), V(2)>>]]>>,
     <<Marks, [at |-> [from |-> "null", items |-> <<>>]]>>,
     <<PointerTo(IntType), [from |-> "malloc", items |-> <<V(1), V(2)>>]>>,
     <<Long, V(7)>>,
     <<Tally, (V(1) :> Norm(5, -1) @@ V(2) :> Norm(-7, 2))>>,
     <<MapOf(IntType, IntType), (V(1) :> V(10))>>,
     <<Route, [way |-> <<V(1), Norm(1234567, 0), Norm(1, -5)>>]>>,
     <<Fundamental("unsigned char"), V(65)>>}

\* A library with a service at a URL, and one that dlopen refuses
Library(u, service) == [loads |-> TRUE, url |-> Chars(u), service |-> service]
Broken == [loads |-> FALSE, url |-> Chars("/echo"), service |-> "echo"]
Echo == Library("/echo", "echo")
Other == Library("/other", "other")

CallAt(u, libraries, types, sent, returns) ==
    [url |-> Chars(u), deployed |-> libraries, types |-> types, byReference |-> FALSE, sent |-> sent,
     returns |-> returns]
ByReference(c) == [c EXCEPT !.byReference = TRUE]
One(s) == CallAt("/echo", <<Echo>>, <<s[1]>>, <<s[2]>>, <<>>)
Two(S1, S2) == CallAt("/echo", <<Echo>>, <<S1[1], S2[1]>>, <<S1[2], S2[2]>>, <<>>)

\* Where the service is, and what the page makes of its URL
Directories ==
    {<<>>, <<Echo>>, <<Other, Echo>>, <<Echo, Broken, Other>>, <<Other, Broken, Echo>>,
     <<Echo, Library("/echo", "other")>>, <<Library("/echo", "other"), Echo>>,
     <<Library("/echo", "other"), Broken, Echo>>}
Addresses == {"/echo", "/echo?", "/echo?v=1", "/echo?callback=mine&v", "/echo?&v==2", "/echo?a?b", "/echo/", "?"}

\* Containers in containers: only their names are looked at
Nested == {VectorOf(Ints), VectorOf(StdString), MapOf(IntType, Ints)}
Grid(T) == Class("Grid", << <<"cells", T>> >>)

MCCalls ==
    {One(s) : s \in Sent}
    \cup {ByReference(One(s)) : s \in {t \in Sent : t[1] \in {IntType, Ages, Names, Album, Counter}}}
    \cup {Two(<<IntType, N(4, 0)>>, s) : s \in {<<Names, O(<< <<"1", S("one")>> >>)>>, <<Names, N(1, 0)>>, <<IntType, Undefined>>}}
    \cup {One(<<IntType, Undefined>>)}
    \cup {One(<<Grid(T), O(<<>>)>>) : T \in Nested}
    \cup {CallAt("/echo", <<Echo>>, <<IntType>>, <<N(1, 0)>>, r) : r \in Returned}
    \cup {CallAt(a, d, <<IntType>>, <<N(1, 0)>>, <<>>) : a \in Addresses, d \in Directories}

-----------------------------------------------------------------------------
\* What a value must be for the fields to keep it

SixDigits(x) == Len(Decimal[Abs(x.m)]) <= 6
RangeOf(name) ==
    CASE name = "bool" -> 0..1
      [] name = "char" -> -128..127
      [] name = "unsigned char" -> 0..255
      [] OTHER -> -2147483647..2147483647
\* A number of the type name that a float and six digits hold
Exact(name, x) ==
    /\ SixDigits(x) /\ ToFloat(x) = x
    /\ name \notin {"float", "double"} => x.e >= 0 /\ x.m * Power(10, x.e) \in RangeOf(name)
    /\ name = "float" => x.e >= -6

TooLarge(value) == value.type = "FLOAT_" /\ Len(Decimal[Abs(value.v.m)]) + value.v.e > 39

\* Whether a text between two quotes is one again
Quotable(k) == Parse(Quoted(k)).type = "STRING_"

\* Whether value has the shape of T
RECURSIVE Fits(_, _)
Fits(T, value) ==
    CASE T.kind = "fundamental" -> value.type = "FLOAT_"
      [] T.kind = "string" -> value.type = "STRING_"
      [] T.kind \in {"vector", "pointer", "array"} ->
           /\ value.type = "ARRAY_"
           /\ T.kind = "array" => Len(value.v) >= T.length
           /\ \A i \in DOMAIN value.v : (T.kind = "array" => i <= T.length) => Fits(T.of, value.v[i])
      [] T.kind = "map" ->
           /\ value.type = "OBJECT_"
           /\ \A k \in DOMAIN value.v : Quotable(k) /\ Fits(T.of, value.v[k])
      [] T.kind = "class" ->
           /\ value.type = "OBJECT_"
           /\ \A i \in DOMAIN T.members :
                 LET name == Chars(T.members[i][1])
                 IN  name \in DOMAIN value.v /\ Fits(T.members[i][2], value.v[name])

\* The compiler has the value of a pair where the fields look for it
PairAgrees(T) == PairSecond(T.key, T.of) = getAlignedSize(T.key)
SafeText(s) == \A i \in DOMAIN s : isprint(s[i]) /\ s[i] \notin {"\"", "\\"}

\* Whether a value v that fits T reaches the method as it was sent
RECURSIVE Arrives(_, _)
Arrives(T, value) ==
    CASE T.kind = "fundamental" -> Exact(T.name, value.v)
      [] T.kind = "string" -> TRUE
      [] T.kind \in {"vector", "pointer", "array"} ->
           /\ T.kind = "array" => Len(value.v) = T.length
           /\ \A i \in DOMAIN value.v : Arrives(T.of, value.v[i])
      [] T.kind = "map" ->
           /\ PairAgrees(T)
           /\ \A k \in DOMAIN value.v :
                 /\ Arrives(T.of, value.v[k]) /\ SafeText(k)
                 /\ T.key.kind # "string" => Plain(Number(k)) = k /\ Exact(T.key.name, Number(k))
      [] T.kind = "class" ->
           /\ DOMAIN value.v = {Chars(T.members[i][1]) : i \in DOMAIN T.members}
           /\ \A i \in DOMAIN T.members : Arrives(T.members[i][2], value.v[Chars(T.members[i][1])])

\* The JSON that stands for the value V of type T
RECURSIVE Json(_, _)
Json(T, V1) ==
    CASE T.kind = "fundamental" -> [type |-> "FLOAT_", v |-> V1]
      [] T.kind = "string" -> JsonText(V1)
      [] T.kind \in {"vector", "array"} -> A([i \in DOMAIN V1 |-> Json(T.of, V1[i])])
      [] T.kind = "pointer" ->
           IF V1.from = "null" THEN JsonNull ELSE A([i \in DOMAIN V1.items |-> Json(T.of, V1.items[i])])
      [] T.kind = "map" ->
           LET name(k) == IF T.key.kind = "string" THEN k ELSE Plain(k)
           IN  [type |-> "OBJECT_",
                v |-> [n \in {name(k) : k \in DOMAIN V1} |->
                          Json(T.of, V1[CHOOSE k \in DOMAIN V1 : name(k) = n])]]
      [] T.kind = "class" ->
           [type |-> "OBJECT_",
            v |-> [n \in {Chars(T.members[i][1]) : i \in DOMAIN T.members} |->
                      LET i == CHOOSE i \in DOMAIN T.members : Chars(T.members[i][1]) = n
                      IN  Json(T.members[i][2], V1[T.members[i][1]])]]

\* Whether the value V of type T is written as what it is
RECURSIVE Shows(_, _)
Shows(T, V1) ==
    CASE T.kind = "fundamental" -> T.name \notin {"unsigned char", "signed char"} /\ Exact(T.name, V1)
      [] T.kind = "string" -> SafeText(V1)
      [] T.kind \in {"vector", "array"} -> \A i \in DOMAIN V1 : Shows(T.of, V1[i])
      [] T.kind = "pointer" ->
           V1.from = "null" \/ (/\ V1.from = "malloc" /\ V1.items # <<>>
                                /\ \A i \in DOMAIN V1.items : Shows(T.of, V1.items[i]))
      [] T.kind = "map" -> PairAgrees(T) /\ \A k \in DOMAIN V1 : Shows(T.key, k) /\ Shows(T.of, V1[k])
      [] T.kind = "class" -> \A i \in DOMAIN T.members : Shows(T.members[i][2], V1[T.members[i][1]])

\* The page reads the whole reply as one value
Readable(text) == \E r \in {parse_value(text, 1)} : r.ok /\ r.p = Len(text) + 1

-----------------------------------------------------------------------------
\* Properties

RECURSIVE Containers(_)
Containers(T) ==
    CASE T.kind = "string" -> {T}
      [] T.kind = "vector" -> {T} \cup Containers(T.of)
      [] T.kind = "map" -> {T} \cup Containers(T.key) \cup Containers(T.of)
      [] T.kind = "class" -> UNION {Containers(T.members[i][2]) : i \in DOMAIN T.members}
      [] T.kind \in {"array", "pointer"} -> Containers(T.of)
      [] OTHER -> {}

\* A container is never read as one of another kind, nor a map by other names than
\* those of its key and value, in whatever order the libraries registered their
\* factories: at most one expression matches its name, and that one rightly
ContainersNamed ==
    pc = "new" => \A i \in DOMAIN call.types : \A T \in Containers(call.types[i]) :
        LET matching == MatchingFactories(TypeName(T)) IN
        matching # {} => Cardinality(matching) = 1 /\ Named(T)

\* Whether a library with the service echo is behind the URL u
Reachable(u, libraries) ==
    LET marks == {i \in DOMAIN u : u[i] = "?"}
        path == IF marks = {} THEN u ELSE SubSeq(u, 1, (CHOOSE i \in marks : \A j \in marks : i <= j) - 1)
    IN  /\ Cardinality(marks) <= 1
        /\ \E i \in DOMAIN libraries :
              /\ libraries[i].url = path /\ libraries[i].service = "echo"
              /\ \A j \in 1..i : libraries[j].loads
              /\ \A j \in (i + 1)..Len(libraries) :
                    libraries[j].url = path => \E b \in i..j : ~libraries[b].loads

\* A page reaches the service it asked for just when its library loads, as do all that
\* readdir lists before it (service_loader.cpp:47), no later library that is opened has
\* the same URL, and the URL has no second question mark, behind which the callback
\* would be lost (service_recorder.cpp:49)
ServiceReached ==
    /\ pc = "unserved" => ~Reachable(call.url, call.deployed)
    /\ pc \in {"decoding", "done", "dead"} => Reachable(call.url, call.deployed)

\* A method finds the arguments the page passed, when it copies them or looks their
\* keys up: the relay, which reads and writes every argument once more
\* (recorded_service.cpp:50), and the fields that build the object, together lose
\* nothing of a value that six digits, a float and the layout of a pair can hold.
\* A method that goes through a map it did not copy, from begin() to end(), is not among
\* them: Iterate
ArgumentsArrive ==
    \A i \in DOMAIN heard :
        Arrives(call.types[i], call.sent[i]) => Json(call.types[i], heard[i]) = call.sent[i]

\* The page receives the value the method returned, if its type has an entry in the
\* dictionary: toJson finds every part of the object where the compiler put it, and the
\* text is one JSON value
ResultReturns ==
    pc \in {"answered", "done"} /\ heard # <<>> =>
        LET returned == IF call.returns = <<>> THEN <<call.types[1], heard[1]>> ELSE call.returns IN
        HasEntry(returned[1]) /\ Shows(returned[1], returned[2]) =>
            Readable(reply.text) /\ Parse(reply.text) = Json(returned[1], returned[2])


\* Every int a page passes reaches the method.  It does not: the relay writes six
\* digits (recorded_service.cpp:50)
IntegersArrive ==
    \A i \in DOMAIN heard :
        LET x == call.sent[i].v IN
        (call.types[i] = IntType /\ x.e >= 0 /\ x.m * Power(10, x.e) \in RangeOf("int"))
            => heard[i] = x
=============================================================================
