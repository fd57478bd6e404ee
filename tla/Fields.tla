------------------------------- MODULE Fields -------------------------------
(***************************************************************************)
(* The fields (lib/fields) that write an object of the service as JSON and *)
(* build an object from JSON, and the allocation functions                 *)
(* (cjson_dictionary.cpp) they take the length of an array from.           *)
(*                                                                         *)
(* Objects lie in memory as the compiler lays them out: a block is what    *)
(* one call of malloc returned, an address is a block and a place in it,   *)
(* in bytes.  A field finds the parts of an object by its own arithmetic,  *)
(* which is not always the compiler's.  A std::string is one cell, its     *)
(* text; the tree of a std::map is some search tree, here a balanced one.  *)
(***************************************************************************)
EXTENDS Json, Trex

LOCAL INSTANCE SequencesExt

\* C++ types
Fundamental(name) == [kind |-> "fundamental", name |-> name]
StdString         == [kind |-> "string"]
VectorOf(T)       == [kind |-> "vector", of |-> T]
MapOf(K, T)       == [kind |-> "map", key |-> K, of |-> T]
ArrayOf(T, n)     == [kind |-> "array", of |-> T, length |-> n]
PointerTo(T)      == [kind |-> "pointer", of |-> T]
\* members: a sequence of <<name, type>>
Class(name, members) == [kind |-> "class", name |-> name, members |-> members]

\* FundamentalFactory: the types it has a field for, and the bytes they take
Widths == [n \in {"bool", "char", "unsigned char", "signed char"} |-> 1]
          @@ [n \in {"short int", "short unsigned int"} |-> 2]
          @@ [n \in {"int", "unsigned int", "float", "wchar_t"} |-> 4]
          @@ [n \in {"long", "unsigned long", "long long", "unsigned long long", "double",
                     "long int", "long unsigned int", "long long unsigned int"} |-> 8]

-----------------------------------------------------------------------------
\* What the compiler does: sizes in bytes, alignments, places of members

Word == 8   \* ENV_SIZE_BYTES
Largest(S) == CHOOSE x \in S : \A y \in S : y <= x
Aligned(n, a) == ((n + a - 1) \div a) * a

RECURSIVE Alignment(_), SizeOf(_)
Alignment(T) ==
    CASE T.kind = "fundamental" -> Widths[T.name]
      [] T.kind = "array" -> Alignment(T.of)
      [] T.kind = "class" -> Largest({1} \cup {Alignment(T.members[i][2]) : i \in DOMAIN T.members})
      [] OTHER -> Word

\* The place behind the first n members
End(T, n) ==
    LET f[i \in Nat] ==
            IF i = 0 THEN 0
            ELSE Aligned(f[i - 1], Alignment(T.members[i][2])) + SizeOf(T.members[i][2])
    IN  f[n]
Offset(T, i) == Aligned(End(T, i - 1), Alignment(T.members[i][2]))

SizeOf(T) ==
    CASE T.kind = "fundamental" -> Widths[T.name]
      [] T.kind = "vector" -> 3 * Word
      [] T.kind = "map" -> 6 * Word
      [] T.kind = "array" -> T.length * SizeOf(T.of)
      [] T.kind = "class" -> Aligned(End(T, Len(T.members)), Alignment(T))
      [] OTHER -> Word

NodeBase == 4 * Word   \* sizeof(std::_Rb_tree_node_base)
\* Where std::pair has its second member
PairSecond(K, T) == Aligned(SizeOf(K), Alignment(T))

-----------------------------------------------------------------------------
\* The names gccxml gives to types, and the fields they are decoded to

Angles(head, args) ==
    Chars(head \o "<") \o args \o (IF args[Len(args)] = ">" THEN <<" ", ">">> ELSE <<">">>)

RECURSIVE TypeName(_)
TypeName(T) ==
    CASE T.kind \in {"fundamental", "class"} -> Chars(T.name)
      [] T.kind = "string" -> Chars("std::string")
      [] T.kind = "vector" ->
           LET n == TypeName(T.of) IN
           Angles("std::vector", n \o Chars(", ") \o Angles("std::allocator", n))
      [] T.kind = "map" ->
           LET k == TypeName(T.key)
               n == TypeName(T.of)
               pair == Angles("std::pair", k \o Chars(" const, ") \o n)
           IN  Angles("std::map", k \o Chars(", ") \o n \o Chars(", ") \o Angles("std::less", k)
                                  \o Chars(", ") \o Angles("std::allocator", pair))
      [] T.kind = "pointer" -> Append(TypeName(T.of), "*")
      [] OTHER -> Chars("Array")

\* The factories, in the order the libraries happen to be initialised
Factories == <<
    [kind |-> "string", exp |-> trex_compile(Chars("^std::string$"))],
    [kind |-> "vector", exp |-> trex_compile(Chars("^std::vector<(.*),\\s(.*)\\s>$"))],
    [kind |-> "map", exp |-> trex_compile(Chars("^std::map<(.*),\\s(.*),\\sstd::less<(.*)>,"
                                \o "\\sstd::allocator<std::pair<(.*)>\\s>\\s>$"))]>>

\* ExtendedFieldFactory::getField: the first factory whose expression matches
MatchingFactories(name) == {i \in DOMAIN Factories : matches(Factories[i].exp, name)}
getField(name) ==
    IF MatchingFactories(name) = {} THEN "none"
    ELSE Factories[CHOOSE i \in MatchingFactories(name) : \A j \in MatchingFactories(name) : i <= j].kind

\* Mutant: the name of the key is taken for both
KeyNames(name) == <<get(Factories[3].exp, name, 1), get(Factories[3].exp, name, 3)>>

\* std_map_field::init: the names of the key and the value
MapNames(name) == <<get(Factories[3].exp, name, 1), get(Factories[3].exp, name, 2)>>

\* The factory of a container must take its name for one, and a map must read the
\* names of its key and value out of it
Named(T) ==
    T.kind \in {"string", "vector", "map"} =>
        /\ getField(TypeName(T)) = T.kind
        /\ T.kind = "map" => MapNames(TypeName(T)) = <<TypeName(T.key), TypeName(T.of)>>

\* Every container in T, as a field of its kind reads it
RECURSIVE Decoded(_)
Decoded(T) ==
    /\ Named(T)
    /\ T.kind \in {"vector", "map", "array", "pointer"} => Decoded(T.of)
    /\ T.kind = "map" => Decoded(T.key)
    /\ T.kind = "class" => \A i \in DOMAIN T.members : Decoded(T.members[i][2])

-----------------------------------------------------------------------------
\* Memory

Null == <<0, 0>>
At1(a, n) == <<a[1], a[2] + n>>

\* Mutant: the size that is kept is that of the whole allocation
malloc_total(mem, n) == Append(mem, [header |-> n + Word, cells |-> <<>>])

\* malloc keeps the size it was asked for in front of the block
malloc(mem, n) == Append(mem, [header |-> n, cells |-> <<>>])
NewBlock(mem) == <<Len(mem), 0>>

\* realloc leaves that size as it was
realloc(mem, n) == mem

Load(mem, a) == mem[a[1]].cells[a[2]]
\* A number where none was written: a zero stands for what the memory held before, on
\* which no property relies
LoadNumber(mem, a) == IF a[2] \in DOMAIN mem[a[1]].cells THEN Load(mem, a) ELSE Integer(0)
Store(mem, a, v) == [mem EXCEPT ![a[1]].cells = With(@, a[2], v)]
pointer_size(mem, a) == mem[a[1]].header

\* Shape of the search tree on the places 1..n: the middle is the root
Middle(lo, hi) == (lo + hi) \div 2

LessNumber(x, y) ==
    IF x.e >= y.e THEN x.m * Power(10, x.e - y.e) < y.m ELSE x.m < y.m * Power(10, y.e - x.e)
\* std::less of the key type
LessKey(K, x, y) == IF K.kind = "string" THEN Before(x, y) ELSE LessNumber(x, y)

RECURSIVE Build(_, _, _, _), BuildAll(_, _, _, _, _), BuildNode(_, _, _, _, _, _, _)

\* The consecutive items of a block, from the i-th on
BuildAll(mem, a, T, items, i) ==
    IF i > Len(items) THEN mem
    ELSE BuildAll(Build(mem, At1(a, (i - 1) * SizeOf(T)), T, items[i]), a, T, items, i + 1)

\* The nodes lo..hi of a map, the root of them at a block of its own; it is
\* reached by the address in cell
BuildNode(mem, cell, T, keys, map, lo, hi) ==
    IF lo > hi THEN Store(mem, cell, Null)
    ELSE LET k == keys[Middle(lo, hi)]
             made == malloc(mem, NodeBase + Aligned(PairSecond(T.key, T.of) + SizeOf(T.of),
                                                    Largest({Alignment(T.key), Alignment(T.of)})))
             node == NewBlock(made)
             key == Build(Store(made, cell, node), At1(node, NodeBase), T.key, k)
             pair == Build(key, At1(node, NodeBase + PairSecond(T.key, T.of)), T.of, map[k])
             left == BuildNode(pair, At1(node, 2 * Word), T, keys, map, lo, Middle(lo, hi) - 1)
         IN  BuildNode(left, At1(node, 3 * Word), T, keys, map, Middle(lo, hi) + 1, hi)

\* The object of type T and value V, as the code of a service leaves it at a.  The
\* value of a pointer is the array it points to, and where its block comes from; of
\* the header of a map, what a field reads
Build(mem, a, T, V) ==
    CASE T.kind \in {"fundamental", "string"} -> Store(mem, a, V)
      [] T.kind = "array" -> BuildAll(mem, a, T.of, V, 1)
      [] T.kind = "class" ->
           LET f[i \in 0..Len(T.members)] ==
                   IF i = 0 THEN mem
                   ELSE Build(f[i - 1], At1(a, Offset(T, i)), T.members[i][2], V[T.members[i][1]])
           IN  f[Len(T.members)]
      [] T.kind = "vector" ->
           LET made == malloc(mem, Len(V) * SizeOf(T.of))
               end == At1(NewBlock(made), Len(V) * SizeOf(T.of))
           IN  BuildAll(Store(Store(Store(made, a, NewBlock(made)), At1(a, Word), end),
                              At1(a, 2 * Word), end), NewBlock(made), T.of, V, 1)
      [] T.kind = "map" ->
           LET keys == SetToSortSeq(DOMAIN V, LAMBDA x, y : LessKey(T.key, x, y)) IN
           Store(BuildNode(mem, At1(a, 2 * Word), T, keys, V, 1, Len(keys)),
                 At1(a, 5 * Word), Len(keys))
      [] T.kind = "pointer" /\ V.from = "null" -> Store(mem, a, Null)
      [] T.kind = "pointer" ->
           LET grown == V.from = "realloc"
               first == malloc(mem, (IF grown THEN 1 ELSE Len(V.items)) * SizeOf(T.of))
               made == IF grown THEN realloc(first, Len(V.items) * SizeOf(T.of)) ELSE first
           IN  BuildAll(Store(made, a, NewBlock(made)), NewBlock(made), T.of, V.items, 1)

RECURSIVE Value(_, _, _), Nodes(_, _), Lookup(_, _, _, _), Shared(_, _, _, _)

Root(mem, a) == Load(mem, At1(a, 2 * Word))
LeftOf(mem, node) == Load(mem, At1(node, 2 * Word))
RightOf(mem, node) == Load(mem, At1(node, 3 * Word))

\* The places of the nodes of a map
Nodes(mem, node) ==
    IF node = Null THEN {} ELSE {node} \cup Nodes(mem, LeftOf(mem, node)) \cup Nodes(mem, RightOf(mem, node))

\* Where std::map::find ends, from a node down
Lookup(mem, node, K, k) ==
    IF node = Null THEN Null
    ELSE LET x == Value(mem, At1(node, NodeBase), K) IN
         IF LessKey(K, k, x) THEN Lookup(mem, LeftOf(mem, node), K, k)
         ELSE IF LessKey(K, x, k) THEN Lookup(mem, RightOf(mem, node), K, k) ELSE node

\* The value the code of a service finds in the object of type T at a: in a map, by
\* looking its keys up
Value(mem, a, T) ==
    LET items(start, n) == [i \in 1..n |-> Value(mem, At1(start, (i - 1) * SizeOf(T.of)), T.of)] IN
    CASE T.kind = "fundamental" -> LoadNumber(mem, a)
      [] T.kind = "string" -> Load(mem, a)
      [] T.kind = "array" -> items(a, T.length)
      [] T.kind = "class" ->
           [m \in {T.members[i][1] : i \in DOMAIN T.members} |->
               LET i == CHOOSE i \in DOMAIN T.members : T.members[i][1] = m
               IN  Value(mem, At1(a, Offset(T, i)), T.members[i][2])]
      [] T.kind = "vector" ->
           items(Load(mem, a), (Load(mem, At1(a, Word))[2] - Load(mem, a)[2]) \div SizeOf(T.of))
      [] T.kind = "map" ->
           LET root == Root(mem, a)
               found(k) == Lookup(mem, root, T.key, k)
           IN  [k \in {k \in {Value(mem, At1(n, NodeBase), T.key) : n \in Nodes(mem, root)} : found(k) # Null} |->
                   Value(mem, At1(found(k), NodeBase + PairSecond(T.key, T.of)), T.of)]
      [] T.kind = "pointer" ->
           IF Load(mem, a) = Null THEN [from |-> "null", items |-> <<>>]
           ELSE [from |-> "malloc",
                 items |-> items(Load(mem, a), pointer_size(mem, Load(mem, a)) \div SizeOf(T.of))]

\* begin() of a map at a is its least node, or its header when it is empty, and the
\* last step of an iteration leaves the root for the header, its parent
Iterable(mem, a) ==
    LET header == At1(a, Word)
        root == Root(mem, a)
    IN  IF root = Null THEN Load(mem, At1(a, 3 * Word)) = header
        ELSE Load(mem, At1(root, Word)) = header

\* The maps in the object of type T at a that the method gets as the fields have built
\* them: all of them in an object it is given itself, those behind a pointer in one
\* that is copied, since the copy of a std::map has a header of its own
Shared(mem, a, T, copied) ==
    LET items(start, n) == UNION {Shared(mem, At1(start, i * SizeOf(T.of)), T.of, copied) : i \in 0..(n - 1)} IN
    CASE T.kind = "map" ->
           (IF copied THEN {} ELSE {a})
           \cup UNION {Shared(mem, At1(n, NodeBase + PairSecond(T.key, T.of)), T.of, copied) :
                          n \in Nodes(mem, Root(mem, a))}
      [] T.kind = "class" ->
           UNION {Shared(mem, At1(a, Offset(T, i)), T.members[i][2], copied) : i \in DOMAIN T.members}
      [] T.kind = "array" -> items(a, T.length)
      [] T.kind = "vector" ->
           items(Load(mem, a), (Load(mem, At1(a, Word))[2] - Load(mem, a)[2]) \div SizeOf(T.of))
      [] T.kind = "pointer" /\ Load(mem, a) # Null ->
           UNION {Shared(mem, At1(Load(mem, a), i * SizeOf(T.of)), T.of, FALSE) :
                     i \in 0..(pointer_size(mem, Load(mem, a)) \div SizeOf(T.of) - 1)}
      [] OTHER -> {}

-----------------------------------------------------------------------------
\* toJson.  A stream is its text and its std::fixed flag, which a float raises
\* for everything written behind it

Put(s, text) == [s EXCEPT !.text = @ \o text]

\* Six decimals
FixedText(x) ==
    LET shown == Plain(x)
    IN  IF x.e >= 0 THEN shown \o <<".">> \o Zeros(6) ELSE shown \o Zeros(6 + x.e)

\* char is written as a number, the other two character types as the character
WriteFundamental(s, name, x) ==
    CASE name \in {"unsigned char", "signed char"} -> Put(s, <<ByteName[(x.m * Power(10, x.e)) % 256]>>)
      [] name = "float" -> [Put(s, FixedText(x)) EXCEPT !.fixed = TRUE]
      [] name = "double" -> Put(s, IF s.fixed THEN FixedText(x) ELSE WriteNumber(x))
      [] OTHER -> Put(s, Plain(x))

RECURSIVE toJson(_, _, _, _), ListToJson(_, _, _, _, _), TreeToJson(_, _, _, _),
          MembersToJson(_, _, _, _, _)

\* n items, step bytes apart
ListToJson(s, mem, a, T, n) ==
    IF n = 0 THEN s
    ELSE LET one == toJson(s, mem, a, T) IN
         IF n = 1 THEN one ELSE ListToJson(Put(one, <<",">>), mem, At1(a, SizeOf(T)), T, n - 1)

getAlignedSize(T) == Aligned(SizeOf(T), Word)

\* readRedBlackTree: the elements in the order node, left, right; a fundamental key
\* is quoted
TreeToJson(mem, node, T, elements) ==
    IF node = Null THEN elements
    ELSE LET key == toJson([text |-> <<>>, fixed |-> FALSE], mem, At1(node, NodeBase), T.key)
             quoted == IF T.key.kind = "string" THEN key ELSE [key EXCEPT !.text = Quoted(@)]
             pair == toJson(Put(quoted, <<":">>), mem, At1(node, NodeBase + getAlignedSize(T.key)), T.of)
             left == TreeToJson(mem, Load(mem, At1(node, 2 * Word)), T, Append(elements, pair.text))
         IN  TreeToJson(mem, Load(mem, At1(node, 3 * Word)), T, left)

\* class_field: the members in the order of std::map
MemberOrder(members) ==
    SetToSortSeq(DOMAIN members, LAMBDA i, j : Before(Chars(members[i][1]), Chars(members[j][1])))

\* order: the members of the class that are left to write
MembersToJson(s, mem, a, T, order) ==
    IF order = <<>> THEN s
    ELSE LET m == order[1]
             named == Put(s, Quoted(Chars(T.members[m][1])) \o <<":">>)
             one == toJson(named, mem, At1(a, Offset(T, m)), T.members[m][2])
         IN  IF Len(order) = 1 THEN one
             ELSE MembersToJson(Put(one, <<",">>), mem, a, T, Tail(order))

\* A pointer's array has at least one element, whatever its size says
toJson(s, mem, a, T) ==
    CASE T.kind = "fundamental" -> WriteFundamental(s, T.name, LoadNumber(mem, a))
      [] T.kind = "string" -> Put(s, Quoted(Load(mem, a)))
      [] T.kind = "array" -> Put(ListToJson(Put(s, <<"[">>), mem, a, T.of, T.length), <<"]">>)
      [] T.kind = "vector" ->
           LET n == (Load(mem, At1(a, Word))[2] - Load(mem, a)[2]) \div SizeOf(T.of)
           IN  Put(ListToJson(Put(s, <<"[">>), mem, Load(mem, a), T.of, n), <<"]">>)
      [] T.kind = "pointer" /\ Load(mem, a) = Null -> Put(s, Chars("null"))
      [] T.kind = "pointer" ->
           LET n == pointer_size(mem, Load(mem, a)) \div SizeOf(T.of)
           IN  Put(ListToJson(Put(s, <<"[">>), mem, Load(mem, a), T.of, Largest({n, 1})), <<"]">>)
      [] T.kind = "map" ->
           Put(s, <<"{">> \o Joined(TreeToJson(mem, Load(mem, At1(a, 2 * Word)), T, <<>>), ",") \o <<"}">>)
      [] T.kind = "class" ->
           Put(MembersToJson(Put(s, <<"{">>), mem, a, T, MemberOrder(T.members)), <<"}">>)

-----------------------------------------------------------------------------
\* fromJson.  r is [mem, end]: end is "" as long as all went well, "throw" once a
\* get<T> met a value of another type, "abort" for a value that did not parse

Threw(r) == [r EXCEPT !.end = "throw"]
Keep(r, mem) == [r EXCEPT !.mem = mem]

\* Towards zero
Truncated(x) ==
    IF x.e >= 0 THEN x
    ELSE Integer((IF x.m < 0 THEN -1 ELSE 1) * (Abs(x.m) \div Power(10, -x.e)))
Cast(name, x) ==
    CASE name \in {"float", "double"} -> x
      [] name = "bool" -> Integer(IF x.m = 0 THEN 0 ELSE 1)
      [] OTHER -> Truncated(x)

\* atof of a key
Number(text) == LET n == Floating(text, 1, 308) IN IF n.ok THEN n.v ELSE Integer(0)
\* field_value: the keys of a map as its key type compares them.  The first of two
\* equal keys stays, with the value of the second
Same(K, x, y) == IF K.kind = "string" THEN x = y ELSE Cast(K.name, Number(x)) = Cast(K.name, Number(y))
Building(K, pairs) ==
    FoldLeft(LAMBDA built, p :
                 IF \E q \in DOMAIN built : Same(K, built[q][1], p[1].v)
                 THEN [q \in DOMAIN built |-> IF Same(K, built[q][1], p[1].v)
                                              THEN <<built[q][1], p[2]>> ELSE built[q]]
                 ELSE Append(built, <<p[1].v, p[2]>>),
             <<>>, pairs)
KeyBefore(K, p, q) ==
    LET Key(text) == IF K.kind = "string" THEN text ELSE Cast(K.name, Number(text))
    IN  LessKey(K, Key(p[1]), Key(q[1]))
ByKey(K, built) ==
    SetToSortSeq({built[i] : i \in DOMAIN built}, LAMBDA p, q : KeyBefore(K, p, q))

RECURSIVE fromJson(_, _, _, _), AllFromJson(_, _, _, _, _, _), copyNode(_, _, _, _, _, _, _),
          AllThere(_, _, _, _, _, _), MembersFromJson(_, _, _, _, _)

\* Mutant: a list that is too short fills what it can
AllThere(r, a, T, values, i, n) ==
    IF i > n \/ i > Len(values) \/ r.end # "" THEN r
    ELSE AllThere(fromJson(r, At1(a, (i - 1) * SizeOf(T)), T, values[i]), a, T, values, i + 1, n)

\* The first n values of a list, to consecutive places; a list may be too short
AllFromJson(r, a, T, values, i, n) ==
    IF i > n \/ r.end # "" THEN r
    ELSE IF i > Len(values) THEN Threw(r)
    ELSE AllFromJson(fromJson(r, At1(a, (i - 1) * SizeOf(T)), T, values[i]), a, T, values, i + 1, n)

\* The array of a vector or a pointer at a: the last block that made has
ItemsFromJson(r, a, made, T, values) ==
    AllFromJson(Keep(r, Store(made, a, NewBlock(made))), NewBlock(made), T, values, 1, Len(values))

\* A vector also keeps where its items end, and where its room ends
Fenced(r, a, size) ==
    LET end == At1(Load(r.mem, a), size) IN
    IF r.end # "" THEN r ELSE Keep(r, Store(Store(r.mem, At1(a, Word), end), At1(a, 2 * Word), end))

\* The key and the value of a node
PairFromJson(r, node, T, p) ==
    LET key == IF T.key.kind = "string" THEN p[1] ELSE Cast(T.key.name, Number(p[1])) IN
    fromJson(Keep(r, Store(r.mem, At1(node, NodeBase), key)),
             At1(node, NodeBase + getAlignedSize(T.key)), T.of, p[2])

\* The tree of the map that sorted the pairs is copied node by node; the root has
\* no parent
copyNode(r, cell, parent, T, pairs, lo, hi) ==
    IF lo > hi \/ r.end # "" THEN Keep(r, Store(r.mem, cell, Null))
    ELSE LET made == malloc(r.mem, NodeBase + getAlignedSize(T.key) + getAlignedSize(T.of))
             node == NewBlock(made)
             linked == Store(Store(made, cell, node), At1(node, Word), parent)
             left == copyNode(Keep(r, linked), At1(node, 2 * Word), node, T, pairs, lo, Middle(lo, hi) - 1)
         IN  PairFromJson(copyNode(left, At1(node, 3 * Word), node, T, pairs, Middle(lo, hi) + 1, hi),
                          node, T, pairs[Middle(lo, hi)])

RECURSIVE Outermost(_, _, _)
Outermost(mem, node, side) ==
    LET next == Load(mem, At1(node, side)) IN IF next = Null THEN node ELSE Outermost(mem, next, side)

\* The header of the map that sorted the pairs, a local of fromJson: the first and the
\* last node of an empty one
Dead == <<0, Word>>

MapOfNodes(r, a, n) ==
    LET end(side) == IF n = 0 THEN Dead ELSE Outermost(r.mem, Root(r.mem, a), side)
        headed == Store(Store(r.mem, At1(a, 3 * Word), end(2 * Word)), At1(a, 4 * Word), end(3 * Word))
    IN  IF r.end # "" THEN r ELSE Keep(r, Store(headed, At1(a, 5 * Word), n))
\* A key that does not parse between two quotes is not a text; comparing it with
\* another, or copying it, throws
MapFromJson(r, a, T, keyValues) ==
    IF \E i \in DOMAIN keyValues : ~is(keyValues[i][1], "STRING_") THEN Threw(r)
    ELSE LET pairs == ByKey(T.key, Building(T.key, keyValues)) IN
         MapOfNodes(copyNode(r, At1(a, 2 * Word), Null, T, pairs, 1, Len(pairs)), a, Len(pairs))

\* order: the members of the class that are left to read
MembersFromJson(r, a, T, map, order) ==
    IF order = <<>> \/ r.end # "" THEN r
    ELSE LET m == order[1]
             name == Chars(T.members[m][1])
         IN  IF name \notin DOMAIN map THEN Threw(r)
             ELSE MembersFromJson(fromJson(r, At1(a, Offset(T, m)), T.members[m][2], map[name]),
                                  a, T, map, Tail(order))

fromJson(r, a, T, value) ==
    CASE T.kind = "fundamental" /\ is(value, "INVALID_") -> [r EXCEPT !.end = "abort"]
      [] T.kind = "fundamental" ->
           IF is(value, "FLOAT_") THEN Keep(r, Store(r.mem, a, Cast(T.name, value.v))) ELSE Threw(r)
      [] T.kind = "string" ->
           IF is(value, "STRING_") THEN Keep(r, Store(r.mem, a, value.v)) ELSE Threw(r)
      [] T.kind \in {"array", "vector", "pointer"} /\ ~is(value, "ARRAY_") -> Threw(r)
      [] T.kind = "array" -> AllFromJson(r, a, T.of, value.v, 1, T.length)
      [] T.kind = "vector" ->
           Fenced(ItemsFromJson(r, a, malloc(r.mem, Len(value.v) * SizeOf(T.of)), T.of, value.v),
                  a, Len(value.v) * SizeOf(T.of))
      [] T.kind = "pointer" ->
           ItemsFromJson(r, a, malloc(r.mem, Len(value.v) * SizeOf(T.of)), T.of, value.v)
      [] T.kind \in {"map", "class"} /\ ~is(value, "OBJECT_") -> Threw(r)
      [] T.kind = "map" -> MapFromJson(r, a, T, getKeyValues(value.v))
      [] T.kind = "class" -> MembersFromJson(r, a, T, value.v, MemberOrder(T.members))

\* getDataStruct finds a type by the name typeid has for it: a class under its own,
\* a fundamental type under that of gccxml, which for the long and short integers is
\* another, and a pointer or an array nowhere
HasEntry(T) ==
    \/ T.kind \in {"class", "map", "vector", "string"}
    \/ /\ T.kind = "fundamental"
       /\ T.name \notin {"long int", "long unsigned int", "short int", "short unsigned int",
                         "long long unsigned int"}

\* dictionary::fromJson<T> of a text: a block of the size of T, and the object in it.
\* Vectors and strings have no fromJson that takes a text
HasText(T) == HasEntry(T) /\ T.kind \notin {"vector", "string"}
NewFromJson(mem, T, text) ==
    LET made == malloc(mem, SizeOf(T)) IN
    fromJson([mem |-> made, end |-> ""], NewBlock(made), T, Parse(text))

\* dictionary::toJson<T>: nothing for a type without an entry
ToJson(mem, a, T) ==
    IF HasEntry(T) THEN toJson([text |-> <<>>, fixed |-> FALSE], mem, a, T).text ELSE <<>>
=============================================================================
