---------------------------- MODULE DictionaryMC ----------------------------
(* Three classes, listed c1, c2, c3: c1 inherits and has members of every  *)
(* kind, c2 and c3 have what it takes to lead back to it.                  *)
EXTENDS Dictionary

CONSTANTS c1, c2, c3, int, union

CodeOrder == <<c1, c2, c3>>

Type(leaf) == [leaf |-> leaf, through |-> {}]
Pointer(leaf) == [leaf |-> leaf, through |-> {"PointerType"}]
Of(kind, type) == [kind |-> kind, type |-> type]

(* The members the classes are made of: a class by value or by pointer     *)
(* makes no difference to the recursion.                                   *)
ToClass == {Of("field", Pointer(c)) : c \in Classes}
Others == {Of("field", Type(int)), Of("field", Type(union)),
           Of("field", Pointer(union)), Of("return", Type(union)),
           Of("argument", Type(union))}
Methods(c) == {Of("argument", [leaf |-> c, through |-> {"ReferenceType"}])}

AtMostOne(members) == {<<>>} \cup {<<m>> : m \in members}

FirstMembers == {<<m, n>> : m \in ToClass, n \in ToClass \cup Others} \cup AtMostOne(Methods(c2))

Class(bases, members, extended) ==
    [bases |-> bases, members |-> members, extended |-> extended]

SmallDocuments ==
    {(c1 :> Class(b1, m1, FALSE)) @@ (c2 :> Class(b2, m2, FALSE))
                                  @@ (c3 :> Class(<<>>, m3, x3)) :
        b1 \in {<<>>, <<c2>>, <<c2, c3>>}, b2 \in {<<>>, <<c3>>},
        m1 \in FirstMembers,
        m2 \in AtMostOne(ToClass \cup Methods(c1)),
        m3 \in AtMostOne(ToClass), x3 \in BOOLEAN}
=============================================================================
