---------------------------- MODULE SchemaStoreMC ----------------------------
(* Versions of a class for SchemaStore: sql_field gives the simple field f  *)
(* one column, colu_f, a nested class two, data_a and hash_a for a.         *)
EXTENDS SchemaStore

CONSTANTS colu_f, data_a, data_b, hash_a, hash_b, integer, varchar, blob

Of(simple, nested) ==
    (colu_f :> simple) @@ [c \in nested \cap {hash_a, hash_b} |-> varchar]
                       @@ [c \in nested \cap {data_a, data_b} |-> blob]
                       @@ [c \in Columns |-> None]

ByName == <<colu_f, data_a, data_b, hash_a, hash_b>>
Data == (hash_a :> data_a) @@ (hash_b :> data_b)
A == {hash_a, data_a}
B == {hash_b, data_b}

\* A class with a simple field, one whose simple field changed its type beside a nested
\* class, one with the nested class and a second one, an empty one
Versions == {Of(integer, {}), Of(varchar, A), Of(None, A \cup B), Of(None, {})}
=============================================================================
