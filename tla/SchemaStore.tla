----------------------------- MODULE SchemaStore -----------------------------
(***************************************************************************)
(* sql_class_wrapper::store (sql_class_wrapper.cpp) on a mysql_driver: the *)
(* table of a class follows the class of the running program.  Every store *)
(* prepares again: the description of the table is read, the statements    *)
(* that lead from it to the class are executed one by one, their results   *)
(* ignored, and the description is deleted and inserted again.             *)
(*                                                                         *)
(* MySQL commits each statement by itself.  The process may die between    *)
(* any two of them (the driver also ends it with exit(0) on an error), and *)
(* the next one may have been compiled with another class.                 *)
(***************************************************************************)
EXTENDS Integers, Sequences, SequencesExt

CONSTANTS
    Columns,  \* columns a class can need, besides its id
    Order,    \* the columns in the order of their names
    Types,    \* their SQL types
    Indexed,  \* the columns that are not data_: those of the unique key
    DataOf,   \* the data_ column of each hash_ column: a nested class has both
    Classes,  \* the versions of the class: the type of each column, or None
    None

Shape == [Columns -> Types \cup {None}]

ASSUME IndexedAssumption == Indexed \subseteq Columns
ASSUME OrderAssumption ==
    /\ Order \in Seq(Columns) /\ Columns = {Order[i] : i \in DOMAIN Order}
    /\ \A i, j \in DOMAIN Order : Order[i] = Order[j] => i = j
ASSUME DataAssumption ==
    DOMAIN DataOf \subseteq Indexed /\ Columns \ Indexed = {DataOf[c] : c \in DOMAIN DataOf}

\* The prefix of a column's name, in alphabetical order: colu_, data_, hash_
Prefix(c) == IF c \in DOMAIN DataOf THEN 3 ELSE IF c \in Indexed THEN 1 ELSE 2

\* Names are compared by their prefix, then by their field
ASSUME NamesAssumption ==
    \A i, j \in DOMAIN Order :
        /\ Prefix(Order[i]) < Prefix(Order[j]) => i < j
        /\ i < j /\ {Order[i], Order[j]} \subseteq DOMAIN DataOf =>
              \A k, l \in DOMAIN Order :
                  Order[k] = DataOf[Order[i]] /\ Order[l] = DataOf[Order[j]] => k < l

ASSUME ClassesAssumption ==
    /\ Classes \subseteq Shape
    /\ \A shape \in Classes : \A c \in DOMAIN DataOf : shape[c] = None <=> shape[DataOf[c]] = None
ASSUME NoneAssumption == None \notin Types \cup Columns /\ None \notin Shape

VARIABLES
    exists,  \* the table exists
    cols,    \* its columns
    key,     \* the columns of its unique key, {} when it has none
    data,    \* for each column, which value of an object it was last given since it
             \* was added, named by the column it is for
    descr,   \* the stored description, None when there is none
    class,   \* the class of the running program
    pc,      \* the statement store is about to execute
    todo,    \* aSQLs: the statements left
    ready,   \* _prepared of the wrapper
    half,    \* observation: statements were executed, no description stored yet
    failed,  \* observation: a statement failed that should have worked
    hasty    \* observation: the class was changed when half was true

vars == <<exists, cols, key, data, descr, class, pc, todo, ready, half, failed, hasty>>
database == <<exists, cols, key, data, descr>>
observed == <<half, failed, hasty>>

-----------------------------------------------------------------------------

Steps == {"off", "idle", "describe", "alter", "forget", "remember", "prepare", "bind"}
Statement == [op : {"create", "addkey", "dropkey"}]
                \cup [op : {"drop"}, col : Columns]
                \cup [op : {"add"}, col : Columns, type : Types]

TypeOK ==
    /\ exists \in BOOLEAN
    /\ cols \in Shape
    /\ key \in SUBSET Indexed
    /\ data \in [Columns -> Columns \cup {None}]
    /\ \A c \in Columns : cols[c] = None => data[c] = None
    /\ descr \in Shape \cup {None}
    /\ class \in Classes
    /\ pc \in Steps
    /\ todo \in Seq(Statement)
    /\ ready \in BOOLEAN
    /\ half \in BOOLEAN /\ failed \in BOOLEAN /\ hasty \in BOOLEAN

Empty == [c \in Columns |-> None]

Init ==
    /\ exists = FALSE /\ cols = Empty /\ key = {} /\ data = Empty /\ descr = None
    /\ class \in Classes
    /\ pc = "idle" /\ todo = <<>> /\ ready = FALSE
    /\ half = FALSE /\ failed = FALSE /\ hasty = FALSE

-----------------------------------------------------------------------------
\* sql_create

Present(shape) == {c \in Columns : shape[c] # None}
KeyOf(shape) == Present(shape) \cap Indexed

\* cmp: a column whose type changed is deleted and inserted
Deleted(base, comp)  == {c \in Present(base) : base[c] # comp[c]}
Inserted(base, comp) == {c \in Present(comp) : base[c] # comp[c]}

\* Columns one after the other, as a std::map has them
InOrder(columns) ==
    LET taken[n \in 0..Len(Order)] ==
            IF n = 0 THEN <<>>
            ELSE IF Order[n] \in columns THEN Append(taken[n - 1], Order[n]) ELSE taken[n - 1]
    IN  taken[Len(Order)]

Create == << [op |-> "create"], [op |-> "addkey"] >>

\* The statements that lead from a table with drops and adds to class comp
AlterWith(drops, adds, comp) ==
    LET dropped == InOrder(drops)
        added == InOrder(adds)
    IN  << [op |-> "dropkey"] >>
        \o [i \in DOMAIN dropped |-> [op |-> "drop", col |-> dropped[i]]]
        \o [i \in DOMAIN added |-> [op |-> "add", col |-> added[i], type |-> comp[added[i]]]]
        \o << [op |-> "addkey"] >>

\* Mutant: cmp looks at names only
AlterByName(base, comp) ==
    AlterWith(Present(base) \ Present(comp), Present(comp) \ Present(base), comp)

\* Mutant: columns are dropped and added again whether they changed or not
AlterAll(base, comp) == AlterWith(Present(base), Present(comp), comp)

\* Mutant: a column the class lost is left in the table
AlterAddsOnly(base, comp) ==
    AlterWith(Deleted(base, comp) \cap Present(comp), Inserted(base, comp), comp)

Alter(base, comp) == AlterWith(Deleted(base, comp), Inserted(base, comp), comp)

-----------------------------------------------------------------------------
\* The statements, as MySQL executes them; one that cannot be executed changes
\* nothing, and execute's result is ignored

CreateTable(s) ==
    /\ s.op = "create"
    /\ exists' = TRUE
    /\ cols' = IF exists THEN cols ELSE class
    /\ UNCHANGED <<key, data>>

AddKey(s) ==
    /\ s.op = "addkey"
    /\ key' = IF exists /\ key = {} /\ KeyOf(class) \subseteq Present(cols) THEN KeyOf(class) ELSE key
    /\ UNCHANGED <<exists, cols, data>>

DropKey(s) ==
    /\ s.op = "dropkey"
    /\ key' = {}
    /\ UNCHANGED <<exists, cols, data>>

DropColumn(s) ==
    /\ s.op = "drop"
    /\ cols' = [cols EXCEPT ![s.col] = None]
    /\ key' = key \ {s.col}
    /\ data' = [data EXCEPT ![s.col] = None]
    /\ UNCHANGED exists

AddColumn(s) ==
    /\ s.op = "add"
    /\ cols' = IF exists /\ cols[s.col] = None THEN [cols EXCEPT ![s.col] = s.type] ELSE cols
    /\ UNCHANGED <<exists, key, data>>

-----------------------------------------------------------------------------
\* store

Goto(from, to) == pc = from /\ pc' = to

\* mysql_driver::prepare creates the table of descriptions
Store ==
    /\ Goto("idle", "describe")
    /\ UNCHANGED <<database, class, todo, ready, observed>>

\* It fails: prepare does nothing, and an object is only stored through the
\* statement of an earlier call.  _prepared has no initial value, and that
\* statement frees its parameters twice: the process may die here
StoreUnprepared ==
    /\ pc = "idle"
    /\ pc' \in {"off", IF ready THEN "bind" ELSE "idle"}
    /\ UNCHANGED <<database, class, todo, ready, observed>>

\* getDescription and sql_create
Describe ==
    /\ Goto("describe", "alter")
    /\ todo' = IF descr = None THEN Create ELSE Alter(descr, class)
    /\ UNCHANGED <<database, class, ready, observed>>

Execute ==
    /\ pc = "alter" /\ todo # <<>>
    /\ LET s == Head(todo) IN
        CreateTable(s) \/ AddKey(s) \/ DropKey(s) \/ DropColumn(s) \/ AddColumn(s)
    /\ todo' = Tail(todo)
    /\ half' = TRUE
    /\ UNCHANGED <<pc, descr, class, ready, failed, hasty>>

\* A lock that is not granted, a connection that is lost
ExecuteFails ==
    /\ pc = "alter" /\ todo # <<>>
    /\ todo' = Tail(todo)
    /\ half' = TRUE /\ failed' = TRUE
    /\ UNCHANGED <<pc, database, class, ready, hasty>>

Executed ==
    /\ todo = <<>>
    /\ Goto("alter", "forget")
    /\ UNCHANGED <<database, class, todo, ready, observed>>

\* setDescription: DELETE, then INSERT
DeleteDescription ==
    /\ Goto("forget", "remember")
    /\ descr' = None
    /\ UNCHANGED <<exists, cols, key, data, class, todo, ready, observed>>

InsertDescription ==
    /\ Goto("remember", "prepare")
    /\ descr' = class
    /\ half' = FALSE
    /\ UNCHANGED <<exists, cols, key, data, class, todo, ready, failed, hasty>>

\* Mutant: the columns of the table are not looked at
GetStatementUnchecked ==
    /\ Goto("prepare", "bind")
    /\ ready' = TRUE
    /\ UNCHANGED <<database, class, todo, observed>>

\* getStatement prepares the INSERT
GetStatement ==
    /\ Goto("prepare", "bind")
    /\ exists /\ Present(class) \subseteq Present(cols)
    /\ ready' = TRUE
    /\ UNCHANGED <<database, class, todo, observed>>

\* MySQL refuses it for want of a column: mysql_statement is left without its
\* parameters, and binding them ends the process
GetStatementFails ==
    /\ Goto("prepare", "off")
    /\ ~(exists /\ Present(class) \subseteq Present(cols))
    /\ UNCHANGED <<database, class, todo, ready, observed>>

\* Mutant: the hash of a nested class is bound in front of its data
BoundHashFirst(shape) ==
    LET fields == InOrder(KeyOf(shape))
    IN  FlattenSeq([i \in DOMAIN fields |->
            IF fields[i] \in DOMAIN DataOf THEN <<fields[i], DataOf[fields[i]]>> ELSE <<fields[i]>>])

\* The values store binds: those of one field after the other, bindBLOB two of them
Bound(shape) ==
    LET fields == InOrder(KeyOf(shape))
    IN  FlattenSeq([i \in DOMAIN fields |->
            IF fields[i] \in DOMAIN DataOf THEN <<DataOf[fields[i]], fields[i]>> ELSE <<fields[i]>>])

\* The statement names the columns in order, and takes the values in theirs
Insert ==
    /\ Goto("bind", "idle")
    /\ LET named == InOrder(Present(class)) IN
        data' = [c \in Columns |->
                    IF c \in Present(class) THEN Bound(class)[CHOOSE i \in DOMAIN named : named[i] = c]
                    ELSE data[c]]
    /\ UNCHANGED <<exists, cols, key, descr, class, todo, ready, observed>>

\* The process dies, or exits on an error of a statement
Crash ==
    /\ pc # "off"
    /\ pc' = "off"
    /\ UNCHANGED <<database, class, todo, ready, observed>>

Start(c) ==
    /\ Goto("off", "idle")
    /\ class' = c
    /\ todo' = <<>> /\ ready' = FALSE
    /\ hasty' = (hasty \/ (half /\ c # class))
    /\ UNCHANGED <<database, half, failed>>

Next ==
    \/ Store \/ StoreUnprepared \/ Describe \/ Execute \/ ExecuteFails \/ Executed
    \/ DeleteDescription \/ InsertDescription \/ GetStatement \/ GetStatementFails
    \/ Insert \/ Crash
    \/ \E c \in Classes : Start(c)

Spec == Init /\ [][Next]_vars

-----------------------------------------------------------------------------
(***************************************************************************)
(* Properties.  They hold while no statement fails that should have worked *)
(* and no other class is started over a preparation that was cut short;    *)
(* crashes, anywhere and any number of them, are allowed.                  *)
(***************************************************************************)

Orderly == ~failed /\ ~hasty

\* When an object is stored, the table has the columns of its class with their
\* types, no others, and its unique key covers exactly those the class indexes,
\* however often the process died on the way
TableFollowsClass ==
    Orderly /\ pc \in {"prepare", "bind"} => exists /\ cols = class /\ key = KeyOf(class)

\* A description that is in the database outside a preparation is that of the
\* table: the next start can trust it
DescriptionHonest == Orderly /\ ~half /\ descr # None => exists /\ cols = descr

\* A column in which something is stored is dropped only when the class that
\* runs does not have it, or not with that type
KeptDataSurvives ==
    [][\A c \in Columns : Orderly /\ data[c] # None /\ data'[c] = None => class[c] # cols[c]]_vars

\* An object that is stored has every value in its own column, although store binds
\* field by field and the INSERT names the columns kind by kind: just when its class
\* has no second nested class
ValuesInColumns ==
    [][pc = "bind" /\ pc' = "idle" =>
         ((\A c \in Present(class) : data'[c] = c)
             <=> Cardinality(Present(class) \cap DOMAIN DataOf) <= 1)]_vars
=============================================================================
