----------------------------- MODULE Dictionary -----------------------------
(***************************************************************************)
(* How the dictionary (lib/cjson_dictionary.cpp) turns the XML description *)
(* of a program's classes into a tree of fields per class.                 *)
(*                                                                         *)
(* decodeClassOrStruct calls itself for every base and every member whose  *)
(* type leads to a class.  A vector of names, iRecursive, travels with the *)
(* recursion through members, and a class found in it is cut: it becomes a *)
(* recursive_field.  A base is decoded with a new, empty vector.  Only     *)
(* recordStructures stores what it decoded, in _resources, so that a class *)
(* met inside another one is decoded again each time until its own turn.   *)
(*                                                                         *)
(* The recursion is an explicit stack here, one frame per running call of  *)
(* decodeClassOrStruct, and one step per base or member.                   *)
(***************************************************************************)
EXTENDS Integers, Sequences, SequencesExt, FiniteSets

CONSTANTS
    Classes,    \* demangled names of classes and structs
    Order,      \* the order in which the document lists them
    Documents,  \* the descriptions: what each class is made of
    Registered, \* types FundamentalFactory knows, enumerations of 32 bits
    Unknown,    \* any other type: unions, functions, char16_t...
    MaxDepth,   \* calls of decodeClassOrStruct the stack has room for
    None        \* no entry in _resources

ASSUME OrderAssumption ==
    Order \in Seq(Classes) /\ Range(Order) = Classes /\ IsInjective(Order)

ASSUME DepthAssumption ==
    IsFiniteSet(Classes) /\ MaxDepth \in Nat /\ MaxDepth >= Cardinality(Classes)

ASSUME LeafAssumption ==
    /\ {Registered, Unknown} \cap Classes = {}
    /\ Registered # Unknown

VARIABLES
    document,   \* the DOM document: class -> its bases and members
    pending,    \* the elements recordStructures has not come to
    frames,     \* the running calls of decodeClassOrStruct, outermost first
    recursive,  \* the vectors of those calls: one for the element recorded,
                \* and one for each base being decoded
    resources,  \* _resources
    pc          \* "decoding", or how the process died: "overflow", "null"

vars == <<document, pending, frames, recursive, resources, pc>>

-----------------------------------------------------------------------------
(* A member is a field of the class, or the type of a value a method takes *)
(* or returns.  Its type is the class or the type at the end of a chain of *)
(* XML elements, "through" pointers, references, arrays...                 *)

Kinds == {"field", "return", "argument"}

Wrappers == {"PointerType", "ReferenceType", "CvQualifiedType", "ArrayType",
             "Typedef"}

Types == [leaf : Classes \cup {Registered, Unknown}, through : SUBSET Wrappers]

Member == [kind : Kinds, type : Types]

Description == [bases : Seq(Classes), members : Seq(Member), extended : BOOLEAN]

ASSUME DocumentsAssumption == Documents \subseteq [Classes -> Description]

(* decodeType: only a pointer makes a field of something it cannot decode. *)
Decodes(type) == type.leaf # Unknown \/ "PointerType" \in type.through

(* The calls a class makes, bases first, then members, each with its place.*)
Edges(c) ==
    LET base(b) == [kind |-> "base", place |-> 0,
                    type |-> [leaf |-> b, through |-> {}]]
        member(i) == [kind |-> document[c].members[i].kind, place |-> i,
                      type |-> document[c].members[i].type]
    IN  [i \in DOMAIN document[c].bases |-> base(document[c].bases[i])]
        \o [i \in DOMAIN document[c].members |-> member(i)]

Top == Last(frames)
Edge == Head(Top.todo)
Leaf == Edge.type.leaf

(* A field of the list of a class, by where it was declared: copies of an  *)
(* inherited field keep the name <class>::<field> it gets at first.        *)
Field == [class : Classes, place : Nat \ {0}]

(* What a call of decodeClassOrStruct calls, the calls that run, and what  *)
(* is kept of one that has returned.                                       *)
Call == [kind : Kinds \cup {"base"}, place : Nat, type : Types]

Frame == [class : Classes, todo : Seq(Call), list : SUBSET Field,
          cuts : SUBSET Classes]

Tree == [list : SUBSET Field, cuts : SUBSET Classes]

ASSUME NoneAssumption == None \notin Tree

(* Types; the vectors hold the names of the calls that run and no others.  *)
TypeOK ==
    /\ document \in [Classes -> Description]
    /\ pending \in Seq(Classes)
    /\ frames \in Seq(Frame)
    /\ Len(frames) <= MaxDepth
    /\ \A i \in DOMAIN frames : IsSuffix(frames[i].todo, Edges(frames[i].class))
    /\ recursive \in Seq(Seq(Classes))
    /\ FlattenSeq(recursive) = [i \in DOMAIN frames |-> frames[i].class]
    /\ resources \in [Classes -> Tree \cup {None}]
    /\ pc \in {"decoding", "overflow", "null"}

Init ==
    /\ document \in Documents
    /\ pending = Order
    /\ frames = <<>>
    /\ recursive = <<>>
    /\ resources = [c \in Classes |-> None]
    /\ pc = "decoding"

-----------------------------------------------------------------------------
(* A call of decodeClassOrStruct gets as far as its first base or member.  *)
Enter(c, vectors) ==
    IF Len(frames) = MaxDepth
    THEN pc' = "overflow" /\ UNCHANGED <<frames, recursive>>
    ELSE /\ frames' = Append(frames, [class |-> c, todo |-> Edges(c),
                                      list |-> {}, cuts |-> {}])
         /\ recursive' = Append(Front(vectors), Append(Last(vectors), c))
         /\ UNCHANGED pc

(* recordStructures takes the next element, with an empty vector.          *)
Record ==
    /\ pc = "decoding"
    /\ frames = <<>>
    /\ pending # <<>>
    /\ pending' = Tail(pending)
    /\ Enter(Head(pending), <<<<>>>>)
    /\ UNCHANGED <<document, resources>>

(* Mutant: a class takes what its base declares, not what it inherits.     *)
GainsDeclared(f, list) ==
    LET edge == Head(f.todo)
    IN  CASE edge.kind = "base" -> {g \in list : g.class = edge.type.leaf}
          [] edge.kind = "field" -> {[class |-> f.class, place |-> edge.place]}
          [] OTHER -> {}

(* What a call adds to the list of its class, given the list of the class  *)
(* its current edge leads to: all of it for a base, one entry for a field, *)
(* nothing for a value of a method.                                        *)
Gains(f, list) ==
    LET edge == Head(f.todo)
    IN  CASE edge.kind = "base" -> list
          [] edge.kind = "field" -> {[class |-> f.class, place |-> edge.place]}
          [] OTHER -> {}

(* The call goes on to its next edge with what the current one gave.  The  *)
(* tree of a value of a method is dropped, only its name is kept.          *)
Took(f, list, cuts) ==
    [f EXCEPT !.todo = Tail(@),
              !.list = @ \cup Gains(f, list),
              !.cuts = @ \cup
                  (IF Head(f.todo).kind \in {"base", "field"} THEN cuts ELSE {})]

Take(list, cuts) ==
    /\ frames' = Append(Front(frames), Took(Top, list, cuts))
    /\ UNCHANGED <<document, pending, recursive, resources, pc>>

Skip ==
    /\ frames' = Append(Front(frames), [Top EXCEPT !.todo = Tail(@)])
    /\ UNCHANGED <<document, pending, recursive, resources, pc>>

(* A null result is dereferenced.                                          *)
NullDereference ==
    /\ pc' = "null"
    /\ UNCHANGED <<document, pending, frames, recursive, resources>>

AtEdge == pc = "decoding" /\ frames # <<>> /\ Top.todo # <<>>

(* The class is in _resources already: its tree is shared.  A base that    *)
(* has a field of its own (std::string, std::vector...) is no class_field: *)
(* the dynamic_cast gives null.                                            *)
Cached ==
    /\ AtEdge
    /\ Leaf \in Classes
    /\ resources[Leaf] # None
    /\ IF Edge.kind = "base" /\ document[Leaf].extended
       THEN NullDereference
       ELSE Take(resources[Leaf].list, resources[Leaf].cuts)

(* The class is being decoded further out: it is cut here.                 *)
Recursive ==
    /\ AtEdge
    /\ Edge.kind # "base"
    /\ Leaf \in Classes
    /\ resources[Leaf] = None
    /\ Leaf \in Range(Last(recursive))
    /\ Take({}, {Leaf})

(* A base is decoded with a vector of its own.                             *)
EnterBase ==
    /\ AtEdge
    /\ Edge.kind = "base"
    /\ resources[Leaf] = None
    /\ Enter(Leaf, Append(recursive, <<>>))
    /\ UNCHANGED <<document, pending, resources>>

(* Mutant: a member is decoded with a vector of its own, like a base.      *)
EnterMemberFresh ==
    /\ AtEdge
    /\ Edge.kind # "base"
    /\ Leaf \in Classes
    /\ resources[Leaf] = None
    /\ Leaf \notin Range(Last(recursive))
    /\ Enter(Leaf, Append(recursive, <<>>))
    /\ UNCHANGED <<document, pending, resources>>

(* A member is decoded with the vector of its class.                       *)
EnterMember ==
    /\ AtEdge
    /\ Edge.kind # "base"
    /\ Leaf \in Classes
    /\ resources[Leaf] = None
    /\ Leaf \notin Range(Last(recursive))
    /\ Enter(Leaf, recursive)
    /\ UNCHANGED <<document, pending, resources>>

(* A member that leads to no class: decodeMember adds a field, passes over *)
(* a field or a result without a type, and dereferences the type of an     *)
(* argument whatever it is.                                                *)
TakeOther ==
    /\ AtEdge
    /\ Leaf \notin Classes
    /\ IF Decodes(Edge.type)
       THEN Take({}, {})
       ELSE IF Edge.kind = "argument"
            THEN NullDereference
            ELSE Skip

(* The vectors once a call has returned: its name is popped; the vector of *)
(* a base, or of an element recorded, goes with the call it was made for.  *)
Popped(vectors) ==
    LET left == Front(Last(vectors))
    IN  IF left = <<>> THEN Front(vectors) ELSE Append(Front(vectors), left)

AtEnd == pc = "decoding" /\ frames # <<>> /\ Top.todo = <<>>

(* The class is open no more: what was cut at its name is closed by it.    *)
Open == Top.cuts \ {Top.class}

(* decodeClassOrStruct returns to recordStructures, which stores the class.*)
Store ==
    /\ AtEnd
    /\ Len(frames) = 1
    /\ resources' = [resources EXCEPT ![Top.class] =
                        [list |-> Top.list, cuts |-> Open]]
    /\ frames' = <<>>
    /\ recursive' = Popped(recursive)
    /\ UNCHANGED <<document, pending, pc>>

(* Mutant: the early return for an extended field forgets pop_back.        *)
LeaveUnpopped ==
    /\ AtEnd
    /\ Len(frames) > 1
    /\ LET outer == Front(frames)
           caller == Last(outer)
       IN  /\ ~(Head(caller.todo).kind = "base" /\ document[Top.class].extended)
           /\ frames' = Append(Front(outer), Took(caller, Top.list, Open))
           /\ recursive' = IF document[Top.class].extended
                            THEN recursive ELSE Popped(recursive)
           /\ UNCHANGED <<document, pending, resources, pc>>

(* Mutant: a class decoded inside another one is stored, as the commented  *)
(* lines of decodeMember would.                                            *)
LeaveStored ==
    /\ AtEnd
    /\ Len(frames) > 1
    /\ LET outer == Front(frames)
       IN  frames' = Append(Front(outer), Took(Last(outer), Top.list, Open))
    /\ resources' = [resources EXCEPT ![Top.class] =
                        [list |-> Top.list, cuts |-> Open]]
    /\ recursive' = Popped(recursive)
    /\ UNCHANGED <<document, pending, pc>>

(* decodeClassOrStruct returns to the call for the class around.           *)
Leave ==
    /\ AtEnd
    /\ Len(frames) > 1
    /\ LET outer == Front(frames)
           caller == Last(outer)
       IN  IF Head(caller.todo).kind = "base" /\ document[Top.class].extended
           THEN NullDereference
           ELSE /\ frames' = Append(Front(outer), Took(caller, Top.list, Open))
                /\ recursive' = Popped(recursive)
                /\ UNCHANGED <<document, pending, resources, pc>>

Next ==
    \/ Record
    \/ Cached
    \/ Recursive
    \/ EnterBase
    \/ EnterMember
    \/ TakeOther
    \/ Store
    \/ Leave

(* Decoding runs in one thread, before anything is served.                 *)
Spec == Init /\ [][Next]_vars /\ WF_vars(Next)

-----------------------------------------------------------------------------
Done == pc = "decoding" /\ frames = <<>> /\ pending = <<>>

(* The classes a class leads to: what every set it is in, and that has all *)
(* the classes that those it has are made of, has.                         *)
Parts(c) == {e.type.leaf : e \in Range(Edges(c))} \cap Classes

LeadsTo(c) ==
    {d \in Classes : \A S \in SUBSET Classes :
        c \in S /\ (\A b \in S : Parts(b) \subseteq S) => d \in S}

(* A base from which the description leads back to a class it is a base of.*)
LeadsBack == \E c \in Classes : \E b \in Range(document[c].bases) : c \in LeadsTo(b)

(* A description the decoder dereferences a null for.                      *)
Faulty ==
    \E c \in Classes : \E e \in Range(Edges(c)) :
        \/ e.kind = "argument" /\ ~Decodes(e.type)
        \/ e.kind = "base" /\ document[e.type.leaf].extended

Declared(c) ==
    {f \in [class : {c}, place : DOMAIN document[c].members] :
        LET m == document[c].members[f.place]
        IN  m.kind = "field" /\ Decodes(m.type)}

(* A class and all it inherits: what every set it is in, and that has the  *)
(* bases of its classes, has.                                              *)
Closed(S) == \A c \in S : Range(document[c].bases) \subseteq S

Inherits(c) == {b \in Classes : \A S \in SUBSET Classes : c \in S /\ Closed(S) => b \in S}

(* Where a class is cut, it is being decoded around the cut: a stored tree *)
(* has no cut that leads out of it, and an unfinished one only cuts at     *)
(* the classes around it (haveRecursion, decodeClassOrStruct).             *)
CutsClosed ==
    /\ \A c \in Classes : resources[c] # None => resources[c].cuts = {}
    /\ \A i \in DOMAIN frames :
        frames[i].cuts \subseteq {frames[j].class : j \in 1..i}

(* A class that is stored has the fields it declares and all it inherits,  *)
(* whatever was decoded, cut or stored before it (the loops over bases and *)
(* members in decodeClassOrStruct).                                        *)
ListsComplete ==
    \A c \in Classes : resources[c] # None =>
        resources[c].list = UNION {Declared(b) : b \in Inherits(c)}

(* Decoding ends with every class stored exactly if no base leads back to  *)
(* a class made of it and nothing makes the decoder dereference a null;    *)
(* the stack need not be deeper than there are classes for that (the       *)
(* recursion of decodeClassOrStruct).                                      *)
DecodingEnds ==
    /\ ~LeadsBack /\ ~Faulty => <>Done
    /\ LeadsBack \/ Faulty => []~Done
=============================================================================
