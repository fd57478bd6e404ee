-------------------------- MODULE DictionaryProofs --------------------------
(***************************************************************************)
(* Theorems about Dictionary for any number of classes, any documents and  *)
(* any room on the stack.                                                  *)
(***************************************************************************)
EXTENDS Dictionary, SequenceLemmas, FiniteSetTheorems

-----------------------------------------------------------------------------
\* The inductive invariant

\* The fields of a class: those it declares and all it inherits
Full(c) == UNION {Declared(b) : b \in Inherits(c)}

\* What the i-th edge of a class gives its list
Part(c, i) ==
    IF Edges(c)[i].kind = "base" THEN Full(Edges(c)[i].type.leaf)
    ELSE IF Edges(c)[i].kind = "field" /\ Decodes(Edges(c)[i].type)
    THEN {[class |-> c, place |-> Edges(c)[i].place]}
    ELSE {}

\* What its first n edges give it
Given(c, n) == UNION {Part(c, i) : i \in 1..n}

\* s is the end of t
Ends(s, t) ==
    /\ Len(s) <= Len(t)
    /\ \A k \in 1..Len(s) : s[k] = t[Len(t) - Len(s) + k]

\* A call has the parts of the edges it is done with
Halfway(f) ==
    /\ Ends(f.todo, Edges(f.class))
    /\ f.list = Given(f.class, Len(Edges(f.class)) - Len(f.todo))

\* A call that waits is at the edge that leads to the class it waits for
Waits(f, c) == Len(f.todo) # 0 /\ f.todo[1].type.leaf = c

CutsAround(fs, i) == \A c \in fs[i].cuts : \E j \in 1..i : fs[j].class = c

Running(fs) ==
    /\ fs \in Seq(Frame)
    /\ \A i \in 1..Len(fs) : Halfway(fs[i])
    /\ \A i \in 1..Len(fs) : i < Len(fs) => Waits(fs[i], fs[i + 1].class)
    /\ \A i \in 1..Len(fs) : CutsAround(fs, i)

\* The names on the vectors are those of the calls; no vector is empty
Named(fs, vectors) ==
    /\ vectors \in Seq(Seq(Classes))
    /\ \A i \in 1..Len(vectors) : Len(vectors[i]) # 0
    /\ FlattenSeq(vectors) = [i \in 1..Len(fs) |-> fs[i].class]

Kept ==
    /\ resources \in [Classes -> Tree \cup {None}]
    /\ \A c \in Classes : resources[c] # None =>
        resources[c].cuts = {} /\ resources[c].list = Full(c)

Inv ==
    /\ document \in [Classes -> Description]
    /\ pending \in Seq(Classes)
    /\ pc \in {"decoding", "overflow", "null"}
    /\ Len(frames) <= MaxDepth
    /\ Running(frames)
    /\ Named(frames, recursive)
    /\ Kept

-----------------------------------------------------------------------------
\* Sequences

\* The end of a sequence, element by element
LEMMA SuffixIs ==
    ASSUME NEW A, NEW s \in Seq(A), NEW t \in Seq(A), Ends(s, t)
    PROVE  IsSuffix(s, t)
<1> DEFINE u == Reverse(s)
           v == Reverse(t)
<1>1. /\ Len(s) \in Nat /\ Len(t) \in Nat /\ Len(s) <= Len(t)
      /\ \A k \in 1..Len(s) : s[k] = t[Len(t) - Len(s) + k]
      BY DEF Ends
<1>2. /\ u \in Seq(A) /\ Len(u) = Len(s) /\ \A i \in 1..Len(s) : u[i] = s[(Len(s) - i) + 1]
      /\ v \in Seq(A) /\ Len(v) = Len(t) /\ \A i \in 1..Len(t) : v[i] = t[(Len(t) - i) + 1]
      BY <1>1 DEF Reverse
<1>3. ASSUME NEW i \in 1..Len(s) PROVE u[i] = v[i]
  <2> DEFINE k == (Len(s) - i) + 1
  <2>1. k \in 1..Len(s) /\ Len(t) - Len(s) + k = (Len(t) - i) + 1 /\ i \in 1..Len(t)
        BY <1>1
  <2>2. s[k] = t[Len(t) - Len(s) + k]
        BY <1>1, <2>1
  <2> QED BY <1>2, <2>1, <2>2
<1> HIDE DEF u, v
<1>4. SubSeq(u, 1, Len(u)) = SubSeq(v, 1, Len(u))
  <2>1. SubSeq(u, 1, Len(u)) = [i \in 1..Len(u) |-> u[i]]
        BY <1>1, <1>2
  <2>2. SubSeq(v, 1, Len(u)) = [i \in 1..Len(u) |-> v[i]]
        BY <1>1, <1>2
  <2> QED BY <1>2, <1>3, <2>1, <2>2
<1>5. IsPrefix(u, v)
      BY <1>1, <1>2, <1>4 DEF IsPrefix
<1> QED BY <1>5 DEF IsSuffix, u, v

\* A sequence and its last element
LEMMA FrontIs ==
    ASSUME NEW A, NEW s \in Seq(A), Len(s) # 0
    PROVE  /\ Front(s) \in Seq(A) /\ Last(s) \in A /\ s = Append(Front(s), Last(s))
           /\ Len(s) \in Nat /\ Len(Front(s)) = Len(s) - 1 /\ Len(s) \in 1..Len(s)
           /\ \A i \in 1..(Len(s) - 1) : Front(s)[i] = s[i]
<1> DEFINE n == Len(s)
           r == SubSeq(s, 1, n - 1)
<1>1. n \in Nat /\ n \in 1..n /\ s[n] \in A
      OBVIOUS
<1>2. r \in Seq(A) /\ Len(r) = n - 1 /\ \A i \in 1..(n - 1) : r[i] = s[i]
  <2>1. CASE n = 1
    <3>1. r = <<>> /\ Len(r) = 0
          BY <2>1
    <3> QED BY <2>1, <3>1
  <2>2. CASE n # 1
    <3> HIDE DEF n
    <3>1. n - 1 \in 1..n /\ n - 1 \in Nat
          BY <1>1, <2>2
    <3>2. n = Len(s)
          BY DEF n
    <3>3. r = [i \in 1..(n - 1) |-> s[i]]
          BY <3>1, <3>2
    <3> QED BY <3>1, <3>2, <3>3
  <2> QED BY <2>1, <2>2
<1> HIDE DEF r
<1>3. Append(r, s[n]) \in Seq(A) /\ Len(Append(r, s[n])) = n
      BY <1>1, <1>2
<1>4. \A i \in 1..n : Append(r, s[n])[i] = s[i]
      BY <1>1, <1>2
<1>5. s = Append(r, s[n])
      BY <1>1, <1>3, <1>4
<1> QED BY <1>1, <1>2, <1>5 DEF Front, Last, r

LEMMA AppendBehind ==
    ASSUME NEW A, NEW p \in Seq(A), NEW s \in Seq(A), NEW c \in A
    PROVE  p \o Append(s, c) = Append(p \o s, c)
OBVIOUS

\* One name more on the last vector
LEMMA Pushed ==
    ASSUME NEW A, NEW v \in Seq(Seq(A)), Len(v) # 0, NEW c \in A
    PROVE  LET w == Append(Front(v), Append(Last(v), c))
           IN  w \in Seq(Seq(A)) /\ FlattenSeq(w) = Append(FlattenSeq(v), c)
<1> DEFINE q == Front(v)
           s == Last(v)
<1>1. q \in Seq(Seq(A)) /\ s \in Seq(A) /\ v = Append(q, s)
      BY FrontIs
<1> HIDE DEF q, s
<1>2. Append(s, c) \in Seq(A)
      BY <1>1
<1>3. FlattenSeq(Append(q, s)) = FlattenSeq(q) \o s
      BY <1>1, FlattenAppend
<1>4. FlattenSeq(Append(q, Append(s, c))) = FlattenSeq(q) \o Append(s, c)
      BY <1>1, <1>2, FlattenAppend
<1> DEFINE p == FlattenSeq(q)
<1>5. p \in Seq(A)
  <2>1. CASE Len(q) = 0
    <3>1. q = <<>>
          BY <1>1, <2>1
    <3>2. FlattenSeq(q) = <<>>
          BY <3>1 DEF FlattenSeq
    <3> QED BY <3>2
  <2>2. CASE Len(q) # 0
        BY <1>1, <2>2, FlattenIs
  <2> QED BY <2>1, <2>2
<1> HIDE DEF p
<1>6. p \o Append(s, c) = Append(p \o s, c)
  <2>1. s \in Seq(A)
        BY <1>1
  <2> QED BY <1>5, <2>1, AppendBehind
<1>7. Append(q, Append(s, c)) \in Seq(Seq(A))
      BY <1>1, <1>2
<1> QED BY <1>1, <1>3, <1>4, <1>6, <1>7 DEF p, q, s

\* One name less
LEMMA PoppedIs ==
    ASSUME NEW A, NEW v \in Seq(Seq(A)), Len(v) # 0, Len(Last(v)) # 0,
           \A i \in 1..Len(v) : Len(v[i]) # 0
    PROVE  /\ Popped(v) \in Seq(Seq(A))
           /\ FlattenSeq(Popped(v)) = Front(FlattenSeq(v))
           /\ \A i \in 1..Len(Popped(v)) : Len(Popped(v)[i]) # 0
<1> DEFINE q == Front(v)
           s == Last(v)
           r == Front(s)
           x == Last(s)
<1>1. /\ q \in Seq(Seq(A)) /\ s \in Seq(A) /\ v = Append(q, s)
      /\ \A i \in 1..Len(q) : Len(q[i]) # 0
  <2>1. /\ q \in Seq(Seq(A)) /\ s \in Seq(A) /\ v = Append(q, s) /\ Len(v) \in Nat
        /\ Len(q) = Len(v) - 1 /\ \A i \in 1..(Len(v) - 1) : q[i] = v[i]
        BY FrontIs
  <2> HIDE DEF q, s
  <2>2. ASSUME NEW i \in 1..Len(q) PROVE Len(q[i]) # 0
    <3>1. i \in 1..(Len(v) - 1) /\ i \in 1..Len(v)
          BY <2>1
    <3>2. q[i] = v[i]
          BY <2>1, <3>1
    <3> QED BY <3>1, <3>2
  <2> QED BY <2>1, <2>2
<1>2. r \in Seq(A) /\ x \in A /\ s = Append(r, x)
      BY <1>1, FrontIs
<1>3. Popped(v) = IF r = <<>> THEN q ELSE Append(q, r)
      BY DEF Popped
<1> HIDE DEF q, s, r, x
<1> DEFINE p == FlattenSeq(q)
<1>4. FlattenSeq(v) = p \o s
      BY <1>1, FlattenAppend
<1>5. p \in Seq(A)
  <2>1. CASE Len(q) = 0
    <3>1. q = <<>>
          BY <1>1, <2>1
    <3>2. FlattenSeq(q) = <<>>
          BY <3>1 DEF FlattenSeq
    <3> QED BY <3>2
  <2>2. CASE Len(q) # 0
        BY <1>1, <2>2, FlattenIs
  <2> QED BY <2>1, <2>2
<1>6. FlattenSeq(Popped(v)) = p \o r
  <2>1. CASE r = <<>>
    <3>1. p \o r = p
          BY <1>5, <2>1
    <3> QED BY <1>3, <2>1, <3>1
  <2>2. CASE r # <<>>
        BY <1>1, <1>2, <1>3, <2>2, FlattenAppend
  <2> QED BY <2>1, <2>2
<1> HIDE DEF p
<1>7. Front(p \o s) = p \o r
      BY <1>2, <1>5 DEF Front
<1>8. Popped(v) \in Seq(Seq(A)) /\ \A i \in 1..Len(Popped(v)) : Len(Popped(v)[i]) # 0
  <2>1. CASE r = <<>>
        BY <1>1, <1>3, <2>1
  <2>2. CASE r # <<>>
    <3> DEFINE w == Append(q, r)
    <3>1. /\ w \in Seq(Seq(A)) /\ Len(w) = Len(q) + 1 /\ Len(q) \in Nat
          /\ \A i \in 1..Len(q) : w[i] = q[i]
          /\ w[Len(q) + 1] = r
          BY <1>1, <1>2
    <3>2. Popped(v) = w
          BY <1>3, <2>2
    <3>3. Len(r) # 0
          BY <1>2, <2>2
    <3> HIDE DEF w
    <3>4. \A i \in 1..Len(w) : Len(w[i]) # 0
      <4> TAKE i \in 1..Len(w)
      <4>1. CASE i = Len(q) + 1
            BY <3>1, <3>3, <4>1
      <4>2. CASE i # Len(q) + 1
        <5>1. i \in 1..Len(q)
              BY <3>1, <4>2
        <5> QED BY <1>1, <3>1, <5>1
      <4> QED BY <4>1, <4>2
    <3> QED BY <3>1, <3>2, <3>4
  <2> QED BY <2>1, <2>2
<1> QED BY <1>4, <1>6, <1>7, <1>8

-----------------------------------------------------------------------------
\* What a class inherits

LEMMA BasesIn ==
    ASSUME document \in [Classes -> Description], NEW c \in Classes
    PROVE  Range(document[c].bases) \subseteq Classes
BY DEF Description, Range

LEMMA InheritsClosed ==
    ASSUME document \in [Classes -> Description], NEW c \in Classes
    PROVE  c \in Inherits(c) /\ Inherits(c) \subseteq Classes /\ Closed(Inherits(c))
<1>1. c \in Inherits(c) /\ Inherits(c) \subseteq Classes
      BY DEF Inherits
<1>2. ASSUME NEW d \in Inherits(c), NEW b \in Range(document[d].bases) PROVE b \in Inherits(c)
  <2>1. d \in Classes /\ b \in Classes
        BY <1>1, BasesIn
  <2>2. ASSUME NEW S \in SUBSET Classes, c \in S, Closed(S) PROVE b \in S
    <3>1. d \in S
          BY <2>2 DEF Inherits
    <3> QED BY <2>2, <3>1 DEF Closed
  <2> QED BY <2>1, <2>2 DEF Inherits
<1> QED BY <1>1, <1>2 DEF Closed

\* A class inherits itself and what its bases inherit
LEMMA InheritsIs ==
    ASSUME document \in [Classes -> Description], NEW c \in Classes
    PROVE  Inherits(c) = {c} \cup UNION {Inherits(b) : b \in Range(document[c].bases)}
<1> DEFINE T == {c} \cup UNION {Inherits(b) : b \in Range(document[c].bases)}
<1>1. T \subseteq Inherits(c)
  <2>1. c \in Inherits(c)
        BY InheritsClosed
  <2>2. ASSUME NEW b \in Range(document[c].bases), NEW x \in Inherits(b) PROVE x \in Inherits(c)
    <3>1. x \in Classes
          BY DEF Inherits
    <3>2. ASSUME NEW S \in SUBSET Classes, c \in S, Closed(S) PROVE x \in S
      <4>1. b \in S
            BY <3>2 DEF Closed
      <4> QED BY <3>2, <4>1 DEF Inherits
    <3> QED BY <3>1, <3>2 DEF Inherits
  <2> QED BY <2>1, <2>2
<1>2. T \in SUBSET Classes
  <2>1. \A b \in Range(document[c].bases) : Inherits(b) \subseteq Classes
        BY BasesIn, InheritsClosed
  <2> QED BY <2>1
<1>3. Closed(T)
  <2>1. ASSUME NEW d \in T, NEW b \in Range(document[d].bases) PROVE b \in T
    <3>1. CASE d = c
      <4>1. b \in Inherits(b)
            BY <3>1, <2>1, BasesIn, InheritsClosed
      <4> QED BY <3>1, <2>1, <4>1
    <3>2. CASE d # c
      <4>1. PICK a \in Range(document[c].bases) : d \in Inherits(a)
            BY <3>2
      <4>2. Closed(Inherits(a))
            BY <4>1, BasesIn, InheritsClosed
      <4>3. b \in Inherits(a)
            BY <4>1, <4>2, <2>1 DEF Closed
      <4> QED BY <4>1, <4>3
    <3> QED BY <3>1, <3>2
  <2> HIDE DEF T
  <2> QED BY <2>1 DEF Closed
<1>4. c \in T
      OBVIOUS
<1> HIDE DEF T
<1>5. Inherits(c) \subseteq T
      BY <1>2, <1>3, <1>4 DEF Inherits
<1> QED BY <1>1, <1>5 DEF T

LEMMA FullIs ==
    ASSUME document \in [Classes -> Description], NEW c \in Classes
    PROVE  Full(c) = Declared(c) \cup UNION {Full(b) : b \in Range(document[c].bases)}
<1>1. Inherits(c) = {c} \cup UNION {Inherits(b) : b \in Range(document[c].bases)}
      BY InheritsIs
<1> QED BY <1>1 DEF Full

LEMMA FullType ==
    ASSUME document \in [Classes -> Description], NEW c \in Classes
    PROVE  Full(c) \subseteq Field
<1>1. Inherits(c) \subseteq Classes
      BY InheritsClosed
<1>2. ASSUME NEW b \in Classes PROVE Declared(b) \subseteq Field
      BY DEF Declared, Field, Description
<1> QED BY <1>1, <1>2 DEF Full

-----------------------------------------------------------------------------
\* The edges of a class

LEMMA EdgesAre ==
    ASSUME document \in [Classes -> Description], NEW c \in Classes
    PROVE  LET n == Len(document[c].bases)
               m == Len(document[c].members)
           IN  /\ n \in Nat /\ m \in Nat
               /\ Edges(c) \in Seq(Call) /\ Len(Edges(c)) = n + m
               /\ \A i \in 1..n :
                    /\ document[c].bases[i] \in Classes
                    /\ Edges(c)[i].kind = "base"
                    /\ Edges(c)[i].type.leaf = document[c].bases[i]
               /\ \A i \in 1..m :
                    /\ document[c].members[i] \in Member
                    /\ Edges(c)[n + i].kind = document[c].members[i].kind
                    /\ Edges(c)[n + i].type = document[c].members[i].type
                    /\ Edges(c)[n + i].place = i
<1> DEFINE bs == document[c].bases
           ms == document[c].members
           base(b) == [kind |-> "base", place |-> 0, type |-> [leaf |-> b, through |-> {}]]
           member(i) == [kind |-> ms[i].kind, place |-> i, type |-> ms[i].type]
           s == [i \in DOMAIN bs |-> base(bs[i])]
           t == [i \in DOMAIN ms |-> member(i)]
<1>1. /\ bs \in Seq(Classes) /\ ms \in Seq(Member)
      /\ Len(bs) \in Nat /\ Len(ms) \in Nat /\ DOMAIN bs = 1..Len(bs) /\ DOMAIN ms = 1..Len(ms)
      /\ \A i \in 1..Len(bs) : bs[i] \in Classes
      /\ \A i \in 1..Len(ms) : ms[i] \in Member /\ ms[i].kind \in Kinds /\ ms[i].type \in Types
  <2>1. bs \in Seq(Classes) /\ ms \in Seq(Member)
        BY DEF Description
  <2> HIDE DEF bs, ms
  <2>2. /\ Len(bs) \in Nat /\ Len(ms) \in Nat /\ DOMAIN bs = 1..Len(bs) /\ DOMAIN ms = 1..Len(ms)
        /\ \A i \in 1..Len(bs) : bs[i] \in Classes
        /\ \A i \in 1..Len(ms) : ms[i] \in Member
        BY <2>1
  <2>3. \A x \in Member : x.kind \in Kinds /\ x.type \in Types
        BY DEF Member
  <2> QED BY <2>1, <2>2, <2>3
<1>2. Edges(c) = s \o t
      BY DEF Edges
<1> HIDE DEF bs, ms
<1>3. \A b \in Classes : base(b) \in Call
      BY DEF Call, Types
<1>4. \A i \in 1..Len(ms) : member(i) \in Call
      BY <1>1 DEF Call
<1>5. s \in Seq(Call) /\ Len(s) = Len(bs)
      BY <1>1, <1>3
<1>6. t \in Seq(Call) /\ Len(t) = Len(ms)
      BY <1>1, <1>4
<1>7. /\ \A i \in 1..Len(bs) : s[i].kind = "base" /\ s[i].type.leaf = bs[i]
      /\ \A i \in 1..Len(ms) : t[i].kind = ms[i].kind /\ t[i].type = ms[i].type /\ t[i].place = i
      BY <1>1
<1> HIDE DEF s, t, base, member
<1>8. /\ s \o t \in Seq(Call) /\ Len(s \o t) = Len(bs) + Len(ms)
      /\ \A i \in 1..Len(bs) : (s \o t)[i] = s[i]
      /\ \A i \in 1..Len(ms) : (s \o t)[Len(bs) + i] = t[i]
  <2>1. s \o t \in Seq(Call)
        BY <1>5, <1>6
  <2>2. /\ Len(s \o t) = Len(s) + Len(t)
        /\ \A i \in 1..Len(s) : (s \o t)[i] = s[i]
        /\ \A i \in 1..Len(t) : (s \o t)[Len(s) + i] = t[i]
    <3>1. s \in Seq(Call) /\ t \in Seq(Call)
          BY <1>5, <1>6
    <3> QED BY <3>1, JoinedAt
  <2> QED BY <1>5, <1>6, <2>1, <2>2
<1> DEFINE E == Edges(c)
<1>9. /\ E \in Seq(Call) /\ Len(E) = Len(bs) + Len(ms)
      /\ \A i \in 1..Len(bs) : E[i] = s[i]
      /\ \A i \in 1..Len(ms) : E[Len(bs) + i] = t[i]
      BY <1>2, <1>8
<1> HIDE DEF E
<1>10. /\ \A i \in 1..Len(bs) : bs[i] \in Classes /\ E[i].kind = "base" /\ E[i].type.leaf = bs[i]
       /\ \A i \in 1..Len(ms) : /\ ms[i] \in Member
                                 /\ E[Len(bs) + i].kind = ms[i].kind
                                 /\ E[Len(bs) + i].type = ms[i].type
                                 /\ E[Len(bs) + i].place = i
       BY <1>1, <1>7, <1>9
<1> QED BY <1>1, <1>9, <1>10 DEF bs, ms, E

LEMMA EdgesType ==
    ASSUME document \in [Classes -> Description], NEW c \in Classes
    PROVE  Edges(c) \in Seq(Call) /\ Len(Edges(c)) \in Nat
<1>1. Edges(c) \in Seq(Call)
      BY EdgesAre
<1> QED BY <1>1

\* Every edge is a base or a member
LEMMA EdgeIs ==
    ASSUME document \in [Classes -> Description], NEW c \in Classes, NEW k \in 1..Len(Edges(c))
    PROVE  /\ Edges(c)[k] \in Call
           /\ Edges(c)[k].kind = "base" =>
                 Edges(c)[k].type.leaf \in Range(document[c].bases) /\ Edges(c)[k].type.leaf \in Classes
           /\ Edges(c)[k].kind # "base" =>
                 /\ Edges(c)[k].place \in 1..Len(document[c].members)
                 /\ document[c].members[Edges(c)[k].place].kind = Edges(c)[k].kind
                 /\ document[c].members[Edges(c)[k].place].type = Edges(c)[k].type
<1> DEFINE E == Edges(c)
           bs == document[c].bases
           ms == document[c].members
           n == Len(bs)
           m == Len(ms)
<1>1. /\ n \in Nat /\ m \in Nat /\ E \in Seq(Call) /\ Len(E) = n + m
      /\ \A i \in 1..n : bs[i] \in Classes /\ E[i].kind = "base" /\ E[i].type.leaf = bs[i]
      /\ \A i \in 1..m : ms[i] \in Member /\ E[n + i].kind = ms[i].kind
                         /\ E[n + i].type = ms[i].type /\ E[n + i].place = i
      BY EdgesAre
<1>2. bs \in Seq(Classes)
      BY DEF Description
<1> HIDE DEF E, bs, ms
<1>3. k \in 1..(n + m) /\ E[k] \in Call
      BY <1>1 DEF E
<1>4. CASE k \in 1..n
  <2>1. E[k].kind = "base" /\ E[k].type.leaf = bs[k] /\ bs[k] \in Classes
        BY <1>1, <1>4
  <2>2. bs[k] \in Range(bs)
        BY <1>2, <1>4 DEF Range
  <2> QED BY <1>3, <2>1, <2>2 DEF E, bs, ms
<1>5. CASE k \notin 1..n
  <2> DEFINE i == k - n
  <2>1. i \in 1..m /\ n + i = k
        BY <1>1, <1>3, <1>5
  <2> HIDE DEF i
  <2>2. ms[i] \in Member /\ E[k].kind = ms[i].kind /\ E[k].type = ms[i].type /\ E[k].place = i
        BY <1>1, <2>1
  <2>3. E[k].kind # "base"
        BY <2>2 DEF Member, Kinds
  <2> QED BY <1>3, <2>1, <2>2, <2>3 DEF E, bs, ms
<1> QED BY <1>4, <1>5

\* What its edges give a class is all its fields
LEMMA PartsAre ==
    ASSUME document \in [Classes -> Description], NEW c \in Classes
    PROVE  Given(c, Len(Edges(c))) = Full(c)
<1> DEFINE E == Edges(c)
           bs == document[c].bases
           ms == document[c].members
           n == Len(bs)
           m == Len(ms)
<1>1. /\ n \in Nat /\ m \in Nat /\ Len(E) = n + m
      /\ \A i \in 1..n : E[i].kind = "base" /\ E[i].type.leaf = bs[i]
      /\ \A i \in 1..m : ms[i] \in Member /\ E[n + i].kind = ms[i].kind
                         /\ E[n + i].type = ms[i].type /\ E[n + i].place = i
      BY EdgesAre
<1>2. bs \in Seq(Classes) /\ ms \in Seq(Member) /\ DOMAIN bs = 1..n /\ DOMAIN ms = 1..m
      BY DEF Description
<1>3. Full(c) = Declared(c) \cup UNION {Full(b) : b \in Range(bs)}
      BY FullIs
<1>6. (\A i \in 1..n : i \in 1..Len(E)) /\ (\A i \in 1..m : n + i \in 1..Len(E))
  <2> HIDE DEF E, bs, ms
  <2> QED BY <1>1
<1>4. ASSUME NEW i \in 1..Len(E), NEW x \in Part(c, i) PROVE x \in Full(c)
  <2>1. CASE E[i].kind = "base"
    <3>1. E[i].type.leaf \in Range(bs) /\ x \in Full(E[i].type.leaf)
          BY <1>4, <2>1, EdgeIs DEF Part
    <3> QED BY <1>3, <3>1
  <2>2. CASE E[i].kind # "base"
    <3>1. /\ E[i].place \in 1..m /\ ms[E[i].place].kind = E[i].kind /\ ms[E[i].place].type = E[i].type
          /\ E[i].kind = "field" /\ Decodes(E[i].type) /\ x = [class |-> c, place |-> E[i].place]
          BY <1>4, <2>2, EdgeIs DEF Part
    <3>2. x \in Declared(c)
          BY <1>2, <3>1 DEF Declared
    <3> QED BY <1>3, <3>2
  <2> QED BY <2>1, <2>2
<1>5. ASSUME NEW x \in Full(c) PROVE \E i \in 1..Len(E) : x \in Part(c, i)
  <2>1. CASE x \in Declared(c)
    <3>1. PICK i \in 1..m : x = [class |-> c, place |-> i] /\ ms[i].kind = "field" /\ Decodes(ms[i].type)
          BY <1>2, <2>1 DEF Declared
    <3> HIDE DEF E, bs, ms
    <3>2. n + i \in 1..Len(E) /\ E[n + i].kind = "field" /\ E[n + i].type = ms[i].type /\ E[n + i].place = i
          BY <1>1, <1>6, <3>1
    <3>3. x \in Part(c, n + i)
          BY <3>1, <3>2 DEF Part, E, ms
    <3> QED BY <3>2, <3>3
  <2>2. CASE x \notin Declared(c)
    <3>1. PICK b \in Range(bs) : x \in Full(b)
          BY <1>3, <1>5, <2>2
    <3>2. PICK i \in 1..n : b = bs[i]
          BY <1>2, <3>1 DEF Range
    <3> HIDE DEF E, bs, ms
    <3>3. i \in 1..Len(E) /\ E[i].kind = "base" /\ E[i].type.leaf = b
          BY <1>1, <1>6, <3>2
    <3>4. x \in Part(c, i)
          BY <3>1, <3>3 DEF Part, E
    <3> QED BY <3>3, <3>4
  <2> QED BY <2>1, <2>2
<1> QED BY <1>4, <1>5 DEF Given

-----------------------------------------------------------------------------
\* The running calls

\* A call begins: the calls around it wait for it
LEMMA Begins ==
    ASSUME document \in [Classes -> Description], NEW fs, Running(fs), NEW c \in Classes,
           Len(fs) # 0 => Waits(fs[Len(fs)], c),
           NEW g, g = [class |-> c, todo |-> Edges(c), list |-> {}, cuts |-> {}]
    PROVE  Running(Append(fs, g))
<1> DEFINE n == Len(fs)
           gs == Append(fs, g)
<1>1. Edges(c) \in Seq(Call) /\ Len(Edges(c)) \in Nat
      BY EdgesType
<1>2. g \in Frame
      BY <1>1 DEF Frame
<1>3. fs \in Seq(Frame) /\ n \in Nat
      BY DEF Running
<1>4. gs \in Seq(Frame) /\ Len(gs) = n + 1 /\ gs[n + 1] = g /\ \A i \in 1..n : gs[i] = fs[i]
      BY <1>2, <1>3
<1>5. Halfway(g)
  <2>1. 1..(Len(Edges(c)) - Len(Edges(c))) = {}
        BY <1>1
  <2>2. Ends(Edges(c), Edges(c))
        BY <1>1 DEF Ends
  <2>3. Len(Edges(c)) - Len(Edges(c)) = 0 /\ Given(c, 0) = {}
        BY <1>1, <2>1 DEF Given
  <2> QED BY <2>2, <2>3 DEF Halfway
<1> HIDE DEF gs, n
<1>6. ASSUME NEW i \in 1..(n + 1) PROVE Halfway(gs[i])
  <2>1. CASE i = n + 1
        BY <1>4, <1>5, <2>1
  <2>2. CASE i # n + 1
    <3>1. i \in 1..n
          BY <1>3, <2>2
    <3> QED BY <1>4, <3>1 DEF Running, n
  <2> QED BY <2>1, <2>2
<1>7. ASSUME NEW i \in 1..(n + 1), i < n + 1 PROVE Waits(gs[i], gs[i + 1].class)
  <2>1. i \in 1..n /\ gs[i] = fs[i] /\ n # 0
        BY <1>3, <1>4, <1>7
  <2>2. CASE i = n
    <3>1. gs[i + 1].class = c
          BY <1>4, <2>2
    <3> QED BY <2>1, <2>2, <3>1 DEF n
  <2>3. CASE i # n
    <3>1. i + 1 \in 1..n /\ i < n
          BY <1>3, <2>1, <2>3
    <3>2. gs[i + 1] = fs[i + 1]
          BY <1>4, <3>1
    <3> QED BY <2>1, <3>1, <3>2 DEF Running, n
  <2> QED BY <2>2, <2>3
<1>8. ASSUME NEW i \in 1..(n + 1) PROVE CutsAround(gs, i)
  <2>1. CASE i = n + 1
    <3>1. gs[i].cuts = {}
          BY <1>4, <2>1
    <3> QED BY <3>1 DEF CutsAround
  <2>2. CASE i # n + 1
    <3>1. i \in 1..n
          BY <1>3, <2>2
    <3>2. CutsAround(fs, i)
          BY <3>1 DEF Running, n
    <3>3. \A j \in 1..i : gs[j] = fs[j]
          BY <1>3, <1>4, <3>1
    <3> QED BY <3>1, <3>2, <3>3 DEF CutsAround
  <2> QED BY <2>1, <2>2
<1> QED BY <1>4, <1>6, <1>7, <1>8 DEF Running, gs

\* The last call ends, the others still run
LEMMA Ended ==
    ASSUME NEW fs, Running(fs), Len(fs) # 0
    PROVE  Running(Front(fs))
<1> DEFINE n == Len(fs)
           gs == Front(fs)
<1>1. fs \in Seq(Frame)
      BY DEF Running
<1>2. /\ n \in Nat /\ gs \in Seq(Frame) /\ Len(gs) = n - 1
      /\ \A i \in 1..(n - 1) : gs[i] = fs[i]
      BY <1>1, FrontIs
<1> HIDE DEF gs, n
<1>3. ASSUME NEW i \in 1..(n - 1) PROVE Halfway(gs[i]) /\ CutsAround(gs, i)
  <2>1. i \in 1..n /\ gs[i] = fs[i] /\ \A j \in 1..i : gs[j] = fs[j]
        BY <1>2
  <2>2. Halfway(fs[i]) /\ CutsAround(fs, i)
        BY <2>1 DEF Running, n
  <2> QED BY <2>1, <2>2 DEF CutsAround
<1>4. ASSUME NEW i \in 1..(n - 1), i < n - 1 PROVE Waits(gs[i], gs[i + 1].class)
  <2>1. i \in 1..n /\ i < n /\ i + 1 \in 1..(n - 1)
        BY <1>2, <1>4
  <2>2. Waits(fs[i], fs[i + 1].class)
        BY <2>1 DEF Running, n
  <2> QED BY <1>2, <2>1, <2>2
<1> QED BY <1>2, <1>3, <1>4 DEF Running, gs

\* The last call is past its next edge, and has what that edge gave
LEMMA GoesOn ==
    ASSUME document \in [Classes -> Description], NEW fs, Running(fs), Len(fs) # 0,
           NEW f, f = fs[Len(fs)], Len(f.todo) # 0,
           NEW g \in Frame, g.class = f.class, g.todo = Tail(f.todo),
           g.list = f.list \cup Part(f.class, Len(Edges(f.class)) - Len(f.todo) + 1),
           \A c \in g.cuts : c \in f.cuts \/ \E j \in 1..Len(fs) : fs[j].class = c
    PROVE  Running(Append(Front(fs), g))
<1> DEFINE n == Len(fs)
           gs == Append(Front(fs), g)
           E == Edges(f.class)
<1>1. fs \in Seq(Frame) /\ n \in Nat /\ n \in 1..n /\ f \in Frame
      BY DEF Running
<1>2. /\ gs \in Seq(Frame) /\ Len(gs) = n /\ gs[n] = g
      /\ \A i \in 1..(n - 1) : gs[i] = fs[i]
  <2>1. /\ Front(fs) \in Seq(Frame) /\ Len(Front(fs)) = n - 1
        /\ \A i \in 1..(n - 1) : Front(fs)[i] = fs[i]
        BY <1>1, FrontIs
  <2> QED BY <1>1, <2>1
<1> HIDE DEF gs, n
<1>3. f.class \in Classes /\ f.todo \in Seq(Call) /\ E \in Seq(Call) /\ Len(E) \in Nat
  <2>1. f.class \in Classes /\ f.todo \in Seq(Call)
        BY <1>1 DEF Frame
  <2> QED BY <2>1, EdgesType
<1>4. Halfway(f)
      BY <1>1 DEF Running, n
<1>5. Halfway(g)
  <2> DEFINE s == f.todo
             l == Len(s)
             m == Len(E)
             k == m - l
  <2>1. s \in Seq(Call) /\ l \in Nat /\ l # 0 /\ m \in Nat
        BY <1>3
  <2>2. l <= m /\ \A i \in 1..l : s[i] = E[m - l + i]
        BY <1>4 DEF Halfway, Ends
  <2>3. f.list = Given(f.class, k)
        BY <1>4 DEF Halfway
  <2>4. Len(Tail(s)) = l - 1 /\ \A i \in 1..(l - 1) : Tail(s)[i] = s[i + 1]
        BY <2>1
  <2>5. g.todo = Tail(s) /\ g.class = f.class /\ g.list = f.list \cup Part(f.class, k + 1)
        OBVIOUS
  <2> HIDE DEF s, l, m, E, k
  <2>11. k = m - l
        BY DEF k
  <2>6. m - (l - 1) = k + 1 /\ k \in Nat /\ 1..(k + 1) = (1..k) \cup {k + 1} /\ l - 1 <= m
        BY <2>1, <2>2, <2>11
  <2>7. ASSUME NEW i \in 1..(l - 1) PROVE Tail(s)[i] = E[m - (l - 1) + i]
    <3>1. i + 1 \in 1..l /\ m - l + (i + 1) = m - (l - 1) + i
          BY <2>1, <2>2
    <3> QED BY <2>2, <2>4, <3>1
  <2>8. Given(f.class, k + 1) = Given(f.class, k) \cup Part(f.class, k + 1)
        BY <2>6 DEF Given
  <2> DEFINE p == Tail(s)
             q == Len(p)
  <2>9. q = l - 1 /\ g.todo = p
        BY <2>4, <2>5
  <2>10. \A i \in 1..q : p[i] = E[m - q + i]
        BY <2>7, <2>9
  <2> HIDE DEF p
  <2>12. q <= m
        BY <2>6, <2>9
  <2>13. Ends(p, E)
        BY <2>10, <2>12 DEF Ends, m
  <2>14. m - q = k + 1
        BY <2>6, <2>9
  <2> QED BY <2>3, <2>5, <2>8, <2>9, <2>13, <2>14 DEF Halfway, E, m
<1>6. ASSUME NEW i \in 1..n PROVE Halfway(gs[i])
  <2>1. CASE i = n
        BY <1>2, <1>5, <2>1
  <2>2. CASE i # n
    <3>1. i \in 1..(n - 1)
          BY <1>1, <2>2
    <3> QED BY <1>2, <3>1 DEF Running, n
  <2> QED BY <2>1, <2>2
<1>7. \A j \in 1..n : gs[j].class = fs[j].class
  <2> TAKE j \in 1..n
  <2>1. CASE j = n
        BY <1>2, <2>1 DEF n
  <2>2. CASE j # n
    <3>1. j \in 1..(n - 1)
          BY <1>1, <2>2
    <3> QED BY <1>2, <3>1
  <2> QED BY <2>1, <2>2
<1>8. ASSUME NEW i \in 1..n, i < n PROVE Waits(gs[i], gs[i + 1].class)
  <2>1. i \in 1..(n - 1) /\ i + 1 \in 1..n
        BY <1>1, <1>8
  <2>2. Waits(fs[i], fs[i + 1].class)
        BY <1>8 DEF Running, n
  <2> QED BY <1>2, <1>7, <2>1, <2>2
<1>9. ASSUME NEW i \in 1..n PROVE CutsAround(gs, i)
  <2>1. CutsAround(fs, i)
        BY DEF Running, n
  <2>2. \A j \in 1..i : gs[j].class = fs[j].class
        BY <1>1, <1>7
  <2>3. CASE i = n
    <3>1. gs[i] = g /\ fs[i] = f
          BY <1>2, <2>3 DEF n
    <3>2. \A c \in g.cuts : c \in f.cuts \/ \E j \in 1..n : fs[j].class = c
          BY DEF n
    <3> QED BY <2>1, <2>2, <2>3, <3>1, <3>2 DEF CutsAround
  <2>4. CASE i # n
    <3>1. gs[i] = fs[i]
          BY <1>1, <1>2, <2>4
    <3> QED BY <2>1, <2>2, <3>1 DEF CutsAround
  <2> QED BY <2>3, <2>4
<1> QED BY <1>1, <1>2, <1>6, <1>8, <1>9 DEF Running, gs

\* A call that is done has all the fields of its class
LEMMA DoneIs ==
    ASSUME document \in [Classes -> Description], NEW fs, Running(fs), NEW i \in 1..Len(fs),
           fs[i].todo = <<>>
    PROVE  fs[i].list = Full(fs[i].class)
<1>1. Halfway(fs[i]) /\ fs[i].class \in Classes
  <2>1. Halfway(fs[i]) /\ fs[i] \in Frame
        BY DEF Running
  <2> QED BY <2>1 DEF Frame
<1>2. Len(Edges(fs[i].class)) \in Nat
      BY <1>1, EdgesType
<1>3. Len(Edges(fs[i].class)) - Len(fs[i].todo) = Len(Edges(fs[i].class))
      BY <1>2
<1> QED BY <1>1, <1>3, PartsAre DEF Halfway

\* The edge a call is at
LEMMA EdgeAt ==
    ASSUME document \in [Classes -> Description], NEW f \in Frame, Halfway(f), Len(f.todo) # 0
    PROVE  LET k == Len(Edges(f.class)) - Len(f.todo) + 1
           IN  /\ k \in 1..Len(Edges(f.class)) /\ f.todo[1] = Edges(f.class)[k]
               /\ f.todo[1] \in Call
               /\ f.todo[1].kind = "base" => f.todo[1].type.leaf \in Classes
<1> DEFINE s == f.todo
           E == Edges(f.class)
           l == Len(s)
           m == Len(E)
<1>1. f.class \in Classes /\ s \in Seq(Call)
      BY DEF Frame
<1>2. l \in Nat /\ l # 0 /\ E \in Seq(Call) /\ m \in Nat
      BY <1>1, EdgesType
<1>3. l <= m /\ \A i \in 1..l : s[i] = E[m - l + i]
      BY DEF Halfway, Ends
<1> HIDE DEF s, E, l, m
<1>4. m - l + 1 \in 1..m /\ 1 \in 1..l
      BY <1>2, <1>3
<1>5. s[1] = E[m - l + 1]
      BY <1>3, <1>4
<1>6. E[m - l + 1] \in Call /\ (E[m - l + 1].kind = "base" => E[m - l + 1].type.leaf \in Classes)
      BY <1>1, <1>4, EdgeIs DEF E, m
<1> QED BY <1>4, <1>5, <1>6 DEF s, E, l, m

\* A call takes what its edge gave
LEMMA TakesOn ==
    ASSUME document \in [Classes -> Description], NEW fs, Running(fs), Len(fs) # 0,
           NEW f, f = fs[Len(fs)], Len(f.todo) # 0,
           NEW list, f.todo[1].kind = "base" => list = Full(f.todo[1].type.leaf),
           f.todo[1].kind = "field" => Decodes(f.todo[1].type),
           NEW cuts, \A c \in cuts : c \in Classes /\ \E j \in 1..Len(fs) : fs[j].class = c
    PROVE  Running(Append(Front(fs), Took(f, list, cuts)))
<1> DEFINE g == Took(f, list, cuts)
           e == f.todo[1]
           k == Len(Edges(f.class)) - Len(f.todo) + 1
<1>1. f \in Frame /\ Halfway(f)
      BY DEF Running
<1>2. k \in 1..Len(Edges(f.class)) /\ e = Edges(f.class)[k] /\ e \in Call
      /\ (e.kind = "base" => e.type.leaf \in Classes)
      BY <1>1, EdgeAt
<1>3. f.class \in Classes /\ f.todo \in Seq(Call) /\ f.list \subseteq Field /\ f.cuts \subseteq Classes
      BY <1>1 DEF Frame
<1>4. Head(f.todo) = e
      BY <1>3
<1>5. e.kind \in {"base", "field", "return", "argument"}
      BY <1>2 DEF Call, Kinds
<1> DEFINE gains == Gains(f, list)
           more == IF e.kind \in {"base", "field"} THEN cuts ELSE {}
<1>6. gains = Part(f.class, k)
  <2> HIDE DEF k
  <2>1. gains = IF e.kind = "base" THEN list
                ELSE IF e.kind = "field" THEN {[class |-> f.class, place |-> e.place]} ELSE {}
        BY <1>4, <1>5 DEF Gains
  <2>2. Part(f.class, k) = IF e.kind = "base" THEN Full(e.type.leaf)
                           ELSE IF e.kind = "field" /\ Decodes(e.type)
                                THEN {[class |-> f.class, place |-> e.place]} ELSE {}
        BY <1>2 DEF Part
  <2> QED BY <2>1, <2>2
<1>7. Part(f.class, k) \subseteq Field
  <2>1. CASE e.kind = "base"
    <3>1. Part(f.class, k) = Full(e.type.leaf)
          BY <1>2, <2>1 DEF Part
    <3> QED BY <1>2, <2>1, <3>1, FullType
  <2>2. CASE e.kind # "base"
    <3> HIDE DEF e, k
    <3>1. e.place \in 1..Len(document[f.class].members)
          BY <1>2, <1>3, <2>2, EdgeIs
    <3>2. e.place \in Nat \ {0}
          BY <3>1
    <3>3. [class |-> f.class, place |-> e.place] \in Field
          BY <1>3, <3>2 DEF Field
    <3>4. Part(f.class, k) \subseteq {[class |-> f.class, place |-> e.place]}
          BY <1>2, <2>2 DEF Part
    <3> QED BY <3>3, <3>4
  <2> QED BY <2>1, <2>2
<1> HIDE DEF gains, k, e
<1>8. g = [f EXCEPT !.todo = Tail(f.todo), !.list = f.list \cup gains, !.cuts = f.cuts \cup more]
      BY <1>4 DEF Took, gains
<1>9. \A c \in more : c \in Classes /\ \E j \in 1..Len(fs) : fs[j].class = c
      OBVIOUS
<1> HIDE DEF more, g
<1>10. Tail(f.todo) \in Seq(Call)
       BY <1>3
<1>11. g = [class |-> f.class, todo |-> Tail(f.todo), list |-> f.list \cup gains, cuts |-> f.cuts \cup more]
       BY <1>1, <1>8 DEF Frame
<1>12. g \in Frame
       BY <1>3, <1>6, <1>7, <1>9, <1>10, <1>11 DEF Frame
<1>13. /\ g.class = f.class /\ g.todo = Tail(f.todo)
       /\ g.list = f.list \cup Part(f.class, Len(Edges(f.class)) - Len(f.todo) + 1)
       /\ \A c \in g.cuts : c \in f.cuts \/ \E j \in 1..Len(fs) : fs[j].class = c
       BY <1>6, <1>9, <1>11 DEF k
<1>14. Running(Append(Front(fs), g))
       BY <1>12, <1>13, GoesOn
<1> QED BY <1>14 DEF g

\* A call passes over an edge that gives nothing
LEMMA SkipsOn ==
    ASSUME document \in [Classes -> Description], NEW fs, Running(fs), Len(fs) # 0,
           NEW f, f = fs[Len(fs)], Len(f.todo) # 0,
           f.todo[1].type.leaf \notin Classes, ~Decodes(f.todo[1].type)
    PROVE  Running(Append(Front(fs), [f EXCEPT !.todo = Tail(f.todo)]))
<1> DEFINE g == [f EXCEPT !.todo = Tail(f.todo)]
           k == Len(Edges(f.class)) - Len(f.todo) + 1
<1>1. f \in Frame /\ Halfway(f)
      BY DEF Running
<1>2. f.todo[1] = Edges(f.class)[k] /\ (f.todo[1].kind = "base" => f.todo[1].type.leaf \in Classes)
      BY <1>1, EdgeAt
<1>3. Part(f.class, k) = {}
      BY <1>2 DEF Part
<1>4. f.todo \in Seq(Call) /\ Tail(f.todo) \in Seq(Call)
  <2>1. f.todo \in Seq(Call)
        BY <1>1 DEF Frame
  <2> QED BY <2>1
<1>5. g \in Frame /\ g.class = f.class /\ g.todo = Tail(f.todo) /\ g.list = f.list /\ g.cuts = f.cuts
      BY <1>1, <1>4 DEF Frame
<1> HIDE DEF g
<1>6. g.list = f.list \cup Part(f.class, Len(Edges(f.class)) - Len(f.todo) + 1)
      BY <1>3, <1>5
<1>7. Running(Append(Front(fs), g))
      BY <1>5, <1>6, GoesOn
<1> QED BY <1>7 DEF g

-----------------------------------------------------------------------------
\* The vectors

\* Names depend on the classes of the calls only
LEMMA NamesKept ==
    ASSUME NEW fs, NEW gs, NEW vectors, Named(fs, vectors), Len(gs) = Len(fs),
           \A i \in 1..Len(fs) : gs[i].class = fs[i].class
    PROVE  Named(gs, vectors)
<1>1. [i \in 1..Len(gs) |-> gs[i].class] = [i \in 1..Len(fs) |-> fs[i].class]
      OBVIOUS
<1> QED BY <1>1 DEF Named

\* While a call runs there is a vector, and the names on the last are of calls that run
LEMMA OnVector ==
    ASSUME NEW fs \in Seq(Frame), NEW vectors, Named(fs, vectors), Len(fs) # 0
    PROVE  /\ Len(vectors) # 0 /\ Len(Last(vectors)) # 0
           /\ \A c \in Range(Last(vectors)) : \E j \in 1..Len(fs) : fs[j].class = c
<1> DEFINE classes == [i \in 1..Len(fs) |-> fs[i].class]
           l == Len(vectors)
<1>1. /\ vectors \in Seq(Seq(Classes)) /\ FlattenSeq(vectors) = classes
      /\ \A i \in 1..l : Len(vectors[i]) # 0
      /\ Len(classes) = Len(fs) /\ \A i \in 1..Len(fs) : classes[i] = fs[i].class
      BY DEF Named
<1> HIDE DEF classes
<1>2. l # 0
  <2>1. SUFFICES ASSUME l = 0 PROVE FALSE
        OBVIOUS
  <2>2. vectors = <<>>
        BY <1>1, <2>1
  <2>3. FlattenSeq(vectors) = <<>>
        BY <2>2 DEF FlattenSeq
  <2>4. Len(classes) = 0
        BY <1>1, <2>3
  <2> QED BY <1>1, <2>4
<1>3. l \in 1..l /\ vectors[l] \in Seq(Classes)
      BY <1>1, <1>2
<1>4. ASSUME NEW c \in Range(vectors[l]) PROVE \E j \in 1..Len(fs) : fs[j].class = c
  <2>1. PICK i \in 1..Len(vectors[l]) : vectors[l][i] = c
        BY <1>3 DEF Range
  <2>2. PICK j \in 1..Len(classes) : classes[j] = vectors[l][i]
        BY <1>1, <1>2, <1>3, FlattenIs
  <2> QED BY <1>1, <2>1, <2>2
<1> QED BY <1>1, <1>2, <1>3, <1>4 DEF Last

-----------------------------------------------------------------------------
\* The document stays as it is

LEMMA SameDocument ==
    ASSUME document' = document
    PROVE  /\ \A c : Edges(c)' = Edges(c) /\ Full(c)' = Full(c)
           /\ \A fs : Running(fs)' <=> Running(fs)
<1>1. \A c : Edges(c)' = Edges(c)
      BY DEF Edges
<1>2. \A c : Full(c)' = Full(c)
  <2>1. \A c : Declared(c)' = Declared(c)
        BY DEF Declared
  <2>2. \A S : Closed(S)' <=> Closed(S)
        BY DEF Closed
  <2>3. \A c : Inherits(c)' = Inherits(c)
        BY <2>2 DEF Inherits
  <2> QED BY <2>1, <2>3 DEF Full
<1>3. \A c, i : Part(c, i)' = Part(c, i)
      BY <1>1, <1>2 DEF Part
<1>4. \A c, n : Given(c, n)' = Given(c, n)
      BY <1>3 DEF Given
<1>5. \A f : Halfway(f)' <=> Halfway(f)
      BY <1>1, <1>4 DEF Halfway, Ends
<1>6. \A fs : Running(fs)' <=> Running(fs)
      BY <1>5 DEF Running, Waits, CutsAround
<1> QED BY <1>1, <1>2, <1>6

LEMMA RunsOn ==
    ASSUME document' = document, NEW gs, Running(gs), frames' = gs
    PROVE  Running(frames)'
<1>1. Running(gs)'
      BY SameDocument
<1> QED BY <1>1

LEMMA KeptOn ==
    ASSUME document' = document, resources' = resources, Kept
    PROVE  Kept'
<1>1. \A c : Full(c)' = Full(c)
      BY SameDocument
<1> QED BY <1>1 DEF Kept

-----------------------------------------------------------------------------
\* The steps

\* What a step does to the calls and their vectors
Calling == Running(frames) /\ Named(frames, recursive) /\ Len(frames) <= MaxDepth

LEMMA ClassesOf ==
    ASSUME NEW fs \in Seq(Frame), NEW s, s = [i \in 1..Len(fs) |-> fs[i].class]
    PROVE  s \in Seq(Classes) /\ Len(s) = Len(fs) /\ \A i \in 1..Len(fs) : s[i] = fs[i].class
<1>1. \A f \in Frame : f.class \in Classes
      BY DEF Frame
<1>2. \A i \in 1..Len(fs) : fs[i] \in Frame
      OBVIOUS
<1>3. Len(fs) \in Nat
      OBVIOUS
<1> QED BY <1>1, <1>2, <1>3

LEMMA EnterStep ==
    ASSUME Inv, document' = document, NEW c \in Classes,
           Len(frames) # 0 => Waits(frames[Len(frames)], c),
           NEW vectors \in Seq(Seq(Classes)), Len(vectors) # 0,
           \A i \in 1..(Len(vectors) - 1) : Len(vectors[i]) # 0,
           FlattenSeq(vectors) = [i \in 1..Len(frames) |-> frames[i].class],
           Enter(c, vectors)
    PROVE  Calling' /\ pc' \in {"decoding", "overflow", "null"}
<1>1. CASE Len(frames) = MaxDepth
  <2>1. pc' = "overflow" /\ frames' = frames /\ recursive' = recursive
        BY <1>1 DEF Enter
  <2>2. Running(frames)'
        BY <2>1, RunsOn DEF Inv
  <2>3. Named(frames, recursive)' /\ Len(frames') <= MaxDepth
        BY <2>1 DEF Inv, Named
  <2> QED BY <2>1, <2>2, <2>3 DEF Calling
<1>2. CASE Len(frames) # MaxDepth
  <2> DEFINE n == Len(frames)
             g == [class |-> c, todo |-> Edges(c), list |-> {}, cuts |-> {}]
             gs == Append(frames, g)
             w == Append(Front(vectors), Append(Last(vectors), c))
  <2>1. pc' = pc /\ frames' = gs /\ recursive' = w
        BY <1>2 DEF Enter
  <2>2. Running(gs)
    <3>1. document \in [Classes -> Description] /\ Running(frames)
          BY DEF Inv
    <3> QED BY <3>1, Begins
  <2>3. frames \in Seq(Frame) /\ n \in Nat /\ gs \in Seq(Frame)
        BY <2>2 DEF Inv, Running
  <2>4. Len(gs) = n + 1 /\ gs[n + 1].class = c /\ \A i \in 1..n : gs[i] = frames[i]
        BY <2>3
  <2> HIDE DEF g, gs
  <2>5. w \in Seq(Seq(Classes)) /\ FlattenSeq(w) = Append(FlattenSeq(vectors), c)
        BY Pushed
  <2>6. FlattenSeq(w) = [i \in 1..Len(gs) |-> gs[i].class]
    <3> DEFINE classes == [i \in 1..n |-> frames[i].class]
               more == [i \in 1..(n + 1) |-> gs[i].class]
    <3>1. classes \in Seq(Classes) /\ Len(classes) = n /\ \A i \in 1..n : classes[i] = frames[i].class
          BY <2>3, ClassesOf
    <3>2. more \in Seq(Classes) /\ Len(more) = n + 1 /\ \A i \in 1..(n + 1) : more[i] = gs[i].class
      <4>1. more = [i \in 1..Len(gs) |-> gs[i].class]
            BY <2>4
      <4> HIDE DEF more
      <4> QED BY <2>3, <2>4, <4>1, ClassesOf
    <3>3. FlattenSeq(vectors) = classes
          OBVIOUS
    <3> HIDE DEF classes, more, n
    <3>4. /\ Append(classes, c) \in Seq(Classes) /\ Len(Append(classes, c)) = n + 1
          /\ \A i \in 1..n : Append(classes, c)[i] = classes[i]
          /\ Append(classes, c)[n + 1] = c
          BY <2>3, <3>1
    <3>5. \A i \in 1..(n + 1) : Append(classes, c)[i] = more[i]
      <4> TAKE i \in 1..(n + 1)
      <4>1. CASE i = n + 1
            BY <2>4, <3>2, <3>4, <4>1
      <4>2. CASE i # n + 1
        <5>1. i \in 1..n
              BY <2>3, <4>2
        <5>2. Append(classes, c)[i] = classes[i] /\ classes[i] = frames[i].class
              BY <3>1, <3>4, <5>1
        <5>3. more[i] = gs[i].class /\ gs[i] = frames[i]
              BY <2>4, <3>2, <5>1
        <5> QED BY <5>2, <5>3
      <4> QED BY <4>1, <4>2
    <3>6. Append(classes, c) = more
          BY <2>3, <3>2, <3>4, <3>5
    <3> QED BY <2>4, <2>5, <3>3, <3>6 DEF more
  <2>7. \A i \in 1..Len(w) : Len(w[i]) # 0
    <3> DEFINE q == Front(vectors)
               x == Append(Last(vectors), c)
    <3>1. /\ q \in Seq(Seq(Classes)) /\ Len(q) = Len(vectors) - 1 /\ Len(vectors) \in Nat
          /\ Last(vectors) \in Seq(Classes)
          /\ \A i \in 1..(Len(vectors) - 1) : q[i] = vectors[i]
          BY FrontIs
    <3>2. x \in Seq(Classes) /\ Len(x) # 0
          BY <3>1
    <3> HIDE DEF q, x
    <3>3. Len(Append(q, x)) = Len(vectors) /\ Append(q, x)[Len(vectors)] = x
          /\ \A i \in 1..(Len(vectors) - 1) : Append(q, x)[i] = q[i]
          BY <3>1, <3>2
    <3>4. \A i \in 1..Len(Append(q, x)) : Len(Append(q, x)[i]) # 0
      <4> TAKE i \in 1..Len(Append(q, x))
      <4>1. CASE i = Len(vectors)
            BY <3>2, <3>3, <4>1
      <4>2. CASE i # Len(vectors)
        <5>1. i \in 1..(Len(vectors) - 1)
              BY <3>1, <3>3, <4>2
        <5> QED BY <3>1, <3>3, <5>1
      <4> QED BY <4>1, <4>2
    <3> QED BY <3>4 DEF q, x
  <2> HIDE DEF w
  <2>8. Running(frames)'
        BY <2>1, <2>2, RunsOn
  <2>9. Named(gs, w)
        BY <2>5, <2>6, <2>7 DEF Named
  <2>10. Named(frames, recursive)'
        BY <2>1, <2>9 DEF Named
  <2>11. Len(frames') <= MaxDepth
        BY <1>2, <2>1, <2>3, <2>4, DepthAssumption DEF Inv
  <2> QED BY <2>1, <2>8, <2>10, <2>11 DEF Calling, Inv
<1> QED BY <1>1, <1>2

\* The last call goes on, its class the same
LEMMA GoStep ==
    ASSUME Inv, document' = document, Len(frames) # 0, recursive' = recursive, pc' = pc,
           NEW g, g.class = frames[Len(frames)].class, frames' = Append(Front(frames), g),
           Running(Append(Front(frames), g))
    PROVE  Calling' /\ pc' \in {"decoding", "overflow", "null"}
<1> DEFINE n == Len(frames)
           gs == Append(Front(frames), g)
<1>1. frames \in Seq(Frame) /\ n \in Nat /\ gs \in Seq(Frame)
      BY DEF Inv, Running
<1>2. Len(gs) = n /\ \A i \in 1..n : gs[i].class = frames[i].class
  <2> DEFINE q == Front(frames)
  <2>1. /\ q \in Seq(Frame) /\ Len(q) = n - 1 /\ \A i \in 1..(n - 1) : q[i] = frames[i]
        BY <1>1, FrontIs
  <2> HIDE DEF q
  <2>2. /\ Len(Append(q, g)) = n /\ Append(q, g)[n] = g
        /\ \A i \in 1..(n - 1) : Append(q, g)[i] = q[i]
        BY <1>1, <2>1
  <2>3. \A i \in 1..n : Append(q, g)[i].class = frames[i].class
    <3> TAKE i \in 1..n
    <3>1. CASE i = n
          BY <2>2, <3>1
    <3>2. CASE i # n
      <4>1. i \in 1..(n - 1)
            BY <1>1, <3>2
      <4> QED BY <2>1, <2>2, <4>1
    <3> QED BY <3>1, <3>2
  <2> QED BY <2>2, <2>3 DEF q
<1> HIDE DEF gs
<1>3. Running(frames)'
      BY RunsOn DEF gs
<1>4. Named(gs, recursive)
      BY <1>2, NamesKept DEF Inv
<1>5. Named(frames, recursive)'
      BY <1>4 DEF Named, gs
<1>6. Len(frames') <= MaxDepth
      BY <1>2 DEF Inv, gs
<1> QED BY <1>3, <1>5, <1>6 DEF Calling, Inv

\* The call the steps are about
LEMMA TopIs ==
    ASSUME Inv, frames # <<>>
    PROVE  /\ document \in [Classes -> Description] /\ Running(frames)
           /\ frames \in Seq(Frame) /\ Len(frames) \in Nat /\ Len(frames) # 0
           /\ Len(frames) \in 1..Len(frames)
           /\ Top = frames[Len(frames)] /\ Top \in Frame /\ Halfway(Top)
           /\ Len(Top.todo) \in Nat /\ (Top.todo # <<>> <=> Len(Top.todo) # 0)
<1>1. document \in [Classes -> Description] /\ Running(frames) /\ frames \in Seq(Frame)
      BY DEF Inv, Running
<1>2. Len(frames) \in Nat /\ Len(frames) # 0 /\ Len(frames) \in 1..Len(frames)
      BY <1>1
<1>3. Top = frames[Len(frames)] /\ Top \in Frame
      BY <1>1, <1>2 DEF Top, Last
<1>4. Halfway(Top)
      BY <1>1, <1>2, <1>3 DEF Running
<1>5. Top.todo \in Seq(Call)
      BY <1>3 DEF Frame
<1>6. Len(Top.todo) \in Nat /\ (Top.todo # <<>> <=> Len(Top.todo) # 0)
      BY <1>5
<1> QED BY <1>1, <1>2, <1>3, <1>4, <1>6

\* The edge the steps are at
LEMMA EdgeTop ==
    ASSUME Inv, AtEdge
    PROVE  /\ frames # <<>> /\ Len(Top.todo) # 0
           /\ Edge = Top.todo[1] /\ Leaf = Top.todo[1].type.leaf
           /\ Edge.kind = "base" => Leaf \in Classes
<1>1. frames # <<>> /\ Top.todo # <<>>
      BY DEF AtEdge
<1>2. /\ document \in [Classes -> Description] /\ Top \in Frame /\ Halfway(Top)
      /\ Len(Top.todo) # 0
      BY <1>1, TopIs
<1>3. Top.todo \in Seq(Call)
      BY <1>2 DEF Frame
<1>4. Edge = Top.todo[1]
      BY <1>2, <1>3 DEF Edge
<1>5. Edge.kind = "base" => Edge.type.leaf \in Classes
      BY <1>2, <1>4, EdgeAt
<1> QED BY <1>1, <1>2, <1>4, <1>5 DEF Leaf

\* A step that takes what its edge gives
LEMMA TakeStep ==
    ASSUME Inv, AtEdge, document' = document, NEW list, NEW cuts, Take(list, cuts),
           Edge.kind = "base" => list = Full(Leaf),
           Edge.kind = "field" => Decodes(Edge.type),
           \A c \in cuts : c \in Classes /\ \E j \in 1..Len(frames) : frames[j].class = c
    PROVE  Calling' /\ pc' \in {"decoding", "overflow", "null"}
<1> DEFINE f == Top
           g == Took(Top, list, cuts)
<1>1. /\ document \in [Classes -> Description] /\ Running(frames) /\ Len(frames) # 0
      /\ f = frames[Len(frames)] /\ f \in Frame /\ Len(f.todo) # 0
      /\ Edge = f.todo[1] /\ Leaf = f.todo[1].type.leaf
      BY TopIs, EdgeTop
<1>2. /\ f.todo[1].kind = "base" => list = Full(f.todo[1].type.leaf)
      /\ f.todo[1].kind = "field" => Decodes(f.todo[1].type)
      BY <1>1
<1>3. g = Took(f, list, cuts)
      OBVIOUS
<1>4. frames' = Append(Front(frames), g) /\ recursive' = recursive /\ pc' = pc
      BY DEF Take
<1> HIDE DEF f, g
<1>5. Running(Append(Front(frames), Took(f, list, cuts)))
      BY <1>1, <1>2, TakesOn
<1>6. g.class = f.class
      BY <1>1, <1>3 DEF Took, Frame
<1> QED BY <1>1, <1>3, <1>4, <1>5, <1>6, GoStep

\* A step that leaves the calls alone
LEMMA StillStep ==
    ASSUME Inv, document' = document, frames' = frames, recursive' = recursive
    PROVE  Calling'
<1>1. Running(frames)'
      BY RunsOn DEF Inv
<1>2. Named(frames, recursive)' /\ Len(frames') <= MaxDepth
      BY DEF Inv, Named
<1> QED BY <1>1, <1>2 DEF Calling

PcNext == pc' \in {"decoding", "overflow", "null"}

LEMMA RecordStep == ASSUME Inv, Record PROVE Calling' /\ PcNext
<1> DEFINE v == <<<<>>>>
           c == Head(pending)
<1>1. document' = document /\ frames = <<>> /\ pending # <<>> /\ Enter(c, v)
      BY DEF Record
<1>2. c \in Classes
      BY <1>1 DEF Inv
<1>3. v \in Seq(Seq(Classes)) /\ Len(v) = 1
  <2>1. <<>> \in Seq(Classes)
        OBVIOUS
  <2> QED BY <2>1
<1>4. FlattenSeq(v) = <<>>
  <2>1. FlattenSeq(<<>>) = <<>>
        BY DEF FlattenSeq
  <2>2. <<>> \in Seq(Classes) /\ <<>> \in Seq(Seq(Classes)) /\ v = Append(<<>>, <<>>)
        OBVIOUS
  <2>3. FlattenSeq(Append(<<>>, <<>>)) = FlattenSeq(<<>>) \o <<>>
        BY <2>2, FlattenAppend
  <2>4. <<>> \o <<>> = <<>>
        OBVIOUS
  <2> QED BY <2>1, <2>2, <2>3, <2>4
<1>5. [i \in 1..Len(frames) |-> frames[i].class] = <<>> /\ Len(frames) = 0
      BY <1>1
<1> HIDE DEF v, c
<1>6. \A i \in 1..(Len(v) - 1) : Len(v[i]) # 0
      BY <1>3
<1>7. FlattenSeq(v) = [i \in 1..Len(frames) |-> frames[i].class] /\ Len(v) # 0
      BY <1>3, <1>4, <1>5
<1>8. Len(frames) # 0 => Waits(frames[Len(frames)], c)
      BY <1>5
<1> QED BY <1>1, <1>2, <1>3, <1>6, <1>7, <1>8, EnterStep DEF PcNext

LEMMA CachedStep == ASSUME Inv, Cached PROVE Calling' /\ PcNext
<1>1. AtEdge /\ Leaf \in Classes /\ resources[Leaf] # None
      BY DEF Cached
<1>2. CASE NullDereference
  <2>1. Calling'
        BY <1>2, StillStep DEF NullDereference
  <2> QED BY <1>2, <2>1 DEF NullDereference, PcNext
<1>3. CASE Take(resources[Leaf].list, resources[Leaf].cuts)
  <2>1. resources[Leaf].cuts = {} /\ resources[Leaf].list = Full(Leaf)
        BY <1>1 DEF Inv, Kept
  <2>2. Decodes(Edge.type)
        BY <1>1, LeafAssumption DEF Decodes, Leaf
  <2>3. document' = document
        BY <1>3 DEF Take
  <2> QED BY <1>1, <1>3, <2>1, <2>2, <2>3, TakeStep DEF PcNext
<1> QED BY <1>2, <1>3 DEF Cached

LEMMA RecursiveStep == ASSUME Inv, Recursive PROVE Calling' /\ PcNext
<1>1. /\ AtEdge /\ Edge.kind # "base" /\ Leaf \in Classes /\ Leaf \in Range(Last(recursive))
      /\ Take({}, {Leaf})
      BY DEF Recursive
<1>2. document' = document
      BY <1>1 DEF Take
<1>3. Decodes(Edge.type)
      BY <1>1, LeafAssumption DEF Decodes, Leaf
<1>4. frames \in Seq(Frame) /\ Len(frames) # 0 /\ Named(frames, recursive)
  <2>1. frames # <<>>
        BY <1>1 DEF AtEdge
  <2> QED BY <2>1, TopIs DEF Inv
<1>5. \E j \in 1..Len(frames) : frames[j].class = Leaf
      BY <1>1, <1>4, OnVector
<1>6. \A c \in {Leaf} : c \in Classes /\ \E j \in 1..Len(frames) : frames[j].class = c
      BY <1>1, <1>5
<1> QED BY <1>1, <1>2, <1>3, <1>6, TakeStep DEF PcNext

LEMMA EnterBaseStep == ASSUME Inv, EnterBase PROVE Calling' /\ PcNext
<1> DEFINE v == Append(recursive, <<>>)
           l == Len(recursive)
<1>1. AtEdge /\ Edge.kind = "base" /\ document' = document /\ Enter(Leaf, v)
      BY DEF EnterBase
<1>2. Leaf \in Classes /\ Waits(frames[Len(frames)], Leaf)
  <2>1. frames # <<>> /\ Len(Top.todo) # 0 /\ Leaf = Top.todo[1].type.leaf /\ Leaf \in Classes
        BY <1>1, EdgeTop
  <2>2. Top = frames[Len(frames)]
        BY <2>1, TopIs
  <2> QED BY <2>1, <2>2 DEF Waits
<1>3. /\ recursive \in Seq(Seq(Classes)) /\ \A i \in 1..l : Len(recursive[i]) # 0
      /\ FlattenSeq(recursive) = [i \in 1..Len(frames) |-> frames[i].class]
      BY DEF Inv, Named
<1>4. frames \in Seq(Frame)
      BY DEF Inv, Running
<1>5. <<>> \in Seq(Classes)
      OBVIOUS
<1>6. v \in Seq(Seq(Classes)) /\ Len(v) = l + 1 /\ l \in Nat /\ \A i \in 1..l : v[i] = recursive[i]
      BY <1>3, <1>5
<1>7. FlattenSeq(v) = FlattenSeq(recursive) \o <<>>
      BY <1>3, <1>5, FlattenAppend
<1>8. FlattenSeq(v) = [i \in 1..Len(frames) |-> frames[i].class]
  <2> DEFINE s == [i \in 1..Len(frames) |-> frames[i].class]
  <2>1. s \in Seq(Classes)
        BY <1>4, ClassesOf
  <2>2. FlattenSeq(recursive) = s
        BY <1>3
  <2> HIDE DEF s
  <2>3. s \o <<>> = s
        BY <2>1
  <2>4. FlattenSeq(v) = s
        BY <1>7, <2>2, <2>3
  <2> QED BY <2>4 DEF s
<1> HIDE DEF v
<1>9. Len(v) # 0 /\ \A i \in 1..(Len(v) - 1) : Len(v[i]) # 0
      BY <1>3, <1>6
<1> QED BY <1>1, <1>2, <1>6, <1>8, <1>9, EnterStep DEF PcNext

LEMMA EnterMemberStep == ASSUME Inv, EnterMember PROVE Calling' /\ PcNext
<1>1. AtEdge /\ Leaf \in Classes /\ document' = document /\ Enter(Leaf, recursive)
      BY DEF EnterMember
<1>2. frames # <<>> /\ Waits(frames[Len(frames)], Leaf)
  <2>1. frames # <<>> /\ Len(Top.todo) # 0 /\ Leaf = Top.todo[1].type.leaf
        BY <1>1, EdgeTop
  <2>2. Top = frames[Len(frames)]
        BY <2>1, TopIs
  <2> QED BY <2>1, <2>2 DEF Waits
<1>3. /\ recursive \in Seq(Seq(Classes)) /\ \A i \in 1..Len(recursive) : Len(recursive[i]) # 0
      /\ FlattenSeq(recursive) = [i \in 1..Len(frames) |-> frames[i].class]
      BY DEF Inv, Named
<1>4. Len(recursive) # 0
  <2>1. frames \in Seq(Frame) /\ Len(frames) # 0 /\ Named(frames, recursive)
        BY <1>2, TopIs DEF Inv
  <2> QED BY <2>1, OnVector
<1>5. \A i \in 1..(Len(recursive) - 1) : Len(recursive[i]) # 0
      BY <1>3
<1> QED BY <1>1, <1>2, <1>3, <1>4, <1>5, EnterStep DEF PcNext

LEMMA TakeOtherStep == ASSUME Inv, TakeOther PROVE Calling' /\ PcNext
<1>1. AtEdge /\ Leaf \notin Classes
      BY DEF TakeOther
<1>2. Edge.kind # "base"
      BY <1>1, EdgeTop
<1>3. CASE Decodes(Edge.type)
  <2>1. Take({}, {})
        BY <1>3 DEF TakeOther
  <2>2. document' = document
        BY <2>1 DEF Take
  <2>3. \A c \in {} : c \in Classes /\ \E j \in 1..Len(frames) : frames[j].class = c
        OBVIOUS
  <2> QED BY <1>1, <1>2, <1>3, <2>1, <2>2, <2>3, TakeStep DEF PcNext
<1>4. CASE ~Decodes(Edge.type) /\ Edge.kind = "argument"
  <2>1. NullDereference
        BY <1>4 DEF TakeOther
  <2>2. Calling'
        BY <2>1, StillStep DEF NullDereference
  <2> QED BY <2>1, <2>2 DEF NullDereference, PcNext
<1>5. CASE ~Decodes(Edge.type) /\ Edge.kind # "argument"
  <2> DEFINE f == Top
             g == [f EXCEPT !.todo = Tail(f.todo)]
  <2>1. Skip
        BY <1>5 DEF TakeOther
  <2>2. frames' = Append(Front(frames), g) /\ document' = document /\ recursive' = recursive /\ pc' = pc
        BY <2>1 DEF Skip
  <2>3. /\ document \in [Classes -> Description] /\ Running(frames) /\ Len(frames) # 0
        /\ f = frames[Len(frames)] /\ f \in Frame /\ Len(f.todo) # 0
        /\ Edge = f.todo[1] /\ Leaf = f.todo[1].type.leaf
        BY <1>1, TopIs, EdgeTop
  <2> HIDE DEF f
  <2>4. Running(Append(Front(frames), g))
        BY <1>1, <1>5, <2>3, SkipsOn
  <2>5. g.class = f.class
        BY <2>3 DEF Frame
  <2> HIDE DEF g
  <2> QED BY <2>2, <2>3, <2>4, <2>5, GoStep DEF PcNext
<1> QED BY <1>3, <1>4, <1>5

\* The vectors when the last call has returned
LEMMA PopStep ==
    ASSUME NEW fs \in Seq(Frame), NEW v, Named(fs, v), Len(fs) # 0
    PROVE  Named(Front(fs), Popped(v))
<1> DEFINE s == [i \in 1..Len(fs) |-> fs[i].class]
           gs == Front(fs)
           t == [i \in 1..Len(gs) |-> gs[i].class]
<1>1. /\ v \in Seq(Seq(Classes)) /\ FlattenSeq(v) = s /\ \A i \in 1..Len(v) : Len(v[i]) # 0
      BY DEF Named
<1>2. /\ s \in Seq(Classes) /\ Len(s) = Len(fs) /\ \A i \in 1..Len(fs) : s[i] = fs[i].class
      BY ClassesOf
<1>3. /\ gs \in Seq(Frame) /\ Len(gs) = Len(fs) - 1 /\ Len(fs) \in Nat
      /\ \A i \in 1..(Len(fs) - 1) : gs[i] = fs[i]
      BY FrontIs
<1> HIDE DEF gs, s
<1>4. /\ t \in Seq(Classes) /\ Len(t) = Len(gs) /\ \A i \in 1..Len(gs) : t[i] = gs[i].class
      BY <1>3, ClassesOf
<1> HIDE DEF t
<1>5. /\ Front(s) \in Seq(Classes) /\ Len(Front(s)) = Len(s) - 1
      /\ \A i \in 1..(Len(s) - 1) : Front(s)[i] = s[i]
      BY <1>2, FrontIs
<1>6. \A i \in 1..Len(t) : Front(s)[i] = t[i]
  <2> TAKE i \in 1..Len(t)
  <2>1. i \in 1..(Len(s) - 1) /\ i \in 1..Len(gs) /\ i \in 1..Len(fs) /\ i \in 1..(Len(fs) - 1)
        BY <1>2, <1>3, <1>4
  <2>2. Front(s)[i] = s[i] /\ s[i] = fs[i].class
        BY <1>2, <1>5, <2>1
  <2>3. t[i] = gs[i].class /\ gs[i] = fs[i]
        BY <1>3, <1>4, <2>1
  <2> QED BY <2>2, <2>3
<1>7. Front(s) = t
      BY <1>2, <1>3, <1>4, <1>5, <1>6
<1>8. Len(v) # 0 /\ Len(Last(v)) # 0
      BY OnVector
<1>9. /\ Popped(v) \in Seq(Seq(Classes)) /\ FlattenSeq(Popped(v)) = Front(FlattenSeq(v))
      /\ \A i \in 1..Len(Popped(v)) : Len(Popped(v)[i]) # 0
      BY <1>1, <1>8, PoppedIs
<1>10. FlattenSeq(Popped(v)) = t
       BY <1>1, <1>7, <1>9
<1> QED BY <1>9, <1>10 DEF Named, t, gs

\* A call that returns: what it has cut and is not closed by it was cut at the calls around
LEMMA EndIs ==
    ASSUME Inv, AtEnd
    PROVE  /\ Top.class \in Classes /\ Top.list = Full(Top.class) /\ Top.list \subseteq Field
           /\ \A c \in Open : c \in Classes /\ \E j \in 1..(Len(frames) - 1) : frames[j].class = c
<1> DEFINE n == Len(frames)
<1>1. frames # <<>> /\ Top.todo = <<>>
      BY DEF AtEnd
<1>2. /\ document \in [Classes -> Description] /\ Running(frames) /\ n \in Nat /\ n \in 1..n
      /\ Top = frames[n] /\ Top \in Frame
      BY <1>1, TopIs
<1>3. Top.list = Full(Top.class)
      BY <1>1, <1>2, DoneIs
<1>4. CutsAround(frames, n)
      BY <1>2 DEF Running
<1>5. Top.class \in Classes /\ Top.list \subseteq Field /\ Top.cuts \subseteq Classes
      BY <1>2 DEF Frame
<1>6. ASSUME NEW c \in Open PROVE c \in Classes /\ \E j \in 1..(n - 1) : frames[j].class = c
  <2>1. c \in Top.cuts /\ c # Top.class
        BY DEF Open
  <2>2. PICK j \in 1..n : frames[j].class = c
        BY <1>2, <1>4, <2>1 DEF CutsAround
  <2>3. j # n
        BY <1>2, <2>1, <2>2
  <2>4. j \in 1..(n - 1)
        BY <1>2, <2>3
  <2> QED BY <1>5, <2>1, <2>2, <2>4
<1> QED BY <1>3, <1>5, <1>6

LEMMA StoreStep == ASSUME Inv, Store PROVE Calling' /\ PcNext /\ Kept'
<1>1. /\ AtEnd /\ Len(frames) = 1 /\ frames' = <<>> /\ recursive' = Popped(recursive)
      /\ document' = document /\ pc' = pc
      /\ resources' = [resources EXCEPT ![Top.class] = [list |-> Top.list, cuts |-> Open]]
      BY DEF Store
<1>2. frames \in Seq(Frame) /\ Named(frames, recursive)
      BY DEF Inv, Running
<1>3. Front(frames) = <<>>
      BY <1>1, <1>2 DEF Front
<1>4. Named(frames', recursive')
  <2>1. Named(Front(frames), Popped(recursive))
        BY <1>1, <1>2, PopStep
  <2> QED BY <1>1, <1>3, <2>1
<1>5. Calling'
  <2>1. Running(<<>>)
        BY DEF Running
  <2>2. Running(frames)'
        BY <1>1, <2>1, RunsOn
  <2>3. Len(frames') <= MaxDepth
        BY <1>1, DepthAssumption
  <2> QED BY <1>4, <2>2, <2>3 DEF Calling, Named
<1>6. Kept'
  <2> DEFINE tree == [list |-> Top.list, cuts |-> Open]
             c == Top.class
  <2>1. c \in Classes /\ Top.list = Full(c) /\ Top.list \subseteq Field
        BY <1>1, EndIs
  <2>2. Open = {}
    <3>1. \A x \in Open : \E j \in 1..(Len(frames) - 1) : frames[j].class = x
          BY <1>1, EndIs
    <3>2. 1..(Len(frames) - 1) = {}
          BY <1>1
    <3> QED BY <3>1, <3>2
  <2>3. tree \in Tree /\ tree.cuts = {} /\ tree.list = Full(c)
        BY <2>1, <2>2 DEF Tree
  <2>4. resources' = [resources EXCEPT ![c] = tree]
        BY <1>1
  <2> HIDE DEF tree, c
  <2>5. \A d : Full(d)' = Full(d)
        BY <1>1, SameDocument
  <2>6. /\ resources \in [Classes -> Tree \cup {None}]
        /\ \A d \in Classes : resources[d] # None =>
              resources[d].cuts = {} /\ resources[d].list = Full(d)
        BY DEF Inv, Kept
  <2>7. resources' \in [Classes -> Tree \cup {None}]
        BY <2>1, <2>3, <2>4, <2>6
  <2>8. ASSUME NEW d \in Classes, resources'[d] # None
        PROVE  resources'[d].cuts = {} /\ resources'[d].list = Full(d)
    <3>1. CASE d = c
          BY <2>3, <2>4, <2>6, <3>1
    <3>2. CASE d # c
      <4>1. resources'[d] = resources[d]
            BY <2>4, <2>6, <3>2
      <4> QED BY <2>6, <2>8, <4>1
    <3> QED BY <3>1, <3>2
  <2> QED BY <2>5, <2>7, <2>8 DEF Kept
<1> QED BY <1>1, <1>5, <1>6 DEF PcNext, Inv

LEMMA LeaveStep == ASSUME Inv, Leave PROVE Calling' /\ PcNext
<1> DEFINE n == Len(frames)
           outer == Front(frames)
           caller == Last(outer)
           g == Took(caller, Top.list, Open)
<1>1. AtEnd /\ n > 1 /\ frames # <<>>
      BY DEF Leave, AtEnd
<1>2. CASE NullDereference
  <2>1. Calling'
        BY <1>2, StillStep DEF NullDereference
  <2> QED BY <1>2, <2>1 DEF NullDereference, PcNext
<1>3. CASE /\ frames' = Append(Front(outer), g) /\ recursive' = Popped(recursive)
           /\ UNCHANGED <<document, pending, resources, pc>>
  <2>1. /\ document \in [Classes -> Description] /\ Running(frames) /\ frames \in Seq(Frame)
        /\ n \in Nat /\ Top = frames[n]
        BY <1>1, TopIs
  <2>2. /\ outer \in Seq(Frame) /\ Len(outer) = n - 1 /\ \A i \in 1..(n - 1) : outer[i] = frames[i]
        BY <1>1, <2>1, FrontIs
  <2>3. Running(outer)
        BY <1>1, <2>1, Ended
  <2>4. Named(outer, recursive')
        BY <1>1, <1>3, <2>1, PopStep DEF Inv
  <2> HIDE DEF outer
  <2>5. Len(outer) # 0 /\ caller = outer[Len(outer)] /\ n - 1 \in 1..(n - 1) /\ n - 1 \in 1..n
        BY <1>1, <2>1, <2>2 DEF Last
  <2>6. caller = frames[n - 1] /\ caller \in Frame
        BY <2>1, <2>2, <2>5
  <2> HIDE DEF caller
  <2>7. Waits(caller, Top.class)
    <3>1. Waits(frames[n - 1], frames[(n - 1) + 1].class)
          BY <2>1, <2>5 DEF Running
    <3>2. (n - 1) + 1 = n
          BY <2>1
    <3> QED BY <2>1, <2>6, <3>1, <3>2
  <2>8. /\ Top.class \in Classes /\ Top.list = Full(Top.class)
        /\ \A c \in Open : c \in Classes /\ \E j \in 1..(n - 1) : frames[j].class = c
        BY <1>1, EndIs
  <2>9. /\ caller.todo[1].kind = "base" => Top.list = Full(caller.todo[1].type.leaf)
        /\ caller.todo[1].kind = "field" => Decodes(caller.todo[1].type)
        /\ Len(caller.todo) # 0
    <3>1. caller.todo[1].type.leaf = Top.class /\ Len(caller.todo) # 0
          BY <2>7 DEF Waits
    <3>2. Decodes(caller.todo[1].type)
          BY <2>8, <3>1, LeafAssumption DEF Decodes
    <3> QED BY <2>8, <3>1, <3>2
  <2>10. \A c \in Open : c \in Classes /\ \E j \in 1..Len(outer) : outer[j].class = c
         BY <2>2, <2>8
  <2>11. Running(Append(Front(outer), g))
         BY <2>1, <2>3, <2>5, <2>9, <2>10, TakesOn
  <2>12. g.class = caller.class
         BY <2>6 DEF Took, Frame
  <2> HIDE DEF g
  <2> DEFINE gs == Append(Front(outer), g)
  <2>13. gs \in Seq(Frame) /\ Len(gs) = Len(outer) /\ \A i \in 1..Len(outer) : gs[i].class = outer[i].class
    <3> DEFINE q == Front(outer)
               m == Len(outer)
    <3>1. q \in Seq(Frame) /\ Len(q) = m - 1 /\ m \in Nat /\ \A i \in 1..(m - 1) : q[i] = outer[i]
          BY <2>2, <2>5, FrontIs
    <3>2. gs \in Seq(Frame)
          BY <2>11 DEF Running
    <3> HIDE DEF q, m
    <3>3. Len(Append(q, g)) = m /\ Append(q, g)[m] = g /\ \A i \in 1..(m - 1) : Append(q, g)[i] = q[i]
          BY <3>1
    <3>4. \A i \in 1..m : Append(q, g)[i].class = outer[i].class
      <4> TAKE i \in 1..m
      <4>1. CASE i = m
            BY <2>5, <2>12, <3>3, <4>1 DEF m
      <4>2. CASE i # m
        <5>1. i \in 1..(m - 1)
              BY <3>1, <4>2
        <5> QED BY <3>1, <3>3, <5>1
      <4> QED BY <4>1, <4>2
    <3> QED BY <3>2, <3>3, <3>4 DEF q, m
  <2>14. frames' = gs
         BY <1>3
  <2> HIDE DEF gs
  <2>15. Named(gs, recursive')
    <3> \A v : Named(outer, v) => Named(gs, v)
        BY <2>13, NamesKept
    <3> QED BY <2>4
  <2>16. Named(frames, recursive)'
         BY <2>14, <2>15 DEF Named
  <2>17. Running(frames)'
         BY <1>3, <2>11, <2>14, RunsOn DEF gs
  <2>18. Len(frames') <= MaxDepth
         BY <2>1, <2>2, <2>13, <2>14, DepthAssumption DEF Inv
  <2> QED BY <1>3, <2>16, <2>17, <2>18 DEF Calling, PcNext, Inv
<1> QED BY <1>2, <1>3 DEF Leave

-----------------------------------------------------------------------------
\* The theorems

LEMMA InvInit == Init => Inv
<1> SUFFICES ASSUME Init PROVE Inv
    OBVIOUS
<1>1. document \in [Classes -> Description] /\ pending \in Seq(Classes)
      BY DocumentsAssumption, OrderAssumption DEF Init
<1>2. frames = <<>> /\ recursive = <<>> /\ pc = "decoding" /\ resources = [c \in Classes |-> None]
      BY DEF Init
<1>3. Running(frames)
      BY <1>2 DEF Running
<1>4. Named(frames, recursive)
  <2>1. FlattenSeq(<<>>) = <<>>
        BY DEF FlattenSeq
  <2>2. [i \in 1..Len(frames) |-> frames[i].class] = <<>>
        BY <1>2
  <2>3. <<>> \in Seq(Seq(Classes)) /\ Len(<<>>) = 0
        OBVIOUS
  <2>4. FlattenSeq(recursive) = [i \in 1..Len(frames) |-> frames[i].class]
        BY <1>2, <2>1, <2>2
  <2>5. recursive \in Seq(Seq(Classes)) /\ \A i \in 1..Len(recursive) : Len(recursive[i]) # 0
        BY <1>2, <2>3
  <2> QED BY <2>4, <2>5 DEF Named
<1>5. Kept
      BY <1>2 DEF Kept
<1>6. Len(frames) <= MaxDepth
      BY <1>2, DepthAssumption
<1> QED BY <1>1, <1>2, <1>3, <1>4, <1>5, <1>6 DEF Inv

LEMMA InvStep == Inv /\ [Next]_vars => Inv'
<1> SUFFICES ASSUME Inv, [Next]_vars PROVE Inv'
    OBVIOUS
<1>1. ASSUME document' = document, pending' = pending, resources' = resources, Calling', PcNext
      PROVE  Inv'
  <2>1. Kept'
        BY <1>1, KeptOn DEF Inv
  <2> QED BY <1>1, <2>1 DEF Inv, Calling, PcNext
<1>2. CASE Record
  <2>1. /\ document' = document /\ resources' = resources /\ pending # <<>>
        /\ pending' = Tail(pending)
        BY <1>2 DEF Record
  <2>2. pending' \in Seq(Classes)
        BY <2>1 DEF Inv
  <2>3. Calling' /\ PcNext
        BY <1>2, RecordStep
  <2>4. Kept'
        BY <2>1, KeptOn DEF Inv
  <2> QED BY <2>1, <2>2, <2>3, <2>4 DEF Inv, Calling, PcNext
<1>3. CASE Cached
  <2>1. document' = document /\ pending' = pending /\ resources' = resources
        BY <1>3 DEF Cached, NullDereference, Take
  <2> QED BY <1>1, <1>3, <2>1, CachedStep
<1>4. CASE Recursive
  <2>1. document' = document /\ pending' = pending /\ resources' = resources
        BY <1>4 DEF Recursive, Take
  <2> QED BY <1>1, <1>4, <2>1, RecursiveStep
<1>5. CASE EnterBase
  <2>1. document' = document /\ pending' = pending /\ resources' = resources
        BY <1>5 DEF EnterBase
  <2> QED BY <1>1, <1>5, <2>1, EnterBaseStep
<1>6. CASE EnterMember
  <2>1. document' = document /\ pending' = pending /\ resources' = resources
        BY <1>6 DEF EnterMember
  <2> QED BY <1>1, <1>6, <2>1, EnterMemberStep
<1>7. CASE TakeOther
  <2>1. document' = document /\ pending' = pending /\ resources' = resources
        BY <1>7 DEF TakeOther, NullDereference, Take, Skip
  <2> QED BY <1>1, <1>7, <2>1, TakeOtherStep
<1>8. CASE Store
  <2>1. document' = document /\ pending' = pending
        BY <1>8 DEF Store
  <2>2. Calling' /\ PcNext /\ Kept'
        BY <1>8, StoreStep
  <2> QED BY <2>1, <2>2 DEF Inv, Calling, PcNext
<1>9. CASE Leave
  <2>1. document' = document /\ pending' = pending /\ resources' = resources
        BY <1>9 DEF Leave, NullDereference
  <2> QED BY <1>1, <1>9, <2>1, LeaveStep
<1>10. CASE UNCHANGED vars
  <2>1. /\ document' = document /\ pending' = pending /\ resources' = resources
        /\ frames' = frames /\ recursive' = recursive /\ pc' = pc
        BY <1>10 DEF vars
  <2>2. Calling'
        BY <2>1, StillStep
  <2>3. PcNext
        BY <2>1 DEF PcNext, Inv
  <2> QED BY <1>1, <2>1, <2>2, <2>3
<1> QED BY <1>2, <1>3, <1>4, <1>5, <1>6, <1>7, <1>8, <1>9, <1>10 DEF Next

LEMMA Invariant == Spec => []Inv
BY InvInit, InvStep, PTL DEF Spec

(* Types are kept, each call is at an end of the edges of its class, and   *)
(* the vectors of names hold exactly the calls that run: every return of   *)
(* decodeClassOrStruct pops the name its beginning pushed, whichever       *)
(* vector it went on.                                                      *)
THEOREM TypeCorrect == Spec => []TypeOK
<1>1. ASSUME Inv PROVE TypeOK
  <2>1. /\ frames \in Seq(Frame) /\ DOMAIN frames = 1..Len(frames)
        BY <1>1 DEF Inv, Running
  <2>2. ASSUME NEW i \in 1..Len(frames) PROVE IsSuffix(frames[i].todo, Edges(frames[i].class))
    <3> DEFINE f == frames[i]
    <3>1. f.todo \in Seq(Call) /\ f.class \in Classes
      <4>1. f \in Frame
            BY <2>1
      <4> QED BY <4>1 DEF Frame
    <3>2. Edges(f.class) \in Seq(Call)
          BY <1>1, <3>1, EdgesType DEF Inv
    <3>3. Ends(f.todo, Edges(f.class))
          BY <1>1 DEF Inv, Running, Halfway
    <3> QED BY <3>1, <3>2, <3>3, SuffixIs
  <2>3. FlattenSeq(recursive) = [i \in DOMAIN frames |-> frames[i].class]
        BY <1>1, <2>1 DEF Inv, Named
  <2> QED BY <1>1, <2>1, <2>2, <2>3 DEF TypeOK, Inv, Named, Kept
<1> QED BY <1>1, Invariant, PTL

(* No tree that recordStructures keeps has a cut left in it, and a call    *)
(* cuts at the calls around it only (haveRecursion, decodeClassOrStruct).  *)
THEOREM CutsStayInside == Spec => []CutsClosed
<1>1. ASSUME Inv PROVE CutsClosed
  <2>1. \A c \in Classes : resources[c] # None => resources[c].cuts = {}
        BY <1>1 DEF Inv, Kept
  <2>2. ASSUME NEW i \in DOMAIN frames, NEW c \in frames[i].cuts
        PROVE  c \in {frames[j].class : j \in 1..i}
    <3>1. i \in 1..Len(frames)
          BY <1>1 DEF Inv, Running
    <3>2. CutsAround(frames, i)
          BY <1>1, <3>1 DEF Inv, Running
    <3> QED BY <3>2 DEF CutsAround
  <2> QED BY <2>1, <2>2 DEF CutsClosed
<1> QED BY <1>1, Invariant, PTL

(* A class that recordStructures keeps has the fields it declares and all  *)
(* it inherits, however its decoding was cut into pieces by the recursion, *)
(* and whatever was taken from _resources (decodeClassOrStruct).           *)
THEOREM AllFields == Spec => []ListsComplete
<1>1. ASSUME Inv PROVE ListsComplete
      BY <1>1 DEF Inv, Kept, ListsComplete, Full
<1> QED BY <1>1, Invariant, PTL

-----------------------------------------------------------------------------
\* What cannot be decoded to the end

\* A class with a base that leads back to it
Bad(c) == \E b \in Range(document[c].bases) : c \in LeadsTo(b)

\* Nothing bad is met from a class on, short of the classes W
ClearBy(S, W) == \A b \in S : ~Bad(b) /\ Parts(b) \subseteq S \cup W

Clear(c, W) == c \in W \/ \E S \in SUBSET Classes : c \in S /\ ClearBy(S, W)

\* An edge for which no null is dereferenced
Sound(e) ==
    /\ ~(e.kind = "argument" /\ ~Decodes(e.type))
    /\ ~(e.kind = "base" /\ document[e.type.leaf].extended)

\* An edge that is done, where W are the names on the vector
Passed(e, W) ==
    /\ Sound(e)
    /\ e.type.leaf \in Classes =>
        IF e.kind = "base" THEN Clear(e.type.leaf, {}) ELSE Clear(e.type.leaf, W)

\* The classes of the calls on one vector with the i-th: no base in between
Hops(fs, j, i) == \A k \in j..(i - 1) : fs[k].todo[1].kind # "base"
Around(fs, i) == {fs[j].class : j \in {j \in 1..i : Hops(fs, j, i)}}

PassedBy(fs, i) ==
    \A k \in 1..(Len(Edges(fs[i].class)) - Len(fs[i].todo)) :
        Passed(Edges(fs[i].class)[k], Around(fs, i))

\* The vectors, each with the call it begins at: that of a base, but for the first
Laid(fs, v, start) ==
    /\ start \in [1..Len(v) -> 1..Len(fs)]
    /\ \A m \in 1..Len(v) :
        start[m] + Len(v[m]) = IF m = Len(v) THEN Len(fs) + 1 ELSE start[m + 1]
    /\ \A m \in 1..Len(v) : \A k \in 1..Len(v[m]) :
        /\ v[m][k] = fs[start[m] + k - 1].class
        /\ k < Len(v[m]) => fs[start[m] + k - 1].todo[1].kind # "base"
    /\ \A m \in 1..Len(v) : start[m] # 1 => fs[start[m] - 1].todo[1].kind = "base"

Stored(c) ==
    /\ Clear(c, {})
    /\ \A k \in 1..Len(Edges(c)) : Sound(Edges(c)[k])

Recorded(c) ==
    \/ c \in Range(pending)
    \/ resources[c] # None
    \/ frames # <<>> /\ frames[1].class = c

Going(fs, v) ==
    /\ \E start \in [1..Len(v) -> 1..Len(fs)] : Laid(fs, v, start)
    /\ \A i \in 1..Len(fs) : PassedBy(fs, i)

ClearInv ==
    /\ Inv
    /\ Going(frames, recursive)
    /\ \A c \in Classes : resources[c] # None => Stored(c)
    /\ pc = "decoding" => \A c \in Classes : Recorded(c)

\* Beyond more classes, less is met
LEMMA ClearMore ==
    ASSUME NEW c, NEW W, NEW U, W \subseteq U, Clear(c, W)
    PROVE  Clear(c, U)
<1>1. CASE c \in W
      BY <1>1 DEF Clear
<1>2. ASSUME NEW S \in SUBSET Classes, c \in S, ClearBy(S, W) PROVE Clear(c, U)
  <2>1. ClearBy(S, U)
        BY <1>2 DEF ClearBy
  <2> QED BY <1>2, <2>1 DEF Clear
<1> QED BY <1>1, <1>2 DEF Clear

\* A class all of whose edges are done
LEMMA ClearOf ==
    ASSUME document \in [Classes -> Description], NEW x \in Classes, NEW V \in SUBSET Classes,
           NEW W, W = V \cup {x}, \A k \in 1..Len(Edges(x)) : Passed(Edges(x)[k], W)
    PROVE  Clear(x, V)
<1> DEFINE Sub == {S \in SUBSET Classes : ClearBy(S, W)}
           T == {x} \cup UNION Sub
<1>1. T \in SUBSET Classes /\ x \in T
      OBVIOUS
<1>2. ASSUME NEW y \in Parts(x) PROVE y \in T \cup V
  <2>1. PICK e \in Range(Edges(x)) : y = e.type.leaf /\ y \in Classes
        BY DEF Parts
  <2>2. PICK k \in 1..Len(Edges(x)) : e = Edges(x)[k]
    <3>1. Edges(x) \in Seq(Call)
          BY EdgesType
    <3> QED BY <2>1, <3>1 DEF Range
  <2>3. Clear(y, {}) \/ Clear(y, W)
        BY <2>1, <2>2 DEF Passed
  <2>4. Clear(y, W)
        BY <2>3, ClearMore
  <2>5. CASE y \in W
        BY <2>5
  <2>6. ASSUME NEW S \in SUBSET Classes, y \in S, ClearBy(S, W) PROVE y \in T
        BY <2>6
  <2> QED BY <2>4, <2>5, <2>6 DEF Clear
<1>3. ~Bad(x)
  <2>1. SUFFICES ASSUME Bad(x) PROVE FALSE
        OBVIOUS
  <2>2. PICK b \in Range(document[x].bases) : x \in LeadsTo(b)
        BY <2>1 DEF Bad
  <2>3. PICK k \in 1..Len(Edges(x)) : Edges(x)[k].kind = "base" /\ Edges(x)[k].type.leaf = b
    <3>1. document[x].bases \in Seq(Classes)
          BY DEF Description
    <3>2. PICK i \in 1..Len(document[x].bases) : document[x].bases[i] = b
          BY <2>2, <3>1 DEF Range
    <3>3. /\ Edges(x)[i].kind = "base" /\ Edges(x)[i].type.leaf = b
          /\ Len(document[x].members) \in Nat /\ Len(document[x].bases) \in Nat
          /\ Len(Edges(x)) = Len(document[x].bases) + Len(document[x].members)
          BY <3>2, EdgesAre
    <3> DEFINE n == Len(document[x].bases)
               m == Len(document[x].members)
    <3>4. i \in 1..n /\ n \in Nat /\ m \in Nat /\ Len(Edges(x)) = n + m
          BY <3>3
    <3> HIDE DEF n, m
    <3>5. i \in 1..Len(Edges(x))
          BY <3>4
    <3> QED BY <3>3, <3>5
  <2>4. b \in Classes
        BY <2>2, BasesIn
  <2>5. Clear(b, {})
        BY <2>3, <2>4 DEF Passed
  <2>6. PICK S \in SUBSET Classes : b \in S /\ ClearBy(S, {})
        BY <2>5 DEF Clear
  <2>7. x \in S
        BY <2>2, <2>6 DEF LeadsTo, ClearBy
  <2> QED BY <2>1, <2>6, <2>7 DEF ClearBy
<1>4. ASSUME NEW b \in T PROVE ~Bad(b) /\ Parts(b) \subseteq T \cup V
  <2>1. CASE b = x
        BY <1>2, <1>3, <2>1
  <2>2. ASSUME NEW S \in Sub, b \in S PROVE ~Bad(b) /\ Parts(b) \subseteq T \cup V
    <3>1. ~Bad(b) /\ Parts(b) \subseteq S \cup W
          BY <2>2 DEF ClearBy
    <3>2. S \subseteq T
          OBVIOUS
    <3> QED BY <1>1, <3>1, <3>2
  <2> QED BY <2>1, <2>2
<1> HIDE DEF T
<1>5. ClearBy(T, V)
      BY <1>4 DEF ClearBy
<1> QED BY <1>1, <1>5 DEF Clear

\* The document stays as it is
LEMMA SameClear ==
    ASSUME document' = document
    PROVE  /\ \A e, W : Passed(e, W)' <=> Passed(e, W)
           /\ \A fs, i : PassedBy(fs, i)' <=> PassedBy(fs, i)
           /\ \A c : Stored(c)' <=> Stored(c)
<1>1. \A c : Edges(c)' = Edges(c)
      BY SameDocument
<1>2. \A c : Parts(c)' = Parts(c)
      BY <1>1 DEF Parts
<1>3. \A c : LeadsTo(c)' = LeadsTo(c)
      BY <1>2 DEF LeadsTo
<1>4. \A c : Bad(c)' <=> Bad(c)
      BY <1>3 DEF Bad
<1>5. \A S, W : ClearBy(S, W)' <=> ClearBy(S, W)
      BY <1>2, <1>4 DEF ClearBy
<1>6. \A c, W : Clear(c, W)' <=> Clear(c, W)
      BY <1>5 DEF Clear
<1>7. \A e : Sound(e)' <=> Sound(e)
      BY DEF Sound
<1>8. \A e, W : Passed(e, W)' <=> Passed(e, W)
      BY <1>6, <1>7 DEF Passed
<1>9. \A fs, i : PassedBy(fs, i)' <=> PassedBy(fs, i)
      BY <1>1, <1>8 DEF PassedBy, Around, Hops
<1>10. \A c : Stored(c)' <=> Stored(c)
       BY <1>1, <1>6, <1>7 DEF Stored
<1> QED BY <1>8, <1>9, <1>10

-----------------------------------------------------------------------------
\* The calls on one vector

\* They depend on the calls before the last of them, and its class
LEMMA AroundSame ==
    ASSUME NEW fs, NEW gs, NEW i \in Nat, gs[i].class = fs[i].class,
           \A j \in 1..(i - 1) : gs[j] = fs[j]
    PROVE  Around(gs, i) = Around(fs, i)
<1>1. \A j \in 1..i : Hops(gs, j, i) <=> Hops(fs, j, i)
  <2> SUFFICES ASSUME NEW j \in 1..i PROVE Hops(gs, j, i) <=> Hops(fs, j, i)
      OBVIOUS
  <2>1. \A k \in j..(i - 1) : k \in 1..(i - 1)
        OBVIOUS
  <2> QED BY <2>1 DEF Hops
<1>2. \A j \in 1..i : gs[j].class = fs[j].class
  <2> TAKE j \in 1..i
  <2>1. CASE j = i
        BY <2>1
  <2>2. CASE j # i
    <3>1. j \in 1..(i - 1)
          BY <2>2
    <3> QED BY <3>1
  <2> QED BY <2>1, <2>2
<1> QED BY <1>1, <1>2 DEF Around

\* The call itself and, unless it is that of a base, those with the call around it
LEMMA AroundIs ==
    ASSUME NEW fs, NEW n \in Nat, n > 1
    PROVE  Around(fs, n) \subseteq {fs[n].class} \cup
              (IF fs[n - 1].todo[1].kind = "base" THEN {} ELSE Around(fs, n - 1))
<1> SUFFICES ASSUME NEW j \in 1..n, Hops(fs, j, n), j # n
             PROVE  fs[n - 1].todo[1].kind # "base" /\ fs[j].class \in Around(fs, n - 1)
    BY DEF Around
<1>1. j \in 1..(n - 1) /\ n - 1 \in j..(n - 1) /\ n - 1 \in Nat
      OBVIOUS
<1>2. fs[n - 1].todo[1].kind # "base"
      BY <1>1 DEF Hops
<1>3. Hops(fs, j, n - 1)
  <2>1. \A k \in j..((n - 1) - 1) : k \in j..(n - 1)
        OBVIOUS
  <2> QED BY <2>1 DEF Hops
<1> QED BY <1>1, <1>2, <1>3 DEF Around

LEMMA AroundFirst == ASSUME NEW fs PROVE Around(fs, 1) = {fs[1].class}
<1>1. 1..1 = {1} /\ Hops(fs, 1, 1)
      BY DEF Hops
<1> QED BY <1>1 DEF Around

\* The names of the last vector are of calls on it
LEMMA LaidIn ==
    ASSUME NEW fs \in Seq(Frame), NEW v \in Seq(Seq(Classes)), NEW start, Laid(fs, v, start),
           Len(v) # 0, NEW c \in Range(Last(v))
    PROVE  c \in Around(fs, Len(fs))
<1> DEFINE l == Len(v)
           n == Len(fs)
           s == v[l]
           b == start[l]
<1>1. l \in 1..l /\ n \in Nat /\ s \in Seq(Classes) /\ b \in 1..n /\ Last(v) = s
  <2>1. l \in 1..l /\ n \in Nat /\ Last(v) = s
        BY DEF Last
  <2>2. s \in Seq(Classes)
        BY <2>1
  <2>3. start \in [1..l -> 1..n]
        BY DEF Laid
  <2> QED BY <2>1, <2>2, <2>3
<1>2. b + Len(s) = n + 1 /\ \A k \in 1..Len(s) : /\ s[k] = fs[b + k - 1].class
                                                 /\ k < Len(s) => fs[b + k - 1].todo[1].kind # "base"
  <2>1. b + Len(s) = n + 1
        BY <1>1 DEF Laid
  <2>2. \A k \in 1..Len(s) : /\ s[k] = fs[b + k - 1].class
                             /\ k < Len(s) => fs[b + k - 1].todo[1].kind # "base"
    <3> HIDE DEF l
    <3> QED BY <1>1 DEF Laid, l
  <2> QED BY <2>1, <2>2
<1> HIDE DEF s, b, l, n
<1>3. PICK k \in 1..Len(s) : s[k] = c
      BY <1>1 DEF Range
<1>4. b + k - 1 \in 1..n /\ Len(s) \in Nat
      BY <1>1, <1>2
<1>5. Hops(fs, b + k - 1, n)
  <2>1. ASSUME NEW j \in (b + k - 1)..(n - 1) PROVE fs[j].todo[1].kind # "base"
    <3>1. j - b + 1 \in 1..Len(s) /\ j - b + 1 < Len(s) /\ b + (j - b + 1) - 1 = j
          BY <1>1, <1>2, <1>4
    <3> QED BY <1>2, <3>1
  <2> QED BY <2>1 DEF Hops
<1> QED BY <1>2, <1>3, <1>4, <1>5 DEF Around, n

\* A call on a vector of its own
LEMMA LaidBase ==
    ASSUME NEW fs \in Seq(Frame), NEW v \in Seq(Seq(Classes)), NEW start, Laid(fs, v, start),
           Len(fs) # 0 => fs[Len(fs)].todo[1].kind = "base", NEW g \in Frame
    PROVE  \E st : Laid(Append(fs, g), Append(v, <<g.class>>), st)
<1> DEFINE n == Len(fs)
           l == Len(v)
           gs == Append(fs, g)
           u == <<g.class>>
           w == Append(v, u)
           st == [m \in 1..(l + 1) |-> IF m = l + 1 THEN n + 1 ELSE start[m]]
<1>1. /\ n \in Nat /\ l \in Nat /\ g.class \in Classes
      /\ Len(gs) = n + 1 /\ gs[n + 1] = g /\ \A i \in 1..n : gs[i] = fs[i]
      BY DEF Frame
<1>2. /\ Len(w) = l + 1 /\ w[l + 1] = u /\ (\A m \in 1..l : w[m] = v[m])
      /\ Len(u) = 1 /\ u[1] = g.class /\ \A m \in 1..l : Len(v[m]) \in Nat
  <2>1. u \in Seq(Classes)
        BY <1>1
  <2> QED BY <2>1
<1>3. /\ DOMAIN st = 1..(l + 1) /\ st[l + 1] = n + 1 /\ \A m \in 1..l : st[m] = start[m]
      BY <1>1
<1>4. /\ \A m \in 1..l : start[m] \in 1..n
      /\ \A m \in 1..l : start[m] + Len(v[m]) = IF m = l THEN n + 1 ELSE start[m + 1]
      /\ \A m \in 1..l : \A k \in 1..Len(v[m]) :
            /\ v[m][k] = fs[start[m] + k - 1].class
            /\ k < Len(v[m]) => fs[start[m] + k - 1].todo[1].kind # "base"
      BY DEF Laid
<1>5. st \in [1..(l + 1) -> 1..(n + 1)]
  <2>1. \A m \in 1..(l + 1) : (IF m = l + 1 THEN n + 1 ELSE start[m]) \in 1..(n + 1)
    <3> TAKE m \in 1..(l + 1)
    <3>1. CASE m = l + 1
          BY <1>1, <3>1
    <3>2. CASE m # l + 1
      <4>1. m \in 1..l
            BY <1>1, <3>2
      <4>2. start[m] \in 1..n
            BY <1>4, <4>1
      <4> QED BY <1>1, <3>2, <4>2
    <3> QED BY <3>1, <3>2
  <2> QED BY <2>1
<1> HIDE DEF n, l, gs, u, w, st
<1>6. ASSUME NEW m \in 1..(l + 1)
      PROVE  st[m] + Len(w[m]) = IF m = l + 1 THEN (n + 1) + 1 ELSE st[m + 1]
  <2>1. CASE m = l + 1
        BY <1>1, <1>2, <1>3, <2>1
  <2>2. CASE m # l + 1
    <3>1. m \in 1..l /\ m # l + 1
          BY <1>1, <2>2
    <3>2. st[m] + Len(w[m]) = start[m] + Len(v[m])
          BY <1>2, <1>3, <3>1
    <3>3. CASE m = l
          BY <1>3, <1>4, <3>1, <3>2, <3>3
    <3>4. CASE m # l
      <4>1. m + 1 \in 1..l
            BY <1>1, <3>1, <3>4
      <4> QED BY <1>3, <1>4, <3>1, <3>2, <3>4, <4>1
    <3> QED BY <3>3, <3>4
  <2> QED BY <2>1, <2>2
<1>7. ASSUME NEW m \in 1..(l + 1), NEW k \in 1..Len(w[m])
      PROVE  /\ w[m][k] = gs[st[m] + k - 1].class
             /\ k < Len(w[m]) => gs[st[m] + k - 1].todo[1].kind # "base"
  <2>1. CASE m = l + 1
    <3>1. w[m] = u /\ st[m] = n + 1
          BY <1>2, <1>3, <2>1
    <3>2. k \in 1..1
          BY <1>2, <3>1
    <3>3. k = 1 /\ st[m] + k - 1 = n + 1
          BY <1>1, <3>1, <3>2
    <3>4. w[m][k] = g.class /\ ~(k < Len(w[m]))
      <4>1. u[k] = g.class /\ ~(k < Len(u))
            BY <1>2, <3>3
      <4> QED BY <3>1, <4>1
    <3> QED BY <1>1, <3>3, <3>4
  <2>2. CASE m # l + 1
    <3>1. m \in 1..l
          BY <1>1, <2>2
    <3>2. w[m] = v[m] /\ st[m] = start[m] /\ k \in 1..Len(v[m]) /\ Len(v[m]) \in Nat
          BY <1>2, <1>3, <3>1
    <3>3. start[m] + k - 1 \in 1..n
      <4>1. start[m] \in 1..n /\ start[m] + Len(v[m]) <= n + 1
        <5>1. CASE m = l
              BY <1>1, <1>4, <3>1, <5>1
        <5>2. CASE m # l
          <6>1. m + 1 \in 1..l
                BY <1>1, <3>1, <5>2
          <6>2. start[m] + Len(v[m]) = start[m + 1] /\ start[m + 1] \in 1..n
                BY <1>4, <3>1, <5>2, <6>1
          <6> QED BY <1>1, <1>4, <3>1, <6>2
        <5> QED BY <5>1, <5>2
      <4> DEFINE z == Len(v[m])
                 a == start[m]
      <4>2. a \in 1..n /\ a + z <= n + 1 /\ z \in Nat /\ k \in 1..z /\ n \in Nat
            BY <1>1, <3>2, <4>1
      <4> HIDE DEF z, a
      <4>3. a + k - 1 \in 1..n
            BY <4>2
      <4> QED BY <4>3 DEF a
    <3>4. gs[start[m] + k - 1] = fs[start[m] + k - 1]
          BY <1>1, <3>3
    <3> QED BY <1>4, <3>1, <3>2, <3>4
  <2> QED BY <2>1, <2>2
<1>8. ASSUME NEW m \in 1..(l + 1), st[m] # 1
      PROVE  gs[st[m] - 1].todo[1].kind = "base"
  <2>1. CASE m = l + 1
    <3>1. n # 0 /\ st[m] - 1 = n /\ n \in 1..n
          BY <1>1, <1>3, <1>8, <2>1
    <3> QED BY <1>1, <3>1 DEF n
  <2>2. CASE m # l + 1
    <3>1. m \in 1..l /\ st[m] = start[m]
          BY <1>1, <1>3, <2>2
    <3>2. start[m] - 1 \in 1..n
          BY <1>1, <1>4, <1>8, <3>1
    <3>3. fs[start[m] - 1].todo[1].kind = "base"
          BY <1>8, <3>1 DEF Laid, l
    <3> QED BY <1>1, <3>1, <3>2, <3>3
  <2> QED BY <2>1, <2>2
<1>9. Laid(gs, w, st)
      BY <1>1, <1>2, <1>5, <1>6, <1>7, <1>8 DEF Laid
<1> QED BY <1>9 DEF gs, w, u

\* Where a call is on its vector
LEMMA LaidAt ==
    ASSUME NEW fs \in Seq(Frame), NEW v \in Seq(Seq(Classes)), NEW start, Laid(fs, v, start),
           NEW m \in 1..Len(v), NEW k \in 1..Len(v[m])
    PROVE  /\ start[m] + k - 1 \in 1..Len(fs)
           /\ m # Len(v) \/ k # Len(v[m]) => start[m] + k - 1 \in 1..(Len(fs) - 1)
<1> DEFINE n == Len(fs)
           l == Len(v)
           p == Len(v[m])
<1>1. n \in Nat /\ l \in Nat /\ p \in Nat /\ m \in 1..l /\ k \in 1..p
  <2>1. v[m] \in Seq(Classes)
        OBVIOUS
  <2> QED BY <2>1
<1>2. start[m] \in 1..n /\ start[m] + p = IF m = l THEN n + 1 ELSE start[m + 1]
      BY DEF Laid
<1>3. m # l => start[m + 1] \in 1..n
  <2>1. m # l => m + 1 \in 1..l
        BY <1>1
  <2> QED BY <2>1 DEF Laid
<1> HIDE DEF n, l, p
<1>4. start[m] + k - 1 \in 1..n
      BY <1>1, <1>2, <1>3
<1>5. (m # l \/ k # p) => start[m] + k - 1 \in 1..(n - 1)
      BY <1>1, <1>2, <1>3
<1> QED BY <1>4, <1>5 DEF n, l, p

\* A call on the vector of the call around it
LEMMA LaidMember ==
    ASSUME NEW fs \in Seq(Frame), NEW v \in Seq(Seq(Classes)), NEW start, Laid(fs, v, start),
           Len(v) # 0, fs[Len(fs)].todo[1].kind # "base", NEW g \in Frame
    PROVE  Laid(Append(fs, g), Append(Front(v), Append(Last(v), g.class)), start)
<1> DEFINE n == Len(fs)
           l == Len(v)
           gs == Append(fs, g)
           s == Last(v)
           q == Front(v)
           u == Append(s, g.class)
           w == Append(q, u)
           p == Len(s)
<1>1. /\ n \in Nat /\ g.class \in Classes
      /\ Len(gs) = n + 1 /\ gs[n + 1] = g /\ \A i \in 1..n : gs[i] = fs[i]
      BY DEF Frame
<1>2. /\ q \in Seq(Seq(Classes)) /\ s \in Seq(Classes) /\ l \in Nat /\ Len(q) = l - 1 /\ l \in 1..l
      /\ s = v[l] /\ \A m \in 1..(l - 1) : q[m] = v[m]
      BY FrontIs DEF Last
<1> HIDE DEF s, q
<1>3. /\ p \in Nat /\ u \in Seq(Classes) /\ Len(u) = p + 1 /\ u[p + 1] = g.class
      /\ \A k \in 1..p : u[k] = s[k]
      BY <1>1, <1>2
<1> HIDE DEF u
<1>4. Len(w) = l /\ w[l] = u /\ \A m \in 1..(l - 1) : w[m] = v[m]
  <2>1. Len(w) = Len(q) + 1 /\ w[Len(q) + 1] = u /\ \A m \in 1..Len(q) : w[m] = q[m]
        BY <1>2, <1>3
  <2> HIDE DEF w
  <2> QED BY <1>2, <2>1
<1>5. start \in [1..l -> 1..n]
      BY DEF Laid
<1>6. \A m \in 1..l : start[m] \in 1..n /\ start[m] \in 1..(n + 1)
  <2> HIDE DEF n, l
  <2> QED BY <1>1, <1>5
<1>7. start \in [1..l -> 1..(n + 1)]
      BY <1>5, <1>6
<1> HIDE DEF w, gs
<1>8. ASSUME NEW m \in 1..l
      PROVE  start[m] + Len(w[m]) = IF m = l THEN (n + 1) + 1 ELSE start[m + 1]
  <2>1. start[m] + Len(v[m]) = IF m = l THEN n + 1 ELSE start[m + 1]
        BY DEF Laid
  <2>2. CASE m = l
    <3>1. start[l] + p = n + 1 /\ start[l] \in 1..n
          BY <1>2, <1>6, <2>1, <2>2
    <3>2. start[l] + Len(w[l]) = (n + 1) + 1
      <4> DEFINE b == start[l]
                 z == Len(w[l])
      <4>1. z = p + 1
            BY <1>3, <1>4
      <4>2. b \in 1..n /\ b + p = n + 1
            BY <3>1
      <4>3. p \in Nat /\ n \in Nat
            BY <1>1, <1>3
      <4> HIDE DEF n, p, b, z
      <4>4. b + z = (n + 1) + 1
            BY <4>1, <4>2, <4>3
      <4> QED BY <4>4 DEF b, z
    <3> QED BY <2>2, <3>2
  <2>3. CASE m # l
    <3>1. m \in 1..(l - 1)
          BY <1>2, <2>3
    <3> QED BY <1>4, <2>1, <2>3, <3>1
  <2> QED BY <2>2, <2>3
<1>9. ASSUME NEW m \in 1..l, NEW k \in 1..Len(w[m])
      PROVE  /\ w[m][k] = gs[start[m] + k - 1].class
             /\ k < Len(w[m]) => gs[start[m] + k - 1].todo[1].kind # "base"
  <2>1. CASE m = l /\ k = p + 1
    <3>1. start[l] + p = n + 1 /\ start[l] \in 1..n
          BY <1>2, <1>6 DEF Laid
    <3>2. start[m] + k - 1 = n + 1
          BY <1>1, <1>3, <2>1, <3>1
    <3>3. w[m][k] = g.class /\ ~(k < Len(w[m]))
          BY <1>3, <1>4, <2>1
    <3> QED BY <1>1, <3>2, <3>3
  <2>2. CASE ~(m = l /\ k = p + 1)
    <3>1. k \in 1..Len(v[m]) /\ w[m][k] = v[m][k]
      <4>1. CASE m = l
        <5>1. k \in 1..p
              BY <1>3, <1>4, <2>2, <4>1
        <5> QED BY <1>2, <1>3, <1>4, <4>1, <5>1
      <4>2. CASE m # l
        <5>1. m \in 1..(l - 1)
              BY <1>2, <4>2
        <5> QED BY <1>4, <5>1
      <4> QED BY <4>1, <4>2
    <3>2. start[m] + k - 1 \in 1..n
          BY <3>1, LaidAt
    <3>3. gs[start[m] + k - 1] = fs[start[m] + k - 1]
          BY <1>1, <3>2
    <3>4. v[m][k] = fs[start[m] + k - 1].class /\ (k < Len(v[m]) => fs[start[m] + k - 1].todo[1].kind # "base")
          BY <3>1 DEF Laid
    <3>5. k < Len(w[m]) => fs[start[m] + k - 1].todo[1].kind # "base"
      <4>1. CASE k < Len(v[m])
            BY <3>4, <4>1
      <4>2. CASE ~(k < Len(v[m])) /\ m = l
        <5>1. start[l] + p = n + 1 /\ start[l] \in 1..n /\ k = p
          <6>1. start[l] + p = n + 1 /\ start[l] \in 1..n
                BY <1>2, <1>6 DEF Laid
          <6>2. k \in 1..p /\ ~(k < p)
                BY <1>2, <3>1, <4>2
          <6> QED BY <1>3, <6>1, <6>2
        <5>2. start[m] + k - 1 = n
              BY <1>1, <1>3, <4>2, <5>1
        <5> QED BY <5>2
      <4>3. CASE ~(k < Len(v[m])) /\ m # l
        <5>1. m \in 1..(l - 1)
              BY <1>2, <4>3
        <5> QED BY <1>4, <4>3, <5>1
      <4> QED BY <4>1, <4>2, <4>3
    <3> QED BY <3>1, <3>3, <3>4, <3>5
  <2> QED BY <2>1, <2>2
<1>10. ASSUME NEW m \in 1..l, start[m] # 1 PROVE gs[start[m] - 1].todo[1].kind = "base"
  <2>1. start[m] - 1 \in 1..n
        BY <1>1, <1>6, <1>10
  <2>2. fs[start[m] - 1].todo[1].kind = "base"
        BY <1>10 DEF Laid
  <2> QED BY <1>1, <2>1, <2>2
<1>11. Laid(gs, w, start)
       BY <1>1, <1>4, <1>7, <1>8, <1>9, <1>10 DEF Laid
<1> QED BY <1>11 DEF gs, w, u, q, s

\* A sequence with another last element
LEMMA Replaced ==
    ASSUME NEW A, NEW s \in Seq(A), Len(s) # 0, NEW x
    PROVE  LET t == Append(Front(s), x)
           IN  /\ Len(t) = Len(s) /\ t[Len(s)] = x
               /\ \A i \in 1..(Len(s) - 1) : t[i] = s[i]
<1> DEFINE q == Front(s)
           n == Len(s)
<1>1. q \in Seq(A) /\ n \in Nat /\ Len(q) = n - 1 /\ \A i \in 1..(n - 1) : q[i] = s[i]
      BY FrontIs
<1>2. q \in Seq(A \cup {x}) /\ x \in A \cup {x}
      BY <1>1
<1> HIDE DEF q, n
<1>3. Len(Append(q, x)) = n /\ Append(q, x)[n] = x /\ \A i \in 1..(n - 1) : Append(q, x)[i] = q[i]
      BY <1>1, <1>2
<1> QED BY <1>1, <1>3 DEF q, n

LEMMA ReplacedCall ==
    ASSUME NEW fs \in Seq(Frame), Len(fs) # 0, NEW x, NEW gs, gs = Append(Front(fs), x)
    PROVE  Len(gs) = Len(fs) /\ gs[Len(fs)] = x /\ \A i \in 1..(Len(fs) - 1) : gs[i] = fs[i]
BY Replaced

\* The last call goes on
LEMMA LaidGo ==
    ASSUME NEW fs \in Seq(Frame), NEW v \in Seq(Seq(Classes)), NEW start, Laid(fs, v, start),
           Len(fs) # 0, NEW gs, Len(gs) = Len(fs), gs[Len(fs)].class = fs[Len(fs)].class,
           \A i \in 1..(Len(fs) - 1) : gs[i] = fs[i]
    PROVE  Laid(gs, v, start)
<1> DEFINE n == Len(fs)
<1>1. /\ n \in Nat /\ Len(gs) = n /\ gs[n].class = fs[n].class
      /\ \A i \in 1..(n - 1) : gs[i] = fs[i]
      OBVIOUS
<1>2. ASSUME NEW m \in 1..Len(v), NEW k \in 1..Len(v[m])
      PROVE  /\ v[m][k] = gs[start[m] + k - 1].class
             /\ k < Len(v[m]) => gs[start[m] + k - 1].todo[1].kind # "base"
  <2> DEFINE i == start[m] + k - 1
  <2>1. i \in 1..n /\ (m # Len(v) \/ k # Len(v[m]) => i \in 1..(n - 1))
        BY LaidAt
  <2>2. /\ v[m][k] = fs[i].class
        /\ k < Len(v[m]) => fs[i].todo[1].kind # "base"
        BY DEF Laid
  <2> HIDE DEF n, i
  <2>3. gs[i].class = fs[i].class
    <3>1. CASE i = n
          BY <1>1, <3>1 DEF n
    <3>2. CASE i # n
      <4>1. i \in 1..(n - 1)
            BY <1>1, <2>1, <3>2
      <4> QED BY <1>1, <4>1
    <3> QED BY <3>1, <3>2
  <2>4. k < Len(v[m]) => gs[i] = fs[i]
    <3> HAVE k < Len(v[m])
    <3>1. k # Len(v[m])
      <4>1. v[m] \in Seq(Classes)
            OBVIOUS
      <4>2. Len(v[m]) \in Nat /\ k < Len(v[m])
            BY <4>1
      <4> QED BY <4>2
    <3> QED BY <1>1, <2>1, <3>1
  <2> QED BY <2>2, <2>3, <2>4 DEF i
<1>3. ASSUME NEW m \in 1..Len(v), start[m] # 1 PROVE gs[start[m] - 1].todo[1].kind = "base"
  <2>1. start[m] \in 1..n /\ fs[start[m] - 1].todo[1].kind = "base"
        BY <1>3 DEF Laid
  <2>2. start[m] - 1 \in 1..(n - 1)
        BY <1>1, <1>3, <2>1
  <2> QED BY <1>1, <2>1, <2>2
<1> QED BY <1>1, <1>2, <1>3 DEF Laid

\* The last call returns
LEMMA LaidPop ==
    ASSUME NEW fs \in Seq(Frame), NEW v \in Seq(Seq(Classes)), NEW start, Laid(fs, v, start),
           Len(fs) # 0, Len(v) # 0, \A m \in 1..Len(v) : Len(v[m]) # 0
    PROVE  \E st : Laid(Front(fs), Popped(v), st)
<1> DEFINE n == Len(fs)
           l == Len(v)
           s == Last(v)
           p == Len(s)
           q == Front(v)
           t == Front(s)
           gs == Front(fs)
<1>1. /\ n \in Nat /\ Len(gs) = n - 1 /\ \A i \in 1..(n - 1) : gs[i] = fs[i]
      BY FrontIs
<1>2. /\ q \in Seq(Seq(Classes)) /\ s \in Seq(Classes) /\ l \in Nat /\ Len(q) = l - 1 /\ l \in 1..l
      /\ s = v[l] /\ \A m \in 1..(l - 1) : q[m] = v[m]
      BY FrontIs DEF Last
<1>3. p # 0
      BY <1>2
<1> HIDE DEF s, q
<1>4. p \in Nat /\ t \in Seq(Classes) /\ Len(t) = p - 1 /\ \A k \in 1..(p - 1) : t[k] = s[k]
      BY <1>2, <1>3, FrontIs
<1>5. \A m \in 1..l : Len(v[m]) \in Nat /\ Len(v[m]) # 0
  <2> TAKE m \in 1..l
  <2>1. v[m] \in Seq(Classes)
        OBVIOUS
  <2> QED BY <2>1
<1>6. \A m \in 1..l : /\ start[m] \in 1..n
                      /\ start[m] + Len(v[m]) = IF m = l THEN n + 1 ELSE start[m + 1]
      BY DEF Laid
<1>7. \A m \in 1..(l - 1) : start[m] \in 1..(n - 1) /\ m \in 1..l /\ m # l /\ m + 1 \in 1..l
  <2> TAKE m \in 1..(l - 1)
  <2> HIDE DEF l, n
  <2>1. m \in 1..l /\ m # l /\ m + 1 \in 1..l
        BY <1>2
  <2> DEFINE z == Len(v[m])
  <2>2. start[m] + z = start[m + 1] /\ start[m] \in 1..n /\ start[m + 1] \in 1..n /\ z \in Nat /\ z # 0
        BY <1>5, <1>6, <2>1
  <2> HIDE DEF z
  <2>3. start[m] \in 1..(n - 1)
        BY <1>1, <2>2
  <2> QED BY <2>1, <2>3
<1>8. ASSUME NEW m \in 1..l, NEW k \in 1..Len(v[m]), m # l \/ k # Len(v[m])
      PROVE  /\ v[m][k] = gs[start[m] + k - 1].class
             /\ k < Len(v[m]) => gs[start[m] + k - 1].todo[1].kind # "base"
  <2>1. start[m] + k - 1 \in 1..(n - 1)
        BY <1>8, LaidAt
  <2>2. gs[start[m] + k - 1] = fs[start[m] + k - 1]
        BY <1>1, <2>1
  <2> QED BY <2>2 DEF Laid
<1>9. start[l] + p = n + 1 /\ start[l] \in 1..n
      BY <1>2, <1>6
<1>10. ASSUME NEW m \in 1..l, start[m] # 1 PROVE gs[start[m] - 1].todo[1].kind = "base"
  <2>1. start[m] \in 1..n /\ fs[start[m] - 1].todo[1].kind = "base"
        BY <1>10 DEF Laid
  <2>2. start[m] - 1 \in 1..(n - 1)
        BY <1>1, <1>10, <2>1
  <2> QED BY <1>1, <2>1, <2>2
<1> HIDE DEF gs, t
<1>11. CASE t = <<>>
  <2>1. Popped(v) = q
        BY <1>11 DEF Popped, q, s, t
  <2>2. p = 1
    <3>1. Len(t) = 0
          BY <1>11
    <3> HIDE DEF p
    <3> QED BY <1>4, <3>1
  <2> DEFINE st == [m \in 1..(l - 1) |-> start[m]]
  <2>3. st \in [1..(l - 1) -> 1..(n - 1)]
        BY <1>7
  <2>4. ASSUME NEW m \in 1..(l - 1)
        PROVE  st[m] + Len(q[m]) = IF m = l - 1 THEN (n - 1) + 1 ELSE st[m + 1]
    <3>1. m \in 1..l /\ m # l /\ q[m] = v[m] /\ st[m] = start[m]
          BY <1>2, <1>7
    <3>2. st[m] + Len(q[m]) = start[m + 1]
          BY <1>6, <3>1
    <3>3. CASE m = l - 1
      <4>1. start[m + 1] = start[l]
        <5>1. (l - 1) + 1 = l
              BY <1>2
        <5> QED BY <3>3, <5>1
      <4>2. start[l] = (n - 1) + 1
        <5> DEFINE b == start[l]
        <5>1. b + 1 = n + 1 /\ b \in 1..n
              BY <1>9, <2>2
        <5> HIDE DEF b, n
        <5>2. b = (n - 1) + 1
              BY <1>1, <5>1
        <5> QED BY <5>2 DEF b
      <4> QED BY <3>2, <3>3, <4>1, <4>2
    <3>4. CASE m # l - 1
      <4>1. m + 1 \in 1..(l - 1)
            BY <1>2, <3>4
      <4>2. st[m + 1] = start[m + 1]
            BY <4>1
      <4> QED BY <3>2, <3>4, <4>2
    <3> QED BY <3>3, <3>4
  <2>5. ASSUME NEW m \in 1..(l - 1), NEW k \in 1..Len(q[m])
        PROVE  /\ q[m][k] = gs[st[m] + k - 1].class
               /\ k < Len(q[m]) => gs[st[m] + k - 1].todo[1].kind # "base"
    <3>1. m \in 1..l /\ m # l /\ q[m] = v[m] /\ st[m] = start[m]
          BY <1>2, <1>7
    <3> QED BY <1>8, <3>1
  <2>6. ASSUME NEW m \in 1..(l - 1), st[m] # 1 PROVE gs[st[m] - 1].todo[1].kind = "base"
    <3>1. m \in 1..l /\ st[m] = start[m]
          BY <1>7
    <3> QED BY <1>10, <2>6, <3>1
  <2> HIDE DEF st
  <2>7. Laid(gs, q, st)
        BY <1>1, <1>2, <2>3, <2>4, <2>5, <2>6 DEF Laid, gs
  <2> QED BY <2>1, <2>7 DEF gs
<1>12. CASE t # <<>>
  <2> DEFINE w == Append(q, t)
  <2>1. Popped(v) = w
        BY <1>12 DEF Popped, q, s, t
  <2>2. p \in Nat /\ p > 1
    <3>1. \A u \in Seq(Classes) : u # <<>> => Len(u) # 0
          OBVIOUS
    <3>2. Len(t) # 0
          BY <1>4, <1>12, <3>1
    <3> HIDE DEF p
    <3> QED BY <1>3, <1>4, <3>2
  <2>3. Len(w) = l /\ w[l] = t /\ \A m \in 1..(l - 1) : w[m] = v[m]
    <3>1. Len(w) = Len(q) + 1 /\ w[Len(q) + 1] = t /\ \A m \in 1..Len(q) : w[m] = q[m]
          BY <1>2, <1>4
    <3> HIDE DEF w
    <3> QED BY <1>2, <3>1
  <2> HIDE DEF w
  <2>4. \A m \in 1..l : start[m] \in 1..(n - 1)
    <3> TAKE m \in 1..l
    <3>1. CASE m = l
      <4> DEFINE b == start[l]
      <4>1. b + p = n + 1 /\ b \in 1..n
            BY <1>9
      <4> HIDE DEF b, p, n
      <4>2. b \in 1..(n - 1)
            BY <1>1, <2>2, <4>1
      <4> QED BY <3>1, <4>2 DEF b
    <3>2. CASE m # l
      <4>1. m \in 1..(l - 1)
            BY <1>2, <3>2
      <4> QED BY <1>7, <4>1
    <3> QED BY <3>1, <3>2
  <2>5. start \in [1..l -> 1..(n - 1)]
    <3>1. start \in [1..l -> 1..n]
          BY DEF Laid
    <3> QED BY <2>4, <3>1
  <2>6. ASSUME NEW m \in 1..l
        PROVE  start[m] + Len(w[m]) = IF m = l THEN (n - 1) + 1 ELSE start[m + 1]
    <3>1. CASE m = l
      <4> DEFINE b == start[l]
                 z == Len(w[l])
      <4>1. b + p = n + 1 /\ b \in 1..n /\ z = p - 1
            BY <1>4, <1>9, <2>3
      <4>2. n \in Nat /\ p \in Nat /\ p > 1
            BY <1>1, <2>2
      <4> HIDE DEF b, p, n, z
      <4>3. b + z = (n - 1) + 1
            BY <4>1, <4>2
      <4> QED BY <3>1, <4>3 DEF b, z
    <3>2. CASE m # l
      <4>1. m \in 1..(l - 1)
            BY <1>2, <3>2
      <4> QED BY <1>6, <2>3, <3>2, <4>1
    <3> QED BY <3>1, <3>2
  <2>7. ASSUME NEW m \in 1..l, NEW k \in 1..Len(w[m])
        PROVE  /\ w[m][k] = gs[start[m] + k - 1].class
               /\ k < Len(w[m]) => gs[start[m] + k - 1].todo[1].kind # "base"
    <3>1. CASE m = l
      <4>1. k \in 1..(p - 1) /\ w[m][k] = s[k] /\ v[m] = s /\ Len(w[m]) = p - 1
            BY <1>2, <1>4, <2>3, <3>1
      <4>2. k \in 1..p /\ k < p /\ k # p
        <5> HIDE DEF p
        <5> QED BY <2>2, <4>1
      <4>3. k \in 1..Len(v[m]) /\ k < Len(v[m]) /\ k # Len(v[m])
            BY <4>1, <4>2
      <4> QED BY <1>8, <4>1, <4>3
    <3>2. CASE m # l
      <4>1. m \in 1..(l - 1)
            BY <1>2, <3>2
      <4>2. w[m] = v[m]
            BY <2>3, <4>1
      <4> QED BY <1>8, <3>2, <4>2
    <3> QED BY <3>1, <3>2
  <2>8. Laid(gs, w, start)
        BY <1>1, <1>10, <2>3, <2>5, <2>6, <2>7 DEF Laid, gs
  <2> QED BY <2>1, <2>8 DEF gs
<1> QED BY <1>11, <1>12

-----------------------------------------------------------------------------
\* The edges the calls are done with

LEMMA PassedMore ==
    ASSUME NEW e, NEW W, NEW U, W \subseteq U, Passed(e, W)
    PROVE  Passed(e, U)
BY ClearMore DEF Passed

\* The calls around the last one have done the same when it begins, goes on or returns
LEMMA PassedSame ==
    ASSUME NEW fs, NEW gs, NEW i \in Nat, gs[i] = fs[i],
           \A j \in 1..(i - 1) : gs[j] = fs[j], PassedBy(fs, i)
    PROVE  PassedBy(gs, i)
<1>1. Around(gs, i) = Around(fs, i)
      BY AroundSame
<1> QED BY <1>1 DEF PassedBy

\* A call on its vector
LEMMA GoingBegins ==
    ASSUME document \in [Classes -> Description], NEW fs \in Seq(Frame),
           NEW v, NEW w, Going(fs, v),
           NEW g \in Frame, g.todo = Edges(g.class),
           \A start : Laid(fs, v, start) => \E st : Laid(Append(fs, g), w, st)
    PROVE  Going(Append(fs, g), w)
<1> DEFINE n == Len(fs)
           gs == Append(fs, g)
<1>1. n \in Nat /\ Len(gs) = n + 1 /\ gs[n + 1] = g /\ \A i \in 1..n : gs[i] = fs[i]
      OBVIOUS
<1>2. \E st \in [1..Len(w) -> 1..Len(gs)] : Laid(gs, w, st)
  <2>1. PICK start : Laid(fs, v, start)
        BY DEF Going
  <2>2. PICK st : Laid(gs, w, st)
        BY <2>1
  <2> HIDE DEF gs
  <2> QED BY <2>2 DEF Laid
<1> HIDE DEF gs
<1>3. ASSUME NEW i \in 1..(n + 1) PROVE PassedBy(gs, i)
  <2>1. CASE i = n + 1
    <3>1. gs[i].todo = Edges(gs[i].class) /\ gs[i].class \in Classes
          BY <1>1, <2>1 DEF Frame
    <3> DEFINE z == Len(gs[i].todo)
    <3>2. z \in Nat /\ Len(Edges(gs[i].class)) = z
          BY <3>1, EdgesType
    <3> HIDE DEF z
    <3>3. 1..(z - z) = {}
          BY <3>2
    <3> QED BY <3>2, <3>3 DEF PassedBy, z
  <2>2. CASE i # n + 1
    <3> HIDE DEF n
    <3>1. i \in 1..n /\ i \in Nat /\ \A j \in 1..(i - 1) : j \in 1..n
          BY <1>1, <2>2
    <3>2. PassedBy(fs, i)
          BY <3>1 DEF Going, n
    <3> QED BY <1>1, <3>1, <3>2, PassedSame
  <2> QED BY <2>1, <2>2
<1>4. Going(gs, w)
      BY <1>1, <1>2, <1>3 DEF Going
<1> QED BY <1>4 DEF gs

\* The last call is past its next edge
LEMMA GoingOn ==
    ASSUME document \in [Classes -> Description], NEW fs \in Seq(Frame), Running(fs), Len(fs) # 0,
           NEW v \in Seq(Seq(Classes)), Going(fs, v),
           NEW f, f = fs[Len(fs)], Len(f.todo) # 0, Passed(f.todo[1], Around(fs, Len(fs))),
           NEW gs, Len(gs) = Len(fs), gs[Len(fs)].class = f.class,
           Len(gs[Len(fs)].todo) = Len(f.todo) - 1,
           \A i \in 1..(Len(fs) - 1) : gs[i] = fs[i]
    PROVE  Going(gs, v)
<1> DEFINE n == Len(fs)
<1>1. fs \in Seq(Frame)
      OBVIOUS
<1>2. n \in Nat /\ n \in 1..n
      OBVIOUS
<1>3. /\ Len(gs) = n /\ gs[n].class = f.class /\ Len(gs[n].todo) = Len(f.todo) - 1
      /\ \A i \in 1..(n - 1) : gs[i] = fs[i]
      OBVIOUS
<1>4. f \in Frame /\ Halfway(f)
      BY <1>1, <1>2 DEF Running
<1>5. PICK start : Laid(fs, v, start)
      BY DEF Going
<1>6. Laid(gs, v, start)
      BY <1>1, <1>5, LaidGo
<1> HIDE DEF n
<1>7. \E st \in [1..Len(v) -> 1..Len(gs)] : Laid(gs, v, st)
      BY <1>6 DEF Laid
<1>8. PassedBy(gs, n)
  <2> DEFINE z == Len(f.todo)
             m == Len(Edges(f.class))
             k0 == m - z + 1
  <2>1. f.todo \in Seq(Call) /\ f.class \in Classes
        BY <1>4 DEF Frame
  <2>2. z \in Nat /\ z # 0 /\ Len(gs[n].todo) = z - 1
    <3>1. z \in Nat
          BY <2>1
    <3>2. z # 0 /\ Len(gs[n].todo) = z - 1
      <4>1. Len(gs[n].todo) = Len(f.todo) - 1
            BY <1>3
      <4> QED BY <4>1
    <3> QED BY <3>1, <3>2
  <2>3. m \in Nat
        BY <2>1, EdgesType
  <2>4. f.todo[1] = Edges(f.class)[k0]
        BY <1>4, EdgeAt
  <2>5. Around(gs, n) = Around(fs, n)
        BY <1>2, <1>3, AroundSame DEF n
  <2>6. \A k \in 1..(m - z) : Passed(Edges(f.class)[k], Around(fs, n))
        BY <1>2 DEF Going, PassedBy, n
  <2>7. Passed(Edges(f.class)[k0], Around(fs, n))
        BY <2>4 DEF n
  <2> HIDE DEF z, m
  <2>8. \A k \in 1..(m - (z - 1)) : k \in 1..(m - z) \/ k = k0
        BY <2>2, <2>3
  <2>9. \A k \in 1..(m - (z - 1)) : Passed(Edges(f.class)[k], Around(gs, n))
        BY <2>5, <2>6, <2>7, <2>8
  <2>10. gs[n].class = f.class /\ Len(gs[n].todo) = z - 1
         BY <1>3, <2>2
  <2> QED BY <2>9, <2>10 DEF PassedBy, m
<1>9. ASSUME NEW i \in 1..n PROVE PassedBy(gs, i)
  <2>1. CASE i = n
        BY <1>8, <2>1
  <2>2. CASE i # n
    <3>1. i \in 1..(n - 1) /\ i \in Nat /\ \A j \in 1..(i - 1) : j \in 1..(n - 1)
          BY <1>2, <2>2
    <3>2. PassedBy(fs, i)
          BY DEF Going, n
    <3> QED BY <1>3, <3>1, <3>2, PassedSame
  <2> QED BY <2>1, <2>2
<1> QED BY <1>3, <1>7, <1>9 DEF Going

\* The last call returns
LEMMA GoingBack ==
    ASSUME NEW fs \in Seq(Frame), Len(fs) # 0, NEW v, Named(fs, v), Going(fs, v)
    PROVE  Going(Front(fs), Popped(v))
<1> DEFINE n == Len(fs)
           gs == Front(fs)
<1>1. n \in Nat /\ Len(gs) = n - 1 /\ \A i \in 1..(n - 1) : gs[i] = fs[i]
      BY FrontIs
<1>2. PICK start : Laid(fs, v, start)
      BY DEF Going
<1>3. v \in Seq(Seq(Classes)) /\ (\A m \in 1..Len(v) : Len(v[m]) # 0) /\ Len(v) # 0
      BY OnVector DEF Named
<1>4. PICK st : Laid(gs, Popped(v), st)
      BY <1>2, <1>3, LaidPop
<1> HIDE DEF gs, n
<1>5. \E t \in [1..Len(Popped(v)) -> 1..Len(gs)] : Laid(gs, Popped(v), t)
      BY <1>4 DEF Laid
<1>6. ASSUME NEW i \in 1..(n - 1) PROVE PassedBy(gs, i)
  <2>1. i \in Nat /\ i \in 1..n /\ \A j \in 1..(i - 1) : j \in 1..(n - 1)
        BY <1>1
  <2>2. PassedBy(fs, i)
        BY <2>1 DEF Going, n
  <2> QED BY <1>1, <2>1, <2>2, PassedSame
<1>7. Going(gs, Popped(v))
      BY <1>1, <1>5, <1>6 DEF Going
<1> QED BY <1>7 DEF gs

LEMMA GoingNext ==
    ASSUME document' = document, NEW gs, NEW w, Going(gs, w), frames' = gs, recursive' = w
    PROVE  Going(frames, recursive)'
<1>1. \A fs, i : PassedBy(fs, i)' <=> PassedBy(fs, i)
      BY SameClear
<1>2. \A i \in 1..Len(gs) : PassedBy(gs, i)'
      BY <1>1 DEF Going
<1>3. \A fs, v : fs = frames' /\ v = recursive' /\ Going(fs, v)
         => Going(frames, recursive)'
      BY <1>1 DEF Going, Laid, PassedBy
<1> QED BY <1>3

-----------------------------------------------------------------------------
\* The steps, again

GoingInv == Inv /\ Going(frames, recursive)

\* A step that takes, or passes over, the edge it is at
LEMMA GoesStep ==
    ASSUME GoingInv, AtEdge, document' = document, recursive' = recursive,
           NEW g, g.class = Top.class, g.todo = Tail(Top.todo),
           frames' = Append(Front(frames), g),
           Passed(Edge, Around(frames, Len(frames)))
    PROVE  Going(frames, recursive)'
<1> DEFINE f == Top
<1>1. /\ document \in [Classes -> Description] /\ Running(frames) /\ frames \in Seq(Frame)
      /\ Len(frames) # 0 /\ f = frames[Len(frames)] /\ f \in Frame
      BY TopIs DEF AtEdge, GoingInv
<1>2. Len(f.todo) # 0 /\ Edge = f.todo[1]
      BY EdgeTop DEF GoingInv
<1>3. recursive \in Seq(Seq(Classes)) /\ Going(frames, recursive)
      BY DEF GoingInv, Inv, Named
<1>4. g.class = f.class /\ Len(g.todo) = Len(f.todo) - 1
  <2>1. f.todo \in Seq(Call)
        BY <1>1 DEF Frame
  <2> QED BY <1>2, <2>1
<1> HIDE DEF f
<1>5. PICK gs : gs = Append(Front(frames), g)
      OBVIOUS
<1>6. Len(gs) = Len(frames) /\ gs[Len(frames)] = g /\ \A i \in 1..(Len(frames) - 1) : gs[i] = frames[i]
      BY <1>1, <1>5, ReplacedCall
<1>7. Going(gs, recursive)
      BY <1>1, <1>2, <1>3, <1>4, <1>6, GoingOn
<1> QED BY <1>5, <1>7, GoingNext

\* The steps that leave the calls alone
LEMMA RestStep ==
    ASSUME GoingInv, document' = document, recursive' = recursive, frames' = frames
    PROVE  Going(frames, recursive)'
BY GoingNext DEF GoingInv

\* A class that an edge leads to is no null
LEMMA LeadsSound ==
    ASSUME NEW e, e.type.leaf \in Classes, e.kind = "base" => ~document[e.type.leaf].extended
    PROVE  Sound(e)
<1>1. Decodes(e.type)
      BY LeafAssumption DEF Decodes
<1> QED BY <1>1 DEF Sound

LEMMA CachedGoes ==
    ASSUME GoingInv, \A c \in Classes : resources[c] # None => Stored(c), Cached
    PROVE  Going(frames, recursive)'
<1>1. AtEdge /\ Leaf \in Classes /\ resources[Leaf] # None
      BY DEF Cached
<1>2. CASE NullDereference
      BY <1>2, RestStep DEF NullDereference
<1>3. CASE Take(resources[Leaf].list, resources[Leaf].cuts) /\ ~(Edge.kind = "base" /\ document[Leaf].extended)
  <2>1. Clear(Leaf, {})
        BY <1>1 DEF Stored
  <2>2. Sound(Edge)
        BY <1>1, <1>3, LeadsSound DEF Leaf
  <2>3. Passed(Edge, Around(frames, Len(frames)))
        BY <2>1, <2>2, ClearMore DEF Passed, Leaf
  <2> DEFINE g == Took(Top, resources[Leaf].list, resources[Leaf].cuts)
  <2>4. frames' = Append(Front(frames), g) /\ document' = document /\ recursive' = recursive
        BY <1>3 DEF Take
  <2>5. g.class = Top.class /\ g.todo = Tail(Top.todo)
    <3>1. Top \in Frame
          BY <1>1, TopIs DEF AtEdge, GoingInv
    <3> QED BY <3>1 DEF Took, Frame
  <2> HIDE DEF g
  <2> QED BY <1>1, <2>3, <2>4, <2>5, GoesStep
<1> QED BY <1>2, <1>3 DEF Cached

LEMMA RecursiveGoes == ASSUME GoingInv, Recursive PROVE Going(frames, recursive)'
<1>1. /\ AtEdge /\ Edge.kind # "base" /\ Leaf \in Classes /\ Leaf \in Range(Last(recursive))
      /\ Take({}, {Leaf})
      BY DEF Recursive
<1>2. frames \in Seq(Frame) /\ Len(frames) # 0 /\ Top \in Frame
      BY <1>1, TopIs DEF AtEdge, GoingInv
<1>3. recursive \in Seq(Seq(Classes)) /\ Len(recursive) # 0
      BY <1>2, OnVector DEF GoingInv, Inv, Named
<1>4. PICK start : Laid(frames, recursive, start)
      BY DEF GoingInv, Going
<1>5. Leaf \in Around(frames, Len(frames))
      BY <1>1, <1>2, <1>3, <1>4, LaidIn
<1>6. Sound(Edge)
      BY <1>1, LeadsSound DEF Leaf
<1>7. Passed(Edge, Around(frames, Len(frames)))
      BY <1>1, <1>5, <1>6 DEF Passed, Clear, Leaf
<1> DEFINE g == Took(Top, {}, {Leaf})
<1>8. frames' = Append(Front(frames), g) /\ document' = document /\ recursive' = recursive
      BY <1>1 DEF Take
<1>9. g.class = Top.class /\ g.todo = Tail(Top.todo)
      BY <1>2 DEF Took, Frame
<1> HIDE DEF g
<1> QED BY <1>1, <1>7, <1>8, <1>9, GoesStep

LEMMA TakeOtherGoes == ASSUME GoingInv, TakeOther PROVE Going(frames, recursive)'
<1>1. AtEdge /\ Leaf \notin Classes
      BY DEF TakeOther
<1>2. Top \in Frame
      BY <1>1, TopIs DEF AtEdge, GoingInv
<1>3. Edge.kind # "base"
      BY <1>1, EdgeTop DEF GoingInv
<1>4. CASE NullDereference
      BY <1>4, RestStep DEF NullDereference
<1>5. ASSUME Decodes(Edge.type) \/ Edge.kind # "argument"
      PROVE  Passed(Edge, Around(frames, Len(frames)))
      BY <1>1, <1>3, <1>5 DEF Passed, Sound, Leaf
<1>6. CASE Decodes(Edge.type) /\ Take({}, {})
  <2> DEFINE g == Took(Top, {}, {})
  <2>1. frames' = Append(Front(frames), g) /\ document' = document /\ recursive' = recursive
        BY <1>6 DEF Take
  <2>2. g.class = Top.class /\ g.todo = Tail(Top.todo)
        BY <1>2 DEF Took, Frame
  <2> HIDE DEF g
  <2> QED BY <1>1, <1>5, <1>6, <2>1, <2>2, GoesStep
<1>7. CASE Edge.kind # "argument" /\ Skip
  <2> DEFINE g == [Top EXCEPT !.todo = Tail(Top.todo)]
  <2>1. frames' = Append(Front(frames), g) /\ document' = document /\ recursive' = recursive
        BY <1>7 DEF Skip
  <2>2. g.class = Top.class /\ g.todo = Tail(Top.todo)
        BY <1>2 DEF Frame
  <2> HIDE DEF g
  <2> QED BY <1>1, <1>5, <1>7, <2>1, <2>2, GoesStep
<1> QED BY <1>4, <1>6, <1>7 DEF TakeOther

LEMMA SameSequence ==
    ASSUME NEW A, NEW s \in Seq(A), NEW t \in Seq(A), Len(s) = Len(t),
           \A i \in 1..Len(t) : s[i] = t[i]
    PROVE  s = t
OBVIOUS

\* A call begins
LEMMA EnterGoes ==
    ASSUME GoingInv, document' = document, NEW c \in Classes, NEW vectors, NEW w,
           w = Append(Front(vectors), Append(Last(vectors), c)), Enter(c, vectors),
           \A g \in Frame : g.class = c =>
              \A start : Laid(frames, recursive, start) => \E st : Laid(Append(frames, g), w, st)
    PROVE  Going(frames, recursive)'
<1>1. CASE frames' = frames /\ recursive' = recursive
      BY <1>1, RestStep
<1>2. CASE ~(frames' = frames /\ recursive' = recursive)
  <2> DEFINE g == [class |-> c, todo |-> Edges(c), list |-> {}, cuts |-> {}]
  <2>1. frames' = Append(frames, g) /\ recursive' = w
        BY <1>2 DEF Enter
  <2>2. document \in [Classes -> Description] /\ frames \in Seq(Frame)
        BY DEF GoingInv, Inv, Running
  <2>3. g \in Frame /\ g.class = c /\ g.todo = Edges(g.class)
    <3>1. Edges(c) \in Seq(Call)
          BY <2>2, EdgesType
    <3> QED BY <3>1 DEF Frame
  <2> HIDE DEF g
  <2>4. Going(Append(frames, g), w)
        BY <2>2, <2>3, GoingBegins DEF GoingInv
  <2>5. PICK gs : gs = Append(frames, g)
        OBVIOUS
  <2> QED BY <2>1, <2>4, <2>5, GoingNext
<1> QED BY <1>1, <1>2

\* On a vector that has no name yet
LEMMA EnterNewGoes ==
    ASSUME GoingInv, document' = document, NEW c \in Classes, Enter(c, Append(recursive, <<>>)),
           Len(frames) # 0 => frames[Len(frames)].todo[1].kind = "base"
    PROVE  Going(frames, recursive)'
<1> DEFINE v == Append(recursive, <<>>)
           w == Append(Front(v), Append(Last(v), c))
<1>1. frames \in Seq(Frame) /\ recursive \in Seq(Seq(Classes))
      BY DEF GoingInv, Inv, Running, Named
<1>2. w = Append(recursive, <<c>>)
  <2>1. <<>> \in Seq(Classes)
        OBVIOUS
  <2>2. v \in Seq(Seq(Classes)) /\ Len(v) = Len(recursive) + 1 /\ v[Len(v)] = <<>>
        BY <1>1, <2>1
  <2>3. Last(v) = <<>>
        BY <2>2 DEF Last
  <2>4. Front(v) = recursive
    <3>1. Len(recursive) \in Nat /\ Len(v) # 0
          BY <1>1, <2>2
    <3>2. /\ Front(v) \in Seq(Seq(Classes)) /\ Len(Front(v)) = Len(recursive)
          /\ \A i \in 1..Len(recursive) : Front(v)[i] = recursive[i]
      <4>1. /\ Front(v) \in Seq(Seq(Classes)) /\ Len(Front(v)) = Len(v) - 1
            /\ \A i \in 1..(Len(v) - 1) : Front(v)[i] = v[i]
            BY <2>2, <3>1, FrontIs
      <4>2. \A i \in 1..Len(recursive) : v[i] = recursive[i]
            BY <1>1, <2>1
      <4> HIDE DEF v
      <4>3. Len(v) - 1 = Len(recursive)
            BY <2>2, <3>1
      <4> QED BY <4>1, <4>2, <4>3
    <3> DEFINE q == Front(v)
    <3> HIDE DEF q, v
    <3>3. q = recursive
      <4>1. q \in Seq(Seq(Classes)) /\ Len(q) = Len(recursive) /\ \A i \in 1..Len(recursive) : q[i] = recursive[i]
            BY <3>2 DEF q
      <4> QED BY <1>1, <4>1, SameSequence
    <3> QED BY <3>3 DEF q
  <2>5. Append(<<>>, c) = <<c>>
        OBVIOUS
  <2> QED BY <2>3, <2>4, <2>5
<1>3. ASSUME NEW g \in Frame, g.class = c, NEW start, Laid(frames, recursive, start)
      PROVE  \E st : Laid(Append(frames, g), w, st)
  <2>1. \E st : Laid(Append(frames, g), Append(recursive, <<g.class>>), st)
        BY <1>1, <1>3, LaidBase
  <2> QED BY <1>2, <1>3, <2>1
<1>4. Enter(c, v)
      OBVIOUS
<1>5. PICK x : x = w
      OBVIOUS
<1> HIDE DEF v
<1> QED BY <1>3, <1>4, <1>5, EnterGoes

LEMMA EnterBaseGoes == ASSUME GoingInv, EnterBase PROVE Going(frames, recursive)'
<1>1. AtEdge /\ Edge.kind = "base" /\ document' = document /\ Enter(Leaf, Append(recursive, <<>>))
      BY DEF EnterBase
<1>2. Leaf \in Classes /\ frames[Len(frames)].todo[1].kind = "base"
  <2>1. Leaf \in Classes /\ frames # <<>> /\ Edge = Top.todo[1]
        BY <1>1, EdgeTop DEF GoingInv
  <2>2. Top = frames[Len(frames)]
        BY <2>1, TopIs DEF GoingInv
  <2> QED BY <1>1, <2>1, <2>2
<1> QED BY <1>1, <1>2, EnterNewGoes

LEMMA RecordGoes == ASSUME GoingInv, Record PROVE Going(frames, recursive)'
<1> DEFINE c == Head(pending)
<1>1. document' = document /\ frames = <<>> /\ pending # <<>> /\ Enter(c, <<<<>>>>)
      BY DEF Record
<1>2. c \in Classes
      BY <1>1 DEF GoingInv, Inv
<1>3. recursive = <<>>
  <2>1. recursive \in Seq(Seq(Classes)) /\ frames \in Seq(Frame)
        BY DEF GoingInv, Inv, Named, Running
  <2>2. PICK start : start \in [1..Len(recursive) -> 1..Len(frames)]
        BY DEF GoingInv, Going
  <2>3. 1..Len(frames) = {}
        BY <1>1
  <2>4. ASSUME Len(recursive) # 0 PROVE FALSE
    <3>1. 1 \in 1..Len(recursive)
          BY <2>1, <2>4
    <3> QED BY <2>2, <2>3, <3>1
  <2> QED BY <2>1, <2>4
<1>4. Append(recursive, <<>>) = <<<<>>>>
      BY <1>3
<1>5. Len(frames) = 0
      BY <1>1
<1> HIDE DEF c
<1> QED BY <1>1, <1>2, <1>4, <1>5, EnterNewGoes

LEMMA EnterMemberGoes == ASSUME GoingInv, EnterMember PROVE Going(frames, recursive)'
<1> DEFINE w == Append(Front(recursive), Append(Last(recursive), Leaf))
<1>1. AtEdge /\ Edge.kind # "base" /\ Leaf \in Classes /\ document' = document /\ Enter(Leaf, recursive)
      BY DEF EnterMember
<1>2. /\ frames \in Seq(Frame) /\ Len(frames) # 0 /\ Top = frames[Len(frames)] /\ Edge = Top.todo[1]
      BY <1>1, TopIs, EdgeTop DEF GoingInv
<1>3. recursive \in Seq(Seq(Classes)) /\ Len(recursive) # 0
      BY <1>2, OnVector DEF GoingInv, Inv, Named
<1>4. frames[Len(frames)].todo[1].kind # "base"
      BY <1>1, <1>2
<1>5. ASSUME NEW g \in Frame, g.class = Leaf, NEW start, Laid(frames, recursive, start)
      PROVE  \E st : Laid(Append(frames, g), w, st)
  <2>1. Laid(Append(frames, g), Append(Front(recursive), Append(Last(recursive), g.class)), start)
        BY <1>2, <1>3, <1>4, <1>5, LaidMember
  <2> QED BY <1>5, <2>1
<1>6. PICK x : x = w
      OBVIOUS
<1> QED BY <1>1, <1>5, <1>6, EnterGoes

\* A call at its end: what its class is made of is clear, but for the classes around it
LEMMA EndClear ==
    ASSUME GoingInv, AtEnd, NEW V \in SUBSET Classes,
           Around(frames, Len(frames)) \subseteq {Top.class} \cup V
    PROVE  Clear(Top.class, V)
<1> DEFINE x == Top.class
           n == Len(frames)
           W == V \cup {x}
<1>1. /\ document \in [Classes -> Description] /\ n \in 1..n /\ Top = frames[n] /\ Top \in Frame
      BY TopIs DEF AtEnd, GoingInv
<1>2. x \in Classes
      BY <1>1 DEF Frame
<1>3. Len(Top.todo) = 0
      BY DEF AtEnd
<1>4. \A k \in 1..(Len(Edges(x)) - 0) : Passed(Edges(x)[k], Around(frames, n))
      BY <1>1, <1>3 DEF GoingInv, Going, PassedBy
<1>5. Len(Edges(x)) - 0 = Len(Edges(x))
  <2>1. Len(Edges(x)) \in Nat
        BY <1>1, <1>2, EdgesType
  <2> QED BY <2>1
<1>6. Around(frames, n) \subseteq W
      OBVIOUS
<1> HIDE DEF x, n, W
<1>7. \A k \in 1..Len(Edges(x)) : Passed(Edges(x)[k], W)
      BY <1>4, <1>5, <1>6, PassedMore
<1>8. W = V \cup {x}
      BY DEF W
<1>9. Clear(x, V)
      BY <1>1, <1>2, <1>7, <1>8, ClearOf
<1> QED BY <1>9 DEF x

LEMMA StoreGoes ==
    ASSUME GoingInv, Store
    PROVE  Going(frames, recursive)' /\ Stored(Top.class)
<1>1. /\ AtEnd /\ Len(frames) = 1 /\ frames' = <<>> /\ recursive' = Popped(recursive)
      /\ document' = document
      BY DEF Store
<1>2. frames \in Seq(Frame) /\ Named(frames, recursive)
      BY DEF GoingInv, Inv, Running
<1>3. Front(frames) = <<>>
      BY <1>1, <1>2 DEF Front
<1>4. Going(Front(frames), Popped(recursive))
      BY <1>1, <1>2, GoingBack DEF GoingInv
<1>5. Going(frames, recursive)'
      BY <1>1, <1>3, <1>4, GoingNext
<1>6. /\ document \in [Classes -> Description] /\ Top = frames[1] /\ Top \in Frame
      BY <1>1, TopIs DEF AtEnd, GoingInv
<1>7. Clear(Top.class, {})
  <2>1. Around(frames, Len(frames)) \subseteq {Top.class} \cup {}
        BY <1>1, <1>6, AroundFirst
  <2> QED BY <1>1, <2>1, EndClear
<1>8. \A k \in 1..Len(Edges(Top.class)) : Sound(Edges(Top.class)[k])
  <2> DEFINE x == Top.class
             z == Len(Edges(x))
  <2>1. z \in Nat
        BY <1>6, EdgesType DEF Frame
  <2>2. Len(frames[1].todo) = 0 /\ 1 \in 1..Len(frames)
        BY <1>1, <1>6 DEF AtEnd
  <2>3. \A k \in 1..(z - 0) : Passed(Edges(x)[k], Around(frames, 1))
        BY <1>6, <2>2 DEF GoingInv, Going, PassedBy
  <2>4. z - 0 = z
        BY <2>1
  <2> HIDE DEF z, x
  <2>5. \A k \in 1..z : Sound(Edges(x)[k])
        BY <2>3, <2>4 DEF Passed
  <2> QED BY <2>5 DEF z, x
<1> QED BY <1>5, <1>7, <1>8 DEF Stored

LEMMA LeaveGoes == ASSUME GoingInv, Leave PROVE Going(frames, recursive)'
<1> DEFINE n == Len(frames)
           outer == Front(frames)
           caller == Last(outer)
           g == Took(caller, Top.list, Open)
           v == Popped(recursive)
<1>1. AtEnd /\ n > 1 /\ frames # <<>>
      BY DEF Leave, AtEnd
<1>2. CASE NullDereference
      BY <1>2, RestStep DEF NullDereference
<1>3. CASE /\ ~(Head(caller.todo).kind = "base" /\ document[Top.class].extended)
           /\ frames' = Append(Front(outer), g) /\ recursive' = v
           /\ UNCHANGED <<document, pending, resources, pc>>
  <2>1. /\ document \in [Classes -> Description] /\ Running(frames) /\ frames \in Seq(Frame)
        /\ n \in Nat /\ Top = frames[n] /\ Top \in Frame
        BY <1>1, TopIs DEF GoingInv
  <2>2. /\ outer \in Seq(Frame) /\ Len(outer) = n - 1 /\ \A i \in 1..(n - 1) : outer[i] = frames[i]
        BY <1>1, <2>1, FrontIs
  <2>3. Running(outer) /\ Going(outer, v) /\ v \in Seq(Seq(Classes))
    <3>1. Running(outer)
          BY <1>1, <2>1, Ended
    <3>2. Named(frames, recursive) /\ Going(frames, recursive)
          BY DEF GoingInv, Inv
    <3>3. Going(outer, v)
          BY <1>1, <2>1, <3>2, GoingBack
    <3>4. Named(outer, v)
          BY <1>1, <2>1, <3>2, PopStep
    <3> QED BY <3>1, <3>3, <3>4 DEF Named
  <2> HIDE DEF outer, v
  <2>4. Len(outer) # 0 /\ caller = outer[Len(outer)] /\ n - 1 \in 1..(n - 1) /\ n - 1 \in 1..n /\ (n - 1) + 1 = n
        BY <1>1, <2>1, <2>2 DEF Last
  <2>5. caller = frames[n - 1] /\ caller \in Frame
        BY <2>1, <2>2, <2>4
  <2> HIDE DEF caller
  <2>6. Len(caller.todo) # 0 /\ caller.todo[1].type.leaf = Top.class
    <3>1. Waits(frames[n - 1], frames[(n - 1) + 1].class)
          BY <2>1, <2>4 DEF Running
    <3> QED BY <2>1, <2>4, <2>5, <3>1 DEF Waits
  <2>7. Top.class \in Classes /\ caller.todo \in Seq(Call) /\ Head(caller.todo) = caller.todo[1]
    <3>1. caller.todo \in Seq(Call)
          BY <2>5 DEF Frame
    <3>2. Head(caller.todo) = caller.todo[1]
          BY <2>6, <3>1
    <3> QED BY <2>1, <3>1, <3>2 DEF Frame
  <2>8. Sound(caller.todo[1])
        BY <1>3, <2>6, <2>7, LeadsSound
  <2> DEFINE V == Around(frames, n - 1)
  <2>9. V \in SUBSET Classes
    <3>1. \A j \in 1..(n - 1) : frames[j] \in Frame
          BY <2>1
    <3> QED BY <3>1 DEF Around, Frame
  <2>10. /\ n \in Nat /\ n > 1
         /\ Around(frames, n) \subseteq {Top.class} \cup
                  (IF caller.todo[1].kind = "base" THEN {} ELSE V)
         BY <1>1, <2>1, <2>5, AroundIs
  <2>11. Passed(caller.todo[1], V)
    <3> HIDE DEF V
    <3>1. CASE caller.todo[1].kind = "base"
      <4>1. Clear(Top.class, {})
        <5>1. Around(frames, Len(frames)) \subseteq {Top.class} \cup {}
              BY <2>10, <3>1
        <5> QED BY <1>1, <5>1, EndClear
      <4> QED BY <2>6, <2>8, <3>1, <4>1 DEF Passed
    <3>2. CASE caller.todo[1].kind # "base"
      <4>1. Clear(Top.class, V)
        <5>1. Around(frames, Len(frames)) \subseteq {Top.class} \cup V
              BY <2>10, <3>2
        <5> QED BY <1>1, <2>9, <5>1, EndClear
      <4> QED BY <2>6, <2>8, <3>2, <4>1 DEF Passed
    <3> QED BY <3>1, <3>2
  <2>12. Around(outer, Len(outer)) = V
    <3>1. \A j \in 1..((n - 1) - 1) : j \in 1..(n - 1)
          BY <2>1
    <3>2. n - 1 \in Nat
          BY <1>1, <2>1
    <3> QED BY <2>2, <2>4, <3>1, <3>2, AroundSame
  <2>13. g.class = caller.class /\ Len(g.todo) = Len(caller.todo) - 1
    <3>1. g.class = caller.class /\ g.todo = Tail(caller.todo)
          BY <2>5 DEF Took, Frame
    <3>2. Len(Tail(caller.todo)) = Len(caller.todo) - 1
          BY <2>6, <2>7
    <3> QED BY <3>1, <3>2
  <2>14. Passed(caller.todo[1], Around(outer, Len(outer)))
         BY <2>11, <2>12
  <2> HIDE DEF g, V, n
  <2>15. PICK gs : gs = Append(Front(outer), g)
         OBVIOUS
  <2>16. /\ Len(gs) = Len(outer) /\ gs[Len(outer)] = g
         /\ \A i \in 1..(Len(outer) - 1) : gs[i] = outer[i]
    <3>1. outer \in Seq(Frame) /\ Len(outer) # 0
          BY <2>2, <2>4
    <3> QED BY <2>15, <3>1, ReplacedCall
  <2>17. Going(gs, v)
         BY <2>1, <2>2, <2>3, <2>4, <2>6, <2>13, <2>14, <2>16, GoingOn
  <2> QED BY <1>3, <2>15, <2>17, GoingNext
<1> QED BY <1>2, <1>3 DEF Leave

\* Every class is still to come, is being recorded, or is stored
LEMMA RecordedKept ==
    ASSUME Inv, pending' = pending, resources' = resources,
           frames # <<>> => frames' # <<>> /\ frames'[1].class = frames[1].class,
           NEW c, Recorded(c)
    PROVE  Recorded(c)'
BY DEF Recorded

\* The calls below the last one stay, and the last keeps its class
LEMMA FirstKept ==
    ASSUME NEW fs \in Seq(Frame), Len(fs) # 0,
           NEW gs, Len(gs) = Len(fs), gs[Len(fs)].class = fs[Len(fs)].class,
           \A i \in 1..(Len(fs) - 1) : gs[i] = fs[i]
    PROVE  gs # <<>> /\ gs[1].class = fs[1].class
<1>1. gs # <<>>
      OBVIOUS
<1>2. CASE Len(fs) = 1
      BY <1>2
<1>3. CASE Len(fs) # 1
  <2>1. 1 \in 1..(Len(fs) - 1)
        BY <1>3
  <2> QED BY <2>1
<1> QED BY <1>1, <1>2, <1>3

LEMMA EnterRecorded ==
    ASSUME Inv, NEW x \in Classes, NEW vectors, Enter(x, vectors), pc' = "decoding"
    PROVE  /\ frames' # <<>>
           /\ frames # <<>> => frames'[1].class = frames[1].class
           /\ frames = <<>> => frames'[1].class = x
<1> DEFINE g == [class |-> x, todo |-> Edges(x), list |-> {}, cuts |-> {}]
<1>1. frames' = Append(frames, g)
      BY DEF Enter
<1>2. frames \in Seq(Frame) /\ document \in [Classes -> Description]
      BY DEF Inv, Running
<1>3. g \in Frame /\ g.class = x
  <2>1. Edges(x) \in Seq(Call)
        BY <1>2, EdgesType
  <2> QED BY <2>1 DEF Frame
<1> HIDE DEF g
<1> QED BY <1>1, <1>2, <1>3

LEMMA RecordedStep ==
    ASSUME Inv, Inv', Next, pc' = "decoding", \A c \in Classes : Recorded(c), NEW c \in Classes
    PROVE  Recorded(c)'
<1>1. frames \in Seq(Frame)
      BY DEF Inv, Running
<1>2. CASE Record
  <2> DEFINE h == Head(pending)
  <2>1. /\ frames = <<>> /\ pending # <<>> /\ pending' = Tail(pending) /\ resources' = resources
        /\ Enter(h, <<<<>>>>) /\ pending \in Seq(Classes)
        BY <1>2 DEF Record, Inv
  <2>2. h \in Classes
        BY <2>1
  <2>3. frames' # <<>> /\ frames'[1].class = h
        BY <2>1, <2>2, EnterRecorded
  <2>4. c \in Range(pending) \/ resources[c] # None
        BY <2>1 DEF Recorded
  <2>5. CASE c \in Range(pending)
    <3>1. PICK i \in 1..Len(pending) : pending[i] = c
          BY <2>1, <2>5 DEF Range
    <3>2. CASE i = 1
      <4>1. c = h
            BY <2>1, <3>1, <3>2
      <4> QED BY <2>3, <4>1 DEF Recorded
    <3>3. CASE i # 1
      <4>1. i - 1 \in 1..Len(pending') /\ pending'[i - 1] = c
            BY <2>1, <3>1, <3>3
      <4>2. c \in Range(pending')
        <5>1. DOMAIN pending' = 1..Len(pending')
              BY <2>1
        <5> QED BY <4>1, <5>1 DEF Range
      <4> QED BY <4>2 DEF Recorded
    <3> QED BY <3>2, <3>3
  <2>6. CASE resources[c] # None
        BY <2>1, <2>6 DEF Recorded
  <2> QED BY <2>4, <2>5, <2>6
<1>3. CASE Store
  <2>1. /\ AtEnd /\ Len(frames) = 1 /\ pending' = pending
        /\ resources' = [resources EXCEPT ![Top.class] = [list |-> Top.list, cuts |-> Open]]
        BY <1>3 DEF Store
  <2>2. Top = frames[1] /\ Top.list \subseteq Field /\ Top.class \in Classes
        BY <2>1, TopIs, EndIs DEF AtEnd
  <2>3. Open \subseteq Classes
        BY <2>1, EndIs
  <2> DEFINE tree == [list |-> Top.list, cuts |-> Open]
  <2>4. tree # None
    <3>1. tree \in Tree
          BY <2>2, <2>3 DEF Tree
    <3> QED BY <3>1, NoneAssumption
  <2>5. resources' = [resources EXCEPT ![Top.class] = tree] /\ DOMAIN resources = Classes
        BY <2>1 DEF Inv, Kept
  <2> HIDE DEF tree
  <2>6. CASE c = Top.class
        BY <2>4, <2>5, <2>6 DEF Recorded
  <2>7. CASE c # Top.class
    <3>1. resources'[c] = resources[c]
          BY <2>5, <2>7
    <3>2. c \in Range(pending) \/ resources[c] # None
          BY <2>2, <2>7 DEF Recorded
    <3> QED BY <2>1, <3>1, <3>2 DEF Recorded
  <2> QED BY <2>6, <2>7
<1>4. CASE EnterBase \/ EnterMember
  <2>1. /\ pending' = pending /\ resources' = resources /\ AtEdge /\ Leaf \in Classes
        /\ \E v : Enter(Leaf, v)
        BY <1>4, EdgeTop DEF EnterBase, EnterMember
  <2>2. frames # <<>>
        BY <2>1 DEF AtEdge
  <2>3. frames' # <<>> /\ frames'[1].class = frames[1].class
        BY <2>1, <2>2, EnterRecorded
  <2> QED BY <2>1, <2>3, RecordedKept
<1>5. CASE Cached \/ Recursive \/ TakeOther
  <2>1. /\ pending' = pending /\ resources' = resources /\ frames # <<>>
        /\ \/ frames' = frames
           \/ \E list, cuts : frames' = Append(Front(frames), Took(Top, list, cuts))
           \/ frames' = Append(Front(frames), [Top EXCEPT !.todo = Tail(Top.todo)])
        BY <1>5 DEF Cached, Recursive, TakeOther, NullDereference, Take, Skip, AtEdge
  <2>2. Len(frames) # 0 /\ Top = frames[Len(frames)] /\ Top \in Frame
        BY <2>1, TopIs
  <2>3. CASE frames' = frames
        BY <2>1, <2>3, RecordedKept
  <2>4. ASSUME NEW list, NEW cuts, frames' = Append(Front(frames), Took(Top, list, cuts))
        PROVE  Recorded(c)'
    <3> DEFINE g == Took(Top, list, cuts)
    <3>1. g.class = frames[Len(frames)].class
          BY <2>2 DEF Took, Frame
    <3>2. frames' = Append(Front(frames), g)
          BY <2>4
    <3> HIDE DEF g
    <3>3. frames' # <<>> /\ frames'[1].class = frames[1].class
      <4>1. /\ Len(frames') = Len(frames) /\ frames'[Len(frames)] = g
            /\ \A i \in 1..(Len(frames) - 1) : frames'[i] = frames[i]
            BY <1>1, <2>2, <3>2, ReplacedCall
      <4> QED BY <1>1, <2>2, <3>1, <4>1, FirstKept
    <3> QED BY <2>1, <3>3, RecordedKept
  <2>5. CASE frames' = Append(Front(frames), [Top EXCEPT !.todo = Tail(Top.todo)])
    <3> DEFINE g == [Top EXCEPT !.todo = Tail(Top.todo)]
    <3>1. g.class = frames[Len(frames)].class
          BY <2>2 DEF Frame
    <3>2. frames' = Append(Front(frames), g)
          BY <2>5
    <3> HIDE DEF g
    <3>3. frames' # <<>> /\ frames'[1].class = frames[1].class
      <4>1. /\ Len(frames') = Len(frames) /\ frames'[Len(frames)] = g
            /\ \A i \in 1..(Len(frames) - 1) : frames'[i] = frames[i]
            BY <1>1, <2>2, <3>2, ReplacedCall
      <4> QED BY <1>1, <2>2, <3>1, <4>1, FirstKept
    <3> QED BY <2>1, <3>3, RecordedKept
  <2> QED BY <2>1, <2>3, <2>4, <2>5
<1>6. CASE Leave
  <2> DEFINE n == Len(frames)
             outer == Front(frames)
             g == Took(Last(outer), Top.list, Open)
  <2>1. /\ pending' = pending /\ resources' = resources /\ n > 1
        /\ frames' = frames \/ frames' = Append(Front(outer), g)
        BY <1>6 DEF Leave, NullDereference
  <2>2. CASE frames' = frames
        BY <2>1, <2>2, RecordedKept
  <2>3. CASE frames' = Append(Front(outer), g)
    <3>1. /\ outer \in Seq(Frame) /\ Len(outer) = n - 1 /\ n \in Nat
          /\ \A i \in 1..(n - 1) : outer[i] = frames[i]
          BY <1>1, <2>1, FrontIs
    <3> HIDE DEF outer
    <3>2. Len(outer) # 0 /\ 1 \in 1..(n - 1) /\ Last(outer) = outer[Len(outer)] /\ Last(outer) \in Frame
      <4>1. Len(outer) # 0 /\ 1 \in 1..(n - 1)
            BY <2>1, <3>1
      <4> QED BY <3>1, <4>1, FrontIs DEF Last
    <3>3. g.class = outer[Len(outer)].class
          BY <3>2 DEF Took, Frame
    <3> HIDE DEF g
    <3>4. frames' # <<>> /\ frames'[1].class = outer[1].class
      <4>1. /\ Len(frames') = Len(outer) /\ frames'[Len(outer)] = g
            /\ \A i \in 1..(Len(outer) - 1) : frames'[i] = outer[i]
        <5>1. outer \in Seq(Frame) /\ Len(outer) # 0
              BY <3>1, <3>2
        <5> QED BY <2>3, <5>1, ReplacedCall
      <4> QED BY <3>1, <3>2, <3>3, <4>1, FirstKept
    <3>5. outer[1] = frames[1]
          BY <3>1, <3>2
    <3> QED BY <2>1, <3>4, <3>5, RecordedKept
  <2> QED BY <2>1, <2>2, <2>3
<1> QED BY <1>2, <1>3, <1>4, <1>5, <1>6 DEF Next

LEMMA ClearInit == Init => ClearInv
<1> SUFFICES ASSUME Init PROVE ClearInv
    OBVIOUS
<1>1. Inv
      BY InvInit
<1>2. frames = <<>> /\ recursive = <<>> /\ resources = [c \in Classes |-> None] /\ pending = Order
      BY DEF Init
<1>3. Going(frames, recursive)
  <2> DEFINE start == [m \in 1..0 |-> 0]
  <2>1. start \in [1..0 -> 1..0] /\ 1..0 = {} /\ Len(<<>>) = 0
        OBVIOUS
  <2> HIDE DEF start
  <2>2. Laid(<<>>, <<>>, start)
        BY <2>1 DEF Laid
  <2>3. \E st \in [1..0 -> 1..0] : Laid(<<>>, <<>>, st)
        BY <2>1, <2>2
  <2>4. Going(<<>>, <<>>)
        BY <2>1, <2>3 DEF Going
  <2> QED BY <1>2, <2>4
<1>4. \A c \in Classes : Recorded(c)
      BY <1>2, OrderAssumption DEF Recorded
<1> QED BY <1>1, <1>2, <1>3, <1>4 DEF ClearInv

LEMMA ClearStep == ClearInv /\ [Next]_vars => ClearInv'
<1> SUFFICES ASSUME ClearInv, [Next]_vars PROVE ClearInv'
    OBVIOUS
<1>1. Inv /\ GoingInv /\ Inv' /\ \A c \in Classes : resources[c] # None => Stored(c)
      BY InvStep DEF ClearInv, GoingInv
<1>2. CASE UNCHANGED vars
  <2>1. /\ document' = document /\ frames' = frames /\ recursive' = recursive
        /\ pending' = pending /\ resources' = resources /\ pc' = pc
        BY <1>2 DEF vars
  <2>2. Going(frames, recursive)'
        BY <1>1, <2>1, RestStep
  <2>3. \A c : Stored(c)' <=> Stored(c)
        BY <2>1, SameClear
  <2>4. \A c : Recorded(c)' <=> Recorded(c)
        BY <2>1 DEF Recorded
  <2> QED BY <1>1, <2>1, <2>2, <2>3, <2>4 DEF ClearInv
<1>3. CASE Next
  <2>1. document' = document
        BY <1>3 DEF Next, Record, Cached, Recursive, EnterBase, EnterMember, TakeOther, Store,
                    Leave, NullDereference, Take, Skip
  <2>2. Going(frames, recursive)'
        BY <1>1, <1>3, RecordGoes, CachedGoes, RecursiveGoes, EnterBaseGoes, EnterMemberGoes,
           TakeOtherGoes, StoreGoes, LeaveGoes DEF Next
  <2>3. \A c : Stored(c)' <=> Stored(c)
        BY <2>1, SameClear
  <2>4. ASSUME NEW c \in Classes, resources'[c] # None PROVE Stored(c)
    <3>1. CASE Store
      <4>1. Stored(Top.class)
            BY <1>1, <3>1, StoreGoes
      <4>2. /\ resources' = [resources EXCEPT ![Top.class] = [list |-> Top.list, cuts |-> Open]]
            /\ DOMAIN resources = Classes
            BY <1>1, <3>1 DEF Store, Inv, Kept
      <4>3. CASE c = Top.class
            BY <4>1, <4>3
      <4>4. CASE c # Top.class
        <5>1. resources'[c] = resources[c]
              BY <4>2, <4>4
        <5> QED BY <1>1, <2>4, <5>1
      <4> QED BY <4>3, <4>4
    <3>2. CASE resources' = resources
          BY <1>1, <2>4, <3>2
    <3> QED BY <1>3, <3>1, <3>2
            DEF Next, Record, Cached, Recursive, EnterBase, EnterMember, TakeOther, Leave,
                NullDereference, Take, Skip
  <2>5. ASSUME pc' = "decoding", NEW c \in Classes PROVE Recorded(c)'
    <3>1. pc = "decoding"
          BY <1>3 DEF Next, Record, Cached, Recursive, EnterBase, EnterMember, TakeOther, Store,
                      Leave, AtEdge, AtEnd
    <3> QED BY <1>1, <1>3, <2>5, <3>1, RecordedStep DEF ClearInv
  <2> QED BY <1>1, <2>2, <2>3, <2>4, <2>5 DEF ClearInv
<1> QED BY <1>2, <1>3

LEMMA DoneClear ==
    ASSUME ClearInv, Done
    PROVE  ~(LeadsBack \/ Faulty)
<1>1. /\ document \in [Classes -> Description]
      /\ pc = "decoding" /\ frames = <<>> /\ pending = <<>>
      BY DEF ClearInv, Inv, Done
<1>2. ASSUME NEW c \in Classes PROVE Stored(c)
  <2>1. Range(pending) = {}
        BY <1>1 DEF Range
  <2> QED BY <1>1, <2>1 DEF ClearInv, Recorded
<1>3. ~Faulty
  <2> SUFFICES ASSUME Faulty PROVE FALSE
      OBVIOUS
  <2>1. PICK c \in Classes : \E e \in Range(Edges(c)) : ~Sound(e)
        BY DEF Faulty, Sound
  <2>2. PICK e \in Range(Edges(c)) : ~Sound(e)
        BY <2>1
  <2>3. Edges(c) \in Seq(Call)
        BY <1>1, EdgesType
  <2>4. PICK k \in 1..Len(Edges(c)) : e = Edges(c)[k]
        BY <2>3 DEF Range
  <2>5. Stored(c)
        BY <1>2
  <2> QED BY <2>2, <2>4, <2>5 DEF Stored
<1>4. ~LeadsBack
  <2> SUFFICES ASSUME LeadsBack PROVE FALSE
      OBVIOUS
  <2>1. PICK c \in Classes : Bad(c)
        BY DEF LeadsBack, Bad
  <2>2. Clear(c, {})
        BY <1>2 DEF Stored
  <2> QED BY <2>1, <2>2 DEF Clear, ClearBy
<1> QED BY <1>3, <1>4

\* A description stays what it is
LEMMA StaysFaulty == (LeadsBack \/ Faulty) /\ [Next]_vars => (LeadsBack \/ Faulty)'
<1> SUFFICES ASSUME LeadsBack \/ Faulty, [Next]_vars PROVE (LeadsBack \/ Faulty)'
    OBVIOUS
<1>1. document' = document
      BY DEF vars, Next, Record, Cached, Recursive, EnterBase, EnterMember, TakeOther, Store,
             Leave, NullDereference, Take, Skip
<1>2. \A c : Edges(c)' = Edges(c)
      BY <1>1, SameDocument
<1>3. \A c : Parts(c)' = Parts(c)
      BY <1>2 DEF Parts
<1>4. \A c : LeadsTo(c)' = LeadsTo(c)
      BY <1>3 DEF LeadsTo
<1>5. LeadsBack' <=> LeadsBack
      BY <1>1, <1>4 DEF LeadsBack
<1>6. Faulty' <=> Faulty
      BY <1>1, <1>2 DEF Faulty
<1> QED BY <1>5, <1>6

(* A description with a base that leads back to a class made of it, or with *)
(* something a null is dereferenced for, is never decoded to its end,       *)
(* however deep the stack is: the half of DecodingEnds that says nothing    *)
(* of fairness (the recursion of decodeClassOrStruct and decodeMember).     *)
THEOREM NeverDone == Spec => (LeadsBack \/ Faulty => []~Done)
<1>1. ClearInv => (LeadsBack \/ Faulty => ~Done)
      BY DoneClear
<1>2. Spec => []ClearInv
      BY ClearInit, ClearStep, PTL DEF Spec
<1> QED BY <1>1, <1>2, StaysFaulty, PTL DEF Spec

-----------------------------------------------------------------------------
\* What a description leads to

LEMMA LeadsIs ==
    ASSUME NEW c \in Classes
    PROVE  /\ c \in LeadsTo(c)
           /\ \A d \in LeadsTo(c) : Parts(d) \subseteq LeadsTo(c)
           /\ \A d \in LeadsTo(c) : LeadsTo(d) \subseteq LeadsTo(c)
<1>1. c \in LeadsTo(c)
      BY DEF LeadsTo
<1>2. ASSUME NEW d \in LeadsTo(c) PROVE Parts(d) \subseteq LeadsTo(c)
  <2> SUFFICES ASSUME NEW e \in Parts(d), NEW S \in SUBSET Classes, c \in S,
                      \A b \in S : Parts(b) \subseteq S
               PROVE  e \in S
    <3>1. Parts(d) \subseteq Classes
          BY DEF Parts
    <3> QED BY <3>1 DEF LeadsTo
  <2>1. d \in S
        BY DEF LeadsTo
  <2> QED BY <2>1
<1>3. LeadsTo(c) \in SUBSET Classes
      BY DEF LeadsTo
<1>4. ASSUME NEW d \in LeadsTo(c) PROVE LeadsTo(d) \subseteq LeadsTo(c)
      BY <1>2, <1>3, <1>4 DEF LeadsTo
<1> QED BY <1>1, <1>2, <1>4

\* The edge a call is at leads to a class it is made of
LEMMA EdgeLeads ==
    ASSUME document \in [Classes -> Description], NEW f \in Frame, Halfway(f), Len(f.todo) # 0
    PROVE  /\ f.todo[1] \in Range(Edges(f.class))
           /\ f.todo[1].type.leaf \in Classes => f.todo[1].type.leaf \in Parts(f.class)
           /\ f.todo[1].kind = "base" => f.todo[1].type.leaf \in Range(document[f.class].bases)
<1> DEFINE k == Len(Edges(f.class)) - Len(f.todo) + 1
<1>1. k \in 1..Len(Edges(f.class)) /\ f.todo[1] = Edges(f.class)[k]
      BY EdgeAt
<1> HIDE DEF k
<1>2. f.class \in Classes /\ Edges(f.class) \in Seq(Call)
  <2>1. f.class \in Classes
        BY DEF Frame
  <2> QED BY <2>1, EdgesType
<1>3. f.todo[1] \in Range(Edges(f.class))
      BY <1>1, <1>2 DEF Range
<1>4. f.todo[1].type.leaf \in Classes => f.todo[1].type.leaf \in Parts(f.class)
      BY <1>3 DEF Parts
<1>5. f.todo[1].kind = "base" => f.todo[1].type.leaf \in Range(document[f.class].bases)
      BY <1>1, <1>2, EdgeIs
<1> QED BY <1>3, <1>4, <1>5

\* The class of a call leads to those of the calls it makes
LEMMA CallsLead ==
    ASSUME document \in [Classes -> Description], NEW fs, Running(fs),
           NEW j \in 1..Len(fs), NEW i \in j..Len(fs)
    PROVE  fs[i].class \in LeadsTo(fs[j].class)
<1> DEFINE c == fs[j].class
           T == {m \in j..Len(fs) : fs[m].class \notin LeadsTo(c)}
<1>1. /\ fs \in Seq(Frame) /\ Len(fs) \in Nat
      /\ \A m \in 1..Len(fs) : fs[m] \in Frame /\ fs[m].class \in Classes
  <2>1. fs \in Seq(Frame)
        BY DEF Running
  <2>2. Len(fs) \in Nat /\ \A m \in 1..Len(fs) : fs[m] \in Frame
        BY <2>1
  <2> QED BY <2>1, <2>2 DEF Frame
<1>2. SUFFICES ASSUME T # {} PROVE FALSE
      OBVIOUS
<1>3. T \in SUBSET Nat
      BY <1>1
<1>4. PICK m \in T : \A k \in T : ~(k < m)
      BY <1>2, <1>3, Least
<1>5. c \in Classes /\ c \in LeadsTo(c) /\ \A d \in LeadsTo(c) : Parts(d) \subseteq LeadsTo(c)
      BY <1>1, LeadsIs
<1>6. m # j
      BY <1>4, <1>5
<1>7. m - 1 \in j..Len(fs) /\ m - 1 < m /\ m - 1 \in 1..Len(fs) /\ m - 1 < Len(fs) /\ (m - 1) + 1 = m
      BY <1>1, <1>4, <1>6
<1>8. fs[m - 1].class \in LeadsTo(c)
      BY <1>4, <1>7
<1>9. Waits(fs[m - 1], fs[m].class) /\ Halfway(fs[m - 1])
  <2>1. Waits(fs[m - 1], fs[(m - 1) + 1].class) /\ Halfway(fs[m - 1])
        BY <1>7 DEF Running
  <2> QED BY <1>7, <2>1
<1>10. fs[m].class \in Parts(fs[m - 1].class)
  <2>1. fs[m].class \in Classes
        BY <1>1, <1>4
  <2> QED BY <1>1, <1>7, <1>9, <2>1, EdgeLeads DEF Waits
<1> QED BY <1>4, <1>5, <1>8, <1>10

\* A call whose class is on no name of the last vector has a base on the way to the last
LEMMA LaidOut ==
    ASSUME NEW fs \in Seq(Frame), NEW v \in Seq(Seq(Classes)), NEW start, Laid(fs, v, start),
           Len(v) # 0, NEW j \in 1..Len(fs), fs[j].class \notin Range(Last(v))
    PROVE  \E k \in j..(Len(fs) - 1) : fs[k].todo[1].kind = "base"
<1> DEFINE l == Len(v)
           n == Len(fs)
           s == v[l]
           b == start[l]
<1>1. l \in 1..l /\ n \in Nat /\ s \in Seq(Classes) /\ b \in 1..n /\ Last(v) = s
  <2>1. l \in 1..l /\ n \in Nat /\ Last(v) = s
        BY DEF Last
  <2>2. s \in Seq(Classes)
        BY <2>1
  <2>3. start \in [1..l -> 1..n]
        BY DEF Laid
  <2> QED BY <2>1, <2>2, <2>3
<1>2. b + Len(s) = n + 1 /\ \A k \in 1..Len(s) : s[k] = fs[b + k - 1].class
  <2>1. b + Len(s) = n + 1
        BY <1>1 DEF Laid
  <2>2. \A k \in 1..Len(s) : s[k] = fs[b + k - 1].class
    <3> HIDE DEF l
    <3> QED BY <1>1 DEF Laid, l
  <2> QED BY <2>1, <2>2
<1>3. b # 1 => fs[b - 1].todo[1].kind = "base"
  <2> HIDE DEF l
  <2> QED BY <1>1 DEF Laid, l
<1> HIDE DEF s, b, l, n
<1>4. j < b
  <2> SUFFICES ASSUME b <= j PROVE FALSE
      BY <1>1 DEF n
  <2>1. j - b + 1 \in 1..Len(s) /\ b + (j - b + 1) - 1 = j
        BY <1>1, <1>2 DEF n
  <2>2. s[j - b + 1] = fs[j].class
        BY <1>2, <2>1
  <2> QED BY <1>1, <2>1, <2>2 DEF Range
<1>5. b # 1 /\ b - 1 \in j..(n - 1)
      BY <1>1, <1>4 DEF n
<1> QED BY <1>3, <1>5 DEF n

-----------------------------------------------------------------------------
\* Room on the stack

\* No class is decoded inside itself
Distinct(fs) == \A i, j \in 1..Len(fs) : i # j => fs[i].class # fs[j].class

\* A class is decoded inside another one
Inward ==
    /\ AtEdge
    /\ Leaf \in Classes
    /\ Edge.kind = "base" \/ Leaf \notin Range(Last(recursive))

\* It is none of the classes around it, unless a base leads back
LEMMA NewClass ==
    ASSUME Inv, Going(frames, recursive), Inward,
           NEW j \in 1..Len(frames), frames[j].class = Leaf
    PROVE  LeadsBack
<1> USE DEF Inward
<1> DEFINE n == Len(frames)
<1>1. /\ document \in [Classes -> Description] /\ Running(frames) /\ frames \in Seq(Frame)
      /\ n \in Nat /\ n # 0 /\ n \in 1..n /\ Top = frames[n] /\ Top \in Frame /\ Halfway(Top)
      BY TopIs, EdgeTop
<1>2. Len(Top.todo) # 0 /\ Edge = Top.todo[1] /\ Leaf = Top.todo[1].type.leaf
      BY EdgeTop
<1>3. /\ Leaf \in Parts(Top.class)
      /\ Edge.kind = "base" => Leaf \in Range(document[Top.class].bases)
      BY <1>1, <1>2, EdgeLeads
<1>4. Top.class \in LeadsTo(Leaf) /\ Top.class \in Classes
  <2>1. n \in j..n
        BY <1>1
  <2>2. frames[n].class \in LeadsTo(frames[j].class)
        BY <1>1, <2>1, CallsLead
  <2> QED BY <1>1, <2>2 DEF Frame
<1>5. CASE Edge.kind = "base"
      BY <1>3, <1>4, <1>5 DEF LeadsBack
<1>6. CASE Edge.kind # "base"
  <2>1. recursive \in Seq(Seq(Classes)) /\ Len(recursive) # 0
        BY <1>1, OnVector DEF Inv, Named
  <2>2. PICK start : Laid(frames, recursive, start)
        BY DEF Going
  <2>3. PICK k \in j..(n - 1) : frames[k].todo[1].kind = "base"
        BY <1>1, <1>6, <2>1, <2>2, LaidOut
  <2>4. k \in 1..n /\ k < n /\ k + 1 \in 1..n /\ k \in j..n /\ n \in (k + 1)..n
        BY <1>1
  <2> DEFINE c == frames[k].class
             b == frames[k + 1].class
  <2>5. c \in Classes /\ b \in Classes /\ frames[k] \in Frame
    <3>1. frames[k] \in Frame /\ frames[k + 1] \in Frame
          BY <1>1, <2>4
    <3> QED BY <3>1 DEF Frame
  <2>6. b \in Range(document[c].bases)
    <3>1. Halfway(frames[k]) /\ Waits(frames[k], b)
          BY <1>1, <2>4 DEF Running
    <3> QED BY <1>1, <2>3, <2>5, <3>1, EdgeLeads DEF Waits
  <2>7. c \in LeadsTo(Leaf)
        BY <1>1, <2>4, CallsLead
  <2>8. Top.class \in LeadsTo(b)
        BY <1>1, <2>4, CallsLead
  <2>9. Leaf \in LeadsTo(b)
        BY <1>3, <2>5, <2>8, LeadsIs
  <2>10. c \in LeadsTo(b)
         BY <2>5, <2>7, <2>9, LeadsIs
  <2> QED BY <2>5, <2>6, <2>10 DEF LeadsBack
<1> QED BY <1>5, <1>6

\* As many calls as there are classes only run if each class has one
LEMMA RoomFor ==
    ASSUME NEW fs \in Seq(Frame), Distinct(fs), NEW c \in Classes,
           \A j \in 1..Len(fs) : fs[j].class # c
    PROVE  Len(fs) < MaxDepth
<1> DEFINE n == Len(fs)
           S == 1..(n + 1)
           g == [i \in S |-> IF i = n + 1 THEN c ELSE fs[i].class]
<1>1. n \in Nat /\ \A i \in 1..n : fs[i].class \in Classes
  <2>1. n \in Nat /\ \A i \in 1..n : fs[i] \in Frame
        OBVIOUS
  <2> QED BY <2>1 DEF Frame
<1>2. \A i \in S : i \in 1..n \/ i = n + 1
  <2> HIDE DEF n
  <2> QED BY <1>1
<1>3. g \in [S -> Classes]
      BY <1>1, <1>2
<1>4. \A x, y \in S : x # y => g[x] # g[y]
  <2> SUFFICES ASSUME NEW x \in S, NEW y \in S, x # y PROVE g[x] # g[y]
      OBVIOUS
  <2>1. g[x] = (IF x = n + 1 THEN c ELSE fs[x].class) /\ g[y] = (IF y = n + 1 THEN c ELSE fs[y].class)
        OBVIOUS
  <2>2. CASE x = n + 1
        BY <1>2, <2>1, <2>2
  <2>3. CASE y = n + 1
        BY <1>2, <2>1, <2>3
  <2>4. CASE x # n + 1 /\ y # n + 1
        BY <1>2, <2>1, <2>4 DEF Distinct
  <2> QED BY <2>2, <2>3, <2>4
<1> HIDE DEF g
<1>5. IsFiniteSet(S) /\ Cardinality(S) = n + 1
  <2>1. IsFiniteSet(S) /\ Cardinality(S) = IF 1 > n + 1 THEN 0 ELSE (n + 1) - 1 + 1
        BY <1>1, FS_Interval
  <2> QED BY <1>1, <2>1
<1>6. ~(Cardinality(Classes) < Cardinality(S))
      BY <1>3, <1>4, <1>5, DepthAssumption, FS_PigeonHole
<1>7. Cardinality(Classes) \in Nat
      BY DepthAssumption, FS_CardinalityType
<1> HIDE DEF n, S
<1>8. n < MaxDepth
      BY <1>1, <1>5, <1>6, <1>7, DepthAssumption
<1> QED BY <1>8 DEF n

\* What a step does to the calls: one begins, or those behind the n-th have returned and
\* it has one edge less to go
CallBegins(c) == \E g \in Frame : g.class = c /\ frames' = Append(frames, g)

CallContinues(n) ==
    /\ n \in 1..Len(frames)
    /\ Len(frames') = n
    /\ \A j \in 1..(n - 1) : frames'[j] = frames[j]
    /\ frames'[n].class = frames[n].class
    /\ Len(frames[n].todo) \in Nat \ {0}
    /\ Len(frames'[n].todo) = Len(frames[n].todo) - 1

LEMMA EnterBegins ==
    ASSUME Inv, NEW c \in Classes, NEW vectors, Enter(c, vectors), pc' = "decoding"
    PROVE  CallBegins(c) /\ Len(frames) # MaxDepth
<1> DEFINE g == [class |-> c, todo |-> Edges(c), list |-> {}, cuts |-> {}]
<1>1. frames' = Append(frames, g) /\ Len(frames) # MaxDepth
      BY DEF Enter
<1>2. Edges(c) \in Seq(Call)
      BY EdgesType DEF Inv
<1>3. g \in Frame /\ g.class = c
      BY <1>2 DEF Frame
<1> QED BY <1>1, <1>3 DEF CallBegins

\* The last call is past its edge
LEMMA TopContinues ==
    ASSUME Inv, AtEdge, NEW g, g.class = Top.class, g.todo = Tail(Top.todo),
           frames' = Append(Front(frames), g)
    PROVE  CallContinues(Len(frames))
<1>1. /\ frames \in Seq(Frame) /\ Len(frames) \in Nat /\ Len(frames) # 0
      /\ Len(frames) \in 1..Len(frames) /\ Top = frames[Len(frames)] /\ Top \in Frame
      BY TopIs DEF AtEdge
<1>2. Len(Top.todo) # 0 /\ Top.todo \in Seq(Call)
      BY <1>1, EdgeTop DEF Frame
<1>3. Len(Top.todo) \in Nat \ {0} /\ Len(Tail(Top.todo)) = Len(Top.todo) - 1
      BY <1>2
<1>4. PICK gs : gs = Append(Front(frames), g)
      OBVIOUS
<1>5. Len(gs) = Len(frames) /\ gs[Len(frames)] = g /\ \A i \in 1..(Len(frames) - 1) : gs[i] = frames[i]
  <2>1. frames \in Seq(Frame) /\ Len(frames) # 0
        BY <1>1
  <2> QED BY <1>4, <2>1, ReplacedCall
<1> QED BY <1>1, <1>3, <1>4, <1>5 DEF CallContinues

LEMMA TakeContinues ==
    ASSUME Inv, AtEdge, NEW list, NEW cuts, Take(list, cuts)
    PROVE  CallContinues(Len(frames))
<1> DEFINE g == Took(Top, list, cuts)
<1>1. frames' = Append(Front(frames), g)
      BY DEF Take
<1>2. g.class = Top.class /\ g.todo = Tail(Top.todo)
  <2>1. Top \in Frame
        BY TopIs DEF AtEdge
  <2> QED BY <2>1 DEF Took, Frame
<1> HIDE DEF g
<1> QED BY <1>1, <1>2, TopContinues

LEMMA SkipContinues == ASSUME Inv, AtEdge, Skip PROVE CallContinues(Len(frames))
<1> DEFINE g == [Top EXCEPT !.todo = Tail(@)]
<1>1. frames' = Append(Front(frames), g)
      BY DEF Skip
<1>2. g.class = Top.class /\ g.todo = Tail(Top.todo)
  <2>1. Top \in Frame
        BY TopIs DEF AtEdge
  <2> QED BY <2>1 DEF Frame
<1> HIDE DEF g
<1> QED BY <1>1, <1>2, TopContinues

\* The call around the last one waits for it
LEMMA CallerIs ==
    ASSUME Inv, AtEnd, Len(frames) > 1
    PROVE  LET caller == Last(Front(frames))
           IN  /\ caller = frames[Len(frames) - 1] /\ caller \in Frame /\ Halfway(caller)
               /\ Len(caller.todo) \in Nat \ {0} /\ caller.todo \in Seq(Call)
               /\ Head(caller.todo) = caller.todo[1]
               /\ caller.todo[1].type.leaf = Top.class /\ Top.class \in Classes
<1> DEFINE n == Len(frames)
           outer == Front(frames)
           caller == Last(outer)
<1>1. /\ Running(frames) /\ frames \in Seq(Frame) /\ n \in Nat /\ Top = frames[n] /\ Top \in Frame
      BY TopIs DEF AtEnd
<1>2. Len(outer) = n - 1 /\ \A i \in 1..(n - 1) : outer[i] = frames[i]
      BY <1>1, FrontIs
<1>3. n - 1 \in 1..(n - 1) /\ n - 1 \in 1..n /\ (n - 1) + 1 = n /\ n - 1 < n
      BY <1>1
<1> HIDE DEF outer
<1>4. caller = frames[n - 1]
      BY <1>2, <1>3 DEF Last
<1>5. caller \in Frame /\ Halfway(caller) /\ Waits(frames[n - 1], frames[(n - 1) + 1].class)
      BY <1>1, <1>3, <1>4 DEF Running
<1> HIDE DEF caller
<1>6. Len(caller.todo) # 0 /\ caller.todo[1].type.leaf = Top.class
      BY <1>1, <1>3, <1>4, <1>5 DEF Waits
<1>7. caller.todo \in Seq(Call) /\ Top.class \in Classes
      BY <1>1, <1>5 DEF Frame
<1>8. Len(caller.todo) \in Nat \ {0} /\ Head(caller.todo) = caller.todo[1]
      BY <1>6, <1>7
<1> QED BY <1>4, <1>5, <1>6, <1>7, <1>8 DEF caller, outer

LEMMA LeaveContinues ==
    ASSUME Inv, Leave, pc' = "decoding"
    PROVE  CallContinues(Len(frames) - 1)
<1> DEFINE n == Len(frames)
           outer == Front(frames)
           caller == Last(outer)
           g == Took(caller, Top.list, Open)
<1>1. AtEnd /\ n > 1
      BY DEF Leave
<1>2. frames' = Append(Front(outer), g)
      BY DEF Leave, NullDereference
<1>3. /\ frames \in Seq(Frame) /\ n \in Nat
      /\ outer \in Seq(Frame) /\ Len(outer) = n - 1 /\ \A i \in 1..(n - 1) : outer[i] = frames[i]
  <2>1. frames \in Seq(Frame) /\ n \in Nat /\ n # 0
        BY <1>1, TopIs DEF AtEnd
  <2> QED BY <2>1, FrontIs
<1>4. /\ caller = frames[n - 1] /\ caller \in Frame /\ Len(caller.todo) \in Nat \ {0}
      /\ caller.todo \in Seq(Call)
      BY <1>1, CallerIs
<1>5. g.class = caller.class /\ g.todo = Tail(caller.todo)
      BY <1>4 DEF Took, Frame
<1>6. Len(Tail(caller.todo)) = Len(caller.todo) - 1
      BY <1>4
<1>7. n - 1 \in 1..n /\ n - 1 \in Nat /\ n - 1 # 0
      BY <1>1, <1>3
<1> HIDE DEF outer, caller, g
<1>8. PICK gs : gs = Append(Front(outer), g)
      OBVIOUS
<1>9. Len(gs) = Len(outer) /\ gs[Len(outer)] = g /\ \A i \in 1..(Len(outer) - 1) : gs[i] = outer[i]
  <2>1. outer \in Seq(Frame) /\ Len(outer) # 0
        BY <1>3, <1>7
  <2> QED BY <1>8, <2>1, ReplacedCall
<1> HIDE DEF n
<1>10. \A i \in 1..((n - 1) - 1) : gs[i] = frames[i]
  <2>1. \A i \in 1..((n - 1) - 1) : i \in 1..(n - 1)
        BY <1>3
  <2> QED BY <1>3, <1>9, <2>1
<1>11. /\ Len(frames') = n - 1
       /\ \A i \in 1..((n - 1) - 1) : frames'[i] = frames[i]
       /\ frames'[n - 1].class = frames[n - 1].class
       /\ Len(frames'[n - 1].todo) = Len(frames[n - 1].todo) - 1
       BY <1>2, <1>3, <1>4, <1>5, <1>6, <1>8, <1>9, <1>10
<1> QED BY <1>4, <1>7, <1>11 DEF CallContinues, n

LEMMA StepIs ==
    ASSUME Inv, Next, pc' = "decoding"
    PROVE  \/ /\ frames = <<>> /\ pending # <<>> /\ pending' = Tail(pending)
              /\ \E c \in Classes : CallBegins(c)
           \/ /\ frames # <<>> /\ pending' = pending /\ Len(frames) # MaxDepth
              /\ Inward /\ CallBegins(Leaf)
           \/ frames # <<>> /\ pending' = pending /\ \E n \in 1..Len(frames) : CallContinues(n)
           \/ frames # <<>> /\ pending' = pending /\ frames' = <<>>
<1> DEFINE Taken == frames # <<>> /\ pending' = pending /\ \E n \in 1..Len(frames) : CallContinues(n)
<1>1. CASE Record
  <2>1. Head(pending) \in Classes /\ frames = <<>> /\ pending # <<>> /\ pending' = Tail(pending)
        BY <1>1 DEF Record, Inv
  <2>2. CallBegins(Head(pending))
        BY <1>1, <2>1, EnterBegins DEF Record
  <2> QED BY <2>1, <2>2
<1>2. CASE EnterBase
  <2>1. Inward /\ frames # <<>> /\ pending' = pending
        BY <1>2, EdgeTop DEF EnterBase, Inward
  <2>2. CallBegins(Leaf) /\ Len(frames) # MaxDepth
        BY <1>2, <2>1, EnterBegins DEF EnterBase, Inward
  <2> QED BY <2>1, <2>2
<1>3. CASE EnterMember
  <2>1. Inward /\ frames # <<>> /\ pending' = pending
        BY <1>3, EdgeTop DEF EnterMember, Inward
  <2>2. CallBegins(Leaf) /\ Len(frames) # MaxDepth
        BY <1>3, <2>1, EnterBegins DEF EnterMember, Inward
  <2> QED BY <2>1, <2>2
<1>4. ASSUME AtEdge, pending' = pending, CallContinues(Len(frames)) PROVE Taken
  <2>1. frames # <<>> /\ Len(frames) \in 1..Len(frames)
        BY <1>4, TopIs DEF AtEdge
  <2> QED BY <1>4, <2>1
<1>5. CASE Cached
  <2>1. AtEdge /\ Take(resources[Leaf].list, resources[Leaf].cuts)
        BY <1>5 DEF Cached, NullDereference
  <2> QED BY <1>4, <2>1, TakeContinues DEF Take
<1>6. CASE Recursive
  <2>1. AtEdge /\ Take({}, {Leaf})
        BY <1>6 DEF Recursive
  <2> QED BY <1>4, <2>1, TakeContinues DEF Take
<1>7. CASE TakeOther
  <2>1. AtEdge /\ (Take({}, {}) \/ Skip)
        BY <1>7 DEF TakeOther, NullDereference
  <2> QED BY <1>4, <2>1, TakeContinues, SkipContinues DEF Take, Skip
<1>8. CASE Store
      BY <1>8 DEF Store, AtEnd
<1>9. CASE Leave
  <2>1. frames # <<>> /\ pending' = pending /\ Len(frames) > 1
        BY <1>9 DEF Leave, AtEnd, NullDereference
  <2>2. CallContinues(Len(frames) - 1)
        BY <1>9, LeaveContinues
  <2>3. Len(frames) - 1 \in 1..Len(frames)
    <3>1. Len(frames) \in Nat
          BY <2>1, TopIs
    <3> QED BY <2>1, <3>1
  <2> QED BY <2>1, <2>2, <2>3
<1> QED BY <1>1, <1>2, <1>3, <1>5, <1>6, <1>7, <1>8, <1>9 DEF Next

-----------------------------------------------------------------------------
\* What is decoded to the end

\* A description that can be decoded
Decodable == ~LeadsBack /\ ~Faulty

GoodInv == ClearInv /\ (Decodable => pc = "decoding" /\ Distinct(frames))

LEMMA DecodableStays == [Next]_vars => (Decodable' <=> Decodable)
<1> SUFFICES ASSUME [Next]_vars PROVE Decodable' <=> Decodable
    OBVIOUS
<1>1. document' = document
      BY DEF vars, Next, Record, Cached, Recursive, EnterBase, EnterMember, TakeOther, Store,
             Leave, NullDereference, Take, Skip
<1>2. \A c : Edges(c)' = Edges(c)
      BY <1>1, SameDocument
<1>3. \A c : Parts(c)' = Parts(c)
      BY <1>2 DEF Parts
<1>4. \A c : LeadsTo(c)' = LeadsTo(c)
      BY <1>3 DEF LeadsTo
<1>5. LeadsBack' <=> LeadsBack
      BY <1>1, <1>4 DEF LeadsBack
<1>6. Faulty' <=> Faulty
      BY <1>1, <1>2 DEF Faulty
<1> QED BY <1>5, <1>6 DEF Decodable

\* The edge a call is at is one no null is dereferenced for
LEMMA EdgeSound ==
    ASSUME document \in [Classes -> Description], ~Faulty,
           NEW f \in Frame, Halfway(f), Len(f.todo) # 0
    PROVE  Sound(f.todo[1])
<1>1. f.todo[1] \in Range(Edges(f.class))
      BY EdgeLeads
<1>2. f.class \in Classes
      BY DEF Frame
<1> QED BY <1>1, <1>2 DEF Faulty, Sound

LEMMA InwardFits ==
    ASSUME GoodInv, Decodable, Inward
    PROVE  /\ Len(frames) # MaxDepth
           /\ \A j \in 1..Len(frames) : frames[j].class # Leaf
<1>1. Inv /\ Going(frames, recursive) /\ Distinct(frames)
      BY DEF GoodInv, ClearInv
<1>2. \A j \in 1..Len(frames) : frames[j].class # Leaf
      BY <1>1, NewClass DEF Decodable
<1>3. frames \in Seq(Frame) /\ Leaf \in Classes
      BY <1>1 DEF Inv, Running, Inward
<1>4. Len(frames) < MaxDepth /\ Len(frames) \in Nat
      BY <1>1, <1>2, <1>3, RoomFor
<1> QED BY <1>2, <1>4, DepthAssumption

\* Nothing kills the process
LEMMA GoesOnDecoding ==
    ASSUME GoodInv, Decodable, Next
    PROVE  pc' = "decoding"
<1>1. /\ Inv /\ Going(frames, recursive) /\ Distinct(frames) /\ pc = "decoding" /\ ~Faulty
      /\ document \in [Classes -> Description]
      BY DEF GoodInv, ClearInv, Inv, Decodable
<1>2. ASSUME AtEdge PROVE Sound(Edge)
  <2>1. Top \in Frame /\ Halfway(Top) /\ Len(Top.todo) # 0 /\ Edge = Top.todo[1]
        BY <1>1, <1>2, TopIs, EdgeTop
  <2> QED BY <1>1, <2>1, EdgeSound
<1>3. CASE Record
  <2>1. Len(frames) # MaxDepth
    <3>1. Head(pending) \in Classes /\ frames = <<>>
          BY <1>1, <1>3 DEF Record, Inv
    <3>2. <<>> \in Seq(Frame) /\ Len(<<>>) = 0 /\ Distinct(<<>>)
          BY DEF Distinct
    <3>3. Len(<<>>) < MaxDepth
      <4>1. PICK fs \in Seq(Frame) : fs = <<>> /\ Distinct(fs)
            BY <3>2
      <4>2. \A j \in 1..Len(fs) : fs[j].class # Head(pending)
            BY <4>1
      <4> QED BY <3>1, <4>1, <4>2, RoomFor
    <3> QED BY <3>1, <3>2, <3>3, DepthAssumption
  <2> QED BY <1>1, <1>3, <2>1 DEF Record, Enter
<1>4. CASE Cached
  <2>1. ~(Edge.kind = "base" /\ document[Leaf].extended)
        BY <1>2, <1>4 DEF Cached, Sound, Leaf
  <2> QED BY <1>1, <1>4, <2>1 DEF Cached, Take
<1>5. CASE Recursive
      BY <1>1, <1>5 DEF Recursive, Take
<1>6. CASE EnterBase
  <2>1. Inward
        BY <1>1, <1>6, EdgeTop DEF EnterBase, Inward
  <2> QED BY <1>1, <1>6, <2>1, InwardFits DEF EnterBase, Enter
<1>7. CASE EnterMember
  <2>1. Inward
        BY <1>7 DEF EnterMember, Inward
  <2> QED BY <1>1, <1>7, <2>1, InwardFits DEF EnterMember, Enter
<1>8. CASE TakeOther
  <2>1. ~(Edge.kind = "argument" /\ ~Decodes(Edge.type))
        BY <1>2, <1>8 DEF TakeOther, Sound
  <2> QED BY <1>1, <1>8, <2>1 DEF TakeOther, Take, Skip
<1>9. CASE Store
      BY <1>1, <1>9 DEF Store
<1>10. CASE Leave
  <2> DEFINE caller == Last(Front(frames))
  <2>1. /\ caller \in Frame /\ Halfway(caller) /\ Len(caller.todo) # 0
        /\ Head(caller.todo) = caller.todo[1] /\ caller.todo[1].type.leaf = Top.class
        BY <1>1, <1>10, CallerIs DEF Leave
  <2> HIDE DEF caller
  <2>2. Sound(caller.todo[1])
        BY <1>1, <2>1, EdgeSound
  <2>3. ~(Head(caller.todo).kind = "base" /\ document[Top.class].extended)
        BY <2>1, <2>2 DEF Sound
  <2> QED BY <1>1, <1>10, <2>3 DEF Leave, caller
<1> QED BY <1>3, <1>4, <1>5, <1>6, <1>7, <1>8, <1>9, <1>10 DEF Next

LEMMA DistinctBegins ==
    ASSUME NEW fs \in Seq(Frame), Distinct(fs), NEW g \in Frame,
           \A j \in 1..Len(fs) : fs[j].class # g.class
    PROVE  Distinct(Append(fs, g))
<1> DEFINE n == Len(fs)
           gs == Append(fs, g)
<1>1. n \in Nat /\ Len(gs) = n + 1 /\ gs[n + 1] = g /\ \A i \in 1..n : gs[i] = fs[i]
      OBVIOUS
<1> HIDE DEF gs
<1>2. ASSUME NEW i \in 1..(n + 1), NEW j \in 1..(n + 1), i # j PROVE gs[i].class # gs[j].class
  <2> HIDE DEF n
  <2>1. (i = n + 1 \/ i \in 1..n) /\ (j = n + 1 \/ j \in 1..n)
        BY <1>1
  <2>2. CASE i = n + 1
        BY <1>1, <1>2, <2>1, <2>2 DEF n
  <2>3. CASE j = n + 1
        BY <1>1, <1>2, <2>1, <2>3 DEF n
  <2>4. CASE i # n + 1 /\ j # n + 1
        BY <1>1, <1>2, <2>1, <2>4 DEF n, Distinct
  <2> QED BY <2>2, <2>3, <2>4
<1> QED BY <1>1, <1>2 DEF Distinct, gs

LEMMA DistinctStep ==
    ASSUME GoodInv, Decodable, Next
    PROVE  Distinct(frames)'
<1>1. Inv /\ Distinct(frames) /\ pc' = "decoding" /\ frames \in Seq(Frame)
      BY GoesOnDecoding DEF GoodInv, ClearInv, Inv, Running
<1>2. PICK gs : gs = frames'
      OBVIOUS
<1>3. ASSUME frames = <<>>, NEW c \in Classes, CallBegins(c) PROVE Distinct(gs)
  <2>1. PICK g \in Frame : gs = Append(frames, g)
        BY <1>2, <1>3 DEF CallBegins
  <2>2. \A j \in 1..Len(frames) : frames[j].class # g.class
        BY <1>3
  <2> QED BY <1>1, <2>1, <2>2, DistinctBegins
<1>4. ASSUME Inward, CallBegins(Leaf) PROVE Distinct(gs)
  <2>1. PICK g \in Frame : g.class = Leaf /\ gs = Append(frames, g)
        BY <1>2, <1>4 DEF CallBegins
  <2>2. \A j \in 1..Len(frames) : frames[j].class # g.class
        BY <1>4, <2>1, InwardFits
  <2> QED BY <1>1, <2>1, <2>2, DistinctBegins
<1>5. ASSUME NEW n \in 1..Len(frames), CallContinues(n) PROVE Distinct(gs)
  <2>1. /\ Len(gs) = n /\ gs[n].class = frames[n].class /\ \A j \in 1..(n - 1) : gs[j] = frames[j]
        BY <1>2, <1>5 DEF CallContinues
  <2>2. Len(frames) \in Nat
        BY <1>1
  <2>3. \A j \in 1..n : j \in 1..Len(frames) /\ gs[j].class = frames[j].class
    <3> TAKE j \in 1..n
    <3>1. j \in 1..Len(frames) /\ (j = n \/ j \in 1..(n - 1))
          BY <2>2
    <3> QED BY <2>1, <3>1
  <2> QED BY <1>1, <2>1, <2>3 DEF Distinct
<1>6. ASSUME frames' = <<>> PROVE Distinct(gs)
      BY <1>2, <1>6 DEF Distinct
<1>7. Distinct(gs)
      BY <1>1, <1>3, <1>4, <1>5, <1>6, StepIs
<1> QED BY <1>2, <1>7 DEF Distinct

LEMMA GoodInit == Init => GoodInv
<1> SUFFICES ASSUME Init PROVE GoodInv
    OBVIOUS
<1>1. Distinct(<<>>)
      BY DEF Distinct
<1> QED BY <1>1, ClearInit DEF GoodInv, Init

LEMMA GoodStep == GoodInv /\ [Next]_vars => GoodInv'
<1> SUFFICES ASSUME GoodInv, [Next]_vars PROVE GoodInv'
    OBVIOUS
<1>1. ClearInv'
      BY ClearStep DEF GoodInv
<1>2. ASSUME Decodable' PROVE (pc = "decoding" /\ Distinct(frames))'
  <2>1. Decodable
        BY <1>2, DecodableStays
  <2>2. CASE Next
        BY <2>1, <2>2, GoesOnDecoding, DistinctStep
  <2>3. CASE UNCHANGED vars
        BY <2>1, <2>3 DEF vars, GoodInv, Distinct
  <2> QED BY <2>2, <2>3
<1> QED BY <1>1, <1>2 DEF GoodInv

\* A description in which no base leads back, and no null is met, is decoded without
\* one and without an overflow, however its classes lead to each other otherwise: the
\* stack need not be deeper than there are classes, since none is decoded inside itself
\* (decodeClassOrStruct cuts a member that leads back)
THEOREM StackSuffices == Spec => (~LeadsBack /\ ~Faulty => [](pc = "decoding"))
<1>1. GoodInv => (Decodable => pc = "decoding")
      BY DEF GoodInv
<1>2. Spec => []GoodInv
      BY GoodInit, GoodStep, PTL DEF Spec
<1>3. Decodable /\ [Next]_vars => Decodable'
      BY DecodableStays
<1>4. ~LeadsBack /\ ~Faulty <=> Decodable
      BY DEF Decodable
<1> QED BY <1>1, <1>2, <1>3, <1>4, PTL DEF Spec

\* The work that is left: the classes to record, and the edges each call has to go.
\* A call that has not begun stands for more than any number of them
Work(i) ==
    IF i = 0 THEN 2 * Len(pending) + (IF frames = <<>> THEN 0 ELSE 1)
    ELSE IF i <= Len(frames) THEN Len(frames[i].todo)
    ELSE -1

\* The first place of 0..MaxDepth at which it changes, it is less
LessWork ==
    \E i \in 0..MaxDepth :
        /\ \A j \in 0..(i - 1) : Work(j)' = Work(j)
        /\ Work(i)' \in Nat
        /\ Work(i) = -1 \/ Work(i)' < Work(i)

\* However a description leads from class to class, decoding comes to its end, an
\* overflow or a null: every step leaves less work, in an order that has no endless
\* descent, as no more than MaxDepth calls run (the loops of decodeClassOrStruct)
THEOREM WorkShrinks == Spec => [][pc' = "decoding" => LessWork]_vars
<1>1. ASSUME Inv, Inv', Next, pc' = "decoding" PROVE LessWork
  <2>1. /\ frames \in Seq(Frame) /\ pending \in Seq(Classes) /\ Len(frames) \in Nat
        /\ Len(frames') <= MaxDepth /\ Len(frames) <= MaxDepth /\ MaxDepth \in Nat
        /\ \A j \in 1..Len(frames) : frames[j] \in Frame
    <3>1. frames \in Seq(Frame) /\ pending \in Seq(Classes)
          BY <1>1 DEF Inv, Running
    <3>2. Len(frames') <= MaxDepth /\ Len(frames) <= MaxDepth
          BY <1>1 DEF Inv
    <3> QED BY <3>1, <3>2, DepthAssumption
  <2>2. \A f \in Frame : Len(f.todo) \in Nat
    <3>1. \A f \in Frame : f.todo \in Seq(Call)
          BY DEF Frame
    <3> QED BY <3>1
  <2>3. ASSUME frames = <<>>, pending # <<>>, pending' = Tail(pending), NEW c \in Classes, CallBegins(c)
        PROVE  LessWork
    <3>1. frames' # <<>>
      <4>1. PICK g \in Frame : frames' = Append(frames, g)
            BY <2>3 DEF CallBegins
      <4> QED BY <2>1, <4>1
    <3>2. Len(pending) \in Nat \ {0} /\ Len(pending') = Len(pending) - 1
          BY <2>1, <2>3
    <3>3. Work(0) = 2 * Len(pending) /\ Work(0)' = 2 * Len(pending') + 1
          BY <2>3, <3>1, <3>2 DEF Work
    <3>4. Work(0)' \in Nat /\ Work(0)' < Work(0)
          BY <3>2, <3>3
    <3>5. 0 \in 0..MaxDepth /\ 0..(0 - 1) = {}
          BY <2>1
    <3> QED BY <3>4, <3>5 DEF LessWork
  <2>4. ASSUME frames # <<>>, frames' = <<>>, pending' = pending PROVE LessWork
    <3>1. Work(0) = 2 * Len(pending) + 1 /\ Work(0)' = 2 * Len(pending)
          BY <2>1, <2>4 DEF Work
    <3>2. Len(pending) \in Nat
          BY <2>1
    <3>3. 0 \in 0..MaxDepth /\ 0..(0 - 1) = {}
          BY <2>1
    <3> QED BY <3>1, <3>2, <3>3 DEF LessWork
  \* The calls in front of the i-th stay as they are
  <2>5. ASSUME frames # <<>>, frames' # <<>>, pending' = pending,
               NEW i \in 1..MaxDepth, i <= Len(frames'), i <= Len(frames) + 1,
               \A j \in 1..(i - 1) : frames'[j] = frames[j],
               Len(frames'[i].todo) \in Nat,
               i <= Len(frames) => Len(frames'[i].todo) < Len(frames[i].todo)
        PROVE  LessWork
    <3>1. Len(frames') \in Nat
      <4>1. frames' \in Seq(Frame)
            BY <1>1 DEF Inv, Running
      <4> QED BY <4>1
    <3>2. ASSUME NEW j \in 0..(i - 1) PROVE Work(j)' = Work(j)
      <4>1. CASE j = 0
            BY <2>5, <4>1 DEF Work
      <4>2. CASE j # 0
        <5>1. j \in 1..(i - 1) /\ j <= Len(frames) /\ j <= Len(frames')
              BY <2>1, <2>5, <3>1, <4>2
        <5>2. Work(j) = Len(frames[j].todo) /\ Work(j)' = Len(frames'[j].todo)
              BY <4>2, <5>1 DEF Work
        <5> QED BY <2>5, <5>1, <5>2
      <4> QED BY <4>1, <4>2
    <3>3. i # 0 /\ i \in 0..MaxDepth
          BY <2>1
    <3>4. Work(i)' = Len(frames'[i].todo)
          BY <2>5, <3>3 DEF Work
    <3>5. Work(i) = IF i <= Len(frames) THEN Len(frames[i].todo) ELSE -1
          BY <3>3 DEF Work
    <3>6. Work(i)' \in Nat /\ (Work(i) = -1 \/ Work(i)' < Work(i))
          BY <2>5, <3>4, <3>5
    <3> QED BY <3>2, <3>3, <3>6 DEF LessWork
  <2>6. ASSUME frames # <<>>, pending' = pending, CallBegins(Leaf) PROVE LessWork
    <3> DEFINE n == Len(frames)
    <3>1. PICK g \in Frame : frames' = Append(frames, g)
          BY <2>6 DEF CallBegins
    <3>2. /\ Len(frames') = n + 1 /\ frames'[n + 1] = g /\ n \in Nat
          /\ \A j \in 1..n : frames'[j] = frames[j]
          BY <2>1, <3>1
    <3>3. Len(frames'[n + 1].todo) \in Nat
          BY <2>2, <3>2
    <3>4. frames' # <<>>
          BY <2>1, <3>1
    <3> HIDE DEF n
    <3>5. n + 1 \in 1..MaxDepth /\ n + 1 <= Len(frames') /\ n + 1 <= n + 1 /\ ~(n + 1 <= n)
          /\ (n + 1) - 1 = n
          BY <2>1, <3>2
    <3> QED BY <2>5, <2>6, <3>2, <3>3, <3>4, <3>5 DEF n
  <2>7. ASSUME frames # <<>>, pending' = pending, NEW n \in 1..Len(frames), CallContinues(n) PROVE LessWork
    <3>1. /\ Len(frames') = n /\ \A j \in 1..(n - 1) : frames'[j] = frames[j]
          /\ Len(frames[n].todo) \in Nat \ {0} /\ Len(frames'[n].todo) = Len(frames[n].todo) - 1
          BY <2>7 DEF CallContinues
    <3>2. /\ n \in 1..MaxDepth /\ n <= Len(frames') /\ n <= Len(frames) + 1 /\ n # 0
          /\ Len(frames'[n].todo) \in Nat /\ Len(frames'[n].todo) < Len(frames[n].todo)
          BY <2>1, <3>1
    <3>3. frames' # <<>>
      <4>1. Len(frames') # 0
            BY <3>1, <3>2
      <4> QED BY <4>1
    <3> QED BY <2>5, <2>7, <3>1, <3>2, <3>3
  <2> QED BY <1>1, <2>3, <2>4, <2>6, <2>7, StepIs
<1>2. Inv /\ Inv' /\ [Next]_vars => [pc' = "decoding" => LessWork]_vars
      BY <1>1
<1> QED BY <1>2, Invariant, PTL DEF Spec
=============================================================================
