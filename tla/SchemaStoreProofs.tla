-------------------------- MODULE SchemaStoreProofs --------------------------
(***************************************************************************)
(* Theorems about SchemaStore for every set of columns, every order of     *)
(* their names and any versions of a class.                                *)
(***************************************************************************)
EXTENDS SchemaStore, SequenceLemmas, FunctionTheorems, FiniteSetTheorems, TLAPS

-----------------------------------------------------------------------------
\* Columns in the order of their names

Taken(S, n, prefix) ==
    IF n = 0 THEN <<>>
    ELSE IF Order[n] \in S THEN Append(prefix[n - 1], Order[n]) ELSE prefix[n - 1]

\* InOrder is the end of a function that exists
LEMMA TakenExists ==
    ASSUME NEW S \in SUBSET Columns
    PROVE  \E f \in [0..Len(Order) -> Seq(Columns)] :
              /\ \A n \in 0..Len(Order) : f[n] = Taken(S, n, f)
              /\ InOrder(S) = f[Len(Order)]
<1> DEFINE L == Len(Order)
           Good(n, f) == f \in [0..n -> Seq(Columns)] /\ \A m \in 0..n : f[m] = Taken(S, m, f)
           T == {n \in 0..L : \E f : Good(n, f)}
<1>1. L \in Nat /\ Order \in Seq(Columns) /\ \A n \in 1..L : Order[n] \in Columns
      BY OrderAssumption
<1>2. 0 \in T
  <2> DEFINE f == [m \in 0..0 |-> <<>>]
  <2>1. Good(0, f)
        BY DEF Taken
  <2> QED BY <1>1, <2>1
<1>3. ASSUME NEW n \in 0..L, n \in T, n < L PROVE n + 1 \in T
  <2>1. PICK f : Good(n, f)
        BY <1>3
  <2> DEFINE x == IF Order[n + 1] \in S THEN Append(f[n], Order[n + 1]) ELSE f[n]
             g == [m \in 0..(n + 1) |-> IF m = n + 1 THEN x ELSE f[m]]
  <2>2. f[n] \in Seq(Columns) /\ Order[n + 1] \in Columns /\ n \in Nat
        BY <2>1, <1>1, <1>3
  <2>3. x \in Seq(Columns)
        BY <2>2
  <2> HIDE DEF x
  <2>4. g \in [0..(n + 1) -> Seq(Columns)]
    <3>1. ASSUME NEW m \in 0..(n + 1) PROVE (IF m = n + 1 THEN x ELSE f[m]) \in Seq(Columns)
      <4>1. CASE m = n + 1
            BY <2>3, <4>1
      <4>2. CASE m # n + 1
        <5>1. m \in 0..n
              BY <4>2, <2>2
        <5> QED BY <4>2, <5>1, <2>1
      <4> QED BY <4>1, <4>2
    <3> QED BY <3>1
  <2>5. ASSUME NEW m \in 0..(n + 1) PROVE g[m] = Taken(S, m, g)
    <3>1. CASE m = n + 1
      <4>1. g[n + 1] = x /\ g[n] = f[n] /\ (n + 1) - 1 = n /\ n + 1 # 0
            BY <2>2
      <4> QED BY <3>1, <4>1 DEF Taken, x
    <3>2. CASE m # n + 1
      <4>1. m \in 0..n
            BY <3>2, <2>2
      <4>2. g[m] = f[m] /\ (m # 0 => g[m - 1] = f[m - 1])
            BY <3>2, <4>1, <2>2
      <4> QED BY <4>1, <4>2, <2>1 DEF Taken
    <3> QED BY <3>1, <3>2
  <2>6. Good(n + 1, g)
        BY <2>4, <2>5
  <2> HIDE DEF g, Good
  <2> QED BY <2>6, <1>1, <1>3
<1> HIDE DEF T
<1>4. \A m \in 0..L : m \in T /\ m < L => m + 1 \in T
      BY <1>3
<1>5. \A m \in 0..L : m \in T
      BY <1>1, <1>2, <1>4, UpTo
<1>6. L \in 0..L
      BY <1>1
<1>7. L \in T
      BY <1>5, <1>6
<1> HIDE DEF Good
<1>8. PICK f : Good(L, f)
      BY <1>7 DEF T
<1> USE DEF Good
<1> DEFINE Def(g) == g = [n \in 0..L |->
                IF n = 0 THEN <<>>
                ELSE IF Order[n] \in S THEN Append(g[n - 1], Order[n]) ELSE g[n - 1]]
           h == CHOOSE g : Def(g)
<1>9. Def(f)
  <2>1. f = [n \in 0..L |-> f[n]] /\ \A n \in 0..L : f[n] = Taken(S, n, f)
        BY <1>8
  <2>2. f = [n \in 0..L |-> Taken(S, n, f)]
        BY <2>1
  <2> QED BY <2>2 DEF Taken
<1>10. Def(h)
      BY <1>9
<1>11. InOrder(S) = h[L]
      BY DEF InOrder
<1> HIDE DEF h
<1>12. DOMAIN h = 0..L /\ \A n \in 0..L : h[n] = Taken(S, n, h)
      BY <1>10 DEF Taken
<1>13. h \in [0..L -> Seq(Columns)]
  <2> DEFINE V == {n \in 0..L : h[n] \in Seq(Columns)}
  <2>1. 0 \in V
    <3>1. 0 \in 0..L /\ h[0] = Taken(S, 0, h)
          BY <1>1, <1>12
    <3>2. h[0] = <<>> /\ <<>> \in Seq(Columns)
          BY <3>1 DEF Taken
    <3>3. h[0] \in Seq(Columns)
          BY <3>2
    <3> QED BY <3>1, <3>3
  <2>2. ASSUME NEW n \in 0..L, n \in V, n < L PROVE n + 1 \in V
    <3>1. n + 1 \in 0..L /\ n + 1 # 0 /\ (n + 1) - 1 = n /\ Order[n + 1] \in Columns
          BY <1>1, <2>2
    <3>2. h[n + 1] = IF Order[n + 1] \in S THEN Append(h[n], Order[n + 1]) ELSE h[n]
          BY <1>12, <3>1 DEF Taken
    <3>3. h[n] \in Seq(Columns)
          BY <2>2
    <3>4. h[n + 1] \in Seq(Columns)
          BY <3>1, <3>2, <3>3
    <3> QED BY <3>1, <3>4
  <2> HIDE DEF V
  <2>3. \A n \in 0..L : n \in V
        BY <1>1, <2>1, <2>2, UpTo
  <2>4. \A n \in 0..L : h[n] \in Seq(Columns)
        BY <2>3 DEF V
  <2>5. h = [n \in 0..L |-> h[n]]
        BY <1>10
  <2> QED BY <2>4, <2>5
<1> QED BY <1>11, <1>12, <1>13

\* The columns of a set, each once
LEMMA InOrderIs ==
    ASSUME NEW S \in SUBSET Columns
    PROVE  /\ InOrder(S) \in Seq(Columns)
           /\ \A i \in 1..Len(InOrder(S)) : InOrder(S)[i] \in S
           /\ \A c \in S : \E i \in 1..Len(InOrder(S)) : InOrder(S)[i] = c
           /\ \A i, j \in 1..Len(InOrder(S)) : InOrder(S)[i] = InOrder(S)[j] => i = j
<1>1. PICK f \in [0..Len(Order) -> Seq(Columns)] :
          /\ \A n \in 0..Len(Order) : f[n] = Taken(S, n, f)
          /\ InOrder(S) = f[Len(Order)]
      BY TakenExists
<1> DEFINE L == Len(Order)
           From(n) == \A i \in 1..Len(f[n]) : \E m \in 1..n : f[n][i] = Order[m] /\ Order[m] \in S
           All(n) == \A m \in 1..n : Order[m] \in S => \E i \in 1..Len(f[n]) : f[n][i] = Order[m]
           Once(n) == \A i, j \in 1..Len(f[n]) : f[n][i] = f[n][j] => i = j
           T == {n \in 0..L : From(n) /\ All(n) /\ Once(n)}
<1>2. /\ L \in Nat /\ Order \in Seq(Columns) /\ \A n \in 1..L : Order[n] \in Columns
      /\ \A c \in Columns : \E n \in 1..L : Order[n] = c
      /\ \A m, n \in 1..L : Order[m] = Order[n] => m = n
      BY OrderAssumption
<1>3. 0 \in T
  <2>1. 0 \in 0..L /\ f[0] = Taken(S, 0, f)
        BY <1>1, <1>2
  <2>2. f[0] = <<>>
        BY <2>1 DEF Taken
  <2>3. Len(f[0]) = 0
        BY <2>2
  <2>4. From(0) /\ All(0) /\ Once(0)
        BY <2>3
  <2> HIDE DEF From, All, Once
  <2> QED BY <2>1, <2>4
<1>4. ASSUME NEW n \in 0..L, n \in T, n < L PROVE n + 1 \in T
  <2>1. /\ n + 1 \in 0..L /\ n + 1 \in 1..L /\ n + 1 # 0 /\ (n + 1) - 1 = n /\ n \in Nat
        /\ Order[n + 1] \in Columns /\ From(n) /\ All(n) /\ Once(n)
        /\ f[n] \in Seq(Columns)
    <3>1. n + 1 \in 0..L /\ n + 1 \in 1..L /\ n + 1 # 0 /\ (n + 1) - 1 = n /\ n \in Nat
          BY <1>2, <1>4
    <3>2. f[n] \in Seq(Columns)
          BY <1>1
    <3> HIDE DEF From, All, Once
    <3>3. From(n) /\ All(n) /\ Once(n)
          BY <1>4
    <3> QED BY <3>1, <3>2, <3>3, <1>2
  <2>2. f[n + 1] = IF Order[n + 1] \in S THEN Append(f[n], Order[n + 1]) ELSE f[n]
    <3>1. f[n + 1] = Taken(S, n + 1, f)
          BY <1>1, <2>1
    <3> QED BY <2>1, <3>1 DEF Taken
  <2>3. CASE Order[n + 1] \notin S
    <3>1. f[n + 1] = f[n]
          BY <2>2, <2>3
    <3>2. From(n + 1)
          BY <2>1, <3>1
    <3>3. All(n + 1)
      <4> SUFFICES ASSUME NEW m \in 1..(n + 1), Order[m] \in S
                   PROVE  \E i \in 1..Len(f[n + 1]) : f[n + 1][i] = Order[m]
          OBVIOUS
      <4>1. m \in 1..n
            BY <2>1, <2>3
      <4> QED BY <4>1, <2>1, <3>1
    <3>4. Once(n + 1)
          BY <2>1, <3>1
    <3> HIDE DEF From, All, Once
    <3> QED BY <3>2, <3>3, <3>4, <2>1
  <2>4. CASE Order[n + 1] \in S
    <3>1. f[n + 1] = Append(f[n], Order[n + 1])
          BY <2>2, <2>4
    <3> DEFINE k == Len(f[n])
    <3>2. /\ k \in Nat /\ Len(f[n + 1]) = k + 1 /\ f[n + 1][k + 1] = Order[n + 1]
          /\ \A i \in 1..k : f[n + 1][i] = f[n][i]
          BY <2>1, <3>1
    <3>3. From(n + 1)
      <4> SUFFICES ASSUME NEW i \in 1..Len(f[n + 1])
                   PROVE  \E m \in 1..(n + 1) : f[n + 1][i] = Order[m] /\ Order[m] \in S
          OBVIOUS
      <4>1. CASE i = k + 1
        <5>1. n + 1 \in 1..(n + 1) /\ f[n + 1][i] = Order[n + 1]
              BY <2>1, <3>2, <4>1
        <5> QED BY <5>1, <2>4
      <4>2. CASE i # k + 1
        <5>1. i \in 1..k
              BY <3>2, <4>2
        <5>2. PICK m \in 1..n : f[n][i] = Order[m] /\ Order[m] \in S
              BY <5>1, <2>1
        <5>3. m \in 1..(n + 1) /\ f[n + 1][i] = Order[m]
              BY <5>1, <5>2, <2>1, <3>2
        <5> QED BY <5>2, <5>3
      <4> QED BY <4>1, <4>2
    <3>4. All(n + 1)
      <4> SUFFICES ASSUME NEW m \in 1..(n + 1), Order[m] \in S
                   PROVE  \E i \in 1..Len(f[n + 1]) : f[n + 1][i] = Order[m]
          OBVIOUS
      <4>1. CASE m = n + 1
        <5>1. k + 1 \in 1..Len(f[n + 1]) /\ f[n + 1][k + 1] = Order[m]
              BY <3>2, <4>1
        <5> QED BY <5>1
      <4>2. CASE m # n + 1
        <5>1. m \in 1..n
              BY <2>1, <4>2
        <5>2. PICK i \in 1..k : f[n][i] = Order[m]
              BY <5>1, <2>1
        <5>3. i \in 1..Len(f[n + 1]) /\ f[n + 1][i] = Order[m]
              BY <5>2, <3>2
        <5> QED BY <5>3
      <4> QED BY <4>1, <4>2
    <3>5. Once(n + 1)
      <4>1. \A i \in 1..k : f[n + 1][i] # Order[n + 1]
        <5> SUFFICES ASSUME NEW i \in 1..k, f[n][i] = Order[n + 1] PROVE FALSE
            BY <3>2
        <5>1. PICK m \in 1..n : f[n][i] = Order[m]
              BY <2>1
        <5>2. m \in 1..L /\ m # n + 1
              BY <2>1
        <5> QED BY <5>1, <5>2, <1>2, <2>1
      <4> SUFFICES ASSUME NEW i \in 1..Len(f[n + 1]), NEW j \in 1..Len(f[n + 1]),
                          f[n + 1][i] = f[n + 1][j]
                   PROVE  i = j
          OBVIOUS
      <4>2. (i \in 1..k \/ i = k + 1) /\ (j \in 1..k \/ j = k + 1)
            BY <3>2
      <4>3. CASE i \in 1..k /\ j \in 1..k
            BY <4>3, <3>2, <2>1
      <4>4. CASE i = k + 1 \/ j = k + 1
            BY <4>1, <4>2, <4>4, <3>2
      <4> QED BY <4>2, <4>3, <4>4
    <3> HIDE DEF From, All, Once
    <3> QED BY <3>3, <3>4, <3>5, <2>1
  <2> QED BY <2>3, <2>4
<1> HIDE DEF T
<1>5. \A m \in 0..L : m \in T /\ m < L => m + 1 \in T
      BY <1>4
<1>6. \A m \in 0..L : m \in T
      BY <1>2, <1>3, <1>5, UpTo
<1>7. L \in 0..L
      BY <1>2
<1>8. L \in T /\ InOrder(S) = f[L]
      BY <1>1, <1>6, <1>7
<1>9. From(L) /\ All(L) /\ Once(L)
      BY <1>8 DEF T
<1>10. \A c \in S : \E i \in 1..Len(f[L]) : f[L][i] = c
  <2> SUFFICES ASSUME NEW c \in S PROVE \E i \in 1..Len(f[L]) : f[L][i] = c
      OBVIOUS
  <2>1. PICK n \in 1..L : Order[n] = c
        BY <1>2
  <2> QED BY <2>1, <1>9
<1>11. \A i \in 1..Len(f[L]) : f[L][i] \in S
      BY <1>9
<1>12. f[L] \in Seq(Columns)
      BY <1>1, <1>7
<1> HIDE DEF From, All
<1> QED BY <1>8, <1>9, <1>10, <1>11, <1>12

-----------------------------------------------------------------------------
\* The order of the names

Before(c, d) == \E m, n \in 1..Len(Order) : Order[m] = c /\ Order[n] = d /\ m < n

Sorted(s) == \A i, j \in 1..Len(s) : i < j => Before(s[i], s[j])

\* Names are in one order; in it come simple fields, then data_, then hash_
LEMMA NamesOrdered ==
    /\ \A c, d : Before(c, d) => ~Before(d, c)
    /\ \A c, d \in Columns : c = d \/ Before(c, d) \/ Before(d, c)
    /\ \A c, d \in Columns : Prefix(c) < Prefix(d) => Before(c, d)
    /\ \A c, d \in DOMAIN DataOf : DataOf[c] = DataOf[d] => c = d
<1>1. /\ Len(Order) \in Nat /\ DOMAIN Order = 1..Len(Order)
      /\ \A c \in Columns : \E n \in 1..Len(Order) : Order[n] = c
      /\ \A m, n \in 1..Len(Order) : Order[m] = Order[n] => m = n
      BY OrderAssumption
<1>2. ASSUME NEW c, NEW d, Before(c, d), Before(d, c) PROVE FALSE
  <2>1. PICK i, j \in 1..Len(Order) : Order[i] = c /\ Order[j] = d /\ i < j
        BY <1>2 DEF Before
  <2>2. PICK k, l \in 1..Len(Order) : Order[k] = d /\ Order[l] = c /\ k < l
        BY <1>2 DEF Before
  <2>3. i = l /\ j = k
        BY <1>1, <2>1, <2>2
  <2> QED BY <1>1, <2>1, <2>2, <2>3
<1>3. ASSUME NEW c \in Columns, NEW d \in Columns
      PROVE  /\ c = d \/ Before(c, d) \/ Before(d, c)
             /\ Prefix(c) < Prefix(d) => Before(c, d)
  <2>1. PICK i \in 1..Len(Order) : Order[i] = c
        BY <1>1
  <2>2. PICK j \in 1..Len(Order) : Order[j] = d
        BY <1>1
  <2>3. i < j \/ j < i \/ i = j
        BY <1>1
  <2>4. Prefix(Order[i]) < Prefix(Order[j]) => i < j
        BY <1>1, NamesAssumption
  <2> QED BY <2>1, <2>2, <2>3, <2>4 DEF Before
<1>4. ASSUME NEW c \in DOMAIN DataOf, NEW d \in DOMAIN DataOf, DataOf[c] = DataOf[d], Before(c, d)
      PROVE  FALSE
  <2>1. PICK i, j \in 1..Len(Order) : Order[i] = c /\ Order[j] = d /\ i < j
        BY <1>4 DEF Before
  <2>2. DataOf[c] \in Columns
        BY DataAssumption
  <2>3. PICK k \in 1..Len(Order) : Order[k] = DataOf[c]
        BY <1>1, <2>2
  <2>4. {Order[i], Order[j]} \subseteq DOMAIN DataOf
        BY <2>1
  <2>5. k < k
        BY <1>1, <1>4, <2>1, <2>3, <2>4, NamesAssumption
  <2> QED BY <1>1, <2>5
<1>5. \A c \in DOMAIN DataOf : c \in Columns
      BY DataAssumption, IndexedAssumption
<1> QED BY <1>2, <1>3, <1>4, <1>5

\* InOrder is what it says
LEMMA InOrderSorted ==
    ASSUME NEW S \in SUBSET Columns
    PROVE  Sorted(InOrder(S))
<1>1. PICK f \in [0..Len(Order) -> Seq(Columns)] :
          /\ \A n \in 0..Len(Order) : f[n] = Taken(S, n, f)
          /\ InOrder(S) = f[Len(Order)]
      BY TakenExists
<1> DEFINE L == Len(Order)
           From(n) == \A i \in 1..Len(f[n]) : \E m \in 1..n : f[n][i] = Order[m]
           T == {n \in 0..L : From(n) /\ Sorted(f[n])}
<1>2. L \in Nat /\ L \in 0..L
      BY OrderAssumption
<1>3. 0 \in T
  <2>1. 0 \in 0..L /\ f[0] = Taken(S, 0, f)
        BY <1>1, <1>2
  <2>2. f[0] = <<>>
        BY <2>1 DEF Taken
  <2>3. Len(f[0]) = 0
        BY <2>2
  <2>4. From(0) /\ Sorted(f[0])
        BY <2>3 DEF Sorted
  <2> HIDE DEF From
  <2> QED BY <2>1, <2>4
<1>4. ASSUME NEW n \in 0..L, n \in T, n < L PROVE n + 1 \in T
  <2>1. n + 1 \in 0..L /\ n + 1 \in 1..L /\ n + 1 # 0 /\ (n + 1) - 1 = n /\ n \in Nat
        BY <1>2, <1>4
  <2>2. f[n] \in Seq(Columns) /\ Order[n + 1] \in Columns
        BY <1>1, <2>1, OrderAssumption
  <2>3. From(n) /\ Sorted(f[n])
    <3> HIDE DEF From
    <3> QED BY <1>4
  <2>4. f[n + 1] = IF Order[n + 1] \in S THEN Append(f[n], Order[n + 1]) ELSE f[n]
    <3>1. f[n + 1] = Taken(S, n + 1, f)
          BY <1>1, <2>1
    <3> QED BY <2>1, <3>1 DEF Taken
  <2>5. From(n + 1) /\ Sorted(f[n + 1])
    <3>1. CASE Order[n + 1] \notin S
      <4>1. f[n + 1] = f[n]
            BY <2>4, <3>1
      <4> QED BY <2>1, <2>3, <4>1
    <3>2. CASE Order[n + 1] \in S
      <4> DEFINE k == Len(f[n])
      <4>1. /\ k \in Nat /\ Len(f[n + 1]) = k + 1 /\ f[n + 1][k + 1] = Order[n + 1]
            /\ \A i \in 1..k : f[n + 1][i] = f[n][i]
            BY <2>2, <2>4, <3>2
      <4>2. \A i \in 1..k : \E m \in 1..n : f[n][i] = Order[m]
            BY <2>3
      <4>3. \A i, j \in 1..k : i < j => Before(f[n][i], f[n][j])
            BY <2>3 DEF Sorted
      <4> HIDE DEF k
      <4>4. \A i \in 1..(k + 1) : i \in 1..k \/ i = k + 1
            BY <4>1
      <4>5. \A m \in 1..n : m \in 1..(n + 1) /\ m \in 1..L /\ m < n + 1
            BY <2>1
      <4>6. n + 1 \in 1..(n + 1)
            BY <2>1
      <4>7. From(n + 1)
            BY <4>1, <4>2, <4>4, <4>5, <4>6
      <4>8. ASSUME NEW i \in 1..(k + 1), NEW j \in 1..(k + 1), i < j
            PROVE  Before(f[n + 1][i], f[n + 1][j])
        <5>1. i \in 1..k
              BY <4>1, <4>8
        <5>2. CASE j \in 1..k
              BY <4>1, <4>3, <4>8, <5>1, <5>2
        <5>3. CASE j = k + 1
          <6>1. PICK m \in 1..n : f[n + 1][i] = Order[m]
                BY <4>1, <4>2, <5>1
          <6>2. f[n + 1][j] = Order[n + 1]
                BY <4>1, <5>3
          <6> QED BY <2>1, <4>5, <6>1, <6>2 DEF Before
        <5> QED BY <4>4, <5>2, <5>3
      <4> HIDE DEF From
      <4> QED BY <4>1, <4>7, <4>8 DEF Sorted
    <3> QED BY <3>1, <3>2
  <2> HIDE DEF From
  <2> QED BY <2>1, <2>5
<1> HIDE DEF T
<1>5. \A m \in 0..L : m \in T /\ m < L => m + 1 \in T
      BY <1>4
<1>6. L \in T
      BY <1>2, <1>3, <1>5, UpTo
<1> HIDE DEF From
<1> QED BY <1>1, <1>6 DEF T

\* Two ordered sequences of the same names are the same, as far as the first goes
LEMMA SortedSame ==
    ASSUME NEW s \in Seq(Columns), NEW t \in Seq(Columns), Sorted(s), Sorted(t),
           \A i \in 1..Len(s) : \E j \in 1..Len(t) : t[j] = s[i],
           \A j \in 1..Len(t) : \E i \in 1..Len(s) : s[i] = t[j]
    PROVE  \A i \in 1..Len(s) : i \in 1..Len(t) /\ s[i] = t[i]
<1> DEFINE M == Len(s)
           N == Len(t)
           T == {n \in 0..M : \A i \in 1..n : i \in 1..N /\ s[i] = t[i]}
<1>1. M \in Nat /\ N \in Nat
      OBVIOUS
<1>2. /\ \A i, j \in 1..M : i < j => Before(s[i], s[j])
      /\ \A i, j \in 1..N : i < j => Before(t[i], t[j])
      BY DEF Sorted
<1>3. /\ \A i \in 1..M : \E j \in 1..N : t[j] = s[i]
      /\ \A j \in 1..N : \E i \in 1..M : s[i] = t[j]
      OBVIOUS
<1>4. \A c, d : Before(c, d) => ~Before(d, c)
      BY NamesOrdered
<1> HIDE DEF M, N
<1>5. 0 \in T
      BY <1>1
<1>6. ASSUME NEW n \in 0..M, n \in T, n < M PROVE n + 1 \in T
  <2>1. n \in Nat /\ n + 1 \in 1..M /\ n + 1 \in 0..M /\ \A i \in 1..n : i \in 1..N /\ s[i] = t[i]
        BY <1>1, <1>6
  <2>2. PICK j \in 1..N : t[j] = s[n + 1]
        BY <1>3, <2>1
  <2>3. ~(j < n + 1)
    <3> SUFFICES ASSUME j < n + 1 PROVE FALSE
        OBVIOUS
    <3>1. j \in 1..n /\ j \in 1..M
          BY <1>1, <2>1
    <3>2. s[j] = s[n + 1] /\ Before(s[j], s[n + 1])
          BY <1>2, <2>1, <2>2, <3>1
    <3> QED BY <1>4, <3>2
  <2>4. n + 1 \in 1..N
        BY <1>1, <2>1, <2>3
  <2>5. s[n + 1] = t[n + 1]
    <3>1. CASE j = n + 1
          BY <2>2, <3>1
    <3>2. CASE n + 1 < j
      <4>1. Before(t[n + 1], s[n + 1])
            BY <1>2, <2>2, <2>4, <3>2
      <4>2. PICK k \in 1..M : s[k] = t[n + 1]
            BY <1>3, <2>4
      <4>3. ~(k < n + 1)
        <5> SUFFICES ASSUME k < n + 1 PROVE FALSE
            OBVIOUS
        <5>1. k \in 1..n
              BY <1>1, <2>1
        <5>2. k \in 1..N /\ s[k] = t[k]
              BY <2>1, <5>1
        <5>3. t[k] = t[n + 1] /\ Before(t[k], t[n + 1])
              BY <1>2, <2>1, <2>4, <4>2, <5>1, <5>2
        <5> QED BY <1>4, <5>3
      <4>4. ~(n + 1 < k)
        <5> SUFFICES ASSUME n + 1 < k PROVE FALSE
            OBVIOUS
        <5>1. Before(s[n + 1], t[n + 1])
              BY <1>2, <2>1, <4>2
        <5> QED BY <1>4, <4>1, <5>1
      <4>5. k = n + 1
            BY <1>1, <2>1, <4>3, <4>4
      <4> QED BY <4>2, <4>5
    <3> QED BY <1>1, <2>1, <2>3, <3>1, <3>2
  <2>6. \A i \in 1..(n + 1) : i \in 1..n \/ i = n + 1
        BY <2>1
  <2> QED BY <2>1, <2>4, <2>5, <2>6
<1> HIDE DEF T
<1>7. \A m \in 0..M : m \in T /\ m < M => m + 1 \in T
      BY <1>6
<1>8. M \in T
  <2>1. M \in 0..M
        BY <1>1
  <2> QED BY <1>1, <1>5, <1>7, <2>1, UpTo
<1> QED BY <1>8 DEF T, M, N

-----------------------------------------------------------------------------
\* INSERT finds a value for every column it names: the fields that are bound
\* bring at least as many

\* Field f binds the value of column c
Binds(f, c) == c = f \/ (f \in DOMAIN DataOf /\ c = DataOf[f])

LEMMA BoundIs ==
    ASSUME NEW shape \in Classes, Present(shape) # {}
    PROVE  LET bound == Bound(shape)
           IN  /\ bound \in Seq(Columns) /\ Len(InOrder(Present(shape))) <= Len(bound)
               /\ \A c \in Present(shape) : \E k \in 1..Len(bound) : bound[k] = c
               /\ \A k \in 1..Len(bound) : bound[k] \in Present(shape)
               /\ \A k, l \in 1..Len(bound) : k < l =>
                     \E f, g \in KeyOf(shape) :
                        /\ Binds(f, bound[k]) /\ Binds(g, bound[l])
                        /\ \/ Before(f, g)
                           \/ f = g /\ f \in DOMAIN DataOf /\ bound[k] = DataOf[f] /\ bound[l] = f
<1> DEFINE P == Present(shape)
           K == KeyOf(shape)
           fields == InOrder(K)
           named == InOrder(P)
           Pair(x) == IF x \in DOMAIN DataOf THEN <<DataOf[x], x>> ELSE <<x>>
           q == [i \in DOMAIN fields |-> Pair(fields[i])]
           B == FlattenSeq(q)
<1>1. /\ P \in SUBSET Columns /\ K \in SUBSET Columns /\ K \subseteq P
      /\ \A x \in P : x \in K \/ x \notin Indexed
      BY IndexedAssumption DEF Present, KeyOf
<1>2. \A x \in DOMAIN DataOf : x \in Indexed /\ DataOf[x] \in Columns \ Indexed
      BY DataAssumption
<1>3. \A x \in P : x \in Indexed \/ (\E y \in K : y \in DOMAIN DataOf /\ DataOf[y] = x)
  <2> SUFFICES ASSUME NEW x \in P, x \notin Indexed
               PROVE  \E y \in K : y \in DOMAIN DataOf /\ DataOf[y] = x
      OBVIOUS
  <2>1. PICK y \in DOMAIN DataOf : DataOf[y] = x
        BY <1>1, DataAssumption
  <2>2. y \in Indexed /\ y \in Columns
        BY <1>2, IndexedAssumption
  <2>3. shape[y] # None
        BY <2>1, ClassesAssumption DEF Present
  <2>4. y \in K
        BY <2>2, <2>3 DEF KeyOf, Present
  <2> QED BY <2>1, <2>4
<1>4. /\ fields \in Seq(Columns) /\ \A i \in 1..Len(fields) : fields[i] \in K
      /\ \A x \in K : \E i \in 1..Len(fields) : fields[i] = x
      BY <1>1, InOrderIs
<1>5. /\ named \in Seq(Columns)
      /\ \A i \in 1..Len(named) : named[i] \in P
      /\ \A x \in P : \E i \in 1..Len(named) : named[i] = x
      /\ \A i, j \in 1..Len(named) : named[i] = named[j] => i = j
      BY <1>1, InOrderIs
<1> HIDE DEF P, K, fields, named
<1>6. \A x \in Columns : Pair(x) \in Seq(Columns)
  <2> SUFFICES ASSUME NEW x \in Columns PROVE Pair(x) \in Seq(Columns)
      OBVIOUS
  <2>1. CASE x \in DOMAIN DataOf
    <3>1. DataOf[x] \in Columns
          BY <1>2, <2>1
    <3> QED BY <2>1, <3>1
  <2>2. CASE x \notin DOMAIN DataOf
        BY <2>2
  <2> QED BY <2>1, <2>2
<1>7. \A x \in Columns : /\ \E j \in 1..Len(Pair(x)) : Pair(x)[j] = x
                         /\ x \in DOMAIN DataOf => \E j \in 1..Len(Pair(x)) : Pair(x)[j] = DataOf[x]
  <2> SUFFICES ASSUME NEW x \in Columns
               PROVE  /\ \E j \in 1..Len(Pair(x)) : Pair(x)[j] = x
                      /\ x \in DOMAIN DataOf => \E j \in 1..Len(Pair(x)) : Pair(x)[j] = DataOf[x]
      OBVIOUS
  <2>1. CASE x \in DOMAIN DataOf
    <3>1. Len(Pair(x)) = 2 /\ Pair(x)[1] = DataOf[x] /\ Pair(x)[2] = x
          BY <2>1
    <3> HIDE DEF Pair
    <3>2. 1 \in 1..Len(Pair(x)) /\ 2 \in 1..Len(Pair(x))
          BY <3>1
    <3> QED BY <3>1, <3>2
  <2>2. CASE x \notin DOMAIN DataOf
    <3>1. Len(Pair(x)) = 1 /\ Pair(x)[1] = x
          BY <2>2
    <3> HIDE DEF Pair
    <3>2. 1 \in 1..Len(Pair(x))
          BY <3>1
    <3> QED BY <2>2, <3>1, <3>2
  <2> QED BY <2>1, <2>2
<1>8. ASSUME NEW x \in Columns, NEW i \in 1..Len(Pair(x))
       PROVE  Binds(x, Pair(x)[i])
  <2>1. CASE x \in DOMAIN DataOf
    <3>1. Len(Pair(x)) = 2 /\ Pair(x)[1] = DataOf[x] /\ Pair(x)[2] = x
          BY <2>1
    <3> HIDE DEF Pair
    <3>2. i = 1 \/ i = 2
          BY <3>1
    <3> QED BY <2>1, <3>1, <3>2 DEF Binds
  <2>2. CASE x \notin DOMAIN DataOf
    <3>1. Len(Pair(x)) = 1 /\ Pair(x)[1] = x
          BY <2>2
    <3> HIDE DEF Pair
    <3>2. i = 1
          BY <3>1
    <3> QED BY <3>1, <3>2 DEF Binds
  <2> QED BY <2>1, <2>2
<1>9. ASSUME NEW x \in Columns, NEW i \in 1..Len(Pair(x)), NEW j \in 1..Len(Pair(x)), i < j
       PROVE  x \in DOMAIN DataOf /\ Pair(x)[i] = DataOf[x] /\ Pair(x)[j] = x
  <2>1. CASE x \in DOMAIN DataOf
    <3>1. Len(Pair(x)) = 2 /\ Pair(x)[1] = DataOf[x] /\ Pair(x)[2] = x
          BY <2>1
    <3> HIDE DEF Pair
    <3>2. i = 1 /\ j = 2
          BY <1>9, <3>1
    <3> QED BY <2>1, <3>1, <3>2
  <2>2. CASE x \notin DOMAIN DataOf
    <3>1. Len(Pair(x)) = 1
          BY <2>2
    <3> HIDE DEF Pair
    <3> QED BY <1>9, <3>1
  <2> QED BY <2>1, <2>2
<1> HIDE DEF Pair
<1>10. DOMAIN fields = 1..Len(fields) /\ Len(fields) \in Nat
      BY <1>4
<1>11. /\ q \in Seq(Seq(Columns)) /\ Len(q) = Len(fields)
      /\ \A i \in 1..Len(q) : q[i] = Pair(fields[i])
  <2>1. \A i \in 1..Len(fields) : Pair(fields[i]) \in Seq(Columns)
        BY <1>4, <1>6
  <2>2. q \in [1..Len(fields) -> Seq(Columns)]
        BY <1>10, <2>1
  <2>3. q \in Seq(Seq(Columns)) /\ Len(q) = Len(fields)
        BY <1>10, <2>2
  <2> QED BY <1>10, <2>3
<1>12. Len(q) # 0
  <2>1. \E x \in K : TRUE
        BY <1>1, <1>3 DEF P
  <2> QED BY <1>4, <1>10, <1>11, <2>1
<1>13. Bound(shape) = B
       BY DEF Bound, fields, K, Pair
<1> HIDE DEF q
<1>14. /\ B \in Seq(Columns)
       /\ \A i \in 1..Len(q) : \A j \in 1..Len(q[i]) : \E k \in 1..Len(B) : B[k] = q[i][j]
       BY <1>11, <1>12, FlattenIs
<1> HIDE DEF B
<1>15. \A x \in P : \E k \in 1..Len(B) : B[k] = x
  <2> SUFFICES ASSUME NEW x \in P PROVE \E k \in 1..Len(B) : B[k] = x
      OBVIOUS
  <2>1. PICK y \in K : y = x \/ (y \in DOMAIN DataOf /\ DataOf[y] = x)
    <3>1. CASE x \in Indexed
          BY <1>1, <3>1
    <3>2. CASE x \notin Indexed
          BY <1>3, <3>2
    <3> QED BY <3>1, <3>2
  <2>2. PICK i \in 1..Len(fields) : fields[i] = y
        BY <1>4
  <2>3. y \in Columns
        BY <1>1
  <2>4. PICK j \in 1..Len(Pair(y)) : Pair(y)[j] = x
        BY <1>7, <2>1, <2>3
  <2>5. i \in 1..Len(q) /\ q[i] = Pair(y)
        BY <1>11, <2>2
  <2>6. j \in 1..Len(q[i]) /\ q[i][j] = x
        BY <2>4, <2>5
  <2> QED BY <1>14, <2>5, <2>6
<1> DEFINE M == Len(named)
           N == Len(B)
           Where(x) == CHOOSE k \in 1..N : B[k] = x
           place == [i \in 1..M |-> Where(named[i])]
<1>16. M \in Nat /\ N \in Nat /\ DOMAIN named = 1..M
       BY <1>5, <1>14
<1>17. \A i \in 1..M : Where(named[i]) \in 1..N /\ B[Where(named[i])] = named[i]
       BY <1>5, <1>15
<1> HIDE DEF Where, M, N
<1>18. place \in Injection(1..M, 1..N)
  <2>1. place \in [1..M -> 1..N]
        BY <1>17
  <2>2. \A i, j \in 1..M : place[i] = place[j] => i = j
        BY <1>5, <1>17 DEF M
  <2> QED BY <2>1, <2>2 DEF Injection, IsInjective
<1>19. M <= N
  <2>1. ExistsInjection(1..M, 1..N)
        BY <1>18 DEF ExistsInjection
  <2> QED BY <1>16, <2>1, Fun_NatInjLeq
<1>20. Placed(q, Len(q), B)
       BY <1>11, <1>12, FlattenPlaced DEF B
<1>21. \A x \in P : x \in DOMAIN DataOf => DataOf[x] \in P
  <2> SUFFICES ASSUME NEW x \in P, x \in DOMAIN DataOf PROVE DataOf[x] \in P
      OBVIOUS
  <2>1. DataOf[x] \in Columns /\ shape[DataOf[x]] # None
        BY <1>2, ClassesAssumption DEF P, Present
  <2> QED BY <2>1 DEF P, Present
<1>22. ASSUME NEW k \in 1..Len(B) PROVE B[k] \in P
  <2>1. PICK a \in 1..Len(q) : \E i \in 1..Len(q[a]) : B[k] = q[a][i]
        BY <1>20 DEF Placed
  <2>2. PICK i \in 1..Len(q[a]) : B[k] = q[a][i]
        BY <2>1
  <2>3. /\ fields[a] \in K /\ fields[a] \in P /\ fields[a] \in Columns
        /\ i \in 1..Len(Pair(fields[a])) /\ B[k] = Pair(fields[a])[i]
        BY <1>1, <1>4, <1>11, <2>2
  <2>4. Binds(fields[a], B[k])
        BY <1>8, <2>3
  <2> QED BY <1>21, <2>3, <2>4 DEF Binds
<1>23. Sorted(fields)
       BY <1>1, InOrderSorted DEF fields
<1>24. ASSUME NEW k \in 1..Len(B), NEW l \in 1..Len(B), k < l
       PROVE  \E f, g \in K :
                 /\ Binds(f, B[k]) /\ Binds(g, B[l])
                 /\ \/ Before(f, g)
                    \/ f = g /\ f \in DOMAIN DataOf /\ B[k] = DataOf[f] /\ B[l] = f
  <2>1. PICK a, b \in 1..Len(q) : \E i \in 1..Len(q[a]) : \E j \in 1..Len(q[b]) :
           B[k] = q[a][i] /\ B[l] = q[b][j] /\ (a < b \/ (a = b /\ i < j))
        BY <1>20, <1>24 DEF Placed
  <2>2. PICK i \in 1..Len(q[a]), j \in 1..Len(q[b]) :
           B[k] = q[a][i] /\ B[l] = q[b][j] /\ (a < b \/ (a = b /\ i < j))
        BY <2>1
  <2> DEFINE f == fields[a]
             g == fields[b]
  <2>3. /\ f \in K /\ g \in K /\ f \in Columns /\ g \in Columns
        /\ i \in 1..Len(Pair(f)) /\ B[k] = Pair(f)[i]
        /\ j \in 1..Len(Pair(g)) /\ B[l] = Pair(g)[j]
        BY <1>1, <1>4, <1>11, <2>2
  <2>4. a < b => Before(f, g)
        BY <1>11, <1>23 DEF Sorted
  <2>5. Binds(f, B[k]) /\ Binds(g, B[l])
        BY <1>8, <2>3
  <2>6. a = b /\ i < j => f = g /\ f \in DOMAIN DataOf /\ B[k] = DataOf[f] /\ B[l] = f
        BY <1>9, <2>3
  <2> QED BY <2>2, <2>3, <2>4, <2>5, <2>6
<1> QED BY <1>13, <1>14, <1>15, <1>19, <1>22, <1>24 DEF named, P, K, M, N

\* The value for a column is taken at its own place
LEMMA BoundAt ==
    ASSUME NEW shape \in Classes, NEW c \in Present(shape)
    PROVE  LET named == InOrder(Present(shape))
               m == CHOOSE i \in DOMAIN named : named[i] = c
           IN  /\ m \in 1..Len(named) /\ m \in 1..Len(Bound(shape))
               /\ named[m] = c /\ Bound(shape)[m] \in Columns
<1> DEFINE named == InOrder(Present(shape))
           bound == Bound(shape)
           m == CHOOSE i \in DOMAIN named : named[i] = c
<1>1. /\ named \in Seq(Columns) /\ \E i \in 1..Len(named) : named[i] = c
      BY InOrderIs DEF Present
<1>2. bound \in Seq(Columns) /\ Len(named) <= Len(bound)
      BY BoundIs
<1> HIDE DEF named, bound
<1>3. DOMAIN named = 1..Len(named) /\ Len(named) \in Nat /\ Len(bound) \in Nat
      BY <1>1, <1>2
<1>4. m \in 1..Len(named) /\ named[m] = c
      BY <1>1, <1>3
<1> HIDE DEF m
<1>5. m \in 1..Len(bound)
      BY <1>2, <1>3, <1>4
<1>6. bound[m] \in Columns
      BY <1>2, <1>5
<1> QED BY <1>4, <1>5, <1>6 DEF m, named, bound

-----------------------------------------------------------------------------
\* The statements that alter a table

LEMMA FramedIs ==
    ASSUME NEW A, NEW x \in A, NEW y \in A, NEW s \in Seq(A), NEW t \in Seq(A)
    PROVE  LET all == <<x>> \o s \o t \o <<y>>
           IN  /\ all \in Seq(A) /\ Len(all) = Len(s) + Len(t) + 2
               /\ all[1] = x /\ all[Len(all)] = y
               /\ \A i \in 1..Len(s) : all[1 + i] = s[i]
               /\ \A i \in 1..Len(t) : all[1 + Len(s) + i] = t[i]
<1> DEFINE b == <<x>> \o s
           c == b \o t
           d == c \o <<y>>
<1>1. <<x>> \in Seq(A) /\ Len(<<x>>) = 1 /\ <<x>>[1] = x
      OBVIOUS
<1>2. <<y>> \in Seq(A) /\ Len(<<y>>) = 1 /\ <<y>>[1] = y
      OBVIOUS
<1>3. Len(s) \in Nat /\ Len(t) \in Nat
      OBVIOUS
<1>4. /\ b \in Seq(A) /\ Len(b) = 1 + Len(s) /\ b[1] = x
      /\ \A i \in 1..Len(s) : b[1 + i] = s[i]
      BY <1>1, <1>3
<1> HIDE DEF b
<1>5. /\ c \in Seq(A) /\ Len(c) = Len(b) + Len(t)
      /\ \A i \in 1..Len(b) : c[i] = b[i]
      /\ \A i \in 1..Len(t) : c[Len(b) + i] = t[i]
      BY <1>3, <1>4
<1> HIDE DEF c
<1>6. /\ d \in Seq(A) /\ Len(d) = Len(c) + 1 /\ d[Len(d)] = y
      /\ \A i \in 1..Len(c) : d[i] = c[i]
  <2>1. c \in Seq(A) /\ Len(c) \in Nat
        BY <1>5
  <2>2. /\ d \in Seq(A) /\ Len(d) = Len(c) + 1 /\ d[Len(c) + 1] = y
        /\ \A i \in 1..Len(c) : d[i] = c[i]
        BY <2>1
  <2> HIDE DEF d
  <2> QED BY <2>1, <2>2
<1> HIDE DEF d
<1>7. d[1] = x
      BY <1>3, <1>4, <1>5, <1>6
<1>8. ASSUME NEW i \in 1..Len(s) PROVE d[1 + i] = s[i]
  <2>1. 1 + i \in 1..Len(b) /\ 1 + i \in 1..Len(c)
        BY <1>3, <1>4, <1>5
  <2> QED BY <2>1, <1>4, <1>5, <1>6
<1>9. ASSUME NEW i \in 1..Len(t) PROVE d[1 + Len(s) + i] = t[i]
  <2>1. 1 + Len(s) + i = Len(b) + i /\ Len(b) + i \in 1..Len(c)
        BY <1>3, <1>4, <1>5
  <2> QED BY <2>1, <1>5, <1>6
<1>10. Len(d) = Len(s) + Len(t) + 2
       BY <1>3, <1>4, <1>5, <1>6
<1> QED BY <1>6, <1>7, <1>8, <1>9, <1>10 DEF d, c, b

LEMMA AlterIs ==
    ASSUME NEW base \in Shape, NEW comp \in Shape
    PROVE  LET all == Alter(base, comp)
           IN  /\ all \in Seq(Statement) /\ 1 \in DOMAIN all /\ all[1].op = "dropkey"
               /\ \A i \in DOMAIN all :
                    /\ all[i].op # "create"
                    /\ all[i].op = "dropkey" => i = 1
                    /\ all[i].op = "addkey" <=> i = Len(all)
                    /\ all[i].op = "drop" => all[i].col \in Deleted(base, comp)
                    /\ all[i].op = "add" =>
                        /\ all[i].col \in Inserted(base, comp) /\ all[i].type = comp[all[i].col]
                        /\ \A j \in DOMAIN all : all[j].op = "drop" => j < i
               /\ \A c \in Deleted(base, comp) :
                    \E i \in DOMAIN all : all[i].op = "drop" /\ all[i].col = c
               /\ \A c \in Inserted(base, comp) :
                    \E i \in DOMAIN all : all[i].op = "add" /\ all[i].col = c
<1> DEFINE D == Deleted(base, comp)
           I == Inserted(base, comp)
           dropped == InOrder(D)
           added == InOrder(I)
           m == Len(dropped)
           n == Len(added)
           x == [op |-> "dropkey"]
           y == [op |-> "addkey"]
           s == [i \in DOMAIN dropped |-> [op |-> "drop", col |-> dropped[i]]]
           t == [i \in DOMAIN added |-> [op |-> "add", col |-> added[i], type |-> comp[added[i]]]]
           all == <<x>> \o s \o t \o <<y>>
<1>1. all = Alter(base, comp)
      BY DEF Alter, AlterWith
<1>2. D \in SUBSET Columns /\ I \in SUBSET Columns /\ \A c \in I : comp[c] \in Types
      BY DEF Deleted, Inserted, Present, Shape
<1>3. /\ dropped \in Seq(Columns)
      /\ \A i \in 1..m : dropped[i] \in D
      /\ \A c \in D : \E i \in 1..m : dropped[i] = c
      BY <1>2, InOrderIs
<1>4. /\ added \in Seq(Columns)
      /\ \A i \in 1..n : added[i] \in I
      /\ \A c \in I : \E i \in 1..n : added[i] = c
      BY <1>2, InOrderIs
<1> HIDE DEF D, I, dropped, added
<1>5. x \in Statement /\ y \in Statement
      BY DEF Statement
<1>6. m \in Nat /\ n \in Nat /\ DOMAIN dropped = 1..m /\ DOMAIN added = 1..n
      BY <1>3, <1>4
<1>7. /\ s \in Seq(Statement) /\ Len(s) = m
      /\ \A i \in 1..m : s[i].op = "drop" /\ s[i].col = dropped[i]
  <2>1. \A i \in 1..m : [op |-> "drop", col |-> dropped[i]] \in Statement
    <3>1. \A i \in 1..m : dropped[i] \in Columns
          BY <1>3
    <3> QED BY <3>1 DEF Statement
  <2>2. s \in [1..m -> Statement]
        BY <1>6, <2>1
  <2> QED BY <1>6, <2>2
<1>8. /\ t \in Seq(Statement) /\ Len(t) = n
      /\ \A i \in 1..n : t[i].op = "add" /\ t[i].col = added[i] /\ t[i].type = comp[added[i]]
  <2>1. \A i \in 1..n : [op |-> "add", col |-> added[i], type |-> comp[added[i]]] \in Statement
    <3>1. \A i \in 1..n : added[i] \in Columns /\ comp[added[i]] \in Types
          BY <1>2, <1>4
    <3> QED BY <3>1 DEF Statement
  <2>2. t \in [1..n -> Statement]
        BY <1>6, <2>1
  <2> QED BY <1>6, <2>2
<1> HIDE DEF s, t
<1>9. /\ all \in Seq(Statement) /\ Len(all) = m + n + 2
      /\ all[1] = x /\ all[Len(all)] = y
      /\ \A i \in 1..m : all[1 + i] = s[i]
      /\ \A i \in 1..n : all[1 + m + i] = t[i]
  <2> HIDE DEF x, y
  <2>1. /\ all \in Seq(Statement) /\ Len(all) = Len(s) + Len(t) + 2
        /\ all[1] = x /\ all[Len(all)] = y
        /\ \A i \in 1..Len(s) : all[1 + i] = s[i]
        /\ \A i \in 1..Len(t) : all[1 + Len(s) + i] = t[i]
    <3>1. s \in Seq(Statement) /\ t \in Seq(Statement)
          BY <1>7, <1>8
    <3> QED BY <1>5, <3>1, FramedIs
  <2> HIDE DEF all
  <2>2. Len(s) = m /\ Len(t) = n
        BY <1>7, <1>8
  <2> QED BY <2>1, <2>2
<1> HIDE DEF all, m, n
<1>10. DOMAIN all = 1..(m + n + 2)
       BY <1>6, <1>9
<1>11. \A i \in DOMAIN all :
          \/ i = 1 /\ all[i].op = "dropkey"
          \/ i - 1 \in 1..m /\ all[i].op = "drop" /\ all[i].col = dropped[i - 1]
          \/ i - 1 - m \in 1..n /\ all[i].op = "add" /\ all[i].col = added[i - 1 - m]
                /\ all[i].type = comp[added[i - 1 - m]]
          \/ i = m + n + 2 /\ all[i].op = "addkey"
  <2> SUFFICES ASSUME NEW i \in 1..(m + n + 2)
               PROVE  \/ i = 1 /\ all[i].op = "dropkey"
                      \/ i - 1 \in 1..m /\ all[i].op = "drop" /\ all[i].col = dropped[i - 1]
                      \/ i - 1 - m \in 1..n /\ all[i].op = "add" /\ all[i].col = added[i - 1 - m]
                            /\ all[i].type = comp[added[i - 1 - m]]
                      \/ i = m + n + 2 /\ all[i].op = "addkey"
      BY <1>10
  <2>1. i = 1 \/ i - 1 \in 1..m \/ i - 1 - m \in 1..n \/ i = m + n + 2
        BY <1>6
  <2>2. CASE i = 1
        BY <1>9, <2>2
  <2>3. CASE i - 1 \in 1..m
    <3>1. all[i] = s[i - 1]
      <4>1. 1 + (i - 1) = i
            BY <1>6
      <4> QED BY <1>9, <2>3, <4>1
    <3> QED BY <1>7, <2>3, <3>1
  <2>4. CASE i - 1 - m \in 1..n
    <3>1. all[i] = t[i - 1 - m]
      <4>1. 1 + m + (i - 1 - m) = i
            BY <1>6
      <4> QED BY <1>9, <2>4, <4>1
    <3> QED BY <1>8, <2>4, <3>1
  <2>5. CASE i = m + n + 2
        BY <1>9, <2>5
  <2> QED BY <2>1, <2>2, <2>3, <2>4, <2>5
<1>12. 1 \in DOMAIN all /\ all[1].op = "dropkey"
       BY <1>6, <1>9, <1>10
<1>13. ASSUME NEW i \in DOMAIN all
       PROVE  /\ all[i].op # "create"
              /\ all[i].op = "dropkey" => i = 1
              /\ all[i].op = "addkey" <=> i = Len(all)
              /\ all[i].op = "drop" => all[i].col \in D
              /\ all[i].op = "add" =>
                  /\ all[i].col \in I /\ all[i].type = comp[all[i].col]
                  /\ \A j \in DOMAIN all : all[j].op = "drop" => j < i
  <2>1. i \in 1..(m + n + 2) /\ Len(all) = m + n + 2
        BY <1>9, <1>10
  <2>2. all[i].op = "add" => i - 1 - m \in 1..n
        BY <1>11
  <2>3. \A j \in DOMAIN all : all[j].op = "drop" => j - 1 \in 1..m /\ j \in 1..(m + n + 2)
        BY <1>10, <1>11
  <2>4. all[i].op = "add" => \A j \in DOMAIN all : all[j].op = "drop" => j < i
        BY <2>1, <2>2, <2>3, <1>6
  <2>5. all[i].op = "drop" => all[i].col \in D
        BY <1>3, <1>11
  <2>6. all[i].op = "add" => all[i].col \in I /\ all[i].type = comp[all[i].col]
        BY <1>4, <1>11
  <2>7. all[i].op # "create" /\ (all[i].op = "dropkey" => i = 1)
        BY <1>11
  <2>8. all[i].op = "addkey" <=> i = Len(all)
        BY <1>6, <1>11, <2>1
  <2> QED BY <2>4, <2>5, <2>6, <2>7, <2>8
<1>14. ASSUME NEW c \in D PROVE \E i \in DOMAIN all : all[i].op = "drop" /\ all[i].col = c
  <2>1. PICK i \in 1..m : dropped[i] = c
        BY <1>3
  <2>2. 1 + i \in DOMAIN all /\ all[1 + i].op = "drop" /\ all[1 + i].col = c
        BY <1>6, <1>7, <1>9, <1>10, <2>1
  <2> QED BY <2>2
<1>15. ASSUME NEW c \in I PROVE \E i \in DOMAIN all : all[i].op = "add" /\ all[i].col = c
  <2>1. PICK i \in 1..n : added[i] = c
        BY <1>4
  <2>2. 1 + m + i \in DOMAIN all /\ all[1 + m + i].op = "add" /\ all[1 + m + i].col = c
        BY <1>6, <1>8, <1>9, <1>10, <2>1
  <2> QED BY <2>2
<1> QED BY <1>1, <1>9, <1>12, <1>13, <1>14, <1>15 DEF D, I

-----------------------------------------------------------------------------
\* What keeps the types: a statement that is prepared fits the table, and the
\* statements of a second store drop nothing under it

Fits ==
    /\ ~exists => cols = Empty
    /\ pc \in {"prepare", "bind"} => descr = class /\ ~half
    /\ pc = "bind" => ready
    /\ ready =>
        /\ Present(class) \subseteq Present(cols)
        /\ pc \in {"idle", "describe"} => descr = class /\ ~half
        /\ pc = "alter" => \A i \in DOMAIN todo : todo[i].op # "drop"

TypeInv == TypeOK /\ Fits

-----------------------------------------------------------------------------
\* How far a table has come between its description and the class

Between(c) ==
    /\ cols[c] \in {descr[c], None, class[c]}
    /\ descr[c] = class[c] => cols[c] = class[c]
    /\ descr[c] # class[c] /\ cols[c] = class[c] => data[c] = None

Described ==
    IF descr = None
    THEN IF half THEN exists /\ cols = class /\ key \in {{}, KeyOf(class)}
                 ELSE ~exists /\ key = {}
    ELSE /\ exists /\ \A c \in Columns : Between(c)
         /\ ~half => cols = descr /\ key = KeyOf(descr)

Drops(c) == \E i \in DOMAIN todo : todo[i].op = "drop" /\ todo[i].col = c
Adds(c) == \E i \in DOMAIN todo : todo[i].op = "add" /\ todo[i].col = c

\* The statements left lead from the table to the class
Planned(i) ==
    /\ todo[i].op # "create"
    /\ todo[i].op = "dropkey" => i = 1
    /\ todo[i].op = "addkey" <=> i = Len(todo)
    /\ todo[i].op = "drop" => class[todo[i].col] # descr[todo[i].col]
    /\ todo[i].op = "add" =>
        /\ class[todo[i].col] # descr[todo[i].col]
        /\ todo[i].type = class[todo[i].col]
        /\ \A j \in DOMAIN todo : todo[j].op = "drop" => j < i

Left(c) ==
    /\ ~Drops(c) /\ ~Adds(c) => cols[c] = class[c]
    /\ ~Drops(c) /\ Adds(c) => cols[c] \in {None, class[c]}
    /\ Drops(c) /\ ~Adds(c) => class[c] = None

Creating ==
    \/ todo = Create
    \/ todo = <<[op |-> "addkey"]>> /\ half
    \/ todo = <<>> /\ half /\ key = KeyOf(class)

Altering ==
    /\ \A i \in DOMAIN todo : Planned(i)
    /\ \A c \in Columns : Left(c)
    /\ IF todo = <<>> THEN half /\ key = KeyOf(class)
                      ELSE todo[1].op # "dropkey" => key = {}

Progress ==
    /\ pc = "alter" => IF descr = None THEN Creating ELSE Altering
    /\ pc \in {"forget", "remember"} => half /\ exists /\ cols = class /\ key = KeyOf(class)
    /\ pc = "remember" => descr = None

IInv == TypeInv /\ (Orderly => Described /\ Progress)

-----------------------------------------------------------------------------
\* Type correctness

Table ==
    /\ exists \in BOOLEAN
    /\ cols \in Shape
    /\ key \in SUBSET Indexed
    /\ data \in [Columns -> Columns \cup {None}]
    /\ \A c \in Columns : cols[c] = None => data[c] = None
    /\ ~exists => cols = Empty

Flags == ready \in BOOLEAN /\ half \in BOOLEAN /\ failed \in BOOLEAN /\ hasty \in BOOLEAN

Prepared ==
    /\ pc \in {"prepare", "bind"} => descr = class /\ ~half
    /\ pc = "bind" => ready
    /\ ready /\ pc \in {"idle", "describe"} => descr = class /\ ~half

Suits == ready => Present(class) \subseteq Present(cols)

NoDrop == ready /\ pc = "alter" => \A i \in DOMAIN todo : todo[i].op # "drop"

LEMMA TypeParts ==
    TypeInv <=> /\ Table /\ Flags /\ Prepared /\ Suits /\ NoDrop
                /\ descr \in Shape \cup {None} /\ class \in Classes
                /\ pc \in Steps /\ todo \in Seq(Statement)
BY DEF TypeInv, TypeOK, Fits, Table, Flags, Prepared, Suits, NoDrop

LEMMA TypeInit == Init => TypeInv
<1> SUFFICES ASSUME Init PROVE TypeInv
    OBVIOUS
<1>1. Table
  <2>1. Empty \in Shape /\ Empty \in [Columns -> Columns \cup {None}]
        /\ \A c \in Columns : Empty[c] = None
        BY DEF Empty, Shape
  <2> HIDE DEF Empty
  <2> QED BY <2>1 DEF Init, Table
<1>2. Flags /\ Prepared /\ Suits /\ NoDrop
      BY DEF Init, Flags, Prepared, Suits, NoDrop
<1>3. descr \in Shape \cup {None} /\ class \in Classes /\ pc \in Steps /\ todo \in Seq(Statement)
      BY DEF Init, Steps
<1> QED BY <1>1, <1>2, <1>3, TypeParts

\* Steps that leave the table alone
LEMMA TableKept ==
    ASSUME Table, UNCHANGED <<exists, cols, key, data>>
    PROVE  Table'
BY DEF Table

\* A statement that MySQL executes
LEMMA TableExecute ==
    ASSUME TypeInv, Execute
    PROVE  /\ Table'
           /\ ready /\ NoDrop => Present(cols) \subseteq Present(cols')
<1> DEFINE s == todo[1]
<1>1. /\ Table /\ class \in Shape /\ NoDrop /\ pc = "alter"
      /\ todo \in Seq(Statement) /\ todo # <<>>
      BY TypeParts, ClassesAssumption DEF Execute
<1>2. s \in Statement /\ Head(todo) = s /\ 1 \in DOMAIN todo
      BY <1>1
<1>3. CreateTable(s) \/ AddKey(s) \/ DropKey(s) \/ DropColumn(s) \/ AddColumn(s)
      BY <1>2 DEF Execute
<1> HIDE DEF s
<1>4. /\ cols \in Shape /\ data \in [Columns -> Columns \cup {None}]
      /\ key \in SUBSET Indexed
      /\ \A c \in Columns : cols[c] = None => data[c] = None
      BY <1>1 DEF Table
<1>5. CASE CreateTable(s)
  <2>1. CASE exists
        BY <1>1, <1>5, <2>1 DEF CreateTable, Table, Present
  <2>2. CASE ~exists
    <3>1. cols = Empty /\ cols' = class /\ exists' = TRUE /\ key' = key /\ data' = data
          BY <1>1, <1>5, <2>2 DEF CreateTable, Table
    <3>2. \A c \in Columns : cols[c] = None
          BY <3>1 DEF Empty
    <3>3. \A c \in Columns : data[c] = None
          BY <1>4, <3>2
    <3>4. Table'
          BY <1>1, <1>4, <3>1, <3>3 DEF Table
    <3>5. Present(cols) = {}
          BY <3>2 DEF Present
    <3> QED BY <3>4, <3>5
  <2> QED BY <2>1, <2>2
<1>6. CASE AddKey(s)
  <2>1. key' \in SUBSET Indexed
        BY <1>4, <1>6 DEF AddKey, KeyOf
  <2> QED BY <1>1, <1>6, <2>1 DEF AddKey, Table
<1>7. CASE DropKey(s)
  <2>1. key' \in SUBSET Indexed
        BY <1>4, <1>7 DEF DropKey
  <2> QED BY <1>1, <1>7, <2>1 DEF DropKey, Table
<1>8. CASE DropColumn(s)
  <2>1. s.op = "drop" /\ s.col \in Columns
        BY <1>2, <1>8 DEF DropColumn, Statement
  <2>2. ~(ready /\ NoDrop)
        BY <1>1, <1>2, <2>1 DEF NoDrop, s
  <2>3. cols' = [cols EXCEPT ![s.col] = None] /\ data' = [data EXCEPT ![s.col] = None]
        /\ key' = key \ {s.col} /\ exists' = exists
        BY <1>8 DEF DropColumn
  <2>4. cols' \in Shape /\ data' \in [Columns -> Columns \cup {None}] /\ key' \in SUBSET Indexed
        BY <1>4, <2>1, <2>3 DEF Shape
  <2>5. \A c \in Columns : cols'[c] = None => data'[c] = None
        BY <1>4, <2>1, <2>3 DEF Shape
  <2>6. ~exists' => cols' = Empty'
    <3>1. cols = Empty => cols' = Empty
          BY <1>4, <2>1, <2>3 DEF Empty, Shape
    <3>2. Empty' = Empty
          BY DEF Empty
    <3> QED BY <1>1, <2>3, <3>1, <3>2 DEF Table
  <2>7. exists' \in BOOLEAN
        BY <1>1, <2>3 DEF Table
  <2> QED BY <2>2, <2>4, <2>5, <2>6, <2>7 DEF Table
<1>9. CASE AddColumn(s)
  <2>1. s.op = "add" /\ s.col \in Columns /\ s.type \in Types
        BY <1>2, <1>9 DEF AddColumn, Statement
  <2>2. UNCHANGED <<exists, key, data>>
        BY <1>9 DEF AddColumn
  <2>3. CASE exists /\ cols[s.col] = None
    <3>1. cols' = [cols EXCEPT ![s.col] = s.type]
          BY <1>9, <2>3 DEF AddColumn
    <3>2. cols' \in Shape
          BY <1>4, <2>1, <3>1 DEF Shape
    <3>3. \A c \in Columns : cols'[c] = None => cols[c] = None
          BY <1>4, <2>1, <2>3, <3>1 DEF Shape
    <3>4. Present(cols) \subseteq Present(cols')
          BY <3>3 DEF Present
    <3>5. \A c \in Columns : cols'[c] = None => data'[c] = None
          BY <1>4, <2>2, <3>3
    <3>6. /\ exists' \in BOOLEAN /\ exists' /\ key' \in SUBSET Indexed
          /\ data' \in [Columns -> Columns \cup {None}]
          BY <1>1, <1>4, <2>2, <2>3 DEF Table
    <3> QED BY <3>2, <3>4, <3>5, <3>6 DEF Table
  <2>4. CASE ~(exists /\ cols[s.col] = None)
    <3>1. cols' = cols
          BY <1>9, <2>4 DEF AddColumn
    <3> QED BY <1>1, <2>2, <3>1 DEF Table
  <2> QED BY <2>3, <2>4
<1> QED BY <1>3, <1>5, <1>6, <1>7, <1>8, <1>9

\* An object is stored: it leaves no column of its class without a value
LEMMA TableInsert ==
    ASSUME TypeInv, Insert
    PROVE  /\ Table'
           /\ \A c \in Columns : data'[c] = None => data[c] = None
<1>1. /\ Table /\ class \in Classes /\ ready /\ Present(class) \subseteq Present(cols)
      /\ UNCHANGED <<exists, cols, key>>
      BY TypeParts DEF Insert, Goto, Prepared, Suits
<1> DEFINE value(c) == LET named == InOrder(Present(class))
                       IN  Bound(class)[CHOOSE i \in DOMAIN named : named[i] = c]
<1>2. data' = [c \in Columns |-> IF c \in Present(class) THEN value(c) ELSE data[c]]
      BY DEF Insert
<1>3. \A c \in Present(class) : value(c) \in Columns
      BY <1>1, BoundAt
<1> HIDE DEF value
<1>4. data \in [Columns -> Columns \cup {None}] /\ cols \in Shape
      BY <1>1 DEF Table
<1>5. data' \in [Columns -> Columns \cup {None}]
      BY <1>2, <1>3, <1>4
<1>6. \A c \in Columns : data'[c] = None => c \notin Present(class) /\ data[c] = None
      BY <1>2, <1>3, <1>4, NoneAssumption
<1>7. \A c \in Columns : cols'[c] = None => data'[c] = None
  <2> SUFFICES ASSUME NEW c \in Columns, cols[c] = None PROVE data'[c] = None
      BY <1>1
  <2>1. c \notin Present(class) /\ data[c] = None
        BY <1>1 DEF Present, Table
  <2> QED BY <1>2, <2>1
<1>8. Table'
      BY <1>1, <1>5, <1>7 DEF Table
<1> QED BY <1>6, <1>8

\* A second store has nothing to drop
LEMMA NothingDeleted ==
    ASSUME NEW shape \in Shape
    PROVE  \A i \in DOMAIN Alter(shape, shape) : Alter(shape, shape)[i].op # "drop"
<1>1. Deleted(shape, shape) = {}
      BY DEF Deleted
<1> QED BY <1>1, AlterIs

LEMMA CreateIs ==
    /\ Create \in Seq(Statement) /\ DOMAIN Create = {1, 2}
    /\ Create[1] = [op |-> "create"] /\ Create[2] = [op |-> "addkey"]
<1>1. [op |-> "create"] \in Statement /\ [op |-> "addkey"] \in Statement
      BY DEF Statement
<1> QED BY <1>1 DEF Create

LEMMA TypeStep == TypeInv /\ [Next]_vars => TypeInv'
<1> SUFFICES ASSUME TypeInv, [Next]_vars PROVE TypeInv'
    OBVIOUS
<1>1. /\ Table /\ Flags /\ Prepared /\ Suits /\ NoDrop
      /\ descr \in Shape \cup {None} /\ class \in Classes /\ class \in Shape
      /\ pc \in Steps /\ todo \in Seq(Statement)
      BY TypeParts, ClassesAssumption
<1>2. SUFFICES /\ Table' /\ Flags' /\ Prepared' /\ Suits' /\ NoDrop'
               /\ descr' \in Shape \cup {None} /\ class' \in Classes
               /\ pc' \in Steps /\ todo' \in Seq(Statement)
  <2>1. TypeInv' <=> /\ Table' /\ Flags' /\ Prepared' /\ Suits' /\ NoDrop'
                     /\ descr' \in Shape \cup {None} /\ class' \in Classes
                     /\ pc' \in Steps /\ todo' \in Seq(Statement)
        BY DEF TypeInv, TypeOK, Fits, Table, Flags, Prepared, Suits, NoDrop
  <2> QED BY <2>1
<1>3. CASE UNCHANGED vars
      BY <1>1, <1>3 DEF vars, Table, Flags, Prepared, Suits, NoDrop, Present
<1>4. CASE Store
  <2>1. UNCHANGED <<exists, cols, key, data, descr, class, todo, ready, half, failed, hasty>>
        /\ pc = "idle" /\ pc' = "describe"
        BY <1>4 DEF Store, Goto, database, observed
  <2>2. Prepared' /\ Suits' /\ NoDrop'
        BY <1>1, <2>1 DEF Prepared, Suits, NoDrop, Present
  <2> QED BY <1>1, <2>1, <2>2, TableKept DEF Flags, Steps
<1>5. CASE StoreUnprepared
  <2>1. UNCHANGED <<exists, cols, key, data, descr, class, todo, ready, half, failed, hasty>>
        /\ pc = "idle" /\ pc' \in {"off", "bind", "idle"} /\ (pc' = "bind" => ready)
        BY <1>5 DEF StoreUnprepared, database, observed
  <2>2. Prepared' /\ Suits' /\ NoDrop'
        BY <1>1, <2>1 DEF Prepared, Suits, NoDrop, Present
  <2> QED BY <1>1, <2>1, <2>2, TableKept DEF Flags, Steps
<1>6. CASE Describe
  <2>1. UNCHANGED <<exists, cols, key, data, descr, class, ready, half, failed, hasty>>
        /\ pc = "describe" /\ pc' = "alter"
        /\ todo' = IF descr = None THEN Create ELSE Alter(descr, class)
        BY <1>6 DEF Describe, Goto, database, observed
  <2>2. Prepared' /\ Suits'
        BY <1>1, <2>1 DEF Prepared, Suits, Present
  <2>3. todo' \in Seq(Statement)
        BY <1>1, <2>1, CreateIs, AlterIs
  <2>4. NoDrop'
    <3> SUFFICES ASSUME ready PROVE \A i \in DOMAIN todo' : todo'[i].op # "drop"
        BY <2>1 DEF NoDrop
    <3>1. descr = class
          BY <1>1, <2>1 DEF Prepared
    <3>2. todo' = Alter(class, class)
          BY <1>1, <2>1, <3>1, NoneAssumption
    <3> QED BY <1>1, <3>2, NothingDeleted
  <2> QED BY <1>1, <2>1, <2>2, <2>3, <2>4, TableKept DEF Flags, Steps
<1>7. CASE Execute
  <2>1. /\ pc = "alter" /\ todo # <<>> /\ todo' = Tail(todo) /\ half' = TRUE
        /\ UNCHANGED <<pc, descr, class, ready, failed, hasty>>
        BY <1>7 DEF Execute
  <2>2. Table' /\ (ready => Present(cols) \subseteq Present(cols'))
        BY <1>1, <1>7, TableExecute
  <2>3. Suits'
        BY <1>1, <2>1, <2>2 DEF Suits, Present
  <2>4. todo' \in Seq(Statement) /\ \A i \in DOMAIN todo' : i + 1 \in DOMAIN todo /\ todo'[i] = todo[i + 1]
        BY <1>1, <2>1
  <2>5. NoDrop'
        BY <1>1, <2>1, <2>4 DEF NoDrop
  <2>6. Prepared'
        BY <2>1 DEF Prepared
  <2> QED BY <1>1, <2>1, <2>2, <2>3, <2>4, <2>5, <2>6 DEF Flags
<1>8. CASE ExecuteFails
  <2>1. /\ pc = "alter" /\ todo # <<>> /\ todo' = Tail(todo) /\ half' = TRUE /\ failed' = TRUE
        /\ UNCHANGED <<pc, exists, cols, key, data, descr, class, ready, hasty>>
        BY <1>8 DEF ExecuteFails, database
  <2>2. Suits' /\ Prepared'
        BY <1>1, <2>1 DEF Suits, Prepared, Present
  <2>3. todo' \in Seq(Statement) /\ \A i \in DOMAIN todo' : i + 1 \in DOMAIN todo /\ todo'[i] = todo[i + 1]
        BY <1>1, <2>1
  <2>4. NoDrop'
        BY <1>1, <2>1, <2>3 DEF NoDrop
  <2> QED BY <1>1, <2>1, <2>2, <2>3, <2>4, TableKept DEF Flags
<1>9. CASE Executed \/ GetStatementFails \/ Crash
  <2>1. UNCHANGED <<exists, cols, key, data, descr, class, todo, ready, half, failed, hasty>>
        /\ pc' \in {"forget", "off"}
        BY <1>9 DEF Executed, GetStatementFails, Crash, Goto, database, observed
  <2>2. Prepared' /\ Suits' /\ NoDrop'
        BY <1>1, <2>1 DEF Prepared, Suits, NoDrop, Present
  <2> QED BY <1>1, <2>1, <2>2, TableKept DEF Flags, Steps
<1>10. CASE DeleteDescription
  <2>1. UNCHANGED <<exists, cols, key, data, class, todo, ready, half, failed, hasty>>
        /\ pc' = "remember" /\ descr' = None
        BY <1>10 DEF DeleteDescription, Goto, observed
  <2>2. Prepared' /\ Suits' /\ NoDrop'
        BY <1>1, <2>1 DEF Prepared, Suits, NoDrop, Present
  <2> QED BY <1>1, <2>1, <2>2, TableKept DEF Flags, Steps
<1>11. CASE InsertDescription
  <2>1. UNCHANGED <<exists, cols, key, data, class, todo, ready, failed, hasty>>
        /\ pc' = "prepare" /\ descr' = class /\ half' = FALSE
        BY <1>11 DEF InsertDescription, Goto
  <2>2. Prepared' /\ Suits' /\ NoDrop'
        BY <1>1, <2>1 DEF Prepared, Suits, NoDrop, Present
  <2> QED BY <1>1, <2>1, <2>2, TableKept DEF Flags, Steps
<1>12. CASE GetStatement
  <2>1. UNCHANGED <<exists, cols, key, data, descr, class, todo, half, failed, hasty>>
        /\ pc = "prepare" /\ pc' = "bind" /\ ready' = TRUE /\ Present(class) \subseteq Present(cols)
        BY <1>12 DEF GetStatement, Goto, database, observed
  <2>2. Prepared' /\ Suits' /\ NoDrop'
        BY <1>1, <2>1 DEF Prepared, Suits, NoDrop, Present
  <2> QED BY <1>1, <2>1, <2>2, TableKept DEF Flags, Steps
<1>13. CASE Insert
  <2>1. UNCHANGED <<exists, cols, key, descr, class, todo, ready, half, failed, hasty>>
        /\ pc = "bind" /\ pc' = "idle"
        BY <1>13 DEF Insert, Goto, observed
  <2>2. Prepared' /\ Suits' /\ NoDrop'
        BY <1>1, <2>1 DEF Prepared, Suits, NoDrop, Present
  <2> QED BY <1>1, <1>13, <2>1, <2>2, TableInsert DEF Flags, Steps
<1>14. CASE \E c \in Classes : Start(c)
  <2>1. PICK c \in Classes : Start(c)
        BY <1>14
  <2>2. UNCHANGED <<exists, cols, key, data, descr, half, failed>>
        /\ pc' = "idle" /\ class' = c /\ todo' = <<>> /\ ready' = FALSE /\ hasty' \in BOOLEAN
        BY <1>1, <2>1 DEF Start, Goto, database, Flags
  <2>3. Prepared' /\ Suits' /\ NoDrop' /\ todo' \in Seq(Statement)
        BY <2>2 DEF Prepared, Suits, NoDrop
  <2> QED BY <1>1, <2>2, <2>3, TableKept DEF Flags, Steps
<1> QED BY <1>3, <1>4, <1>5, <1>6, <1>7, <1>8, <1>9, <1>10, <1>11, <1>12, <1>13, <1>14 DEF Next

\* The table, the description, the statements and the flags are of their types, and no
\* column that is not there holds a value: whatever fails and whenever it dies
\* (sql_class_wrapper::store, mysql_driver)
THEOREM TypeCorrect == Spec => []TypeOK
<1>1. TypeInv => TypeOK
      BY DEF TypeInv
<1> QED BY <1>1, TypeInit, TypeStep, PTL DEF Spec

-----------------------------------------------------------------------------
\* The table follows the class

LEMMA InvInit == Init => IInv
<1> SUFFICES ASSUME Init PROVE IInv
    OBVIOUS
<1>1. Described /\ Progress
      BY DEF Init, Described, Progress
<1> QED BY <1>1, TypeInit DEF IInv

LEMMA KeyIsThere == ASSUME NEW shape PROVE KeyOf(shape) \subseteq Present(shape)
BY DEF KeyOf

\* The plan: what it drops and adds leads to the class
LEMMA PlanIsMade ==
    ASSUME TypeInv, Described, Describe
    PROVE  Described' /\ Progress'
<1>1. /\ Table /\ descr \in Shape \cup {None} /\ class \in Shape
      /\ UNCHANGED <<exists, cols, key, data, descr, class, half>> /\ pc' = "alter"
      /\ todo' = IF descr = None THEN Create ELSE Alter(descr, class)
      BY TypeParts, ClassesAssumption DEF Describe, Goto, database, observed
<1>2. Described'
      BY <1>1 DEF Described, Between, KeyOf, Present
<1>3. CASE descr = None
  <2>1. todo' = Create
        BY <1>1, <1>3
  <2> QED BY <1>1, <1>2, <1>3, <2>1 DEF Progress, Creating
<1>4. CASE descr # None
  <2>1. descr \in Shape /\ todo' = Alter(descr, class)
        BY <1>1, <1>4
  <2>2. /\ todo' \in Seq(Statement) /\ 1 \in DOMAIN todo' /\ todo'[1].op = "dropkey"
        /\ \A i \in DOMAIN todo' :
              /\ todo'[i].op # "create"
              /\ todo'[i].op = "dropkey" => i = 1
              /\ todo'[i].op = "addkey" <=> i = Len(todo')
              /\ todo'[i].op = "drop" => todo'[i].col \in Deleted(descr, class)
              /\ todo'[i].op = "add" =>
                  /\ todo'[i].col \in Inserted(descr, class) /\ todo'[i].type = class[todo'[i].col]
                  /\ \A j \in DOMAIN todo' : todo'[j].op = "drop" => j < i
        /\ \A c \in Deleted(descr, class) :
              \E i \in DOMAIN todo' : todo'[i].op = "drop" /\ todo'[i].col = c
        /\ \A c \in Inserted(descr, class) :
              \E i \in DOMAIN todo' : todo'[i].op = "add" /\ todo'[i].col = c
    <3> DEFINE all == Alter(descr, class)
    <3>1. descr \in Shape /\ class \in Shape /\ todo' = all
          BY <1>1, <2>1
    <3>2. /\ all \in Seq(Statement) /\ 1 \in DOMAIN all /\ all[1].op = "dropkey"
          /\ \A i \in DOMAIN all :
                /\ all[i].op # "create"
                /\ all[i].op = "dropkey" => i = 1
                /\ all[i].op = "addkey" <=> i = Len(all)
                /\ all[i].op = "drop" => all[i].col \in Deleted(descr, class)
                /\ all[i].op = "add" =>
                    /\ all[i].col \in Inserted(descr, class) /\ all[i].type = class[all[i].col]
                    /\ \A j \in DOMAIN all : all[j].op = "drop" => j < i
          /\ \A c \in Deleted(descr, class) :
                \E i \in DOMAIN all : all[i].op = "drop" /\ all[i].col = c
          /\ \A c \in Inserted(descr, class) :
                \E i \in DOMAIN all : all[i].op = "add" /\ all[i].col = c
          BY <3>1, AlterIs
    <3> HIDE DEF all
    <3> QED BY <3>1, <3>2
  <2>3. \A i \in DOMAIN todo' : Planned(i)'
        BY <1>1, <2>2 DEF Planned, Deleted, Inserted
  <2>4. ASSUME NEW c \in Columns PROVE Left(c)'
    <3>1. Drops(c)' <=> c \in Deleted(descr, class)
          BY <2>2 DEF Drops
    <3>2. Adds(c)' <=> c \in Inserted(descr, class)
          BY <2>2 DEF Adds
    <3>3. Between(c)
          BY <1>4 DEF Described
    <3>4. /\ c \in Deleted(descr, class) <=> descr[c] # None /\ descr[c] # class[c]
          /\ c \in Inserted(descr, class) <=> class[c] # None /\ descr[c] # class[c]
          BY DEF Deleted, Inserted, Present
    <3> QED BY <1>1, <3>1, <3>2, <3>3, <3>4 DEF Left, Between
  <2>5. todo' # <<>> /\ todo'[1].op = "dropkey"
        BY <2>2
  <2>6. Altering'
        BY <2>3, <2>4, <2>5 DEF Altering
  <2> QED BY <1>1, <1>2, <1>4, <2>6 DEF Progress
<1> QED BY <1>3, <1>4

\* A table is created
LEMMA CreationGoesOn ==
    ASSUME TypeInv, Described, Creating, descr = None, Execute
    PROVE  Described' /\ Creating'
<1>1. /\ half' = TRUE /\ todo # <<>> /\ todo' = Tail(todo) /\ UNCHANGED <<descr, class>>
      BY DEF Execute
<1>2. KeyOf(class') = KeyOf(class)
      BY <1>1
<1>3. CASE todo = Create
  <2>1. Head(todo) = [op |-> "create"] /\ Tail(todo) = <<[op |-> "addkey"]>>
        BY <1>3 DEF Create
  <2>2. CreateTable(Head(todo))
        BY <2>1 DEF Execute, CreateTable, AddKey, DropKey, DropColumn, AddColumn
  <2>3. exists' = TRUE /\ cols' = class /\ key' = key /\ key \in {{}, KeyOf(class)}
        BY <2>2 DEF CreateTable, Described
  <2> QED BY <1>1, <1>2, <2>1, <2>3 DEF Described, Creating
<1>4. CASE todo = <<[op |-> "addkey"]>> /\ half
  <2>1. Head(todo) = [op |-> "addkey"] /\ Tail(todo) = <<>>
        BY <1>4
  <2>2. AddKey(Head(todo))
        BY <2>1 DEF Execute, CreateTable, AddKey, DropKey, DropColumn, AddColumn
  <2>3. exists /\ cols = class /\ key \in {{}, KeyOf(class)}
        BY <1>4 DEF Described
  <2>4. exists' = exists /\ cols' = cols /\ key' = KeyOf(class)
        BY <2>2, <2>3, KeyIsThere DEF AddKey
  <2> QED BY <1>1, <1>2, <2>1, <2>3, <2>4 DEF Described, Creating
<1> QED BY <1>1, <1>3, <1>4 DEF Creating

\* What one statement of the plan does
LEMMA AlterationGoesOn ==
    ASSUME TypeInv, Described, Altering, descr # None, Execute
    PROVE  /\ Described' /\ Altering'
           /\ \A c \in Columns : data[c] # None /\ data'[c] = None => class[c] # cols[c]
<1> DEFINE s == todo[1]
           n == Len(todo)
<1>1. /\ half' = TRUE /\ todo # <<>> /\ todo' = Tail(todo) /\ UNCHANGED <<descr, class>>
      BY DEF Execute
<1>2. /\ todo \in Seq(Statement) /\ cols \in Shape /\ class \in Shape
      /\ data \in [Columns -> Columns \cup {None}]
      /\ \A c \in Columns : cols[c] = None => data[c] = None
      BY TypeParts, ClassesAssumption DEF Table
<1>3. /\ n \in Nat /\ n >= 1 /\ DOMAIN todo = 1..n /\ Len(todo') = n - 1 /\ DOMAIN todo' = 1..(n - 1)
      /\ \A i \in 1..(n - 1) : todo'[i] = todo[i + 1]
      BY <1>1, <1>2
<1>4. 1 \in DOMAIN todo /\ Head(todo) = s /\ s \in Statement /\ Planned(1)
      BY <1>1, <1>2, <1>3 DEF Altering
<1>5. CreateTable(s) \/ AddKey(s) \/ DropKey(s) \/ DropColumn(s) \/ AddColumn(s)
      BY <1>4 DEF Execute
<1>6. /\ s.op # "create" /\ (s.op = "addkey" <=> n = 1) /\ s.op \in {"addkey", "dropkey", "drop", "add"}
      /\ s.op = "drop" => class[s.col] # descr[s.col]
      /\ s.op = "add" => class[s.col] # descr[s.col] /\ s.type = class[s.col]
                         /\ \A j \in DOMAIN todo : todo[j].op # "drop"
  <2>1. s.op \in {"create", "addkey", "dropkey", "drop", "add"}
        BY <1>4 DEF Statement
  <2>2. s.op = "add" => \A j \in DOMAIN todo : todo[j].op # "drop"
        BY <1>3, <1>4 DEF Planned
  <2> QED BY <1>3, <1>4, <2>1, <2>2 DEF Planned
<1>7. exists /\ \A c \in Columns : Between(c)
      BY DEF Described
<1>8. ASSUME NEW i \in DOMAIN todo' PROVE Planned(i)'
  <2>1. i + 1 \in DOMAIN todo /\ i \in 1..(n - 1) /\ todo'[i] = todo[i + 1]
        BY <1>3
  <2>2. Planned(i + 1)
        BY <2>1 DEF Altering
  <2>3. \A j \in DOMAIN todo' : j + 1 \in DOMAIN todo /\ j \in Nat /\ todo'[j] = todo[j + 1]
        BY <1>3
  <2>4. todo'[i].op = "add" => \A j \in DOMAIN todo' : todo'[j].op = "drop" => j < i
    <3> SUFFICES ASSUME todo[i + 1].op = "add", NEW j \in DOMAIN todo', todo'[j].op = "drop"
                 PROVE  j < i
        BY <2>1
    <3>1. j + 1 < i + 1
          BY <2>2, <2>3 DEF Planned
    <3> QED BY <2>1, <2>3, <3>1
  <2>5. todo'[i].op # "dropkey" /\ (todo'[i].op = "addkey" <=> i = Len(todo'))
        BY <1>3, <2>1, <2>2 DEF Planned
  <2>6. todo'[i].op # "create"
        BY <2>1, <2>2 DEF Planned
  <2>7. todo'[i].op = "drop" => class'[todo'[i].col] # descr'[todo'[i].col]
        BY <1>1, <2>1, <2>2 DEF Planned
  <2>8. todo'[i].op = "add" => class'[todo'[i].col] # descr'[todo'[i].col]
                                /\ todo'[i].type = class'[todo'[i].col]
        BY <1>1, <2>1, <2>2 DEF Planned
  <2> QED BY <2>4, <2>5, <2>6, <2>7, <2>8 DEF Planned
<1>9. ASSUME NEW c PROVE /\ Drops(c) <=> Drops(c)' \/ (s.op = "drop" /\ s.col = c)
                         /\ Adds(c) <=> Adds(c)' \/ (s.op = "add" /\ s.col = c)
  <2>1. \A i \in DOMAIN todo' : i + 1 \in DOMAIN todo /\ todo'[i] = todo[i + 1]
        BY <1>3
  <2>2. \A i \in DOMAIN todo : i = 1 \/ (i - 1 \in DOMAIN todo' /\ todo'[i - 1] = todo[i])
        BY <1>3
  <2>3. Drops(c)' <=> \E i \in DOMAIN todo' : todo'[i].op = "drop" /\ todo'[i].col = c
        BY DEF Drops
  <2>4. Adds(c)' <=> \E i \in DOMAIN todo' : todo'[i].op = "add" /\ todo'[i].col = c
        BY DEF Adds
  <2>5. Drops(c) <=> Drops(c)' \/ (s.op = "drop" /\ s.col = c)
        BY <1>4, <2>1, <2>2, <2>3 DEF Drops
  <2>6. Adds(c) <=> Adds(c)' \/ (s.op = "add" /\ s.col = c)
        BY <1>4, <2>1, <2>2, <2>4 DEF Adds
  <2> QED BY <2>5, <2>6
<1>10. todo' = <<>> <=> n = 1
  <2>1. todo' \in Seq(Statement)
        BY <1>1, <1>2
  <2>2. todo' = <<>> <=> Len(todo') = 0
        BY <2>1
  <2> QED BY <1>3, <2>2
<1>11. s.op # "dropkey" => key = {}
       BY <1>1 DEF Altering
<1>12. \A c \in Columns : Left(c)
       BY DEF Altering
<1>13. KeyOf(class') = KeyOf(class)
       BY <1>1
<1>14. SUFFICES /\ exists' /\ \A c \in Columns : Between(c)'
                /\ \A c \in Columns : Left(c)'
                /\ n = 1 => key' = KeyOf(class)
                /\ n # 1 => key' = {}
                /\ \A c \in Columns : data[c] # None /\ data'[c] = None => class[c] # cols[c]
  <2>1. Described' <=> exists' /\ \A c \in Columns : Between(c)'
        BY <1>1 DEF Described
  <2>2. Altering' <=> /\ \A i \in DOMAIN todo' : Planned(i)'
                      /\ \A c \in Columns : Left(c)'
                      /\ IF todo' = <<>> THEN half' /\ key' = KeyOf(class')
                                         ELSE todo'[1].op # "dropkey" => key' = {}
        BY DEF Altering
  <2> QED BY <1>1, <1>8, <1>10, <1>13, <2>1, <2>2
<1> HIDE DEF s, n
<1>15. CASE s.op = "dropkey"
  <2>1. UNCHANGED <<exists, cols, data>> /\ key' = {} /\ n # 1
        BY <1>5, <1>6, <1>15 DEF CreateTable, AddKey, DropKey, DropColumn, AddColumn
  <2>2. \A c \in Columns : Between(c)'
        BY <1>1, <1>7, <2>1 DEF Between
  <2>3. \A c \in Columns : Left(c)'
        BY <1>1, <1>9, <1>12, <1>15, <2>1 DEF Left
  <2> QED BY <1>7, <2>1, <2>2, <2>3
<1>16. CASE s.op = "addkey"
  <2>1. AddKey(s) /\ n = 1 /\ key = {}
        BY <1>5, <1>6, <1>11, <1>16 DEF CreateTable, AddKey, DropKey, DropColumn, AddColumn
  <2>2. UNCHANGED <<exists, cols, data>>
        BY <2>1 DEF AddKey
  <2>3. \A c \in Columns : ~Drops(c) /\ ~Adds(c)
    <3>1. \A i \in DOMAIN todo : i = 1
          BY <1>3, <2>1
    <3> QED BY <1>16, <3>1 DEF Drops, Adds, s
  <2>4. \A c \in Columns : cols[c] = class[c]
        BY <1>12, <2>3 DEF Left
  <2>5. Present(cols) = Present(class)
        BY <2>4 DEF Present
  <2>6. key' = KeyOf(class)
        BY <1>7, <2>1, <2>5, KeyIsThere DEF AddKey
  <2>7. \A c \in Columns : Between(c)'
        BY <1>1, <1>7, <2>2 DEF Between
  <2>8. \A c \in Columns : Left(c)'
        BY <1>1, <1>9, <1>12, <1>16, <2>2 DEF Left
  <2> QED BY <1>7, <2>1, <2>2, <2>6, <2>7, <2>8
<1>17. CASE s.op = "drop"
  <2>1. DropColumn(s)
        BY <1>5, <1>17 DEF CreateTable, AddKey, DropKey, DropColumn, AddColumn
  <2>2. s.col \in Columns /\ n # 1 /\ key = {} /\ class[s.col] # descr[s.col]
        BY <1>4, <1>6, <1>11, <1>17 DEF Statement
  <2>3. /\ exists' = exists /\ key' = {}
        /\ \A c \in Columns : c # s.col => cols'[c] = cols[c] /\ data'[c] = data[c]
        /\ cols'[s.col] = None /\ data'[s.col] = None
        BY <1>2, <2>1, <2>2 DEF DropColumn, Shape
  <2>4. ASSUME NEW c \in Columns PROVE Between(c)' /\ Left(c)'
    <3>1. CASE c # s.col
      <4>1. (Drops(c)' <=> Drops(c)) /\ (Adds(c)' <=> Adds(c))
            BY <1>9, <1>17, <3>1
      <4> QED BY <1>1, <1>7, <1>12, <2>3, <3>1, <4>1 DEF Between, Left
    <3>2. CASE c = s.col
      <4>1. Drops(c) /\ (Adds(c)' <=> Adds(c))
            BY <1>9, <1>17, <3>2
      <4> QED BY <1>1, <1>7, <1>12, <2>2, <2>3, <3>2, <4>1 DEF Between, Left
    <3> QED BY <3>1, <3>2
  <2>5. ASSUME NEW c \in Columns, data[c] # None, data'[c] = None PROVE class[c] # cols[c]
    <3>1. c = s.col
          BY <2>3, <2>5
    <3> QED BY <1>7, <2>2, <2>5, <3>1 DEF Between
  <2> QED BY <1>7, <2>2, <2>3, <2>4, <2>5
<1>18. CASE s.op = "add"
  <2>1. AddColumn(s)
        BY <1>5, <1>18 DEF CreateTable, AddKey, DropKey, DropColumn, AddColumn
  <2>2. s.col \in Columns /\ n # 1 /\ key = {} /\ class[s.col] # descr[s.col] /\ s.type = class[s.col]
        BY <1>4, <1>6, <1>11, <1>18 DEF Statement
  <2>3. ~Drops(s.col) /\ Adds(s.col)
        BY <1>4, <1>6, <1>9, <1>18 DEF Drops
  <2>4. cols[s.col] \in {None, class[s.col]}
        BY <1>12, <2>2, <2>3 DEF Left
  <2>5. /\ UNCHANGED <<exists, key, data>>
        /\ \A c \in Columns : c # s.col => cols'[c] = cols[c]
        /\ cols'[s.col] = class[s.col]
        BY <1>2, <1>7, <2>1, <2>2, <2>4 DEF AddColumn, Shape
  <2>6. ASSUME NEW c \in Columns PROVE Between(c)' /\ Left(c)'
    <3>1. CASE c # s.col
      <4>1. (Drops(c)' <=> Drops(c)) /\ (Adds(c)' <=> Adds(c))
            BY <1>9, <1>18, <3>1
      <4> QED BY <1>1, <1>7, <1>12, <2>5, <3>1, <4>1 DEF Between, Left
    <3>2. CASE c = s.col
      <4>1. ~Drops(c)'
            BY <1>9, <2>3, <3>2
      <4>2. Left(c)'
            BY <1>1, <2>5, <3>2, <4>1 DEF Left
      <4>3. data[c] = None
        <5>1. CASE cols[c] = None
              BY <1>2, <5>1
        <5>2. CASE cols[c] = class[c]
              BY <1>7, <2>2, <3>2, <5>2 DEF Between
        <5> QED BY <2>4, <3>2, <5>1, <5>2
      <4>4. Between(c)'
            BY <1>1, <2>2, <2>5, <3>2, <4>3 DEF Between
      <4> QED BY <4>2, <4>4
    <3> QED BY <3>1, <3>2
  <2> QED BY <1>7, <2>2, <2>5, <2>6
<1> QED BY <1>6, <1>15, <1>16, <1>17, <1>18

LEMMA InvStep == IInv /\ [Next]_vars => IInv'
<1> SUFFICES ASSUME IInv, [Next]_vars PROVE IInv'
    OBVIOUS
<1>1. TypeInv /\ TypeInv'
      BY TypeStep DEF IInv
<1>2. SUFFICES ASSUME Orderly' PROVE Described' /\ Progress'
      BY <1>1 DEF IInv
<1>3. /\ Table /\ Flags /\ Prepared /\ descr \in Shape \cup {None} /\ class \in Shape /\ class # None
      /\ todo \in Seq(Statement) /\ pc \in Steps
      BY <1>1, TypeParts, ClassesAssumption, NoneAssumption
<1>4. Orderly
  <2>1. failed => failed'
        BY <1>3 DEF Next, vars, observed, Store, StoreUnprepared, Describe, Execute, ExecuteFails,
               Executed, DeleteDescription, InsertDescription, GetStatement, GetStatementFails,
               Insert, Crash, Start, Flags
  <2>2. hasty => hasty'
        BY <1>3 DEF Next, vars, observed, Store, StoreUnprepared, Describe, Execute, ExecuteFails,
               Executed, DeleteDescription, InsertDescription, GetStatement, GetStatementFails,
               Insert, Crash, Start, Flags
  <2> QED BY <1>2, <2>1, <2>2 DEF Orderly
<1>5. Described /\ Progress
      BY <1>4 DEF IInv
<1>6. CASE UNCHANGED vars
      BY <1>5, <1>6 DEF vars, Described, Between, KeyOf, Present, Progress, Creating, Altering,
                        Planned, Left, Drops, Adds
<1>7. CASE Describe
      BY <1>1, <1>5, <1>7, PlanIsMade
<1>8. CASE Execute
  <2>1. pc = "alter" /\ pc' = "alter" /\ descr' = descr
        BY <1>8 DEF Execute
  <2>2. CASE descr = None
        BY <1>1, <1>5, <1>8, <2>1, <2>2, CreationGoesOn DEF Progress
  <2>3. CASE descr # None
        BY <1>1, <1>5, <1>8, <2>1, <2>3, AlterationGoesOn DEF Progress
  <2> QED BY <2>2, <2>3
<1>9. CASE ExecuteFails
      BY <1>2, <1>9 DEF ExecuteFails, Orderly
<1>10. CASE Executed
  <2>1. UNCHANGED <<exists, cols, key, data, descr, class, half>> /\ pc = "alter" /\ pc' = "forget"
        /\ todo = <<>>
        BY <1>10 DEF Executed, Goto, database, observed
  <2>2. Described'
        BY <1>5, <2>1 DEF Described, Between, KeyOf, Present
  <2>3. half /\ key = KeyOf(class) /\ exists /\ cols = class
    <3>1. CASE descr = None
      <4>1. half /\ key = KeyOf(class)
            BY <1>5, <2>1, <3>1 DEF Progress, Creating, Create
      <4> QED BY <1>5, <3>1, <4>1 DEF Described
    <3>2. CASE descr # None
      <4>1. Altering
            BY <1>5, <2>1, <3>2 DEF Progress
      <4>2. half /\ key = KeyOf(class)
            BY <2>1, <4>1 DEF Altering
      <4>3. \A c \in Columns : ~Drops(c) /\ ~Adds(c)
            BY <2>1 DEF Drops, Adds
      <4>4. \A c \in Columns : cols[c] = class[c]
            BY <4>1, <4>3 DEF Altering, Left
      <4>5. cols = class
            BY <1>3, <4>4 DEF Table, Shape
      <4> QED BY <1>5, <3>2, <4>2, <4>5 DEF Described
    <3> QED BY <3>1, <3>2
  <2>4. KeyOf(class') = KeyOf(class)
        BY <2>1
  <2> QED BY <2>1, <2>2, <2>3, <2>4 DEF Progress
<1>11. CASE DeleteDescription
  <2>1. UNCHANGED <<exists, cols, key, class, half>> /\ pc = "forget" /\ pc' = "remember"
        /\ descr' = None
        BY <1>11 DEF DeleteDescription, Goto, observed
  <2>2. half /\ exists /\ cols = class /\ key = KeyOf(class)
        BY <1>5, <2>1 DEF Progress
  <2>3. KeyOf(class') = KeyOf(class)
        BY <2>1
  <2> QED BY <2>1, <2>2, <2>3 DEF Described, Progress
<1>12. CASE InsertDescription
  <2>1. UNCHANGED <<exists, cols, key, class>> /\ pc = "remember" /\ pc' = "prepare"
        /\ descr' = class /\ half' = FALSE
        BY <1>12 DEF InsertDescription, Goto
  <2>2. exists /\ cols = class /\ key = KeyOf(class)
        BY <1>5, <2>1 DEF Progress
  <2>3. KeyOf(descr') = KeyOf(class)
        BY <2>1
  <2>4. \A c \in Columns : Between(c)'
        BY <2>1, <2>2 DEF Between
  <2> QED BY <1>3, <2>1, <2>2, <2>3, <2>4 DEF Described, Progress
<1>13. CASE Insert
  <2>1. UNCHANGED <<exists, cols, key, descr, class, half>> /\ pc = "bind" /\ pc' = "idle"
        BY <1>13 DEF Insert, Goto, observed
  <2>2. descr = class /\ ~half
        BY <1>3, <2>1 DEF Prepared
  <2>3. exists /\ cols = descr /\ key = KeyOf(descr)
        BY <1>3, <1>5, <2>2 DEF Described
  <2>4. \A c \in Columns : Between(c)'
        BY <2>1, <2>2, <2>3 DEF Between
  <2>5. KeyOf(descr') = KeyOf(descr)
        BY <2>1
  <2> QED BY <1>3, <2>1, <2>2, <2>3, <2>4, <2>5 DEF Described, Progress
<1>14. CASE \E c \in Classes : Start(c)
  <2>1. PICK c \in Classes : Start(c)
        BY <1>14
  <2>2. /\ UNCHANGED <<exists, cols, key, data, descr, half>> /\ pc' = "idle" /\ class' = c
        /\ half => c = class
        BY <1>2, <2>1 DEF Start, Goto, database, Orderly
  <2>3. Progress'
        BY <2>2 DEF Progress
  <2>4. CASE half
        BY <1>5, <2>2, <2>3, <2>4 DEF Described, Between, KeyOf, Present
  <2>5. CASE ~half /\ descr = None
        BY <1>5, <2>2, <2>3, <2>5 DEF Described
  <2>6. CASE ~half /\ descr # None
    <3>1. exists /\ cols = descr /\ key = KeyOf(descr)
          BY <1>5, <2>6 DEF Described
    <3>2. \A x \in Columns : Between(x)'
          BY <2>2, <3>1 DEF Between
    <3>3. KeyOf(descr') = KeyOf(descr)
          BY <2>2
    <3> QED BY <2>2, <2>3, <2>6, <3>1, <3>2, <3>3 DEF Described
  <2> QED BY <2>4, <2>5, <2>6
<1>15. CASE Store \/ StoreUnprepared \/ GetStatement \/ GetStatementFails \/ Crash
  <2>1. UNCHANGED <<exists, cols, key, data, descr, class, half>>
        /\ pc' \in {"describe", "bind", "idle", "off"}
        BY <1>15 DEF Store, StoreUnprepared, GetStatement, GetStatementFails, Crash, Goto,
                     database, observed
  <2>2. Described'
        BY <1>5, <2>1 DEF Described, Between, KeyOf, Present
  <2> QED BY <2>1, <2>2 DEF Progress
<1> QED BY <1>6, <1>7, <1>8, <1>9, <1>10, <1>11, <1>12, <1>13, <1>14, <1>15 DEF Next

LEMMA Invariant == Spec => []IInv
BY InvInit, InvStep, PTL DEF Spec

\* When an object is stored, its table has the columns of the class, of their types and
\* no others, and the key of those that are indexed, whatever versions of the class ran
\* before and however often they died in the middle of altering it
\* (sql_class_wrapper::prepare and sql_create)
THEOREM ClassFollowed == Spec => []TableFollowsClass
<1>1. IInv => TableFollowsClass
  <2> SUFFICES ASSUME IInv, Orderly, pc \in {"prepare", "bind"}
               PROVE  exists /\ cols = class /\ key = KeyOf(class)
      BY DEF TableFollowsClass
  <2>1. Described /\ Prepared /\ class # None
        BY TypeParts, ClassesAssumption, NoneAssumption DEF IInv
  <2>2. descr = class /\ ~half
        BY <2>1 DEF Prepared
  <2> QED BY <2>1, <2>2 DEF Described
<1> QED BY <1>1, Invariant, PTL

\* A description in the database outside a preparation is that of the table
\* (setDescription deletes the old one before it inserts, after the last statement)
THEOREM DescriptionTrusted == Spec => []DescriptionHonest
<1>1. IInv => DescriptionHonest
      BY DEF IInv, DescriptionHonest, Described
<1> QED BY <1>1, Invariant, PTL

\* A column that holds a value is dropped only when the class does not have it, or not
\* with that type: a preparation that is taken up again after a crash drops nothing it
\* has added (cmp and the order of the statements of sql_create)
THEOREM DataSurvives == Spec => KeptDataSurvives
<1> DEFINE Survives == \A c \in Columns :
                          Orderly /\ data[c] # None /\ data'[c] = None => class[c] # cols[c]
<1>1. IInv /\ [Next]_vars => [Survives]_vars
  <2> SUFFICES ASSUME IInv, Next, Orderly PROVE Survives
      OBVIOUS
  <2>1. TypeInv /\ Described /\ Progress
        BY DEF IInv
  <2>2. CASE Execute
    <3>1. pc = "alter"
          BY <2>2 DEF Execute
    <3>2. CASE descr = None
      <4>1. todo # <<>> /\ Creating
            BY <2>1, <2>2, <3>1, <3>2 DEF Execute, Progress
      <4>2. Head(todo).op \in {"create", "addkey"}
            BY <4>1 DEF Creating, Create
      <4>3. data' = data
            BY <2>2, <4>2 DEF Execute, CreateTable, AddKey, DropKey, DropColumn, AddColumn
      <4> QED BY <4>3
    <3>3. CASE descr # None
          BY <2>1, <2>2, <3>1, <3>3, AlterationGoesOn DEF Progress
    <3> QED BY <3>2, <3>3
  <2>3. CASE Insert
        BY <2>1, <2>3, TableInsert
  <2>4. CASE ~Execute /\ ~Insert
    <3>1. data' = data
          BY <2>4 DEF Next, database, Store, StoreUnprepared, Describe, ExecuteFails, Executed,
               DeleteDescription, InsertDescription, GetStatement, GetStatementFails, Crash, Start
    <3> QED BY <3>1
  <2> QED BY <2>2, <2>3, <2>4
<1> QED BY <1>1, Invariant, PTL DEF Spec, KeptDataSurvives
-----------------------------------------------------------------------------
\* Every value in its own column

Nested(shape) == Present(shape) \cap DOMAIN DataOf

LEMMA AtMostOne ==
    ASSUME NEW H \in SUBSET Columns
    PROVE  Cardinality(H) <= 1 <=> \A x, y \in H : x = y
<1>1. IsFiniteSet(Columns)
  <2>1. Order \in Surjection(1..Len(Order), Columns)
        BY OrderAssumption DEF Surjection
  <2>2. IsFiniteSet(1..Len(Order))
        BY OrderAssumption, FS_Interval
  <2> QED BY <2>1, <2>2, FS_Surjection
<1>2. IsFiniteSet(H)
      BY <1>1, FS_Subset
<1>3. /\ Cardinality(H) \in Nat
      /\ Cardinality(H) = 0 <=> H = {}
      /\ Cardinality(H) = 1 <=> \E x : H = {x}
      BY <1>2, FS_CardinalityType, FS_EmptySet, FS_Singleton
<1>4. (H = {} \/ \E x : H = {x}) <=> \A x, y \in H : x = y
  <2>1. CASE H = {}
        BY <2>1
  <2>2. CASE H # {}
    <3>1. PICK z : z \in H
          BY <2>2
    <3>2. ASSUME \A x, y \in H : x = y PROVE H = {z}
          BY <3>1, <3>2
    <3> QED BY <3>1, <3>2
  <2> QED BY <2>1, <2>2
<1> QED BY <1>3, <1>4

\* The prefixes of what a field binds
LEMMA BindsIs ==
    ASSUME NEW shape \in Classes, NEW f \in KeyOf(shape), NEW c, Binds(f, c)
    PROVE  /\ f \in Indexed /\ f \in Columns /\ c \in Columns
           /\ f \in DOMAIN DataOf => f \in Nested(shape) /\ Prefix(f) = 3
           /\ f \notin DOMAIN DataOf => c = f /\ Prefix(f) = 1
           /\ c # f => f \in DOMAIN DataOf /\ c = DataOf[f] /\ c \notin Indexed /\ Prefix(c) = 2
<1>1. f \in Indexed /\ f \in Columns /\ f \in Present(shape)
      BY DEF KeyOf, Present
<1>2. f \in DOMAIN DataOf => DataOf[f] \in Columns \ Indexed
      BY DataAssumption
<1>3. c \notin Indexed => c \notin DOMAIN DataOf
      BY DataAssumption
<1> QED BY <1>1, <1>2, <1>3 DEF Binds, Prefix, Nested

\* With one nested class the values come in the order of the names
LEMMA OneNestedSorted ==
    ASSUME NEW shape \in Classes, Present(shape) # {}, \A x, y \in Nested(shape) : x = y
    PROVE  Sorted(Bound(shape))
<1> DEFINE bound == Bound(shape)
<1> SUFFICES ASSUME NEW k \in 1..Len(bound), NEW l \in 1..Len(bound), k < l
             PROVE  Before(bound[k], bound[l])
    BY DEF Sorted
<1>1. PICK f, g \in KeyOf(shape) :
         /\ Binds(f, bound[k]) /\ Binds(g, bound[l])
         /\ \/ Before(f, g)
            \/ f = g /\ f \in DOMAIN DataOf /\ bound[k] = DataOf[f] /\ bound[l] = f
      BY BoundIs
<1> DEFINE x == bound[k]
           y == bound[l]
<1> HIDE DEF bound
<1>2. /\ f \in Columns /\ x \in Columns /\ f \in Indexed
      /\ f \in DOMAIN DataOf => f \in Nested(shape) /\ Prefix(f) = 3
      /\ f \notin DOMAIN DataOf => x = f /\ Prefix(f) = 1
      BY <1>1, BindsIs
<1>3. /\ g \in Columns /\ y \in Columns
      /\ g \in DOMAIN DataOf => g \in Nested(shape) /\ Prefix(g) = 3
      /\ g \notin DOMAIN DataOf => y = g /\ Prefix(g) = 1
      /\ y # g => Prefix(y) = 2
      BY <1>1, BindsIs
<1>4. CASE Before(f, g)
  <2>1. ~Before(g, f) /\ f # g
        BY <1>4, NamesOrdered
  <2>2. f \notin DOMAIN DataOf
    <3> SUFFICES ASSUME f \in DOMAIN DataOf PROVE FALSE
        OBVIOUS
    <3>1. g \notin DOMAIN DataOf
          BY <1>2, <1>3, <2>1
    <3>2. Before(g, f)
          BY <1>2, <1>3, <3>1, NamesOrdered
    <3> QED BY <2>1, <3>2
  <2>3. CASE y = g
        BY <1>2, <1>4, <2>2, <2>3
  <2>4. CASE y # g
    <3>1. Prefix(x) < Prefix(y)
          BY <1>2, <1>3, <2>2, <2>4
    <3> QED BY <1>2, <1>3, <3>1, NamesOrdered
  <2> QED BY <2>3, <2>4
<1>5. CASE f = g /\ f \in DOMAIN DataOf /\ x = DataOf[f] /\ y = f
  <2>1. x # f
        BY <1>2, <1>5, DataAssumption
  <2>2. Prefix(x) = 2 /\ Prefix(y) = 3
        BY <1>1, <1>2, <1>5, <2>1, BindsIs
  <2>3. Prefix(x) < Prefix(y)
        BY <2>2
  <2> QED BY <1>2, <1>3, <2>3, NamesOrdered
<1> QED BY <1>1, <1>4, <1>5

\* With two they do not: the hash_ of the first is bound before the data_ of the second
LEMMA TwoNestedCross ==
    ASSUME NEW shape \in Classes, NEW c \in Nested(shape), NEW d \in Nested(shape), Before(c, d),
           NEW k \in 1..Len(Bound(shape)), NEW l \in 1..Len(Bound(shape)),
           Bound(shape)[k] = DataOf[d], Bound(shape)[l] = c
    PROVE  ~(k < l)
<1> SUFFICES ASSUME k < l PROVE FALSE
    OBVIOUS
<1>1. Present(shape) # {} /\ c \in DOMAIN DataOf /\ d \in DOMAIN DataOf
      BY DEF Nested
<1>2. PICK f, g \in KeyOf(shape) :
         /\ Binds(f, DataOf[d]) /\ Binds(g, c)
         /\ Before(f, g) \/ (f = g /\ f \in DOMAIN DataOf /\ DataOf[d] = DataOf[f] /\ c = f)
      BY <1>1, BoundIs
<1>3. c \in Indexed /\ DataOf[d] \notin Indexed
      BY <1>1, DataAssumption
<1>4. f \in DOMAIN DataOf /\ DataOf[f] = DataOf[d]
      BY <1>2, <1>3, BindsIs
<1>5. f = d
      BY <1>1, <1>4, NamesOrdered
<1>6. g = c
      BY <1>2, <1>3, BindsIs
<1> QED BY <1>2, <1>5, <1>6, NamesOrdered

\* Every value reaches its column just when the class has at most one nested class
LEMMA OwnColumns ==
    ASSUME NEW shape \in Classes,
           NEW P, P = Present(shape), NEW named, named = InOrder(P), NEW bound, bound = Bound(shape)
    PROVE  (\A c \in P : bound[CHOOSE i \in DOMAIN named : named[i] = c] = c)
               <=> \A x, y \in Nested(shape) : x = y
<1> DEFINE At(c) == CHOOSE i \in DOMAIN named : named[i] = c
<1>1. \A c \in P : At(c) \in 1..Len(named) /\ At(c) \in 1..Len(bound) /\ named[At(c)] = c
      BY BoundAt
<1>2. P \in SUBSET Columns
      BY DEF Present
<1>3. /\ named \in Seq(Columns) /\ Sorted(named)
      /\ \A i \in 1..Len(named) : named[i] \in P
      /\ \A c \in P : \E i \in 1..Len(named) : named[i] = c
      BY <1>2, InOrderIs, InOrderSorted
<1>4. P # {} => /\ bound \in Seq(Columns)
                /\ \A c \in P : \E k \in 1..Len(bound) : bound[k] = c
                /\ \A k \in 1..Len(bound) : bound[k] \in P
      BY BoundIs
<1> HIDE DEF At
<1>5. ASSUME \A x, y \in Nested(shape) : x = y, NEW c \in P PROVE bound[At(c)] = c
  <2>1. Sorted(bound)
        BY <1>5, OneNestedSorted
  <2>2. \A i \in 1..Len(named) : \E j \in 1..Len(bound) : bound[j] = named[i]
        BY <1>3, <1>4
  <2>3. \A j \in 1..Len(bound) : \E i \in 1..Len(named) : named[i] = bound[j]
        BY <1>3, <1>4
  <2>4. \A i \in 1..Len(named) : i \in 1..Len(bound) /\ named[i] = bound[i]
        BY <1>3, <1>4, <1>5, <2>1, <2>2, <2>3, SortedSame
  <2> QED BY <1>1, <2>4
<1>6. ASSUME \A c \in P : bound[At(c)] = c,
             NEW c \in Nested(shape), NEW d \in Nested(shape), Before(c, d)
      PROVE  FALSE
  <2>1. c \in P /\ c \in DOMAIN DataOf /\ d \in P /\ d \in DOMAIN DataOf
        BY DEF Nested
  <2> DEFINE e == DataOf[d]
  <2>2. e \in Columns /\ e \notin Indexed /\ e \in P
    <3>1. e \in Columns \ Indexed
          BY <2>1, DataAssumption
    <3>2. shape[e] # None
          BY <2>1, ClassesAssumption DEF Present
    <3> QED BY <3>1, <3>2 DEF Present
  <2>3. Prefix(e) = 2 /\ Prefix(c) = 3
        BY <2>1, <2>2, DataAssumption DEF Prefix
  <2>4. Before(e, c)
        BY <1>2, <2>1, <2>2, <2>3, NamesOrdered
  <2>5. bound[At(e)] = e /\ bound[At(c)] = c
        BY <1>6, <2>1, <2>2
  <2>6. ~(At(e) < At(c))
        BY <1>1, <1>6, <2>1, <2>2, <2>5, TwoNestedCross
  <2>7. At(c) < At(e) \/ At(c) = At(e)
        BY <1>1, <1>3, <2>1, <2>2, <2>6
  <2>8. Before(c, e) \/ c = e
        BY <1>1, <1>3, <2>1, <2>2, <2>7 DEF Sorted
  <2> QED BY <2>4, <2>8, NamesOrdered
<1>7. ASSUME \A c \in P : bound[At(c)] = c
      PROVE  \A x, y \in Nested(shape) : x = y
      BY <1>2, <1>6, <1>7, NamesOrdered DEF Nested
<1> QED BY <1>5, <1>7 DEF At

\* An object that is stored has every value in its own column just when its class has no
\* second nested class, for any columns and fields: store binds field by field, data_ and
\* hash_ of one together, and the INSERT names all data_ before all hash_ columns
\* (sql_class_wrapper::store and sql_insert_stmt)
THEOREM ValuesPlaced == Spec => ValuesInColumns
<1> DEFINE Placing ==
        pc = "bind" /\ pc' = "idle" =>
            ((\A c \in Present(class) : data'[c] = c)
                <=> Cardinality(Present(class) \cap DOMAIN DataOf) <= 1)
<1>1. TypeInv /\ [Next]_vars => [Placing]_vars
  <2> SUFFICES ASSUME TypeInv, Next, pc = "bind", pc' = "idle"
               PROVE  (\A c \in Present(class) : data'[c] = c)
                          <=> Cardinality(Nested(class)) <= 1
      BY DEF Nested
  <2>1. Insert
        BY DEF Next, Store, StoreUnprepared, Describe, Execute, ExecuteFails, Executed,
               DeleteDescription, InsertDescription, GetStatement, GetStatementFails, Crash,
               Start, Goto
  <2>2. class \in Classes
        BY TypeParts
  <2> DEFINE named == InOrder(Present(class))
             bound == Bound(class)
             At(c) == CHOOSE i \in DOMAIN named : named[i] = c
  <2>3. data' = [c \in Columns |-> IF c \in Present(class) THEN bound[At(c)] ELSE data[c]]
        BY <2>1 DEF Insert
  <2>4. Present(class) \subseteq Columns /\ Nested(class) \subseteq Columns
        BY DEF Present, Nested
  <2>5. (\A c \in Present(class) : bound[At(c)] = c) <=> \A x, y \in Nested(class) : x = y
        BY <2>2, OwnColumns
  <2> HIDE DEF named, bound, At
  <2>6. (\A c \in Present(class) : data'[c] = c) <=> \A c \in Present(class) : bound[At(c)] = c
        BY <2>3, <2>4
  <2> QED BY <2>4, <2>5, <2>6, AtMostOne
<1> QED BY <1>1, TypeInit, TypeStep, PTL DEF Spec, ValuesInColumns
=============================================================================
