--------------------------- MODULE SequenceLemmas ---------------------------
(***************************************************************************)
(* What proofs about recursive functions on sequences need: induction over *)
(* a set of naturals, and FlattenSeq of SequencesExt.                      *)
(***************************************************************************)
EXTENDS Integers, SequencesExt, WellFoundedInduction, TLAPS

-----------------------------------------------------------------------------
\* Induction, on a set instead of a predicate

LEMMA Least ==
    ASSUME NEW T \in SUBSET Nat, T # {}
    PROVE  \E n \in T : \A m \in T : ~(m < n)
<1>1. IsWellFoundedOn(OpToRel(<, Nat), Nat)
      BY NatLessThanWellFounded
<1>2. \E n \in T : \A m \in T : ~(<<m, n>> \in OpToRel(<, Nat))
      BY <1>1, WFMin
<1> QED BY <1>2 DEF OpToRel

LEMMA UpTo ==
    ASSUME NEW n \in Nat, NEW T, 0 \in T, \A m \in 0..n : m \in T /\ m < n => m + 1 \in T
    PROVE  \A m \in 0..n : m \in T
<1> DEFINE U == {m \in 0..n : m \notin T}
<1>1. SUFFICES ASSUME U # {} PROVE FALSE
      OBVIOUS
<1>2. U \in SUBSET Nat
      OBVIOUS
<1>3. PICK m \in U : \A k \in U : ~(k < m)
      BY <1>1, <1>2, Least
<1>4. m # 0 /\ m \in Nat /\ m <= n
      BY <1>3
<1>5. m - 1 \in 0..n /\ m - 1 < m /\ m - 1 < n
      BY <1>4
<1>6. m - 1 \in T
      BY <1>3, <1>5
<1>7. (m - 1) + 1 \in T
      BY <1>5, <1>6
<1> QED BY <1>3, <1>4, <1>7

-----------------------------------------------------------------------------
\* Sequences one after the other

Joined(q, n, prefix) == IF n = 1 THEN q[n] ELSE prefix[n - 1] \o q[n]

\* FlattenSeq is the end of a function that exists
LEMMA FlattenExists ==
    ASSUME NEW A, NEW q \in Seq(Seq(A)), Len(q) # 0
    PROVE  \E f \in [1..Len(q) -> Seq(A)] :
              /\ \A n \in 1..Len(q) : f[n] = Joined(q, n, f)
              /\ FlattenSeq(q) = f[Len(q)]
<1> DEFINE L == Len(q)
           Good(n, f) == f \in [1..n -> Seq(A)] /\ \A m \in 1..n : f[m] = Joined(q, m, f)
           T == {n \in 0..L : \E f : Good(n, f)}
<1>1. L \in Nat /\ L \in 0..L /\ L \in 1..L /\ \A n \in 1..L : q[n] \in Seq(A)
      OBVIOUS
<1>2. 0 \in T
  <2> DEFINE f == [m \in 1..0 |-> <<>>]
  <2>1. Good(0, f)
        OBVIOUS
  <2> HIDE DEF f, Good
  <2> QED BY <1>1, <2>1
<1>3. ASSUME NEW n \in 0..L, n \in T, n < L PROVE n + 1 \in T
  <2>1. PICK f : Good(n, f)
        BY <1>3
  <2> DEFINE x == IF n = 0 THEN q[1] ELSE f[n] \o q[n + 1]
             g == [m \in 1..(n + 1) |-> IF m = n + 1 THEN x ELSE f[m]]
  <2>2. n \in Nat /\ n + 1 \in 1..L /\ n + 1 \in 0..L /\ q[n + 1] \in Seq(A)
        BY <1>1, <1>3
  <2>3. x \in Seq(A)
    <3>1. CASE n = 0
          BY <2>2, <3>1
    <3>2. CASE n # 0
      <4>1. f[n] \in Seq(A)
            BY <2>1, <2>2, <3>2
      <4> QED BY <2>2, <3>2, <4>1
    <3> QED BY <3>1, <3>2
  <2> HIDE DEF x
  <2>4. g \in [1..(n + 1) -> Seq(A)]
    <3>1. ASSUME NEW m \in 1..(n + 1) PROVE (IF m = n + 1 THEN x ELSE f[m]) \in Seq(A)
      <4>1. CASE m = n + 1
            BY <2>3, <4>1
      <4>2. CASE m # n + 1
        <5>1. m \in 1..n
              BY <4>2, <2>2
        <5> QED BY <4>2, <5>1, <2>1
      <4> QED BY <4>1, <4>2
    <3> QED BY <3>1
  <2>5. ASSUME NEW m \in 1..(n + 1) PROVE g[m] = Joined(q, m, g)
    <3>1. CASE m = n + 1
      <4>1. g[n + 1] = x /\ (n # 0 => g[n] = f[n]) /\ (n + 1) - 1 = n /\ (n + 1 = 1 <=> n = 0)
            BY <2>2
      <4> QED BY <3>1, <4>1 DEF Joined, x
    <3>2. CASE m # n + 1
      <4>1. m \in 1..n
            BY <3>2, <2>2
      <4>2. g[m] = f[m] /\ (m # 1 => g[m - 1] = f[m - 1])
            BY <3>2, <4>1, <2>2
      <4> QED BY <4>1, <4>2, <2>1 DEF Joined
    <3> QED BY <3>1, <3>2
  <2>6. Good(n + 1, g)
        BY <2>4, <2>5
  <2> HIDE DEF g, Good
  <2> QED BY <2>6, <2>2
<1> HIDE DEF T
<1>4. \A m \in 0..L : m \in T /\ m < L => m + 1 \in T
      BY <1>3
<1>5. L \in T
      BY <1>1, <1>2, <1>4, UpTo
<1> HIDE DEF Good
<1>6. PICK f : Good(L, f)
      BY <1>5 DEF T
<1> USE DEF Good
<1> DEFINE Def(g) == g = [n \in 1..L |-> IF n = 1 THEN q[n] ELSE g[n - 1] \o q[n]]
           h == CHOOSE g : Def(g)
<1>7. Def(f)
  <2>1. f = [n \in 1..L |-> f[n]] /\ \A n \in 1..L : f[n] = Joined(q, n, f)
        BY <1>6
  <2>2. f = [n \in 1..L |-> Joined(q, n, f)]
        BY <2>1
  <2> QED BY <2>2 DEF Joined
<1>8. Def(h)
      BY <1>7
<1>9. FlattenSeq(q) = h[L]
      BY DEF FlattenSeq
<1> HIDE DEF h
<1>10. h = [n \in 1..L |-> h[n]] /\ \A n \in 1..L : h[n] = Joined(q, n, h)
      BY <1>8 DEF Joined
<1>11. h \in [1..L -> Seq(A)]
  <2> DEFINE V == {n \in 0..L : n # 0 => h[n] \in Seq(A)}
  <2>1. 0 \in V
        BY <1>1
  <2>2. ASSUME NEW n \in 0..L, n \in V, n < L PROVE n + 1 \in V
    <3>1. n + 1 \in 0..L /\ n + 1 \in 1..L /\ n \in Nat /\ (n + 1) - 1 = n /\ q[n + 1] \in Seq(A)
          BY <1>1, <2>2
    <3>2. h[n + 1] = Joined(q, n + 1, h)
          BY <1>10, <3>1
    <3>3. CASE n = 0
      <4>1. h[n + 1] = q[n + 1]
            BY <3>2, <3>3 DEF Joined
      <4> QED BY <3>1, <4>1
    <3>4. CASE n # 0
      <4>1. h[n] \in Seq(A)
            BY <2>2, <3>4
      <4>2. n + 1 # 1
            BY <3>1, <3>4
      <4>3. h[n + 1] = h[n] \o q[n + 1]
            BY <3>1, <3>2, <4>2 DEF Joined
      <4>4. h[n + 1] \in Seq(A)
            BY <3>1, <4>1, <4>3
      <4> QED BY <3>1, <4>4
    <3> QED BY <3>3, <3>4
  <2> HIDE DEF V
  <2>3. \A n \in 0..L : n \in V
        BY <1>1, <2>1, <2>2, UpTo
  <2>4. \A n \in 1..L : h[n] \in Seq(A)
    <3> SUFFICES ASSUME NEW n \in 1..L PROVE h[n] \in Seq(A)
        OBVIOUS
    <3>1. n \in 0..L /\ n # 0
          BY <1>1
    <3> QED BY <2>3, <3>1 DEF V
  <2> QED BY <1>10, <2>4
<1> QED BY <1>9, <1>10, <1>11

LEMMA JoinedAt ==
    ASSUME NEW A, NEW s \in Seq(A), NEW t \in Seq(A)
    PROVE  /\ Len(s) \in Nat /\ Len(t) \in Nat /\ Len(s \o t) = Len(s) + Len(t)
           /\ \A i \in 1..Len(s) : (s \o t)[i] = s[i]
           /\ \A i \in 1..Len(t) : (s \o t)[Len(s) + i] = t[i]
    OBVIOUS

\* The elements of all of them are in it
LEMMA FlattenIs ==
    ASSUME NEW A, NEW q \in Seq(Seq(A)), Len(q) # 0
    PROVE  /\ FlattenSeq(q) \in Seq(A)
           /\ \A i \in 1..Len(q) : \A j \in 1..Len(q[i]) :
                 \E k \in 1..Len(FlattenSeq(q)) : FlattenSeq(q)[k] = q[i][j]
<1>1. PICK f \in [1..Len(q) -> Seq(A)] :
          /\ \A n \in 1..Len(q) : f[n] = Joined(q, n, f)
          /\ FlattenSeq(q) = f[Len(q)]
      BY FlattenExists
<1> DEFINE L == Len(q)
           All(n) == \A i \in 1..n : \A j \in 1..Len(q[i]) : \E k \in 1..Len(f[n]) : f[n][k] = q[i][j]
           T == {n \in 0..L : All(n)}
<1>2. L \in Nat /\ L \in 0..L /\ L \in 1..L /\ \A n \in 1..L : q[n] \in Seq(A)
      OBVIOUS
<1>3. 0 \in T
  <2>1. All(0)
        OBVIOUS
  <2> QED BY <1>2, <2>1
<1>4. ASSUME NEW n \in 0..L, n \in T, n < L PROVE n + 1 \in T
  <2>1. n + 1 \in 1..L /\ n + 1 \in 0..L /\ n \in Nat /\ (n + 1) - 1 = n /\ q[n + 1] \in Seq(A)
        BY <1>2, <1>4
  <2>2. f[n + 1] = Joined(q, n + 1, f)
        BY <1>1, <2>1
  <2>3. All(n)
        BY <1>4
  <2>4. All(n + 1)
    <3>1. CASE n = 0
      <4>1. f[n + 1] = q[n + 1]
            BY <2>2, <3>1 DEF Joined
      <4>2. \A i \in 1..(n + 1) : i = n + 1
            BY <3>1
      <4> QED BY <4>1, <4>2
    <3>2. CASE n # 0
      <4>1. f[n] \in Seq(A) /\ f[n + 1] = f[n] \o q[n + 1]
        <5>1. n \in 1..L /\ n + 1 # 1
              BY <2>1, <3>2
        <5>2. f[n] \in Seq(A)
              BY <1>1, <5>1
        <5> QED BY <2>1, <2>2, <5>1, <5>2 DEF Joined
      <4> DEFINE k == Len(f[n])
      <4>2. /\ k \in Nat /\ Len(q[n + 1]) \in Nat /\ Len(f[n + 1]) = k + Len(q[n + 1])
            /\ \A i \in 1..k : f[n + 1][i] = f[n][i]
            /\ \A i \in 1..Len(q[n + 1]) : f[n + 1][k + i] = q[n + 1][i]
        <5> DEFINE u == f[n]
                   v == q[n + 1]
        <5>1. u \in Seq(A) /\ v \in Seq(A) /\ f[n + 1] = u \o v
              BY <2>1, <4>1
        <5> HIDE DEF u, v
        <5>2. /\ Len(u) \in Nat /\ Len(v) \in Nat /\ Len(f[n + 1]) = Len(u) + Len(v)
              /\ \A i \in 1..Len(u) : f[n + 1][i] = u[i]
              /\ \A i \in 1..Len(v) : f[n + 1][Len(u) + i] = v[i]
              BY <5>1, JoinedAt
        <5> QED BY <5>2 DEF u, v
      <4> SUFFICES ASSUME NEW i \in 1..(n + 1), NEW j \in 1..Len(q[i])
                   PROVE  \E l \in 1..Len(f[n + 1]) : f[n + 1][l] = q[i][j]
          OBVIOUS
      <4> HIDE DEF k
      <4>3. CASE i = n + 1
        <5>1. j \in 1..Len(q[n + 1]) /\ q[i] = q[n + 1]
              BY <4>3
        <5>2. f[n + 1][k + j] = q[i][j]
              BY <4>2, <5>1
        <5>3. k + j \in 1..Len(f[n + 1])
              BY <4>2, <5>1
        <5> QED BY <5>2, <5>3
      <4>4. CASE i # n + 1
        <5>1. i \in 1..n
              BY <2>1, <4>4
        <5>2. PICK l \in 1..k : f[n][l] = q[i][j]
              BY <2>3, <5>1 DEF k
        <5>3. f[n + 1][l] = q[i][j]
              BY <4>2, <5>2
        <5>4. l \in 1..Len(f[n + 1])
              BY <4>2, <5>2
        <5> QED BY <5>3, <5>4
      <4> QED BY <4>3, <4>4
    <3> QED BY <3>1, <3>2
  <2> HIDE DEF All
  <2> QED BY <2>1, <2>4
<1> HIDE DEF T
<1>5. \A m \in 0..L : m \in T /\ m < L => m + 1 \in T
      BY <1>4
<1>6. L \in T
      BY <1>2, <1>3, <1>5, UpTo
<1>7. All(L)
      BY <1>6 DEF T
<1> QED BY <1>1, <1>2, <1>7

\* One sequence more
LEMMA FlattenAppend ==
    ASSUME NEW A, NEW q \in Seq(Seq(A)), NEW s \in Seq(A)
    PROVE  FlattenSeq(Append(q, s)) = FlattenSeq(q) \o s
<1> DEFINE r == Append(q, s)
           L == Len(q)
<1>1. /\ L \in Nat /\ r \in Seq(Seq(A)) /\ Len(r) = L + 1 /\ Len(r) # 0
      /\ r[L + 1] = s /\ \A i \in 1..L : r[i] = q[i]
      OBVIOUS
<1> HIDE DEF r
<1>2. PICK g \in [1..Len(r) -> Seq(A)] :
          /\ \A n \in 1..Len(r) : g[n] = Joined(r, n, g)
          /\ FlattenSeq(r) = g[Len(r)]
      BY <1>1, FlattenExists
<1>3. CASE L = 0
  <2>1. q = <<>>
        BY <1>3
  <2>2. FlattenSeq(q) = <<>>
        BY <2>1 DEF FlattenSeq
  <2>3. FlattenSeq(r) = s
        BY <1>1, <1>2, <1>3 DEF Joined
  <2>4. <<>> \o s = s
        OBVIOUS
  <2> QED BY <2>2, <2>3, <2>4 DEF r
<1>4. CASE L # 0
  <2>1. PICK f \in [1..L -> Seq(A)] :
            /\ \A n \in 1..L : f[n] = Joined(q, n, f)
            /\ FlattenSeq(q) = f[L]
        BY <1>4, FlattenExists
  <2> DEFINE T == {n \in 0..L : n # 0 => g[n] = f[n]}
  <2>2. 0 \in T
        BY <1>1
  <2>3. ASSUME NEW n \in 0..L, n \in T, n < L PROVE n + 1 \in T
    <3>1. n + 1 \in 0..L /\ n + 1 \in 1..L /\ n + 1 \in 1..Len(r) /\ (n + 1) - 1 = n /\ n \in Nat
          BY <1>1, <2>3
    <3>2. f[n + 1] = Joined(q, n + 1, f) /\ g[n + 1] = Joined(r, n + 1, g) /\ r[n + 1] = q[n + 1]
          BY <1>1, <1>2, <2>1, <3>1
    <3>3. n # 0 => g[n] = f[n]
          BY <2>3
    <3>4. g[n + 1] = f[n + 1]
          BY <3>1, <3>2, <3>3 DEF Joined
    <3> QED BY <3>1, <3>4
  <2> HIDE DEF T
  <2>4. \A m \in 0..L : m \in T /\ m < L => m + 1 \in T
        BY <2>3
  <2>5. L \in 0..L
        BY <1>1
  <2>6. L \in T
        BY <1>1, <2>2, <2>4, <2>5, UpTo
  <2>7. g[L] = f[L]
        BY <1>4, <2>6 DEF T
  <2>8. L + 1 \in 1..Len(r) /\ L + 1 # 1 /\ (L + 1) - 1 = L
        BY <1>1, <1>4
  <2>9. g[L + 1] = g[L] \o r[L + 1]
        BY <1>2, <2>8 DEF Joined
  <2> QED BY <1>1, <1>2, <2>1, <2>7, <2>9 DEF r
<1> QED BY <1>3, <1>4

\* The elements of s come from the first n of q, in their order
Placed(q, n, s) ==
    /\ \A i \in 1..Len(s) : \E a \in 1..n : \E k \in 1..Len(q[a]) : s[i] = q[a][k]
    /\ \A i, j \in 1..Len(s) : i < j =>
          \E a, b \in 1..n : \E k \in 1..Len(q[a]) : \E l \in 1..Len(q[b]) :
             s[i] = q[a][k] /\ s[j] = q[b][l] /\ (a < b \/ (a = b /\ k < l))

LEMMA PlacedMore ==
    ASSUME NEW A, NEW q \in Seq(Seq(A)), NEW n \in Nat, n + 1 \in 1..Len(q),
           NEW u \in Seq(A), Placed(q, n, u)
    PROVE  Placed(q, n + 1, u \o q[n + 1])
<1> DEFINE v == q[n + 1]
           m == Len(u)
           s == u \o v
<1>1. v \in Seq(A)
      OBVIOUS
<1>2. /\ m \in Nat /\ Len(v) \in Nat /\ Len(s) = m + Len(v)
      /\ \A i \in 1..m : s[i] = u[i]
      /\ \A i \in 1..Len(v) : s[m + i] = v[i]
      BY <1>1, JoinedAt
<1>0. \A i \in 1..m : \E a \in 1..n : \E k \in 1..Len(q[a]) : u[i] = q[a][k]
      BY DEF Placed
<1> HIDE DEF s, m
<1>3. \A a \in 1..n : a \in 1..(n + 1)
      OBVIOUS
<1>4. n + 1 \in 1..(n + 1)
      OBVIOUS
<1>5. \A i \in 1..m : \E a \in 1..n : \E k \in 1..Len(q[a]) : s[i] = q[a][k]
      BY <1>0, <1>2
<1>6. ASSUME NEW i \in 1..Len(s), i \notin 1..m
      PROVE  i - m \in 1..Len(v) /\ s[i] = v[i - m]
  <2> DEFINE d == i - m
             z == Len(v)
  <2>1. i \in 1..(m + z) /\ m \in Nat /\ z \in Nat
        BY <1>2
  <2> HIDE DEF z
  <2>2. d \in 1..z /\ m + d = i
        BY <1>6, <2>1
  <2>3. s[m + d] = v[d]
        BY <1>2, <2>2 DEF z
  <2> QED BY <2>2, <2>3 DEF z
<1>7. ASSUME NEW i \in 1..Len(s)
      PROVE  \E a \in 1..(n + 1) : \E k \in 1..Len(q[a]) : s[i] = q[a][k]
  <2>1. CASE i \in 1..m
        BY <1>3, <1>5, <2>1
  <2>2. CASE i \notin 1..m
        BY <1>4, <1>6, <2>2
  <2> QED BY <2>1, <2>2
<1>8. ASSUME NEW i \in 1..Len(s), NEW j \in 1..Len(s), i < j
      PROVE  \E a, b \in 1..(n + 1) : \E k \in 1..Len(q[a]) : \E l \in 1..Len(q[b]) :
                s[i] = q[a][k] /\ s[j] = q[b][l] /\ (a < b \/ (a = b /\ k < l))
  <2>1. CASE i \in 1..m /\ j \in 1..m
    <3>1. \E a, b \in 1..n : \E k \in 1..Len(q[a]) : \E l \in 1..Len(q[b]) :
             u[i] = q[a][k] /\ u[j] = q[b][l] /\ (a < b \/ (a = b /\ k < l))
          BY <1>8, <2>1 DEF Placed, m
    <3> QED BY <1>2, <1>3, <2>1, <3>1
  <2>2. CASE i \in 1..m /\ j \notin 1..m
    <3>1. PICK a \in 1..n : \E k \in 1..Len(q[a]) : s[i] = q[a][k]
          BY <1>5, <2>2
    <3>2. j - m \in 1..Len(q[n + 1]) /\ s[j] = q[n + 1][j - m]
          BY <1>6, <2>2
    <3>3. a < n + 1
          OBVIOUS
    <3> QED BY <1>3, <1>4, <3>1, <3>2, <3>3
  <2>3. CASE i \notin 1..m
    <3>1. j \notin 1..m
          BY <1>2, <1>8, <2>3
    <3>2. i - m \in 1..Len(q[n + 1]) /\ s[i] = q[n + 1][i - m]
          BY <1>6, <2>3
    <3>3. j - m \in 1..Len(q[n + 1]) /\ s[j] = q[n + 1][j - m]
          BY <1>6, <3>1
    <3>4. i - m < j - m
          BY <1>2, <1>8
    <3> QED BY <1>4, <3>2, <3>3, <3>4
  <2> QED BY <2>1, <2>2, <2>3
<1>9. Placed(q, n + 1, s)
      BY <1>7, <1>8 DEF Placed
<1> QED BY <1>9 DEF s

\* Its elements come one vector after the other
LEMMA FlattenPlaced ==
    ASSUME NEW A, NEW q \in Seq(Seq(A)), Len(q) # 0
    PROVE  Placed(q, Len(q), FlattenSeq(q))
<1>1. PICK f \in [1..Len(q) -> Seq(A)] :
          /\ \A n \in 1..Len(q) : f[n] = Joined(q, n, f)
          /\ FlattenSeq(q) = f[Len(q)]
      BY FlattenExists
<1> DEFINE L == Len(q)
           T == {n \in 0..L : n # 0 => Placed(q, n, f[n])}
<1>2. L \in Nat /\ L \in 0..L /\ L # 0
      OBVIOUS
<1>3. 0 \in T
      BY <1>2
<1>4. ASSUME NEW n \in 0..L, n \in T, n < L PROVE n + 1 \in T
  <2>1. n + 1 \in 1..Len(q) /\ n + 1 \in 0..L /\ n \in Nat /\ (n + 1) - 1 = n /\ q[n + 1] \in Seq(A)
        BY <1>2, <1>4
  <2>2. f[n + 1] = IF n = 0 THEN q[n + 1] ELSE f[n] \o q[n + 1]
    <3>1. f[n + 1] = Joined(q, n + 1, f)
          BY <1>1, <2>1
    <3> QED BY <2>1, <3>1 DEF Joined
  <2>3. PICK u \in Seq(A) : f[n + 1] = u \o q[n + 1] /\ Placed(q, n, u)
    <3>1. CASE n = 0
      <4> DEFINE u == <<>>
      <4>1. u \in Seq(A) /\ Len(u) = 0 /\ u \o q[n + 1] = q[n + 1]
            BY <2>1
      <4>2. 1..Len(u) = {}
            BY <4>1
      <4> HIDE DEF u
      <4>3. Placed(q, n, u)
            BY <4>2 DEF Placed
      <4> QED BY <2>2, <3>1, <4>1, <4>3
    <3>2. CASE n # 0
      <4>1. n \in 1..Len(q)
            BY <2>1, <3>2
      <4>2. f[n] \in Seq(A) /\ Placed(q, n, f[n])
            BY <1>1, <1>4, <3>2, <4>1
      <4> QED BY <2>2, <3>2, <4>2
    <3> QED BY <3>1, <3>2
  <2>4. Placed(q, n + 1, f[n + 1])
        BY <2>1, <2>3, PlacedMore
  <2> QED BY <2>1, <2>4
<1> HIDE DEF T
<1>5. \A m \in 0..L : m \in T /\ m < L => m + 1 \in T
      BY <1>4
<1>6. \A m \in 0..L : m \in T
      BY <1>2, <1>3, <1>5, UpTo
<1>7. L \in T
      BY <1>2, <1>6
<1> QED BY <1>1, <1>2, <1>7 DEF T
=============================================================================
