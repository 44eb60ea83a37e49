----------------------------- MODULE Iteration -----------------------------
(***************************************************************************)
(* The loops of the pass are written as recursive functions on 0 .. n.     *)
(* What such a function computes is proved by contradiction: a set of      *)
(* numbers that is not empty has a least element.                          *)
(***************************************************************************)
EXTENDS AddressOrder, WellFoundedInduction, TLAPS

\* A set that holds 0, and with every number the next, holds every number.
LEMMA NatSet ==
  ASSUME NEW S, 0 \in S, \A k \in Nat : k \in S => k + 1 \in S
  PROVE  Nat \subseteq S
  <1> DEFINE T == Nat \ S
  <1> SUFFICES ASSUME T # {} PROVE FALSE
    OBVIOUS
  <1>1. PICK k \in T : \A j \in T : ~(<<j, k>> \in OpToRel(<, Nat))
    <2>1. T \subseteq Nat
      OBVIOUS
    <2> HIDE DEF T
    <2> QED BY <2>1, WFMin, NatLessThanWellFounded
  <1>2. \A j \in T : ~(j < k)
    BY <1>1 DEF OpToRel
  <1>3. k # 0 /\ k - 1 \in Nat
    OBVIOUS
  <1>4. k - 1 \in S
    BY <1>2, <1>3
  <1> QED BY <1>3, <1>4

\* The same of the numbers up to n.
LEMMA UpTo ==
  ASSUME NEW n \in Nat, NEW S, 0 \in S, \A k \in 0 .. n - 1 : k \in S => k + 1 \in S
  PROVE  0 .. n \subseteq S
  <1> DEFINE T == {k \in Nat : k <= n => k \in S}
  <1>1. 0 \in T /\ \A k \in Nat : k \in T => k + 1 \in T
    OBVIOUS
  <1> HIDE DEF T
  <1>2. Nat \subseteq T
    BY <1>1, NatSet
  <1> QED BY <1>2 DEF T

\* Step i of the loop takes what was there to what step[i] says.
IsIterated(f, start, step, n) ==
  f = [i \in 0 .. n |-> IF i = 0 THEN start ELSE step[i][f[i - 1]]]

\* The loop has a value after every step, and it is one of the values the steps
\* are about.
LEMMA Iterated ==
  ASSUME NEW n \in Nat, NEW D, NEW start \in D, NEW step \in [1 .. n -> [D -> D]]
  PROVE  \E f \in [0 .. n -> D] : IsIterated(f, start, step, n)
  <1> DEFINE S == {k \in 0 .. n : \E f \in [0 .. k -> D] : IsIterated(f, start, step, k)}
  <1>1. 0 \in S
    <2> DEFINE f == [i \in 0 .. 0 |-> start]
    <2>1. f \in [0 .. 0 -> D] /\ IsIterated(f, start, step, 0)
      BY DEF IsIterated
    <2> QED BY <2>1
  <1>2. ASSUME NEW k \in 0 .. n - 1, k \in S PROVE k + 1 \in S
    <2>1. PICK f \in [0 .. k -> D] : IsIterated(f, start, step, k)
      BY <1>2
    <2> DEFINE g == [i \in 0 .. k + 1 |-> IF i = k + 1 THEN step[k + 1][f[k]] ELSE f[i]]
    <2>2. g \in [0 .. k + 1 -> D]
      <3>1. step[k + 1] \in [D -> D] /\ f[k] \in D
        OBVIOUS
      <3>2. step[k + 1][f[k]] \in D
        BY <3>1
      <3> QED BY <3>2
    <2>3. ASSUME NEW i \in 0 .. k + 1
          PROVE  g[i] = IF i = 0 THEN start ELSE step[i][g[i - 1]]
      <3>1. CASE i = k + 1
        BY <3>1
      <3>2. CASE i \in 0 .. k
        <4>1. g[i] = f[i] /\ (i # 0 => g[i - 1] = f[i - 1])
          BY <3>2
        <4>2. f[i] = IF i = 0 THEN start ELSE step[i][f[i - 1]]
          BY <2>1, <3>2 DEF IsIterated
        <4> QED BY <4>1, <4>2
      <3> QED BY <3>1, <3>2
    <2>4. IsIterated(g, start, step, k + 1)
      BY <2>3 DEF IsIterated
    <2> QED BY <2>2, <2>4
  <1> HIDE DEF S
  <1>3. 0 .. n \subseteq S
    BY <1>1, <1>2, UpTo
  <1> QED BY <1>3 DEF S

\* The least of some numbers.
LEMMA Least ==
  ASSUME NEW T \in SUBSET Nat, T # {}
  PROVE  \E k \in T : \A j \in T : k <= j
  <1>1. T \subseteq Nat
    OBVIOUS
  <1>2. PICK k \in T : \A j \in T : ~(<<j, k>> \in OpToRel(<, Nat))
    BY <1>1, WFMin, NatLessThanWellFounded
  <1>3. \A j \in T : ~(j < k)
    BY <1>1, <1>2 DEF OpToRel
  <1> QED BY <1>1, <1>3

\* f is the function within Walk.
IsWalked(f, a, S, n) ==
  f = [i \in 0 .. n |-> IF i = 0 THEN << >>
                        ELSE IF a[i] \in S THEN Append(f[i - 1], a[i]) ELSE f[i - 1]]

\* A set is walked over to its end, and nothing else is met.
LEMMA WalkIs ==
  ASSUME NEW V, NEW a \in Seq(V), NEW S
  PROVE  /\ Walk(a, S) \in Seq(V \cap S)
         /\ \A j \in DOMAIN a : a[j] \in S =>
              \E k \in DOMAIN Walk(a, S) : Walk(a, S)[k] = a[j]
  <1> DEFINE n == Len(a)
             D == Seq(V \cap S)
             m == CHOOSE f : IsWalked(f, a, S, n)
             go == [i \in 1 .. n |-> [s \in D |-> IF a[i] \in S THEN Append(s, a[i]) ELSE s]]
  <1>2. n \in Nat /\ \A i \in 1 .. n : a[i] \in V
    OBVIOUS
  <1>3. Walk(a, S) = m[n]
    BY DEF Walk, IsWalked
  <1> HIDE DEF n
  <1>4. \E f : IsWalked(f, a, S, n)
    <2>1. << >> \in D /\ go \in [1 .. n -> [D -> D]]
      BY <1>2
    <2> HIDE DEF D, go
    <2>2. PICK f \in [0 .. n -> D] : IsIterated(f, << >>, go, n)
      BY <1>2, <2>1, Iterated
    <2> USE DEF D, go
    <2>3. \A i \in 0 .. n : i # 0 =>
            go[i][f[i - 1]] = IF a[i] \in S THEN Append(f[i - 1], a[i]) ELSE f[i - 1]
      <3>1. \A i \in 0 .. n : i # 0 => i \in 1 .. n /\ i - 1 \in 0 .. n
        BY <1>2
      <3>2. \A i \in 0 .. n : i # 0 => f[i - 1] \in D
        BY <3>1
      <3> HIDE DEF D
      <3> QED BY <3>1, <3>2
    <2>4. \A i \in 0 .. n : f[i] = IF i = 0 THEN << >>
                 ELSE IF a[i] \in S THEN Append(f[i - 1], a[i]) ELSE f[i - 1]
      BY <2>2, <2>3 DEF IsIterated
    <2>5. f = [i \in 0 .. n |-> f[i]]
      OBVIOUS
    <2> HIDE DEF D, go
    <2> QED BY <2>4, <2>5 DEF IsWalked
  <1>5. IsWalked(m, a, S, n)
    BY <1>4, Zenon
  <1> HIDE DEF m
  <1> DEFINE Good(i) == /\ m[i] \in D
                        /\ \A j \in 1 .. i : a[j] \in S =>
                             \E k \in DOMAIN m[i] : m[i][k] = a[j]
             T == {i \in 0 .. n : Good(i)}
  <1>6. 0 \in T
    BY <1>2, <1>5 DEF IsWalked
  <1>7. ASSUME NEW i \in 0 .. n - 1, i \in T PROVE i + 1 \in T
    <2>1. m[i + 1] = IF a[i + 1] \in S THEN Append(m[i], a[i + 1]) ELSE m[i]
      <3>1. i + 1 \in 0 .. n /\ i + 1 # 0 /\ (i + 1) - 1 = i
        BY <1>2
      <3>2. m[i + 1] = IF i + 1 = 0 THEN << >>
              ELSE IF a[i + 1] \in S THEN Append(m[(i + 1) - 1], a[i + 1]) ELSE m[(i + 1) - 1]
        BY <1>5, <3>1 DEF IsWalked
      <3> QED BY <3>1, <3>2
    <2>2. m[i] \in D /\ a[i + 1] \in V
      BY <1>2, <1>7
    <2>3. m[i + 1] \in D
      BY <2>1, <2>2
    <2>4. ASSUME NEW j \in 1 .. i + 1, a[j] \in S
          PROVE  \E k \in DOMAIN m[i + 1] : m[i + 1][k] = a[j]
      <3>1. CASE j = i + 1
        <4> DEFINE s == m[i]
        <4>1. m[i + 1] = Append(s, a[j]) /\ s \in D /\ a[j] \in V
          BY <2>1, <2>2, <2>4, <3>1
        <4> HIDE DEF s
        <4>2. Len(s) + 1 \in DOMAIN Append(s, a[j]) /\ Append(s, a[j])[Len(s) + 1] = a[j]
          BY <4>1
        <4> QED BY <4>1, <4>2
      <3>2. CASE j \in 1 .. i
        <4>1. PICK k \in DOMAIN m[i] : m[i][k] = a[j]
          BY <1>7, <2>4, <3>2
        <4>2. k \in DOMAIN m[i + 1] /\ m[i + 1][k] = m[i][k]
          BY <2>1, <2>2
        <4> QED BY <4>1, <4>2
      <3> QED BY <3>1, <3>2
    <2> QED BY <1>2, <2>3, <2>4
  <1> HIDE DEF T
  <1>8. 0 .. n \subseteq T
    BY <1>2, <1>6, <1>7, UpTo
  <1>9. Good(n)
    BY <1>2, <1>8 DEF T
  <1> QED BY <1>3, <1>9 DEF n
=============================================================================
